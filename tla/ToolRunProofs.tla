--------------------------- MODULE ToolRunProofs ---------------------------
(***************************************************************************)
(* What every adapter of module ToolRun guarantees, for any number of jobs,*)
(* any output, any cap and any capacity of the pipe: no process and no     *)
(* clone outlives its job, a job that ends well has sent all its tool has  *)
(* found, and one that ends well without a finding hides no failure but    *)
(* those that its adapter is known to pass over.                           *)
(***************************************************************************)
EXTENDS ToolRun, SequenceTheorems, TLAPS

-----------------------------------------------------------------------------
(* The elements of a sequence.                                             *)

LEMMA ToSetOfEmpty == ToSet(<<>>) = {}
  BY DEF ToSet

LEMMA ToSetOfAppend ==
  ASSUME NEW S, NEW s \in Seq(S), NEW x \in S
  PROVE  ToSet(Append(s, x)) = ToSet(s) \cup {x}
  <1>1. Len(Append(s, x)) = Len(s) + 1 /\ Append(s, x)[Len(s) + 1] = x
        /\ \A i \in 1..Len(s) : Append(s, x)[i] = s[i]
    BY AppendProperties
  <1>2. DOMAIN s = 1..Len(s) /\ DOMAIN Append(s, x) = 1..(Len(s) + 1) /\ Len(s) \in Nat
    BY <1>1, LenProperties, AppendProperties
  <1> QED
    BY <1>1, <1>2 DEF ToSet

LEMMA ToSetOfHeadAndTail ==
  ASSUME NEW S, NEW s \in Seq(S), s # <<>>
  PROVE  /\ Head(s) \in S /\ Head(s) = s[1]
         /\ Tail(s) \in Seq(S) /\ Len(Tail(s)) = Len(s) - 1
         /\ ToSet(s) = {Head(s)} \cup ToSet(Tail(s))
  <1>1. /\ Len(s) \in Nat /\ Len(s) >= 1 /\ DOMAIN s = 1..Len(s)
    BY LenProperties, EmptySeq
  <1>2. /\ Head(s) = s[1] /\ Head(s) \in S /\ Tail(s) \in Seq(S) /\ Len(Tail(s)) = Len(s) - 1
        /\ \A i \in 1..(Len(s) - 1) : Tail(s)[i] = s[i + 1]
    BY <1>1, HeadTailProperties
  <1>3. DOMAIN Tail(s) = 1..(Len(s) - 1)
    BY <1>2, LenProperties
  <1>4. ASSUME NEW i \in 1..Len(s), i # 1
        PROVE  i - 1 \in 1..(Len(s) - 1) /\ Tail(s)[i - 1] = s[i]
    BY <1>1, <1>2, <1>4
  <1>5. ToSet(s) \subseteq {Head(s)} \cup ToSet(Tail(s))
    <2> SUFFICES ASSUME NEW i \in 1..Len(s)
                 PROVE  s[i] \in {Head(s)} \cup {Tail(s)[j] : j \in 1..(Len(s) - 1)}
      BY <1>1, <1>3 DEF ToSet
    <2>1. CASE i = 1
      BY <1>2, <2>1
    <2>2. CASE i # 1
      BY <1>4, <2>2
    <2> QED
      BY <2>1, <2>2
  <1>6. \A i \in 1..(Len(s) - 1) : i + 1 \in 1..Len(s)
    BY <1>1
  <1>7. {Head(s)} \cup ToSet(Tail(s)) \subseteq ToSet(s)
    BY <1>1, <1>2, <1>3, <1>6 DEF ToSet
  <1> QED
    BY <1>2, <1>5, <1>7

LEMMA ToSetIsTyped == ASSUME NEW S, NEW s \in Seq(S) PROVE ToSet(s) \subseteq S
  BY LenProperties, ElementOfSeq DEF ToSet

LEMMA SeqOfIsTyped ==
  ASSUME NEW S, NEW n \in Nat, NEW s \in SeqOf(S, n)
  PROVE  s \in Seq(S) /\ Len(s) <= n
  <1>1. PICK m \in 0..n : s \in [1..m -> S]
    BY DEF SeqOf
  <1>2. m \in Nat /\ m <= n
    BY <1>1
  <1>3. s \in Seq(S)
    BY <1>1, <1>2, SeqDef
  <1>4. DOMAIN s = 1..m /\ DOMAIN s = 1..Len(s) /\ Len(s) \in Nat
    BY <1>1, <1>3, LenProperties
  <1>5. Len(s) = m
    BY <1>2, <1>4
  <1> QED
    BY <1>2, <1>3, <1>5

-----------------------------------------------------------------------------
(* What the adapters have in common.                                       *)

LEMMA TheChoices ==
  ASSUME NEW t \in DOMAIN Adapter, NEW r, r = Adapter[t]
  PROVE  /\ r["reads"] \in {"lines", "document", "report"}
         /\ r["exit"] \in {"always", "whenEmpty", "never"}
         /\ r["reads"] # "report" => r["asks"] /\ r["exit"] # "never"
         /\ r["exit"] = "never" => r["missing"]
         /\ r["reads"] = "document" => ~r["cap"]
         /\ r["reads"] = "report" => ~r["hears"]
         /\ r["reads"] # "report" => ~r["clones"]
         /\ r["cap"] => ~r["strict"] /\ r["exit"] = "whenEmpty"
         /\ r["passes"] \subseteq {"nothing", "line", "aborted"}
  <1>1. DOMAIN Adapter = {"nmap", "rustscan", "nikto", "katana", "gau", "ffuf", "zap", "dirsearch",
                          "arjun", "wpscan", "gitleaks"}
    BY DEF Adapter
  <1>2. /\ Adapter["nmap"] = Nmap /\ Adapter["rustscan"] = Rustscan /\ Adapter["nikto"] = Nikto
        /\ Adapter["katana"] = Katana /\ Adapter["gau"] = Gau /\ Adapter["ffuf"] = Ffuf
        /\ Adapter["zap"] = Zap /\ Adapter["dirsearch"] = Dirsearch /\ Adapter["arjun"] = Arjun
        /\ Adapter["wpscan"] = Wpscan /\ Adapter["gitleaks"] = Gitleaks
    BY DEF Adapter
  <1>3. /\ \A a \in {Rustscan, Nikto, Katana, Gau, Ffuf} : a["reads"] = "lines"
        /\ Nmap["reads"] = "document"
    BY DEF Usual, Nmap, Rustscan, Nikto, Katana, Gau, Ffuf
  <1>4. \A a \in {Zap, Dirsearch, Arjun, Wpscan, Gitleaks} : a["reads"] = "report"
    BY DEF Usual, Zap, Dirsearch, Arjun, Wpscan, Gitleaks
  <1>5. \A a \in {Nmap, Rustscan, Nikto, Katana, Gau, Ffuf} : a["asks"] /\ ~a["clones"]
    BY DEF Usual, Nmap, Rustscan, Nikto, Katana, Gau, Ffuf
  <1>6. \A a \in {Nmap, Nikto, Katana, Gau, Ffuf, Dirsearch, Arjun} : a["exit"] = "whenEmpty"
    BY DEF Usual, Nmap, Nikto, Katana, Gau, Ffuf, Dirsearch, Arjun
  <1>7. /\ Rustscan["exit"] = "always" /\ Gitleaks["exit"] = "always"
        /\ \A a \in {Zap, Wpscan} : a["exit"] = "never" /\ a["missing"]
    BY DEF Usual, Rustscan, Gitleaks, Zap, Wpscan
  <1>8. \A a \in {Nmap, Rustscan, Nikto, Gau, Zap, Wpscan, Gitleaks} : ~a["cap"]
    BY DEF Usual, Nmap, Rustscan, Nikto, Gau, Zap, Wpscan, Gitleaks
  <1>9. \A a \in {Katana, Ffuf, Dirsearch, Arjun} : ~a["strict"]
    BY DEF Usual, Katana, Ffuf, Dirsearch, Arjun
  <1>10. \A a \in {Zap, Dirsearch, Arjun, Wpscan, Gitleaks} : ~a["hears"]
    BY DEF Usual, Zap, Dirsearch, Arjun, Wpscan, Gitleaks
  <1>11. \A a \in {Nmap, Rustscan, Nikto, Katana, Gau, Ffuf, Zap, Dirsearch, Arjun, Wpscan, Gitleaks} :
             a["passes"] \subseteq {"nothing", "line", "aborted"}
    <2>1. \A a \in {Nmap, Rustscan, Ffuf, Zap, Dirsearch, Arjun, Gitleaks} : a["passes"] = {}
      BY DEF Usual, Nmap, Rustscan, Ffuf, Zap, Dirsearch, Arjun, Gitleaks
    <2>2. /\ Nikto["passes"] = {"line"} /\ Wpscan["passes"] = {"aborted"}
          /\ Katana["passes"] = {"nothing"} /\ Gau["passes"] = {"nothing"}
      BY DEF Usual, Nikto, Katana, Gau, Wpscan
    <2> QED
      BY <2>1, <2>2
  <1> QED
    BY <1>1, <1>2, <1>3, <1>4, <1>5, <1>6, <1>7, <1>8, <1>9, <1>10, <1>11

LEMMA ItsChoices ==
  ASSUME tool \in Tools
  PROVE  /\ Its("reads") \in {"lines", "document", "report"}
         /\ Its("exit") \in {"always", "whenEmpty", "never"}
         /\ Its("reads") # "report" => Its("asks") /\ Its("exit") # "never"
         /\ Its("exit") = "never" => Its("missing")
         /\ Its("reads") = "document" => ~Its("cap")
         /\ Its("reads") = "report" => ~Its("hears")
         /\ Its("reads") # "report" => ~Its("clones")
         /\ Its("cap") => ~Its("strict") /\ Its("exit") = "whenEmpty"
         /\ Its("passes") \subseteq {"nothing", "line", "aborted"}
  <1>1. tool \in DOMAIN Adapter
    BY ToolAssumption
  <1> QED
    BY <1>1, TheChoices DEF Its

(* A container keeps its adapter.                                          *)
LEMMA SameTool == [Next]_vars => tool' = tool /\ \A c : Its(c)' = Its(c)
  <1> SUFFICES ASSUME [Next]_vars PROVE tool' = tool
    BY DEF Its
  <1> QED
    BY DEF Next, StartJob, CloneEnds, CloneDies, Cancel, Expire, ToolPrints, ToolExits, ToolDies,
           Ends, Execute, ReadLine, ReadEnd, SendFinding, SkipRepeat, SentAll, SendIsStopped,
           Reap, Idle, vars, job

-----------------------------------------------------------------------------
(* Types, and where the process and the clone of a job can be.             *)

TypeInv ==
    /\ TypeOK
    /\ Its("reads") = "report" => printed \in Seq(Lines)

ProcInv ==
    /\ pc = "idle" => proc = "none" /\ ~checkout
    /\ pc = "cloning" => proc = "none" /\ Its("reads") = "report"
    /\ pc = "reading" => Its("reads") # "report"
    /\ pc = "sending" /\ Its("reads") = "report" => proc = "none"

LEMMA TypeStep == TypeInv /\ ProcInv /\ [Next]_vars => TypeInv'
  <1> SUFFICES ASSUME TypeInv, ProcInv, [Next]_vars PROVE TypeInv'
    OBVIOUS
  <1>1. tool' = tool /\ Its("reads")' = Its("reads")
    BY SameTool
  <1>2. /\ MaxPrints \in Nat /\ PipeSize \in Nat /\ MaxJobs \in Nat
        /\ Lines \subseteq Lines \cup Unusable
        /\ <<>> \in Seq(Lines) /\ <<>> \in Seq(Lines \cup Unusable) /\ Len(<<>>) = 0
    BY ToolAssumption, EmptySeq
  <1> USE DEF TypeInv, TypeOK, job, config, process, reader, contexts, control, Go, Return, ReapThen
  <1>3. CASE StartJob
    <2>1. /\ jobs' = jobs + 1 /\ jobs < MaxJobs /\ env' = env
          /\ profile' \in Profiles \cup {None} /\ used' \in Profiles \cup {None}
          /\ proc' \in {proc, "running"} /\ exit' = None /\ shot' = FALSE
          /\ printed' = <<>> /\ pipe' = <<>> /\ report' = "missing" /\ marker' = FALSE
          /\ failure' = None /\ pc' \in {pc, "waiting", "reading", "cloning"}
      BY <1>3 DEF StartJob, Decoded
    <2>2. /\ todo' = <<>> /\ emitted' = <<>> /\ readErr' = FALSE /\ odd' = FALSE /\ cut' = FALSE
          /\ given' = None /\ result' \in {None, "error"} /\ checkout' \in {checkout, TRUE, FALSE}
          /\ cancelled' = FALSE /\ expired' = FALSE
      BY <1>3 DEF StartJob
    <2>3. jobs' \in 0..MaxJobs
      BY <2>1, <1>2
    <2>4. /\ printed' \in Seq(Lines \cup Unusable) /\ Len(printed') <= MaxPrints
          /\ pipe' \in Seq(Lines \cup Unusable) /\ Len(pipe') <= PipeSize
          /\ printed' \in Seq(Lines) /\ todo' \in Seq(Lines) /\ emitted' \in Seq(Lines)
      <3>1. 0 <= MaxPrints /\ 0 <= PipeSize
        BY <1>2
      <3> QED
        BY <1>2, <2>1, <2>2, <3>1
    <2>5. /\ {env, profile, used}' \subseteq Profiles \cup {None}
          /\ pc' \in {"idle", "cloning", "reading", "sending", "waiting"}
      BY <2>1
    <2>6. /\ proc' \in {"none", "running", "exited"}
          /\ exit' \in {None, "zero", "nonzero", "killed"} /\ shot' \in BOOLEAN
          /\ report' \in {"missing", "garbled", "whole"} /\ marker' \in BOOLEAN
          /\ failure' \in Failures
      BY <2>1 DEF Failures
    <2>7. /\ {readErr, odd, cut, checkout, cancelled, expired}' \subseteq BOOLEAN
          /\ {given, result}' \subseteq {None, "ok", "error", "stopped"}
      BY <2>2
    <2> QED
      BY <1>1, <2>3, <2>4, <2>5, <2>6, <2>7
  <1>4. CASE CloneEnds \/ CloneDies
    BY <1>1, <1>4 DEF CloneEnds, CloneDies, StartTool
  <1>5. CASE Cancel \/ Expire
    BY <1>1, <1>5 DEF Cancel, Expire
  <1>6. CASE ToolPrints
    <2> USE <1>6 DEF ToolPrints
    <2>1. PICK line \in Lines \cup Unusable :
              pipe' = Append(pipe, line) /\ printed' = Append(printed, line)
      OBVIOUS
    <2>2. /\ Len(pipe) \in Nat /\ Len(printed) \in Nat
          /\ pipe' \in Seq(Lines \cup Unusable) /\ Len(pipe') = Len(pipe) + 1
          /\ printed' \in Seq(Lines \cup Unusable) /\ Len(printed') = Len(printed) + 1
      BY <2>1, AppendProperties, LenProperties
    <2>3. Len(pipe') <= PipeSize /\ Len(printed') <= MaxPrints
      BY <2>2, <1>2
    <2> QED
      BY <1>1, <2>2, <2>3
  <1>7. CASE ToolExits \/ ToolDies
    <2> USE <1>7 DEF ToolExits, ToolDies, Ends
    <2>1. /\ proc' = "exited" /\ exit' \in {"zero", "nonzero", "killed"} /\ marker' \in BOOLEAN
          /\ report' \in {"missing", "garbled", "whole"}
          /\ failure' \in {None, "exit", "marker", "report"} \cup Its("passes")
          /\ UNCHANGED <<job, jobs, config, shot, pipe, control, reader, contexts>>
      OBVIOUS
    <2>4. failure' \in Failures
      BY <2>1, ItsChoices DEF Failures
    <2>2. CASE printed' = printed
      BY <1>1, <2>1, <2>2, <2>4
    <2>3. CASE printed' \in SeqOf(Lines, MaxPrints)
      <3>1. printed' \in Seq(Lines) /\ Len(printed') <= MaxPrints
        BY <1>2, <2>3, SeqOfIsTyped
      <3>2. printed' \in Seq(Lines \cup Unusable)
        BY <1>2, <3>1, SeqMonotonic
      <3> QED
        BY <1>1, <2>1, <2>4, <3>1, <3>2
    <2> QED
      BY <2>2, <2>3
  <1>8. CASE ReadLine
    <2> USE <1>8 DEF ReadLine
    <2>1. /\ Head(pipe) \in Lines \cup Unusable /\ pipe' \in Seq(Lines \cup Unusable)
          /\ Len(pipe') = Len(pipe) - 1 /\ Len(pipe) \in Nat
      BY ToSetOfHeadAndTail, LenProperties
    <2>2. Len(pipe') <= PipeSize
      BY <1>2, <2>1
    <2>3. todo' \in Seq(Lines)
      <3>1. \/ todo' \in {todo, <<>>}
            \/ Head(pipe) \notin Unusable /\ todo' = Append(todo, Head(pipe))
        BY DEF TakeLine, ReadFails, IsFinding, Unusable
      <3>2. CASE todo' \in {todo, <<>>}
        BY <1>2, <3>2
      <3>3. CASE Head(pipe) \notin Unusable /\ todo' = Append(todo, Head(pipe))
        <4>1. PICK line \in Lines : line = Head(pipe)
          BY <2>1, <3>3
        <4> QED
          BY <3>3, <4>1, AppendProperties
      <3> QED
        BY <3>1, <3>2, <3>3
    <2>4. /\ pc' \in {pc, "waiting", "reading", "sending"}
          /\ UNCHANGED <<given, result, checkout, emitted>>
          /\ readErr' \in {readErr, TRUE} /\ odd' \in {odd, TRUE} /\ cut' \in {cut, TRUE}
          /\ shot' \in {shot, TRUE}
      BY DEF TakeLine, ReadFails, ReadError
    <2>5. /\ pc' \in {"idle", "cloning", "reading", "sending", "waiting"}
          /\ {readErr, odd, cut, checkout, cancelled, expired}' \subseteq BOOLEAN
          /\ shot' \in BOOLEAN /\ {given, result}' \subseteq {None, "ok", "error", "stopped"}
      BY <2>4
    <2>6. UNCHANGED <<job, jobs, config, process, emitted>>
      BY <2>4
    <2> QED
      BY <1>1, <2>1, <2>2, <2>3, <2>5, <2>6
  <1>9. CASE ReadEnd
    <2>1. /\ pc' \in {"waiting", "sending"} /\ UNCHANGED <<given, result, checkout, emitted, odd, cut>>
          /\ readErr' \in {readErr, TRUE} /\ shot' \in {shot, TRUE} /\ todo' \in {todo, <<>>}
          /\ UNCHANGED <<job, jobs, config, process, pipe, contexts>>
      BY <1>9 DEF ReadEnd, ReadFails, ReadError
    <2> QED
      BY <1>1, <1>2, <2>1
  <1>10. CASE SendFinding
    <2> USE <1>10 DEF SendFinding, AtSend
    <2>1. Head(todo) \in Lines /\ todo' \in Seq(Lines)
      BY ToSetOfHeadAndTail
    <2>2. emitted' \in Seq(Lines)
      BY <2>1, AppendProperties
    <2> QED
      BY <1>1, <2>1, <2>2
  <1>11. CASE SkipRepeat
    <2> USE <1>11 DEF SkipRepeat
    <2>1. todo' \in Seq(Lines)
      BY ToSetOfHeadAndTail
    <2> QED
      BY <1>1, <2>1
  <1>12. CASE SentAll
    <2>1. /\ UNCHANGED <<job, jobs, config, process, shot, pipe, reader, contexts, given>>
          /\ \/ pc' = "idle" /\ result' = Verdict(emitted) /\ checkout' = FALSE
             \/ pc' = "waiting" /\ UNCHANGED <<result, checkout>>
      BY <1>12 DEF SentAll
    <2>2. Verdict(emitted) \in {"ok", "error"}
      BY DEF Verdict
    <2> QED
      BY <1>1, <2>1, <2>2
  <1>13. CASE SendIsStopped
    BY <1>1, <1>13 DEF SendIsStopped, GiveUp
  <1>14. CASE Reap
    <2>1. /\ UNCHANGED <<job, jobs, config, exit, printed, report, marker, failure, shot, pipe,
                         emitted, readErr, odd, cut, contexts, given>>
          /\ proc' = "none"
          /\ pc' \in {"idle", "sending"} /\ checkout' \in {checkout, FALSE}
          /\ result' \in {result, given, "stopped", "error", Verdict(emitted)}
      BY <1>14 DEF Reap, ReadReport
    <2>2. todo' = todo \/ todo' = <<>> \/ (Its("reads") = "report" /\ todo' = printed)
      BY <1>14 DEF Reap, ReadReport
    <2>3. Verdict(emitted) \in {"ok", "error"}
      BY DEF Verdict
    <2>4. todo' \in Seq(Lines)
      BY <1>2, <2>2
    <2>5. result' \in {None, "ok", "error", "stopped"}
      BY <2>1, <2>3
    <2> QED
      BY <1>1, <2>1, <2>4, <2>5
  <1>15. CASE UNCHANGED vars
    BY <1>1, <1>15 DEF vars
  <1> QED
    BY <1>3, <1>4, <1>5, <1>6, <1>7, <1>8, <1>9, <1>10, <1>11, <1>12, <1>13, <1>14, <1>15
    DEF Next, Execute, Idle

LEMMA ProcStep == TypeInv /\ ProcInv /\ [Next]_vars => ProcInv'
  <1> SUFFICES ASSUME TypeInv, ProcInv, [Next]_vars PROVE ProcInv'
    OBVIOUS
  <1>1. Its("reads")' = Its("reads")
    BY SameTool
  <1> USE <1>1 DEF ProcInv, job, config, process, reader, contexts, control, Go, Return, ReapThen
  <1>2. CASE StartJob
    <2>1. Its("reads") # "report" => ~Its("clones")
      BY ItsChoices DEF TypeInv, TypeOK
    <2> QED
      BY <1>2, <2>1 DEF StartJob, Ended
  <1>3. CASE CloneEnds \/ CloneDies
    BY <1>3 DEF CloneEnds, CloneDies, StartTool
  <1>4. CASE Cancel \/ Expire \/ ToolPrints
    BY <1>4 DEF Cancel, Expire, ToolPrints
  <1>5. CASE ToolExits \/ ToolDies
    BY <1>5 DEF ToolExits, ToolDies, Ends
  <1>6. CASE ReadLine \/ ReadEnd
    BY <1>6 DEF ReadLine, TakeLine, ReadEnd, ReadFails
  <1>7. CASE SendFinding \/ SkipRepeat \/ SentAll
    BY <1>7 DEF SendFinding, AtSend, SkipRepeat, SentAll
  <1>8. CASE SendIsStopped
    BY <1>8 DEF SendIsStopped, AtSend, GiveUp
  <1>9. CASE Reap
    BY <1>9 DEF Reap, ReadReport
  <1>10. CASE UNCHANGED vars
    BY <1>10 DEF vars
  <1> QED
    BY <1>2, <1>3, <1>4, <1>5, <1>6, <1>7, <1>8, <1>9, <1>10 DEF Next, Execute, Idle

-----------------------------------------------------------------------------
(* Why a job is stopped, its tool killed, its output given up.             *)

StopInv ==
    /\ pc # "idle" => result = None /\ given \in {None, "stopped"}
    /\ given # None => Stopped /\ pc \in {"waiting", "idle"} /\ Its("reads") # "report"
    /\ readErr \/ cut => pc \in {"waiting", "idle"} /\ given = None /\ Its("reads") # "report"
    /\ shot => readErr \/ cut \/ given # None
    /\ exit = "killed" => Stopped \/ shot

LEMMA StopStep == TypeInv /\ ProcInv /\ StopInv /\ [Next]_vars => StopInv'
  <1> SUFFICES ASSUME TypeInv, ProcInv, StopInv, [Next]_vars PROVE StopInv'
    OBVIOUS
  <1>1. Its("reads")' = Its("reads")
    BY SameTool
  <1>2. Its("reads") = "report" => ~Its("hears")
    BY ItsChoices DEF TypeInv, TypeOK
  <1>3. {readErr, cut, shot, cancelled, expired} \subseteq BOOLEAN
    BY DEF TypeInv, TypeOK
  <1> USE DEF StopInv, Stopped, job, config, process, reader, contexts, control, Go, Return, ReapThen
  <1>4. CASE StartJob
    BY <1>1, <1>4 DEF StartJob, Ended, None
  <1>5. CASE CloneEnds \/ CloneDies
    BY <1>1, <1>5 DEF CloneEnds, CloneDies, StartTool
  <1>6. CASE Cancel \/ Expire
    BY <1>1, <1>3, <1>6 DEF Cancel, Expire
  <1>7. CASE ToolPrints
    BY <1>1, <1>7 DEF ToolPrints
  <1>8. CASE ToolExits \/ ToolDies
    <2>1. /\ UNCHANGED <<pc, given, result, readErr, cut, shot, cancelled, expired>>
          /\ exit' \in {"zero", "nonzero"} \/ Stopped \/ shot
      BY <1>8 DEF ToolExits, ToolDies, ContextKills, Ends
    <2> QED
      BY <1>1, <2>1
  <1>9. CASE ReadLine
    <2>1. ~readErr /\ ~cut /\ given = None /\ ~shot /\ Its("reads") # "report" /\ result = None
      BY <1>9 DEF ReadLine, ProcInv
    <2>2. /\ UNCHANGED <<given, result, exit, cancelled, expired>>
          /\ pc' \in {"reading", "sending", "waiting"}
          /\ \/ UNCHANGED <<readErr, cut, shot>>
             \/ pc' = "waiting" /\ readErr' = TRUE /\ cut' = cut
             \/ pc' = "waiting" /\ cut' = TRUE /\ readErr' = readErr
      BY <1>9 DEF ReadLine, TakeLine, ReadFails
    <2> QED
      BY <1>1, <2>1, <2>2
  <1>10. CASE ReadEnd
    <2>1. ~readErr /\ ~cut /\ given = None /\ ~shot /\ Its("reads") # "report" /\ result = None
      BY <1>10 DEF ReadEnd, ProcInv
    <2>2. /\ UNCHANGED <<given, result, exit, cancelled, expired, cut>>
          /\ pc' \in {"sending", "waiting"}
          /\ UNCHANGED <<readErr, shot>> \/ (pc' = "waiting" /\ readErr' = TRUE)
      BY <1>10 DEF ReadEnd, ReadFails
    <2> QED
      BY <1>1, <2>1, <2>2
  <1>11. CASE SendFinding \/ SkipRepeat
    BY <1>1, <1>11 DEF SendFinding, AtSend, SkipRepeat
  <1>12. CASE SentAll
    <2>1. /\ UNCHANGED <<given, readErr, cut, shot, exit, cancelled, expired>> /\ pc = "sending"
          /\ pc' = "idle" \/ (pc' = "waiting" /\ result' = result)
      BY <1>12 DEF SentAll
    <2> QED
      BY <1>1, <2>1
  <1>13. CASE SendIsStopped
    <2>1. ~readErr /\ ~cut /\ given = None /\ ~shot /\ result = None /\ Stopped
      BY <1>13 DEF SendIsStopped, AtSend
    <2>2. /\ UNCHANGED <<readErr, cut, exit, cancelled, expired>>
          /\ \/ Its("reads") = "report" /\ pc' = "idle" /\ UNCHANGED <<given, shot>>
             \/ /\ Its("reads") # "report" /\ pc' = "waiting" /\ result' = result
                /\ given' = "stopped"
      BY <1>2, <1>13 DEF SendIsStopped, AtSend, GiveUp
    <2> QED
      BY <1>1, <2>1, <2>2 DEF None
  <1>14. CASE Reap
    <2>1. /\ UNCHANGED <<given, readErr, cut, shot, exit, cancelled, expired>>
          /\ \/ pc' = "idle"
             \/ pc' = "sending" /\ Its("reads") = "report" /\ result' = result
      BY <1>14 DEF Reap, ReadReport
    <2>2. pc = "waiting"
      BY <1>14 DEF Reap
    <2> QED
      BY <1>1, <2>1, <2>2
  <1>15. CASE UNCHANGED vars
    BY <1>1, <1>15 DEF vars
  <1> QED
    BY <1>4, <1>5, <1>6, <1>7, <1>8, <1>9, <1>10, <1>11, <1>12, <1>13, <1>14, <1>15
    DEF Next, Execute, Idle

-----------------------------------------------------------------------------
(* The findings of a job.                                                  *)

(* What the tool has found was sent, is to be sent, or is still to be read.*)
Accounted ==
    ToSet(printed) \cap Lines = (ToSet(emitted) \cup ToSet(todo) \cup ToSet(pipe)) \cap Lines

CapInv ==
    /\ Its("cap") => Len(emitted) <= MaxUrls
    /\ cut => Its("cap") /\ Len(emitted) = MaxUrls /\ ~readErr

(* A tool whose stdout is read.  Line by line there is one finding in the  *)
(* loop that sends, new and below the cap; a document is read to its end   *)
(* before the first one is sent.                                           *)
StreamInv ==
    Its("reads") # "report" =>
        /\ ~readErr /\ ~cut => Accounted
        /\ pc = "reading" /\ Its("reads") = "lines" => todo = <<>>
        /\ pc = "sending" /\ Its("reads") = "lines" => AtSend /\ Len(todo) = 1
        /\ pc = "reading" /\ Its("reads") = "document" => emitted = <<>>
        /\ pc = "sending" /\ Its("reads") = "document" => pipe = <<>>
        /\ pc = "waiting" /\ given = None /\ ~readErr /\ ~cut =>
               /\ todo = <<>> /\ pipe = <<>>
               /\ Its("reads") = "lines" => proc # "running"

(* A tool that writes a report.                                            *)
ReportInv ==
    Its("reads") = "report" =>
        /\ pipe = <<>>
        /\ report # "whole" => printed = <<>>
        /\ pc \in {"cloning", "waiting"} => todo = <<>> /\ emitted = <<>>
        /\ pc = "cloning" \/ proc = "running" => report = "missing"
        /\ pc = "sending" => Accounted /\ (Its("missing") => report = "whole")

LEMMA CapStep == TypeInv /\ ProcInv /\ StopInv /\ CapInv /\ [Next]_vars => CapInv'
  <1> SUFFICES ASSUME TypeInv, ProcInv, StopInv, CapInv, [Next]_vars PROVE CapInv'
    OBVIOUS
  <1>1. Its("cap")' = Its("cap")
    BY SameTool
  <1>2. /\ MaxUrls \in Nat /\ Len(<<>>) = 0 /\ Len(emitted) \in Nat
        /\ {readErr, cut} \subseteq BOOLEAN
    BY ToolAssumption, LenProperties, EmptySeq DEF TypeInv, TypeOK
  <1> USE DEF CapInv, job, config, process, reader, contexts, control, Go, Return, ReapThen
  <1>3. CASE StartJob
    BY <1>1, <1>2, <1>3 DEF StartJob
  <1>4. CASE CloneEnds \/ CloneDies \/ Cancel \/ Expire \/ ToolPrints \/ ToolExits \/ ToolDies
    <2>1. UNCHANGED <<emitted, cut, readErr>>
      BY <1>4 DEF CloneEnds, CloneDies, Cancel, Expire, ToolPrints, ToolExits, ToolDies, Ends
    <2> QED
      BY <1>1, <2>1
  <1>5. CASE ReadLine
    <2>1. ~readErr /\ ~cut
      BY <1>5 DEF ReadLine, StopInv
    <2>2. /\ emitted' = emitted
          /\ \/ UNCHANGED <<cut, readErr>>
             \/ cut' = cut /\ readErr' = TRUE
             \/ CapReached(emitted) /\ cut' = TRUE /\ readErr' = readErr
      BY <1>5 DEF ReadLine, TakeLine, ReadFails
    <2> QED
      BY <1>1, <1>2, <2>1, <2>2 DEF CapReached
  <1>6. CASE ReadEnd
    <2>1. ~cut
      BY <1>6 DEF ReadEnd, StopInv
    <2>2. emitted' = emitted /\ cut' = cut
      BY <1>6 DEF ReadEnd, ReadFails
    <2> QED
      BY <1>1, <1>2, <2>1, <2>2
  <1>7. CASE SendFinding
    <2>1. ~cut /\ UNCHANGED <<cut, readErr>> /\ ~CapReached(emitted) /\ emitted' = Append(emitted, Head(todo))
      BY <1>7 DEF SendFinding, AtSend, StopInv
    <2>2. PICK x \in Lines : x = Head(todo)
      BY <1>7, ToSetOfHeadAndTail DEF SendFinding, AtSend, TypeInv, TypeOK
    <2>3. Len(emitted') = Len(emitted) + 1
      BY <2>1, <2>2, AppendProperties DEF TypeInv, TypeOK
    <2> QED
      BY <1>1, <1>2, <2>1, <2>3 DEF CapReached
  <1>8. CASE SkipRepeat \/ SentAll \/ SendIsStopped \/ Reap
    <2>1. UNCHANGED <<emitted, cut, readErr>>
      BY <1>8 DEF SkipRepeat, SentAll, SendIsStopped, Reap
    <2> QED
      BY <1>1, <2>1
  <1>9. CASE UNCHANGED vars
    BY <1>1, <1>9 DEF vars
  <1> QED
    BY <1>3, <1>4, <1>5, <1>6, <1>7, <1>8, <1>9 DEF Next, Execute, Idle

LEMMA ReportStep == TypeInv /\ ProcInv /\ ReportInv /\ [Next]_vars => ReportInv'
  <1> SUFFICES ASSUME TypeInv, ProcInv, ReportInv, [Next]_vars, Its("reads") = "report"
               PROVE  ReportInv'
    BY SameTool DEF ReportInv
  <1>1. UNCHANGED <<Its("reads"), Its("missing")>>
    BY SameTool
  <1>2. pc # "reading"
    BY DEF ProcInv
  <1> USE DEF ReportInv, job, config, process, reader, contexts, control, Go, Return, ReapThen
  <1>3. CASE StartJob
    BY <1>1, <1>3 DEF StartJob, Ended, ProcInv
  <1>4. CASE CloneEnds \/ CloneDies
    BY <1>1, <1>4 DEF CloneEnds, CloneDies, StartTool
  <1>5. CASE Cancel \/ Expire
    BY <1>1, <1>5 DEF Cancel, Expire, Accounted
  <1>6. CASE ToolPrints
    BY <1>6 DEF ToolPrints
  <1>7. CASE ToolExits \/ ToolDies
    <2>1. /\ proc = "running" /\ proc' = "exited" /\ pc' = pc /\ UNCHANGED <<pipe, todo, emitted>>
          /\ report' \in {"missing", "garbled", "whole"} /\ (report' # "whole" => printed' = printed)
      BY <1>7 DEF ToolExits, ToolDies, Ends
    <2>2. pc \notin {"cloning", "sending"}
      BY <2>1 DEF ProcInv
    <2> QED
      BY <1>1, <2>1, <2>2
  <1>8. CASE ReadLine \/ ReadEnd
    BY <1>2, <1>8 DEF ReadLine, ReadEnd
  <1>9. CASE SendFinding
    <2>1. /\ pc = "sending" /\ pc' = "sending" /\ todo # <<>>
          /\ emitted' = Append(emitted, Head(todo)) /\ todo' = Tail(todo)
          /\ UNCHANGED <<pipe, report, printed, proc>>
      BY <1>9 DEF SendFinding, AtSend
    <2>2. todo \in Seq(Lines) /\ emitted \in Seq(Lines)
      BY DEF TypeInv, TypeOK
    <2>3. PICK x \in Lines : x = Head(todo) /\ ToSet(todo) = {x} \cup ToSet(Tail(todo))
      BY <2>1, <2>2, ToSetOfHeadAndTail
    <2>4. ToSet(emitted') = ToSet(emitted) \cup {x}
      BY <2>1, <2>2, <2>3, ToSetOfAppend
    <2>5. Accounted'
      BY <2>1, <2>3, <2>4 DEF Accounted
    <2> QED
      BY <1>1, <2>1, <2>5
  <1>10. CASE SkipRepeat
    <2>1. /\ pc = "sending" /\ pc' = "sending" /\ todo # <<>> /\ Head(todo) \in ToSet(emitted)
          /\ todo' = Tail(todo) /\ UNCHANGED <<pipe, report, printed, proc, emitted>>
      BY <1>10 DEF SkipRepeat, Repeats
    <2>2. ToSet(todo) = {Head(todo)} \cup ToSet(Tail(todo))
      BY <2>1, ToSetOfHeadAndTail DEF TypeInv, TypeOK
    <2>3. Accounted'
      BY <2>1, <2>2 DEF Accounted
    <2> QED
      BY <1>1, <2>1, <2>3
  <1>11. CASE SentAll
    BY <1>1, <1>11 DEF SentAll, ProcInv
  <1>12. CASE SendIsStopped
    BY <1>1, <1>12 DEF SendIsStopped, AtSend, GiveUp, ProcInv
  <1>13. CASE Reap
    <2>1. /\ pc = "waiting" /\ proc' = "none" /\ UNCHANGED <<emitted, pipe, printed, report>>
          /\ \/ pc' = "idle"
             \/ /\ pc' = "sending" /\ ~NoReport
                /\ todo' = IF report = "whole" THEN printed ELSE <<>>
      BY <1>13 DEF Reap, ReadReport
    <2>2. pc' = "sending" => Accounted' /\ (Its("missing") => report = "whole")
      <3> SUFFICES ASSUME pc' = "sending"
                   PROVE  Accounted' /\ (Its("missing") => report = "whole")
        OBVIOUS
      <3>1. todo' = printed /\ emitted' = <<>> /\ pipe' = <<>>
        BY <2>1
      <3>2. Accounted'
        BY <2>1, <3>1, ToSetOfEmpty DEF Accounted
      <3>3. report \in {"missing", "garbled", "whole"}
        BY DEF TypeInv, TypeOK
      <3> QED
        BY <2>1, <3>2, <3>3 DEF NoReport
    <2> QED
      BY <1>1, <2>1, <2>2
  <1>14. CASE UNCHANGED vars
    BY <1>1, <1>14 DEF vars, Accounted
  <1> QED
    BY <1>3, <1>4, <1>5, <1>6, <1>7, <1>8, <1>9, <1>10, <1>11, <1>12, <1>13, <1>14
    DEF Next, Execute, Idle

(* What a line does to the findings of the job: none is lost, except when  *)
(* the output is given up or the cap is reached.                           *)
LEMMA LineIsAccounted ==
  ASSUME TypeInv, StopInv, StreamInv, ReadLine, Its("reads") # "report"
  PROVE  ~readErr' /\ ~cut' => Accounted'
  <1> SUFFICES ASSUME ~readErr', ~cut' PROVE Accounted'
    OBVIOUS
  <1> USE DEF ReadLine, process, reader, Go
  <1>1. /\ Accounted /\ UNCHANGED <<printed, emitted>>
        /\ pipe # <<>> /\ pipe' = Tail(pipe) /\ TakeLine(Head(pipe))
    BY DEF StreamInv, StopInv, TakeLine, ReadFails
  <1>2. ToSet(pipe) = {Head(pipe)} \cup ToSet(pipe')
    BY <1>1, ToSetOfHeadAndTail DEF TypeInv, TypeOK
  <1>3. CASE todo' = todo /\ Head(pipe) \notin Lines
    BY <1>1, <1>2, <1>3 DEF Accounted
  <1>4. CASE todo' = todo /\ Head(pipe) \in ToSet(emitted)
    BY <1>1, <1>2, <1>4 DEF Accounted
  <1>5. CASE todo' = Append(todo, Head(pipe))
    <2>1. PICK x : x = Head(pipe)
      OBVIOUS
    <2>2. todo \in Seq(Lines \cup {x}) /\ x \in Lines \cup {x}
      BY SeqMonotonic DEF TypeInv, TypeOK
    <2>3. ToSet(todo') = ToSet(todo) \cup {x}
      <3> DEFINE S == Lines \cup {x}
      <3>1. todo \in Seq(S) /\ x \in S
        BY <2>2
      <3> HIDE DEF S
      <3> QED
        BY <1>5, <2>1, <3>1, ToSetOfAppend
    <2> QED
      BY <1>1, <1>2, <2>1, <2>3 DEF Accounted
  <1>6. \/ todo' = todo /\ Head(pipe) \notin Lines
        \/ todo' = todo /\ Head(pipe) \in ToSet(emitted)
        \/ todo' = Append(todo, Head(pipe))
    <2>1. Lines \cap {"odd", "refused"} = {}
      BY ToolAssumption DEF Unusable
    <2> QED
      BY <1>1, <2>1 DEF TakeLine, ReadFails, Repeats, IsFinding
  <1> QED
    BY <1>3, <1>4, <1>5, <1>6

LEMMA StreamStep == TypeInv /\ ProcInv /\ StopInv /\ StreamInv /\ [Next]_vars => StreamInv'
  <1> SUFFICES ASSUME TypeInv, ProcInv, StopInv, StreamInv, [Next]_vars, Its("reads") # "report"
               PROVE  StreamInv'
    BY SameTool DEF StreamInv
  <1>1. UNCHANGED <<Its("reads"), Its("cap"), Its("dedupe")>>
    BY SameTool
  <1>2. /\ Its("reads") \in {"lines", "document"} /\ (Its("reads") = "document" => ~Its("cap"))
        /\ {readErr, cut}  \subseteq BOOLEAN
    BY ItsChoices DEF TypeInv, TypeOK
  <1>3. /\ printed \in Seq(Lines \cup Unusable) /\ pipe \in Seq(Lines \cup Unusable)
        /\ todo \in Seq(Lines) /\ emitted \in Seq(Lines)
    BY DEF TypeInv, TypeOK
  <1> USE DEF StreamInv, job, config, process, reader, contexts, control, Go, Return, ReapThen
  <1>4. CASE StartJob
    <2>1. /\ printed' = <<>> /\ pipe' = <<>> /\ todo' = <<>> /\ emitted' = <<>>
          /\ pc' \in {"idle", "reading", "cloning", "waiting"}
          /\ pc' = "waiting" => Its("reads") = "report"
      BY <1>4 DEF StartJob, Ended
    <2>2. Accounted'
      BY <2>1, ToSetOfEmpty DEF Accounted
    <2> QED
      BY <1>1, <2>1, <2>2
  <1>5. CASE CloneEnds \/ CloneDies
    BY <1>5 DEF CloneEnds, CloneDies, ProcInv
  <1>6. CASE Cancel \/ Expire
    BY <1>1, <1>6 DEF Cancel, Expire, Accounted, AtSend, Repeats, CapReached
  <1>7. CASE ToolPrints
    <2> USE <1>7 DEF ToolPrints
    <2>1. /\ UNCHANGED <<pc, given, todo, emitted, readErr, cut, proc>> /\ proc = "running"
          /\ Its("reads") = "document" => pc = "reading" \/ readErr
      OBVIOUS
    <2>2. ~readErr /\ ~cut => pc # "waiting" \/ given # None
      BY <1>2, <2>1
    <2>3. Its("reads") = "document" => pc # "sending"
      BY <2>1 DEF StopInv
    <2>4. PICK line \in Lines \cup Unusable :
              pipe' = Append(pipe, line) /\ printed' = Append(printed, line)
      OBVIOUS
    <2>5. ToSet(pipe') = ToSet(pipe) \cup {line} /\ ToSet(printed') = ToSet(printed) \cup {line}
      <3> DEFINE S == Lines \cup Unusable
      <3>1. pipe \in Seq(S) /\ printed \in Seq(S) /\ line \in S
        BY <1>3
      <3> HIDE DEF S
      <3> QED
        BY <2>4, <3>1, ToSetOfAppend
    <2>6. ~readErr /\ ~cut => Accounted'
      BY <2>1, <2>5 DEF Accounted
    <2>7. AtSend' = AtSend
      BY <1>1, <2>1 DEF AtSend, Repeats, CapReached
    <2> QED
      BY <1>1, <2>1, <2>2, <2>3, <2>6, <2>7
  <1>8. CASE ToolExits \/ ToolDies
    <2>1. /\ UNCHANGED <<pc, given, todo, emitted, readErr, cut, printed, pipe>> /\ proc' = "exited"
      BY <1>8 DEF ToolExits, ToolDies, Ends
    <2> QED
      BY <1>1, <2>1 DEF Accounted, AtSend, Repeats, CapReached
  <1>9. CASE ReadLine
    <2>1. ~readErr' /\ ~cut' => Accounted'
      BY <1>9, LineIsAccounted
    <2>2. pc = "reading" /\ ~readErr /\ ~cut /\ emitted' = emitted
      BY <1>9 DEF ReadLine, TakeLine, ReadFails, StopInv
    <2>3. CASE Its("reads") = "document"
      <3>1. pc' = "reading" \/ (pc' = "waiting" /\ (readErr' \/ cut'))
        BY <1>9, <2>2, <2>3 DEF ReadLine, TakeLine, ReadFails
      <3> QED
        BY <1>1, <2>1, <2>2, <2>3, <3>1
    <2>4. CASE Its("reads") = "lines"
      <3> DEFINE line == Head(pipe)
      <3>1. \/ pc' = "waiting" /\ (readErr' \/ cut')
            \/ pc' = "reading" /\ todo' = todo
            \/ /\ line \notin Unusable /\ ~Repeats(line, emitted) /\ ~CapReached(emitted)
               /\ pc' = "sending" /\ todo' = Append(todo, line)
        BY <1>9, <2>2, <2>4 DEF ReadLine, TakeLine, ReadFails, IsFinding, Unusable
      <3>2. ASSUME pc' = "sending" PROVE AtSend' /\ Len(todo') = 1
        <4>1. PICK x \in Lines : x = line
          <5>1. line \in Lines \cup Unusable
            BY <1>3, <1>9, ToSetOfHeadAndTail DEF ReadLine
          <5> QED
            BY <3>1, <3>2, <5>1
        <4>2. todo = <<>> /\ todo' = Append(<<>>, x)
          BY <2>2, <2>4, <3>1, <3>2, <4>1
        <4>3. /\ <<>> \in Seq(Lines) /\ Len(<<>>) = 0
          BY EmptySeq
        <4>4. Len(todo') = 1 /\ todo'[1] = x /\ todo' \in Seq(Lines)
          BY <4>1, <4>2, <4>3, AppendProperties
        <4>5. todo' # <<>> /\ Head(todo') = x
          BY <4>3, <4>4, ToSetOfHeadAndTail
        <4>6. ~Repeats(x, emitted) /\ ~CapReached(emitted)
          BY <3>1, <3>2, <4>1
        <4> QED
          BY <1>1, <2>2, <3>2, <4>4, <4>5, <4>6 DEF AtSend, Repeats, CapReached
      <3> QED
        BY <1>1, <2>1, <2>2, <2>4, <3>1, <3>2
    <2> QED
      BY <1>2, <2>3, <2>4
  <1>10. CASE ReadEnd
    <2>1. /\ pc = "reading" /\ pipe = <<>> /\ UNCHANGED <<pipe, emitted, given, printed, proc, cut>>
          /\ \/ readErr' = TRUE /\ pc' = "waiting"
             \/ Its("reads") = "document" /\ pc' = "sending" /\ UNCHANGED <<todo, readErr>>
             \/ /\ Its("reads") = "lines" /\ pc' = "waiting" /\ proc = "exited"
                /\ UNCHANGED <<todo, readErr>>
      BY <1>2, <1>10 DEF ReadEnd, ReadFails
    <2> QED
      BY <1>1, <2>1 DEF Accounted
  <1>11. CASE SendFinding
    <2>1. /\ pc = "sending" /\ todo # <<>> /\ emitted' = Append(emitted, Head(todo))
          /\ todo' = Tail(todo) /\ UNCHANGED <<pipe, printed, readErr, cut>>
          /\ pc' = IF Its("reads") = "lines" THEN "reading" ELSE "sending"
      BY <1>11 DEF SendFinding, AtSend
    <2>2. PICK x \in Lines : /\ x = Head(todo) /\ ToSet(todo) = {x} \cup ToSet(todo')
                            /\ todo' \in Seq(Lines) /\ Len(todo') = Len(todo) - 1
      BY <1>3, <2>1, ToSetOfHeadAndTail
    <2>3. ToSet(emitted') = ToSet(emitted) \cup {x}
      BY <1>3, <2>1, <2>2, ToSetOfAppend
    <2>4. ~readErr /\ ~cut => Accounted'
      BY <2>1, <2>2, <2>3 DEF Accounted
    <2>5. Its("reads") = "lines" => todo' = <<>>
      <3>1. Its("reads") = "lines" => Len(todo') = 0
        BY <2>1, <2>2
      <3> QED
        BY <2>2, <3>1, EmptySeq
    <2> QED
      BY <1>1, <1>2, <2>1, <2>4, <2>5
  <1>12. CASE SkipRepeat
    <2>1. /\ pc = "sending" /\ todo # <<>> /\ Repeats(Head(todo), emitted) /\ todo' = Tail(todo)
          /\ UNCHANGED <<pc, emitted, pipe, printed, readErr, cut>>
      BY <1>12 DEF SkipRepeat
    <2>2. Its("reads") = "document"
      BY <1>2, <2>1 DEF AtSend
    <2>3. ToSet(todo) = {Head(todo)} \cup ToSet(todo')
      BY <1>3, <2>1, ToSetOfHeadAndTail
    <2>4. ~readErr /\ ~cut => Accounted'
      BY <2>1, <2>3 DEF Accounted, Repeats
    <2> QED
      BY <1>1, <2>1, <2>2, <2>4
  <1>13. CASE SentAll
    <2>1. /\ pc = "sending" /\ pc' = "waiting"
          /\ todo # <<>> => CapReached(emitted)
          /\ UNCHANGED <<emitted, pipe, printed, readErr, cut, todo, given>>
      BY <1>13 DEF SentAll
    <2>2. Its("reads") = "document"
      BY <1>2, <2>1 DEF AtSend
    <2>3. todo = <<>>
      BY <1>2, <2>1, <2>2 DEF CapReached
    <2> QED
      BY <1>1, <2>1, <2>2, <2>3 DEF Accounted
  <1>14. CASE SendIsStopped
    <2>1. /\ pc' = "waiting" /\ given' = "stopped"
          /\ UNCHANGED <<emitted, pipe, printed, readErr, cut, todo>>
      BY <1>14 DEF SendIsStopped, GiveUp
    <2> QED
      BY <1>1, <2>1 DEF Accounted, None
  <1>15. CASE Reap
    <2>1. pc' = "idle" /\ UNCHANGED <<emitted, pipe, printed, readErr, cut, todo>>
      BY <1>15 DEF Reap
    <2> QED
      BY <1>1, <2>1 DEF Accounted
  <1>16. CASE UNCHANGED vars
    BY <1>1, <1>16 DEF vars, Accounted, AtSend, Repeats, CapReached
  <1> QED
    BY <1>4, <1>5, <1>6, <1>7, <1>8, <1>9, <1>10, <1>11, <1>12, <1>13, <1>14, <1>15, <1>16
    DEF Next, Execute, Idle

-----------------------------------------------------------------------------
(* How a job ends.                                                         *)

(* A success was one before, or its verdict is on what was sent: of a tool *)
(* whose stdout was read when it is reaped, of a report when its last      *)
(* finding was sent.                                                       *)
LEMMA SuccessesEndHere ==
  ASSUME TypeInv, ProcInv, StopInv, [Next]_vars, result' = "ok"
  PROVE  /\ UNCHANGED <<tool, exit, marker, report, failure, printed, emitted, cut, readErr, contexts>>
         /\ \/ result = "ok"
            \/ Verdict(emitted) = "ok" /\ Its("reads") = "report" /\ SentAll
            \/ /\ Verdict(emitted) = "ok" /\ Its("reads") # "report"
               /\ pc = "waiting" /\ given = None /\ ~Asked
  <1> USE DEF job, config, process, reader, contexts, control, Go, Return, ReapThen
  <1>1. result = "ok" => pc = "idle" /\ proc = "none"
    BY DEF StopInv, ProcInv, None
  <1>2. CASE StartJob
    BY <1>2 DEF StartJob, None
  <1>3. CASE CloneEnds \/ CloneDies
    BY <1>1, <1>3 DEF CloneEnds, CloneDies, StartTool
  <1>4. CASE Cancel \/ Expire \/ ToolPrints \/ ToolExits \/ ToolDies
    <2>1. pc # "idle" \/ proc = "running"
      BY <1>4 DEF Cancel, Expire, Ended, ToolPrints, ToolExits, ToolDies, Ends
    <2>2. result' = result
      BY <1>4 DEF Cancel, Expire, ToolPrints, ToolExits, ToolDies, Ends
    <2> QED
      BY <1>1, <2>1, <2>2
  <1>5. CASE ReadLine \/ ReadEnd \/ SendFinding \/ SkipRepeat
    <2>1. pc # "idle"
      BY <1>5 DEF ReadLine, ReadEnd, SendFinding, AtSend, SkipRepeat
    <2>2. result' = result
      BY <1>5 DEF ReadLine, TakeLine, ReadEnd, ReadFails, SendFinding, SkipRepeat
    <2> QED
      BY <1>1, <2>1, <2>2
  <1>6. CASE SentAll
    <2>1. pc = "sending" /\ UNCHANGED <<tool, exit, marker, report, failure, printed, emitted, cut, readErr, contexts>>
      BY <1>6 DEF SentAll
    <2>2. \/ Its("reads") = "report" /\ result' = Verdict(emitted)
          \/ result' = result
      BY <1>6 DEF SentAll
    <2> QED
      BY <1>1, <1>6, <2>1, <2>2
  <1>7. CASE SendIsStopped
    <2>1. pc = "sending" /\ result' \in {result, "stopped"}
      BY <1>7 DEF SendIsStopped, AtSend, GiveUp
    <2> QED
      BY <1>1, <2>1
  <1>8. CASE Reap
    <2>1. pc = "waiting" /\ UNCHANGED <<tool, exit, marker, report, failure, printed, emitted, cut, readErr, contexts>>
      BY <1>8 DEF Reap
    <2>2. given \in {None, "stopped"}
      BY <2>1 DEF StopInv
    <2>3. \/ result' \in {result, "stopped", "error"}
          \/ /\ given = None /\ ~Asked /\ Its("reads") # "report" /\ result' = Verdict(emitted)
      BY <1>8, <2>2 DEF Reap, ReadReport, None
    <2> QED
      BY <1>1, <2>1, <2>3
  <1>9. CASE UNCHANGED vars
    BY <1>1, <1>9 DEF vars
  <1> QED
    BY <1>2, <1>3, <1>4, <1>5, <1>6, <1>7, <1>8, <1>9 DEF Next, Execute, Idle

LEMMA GoodVerdict ==
  ASSUME TypeInv, Verdict(emitted) = "ok"
  PROVE  /\ ~readErr
         /\ exit = "zero" \/ Its("exit") = "never" \/ (Its("exit") = "whenEmpty" /\ emitted # <<>>)
         /\ marker => emitted # <<>>
  <1>1. ~ExitFails(emitted) /\ ~NotRun(emitted) /\ ~OutputFails
    BY DEF Verdict
  <1>2. Its("exit") \in {"always", "whenEmpty", "never"}
    BY ItsChoices DEF TypeInv, TypeOK
  <1> QED
    BY <1>1, <1>2 DEF ExitFails, NotRun, OutputFails

(* How a tool has failed, and what its adapter sees of that: before the    *)
(* findings of a report are sent, that there is one to be read.            *)
FailureInv ==
    /\ failure \in {None, "exit", "marker", "report"} \cup Its("passes")
    /\ failure = "exit" => exit # "zero"
    /\ failure = "marker" => marker
    /\ failure = "report" => Its("reads") = "report" /\ NoReport /\ proc # "running"
    /\ pc = "sending" /\ Its("reads") = "report" => ~NoReport
    /\ pc = "cloning" \/ proc = "running" => failure = None

LEMMA FailureStep == TypeInv /\ ProcInv /\ FailureInv /\ [Next]_vars => FailureInv'
  <1> SUFFICES ASSUME TypeInv, ProcInv, FailureInv, [Next]_vars PROVE FailureInv'
    OBVIOUS
  <1>1. UNCHANGED <<Its("reads"), Its("missing"), Its("passes")>>
    BY SameTool
  <1>2. ASSUME UNCHANGED <<failure, exit, marker, report>>,
               proc' # "running" \/ proc' = proc,
               pc' \notin {"cloning", "sending"} \/ pc' = pc
                 \/ (pc' # "cloning" /\ Its("reads") # "report")
        PROVE  FailureInv'
    BY <1>1, <1>2 DEF FailureInv, NoReport, ProcInv
  <1> USE DEF job, config, process, reader, contexts, control, Go, Return, ReapThen
  <1>3. CASE StartJob
    <2>1. failure' = None /\ pc' # "sending"
      BY <1>3 DEF StartJob, Ended
    <2> QED
      BY <1>1, <2>1 DEF FailureInv, None
  <1>4. CASE CloneEnds \/ CloneDies
    <2>1. /\ UNCHANGED <<failure, exit, marker, report>> /\ pc = "cloning"
          /\ pc' \in {"waiting", "idle"}
      BY <1>4 DEF CloneEnds, CloneDies, StartTool
    <2>2. failure' = None
      BY <2>1 DEF FailureInv
    <2> QED
      BY <1>1, <2>1, <2>2 DEF FailureInv, None
  <1>5. CASE Cancel \/ Expire \/ ToolPrints
    BY <1>2, <1>5 DEF Cancel, Expire, ToolPrints
  <1>6. CASE ToolExits \/ ToolDies
    <2> USE DEF ToolExits, ToolDies, Ends
    <2>1. /\ proc = "running" /\ proc' = "exited" /\ pc' = pc
          /\ failure' \in {None, "exit", "marker", "report"} \cup Its("passes")
      BY <1>6
    <2>2. failure' = "exit" => exit' # "zero"
      BY <1>6
    <2>3. failure' = "marker" => marker'
      BY <1>6
    <2>4. failure' = "report" => Its("reads") = "report" /\ NoReport'
      BY <1>6
    <2>5. pc # "cloning" /\ ~(pc = "sending" /\ Its("reads") = "report")
      BY <2>1 DEF ProcInv
    <2> QED
      BY <1>1, <2>1, <2>2, <2>3, <2>4, <2>5 DEF FailureInv
  <1>7. CASE ReadLine \/ ReadEnd
    <2>1. Its("reads") # "report" /\ UNCHANGED <<failure, exit, marker, report, proc>>
      BY <1>7 DEF ReadLine, ReadEnd, ProcInv
    <2>2. pc' \in {"reading", "sending", "waiting"}
      BY <1>7 DEF ReadLine, TakeLine, ReadEnd, ReadFails
    <2> QED
      BY <1>2, <2>1, <2>2
  <1>8. CASE SendFinding \/ SkipRepeat \/ SentAll \/ SendIsStopped
    <2>1. /\ UNCHANGED <<failure, exit, marker, report, proc>> /\ pc = "sending"
          /\ pc' \in {"sending", "reading", "waiting", "idle"}
      BY <1>8 DEF SendFinding, AtSend, SkipRepeat, SentAll, SendIsStopped, GiveUp
    <2> QED
      BY <1>2, <2>1
  <1>9. CASE Reap
    <2>1. /\ UNCHANGED <<failure, exit, marker, report>> /\ proc' = "none"
          /\ pc' = "idle" \/ (pc' = "sending" /\ ~NoReport)
      BY <1>9 DEF Reap, ReadReport
    <2>2. NoReport' = NoReport
      BY <1>1, <2>1 DEF NoReport
    <2> QED
      BY <1>1, <2>1, <2>2 DEF FailureInv
  <1>10. CASE UNCHANGED vars
    BY <1>2, <1>10 DEF vars
  <1> QED
    BY <1>3, <1>4, <1>5, <1>6, <1>7, <1>8, <1>9, <1>10 DEF Next, Execute, Idle

LEMMA SilenceStep ==
  /\ TypeInv /\ ProcInv /\ StopInv /\ ReportInv /\ FailureInv
  /\ OnlyKnownFailuresAreSilent /\ [Next]_vars
  => OnlyKnownFailuresAreSilent'
  <1> SUFFICES ASSUME TypeInv, ProcInv, StopInv, ReportInv, FailureInv,
                      OnlyKnownFailuresAreSilent, [Next]_vars,
                      result' = "ok", emitted' = <<>>
               PROVE  OnlyKnownFailuresAreSilent'
    BY DEF OnlyKnownFailuresAreSilent
  <1>1. /\ UNCHANGED <<Its("reads"), Its("exit"), Its("missing"), Its("passes")>>
        /\ UNCHANGED <<exit, marker, report, failure, emitted, readErr>>
    BY SameTool, SuccessesEndHere
  <1>2. CASE result = "ok"
    BY <1>1, <1>2 DEF OnlyKnownFailuresAreSilent
  <1>3. CASE result # "ok"
    <2>1. Verdict(emitted) = "ok"
      BY <1>3, SuccessesEndHere
    <2>2. ~readErr /\ ~marker /\ (exit = "zero" \/ Its("exit") = "never")
      BY <1>1, <2>1, GoodVerdict
    <2>3. Its("reads") = "report" => pc = "sending"
      BY <1>3, SuccessesEndHere DEF SentAll
    <2>4. /\ Its("missing") /\ Its("reads") = "report" => report = "whole"
          /\ Its("exit") = "never" => Its("missing") /\ Its("reads") = "report"
      BY <2>3, ItsChoices DEF ReportInv, TypeInv, TypeOK
    <2>5. failure \in {None} \cup Its("passes") \/ (failure = "exit" /\ Its("exit") = "never")
      BY <2>2, <2>3 DEF FailureInv
    <2> QED
      BY <1>1, <2>2, <2>4, <2>5 DEF OnlyKnownFailuresAreSilent
  <1> QED
    BY <1>2, <1>3

(* A tool whose stdout was read: all it has printed was sent, unless the   *)
(* cap was reached, and only then was it killed.                           *)
LEMMA StreamIsComplete ==
  ASSUME TypeInv, StopInv, CapInv, StreamInv, Its("reads") # "report",
         Verdict(emitted) = "ok", pc = "waiting", given = None, ~Asked
  PROVE  /\ \/ ToSet(printed) \cap Lines = ToSet(emitted)
            \/ Its("cap") /\ Len(emitted) = MaxUrls
         /\ exit = "killed" => cut
  <1>1. ~readErr /\ ~Stopped
    BY GoodVerdict, ItsChoices DEF Asked, TypeInv, TypeOK
  <1>2. CASE cut
    BY <1>2 DEF CapInv
  <1>3. CASE ~cut
    <2>1. Accounted /\ todo = <<>> /\ pipe = <<>>
      BY <1>1, <1>3 DEF StreamInv
    <2>2. ToSet(emitted) \subseteq Lines
      BY ToSetIsTyped DEF TypeInv, TypeOK
    <2>3. ToSet(printed) \cap Lines = ToSet(emitted)
      BY <2>1, <2>2, ToSetOfEmpty DEF Accounted
    <2>4. exit # "killed"
      BY <1>1, <1>3 DEF StopInv
    <2> QED
      BY <2>3, <2>4
  <1> QED
    BY <1>2, <1>3

(* A report: all of it was sent, or the cap was reached; of a killed tool  *)
(* only a whole one counts.                                                *)
LEMMA ReportIsComplete ==
  ASSUME TypeInv, CapInv, ReportInv, Its("reads") = "report", Verdict(emitted) = "ok", SentAll
  PROVE  /\ \/ ToSet(printed) \cap Lines = ToSet(emitted)
            \/ Its("cap") /\ Len(emitted) = MaxUrls
         /\ exit = "killed" => report = "whole"
  <1>1. /\ Accounted /\ pipe = <<>> /\ (Its("missing") => report = "whole")
        /\ report # "whole" => printed = <<>>
        /\ todo # <<>> => CapReached(emitted)
    BY DEF SentAll, ReportInv
  <1>2. ToSet(emitted) \subseteq Lines /\ emitted \in Seq(Lines) /\ Len(emitted) \in Nat /\ MaxUrls \in Nat
    BY ToSetIsTyped, LenProperties, ToolAssumption DEF TypeInv, TypeOK
  <1>3. ASSUME todo = <<>> PROVE ToSet(printed) \cap Lines = ToSet(emitted)
    BY <1>1, <1>2, <1>3, ToSetOfEmpty DEF Accounted
  <1>4. ASSUME todo # <<>> PROVE Its("cap") /\ Len(emitted) = MaxUrls
    BY <1>1, <1>2, <1>4 DEF CapReached, CapInv
  <1>5. ASSUME exit = "killed" PROVE report = "whole"
    <2>1. CASE Its("exit") = "never"
      BY <1>1, <2>1, ItsChoices DEF TypeInv, TypeOK
    <2>2. CASE emitted # <<>>
      <3>1. Head(emitted) \in ToSet(emitted)
        BY <1>2, <2>2, ToSetOfHeadAndTail
      <3>2. printed # <<>>
        BY <1>1, <1>2, <3>1, ToSetOfEmpty DEF Accounted
      <3> QED
        BY <1>1, <3>2
    <2> QED
      BY <1>5, <2>1, <2>2, GoodVerdict
  <1> QED
    BY <1>3, <1>4, <1>5

LEMMA OutcomeStep ==
  /\ TypeInv /\ ProcInv /\ StopInv /\ CapInv /\ CapInv' /\ StreamInv /\ ReportInv
  /\ OutcomeIsTrue /\ [Next]_vars
  => OutcomeIsTrue'
  <1> SUFFICES ASSUME TypeInv, ProcInv, StopInv, CapInv, CapInv', StreamInv, ReportInv,
                      OutcomeIsTrue, [Next]_vars
               PROVE  OutcomeIsTrue'
    OBVIOUS
  <1>1. UNCHANGED <<Its("reads"), Its("exit"), Its("cap")>>
    BY SameTool
  <1>2. SuccessIsComplete'
    <2> SUFFICES ASSUME result' = "ok" PROVE SuccessIsComplete'
      BY DEF SuccessIsComplete
    <2>1. UNCHANGED <<exit, report, printed, emitted, cut>>
      BY SuccessesEndHere
    <2>2. CASE result = "ok"
      BY <1>1, <2>1, <2>2 DEF OutcomeIsTrue, SuccessIsComplete
    <2>3. CASE result # "ok"
      <3>1. /\ \/ ToSet(printed) \cap Lines = ToSet(emitted)
               \/ Its("cap") /\ Len(emitted) = MaxUrls
            /\ exit = "killed" => cut \/ report = "whole"
        BY <2>3, SuccessesEndHere, StreamIsComplete, ReportIsComplete
      <3> QED
        BY <1>1, <2>1, <3>1 DEF SuccessIsComplete
    <2> QED
      BY <2>2, <2>3
  <1>3. ASSUME Ended', cut', ~Stopped' PROVE result' = "ok"
    <2> USE <1>3 DEF Ended, Stopped, job, config, process, reader, contexts, control, Go, Return
    <2>1. CASE StartJob
      BY <2>1 DEF StartJob
    <2>2. CASE CloneEnds \/ CloneDies
      BY <2>2 DEF CloneEnds, CloneDies, StopInv
    <2>3. CASE Cancel \/ Expire \/ ToolPrints \/ ToolExits \/ ToolDies
      <3>1. pc # "idle" \/ proc = "running"
        BY <2>3 DEF Cancel, Expire, Ended, ToolPrints, ToolExits, ToolDies, Ends
      <3>2. pc' = pc
        BY <2>3 DEF Cancel, Expire, ToolPrints, ToolExits, ToolDies, Ends
      <3> QED
        BY <3>1, <3>2 DEF ProcInv
    <2>4. CASE ReadLine \/ ReadEnd
      BY <2>4 DEF ReadLine, TakeLine, ReadEnd, ReadFails
    <2>5. CASE SendFinding \/ SkipRepeat \/ SentAll \/ SendIsStopped
      <3>1. pc = "sending" /\ cut' = cut
        BY <2>5 DEF SendFinding, AtSend, SkipRepeat, SentAll, SendIsStopped
      <3> QED
        BY <3>1 DEF StopInv
    <2>6. CASE Reap
      <3>1. cut /\ ~Stopped /\ given = None /\ Its("reads") # "report"
        BY <2>6 DEF Reap, StopInv
      <3>2. Its("cap") /\ Len(emitted) = MaxUrls /\ ~readErr /\ Its("exit") = "whenEmpty" /\ ~Its("strict")
        BY <3>1, ItsChoices DEF CapInv, TypeInv, TypeOK
      <3>3. emitted # <<>>
        BY <3>2, ToolAssumption, EmptySeq
      <3>4. Verdict(emitted) = "ok"
        BY <3>2, <3>3 DEF Verdict, ExitFails, NotRun, OutputFails
      <3> QED
        BY <2>6, <3>1, <3>4 DEF Reap, Asked
    <2>7. CASE UNCHANGED vars
      BY <2>7 DEF vars, OutcomeIsTrue, CapIsNoFailure
    <2> QED
      BY <2>1, <2>2, <2>3, <2>4, <2>5, <2>6, <2>7 DEF Next, Execute, Idle
  <1>4. CapIsNoFailure'
    BY <1>1, <1>3 DEF CapIsNoFailure, CapInv
  <1> QED
    BY <1>2, <1>4 DEF OutcomeIsTrue

-----------------------------------------------------------------------------
JobInv ==
    /\ TypeInv /\ ProcInv /\ StopInv /\ CapInv /\ StreamInv /\ ReportInv
    /\ FailureInv /\ OnlyKnownFailuresAreSilent /\ OutcomeIsTrue

LEMMA InitInv == Init => JobInv
  <1> SUFFICES ASSUME Init PROVE JobInv
    OBVIOUS
  <1> USE DEF Init
  <1>1. /\ <<>> \in Seq(Lines) /\ <<>> \in Seq(Lines \cup Unusable) /\ Len(<<>>) = 0
        /\ 0 <= MaxPrints /\ 0 <= PipeSize /\ 0 <= MaxUrls /\ 0 \in 0..MaxJobs
    BY EmptySeq, ToolAssumption
  <1>2. TypeInv
    BY <1>1 DEF TypeInv, TypeOK, Failures
  <1>3. ProcInv /\ StopInv /\ CapInv
    BY <1>1 DEF ProcInv, StopInv, CapInv, None
  <1>4. Accounted
    BY ToSetOfEmpty DEF Accounted
  <1>5. StreamInv /\ ReportInv
    BY <1>4 DEF StreamInv, ReportInv
  <1>6. FailureInv /\ OnlyKnownFailuresAreSilent /\ OutcomeIsTrue
    BY <1>3 DEF FailureInv, OnlyKnownFailuresAreSilent, OutcomeIsTrue, SuccessIsComplete, CapIsNoFailure, CapInv, None
  <1> QED
    BY <1>2, <1>3, <1>5, <1>6 DEF JobInv

THEOREM Invariance == Spec => []JobInv
  <1>1. JobInv /\ [Next]_vars => JobInv'
    BY TypeStep, ProcStep, StopStep, CapStep, StreamStep, ReportStep, FailureStep, SilenceStep, OutcomeStep
    DEF JobInv
  <1> QED
    BY InitInv, <1>1, PTL DEF Spec

(* Every variable keeps its type, and neither the pipe nor what a process  *)
(* prints exceeds its bound, for every adapter.                            *)
THEOREM TypeCorrect == Spec => []TypeOK
  <1>1. JobInv => TypeOK
    BY DEF JobInv, TypeInv
  <1> QED
    BY <1>1, Invariance, PTL

(* Execute returns once the process has been reaped and the clone is gone, *)
(* on every path of every adapter, so that the next job of the container   *)
(* meets neither (the Wait and the deferred calls of each Execute).        *)
THEOREM NothingOutlivesTheJob == Spec => []NoProcessOutlivesItsJob
  <1>1. JobInv => NoProcessOutlivesItsJob
    BY DEF JobInv, ProcInv, NoProcessOutlivesItsJob, Ended
  <1> QED
    BY <1>1, Invariance, PTL

(* A job that ends well with no finding, for every adapter and any number  *)
(* of lines: its tool has shown no failure but one the adapter is known to *)
(* pass over (gau and katana, nikto's connect failure, wpscan's aborted    *)
(* scan, the exit code of wpscan and ZAP).                                 *)
THEOREM SilentFailuresAreKnown == Spec => []OnlyKnownFailuresAreSilent
  <1>1. JobInv => OnlyKnownFailuresAreSilent
    BY DEF JobInv
  <1> QED
    BY <1>1, Invariance, PTL

(* A job that ends well has sent everything its tool has found, up to the  *)
(* cap, and was not cut short by a cancellation or its hard timeout; and a *)
(* tool killed at the cap is no failure.                                   *)
THEOREM OutcomesAreTrue == Spec => []OutcomeIsTrue
  <1>1. JobInv => OutcomeIsTrue
    BY DEF JobInv
  <1> QED
    BY <1>1, Invariance, PTL
=============================================================================
