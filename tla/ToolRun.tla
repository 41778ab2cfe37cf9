------------------------------ MODULE ToolRun ------------------------------
(***************************************************************************)
(* The adapters that run a command line tool: one container serves its jobs*)
(* one after the other, and for each of them Execute starts a process (of  *)
(* git first, where a repository is scanned), takes findings off its stdout*)
(* or its report, sends them on out and reaps it.  The process may print   *)
(* what it likes, hang, crash or be killed; the context may be cancelled   *)
(* and the adapter's own hard timeout may expire at any step.              *)
(*                                                                         *)
(* Execute has one shape in all of them; what differs is a record of       *)
(* choices, one per adapter.  trivy is in module TrivyCache.               *)
(***************************************************************************)
EXTENDS Naturals, Sequences, SequencesExt

CONSTANTS
    Tools,      \* the adapters to check, in DOMAIN Adapter
    Lines,      \* what a run of a tool can find
    Profiles,   \* config profiles
    MaxPrints,  \* bound: lines a process prints, findings of a report
    PipeSize,   \* lines the stdout pipe holds
    MaxUrls,    \* the cap on the findings of a job
    MaxJobs     \* bound: jobs of the container

None == "none"

-----------------------------------------------------------------------------
(* What the adapters do differently:                                       *)
(*   reads    lines of stdout as they come, the whole document on stdout,  *)
(*            or the report once the process has ended                     *)
(*   timeout  Execute has a hard timeout of its own                        *)
(*   hears    a send on out is given up when the timeout expires           *)
(*   stops    the process is killed when its output cannot be read         *)
(*   asks     after the process ended the context is looked at first       *)
(*   cap      at most MaxUrls findings are sent                            *)
(*   dedupe   a finding is sent once                                       *)
(*   strict   output that is no finding fails the job                      *)
(*   marker   the tool says on stderr that it has not run                  *)
(*   exit     a nonzero exit fails the job always, when nothing was sent,  *)
(*            or never                                                     *)
(*   missing  no report fails the job                                      *)
(*   env      the profile is read from the environment only                *)
(*   clones   a repository is cloned first                                 *)
(*   passes   how a failure of the tool may show that the adapter passes   *)
(*            over: not at all ("nothing"), by a line of stdout that is no *)
(*            finding ("line"), by a report that says so ("aborted")       *)

Usual == [reads |-> "lines", timeout |-> TRUE, hears |-> FALSE, stops |-> FALSE,
          asks |-> TRUE, cap |-> FALSE, dedupe |-> FALSE, strict |-> FALSE,
          marker |-> FALSE, exit |-> "whenEmpty", missing |-> TRUE, env |-> FALSE,
          clones |-> FALSE, passes |-> {}]

Nmap == [Usual EXCEPT !.reads = "document", !.hears = TRUE]
Rustscan == [Usual EXCEPT !.hears = TRUE, !.stops = TRUE, !.strict = TRUE, !.exit = "always"]
Nikto == [Usual EXCEPT !.timeout = FALSE, !.passes = {"line"}]
Katana == [Usual EXCEPT !.hears = TRUE, !.stops = TRUE, !.cap = TRUE, !.dedupe = TRUE,
                        !.marker = TRUE, !.passes = {"nothing"}]
Gau == [Usual EXCEPT !.dedupe = TRUE, !.passes = {"nothing"}]
Ffuf == [Usual EXCEPT !.hears = TRUE, !.stops = TRUE, !.cap = TRUE, !.dedupe = TRUE,
                      !.env = TRUE]
Zap == [Usual EXCEPT !.reads = "report", !.exit = "never"]
Dirsearch == [Usual EXCEPT !.reads = "report", !.cap = TRUE, !.dedupe = TRUE, !.env = TRUE]
Arjun == [Usual EXCEPT !.reads = "report", !.cap = TRUE, !.dedupe = TRUE, !.marker = TRUE,
                       !.missing = FALSE, !.env = TRUE]
Wpscan == [Usual EXCEPT !.reads = "report", !.timeout = FALSE, !.asks = FALSE,
                        !.exit = "never", !.passes = {"aborted"}]
Gitleaks == [Usual EXCEPT !.reads = "report", !.timeout = FALSE, !.asks = FALSE,
                          !.exit = "always", !.missing = FALSE, !.clones = TRUE]

Adapter == [nmap |-> Nmap, rustscan |-> Rustscan, nikto |-> Nikto, katana |-> Katana,
            gau |-> Gau, ffuf |-> Ffuf, zap |-> Zap, dirsearch |-> Dirsearch,
            arjun |-> Arjun, wpscan |-> Wpscan, gitleaks |-> Gitleaks]

(* Lines nobody can use: longer than the reader's buffer, no finding, and  *)
(* nikto's pseudo-item for a target it could not connect to.               *)
Unusable == {"tooLong", "odd", "refused"}

ASSUME ToolAssumption ==
    /\ Tools \subseteq DOMAIN Adapter /\ Lines \cap Unusable = {}
    /\ PipeSize \in Nat \ {0} /\ MaxUrls \in Nat \ {0}
    /\ MaxPrints \in Nat /\ MaxJobs \in Nat

-----------------------------------------------------------------------------
VARIABLES
    tool,      \* the container's adapter
    jobs,      \* jobs it has started
    env,       \* OASM_CONFIG of the container: the profile of its first job
    profile,   \* the profile of the job's ExecuteJob
    used,      \* the profile the adapter decoded
    \* the process
    proc,      \* "none", "running", "exited": ended, not reaped yet
    exit,      \* "zero", "nonzero", "killed"
    shot,      \* the adapter has killed it
    printed,   \* history: what it has printed, or found in its report
    pipe,      \* printed and not read
    report,    \* "missing", "garbled", "whole"
    marker,    \* stderr holds the marker
    failure,   \* history: how a tool that has not done its work shows it
    \* Execute
    pc, todo, emitted,
    readErr,   \* the output could not be read
    odd,       \* a line was no finding
    cut,       \* the cap stopped the tool
    given,     \* what Execute returns once the process is reaped, if decided
    result,
    checkout,  \* there is a directory with the job's clone
    cancelled, expired

job == <<env, tool>>
config == <<profile, used>>
process == <<proc, exit, printed, report, marker, failure>>
reader == <<todo, emitted, readErr, odd, cut>>
contexts == <<cancelled, expired>>
control == <<pc, given, result, checkout>>
vars == <<job, jobs, config, process, shot, pipe, control, reader, contexts>>

Its(choice) == Adapter[tool][choice]
Ended == pc = "idle"
Stopped == cancelled \/ expired

(* Execute returns, and its deferred calls remove what it has cloned.      *)
Return(how) == pc' = "idle" /\ result' = how /\ checkout' = FALSE /\ UNCHANGED given
(* The process is reaped before Execute returns how.                       *)
ReapThen(how) == pc' = "waiting" /\ given' = how /\ UNCHANGED <<result, checkout>>
Go(step) == pc' = step /\ UNCHANGED <<given, result, checkout>>

-----------------------------------------------------------------------------
Init ==
    /\ tool \in Tools /\ jobs = 0
    /\ env \in Profiles \cup {None} /\ profile = None /\ used = None
    /\ proc = "none" /\ exit = None /\ shot = FALSE
    /\ printed = <<>> /\ pipe = <<>> /\ report = "missing" /\ marker = FALSE
    /\ failure = None
    /\ pc = "idle" /\ todo = <<>> /\ emitted = <<>>
    /\ readErr = FALSE /\ odd = FALSE /\ cut = FALSE
    /\ given = None /\ result = None /\ checkout = FALSE
    /\ cancelled = FALSE /\ expired = FALSE

(* LoadConfig: the profile of the job, else that of the environment.       *)
Decoded(p) == IF Its("env") \/ p = None THEN env ELSE p

(* Execute: bad inputs, a bad profile, no work directory or no process end *)
(* the job before it has begun.                                            *)
StartJob ==
    /\ Ended /\ jobs < MaxJobs
    /\ jobs' = jobs + 1
    /\ \E p \in IF jobs = 0 THEN {env} ELSE Profiles \cup {None} :
           profile' = p /\ used' = Decoded(p)
    /\ \/ /\ ~Its("clones") /\ proc' = "running"
          /\ pc' = IF Its("reads") = "report" THEN "waiting" ELSE "reading"
          /\ result' = None /\ checkout' = FALSE
       \/ /\ Its("clones") /\ pc' = "cloning" /\ checkout' = TRUE
          /\ result' = None /\ UNCHANGED proc
       \/ /\ UNCHANGED <<proc, pc, checkout>>
          /\ result' = "error"
    /\ exit' = None /\ shot' = FALSE /\ printed' = <<>> /\ pipe' = <<>>
    /\ report' = "missing" /\ marker' = FALSE /\ failure' = None
    /\ todo' = <<>> /\ emitted' = <<>>
    /\ readErr' = FALSE /\ odd' = FALSE /\ cut' = FALSE /\ given' = None
    /\ cancelled' = FALSE /\ expired' = FALSE
    /\ UNCHANGED job

(* gitrepo.Clone: git may run for ever, or until its context ends; the     *)
(* directory of a clone that failed is removed.                            *)
StartTool == proc' = "running" /\ Go("waiting")
CloneEnds ==
    /\ pc = "cloning"
    /\ StartTool \/ (Return("error") /\ UNCHANGED proc)
    /\ UNCHANGED <<job, jobs, config, exit, printed, report, marker, failure, shot, pipe,
                   reader, contexts>>

Cancel ==
    /\ ~Ended /\ ~cancelled
    /\ cancelled' = TRUE
    /\ UNCHANGED <<job, jobs, config, process, shot, pipe, control, reader, expired>>

Expire ==
    /\ ~Ended /\ Its("timeout") /\ ~expired
    /\ expired' = TRUE
    /\ UNCHANGED <<job, jobs, config, process, shot, pipe, control, reader, cancelled>>

-----------------------------------------------------------------------------
(* The process.  One that has more to print than the pipe holds goes on    *)
(* when it is read.                                                        *)

ToolPrints ==
    /\ proc = "running" /\ Its("reads") # "report"
    /\ Its("reads") = "document" => pc = "reading" \/ readErr
    /\ Len(pipe) < PipeSize /\ Len(printed) < MaxPrints
    /\ \E line \in Lines \cup Unusable :
           /\ line = "refused" => "line" \in Its("passes")
           /\ pipe' = Append(pipe, line) /\ printed' = Append(printed, line)
    /\ UNCHANGED <<job, jobs, config, proc, exit, report, marker, failure, shot, control,
                   reader, contexts>>

NoReport == report = "garbled" \/ (report = "missing" /\ Its("missing"))

Ends(how) ==
    /\ proc = "running"
    /\ proc' = "exited" /\ exit' = how
    /\ marker' \in IF Its("marker") THEN BOOLEAN ELSE {FALSE}
    /\ IF Its("reads") = "report"
       THEN \/ report' \in {"missing", "garbled"} /\ UNCHANGED printed
            \/ report' = "whole" /\ printed' \in SeqOf(Lines, MaxPrints)
       ELSE UNCHANGED <<report, printed>>
    /\ UNCHANGED <<job, jobs, config, shot, pipe, control, reader, contexts>>
    /\ failure' \in {None, "exit", "marker", "report"} \cup Its("passes")
    /\ failure' \in {"exit", "nothing"} => (failure' = "exit" <=> how # "zero")
    /\ failure' = "marker" => marker'
    /\ failure' = "report" => Its("reads") = "report" /\ NoReport'
    /\ failure' = "line" => "refused" \in ToSet(printed)
    /\ failure' = "aborted" => report' = "whole" /\ printed' = <<>>

ToolExits == \E how \in {"zero", "nonzero"} : Ends(how)
(* exec.CommandContext kills the process when its context ends.            *)
ContextKills_Never == FALSE
ContextKills == Stopped
ToolDies == (ContextKills \/ shot) /\ Ends("killed")
CloneDies ==
    /\ pc = "cloning" /\ ContextKills
    /\ Return("error")
    /\ UNCHANGED <<job, jobs, config, process, shot, pipe, reader, contexts>>

-----------------------------------------------------------------------------
(* Reading stdout.                                                         *)

ReadError_KeepsTool == UNCHANGED shot
ReadError == IF Its("stops") THEN shot' = TRUE ELSE UNCHANGED shot

ReadFails ==
    /\ readErr' = TRUE /\ todo' = <<>>
    /\ ReadError
    /\ Go("waiting")
    /\ UNCHANGED <<emitted, odd, cut>>

Repeats(line, taken) == Its("dedupe") /\ line \in ToSet(taken)

CapReached_OffByOne(taken) == Its("cap") /\ Len(taken) > MaxUrls
CapReached(taken) == Its("cap") /\ Len(taken) >= MaxUrls

IsFinding(line) == line \notin {"odd", "refused"}

TakeLine(line) ==
    LET isNew == line # "tooLong" /\ IsFinding(line) /\ ~Repeats(line, emitted)
    IN  \/ /\ line = "tooLong" /\ ReadFails
        \/ /\ line # "tooLong" /\ ~IsFinding(line) /\ odd' = TRUE
           /\ UNCHANGED <<control, todo, emitted, readErr, cut, shot>>
        \/ /\ line # "tooLong" /\ Repeats(line, emitted)
           /\ UNCHANGED <<control, reader, shot>>
        \/ /\ isNew /\ CapReached(emitted)
           /\ cut' = TRUE /\ shot' = TRUE
           /\ Go("waiting")
           /\ UNCHANGED <<todo, emitted, readErr, odd>>
        \/ /\ isNew /\ ~CapReached(emitted)
           /\ todo' = Append(todo, line)
           /\ Go(IF Its("reads") = "document" THEN "reading" ELSE "sending")
           /\ UNCHANGED <<emitted, readErr, odd, cut, shot>>

ReadLine ==
    /\ pc = "reading" /\ pipe # <<>>
    /\ pipe' = Tail(pipe)
    /\ TakeLine(Head(pipe))
    /\ UNCHANGED <<job, jobs, config, process, contexts>>

(* The end of stdout, which cuts a document short, or that of the document.*)
ReadEnd ==
    /\ pc = "reading" /\ pipe = <<>>
    /\ \/ /\ proc = "exited" /\ Its("reads") = "document"
          /\ ReadFails
       \/ /\ proc = "exited" \/ Its("reads") = "document"
          /\ Go(IF Its("reads") = "document" THEN "sending" ELSE "waiting")
          /\ UNCHANGED <<reader, shot>>
    /\ UNCHANGED <<job, jobs, config, process, pipe, contexts>>

-----------------------------------------------------------------------------
(* What Execute returns when it was not stopped, having sent these findings*)

ExitFails_Never(sent) == FALSE
ExitFails(sent) == /\ exit # "zero"
                   /\ \/ Its("exit") = "always"
                      \/ Its("exit") = "whenEmpty" /\ sent = <<>>
NotRun(sent) == marker /\ sent = <<>>
OutputFails == readErr \/ (Its("strict") /\ odd)

Verdict(sent) == IF ExitFails(sent) \/ NotRun(sent) \/ OutputFails THEN "error" ELSE "ok"

(* The loop that sends: a line, a document's findings, those of a report.  *)
AtSend == /\ pc = "sending" /\ todo # <<>>
          /\ ~Repeats(Head(todo), emitted) /\ ~CapReached(emitted)

SendFinding ==
    /\ AtSend
    /\ emitted' = Append(emitted, Head(todo))
    /\ todo' = Tail(todo)
    /\ Go(IF Its("reads") = "lines" THEN "reading" ELSE "sending")
    /\ UNCHANGED <<job, jobs, config, process, shot, pipe, readErr, odd, cut, contexts>>

SkipRepeat ==
    /\ pc = "sending" /\ todo # <<>> /\ Repeats(Head(todo), emitted)
    /\ todo' = Tail(todo)
    /\ UNCHANGED <<job, jobs, config, process, shot, pipe, control, emitted,
                   readErr, odd, cut, contexts>>

(* The loop ends; the process of a report has been reaped before.          *)
SentAll ==
    /\ pc = "sending"
    /\ todo # <<>> => CapReached(emitted) /\ ~Repeats(Head(todo), emitted)
    /\ IF Its("reads") = "report" THEN Return(Verdict(emitted)) ELSE Go("waiting")
    /\ UNCHANGED <<job, jobs, config, process, shot, pipe, reader, contexts>>

GiveUp_AtOnce(how) == Return(how)
GiveUp(how) == IF Its("reads") = "report" THEN Return(how) ELSE ReapThen(how)

SendIsStopped ==
    /\ AtSend
    /\ \/ cancelled /\ UNCHANGED shot
       \/ expired /\ Its("hears") /\ shot' = TRUE
    /\ GiveUp("stopped")
    /\ UNCHANGED <<job, jobs, config, process, pipe, reader, contexts>>

-----------------------------------------------------------------------------
(* The process has ended and is reaped.                                    *)

ReadReport ==
    LET failed == exit # "zero" /\ Its("exit") = "always"
    IN  \/ failed /\ Return(IF cancelled THEN "stopped" ELSE "error") /\ UNCHANGED todo
        \/ ~failed /\ NoReport /\ Return("error") /\ UNCHANGED todo
        \/ /\ ~failed /\ ~NoReport
           /\ todo' = IF report = "whole" THEN printed ELSE <<>>
           /\ Go("sending")

Asked_AboutCancel == Its("asks") /\ cancelled
Asked == Its("asks") /\ Stopped

Reap ==
    /\ pc = "waiting" /\ proc = "exited"
    /\ proc' = "none"
    /\ \/ given # None /\ Return(given) /\ UNCHANGED todo
       \/ given = None /\ Asked /\ Return("stopped") /\ UNCHANGED todo
       \/ /\ given = None /\ ~Asked /\ Its("reads") # "report"
          /\ Return(Verdict(emitted)) /\ UNCHANGED todo
       \/ given = None /\ ~Asked /\ Its("reads") = "report" /\ ReadReport
    /\ UNCHANGED <<job, jobs, config, exit, printed, report, marker, failure, shot, pipe,
                   emitted, readErr, odd, cut, contexts>>

-----------------------------------------------------------------------------
(* What Execute does by itself; a finding is sent when it is taken.        *)
Execute == ReadLine \/ ReadEnd \/ SkipRepeat \/ SentAll \/ SendIsStopped \/ Reap
Idle == Ended /\ jobs = MaxJobs /\ UNCHANGED vars

Next == \/ StartJob \/ CloneEnds \/ CloneDies \/ Cancel \/ Expire
        \/ ToolPrints \/ ToolExits \/ ToolDies
        \/ Execute \/ SendFinding \/ Idle

Spec == Init /\ [][Next]_vars

(* Execute goes on when it can, and the kernel ends a process that was     *)
(* killed.  A tool may run for ever, and nobody need take a finding.       *)
FairSpec == Spec /\ WF_vars(Execute) /\ WF_vars(ToolDies) /\ WF_vars(CloneDies)

-----------------------------------------------------------------------------
(* Properties.                                                             *)

Failures == {None, "exit", "marker", "report", "nothing", "line", "aborted"}

TypeOK ==
    /\ tool \in Tools /\ jobs \in 0..MaxJobs
    /\ {env, profile, used} \subseteq Profiles \cup {None}
    /\ proc \in {"none", "running", "exited"}
    /\ exit \in {None, "zero", "nonzero", "killed"} /\ shot \in BOOLEAN
    /\ printed \in Seq(Lines \cup Unusable) /\ Len(printed) <= MaxPrints
    /\ pipe \in Seq(Lines \cup Unusable) /\ Len(pipe) <= PipeSize
    /\ report \in {"missing", "garbled", "whole"} /\ marker \in BOOLEAN
    /\ pc \in {"idle", "cloning", "reading", "sending", "waiting"}
    /\ failure \in Failures
    /\ todo \in Seq(Lines) /\ emitted \in Seq(Lines)
    /\ {readErr, odd, cut, checkout, cancelled, expired} \subseteq BOOLEAN
    /\ {given, result} \subseteq {None, "ok", "error", "stopped"}

(* No process outlives its job, and no clone: the process has ended and was*)
(* reaped before Execute returns, on every path, so the next job of a warm *)
(* container meets neither.                                                *)
NoProcessOutlivesItsJob == Ended => proc = "none" /\ ~checkout

(* A job that ends well has sent every finding of its tool, up to the cap, *)
(* and its tool was not interrupted: one that a cancellation or the hard   *)
(* timeout has killed is a success only if its report was whole.           *)
SuccessIsComplete ==
    result = "ok" =>
        /\ \/ ToSet(printed) \cap Lines = ToSet(emitted)
           \/ Its("cap") /\ Len(emitted) = MaxUrls
        /\ exit = "killed" => cut \/ report = "whole"

(* A job that ends well with no finding hides no failure that its tool has *)
(* shown by its exit code, on stderr, by output that cannot be read or by  *)
(* leaving no report.  What it may hide is what its adapter passes over:   *)
(* a gau or a katana that fails and shows it nowhere, nikto's line that it *)
(* could not connect, wpscan's report of a scan it aborted or of a site not*)
(* set up, and the exit code of a wpscan or a ZAP whose report can be read.*)
(* In those adapters an empty success is no proof that the target is clean.*)
OnlyKnownFailuresAreSilent ==
    result = "ok" /\ emitted = <<>> =>
        /\ failure \in {None} \cup Its("passes") \/ (failure = "exit" /\ Its("exit") = "never")
        /\ exit = "zero" \/ (report = "whole" /\ Its("exit") = "never")
        /\ ~marker /\ ~readErr
        /\ Its("missing") /\ Its("reads") = "report" => report = "whole"

(* Reaching the cap is a success: the tool is killed, which is no failure, *)
(* and exactly MaxUrls findings were sent.                                 *)
CapIsNoFailure ==
    /\ Its("cap") => Len(emitted) <= MaxUrls
    /\ Ended /\ cut /\ ~Stopped => result = "ok"

(* A job that says it succeeded has, and one that has says so.             *)
OutcomeIsTrue == SuccessIsComplete /\ CapIsNoFailure

(* A job that is cancelled ends, though its tool would run for ever and    *)
(* nobody takes its findings.  So does one whose hard timeout expires, but *)
(* where the adapter does not hear the timeout at a send it may be blocked *)
(* there until somebody takes the finding or cancels the job.              *)
StoppedJobEnds == Stopped ~> Ended \/ (AtSend /\ ~cancelled /\ ~Its("hears"))

(* When the output of a tool cannot be read any more, the adapters that    *)
(* kill it end their job, though the tool fills a pipe that nobody reads.  *)
ReadErrorEndsJob == readErr /\ Its("stops") ~> Ended

(* A job whose tool is told to stop ends: by a cancellation, by the hard   *)
(* timeout, or because its output cannot be read.  The last is of rustscan,*)
(* katana and ffuf only: nmap, nikto and gau go on waiting for a tool that *)
(* nobody reads, until the hard timeout or, in nikto, a cancellation.      *)
StoppedToolEndsJob == StoppedJobEnds /\ ReadErrorEndsJob

(* config.go:14: "a warm-pool reused container sees its own job's config   *)
(* instead of its first-run OASM_CONFIG env".                              *)
JobSeesItsProfile == profile # None => used = profile
=============================================================================
