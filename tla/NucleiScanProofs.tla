-------------------------- MODULE NucleiScanProofs --------------------------
(***************************************************************************)
(* That the engine runs the templates of its own job, for any number of    *)
(* jobs, templates and overlapping executions.                             *)
(***************************************************************************)
EXTENDS NucleiScan, TLAPS

Staging == {"download", "save", "fill", "rename", "write"}

(* What the cache holds under a key is whole, and so is a file that is     *)
(* about to be renamed there.                                              *)
CacheInv ==
    /\ \A k \in Keys : cache[k] \in {None, "whole"}
    /\ \A j \in Jobs : pc[j] = "rename" => tmp[j] = "whole"

(* What a job has staged is a prefix of what it brought.                   *)
IsPrefix(s, c) ==
    /\ Len(s) <= Len(c)
    /\ \A i \in 1..Len(s) : s[i] = Whole(c[i])

StageInv(j) ==
    /\ IsPrefix(staged[j], Custom(j))
    /\ pc[j] \in Staging => Len(staged[j]) < Len(Custom(j))
    /\ pc[j] \in {"save", "fill", "rename"} => Current(j) \in Keys
    /\ pc[j] = "engine" => Len(staged[j]) = Len(Custom(j))
    /\ pc[j] = "scan" =>
          loaded[j] = IF Custom(j) = <<>> THEN <<Whole(Baked)>>
                      ELSE [i \in DOMAIN Custom(j) |-> Whole(Custom(j)[i])]

IInv == TypeOK /\ CacheInv /\ \A j \in Jobs : StageInv(j)

-----------------------------------------------------------------------------
LEMMA CustomIsSeq ==
  ASSUME NEW j \in Jobs
  PROVE  Custom(j) \in Seq(Keys \cup Plain)
  BY NucleiAssumption DEF Custom

(* Another template at the end of a prefix.                                *)
LEMMA PrefixGrows ==
  ASSUME NEW s \in Seq(Files), NEW c \in Seq(Keys \cup Plain), IsPrefix(s, c), Len(s) < Len(c),
         NEW f, f = Append(s, Whole(c[Len(s) + 1]))
  PROVE  IsPrefix(f, c) /\ f \in Seq(Files)
  <1>1. /\ Len(s) \in Nat /\ Len(c) \in Nat
        /\ Len(s) + 1 \in 1..Len(c) /\ c[Len(s) + 1] \in Keys \cup Plain
    OBVIOUS
  <1>2. Whole(c[Len(s) + 1]) \in Files
    BY <1>1 DEF Whole, File, Files
  <1>3. /\ f \in Seq(Files) /\ Len(f) = Len(s) + 1 /\ f[Len(s) + 1] = Whole(c[Len(s) + 1])
        /\ \A i \in 1..Len(s) : f[i] = s[i]
    BY <1>2
  <1> QED
    BY <1>1, <1>3 DEF IsPrefix

(* A prefix of full length is what the engine should load.                 *)
LEMMA FullPrefix ==
  ASSUME NEW s \in Seq(Files), NEW c \in Seq(Keys \cup Plain), IsPrefix(s, c), Len(s) = Len(c)
  PROVE  s = [i \in DOMAIN c |-> Whole(c[i])]
  <1>1. DOMAIN c = 1..Len(c) /\ DOMAIN s = 1..Len(c) /\ s = [i \in DOMAIN s |-> s[i]]
    OBVIOUS
  <1> QED
    BY <1>1 DEF IsPrefix

LEMMA InitIInv == Init => IInv
  <1> SUFFICES ASSUME Init PROVE IInv
    OBVIOUS
  <1>1. TypeOK
    BY DEF Init, TypeOK, Steps
  <1>2. CacheInv
    BY DEF Init, CacheInv
  <1>3. ASSUME NEW j \in Jobs
        PROVE  StageInv(j)
    BY CustomIsSeq DEF Init, StageInv, Staging, IsPrefix
  <1> QED
    BY <1>1, <1>2, <1>3 DEF IInv

Same(k) ==
    /\ pc'[k] = pc[k] /\ tmp'[k] = tmp[k]
    /\ staged'[k] = staged[k] /\ loaded'[k] = loaded[k]

(* Every step is a step of one job, and changes the cache in whole if it   *)
(* changes it.                                                             *)
LEMMA OneJob ==
  ASSUME IInv, TypeOK', NEW j \in Jobs,
         \A k \in Jobs : k # j => Same(k),
         pc'[j] = "rename" => tmp'[j] = "whole",
         \A k \in Keys : cache'[k] \in {cache[k], "whole"},
         StageInv(j)'
  PROVE  IInv'
  <1>1. CacheInv'
    BY DEF IInv, CacheInv, Same
  <1>2. ASSUME NEW k \in Jobs
        PROVE  StageInv(k)'
    <2>1. CASE k = j
      BY <2>1
    <2>2. CASE k # j
      <3>1. StageInv(k) /\ Same(k)
        BY <2>2 DEF IInv
      <3> QED
        BY <3>1 DEF StageInv, Same, Custom, Current
    <2> QED
      BY <2>1, <2>2
  <1> QED
    BY <1>1, <1>2 DEF IInv

-----------------------------------------------------------------------------
(* Steps that end the job, or do not touch its files.                      *)
LEMMA ReturnKeeps ==
  ASSUME IInv, NEW j \in Jobs, NEW how \in {"ok", "error"}, Return(j, how),
         UNCHANGED <<cache, tmp, loaded, events, cancelled, abandoned>>
  PROVE  IInv'
  <1> USE DEF Return, Go, events
  <1>1. TypeOK
    BY DEF IInv
  <1>2. TypeOK'
    BY <1>1 DEF TypeOK, Steps
  <1>3. \A k \in Jobs : k # j => Same(k)
    BY <1>1 DEF TypeOK, Same
  <1>4. pc'[j] = "ended" /\ staged'[j] = <<>>
    BY <1>1 DEF TypeOK
  <1>5. StageInv(j)'
    BY <1>4, CustomIsSeq DEF StageInv, Staging, IsPrefix, Custom
  <1> QED
    BY <1>2, <1>3, <1>4, <1>5, OneJob

LEMMA MoveKeeps ==
  ASSUME IInv, NEW j \in Jobs, NEW step \in Steps \ {"rename", "scan"}, Go(j, step),
         UNCHANGED <<staged, loaded, events, result, cancelled, abandoned>>,
         tmp' \in [Jobs -> {None, "part", "whole"}],
         \A k \in Jobs : k # j => tmp'[k] = tmp[k],
         cache' \in [Keys -> {None, "part", "whole"}],
         \A k \in Keys : cache'[k] \in {cache[k], "whole"},
         step \in Staging => Len(staged[j]) < Len(Custom(j)),
         step \in {"save", "fill"} => Current(j) \in Keys,
         step = "engine" => Len(staged[j]) = Len(Custom(j))
  PROVE  IInv'
  <1> USE DEF Go, events
  <1>1. TypeOK /\ StageInv(j)
    BY DEF IInv
  <1>2. TypeOK'
    BY <1>1 DEF TypeOK
  <1>3. \A k \in Jobs : k # j => Same(k)
    BY <1>1 DEF TypeOK, Same
  <1>4. pc'[j] = step /\ staged'[j] = staged[j]
    BY <1>1 DEF TypeOK
  <1>5. StageInv(j)'
    BY <1>1, <1>4 DEF StageInv, Staging, Custom, Current
  <1> QED
    BY <1>2, <1>3, <1>4, <1>5, OneJob

(* A whole file is staged.                                                 *)
LEMMA StagedKeeps ==
  ASSUME IInv, NEW j \in Jobs, Len(staged[j]) < Len(Custom(j)),
         staged' = [staged EXCEPT ![j] = Append(@, Whole(Current(j)))],
         Go(j, "stage") \/ (pc[j] = "stage" /\ UNCHANGED pc),
         UNCHANGED <<cache, tmp, loaded, events, result, cancelled, abandoned>>
  PROVE  IInv'
  <1> USE DEF Go, events
  <1>1. TypeOK /\ StageInv(j)
    BY DEF IInv
  <1>2. staged[j] \in Seq(Files) /\ staged'[j] = Append(staged[j], Whole(Custom(j)[Len(staged[j]) + 1]))
    BY <1>1 DEF TypeOK, Current
  <1>3. IsPrefix(staged'[j], Custom(j)) /\ staged'[j] \in Seq(Files)
    BY <1>1, <1>2, CustomIsSeq, PrefixGrows DEF StageInv
  <1>4. pc'[j] = "stage"
    BY <1>1 DEF TypeOK
  <1>5. TypeOK'
    <2>1. staged' = [k \in Jobs |-> IF k = j THEN staged'[j] ELSE staged[k]]
      BY <1>1 DEF TypeOK
    <2>2. \A k \in Jobs : staged[k] \in Seq(Files)
      BY <1>1 DEF TypeOK
    <2>3. staged' \in [Jobs -> Seq(Files)]
      BY <1>3, <2>1, <2>2
    <2>4. pc' \in [Jobs -> Steps]
      BY <1>1 DEF TypeOK, Steps
    <2> QED
      BY <1>1, <2>3, <2>4 DEF TypeOK
  <1>6. \A k \in Jobs : k # j => Same(k)
    BY <1>1 DEF TypeOK, Same
  <1>7. StageInv(j)'
    BY <1>3, <1>4 DEF StageInv, Staging, Custom
  <1> QED
    BY <1>4, <1>5, <1>6, <1>7, OneJob

-----------------------------------------------------------------------------
LEMMA StartKeeps ==
  ASSUME IInv, NEW j \in Jobs, Start(j)
  PROVE  IInv'
  <1>1. TypeOK
    BY DEF IInv
  <1>2. CASE Return(j, "error")
    BY <1>2, ReturnKeeps DEF Start
  <1>3. CASE Custom(j) = <<>> /\ Go(j, "engine") /\ UNCHANGED <<result, staged>>
    <2>1. IsPrefix(staged[j], <<>>) /\ staged[j] \in Seq(Files)
      BY <1>1, <1>3 DEF IInv, StageInv, TypeOK
    <2>2. Len(staged[j]) = Len(Custom(j))
      BY <1>3, <2>1 DEF IsPrefix
    <2> QED
      BY <1>1, <1>3, <2>2, MoveKeeps DEF Start, Steps, Staging, TypeOK
  <1>4. CASE Go(j, "stage") /\ UNCHANGED <<result, staged>>
    BY <1>1, <1>4, MoveKeeps DEF Start, Steps, Staging, TypeOK
  <1> QED
    BY <1>2, <1>3, <1>4 DEF Start

LEMMA LookupKeeps ==
  ASSUME IInv, NEW j \in Jobs, Lookup(j)
  PROVE  IInv'
  <1>1. TypeOK /\ CacheInv /\ StageInv(j)
    BY DEF IInv
  <1>2. UNCHANGED <<cache, tmp, loaded, events, cancelled, abandoned>>
        /\ pc[j] = "stage" /\ Len(staged[j]) < Len(Custom(j))
    BY DEF Lookup
  <1>3. CASE Return(j, "error")
    BY <1>2, <1>3, ReturnKeeps
  <1>4. CASE /\ Current(j) \in Keys /\ cache[Current(j)] # None
             /\ staged' = [staged EXCEPT ![j] = Append(@, File(Current(j), cache[Current(j)]))]
             /\ UNCHANGED <<pc, result>>
    <2>1. cache[Current(j)] = "whole"
      BY <1>1, <1>4 DEF CacheInv
    <2>2. File(Current(j), cache[Current(j)]) = Whole(Current(j))
      BY <2>1 DEF Whole
    <2>3. staged' = [staged EXCEPT ![j] = Append(@, Whole(Current(j)))]
      BY <1>4, <2>2
    <2> QED
      BY <1>2, <1>4, <2>3, StagedKeeps
  <1>5. CASE Go(j, "download") /\ UNCHANGED <<staged, result>>
    BY <1>1, <1>2, <1>5, MoveKeeps DEF Steps, Staging, TypeOK
  <1> QED
    BY <1>3, <1>4, <1>5 DEF Lookup

LEMMA DownloadKeeps ==
  ASSUME IInv, NEW j \in Jobs, Download(j)
  PROVE  IInv'
  <1>1. TypeOK /\ StageInv(j)
    BY DEF IInv
  <1>2. Len(staged[j]) < Len(Custom(j))
    BY <1>1 DEF Download, StageInv, Staging
  <1>3. CASE Current(j) \in Keys
    BY <1>1, <1>2, <1>3, MoveKeeps DEF Download, files, Steps, Staging, TypeOK
  <1>4. CASE Current(j) \notin Keys
    BY <1>1, <1>2, <1>4, MoveKeeps DEF Download, files, Steps, Staging, TypeOK
  <1> QED
    BY <1>3, <1>4

LEMMA SaveBeginsKeeps ==
  ASSUME IInv, NEW j \in Jobs, SaveBegins(j)
  PROVE  IInv'
  <1>1. TypeOK /\ StageInv(j)
    BY DEF IInv
  <1>2. Len(staged[j]) < Len(Custom(j)) /\ Current(j) \in Keys
    BY <1>1 DEF SaveBegins, StageInv, Staging
  <1>3. CASE Begin(j) /\ Go(j, "fill")
    BY <1>1, <1>2, <1>3, MoveKeeps DEF SaveBegins, Begin, Steps, Staging, TypeOK
  <1>4. CASE UNCHANGED <<cache, tmp>> /\ Go(j, "write")
    BY <1>1, <1>2, <1>4, MoveKeeps DEF SaveBegins, Steps, Staging, TypeOK
  <1> QED
    BY <1>3, <1>4 DEF SaveBegins

LEMMA FillKeeps ==
  ASSUME IInv, NEW j \in Jobs, Fill(j)
  PROVE  IInv'
  <1>1. TypeOK /\ StageInv(j)
    BY DEF IInv
  <1>2. Len(staged[j]) < Len(Custom(j)) /\ Current(j) \in Keys
    BY <1>1 DEF Fill, StageInv, Staging
  <1>3. CASE tmp' = [tmp EXCEPT ![j] = "whole"] /\ Go(j, "rename")
    <2>1. TypeOK'
      BY <1>1, <1>3 DEF Fill, Go, events, TypeOK, Steps
    <2>2. \A k \in Jobs : k # j => Same(k)
      BY <1>1, <1>3 DEF Fill, Go, TypeOK, Same
    <2>3. pc'[j] = "rename" /\ tmp'[j] = "whole"
      BY <1>1, <1>3 DEF Go, TypeOK
    <2>4. StageInv(j)'
      BY <1>1, <1>2, <2>3 DEF Fill, StageInv, Staging, Custom, Current
    <2> QED
      BY <2>1, <2>2, <2>3, <2>4, OneJob DEF Fill
  <1>4. CASE tmp' = [tmp EXCEPT ![j] = None] /\ Go(j, "write")
    BY <1>1, <1>2, <1>4, MoveKeeps DEF Fill, Steps, Staging, TypeOK
  <1> QED
    BY <1>3, <1>4 DEF Fill

LEMMA RenameKeeps ==
  ASSUME IInv, NEW j \in Jobs, Rename(j)
  PROVE  IInv'
  <1>1. TypeOK /\ CacheInv /\ StageInv(j)
    BY DEF IInv
  <1>2. Len(staged[j]) < Len(Custom(j)) /\ Current(j) \in Keys /\ tmp[j] = "whole"
    BY <1>1 DEF Rename, StageInv, Staging, CacheInv
  <1>3. /\ cache' \in [Keys -> {None, "part", "whole"}]
        /\ \A k \in Keys : cache'[k] \in {cache[k], "whole"}
    BY <1>1, <1>2 DEF Rename, TypeOK
  <1>4. /\ tmp' \in [Jobs -> {None, "part", "whole"}]
        /\ \A k \in Jobs : k # j => tmp'[k] = tmp[k]
    BY <1>1 DEF Rename, TypeOK
  <1> QED
    BY <1>2, <1>3, <1>4, MoveKeeps DEF Rename, Steps, Staging

LEMMA EngineStartsKeeps ==
  ASSUME IInv, NEW j \in Jobs, EngineStarts(j)
  PROVE  IInv'
  <1>1. TypeOK /\ StageInv(j)
    BY DEF IInv
  <1>2. CASE Return(j, "error") /\ UNCHANGED loaded
    BY <1>2, ReturnKeeps DEF EngineStarts
  <1>3. CASE /\ loaded' = [loaded EXCEPT ![j] =
                   IF Custom(j) = <<>> THEN <<Whole(Baked)>>
                   ELSE IF Filtered(Profile[j]) THEN <<>> ELSE staged[j]]
             /\ Go(j, "scan") /\ UNCHANGED <<staged, result>>
    <2> DEFINE what == IF Custom(j) = <<>> THEN <<Whole(Baked)>> ELSE staged[j]
    <2>1. Custom(j) # <<>> => ~Filtered(Profile[j])
      BY DEF Filtered, Custom
    <2>2. loaded'[j] = what /\ pc'[j] = "scan"
      BY <1>1, <1>3, <2>1 DEF TypeOK, Go
    <2>3. what \in Seq(Files)
      <3>1. Whole(Baked) \in Files
        BY DEF Whole, File, Files
      <3>2. <<Whole(Baked)>> \in Seq(Files)
        BY <3>1
      <3>3. staged[j] \in Seq(Files)
        BY <1>1 DEF TypeOK
      <3> QED
        BY <3>2, <3>3
    <2>4. TypeOK'
      <3>1. loaded' = [k \in Jobs |-> IF k = j THEN loaded'[j] ELSE loaded[k]]
        BY <1>1, <1>3 DEF TypeOK
      <3>2. loaded' \in [Jobs -> Seq(Files)]
        BY <1>1, <2>2, <2>3, <3>1 DEF TypeOK
      <3> QED
        BY <1>1, <1>3, <3>2 DEF EngineStarts, Go, events, TypeOK, Steps
    <2>5. \A k \in Jobs : k # j => Same(k)
      BY <1>1, <1>3 DEF EngineStarts, Go, TypeOK, Same
    <2>6. Custom(j) # <<>> => staged[j] = [i \in DOMAIN Custom(j) |-> Whole(Custom(j)[i])]
      BY <1>1, FullPrefix, CustomIsSeq DEF EngineStarts, StageInv, TypeOK
    <2>7. StageInv(j)'
      BY <1>1, <1>3, <2>2, <2>6 DEF StageInv, Staging, Custom
    <2> QED
      BY <2>2, <2>4, <2>5, <2>7, OneJob DEF EngineStarts
  <1> QED
    BY <1>2, <1>3 DEF EngineStarts

(* Steps that leave files and control alone.                               *)
LEMMA QuietKeeps ==
  ASSUME IInv, TypeOK', UNCHANGED <<files, pc, loaded>>
  PROVE  IInv'
  BY DEF IInv, files, CacheInv, StageInv, Custom, Current

-----------------------------------------------------------------------------
LEMMA NextKeeps == IInv /\ [Next]_vars => IInv'
  <1> SUFFICES ASSUME IInv, [Next]_vars PROVE IInv'
    OBVIOUS
  <1>1. ASSUME NEW j \in Jobs, StagingFails(j) \/ ScanEnds(j)
        PROVE  IInv'
    BY <1>1, ReturnKeeps DEF StagingFails, ScanEnds, Verdict
  <1>2. ASSUME NEW j \in Jobs, WriteStaged(j)
        PROVE  IInv'
    BY <1>2, StagedKeeps DEF WriteStaged, IInv, StageInv, Staging
  <1>3. ASSUME NEW j \in Jobs, StagingEnds(j)
        PROVE  IInv'
    BY <1>3, MoveKeeps DEF StagingEnds, files, Steps, Staging, IInv, TypeOK
  <1>4. ASSUME NEW j \in Jobs, Cancel(j) \/ Abandon(j) \/ Event(j)
        PROVE  IInv'
    <2>1. TypeOK'
      <3> USE DEF IInv, TypeOK, files, events
      <3>1. CASE Cancel(j)
        BY <3>1 DEF Cancel
      <3>2. CASE Abandon(j)
        BY <3>2 DEF Abandon
      <3>3. CASE Event(j)
        <4>1. UNCHANGED <<files, pc, loaded, result, cancelled, abandoned>>
          BY <3>3 DEF Event
        <4>2. PICK how \in Outcomes :
                 /\ had' = [had EXCEPT ![j] = @ \cup {how}]
                 /\ IF how = "sent" THEN Counted(found, j) ELSE UNCHANGED found
                 /\ IF how = "unusable" THEN Counted(skipped, j) ELSE UNCHANGED skipped
          BY <3>3 DEF Event
        <4>3. found' \in [Jobs -> Nat] /\ skipped' \in [Jobs -> Nat]
          <5>1. CASE Counted(found, j) /\ UNCHANGED skipped
            BY <5>1 DEF Counted
          <5>2. CASE Counted(skipped, j) /\ UNCHANGED found
            BY <5>2 DEF Counted
          <5>3. CASE UNCHANGED <<found, skipped>>
            BY <5>3
          <5>4. CASE how = "sent"
            BY <4>2, <5>1, <5>4
          <5>5. CASE how = "unusable"
            BY <4>2, <5>2, <5>5
          <5>6. CASE how \notin {"sent", "unusable"}
            BY <4>2, <5>3, <5>6
          <5> QED
            BY <5>4, <5>5, <5>6
        <4>4. had' \in [Jobs -> SUBSET Outcomes]
          <5>1. had[j] \cup {how} \in SUBSET Outcomes
            OBVIOUS
          <5> QED
            BY <4>2, <5>1
        <4> QED
          BY <4>1, <4>3, <4>4
      <3> QED
        BY <1>4, <3>1, <3>2, <3>3
    <2> QED
      BY <1>4, <2>1, QuietKeeps DEF Cancel, Abandon, Event
  <1>5. CASE UNCHANGED vars
    BY <1>5, QuietKeeps DEF vars, files, events, IInv, TypeOK
  <1> QED
    BY <1>1, <1>2, <1>3, <1>4, <1>5, StartKeeps, LookupKeeps, DownloadKeeps,
       SaveBeginsKeeps, FillKeeps, RenameKeeps, EngineStartsKeeps
    DEF Next, JobStep, AllEnded

THEOREM Invariance == Spec => []IInv
  BY InitIInv, NextKeeps, PTL DEF Spec

(* The state of module NucleiScan keeps its types.                         *)
THEOREM TypeCorrect == Spec => []TypeOK
  <1>1. IInv => TypeOK
    BY DEF IInv
  <1> QED
    BY <1>1, Invariance, PTL

(* The engine runs its own job's templates, all and whole, for any number  *)
(* of jobs that overlap in a container and share its cache.                *)
THEOREM TemplatesAreOwn == Spec => []OwnTemplatesOnly
  <1>1. IInv => OwnTemplatesOnly
    BY DEF IInv, StageInv, OwnTemplatesOnly
  <1> QED
    BY <1>1, Invariance, PTL

-----------------------------------------------------------------------------
(* The account of a scan's events, and the result that is read off it.     *)
HonestInv ==
    \A j \in Jobs :
        /\ "dropped" \in had[j] => cancelled[j]
        /\ "sent" \in had[j] <=> found[j] > 0
        /\ "unusable" \in had[j] <=> skipped[j] > 0
        /\ result[j] = "ok" => pc[j] = "ended" /\ (found[j] = 0 => skipped[j] = 0)

LEMMA HonestStep == TypeOK /\ HonestInv /\ [Next]_vars => HonestInv'
  <1> SUFFICES ASSUME TypeOK, HonestInv, [Next]_vars PROVE HonestInv'
    OBVIOUS
  <1> USE DEF HonestInv, events, Go
  <1>1. /\ pc \in [Jobs -> Steps] /\ result \in [Jobs -> {None, "ok", "error"}]
        /\ found \in [Jobs -> Nat] /\ skipped \in [Jobs -> Nat]
        /\ had \in [Jobs -> SUBSET Outcomes]
        /\ cancelled \in [Jobs -> BOOLEAN]
    BY DEF TypeOK
  (* An unsuccessful return, or none at all, before the scan ends.         *)
  <1>2. ASSUME NEW j \in Jobs, pc[j] # "ended", UNCHANGED <<found, skipped, had, cancelled>>,
               \/ \E step \in Steps : Go(j, step) /\ UNCHANGED result
               \/ Return(j, "error")
               \/ UNCHANGED <<pc, result>>
        PROVE  HonestInv'
    BY <1>1, <1>2 DEF Return
  <1>3. ASSUME NEW j \in Jobs, Cancel(j) \/ Abandon(j) PROVE HonestInv'
    BY <1>1, <1>3 DEF Cancel, Abandon
  <1>4. ASSUME NEW j \in Jobs, Start(j) \/ StagingFails(j) \/ WriteStaged(j) \/ Lookup(j)
        PROVE  HonestInv'
    BY <1>2, <1>4 DEF Start, StagingFails, WriteStaged, Lookup, Steps
  <1>5. ASSUME NEW j \in Jobs, Download(j) \/ SaveBegins(j) \/ Fill(j) \/ Rename(j)
        PROVE  HonestInv'
    BY <1>2, <1>5 DEF Download, SaveBegins, Fill, Rename, Steps
  <1>6. ASSUME NEW j \in Jobs, StagingEnds(j) \/ EngineStarts(j) PROVE HonestInv'
    BY <1>2, <1>6 DEF StagingEnds, EngineStarts, Steps
  <1>7. ASSUME NEW j \in Jobs, Event(j) PROVE HonestInv'
    <2>1. pc[j] = "scan" /\ UNCHANGED <<pc, result, cancelled>>
      BY <1>7 DEF Event
    <2>2. PICK how \in Outcomes :
             /\ how = "dropped" => cancelled[j]
             /\ had' = [had EXCEPT ![j] = @ \cup {how}]
             /\ IF how = "sent" THEN Counted(found, j) ELSE UNCHANGED found
             /\ IF how = "unusable" THEN Counted(skipped, j) ELSE UNCHANGED skipped
      BY <1>7 DEF Event
    <2>3. \A k \in Jobs : k # j => /\ found'[k] = found[k] /\ skipped'[k] = skipped[k]
                                   /\ had'[k] = had[k]
      BY <1>1, <2>2 DEF Counted
    <2>4. had'[j] = had[j] \cup {how}
      BY <1>1, <2>2
    <2>5. IF how = "sent" THEN found'[j] > 0 ELSE found'[j] = found[j]
      BY <1>1, <2>2 DEF Counted
    <2>6. IF how = "unusable" THEN skipped'[j] > 0 ELSE skipped'[j] = skipped[j]
      BY <1>1, <2>2 DEF Counted
    <2>7. /\ "dropped" \in had'[j] => cancelled[j]
          /\ "sent" \in had'[j] <=> found'[j] > 0
          /\ "unusable" \in had'[j] <=> skipped'[j] > 0
      BY <2>2, <2>4, <2>5, <2>6 DEF Outcomes
    <2>8. result[j] # "ok"
      BY <2>1
    <2> QED
      BY <2>1, <2>3, <2>7, <2>8
  <1>8. ASSUME NEW j \in Jobs, ScanEnds(j) PROVE HonestInv'
    <2>1. PICK how \in {"error", Verdict(j)} : Return(j, how)
      BY <1>8 DEF ScanEnds
    <2>2. how = "ok" => (found[j] = 0 => skipped[j] = 0)
      BY <1>1, <2>1 DEF Verdict
    <2>3. UNCHANGED <<found, skipped, had, cancelled>> /\ pc[j] = "scan"
      BY <1>8 DEF ScanEnds
    <2> QED
      BY <1>1, <2>1, <2>2, <2>3 DEF Return
  <1>9. CASE UNCHANGED vars
    BY <1>9 DEF vars
  <1> QED
    BY <1>3, <1>4, <1>5, <1>6, <1>7, <1>8, <1>9 DEF Next, JobStep, AllEnded

(* For any number of jobs and events: a success with a live context has    *)
(* dropped no finding but those whose handler panicked, and one that sent  *)
(* none is not the empty scan of a host that did not respond, increments   *)
(* lost between the engine's goroutines included.                          *)
THEOREM SuccessMeansScanned == Spec => []SuccessIsHonest
  <1>1. Init => HonestInv
    <2> SUFFICES ASSUME Init, NEW j \in Jobs
                 PROVE  /\ had[j] = {} /\ found[j] = 0 /\ skipped[j] = 0 /\ result[j] = None
      BY DEF HonestInv, None
    <2> QED
      BY DEF Init
  <1>2. Spec => [](TypeOK /\ HonestInv)
    BY <1>1, HonestStep, TypeCorrect, PTL DEF Spec
  <1>3. TypeOK /\ HonestInv => SuccessIsHonest
    <2> SUFFICES ASSUME TypeOK, HonestInv, NEW j \in Jobs, result[j] = "ok", ~cancelled[j]
                 PROVE  \/ "sent" \in had[j] /\ "dropped" \notin had[j]
                        \/ had[j] \subseteq {"panicked"}
      BY DEF SuccessIsHonest
    <2>1. /\ "dropped" \notin had[j] /\ ("sent" \in had[j] \/ found[j] = 0)
          /\ "unusable" \in had[j] => skipped[j] > 0
          /\ found[j] = 0 => skipped[j] = 0
      BY DEF HonestInv, TypeOK
    <2>2. had[j] \subseteq Outcomes /\ ("sent" \in had[j] \/ "unusable" \notin had[j])
      BY <2>1 DEF TypeOK
    <2> QED
      BY <2>1, <2>2 DEF Outcomes
  <1> QED
    BY <1>2, <1>3, PTL
=============================================================================
