--------------------------- MODULE AcunetixProofs ---------------------------
(***************************************************************************)
(* The Acunetix adapter, in three parts.  What the jobs of module          *)
(* AcunetixScan leave on the server, for any number of them; what          *)
(* collectFindings of module AcunetixCollect guarantees for any list, any  *)
(* cap on pages, any number of workers and any order in which lookups end: *)
(* no truncation of the list goes unnoticed, no page is skipped, no        *)
(* vulnerability is dropped, and the pool neither grows past its size nor  *)
(* outlives the call; and that the second module is, for the job around it,*)
(* the two steps that the first makes of it.                               *)
(***************************************************************************)
EXTENDS AcunetixScan, AcunetixCollect, FiniteSetTheorems, SequenceTheorems, TLAPS

-----------------------------------------------------------------------------
(* The jobs: module AcunetixScan.                                          *)

(* Only a job that is past CreateTarget can have made the target of its    *)
(* name, and only that target is marked as created.                        *)
CreatedInv ==
    \A j \in Jobs :
        /\ created[j] => target[j] = j
        /\ j \in targets \/ created[j] \/ (\E k \in Jobs : target[k] = j)
               => pc[j] \notin {"find", "create"}
        /\ created[j] /\ outcome[j] # "ok" => j \in targets

(* A scan that has stopped is there as long as its job and its target are. *)
ScanInv ==
    \A j \in Jobs :
        /\ outcome[j] = None <=> Running(j)
        /\ pc[j] \in {"find", "create", "schedule"}
               => j \notin scans /\ status[j] = "running"
        /\ outcome[j] = "ok" \/ pc[j] = "cleanup" => emitted[j]
        /\ status[j] # "running" /\ outcome[j] # "ok"
                /\ (created[j] \/ target[j] \in targets)
               => j \in scans
        /\ j \in scans => target[j] \in targets

IInv == TypeOK /\ CreatedInv /\ ScanInv /\ OwnerKeepsAll
-----------------------------------------------------------------------------
LEMMA InitIInv == Init => IInv
  <1> SUFFICES ASSUME Init PROVE IInv
    OBVIOUS
  <1> USE JobsAssumption DEF Init
  <1>1. TypeOK
    BY DEF TypeOK, Steps, None
  <1>2. CreatedInv
    <2>1. \A j \in Jobs : j \notin targets /\ ~created[j] /\ target[j] # j
      BY DEF None
    <2>2. \A j, k \in Jobs : target[k] # j
      OBVIOUS
    <2> QED
      BY <2>1, <2>2 DEF CreatedInv
  <1>3. ScanInv
    BY DEF ScanInv, Running, None
  <1>4. OwnerKeepsAll
    BY DEF OwnerKeepsAll
  <1> QED
    BY <1>1, <1>2, <1>3, <1>4 DEF IInv

(* A job that gives up ends and changes nothing else of it; its last       *)
(* request may still have created something.                               *)
LEMMA FailKeeps ==
  ASSUME IInv, NEW j \in Jobs, pc[j] \notin {"cleanup", "ended"},
         NEW how \in {"error", "canceled"}, Return(j, how),
         UNCHANGED <<target, created, emitted, cancelled, owned, status>>,
         troubled' \in BOOLEAN,
         \/ UNCHANGED <<targets, scans>>
         \/ pc[j] = "create" /\ targets' = targets \cup {j} /\ UNCHANGED scans
         \/ target[j] \in targets /\ scans' = scans \cup {j} /\ UNCHANGED targets
  PROVE  IInv'
  <1>1. /\ pc' = [pc EXCEPT ![j] = "ended"]
        /\ outcome' = [outcome EXCEPT ![j] = how]
    BY DEF Return, Go
  <1>2. TypeOK
    BY DEF IInv
  <1>3. /\ pc'[j] = "ended" /\ outcome'[j] = how
        /\ \A k \in Jobs : k # j => pc'[k] = pc[k] /\ outcome'[k] = outcome[k]
    BY <1>1, <1>2 DEF TypeOK
  <1>4. TypeOK'
    BY <1>1, <1>2 DEF TypeOK, Steps
  <1>5. CreatedInv'
    <2> SUFFICES ASSUME NEW k \in Jobs
                 PROVE  /\ created[k] => target[k] = k
                        /\ k \in targets' \/ created[k] \/ (\E l \in Jobs : target[l] = k)
                               => pc'[k] \notin {"find", "create"}
                        /\ created[k] /\ outcome'[k] # "ok" => k \in targets'
      BY DEF CreatedInv
    <2>1. CreatedInv /\ targets \subseteq targets'
      BY DEF IInv
    <2>2. CASE k = j
      BY <1>3, <2>1, <2>2 DEF IInv, ScanInv, CreatedInv, Running, None
    <2>3. CASE k # j
      BY <1>3, <2>1, <2>3 DEF CreatedInv
    <2> QED
      BY <2>2, <2>3
  <1>6. ScanInv'
    <2>1. CASE UNCHANGED <<targets, scans>>
      BY <2>1, <1>3 DEF IInv, ScanInv, Running, None
    <2>2. CASE pc[j] = "create" /\ targets' = targets \cup {j} /\ UNCHANGED scans
      <3>1. \A k \in Jobs : target[k] # j
        BY <2>2 DEF IInv, CreatedInv
      <3>2. j \notin scans /\ status[j] = "running"
        BY <2>2 DEF IInv, ScanInv
      <3>3. \A k \in Jobs : target'[k] \in targets' <=> target[k] \in targets
        BY <2>2, <3>1
      <3>4. ASSUME NEW k \in Jobs, k # j
            PROVE  /\ outcome'[k] = None <=> Running(k)'
                   /\ pc'[k] \in {"find", "create", "schedule"}
                          => k \notin scans' /\ status'[k] = "running"
                   /\ outcome'[k] = "ok" \/ pc'[k] = "cleanup" => emitted'[k]
                   /\ status'[k] # "running" /\ outcome'[k] # "ok"
                           /\ (created'[k] \/ target'[k] \in targets')
                          => k \in scans'
                   /\ k \in scans' => target'[k] \in targets'
        BY <2>2, <3>3, <3>4, <1>3 DEF IInv, ScanInv, Running
      <3> QED
        BY <2>2, <3>2, <3>4, <1>3 DEF ScanInv, Running, None
    <2>3. CASE target[j] \in targets /\ scans' = scans \cup {j} /\ UNCHANGED targets
      BY <2>3, <1>3 DEF IInv, ScanInv, Running, None
    <2> QED
      BY <2>1, <2>2, <2>3
  <1>7. OwnerKeepsAll'
    BY DEF IInv, OwnerKeepsAll
  <1> QED
    BY <1>4, <1>5, <1>6, <1>7 DEF IInv

LEMMA CleanUpKeeps ==
  ASSUME IInv, NEW j \in Jobs, CleanUp(j)
  PROVE  IInv'
  <1>1. /\ pc' = [pc EXCEPT ![j] = "ended"]
        /\ outcome' = [outcome EXCEPT ![j] = "ok"]
        /\ UNCHANGED <<status, target, created, emitted, cancelled, owned>>
        /\ pc[j] = "cleanup"
    BY DEF CleanUp, Return, Go
  <1>2. TypeOK /\ CreatedInv /\ ScanInv /\ OwnerKeepsAll
    BY DEF IInv
  <1>3. /\ pc'[j] = "ended" /\ outcome'[j] = "ok"
        /\ \A k \in Jobs : k # j => pc'[k] = pc[k] /\ outcome'[k] = outcome[k]
    BY <1>1, <1>2 DEF TypeOK
  <1>4. /\ targets' \subseteq targets /\ scans' \subseteq scans
        /\ troubled' \in BOOLEAN
    BY <1>2 DEF CleanUp, TypeOK
  <1>5. TypeOK'
    BY <1>1, <1>2, <1>4 DEF TypeOK, Steps
  <1>6. \/ targets' = targets /\ (scans' = scans \/ scans' = scans \ {j})
        \/ created[j] /\ targets' = targets \ {j} /\ scans' = scans \ ScansOf(j)
    BY DEF CleanUp, Doomed
  <1>7. \A k \in Jobs : k # j => (k \in targets' <=> k \in targets)
    BY <1>6
  <1>8. CreatedInv'
    BY <1>1, <1>2, <1>3, <1>4, <1>7 DEF CreatedInv
  <1>9. ScanInv'
    <2>1. CASE targets' = targets /\ (scans' = scans \/ scans' = scans \ {j})
      BY <2>1, <1>1, <1>2, <1>3 DEF ScanInv, Running, None
    <2>2. CASE created[j] /\ targets' = targets \ {j} /\ scans' = scans \ ScansOf(j)
      <3>1. \A k \in Jobs : k \in scans' <=> k \in scans /\ target[k] # j
        BY <2>2, JobsAssumption DEF ScansOf
      <3>2. \A k \in Jobs : created[k] => target[k] = k
        BY <1>2 DEF CreatedInv
      <3> QED
        BY <2>2, <3>1, <3>2, <1>1, <1>2, <1>3 DEF ScanInv, Running, None
    <2> QED
      BY <1>6, <2>1, <2>2
  <1>10. OwnerKeepsAll'
    <2>1. Owner \notin ScansOf(j) /\ Owner # j
      BY JobsAssumption DEF ScansOf
    <2> QED
      BY <2>1, <1>1, <1>2, <1>6 DEF OwnerKeepsAll
  <1> QED
    BY <1>5, <1>8, <1>9, <1>10 DEF IInv

(* A job goes on to its next step: nothing is deleted.                     *)
LEMMA FindKeeps ==
  ASSUME IInv, NEW j \in Jobs, FindTarget(j)
  PROVE  IInv'
  <1>1. CASE RequestFails(j)
    BY <1>1, FailKeeps DEF FindTarget, RequestFails, server
  <1>2. CASE /\ \/ targets = {} /\ Go(j, "create") /\ UNCHANGED target
                \/ /\ Go(j, "schedule")
                   /\ \E t \in targets : target' = [target EXCEPT ![j] = t]
             /\ UNCHANGED <<created, emitted, outcome, cancelled, owned, troubled>>
    <2>1. TypeOK /\ CreatedInv /\ ScanInv /\ OwnerKeepsAll
      BY DEF IInv
    <2>2. pc[j] = "find" /\ UNCHANGED <<targets, scans, status>>
      BY DEF FindTarget, server
    <2>3. /\ pc'[j] \in {"create", "schedule"}
          /\ \A k \in Jobs : k # j => pc'[k] = pc[k] /\ target'[k] = target[k]
          /\ pc'[j] = "schedule" => target'[j] \in targets
          /\ pc'[j] = "create" => targets = {} /\ target'[j] = target[j]
      BY <1>2, <2>1 DEF Go, TypeOK
    <2>4. TypeOK'
      BY <1>2, <2>1, <2>2 DEF TypeOK, Go, Steps
    <2>5. CreatedInv'
      <3>1. ~created[j] /\ j \notin targets /\ \A k \in Jobs : target[k] # j
        BY <2>1, <2>2 DEF CreatedInv
      <3>2. ASSUME NEW k \in Jobs
            PROVE  /\ created'[k] => target'[k] = k
                   /\ k \in targets' \/ created'[k] \/ (\E l \in Jobs : target'[l] = k)
                          => pc'[k] \notin {"find", "create"}
                   /\ created'[k] /\ outcome'[k] # "ok" => k \in targets'
        <4>1. CASE k = j
          BY <4>1, <3>1, <1>2, <2>2, <2>3 DEF CreatedInv
        <4>2. CASE k # j
          BY <4>2, <1>2, <2>1, <2>2, <2>3 DEF CreatedInv
        <4> QED
          BY <4>1, <4>2
      <3> QED
        BY <3>2 DEF CreatedInv
    <2>6. ScanInv'
      <3>1. j \notin scans /\ status[j] = "running"
        BY <2>1, <2>2 DEF ScanInv
      <3> QED
        BY <3>1, <1>2, <2>1, <2>2, <2>3 DEF ScanInv, Running, None
    <2>7. OwnerKeepsAll'
      BY <1>2, <2>1, <2>2 DEF OwnerKeepsAll
    <2> QED
      BY <2>4, <2>5, <2>6, <2>7 DEF IInv
  <1> QED
    BY <1>1, <1>2 DEF FindTarget

LEMMA CreateTargetKeeps ==
  ASSUME IInv, NEW j \in Jobs, CreateTarget(j)
  PROVE  IInv'
  <1>1. CASE targets' \in {targets, targets \cup {j}} /\ RequestFails(j)
    BY <1>1, FailKeeps DEF CreateTarget, RequestFails
  <1>2. CASE /\ targets' = targets \cup {j}
             /\ target' = [target EXCEPT ![j] = j]
             /\ created' = [created EXCEPT ![j] = TRUE]
             /\ Go(j, "schedule")
             /\ UNCHANGED <<emitted, outcome, cancelled, owned, troubled>>
    <2>1. TypeOK /\ CreatedInv /\ ScanInv /\ OwnerKeepsAll
      BY DEF IInv
    <2>2. pc[j] = "create" /\ UNCHANGED <<scans, status>>
      BY DEF CreateTarget
    <2>3. /\ pc'[j] = "schedule" /\ target'[j] = j /\ created'[j]
          /\ \A k \in Jobs : k # j => /\ pc'[k] = pc[k] /\ target'[k] = target[k]
                                     /\ created'[k] = created[k]
      BY <1>2, <2>1 DEF Go, TypeOK
    <2>4. TypeOK'
      BY <1>2, <2>1, <2>2 DEF TypeOK, Go, Steps
    <2>5. CreatedInv'
      BY <1>2, <2>1, <2>2, <2>3 DEF CreatedInv
    <2>6. ScanInv'
      <3>1. j \notin scans /\ status[j] = "running" /\ \A k \in Jobs : target[k] # j
        BY <2>1, <2>2 DEF CreatedInv, ScanInv
      <3> QED
        BY <3>1, <1>2, <2>1, <2>2, <2>3 DEF ScanInv, Running, None
    <2>7. OwnerKeepsAll'
      BY <1>2, <2>1, <2>2 DEF OwnerKeepsAll
    <2> QED
      BY <2>4, <2>5, <2>6, <2>7 DEF IInv
  <1> QED
    BY <1>1, <1>2 DEF CreateTarget

LEMMA CreateScanKeeps ==
  ASSUME IInv, NEW j \in Jobs, CreateScan(j)
  PROVE  IInv'
  <1>1. CASE /\ target[j] \in targets /\ scans' \in {scans, scans \cup {j}}
             /\ RequestFails(j)
    BY <1>1, FailKeeps DEF CreateScan, RequestFails
  <1>2. CASE /\ target[j] \notin targets /\ Return(j, "error")
             /\ UNCHANGED <<scans, target, created, emitted, cancelled, owned, troubled>>
    <2>1. troubled' \in BOOLEAN
      BY <1>2 DEF IInv, TypeOK
    <2> QED
      BY <1>2, <2>1, FailKeeps DEF CreateScan
  <1>3. CASE /\ target[j] \in targets /\ scans' = scans \cup {j} /\ Go(j, "poll")
             /\ UNCHANGED <<target, created, emitted, outcome, cancelled, owned, troubled>>
    <2>1. TypeOK /\ CreatedInv /\ ScanInv /\ OwnerKeepsAll
      BY DEF IInv
    <2>2. pc[j] = "schedule" /\ UNCHANGED <<targets, status>>
      BY DEF CreateScan
    <2>3. /\ pc'[j] = "poll"
          /\ \A k \in Jobs : k # j => pc'[k] = pc[k]
      BY <1>3, <2>1 DEF Go, TypeOK
    <2>4. TypeOK'
      BY <1>3, <2>1, <2>2 DEF TypeOK, Go, Steps
    <2>5. CreatedInv'
      BY <1>3, <2>1, <2>2, <2>3 DEF CreatedInv
    <2>6. ScanInv'
      BY <1>3, <2>1, <2>2, <2>3 DEF ScanInv, Running, None
    <2>7. OwnerKeepsAll'
      BY <1>3, <2>1, <2>2 DEF OwnerKeepsAll
    <2> QED
      BY <2>4, <2>5, <2>6, <2>7 DEF IInv
  <1> QED
    BY <1>1, <1>2, <1>3 DEF CreateScan

(* A job that has its scan goes on or gives up; emitting is part of it.    *)
LEMMA WatchKeeps ==
  ASSUME IInv, NEW j \in Jobs,
         Poll(j) \/ ResolveResult(j) \/ ListVulnerabilities(j) \/ EmitFindings(j)
  PROVE  IInv'
  <1>1. /\ pc[j] \in {"poll", "resolve", "collect", "emit"}
        /\ UNCHANGED <<targets, scans, status, target, created, cancelled, owned>>
    BY DEF Poll, ResolveResult, ListVulnerabilities, ReadScan, NothingFound, EmitFindings,
           RequestFails, server
  <1>2. troubled' \in BOOLEAN
    BY DEF Poll, ResolveResult, ListVulnerabilities, ReadScan, NothingFound, EmitFindings,
           RequestFails, IInv, TypeOK
  <1>3. \/ emitted' = emitted /\ \E how \in {"error", "canceled"} : Return(j, how)
        \/ /\ \/ emitted' = emitted /\ \E step \in {"resolve", "collect", "emit"} : Go(j, step)
              \/ emitted' = [emitted EXCEPT ![j] = TRUE] /\ Go(j, "cleanup")
           /\ UNCHANGED outcome
    BY DEF Poll, ResolveResult, ListVulnerabilities, ReadScan, NothingFound, EmitFindings,
           RequestFails, AfterEmit
  <1>4. CASE emitted' = emitted /\ \E how \in {"error", "canceled"} : Return(j, how)
    BY <1>1, <1>2, <1>4, FailKeeps
  <1>5. CASE /\ \/ emitted' = emitted /\ \E step \in {"resolve", "collect", "emit"} : Go(j, step)
                \/ emitted' = [emitted EXCEPT ![j] = TRUE] /\ Go(j, "cleanup")
             /\ UNCHANGED outcome
    <2>1. TypeOK /\ CreatedInv /\ ScanInv /\ OwnerKeepsAll
      BY DEF IInv
    <2>2. /\ pc'[j] \in {"resolve", "collect", "emit", "cleanup"}
          /\ pc'[j] = "cleanup" => emitted'[j]
          /\ emitted[j] => emitted'[j]
          /\ \A k \in Jobs : k # j => pc'[k] = pc[k] /\ emitted'[k] = emitted[k]
      BY <1>5, <2>1 DEF Go, TypeOK
    <2>3. TypeOK'
      BY <1>1, <1>2, <1>5, <2>1 DEF TypeOK, Go, Steps
    <2>4. CreatedInv'
      BY <1>1, <1>5, <2>1, <2>2 DEF CreatedInv
    <2>5. ScanInv'
      BY <1>1, <1>5, <2>1, <2>2 DEF ScanInv, Running, None
    <2>6. OwnerKeepsAll'
      BY <1>1, <2>1 DEF OwnerKeepsAll
    <2> QED
      BY <2>3, <2>4, <2>5, <2>6 DEF IInv
  <1> QED
    BY <1>3, <1>4, <1>5

LEMMA StepIInv == IInv /\ [Next]_vars => IInv'
  <1> SUFFICES ASSUME IInv, [Next]_vars PROVE IInv'
    OBVIOUS
  <1>1. ASSUME NEW j \in Jobs, Cancel(j) PROVE IInv'
    <2>1. TypeOK'
      BY <1>1 DEF Cancel, IInv, TypeOK, server, job
    <2>2. CreatedInv' /\ ScanInv' /\ OwnerKeepsAll'
      BY <1>1 DEF Cancel, IInv, CreatedInv, ScanInv, OwnerKeepsAll, server, job, Running
    <2> QED
      BY <2>1, <2>2 DEF IInv
  <1>2. ASSUME NEW j \in Jobs, ScanStops(j) PROVE IInv'
    <2>1. TypeOK'
      BY <1>2 DEF ScanStops, IInv, TypeOK, job
    <2>2. CreatedInv' /\ OwnerKeepsAll'
      BY <1>2 DEF ScanStops, IInv, CreatedInv, OwnerKeepsAll, job
    <2>3. j \in scans /\ \A k \in Jobs : k # j => status'[k] = status[k]
      BY <1>2 DEF ScanStops, IInv, TypeOK
    <2>4. ScanInv'
      BY <1>2, <2>3 DEF ScanStops, IInv, ScanInv, job, Running
    <2> QED
      BY <2>1, <2>2, <2>4 DEF IInv
  <1>3. ASSUME NEW j \in Jobs, JobStep(j) PROVE IInv'
    BY <1>3, FindKeeps, CreateTargetKeeps, CreateScanKeeps, WatchKeeps, CleanUpKeeps
       DEF JobStep
  <1>4. CASE UNCHANGED vars
    BY <1>4 DEF vars, server, job, IInv, TypeOK, CreatedInv, ScanInv, OwnerKeepsAll, Running
  <1> QED
    BY <1>1, <1>2, <1>3, <1>4 DEF Next, AllEnded

THEOREM IInvHolds == Spec => []IInv
  <1> QED
    BY InitIInv, StepIInv, PTL DEF Spec
-----------------------------------------------------------------------------
(* The state keeps its types.                                              *)
THEOREM TypeCorrect == Spec => []TypeOK
  <1>1. IInv => TypeOK
    BY DEF IInv
  <1> QED
    BY <1>1, IInvHolds, PTL

(* The target and the scan that were on the server before the connectors   *)
(* survive any number of jobs, whatever fails (adapter.go, clean-up).      *)
THEOREM OwnerIsSafe == Spec => []OwnerKeepsAll
  <1>1. IInv => OwnerKeepsAll
    BY DEF IInv
  <1> QED
    BY <1>1, IInvHolds, PTL

(* A failed or cancelled job deletes nothing, and nobody deletes the target*)
(* it created: retention on failure.                                       *)
THEOREM FailuresKeepData == Spec => []FailureKeepsData
  <1>1. IInv => FailureKeepsData
    BY DEF IInv, CreatedInv, ScanInv, FailureKeepsData
  <1> QED
    BY <1>1, IInvHolds, PTL

(* A completed scan disappears only once its findings were sent, or with   *)
(* the target of another job.                                              *)
THEOREM FindingsComeFirst == Spec => []FindingsBeforeCleanUp
  <1>1. IInv => FindingsBeforeCleanUp
    BY DEF IInv, ScanInv, FindingsBeforeCleanUp
  <1> QED
    BY <1>1, IInvHolds, PTL

-----------------------------------------------------------------------------
(* What is on the server while nothing has gone wrong: the owner's, and    *)
(* what a job that still runs has put there.  No job takes the scan of a   *)
(* job that created its target.                                            *)
WithScan == {"poll", "resolve", "collect", "emit", "cleanup"}
TraceInv ==
    /\ \A j \in Jobs : created[j] /\ pc[j] \in WithScan => j \in scans
    /\ ~troubled =>
           /\ Owner \in targets \cup scans => owned
           /\ \A j \in Jobs :
                  /\ ~cancelled[j] /\ status[j] # "failed"
                  /\ j \in targets => created[j] /\ Running(j)
                  /\ j \in scans => Running(j)

LEMMA InitTraceInv == Init => TraceInv
  BY JobsAssumption DEF Init, TraceInv, WithScan, Running

(* A job that ends takes away all that it has put on the server.           *)
LEMMA TraceStep ==
  IInv /\ TraceInv /\ [Next]_vars => TraceInv'
  <1> SUFFICES ASSUME IInv, TraceInv, [Next]_vars PROVE TraceInv'
    OBVIOUS
  <1> USE JobsAssumption DEF TraceInv, WithScan, Running, server, job
  <1>1. /\ pc \in [Jobs -> Steps] /\ target \in [Jobs -> Jobs \cup {Owner, None}]
        /\ created \in [Jobs -> BOOLEAN] /\ cancelled \in [Jobs -> BOOLEAN]
        /\ status \in [Jobs -> {"running", "completed", "failed"}]
        /\ targets \subseteq Jobs \cup {Owner} /\ scans \subseteq Jobs \cup {Owner}
    BY DEF IInv, TypeOK
  <1>2. \A j \in Jobs : /\ created[j] => target[j] = j
                        /\ created[j] /\ outcome[j] # "ok" => j \in targets
                        /\ outcome[j] = None <=> pc[j] # "ended"
                        /\ pc[j] \in {"find", "create", "schedule"} => j \notin scans
    BY DEF IInv, CreatedInv, ScanInv
  <1>3. ASSUME NEW j \in Jobs, Cancel(j) PROVE TraceInv'
    BY <1>1, <1>3 DEF Cancel
  <1>4. ASSUME NEW j \in Jobs, ScanStops(j) PROVE TraceInv'
    BY <1>1, <1>4 DEF ScanStops
  <1>5. ASSUME NEW j \in Jobs, FindTarget(j) PROVE TraceInv'
    BY <1>1, <1>5 DEF FindTarget, RequestFails, Return, Go
  <1>6. ASSUME NEW j \in Jobs, CreateTarget(j) PROVE TraceInv'
    BY <1>1, <1>6 DEF CreateTarget, RequestFails, Return, Go
  <1>7. ASSUME NEW j \in Jobs, CreateScan(j) PROVE TraceInv'
    BY <1>1, <1>2, <1>7 DEF CreateScan, RequestFails, Return, Go
  <1>8. ASSUME NEW j \in Jobs, Poll(j) PROVE TraceInv'
    BY <1>1, <1>2, <1>8 DEF Poll, RequestFails, Return, Go
  <1>9. ASSUME NEW j \in Jobs, ResolveResult(j) \/ ListVulnerabilities(j) PROVE TraceInv'
    BY <1>1, <1>2, <1>9 DEF ResolveResult, ListVulnerabilities, ReadScan, NothingFound, RequestFails, Return, Go
  <1>10. ASSUME NEW j \in Jobs, EmitFindings(j) PROVE TraceInv'
    BY <1>1, <1>2, <1>10 DEF EmitFindings, AfterEmit, Return, Go
  <1>11. ASSUME NEW j \in Jobs, CleanUp(j) PROVE TraceInv'
    <2>1. /\ pc[j] = "cleanup" /\ pc' = [pc EXCEPT ![j] = "ended"]
          /\ UNCHANGED <<status, target, created, cancelled, owned>>
          /\ targets' \subseteq targets /\ scans' \subseteq scans
          /\ ~troubled' => ~troubled /\ targets' = targets \ Doomed(j).t
                           /\ scans' = scans \ Doomed(j).s
      BY <1>1, <1>11 DEF CleanUp, Return, Go
    <2>2. \A k \in Jobs : k # j /\ created[k] => k \notin Doomed(j).s
      BY <1>2 DEF Doomed, ScansOf
    <2>3. \A k \in Jobs : created[k] /\ pc'[k] \in WithScan => k \in scans'
      BY <1>1, <1>11, <2>1, <2>2 DEF CleanUp
    <2>4. ~troubled' => j \notin scans' /\ j \notin targets'
      <3>1. CASE created[j]
        BY <1>2, <2>1, <3>1 DEF Doomed, ScansOf
      <3>2. CASE ~created[j]
        BY <2>1, <3>2 DEF Doomed
      <3> QED
        BY <3>1, <3>2
    <2> QED
      BY <1>1, <2>1, <2>3, <2>4
  <1>12. CASE UNCHANGED vars
    BY <1>12 DEF vars
  <1> QED
    BY <1>3, <1>4, <1>5, <1>6, <1>7, <1>8, <1>9, <1>10, <1>11, <1>12
    DEF Next, JobStep, AllEnded

(* When nothing failed the jobs leave the server as they found it, however *)
(* many they are and however they shared or duplicated their targets.      *)
THEOREM ServerIsLeftClean == Spec => []NoTraceIsLeft
  <1>1. IInv /\ TraceInv => NoTraceIsLeft
    BY DEF IInv, TypeOK, TraceInv, OwnerKeepsAll, NoTraceIsLeft, Running
  <1>2. Spec => [](IInv /\ TraceInv)
    BY InitIInv, InitTraceInv, StepIInv, TraceStep, PTL DEF Spec
  <1> QED
    BY <1>1, <1>2, PTL

-----------------------------------------------------------------------------
(* collectFindings: module AcunetixCollect.                                *)

-----------------------------------------------------------------------------
(* Sets of numbers, sequences and cardinalities.                           *)

LEMMA LeastIsThere ==
  ASSUME NEW S \in SUBSET Nat, S # {}
  PROVE  \E x \in S : \A y \in S : x <= y
  <1> DEFINE R == OpToRel(<, Nat)
  <1>1. \A x, y \in Nat : y < x => <<y, x>> \in R
    BY DEF OpToRel
  <1>2. IsWellFoundedOn(R, Nat)
    BY NatLessThanWellFounded
  <1> HIDE DEF R
  <1>3. PICK x \in S : \A y \in S : <<y, x>> \notin R
    BY <1>2, WFMin
  <1>4. ASSUME NEW y \in S PROVE x <= y
    <2>1. x \in Nat /\ y \in Nat /\ <<y, x>> \notin R
      BY <1>3
    <2>2. ~(y < x)
      BY <1>1, <2>1
    <2> QED
      BY <2>1, <2>2
  <1> QED
    BY <1>4

LEMMA MinIsLeast ==
  ASSUME NEW S \in SUBSET Nat, S # {}
  PROVE  Min(S) \in S /\ \A y \in S : Min(S) <= y
  BY LeastIsThere DEF Min

LEMMA ToSetOfAppend ==
  ASSUME NEW S, NEW s \in Seq(S), NEW x \in S
  PROVE  ToSet(Append(s, x)) = ToSet(s) \cup {x}
  <1>1. Len(Append(s, x)) = Len(s) + 1 /\ Append(s, x)[Len(s) + 1] = x
        /\ \A i \in 1..Len(s) : Append(s, x)[i] = s[i]
    BY AppendProperties
  <1>2. DOMAIN s = 1..Len(s) /\ DOMAIN Append(s, x) = 1..(Len(s) + 1) /\ Len(s) \in Nat
    BY <1>1, LenProperties, AppendProperties
  <1> QED
    BY <1>1, <1>2 DEF ToSet

LEMMA ToSetOfConcat ==
  ASSUME NEW S, NEW s \in Seq(S), NEW t \in Seq(S)
  PROVE  /\ s \o t \in Seq(S) /\ Len(s \o t) = Len(s) + Len(t)
         /\ ToSet(s \o t) = ToSet(s) \cup ToSet(t)
  <1>1. /\ s \o t \in Seq(S) /\ Len(s \o t) = Len(s) + Len(t)
        /\ \A i \in 1..(Len(s) + Len(t)) : (s \o t)[i] = IF i <= Len(s) THEN s[i] ELSE t[i - Len(s)]
    BY ConcatProperties
  <1>2. /\ DOMAIN s = 1..Len(s) /\ DOMAIN t = 1..Len(t) /\ DOMAIN (s \o t) = 1..(Len(s) + Len(t))
        /\ Len(s) \in Nat /\ Len(t) \in Nat
    BY <1>1, LenProperties
  <1>3. ToSet(s \o t) \subseteq ToSet(s) \cup ToSet(t)
    <2> SUFFICES ASSUME NEW i \in 1..(Len(s) + Len(t))
                 PROVE  (s \o t)[i] \in ToSet(s) \cup ToSet(t)
      BY <1>2 DEF ToSet
    <2>1. CASE i <= Len(s)
      BY <1>1, <1>2, <2>1 DEF ToSet
    <2>2. CASE i > Len(s)
      <3>1. i - Len(s) \in 1..Len(t) /\ (s \o t)[i] = t[i - Len(s)]
        BY <1>1, <1>2, <2>2
      <3> QED
        BY <1>2, <3>1 DEF ToSet
    <2> QED
      BY <1>2, <2>1, <2>2
  <1>4. \A i \in 1..Len(s) : i \in 1..(Len(s) + Len(t)) /\ (s \o t)[i] = s[i]
    BY <1>1, <1>2
  <1>5. \A i \in 1..Len(t) : Len(s) + i \in 1..(Len(s) + Len(t)) /\ (s \o t)[Len(s) + i] = t[i]
    BY <1>1, <1>2
  <1>6. ToSet(s) \subseteq ToSet(s \o t) /\ ToSet(t) \subseteq ToSet(s \o t)
    BY <1>2, <1>4, <1>5 DEF ToSet
  <1> QED
    BY <1>1, <1>3, <1>6

(* A function does not make a finite set larger.                           *)
LEMMA ImageIsNoLarger ==
  ASSUME NEW S, IsFiniteSet(S), NEW f
  PROVE  LET T == {f[x] : x \in S}
         IN  IsFiniteSet(T) /\ Cardinality(T) \in Nat /\ Cardinality(T) <= Cardinality(S)
  <1> DEFINE T == {f[x] : x \in S}
             g == [x \in S |-> f[x]]
  <1>1. g \in Surjection(S, T)
    BY DEF Surjection
  <1> QED
    BY <1>1, FS_Surjection, FS_CardinalityType

-----------------------------------------------------------------------------
(* The list and the cursors of its answers.                                *)

LEMMA TheList ==
  ASSUME listing \in Listings
  PROVE  /\ DOMAIN listing = 1..Len(listing) /\ Len(listing) \in Nat /\ 1 <= Len(listing)
         /\ \A p \in 1..Len(listing) : /\ listing[p] \in Seq(Nat) /\ Len(listing[p]) \in Nat
                                       /\ DOMAIN listing[p] = 1..Len(listing[p])
  <1>1. listing \in Seq(Seq(Nat)) /\ listing # <<>>
    BY CollectAssumption
  <1>2. DOMAIN listing = 1..Len(listing) /\ Len(listing) \in Nat /\ 1 <= Len(listing)
    BY <1>1, LenProperties, EmptySeq
  <1>3. ASSUME NEW p \in 1..Len(listing)
        PROVE  /\ listing[p] \in Seq(Nat) /\ Len(listing[p]) \in Nat
               /\ DOMAIN listing[p] = 1..Len(listing[p])
    <2>1. listing[p] \in Seq(Nat)
      BY <1>1, ElementOfSeq
    <2> QED
      BY <2>1, LenProperties
  <1> QED
    BY <1>2, <1>3

LEMMA TheItems ==
  ASSUME listing \in Listings
  PROVE  /\ Items \subseteq Nat
         /\ \A p \in 1..Len(listing) :
                /\ listing[p] \in Seq(Items)
                /\ ToSet(listing[p]) = {Item(entry) : entry \in {p} \X DOMAIN listing[p]}
  <1>1. /\ DOMAIN listing = 1..Len(listing)
        /\ \A p \in 1..Len(listing) : /\ listing[p] \in Seq(Nat) /\ Len(listing[p]) \in Nat
                                      /\ DOMAIN listing[p] = 1..Len(listing[p])
    BY TheList
  <1>2. ASSUME NEW entry \in Entries PROVE Item(entry) \in Nat
    <2>1. PICK p \in 1..Len(listing) : \E i \in DOMAIN listing[p] : entry = <<p, i>>
      BY <1>1 DEF Entries
    <2>2. PICK i \in DOMAIN listing[p] : entry = <<p, i>>
      BY <2>1
    <2>3. Item(entry) = listing[p][i]
      BY <2>2 DEF Item
    <2>4. listing[p] \in Seq(Nat) /\ i \in 1..Len(listing[p])
      BY <1>1, <2>2
    <2> QED
      BY <2>3, <2>4, ElementOfSeq
  <1>3. Items \subseteq Nat
    BY <1>2 DEF Items
  <1>4. ASSUME NEW p \in 1..Len(listing)
        PROVE  /\ listing[p] \in Seq(Items)
               /\ ToSet(listing[p]) = {Item(entry) : entry \in {p} \X DOMAIN listing[p]}
    <2>1. \A i \in DOMAIN listing[p] : <<p, i>> \in Entries /\ Item(<<p, i>>) = listing[p][i]
      BY <1>1 DEF Entries, Item
    <2>2. \A i \in DOMAIN listing[p] : listing[p][i] \in Items
      BY <2>1 DEF Items
    <2>3. listing[p] \in [1..Len(listing[p]) -> Items] /\ Len(listing[p]) \in Nat
      <3>1. listing[p] \in Seq(Nat) /\ Len(listing[p]) \in Nat /\ DOMAIN listing[p] = 1..Len(listing[p])
        BY <1>1
      <3>2. listing[p] \in [1..Len(listing[p]) -> Nat]
        BY <3>1, LenProperties
      <3> QED
        BY <2>2, <3>1, <3>2
    <2>4. listing[p] \in Seq(Items)
      BY <2>3, SeqDef
    <2>5. ToSet(listing[p]) = {Item(entry) : entry \in {p} \X DOMAIN listing[p]}
      <3>1. /\ \A i \in DOMAIN listing[p] : <<p, i>> \in {p} \X DOMAIN listing[p]
            /\ \A entry \in {p} \X DOMAIN listing[p] : \E i \in DOMAIN listing[p] : entry = <<p, i>>
        OBVIOUS
      <3>2. ASSUME NEW v \in ToSet(listing[p])
            PROVE  v \in {Item(entry) : entry \in {p} \X DOMAIN listing[p]}
        <4>1. PICK i \in DOMAIN listing[p] : v = listing[p][i]
          BY DEF ToSet
        <4> QED
          BY <2>1, <3>1, <4>1
      <3>3. ASSUME NEW entry \in {p} \X DOMAIN listing[p] PROVE Item(entry) \in ToSet(listing[p])
        <4>1. PICK i \in DOMAIN listing[p] : entry = <<p, i>>
          BY <3>1
        <4>2. Item(entry) = listing[p][i]
          BY <2>1, <4>1
        <4> QED
          BY <4>2 DEF ToSet
      <3> QED
        BY <3>2, <3>3
    <2> QED
      BY <2>4, <2>5
  <1> QED
    BY <1>3, <1>4

LEMMA EntriesAreFinite ==
  ASSUME listing \in Listings
  PROVE  IsFiniteSet(Entries) /\ Count \in Nat
  <1> DEFINE ofPage == [p \in DOMAIN listing |-> {p} \X DOMAIN listing[p]]
             blocks == {ofPage[p] : p \in DOMAIN listing}
  <1>1. IsFiniteSet(DOMAIN listing)
    BY TheList, FS_Interval
  <1>2. IsFiniteSet(blocks)
    <2> HIDE DEF ofPage
    <2> QED
      BY <1>1, ImageIsNoLarger
  <1>3. ASSUME NEW p \in DOMAIN listing PROVE IsFiniteSet({p} \X DOMAIN listing[p])
    <2>1. DOMAIN listing[p] = 1..Len(listing[p]) /\ Len(listing[p]) \in Int /\ 1 \in Int
      BY TheList
    <2>2. IsFiniteSet({p}) /\ IsFiniteSet(DOMAIN listing[p])
      BY <2>1, FS_Singleton, FS_Interval
    <2> QED
      BY <2>2, FS_Product
  <1>4. Entries = UNION blocks
    BY DEF Entries
  <1>5. \A B \in blocks : IsFiniteSet(B)
    BY <1>3
  <1> HIDE DEF blocks
  <1>6. IsFiniteSet(Entries)
    BY <1>2, <1>4, <1>5, FS_UNION
  <1> QED
    BY <1>6, FS_CardinalityType DEF Count

(* A page of n items has n entries.                                        *)
LEMMA EntriesOfPage ==
  ASSUME listing \in Listings, NEW p \in 1..Len(listing)
  PROVE  /\ IsFiniteSet({p} \X DOMAIN listing[p])
         /\ Cardinality({p} \X DOMAIN listing[p]) = Len(listing[p])
  <1>1. DOMAIN listing[p] = 1..Len(listing[p]) /\ Len(listing[p]) \in Nat
    BY TheList
  <1>2. /\ IsFiniteSet({p}) /\ Cardinality({p}) = 1
        /\ IsFiniteSet(1..Len(listing[p])) /\ Cardinality(1..Len(listing[p])) = Len(listing[p])
    <2>1. 1 \in Int /\ Len(listing[p]) \in Int
      BY <1>1
    <2>2. /\ IsFiniteSet(1..Len(listing[p]))
          /\ Cardinality(1..Len(listing[p])) = IF 1 > Len(listing[p]) THEN 0 ELSE Len(listing[p]) - 1 + 1
      BY <2>1, FS_Interval
    <2>3. Cardinality(1..Len(listing[p])) = Len(listing[p])
      BY <1>1, <2>2
    <2> QED
      BY <2>2, <2>3, FS_Singleton
  <1> QED
    BY <1>1, <1>2, FS_Product

LEMMA FollowingIsTyped ==
  ASSUME NEW p \in Nat, NEW n \in Nat
  PROVE  /\ Following(p, n) \in Seq(Nat) /\ Len(Following(p, n)) = n
         /\ \A i \in 1..n : Following(p, n)[i] = p + i
  <1>1. Following(p, n) \in [1..n -> Nat]
    BY DEF Following
  <1>2. Following(p, n) \in Seq(Nat)
    BY <1>1, SeqDef
  <1>3. DOMAIN Following(p, n) = 1..n /\ DOMAIN Following(p, n) = 1..Len(Following(p, n))
        /\ Len(Following(p, n)) \in Nat
    BY <1>1, <1>2, LenProperties
  <1>4. Len(Following(p, n)) = n
    BY <1>3
  <1> QED
    BY <1>2, <1>4 DEF Following

(* The cursors of a server that keeps to its documents: those of the       *)
(* following pages, and before them none, an empty one, or that of the page.*)
LEMMA DocumentedAnswers ==
  ASSUME listing \in Listings, documented, NEW p \in 1..Len(listing), NEW cursors \in Answers(p)
  PROVE  \E n \in Nat, k \in {0, 1} :
             /\ p + n <= Len(listing) /\ (p < Len(listing) => 0 < n)
             /\ DOMAIN cursors = 1..(k + n)
             /\ k = 1 => cursors[1] \in {NoCursor, p}
             /\ \A i \in 1..n : cursors[k + i] = p + i
  <1>1. Len(listing) \in Nat /\ p \in Nat
    BY TheList
  <1> DEFINE known == {n \in 0..2 : p + n <= Len(listing) /\ (p < Len(listing) => n > 0)}
  <1>7. PICK lead \in {<<>>, <<NoCursor>>, <<p>>}, n \in known : cursors = lead \o Following(p, n)
    BY DEF Answers
  <1>2. /\ lead \in {<<>>, <<NoCursor>>, <<p>>} /\ n \in 0..2
        /\ p + n <= Len(listing) /\ (p < Len(listing) => n > 0)
        /\ cursors = lead \o Following(p, n)
    BY <1>7
  <1>3. n \in Nat
    BY <1>2
  <1>4. /\ Following(p, n) \in Seq(Nat) /\ Len(Following(p, n)) = n
        /\ \A i \in 1..n : Following(p, n)[i] = p + i
    BY <1>1, <1>3, FollowingIsTyped
  <1>5. CASE lead = <<>>
    <2>1. cursors = Following(p, n)
      BY <1>2, <1>4, <1>5, ConcatEmptySeq
    <2>2. DOMAIN cursors = 1..(0 + n)
      BY <1>3, <1>4, <2>1, LenProperties
    <2>3. \A i \in 1..n : cursors[0 + i] = p + i
      BY <1>3, <1>4, <2>1
    <2> WITNESS n \in Nat, 0 \in {0, 1}
    <2> QED
      BY <1>2, <2>2, <2>3
  <1>6. CASE lead \in {<<NoCursor>>, <<p>>}
    <2>1. lead \in Seq(Nat) /\ Len(lead) = 1 /\ lead[1] \in {NoCursor, p}
      <3>1. PICK x \in {NoCursor, p} : lead = <<x>>
        BY <1>6
      <3>2. x \in Nat
        BY <1>1, <3>1 DEF NoCursor
      <3> QED
        BY <3>1, <3>2
    <2>2. /\ cursors \in Seq(Nat) /\ Len(cursors) = 1 + n
          /\ \A i \in 1..(1 + n) : cursors[i] = IF i <= 1 THEN lead[i] ELSE Following(p, n)[i - 1]
      <3> DEFINE F == Following(p, n)
      <3>1. F \in Seq(Nat) /\ Len(F) = n /\ cursors = lead \o F
        BY <1>2, <1>4
      <3> HIDE DEF F
      <3>2. /\ lead \o F \in Seq(Nat) /\ Len(lead \o F) = Len(lead) + Len(F)
            /\ \A i \in 1..(Len(lead) + Len(F)) :
                   (lead \o F)[i] = IF i <= Len(lead) THEN lead[i] ELSE F[i - Len(lead)]
        BY <2>1, <3>1, ConcatProperties
      <3>3. /\ cursors \in Seq(Nat) /\ Len(cursors) = 1 + n
            /\ \A i \in 1..(1 + n) : cursors[i] = IF i <= 1 THEN lead[i] ELSE F[i - 1]
        BY <2>1, <3>1, <3>2
      <3> QED
        BY <3>3 DEF F
    <2>3. DOMAIN cursors = 1..(1 + n)
      BY <2>2, LenProperties
    <2>4. cursors[1] \in {NoCursor, p}
      BY <1>3, <2>1, <2>2
    <2>5. ASSUME NEW i \in 1..n PROVE cursors[1 + i] = p + i
      <3>1. 1 + i \in 1..(1 + n) /\ ~(1 + i <= 1) /\ (1 + i) - 1 = i
        BY <1>3
      <3> QED
        BY <1>4, <2>2, <3>1
    <2> QED
      BY <1>2, <1>3, <2>3, <2>4, <2>5
  <1> QED
    BY <1>2, <1>5, <1>6

LEMMA AnswersAreTyped ==
  ASSUME listing \in Listings, NEW p \in 1..Len(listing), NEW cursors \in Answers(p)
  PROVE  /\ DOMAIN cursors \subseteq Nat
         /\ \A i \in DOMAIN cursors : cursors[i] \in Nat
         /\ documented => \A i \in DOMAIN cursors : cursors[i] \in 0..Len(listing)
  <1>1. Len(listing) \in Nat
    BY TheList
  <1>2. CASE documented
    <2>1. PICK n \in Nat, k \in {0, 1} :
             /\ p + n <= Len(listing) /\ DOMAIN cursors = 1..(k + n)
             /\ k = 1 => cursors[1] \in {NoCursor, p}
             /\ \A i \in 1..n : cursors[k + i] = p + i
      BY <1>2, DocumentedAnswers
    <2>2. ASSUME NEW j \in 1..(k + n) PROVE cursors[j] \in 0..Len(listing)
      <3>1. CASE k = 1 /\ j = 1
        BY <1>1, <2>1, <3>1 DEF NoCursor
      <3>2. CASE ~(k = 1 /\ j = 1)
        <4>1. j - k \in 1..n /\ k + (j - k) = j
          BY <3>2
        <4>2. cursors[j] = p + (j - k)
          BY <2>1, <4>1
        <4>3. p + (j - k) \in 0..Len(listing)
          BY <1>1, <2>1, <4>1
        <4> QED
          BY <4>2, <4>3
      <3> QED
        BY <3>1, <3>2
    <2>3. 0..Len(listing) \subseteq Nat
      BY <1>1
    <2> QED
      BY <2>1, <2>2, <2>3
  <1>3. CASE ~documented
    <2>1. cursors \in Seq(Nat)
      BY <1>3, CollectAssumption DEF Answers
    <2>2. DOMAIN cursors = 1..Len(cursors) /\ Len(cursors) \in Nat
      BY <2>1, LenProperties
    <2>3. \A i \in DOMAIN cursors : cursors[i] \in Nat
      BY <2>1, <2>2, ElementOfSeq
    <2> QED
      BY <1>3, <2>2, <2>3
  <1> QED
    BY <1>2, <1>3

LEMMA PageIsThere ==
  ASSUME CollectTypeOK
  PROVE  /\ Served \subseteq 1..Len(listing)
         /\ documented => Page \in 1..Len(listing) /\ Served = {Page}
  <1>1. documented => Page \in 1..Len(listing)
    BY TheList DEF CollectTypeOK, Page, NoCursor
  <1>2. DOMAIN listing = 1..Len(listing)
    BY TheList DEF CollectTypeOK
  <1> QED
    BY <1>1, <1>2 DEF Served

(* cursorWalker.next: what it answers has not been asked for yet.          *)
LEMMA NextIsFresh ==
  ASSUME CollectTypeOK, NEW page \in Served, NEW cursors \in Answers(page), NextCursor(cursors) # NoCursor
  PROVE  /\ NextCursor(cursors) \in Nat \ {NoCursor}
         /\ documented => NextCursor(cursors) \in 1..Len(listing)
         /\ NextCursor(cursors) \notin seen /\ NextCursor(cursors) # cursor
         /\ pages < MaxPages
         /\ \E i \in Fresh(cursors) : /\ NextCursor(cursors) = cursors[i]
                                      /\ \A j \in Fresh(cursors) : i <= j
  <1>1. pages \in Nat /\ MaxPages \in Nat /\ ~(pages >= MaxPages) /\ Fresh(cursors) # {}
        /\ NextCursor(cursors) = cursors[Min(Fresh(cursors))]
    BY CollectAssumption DEF NextCursor, CollectTypeOK
  <1>2. /\ DOMAIN cursors \subseteq Nat /\ Len(listing) \in Nat
        /\ \A i \in DOMAIN cursors : cursors[i] \in Nat
        /\ documented => \A i \in DOMAIN cursors : cursors[i] \in 0..Len(listing)
    <2>1. listing \in Listings /\ page \in 1..Len(listing)
      BY PageIsThere DEF CollectTypeOK
    <2> QED
      BY <2>1, AnswersAreTyped, TheList
  <1>3. Fresh(cursors) \subseteq DOMAIN cursors
    BY DEF Fresh
  <1>4. Min(Fresh(cursors)) \in Fresh(cursors) /\ \A j \in Fresh(cursors) : Min(Fresh(cursors)) <= j
    BY <1>1, <1>2, <1>3, MinIsLeast
  <1>5. cursors[Min(Fresh(cursors))] \notin {NoCursor, cursor} \cup seen
    BY <1>4 DEF Fresh
  <1>6. /\ cursors[Min(Fresh(cursors))] \in Nat
        /\ documented => cursors[Min(Fresh(cursors))] \in 0..Len(listing)
    BY <1>2, <1>3, <1>4
  <1> QED
    BY <1>1, <1>2, <1>4, <1>5, <1>6 DEF NoCursor

(* With documented cursors that is the next page, or the first one again;  *)
(* and there is none only behind the last page, or at the cap.             *)
LEMMA NextIsFollowing ==
  ASSUME CollectTypeOK, documented, seen \subseteq 1..Page, NEW cursors \in Answers(Page)
  PROVE  /\ NextCursor(cursors) # NoCursor
                => NextCursor(cursors) = Page + 1 \/ (NextCursor(cursors) = 1 /\ Page = 1)
         /\ NextCursor(cursors) = NoCursor => pages = MaxPages \/ Page = Len(listing)
  <1>1. PICK n \in Nat, k \in {0, 1} :
             /\ Page + n <= Len(listing) /\ (Page < Len(listing) => 0 < n)
             /\ DOMAIN cursors = 1..(k + n)
             /\ k = 1 => cursors[1] \in {NoCursor, Page}
             /\ \A i \in 1..n : cursors[k + i] = Page + i
    BY PageIsThere, DocumentedAnswers DEF CollectTypeOK
  <1>2. /\ Len(listing) \in Nat /\ Page \in 1..Len(listing) /\ cursor \in Nat /\ seen \subseteq Nat
        /\ pages \in 0..MaxPages /\ MaxPages \in Nat /\ (cursor # NoCursor => Page = cursor)
        /\ cursor = NoCursor => Page = 1
    BY PageIsThere, TheList, CollectAssumption DEF CollectTypeOK, Page, NoCursor
  <1>6. Page \in Served
    BY PageIsThere
  <1>3. ASSUME 0 < n PROVE k + 1 \in Fresh(cursors)
    <2>1. k + 1 \in DOMAIN cursors /\ cursors[k + 1] = Page + 1
      BY <1>1, <1>3
    <2>2. Page + 1 \notin seen /\ Page + 1 # cursor /\ Page + 1 # NoCursor
      BY <1>2 DEF NoCursor
    <2> QED
      BY <2>1, <2>2 DEF Fresh
  <1>4. ASSUME NextCursor(cursors) # NoCursor
        PROVE  NextCursor(cursors) = Page + 1 \/ (NextCursor(cursors) = 1 /\ Page = 1)
    <2>1. PICK i \in Fresh(cursors) : /\ NextCursor(cursors) = cursors[i]
                                      /\ \A j \in Fresh(cursors) : i <= j
      BY <1>4, <1>6, NextIsFresh
    <2>2. i \in 1..(k + n) /\ cursors[i] \notin {NoCursor, cursor} \cup seen
      BY <1>1, <2>1 DEF Fresh
    <2>3. CASE k = 1 /\ i = 1
      <3>1. cursors[i] = Page /\ Page # cursor
        BY <1>1, <2>2, <2>3
      <3> QED
        BY <1>2, <2>1, <3>1
    <2>4. CASE ~(k = 1 /\ i = 1)
      <3>1. i - k \in 1..n /\ 0 < n /\ k + (i - k) = i
        BY <1>1, <2>2, <2>4
      <3>2. i <= k + 1
        BY <1>3, <2>1, <3>1
      <3>3. i = k + 1
        BY <3>1, <3>2
      <3>4. 1 \in 1..n
        BY <3>1
      <3> QED
        BY <1>1, <2>1, <3>3, <3>4
    <2> QED
      BY <2>3, <2>4
  <1>5. ASSUME NextCursor(cursors) = NoCursor, pages # MaxPages
        PROVE  Page = Len(listing)
    <2>1. ~(pages >= MaxPages)
      BY <1>2, <1>5
    <2>2. CASE Fresh(cursors) = {}
      BY <1>1, <1>2, <1>3, <2>2
    <2>3. CASE Fresh(cursors) # {}
      <3>1. /\ DOMAIN cursors \subseteq Nat /\ Fresh(cursors) \subseteq DOMAIN cursors
        BY <1>1 DEF Fresh
      <3>2. Min(Fresh(cursors)) \in Fresh(cursors)
        BY <2>3, <3>1, MinIsLeast
      <3>3. cursors[Min(Fresh(cursors))] # NoCursor
        BY <3>2 DEF Fresh
      <3> QED
        BY <1>5, <2>1, <2>3, <3>3 DEF NextCursor
    <2> QED
      BY <2>2, <2>3
  <1> QED
    BY <1>4, <1>5

-----------------------------------------------------------------------------
(* What the steps do.                                                      *)

(* A page goes behind the others; the walk goes on with a new cursor or    *)
(* ends, with a list that lacks items or without.                          *)
LEMMA APage ==
  ASSUME NEW page, FetchPage(page)
  PROVE  /\ phase = "list" /\ UNCHANGED <<served, todo, sent, ctxDone>>
         /\ all' = all \o listing[page] /\ visits' = Append(visits, page)
         /\ \E cursors \in Answers(page) :
                \/ /\ NextCursor(cursors) # NoCursor
                   /\ cursor' = NextCursor(cursors) /\ seen' = seen \cup {NextCursor(cursors)}
                   /\ pages' = pages + 1 /\ UNCHANGED <<lookup, phase, returned>>
                \/ /\ NextCursor(cursors) = NoCursor /\ UNCHANGED <<cursor, seen, pages>>
                   /\ \/ /\ Incomplete(all') /\ phase' = "ended" /\ returned' = "error"
                         /\ lookup' = lookup
                      \/ /\ ~Incomplete(all') /\ lookup' = [i \in Kept(all') |-> "none"]
                         /\ \/ Kept(all') = {} /\ phase' = "ended" /\ returned' = "ok"
                            \/ Kept(all') # {} /\ phase' = "look" /\ returned' = returned
  BY DEF FetchPage, EndOfList, Finish

AnyPage == \E page \in Served : FetchPage(page)

(* The other steps leave the walk alone, and the list.                     *)
Rest == Look \/ Dispatch \/ StopDispatching \/ LookupEnds \/ Join \/ JoinAndLeave \/ EmitFinding \/ EmitEnds

LEMMA TheSteps ==
  ASSUME [CollectNext]_collectVars
  PROVE  \/ AnyPage
         \/ FetchFails /\ phase' = "ended" /\ returned' = "error"
            /\ UNCHANGED <<served, walk, lookup, todo, sent, ctxDone>>
         \/ /\ Rest /\ UNCHANGED <<served, walk, ctxDone>>
            /\ UNCHANGED <<phase, returned>> \/ (phase \notin {"list", "ended"} /\ phase' # "list")
         \/ UNCHANGED <<served, walk, lookup, phase, todo, sent, returned>>
  BY DEF AnyPage, CollectNext, Fetch, Step, Rest, FetchFails, Finish, Look, Dispatch, StopDispatching, LookupEnds,
         Join, JoinAndLeave, EmitFinding, EmitEnds, Ended, EndContext, collectVars, Leave

LEMMA ServerStays == [CollectNext]_collectVars => UNCHANGED served
  BY TheSteps, APage DEF AnyPage

-----------------------------------------------------------------------------
(* Types.                                                                  *)

LEMMA KeptIsTyped ==
  ASSUME NEW S, NEW list \in Seq(S)
  PROVE  Kept(list) \subseteq DOMAIN list /\ DOMAIN list = 1..Len(list) /\ Kept(list) \subseteq Nat
  BY LenProperties DEF Kept

(* And nothing is to be sent before the lookups have ended.                *)
TypeInv == CollectTypeOK /\ (phase \notin {"emit", "ended"} => todo = {} /\ sent = <<>>)

LEMMA TypeStep == TypeInv /\ [CollectNext]_collectVars => TypeInv'
  <1> SUFFICES ASSUME CollectTypeOK, phase \notin {"emit", "ended"} => todo = {} /\ sent = <<>>, [CollectNext]_collectVars
               PROVE  TypeInv'
    BY DEF TypeInv
  <1> DEFINE States == {"none", "running", "blankItem", "blankDetail"} \cup Found
  <1>1. listing' = listing /\ Items' = Items /\ UNCHANGED <<reported, documented>>
    BY ServerStays DEF served, Items, Entries, Item
  <1>2. /\ listing \in Listings /\ Len(listing) \in Nat /\ MaxPages \in Nat /\ pages \in 0..MaxPages
        /\ all \in Seq(Items) /\ visits \in Seq(1..Len(listing)) /\ DOMAIN all = 1..Len(all)
        /\ Len(all) \in Nat
    BY TheList, CollectAssumption, LenProperties DEF CollectTypeOK
  <1> USE DEF served, walk, Finish
  <1>4. ASSUME NEW page \in Served, FetchPage(page) PROVE TypeInv'
    <2>1. /\ all' \in Seq(Items) /\ visits' \in Seq(1..Len(listing)) /\ Len(all') = Len(all) + Len(listing[page])
          /\ Len(listing[page]) \in Nat
      <3>1. page \in 1..Len(listing) /\ listing[page] \in Seq(Items) /\ Len(listing[page]) \in Nat
        BY <1>2, PageIsThere, TheItems, TheList
      <3>2. all' = all \o listing[page] /\ visits' = Append(visits, page)
        BY <1>4, APage
      <3> QED
        BY <1>2, <3>1, <3>2, ToSetOfConcat, AppendProperties
    <2>2. DOMAIN all' = 1..Len(all') /\ DOMAIN all \subseteq DOMAIN all'
      BY <1>2, <2>1, LenProperties
    <2>3. PICK cursors \in Answers(page) :
                \/ /\ NextCursor(cursors) # NoCursor
                   /\ cursor' = NextCursor(cursors) /\ seen' = seen \cup {NextCursor(cursors)}
                   /\ pages' = pages + 1 /\ UNCHANGED <<lookup, phase, returned>>
                \/ /\ UNCHANGED <<cursor, seen, pages>> /\ phase' \in {"ended", "look"}
                   /\ returned' \in {"error", "ok", returned}
                   /\ lookup' = lookup \/ lookup' = [i \in Kept(all') |-> "none"]
      BY <1>4, APage
    <2>4. /\ cursor' \in Nat /\ seen' \subseteq Nat \ {NoCursor} /\ pages' \in 0..MaxPages
          /\ documented => cursor' \in NoCursor..Len(listing) /\ seen' \subseteq 1..Len(listing)
      <3>1. CASE NextCursor(cursors) # NoCursor /\ cursor' = NextCursor(cursors)
                 /\ seen' = seen \cup {NextCursor(cursors)} /\ pages' = pages + 1
        <4>1. /\ NextCursor(cursors) \in Nat \ {NoCursor} /\ pages < MaxPages
              /\ documented => NextCursor(cursors) \in 1..Len(listing)
          BY <3>1, NextIsFresh
        <4> QED
          BY <1>2, <3>1, <4>1 DEF NoCursor, CollectTypeOK
      <3> QED
        BY <2>3, <3>1 DEF CollectTypeOK
    <2>5. lookup' \in [DOMAIN lookup' -> States] /\ DOMAIN lookup' \subseteq DOMAIN all'
      <3>1. CASE lookup' = lookup
        BY <2>2, <3>1 DEF CollectTypeOK
      <3>2. CASE lookup' = [i \in Kept(all') |-> "none"]
        BY <2>1, <3>2, KeptIsTyped
      <3> QED
        BY <2>3, <3>1, <3>2
    <2>6. todo' \subseteq DOMAIN lookup' /\ sent' \in Seq(Items) /\ ctxDone' = ctxDone
      <3>1. UNCHANGED <<todo, sent, ctxDone>>
        BY <1>4, APage
      <3>2. todo = {}
        BY <1>4, APage
      <3> QED
        BY <3>1, <3>2 DEF CollectTypeOK
    <2>7. phase' \in {"list", "look", "ended"} /\ todo' = {} /\ sent' = <<>>
      BY <1>4, <2>3, APage
    <2>8. CollectTypeOK'
      BY <1>1, <2>1, <2>3, <2>4, <2>5, <2>6, <2>7 DEF CollectTypeOK
    <2> QED
      BY <2>7, <2>8 DEF TypeInv
  <1>5. CASE FetchFails \/ Look \/ StopDispatching \/ JoinAndLeave
    <2>1. /\ UNCHANGED <<walk, lookup, todo, sent, ctxDone>>
          /\ phase' \in {"acquire", "leaving", "ended"} /\ returned' \in {returned, "error", "canceled"}
          /\ phase \notin {"emit", "ended"}
      BY <1>5 DEF FetchFails, Look, StopDispatching, JoinAndLeave, Leave
    <2>2. returned' \in {"none", "ok", "error", "canceled"}
      BY <2>1 DEF CollectTypeOK
    <2>3. CollectTypeOK'
      BY <1>1, <2>1, <2>2 DEF CollectTypeOK
    <2> QED
      BY <2>1, <2>3 DEF TypeInv
  <1>6. CASE Dispatch
    <2>1. /\ UNCHANGED <<walk, todo, sent, returned, ctxDone>> /\ phase = "acquire"
          /\ lookup' = [lookup EXCEPT ![Min(Lookups("none"))] = "running"]
          /\ phase' \in {"join", "look"}
      BY <1>6 DEF Dispatch
    <2>2. lookup' \in [DOMAIN lookup -> States] /\ DOMAIN lookup' = DOMAIN lookup
      BY <2>1 DEF CollectTypeOK
    <2> QED
      BY <1>1, <2>1, <2>2 DEF CollectTypeOK, TypeInv
  <1>7. CASE LookupEnds
    <2>1. PICK i \in Workers : \E found \in Details \cup {FallBack(all[i])} :
                                 lookup' = [lookup EXCEPT ![i] = found]
      BY <1>7 DEF LookupEnds
    <2>2. PICK found \in States : lookup' = [lookup EXCEPT ![i] = found]
      BY <2>1 DEF Details, FallBack, Found
    <2>3. lookup' \in [DOMAIN lookup -> States] /\ DOMAIN lookup' = DOMAIN lookup
      BY <2>2 DEF CollectTypeOK
    <2>4. UNCHANGED <<walk, todo, sent, returned, ctxDone, phase>>
      BY <1>7 DEF LookupEnds
    <2> QED
      BY <1>1, <2>3, <2>4 DEF CollectTypeOK, TypeInv
  <1>8. CASE Join
    BY <1>1, <1>8 DEF Join, CollectTypeOK, TypeInv
  <1>9. CASE EmitFinding
    <2>1. PICK i \in todo : sent' = Append(sent, all[i]) /\ todo' = todo \ {i}
      BY <1>9 DEF EmitFinding
    <2>2. all[i] \in Items
      BY <1>2, <2>1, ElementOfSeq DEF CollectTypeOK
    <2>3. sent' \in Seq(Items)
      BY <2>1, <2>2, AppendProperties DEF CollectTypeOK
    <2>4. UNCHANGED <<walk, lookup, phase, returned, ctxDone>> /\ phase = "emit"
      BY <1>9 DEF EmitFinding
    <2> QED
      BY <1>1, <2>1, <2>3, <2>4 DEF CollectTypeOK, TypeInv
  <1>10. CASE EmitEnds
    BY <1>1, <1>10 DEF EmitEnds, CollectTypeOK, TypeInv
  <1>11. CASE EndContext
    BY <1>1, <1>11 DEF EndContext, CollectTypeOK, TypeInv
  <1>12. CASE UNCHANGED collectVars
    BY <1>1, <1>12 DEF collectVars, CollectTypeOK, TypeInv
  <1> QED
    BY <1>4, <1>5, <1>6, <1>7, <1>8, <1>9, <1>10, <1>11, <1>12 DEF CollectNext, Fetch, Step, Ended

-----------------------------------------------------------------------------
(* The walk over the list.                                                 *)

(* With documented cursors no page but the first is fetched twice: the     *)
(* cursors are all different, and that of the page asked for is one.       *)
WalkInv ==
    documented =>
        /\ visits # <<>> => visits[1] = 1
        /\ \A i \in 2..Len(visits) : visits[i] \in seen
        /\ \A i, j \in 2..Len(visits) : visits[i] = visits[j] => i = j
        /\ phase = "list" =>
               \/ visits = <<>> /\ cursor = NoCursor
               \/ visits # <<>> /\ cursor \in seen /\ \A i \in 2..Len(visits) : visits[i] # cursor

LEMMA WalkStep == CollectTypeOK /\ WalkInv /\ [CollectNext]_collectVars => WalkInv'
  <1> SUFFICES ASSUME CollectTypeOK, WalkInv, [CollectNext]_collectVars, documented PROVE WalkInv'
    <2>1. [CollectNext]_collectVars => documented' = documented
      BY ServerStays DEF served
    <2> QED
      BY <2>1, Zenon DEF WalkInv
  <1>1. CASE AnyPage
    <2>0. FetchPage(Page) /\ Page \in Served
      BY <1>1, PageIsThere DEF AnyPage
    <2> DEFINE n == Len(visits)
    <2>1. /\ n \in Nat /\ Len(visits') = n + 1 /\ visits'[n + 1] = Page /\ visits' # <<>>
          /\ \A i \in 1..n : visits'[i] = visits[i]
      <3>1. visits \in Seq(1..Len(listing)) /\ Page \in 1..Len(listing) /\ visits' = Append(visits, Page)
        BY <2>0, PageIsThere, APage DEF CollectTypeOK
      <3> QED
        BY <3>1, AppendProperties, LenProperties, EmptySeq
    <2>2. /\ phase = "list" /\ NoCursor \notin seen
          /\ \/ seen' = seen /\ phase' # "list"
             \/ cursor' \notin seen /\ seen' = seen \cup {cursor'}
      <3>1. NoCursor \notin seen
        BY DEF CollectTypeOK, NoCursor
      <3> QED
        BY <2>0, <3>1, APage, NextIsFresh
    <2>3. CASE visits = <<>> /\ cursor = NoCursor
      <3>1. n = 0 /\ Page = 1
        BY <2>3, EmptySeq DEF Page
      <3>2. Len(visits') = 1 /\ visits'[1] = 1 /\ 2..Len(visits') = {}
        BY <2>1, <3>1
      <3> QED
        BY <2>1, <2>2, <3>2 DEF WalkInv
    <2>4. CASE visits # <<>> /\ cursor \in seen /\ \A i \in 2..Len(visits) : visits[i] # cursor
      <3>1. Page = cursor /\ n >= 1
        BY <2>1, <2>2, <2>4, EmptySeq DEF Page, CollectTypeOK
      <3>2. visits'[1] = 1
        BY <2>1, <2>4, <3>1 DEF WalkInv
      <3>3. \A i \in 2..(n + 1) : (i \in 2..n /\ visits'[i] = visits[i]) \/ (i = n + 1 /\ visits'[i] = cursor)
        BY <2>1, <3>1
      <3>4. \A i \in 2..(n + 1) : visits'[i] \in seen
        BY <2>4, <3>3 DEF WalkInv
      <3>5. \A i, j \in 2..(n + 1) : visits'[i] = visits'[j] => i = j
        BY <2>4, <3>3 DEF WalkInv
      <3> QED
        BY <2>1, <2>2, <3>2, <3>4, <3>5 DEF WalkInv
    <2> QED
      BY <2>2, <2>3, <2>4 DEF WalkInv
  <1>2. CASE ~AnyPage
    <2>1. UNCHANGED <<visits, seen, cursor>> /\ (phase' = "list" => phase = "list")
      BY <1>2, TheSteps DEF walk
    <2> QED
      BY <2>1 DEF WalkInv
  <1> QED
    BY <1>1, <1>2

LEMMA OnlyTheFirstTwice ==
  ASSUME CollectTypeOK, WalkInv, documented
  PROVE  /\ \A p : Twice(p) => p = 1
         /\ phase = "list" /\ Page \in ToSet(visits) => Page = 1 /\ ~Twice(1)
  <1>1. DOMAIN visits = 1..Len(visits) /\ Len(visits) \in Nat
    BY LenProperties DEF CollectTypeOK
  <1>2. \A i \in 1..Len(visits) : visits # <<>> /\ (i = 1 \/ i \in 2..Len(visits))
    BY <1>1, EmptySeq
  <1>3. ASSUME NEW p, Twice(p) PROVE p = 1
    <2>1. PICK i, j \in DOMAIN visits : i # j /\ visits[i] = p /\ visits[j] = p
      BY <1>3 DEF Twice
    <2> QED
      BY <1>1, <1>2, <2>1 DEF WalkInv
  <1>4. ASSUME phase = "list", Page \in ToSet(visits) PROVE Page = 1 /\ ~Twice(1)
    <2>1. PICK k \in 1..Len(visits) : visits[k] = Page
      BY <1>1, <1>4 DEF ToSet
    <2>2. visits # <<>> /\ visits[1] = 1
      BY <1>2, <2>1 DEF WalkInv
    <2>3. cursor \in seen /\ \A i \in 2..Len(visits) : visits[i] # cursor
      BY <1>4, <2>2 DEF WalkInv
    <2>4. Page = cursor
      BY <2>3 DEF Page, CollectTypeOK, NoCursor
    <2>5. Page = 1
      BY <1>2, <2>1, <2>2, <2>3, <2>4
    <2>6. ~Twice(1)
      <3> SUFFICES ASSUME Twice(1) PROVE FALSE
        OBVIOUS
      <3>1. PICK i, j \in DOMAIN visits : i # j /\ visits[i] = 1 /\ visits[j] = 1
        BY DEF Twice
      <3> QED
        BY <1>1, <1>2, <2>3, <2>4, <2>5, <3>1
    <2> QED
      BY <2>5, <2>6
  <1> QED
    BY <1>3, <1>4

(* A list is listed when its last page came and was not found too short.   *)
OutcomeInv == phase # "ended" => returned = "none"

LEMMA OutcomeStep == OutcomeInv /\ [CollectNext]_collectVars => OutcomeInv'
  <1> SUFFICES ASSUME OutcomeInv, [CollectNext]_collectVars PROVE OutcomeInv'
    OBVIOUS
  <1>1. CASE AnyPage
    BY <1>1, APage DEF OutcomeInv, AnyPage
  <1>2. CASE Rest
    BY <1>2 DEF OutcomeInv, Rest, Look, Dispatch, StopDispatching, LookupEnds, Join, JoinAndLeave,
                EmitFinding, EmitEnds, Leave, Finish
  <1> QED
    BY <1>1, <1>2, TheSteps DEF OutcomeInv

LEMMA ListedOnce ==
  ASSUME OutcomeInv, [CollectNext]_collectVars, Listed'
  PROVE  \/ Listed /\ UNCHANGED <<served, walk>>
         \/ AnyPage /\ ~Incomplete(all') /\ UNCHANGED <<cursor, seen, pages>>
  <1>1. CASE AnyPage
    BY <1>1, APage DEF Listed, OutcomeInv, AnyPage
  <1>2. CASE ~AnyPage
    BY <1>2, TheSteps DEF Listed, OutcomeInv
  <1> QED
    BY <1>1, <1>2

-----------------------------------------------------------------------------
(* What was fetched.                                                       *)

Fetched == {entry \in Entries : entry[1] \in ToSet(visits)}

NoneTwice == \A p \in DOMAIN listing : ~Twice(p)

(* All holds the items of the pages visited, each page's once if none came *)
(* twice; with documented cursors that is so but for the first page.       *)
FetchInv ==
    /\ ToSet(all) = {Item(entry) : entry \in Fetched}
    /\ NoneTwice => Len(all) = Cardinality(Fetched)
    /\ documented /\ Twice(1) => Len(all) = Cardinality(Fetched) + Len(listing[1])
    /\ Listed => ~Incomplete(all)

LEMMA FetchStep == CollectTypeOK /\ WalkInv /\ OutcomeInv /\ FetchInv /\ [CollectNext]_collectVars => FetchInv'
  <1> SUFFICES ASSUME CollectTypeOK, WalkInv, OutcomeInv, FetchInv, [CollectNext]_collectVars PROVE FetchInv'
    OBVIOUS
  <1>1. UNCHANGED <<listing, reported, documented>> /\ Entries' = Entries /\ Count' = Count
        /\ \A entry : Item(entry)' = Item(entry)
    BY ServerStays DEF served, Count, Entries, Item
  <1>2. Listed' => ~Incomplete(all)'
    BY <1>1, ListedOnce DEF Incomplete, FetchInv, walk
  <1>3. ASSUME NEW page \in Served, FetchPage(page) PROVE FetchInv'
    <2> DEFINE new == {page} \X DOMAIN listing[page]
    <2>1. /\ listing \in Listings /\ page \in 1..Len(listing) /\ DOMAIN listing = 1..Len(listing)
          /\ listing[page] \in Seq(Items) /\ ToSet(listing[page]) = {Item(entry) : entry \in new}
          /\ all \in Seq(Items) /\ visits \in Seq(1..Len(listing))
          /\ all' = all \o listing[page] /\ visits' = Append(visits, page) /\ phase = "list"
      BY <1>3, PageIsThere, TheItems, TheList, APage DEF CollectTypeOK
    <2>2. ToSet(visits') = ToSet(visits) \cup {page}
      BY <2>1, ToSetOfAppend
    <2>3. new \subseteq Entries /\ \A entry \in Entries : entry[1] = page => entry \in new
      <3>1. new \subseteq Entries
        BY <2>1 DEF Entries
      <3>2. ASSUME NEW entry \in Entries, entry[1] = page PROVE entry \in new
        <4>1. PICK p \in DOMAIN listing : entry \in {p} \X DOMAIN listing[p]
          BY DEF Entries
        <4>2. entry[1] = p
          BY <4>1
        <4> QED
          BY <3>2, <4>1, <4>2
      <3> QED
        BY <3>1, <3>2
    <2>4. Fetched' = Fetched \cup new
      <3>1. \A entry \in new : entry[1] = page
        OBVIOUS
      <3>2. Fetched' = {entry \in Entries : entry[1] \in ToSet(visits')}
        BY <1>1 DEF Fetched
      <3> HIDE DEF new
      <3> QED
        BY <2>2, <2>3, <3>1, <3>2 DEF Fetched
    <2>5. ToSet(all') = ToSet(all) \cup ToSet(listing[page]) /\ Len(all') = Len(all) + Len(listing[page])
      BY <2>1, ToSetOfConcat
    <2>6. ToSet(all') = {Item(entry) : entry \in Fetched'}
      <3> HIDE DEF new
      <3> QED
        BY <2>1, <2>4, <2>5 DEF FetchInv
    <2>7. /\ IsFiniteSet(new) /\ Cardinality(new) = Len(listing[page]) /\ Len(listing[page]) \in Nat
          /\ IsFiniteSet(Fetched) /\ Cardinality(Fetched) \in Nat /\ Len(listing[1]) \in Nat
      <3>1. IsFiniteSet(new) /\ Cardinality(new) = Len(listing[page])
        BY <2>1, EntriesOfPage
      <3>2. IsFiniteSet(Fetched) /\ Cardinality(Fetched) \in Nat
        BY <2>1, EntriesAreFinite, FS_Subset, FS_CardinalityType DEF Fetched
      <3> QED
        BY <2>1, <3>1, <3>2, TheList
    <2>8. /\ Len(visits) \in Nat /\ DOMAIN visits = 1..Len(visits)
          /\ DOMAIN visits' = 1..(Len(visits) + 1) /\ visits'[Len(visits) + 1] = page
          /\ \A i \in 1..Len(visits) : visits'[i] = visits[i]
      <3>1. /\ Len(visits') = Len(visits) + 1 /\ visits'[Len(visits) + 1] = page
            /\ \A i \in 1..Len(visits) : visits'[i] = visits[i] /\ visits' \in Seq(1..Len(listing))
        BY <2>1, AppendProperties
      <3>2. visits' \in Seq(1..Len(listing))
        BY <2>1, AppendProperties
      <3> QED
        BY <2>1, <3>1, <3>2, LenProperties
    <2>9. CASE page \notin ToSet(visits)
      <3>1. \A i \in 1..Len(visits) : visits[i] # page
        BY <2>8, <2>9 DEF ToSet
      <3>2. ASSUME NEW p PROVE Twice(p)' <=> Twice(p)
        <4>1. ASSUME NEW i \in 1..(Len(visits) + 1), NEW j \in 1..(Len(visits) + 1),
                     i # j, visits'[i] = p, visits'[j] = p
              PROVE  i \in 1..Len(visits) /\ j \in 1..Len(visits)
          <5>1. i = Len(visits) + 1 \/ i \in 1..Len(visits)
            BY <2>8
          <5>2. j = Len(visits) + 1 \/ j \in 1..Len(visits)
            BY <2>8
          <5> QED
            BY <2>8, <3>1, <4>1, <5>1, <5>2
        <4>2. Twice(p)' => Twice(p)
          BY <2>8, <4>1 DEF Twice
        <4>3. Twice(p) => Twice(p)'
          <5>1. \A i \in 1..Len(visits) : i \in 1..(Len(visits) + 1)
            BY <2>8
          <5> QED
            BY <2>8, <5>1 DEF Twice
        <4> QED
          BY <4>2, <4>3
      <3>3. Fetched \cap new = {}
        BY <2>9 DEF Fetched
      <3>4. Cardinality(Fetched') = Cardinality(Fetched) + Len(listing[page])
        <4> HIDE DEF new
        <4>1. Cardinality(Fetched \cup new) = Cardinality(Fetched) + Cardinality(new) - Cardinality(Fetched \cap new)
          BY <2>7, FS_Union
        <4>2. Cardinality(Fetched \cap new) = 0
          BY <3>3, FS_EmptySet
        <4> QED
          BY <2>4, <2>7, <4>1, <4>2
      <3>5. NoneTwice' => Len(all') = Cardinality(Fetched')
        <4>1. NoneTwice' => NoneTwice
          BY <1>1, <3>2 DEF NoneTwice
        <4>2. NoneTwice => Len(all) = Cardinality(Fetched)
          BY DEF FetchInv
        <4> QED
          BY <2>5, <2>7, <3>4, <4>1, <4>2
      <3>6. documented /\ Twice(1)' => Len(all') = Cardinality(Fetched') + Len(listing[1])
        <4>1. documented /\ Twice(1) => Len(all) = Cardinality(Fetched) + Len(listing[1])
          BY DEF FetchInv
        <4>2. Twice(1)' <=> Twice(1)
          BY <3>2
        <4> HIDE DEF new
        <4> QED
          BY <2>5, <2>7, <3>4, <4>1, <4>2
      <3> QED
        BY <1>1, <1>2, <2>6, <3>5, <3>6 DEF FetchInv
    <2>10. CASE page \in ToSet(visits)
      <3>1. Twice(page)'
        <4>1. PICK k \in 1..Len(visits) : visits[k] = page
          BY <2>8, <2>10 DEF ToSet
        <4>2. /\ k \in DOMAIN visits' /\ Len(visits) + 1 \in DOMAIN visits' /\ k # Len(visits) + 1
              /\ visits'[k] = page /\ visits'[Len(visits) + 1] = page
          BY <2>8, <4>1
        <4> QED
          BY <4>2 DEF Twice
      <3>2. ~NoneTwice'
        <4>1. page \in DOMAIN listing'
          BY <1>1, <2>1
        <4> QED
          BY <3>1, <4>1, Zenon DEF NoneTwice
      <3>3. new \subseteq Fetched
        BY <2>3, <2>10 DEF Fetched
      <3>4. Fetched' = Fetched
        <4> HIDE DEF new
        <4> QED
          BY <2>4, <3>3
      <3>5. ASSUME documented PROVE Len(all') = Cardinality(Fetched') + Len(listing[1])
        <4>1. page = Page
          BY <3>5, PageIsThere
        <4>2. page = 1 /\ NoneTwice
          BY <2>1, <2>10, <3>5, <4>1, OnlyTheFirstTwice DEF NoneTwice
        <4>3. Len(all) = Cardinality(Fetched)
          BY <4>2 DEF FetchInv
        <4> QED
          BY <2>5, <2>7, <3>4, <4>2, <4>3
      <3> QED
        BY <1>1, <1>2, <2>6, <3>2, <3>5 DEF FetchInv
    <2> QED
      BY <2>9, <2>10
  <1>4. CASE ~AnyPage
    <2>1. UNCHANGED <<all, visits>>
      BY <1>4, TheSteps DEF walk
    <2>2. Fetched' = Fetched
      BY <1>1, <2>1 DEF Fetched
    <2>3. ToSet(all') = {Item(entry) : entry \in Fetched'}
      BY <2>1, <2>2 DEF FetchInv
    <2>4. \A p : Twice(p)' <=> Twice(p)
      BY <2>1 DEF Twice
    <2>5. NoneTwice' <=> NoneTwice
      BY <1>1, <2>4 DEF NoneTwice
    <2> QED
      BY <1>1, <1>2, <2>1, <2>2, <2>3, <2>4, <2>5 DEF FetchInv
  <1> QED
    BY <1>3, <1>4 DEF AnyPage

(* What a list that was taken for whole can lack.                          *)
LEMMA LittleIsMissing == CollectTypeOK /\ WalkInv /\ FetchInv => TruncationIsLoud
  <1> SUFFICES ASSUME CollectTypeOK, WalkInv, FetchInv PROVE TruncationIsLoud
    OBVIOUS
  <1> SUFFICES ASSUME Listed, reported, ~(Items \subseteq ToSet(all))
               PROVE  /\ \E p \in DOMAIN listing : Twice(p)
                      /\ documented => /\ \A p \in DOMAIN listing : Twice(p) => p = 1
                                       /\ Cardinality(Items \ ToSet(all)) <= Len(listing[1])
    BY Zenon DEF TruncationIsLoud
  <1> DEFINE lacking == Entries \ Fetched
             item == [entry \in Entries |-> Item(entry)]
             T == {item[entry] : entry \in lacking}
  <1>1. /\ IsFiniteSet(Entries) /\ Count \in Nat /\ Fetched \subseteq Entries
        /\ Len(listing[1]) \in Nat /\ Len(all) \in Nat
    <2>1. 1 \in 1..Len(listing)
      BY TheList DEF CollectTypeOK
    <2>2. Len(listing[1]) \in Nat
      BY <2>1, TheList DEF CollectTypeOK
    <2>3. Len(all) \in Nat
      BY LenProperties DEF CollectTypeOK
    <2> QED
      BY <2>2, <2>3, EntriesAreFinite DEF CollectTypeOK, Fetched
  <1>2. /\ IsFiniteSet(Fetched) /\ Cardinality(Fetched) \in Nat
        /\ IsFiniteSet(lacking) /\ Cardinality(lacking) \in Nat
        /\ Cardinality(lacking) = Count - Cardinality(Fetched)
    <2>1. IsFiniteSet(Fetched)
      BY <1>1, FS_Subset
    <2>2. /\ IsFiniteSet(lacking) /\ Cardinality(lacking) = Cardinality(Entries) - Cardinality(Entries \cap Fetched)
      BY <1>1, <2>1, FS_Difference
    <2>3. Entries \cap Fetched = Fetched
      BY <1>1
    <2> QED
      BY <2>1, <2>2, <2>3, FS_CardinalityType DEF Count
  <1>3. Len(all) >= Count
    BY <1>1 DEF FetchInv, Incomplete
  <1>4. Items \ ToSet(all) \subseteq T
    <2> SUFFICES ASSUME NEW v \in Items \ ToSet(all) PROVE v \in T
      OBVIOUS
    <2>1. PICK entry \in Entries : v = Item(entry)
      BY DEF Items
    <2>2. entry \notin Fetched
      BY <2>1 DEF FetchInv
    <2> QED
      BY <2>1, <2>2
  <1>5. IsFiniteSet(T) /\ Cardinality(T) \in Nat /\ Cardinality(T) <= Cardinality(lacking)
    <2> HIDE DEF lacking, item
    <2> QED
      BY <1>2, ImageIsNoLarger
  <1>6. /\ Cardinality(Items \ ToSet(all)) \in Nat
        /\ Cardinality(Items \ ToSet(all)) <= Cardinality(T)
    <2> HIDE DEF T
    <2> QED
      BY <1>4, <1>5, FS_Subset, FS_CardinalityType
  <1>7. ~NoneTwice
    <2> SUFFICES ASSUME NoneTwice PROVE FALSE
      OBVIOUS
    <2>1. Len(all) = Cardinality(Fetched)
      BY DEF FetchInv
    <2>2. Cardinality(lacking) = 0
      <3> HIDE DEF lacking
      <3> QED
        BY <1>1, <1>2, <1>3, <2>1
    <2>3. lacking = {}
      <3> HIDE DEF lacking
      <3> QED
        BY <1>2, <2>2, FS_EmptySet
    <2>4. T = {}
      BY <2>3
    <2> QED
      BY <1>4, <2>4
  <1>8. ASSUME documented
        PROVE  /\ \A p \in DOMAIN listing : Twice(p) => p = 1
               /\ Cardinality(Items \ ToSet(all)) <= Len(listing[1])
    <2>1. \A p : Twice(p) => p = 1
      BY <1>8, OnlyTheFirstTwice
    <2>2. Twice(1)
      BY <1>7, <2>1 DEF NoneTwice
    <2>3. Len(all) = Cardinality(Fetched) + Len(listing[1])
      BY <1>8, <2>2 DEF FetchInv
    <2> HIDE DEF T, lacking
    <2> QED
      BY <1>1, <1>2, <1>3, <1>5, <1>6, <2>1, <2>3
  <1> QED
    BY <1>7, <1>8 DEF NoneTwice

-----------------------------------------------------------------------------
(* The order of the pages, with documented cursors.                        *)

(* The pages up to the one that is asked for next have all been fetched.   *)
DocInv ==
    documented =>
        /\ NoPageIsSkipped
        /\ phase = "list" =>
               /\ seen \subseteq 1..Page
               /\ 1..(Page - 1) \subseteq ToSet(visits)
               /\ visits # <<>> => Page \in {1, visits[Len(visits)] + 1}

LEMMA DocStep == CollectTypeOK /\ OutcomeInv /\ FetchInv' /\ DocInv /\ [CollectNext]_collectVars => DocInv'
  <1> SUFFICES ASSUME CollectTypeOK, OutcomeInv, FetchInv', DocInv, [CollectNext]_collectVars, documented PROVE DocInv'
    <2>1. [CollectNext]_collectVars => documented' = documented
      BY ServerStays DEF served
    <2> QED
      BY <2>1, Zenon DEF DocInv
  <1>1. UNCHANGED <<listing, documented>> /\ Entries' = Entries /\ Items' = Items
        /\ \A entry : Item(entry)' = Item(entry)
    BY ServerStays DEF served, Entries, Item, Items
  <1>2. CASE AnyPage
    <2>0. FetchPage(Page) /\ Page \in Served
      BY <1>2, PageIsThere DEF AnyPage
    <2> DEFINE n == Len(visits)
    <2>1. /\ listing \in Listings /\ Page \in 1..Len(listing) /\ Len(listing) \in Nat
          /\ DOMAIN listing = 1..Len(listing) /\ visits \in Seq(1..Len(listing))
          /\ visits' = Append(visits, Page) /\ phase = "list" /\ returned = "none"
      BY <2>0, PageIsThere, TheList, APage DEF CollectTypeOK, OutcomeInv
    <2>2. /\ n \in Nat /\ Len(visits') = n + 1 /\ visits'[n + 1] = Page /\ visits' # <<>>
          /\ \A i \in 1..n : visits'[i] = visits[i]
          /\ ToSet(visits') = ToSet(visits) \cup {Page} /\ (n >= 1 => visits # <<>>)
      BY <2>1, AppendProperties, LenProperties, EmptySeq, ToSetOfAppend
    <2>3. \A i \in 2..(n + 1) : visits'[i] \in {1, visits'[i - 1] + 1}
      <3> SUFFICES ASSUME NEW i \in 2..(n + 1) PROVE visits'[i] \in {1, visits'[i - 1] + 1}
        OBVIOUS
      <3>1. i - 1 \in 1..n /\ visits'[i - 1] = visits[i - 1]
        BY <2>2
      <3>2. CASE i \in 2..n
        <4>1. visits'[i] = visits[i] /\ visits[i] \in {1, visits[i - 1] + 1}
          BY <2>2, <3>2 DEF DocInv, NoPageIsSkipped
        <4> QED
          BY <3>1, <4>1
      <3>3. CASE i = n + 1
        <4>1. visits # <<>> /\ i - 1 = n /\ visits'[i] = Page
          BY <2>2, <3>1, <3>3
        <4>2. Page \in {1, visits[n] + 1}
          BY <2>1, <4>1 DEF DocInv
        <4> QED
          BY <3>1, <4>1, <4>2
      <3> QED
        BY <2>2, <3>2, <3>3
    <2>4. 1..Page \subseteq ToSet(visits')
      <3>1. 1..(Page - 1) \subseteq ToSet(visits)
        BY <2>1 DEF DocInv
      <3>2. \A p \in 1..Page : p \in 1..(Page - 1) \/ p = Page
        BY <2>1
      <3> QED
        BY <2>2, <3>1, <3>2
    <2>5. PICK cursors \in Answers(Page) :
                \/ /\ NextCursor(cursors) # NoCursor
                   /\ cursor' = NextCursor(cursors) /\ seen' = seen \cup {NextCursor(cursors)}
                   /\ UNCHANGED <<phase, returned>>
                \/ /\ NextCursor(cursors) = NoCursor /\ pages' = pages /\ phase' # "list"
      BY <2>0, APage
    <2>6. /\ seen \subseteq 1..Page
          /\ NextCursor(cursors) # NoCursor
                => NextCursor(cursors) = Page + 1 \/ (NextCursor(cursors) = 1 /\ Page = 1)
          /\ NextCursor(cursors) = NoCursor => pages = MaxPages \/ Page = Len(listing)
      <3>1. seen \subseteq 1..Page
        BY <2>1 DEF DocInv
      <3> QED
        BY <3>1, NextIsFollowing
    <2>7. CASE /\ NextCursor(cursors) # NoCursor
               /\ cursor' = NextCursor(cursors) /\ seen' = seen \cup {NextCursor(cursors)}
               /\ UNCHANGED <<phase, returned>>
      <3>1. Page' = cursor' /\ ~Listed'
        BY <2>1, <2>7 DEF Page, NoCursor, Listed
      <3>2. cursor' = Page + 1 \/ (cursor' = 1 /\ Page = 1)
        BY <2>6, <2>7
      <3>3. seen' \subseteq 1..cursor' /\ 1..(cursor' - 1) \subseteq ToSet(visits')
        <4>1. 1..Page \subseteq 1..cursor' /\ cursor' \in 1..cursor' /\ 1..(cursor' - 1) \subseteq 1..Page
          BY <2>1, <3>2
        <4> QED
          BY <2>4, <2>6, <2>7, <4>1
      <3>4. cursor' \in {1, visits'[Len(visits')] + 1}
        BY <2>2, <3>2
      <3>5. NoPageIsSkipped'
        BY <2>2, <2>3, <3>1 DEF NoPageIsSkipped
      <3> QED
        BY <3>1, <3>3, <3>4, <3>5 DEF DocInv
    <2>8. CASE NextCursor(cursors) = NoCursor /\ pages' = pages /\ phase' # "list"
      <3>1. ASSUME pages # MaxPages PROVE ToSet(all') = Items
        <4>1. Page = Len(listing)
          BY <2>6, <2>8, <3>1
        <4>2. \A entry \in Entries : entry[1] \in 1..Len(listing)
          BY <2>1 DEF Entries
        <4>3. Fetched' = Entries
          BY <1>1, <2>4, <4>1, <4>2 DEF Fetched
        <4> QED
          BY <1>1, <4>3 DEF FetchInv, Items
      <3>2. NoPageIsSkipped'
        BY <1>1, <2>2, <2>3, <2>8, <3>1 DEF NoPageIsSkipped
      <3> QED
        BY <2>8, <3>2 DEF DocInv
    <2> QED
      BY <2>5, <2>7, <2>8
  <1>3. CASE ~AnyPage
    <2>1. UNCHANGED <<cursor, seen, pages, all, visits>> /\ (phase' = "list" => phase = "list")
      BY <1>3, TheSteps DEF walk
    <2>2. Listed' => Listed
      BY <1>3, ListedOnce
    <2>3. NoPageIsSkipped'
      BY <1>1, <2>1, <2>2 DEF DocInv, NoPageIsSkipped
    <2>4. Page' = Page
      BY <2>1 DEF Page
    <2> QED
      BY <1>1, <2>1, <2>3, <2>4 DEF DocInv
  <1> QED
    BY <1>2, <1>3

-----------------------------------------------------------------------------
(* The lookups.                                                            *)

(* dedupeVulnerabilities keeps one of every item, and only one.            *)
LEMMA KeptCovers ==
  ASSUME NEW S, NEW list \in Seq(S), NEW v \in ToSet(list)
  PROVE  \E i \in Kept(list) : list[i] = v
  <1> DEFINE places == {i \in DOMAIN list : list[i] = v}
             least == Min(places)
  <1>1. DOMAIN list = 1..Len(list) /\ Len(list) \in Nat
    BY LenProperties
  <1>2. places \subseteq Nat /\ places # {}
    BY <1>1 DEF ToSet
  <1>3. least \in places /\ \A j \in places : least <= j
    <2> HIDE DEF places
    <2> QED
      BY <1>2, MinIsLeast
  <1>4. ASSUME NEW j \in 1..(least - 1) PROVE list[j] # list[least]
    <2>1. j \in DOMAIN list /\ ~(least <= j) /\ list[least] = v
      BY <1>1, <1>3
    <2> QED
      BY <1>3, <2>1
  <1>5. least \in Kept(list) /\ list[least] = v
    BY <1>3, <1>4 DEF Kept
  <1> QED
    BY <1>5

LEMMA KeptAreDistinct ==
  ASSUME NEW S, NEW list \in Seq(S), NEW i \in Kept(list), NEW j \in Kept(list), i # j
  PROVE  list[i] # list[j]
  <1>1. i \in 1..Len(list) /\ j \in 1..Len(list) /\ Len(list) \in Nat
    BY LenProperties DEF Kept
  <1>2. CASE i < j
    <2>1. i \in 1..(j - 1)
      BY <1>1, <1>2
    <2> QED
      BY <2>1 DEF Kept
  <1>3. CASE j < i
    <2>1. j \in 1..(i - 1)
      BY <1>1, <1>3
    <2> QED
      BY <2>1 DEF Kept
  <1> QED
    BY <1>1, <1>2, <1>3

(* Every item that is kept is looked up, and all lookups are dispatched    *)
(* before the workers are joined.  Only an item without a name is without  *)
(* one when its lookup has failed.                                         *)
LookInv ==
    /\ phase = "list" => lookup = <<>>
    /\ Listed => DOMAIN lookup = Kept(all)
    /\ phase \in {"look", "acquire"} => Lookups("none") # {}
    /\ phase \in {"join", "emit"} => Lookups("none") = {}
    /\ \A i \in Lookups("blankItem") : all[i] \in Nameless

LEMMA LookStep == CollectTypeOK /\ OutcomeInv /\ LookInv /\ [CollectNext]_collectVars => LookInv'
  <1> SUFFICES ASSUME CollectTypeOK, OutcomeInv, LookInv, [CollectNext]_collectVars PROVE LookInv'
    OBVIOUS
  <1>1. Listed' => Listed \/ AnyPage
    BY ListedOnce
  <1> USE DEF walk, Finish
  (* A step that leaves the lookups alone, and the list.                   *)
  <1>2. ASSUME UNCHANGED <<all, lookup>>, Listed' => Listed, phase' = "list" => phase = "list",
               phase' \in {"look", "acquire"} => phase \in {"look", "acquire"},
               phase' \in {"join", "emit"} => phase \in {"join", "emit"}
        PROVE  LookInv'
    <2>1. \A how : Lookups(how)' = Lookups(how)
      BY <1>2 DEF Lookups
    <2> QED
      BY <1>2, <2>1 DEF LookInv
  <1>3. ASSUME NEW page \in Served, FetchPage(page) PROVE LookInv'
    <2>1. phase = "list" /\ returned = "none" /\ lookup = <<>>
      BY <1>3, APage DEF LookInv, OutcomeInv
    <2>2. \/ lookup' = <<>> /\ phase' \in {"list", "ended"} /\ returned' \in {"none", "error"}
          \/ /\ lookup' = [i \in Kept(all') |-> "none"]
             /\ \/ phase' = "ended"
                \/ phase' = "look" /\ Kept(all') # {}
      BY <1>3, <2>1, APage
    <2>3. CASE lookup' = <<>> /\ phase' \in {"list", "ended"} /\ returned' \in {"none", "error"}
      <3>1. Lookups("blankItem")' = {}
        BY <2>3 DEF Lookups
      <3> QED
        BY <2>3, <3>1 DEF LookInv, Listed
    <2>4. CASE /\ lookup' = [i \in Kept(all') |-> "none"]
               /\ \/ phase' = "ended"
                  \/ phase' = "look" /\ Kept(all') # {}
      <3>1. DOMAIN lookup' = Kept(all') /\ Lookups("blankItem")' = {} /\ Lookups("none")' = Kept(all')
        BY <2>4 DEF Lookups
      <3> QED
        BY <2>4, <3>1 DEF LookInv
    <2> QED
      BY <2>2, <2>3, <2>4
  <1>4. CASE FetchFails
    BY <1>1, <1>2, <1>4 DEF FetchFails, Listed
  <1>5. CASE Look \/ StopDispatching
    BY <1>1, <1>2, <1>5 DEF Look, StopDispatching, Leave, Listed
  <1>6. CASE Dispatch
    <2> DEFINE m == Min(Lookups("none"))
    <2>1. /\ UNCHANGED walk /\ phase = "acquire" /\ lookup' = [lookup EXCEPT ![m] = "running"]
          /\ phase' = IF Lookups("none")' = {} THEN "join" ELSE "look"
      BY <1>6 DEF Dispatch
    <2> HIDE DEF m
    <2>2. DOMAIN lookup' = DOMAIN lookup /\ Lookups("blankItem")' \subseteq Lookups("blankItem")
      BY <2>1 DEF Lookups
    <2>3. Listed
      BY <2>1 DEF Listed
    <2> QED
      BY <2>1, <2>2, <2>3 DEF LookInv
  <1>7. CASE LookupEnds
    <2>1. PICK i \in Workers : \E found \in Details \cup {FallBack(all[i])} :
                                 lookup' = [lookup EXCEPT ![i] = found]
      BY <1>7 DEF LookupEnds
    <2>2. PICK found \in Details \cup {FallBack(all[i])} : lookup' = [lookup EXCEPT ![i] = found]
      BY <2>1
    <2>3. UNCHANGED <<walk, phase, returned>> /\ i \in DOMAIN lookup /\ lookup[i] = "running"
      BY <1>7, <2>1 DEF LookupEnds, Workers, Lookups
    <2>4. found # "none" /\ (found = "blankItem" => all[i] \in Nameless)
      BY <2>2 DEF Details, FallBack
    <2>5. DOMAIN lookup' = DOMAIN lookup /\ Lookups("none")' = Lookups("none")
      BY <2>2, <2>3, <2>4 DEF Lookups
    <2>6. \A j \in Lookups("blankItem")' : all[j] \in Nameless
      BY <2>2, <2>4 DEF Lookups, LookInv
    <2>7. phase # "list"  /\ (Listed' => Listed)
      <3>1. phase # "list"
        BY <2>3 DEF LookInv
      <3> QED
        BY <2>3, <3>1 DEF Listed
    <2> QED
      BY <2>3, <2>5, <2>6, <2>7 DEF LookInv
  <1>8. CASE Join \/ JoinAndLeave
    BY <1>1, <1>2, <1>8 DEF Join, JoinAndLeave, Listed
  <1>9. CASE EmitFinding \/ EmitEnds
    BY <1>1, <1>2, <1>9 DEF EmitFinding, EmitEnds, Listed
  <1>10. CASE EndContext
    BY <1>1, <1>2, <1>10 DEF EndContext, Listed
  <1>11. CASE UNCHANGED collectVars
    BY <1>1, <1>2, <1>11 DEF collectVars, Listed
  <1> QED
    BY <1>3, <1>4, <1>5, <1>6, <1>7, <1>8, <1>9, <1>10, <1>11 DEF CollectNext, Fetch, Step, Ended

(* Lookups run only between the first of them and the join.                *)
PoolInv ==
    /\ phase \in {"list", "emit", "ended"} => Workers = {}
    /\ IsFiniteSet(Workers) /\ Cardinality(Workers) <= DetailWorkers

LEMMA PoolStep == LookInv /\ PoolInv /\ [CollectNext]_collectVars => PoolInv'
  <1> SUFFICES ASSUME LookInv, PoolInv, [CollectNext]_collectVars PROVE PoolInv'
    OBVIOUS
  <1>0. IsFiniteSet(Workers) /\ Cardinality(Workers) \in Nat /\ DetailWorkers \in Nat
    BY FS_CardinalityType, CollectAssumption DEF PoolInv
  <1> USE DEF Finish
  (* A step that starts no lookup.                                         *)
  <1>1. ASSUME Workers' \subseteq Workers,
               phase' \in {"list", "emit", "ended"}
                   => phase \in {"list", "emit", "ended"} \/ Workers = {}
        PROVE  PoolInv'
    <2>1. /\ IsFiniteSet(Workers') /\ Cardinality(Workers') \in Nat
          /\ Cardinality(Workers') <= Cardinality(Workers)
      BY <1>0, <1>1, FS_Subset, FS_CardinalityType
    <2> QED
      BY <1>0, <1>1, <2>1 DEF PoolInv
  <1>2. ASSUME NEW page \in Served, FetchPage(page) PROVE PoolInv'
    <2>1. phase = "list" /\ (lookup' = lookup \/ lookup' = [i \in Kept(all') |-> "none"])
      BY <1>2, APage
    <2>2. Workers' = {} \/ Workers' = Workers
      BY <2>1 DEF Workers, Lookups
    <2> QED
      BY <1>1, <2>1, <2>2
  <1>3. CASE FetchFails \/ Look \/ StopDispatching
    <2>1. Workers' = Workers
      BY <1>3 DEF FetchFails, Look, StopDispatching, Workers, Lookups
    <2> QED
      BY <1>1, <1>3, <2>1 DEF FetchFails, Look, StopDispatching, Leave
  <1>4. CASE Dispatch
    <2>1. PICK m : m = Min(Lookups("none"))
      OBVIOUS
    <2>2. /\ Cardinality(Workers) < DetailWorkers /\ phase' \in {"join", "look"}
          /\ lookup' = [lookup EXCEPT ![m] = "running"]
      BY <1>4, <2>1 DEF Dispatch
    <2> DEFINE More == Workers \cup {m}
    <2>3. Workers' \subseteq More
      BY <2>2 DEF Workers, Lookups
    <2>4. /\ IsFiniteSet(More) /\ Cardinality(More) \in Nat
          /\ Cardinality(More) = Cardinality(Workers) \/ Cardinality(More) = Cardinality(Workers) + 1
      BY <1>0, FS_AddElement, FS_CardinalityType
    <2> HIDE DEF More
    <2>5. /\ IsFiniteSet(Workers') /\ Cardinality(Workers') \in Nat
          /\ Cardinality(Workers') <= Cardinality(More)
      BY <2>3, <2>4, FS_Subset, FS_CardinalityType
    <2> QED
      BY <1>0, <2>2, <2>4, <2>5 DEF PoolInv
  <1>5. CASE LookupEnds
    <2>1. PICK i \in Workers : \E found \in Details \cup {FallBack(all[i])} :
                                 lookup' = [lookup EXCEPT ![i] = found]
      BY <1>5 DEF LookupEnds
    <2>2. PICK found \in Details \cup {FallBack(all[i])} : lookup' = [lookup EXCEPT ![i] = found]
      BY <2>1
    <2>3. found # "running"
      BY <2>2 DEF Details, FallBack
    <2>4. Workers' \subseteq Workers /\ phase' = phase
      BY <1>5, <2>2, <2>3 DEF Workers, Lookups, LookupEnds
    <2> QED
      BY <1>1, <2>4
  <1>6. CASE Join \/ JoinAndLeave \/ EmitFinding \/ EmitEnds
    <2>1. Workers' = Workers
      BY <1>6 DEF Join, JoinAndLeave, EmitFinding, EmitEnds, Workers, Lookups
    <2> QED
      BY <1>1, <1>6, <2>1 DEF Join, JoinAndLeave, EmitFinding, EmitEnds
  <1>7. CASE EndContext \/ UNCHANGED collectVars
    <2>1. Workers' = Workers /\ phase' = phase
      BY <1>7 DEF EndContext, collectVars, Workers, Lookups
    <2> QED
      BY <1>1, <2>1
  <1> QED
    BY <1>2, <1>3, <1>4, <1>5, <1>6, <1>7 DEF CollectNext, Fetch, Step, Ended

-----------------------------------------------------------------------------
(* What is sent.                                                           *)

(* What is still to be sent comes behind what was, and nothing that was    *)
(* found is in neither.                                                    *)
EmitInv ==
    /\ phase = "emit" =>
          /\ \A i \in DOMAIN lookup : lookup[i] \in Found => i \in todo \/ all[i] \in ToSet(sent)
          /\ \A i \in todo : \A v \in ToSet(sent) : v < all[i]
    /\ FindingsAreWhole

(* A finding that is the least still to be sent is sent.                   *)
LEMMA EmitOne ==
  ASSUME CollectTypeOK, OutcomeInv, LookInv, EmitInv, EmitFinding
  PROVE  EmitInv'
  <1>1. PICK i \in todo : /\ \A j \in todo : all[i] <= all[j]
                          /\ sent' = Append(sent, all[i]) /\ todo' = todo \ {i}
    BY DEF EmitFinding
  <1>2. /\ phase = "emit" /\ returned = "none"
        /\ UNCHANGED <<phase, returned, lookup, all>>
    BY DEF EmitFinding, OutcomeInv, walk
  <1>3. /\ Items \subseteq Nat /\ all \in Seq(Items) /\ sent \in Seq(Items)
        /\ todo \subseteq Kept(all) /\ \A j \in todo : all[j] \in Items
    <2>1. todo \subseteq DOMAIN lookup /\ DOMAIN lookup = Kept(all) /\ all \in Seq(Items)
      BY <1>2 DEF CollectTypeOK, LookInv, Listed
    <2>2. \A j \in Kept(all) : all[j] \in Items
      BY <2>1, KeptIsTyped, ElementOfSeq
    <2> QED
      BY <2>1, <2>2, TheItems DEF CollectTypeOK
  <1>4. /\ Len(sent) \in Nat /\ DOMAIN sent = 1..Len(sent)
        /\ DOMAIN sent' = 1..(Len(sent) + 1) /\ sent'[Len(sent) + 1] = all[i]
        /\ \A k \in 1..Len(sent) : sent'[k] = sent[k]
        /\ ToSet(sent') = ToSet(sent) \cup {all[i]}
    <2>1. all[i] \in Items /\ sent' = Append(sent, all[i])
      BY <1>1, <1>3
    <2>2. sent' \in Seq(Items) /\ Len(sent') = Len(sent) + 1
          /\ sent'[Len(sent) + 1] = all[i]
          /\ \A k \in 1..Len(sent) : sent'[k] = sent[k]
      BY <1>3, <2>1, AppendProperties
    <2>3. ToSet(sent') = ToSet(sent) \cup {all[i]}
      BY <1>3, <2>1, ToSetOfAppend
    <2> QED
      BY <1>3, <2>2, <2>3, LenProperties
  <1>5. \A j \in DOMAIN lookup' : lookup'[j] \in Found => j \in todo' \/ all'[j] \in ToSet(sent')
    BY <1>1, <1>2, <1>4 DEF EmitInv
  <1>6. \A v \in ToSet(sent) : v < all[i]
    BY <1>1, <1>2 DEF EmitInv
  <1>7. ASSUME NEW j \in todo', NEW v \in ToSet(sent') PROVE v < all[j]
    <2>1. j \in todo /\ j # i
      BY <1>1
    <2>2. all[i] < all[j]
      <3>1. all[i] # all[j] /\ all[i] <= all[j] /\ all[i] \in Nat /\ all[j] \in Nat
        BY <1>1, <1>3, <2>1, KeptAreDistinct
      <3> QED
        BY <3>1
    <2>3. v \in ToSet(sent) => v < all[j]
      BY <1>2, <2>1 DEF EmitInv
    <2> QED
      BY <1>4, <2>2, <2>3
  <1>8. \A k, m \in DOMAIN sent' : k < m => sent'[k] < sent'[m]
    <2> SUFFICES ASSUME NEW k \in DOMAIN sent', NEW m \in DOMAIN sent', k < m
                 PROVE  sent'[k] < sent'[m]
      OBVIOUS
    <2>1. k \in DOMAIN sent /\ sent'[k] = sent[k]
      BY <1>4
    <2>2. CASE m \in DOMAIN sent
      <3>1. sent[k] < sent[m] /\ sent'[m] = sent[m]
        BY <1>4, <2>1, <2>2 DEF EmitInv, FindingsAreWhole, AllSent
      <3> QED
        BY <2>1, <3>1
    <2>3. CASE m = Len(sent) + 1
      <3>1. sent[k] \in ToSet(sent)
        BY <2>1 DEF ToSet
      <3> QED
        BY <1>4, <1>6, <2>1, <2>3, <3>1
    <2> QED
      BY <1>4, <2>2, <2>3
  <1> QED
    BY <1>2, <1>5, <1>7, <1>8 DEF EmitInv, FindingsAreWhole, AllSent

(* When nothing is left to be sent, what was listed and not sent has no    *)
(* name.                                                                   *)
LEMMA EmitAll ==
  ASSUME CollectTypeOK, LookInv, PoolInv, EmitInv, phase = "emit", todo = {},
         NEW v \in ToSet(all) \ ToSet(sent)
  PROVE  \E i \in DOMAIN lookup :
             /\ all[i] = v
             /\ lookup[i] = "blankDetail" \/ (v \in Nameless /\ lookup[i] = "blankItem")
  <1>1. PICK i \in Kept(all) : all[i] = v
    BY KeptCovers DEF CollectTypeOK
  <1>2. i \in DOMAIN lookup
    BY <1>1 DEF LookInv, Listed
  <1>3. lookup[i] \notin Found
    BY <1>1, <1>2 DEF EmitInv
  <1>4. lookup[i] # "none" /\ lookup[i] # "running"
    BY <1>2 DEF LookInv, PoolInv, Workers, Lookups
  <1>5. lookup[i] \in {"none", "running", "blankItem", "blankDetail"} \cup Found
    BY <1>2 DEF CollectTypeOK
  <1>6. lookup[i] = "blankItem" => v \in Nameless
    BY <1>1, <1>2 DEF LookInv, Lookups
  <1> QED
    BY <1>1, <1>2, <1>3, <1>4, <1>5, <1>6

LEMMA EmitStep == TypeInv /\ TypeInv' /\ OutcomeInv /\ LookInv /\ PoolInv /\ EmitInv /\ [CollectNext]_collectVars => EmitInv'
  <1> SUFFICES ASSUME TypeInv, TypeInv', OutcomeInv, LookInv, PoolInv, EmitInv, [CollectNext]_collectVars PROVE EmitInv'
    OBVIOUS
  <1> USE DEF Finish, walk
  (* Before the first finding is sent there is nothing to tell but of a    *)
  (* success.                                                              *)
  <1>1. ASSUME phase' \notin {"emit", "ended"}, returned' = "none" PROVE EmitInv'
    <2>1. sent' = <<>>
      BY <1>1 DEF TypeInv
    <2> QED
      BY <1>1, <2>1 DEF EmitInv, FindingsAreWhole, AllSent
  <1>2. ASSUME phase' = "ended", returned' # "ok", UNCHANGED sent PROVE EmitInv'
    BY <1>2 DEF EmitInv, FindingsAreWhole, AllSent
  <1>3. ASSUME UNCHANGED <<all, lookup, todo, sent, phase, returned>> PROVE EmitInv'
    BY <1>3 DEF EmitInv, FindingsAreWhole, AllSent
  <1>4. phase # "ended" => returned = "none"
    BY DEF OutcomeInv
  <1>5. ASSUME NEW page \in Served, FetchPage(page) PROVE EmitInv'
    <2>1. sent = <<>> /\ sent' = sent
      BY <1>5, APage DEF TypeInv
    <2>2. CASE phase' = "ended" /\ Kept(all') = {}
      <3>1. ToSet(all') = {}
        BY <2>2, KeptCovers DEF TypeInv, CollectTypeOK
      <3> QED
        BY <2>1, <2>2, <3>1 DEF EmitInv, FindingsAreWhole, AllSent
    <2>3. CASE ~(phase' = "ended" /\ Kept(all') = {})
      <3>1. \/ phase' = "ended" /\ returned' # "ok"
            \/ phase' \in {"list", "look"} /\ returned' = "none"
        BY <1>4, <1>5, <2>3, APage
      <3> QED
        BY <1>1, <1>2, <2>1, <3>1
    <2> QED
      BY <2>2, <2>3
  <1>6. CASE FetchFails \/ JoinAndLeave
    BY <1>2, <1>6 DEF FetchFails, JoinAndLeave
  <1>7. CASE Look \/ StopDispatching
    BY <1>1, <1>4, <1>7 DEF Look, StopDispatching, Leave
  <1>8. CASE Dispatch
    BY <1>1, <1>4, <1>8 DEF Dispatch
  <1>9. CASE LookupEnds
    <2>1. phase \notin {"emit", "ended"} /\ UNCHANGED <<phase, returned>>
      BY <1>9 DEF LookupEnds, PoolInv
    <2> QED
      BY <1>1, <1>4, <2>1
  <1>10. CASE Join
    <2>1. phase' = "emit" /\ sent = <<>> /\ sent' = sent /\ UNCHANGED <<lookup, all, returned>>
          /\ todo' = {i \in DOMAIN lookup : lookup[i] \in Found} /\ returned = "none"
      BY <1>4, <1>10 DEF Join, TypeInv
    <2>2. ToSet(sent') = {}
      BY <2>1 DEF ToSet
    <2> QED
      BY <2>1, <2>2 DEF EmitInv, FindingsAreWhole, AllSent
  <1>11. CASE EmitFinding
    BY <1>11, EmitOne DEF TypeInv
  <1>12. CASE EmitEnds
    <2>1. phase = "emit" /\ phase' = "ended" /\ UNCHANGED <<lookup, all, sent>>
          /\ (todo = {} \/ returned' # "ok")
      BY <1>12 DEF EmitEnds
    <2>2. CASE todo = {}
      <3>1. \A v \in ToSet(all) \ ToSet(sent) :
               \E i \in DOMAIN lookup :
                   /\ all[i] = v
                   /\ lookup[i] = "blankDetail" \/ (v \in Nameless /\ lookup[i] = "blankItem")
        BY <2>1, <2>2, EmitAll DEF TypeInv
      <3> QED
        BY <2>1, <3>1 DEF EmitInv, FindingsAreWhole, AllSent
    <2> QED
      BY <1>2, <2>1, <2>2
  <1>13. CASE EndContext \/ UNCHANGED collectVars
    BY <1>3, <1>13 DEF EndContext, collectVars
  <1> QED
    BY <1>5, <1>6, <1>7, <1>8, <1>9, <1>10, <1>11, <1>12, <1>13 DEF CollectNext, Fetch, Step, Ended

-----------------------------------------------------------------------------
(* How long the walk can be: every page but the first spends a cursor.     *)

ShortInv ==
    /\ Len(visits) <= pages + 1
    /\ phase = "list" => Len(visits) <= pages

LEMMA ShortStep == CollectTypeOK /\ ShortInv /\ [CollectNext]_collectVars => ShortInv'
  <1> SUFFICES ASSUME CollectTypeOK, ShortInv, [CollectNext]_collectVars PROVE ShortInv'
    OBVIOUS
  <1>1. pages \in Nat /\ Len(visits) \in Nat
    BY LenProperties DEF CollectTypeOK
  <1>2. ASSUME NEW page \in Served, FetchPage(page) PROVE ShortInv'
    <2>1. Len(visits') = Len(visits) + 1 /\ phase = "list"
      <3>1. visits \in Seq(1..Len(listing)) /\ page \in 1..Len(listing) /\ visits' = Append(visits, page)
        BY <1>2, PageIsThere, APage DEF CollectTypeOK
      <3> QED
        BY <1>2, <3>1, APage, AppendProperties
    <2>2. pages' = pages + 1 \/ (pages' = pages /\ phase' # "list")
      BY <1>2, APage
    <2> QED
      BY <1>1, <2>1, <2>2 DEF ShortInv
  <1>3. CASE ~AnyPage
    <2>1. UNCHANGED <<pages, visits>> /\ (phase' = "list" => phase = "list")
      BY <1>3, TheSteps DEF walk
    <2> QED
      BY <2>1 DEF ShortInv
  <1> QED
    BY <1>2, <1>3 DEF AnyPage

-----------------------------------------------------------------------------
(* The whole invariant.                                                    *)

CollectInv ==
    /\ TypeInv /\ WalkInv /\ OutcomeInv /\ FetchInv /\ DocInv
    /\ LookInv /\ PoolInv /\ EmitInv /\ ShortInv

LEMMA InitInv == CollectInit => CollectInv
  <1> SUFFICES ASSUME CollectInit PROVE CollectInv
    OBVIOUS
  <1>1. /\ listing \in Listings /\ Len(listing) \in Nat /\ MaxPages \in Nat /\ DetailWorkers \in Nat
        /\ cursor = NoCursor /\ seen = {} /\ pages = 0 /\ all = <<>> /\ visits = <<>>
        /\ phase = "list" /\ lookup = <<>> /\ todo = {} /\ sent = <<>> /\ returned = "none"
        /\ {reported, documented, ctxDone} \subseteq BOOLEAN
    BY TheList, CollectAssumption DEF CollectInit
  <1>2. /\ DOMAIN visits = {} /\ ToSet(visits) = {} /\ ToSet(all) = {} /\ Len(visits) = 0 /\ Len(all) = 0
        /\ DOMAIN lookup = {} /\ \A how : Lookups(how) = {}
    BY <1>1 DEF ToSet, Lookups
  <1>3. TypeInv
    <2>1. all \in Seq(Items) /\ sent \in Seq(Items) /\ visits \in Seq(1..Len(listing))
      BY <1>1
    <2>2. lookup \in [DOMAIN lookup -> {"none", "running", "blankItem", "blankDetail"} \cup Found]
      BY <1>1, <1>2
    <2> QED
      BY <1>1, <1>2, <2>1, <2>2 DEF TypeInv, CollectTypeOK, NoCursor
  <1>4. WalkInv
    BY <1>1, <1>2 DEF WalkInv
  <1>5. OutcomeInv
    BY <1>1 DEF OutcomeInv
  <1>6. ~Listed
    BY <1>1 DEF Listed
  <1>7. FetchInv
    <2>1. Fetched = {} /\ Cardinality(Fetched) = 0
      BY <1>2, FS_EmptySet DEF Fetched
    <2>2. ~Twice(1)
      BY <1>2 DEF Twice
    <2> QED
      BY <1>2, <1>6, <2>1, <2>2 DEF FetchInv
  <1>8. DocInv
    <2>1. NoPageIsSkipped
      BY <1>2, <1>6 DEF NoPageIsSkipped
    <2>2. Page = 1 /\ 1..(Page - 1) = {}
      BY <1>1 DEF Page
    <2> QED
      BY <1>1, <2>1, <2>2 DEF DocInv
  <1>9. LookInv
    BY <1>1, <1>2, <1>6 DEF LookInv
  <1>10. PoolInv
    <2>1. Workers = {}
      BY <1>2 DEF Workers, Lookups
    <2> QED
      BY <2>1, FS_EmptySet, CollectAssumption DEF PoolInv
  <1>11. EmitInv
    BY <1>1 DEF EmitInv, FindingsAreWhole, AllSent
  <1>12. ShortInv
    BY <1>1, <1>2 DEF ShortInv
  <1> QED
    BY <1>3, <1>4, <1>5, <1>7, <1>8, <1>9, <1>10, <1>11, <1>12 DEF CollectInv

(* The invariant of the collection, of which the theorems below are the    *)
(* parts a caller can rely on.                                             *)
THEOREM Invariance == CollectSpec => []CollectInv
  <1>1. CollectInv /\ [CollectNext]_collectVars => CollectInv'
    <2> SUFFICES ASSUME CollectInv, [CollectNext]_collectVars PROVE CollectInv'
      OBVIOUS
    <2>1. TypeInv' /\ CollectTypeOK
      BY TypeStep DEF CollectInv, TypeInv
    <2>2. WalkInv' /\ OutcomeInv' /\ FetchInv'
      BY <2>1, WalkStep, OutcomeStep, FetchStep DEF CollectInv
    <2>3. DocInv'
      BY <2>1, <2>2, DocStep DEF CollectInv
    <2>4. LookInv' /\ PoolInv' /\ ShortInv'
      BY <2>1, LookStep, PoolStep, ShortStep DEF CollectInv
    <2>5. EmitInv'
      BY <2>1, EmitStep DEF CollectInv
    <2> QED
      BY <2>1, <2>2, <2>3, <2>4, <2>5 DEF CollectInv
  <1> QED
    BY <1>1, InitInv, PTL DEF CollectSpec

(* Every variable keeps its type: documented cursors that are followed are *)
(* those of pages the list has, and all holds items of the list only.      *)
THEOREM CollectTypes == CollectSpec => []CollectTypeOK
  <1>1. CollectInv => CollectTypeOK
    BY DEF CollectInv, TypeInv
  <1> QED
    BY <1>1, Invariance, PTL

(* paginateAll takes a list for whole while the server reports its count:  *)
(* then every item was fetched, or some page came twice.  That can be any  *)
(* page of a server whose cursors are not those of the API; with those it  *)
(* is the first, and at most as much is missing as it holds.               *)
THEOREM TruncationHidesLittle == CollectSpec => []TruncationIsLoud
  <1>1. CollectInv => TruncationIsLoud
    BY LittleIsMissing DEF CollectInv, TypeInv
  <1> QED
    BY <1>1, Invariance, PTL

(* paginateAll with the cursors of the API: the pages come one after the   *)
(* other, and the walk ends behind the last one, or at maxPages.           *)
THEOREM PagesComeInOrder == CollectSpec => []NoPageIsSkipped
  <1>1. CollectInv => NoPageIsSkipped
    BY DEF CollectInv, DocInv, NoPageIsSkipped
  <1> QED
    BY <1>1, Invariance, PTL

(* Whatever cursors the server sends, paginateAll asks for at most         *)
(* maxPages pages after the first (cursorWalker.next).                     *)
THEOREM WalkIsShort == CollectSpec => [](Len(visits) <= MaxPages + 1)
  <1>1. CollectInv => Len(visits) <= MaxPages + 1
    <2> SUFFICES ASSUME CollectInv PROVE Len(visits) <= MaxPages + 1
      OBVIOUS
    <2>1. pages \in 0..MaxPages /\ MaxPages \in Nat /\ Len(visits) \in Nat /\ Len(visits) <= pages + 1
      BY CollectAssumption, LenProperties DEF CollectInv, TypeInv, CollectTypeOK, ShortInv
    <2> QED
      BY <2>1
  <1> QED
    BY <1>1, Invariance, PTL

(* collectFindings sends a finding of every vulnerability listed, but for  *)
(* those without a name, each once and in the order of the sort, though    *)
(* lookups fail and end in any order.                                      *)
THEOREM FindingsAreComplete == CollectSpec => []FindingsAreWhole
  <1>1. CollectInv => FindingsAreWhole
    BY DEF CollectInv, EmitInv
  <1> QED
    BY <1>1, Invariance, PTL

(* At most detailWorkers lookups run at once (findings.go:229-251).        *)
THEOREM PoolIsBounded == CollectSpec => [](Cardinality(Workers) <= DetailWorkers)
  <1>1. CollectInv => Cardinality(Workers) <= DetailWorkers
    BY DEF CollectInv, PoolInv
  <1> QED
    BY <1>1, Invariance, PTL

(* collectFindings joins its workers on every path, also when it is        *)
(* cancelled between two dispatches.                                       *)
THEOREM WorkersAreJoined == CollectSpec => []NoWorkerOutlives
  <1>1. CollectInv => NoWorkerOutlives
    BY DEF CollectInv, PoolInv, NoWorkerOutlives
  <1> QED
    BY <1>1, Invariance, PTL
-----------------------------------------------------------------------------
(* The two fit together: collecting is a step of the job of AcunetixScan.  *)

(* The steps of that job that collecting may take.                         *)
ForItsJob == Job!ListVulnerabilities("job") \/ Job!EmitFindings("job") \/ Job!Cancel("job")

(* Only a context that has ended makes collectFindings leave its loop.     *)
LeaveInv == phase = "leaving" => ctxDone

LEMMA LeaveStep == LeaveInv /\ [CollectNext]_collectVars => LeaveInv'
  <1> SUFFICES ASSUME LeaveInv, [CollectNext]_collectVars PROVE LeaveInv'
    OBVIOUS
  <1>1. ASSUME NEW page \in Served, FetchPage(page) PROVE LeaveInv'
    BY <1>1, APage DEF LeaveInv
  <1>2. CASE EndContext
    BY <1>2 DEF LeaveInv, EndContext
  <1> QED
    BY <1>1, <1>2 DEF LeaveInv, CollectNext, Fetch, Step, FetchFails, Finish, Look, Dispatch, StopDispatching,
                      LookupEnds, Join, JoinAndLeave, EmitFinding, EmitEnds, Ended, collectVars, Leave

LEMMA StartsForItsJob == CollectInit => JobPhase = "collect"
  BY DEF CollectInit, JobPhase

(* The steps that the job does not see: those on the way.                  *)
LEMMA Unseen ==
  ASSUME returned = "none", UNCHANGED <<returned, ctxDone>>,
         phase' = phase \/ (phase \notin {"list", "ended"} /\ phase' \notin {"list", "ended"})
  PROVE  UNCHANGED Job!vars
  <1>1. JobPhase' = JobPhase
    BY DEF JobPhase
  <1>2. (returned = "ok" /\ AllSent) = FALSE /\ (returned = "ok" /\ AllSent)' = FALSE
    OBVIOUS
  <1> QED
    BY <1>1, <1>2 DEF Job!vars, Job!server, Job!job, OfJob

(* Nothing happens.                                                        *)
LEMMA Idle == UNCHANGED collectVars => UNCHANGED Job!vars
  <1> SUFFICES ASSUME UNCHANGED collectVars PROVE UNCHANGED Job!vars
    OBVIOUS
  <1>1. AllSent' = AllSent /\ JobPhase' = JobPhase /\ returned' = returned /\ ctxDone' = ctxDone
    BY DEF collectVars, served, walk, AllSent, JobPhase
  <1> QED
    BY <1>1 DEF Job!vars, Job!server, Job!job, OfJob

(* The list could not be fetched, or is cut short.                         *)
LEMMA ListingFails ==
  ASSUME phase = "list", returned = "none", phase' = "ended", returned' = "error", UNCHANGED ctxDone
  PROVE  Job!ListVulnerabilities("job")
  <1>1. JobPhase = "collect" /\ JobPhase' = "ended"
    BY DEF JobPhase
  <1> QED
    BY <1>1 DEF Job!ListVulnerabilities, Job!ReadScan, Job!RequestFails, Job!Return, Job!Go, Job!server, OfJob

(* There is nothing in it.                                                 *)
LEMMA NothingToList ==
  ASSUME phase = "list", returned = "none", phase' = "ended", returned' = "ok", UNCHANGED ctxDone,
         AllSent'
  PROVE  Job!ListVulnerabilities("job")
  <1>1. JobPhase = "collect" /\ JobPhase' = "cleanup"
    BY DEF JobPhase
  <1> QED
    BY <1>1 DEF Job!ListVulnerabilities, Job!NothingFound, Job!Go, Job!server, OfJob

(* There is something in it.                                               *)
LEMMA SomethingToList ==
  ASSUME phase = "list", returned = "none", phase' = "look", UNCHANGED <<returned, ctxDone>>
  PROVE  Job!ListVulnerabilities("job")
  <1>1. JobPhase = "collect" /\ JobPhase' = "emit"
    BY DEF JobPhase
  <1> QED
    BY <1>1 DEF Job!ListVulnerabilities, Job!ReadScan, Job!Go, Job!server, OfJob

(* All was sent, or the context has ended.                                 *)
LEMMA SendingEnds ==
  ASSUME phase \notin {"list", "ended"}, returned = "none", phase' = "ended", UNCHANGED ctxDone,
         (returned' = "ok" /\ AllSent') \/ (returned' = "canceled" /\ ctxDone)
  PROVE  Job!EmitFindings("job")
  <1>1. JobPhase = "emit" /\ JobPhase' = IF returned' = "ok" THEN "cleanup" ELSE "ended"
    BY DEF JobPhase
  <1>2. CASE returned' = "ok"
    BY <1>1, <1>2 DEF Job!EmitFindings, Job!Go, Job!server, OfJob
  <1>3. CASE returned' = "canceled" /\ ctxDone
    BY <1>1, <1>3 DEF Job!EmitFindings, Job!AfterEmit, Job!Return, Job!Go, Job!server, OfJob
  <1> QED
    BY <1>2, <1>3

LEMMA ContextEnds ==
  ASSUME EndContext, returned = "none", ctxDone \in BOOLEAN
  PROVE  Job!Cancel("job")
  <1>1. /\ phase # "ended" /\ ctxDone = FALSE /\ ctxDone' = TRUE
        /\ UNCHANGED <<phase, returned>>
    BY DEF EndContext
  <1>2. JobPhase \in {"collect", "emit"} /\ JobPhase' = JobPhase
    BY <1>1 DEF JobPhase
  <1> QED
    BY <1>1, <1>2 DEF Job!Cancel, Job!Running, Job!server, Job!job, OfJob

(* Every step is one of the job's, or one the job does not see.            *)
LEMMA StepsForItsJob ==
  CollectInv /\ CollectInv' /\ LeaveInv /\ [CollectNext]_collectVars => [ForItsJob]_(Job!vars)
  <1> SUFFICES ASSUME CollectInv, CollectInv', LeaveInv, [CollectNext]_collectVars
               PROVE  ForItsJob \/ UNCHANGED Job!vars
    OBVIOUS
  <1>1. /\ phase # "ended" => returned = "none"
        /\ returned' = "ok" => AllSent'
        /\ Workers # {} => phase # "ended"
    BY DEF CollectInv, TypeInv, OutcomeInv, EmitInv, FindingsAreWhole, PoolInv
  <1>2. ASSUME NEW page \in Served, FetchPage(page) PROVE ForItsJob \/ UNCHANGED Job!vars
    <2>1. phase = "list" /\ UNCHANGED ctxDone
      BY <1>2, APage
    <2>2. \/ UNCHANGED <<phase, returned>>
          \/ phase' = "ended" /\ returned' \in {"error", "ok"}
          \/ phase' = "look" /\ UNCHANGED returned
      BY <1>2, APage
    <2> QED
      BY <1>1, <2>1, <2>2, Unseen, ListingFails, NothingToList, SomethingToList DEF ForItsJob
  <1>3. CASE FetchFails
    BY <1>1, <1>3, ListingFails DEF FetchFails, Finish, ForItsJob
  <1>4. CASE Look \/ Dispatch \/ StopDispatching \/ LookupEnds \/ Join \/ EmitFinding
    <2>1. phase # "ended" /\ UNCHANGED <<returned, ctxDone>>
      BY <1>1, <1>4 DEF Look, Dispatch, StopDispatching, LookupEnds, Join, EmitFinding, Leave
    <2>2. phase' = phase \/ (phase \notin {"list", "ended"} /\ phase' \notin {"list", "ended"})
      BY <1>4 DEF Look, Dispatch, StopDispatching, LookupEnds, Join, EmitFinding, Leave
    <2> QED
      BY <1>1, <2>1, <2>2, Unseen
  <1>5. CASE JoinAndLeave
    BY <1>1, <1>5, SendingEnds DEF JoinAndLeave, Finish, LeaveInv, ForItsJob
  <1>6. CASE EmitEnds
    BY <1>1, <1>6, SendingEnds DEF EmitEnds, Finish, ForItsJob
  <1>7. CASE EndContext
    <2>1. ctxDone \in BOOLEAN /\ phase # "ended"
      BY <1>7 DEF CollectInv, TypeInv, CollectTypeOK, EndContext
    <2> QED
      BY <1>1, <1>7, <2>1, ContextEnds DEF ForItsJob
  <1>8. CASE UNCHANGED collectVars
    BY <1>8, Idle
  <1> QED
    BY <1>2, <1>3, <1>4, <1>5, <1>6, <1>7, <1>8 DEF CollectNext, Fetch, Step, Ended

(* collectFindings is for its job what AcunetixScan makes of it: it sends  *)
(* everything before the clean-up, ends with an error for a list that      *)
(* cannot be had whole, and returns early only when the context has ended  *)
(* (findings.go:210-303, adapter.go:105-107).                              *)
THEOREM ImplementsTheJob == CollectSpec => CollectsForItsJob
  <1>1. CollectInit => JobPhase = "collect" /\ LeaveInv
    BY StartsForItsJob DEF CollectInit, LeaveInv
  <1>2. CollectInv /\ CollectInv' /\ LeaveInv /\ [CollectNext]_collectVars
            => LeaveInv' /\ [Job!ListVulnerabilities("job") \/ Job!EmitFindings("job") \/ Job!Cancel("job")]_(Job!vars)
    BY LeaveStep, StepsForItsJob DEF ForItsJob
  <1> QED
    BY <1>1, <1>2, Invariance, PTL DEF CollectSpec, CollectsForItsJob
=============================================================================
