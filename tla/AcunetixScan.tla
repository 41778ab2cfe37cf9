---------------------------- MODULE AcunetixScan ----------------------------
(***************************************************************************)
(* vulnerabilities/acunetix: jobs of several containers, all for the same  *)
(* address, against one Acunetix server.  Each job finds or creates a      *)
(* target, schedules a scan on it, polls until it is complete, collects    *)
(* its findings and cleans up.  Every request may fail before or after it  *)
(* took effect, and every job may be cancelled.                            *)
(*                                                                         *)
(* A job creates one target and one scan at most, and both have its name   *)
(* as id.  The server is external; so is its owner, whose target for the   *)
(* address, if there is one, and whose scan of it have the id Owner.       *)
(***************************************************************************)
EXTENDS Naturals, FiniteSets

CONSTANTS Jobs, Owner

None == "none"

ASSUME JobsAssumption == Owner \notin Jobs /\ None \notin Jobs /\ Owner # None

VARIABLES
    \* the server
    targets,   \* ids of the targets with the jobs' address
    scans,     \* ids of the scans of these targets
    status,    \* of each job's scan: "running", "completed", "failed"
    \* the jobs
    pc, target, created,
    emitted,   \* all findings of the job's scan were sent on out
    cancelled, \* the job's context ended
    outcome,   \* what Execute returned
    \* histories
    owned,     \* the owner had a target for the address
    troubled   \* a request or a scan failed, or a job was cancelled

server == <<targets, scans, status>>
job == <<pc, target, created, emitted, outcome>>
vars == <<server, job, cancelled, owned, troubled>>

Steps == {"find", "create", "schedule", "poll", "resolve", "collect", "emit",
          "cleanup", "ended"}

Go(j, step) == pc' = [pc EXCEPT ![j] = step]
Return(j, how) == Go(j, "ended") /\ outcome' = [outcome EXCEPT ![j] = how]
Running(j) == pc[j] # "ended"
(* The scans that go with a target when the server deletes it.             *)
ScansOf(t) == {j \in scans \cap Jobs : target[j] = t} \cup (scans \cap {Owner} \cap {t})

-----------------------------------------------------------------------------
Init ==
    /\ owned \in BOOLEAN
    /\ targets = IF owned THEN {Owner} ELSE {}
    /\ scans = targets
    /\ status = [j \in Jobs |-> "running"]
    /\ pc = [j \in Jobs |-> "find"]
    /\ target = [j \in Jobs |-> None]
    /\ created = [j \in Jobs |-> FALSE]
    /\ emitted = [j \in Jobs |-> FALSE]
    /\ cancelled = [j \in Jobs |-> FALSE]
    /\ outcome = [j \in Jobs |-> None]
    /\ troubled = FALSE

Cancel(j) ==
    /\ Running(j) /\ ~cancelled[j]
    /\ cancelled' = [cancelled EXCEPT ![j] = TRUE]
    /\ troubled' = TRUE
    /\ UNCHANGED <<server, job, owned>>

(* The server finishes the scan of a job.                                  *)
ScanStops(j) ==
    /\ j \in scans /\ status[j] = "running"
    /\ \E s \in {"completed", "failed"} :
           /\ status' = [status EXCEPT ![j] = s]
           /\ troubled' = (troubled \/ s = "failed")
    /\ UNCHANGED <<targets, scans, job, cancelled, owned>>

(* A request fails: refused, timed out or cut short by the job's context.  *)
(* Whether the server acted on it is up to the caller of this operator.    *)
RequestFails(j) ==
    /\ Return(j, "error")
    /\ troubled' = TRUE
    /\ UNCHANGED <<target, created, emitted, cancelled, owned>>

-----------------------------------------------------------------------------
(* findTargetByAddress and createTarget.                                   *)

FindTarget(j) ==
    /\ pc[j] = "find"
    /\ UNCHANGED server
    /\ \/ /\ IF targets = {}
             THEN Go(j, "create") /\ UNCHANGED target
             ELSE /\ Go(j, "schedule")
                  /\ \E t \in targets : target' = [target EXCEPT ![j] = t]
          /\ UNCHANGED <<created, emitted, outcome, cancelled, owned, troubled>>
       \/ RequestFails(j)

CreateTarget(j) ==
    /\ pc[j] = "create"
    /\ UNCHANGED <<scans, status>>
    /\ \/ /\ targets' = targets \cup {j}
          /\ target' = [target EXCEPT ![j] = j]
          /\ created' = [created EXCEPT ![j] = TRUE]
          /\ Go(j, "schedule")
          /\ UNCHANGED <<emitted, outcome, cancelled, owned, troubled>>
       \/ targets' \in {targets, targets \cup {j}} /\ RequestFails(j)

(* createScan.  A target that is gone by now is a 404.                     *)
CreateScan(j) ==
    /\ pc[j] = "schedule"
    /\ UNCHANGED <<targets, status>>
    /\ \/ /\ target[j] \in targets
          /\ scans' = scans \cup {j}
          /\ Go(j, "poll")
          /\ UNCHANGED <<target, created, emitted, outcome, cancelled, owned, troubled>>
       \/ target[j] \in targets /\ scans' \in {scans, scans \cup {j}} /\ RequestFails(j)
       \/ /\ target[j] \notin targets
          /\ Return(j, "error")
          /\ UNCHANGED <<scans, target, created, emitted, cancelled, owned, troubled>>

(* One tick of the poll loop: a scan that still runs is polled again.      *)
Poll(j) ==
    /\ pc[j] = "poll"
    /\ UNCHANGED server
    /\ \/ /\ cancelled[j]
          /\ Return(j, "canceled")
          /\ UNCHANGED <<target, created, emitted, cancelled, owned, troubled>>
       \/ RequestFails(j)
       \/ /\ j \notin scans \/ status[j] = "failed"
          /\ Return(j, "error")
          /\ UNCHANGED <<target, created, emitted, cancelled, owned, troubled>>
       \/ /\ j \in scans /\ status[j] = "completed"
          /\ Go(j, "resolve")
          /\ UNCHANGED <<target, created, emitted, outcome, cancelled, owned, troubled>>

(* The list of the scan's results, then the list of its vulnerabilities: a *)
(* scan that is gone is a 404, an empty result list an error.              *)
ReadScan(j, from, to) ==
    /\ pc[j] = from
    /\ UNCHANGED server
    /\ \/ /\ j \in scans
          /\ Go(j, to)
          /\ UNCHANGED <<target, created, emitted, outcome, cancelled, owned, troubled>>
       \/ RequestFails(j)
       \/ /\ j \notin scans
          /\ Return(j, "error")
          /\ UNCHANGED <<target, created, emitted, cancelled, owned, troubled>>
ResolveResult(j) == ReadScan(j, "resolve", "collect")

(* A list without vulnerabilities leaves nothing to send.                  *)
NothingFound(j) ==
    /\ pc[j] = "collect" /\ j \in scans
    /\ emitted' = [emitted EXCEPT ![j] = TRUE]
    /\ Go(j, "cleanup")
    /\ UNCHANGED <<server, target, created, outcome, cancelled, owned, troubled>>
ListVulnerabilities(j) == ReadScan(j, "collect", "emit") \/ NothingFound(j)

(* The details of every item are fetched, falling back to the item itself, *)
(* and the findings are sent on out unless the context ends first.         *)
AfterEmit_CleansUpOnCancel(j) ==
    /\ cancelled[j]
    /\ Go(j, "cleanup") /\ UNCHANGED outcome
AfterEmit(j) ==
    /\ cancelled[j]
    /\ Return(j, "canceled")

EmitFindings(j) ==
    /\ pc[j] = "emit"
    /\ \/ /\ emitted' = [emitted EXCEPT ![j] = TRUE]
          /\ Go(j, "cleanup") /\ UNCHANGED outcome
       \/ AfterEmit(j) /\ UNCHANGED emitted
    /\ UNCHANGED <<server, target, created, cancelled, owned, troubled>>

(* What the job deletes in the end: the target it created, and with it all *)
(* scans of that target, or else its own scan.                             *)
Doomed_AlwaysTarget(j) == [t |-> {target[j]}, s |-> ScansOf(target[j])]
Doomed_AlwaysScan(j) == [t |-> {}, s |-> {j}]
Doomed(j) == IF created[j] THEN [t |-> {j}, s |-> ScansOf(j)]
                           ELSE [t |-> {}, s |-> {j}]

(* Best effort: a delete that fails is logged, and the job has succeeded.  *)
CleanUp_ReportsFailure(j) ==
    /\ pc[j] = "cleanup"
    /\ targets' = targets \ Doomed(j).t
    /\ scans' = scans \ Doomed(j).s
    /\ \E how \in {"ok", "error"} : Return(j, how)
    /\ UNCHANGED <<troubled, status, target, created, emitted, cancelled, owned>>
CleanUp(j) ==
    /\ pc[j] = "cleanup"
    /\ \/ /\ targets' = targets \ Doomed(j).t
          /\ scans' = scans \ Doomed(j).s
          /\ UNCHANGED troubled
       \/ /\ UNCHANGED <<targets, scans>>
          /\ troubled' = TRUE
    /\ Return(j, "ok")
    /\ UNCHANGED <<status, target, created, emitted, cancelled, owned>>

-----------------------------------------------------------------------------
JobStep(j) == \/ FindTarget(j) \/ CreateTarget(j) \/ CreateScan(j) \/ Poll(j)
              \/ ResolveResult(j) \/ ListVulnerabilities(j) \/ EmitFindings(j)
              \/ CleanUp(j)
AllEnded == (\A j \in Jobs : ~Running(j)) /\ UNCHANGED vars

Next == \/ \E j \in Jobs : JobStep(j) \/ Cancel(j) \/ ScanStops(j)
        \/ AllEnded

Spec == Init /\ [][Next]_vars

-----------------------------------------------------------------------------
(* Properties.                                                             *)

TypeOK ==
    /\ targets \subseteq Jobs \cup {Owner} /\ scans \subseteq Jobs \cup {Owner}
    /\ status \in [Jobs -> {"running", "completed", "failed"}]
    /\ pc \in [Jobs -> Steps]
    /\ target \in [Jobs -> Jobs \cup {Owner, None}]
    /\ created \in [Jobs -> BOOLEAN] /\ emitted \in [Jobs -> BOOLEAN]
    /\ cancelled \in [Jobs -> BOOLEAN]
    /\ outcome \in [Jobs -> {None, "ok", "error", "canceled"}]
    /\ owned \in BOOLEAN /\ troubled \in BOOLEAN

(* A target that was on the server before the connectors is never deleted, *)
(* and neither are the scans its owner made: the jobs reuse the one and    *)
(* delete no scans but their own and those of the targets they created.    *)
OwnerKeepsAll == owned => Owner \in targets \cap scans

(* Retention on failure: what a job has created on the server is there     *)
(* after it failed or was cancelled.  Only the job that created the target *)
(* can have taken its scan away.                                           *)
FailureKeepsData ==
    \A j \in Jobs : outcome[j] \in {"error", "canceled"} =>
        /\ created[j] => j \in targets
        /\ status[j] # "running" /\ target[j] \in targets => j \in scans

(* The scan of a job is deleted only after its findings were sent on out:  *)
(* by the job itself or with the target it created.  (A scan on another    *)
(* job's target can go with that target.)  A job that returns without error*)
(* has sent its findings.                                                  *)
FindingsBeforeCleanUp ==
    /\ \A j \in Jobs : outcome[j] = "ok" => emitted[j]
    /\ \A j \in Jobs :
           /\ status[j] = "completed" /\ j \notin scans
           /\ created[j] \/ target[j] \in targets
           => emitted[j]

(* When nothing failed the jobs leave the server as they found it, however *)
(* they shared or duplicated their targets.                                *)
NoTraceIsLeft ==
    ~troubled /\ (\A j \in Jobs : ~Running(j))
        => /\ targets = IF owned THEN {Owner} ELSE {}
           /\ scans = targets

(* adapter.go:32: "a reused target is never deleted".                      *)
ReusedTargetSurvives ==
    [][\A j \in Jobs :
        /\ Running(j) /\ ~created[j]
        /\ target[j] \in targets
        => target[j] \in targets']_vars
=============================================================================
