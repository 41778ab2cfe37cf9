----------------------------- MODULE NessusScan -----------------------------
(***************************************************************************)
(* vulnerabilities/nessus: jobs that create a scan on a Nessus server,     *)
(* poll it, fetch the output of its plugins with a pool of workers, send   *)
(* the findings on out and delete the scan.  A deferred clean-up kills and *)
(* deletes the scan of a job whose context has ended.  The API client      *)
(* takes no context, so a request ends by itself or by its timeout.        *)
(*                                                                         *)
(* The Nessus server and the client library are external.                  *)
(***************************************************************************)
EXTENDS Naturals, Sequences, FiniteSets

CONSTANTS
    Jobs,        \* jobs of any containers that use the server
    Plugins,     \* ids of the plugins that can report something of a job's target
    Workers,     \* size of the pool (8 in the code)
    OwnFolder    \* the jobs whose profile names a folder

ASSUME NessusAssumption ==
    /\ Plugins \in [Jobs -> SUBSET Nat]
    /\ Workers \in Nat \ {0} /\ OwnFolder \subseteq Jobs

VARIABLES
    \* the server
    folder,     \* there is an oasm-scan folder
    scan,       \* the scan each job knows it has created
    vulns,      \* plugins that reported something in the job's scan
    orphan,     \* there is a scan no job knows of
    \* Execute, one per job
    pc,
    todo,       \* plugins whose output is still to be asked for
    inflight,   \* plugins a worker is asking for
    fetched,    \* plugins whose output arrived
    failed,     \* the job has a plugin whose output did not arrive (fetchErrs)
    emitted,    \* the findings sent on out
    result,
    cancelled,  \* the job's context has ended
    undeleted   \* history: jobs whose request to delete the scan failed

server == <<folder, scan, vulns, orphan>>
pool == <<todo, inflight, fetched, failed>>
vars == <<server, pc, pool, emitted, result, cancelled, undeleted>>

Steps == {"connect", "findFolder", "makeFolder", "createScan", "poll", "fetch",
          "slot", "join", "emit", "delete", "leave", "kill", "remove", "ended"}
(* The scan's states.  "stopped": aborted, or stopped by hand or by a kill.*)
OnServer == {"running", "completed", "empty", "stopped"}

Go(j, step) == pc' = [pc EXCEPT ![j] = step]
(* Execute returns before, and after, the clean-up is deferred.            *)
Return(j) == Go(j, "ended") /\ result' = [result EXCEPT ![j] = "refused"]
Leave(j, how) == Go(j, "leave") /\ result' = [result EXCEPT ![j] = how]
Ended(j) == pc[j] = "ended"

-----------------------------------------------------------------------------
Init ==
    /\ folder \in BOOLEAN
    /\ scan = [j \in Jobs |-> "none"]
    /\ vulns = [j \in Jobs |-> {}] /\ orphan = FALSE
    /\ pc = [j \in Jobs |-> "connect"]
    /\ todo = [j \in Jobs |-> {}] /\ inflight = [j \in Jobs |-> {}]
    /\ fetched = [j \in Jobs |-> {}] /\ failed = [j \in Jobs |-> FALSE]
    /\ emitted = [j \in Jobs |-> <<>>]
    /\ result = [j \in Jobs |-> "none"]
    /\ cancelled = [j \in Jobs |-> FALSE] /\ undeleted = {}

Cancel(j) ==
    /\ ~Ended(j) /\ ~cancelled[j]
    /\ cancelled' = [cancelled EXCEPT ![j] = TRUE]
    /\ UNCHANGED <<server, pc, pool, emitted, result, undeleted>>

(* The scan ends, or is stopped by hand.                                   *)
ScanStops(j) ==
    /\ scan[j] = "running"
    /\ \/ /\ scan' = [scan EXCEPT ![j] = "completed"]
          /\ \E found \in SUBSET Plugins[j] : vulns' = [vulns EXCEPT ![j] = found]
       \/ /\ \E how \in {"empty", "stopped"} : scan' = [scan EXCEPT ![j] = how]
          /\ UNCHANGED vulns
    /\ UNCHANGED <<folder, orphan, pc, pool, emitted, result, cancelled, undeleted>>

-----------------------------------------------------------------------------
(* newNessusClient: the server must be ready, and there must be a folder.  *)

Connect(j) ==
    /\ pc[j] = "connect"
    /\ \/ Return(j)
       \/ Go(j, IF j \in OwnFolder THEN "createScan" ELSE "findFolder") /\ UNCHANGED result
    /\ UNCHANGED <<server, pool, emitted, cancelled, undeleted>>

FindFolder(j) ==
    /\ pc[j] = "findFolder"
    /\ \/ Return(j)
       \/ Go(j, IF folder THEN "createScan" ELSE "makeFolder") /\ UNCHANGED result
    /\ UNCHANGED <<server, pool, emitted, cancelled, undeleted>>

MakeFolder(j) ==
    /\ pc[j] = "makeFolder"
    /\ \/ folder' = TRUE /\ Go(j, "createScan") /\ UNCHANGED result
       \/ folder' \in {folder, TRUE} /\ Return(j)
    /\ UNCHANGED <<scan, vulns, orphan, pool, emitted, cancelled, undeleted>>

(* A request whose answer is lost is sent again (retryablehttp), and fails *)
(* in the end or gives a second scan: the first, if there is one, stays on *)
(* the server and no job knows its id.  So does one created without a body.*)
CreateScan(j) ==
    /\ pc[j] = "createScan"
    /\ \/ scan' = [scan EXCEPT ![j] = "running"] /\ Go(j, "poll") /\ UNCHANGED result
       \/ Return(j) /\ UNCHANGED scan
    /\ orphan' \in {orphan, TRUE}
    /\ UNCHANGED <<folder, vulns, pool, emitted, cancelled, undeleted>>

-----------------------------------------------------------------------------
(* The poll loop.  Both cases of its select may be ready.                  *)

Poll(j) ==
    /\ pc[j] = "poll"
    /\ \/ /\ scan[j] = "completed"
          /\ todo' = [todo EXCEPT ![j] = vulns[j]]
          /\ Go(j, "fetch") /\ UNCHANGED result
       \/ /\ scan[j] = "empty"           \* no details, so no findings
          /\ Go(j, "delete") /\ UNCHANGED <<todo, result>>
       \/ scan[j] = "stopped" /\ Leave(j, "error") /\ UNCHANGED todo
       \/ Leave(j, "error") /\ UNCHANGED todo      \* the request failed
    /\ UNCHANGED <<server, inflight, fetched, failed, emitted, cancelled, undeleted>>

Hears_Never(j) == FALSE
Hears(j) == cancelled[j]

PollStops(j) ==
    /\ pc[j] = "poll" /\ Hears(j)
    /\ Leave(j, "canceled")
    /\ UNCHANGED <<server, pool, emitted, cancelled, undeleted>>

-----------------------------------------------------------------------------
(* collectFindings.  The loop looks at the context, then waits for a slot  *)
(* of the pool; workers that run when it returns early are not joined.     *)

NextPlugin(j) ==
    /\ pc[j] = "fetch"
    /\ \/ todo[j] = {} /\ Go(j, "join") /\ UNCHANGED result
       \/ todo[j] # {} /\ cancelled[j] /\ Leave(j, "canceled")
       \/ todo[j] # {} /\ ~cancelled[j] /\ Go(j, "slot") /\ UNCHANGED result
    /\ UNCHANGED <<server, pool, emitted, cancelled, undeleted>>

StartWorker(j) ==
    /\ pc[j] = "slot" /\ Cardinality(inflight[j]) < Workers
    /\ \E p \in todo[j] :
           /\ todo' = [todo EXCEPT ![j] = @ \ {p}]
           /\ inflight' = [inflight EXCEPT ![j] = @ \cup {p}]
    /\ Go(j, "fetch")
    /\ UNCHANGED <<server, fetched, failed, emitted, result, cancelled, undeleted>>

(* mapPluginOutput takes whatever the server answered, unless it is empty. *)
Output(j, p) ==
    \/ fetched' = [fetched EXCEPT ![j] = @ \cup {p}] /\ UNCHANGED failed
    \/ failed' = [failed EXCEPT ![j] = TRUE] /\ UNCHANGED fetched

WorkerEnds(j, p) ==
    /\ p \in inflight[j]
    /\ inflight' = [inflight EXCEPT ![j] = @ \ {p}]
    /\ Output(j, p)
    /\ UNCHANGED <<server, pc, todo, emitted, result, cancelled, undeleted>>

FetchFailed_Swallowed(j) == FALSE
FetchFailed(j) == failed[j]

Join(j) ==
    /\ pc[j] = "join" /\ inflight[j] = {}
    /\ IF FetchFailed(j) THEN Leave(j, "error") ELSE Go(j, "emit") /\ UNCHANGED result
    /\ UNCHANGED <<server, pool, emitted, cancelled, undeleted>>

Sent(j) == {emitted[j][i] : i \in DOMAIN emitted[j]}

(* The findings go out by plugin id.                                       *)
Unsent(j) == fetched[j] \ Sent(j)

EmitFinding(j) ==
    /\ pc[j] = "emit"
    /\ \E p \in Unsent(j) :
           /\ \A q \in Unsent(j) : p <= q
           /\ emitted' = [emitted EXCEPT ![j] = Append(@, p)]
    /\ UNCHANGED <<server, pc, pool, result, cancelled, undeleted>>

EmitEnds(j) ==
    /\ pc[j] = "emit" /\ Unsent(j) = {}
    /\ Go(j, "delete")
    /\ UNCHANGED <<server, pool, emitted, result, cancelled, undeleted>>

EmitStops(j) ==
    /\ pc[j] = "emit" /\ cancelled[j] /\ Unsent(j) # {}
    /\ Leave(j, "canceled")
    /\ UNCHANGED <<server, pool, emitted, cancelled, undeleted>>

-----------------------------------------------------------------------------
(* The scan is deleted, best effort: a request that fails may have deleted *)
(* it, or not.                                                             *)

Remove(j) ==
    \/ scan' = [scan EXCEPT ![j] = "none"] /\ UNCHANGED undeleted
    \/ scan' \in {scan, [scan EXCEPT ![j] = "none"]} /\ undeleted' = undeleted \cup {j}

DeleteScan(j) ==
    /\ pc[j] = "delete"
    /\ Remove(j)
    /\ Leave(j, "ok")
    /\ UNCHANGED <<folder, vulns, orphan, pool, emitted, cancelled>>

(* The deferred call: nothing to do unless the context has ended.          *)
MustCleanUp_Always(j) == TRUE
MustCleanUp_Never(j) == FALSE
MustCleanUp(j) == cancelled[j]

Deferred(j) ==
    /\ pc[j] = "leave"
    /\ Go(j, IF MustCleanUp(j) THEN "kill" ELSE "ended")
    /\ UNCHANGED <<server, pool, emitted, result, cancelled, undeleted>>

KillScan(j) ==
    /\ pc[j] = "kill"
    /\ \/ scan' = [scan EXCEPT ![j] = IF @ = "running" THEN "stopped" ELSE @]
       \/ UNCHANGED scan
    /\ Go(j, "remove")
    /\ UNCHANGED <<folder, vulns, orphan, pool, emitted, result, cancelled, undeleted>>

RemoveScan(j) ==
    /\ pc[j] = "remove"
    /\ Remove(j)
    /\ Go(j, "ended")
    /\ UNCHANGED <<folder, vulns, orphan, pool, emitted, result, cancelled>>

-----------------------------------------------------------------------------
(* What the job does by itself, in bounded time.                           *)
OwnStep(j) == \/ Connect(j) \/ FindFolder(j) \/ MakeFolder(j) \/ CreateScan(j)
              \/ NextPlugin(j) \/ StartWorker(j) \/ Join(j) \/ EmitEnds(j)
              \/ DeleteScan(j) \/ Deferred(j) \/ KillScan(j) \/ RemoveScan(j)
WorkerStep(j) == \E p \in Plugins[j] : WorkerEnds(j, p)
AllEnded == (\A j \in Jobs : Ended(j) /\ inflight[j] = {}) /\ UNCHANGED vars

Next == \/ \E j \in Jobs : \/ OwnStep(j) \/ WorkerStep(j)
                           \/ Poll(j) \/ PollStops(j)
                           \/ EmitFinding(j) \/ EmitStops(j)
                           \/ Cancel(j) \/ ScanStops(j)
        \/ AllEnded

Spec == Init /\ [][Next]_vars

(* Requests end, by their timeout if need be, and a select does not ignore *)
(* a ready case for ever.  The server may never end a scan, and the runtime*)
(* may stop taking what is sent on out.                                    *)
Fairness == \A j \in Jobs : /\ WF_vars(OwnStep(j)) /\ WF_vars(WorkerStep(j))
                            /\ WF_vars(PollStops(j)) /\ WF_vars(EmitStops(j))
FairSpec == Spec /\ Fairness

-----------------------------------------------------------------------------
(* Properties.                                                             *)

TypeOK ==
    /\ folder \in BOOLEAN /\ undeleted \subseteq Jobs /\ orphan \in BOOLEAN
    /\ scan \in [Jobs -> OnServer \cup {"none"}]
    /\ pc \in [Jobs -> Steps]
    /\ failed \in [Jobs -> BOOLEAN]
    /\ vulns \in [Jobs -> SUBSET Nat] /\ todo \in [Jobs -> SUBSET Nat]
    /\ inflight \in [Jobs -> SUBSET Nat] /\ fetched \in [Jobs -> SUBSET Nat]
    /\ emitted \in [Jobs -> Seq(Nat)]
    /\ \A j \in Jobs : vulns[j] \cup todo[j] \cup inflight[j] \cup fetched[j] \subseteq Plugins[j]
    /\ result \in [Jobs -> {"none", "refused", "ok", "error", "canceled"}]
    /\ cancelled \in [Jobs -> BOOLEAN]

(* Retention on failure: once created, the scan of a job whose context is  *)
(* alive is on the server, in whatever state, until the job succeeds: while*)
(* its findings go out, and for good if the job fails.                     *)
Created(j) == /\ pc[j] \notin {"connect", "findFolder", "makeFolder", "createScan"}
              /\ result[j] # "refused"
FailureKeepsScan ==
    \A j \in Jobs :
        Created(j) /\ ~cancelled[j] /\ result[j] # "ok" => scan[j] \in OnServer

(* A scan holds a license: a job that succeeded or was cancelled gives back*)
(* that of the scan it knows, wherever the cancellation met it (also while *)
(* it was deciding to fail, or had deleted the scan), unless the request to*)
(* delete it failed.  That of an orphan nobody gives back.                 *)
LicenseIsReturned ==
    \A j \in Jobs \ undeleted :
        Ended(j) /\ (result[j] = "ok" \/ cancelled[j]) => scan[j] = "none"

(* A success is whole: every plugin that reported something is among the   *)
(* findings, once and in the order of the ids, although workers answered in*)
(* any order and some of them may have failed.                             *)
SuccessIsWhole ==
    \A j \in Jobs : result[j] = "ok" =>
        /\ Sent(j) = vulns[j]
        /\ \A i, k \in DOMAIN emitted[j] : i < k => emitted[j][i] < emitted[j][k]

(* A cancelled job ends: while the scan runs, while workers fill the pool, *)
(* and while nobody takes its findings.                                    *)
CancelledJobEnds == \A j \in Jobs : cancelled[j] ~> Ended(j)
=============================================================================
