----------------------------- MODULE TrivyCache -----------------------------
(***************************************************************************)
(* sca/trivy: the connector containers of one image share a cache volume   *)
(* and coordinate by an flock on it (db.go, lock_unix.go).  A job first    *)
(* refreshes the databases it needs under the exclusive lock, then scans   *)
(* under the shared lock.  Every container is one connector process, which *)
(* serves its jobs one after the other and may be killed at any step; the  *)
(* kernel then drops its flock and leaves the volume as it is.             *)
(*                                                                         *)
(* The trivy binary and the kernel's flock are external.                   *)
(***************************************************************************)
EXTENDS Naturals, Sequences, FiniteSets

CONSTANTS
    Containers,
    MaxJobs,     \* bound: jobs each container serves
    MaxKills     \* bound: containers killed

ASSUME CacheAssumption == MaxJobs \in Nat /\ MaxKills \in Nat

VARIABLES
    pc,        \* where the container's job is
    jobs,      \* jobs the container has started
    kills,
    needs,     \* the databases the job's scan needs
    bounded,   \* the job waits 2 minutes for the exclusive lock, no longer
    todo,      \* the databases updateDBs has still to refresh, in order
    cancelled, \* the job's context is cancelled
    exclusive, shared,  \* the containers holding the flock, in either mode
    cached,    \* databases whose metadata.json is in the cache
    lost,      \* history: databases that a failed or killed update removed
    tmp,       \* containers with download files in <cache>/tmp
    outcome    \* how the container's last job ended

jobVars == <<jobs, needs, bounded, cancelled>>
lockVars == <<exclusive, shared>>
cacheVars == <<cached, lost, tmp>>
vars == <<pc, jobVars, kills, todo, lockVars, cacheVars, outcome>>

DBs == {"vuln", "java"}
Stages == {"idle",
           "wantExclusive", "locked", "refreshing", "downloading",
           "cleaning", "unlocking",
           "wantShared", "scanning"}
Outcomes == {"none", "ok", "canceled", "failed", "killed"}

Go(c, stage) == pc' = [pc EXCEPT ![c] = stage]
(* Execute returns.                                                        *)
End(c, how) == Go(c, "idle") /\ outcome' = [outcome EXCEPT ![c] = how]
(* The deferred calls of updateDBs, in the order they run.                 *)
Deferred_UnlockFirst == <<"unlocking", "cleaning">>
Deferred == <<"cleaning", "unlocking">>
(* updateDBs returns how; after its deferred calls the job goes on or ends.*)
LeaveUpdate(c, how) == Go(c, Deferred[1]) /\ outcome' = [outcome EXCEPT ![c] = how]
AfterDeferred(c, stage) ==
    Go(c, IF stage = Deferred[1] THEN Deferred[2]
          ELSE IF outcome[c] = "none" THEN "wantShared" ELSE "idle")

-----------------------------------------------------------------------------
Init ==
    /\ pc = [c \in Containers |-> "idle"]
    /\ jobs = [c \in Containers |-> 0] /\ kills = 0
    /\ needs = [c \in Containers |-> {}]
    /\ bounded = [c \in Containers |-> FALSE]
    /\ todo = [c \in Containers |-> <<>>]
    /\ cancelled = [c \in Containers |-> FALSE]
    /\ exclusive = {} /\ shared = {}
    /\ cached \in SUBSET DBs /\ lost = {} /\ tmp = {}
    /\ outcome = [c \in Containers |-> "none"]

-----------------------------------------------------------------------------
(* The Worker.                                                             *)

Cancel(c) ==
    /\ pc[c] # "idle" /\ ~cancelled[c]
    /\ cancelled' = [cancelled EXCEPT ![c] = TRUE]
    /\ UNCHANGED <<pc, jobs, needs, bounded, kills, todo, lockVars, cacheVars, outcome>>

-----------------------------------------------------------------------------
(* updateDBs.                                                              *)

(* The job cloned its repository.  Whether it may give up on the lock is   *)
(* decided here, before it is asked for.                                   *)
StartJob(c) ==
    /\ pc[c] = "idle" /\ jobs[c] < MaxJobs
    /\ jobs' = [jobs EXCEPT ![c] = @ + 1]
    /\ cancelled' = [cancelled EXCEPT ![c] = FALSE]
    /\ outcome' = [outcome EXCEPT ![c] = "none"]
    /\ \E dbs \in {<<"vuln">>, <<"vuln", "java">>} :
           LET wanted == {dbs[i] : i \in DOMAIN dbs}
           IN  /\ todo' = [todo EXCEPT ![c] = dbs]
               /\ needs' = [needs EXCEPT ![c] = wanted]
               /\ bounded' = [bounded EXCEPT ![c] = wanted \subseteq cached]
    /\ Go(c, "wantExclusive")
    /\ UNCHANGED <<kills, lockVars, cacheVars>>

(* flock(LOCK_EX | LOCK_NB), polled every 250 ms.                          *)
LockExclusive(c) ==
    /\ pc[c] = "wantExclusive"
    /\ exclusive = {} /\ shared = {}
    /\ exclusive' = {c}
    /\ Go(c, "locked")
    /\ UNCHANGED <<jobVars, kills, todo, shared, cacheVars, outcome>>

MayTimeOut_Never(c) == FALSE
MayTimeOut(c) == bounded[c]

(* errLockTimeout: the job goes on with the cached databases.              *)
LockTimesOut(c) ==
    /\ pc[c] = "wantExclusive" /\ MayTimeOut(c)
    /\ Go(c, "wantShared")
    /\ UNCHANGED <<jobVars, kills, todo, lockVars, cacheVars, outcome>>

WaitHears_SharedOnly(c) == pc[c] = "wantShared"
WaitHears(c) == pc[c] \in {"wantExclusive", "wantShared"}

WaitIsCancelled(c) ==
    /\ WaitHears(c) /\ cancelled[c]
    /\ End(c, "canceled")
    /\ UNCHANGED <<jobVars, kills, todo, lockVars, cacheVars>>

(* The lock file cannot be opened, or flock fails otherwise.               *)
LockErrs(c) ==
    /\ pc[c] \in {"wantExclusive", "wantShared"}
    /\ End(c, "failed")
    /\ UNCHANGED <<jobVars, kills, todo, lockVars, cacheVars>>

(* What a killed download left is removed, then the directory is created.  *)
PrepareTmp(c) ==
    /\ pc[c] = "locked"
    /\ \/ tmp' = {c} /\ Go(c, "refreshing") /\ UNCHANGED outcome
       \/ tmp' = {} /\ Go(c, "unlocking")      \* MkdirAll failed
          /\ outcome' = [outcome EXCEPT ![c] = "failed"]
    /\ UNCHANGED <<jobVars, kills, todo, lockVars, cached, lost>>

StartDownload(c) ==
    /\ pc[c] = "refreshing" /\ todo[c] # <<>>
    /\ Go(c, "downloading")
    /\ UNCHANGED <<jobVars, kills, todo, lockVars, cacheVars, outcome>>

Refreshed(c) ==
    /\ pc[c] = "refreshing" /\ todo[c] = <<>>
    /\ LeaveUpdate(c, "none")
    /\ UNCHANGED <<jobVars, kills, todo, lockVars, cacheVars>>

(* trivy returned without error: the database was fresh, or is now.        *)
DownloadSucceeds(c) ==
    /\ pc[c] = "downloading"
    /\ cached' = cached \cup {Head(todo[c])}
    /\ lost' = lost \ {Head(todo[c])}
    /\ todo' = [todo EXCEPT ![c] = Tail(@)]
    /\ Go(c, "refreshing")
    /\ UNCHANGED <<jobVars, kills, lockVars, tmp, outcome>>

(* trivy failed, or was killed because the context ended.  It unpacks in   *)
(* place, so the database may be gone.                                     *)
GoesOn_Always(db, dbs) == TRUE
GoesOn(db, dbs) == db \in dbs

DownloadFails(c) ==
    /\ pc[c] = "downloading"
    /\ \E gone \in SUBSET ({Head(todo[c])} \cap cached) :
           cached' = cached \ gone /\ lost' = lost \cup gone
    /\ \/ /\ cancelled[c]
          /\ LeaveUpdate(c, "canceled") /\ UNCHANGED todo
       \/ /\ ~cancelled[c] /\ GoesOn(Head(todo[c]), cached')
          /\ Go(c, "refreshing") /\ todo' = [todo EXCEPT ![c] = Tail(@)]
          /\ UNCHANGED outcome
       \/ /\ ~cancelled[c] /\ ~GoesOn(Head(todo[c]), cached')
          /\ LeaveUpdate(c, "failed") /\ UNCHANGED todo
    /\ UNCHANGED <<jobVars, kills, lockVars, tmp>>

(* The deferred RemoveAll(tmp), then the deferred unlock.                  *)
CleanTmp(c) ==
    /\ pc[c] = "cleaning"
    /\ tmp' = {}
    /\ AfterDeferred(c, "cleaning")
    /\ UNCHANGED <<jobVars, kills, todo, lockVars, cached, lost, outcome>>

Unlock(c) ==
    /\ pc[c] = "unlocking"
    /\ exclusive' = exclusive \ {c}
    /\ AfterDeferred(c, "unlocking")
    /\ UNCHANGED <<jobVars, kills, todo, shared, cacheVars, outcome>>

-----------------------------------------------------------------------------
(* The scan.                                                               *)

SharedFree_Always == TRUE
SharedFree == exclusive = {}

LockShared(c) ==
    /\ pc[c] = "wantShared" /\ SharedFree
    /\ shared' = shared \cup {c}
    /\ Go(c, "scanning")
    /\ UNCHANGED <<jobVars, kills, todo, exclusive, cacheVars, outcome>>

(* trivy returned, by itself or killed with the context; the flock is      *)
(* released before its result and its report are looked at.                *)
UnlockShared_OnSuccess(c, how) == IF how = "ok" THEN shared \ {c} ELSE shared
UnlockShared(c, how) == shared \ {c}

ScanEnds(c) ==
    /\ pc[c] = "scanning"
    /\ \E how \in {"ok", "failed"} \cup (IF cancelled[c] THEN {"canceled"} ELSE {}) :
           End(c, how) /\ shared' = UnlockShared(c, how)
    /\ UNCHANGED <<jobVars, kills, todo, exclusive, cacheVars>>

-----------------------------------------------------------------------------
(* The container is killed (and another one may take its place): the       *)
(* kernel drops its flock, a running download may leave no database.       *)
Kill(c) ==
    /\ kills < MaxKills /\ pc[c] # "idle"
    /\ kills' = kills + 1
    /\ exclusive' = exclusive \ {c} /\ shared' = shared \ {c}
    /\ IF pc[c] = "downloading"
       THEN \E gone \in SUBSET ({Head(todo[c])} \cap cached) :
                cached' = cached \ gone /\ lost' = lost \cup gone
       ELSE UNCHANGED <<cached, lost>>
    /\ End(c, "killed")
    /\ UNCHANGED <<jobVars, todo, tmp>>

-----------------------------------------------------------------------------
WaitStep(c) == LockExclusive(c) \/ LockTimesOut(c) \/ LockShared(c) \/ WaitIsCancelled(c)
OwnStep(c) == \/ WaitStep(c) \/ PrepareTmp(c) \/ StartDownload(c) \/ Refreshed(c)
              \/ CleanTmp(c) \/ Unlock(c)
TrivyReturns(c) == DownloadSucceeds(c) \/ DownloadFails(c) \/ ScanEnds(c)

Done == /\ \A c \in Containers : pc[c] = "idle" /\ jobs[c] = MaxJobs
        /\ UNCHANGED vars

Next == \/ \E c \in Containers : \/ StartJob(c) \/ Cancel(c) \/ OwnStep(c)
                                 \/ TrivyReturns(c) \/ LockErrs(c) \/ Kill(c)
        \/ Done

Spec == Init /\ [][Next]_vars

(* The connector's own steps and timers are fair; a cancelled context kills*)
(* the trivy process (exec.CommandContext).  Otherwise trivy may run for   *)
(* ever.                                                                   *)
Fairness == \A c \in Containers :
                WF_vars(OwnStep(c)) /\ WF_vars(cancelled[c] /\ TrivyReturns(c))
FairSpec == Spec /\ Fairness

-----------------------------------------------------------------------------
(* Properties.                                                             *)

TypeOK ==
    /\ pc \in [Containers -> Stages] /\ jobs \in [Containers -> 0..MaxJobs]
    /\ kills \in 0..MaxKills
    /\ needs \in [Containers -> SUBSET DBs] /\ bounded \in [Containers -> BOOLEAN]
    /\ todo \in [Containers -> Seq(DBs)] /\ cancelled \in [Containers -> BOOLEAN]
    /\ exclusive \subseteq Containers /\ shared \subseteq Containers
    /\ cached \subseteq DBs /\ lost \subseteq DBs /\ tmp \subseteq Containers
    /\ outcome \in [Containers -> Outcomes]

(* No scan reads a database while an update unpacks one in place, and no   *)
(* two updates write the cache at once.                                    *)
ScansReadStableDBs ==
    \A c, d \in Containers :
        pc[c] = "downloading" /\ pc[d] \in {"downloading", "scanning"} => c = d

(* A download directory is removed by its owner, or once its owner is dead:*)
(* never under a running download.                                         *)
DownloadKeepsItsFiles == \A c \in Containers : pc[c] = "downloading" => tmp = {c}

(* A scan runs with every database it needs in the cache, also after a     *)
(* refresh that failed or was given up, except for those that a failed or  *)
(* killed update has removed behind its back.                              *)
ScanHasItsDBs ==
    \A c \in Containers : pc[c] = "scanning" => needs[c] \subseteq cached \cup lost

(* An flock outlives no job: whoever holds it is in the section it guards. *)
LocksAreReturned ==
    /\ \A c \in exclusive : pc[c] \in {"locked", "refreshing", "downloading",
                                       "cleaning", "unlocking"}
    /\ \A c \in shared : pc[c] = "scanning"

(* A job whose databases are all cached waits for no scan: it gets the lock*)
(* or goes on without it, however long the scans of other containers take. *)
WarmJobIsNotHeldUp ==
    \A c \in Containers :
        pc[c] = "wantExclusive" /\ bounded[c] ~> pc[c] # "wantExclusive"

(* A cancelled job ends wherever it is: waiting for either lock, in a      *)
(* download or in a scan.                                                  *)
CancelEndsJob == \A c \in Containers : cancelled[c] ~> pc[c] = "idle"

(* No job waits for the cache longer than it has to: a warm one goes on    *)
(* with what is cached, and a cancelled one gives up.                      *)
NoJobIsHeldUp == WarmJobIsNotHeldUp /\ CancelEndsJob
=============================================================================
