-------------------------- MODULE TrivyCacheProofs --------------------------
(***************************************************************************)
(* The flock discipline of module TrivyCache, for any number of containers,*)
(* jobs and kills: whatever the order in which jobs start, fail, are       *)
(* cancelled or are killed, an update is alone on the cache volume.        *)
(***************************************************************************)
EXTENDS TrivyCache, SequenceTheorems, TLAPS

Updating == {"locked", "refreshing", "downloading", "cleaning", "unlocking"}

(* Who holds the flock is in the section it guards, and the reverse.       *)
HoldersInv ==
    /\ \A c \in Containers : c \in exclusive <=> pc[c] \in Updating
    /\ \A c \in Containers : c \in shared <=> pc[c] = "scanning"

(* The kernel's flock: one exclusive holder, or shared ones.               *)
FlockInv ==
    /\ \A c, d \in exclusive : c = d
    /\ exclusive # {} => shared = {}

(* From PrepareTmp to CleanTmp the directory is the updater's.             *)
TmpInv == \A c \in Containers :
              pc[c] \in {"refreshing", "downloading", "cleaning"} => tmp = {c}

PcType == pc \in [Containers -> Stages] /\ exclusive \subseteq Containers
                                        /\ shared \subseteq Containers

LockInv == PcType /\ HoldersInv /\ FlockInv /\ TmpInv
-----------------------------------------------------------------------------
LEMMA InitLock == Init => LockInv
  BY DEF Init, LockInv, PcType, HoldersInv, FlockInv, TmpInv, Stages, Updating

LEMMA LockStep == LockInv /\ [Next]_vars => LockInv'
  <1> SUFFICES ASSUME LockInv, [Next]_vars PROVE LockInv'
    OBVIOUS
  <1> USE DEF LockInv, PcType, HoldersInv, FlockInv, TmpInv, Stages, Updating,
              Go, jobVars, lockVars, cacheVars
  <1>1. ASSUME NEW c \in Containers, StartJob(c) PROVE LockInv'
    BY <1>1 DEF StartJob
  <1>2. ASSUME NEW c \in Containers, Cancel(c) PROVE LockInv'
    BY <1>2 DEF Cancel
  <1>3. ASSUME NEW c \in Containers, LockExclusive(c) PROVE LockInv'
    BY <1>3 DEF LockExclusive
  <1>4. ASSUME NEW c \in Containers, LockTimesOut(c) PROVE LockInv'
    BY <1>4 DEF LockTimesOut
  <1>5. ASSUME NEW c \in Containers, WaitIsCancelled(c) \/ LockErrs(c) PROVE LockInv'
    BY <1>5 DEF WaitIsCancelled, WaitHears, LockErrs, End
  <1>6. ASSUME NEW c \in Containers, PrepareTmp(c) PROVE LockInv'
    BY <1>6 DEF PrepareTmp
  <1>7. ASSUME NEW c \in Containers, StartDownload(c) PROVE LockInv'
    BY <1>7 DEF StartDownload
  <1>8. ASSUME NEW c \in Containers, Refreshed(c) PROVE LockInv'
    BY <1>8 DEF Refreshed, LeaveUpdate, Deferred
  <1>9. ASSUME NEW c \in Containers, DownloadSucceeds(c) PROVE LockInv'
    BY <1>9 DEF DownloadSucceeds
  <1>10. ASSUME NEW c \in Containers, DownloadFails(c) PROVE LockInv'
    BY <1>10 DEF DownloadFails, LeaveUpdate, Deferred
  <1>11. ASSUME NEW c \in Containers, CleanTmp(c) PROVE LockInv'
    BY <1>11 DEF CleanTmp, AfterDeferred, Deferred
  <1>12. ASSUME NEW c \in Containers, Unlock(c) PROVE LockInv'
    BY <1>12 DEF Unlock, AfterDeferred, Deferred
  <1>13. ASSUME NEW c \in Containers, LockShared(c) PROVE LockInv'
    BY <1>13 DEF LockShared, SharedFree
  <1>14. ASSUME NEW c \in Containers, ScanEnds(c) PROVE LockInv'
    BY <1>14 DEF ScanEnds, End, UnlockShared
  <1>15. ASSUME NEW c \in Containers, Kill(c) PROVE LockInv'
    BY <1>15 DEF Kill, End
  <1>16. CASE UNCHANGED vars
    BY <1>16 DEF vars
  <1> QED
    BY <1>1, <1>2, <1>3, <1>4, <1>5, <1>6, <1>7, <1>8, <1>9, <1>10, <1>11, <1>12,
       <1>13, <1>14, <1>15, <1>16
    DEF Next, OwnStep, WaitStep, TrivyReturns, Done

THEOREM LockInvHolds == Spec => []LockInv
  BY InitLock, LockStep, PTL DEF Spec

(* No scan reads, and no second update writes, while a database is being   *)
(* unpacked in place (db.go:15-21), for any number of containers.          *)
THEOREM CacheIsStable == Spec => []ScansReadStableDBs
  <1>1. LockInv => ScansReadStableDBs
    BY DEF LockInv, PcType, HoldersInv, FlockInv, ScansReadStableDBs, Updating
  <1> QED
    BY <1>1, LockInvHolds, PTL

(* The download directory is never removed under a running download, though*)
(* every updater removes it before and after its own (db.go:109-117).      *)
THEOREM DownloadsAreKept == Spec => []DownloadKeepsItsFiles
  <1>1. LockInv => DownloadKeepsItsFiles
    BY DEF LockInv, TmpInv, DownloadKeepsItsFiles
  <1> QED
    BY <1>1, LockInvHolds, PTL

(* Every exit path of updateDBs and Execute gives the flock back.          *)
THEOREM NoLockLeaks == Spec => []LocksAreReturned
  <1>1. LockInv => LocksAreReturned
    BY DEF LockInv, PcType, HoldersInv, LocksAreReturned, Updating
  <1> QED
    BY <1>1, LockInvHolds, PTL

-----------------------------------------------------------------------------
(* Why a scan finds its databases: what has been in the cache is there or  *)
(* was removed, and a job reaches its scan with nothing left to refresh or *)
(* after it gave the lock up knowing that all was cached.                  *)

Known == cached \cup lost
Pending(c) == {todo[c][i] : i \in DOMAIN todo[c]}

DataType ==
    /\ needs \in [Containers -> SUBSET DBs] /\ bounded \in [Containers -> BOOLEAN]
    /\ todo \in [Containers -> Seq(DBs)]
    /\ outcome \in [Containers -> Outcomes]

NeedsOf(c) ==
    /\ pc[c] = "wantExclusive" /\ bounded[c] => needs[c] \subseteq Known
    /\ pc[c] \in {"wantExclusive", "locked", "refreshing", "downloading"}
           => outcome[c] = "none" /\ needs[c] \subseteq Known \cup Pending(c)
    /\ pc[c] = "downloading" => todo[c] # <<>>
    /\ pc[c] \in {"cleaning", "unlocking"} /\ outcome[c] = "none"
           => needs[c] \subseteq Known
    /\ pc[c] \in {"wantShared", "scanning"} => needs[c] \subseteq Known

NeedsInv == \A c \in Containers : NeedsOf(c)

ScanInv == PcType /\ DataType /\ NeedsInv

LEMMA PendingSplits ==
  ASSUME NEW s \in Seq(DBs), s # <<>>
  PROVE  {s[i] : i \in DOMAIN s}
             \subseteq {Head(s)} \cup {Tail(s)[i] : i \in DOMAIN Tail(s)}
  <1> SUFFICES ASSUME NEW i \in DOMAIN s, s[i] # Head(s)
               PROVE  \E j \in DOMAIN Tail(s) : Tail(s)[j] = s[i]
    OBVIOUS
  <1>1. DOMAIN s = 1..Len(s) /\ Len(s) \in Nat /\ Head(s) = s[1]
    BY LenProperties
  <1>2. /\ Tail(s) \in Seq(DBs) /\ Len(Tail(s)) = Len(s) - 1
        /\ \A j \in 1..Len(Tail(s)) : Tail(s)[j] = s[j + 1]
    BY HeadTailProperties
  <1>3. DOMAIN Tail(s) = 1..(Len(s) - 1)
    BY <1>2, LenProperties
  <1>4. i \in 2..Len(s)
    BY <1>1
  <1>5. i - 1 \in DOMAIN Tail(s) /\ Tail(s)[i - 1] = s[i]
    BY <1>1, <1>2, <1>3, <1>4
  <1> QED
    BY <1>5

LEMMA PopsPending ==
  ASSUME DataType, NEW c \in Containers, todo[c] # <<>>,
         todo' = [todo EXCEPT ![c] = Tail(todo[c])]
  PROVE  Pending(c) \subseteq {Head(todo[c])} \cup Pending(c)'
  <1>1. todo'[c] = Tail(todo[c]) /\ todo[c] \in Seq(DBs)
    BY DEF DataType
  <1>2. {todo[c][i] : i \in DOMAIN todo[c]} \subseteq
            {Head(todo[c])} \cup {Tail(todo[c])[i] : i \in DOMAIN Tail(todo[c])}
    BY <1>1, PendingSplits
  <1> QED
    BY <1>1, <1>2 DEF Pending

LEMMA InitScan == Init => ScanInv
  BY DEF Init, ScanInv, PcType, DataType, NeedsInv, NeedsOf, Stages, Outcomes

(* A step of another container forgets nothing.                            *)
LEMMA OthersKeep ==
  ASSUME ScanInv, PcType', DataType', Known \subseteq Known', NEW c \in Containers,
         \A d \in Containers \ {c} : /\ pc'[d] = pc[d] /\ needs'[d] = needs[d]
                                     /\ bounded'[d] = bounded[d]
                                     /\ todo'[d] = todo[d] /\ outcome'[d] = outcome[d],
         NeedsOf(c)'
  PROVE  ScanInv'
  BY DEF ScanInv, NeedsInv, NeedsOf, Pending

(* What one container does to its own data, and to what is known.          *)
LEMMA OwnStepKeeps ==
  ASSUME ScanInv, NEW c \in Containers,
         \/ StartJob(c) \/ Cancel(c) \/ OwnStep(c)
         \/ TrivyReturns(c) \/ LockErrs(c) \/ Kill(c)
  PROVE  /\ PcType' /\ DataType' /\ Known \subseteq Known' /\ NeedsOf(c)'
         /\ \A d \in Containers \ {c} :
                /\ pc'[d] = pc[d] /\ needs'[d] = needs[d] /\ bounded'[d] = bounded[d]
                /\ todo'[d] = todo[d] /\ outcome'[d] = outcome[d]
  <1> DEFINE Kept == /\ PcType' /\ DataType' /\ Known \subseteq Known' /\ NeedsOf(c)'
                     /\ \A d \in Containers \ {c} :
                            /\ pc'[d] = pc[d] /\ needs'[d] = needs[d]
                            /\ bounded'[d] = bounded[d]
                            /\ todo'[d] = todo[d] /\ outcome'[d] = outcome[d]
  <1> USE DEF ScanInv, PcType, DataType, NeedsInv, NeedsOf, Stages, Outcomes, Known,
              Pending, Go, jobVars, lockVars, cacheVars
  <1>1. CASE StartJob(c)
    <2>1. PICK dbs \in {<<"vuln">>, <<"vuln", "java">>} :
              /\ todo' = [todo EXCEPT ![c] = dbs]
              /\ needs' = [needs EXCEPT ![c] = {dbs[i] : i \in DOMAIN dbs}]
              /\ bounded' = [bounded EXCEPT
                                 ![c] = {dbs[i] : i \in DOMAIN dbs} \subseteq cached]
      BY <1>1 DEF StartJob
    <2>2. dbs \in Seq(DBs) /\ {dbs[i] : i \in DOMAIN dbs} \subseteq DBs
      <3>1. "vuln" \in DBs /\ "java" \in DBs
        BY DEF DBs
      <3>2. CASE dbs = <<"vuln">>
        BY <3>1, <3>2
      <3>3. CASE dbs = <<"vuln", "java">>
        BY <3>1, <3>3
      <3> QED
        BY <3>2, <3>3
    <2>3. todo'[c] = dbs /\ needs'[c] = {dbs[i] : i \in DOMAIN dbs}
          /\ bounded'[c] = ({dbs[i] : i \in DOMAIN dbs} \subseteq cached)
      BY <2>1
    <2>4. /\ pc' = [pc EXCEPT ![c] = "wantExclusive"]
          /\ outcome' = [outcome EXCEPT ![c] = "none"]
          /\ UNCHANGED <<exclusive, shared, cached, lost>>
      BY <1>1 DEF StartJob
    <2>5. PcType' /\ DataType'
      BY <2>1, <2>2, <2>4
    <2>6. NeedsOf(c)'
      BY <2>3, <2>4
    <2> QED
      BY <2>1, <2>4, <2>5, <2>6
  <1>2. CASE Cancel(c)
    BY <1>2 DEF Cancel
  <1>3. CASE LockExclusive(c)
    BY <1>3 DEF LockExclusive
  <1>4. CASE LockTimesOut(c)
    BY <1>4 DEF LockTimesOut, MayTimeOut
  <1>5. CASE WaitIsCancelled(c) \/ LockErrs(c)
    BY <1>5 DEF WaitIsCancelled, LockErrs, End
  <1>6. CASE PrepareTmp(c)
    <2>1. CASE Go(c, "refreshing") /\ UNCHANGED outcome
      BY <1>6, <2>1 DEF PrepareTmp
    <2>2. CASE Go(c, "unlocking") /\ outcome' = [outcome EXCEPT ![c] = "failed"]
      BY <1>6, <2>2 DEF PrepareTmp
    <2> QED
      BY <1>6, <2>1, <2>2 DEF PrepareTmp
  <1>7. CASE StartDownload(c)
    BY <1>7 DEF StartDownload
  <1>8. CASE Refreshed(c)
    <2>1. Pending(c) = {}
      BY <1>8 DEF Refreshed
    <2> QED
      BY <1>8, <2>1 DEF Refreshed, LeaveUpdate, Deferred
  <1>9. CASE DownloadSucceeds(c)
    <2>1. pc[c] = "downloading" /\ todo[c] # <<>> /\ todo[c] \in Seq(DBs)
      BY <1>9 DEF DownloadSucceeds
    <2>2. todo' = [todo EXCEPT ![c] = Tail(todo[c])] /\ Tail(todo[c]) \in Seq(DBs)
      BY <1>9, <2>1, HeadTailProperties DEF DownloadSucceeds
    <2>3. Pending(c) \subseteq {Head(todo[c])} \cup Pending(c)'
      BY <2>1, <2>2, PopsPending
    <2>4. Known \subseteq Known' /\ Head(todo[c]) \in Known'
      BY <1>9 DEF DownloadSucceeds
    <2>5. needs[c] \subseteq (Known \cup Pending(c))'
      BY <2>1, <2>3, <2>4
    <2> HIDE DEF Known, Pending
    <2> QED
      BY <1>9, <2>2, <2>4, <2>5 DEF DownloadSucceeds
  <1>10. CASE DownloadFails(c)
    <2>1. pc[c] = "downloading" /\ todo[c] # <<>> /\ todo[c] \in Seq(DBs)
      BY <1>10 DEF DownloadFails
    <2>2. Tail(todo[c]) \in Seq(DBs)
      BY <2>1, HeadTailProperties
    <2>3. Known \subseteq Known'
      BY <1>10 DEF DownloadFails
    <2>4. CASE pc' = [pc EXCEPT ![c] = "cleaning"] /\ UNCHANGED todo
               /\ \E how \in {"canceled", "failed"} : outcome' = [outcome EXCEPT ![c] = how]
      <3> HIDE DEF Known, Pending
      <3> QED
        BY <1>10, <2>3, <2>4 DEF DownloadFails
    <2>5. CASE /\ GoesOn(Head(todo[c]), cached')
               /\ pc' = [pc EXCEPT ![c] = "refreshing"]
               /\ todo' = [todo EXCEPT ![c] = Tail(todo[c])] /\ UNCHANGED outcome
      <3>1. Pending(c) \subseteq {Head(todo[c])} \cup Pending(c)'
        BY <2>1, <2>5, PopsPending
      <3>2. Head(todo[c]) \in Known'
        BY <2>5 DEF GoesOn
      <3>3. needs[c] \subseteq (Known \cup Pending(c))'
        BY <2>1, <2>3, <3>1, <3>2
      <3> HIDE DEF Known, Pending
      <3> QED
        BY <1>10, <2>2, <2>3, <2>5, <3>3 DEF DownloadFails
    <2> QED
      BY <1>10, <2>4, <2>5 DEF DownloadFails, LeaveUpdate, Deferred
  <1>11. CASE CleanTmp(c)
    BY <1>11 DEF CleanTmp, AfterDeferred, Deferred
  <1>12. CASE Unlock(c)
    BY <1>12 DEF Unlock, AfterDeferred, Deferred
  <1>13. CASE LockShared(c)
    BY <1>13 DEF LockShared
  <1>14. CASE ScanEnds(c)
    BY <1>14 DEF ScanEnds, End, UnlockShared
  <1>15. CASE Kill(c)
    BY <1>15 DEF Kill, End
  <1> QED
    BY <1>1, <1>2, <1>3, <1>4, <1>5, <1>6, <1>7, <1>8, <1>9, <1>10, <1>11, <1>12,
       <1>13, <1>14, <1>15 DEF OwnStep, WaitStep, TrivyReturns

LEMMA ScanStep == ScanInv /\ [Next]_vars => ScanInv'
  <1> SUFFICES ASSUME ScanInv, [Next]_vars PROVE ScanInv'
    OBVIOUS
  <1>1. CASE UNCHANGED vars
    BY <1>1 DEF vars, jobVars, lockVars, cacheVars, ScanInv, PcType, DataType,
                NeedsInv, NeedsOf, Known, Pending
  <1>2. ASSUME NEW c \in Containers,
               \/ StartJob(c) \/ Cancel(c) \/ OwnStep(c)
               \/ TrivyReturns(c) \/ LockErrs(c) \/ Kill(c)
        PROVE  ScanInv'
    BY <1>2, OwnStepKeeps, OthersKeep
  <1> QED
    BY <1>1, <1>2 DEF Next, Done

(* A scan runs with the databases it needs, though nobody looks again after*)
(* the lock was waited for, given up or failed (db.go:86-144).             *)
THEOREM ScansFindTheirDBs == Spec => []ScanHasItsDBs
  <1>1. ScanInv => ScanHasItsDBs
    BY DEF ScanInv, NeedsInv, NeedsOf, Known, ScanHasItsDBs
  <1> QED
    BY <1>1, InitScan, ScanStep, PTL DEF Spec

-----------------------------------------------------------------------------
RestType ==
    /\ jobs \in [Containers -> 0..MaxJobs] /\ kills \in 0..MaxKills
    /\ cancelled \in [Containers -> BOOLEAN]
    /\ cached \subseteq DBs /\ lost \subseteq DBs /\ tmp \subseteq Containers

LEMMA RestStep == ScanInv /\ RestType /\ [Next]_vars => RestType'
  <1> SUFFICES ASSUME ScanInv, RestType, [Next]_vars PROVE RestType'
    OBVIOUS
  <1> USE CacheAssumption DEF RestType, Go, jobVars, lockVars, cacheVars
  <1>1. ASSUME NEW c \in Containers, StartJob(c) PROVE RestType'
    BY <1>1 DEF StartJob
  <1>2. ASSUME NEW c \in Containers, Cancel(c) PROVE RestType'
    BY <1>2 DEF Cancel
  <1>3. ASSUME NEW c \in Containers, WaitStep(c) \/ LockErrs(c) PROVE RestType'
    BY <1>3 DEF WaitStep, LockExclusive, LockTimesOut, LockShared, WaitIsCancelled,
                LockErrs
  <1>4. ASSUME NEW c \in Containers,
               \/ PrepareTmp(c) \/ StartDownload(c) \/ Refreshed(c)
               \/ CleanTmp(c) \/ Unlock(c) \/ ScanEnds(c)
        PROVE  RestType'
    BY <1>4 DEF PrepareTmp, StartDownload, Refreshed, CleanTmp, Unlock, ScanEnds
  <1>5. ASSUME NEW c \in Containers, DownloadSucceeds(c) \/ DownloadFails(c) PROVE RestType'
    <2>1. todo[c] \in Seq(DBs) /\ todo[c] # <<>>
      BY <1>5 DEF DownloadSucceeds, DownloadFails, ScanInv, NeedsInv, NeedsOf, DataType
    <2>2. Head(todo[c]) \in DBs
      BY <2>1, HeadTailProperties
    <2> QED
      BY <1>5, <2>2 DEF DownloadSucceeds, DownloadFails
  <1>6. ASSUME NEW c \in Containers, Kill(c) PROVE RestType'
    BY <1>6 DEF Kill
  <1>7. CASE UNCHANGED vars
    BY <1>7 DEF vars
  <1> QED
    BY <1>1, <1>2, <1>3, <1>4, <1>5, <1>6, <1>7 DEF Next, OwnStep, TrivyReturns, Done

(* The types, for any number of containers, jobs and kills.                *)
THEOREM TypeCorrect == Spec => []TypeOK
  <1>1. Init => RestType
    BY CacheAssumption DEF Init, RestType
  <1>2. ScanInv /\ RestType => TypeOK
    BY DEF ScanInv, PcType, DataType, RestType, TypeOK
  <1> QED
    BY <1>1, <1>2, InitScan, ScanStep, RestStep, PTL DEF Spec
=============================================================================
