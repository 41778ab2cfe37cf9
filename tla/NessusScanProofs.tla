-------------------------- MODULE NessusScanProofs --------------------------
(***************************************************************************)
(* What the jobs of module NessusScan report and leave behind, for any     *)
(* number of jobs and plugins and any size of the pool.                    *)
(***************************************************************************)
EXTENDS NessusScan, TLAPS

Early == {"connect", "findFolder", "makeFolder", "createScan"}
Fetching == {"fetch", "slot", "join"}
Sorted(j) == \A i, k \in DOMAIN emitted[j] : i < k => emitted[j][i] < emitted[j][k]

(* Where the findings of a job are: before its poll ends nothing is        *)
(* fetched; then what the scan found is fetched, in flight, to do, or lost *)
(* with a recorded failure; and what is sent comes before what is not.     *)
PoolInv(j) ==
    /\ pc[j] \in Early \cup {"poll"} =>
          /\ todo[j] = {} /\ inflight[j] = {} /\ fetched[j] = {}
          /\ ~failed[j] /\ emitted[j] = <<>>
    /\ scan[j] \in {"empty", "running"} \/ pc[j] \in Early => vulns[j] = {}
    /\ pc[j] \in Fetching =>
          /\ emitted[j] = <<>>
          /\ ~failed[j] => vulns[j] = todo[j] \cup inflight[j] \cup fetched[j]
    /\ pc[j] = "join" => todo[j] = {}
    /\ pc[j] = "emit" =>
          /\ vulns[j] = fetched[j] /\ Sent(j) \subseteq fetched[j]
          /\ \A i \in DOMAIN emitted[j], q \in Unsent(j) : emitted[j][i] < q
    /\ pc[j] \in {"emit", "delete"} => inflight[j] = {} /\ Sorted(j)
    /\ pc[j] = "delete" \/ result[j] = "ok" => Sent(j) = vulns[j] /\ Sorted(j)

(* Where the scan of a job is, and why.                                    *)
ScanInv(j) ==
    /\ result[j] # "none" <=> pc[j] \in {"leave", "kill", "remove", "ended"}
    /\ result[j] = "refused" => pc[j] = "ended" /\ scan[j] = "none"
    /\ pc[j] \in Early => scan[j] = "none"
    /\ pc[j] \in Fetching \cup {"emit", "delete"} \/ result[j] = "ok" => scan[j] # "running"
    /\ result[j] = "ok" => scan[j] = "none" \/ j \in undeleted
    /\ pc[j] \in {"kill", "remove"} \/ result[j] = "canceled" => cancelled[j]
    /\ Created(j) /\ ~cancelled[j] /\ result[j] # "ok" => scan[j] \in OnServer
    /\ Ended(j) /\ cancelled[j] => scan[j] = "none" \/ j \in undeleted

IInv == TypeOK /\ \A j \in Jobs : PoolInv(j) /\ ScanInv(j)

-----------------------------------------------------------------------------
LEMMA InitIInv == Init => IInv
  <1> SUFFICES ASSUME Init PROVE IInv
    OBVIOUS
  <1>1. TypeOK
    <2>1. folder \in BOOLEAN /\ orphan \in BOOLEAN /\ undeleted \subseteq Jobs
      BY Zenon DEF Init
    <2>2. /\ scan \in [Jobs -> OnServer \cup {"none"}] /\ emitted \in [Jobs -> Seq(Nat)]
          /\ pc \in [Jobs -> Steps]
      BY DEF Init, Steps
    <2> QED
      BY <2>1, <2>2 DEF Init, TypeOK
  <1>2. ASSUME NEW j \in Jobs
        PROVE  PoolInv(j) /\ ScanInv(j)
    BY DEF Init, PoolInv, ScanInv, Early, Fetching, Created, Ended
  <1> QED
    BY <1>1, <1>2 DEF IInv

LEMMA IInvImplies == IInv => FailureKeepsScan /\ LicenseIsReturned /\ SuccessIsWhole
  <1> SUFFICES ASSUME IInv PROVE FailureKeepsScan /\ LicenseIsReturned /\ SuccessIsWhole
    OBVIOUS
  <1>1. FailureKeepsScan
    BY DEF IInv, ScanInv, FailureKeepsScan
  <1>2. LicenseIsReturned
    BY DEF IInv, ScanInv, LicenseIsReturned, Ended
  <1>3. SuccessIsWhole
    BY DEF IInv, PoolInv, SuccessIsWhole, Sorted
  <1> QED
    BY <1>1, <1>2, <1>3

-----------------------------------------------------------------------------
(* Every step is a step of one job.                                        *)
Same(k) ==
    /\ scan'[k] = scan[k] /\ vulns'[k] = vulns[k] /\ pc'[k] = pc[k]
    /\ todo'[k] = todo[k] /\ inflight'[k] = inflight[k]
    /\ fetched'[k] = fetched[k] /\ failed'[k] = failed[k]
    /\ emitted'[k] = emitted[k] /\ result'[k] = result[k]
    /\ cancelled'[k] = cancelled[k]
    /\ k \in undeleted' <=> k \in undeleted

LEMMA SameKeeps ==
  ASSUME NEW k, PoolInv(k), ScanInv(k), Same(k)
  PROVE  PoolInv(k)' /\ ScanInv(k)'
  BY DEF PoolInv, ScanInv, Same, Early, Fetching, Created, Ended, Sent, Unsent, Sorted

LEMMA OneJob ==
  ASSUME TypeOK', IInv, NEW j \in Jobs,
         \A k \in Jobs : k # j => Same(k),
         PoolInv(j)', ScanInv(j)'
  PROVE  IInv'
  <1>1. ASSUME NEW k \in Jobs
        PROVE  PoolInv(k)' /\ ScanInv(k)'
    BY SameKeeps DEF IInv
  <1> QED
    BY <1>1 DEF IInv
-----------------------------------------------------------------------------
(* One lemma per action.                                                   *)
LEMMA CancelKeeps ==
  ASSUME IInv, NEW j \in Jobs, Cancel(j)
  PROVE  IInv'
  <1> USE DEF Cancel, Go, Return, Leave, Ended, server, pool
  <1>1. TypeOK /\ PoolInv(j) /\ ScanInv(j)
    BY DEF IInv
  <1>2. TypeOK'
    BY <1>1 DEF TypeOK, Steps, OnServer
  <1>3. \A k \in Jobs : k # j => Same(k)
    BY <1>1 DEF TypeOK, Same
  <1>4. PoolInv(j)'
    BY <1>1 DEF TypeOK, PoolInv, ScanInv, Early, Fetching, Sorted, Sent, Unsent
  <1>5. ScanInv(j)'
    BY <1>1 DEF TypeOK, PoolInv, ScanInv, Early, Fetching, Created, OnServer
  <1> QED
    BY <1>2, <1>3, <1>4, <1>5, OneJob

LEMMA ScanStopsKeeps ==
  ASSUME IInv, NEW j \in Jobs, ScanStops(j)
  PROVE  IInv'
  <1> USE DEF server, pool
  <1>1. TypeOK /\ PoolInv(j) /\ ScanInv(j)
    BY DEF IInv
  <1>2. PICK how \in OnServer, found \in SUBSET Plugins[j] :
           /\ scan[j] = "running" /\ how # "running" /\ (how = "empty" => found = {})
           /\ scan' = [scan EXCEPT ![j] = how] /\ vulns' = [vulns EXCEPT ![j] = found]
    <2>1. vulns = [vulns EXCEPT ![j] = {}]
      <3>1. vulns[j] = {}
        BY <1>1 DEF PoolInv, ScanStops
      <3>2. DOMAIN vulns = Jobs
        BY <1>1 DEF TypeOK
      <3> QED
        BY <1>1, <3>1, <3>2 DEF TypeOK
    <2>2. CASE \E found \in SUBSET Plugins[j] :
                  /\ scan' = [scan EXCEPT ![j] = "completed"]
                  /\ vulns' = [vulns EXCEPT ![j] = found]
      BY <2>2 DEF ScanStops, OnServer
    <2>3. CASE \E how \in {"empty", "stopped"} :
                  scan' = [scan EXCEPT ![j] = how] /\ UNCHANGED vulns
      BY <2>1, <2>3 DEF ScanStops, OnServer
    <2> QED
      BY <2>2, <2>3 DEF ScanStops
  <1>3. UNCHANGED <<folder, orphan, pc, pool, emitted, result, cancelled, undeleted>>
    BY DEF ScanStops
  <1>4. TypeOK'
    <2>1. found \in SUBSET Nat
      BY <1>2, NessusAssumption
    <2>2. vulns' \in [Jobs -> SUBSET Nat] /\ scan' \in [Jobs -> OnServer \cup {"none"}]
      BY <1>1, <1>2, <2>1 DEF TypeOK
    <2>3. \A k \in Jobs : vulns'[k] \subseteq Plugins[k]
      BY <1>1, <1>2 DEF TypeOK
    <2> QED
      BY <1>1, <1>3, <2>2, <2>3 DEF TypeOK
  <1>5. \A k \in Jobs : k # j => Same(k)
    BY <1>1, <1>2, <1>3 DEF TypeOK, Same
  <1>6. PoolInv(j)'
    BY <1>1, <1>2, <1>3 DEF TypeOK, PoolInv, ScanInv, Early, Fetching, Sorted, Sent, Unsent
  <1>7. ScanInv(j)'
    BY <1>1, <1>2, <1>3 DEF TypeOK, ScanInv, Early, Fetching, Created, OnServer, Ended
  <1> QED
    BY <1>4, <1>5, <1>6, <1>7, OneJob

LEMMA ConnectKeeps ==
  ASSUME IInv, NEW j \in Jobs, Connect(j)
  PROVE  IInv'
  <1> USE DEF Connect, Go, Return, Leave, Ended, server, pool
  <1>1. TypeOK /\ PoolInv(j) /\ ScanInv(j)
    BY DEF IInv
  <1>2. TypeOK'
    BY <1>1 DEF TypeOK, Steps, OnServer
  <1>3. \A k \in Jobs : k # j => Same(k)
    BY <1>1 DEF TypeOK, Same
  <1>4. PoolInv(j)'
    BY <1>1 DEF TypeOK, PoolInv, ScanInv, Early, Fetching, Sorted, Sent, Unsent
  <1>5. ScanInv(j)'
    BY <1>1 DEF TypeOK, PoolInv, ScanInv, Early, Fetching, Created, OnServer
  <1> QED
    BY <1>2, <1>3, <1>4, <1>5, OneJob

LEMMA FindFolderKeeps ==
  ASSUME IInv, NEW j \in Jobs, FindFolder(j)
  PROVE  IInv'
  <1> USE DEF FindFolder, Go, Return, Leave, Ended, server, pool
  <1>1. TypeOK /\ PoolInv(j) /\ ScanInv(j)
    BY DEF IInv
  <1>2. TypeOK'
    BY <1>1 DEF TypeOK, Steps, OnServer
  <1>3. \A k \in Jobs : k # j => Same(k)
    BY <1>1 DEF TypeOK, Same
  <1>4. PoolInv(j)'
    BY <1>1 DEF TypeOK, PoolInv, ScanInv, Early, Fetching, Sorted, Sent, Unsent
  <1>5. ScanInv(j)'
    BY <1>1 DEF TypeOK, PoolInv, ScanInv, Early, Fetching, Created, OnServer
  <1> QED
    BY <1>2, <1>3, <1>4, <1>5, OneJob

LEMMA MakeFolderKeeps ==
  ASSUME IInv, NEW j \in Jobs, MakeFolder(j)
  PROVE  IInv'
  <1> USE DEF MakeFolder, Go, Return, Leave, Ended, server, pool
  <1>1. TypeOK /\ PoolInv(j) /\ ScanInv(j)
    BY DEF IInv
  <1>2. TypeOK'
    BY <1>1 DEF TypeOK, Steps, OnServer
  <1>3. \A k \in Jobs : k # j => Same(k)
    BY <1>1 DEF TypeOK, Same
  <1>4. PoolInv(j)'
    BY <1>1 DEF TypeOK, PoolInv, ScanInv, Early, Fetching, Sorted, Sent, Unsent
  <1>5. ScanInv(j)'
    BY <1>1 DEF TypeOK, PoolInv, ScanInv, Early, Fetching, Created, OnServer
  <1> QED
    BY <1>2, <1>3, <1>4, <1>5, OneJob

LEMMA CreateScanKeeps ==
  ASSUME IInv, NEW j \in Jobs, CreateScan(j)
  PROVE  IInv'
  <1> USE DEF CreateScan, Go, Return, Leave, Ended, server, pool
  <1>1. TypeOK /\ PoolInv(j) /\ ScanInv(j)
    BY DEF IInv
  <1>2. TypeOK'
    BY <1>1 DEF TypeOK, Steps, OnServer
  <1>3. \A k \in Jobs : k # j => Same(k)
    BY <1>1 DEF TypeOK, Same
  <1>4. PoolInv(j)'
    BY <1>1 DEF TypeOK, PoolInv, ScanInv, Early, Fetching, Sorted, Sent, Unsent
  <1>5. ScanInv(j)'
    BY <1>1 DEF TypeOK, PoolInv, ScanInv, Early, Fetching, Created, OnServer
  <1> QED
    BY <1>2, <1>3, <1>4, <1>5, OneJob

LEMMA PollKeeps ==
  ASSUME IInv, NEW j \in Jobs, Poll(j)
  PROVE  IInv'
  <1> USE DEF Go, Leave, server, pool
  <1>1. TypeOK /\ PoolInv(j) /\ ScanInv(j)
    BY DEF IInv
  <1>2. UNCHANGED <<server, inflight, fetched, failed, emitted, cancelled, undeleted>>
    BY DEF Poll
  <1>3. CASE /\ scan[j] = "completed" /\ todo' = [todo EXCEPT ![j] = vulns[j]]
             /\ Go(j, "fetch") /\ UNCHANGED result
    <2>1. TypeOK'
      BY <1>1, <1>2, <1>3 DEF TypeOK, Steps
    <2>2. \A k \in Jobs : k # j => Same(k)
      BY <1>1, <1>2, <1>3 DEF TypeOK, Same
    <2>3. todo'[j] = vulns[j] /\ pc'[j] = "fetch"
      BY <1>1, <1>3 DEF TypeOK
    <2>4. ~failed'[j] => vulns'[j] = todo'[j] \cup inflight'[j] \cup fetched'[j]
      BY <1>1, <1>2, <2>3 DEF Poll, PoolInv
    <2>5. PoolInv(j)'
      BY <1>1, <1>2, <1>3, <2>3, <2>4 DEF Poll, PoolInv, ScanInv, Early, Fetching
    <2>6. ScanInv(j)'
      BY <1>1, <1>2, <1>3, <2>3
      DEF Poll, TypeOK, PoolInv, ScanInv, Early, Fetching, Created, OnServer, Ended
    <2> QED
      BY <2>1, <2>2, <2>5, <2>6, OneJob
  <1>4. CASE scan[j] = "empty" /\ Go(j, "delete") /\ UNCHANGED <<todo, result>>
    <2>1. TypeOK'
      BY <1>1, <1>2, <1>4 DEF TypeOK, Steps
    <2>2. \A k \in Jobs : k # j => Same(k)
      BY <1>1, <1>2, <1>4 DEF TypeOK, Same
    <2>3. Sent(j)' = vulns'[j] /\ Sorted(j)'
      BY <1>1, <1>2, <1>4 DEF Poll, PoolInv, Sent, Sorted
    <2>4. PoolInv(j)' /\ ScanInv(j)'
      BY <1>1, <1>2, <1>4, <2>3
      DEF Poll, TypeOK, PoolInv, ScanInv, Early, Fetching, Created, OnServer, Ended
    <2> QED
      BY <2>1, <2>2, <2>4, OneJob
  <1>5. CASE Leave(j, "error") /\ UNCHANGED todo
    <2>1. TypeOK'
      BY <1>1, <1>2, <1>5 DEF TypeOK, Steps
    <2>2. \A k \in Jobs : k # j => Same(k)
      BY <1>1, <1>2, <1>5 DEF TypeOK, Same
    <2>3. PoolInv(j)' /\ ScanInv(j)'
      BY <1>1, <1>2, <1>5
      DEF Poll, TypeOK, PoolInv, ScanInv, Early, Fetching, Created, OnServer, Ended
    <2> QED
      BY <2>1, <2>2, <2>3, OneJob
  <1> QED
    BY <1>3, <1>4, <1>5 DEF Poll

LEMMA PollStopsKeeps ==
  ASSUME IInv, NEW j \in Jobs, PollStops(j)
  PROVE  IInv'
  <1> USE DEF PollStops, Go, Return, Leave, Ended, Hears, server, pool
  <1>1. TypeOK /\ PoolInv(j) /\ ScanInv(j)
    BY DEF IInv
  <1>2. TypeOK'
    BY <1>1 DEF TypeOK, Steps, OnServer
  <1>3. \A k \in Jobs : k # j => Same(k)
    BY <1>1 DEF TypeOK, Same
  <1>4. PoolInv(j)'
    BY <1>1 DEF TypeOK, PoolInv, ScanInv, Early, Fetching, Sorted, Sent, Unsent
  <1>5. ScanInv(j)'
    BY <1>1 DEF TypeOK, PoolInv, ScanInv, Early, Fetching, Created, OnServer
  <1> QED
    BY <1>2, <1>3, <1>4, <1>5, OneJob

LEMMA NextPluginKeeps ==
  ASSUME IInv, NEW j \in Jobs, NextPlugin(j)
  PROVE  IInv'
  <1> USE DEF NextPlugin, Go, Return, Leave, Ended, server, pool
  <1>1. TypeOK /\ PoolInv(j) /\ ScanInv(j)
    BY DEF IInv
  <1>2. TypeOK'
    BY <1>1 DEF TypeOK, Steps, OnServer
  <1>3. \A k \in Jobs : k # j => Same(k)
    BY <1>1 DEF TypeOK, Same
  <1>4. PoolInv(j)'
    BY <1>1 DEF TypeOK, PoolInv, ScanInv, Early, Fetching, Sorted, Sent, Unsent
  <1>5. ScanInv(j)'
    BY <1>1 DEF TypeOK, PoolInv, ScanInv, Early, Fetching, Created, OnServer
  <1> QED
    BY <1>2, <1>3, <1>4, <1>5, OneJob

LEMMA StartWorkerKeeps ==
  ASSUME IInv, NEW j \in Jobs, StartWorker(j)
  PROVE  IInv'
  <1> USE DEF Go, server, pool
  <1>1. TypeOK /\ PoolInv(j) /\ ScanInv(j)
    BY DEF IInv
  <1>2. PICK p \in todo[j] : /\ todo' = [todo EXCEPT ![j] = @ \ {p}]
                             /\ inflight' = [inflight EXCEPT ![j] = @ \cup {p}]
    BY DEF StartWorker
  <1>3. /\ pc[j] = "slot" /\ pc' = [pc EXCEPT ![j] = "fetch"]
        /\ UNCHANGED <<server, fetched, failed, emitted, result, cancelled, undeleted>>
    BY DEF StartWorker
  <1>4. TypeOK'
    BY <1>1, <1>2, <1>3 DEF TypeOK, Steps
  <1>5. \A k \in Jobs : k # j => Same(k)
    BY <1>1, <1>2, <1>3 DEF TypeOK, Same
  <1>6. todo'[j] \cup inflight'[j] = todo[j] \cup inflight[j]
    <2>1. todo'[j] = todo[j] \ {p} /\ inflight'[j] = inflight[j] \cup {p}
      BY <1>1, <1>2 DEF TypeOK
    <2> QED
      BY <2>1
  <1>7. PoolInv(j)'
    BY <1>1, <1>3, <1>6 DEF TypeOK, PoolInv, ScanInv, Early, Fetching
  <1>8. ScanInv(j)'
    BY <1>1, <1>3 DEF TypeOK, ScanInv, Early, Fetching, Created, OnServer, Ended
  <1> QED
    BY <1>4, <1>5, <1>7, <1>8, OneJob

LEMMA JoinKeeps ==
  ASSUME IInv, NEW j \in Jobs, Join(j)
  PROVE  IInv'
  <1> USE DEF Join, Go, Leave, server, pool
  <1>1. TypeOK /\ PoolInv(j) /\ ScanInv(j)
    BY DEF IInv
  <1>2. TypeOK'
    BY <1>1 DEF TypeOK, Steps
  <1>3. \A k \in Jobs : k # j => Same(k)
    BY <1>1 DEF TypeOK, Same
  <1>4. Sent(j)' = {} /\ Sorted(j)' /\ \A i \in DOMAIN emitted'[j] : FALSE
    BY <1>1 DEF PoolInv, Fetching, Sent, Sorted
  <1>5. pc'[j] = "emit" => vulns'[j] = fetched'[j]
    BY <1>1 DEF TypeOK, PoolInv, Fetching, FetchFailed
  <1>6. PoolInv(j)'
    BY <1>1, <1>4, <1>5 DEF TypeOK, PoolInv, ScanInv, Early, Fetching
  <1>7. ScanInv(j)'
    BY <1>1 DEF TypeOK, ScanInv, Early, Fetching, Created, OnServer, Ended
  <1> QED
    BY <1>2, <1>3, <1>6, <1>7, OneJob

LEMMA EmitEndsKeeps ==
  ASSUME IInv, NEW j \in Jobs, EmitEnds(j)
  PROVE  IInv'
  <1> USE DEF EmitEnds, Go, Return, Leave, Ended, Unsent, server, pool
  <1>1. TypeOK /\ PoolInv(j) /\ ScanInv(j)
    BY DEF IInv
  <1>2. TypeOK'
    BY <1>1 DEF TypeOK, Steps, OnServer
  <1>3. \A k \in Jobs : k # j => Same(k)
    BY <1>1 DEF TypeOK, Same
  <1>4. PoolInv(j)'
    BY <1>1 DEF TypeOK, PoolInv, ScanInv, Early, Fetching, Sorted, Sent, Unsent
  <1>5. ScanInv(j)'
    BY <1>1 DEF TypeOK, PoolInv, ScanInv, Early, Fetching, Created, OnServer
  <1> QED
    BY <1>2, <1>3, <1>4, <1>5, OneJob

LEMMA EmitStopsKeeps ==
  ASSUME IInv, NEW j \in Jobs, EmitStops(j)
  PROVE  IInv'
  <1> USE DEF EmitStops, Go, Return, Leave, Ended, Unsent, server, pool
  <1>1. TypeOK /\ PoolInv(j) /\ ScanInv(j)
    BY DEF IInv
  <1>2. TypeOK'
    BY <1>1 DEF TypeOK, Steps, OnServer
  <1>3. \A k \in Jobs : k # j => Same(k)
    BY <1>1 DEF TypeOK, Same
  <1>4. PoolInv(j)'
    BY <1>1 DEF TypeOK, PoolInv, ScanInv, Early, Fetching, Sorted, Sent, Unsent
  <1>5. ScanInv(j)'
    BY <1>1 DEF TypeOK, PoolInv, ScanInv, Early, Fetching, Created, OnServer
  <1> QED
    BY <1>2, <1>3, <1>4, <1>5, OneJob

LEMMA DeleteScanKeeps ==
  ASSUME IInv, NEW j \in Jobs, DeleteScan(j)
  PROVE  IInv'
  <1> USE DEF DeleteScan, Go, Return, Leave, Ended, Remove, server, pool
  <1>1. TypeOK /\ PoolInv(j) /\ ScanInv(j)
    BY DEF IInv
  <1>2. TypeOK'
    BY <1>1 DEF TypeOK, Steps, OnServer
  <1>3. \A k \in Jobs : k # j => Same(k)
    BY <1>1 DEF TypeOK, Same
  <1>4. PoolInv(j)'
    BY <1>1 DEF TypeOK, PoolInv, ScanInv, Early, Fetching, Sorted, Sent, Unsent
  <1>5. ScanInv(j)'
    BY <1>1 DEF TypeOK, PoolInv, ScanInv, Early, Fetching, Created, OnServer
  <1> QED
    BY <1>2, <1>3, <1>4, <1>5, OneJob

LEMMA DeferredKeeps ==
  ASSUME IInv, NEW j \in Jobs, Deferred(j)
  PROVE  IInv'
  <1> USE DEF Deferred, Go, Return, Leave, Ended, MustCleanUp, server, pool
  <1>1. TypeOK /\ PoolInv(j) /\ ScanInv(j)
    BY DEF IInv
  <1>2. TypeOK'
    BY <1>1 DEF TypeOK, Steps, OnServer
  <1>3. \A k \in Jobs : k # j => Same(k)
    BY <1>1 DEF TypeOK, Same
  <1>4. PoolInv(j)'
    BY <1>1 DEF TypeOK, PoolInv, ScanInv, Early, Fetching, Sorted, Sent, Unsent
  <1>5. ScanInv(j)'
    BY <1>1 DEF TypeOK, PoolInv, ScanInv, Early, Fetching, Created, OnServer
  <1> QED
    BY <1>2, <1>3, <1>4, <1>5, OneJob

LEMMA KillScanKeeps ==
  ASSUME IInv, NEW j \in Jobs, KillScan(j)
  PROVE  IInv'
  <1> USE DEF KillScan, Go, Return, Leave, Ended, server, pool
  <1>1. TypeOK /\ PoolInv(j) /\ ScanInv(j)
    BY DEF IInv
  <1>2. TypeOK'
    BY <1>1 DEF TypeOK, Steps, OnServer
  <1>3. \A k \in Jobs : k # j => Same(k)
    BY <1>1 DEF TypeOK, Same
  <1>4. PoolInv(j)'
    BY <1>1 DEF TypeOK, PoolInv, ScanInv, Early, Fetching, Sorted, Sent, Unsent
  <1>5. ScanInv(j)'
    BY <1>1 DEF TypeOK, PoolInv, ScanInv, Early, Fetching, Created, OnServer
  <1> QED
    BY <1>2, <1>3, <1>4, <1>5, OneJob

LEMMA RemoveScanKeeps ==
  ASSUME IInv, NEW j \in Jobs, RemoveScan(j)
  PROVE  IInv'
  <1> USE DEF RemoveScan, Go, Return, Leave, Ended, Remove, server, pool
  <1>1. TypeOK /\ PoolInv(j) /\ ScanInv(j)
    BY DEF IInv
  <1>2. TypeOK'
    BY <1>1 DEF TypeOK, Steps, OnServer
  <1>3. \A k \in Jobs : k # j => Same(k)
    BY <1>1 DEF TypeOK, Same
  <1>4. PoolInv(j)'
    BY <1>1 DEF TypeOK, PoolInv, ScanInv, Early, Fetching, Sorted, Sent, Unsent
  <1>5. ScanInv(j)'
    BY <1>1 DEF TypeOK, PoolInv, ScanInv, Early, Fetching, Created, OnServer
  <1> QED
    BY <1>2, <1>3, <1>4, <1>5, OneJob

LEMMA WorkerEndsKeeps ==
  ASSUME IInv, NEW j \in Jobs, NEW p \in Plugins[j], WorkerEnds(j, p)
  PROVE  IInv'
  <1> USE DEF server
  <1>1. TypeOK /\ PoolInv(j) /\ ScanInv(j)
    BY DEF IInv
  <1>2. /\ p \in inflight[j] /\ inflight' = [inflight EXCEPT ![j] = @ \ {p}]
        /\ UNCHANGED <<server, pc, todo, emitted, result, cancelled, undeleted>>
    BY DEF WorkerEnds, Output
  <1>3. PICK got \in SUBSET {p}, f \in BOOLEAN :
           /\ fetched' = [fetched EXCEPT ![j] = @ \cup got]
           /\ failed' = [failed EXCEPT ![j] = f]
           /\ ~f => got = {p} /\ ~failed[j]
    <2>1. /\ fetched = [fetched EXCEPT ![j] = @ \cup {}]
          /\ failed = [failed EXCEPT ![j] = failed[j]]
      <3>1. fetched[j] \cup {} = fetched[j]
        OBVIOUS
      <3> QED
        BY <1>1, <3>1 DEF TypeOK
    <2>2. CASE fetched' = [fetched EXCEPT ![j] = @ \cup {p}] /\ UNCHANGED failed
      BY <1>1, <2>1, <2>2 DEF TypeOK
    <2>3. CASE failed' = [failed EXCEPT ![j] = TRUE] /\ UNCHANGED fetched
      BY <2>1, <2>3
    <2> QED
      BY <2>2, <2>3 DEF WorkerEnds, Output
  <1>4. TypeOK'
    BY <1>1, <1>2, <1>3 DEF TypeOK
  <1>5. \A k \in Jobs : k # j => Same(k)
    BY <1>1, <1>2, <1>3 DEF TypeOK, Same
  <1>6. /\ pc[j] \notin Early \cup {"poll", "emit", "delete"}
        /\ failed'[j] \in BOOLEAN
        /\ ~failed'[j] => /\ ~failed[j]
                          /\ inflight'[j] \cup fetched'[j] = inflight[j] \cup fetched[j]
    <2>1. /\ inflight'[j] = inflight[j] \ {p} /\ fetched'[j] = fetched[j] \cup got
          /\ failed'[j] = f
      BY <1>1, <1>2, <1>3 DEF TypeOK
    <2>2. pc[j] \notin Early \cup {"poll", "emit", "delete"}
      BY <1>1, <1>2 DEF PoolInv
    <2>3. ~f => inflight'[j] \cup fetched'[j] = inflight[j] \cup fetched[j]
      BY <1>2, <1>3, <2>1
    <2> QED
      BY <1>3, <2>1, <2>2, <2>3
  <1>7. PoolInv(j)'
    BY <1>1, <1>2, <1>6 DEF TypeOK, PoolInv, Early, Fetching, Sent, Sorted
  <1>8. ScanInv(j)'
    BY <1>1, <1>2 DEF ScanInv, Early, Fetching, Created, OnServer, Ended
  <1> QED
    BY <1>4, <1>5, <1>7, <1>8, OneJob

LEMMA AppendFacts ==
  ASSUME NEW e \in Seq(Nat), NEW p \in Nat, NEW f, f = Append(e, p)
  PROVE  /\ f \in Seq(Nat) /\ Len(e) \in Nat
         /\ DOMAIN f = 1..(Len(e) + 1) /\ DOMAIN e = 1..Len(e)
         /\ f[Len(e) + 1] = p
         /\ \A i \in 1..Len(e) : f[i] = e[i] /\ e[i] \in Nat
  OBVIOUS

LEMMA EmitFindingKeeps ==
  ASSUME IInv, NEW j \in Jobs, EmitFinding(j)
  PROVE  IInv'
  <1> USE DEF server, pool
  <1>1. TypeOK /\ PoolInv(j) /\ ScanInv(j)
    BY DEF IInv
  <1>2. PICK p \in Unsent(j) : /\ \A q \in Unsent(j) : p <= q
                               /\ emitted' = [emitted EXCEPT ![j] = Append(@, p)]
    BY DEF EmitFinding
  <1>3. /\ pc[j] = "emit"
        /\ UNCHANGED <<server, pc, pool, result, cancelled, undeleted>>
    BY DEF EmitFinding
  <1> DEFINE e == emitted[j]
             n == Len(e) + 1
  <1>4. /\ e \in Seq(Nat) /\ p \in Plugins[j] /\ Plugins[j] \subseteq Nat
        /\ fetched[j] \subseteq Plugins[j]
    BY <1>1, NessusAssumption DEF TypeOK, Unsent
  <1>5. /\ emitted'[j] = Append(e, p) /\ DOMAIN emitted'[j] = 1..n /\ DOMAIN e = 1..Len(e)
        /\ emitted'[j][n] = p /\ \A i \in 1..Len(e) : emitted'[j][i] = e[i] /\ e[i] \in Nat
        /\ Len(e) \in Nat /\ emitted'[j] \in Seq(Nat)
    <2>1. emitted'[j] = Append(e, p)
      BY <1>1, <1>2 DEF TypeOK
    <2> HIDE DEF e
    <2>2. n = Len(e) + 1
      OBVIOUS
    <2> QED
      BY <1>4, <2>1, <2>2, AppendFacts
  <1>6. TypeOK'
    <2>1. emitted'[j] \in Seq(Nat)
      BY <1>5
    <2>2. emitted' \in [Jobs -> Seq(Nat)]
      <3>1. emitted' = [k \in Jobs |-> IF k = j THEN emitted'[j] ELSE emitted[k]]
        BY <1>1, <1>2 DEF TypeOK
      <3>2. \A k \in Jobs : emitted[k] \in Seq(Nat)
        BY <1>1 DEF TypeOK
      <3> QED
        BY <2>1, <3>1, <3>2
    <2> QED
      BY <1>1, <1>3, <2>2 DEF TypeOK
  <1>7. \A k \in Jobs : k # j => Same(k)
    BY <1>1, <1>2, <1>3 DEF TypeOK, Same
  <1>8. Sent(j)' = Sent(j) \cup {p} /\ Unsent(j)' = Unsent(j) \ {p}
    <2>1. Sent(j)' = Sent(j) \cup {p}
      BY <1>4, <1>5 DEF Sent
    <2> QED
      BY <1>3, <2>1 DEF Unsent
  <1>9. PoolInv(j)'
    <2>1. Sent(j)' \subseteq fetched'[j]
      BY <1>1, <1>3, <1>8 DEF PoolInv, Unsent
    <2>2. ASSUME NEW i \in 1..n, NEW q \in Unsent(j)'
          PROVE  emitted'[j][i] < q
      <3>1. q \in Unsent(j) /\ q # p /\ p <= q /\ p \in Nat /\ q \in Nat
        BY <1>2, <1>4, <1>8 DEF Unsent
      <3>2. CASE i = n
        BY <1>5, <3>1, <3>2
      <3>3. CASE i \in 1..Len(e)
        BY <1>1, <1>3, <1>5, <3>1, <3>3 DEF PoolInv
      <3> QED
        BY <1>4, <3>2, <3>3
    <2>3. Sorted(j)'
      <3> SUFFICES ASSUME NEW i \in 1..n, NEW k \in 1..n, i < k
                   PROVE  emitted'[j][i] < emitted'[j][k]
        BY <1>5 DEF Sorted
      <3>1. i \in 1..Len(e)
        BY <1>4
      <3>2. CASE k = n
        BY <1>1, <1>3, <1>5, <3>1, <3>2 DEF PoolInv
      <3>3. CASE k \in 1..Len(e)
        BY <1>1, <1>3, <1>5, <3>1, <3>3 DEF PoolInv, Sorted
      <3> QED
        BY <1>4, <3>2, <3>3
    <2> QED
      BY <1>1, <1>3, <1>5, <2>1, <2>2, <2>3 DEF PoolInv, ScanInv, Early, Fetching
  <1>10. ScanInv(j)'
    BY <1>1, <1>3 DEF ScanInv, Early, Fetching, Created, OnServer, Ended
  <1> QED
    BY <1>6, <1>7, <1>9, <1>10, OneJob

-----------------------------------------------------------------------------
LEMMA NextKeeps == IInv /\ [Next]_vars => IInv'
  <1> SUFFICES ASSUME IInv, [Next]_vars PROVE IInv'
    OBVIOUS
  <1>1. ASSUME NEW j \in Jobs, OwnStep(j)
        PROVE  IInv'
    BY <1>1, ConnectKeeps, FindFolderKeeps, MakeFolderKeeps, CreateScanKeeps,
       NextPluginKeeps, StartWorkerKeeps, JoinKeeps, EmitEndsKeeps, DeleteScanKeeps,
       DeferredKeeps, KillScanKeeps, RemoveScanKeeps DEF OwnStep
  <1>2. ASSUME NEW j \in Jobs, WorkerStep(j)
        PROVE  IInv'
    BY <1>2, WorkerEndsKeeps DEF WorkerStep
  <1>3. ASSUME NEW j \in Jobs,
               \/ Poll(j) \/ PollStops(j) \/ EmitFinding(j) \/ EmitStops(j)
               \/ Cancel(j) \/ ScanStops(j)
        PROVE  IInv'
    BY <1>3, PollKeeps, PollStopsKeeps, EmitFindingKeeps, EmitStopsKeeps,
       CancelKeeps, ScanStopsKeeps
  <1>4. CASE UNCHANGED vars
    <2>1. TypeOK'
      BY <1>4 DEF vars, server, pool, IInv, TypeOK
    <2>2. \A k \in Jobs : Same(k)
      BY <1>4 DEF vars, server, pool, Same
    <2> QED
      BY <2>1, <2>2, SameKeeps DEF IInv
  <1> QED
    BY <1>1, <1>2, <1>3, <1>4 DEF Next, AllEnded

THEOREM Invariance == Spec => []IInv
  BY InitIInv, NextKeeps, PTL DEF Spec

(* The state of module NessusScan keeps its types.                         *)
THEOREM TypeCorrect == Spec => []TypeOK
  <1>1. IInv => TypeOK
    BY DEF IInv
  <1> QED
    BY <1>1, Invariance, PTL

(* Retention on failure: nothing but a success or the end of the context   *)
(* takes a created scan off the server.                                    *)
THEOREM FailuresKeepScans == Spec => []FailureKeepsScan
  BY Invariance, IInvImplies, PTL

(* No license is held by the scan that a job that succeeded or was         *)
(* cancelled knows to be its own, unless the request to delete it failed.  *)
THEOREM LicensesComeBack == Spec => []LicenseIsReturned
  BY Invariance, IInvImplies, PTL

(* A success reports every plugin once, in order, however the workers ran. *)
THEOREM SuccessesAreWhole == Spec => []SuccessIsWhole
  BY Invariance, IInvImplies, PTL
=============================================================================
