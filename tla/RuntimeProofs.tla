--------------------------- MODULE RuntimeProofs ---------------------------
(***************************************************************************)
(* What module Runtime guarantees for any number of executions and any     *)
(* capacities: the gate, the cancel map, the fate of a lost Done, what a   *)
(* Done vouches for and what Run returns for.                              *)
(***************************************************************************)
EXTENDS Runtime, SequenceTheorems, TLAPS

(* The gate's token and the one execution that holds it.                   *)
GateInv ==
    \/ execGate = 0 /\ \A e \in Execs : ~HoldsGate(e)
    \/ execGate = 1 /\ \E e \in Execs : \A f \in Execs : HoldsGate(f) <=> f = e

(* A Done that is being sent has its verdict.                              *)
DoneInv == \A e \in Execs : phase[e] = "finishing" => verdict[e] \in Verdicts

IInv == TypeOK /\ GateInv /\ DoneInv /\ CancelMapIsExact /\ LostDoneEndsRun
-----------------------------------------------------------------------------
LEMMA InitIInv == Init => IInv
  <1> SUFFICES ASSUME Init PROVE IInv
    OBVIOUS
  <1>1. TypeOK
    <2>1. msgCh \in Seq(WorkerMsg) /\ Len(msgCh) <= MsgCap
      BY RuntimeAssumption DEF Init
    <2>2. execErrCh \in Seq({"nil", "err"}) /\ Len(execErrCh) <= ErrCap
      BY RuntimeAssumption DEF Init
    <2>3. up \in Seq(ConnectorMsg) /\ stray \subseteq ConnectorMsg
      BY DEF Init
    <2>4. results \in [Execs -> Nat] /\ phase \in [Execs -> Phases]
      BY DEF Init, Phases
    <2>5. /\ call \in [Execs -> {"idle", "pending", "ok", "failed"}]
          /\ verdict \in [Execs -> Verdicts \cup {"none", "unsent"}]
          /\ adapter \in [Execs -> {"idle", "running", "nil", "err"}]
          /\ fault \in [Execs -> {"none", "send", "invalid"}]
      BY DEF Init
    <2> QED
      BY <2>1, <2>2, <2>3, <2>4, <2>5 DEF Init, TypeOK
  <1>2. GateInv /\ DoneInv /\ CancelMapIsExact /\ LostDoneEndsRun
    BY DEF Init, GateInv, HoldsGate, DoneInv, CancelMapIsExact, Executing, LostDoneEndsRun
  <1> QED
    BY <1>1, <1>2 DEF IInv

(* What a send puts on the stream is a message.                            *)
LEMMA SendingType ==
  ASSUME TypeOK, DoneInv, NEW e \in Execs
  PROVE  Sending(e) \in ConnectorMsg
  <1>1. CASE phase[e] = "finishing"
    BY <1>1 DEF Sending, Done, ConnectorMsg, DoneInv
  <1>2. CASE phase[e] # "finishing"
    BY <1>2 DEF Sending, Result, ConnectorMsg, TypeOK
  <1> QED
    BY <1>1, <1>2

LEMMA TypeStep == TypeOK /\ GateInv /\ DoneInv /\ [Next]_vars => TypeOK'
  <1> SUFFICES ASSUME TypeOK, GateInv, DoneInv, [Next]_vars PROVE TypeOK'
    OBVIOUS
  <1> USE RuntimeAssumption DEF TypeOK, workerVars, loopVars, execVars, sendVars, Alive, Serving
  <1>1. CASE StartFails
    BY <1>1 DEF StartFails, Return
  <1>2. CASE SendRegister
    BY <1>2 DEF SendRegister
  <1>3. CASE AwaitAck
    BY <1>3 DEF AwaitAck, Return
  <1>4. CASE TakeExecute
    <2>1. Head(msgCh) \in WorkerMsg
      BY <1>4, HeadTailProperties DEF TakeExecute
    <2>3. Head(msgCh).id \in Execs
      BY <2>1 DEF WorkerMsg
    <2>2. Tail(msgCh) \in Seq(WorkerMsg) /\ Len(Tail(msgCh)) <= MsgCap
      BY <1>4 DEF TakeExecute
    <2> QED
      BY <1>4, <2>2, <2>3 DEF TakeExecute
  <1>5. CASE TakeCancel
    BY <1>5 DEF TakeCancel, WorkerMsg
  <1>6. CASE TakeRecvError
    BY <1>6 DEF TakeRecvError, Return
  <1>7. CASE TakeExecError
    BY <1>7 DEF TakeExecError, Return
  <1>8. CASE TakeShutdown
    BY <1>8 DEF TakeShutdown, Return
  <1>9. ASSUME NEW e \in Execs, PassGate(e) PROVE TypeOK'
    BY <1>9 DEF PassGate, GateFree, Phases
  <1>10. CASE ReceiveError
    BY <1>10 DEF ReceiveError
  <1>11. CASE LinkCloses
    BY <1>11 DEF LinkCloses
  <1>12. CASE Shutdown
    BY <1>12 DEF Shutdown
  <1>13. ASSUME NEW e \in Execs, ReceiveExecute(e) PROVE TypeOK'
    BY <1>13 DEF ReceiveExecute, Receive, MsgRoom, WorkerMsg
  <1>14. ASSUME NEW e \in Execs, ReceiveCancel(e) PROVE TypeOK'
    BY <1>14 DEF ReceiveCancel, Receive, MsgRoom, WorkerMsg
  <1>15. ASSUME NEW e \in Execs, HandleStep(e) PROVE TypeOK'
    <2> USE DEF Phases
    <2>1. CASE StoreCancel(e)
      BY <2>1 DEF StoreCancel
    <2>2. CASE FlushSent(e)
      BY <2>2, SendingType DEF FlushSent, LeaveSend
    <2>3. CASE FlushFails(e)
      BY <2>3, SendingType DEF FlushFails, LeaveSend
    <2>4. CASE OutClosed(e)
      BY <2>4 DEF OutClosed
    <2>5. CASE AwaitAdapter(e)
      BY <2>5 DEF AwaitAdapter, Outcome, Verdicts
    <2>6. CASE DoneSent(e)
      BY <2>6, SendingType DEF DoneSent, ReturnFromHandle, LeaveSend
    <2>7. CASE DoneFails(e)
      BY <2>7, SendingType DEF DoneFails, ReturnFromHandle, LeaveSend
    <2>8. CASE ReportError(e)
      BY <2>8 DEF ReportError, Reported
    <2>9. CASE ReleaseGate(e)
      <3>1. execGate = 1
        BY <2>9 DEF ReleaseGate, ReachesRelease, GateInv, HoldsGate
      <3> QED
        BY <2>9, <3>1 DEF ReleaseGate
    <2> QED
      BY <1>15, <2>1, <2>2, <2>3, <2>4, <2>5, <2>6, <2>7, <2>8, <2>9 DEF HandleStep
  <1>16. ASSUME NEW e \in Execs, FlushBatch(e) PROVE TypeOK'
    BY <1>16 DEF FlushBatch, StartResult, Phases
  <1>17. ASSUME NEW e \in Execs, InvalidFinding(e) PROVE TypeOK'
    <2>1. CASE StartResult(e) /\ UNCHANGED aborted
      BY <1>17, <2>1 DEF InvalidFinding, StartResult, Phases
    <2>2. CASE phase' = [phase EXCEPT ![e] = "waiting"]
               /\ aborted' = aborted \cup {e} /\ UNCHANGED <<results, call>>
      BY <1>17, <2>2 DEF InvalidFinding, Phases
    <2> QED
      BY <1>17, <2>1, <2>2 DEF InvalidFinding
  <1>18. ASSUME NEW e \in Execs, AdapterReturns(e) PROVE TypeOK'
    BY <1>18 DEF AdapterReturns
  <1>19. ASSUME NEW e \in Execs, SendAccepted(e) PROVE TypeOK'
    BY <1>19, SendingType DEF SendAccepted
  <1>20. ASSUME NEW e \in Execs, SendFails(e) PROVE TypeOK'
    BY <1>20 DEF SendFails
  <1>21. ASSUME NEW m \in stray, StrayEnds(m) PROVE TypeOK'
    <2>1. m \in ConnectorMsg /\ stray' \subseteq ConnectorMsg
      BY <1>21 DEF StrayEnds
    <2>2. up' \in Seq(ConnectorMsg)
      <3>1. Append(up, m) \in Seq(ConnectorMsg)
        BY <2>1, AppendProperties
      <3> QED
        BY <1>21, <3>1 DEF StrayEnds
    <2> QED
      BY <1>21, <2>1, <2>2 DEF StrayEnds
  <1>22. CASE UNCHANGED vars
    BY <1>22 DEF vars
  <1> QED
    BY <1>1, <1>2, <1>3, <1>4, <1>5, <1>6, <1>7, <1>8, <1>9, <1>10, <1>11, <1>12,
       <1>13, <1>14, <1>15, <1>16, <1>17, <1>18, <1>19, <1>20, <1>21, <1>22
    DEF Next, RunStep, Environment, ExecStep, Terminated

-----------------------------------------------------------------------------
(* Only Run's start of an execution and the steps of its goroutine move    *)
(* what the other invariants speak of.                                     *)
StepsOf(e) == HandleStep(e) \/ FlushBatch(e) \/ InvalidFinding(e)

LEMMA StepKinds ==
  ASSUME [Next]_vars
  PROVE  \/ UNCHANGED <<phase, execGate, cancels, verdict>>
         \/ \E e \in Execs : PassGate(e) \/ StepsOf(e)
  <1> USE DEF workerVars, loopVars, execVars, sendVars
  <1>1. CASE StartFails \/ SendRegister \/ AwaitAck
    BY <1>1 DEF StartFails, SendRegister, AwaitAck
  <1>2. CASE TakeExecute \/ TakeCancel \/ TakeRecvError \/ TakeExecError \/ TakeShutdown
    BY <1>2 DEF TakeExecute, TakeCancel, TakeRecvError, TakeExecError, TakeShutdown
  <1>3. CASE ReceiveError \/ LinkCloses \/ Shutdown
    BY <1>3 DEF ReceiveError, LinkCloses, Shutdown
  <1>4. ASSUME NEW e \in Execs, ReceiveExecute(e) \/ ReceiveCancel(e)
        PROVE  UNCHANGED <<phase, execGate, cancels, verdict>>
    BY <1>4 DEF ReceiveExecute, ReceiveCancel, Receive
  <1>5. ASSUME NEW e \in Execs, AdapterReturns(e) \/ SendAccepted(e) \/ SendFails(e)
        PROVE  UNCHANGED <<phase, execGate, cancels, verdict>>
    BY <1>5 DEF AdapterReturns, SendAccepted, SendFails
  <1>6. ASSUME NEW m \in stray, StrayEnds(m)
        PROVE  UNCHANGED <<phase, execGate, cancels, verdict>>
    BY <1>6 DEF StrayEnds
  <1>7. CASE UNCHANGED vars
    BY <1>7 DEF vars
  <1> QED
    BY <1>1, <1>2, <1>3, <1>4, <1>5, <1>6, <1>7
    DEF Next, RunStep, Environment, ExecStep, Terminated, StepsOf

(* Between PassGate and ReleaseGate an execution only moves through phases *)
(* that hold the gate, and the gate is left alone.                         *)
LEMMA HoldingPhases ==
  ASSUME TypeOK, NEW e \in Execs, StepsOf(e)
  PROVE  \/ ReleaseGate(e)
         \/ /\ HoldsGate(e) /\ execGate' = execGate
            /\ \E p \in Phases \ {"new", "ended"} : phase' = [phase EXCEPT ![e] = p]
  <1> USE DEF HoldsGate, Phases, loopVars
  <1>1. CASE StoreCancel(e) \/ OutClosed(e) \/ AwaitAdapter(e) \/ ReportError(e)
    BY <1>1 DEF StoreCancel, OutClosed, AwaitAdapter, ReportError
  <1>2. CASE FlushSent(e) \/ FlushFails(e)
    BY <1>2 DEF FlushSent, FlushFails
  <1>3. CASE DoneSent(e) \/ DoneFails(e)
    BY <1>3 DEF DoneSent, DoneFails, ReturnFromHandle
  <1>4. CASE FlushBatch(e) \/ InvalidFinding(e)
    BY <1>4 DEF FlushBatch, InvalidFinding, StartResult
  <1> QED
    BY <1>1, <1>2, <1>3, <1>4 DEF StepsOf, HandleStep

LEMMA GateStep == TypeOK /\ GateInv /\ [Next]_vars => GateInv'
  <1> SUFFICES ASSUME TypeOK, GateInv, [Next]_vars PROVE GateInv'
    OBVIOUS
  <1>1. CASE UNCHANGED <<phase, execGate, cancels, verdict>>
    BY <1>1 DEF GateInv, HoldsGate
  <1>2. ASSUME NEW e \in Execs, PassGate(e) PROVE GateInv'
    <2>1. execGate = 0 /\ \A f \in Execs : ~HoldsGate(f)
      BY <1>2 DEF PassGate, GateFree, GateInv
    <2>2. execGate' = 1 /\ phase' = [phase EXCEPT ![e] = "spawned"]
      BY <1>2, <2>1 DEF PassGate
    <2>3. \A f \in Execs : HoldsGate(f)' <=> f = e
      BY <2>1, <2>2 DEF HoldsGate, TypeOK
    <2> QED
      BY <2>2, <2>3 DEF GateInv
  <1>3. ASSUME NEW e \in Execs, StepsOf(e) PROVE GateInv'
    <2>1. CASE ReleaseGate(e)
      <3>1. /\ HoldsGate(e) /\ execGate' = execGate - 1
            /\ phase' = [phase EXCEPT ![e] = "ended"]
        BY <2>1 DEF ReleaseGate, ReachesRelease, HoldsGate
      <3>2. execGate = 1 /\ \A f \in Execs : HoldsGate(f) <=> f = e
        BY <3>1 DEF GateInv
      <3>3. execGate' = 0 /\ \A f \in Execs : ~HoldsGate(f)'
        BY <3>1, <3>2 DEF HoldsGate, TypeOK
      <3> QED
        BY <3>3 DEF GateInv
    <2>2. CASE ~ReleaseGate(e)
      <3>1. HoldsGate(e) /\ execGate' = execGate
        BY <1>3, <2>2, HoldingPhases
      <3>2. \A f \in Execs : HoldsGate(f)' <=> HoldsGate(f)
        BY <1>3, <2>2, <3>1, HoldingPhases DEF HoldsGate, TypeOK
      <3> QED
        BY <3>1, <3>2 DEF GateInv
    <2> QED
      BY <2>1, <2>2
  <1> QED
    BY <1>1, <1>2, <1>3, StepKinds

LEMMA OutcomeType == ASSUME NEW e \in Execs PROVE Outcome(e) \in Verdicts
  BY DEF Outcome, Verdicts

LEMMA DoneStep == TypeOK /\ DoneInv /\ [Next]_vars => DoneInv'
  <1> SUFFICES ASSUME TypeOK, DoneInv, [Next]_vars PROVE DoneInv'
    OBVIOUS
  <1> USE DEF DoneInv, TypeOK, execVars
  <1>1. CASE UNCHANGED <<phase, execGate, cancels, verdict>>
    BY <1>1
  <1>2. ASSUME NEW e \in Execs, PassGate(e) PROVE DoneInv'
    BY <1>2 DEF PassGate
  <1>3. ASSUME NEW e \in Execs, StepsOf(e) PROVE DoneInv'
    <2>1. CASE AwaitAdapter(e)
      BY <2>1, OutcomeType DEF AwaitAdapter
    <2>2. CASE StoreCancel(e) \/ OutClosed(e) \/ ReportError(e) \/ ReleaseGate(e)
      BY <2>2 DEF StoreCancel, OutClosed, ReportError, ReleaseGate
    <2>3. CASE FlushSent(e) \/ FlushFails(e)
      BY <2>3 DEF FlushSent, FlushFails
    <2>4. CASE DoneSent(e)
      BY <2>4 DEF DoneSent, ReturnFromHandle
    <2>5. CASE DoneFails(e)
      BY <2>5 DEF DoneFails, ReturnFromHandle
    <2>6. CASE FlushBatch(e) \/ InvalidFinding(e)
      BY <2>6 DEF FlushBatch, InvalidFinding, StartResult
    <2> QED
      BY <1>3, <2>1, <2>2, <2>3, <2>4, <2>5, <2>6 DEF StepsOf, HandleStep
  <1> QED
    BY <1>1, <1>2, <1>3, StepKinds

LEMMA CancelMapStep ==
  TypeOK /\ GateInv /\ CancelMapIsExact /\ [Next]_vars => CancelMapIsExact'
  <1> SUFFICES ASSUME TypeOK, GateInv, CancelMapIsExact, [Next]_vars
               PROVE  CancelMapIsExact'
    OBVIOUS
  <1> USE DEF CancelMapIsExact, Executing, TypeOK
  <1>1. CASE UNCHANGED <<phase, execGate, cancels, verdict>>
    BY <1>1
  <1>2. ASSUME NEW e \in Execs, PassGate(e) PROVE CancelMapIsExact'
    <2>1. ~Executing(e)
      <3>1. execGate # 1
        BY <1>2 DEF PassGate, GateFree
      <3>2. ~HoldsGate(e)
        BY <3>1 DEF GateInv
      <3> QED
        BY <3>2 DEF HoldsGate
    <2> QED
      BY <1>2, <2>1 DEF PassGate
  <1>3. ASSUME NEW e \in Execs, StepsOf(e) PROVE CancelMapIsExact'
    <2>1. CASE StoreCancel(e)
      BY <2>1 DEF StoreCancel
    <2>2. CASE FlushSent(e) \/ FlushFails(e)
      BY <2>2 DEF FlushSent, FlushFails
    <2>3. CASE OutClosed(e) \/ AwaitAdapter(e)
      BY <2>3 DEF OutClosed, AwaitAdapter
    <2>4. CASE DoneSent(e) \/ DoneFails(e)
      BY <2>4 DEF DoneSent, DoneFails, ReturnFromHandle
    <2>5. CASE ReportError(e) \/ ReleaseGate(e)
      BY <2>5 DEF ReportError, ReleaseGate, ReachesRelease
    <2>6. CASE FlushBatch(e) \/ InvalidFinding(e)
      BY <2>6 DEF FlushBatch, InvalidFinding, StartResult
    <2> QED
      BY <1>3, <2>1, <2>2, <2>3, <2>4, <2>5, <2>6 DEF StepsOf, HandleStep
  <1> QED
    BY <1>1, <1>2, <1>3, StepKinds

(* While Run lives an error in execErrCh stays there.                      *)
ErrorWaits == \E i \in DOMAIN execErrCh : execErrCh[i] = "err"

LEMMA AppendedError ==
  ASSUME TypeOK, NEW r \in {"nil", "err"}, execErrCh' = Append(execErrCh, r),
         ErrorWaits \/ r = "err"
  PROVE  ErrorWaits'
  <1>1. /\ Len(execErrCh') = Len(execErrCh) + 1
        /\ \A i \in 1..Len(execErrCh) : execErrCh'[i] = execErrCh[i]
        /\ execErrCh'[Len(execErrCh) + 1] = r
        /\ execErrCh' \in Seq({"nil", "err"}) /\ execErrCh \in Seq({"nil", "err"})
    BY AppendProperties DEF TypeOK
  <1>2. DOMAIN execErrCh = 1..Len(execErrCh) /\ DOMAIN execErrCh' = 1..Len(execErrCh')
    BY <1>1, LenProperties
  <1> QED
    BY <1>1, <1>2 DEF ErrorWaits

LEMMA ErrChSteps ==
  ASSUME [Next]_vars
  PROVE  UNCHANGED execErrCh \/ TakeExecError \/ \E e \in Execs : ReportError(e)
  <1> USE DEF loopVars
  <1>1. CASE StartFails \/ SendRegister \/ AwaitAck
    BY <1>1 DEF StartFails, SendRegister, AwaitAck
  <1>2. CASE TakeExecute \/ TakeCancel \/ TakeRecvError \/ TakeShutdown
    BY <1>2 DEF TakeExecute, TakeCancel, TakeRecvError, TakeShutdown
  <1>3. CASE ReceiveError \/ LinkCloses \/ Shutdown
    BY <1>3 DEF ReceiveError, LinkCloses, Shutdown
  <1>4. ASSUME NEW e \in Execs, \/ ReceiveExecute(e) \/ ReceiveCancel(e) \/ PassGate(e)
                                \/ AdapterReturns(e) \/ SendAccepted(e) \/ SendFails(e)
        PROVE  UNCHANGED execErrCh
    BY <1>4 DEF ReceiveExecute, ReceiveCancel, Receive, PassGate, AdapterReturns,
                SendAccepted, SendFails
  <1>5. ASSUME NEW e \in Execs, \/ StoreCancel(e) \/ FlushSent(e) \/ FlushFails(e)
                                \/ OutClosed(e) \/ AwaitAdapter(e)
                                \/ FlushBatch(e) \/ InvalidFinding(e)
        PROVE  UNCHANGED execErrCh
    BY <1>5 DEF StoreCancel, FlushSent, FlushFails, OutClosed, AwaitAdapter,
                FlushBatch, InvalidFinding
  <1>6. ASSUME NEW e \in Execs, DoneSent(e) \/ DoneFails(e) \/ ReleaseGate(e)
        PROVE  UNCHANGED execErrCh
    BY <1>6 DEF DoneSent, DoneFails, ReleaseGate
  <1>7. ASSUME NEW m \in stray, StrayEnds(m) PROVE UNCHANGED execErrCh
    BY <1>7 DEF StrayEnds
  <1>8. CASE UNCHANGED vars
    BY <1>8 DEF vars
  <1> QED
    BY <1>1, <1>2, <1>3, <1>4, <1>5, <1>6, <1>7, <1>8
    DEF Next, RunStep, Environment, ExecStep, HandleStep, Terminated

LEMMA ErrorStays ==
  ASSUME TypeOK, [Next]_vars, ErrorWaits, Alive'
  PROVE  ErrorWaits'
  <1> USE DEF loopVars
  <1>1. CASE UNCHANGED execErrCh
    BY <1>1 DEF ErrorWaits
  <1>2. CASE TakeExecError
    <2>1. execErrCh # <<>> /\ Head(execErrCh) # "err" /\ execErrCh' = Tail(execErrCh)
      BY <1>2 DEF TakeExecError, Return, Alive
    <2>2. PICK i \in DOMAIN execErrCh : execErrCh[i] = "err"
      BY DEF ErrorWaits
    <2>3. /\ execErrCh \in Seq({"nil", "err"}) /\ Head(execErrCh) = execErrCh[1]
          /\ DOMAIN execErrCh = 1..Len(execErrCh) /\ Len(execErrCh) \in Nat
      BY <2>1, LenProperties DEF TypeOK
    <2>4. i \in 2..Len(execErrCh)
      BY <2>1, <2>2, <2>3
    <2>5. /\ Tail(execErrCh) \in Seq({"nil", "err"})
          /\ Len(Tail(execErrCh)) = Len(execErrCh) - 1
          /\ \A j \in 1..Len(Tail(execErrCh)) : Tail(execErrCh)[j] = execErrCh[j + 1]
      BY <2>1, <2>3, HeadTailProperties
    <2>6. DOMAIN execErrCh' = 1..(Len(execErrCh) - 1)
      BY <2>1, <2>5, LenProperties
    <2>7. i - 1 \in DOMAIN execErrCh' /\ execErrCh'[i - 1] = "err"
      BY <2>1, <2>2, <2>3, <2>4, <2>5, <2>6
    <2> QED
      BY <2>7 DEF ErrorWaits
  <1>3. ASSUME NEW e \in Execs, ReportError(e) PROVE ErrorWaits'
    BY <1>3, AppendedError DEF ReportError, Reported
  <1>4. UNCHANGED execErrCh \/ TakeExecError \/ \E e \in Execs : ReportError(e)
    BY ErrChSteps
  <1> QED
    BY <1>1, <1>2, <1>3, <1>4

LEMMA LostDoneStep ==
  TypeOK /\ LostDoneEndsRun /\ [Next]_vars => LostDoneEndsRun'
  <1> SUFFICES ASSUME TypeOK, LostDoneEndsRun, [Next]_vars,
                      NEW f \in Execs, verdict'[f] = "unsent",
                      phase'[f] \in {"releasing", "ended"}, Alive'
               PROVE  ErrorWaits'
    BY DEF LostDoneEndsRun, ErrorWaits, Alive
  <1>1. Alive
    <2>1. ~Alive => run' = run
      BY DEF Next, RunStep, Environment, ExecStep, HandleStep, Terminated, Alive, Serving,
             StartFails, SendRegister, AwaitAck, TakeExecute, TakeCancel, TakeRecvError,
             TakeExecError, TakeShutdown, PassGate, ReceiveError, LinkCloses, Shutdown,
             ReceiveExecute, ReceiveCancel, Receive, StoreCancel, FlushSent, FlushFails,
             OutClosed, AwaitAdapter, DoneSent, DoneFails, ReportError, ReleaseGate,
             FlushBatch, InvalidFinding, AdapterReturns, SendAccepted, SendFails,
             StrayEnds, vars, loopVars
    <2> QED
      BY <2>1 DEF Alive
  <1>2. CASE ErrorWaits
    BY <1>2, ErrorStays
  <1>3. CASE verdict[f] = "unsent" /\ phase[f] \in {"releasing", "ended"}
    BY <1>1, <1>3, <1>2 DEF LostDoneEndsRun, ErrorWaits
  <1>4. CASE ~(verdict[f] = "unsent" /\ phase[f] \in {"releasing", "ended"})
    <2>1. CASE UNCHANGED <<phase, execGate, cancels, verdict>>
      BY <1>4, <2>1
    <2> USE <1>4 DEF TypeOK
    <2>2. ASSUME NEW e \in Execs, PassGate(e) PROVE FALSE
      BY <2>2 DEF PassGate, execVars
    <2>3. ASSUME NEW e \in Execs, StepsOf(e) PROVE ErrorWaits'
      <3>1. CASE ReportError(e)
        <4>1. e = f /\ Reported(e) = "err"
          BY <3>1 DEF ReportError, Reported
        <4> QED
          BY <3>1, <4>1, AppendedError DEF ReportError
      <3>2. CASE StoreCancel(e) \/ OutClosed(e) \/ AwaitAdapter(e)
        BY <3>2, OutcomeType DEF StoreCancel, OutClosed, AwaitAdapter, Verdicts
      <3>3. CASE FlushSent(e) \/ FlushFails(e)
        BY <3>3 DEF FlushSent, FlushFails
      <3>4. CASE DoneSent(e) \/ DoneFails(e)
        BY <3>4 DEF DoneSent, DoneFails, ReturnFromHandle
      <3>5. CASE FlushBatch(e) \/ InvalidFinding(e)
        BY <3>5 DEF FlushBatch, InvalidFinding, StartResult
      <3>6. CASE ReleaseGate(e)
        BY <3>6 DEF ReleaseGate, ReachesRelease, execVars
      <3> QED
        BY <2>3, <3>1, <3>2, <3>3, <3>4, <3>5, <3>6 DEF StepsOf, HandleStep
    <2> QED
      BY <2>1, <2>2, <2>3, StepKinds
  <1> QED
    BY <1>3, <1>4

-----------------------------------------------------------------------------
LEMMA IInvStep == IInv /\ [Next]_vars => IInv'
  BY TypeStep, GateStep, DoneStep, CancelMapStep, LostDoneStep DEF IInv

THEOREM IInvHolds == Spec => []IInv
  BY InitIInv, IInvStep, PTL DEF Spec

(* The state of Run, of its channels and of every execution stays in range,*)
(* the buffered channels within their capacities.                          *)
THEOREM TypeCorrect == Spec => []TypeOK
  <1>1. IInv => TypeOK
    BY DEF IInv
  <1> QED
    BY <1>1, IInvHolds, PTL

(* One execution at a time per stream (runtime.go:232-261): the gate is    *)
(* given back exactly once per execution, so two never hold it together.   *)
THEOREM ExecutionsAreSerial == Spec => []OneExecution
  <1>1. IInv => OneExecution
    BY DEF IInv, GateInv, OneExecution
  <1> QED
    BY <1>1, IInvHolds, PTL

(* Runtime.cancels has an entry for an execution exactly while             *)
(* handleExecute is between storing it and returning.                      *)
THEOREM CancelMapTracksExecutions == Spec => []CancelMapIsExact
  <1>1. IInv => CancelMapIsExact
    BY DEF IInv
  <1> QED
    BY <1>1, IInvHolds, PTL

(* A Done that could not be sent is never forgotten: its error is in       *)
(* execErrCh until Run returns with it, or for another reason.             *)
THEOREM LostDoneIsReported == Spec => []LostDoneEndsRun
  <1>1. IInv => LostDoneEndsRun
    BY DEF IInv
  <1> QED
    BY <1>1, IInvHolds, PTL

-----------------------------------------------------------------------------
(* What is on the stream.  The messages are counted along with the sends   *)
(* that were given up and may still put theirs on it, one execution at a   *)
(* time: its Results come in order while it streams, and all of them are   *)
(* on the stream when its Done says ok, be it sent or given up.            *)
ResultsIn(u, e, i) ==
    {u[j].n : j \in {k \in 1..(i - 1) : u[k].kind = "result" /\ u[k].id = e}}
HasDone(u, e) == \E i \in DOMAIN u : u[i].kind = "done" /\ u[i].id = e
StrayOf(s, e, kind) == {m \in s : m.id = e /\ m.kind = kind}

Sent(e) == ResultsIn(up, e, Len(up) + 1)
Delivered(e) == Sent(e) = 1..results[e] /\ StrayOf(stray, e, "result") = {}
Early(e) == phase[e] \in {"new", "spawned", "streaming", "flushing", "waiting"}

CallOk(e) == call[e] # "idle" <=> phase[e] \in {"flushing", "finishing"}
VerdictOk(e) ==
    /\ Early(e) => verdict[e] = "none"
    /\ verdict[e] = "unsent" => phase[e] \in {"reporting", "releasing", "ended"}
DoneOk(e) ==
    /\ Early(e) => ~HasDone(up, e)
    /\ Early(e) \/ phase[e] = "finishing" => StrayOf(stray, e, "done") = {}
    /\ phase[e] = "finishing" /\ call[e] # "ok" => ~HasDone(up, e)
    /\ StrayOf(stray, e, "done") # {} =>
           ~HasDone(up, e) /\ \E m \in stray : StrayOf(stray, e, "done") = {m}
ResultOk(e) ==
    /\ phase[e] \in {"new", "spawned", "streaming"} => Delivered(e)
    /\ phase[e] = "flushing" /\ call[e] = "ok" => Delivered(e)
    /\ phase[e] = "flushing" /\ call[e] # "ok" =>
           /\ results[e] > 0 /\ Sent(e) = 1..(results[e] - 1)
           /\ StrayOf(stray, e, "result") = {}
    /\ phase[e] = "waiting" /\ fault[e] = "none" /\ ~Aborted(e) => Delivered(e)
    /\ verdict[e] = "ok" \/ Done(e, "ok") \in stray => Delivered(e)

SentOk(e) == CallOk(e) /\ VerdictOk(e) /\ DoneOk(e) /\ ResultOk(e)
SentInv == \A e \in Execs : SentOk(e)

(* One more message.                                                       *)
LEMMA AppendMsg ==
  ASSUME NEW u \in Seq(ConnectorMsg), NEW m \in ConnectorMsg
  PROVE  /\ Len(u) \in Nat /\ Len(Append(u, m)) = Len(u) + 1
         /\ DOMAIN u = 1..Len(u) /\ DOMAIN Append(u, m) = 1..(Len(u) + 1)
         /\ \A i \in 1..Len(u) : Append(u, m)[i] = u[i]
         /\ Append(u, m)[Len(u) + 1] = m
  BY AppendProperties, LenProperties

LEMMA AppendResults ==
  ASSUME NEW u \in Seq(ConnectorMsg), NEW m \in ConnectorMsg, NEW e \in Execs
  PROVE  /\ \A i \in 1..(Len(u) + 1) : ResultsIn(Append(u, m), e, i) = ResultsIn(u, e, i)
         /\ m.kind = "result" /\ m.id = e =>
                ResultsIn(Append(u, m), e, Len(Append(u, m)) + 1) =
                    ResultsIn(u, e, Len(u) + 1) \cup {m.n}
         /\ ~(m.kind = "result" /\ m.id = e) =>
                ResultsIn(Append(u, m), e, Len(Append(u, m)) + 1) = ResultsIn(u, e, Len(u) + 1)
  <1> DEFINE v == Append(u, m)
  <1> USE AppendMsg
  <1>1. ASSUME NEW i \in 1..(Len(u) + 1) PROVE ResultsIn(v, e, i) = ResultsIn(u, e, i)
    <2>1. \A j \in 1..(i - 1) : v[j] = u[j]
      OBVIOUS
    <2> QED
      BY <2>1 DEF ResultsIn
  <1>2. ResultsIn(v, e, Len(v) + 1) =
            ResultsIn(u, e, Len(u) + 1) \cup IF m.kind = "result" /\ m.id = e THEN {m.n} ELSE {}
    <2>1. Len(v) + 1 - 1 = Len(u) + 1 /\ Len(u) + 1 - 1 = Len(u)
      OBVIOUS
    <2>2. ASSUME NEW x \in ResultsIn(v, e, Len(v) + 1)
          PROVE  x \in ResultsIn(u, e, Len(u) + 1) \cup IF m.kind = "result" /\ m.id = e THEN {m.n} ELSE {}
      <3>1. PICK j \in 1..(Len(u) + 1) : v[j].kind = "result" /\ v[j].id = e /\ x = v[j].n
        BY <2>1, <2>2 DEF ResultsIn
      <3>2. CASE j = Len(u) + 1
        BY <3>1, <3>2
      <3>3. CASE j \in 1..Len(u)
        BY <2>1, <3>1, <3>3 DEF ResultsIn
      <3> QED
        BY <3>2, <3>3
    <2>3. ASSUME NEW x \in ResultsIn(u, e, Len(u) + 1) PROVE x \in ResultsIn(v, e, Len(v) + 1)
      <3>1. PICK j \in 1..Len(u) : u[j].kind = "result" /\ u[j].id = e /\ x = u[j].n
        BY <2>1, <2>3 DEF ResultsIn
      <3>2. j \in 1..(Len(u) + 1) /\ v[j] = u[j]
        BY <3>1
      <3> QED
        BY <2>1, <3>1, <3>2 DEF ResultsIn
    <2>4. ASSUME m.kind = "result", m.id = e PROVE m.n \in ResultsIn(v, e, Len(v) + 1)
      <3>1. Len(u) + 1 \in 1..(Len(u) + 1) /\ v[Len(u) + 1] = m
        OBVIOUS
      <3> QED
        BY <2>1, <2>4, <3>1 DEF ResultsIn
    <2> HIDE DEF v
    <2> QED
      BY <2>2, <2>3, <2>4
  <1>3. CASE m.kind = "result" /\ m.id = e
    BY <1>1, <1>2, <1>3
  <1>4. CASE ~(m.kind = "result" /\ m.id = e)
    <2>1. ResultsIn(v, e, Len(v) + 1) = ResultsIn(u, e, Len(u) + 1) \cup {}
      BY <1>2, <1>4
    <2> QED
      BY <1>1, <1>4, <2>1
  <1> QED
    BY <1>3, <1>4

LEMMA AppendDone ==
  ASSUME NEW u \in Seq(ConnectorMsg), NEW m \in ConnectorMsg, NEW e \in Execs
  PROVE  HasDone(Append(u, m), e) <=> HasDone(u, e) \/ (m.kind = "done" /\ m.id = e)
  <1> USE AppendMsg DEF HasDone
  <1>1. ASSUME HasDone(u, e) PROVE HasDone(Append(u, m), e)
    BY <1>1
  <1>2. ASSUME m.kind = "done", m.id = e PROVE HasDone(Append(u, m), e)
    <2>1. Len(u) + 1 \in 1..(Len(u) + 1)
      OBVIOUS
    <2> QED
      BY <1>2, <2>1
  <1>3. ASSUME HasDone(Append(u, m), e) PROVE HasDone(u, e) \/ (m.kind = "done" /\ m.id = e)
    <2>1. PICK i \in 1..(Len(u) + 1) : Append(u, m)[i].kind = "done" /\ Append(u, m)[i].id = e
      BY <1>3
    <2>2. CASE i = Len(u) + 1
      BY <2>1, <2>2
    <2>3. CASE i \in 1..Len(u)
      BY <2>1, <2>3
    <2> QED
      BY <2>2, <2>3
  <1> QED
    BY <1>1, <1>2, <1>3

(* An execution that a step does not touch.                                *)
LEMMA SameKeeps ==
  ASSUME NEW e \in Execs, SentOk(e), Aborted(e) => Aborted(e)',
         Sent(e)' = Sent(e), HasDone(up', e) <=> HasDone(up, e),
         phase'[e] = phase[e], call'[e] = call[e], results'[e] = results[e],
         verdict'[e] = verdict[e], fault'[e] = fault[e],
         \A m : m.id = e => (m \in stray' <=> m \in stray)
  PROVE  SentOk(e)'
  <1>1. /\ StrayOf(stray', e, "result") = StrayOf(stray, e, "result")
        /\ StrayOf(stray', e, "done") = StrayOf(stray, e, "done")
    BY DEF StrayOf
  <1>2. Delivered(e)' = Delivered(e) /\ Early(e)' = Early(e)
    BY <1>1 DEF Delivered, Early
  <1>3. CallOk(e)' /\ VerdictOk(e)'
    BY <1>2 DEF SentOk, CallOk, VerdictOk
  <1>4. DoneOk(e)'
    <2>1. StrayOf(stray', e, "done") \subseteq stray'
      BY DEF StrayOf
    <2> QED
      BY <1>1, <1>2, <2>1 DEF SentOk, DoneOk
  <1>5. ResultOk(e)'
    <2>1. Done(e, "ok") \in stray' <=> Done(e, "ok") \in stray
      BY DEF Done
    <2> QED
      BY <1>1, <1>2, <2>1 DEF SentOk, ResultOk
  <1> QED
    BY <1>3, <1>4, <1>5 DEF SentOk

-----------------------------------------------------------------------------
(* An Execute is in msgCh, at the gate or past it, at one place only.      *)
QueuedOnce ==
    \A i, j \in DOMAIN msgCh :
        msgCh[i].kind = "execute" /\ msgCh[j].kind = "execute"
        /\ msgCh[i].id = msgCh[j].id => i = j
QueueInv ==
    /\ QueuedOnce
    /\ \A i \in DOMAIN msgCh : msgCh[i].kind = "execute" =>
           /\ msgCh[i].id \in dispatched /\ msgCh[i].id \notin gated
           /\ phase[msgCh[i].id] = "new"
    /\ \A e \in gated : phase[e] = "new" /\ e \in dispatched
    /\ \A e \in Execs : phase[e] # "new" => e \in dispatched

LEMMA TailMsg ==
  ASSUME NEW u \in Seq(WorkerMsg), u # <<>>
  PROVE  /\ Len(u) \in Nat \ {0} /\ Len(Tail(u)) = Len(u) - 1
         /\ DOMAIN u = 1..Len(u) /\ DOMAIN Tail(u) = 1..(Len(u) - 1)
         /\ Head(u) = u[1] /\ u[1] \in WorkerMsg
         /\ \A i \in 1..(Len(u) - 1) : Tail(u)[i] = u[i + 1]
  <1>1. Len(u) \in Nat \ {0} /\ DOMAIN u = 1..Len(u) /\ Head(u) = u[1] /\ u[1] \in WorkerMsg
    BY EmptySeq, LenProperties, HeadTailProperties, ElementOfSeq
  <1>2. Tail(u) \in Seq(WorkerMsg) /\ Len(Tail(u)) = Len(u) - 1
        /\ \A i \in 1..Len(Tail(u)) : Tail(u)[i] = u[i + 1]
    BY HeadTailProperties
  <1>3. DOMAIN Tail(u) = 1..Len(Tail(u))
    BY <1>2, LenProperties
  <1> QED
    BY <1>1, <1>2, <1>3

LEMMA AppendWork ==
  ASSUME NEW u \in Seq(WorkerMsg), NEW m \in WorkerMsg
  PROVE  /\ Len(u) \in Nat /\ Len(Append(u, m)) = Len(u) + 1
         /\ DOMAIN u = 1..Len(u) /\ DOMAIN Append(u, m) = 1..(Len(u) + 1)
         /\ \A i \in 1..Len(u) : Append(u, m)[i] = u[i]
         /\ Append(u, m)[Len(u) + 1] = m
  BY AppendProperties, LenProperties

LEMMA WorkIds ==
  ASSUME NEW u \in Seq(WorkerMsg), NEW i \in DOMAIN u
  PROVE  u[i].id \in Execs
  <1>1. i \in 1..Len(u)
    BY LenProperties
  <1>2. u[i] \in WorkerMsg
    BY <1>1, ElementOfSeq
  <1> QED
    BY <1>2 DEF WorkerMsg

(* What msgCh and gated hold changes in three ways only.                   *)
LEMMA QueueSame ==
  ASSUME QueueInv, UNCHANGED <<msgCh, gated, dispatched>>,
         \A e \in Execs : phase'[e] = "new" <=> phase[e] = "new",
         gated \subseteq Execs, msgCh \in Seq(WorkerMsg)
  PROVE  QueueInv'
  <1>1. \A i \in DOMAIN msgCh : msgCh[i].id \in Execs
    BY WorkIds
  <1> QED
    BY <1>1 DEF QueueInv, QueuedOnce

LEMMA QueueReceive ==
  ASSUME QueueInv, TypeOK, NEW e \in Execs, ReceiveExecute(e) \/ ReceiveCancel(e)
  PROVE  QueueInv'
  <1>1. msgCh \in Seq(WorkerMsg) /\ UNCHANGED <<gated, phase>>
    BY DEF TypeOK, ReceiveExecute, ReceiveCancel, Receive, loopVars, execVars
  <1>2. PICK k \in {"execute", "cancel"} :
           /\ msgCh' = Append(msgCh, [kind |-> k, id |-> e])
           /\ k = "execute" => e \notin dispatched
           /\ dispatched' = IF k = "execute" THEN dispatched \cup {e} ELSE dispatched
    BY DEF ReceiveExecute, ReceiveCancel, Receive
  <1> DEFINE m == [kind |-> k, id |-> e]
  <1>3. m \in WorkerMsg /\ m.kind = k /\ m.id = e
    BY DEF WorkerMsg
  <1>4. /\ DOMAIN msgCh = 1..Len(msgCh) /\ DOMAIN msgCh' = 1..(Len(msgCh) + 1)
        /\ \A i \in 1..Len(msgCh) : msgCh'[i] = msgCh[i]
        /\ msgCh'[Len(msgCh) + 1] = m /\ Len(msgCh) \in Nat
    BY <1>1, <1>2, <1>3, AppendWork
  <1> HIDE DEF m
  <1>5. k = "execute" => phase[e] = "new" /\ e \notin gated
                         /\ \A i \in DOMAIN msgCh : msgCh[i].kind = "execute" => msgCh[i].id # e
    BY <1>2 DEF QueueInv
  <1>6. QueuedOnce'
    BY <1>3, <1>4, <1>5 DEF QueueInv, QueuedOnce
  <1>7. \A i \in DOMAIN msgCh' : msgCh'[i].kind = "execute" =>
           /\ msgCh'[i].id \in dispatched' /\ msgCh'[i].id \notin gated'
           /\ phase'[msgCh'[i].id] = "new"
    BY <1>1, <1>2, <1>3, <1>4, <1>5 DEF QueueInv
  <1>8. /\ \A f \in gated' : phase'[f] = "new" /\ f \in dispatched'
        /\ \A f \in Execs : phase'[f] # "new" => f \in dispatched'
    BY <1>1, <1>2 DEF QueueInv
  <1> QED
    BY <1>6, <1>7, <1>8 DEF QueueInv

LEMMA QueueTake ==
  ASSUME QueueInv, TypeOK, TakeExecute \/ TakeCancel
  PROVE  QueueInv'
  <1>1. /\ msgCh \in Seq(WorkerMsg) /\ msgCh # <<>> /\ msgCh' = Tail(msgCh)
        /\ UNCHANGED <<dispatched, phase>>
        /\ \/ gated' = gated
           \/ Head(msgCh).kind = "execute" /\ gated' = {Head(msgCh).id}
    BY DEF TypeOK, TakeExecute, TakeCancel, workerVars, execVars
  <1>2. /\ Len(msgCh) \in Nat \ {0}
        /\ DOMAIN msgCh = 1..Len(msgCh) /\ DOMAIN msgCh' = 1..(Len(msgCh) - 1)
        /\ Head(msgCh) = msgCh[1] /\ msgCh[1] \in WorkerMsg
        /\ \A i \in 1..(Len(msgCh) - 1) : msgCh'[i] = msgCh[i + 1]
    BY <1>1, TailMsg
  <1>3. \A i \in 1..(Len(msgCh) - 1) : i + 1 \in DOMAIN msgCh /\ i + 1 # 1
    BY <1>2
  <1>4. QueuedOnce'
    <2> SUFFICES ASSUME NEW i \in DOMAIN msgCh', NEW j \in DOMAIN msgCh',
                        msgCh'[i].kind = "execute", msgCh'[j].kind = "execute",
                        msgCh'[i].id = msgCh'[j].id
                 PROVE  i = j
      BY DEF QueuedOnce
    <2>1. i + 1 = j + 1
      BY <1>2, <1>3 DEF QueueInv, QueuedOnce
    <2> QED
      BY <2>1, <1>2
  <1>5. 1 \in DOMAIN msgCh
    BY <1>2
  <1>6. \A i \in DOMAIN msgCh' : msgCh'[i].kind = "execute" =>
           /\ msgCh'[i].id \in dispatched' /\ msgCh'[i].id \notin gated'
           /\ phase'[msgCh'[i].id] = "new"
    <2> SUFFICES ASSUME NEW i \in DOMAIN msgCh', msgCh'[i].kind = "execute"
                 PROVE  /\ msgCh'[i].id \in dispatched /\ msgCh'[i].id \notin gated'
                        /\ phase[msgCh'[i].id] = "new"
      BY <1>1
    <2>1. i + 1 \in DOMAIN msgCh /\ i + 1 # 1 /\ msgCh'[i] = msgCh[i + 1]
      BY <1>2, <1>3
    <2>2. PICK k \in DOMAIN msgCh : k # 1 /\ msgCh'[i] = msgCh[k]
      BY <2>1
    <2>3. Head(msgCh).kind = "execute" => msgCh[k].id # Head(msgCh).id
      BY <1>2, <1>5, <2>2 DEF QueueInv, QueuedOnce
    <2> QED
      BY <1>1, <2>2, <2>3 DEF QueueInv
  <1>7. /\ \A f \in gated' : phase'[f] = "new" /\ f \in dispatched'
        /\ \A f \in Execs : phase'[f] # "new" => f \in dispatched'
    BY <1>1, <1>2, <1>5 DEF QueueInv
  <1> QED
    BY <1>4, <1>6, <1>7 DEF QueueInv

LEMMA QueuePass ==
  ASSUME QueueInv, TypeOK, NEW e \in Execs, PassGate(e)
  PROVE  QueueInv'
  <1>1. /\ e \in gated /\ gated' = {} /\ UNCHANGED <<msgCh, dispatched>>
        /\ phase' = [phase EXCEPT ![e] = "spawned"] /\ phase \in [Execs -> Phases]
        /\ msgCh \in Seq(WorkerMsg)
    BY DEF PassGate, TypeOK, workerVars
  <1>2. \A i \in DOMAIN msgCh : msgCh[i].id \in Execs
    BY <1>1, WorkIds
  <1>3. \A i \in DOMAIN msgCh : msgCh[i].kind = "execute" => msgCh[i].id # e
    BY <1>1 DEF QueueInv
  <1> QED
    BY <1>1, <1>2, <1>3 DEF QueueInv, QueuedOnce

LEMMA QueueStep == TypeOK /\ QueueInv /\ [Next]_vars => QueueInv'
  <1> SUFFICES ASSUME TypeOK, QueueInv, [Next]_vars PROVE QueueInv'
    OBVIOUS
  <1> DEFINE Same == /\ UNCHANGED <<msgCh, gated, dispatched>>
                     /\ \A e \in Execs : phase'[e] = "new" <=> phase[e] = "new"
  <1>1. Same => QueueInv'
    BY QueueSame DEF TypeOK
  <1> USE DEF workerVars, loopVars, execVars
  <1>2. CASE StartFails \/ SendRegister \/ AwaitAck
    BY <1>1, <1>2 DEF StartFails, SendRegister, AwaitAck
  <1>3. CASE TakeExecute \/ TakeCancel
    BY <1>3, QueueTake
  <1>4. CASE TakeRecvError \/ TakeExecError \/ TakeShutdown
    BY <1>1, <1>4 DEF TakeRecvError, TakeExecError, TakeShutdown
  <1>5. CASE ReceiveError \/ LinkCloses \/ Shutdown
    BY <1>1, <1>5 DEF ReceiveError, LinkCloses, Shutdown
  <1>6. ASSUME NEW e \in Execs, ReceiveExecute(e) \/ ReceiveCancel(e) PROVE QueueInv'
    BY <1>6, QueueReceive
  <1>7. ASSUME NEW e \in Execs, PassGate(e) PROVE QueueInv'
    BY <1>7, QueuePass
  <1>8. ASSUME NEW e \in Execs, AdapterReturns(e) \/ SendAccepted(e) \/ SendFails(e)
        PROVE  QueueInv'
    BY <1>1, <1>8 DEF AdapterReturns, SendAccepted, SendFails
  <1>9. ASSUME NEW m \in stray, StrayEnds(m) PROVE QueueInv'
    BY <1>1, <1>9 DEF StrayEnds
  <1>10. ASSUME NEW e \in Execs, StepsOf(e) PROVE QueueInv'
    <2>1. phase \in [Execs -> Phases]
      BY DEF TypeOK
    <2>2. CASE StoreCancel(e) \/ OutClosed(e) \/ AwaitAdapter(e)
      BY <1>1, <2>1, <2>2 DEF StoreCancel, OutClosed, AwaitAdapter
    <2>3. CASE FlushSent(e) \/ FlushFails(e)
      BY <1>1, <2>1, <2>3 DEF FlushSent, FlushFails
    <2>4. CASE DoneSent(e) \/ DoneFails(e)
      BY <1>1, <2>1, <2>4 DEF DoneSent, DoneFails, ReturnFromHandle
    <2>5. CASE ReportError(e) \/ ReleaseGate(e)
      BY <1>1, <2>1, <2>5 DEF ReportError, ReleaseGate, ReachesRelease
    <2>6. CASE FlushBatch(e) \/ InvalidFinding(e)
      BY <1>1, <2>1, <2>6 DEF FlushBatch, InvalidFinding, StartResult
    <2> QED
      BY <1>10, <2>2, <2>3, <2>4, <2>5, <2>6 DEF StepsOf, HandleStep
  <1>11. CASE UNCHANGED vars
    BY <1>1, <1>11 DEF vars
  <1> QED
    BY <1>2, <1>3, <1>4, <1>5, <1>6, <1>7, <1>8, <1>9, <1>10, <1>11
    DEF Next, RunStep, Environment, ExecStep, Terminated, StepsOf

-----------------------------------------------------------------------------
(* A step that concerns execution e only.                                  *)
Only(e) ==
    /\ phase' = [phase EXCEPT ![e] = phase'[e]] /\ call' = [call EXCEPT ![e] = call'[e]]
    /\ results' = [results EXCEPT ![e] = results'[e]]
    /\ verdict' = [verdict EXCEPT ![e] = verdict'[e]]
    /\ fault' = [fault EXCEPT ![e] = fault'[e]]

LEMMA OthersKeep ==
  ASSUME TypeOK, SentInv, NEW e \in Execs, Only(e), SentOk(e)',
         aborted \subseteq aborted', ctxDone => ctxDone',
         up' = up \/ \E m \in ConnectorMsg : m.id = e /\ up' = Append(up, m),
         \A m : m.id # e => (m \in stray' <=> m \in stray)
  PROVE  SentInv'
  <1> SUFFICES ASSUME NEW f \in Execs, f # e PROVE SentOk(f)'
    BY DEF SentInv
  <1>1. Aborted(f) => Aborted(f)'
    BY DEF Aborted
  <1>2. Sent(f)' = Sent(f) /\ (HasDone(up', f) <=> HasDone(up, f))
    <2>1. up \in Seq(ConnectorMsg)
      BY DEF TypeOK
    <2>2. CASE up' = up
      BY <2>2 DEF Sent
    <2>3. ASSUME NEW m \in ConnectorMsg, m.id = e, up' = Append(up, m)
          PROVE  Sent(f)' = Sent(f) /\ (HasDone(up', f) <=> HasDone(up, f))
      <3>1. ResultsIn(up', f, Len(up') + 1) = ResultsIn(up, f, Len(up) + 1)
        BY <2>1, <2>3, AppendResults
      <3>2. HasDone(up', f) <=> HasDone(up, f)
        BY <2>1, <2>3, AppendDone
      <3> QED
        BY <3>1, <3>2 DEF Sent
    <2> QED
      BY <2>2, <2>3
  <1>3. /\ phase'[f] = phase[f] /\ call'[f] = call[f] /\ results'[f] = results[f]
        /\ verdict'[f] = verdict[f] /\ fault'[f] = fault[f]
    BY DEF Only, TypeOK
  <1>4. \A m : m.id = f => (m \in stray' <=> m \in stray)
    OBVIOUS
  <1>5. SentOk(f)
    BY DEF SentInv
  <1> QED
    BY <1>1, <1>2, <1>3, <1>4, <1>5, SameKeeps

(* Most of what is said of e does not change when the stream and the stray *)
(* sends do not.                                                           *)
LEMMA SameStream ==
  ASSUME NEW e \in Execs, UNCHANGED <<up, stray>>
  PROVE  /\ Sent(e)' = Sent(e) /\ HasDone(up, e)' = HasDone(up, e)
         /\ StrayOf(stray, e, "result")' = StrayOf(stray, e, "result")
         /\ StrayOf(stray, e, "done")' = StrayOf(stray, e, "done")
         /\ results'[e] = results[e] => Delivered(e)' = Delivered(e)
  BY DEF Sent, HasDone, StrayOf, Delivered

LEMMA DoneStray ==
  ASSUME NEW e \in Execs
  PROVE  \A s : Done(e, "ok") \in s <=> Done(e, "ok") \in StrayOf(s, e, "done")
  <1>1. Done(e, "ok").id = e /\ Done(e, "ok").kind = "done"
    BY DEF Done
  <1> QED
    BY <1>1 DEF StrayOf

LEMMA StayLocal ==
  ASSUME TypeOK, SentInv, QueueInv, NEW e \in Execs,
         \/ PassGate(e) \/ StoreCancel(e) \/ OutClosed(e) \/ AwaitAdapter(e)
         \/ ReportError(e) \/ ReleaseGate(e) \/ SendFails(e)
         \/ FlushBatch(e) \/ InvalidFinding(e)
  PROVE  SentInv'
  <1> USE DEF workerVars, loopVars, execVars, sendVars
  <1>1. UNCHANGED <<up, stray>> /\ aborted \subseteq aborted' /\ ctxDone' = ctxDone /\ Only(e)
    <2>1. CASE PassGate(e) \/ StoreCancel(e) \/ OutClosed(e)
      BY <2>1 DEF PassGate, StoreCancel, OutClosed, Only, TypeOK
    <2>2. CASE AwaitAdapter(e) \/ ReportError(e) \/ ReleaseGate(e) \/ SendFails(e)
      BY <2>2 DEF AwaitAdapter, ReportError, ReleaseGate, SendFails, Only, TypeOK
    <2>3. CASE FlushBatch(e) \/ InvalidFinding(e)
      BY <2>3 DEF FlushBatch, InvalidFinding, StartResult, Only, TypeOK
    <2> QED
      BY <2>1, <2>2, <2>3
  <1>2. SentOk(e)
    BY DEF SentInv
  <1>3. SentOk(e)'
    <2> USE SameStream, DoneStray, <1>1, <1>2
        DEF SentOk, CallOk, VerdictOk, DoneOk, ResultOk, Early, TypeOK
    <2>1. CASE PassGate(e)
      BY <2>1 DEF PassGate, QueueInv, Aborted
    <2>2. CASE StoreCancel(e)
      BY <2>2 DEF StoreCancel, Aborted
    <2>3. CASE OutClosed(e)
      BY <2>3 DEF OutClosed, Aborted
    <2>4. CASE AwaitAdapter(e)
      BY <2>4 DEF AwaitAdapter, Outcome, Aborted
    <2>5. CASE ReportError(e) \/ ReleaseGate(e)
      BY <2>5 DEF ReportError, ReleaseGate, ReachesRelease, Aborted
    <2>6. CASE SendFails(e)
      BY <2>6 DEF SendFails, Aborted
    <2>7. ASSUME phase[e] = "streaming", StartResult(e), verdict'[e] = verdict[e]
          PROVE  SentOk(e)'
      <3>1. /\ results'[e] = results[e] + 1 /\ results[e] \in Nat
            /\ call'[e] = "pending" /\ phase'[e] = "flushing"
        BY <2>7 DEF StartResult
      <3>2. Sent(e)' = 1..(results'[e] - 1) /\ StrayOf(stray, e, "result")' = {}
        BY <2>7, <3>1 DEF Delivered
      <3>3. CallOk(e)' /\ VerdictOk(e)' /\ DoneOk(e)'
        BY <2>7, <3>1
      <3>4. Done(e, "ok") \notin stray' /\ verdict'[e] # "ok"
        BY <2>7, DoneStray
      <3>5. ResultOk(e)'
        BY <3>1, <3>2, <3>4
      <3> QED
        BY <3>3, <3>5
    <2>8. CASE FlushBatch(e)
      BY <2>7, <2>8 DEF FlushBatch
    <2>9. CASE InvalidFinding(e)
      <3>1. CASE StartResult(e)
        BY <2>7, <2>9, <3>1 DEF InvalidFinding
      <3>2. CASE phase' = [phase EXCEPT ![e] = "waiting"] /\ UNCHANGED <<results, call>>
        BY <2>9, <3>2 DEF InvalidFinding, Delivered
      <3> QED
        BY <2>9, <3>1, <3>2 DEF InvalidFinding
    <2> QED
      BY <2>1, <2>2, <2>3, <2>4, <2>5, <2>6, <2>8, <2>9
  <1> QED
    BY <1>1, <1>3, OthersKeep

(* A send whose caller no longer waits may be left behind.                 *)
LEMMA LeaveKeeps ==
  ASSUME TypeOK, SentInv, NEW e \in Execs,
         FlushSent(e) \/ FlushFails(e) \/ DoneSent(e) \/ DoneFails(e)
  PROVE  SentInv'
  <1> USE DEF workerVars, loopVars, execVars, sendVars
  <1>1. /\ up' = up /\ aborted \subseteq aborted' /\ ctxDone' = ctxDone /\ Only(e)
        /\ LeaveSend(e) /\ results' = results
    BY DEF FlushSent, FlushFails, DoneSent, DoneFails, ReturnFromHandle, LeaveSend, Only, TypeOK
  <1>2. SentOk(e)
    BY DEF SentInv
  <1>3. Sent(e)' = Sent(e) /\ HasDone(up, e)' = HasDone(up, e)
    BY <1>1 DEF Sent, HasDone
  <1>4. \A m : m.id # e => (m \in stray' <=> m \in stray)
    BY <1>1 DEF LeaveSend, Sending, Done, Result
  <1>5. call'[e] = "idle"
    BY <1>1 DEF LeaveSend, TypeOK
  <1>6. call[e] # "pending" => stray' = stray
    BY <1>1 DEF LeaveSend
  <1>7. SentOk(e)'
    <2> USE <1>1, <1>2, <1>3, <1>5 DEF SentOk, CallOk, VerdictOk, TypeOK
    <2>1. CASE FlushSent(e)
      <3>1. stray' = stray /\ phase[e] = "flushing" /\ call[e] = "ok"
        BY <2>1, <1>6 DEF FlushSent
      <3>2. phase'[e] \in {"streaming", "waiting"} /\ verdict' = verdict
        BY <2>1 DEF FlushSent
      <3>3. CallOk(e)' /\ VerdictOk(e)' /\ DoneOk(e)'
        BY <3>1, <3>2, SameStream DEF DoneOk, Early
      <3>4. ResultOk(e)'
        BY <3>1, <3>2, SameStream, DoneStray DEF ResultOk, DoneOk, Early
      <3> QED
        BY <3>3, <3>4
    <2>2. CASE FlushFails(e)
      <3>1. /\ phase[e] = "flushing" /\ phase'[e] = "waiting" /\ verdict' = verdict
            /\ e \in aborted'
        BY <2>2 DEF FlushFails
      <3>2. stray' \subseteq stray \cup {Result(e, results[e])}
        BY <3>1 DEF LeaveSend, Sending
      <3>3. StrayOf(stray, e, "done")' = {}
        BY <3>1, <3>2 DEF DoneOk, Early, StrayOf, Result
      <3>4. CallOk(e)' /\ VerdictOk(e)' /\ DoneOk(e)'
        BY <3>1, <3>3 DEF DoneOk, Early
      <3>5. Done(e, "ok") \notin stray' /\ verdict'[e] # "ok" /\ Aborted(e)'
        BY <3>1, <3>3, DoneStray DEF Early, Aborted
      <3>6. ResultOk(e)'
        BY <3>1, <3>5 DEF ResultOk
      <3> QED
        BY <3>4, <3>6
    <2>3. CASE DoneSent(e)
      <3>1. /\ stray' = stray /\ phase[e] = "finishing" /\ phase'[e] = "reporting"
            /\ verdict' = verdict
        BY <2>3, <1>6 DEF DoneSent, ReturnFromHandle
      <3>2. CallOk(e)' /\ VerdictOk(e)' /\ DoneOk(e)'
        BY <3>1, SameStream DEF DoneOk, Early
      <3>3. ResultOk(e)'
        BY <3>1, SameStream DEF ResultOk
      <3> QED
        BY <3>2, <3>3
    <2>4. CASE DoneFails(e)
      <3>1. /\ phase[e] = "finishing" /\ phase'[e] = "reporting" /\ verdict'[e] = "unsent"
            /\ StrayOf(stray, e, "done") = {}
        BY <2>4 DEF DoneFails, ReturnFromHandle, DoneOk
      <3>2. \/ stray' = stray
            \/ call[e] = "pending" /\ stray' = stray \cup {Done(e, verdict[e])}
        BY <3>1 DEF LeaveSend, Sending
      <3>3. StrayOf(stray, e, "result")' = StrayOf(stray, e, "result")
        BY <3>2 DEF StrayOf, Done
      <3>4. \/ StrayOf(stray', e, "done") = {}
            \/ /\ call[e] = "pending" /\ StrayOf(stray', e, "done") = {Done(e, verdict[e])}
               /\ Done(e, verdict[e]) \in stray'
        BY <3>1, <3>2 DEF StrayOf, Done
      <3>5. CallOk(e)' /\ VerdictOk(e)'
        BY <3>1 DEF Early
      <3>6. DoneOk(e)'
        BY <3>1, <3>4 DEF DoneOk, Early
      <3>7. Done(e, "ok") \in stray' => verdict[e] = "ok"
        <4>1. Done(e, "ok") \notin stray
          BY <3>1, DoneStray
        <4> QED
          BY <3>2, <4>1 DEF Done
      <3>8. verdict[e] = "ok" => Delivered(e)'
        BY <3>3 DEF ResultOk, Delivered
      <3>9. ResultOk(e)'
        BY <3>1, <3>7, <3>8 DEF ResultOk
      <3> QED
        BY <3>5, <3>6, <3>9
    <2> QED
      BY <2>1, <2>2, <2>3, <2>4
  <1> QED
    BY <1>1, <1>4, <1>7, OthersKeep

(* A message gets on the stream.                                           *)
LEMMA AcceptKeeps ==
  ASSUME TypeOK, DoneInv, SentInv, NEW e \in Execs, SendAccepted(e)
  PROVE  SentInv'
  <1> USE DEF workerVars, loopVars, execVars, sendVars
  <1>1. /\ call[e] = "pending" /\ call' = [call EXCEPT ![e] = "ok"] /\ call'[e] = "ok"
        /\ up' = Append(up, Sending(e)) /\ up \in Seq(ConnectorMsg)
        /\ Sending(e) \in ConnectorMsg
        /\ UNCHANGED <<stray, phase, results, verdict, fault, aborted, ctxDone>> /\ Only(e)
    BY SendingType DEF SendAccepted, Only, TypeOK
  <1>2. SentOk(e) /\ phase[e] \in {"flushing", "finishing"}
    BY <1>1 DEF SentInv, SentOk, CallOk
  <1>3. CASE phase[e] = "flushing"
    <2>1. Sending(e) = Result(e, results[e])
      BY <1>3 DEF Sending
    <2>2. Sent(e)' = Sent(e) \cup {results[e]} /\ (HasDone(up', e) <=> HasDone(up, e))
      BY <1>1, <2>1, AppendResults, AppendDone DEF Sent, Result
    <2>3. Sent(e)' = 1..results[e]
      <3>1. Sent(e) = 1..(results[e] - 1) /\ results[e] \in Nat /\ results[e] > 0
        BY <1>1, <1>2, <1>3 DEF SentOk, ResultOk, TypeOK
      <3> QED
        BY <2>2, <3>1
    <2>4. Delivered(e)'
      BY <1>1, <1>2, <1>3, <2>3 DEF Delivered, StrayOf, SentOk, ResultOk
    <2>5. SentOk(e)'
      BY <1>1, <1>2, <1>3, <2>2, <2>4 DEF SentOk, CallOk, VerdictOk, DoneOk, ResultOk, Early
    <2> QED
      BY <1>1, <2>1, <2>5, OthersKeep DEF Result
  <1>4. CASE phase[e] = "finishing"
    <2>1. Sending(e) = Done(e, verdict[e])
      BY <1>4 DEF Sending
    <2>2. Sent(e)' = Sent(e)
      BY <1>1, <2>1, AppendResults DEF Sent, Done
    <2>3. Delivered(e)' = Delivered(e)
      BY <1>1, <2>2 DEF Delivered, StrayOf
    <2>4. SentOk(e)'
      BY <1>1, <1>2, <1>4, <2>3 DEF SentOk, CallOk, VerdictOk, DoneOk, ResultOk, Early
    <2> QED
      BY <1>1, <2>1, <2>4, OthersKeep DEF Done
  <1> QED
    BY <1>2, <1>3, <1>4

LEMMA StrayKeeps ==
  ASSUME TypeOK, SentInv, NEW m \in stray, StrayEnds(m)
  PROVE  SentInv'
  <1> USE DEF workerVars, loopVars, execVars, sendVars
  <1>1. /\ m \in ConnectorMsg /\ stray' = stray \ {m} /\ up \in Seq(ConnectorMsg)
        /\ up' = up \/ up' = Append(up, m)
        /\ UNCHANGED <<phase, call, results, verdict, fault, aborted, ctxDone>>
    BY DEF StrayEnds, TypeOK
  <1>2. PICK e \in Execs : m.id = e /\ m.kind \in {"result", "done"}
    BY <1>1 DEF ConnectorMsg
  <1>3. SentOk(e) /\ Only(e)
    BY <1>1 DEF SentInv, Only, TypeOK
  <1>4. CASE m.kind = "result"
    <2>1. m \in StrayOf(stray, e, "result")
      BY <1>2, <1>4 DEF StrayOf
    <2>2. HasDone(up', e) <=> HasDone(up, e)
      <3>1. CASE up' = up
        BY <3>1
      <3>2. CASE up' = Append(up, m)
        BY <1>1, <1>4, <3>2, AppendDone
      <3> QED
        BY <1>1, <3>1, <3>2
    <2>3. StrayOf(stray', e, "done") = StrayOf(stray, e, "done")
      BY <1>1, <1>4 DEF StrayOf
    <2>4. ~Delivered(e)
      BY <2>1 DEF Delivered
    <2>5. DoneOk(e)'
      <3>1. StrayOf(stray', e, "done") \subseteq stray'
        BY DEF StrayOf
      <3> QED
        BY <1>1, <1>3, <2>2, <2>3, <3>1 DEF SentOk, DoneOk, Early
    <2>6. ResultOk(e)'
      BY <1>1, <1>3, <2>1, <2>4 DEF SentOk, ResultOk, Aborted
    <2>7. SentOk(e)'
      BY <1>1, <1>3, <2>5, <2>6 DEF SentOk, CallOk, VerdictOk, Early
    <2> QED
      BY <1>1, <1>2, <1>3, <2>7, OthersKeep
  <1>5. CASE m.kind = "done"
    <2>1. m \in StrayOf(stray, e, "done") /\ m \in stray
      BY <1>2, <1>5 DEF StrayOf
    <2>2. StrayOf(stray, e, "done") = {m}
      BY <1>3, <2>1 DEF SentOk, DoneOk
    <2>3. StrayOf(stray', e, "done") = {}
      BY <1>1, <2>2 DEF StrayOf
    <2>4. Delivered(e)' = Delivered(e)
      <3>1. Sent(e)' = Sent(e)
        <4>1. CASE up' = up
          BY <4>1 DEF Sent
        <4>2. CASE up' = Append(up, m)
          BY <1>1, <1>5, <4>2, AppendResults DEF Sent
        <4> QED
          BY <1>1, <4>1, <4>2
      <3>2. StrayOf(stray', e, "result") = StrayOf(stray, e, "result")
        BY <1>1, <1>5 DEF StrayOf
      <3> QED
        BY <1>1, <3>1, <3>2 DEF Delivered
    <2>5. ~Early(e) /\ phase[e] # "finishing"
      BY <1>3, <2>1 DEF SentOk, DoneOk
    <2>6. DoneOk(e)'
      BY <1>1, <2>3, <2>5 DEF DoneOk, Early
    <2>7. ResultOk(e)'
      BY <1>1, <1>3, <2>4, <2>5 DEF SentOk, ResultOk, Aborted, Early
    <2>8. SentOk(e)'
      BY <1>1, <1>3, <2>6, <2>7 DEF SentOk, CallOk, VerdictOk, Early
    <2> QED
      BY <1>1, <1>2, <1>3, <2>8, OthersKeep
  <1> QED
    BY <1>2, <1>4, <1>5

(* Every other step leaves the executions and their sends alone.           *)
LEMMA QuietKeeps ==
  ASSUME SentInv, UNCHANGED <<up, stray, phase, call, results, verdict, fault>>,
         aborted \subseteq aborted', ctxDone => ctxDone'
  PROVE  SentInv'
  <1> SUFFICES ASSUME NEW f \in Execs PROVE SentOk(f)'
    BY DEF SentInv
  <1>1. SentOk(f) /\ (Aborted(f) => Aborted(f)')
    BY DEF SentInv, Aborted
  <1>2. Sent(f)' = Sent(f)
    BY DEF Sent
  <1> QED
    BY <1>1, <1>2, SameKeeps

LEMMA SentStep == TypeOK /\ DoneInv /\ QueueInv /\ SentInv /\ [Next]_vars => SentInv'
  <1> SUFFICES ASSUME TypeOK, DoneInv, QueueInv, SentInv, [Next]_vars PROVE SentInv'
    OBVIOUS
  <1> DEFINE Quiet == /\ UNCHANGED <<up, stray, phase, call, results, verdict, fault>>
                      /\ aborted \subseteq aborted' /\ (ctxDone => ctxDone')
  <1>1. Quiet => SentInv'
    BY QuietKeeps
  <1> USE DEF workerVars, loopVars, execVars, sendVars
  <1>2. CASE StartFails \/ SendRegister \/ AwaitAck
    BY <1>1, <1>2 DEF StartFails, SendRegister, AwaitAck
  <1>3. CASE TakeExecute \/ TakeCancel \/ TakeRecvError \/ TakeExecError \/ TakeShutdown
    BY <1>1, <1>3 DEF TakeExecute, TakeCancel, TakeRecvError, TakeExecError, TakeShutdown
  <1>4. CASE ReceiveError \/ LinkCloses \/ Shutdown
    BY <1>1, <1>4 DEF ReceiveError, LinkCloses, Shutdown
  <1>5. ASSUME NEW e \in Execs, ReceiveExecute(e) \/ ReceiveCancel(e) \/ AdapterReturns(e)
        PROVE  SentInv'
    BY <1>1, <1>5 DEF ReceiveExecute, ReceiveCancel, Receive, AdapterReturns
  <1>6. ASSUME NEW e \in Execs,
               \/ PassGate(e) \/ StoreCancel(e) \/ OutClosed(e) \/ AwaitAdapter(e)
               \/ ReportError(e) \/ ReleaseGate(e) \/ SendFails(e)
               \/ FlushBatch(e) \/ InvalidFinding(e)
        PROVE  SentInv'
    BY <1>6, StayLocal
  <1>7. ASSUME NEW e \in Execs, FlushSent(e) \/ FlushFails(e) \/ DoneSent(e) \/ DoneFails(e)
        PROVE  SentInv'
    BY <1>7, LeaveKeeps
  <1>8. ASSUME NEW e \in Execs, SendAccepted(e) PROVE SentInv'
    BY <1>8, AcceptKeeps
  <1>9. ASSUME NEW m \in stray, StrayEnds(m) PROVE SentInv'
    BY <1>9, StrayKeeps
  <1>10. CASE UNCHANGED vars
    BY <1>1, <1>10 DEF vars
  <1> QED
    BY <1>2, <1>3, <1>4, <1>5, <1>6, <1>7, <1>8, <1>9, <1>10
    DEF Next, RunStep, Environment, ExecStep, HandleStep, Terminated

-----------------------------------------------------------------------------
(* What DoneIsFinal says of one message of the stream.                     *)
OkDone(u, i) == u[i].kind = "done" /\ u[i].err = "ok"
Vouched(e) ==
    /\ ResultsIn(up, e, Len(up) + 1) = 1..results[e]
    /\ \A m \in stray : m.id # e
CleanInv ==
    \A i \in DOMAIN up : OkDone(up, i) =>
        /\ Vouched(up[i].id)
        /\ ResultsIn(up, up[i].id, i) = 1..results[up[i].id]

(* An execution with a Done on the stream is over for the stream.          *)
LEMMA VouchedStays ==
  ASSUME TypeOK, DoneInv, SentInv, [Next]_vars, NEW e \in Execs, HasDone(up, e),
         Vouched(e)
  PROVE  Vouched(e)' /\ results'[e] = results[e]
  <1> USE DEF workerVars, loopVars, execVars, sendVars
  <1>1. /\ ~Early(e) /\ ~(phase[e] = "finishing" /\ call[e] # "ok")
        /\ call[e] # "idle" => phase[e] \in {"flushing", "finishing"}
    BY DEF SentInv, SentOk, DoneOk, CallOk
  <1> DEFINE Quiet == UNCHANGED <<up, stray, results>>
  <1>2. Quiet => Vouched(e)' /\ results'[e] = results[e]
    BY DEF Vouched
  <1>3. CASE StartFails \/ SendRegister \/ AwaitAck
    BY <1>2, <1>3 DEF StartFails, SendRegister, AwaitAck
  <1>4. CASE TakeExecute \/ TakeCancel \/ TakeRecvError \/ TakeExecError \/ TakeShutdown
    BY <1>2, <1>4 DEF TakeExecute, TakeCancel, TakeRecvError, TakeExecError, TakeShutdown
  <1>5. CASE ReceiveError \/ LinkCloses \/ Shutdown
    BY <1>2, <1>5 DEF ReceiveError, LinkCloses, Shutdown
  <1>6. ASSUME NEW f \in Execs,
               \/ ReceiveExecute(f) \/ ReceiveCancel(f) \/ AdapterReturns(f) \/ PassGate(f)
               \/ StoreCancel(f) \/ OutClosed(f) \/ AwaitAdapter(f)
               \/ ReportError(f) \/ ReleaseGate(f) \/ SendFails(f)
        PROVE  Quiet
    BY <1>6 DEF ReceiveExecute, ReceiveCancel, Receive, AdapterReturns, PassGate, StoreCancel,
                OutClosed, AwaitAdapter, ReportError, ReleaseGate, SendFails
  <1>7. ASSUME NEW f \in Execs, FlushBatch(f) \/ InvalidFinding(f)
        PROVE  Vouched(e)' /\ results'[e] = results[e]
    <2>1. phase[f] = "streaming" /\ UNCHANGED <<up, stray>>
          /\ \A g \in Execs : g # f => results'[g] = results[g]
      BY <1>7 DEF FlushBatch, InvalidFinding, StartResult, TypeOK
    <2>2. f # e
      BY <1>1, <2>1 DEF Early
    <2> QED
      BY <2>1, <2>2 DEF Vouched
  <1>8. ASSUME NEW f \in Execs, FlushSent(f) \/ FlushFails(f) \/ DoneSent(f) \/ DoneFails(f)
        PROVE  Vouched(e)' /\ results'[e] = results[e]
    <2>1. LeaveSend(f) /\ UNCHANGED <<up, results>>
          /\ phase[f] \in {"flushing", "finishing"}
      BY <1>8 DEF FlushSent, FlushFails, DoneSent, DoneFails, ReturnFromHandle
    <2>2. \A m \in stray' : m.id # e
      <3>1. CASE f = e
        <4>1. call[e] # "pending"
          BY <1>1, <2>1, <3>1 DEF Early
        <4> QED
          BY <2>1, <3>1, <4>1 DEF LeaveSend, Vouched
      <3>2. CASE f # e
        <4>1. Sending(f).id = f
          BY DEF Sending, Done, Result
        <4> QED
          BY <2>1, <3>2, <4>1 DEF LeaveSend, Vouched
      <3> QED
        BY <3>1, <3>2
    <2> QED
      BY <2>1, <2>2 DEF Vouched
  <1>9. ASSUME NEW f \in Execs, SendAccepted(f)
        PROVE  Vouched(e)' /\ results'[e] = results[e]
    <2>1. call[f] = "pending" /\ up' = Append(up, Sending(f)) /\ UNCHANGED <<stray, results>>
          /\ up \in Seq(ConnectorMsg)
      BY <1>9 DEF SendAccepted, TypeOK
    <2>2. f # e
      BY <1>1, <2>1 DEF Early
    <2>3. Sending(f).id = f
      BY DEF Sending, Done, Result
    <2>4. Sending(f) \in ConnectorMsg
      BY SendingType
    <2> QED
      BY <2>1, <2>2, <2>3, <2>4, AppendResults DEF Vouched
  <1>10. ASSUME NEW m \in stray, StrayEnds(m)
         PROVE  Vouched(e)' /\ results'[e] = results[e]
    <2>1. /\ stray' = stray \ {m} /\ m.id # e /\ m \in ConnectorMsg /\ UNCHANGED results
          /\ up' = up \/ up' = Append(up, m)
          /\ up \in Seq(ConnectorMsg)
      BY <1>10 DEF StrayEnds, Vouched, TypeOK
    <2>2. ResultsIn(up', e, Len(up') + 1) = ResultsIn(up, e, Len(up) + 1)
      <3>1. CASE up' = up
        BY <3>1
      <3>2. CASE up' = Append(up, m)
        BY <2>1, <3>2, AppendResults
      <3> QED
        BY <2>1, <3>1, <3>2
    <2> QED
      BY <2>1, <2>2 DEF Vouched
  <1>11. CASE UNCHANGED vars
    BY <1>2, <1>11 DEF vars
  <1> QED
    BY <1>2, <1>3, <1>4, <1>5, <1>6, <1>7, <1>8, <1>9, <1>10, <1>11
    DEF Next, RunStep, Environment, ExecStep, HandleStep, Terminated

(* A Done that gets on the stream is the first of its execution, and one   *)
(* that says ok comes when every Result is there.                          *)
LEMMA DoneArrives ==
  ASSUME TypeOK, DoneInv, SentInv, [Next]_vars
  PROVE  \/ up' = up
         \/ \E m \in ConnectorMsg :
                /\ up' = Append(up, m) /\ results' = results
                /\ m.kind = "done" =>
                       /\ ~HasDone(up, m.id)
                       /\ m.err = "ok" =>
                              /\ ResultsIn(up, m.id, Len(up) + 1) = 1..results[m.id]
                              /\ \A s \in stray' : s.id # m.id
  <1> USE DEF workerVars, loopVars, execVars, sendVars
  <1>1. CASE up' = up
    BY <1>1
  <1>2. ASSUME NEW e \in Execs, SendAccepted(e)
        PROVE  \E m \in ConnectorMsg :
                /\ up' = Append(up, m) /\ results' = results
                /\ m.kind = "done" =>
                       /\ ~HasDone(up, m.id)
                       /\ m.err = "ok" =>
                              /\ ResultsIn(up, m.id, Len(up) + 1) = 1..results[m.id]
                              /\ \A s \in stray' : s.id # m.id
    <2>1. /\ Sending(e) \in ConnectorMsg /\ call[e] = "pending" /\ UNCHANGED <<stray, results>>
          /\ up' = Append(up, Sending(e))
      BY <1>2, SendingType DEF SendAccepted
    <2>2. CASE phase[e] # "finishing"
      <3>1. Sending(e).kind = "result"
        BY <2>2 DEF Sending, Result
      <3> QED
        BY <2>1, <3>1
    <2>3. CASE phase[e] = "finishing"
      <3>1. Sending(e) = Done(e, verdict[e])
        BY <2>3 DEF Sending
      <3>2. ~HasDone(up, e) /\ StrayOf(stray, e, "done") = {}
        BY <2>1, <2>3 DEF SentInv, SentOk, DoneOk
      <3>3. verdict[e] = "ok" => Sent(e) = 1..results[e] /\ StrayOf(stray, e, "result") = {}
        BY DEF SentInv, SentOk, ResultOk, Delivered
      <3>4. \A s \in stray : s.kind \in {"result", "done"}
        BY DEF TypeOK, ConnectorMsg
      <3>5. verdict[e] = "ok" => \A s \in stray' : s.id # e
        BY <2>1, <3>2, <3>3, <3>4 DEF StrayOf
      <3> QED
        BY <2>1, <3>1, <3>2, <3>3, <3>5 DEF Sent, Done
    <2> QED
      BY <2>2, <2>3
  <1>3. ASSUME NEW m \in stray, StrayEnds(m), up' # up
        PROVE  /\ m \in ConnectorMsg /\ up' = Append(up, m) /\ results' = results
               /\ m.kind = "done" =>
                       /\ ~HasDone(up, m.id)
                       /\ m.err = "ok" =>
                              /\ ResultsIn(up, m.id, Len(up) + 1) = 1..results[m.id]
                              /\ \A s \in stray' : s.id # m.id
    <2>1. m \in ConnectorMsg /\ up' = Append(up, m) /\ results' = results /\ stray' = stray \ {m}
      BY <1>3 DEF StrayEnds, TypeOK
    <2>2. ASSUME m.kind = "done"
          PROVE  /\ ~HasDone(up, m.id)
                 /\ m.err = "ok" =>
                        /\ ResultsIn(up, m.id, Len(up) + 1) = 1..results[m.id]
                        /\ \A s \in stray' : s.id # m.id
      <3>1. PICK e \in Execs, v \in Verdicts : m = Done(e, v) /\ m.id = e /\ m.err = v
        BY <2>1, <2>2 DEF ConnectorMsg, Done
      <3>2. m \in StrayOf(stray, e, "done")
        BY <2>2, <3>1 DEF StrayOf
      <3>3. ~HasDone(up, e) /\ StrayOf(stray, e, "done") = {m}
        BY <3>2 DEF SentInv, SentOk, DoneOk
      <3>4. v = "ok" => Sent(e) = 1..results[e] /\ StrayOf(stray, e, "result") = {}
        BY <3>1 DEF SentInv, SentOk, ResultOk, Delivered
      <3>5. \A s \in stray : s.kind \in {"result", "done"}
        BY DEF TypeOK, ConnectorMsg
      <3>6. v = "ok" => \A s \in stray' : s.id # e
        BY <2>1, <3>3, <3>4, <3>5 DEF StrayOf
      <3> QED
        BY <3>1, <3>3, <3>4, <3>6 DEF Sent
    <2> QED
      BY <2>1, <2>2
  <1>4. \/ up' = up \/ \E e \in Execs : SendAccepted(e)
        \/ \E m \in stray : StrayEnds(m)
    <2>1. CASE StartFails \/ SendRegister \/ AwaitAck
      BY <2>1 DEF StartFails, SendRegister, AwaitAck
    <2>2. CASE TakeExecute \/ TakeCancel \/ TakeRecvError \/ TakeExecError \/ TakeShutdown
      BY <2>2 DEF TakeExecute, TakeCancel, TakeRecvError, TakeExecError, TakeShutdown
    <2>3. CASE ReceiveError \/ LinkCloses \/ Shutdown
      BY <2>3 DEF ReceiveError, LinkCloses, Shutdown
    <2>4. ASSUME NEW f \in Execs,
                 \/ ReceiveExecute(f) \/ ReceiveCancel(f) \/ AdapterReturns(f) \/ PassGate(f)
                 \/ StoreCancel(f) \/ OutClosed(f) \/ AwaitAdapter(f)
                 \/ ReportError(f) \/ ReleaseGate(f) \/ SendFails(f)
          PROVE  up' = up
      BY <2>4 DEF ReceiveExecute, ReceiveCancel, Receive, AdapterReturns, PassGate, StoreCancel,
                  OutClosed, AwaitAdapter, ReportError, ReleaseGate, SendFails
    <2>5. ASSUME NEW f \in Execs,
                 \/ FlushBatch(f) \/ InvalidFinding(f) \/ FlushSent(f) \/ FlushFails(f)
                 \/ DoneSent(f) \/ DoneFails(f)
          PROVE  up' = up
      BY <2>5 DEF FlushBatch, InvalidFinding, FlushSent, FlushFails, DoneSent, DoneFails
    <2>6. CASE UNCHANGED vars
      BY <2>6 DEF vars
    <2> QED
      BY <2>1, <2>2, <2>3, <2>4, <2>5, <2>6
      DEF Next, RunStep, Environment, ExecStep, HandleStep, Terminated
  <1> QED
    BY <1>1, <1>2, <1>3, <1>4

LEMMA FinalStep ==
  TypeOK /\ DoneInv /\ SentInv /\ DoneAtMostOnce /\ CleanInv /\ [Next]_vars
      => DoneAtMostOnce' /\ CleanInv'
  <1> SUFFICES ASSUME TypeOK, DoneInv, SentInv, DoneAtMostOnce, CleanInv, [Next]_vars
               PROVE  DoneAtMostOnce' /\ CleanInv'
    OBVIOUS
  <1>1. up \in Seq(ConnectorMsg) /\ DOMAIN up = 1..Len(up) /\ Len(up) \in Nat
    BY LenProperties DEF TypeOK
  <1>2. \A i \in DOMAIN up : up[i] \in ConnectorMsg
    BY <1>1, ElementOfSeq
  <1>3. ASSUME NEW i \in DOMAIN up, OkDone(up, i), NEW e \in Execs, e = up[i].id
        PROVE  Vouched(e)' /\ ResultsIn(up, e, i) = 1..results'[e]
    <2>1. HasDone(up, e) /\ Vouched(e)
      BY <1>3 DEF HasDone, OkDone, CleanInv
    <2>2. ResultsIn(up, e, i) = 1..results[e]
      BY <1>3 DEF CleanInv
    <2>3. Vouched(e)' /\ results'[e] = results[e]
      BY <2>1, VouchedStays
    <2> QED
      BY <2>2, <2>3
  <1>4. CASE up' = up
    <2>1. DoneAtMostOnce'
      BY <1>4 DEF DoneAtMostOnce
    <2>2. CleanInv'
      <3> SUFFICES ASSUME NEW i \in DOMAIN up', OkDone(up, i)',
                          NEW e \in Execs, e = up'[i].id
                   PROVE  Vouched(e)' /\ ResultsIn(up', e, i) = 1..results'[e]
        BY <1>2, <1>4 DEF CleanInv, ConnectorMsg
      <3> QED
        BY <1>3, <1>4 DEF OkDone
    <2> QED
      BY <2>1, <2>2
  <1>5. CASE up' # up
    <2>1. PICK m \in ConnectorMsg :
                /\ up' = Append(up, m) /\ results' = results
                /\ m.kind = "done" =>
                       /\ ~HasDone(up, m.id)
                       /\ m.err = "ok" =>
                              /\ ResultsIn(up, m.id, Len(up) + 1) = 1..results[m.id]
                              /\ \A s \in stray' : s.id # m.id
      BY <1>5, DoneArrives
    <2>2. /\ DOMAIN up' = 1..(Len(up) + 1) /\ Len(up') = Len(up) + 1
          /\ \A i \in 1..Len(up) : up'[i] = up[i]
          /\ up'[Len(up) + 1] = m
      BY <1>1, <2>1, AppendMsg
    <2>3. m.id \in Execs
      BY DEF ConnectorMsg
    <2>4. m.kind = "done" => \A i \in DOMAIN up : ~(up[i].kind = "done" /\ up[i].id = m.id)
      BY <2>1 DEF HasDone
    <2>5. DoneAtMostOnce'
      BY <1>1, <2>2, <2>4 DEF DoneAtMostOnce
    <2>6. ASSUME NEW i \in DOMAIN up', OkDone(up, i)', NEW e \in Execs, e = up'[i].id
          PROVE  Vouched(e)' /\ ResultsIn(up', e, i) = 1..results'[e]
      <3>1. CASE i \in DOMAIN up
        <4>1. up'[i] = up[i] /\ OkDone(up, i) /\ e = up[i].id
          BY <1>1, <2>2, <2>6, <3>1 DEF OkDone
        <4>2. ResultsIn(up', e, i) = ResultsIn(up, e, i)
          BY <1>1, <2>1, <3>1, AppendResults
        <4> QED
          BY <1>3, <3>1, <4>1, <4>2
      <3>2. CASE i = Len(up) + 1
        <4>1. m.kind = "done" /\ m.err = "ok" /\ up'[i] = m /\ e = m.id
          BY <2>2, <2>6, <3>2 DEF OkDone
        <4>2. ResultsIn(up, m.id, Len(up) + 1) = 1..results'[m.id] /\ \A s \in stray' : s.id # m.id
          BY <2>1, <4>1
        <4>3. ResultsIn(up', m.id, i) = 1..results'[m.id]
          <5>1. i \in 1..(Len(up) + 1)
            BY <1>1, <3>2
          <5> QED
            BY <1>1, <2>1, <2>3, <3>2, <4>2, <5>1, AppendResults
        <4>4. ResultsIn(up', m.id, Len(up') + 1) = 1..results'[m.id]
          BY <1>1, <2>1, <2>3, <4>1, <4>2, AppendResults
        <4> QED
          BY <4>1, <4>2, <4>3, <4>4 DEF Vouched
      <3> QED
        BY <1>1, <2>2, <3>1, <3>2
    <2>7. \A i \in DOMAIN up' : up'[i].id \in Execs
      BY <1>1, <1>2, <2>2, <2>3 DEF ConnectorMsg
    <2>8. CleanInv'
      BY <2>6, <2>7 DEF CleanInv
    <2> QED
      BY <2>5, <2>8
  <1> QED
    BY <1>4, <1>5

LEMMA CleanIsComplete == CleanInv => CleanDoneIsComplete
  BY DEF CleanInv, CleanDoneIsComplete, OkDone, Vouched, ResultsIn, ResultsBefore

-----------------------------------------------------------------------------
(* Why Run returns: what is in the channels it listens to is true of the   *)
(* link, and of the executions.                                            *)
Unsent == \E e \in Execs : verdict[e] = "unsent"
ExitInv ==
    /\ run \in {"starting", "registering"} => dispatched = {}
    /\ Alive => exit = "none"
    /\ recvErrCh = "eof" => ~linkUp
    /\ recvErrCh = "broken" => Broken
    /\ ErrorWaits => Unsent

LEMMA UnsentStays ==
  ASSUME TypeOK, SentInv, [Next]_vars, Unsent
  PROVE  Unsent'
  <1> USE DEF Unsent, execVars, TypeOK
  <1>1. CASE UNCHANGED <<phase, execGate, cancels, verdict>>
    BY <1>1
  <1>2. ASSUME NEW e \in Execs, PassGate(e) PROVE Unsent'
    BY <1>2 DEF PassGate
  <1>3. ASSUME NEW e \in Execs, StepsOf(e) PROVE Unsent'
    <2>1. CASE AwaitAdapter(e)
      BY <2>1 DEF AwaitAdapter, SentInv, SentOk, VerdictOk
    <2>2. CASE StoreCancel(e) \/ OutClosed(e) \/ ReportError(e) \/ ReleaseGate(e)
      BY <2>2 DEF StoreCancel, OutClosed, ReportError, ReleaseGate
    <2>3. CASE FlushSent(e) \/ FlushFails(e) \/ DoneSent(e) \/ DoneFails(e)
      BY <2>3 DEF FlushSent, FlushFails, DoneSent, DoneFails
    <2>4. CASE FlushBatch(e) \/ InvalidFinding(e)
      BY <2>4 DEF FlushBatch, InvalidFinding
    <2> QED
      BY <1>3, <2>1, <2>2, <2>3, <2>4 DEF StepsOf, HandleStep
  <1> QED
    BY <1>1, <1>2, <1>3, StepKinds

(* An error gets into execErrCh when a Done could not be sent.             *)
LEMMA ErrorHasCause ==
  ASSUME TypeOK, SentInv, [Next]_vars, ErrorWaits => Unsent
  PROVE  ErrorWaits' => Unsent'
  <1> USE DEF loopVars
  <1>1. CASE UNCHANGED execErrCh
    BY <1>1, UnsentStays DEF ErrorWaits
  <1>2. CASE TakeExecError
    <2>1. execErrCh # <<>> /\ execErrCh' = Tail(execErrCh) /\ execErrCh \in Seq({"nil", "err"})
      BY <1>2 DEF TakeExecError, TypeOK
    <2>2. /\ DOMAIN execErrCh = 1..Len(execErrCh) /\ Len(execErrCh) \in Nat \ {0}
          /\ Tail(execErrCh) \in Seq({"nil", "err"})
          /\ Len(Tail(execErrCh)) = Len(execErrCh) - 1
          /\ \A j \in 1..Len(Tail(execErrCh)) : Tail(execErrCh)[j] = execErrCh[j + 1]
      BY <2>1, EmptySeq, LenProperties, HeadTailProperties
    <2>3. DOMAIN Tail(execErrCh) = 1..(Len(execErrCh) - 1)
      BY <2>2, LenProperties
    <2>4. ErrorWaits' => ErrorWaits
      <3> SUFFICES ASSUME NEW i \in DOMAIN Tail(execErrCh), Tail(execErrCh)[i] = "err"
                   PROVE  \E k \in DOMAIN execErrCh : execErrCh[k] = "err"
        BY <2>1 DEF ErrorWaits
      <3>1. i + 1 \in DOMAIN execErrCh /\ execErrCh[i + 1] = "err"
        BY <2>2, <2>3
      <3> QED
        BY <3>1
    <2> QED
      BY <2>4, UnsentStays
  <1>3. ASSUME NEW e \in Execs, ReportError(e) PROVE ErrorWaits' => Unsent'
    <2>1. /\ execErrCh' = Append(execErrCh, Reported(e)) /\ UNCHANGED verdict
          /\ execErrCh \in Seq({"nil", "err"}) /\ Reported(e) \in {"nil", "err"}
      BY <1>3 DEF ReportError, TypeOK, Reported
    <2>2. /\ DOMAIN execErrCh = 1..Len(execErrCh) /\ Len(execErrCh) \in Nat
          /\ DOMAIN execErrCh' = 1..(Len(execErrCh) + 1)
          /\ \A i \in 1..Len(execErrCh) : execErrCh'[i] = execErrCh[i]
          /\ execErrCh'[Len(execErrCh) + 1] = Reported(e)
      BY <2>1, AppendProperties, LenProperties
    <2>3. CASE verdict[e] = "unsent"
      BY <2>1, <2>3 DEF Unsent
    <2>4. CASE verdict[e] # "unsent"
      <3>1. Reported(e) = "nil"
        BY <2>4 DEF Reported
      <3>2. ErrorWaits' => ErrorWaits
        BY <2>2, <3>1 DEF ErrorWaits
      <3> QED
        BY <3>2, UnsentStays
    <2> QED
      BY <2>3, <2>4
  <1>4. UNCHANGED execErrCh \/ TakeExecError \/ \E e \in Execs : ReportError(e)
    BY ErrChSteps
  <1> QED
    BY <1>1, <1>2, <1>3, <1>4

LEMMA ReturnCauses ==
  ASSUME TypeOK, ExitInv, TakeRecvError \/ TakeExecError \/ TakeShutdown, run' = "returned"
  PROVE  /\ exit' = "retryable" => ~linkUp \/ Unsent
         /\ exit' = "nil" => ~linkUp
         /\ exit' = "ctx" => ctxDone
         /\ exit' # "fatal"
  <1>1. CASE TakeRecvError
    BY <1>1 DEF TakeRecvError, Return, ExitInv, Broken, TypeOK
  <1>2. CASE TakeExecError
    <2>1. execErrCh # <<>> /\ Head(execErrCh) = "err" /\ exit' = "retryable"
      BY <1>2 DEF TakeExecError, Return
    <2>2. 1 \in DOMAIN execErrCh /\ execErrCh[1] = "err"
      <3>1. execErrCh \in Seq({"nil", "err"})
        BY DEF TypeOK
      <3>2. Len(execErrCh) \in Nat \ {0} /\ DOMAIN execErrCh = 1..Len(execErrCh)
            /\ Head(execErrCh) = execErrCh[1]
        BY <2>1, <3>1, EmptySeq, LenProperties, HeadTailProperties
      <3> QED
        BY <2>1, <3>2
    <2>3. Unsent
      BY <2>2 DEF ErrorWaits, ExitInv
    <2> QED
      BY <2>1, <2>3
  <1>3. CASE TakeShutdown
    BY <1>3 DEF TakeShutdown, Return
  <1> QED
    BY <1>1, <1>2, <1>3

LEMMA ExitStep ==
  TypeOK /\ SentInv /\ ExitInv /\ ReturnsForTheStreamOnly /\ [Next]_vars
      => ExitInv' /\ ReturnsForTheStreamOnly'
  <1> SUFFICES ASSUME TypeOK, SentInv, ExitInv, ReturnsForTheStreamOnly, [Next]_vars
               PROVE  ExitInv' /\ ReturnsForTheStreamOnly'
    OBVIOUS
  <1>1. /\ ErrorWaits' => Unsent'
        /\ Unsent => Unsent'
    BY ErrorHasCause, UnsentStays DEF ExitInv
  <1> DEFINE Rest == /\ run' \in {"starting", "registering"} => dispatched' = {}
                     /\ Alive' => exit' = "none"
                     /\ recvErrCh' = "eof" => ~linkUp'
                     /\ recvErrCh' = "broken" => Broken'
             Causes == dispatched' # {} =>
                           /\ exit' = "retryable" => ~linkUp' \/ Unsent'
                           /\ exit' = "nil" => ~linkUp'
                           /\ exit' = "ctx" => ctxDone'
                           /\ exit' # "fatal"
  <1>2. SUFFICES Rest /\ Causes
    BY <1>1 DEF ExitInv, ReturnsForTheStreamOnly, Unsent
  <1>3. /\ dispatched # {} =>
               /\ exit = "retryable" => ~linkUp \/ Unsent
               /\ exit = "nil" => ~linkUp
               /\ exit = "ctx" => ctxDone
               /\ exit # "fatal"
        /\ run \in {"starting", "registering"} => dispatched = {}
        /\ Alive => exit = "none"
        /\ recvErrCh = "eof" => ~linkUp
        /\ recvErrCh = "broken" => Broken
    BY DEF ExitInv, ReturnsForTheStreamOnly, Unsent
  <1> USE <1>1, <1>3 DEF workerVars, loopVars, execVars, sendVars, Alive, Serving, Broken
  <1>4. CASE StartFails \/ SendRegister \/ AwaitAck
    BY <1>4 DEF StartFails, SendRegister, AwaitAck, Return
  <1>5. CASE TakeExecute \/ TakeCancel
    BY <1>5 DEF TakeExecute, TakeCancel
  <1>6. CASE TakeRecvError \/ TakeExecError \/ TakeShutdown
    <2>1. CASE run' # "returned"
      BY <1>6, <2>1 DEF TakeRecvError, TakeExecError, TakeShutdown, Return
    <2>2. CASE run' = "returned"
      <3>1. UNCHANGED <<dispatched, linkUp, ctxDone>>
            /\ (recvErrCh' = recvErrCh \/ recvErrCh' = "none")
        BY <1>6 DEF TakeRecvError, TakeExecError, TakeShutdown
      <3> QED
        BY <1>6, <2>2, <3>1, ReturnCauses
    <2> QED
      BY <2>1, <2>2
  <1>7. CASE ReceiveError \/ LinkCloses \/ Shutdown
    BY <1>7 DEF ReceiveError, LinkCloses, Shutdown
  <1>8. ASSUME NEW e \in Execs, ReceiveExecute(e) \/ ReceiveCancel(e) PROVE Rest /\ Causes
    BY <1>8 DEF ReceiveExecute, ReceiveCancel, Receive
  <1>9. ASSUME NEW e \in Execs, PassGate(e) PROVE Rest /\ Causes
    BY <1>9 DEF PassGate
  <1> DEFINE Quiet == UNCHANGED <<dispatched, run, exit, recvErrCh, linkUp, ctxDone>>
  <1>10. Quiet => Rest /\ Causes
    OBVIOUS
  <1>11. ASSUME NEW e \in Execs, StepsOf(e) \/ AdapterReturns(e) \/ SendAccepted(e) \/ SendFails(e)
         PROVE  Quiet
    BY <1>11 DEF StepsOf, HandleStep, StoreCancel, FlushSent, FlushFails, OutClosed,
                 AwaitAdapter, DoneSent, DoneFails, ReportError, ReleaseGate,
                 FlushBatch, InvalidFinding, AdapterReturns, SendAccepted, SendFails
  <1>12. ASSUME NEW m \in stray, StrayEnds(m) PROVE Quiet
    BY <1>12 DEF StrayEnds
  <1>13. CASE UNCHANGED vars
    BY <1>13 DEF vars
  <1> QED
    BY <1>4, <1>5, <1>6, <1>7, <1>8, <1>9, <1>10, <1>11, <1>12, <1>13
    DEF Next, RunStep, Environment, ExecStep, Terminated, StepsOf

-----------------------------------------------------------------------------
(* What is on the stream and why Run returns, as one inductive invariant.  *)
StreamInv ==
    /\ QueueInv /\ SentInv /\ DoneAtMostOnce /\ CleanInv
    /\ ExitInv /\ ReturnsForTheStreamOnly

LEMMA InitStreamInv == Init => StreamInv
  <1> SUFFICES ASSUME Init PROVE StreamInv
    OBVIOUS
  <1>1. /\ msgCh = <<>> /\ up = <<>> /\ execErrCh = <<>> /\ Len(up) = 0
        /\ DOMAIN msgCh = {} /\ DOMAIN up = {} /\ DOMAIN execErrCh = {}
    BY DEF Init
  <1>2. QueueInv /\ DoneAtMostOnce /\ CleanInv
    BY <1>1 DEF Init, QueueInv, QueuedOnce, DoneAtMostOnce, CleanInv
  <1>3. SentInv
    <2> SUFFICES ASSUME NEW e \in Execs PROVE SentOk(e)
      BY DEF SentInv
    <2>1. Sent(e) = {} /\ results[e] = 0 /\ ~HasDone(up, e) /\ stray = {}
      BY <1>1 DEF Init, Sent, ResultsIn, HasDone
    <2>2. Delivered(e) /\ StrayOf(stray, e, "done") = {} /\ phase[e] = "new"
          /\ verdict[e] = "none" /\ call[e] = "idle"
      BY <2>1 DEF Init, Delivered, StrayOf
    <2> QED
      BY <2>1, <2>2 DEF SentOk, CallOk, VerdictOk, DoneOk, ResultOk, Early
  <1>4. ExitInv /\ ReturnsForTheStreamOnly
    BY <1>1 DEF Init, ExitInv, ReturnsForTheStreamOnly, Alive, ErrorWaits
  <1> QED
    BY <1>2, <1>3, <1>4 DEF StreamInv

LEMMA StreamStep == IInv /\ StreamInv /\ [Next]_vars => StreamInv'
  BY QueueStep, SentStep, FinalStep, ExitStep DEF IInv, StreamInv

THEOREM StreamInvHolds == Spec => [](IInv /\ StreamInv)
  BY InitIInv, InitStreamInv, IInvStep, StreamStep, PTL DEF Spec

(* What Done says is final (runtime.go:453-566, the flushes and the Done of*)
(* handleExecute): an execution has one Done on the stream, whatever       *)
(* becomes of the sends that timed out, and behind a Done that says ok     *)
(* every Result of the execution is there and none can follow.             *)
THEOREM DoneStaysTrue == Spec => []DoneIsFinal
  <1>1. StreamInv => DoneIsFinal
    BY CleanIsComplete DEF StreamInv, DoneIsFinal
  <1> QED
    BY <1>1, StreamInvHolds, PTL

(* Once it serves, Run returns an error for a broken link or a Done that   *)
(* could not be sent, and nil for a stream the Worker closed; nothing an   *)
(* execution does ends it otherwise (runtime.go:238-287).                  *)
THEOREM OnlyTheStreamEndsRun == Spec => []ReturnsForTheStreamOnly
  <1>1. StreamInv => ReturnsForTheStreamOnly
    BY DEF StreamInv
  <1> QED
    BY <1>1, StreamInvHolds, PTL
=============================================================================
