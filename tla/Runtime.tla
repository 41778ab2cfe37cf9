------------------------------ MODULE Runtime ------------------------------
(***************************************************************************)
(* sdk/runtime: one connector process serving the executions that a Worker *)
(* sends it over one bidirectional gRPC stream.  The module has one action *)
(* per step of every goroutine involved: Run's select loop, the Recv       *)
(* goroutine, one handleExecute goroutine per execution, the adapter it    *)
(* starts, and the short-lived goroutine that each sendStreamMsg spawns    *)
(* around stream.Send.  The Worker and the connection are the environment. *)
(*                                                                         *)
(* Findings are abstract here: a Result is numbered, and what a batch      *)
(* holds is the subject of module ResultStream.                            *)
(***************************************************************************)
EXTENDS Naturals, Sequences, FiniteSets

CONSTANTS
    Execs,       \* the execution ids the Worker may dispatch on this stream
    MsgCap,      \* capacity of msgCh (16 in the code)
    ErrCap,      \* capacity of execErrCh (8 in the code)
    MaxResults,  \* bound: the Result messages each execution may produce
    MaxCancels,  \* bound: Cancel messages received
    Pipelined,   \* may the Worker dispatch before the previous Done arrived?
    CtxEnds      \* may Run's context end?  Not under Main, it may in the tests

ASSUME RuntimeAssumption ==
    /\ MsgCap \in Nat \ {0}
    /\ ErrCap \in Nat \ {0}
    /\ MaxResults \in [Execs -> Nat]
    /\ MaxCancels \in Nat
    /\ Pipelined \in BOOLEAN
    /\ CtxEnds \in BOOLEAN

VARIABLES
    \* the Worker and the connection
    dispatched,  \* executions whose Execute has been received
    recalled,    \* executions whose Cancel has been received
    linkUp,      \* FALSE once the Worker closed the stream or it broke
    up,          \* connector messages the stream has accepted, in order
    \* Run and its channels
    run,         \* where Run is; "gated": blocked on execGate
    exit,        \* what Run returned: "nil", "fatal", "retryable", "ctx"
    gated,       \* the execution Run is blocked for, as a set of at most one
    ctxDone,     \* the context given to Run is cancelled
    msgCh, recvErrCh, execErrCh, execGate,
    \* handleExecute, one per execution
    phase,       \* where its goroutine is
    cancels,     \* Runtime.cancels: the ids that have a cancel func
    aborted,     \* executions whose own context has been cancelled
    fault,       \* "none", "send" (sendErr) or "invalid" (invalidErr)
    results,     \* Result sends started
    call,        \* the current sendStreamMsg: "idle", "pending", "ok", "failed"
    stray,       \* sends given up by sendStreamMsg and still inside stream.Send
    verdict,     \* what Done says, "unsent" when Done could not be sent
    adapter      \* "idle", "running", or what is in errCh: "nil" or "err"

workerVars == <<dispatched, recalled, linkUp>>
loopVars == <<run, exit, gated, ctxDone, msgCh, recvErrCh, execErrCh, execGate>>
execVars == <<phase, cancels, aborted, fault, results, verdict>>
sendVars == <<up, call, stray>>
vars == <<workerVars, loopVars, execVars, sendVars, adapter>>

-----------------------------------------------------------------------------
(* Messages and phases.                                                    *)

WorkerMsg == [kind : {"execute", "cancel"}, id : Execs]
Verdicts == {"ok", "error", "canceled"}
Result(e, n) == [kind |-> "result", id |-> e, n |-> n]
Done(e, v) == [kind |-> "done", id |-> e, err |-> v]
ConnectorMsg ==
    [kind : {"result"}, id : Execs, n : Nat]
        \cup [kind : {"done"}, id : Execs, err : Verdicts]

Phases == {"new",        \* no handleExecute yet
           "spawned",    \* the goroutine exists, its cancel func is not stored
           "streaming",  \* in the select loop over out and the flush timer
           "flushing",   \* in sendStreamMsg with a Result
           "waiting",    \* the loop is left, awaiting the adapter
           "finishing",  \* in sendStreamMsg with the Done
           "reporting",  \* handleExecute returned, sending on execErrCh
           "releasing",  \* the deferred gate release
           "ended"}

(* handleExecute is between storing its cancel func and returning.         *)
Executing(e) == phase[e] \in {"streaming", "flushing", "waiting", "finishing"}
(* The goroutine Run spawned holds a token of execGate.                    *)
HoldsGate(e) == phase[e] \notin {"new", "ended"}
(* execCtx.Err() # nil: the execution's context, or Run's, is cancelled.   *)
Aborted(e) == e \in aborted \/ ctxDone
Serving == run \in {"serving", "gated"}
(* The process exits when Run returns, and every goroutine goes with it.   *)
Alive == run # "returned"

-----------------------------------------------------------------------------
Init ==
    /\ dispatched = {} /\ recalled = {} /\ linkUp = TRUE
    /\ up = <<>>
    /\ run = "starting" /\ exit = "none" /\ gated = {} /\ ctxDone = FALSE
    /\ msgCh = <<>> /\ recvErrCh = "none" /\ execErrCh = <<>> /\ execGate = 0
    /\ phase = [e \in Execs |-> "new"]
    /\ cancels = {} /\ aborted = {} /\ stray = {}
    /\ fault = [e \in Execs |-> "none"]
    /\ results = [e \in Execs |-> 0]
    /\ call = [e \in Execs |-> "idle"]
    /\ verdict = [e \in Execs |-> "none"]
    /\ adapter = [e \in Execs |-> "idle"]

-----------------------------------------------------------------------------
(* The Worker and the network.                                             *)

(* The executions whose Done the Worker has received.                      *)
Finished == {e \in Execs : \E i \in DOMAIN up : up[i].kind = "done" /\ up[i].id = e}

(* The stream ends: closed by the Worker or broken.  Sends fail from here, *)
(* as they do once Run's context, which is the stream's, is cancelled.     *)
Broken == ~linkUp \/ ctxDone
LinkCloses ==
    /\ Serving /\ linkUp
    /\ linkUp' = FALSE
    /\ UNCHANGED <<dispatched, recalled, loopVars, execVars, sendVars, adapter>>

(* The caller of Run cancels its context (Main never does, the tests do).  *)
Shutdown ==
    /\ CtxEnds /\ Serving /\ ~ctxDone
    /\ ctxDone' = TRUE
    /\ UNCHANGED <<workerVars, run, exit, gated, msgCh, recvErrCh, execErrCh,
                   execGate, execVars, sendVars, adapter>>

-----------------------------------------------------------------------------
(* Run: startup.  env.Load, the TLS files, the dial, Connect and the       *)
(* Register send each end Run on failure; then the ack is awaited.         *)

Return(how) == run' = "returned" /\ exit' = how

StartFails ==
    /\ run = "starting"
    /\ \E how \in {"fatal", "retryable"} : Return(how)
    /\ UNCHANGED <<workerVars, gated, ctxDone, msgCh, recvErrCh, execErrCh,
                   execGate, execVars, sendVars, adapter>>

SendRegister ==
    /\ run = "starting"
    /\ run' = "registering"
    /\ UNCHANGED <<workerVars, exit, gated, ctxDone, msgCh, recvErrCh, execErrCh,
                   execGate, execVars, sendVars, adapter>>

AwaitAck ==
    /\ run = "registering"
    /\ \/ run' = "serving" /\ exit' = exit
       \/ Return("fatal")        \* refused, or another message came first
       \/ Return("retryable")    \* Recv failed
    /\ UNCHANGED <<workerVars, gated, ctxDone, msgCh, recvErrCh, execErrCh,
                   execGate, execVars, sendVars, adapter>>

-----------------------------------------------------------------------------
(* The Recv goroutine: stream.Recv, then a send on msgCh that blocks while *)
(* the buffer is full; the first error ends it.  A message the Worker has  *)
(* sent and Recv has not returned is one it has not sent yet: which message*)
(* comes next is decided when it is received.  Messages that arrived before*)
(* the stream was closed are still received.                               *)

MsgRoom == Len(msgCh) < MsgCap

Receive(kind, e) ==
    /\ Serving /\ recvErrCh = "none" /\ MsgRoom
    /\ msgCh' = Append(msgCh, [kind |-> kind, id |-> e])
    /\ UNCHANGED <<linkUp, run, exit, gated, ctxDone, recvErrCh, execErrCh,
                   execGate, execVars, sendVars, adapter>>

ReceiveExecute(e) ==
    /\ e \notin dispatched
    /\ Pipelined \/ dispatched \subseteq Finished
    /\ dispatched' = dispatched \cup {e}
    /\ UNCHANGED recalled
    /\ Receive("execute", e)

ReceiveCancel(e) ==
    /\ e \in dispatched \ recalled /\ Cardinality(recalled) < MaxCancels
    /\ recalled' = recalled \cup {e}
    /\ UNCHANGED dispatched
    /\ Receive("cancel", e)

ReceiveError ==
    /\ Serving /\ Broken /\ recvErrCh = "none"
    /\ recvErrCh' \in IF linkUp THEN {"broken"} ELSE {"eof", "broken"}
    /\ UNCHANGED <<workerVars, run, exit, gated, ctxDone, msgCh, execErrCh,
                   execGate, execVars, sendVars, adapter>>

-----------------------------------------------------------------------------
(* Run's select loop.                                                      *)

(* An Execute is taken: Run now blocks until the gate has a free slot.     *)
TakeExecute ==
    /\ run = "serving" /\ msgCh # <<>> /\ Head(msgCh).kind = "execute"
    /\ msgCh' = Tail(msgCh)
    /\ run' = "gated" /\ gated' = {Head(msgCh).id}
    /\ UNCHANGED <<workerVars, exit, ctxDone, recvErrCh, execErrCh, execGate,
                   execVars, sendVars, adapter>>

GateFree_TwoSlots == execGate < 2
GateFree == execGate < 1

PassGate(e) ==
    /\ run = "gated" /\ e \in gated
    /\ GateFree
    /\ execGate' = execGate + 1
    /\ run' = "serving" /\ gated' = {}
    /\ phase' = [phase EXCEPT ![e] = "spawned"]
    /\ UNCHANGED <<workerVars, exit, ctxDone, msgCh, recvErrCh, execErrCh,
                   cancels, aborted, fault, results, verdict, sendVars, adapter>>

(* cancelExecution: an id without a cancel func is ignored.                *)
TakeCancel ==
    /\ run = "serving" /\ msgCh # <<>> /\ Head(msgCh).kind = "cancel"
    /\ msgCh' = Tail(msgCh)
    /\ aborted' = aborted \cup ({Head(msgCh).id} \cap cancels)
    /\ UNCHANGED <<workerVars, run, exit, gated, ctxDone, recvErrCh, execErrCh,
                   execGate, phase, cancels, fault, results, verdict, sendVars,
                   adapter>>

TakeRecvError ==
    /\ run = "serving" /\ recvErrCh # "none"
    /\ Return(IF ctxDone THEN "ctx"
              ELSE IF recvErrCh = "eof" THEN "nil" ELSE "retryable")
    /\ recvErrCh' = "none"
    /\ UNCHANGED <<workerVars, gated, ctxDone, msgCh, execErrCh, execGate,
                   execVars, sendVars, adapter>>

TakeExecError ==
    /\ run = "serving" /\ execErrCh # <<>>
    /\ execErrCh' = Tail(execErrCh)
    /\ IF Head(execErrCh) = "err"
       THEN Return("retryable")
       ELSE UNCHANGED <<run, exit>>
    /\ UNCHANGED <<workerVars, gated, ctxDone, msgCh, recvErrCh, execGate,
                   execVars, sendVars, adapter>>

TakeShutdown ==
    /\ Serving /\ ctxDone
    /\ Return("ctx")
    /\ UNCHANGED <<workerVars, gated, ctxDone, msgCh, recvErrCh, execErrCh,
                   execGate, execVars, sendVars, adapter>>

-----------------------------------------------------------------------------
(* sendStreamMsg: the inner goroutine performs stream.Send while the       *)
(* caller waits for it, for its abort context or for the 30 s timer.       *)

(* What execution e is sending in the phase it is in.                      *)
Sending(e) == IF phase[e] = "finishing" THEN Done(e, verdict[e])
              ELSE Result(e, results[e])

SendAccepted(e) ==
    /\ Alive /\ call[e] = "pending" /\ linkUp
    /\ call' = [call EXCEPT ![e] = "ok"]
    /\ up' = Append(up, Sending(e))
    /\ UNCHANGED <<workerVars, loopVars, execVars, stray, adapter>>

SendFails(e) ==
    /\ Alive /\ call[e] = "pending" /\ Broken
    /\ call' = [call EXCEPT ![e] = "failed"]
    /\ UNCHANGED <<workerVars, loopVars, execVars, up, stray, adapter>>

(* A send its caller gave up still ends one day.                           *)
StrayEnds(m) ==
    /\ Alive /\ m \in stray
    /\ stray' = stray \ {m}
    /\ \/ linkUp /\ up' = Append(up, m)
       \/ Broken /\ up' = up
    /\ UNCHANGED <<workerVars, loopVars, execVars, call, adapter>>

(* The caller stops waiting: a Send that is still running is left behind.  *)
LeaveSend(e) ==
    /\ call' = [call EXCEPT ![e] = "idle"]
    /\ stray' = IF call[e] = "pending" THEN stray \cup {Sending(e)} ELSE stray

-----------------------------------------------------------------------------
(* handleExecute.                                                          *)

(* Derive execCtx, store its cancel func, start the adapter.               *)
StoreCancel(e) ==
    /\ Alive /\ phase[e] = "spawned"
    /\ phase' = [phase EXCEPT ![e] = "streaming"]
    /\ cancels' = cancels \cup {e}
    /\ adapter' = [adapter EXCEPT ![e] = "running"]
    /\ UNCHANGED <<workerVars, loopVars, aborted, fault, results, verdict, sendVars>>

StartResult(e) ==
    /\ results[e] < MaxResults[e]
    /\ results' = [results EXCEPT ![e] = @ + 1]
    /\ call' = [call EXCEPT ![e] = "pending"]
    /\ phase' = [phase EXCEPT ![e] = "flushing"]

(* The adapter's findings filled a batch, or the flush timer fired.        *)
FlushBatch(e) ==
    /\ Alive /\ phase[e] = "streaming"
    /\ StartResult(e)
    /\ UNCHANGED <<workerVars, loopVars, cancels, aborted, fault, verdict, up,
                   stray, adapter>>

(* f.Validate failed: the pending batch, if there is one, goes out first,  *)
(* then the execution is cancelled and the loop left.                      *)
InvalidFinding(e) ==
    /\ Alive /\ phase[e] = "streaming"
    /\ fault' = [fault EXCEPT ![e] = "invalid"]
    /\ \/ StartResult(e) /\ UNCHANGED aborted
       \/ /\ phase' = [phase EXCEPT ![e] = "waiting"]
          /\ aborted' = aborted \cup {e}
          /\ UNCHANGED <<results, call>>
    /\ UNCHANGED <<workerVars, loopVars, cancels, verdict, up, stray, adapter>>

(* The adapter returned, with or without an error or by a panic, and the   *)
(* deferred close(out) has run.                                            *)
OutIsClosed_OnSuccess(e) == adapter[e] = "nil"
OutIsClosed(e) == adapter[e] # "running"

(* The loop goes on, unless this was the last flush: the one at an invalid *)
(* finding, or after out was closed.                                       *)
FlushSent(e) ==
    /\ Alive /\ phase[e] = "flushing" /\ call[e] = "ok"
    /\ LeaveSend(e)
    /\ IF fault[e] = "invalid"
       THEN /\ phase' = [phase EXCEPT ![e] = "waiting"]
            /\ aborted' = aborted \cup {e}
       ELSE /\ \/ phase' = [phase EXCEPT ![e] = "streaming"]
               \/ OutIsClosed(e) /\ phase' = [phase EXCEPT ![e] = "waiting"]
            /\ UNCHANGED aborted
    /\ UNCHANGED <<workerVars, loopVars, cancels, fault, results, verdict, up, adapter>>

(* The send failed, the 30 s timer fired first, or the execution was       *)
(* cancelled meanwhile; only in the last case is no sendErr recorded.      *)
FlushFails(e) ==
    /\ Alive /\ phase[e] = "flushing"
    /\ call[e] # "ok" \/ Aborted(e)
    /\ LeaveSend(e)
    /\ fault' = [fault EXCEPT ![e] = IF Aborted(e) \/ @ = "invalid" THEN @ ELSE "send"]
    /\ aborted' = aborted \cup {e}
    /\ phase' = [phase EXCEPT ![e] = "waiting"]
    /\ UNCHANGED <<workerVars, loopVars, cancels, results, verdict, up, adapter>>

(* out is closed and drained: the loop is left.                            *)
OutClosed(e) ==
    /\ Alive /\ phase[e] = "streaming" /\ OutIsClosed(e)
    /\ phase' = [phase EXCEPT ![e] = "waiting"]
    /\ UNCHANGED <<workerVars, loopVars, cancels, aborted, fault, results,
                   verdict, sendVars, adapter>>

Outcome_NoCancelCheck(e) ==
    IF fault[e] # "none" \/ adapter[e] # "nil" THEN "error" ELSE "ok"
Outcome(e) ==
    IF fault[e] # "none" \/ adapter[e] # "nil" THEN "error"
    ELSE IF Aborted(e) THEN "canceled" ELSE "ok"

(* errCh has the adapter's error, or 30 s have passed, which is an error   *)
(* too.  (Nothing else depends on when the timer fires.)                   *)
AdapterOrTimer_Unbounded(e) == adapter[e] # "running"
AdapterOrTimer(e) == TRUE

(* Wait for the adapter, or give it up, and send Done.                     *)
AwaitAdapter(e) ==
    /\ Alive /\ phase[e] = "waiting" /\ AdapterOrTimer(e)
    /\ verdict' = [verdict EXCEPT ![e] = Outcome(e)]
    /\ phase' = [phase EXCEPT ![e] = "finishing"]
    /\ call' = [call EXCEPT ![e] = "pending"]
    /\ adapter' = [adapter EXCEPT ![e] = IF @ = "running" THEN @ ELSE "idle"]
    /\ UNCHANGED <<workerVars, loopVars, cancels, aborted, fault, results, up, stray>>

(* The deferred calls: the cancel func is removed, then called.            *)
ReturnFromHandle_KeepsEntry(e) ==
    /\ LeaveSend(e)
    /\ phase' = [phase EXCEPT ![e] = "reporting"]
    /\ UNCHANGED cancels
    /\ aborted' = aborted \cup {e}
    /\ fault' = [fault EXCEPT ![e] = "none"]
ReturnFromHandle(e) ==
    /\ LeaveSend(e)
    /\ phase' = [phase EXCEPT ![e] = "reporting"]
    /\ cancels' = cancels \ {e}
    /\ aborted' = aborted \cup {e}
    /\ fault' = [fault EXCEPT ![e] = "none"]

DoneSent(e) ==
    /\ Alive /\ phase[e] = "finishing" /\ call[e] = "ok"
    /\ ReturnFromHandle(e)
    /\ UNCHANGED <<workerVars, loopVars, results, verdict, up, adapter>>

DoneFails_Resends(e) ==
    /\ Alive /\ phase[e] = "finishing" /\ call[e] = "pending"
    /\ stray' = stray \cup {Sending(e)}
    /\ UNCHANGED <<workerVars, loopVars, execVars, up, call, adapter>>
DoneFails(e) ==
    /\ Alive /\ phase[e] = "finishing"
    /\ call[e] # "ok" \/ ctxDone
    /\ ReturnFromHandle(e)
    /\ verdict' = [verdict EXCEPT ![e] = "unsent"]
    /\ UNCHANGED <<workerVars, loopVars, results, up, adapter>>

Reported_Swallowed(e) == "nil"
Reported_AnyFailure(e) == IF verdict[e] # "ok" THEN "err" ELSE "nil"
Reported(e) == IF verdict[e] = "unsent" THEN "err" ELSE "nil"

ReportError(e) ==
    /\ Alive /\ phase[e] = "reporting" /\ Len(execErrCh) < ErrCap
    /\ execErrCh' = Append(execErrCh, Reported(e))
    /\ phase' = [phase EXCEPT ![e] = "releasing"]
    /\ UNCHANGED <<workerVars, run, exit, gated, ctxDone, msgCh, recvErrCh,
                   execGate, cancels, aborted, fault, results, verdict, sendVars,
                   adapter>>

ReachesRelease_OnSuccess(e) == phase[e] = "releasing" /\ verdict[e] = "ok"
ReachesRelease(e) == phase[e] = "releasing"

(* <-execGate is deferred: it runs however handleExecute ended.            *)
ReleaseGate(e) ==
    /\ Alive /\ ReachesRelease(e)
    /\ execGate' = execGate - 1
    /\ phase' = [phase EXCEPT ![e] = "ended"]
    /\ UNCHANGED <<workerVars, run, exit, gated, ctxDone, msgCh, recvErrCh,
                   execErrCh, cancels, aborted, fault, results, verdict, sendVars,
                   adapter>>

(* The adapter's Execute returns nil or an error, or panics; nobody reads  *)
(* the errCh of an execution that has given its adapter up.                *)
AdapterReturns(e) ==
    /\ Alive /\ adapter[e] = "running"
    /\ \E r \in IF verdict[e] = "none" THEN {"nil", "err"} ELSE {"idle"} :
           adapter' = [adapter EXCEPT ![e] = r]
    /\ UNCHANGED <<workerVars, loopVars, execVars, sendVars>>

-----------------------------------------------------------------------------
RunStep == \/ TakeExecute \/ TakeCancel \/ TakeRecvError \/ TakeExecError
           \/ TakeShutdown \/ \E e \in Execs : PassGate(e)
(* The steps that handleExecute takes without anything from the adapter.   *)
HandleStep(e) == \/ StoreCancel(e) \/ FlushSent(e) \/ FlushFails(e)
                 \/ OutClosed(e) \/ AwaitAdapter(e) \/ DoneSent(e)
                 \/ DoneFails(e) \/ ReportError(e) \/ ReleaseGate(e)
Environment == LinkCloses \/ Shutdown
ExecStep(e) == \/ ReceiveExecute(e) \/ ReceiveCancel(e) \/ HandleStep(e)
               \/ FlushBatch(e) \/ InvalidFinding(e) \/ AdapterReturns(e)
               \/ SendAccepted(e) \/ SendFails(e)

Terminated == ~Alive /\ UNCHANGED vars

Next == \/ StartFails \/ SendRegister \/ AwaitAck
        \/ RunStep \/ ReceiveError \/ Environment
        \/ \E e \in Execs : ExecStep(e)
        \/ \E m \in stray : StrayEnds(m)
        \/ Terminated

Spec == Init /\ [][Next]_vars

(* Every goroutine that can run does run and every timer fires: the Go     *)
(* scheduler and the runtime's timers.  Nothing is assumed of the Worker,  *)
(* of the network, or of stream.Send.                                      *)
Fairness == /\ WF_vars(RunStep) /\ WF_vars(ReceiveError)
            /\ \A e \in Execs : WF_vars(HandleStep(e))
FairSpec == Spec /\ Fairness

(* What connector.go asks of an adapter: a cancelled one returns.          *)
AdaptersObeyCancel ==
    \A e \in Execs : WF_vars(Aborted(e) /\ AdapterReturns(e))

-----------------------------------------------------------------------------
(* Invariants.                                                             *)

TypeOK ==
    /\ dispatched \subseteq Execs /\ recalled \subseteq Execs
    /\ linkUp \in BOOLEAN
    /\ run \in {"starting", "registering", "serving", "gated", "returned"}
    /\ exit \in {"none", "nil", "fatal", "retryable", "ctx"}
    /\ gated \subseteq Execs /\ ctxDone \in BOOLEAN
    /\ msgCh \in Seq(WorkerMsg) /\ Len(msgCh) <= MsgCap
    /\ recvErrCh \in {"none", "eof", "broken"}
    /\ execErrCh \in Seq({"nil", "err"}) /\ Len(execErrCh) <= ErrCap
    /\ execGate \in {0, 1}
    /\ phase \in [Execs -> Phases]
    /\ cancels \subseteq Execs /\ aborted \subseteq Execs
    /\ fault \in [Execs -> {"none", "send", "invalid"}]
    /\ results \in [Execs -> Nat]
    /\ call \in [Execs -> {"idle", "pending", "ok", "failed"}]
    /\ verdict \in [Execs -> Verdicts \cup {"none", "unsent"}]
    /\ adapter \in [Execs -> {"idle", "running", "nil", "err"}]
    /\ up \in Seq(ConnectorMsg) /\ stray \subseteq ConnectorMsg

(* One execution at a time per stream: between the moment Run starts it    *)
(* and the moment it gives the gate back, an execution is alone, whatever  *)
(* the Worker pipelines and however the execution ends.                    *)
OneExecution == \A e, f \in Execs : HoldsGate(e) /\ HoldsGate(f) => e = f

(* The cancel map holds exactly the executions that run: an entry outlives *)
(* its execution on no path, so a late Cancel aborts nothing, and every    *)
(* execution that streams, waits or reports can still be cancelled.        *)
CancelMapIsExact == cancels = {e \in Execs : Executing(e)}

ResultsBefore(e, i) ==
    {up[j].n : j \in {k \in 1..(i - 1) : up[k].kind = "result" /\ up[k].id = e}}

(* No silent drops: when a Done without error is on the stream, every      *)
(* Result of its execution is on the stream before it and none will come   *)
(* after it.                                                               *)
CleanDoneIsComplete ==
    \A i \in DOMAIN up : up[i].kind = "done" /\ up[i].err = "ok" =>
        LET e == up[i].id
        IN  /\ ResultsBefore(e, i) = 1..results[e]
            /\ ResultsBefore(e, Len(up) + 1) = 1..results[e]
            /\ \A m \in stray : m.id # e

(* An execution has one Done on the stream at most, also when the send of  *)
(* the Done timed out and completed afterwards.                            *)
DoneAtMostOnce ==
    \A i, j \in DOMAIN up :
        up[i].kind = "done" /\ up[j].kind = "done" /\ up[i].id = up[j].id => i = j

(* What Done says is final: it comes once, and one without error vouches   *)
(* for every Result of its execution.                                      *)
DoneIsFinal == DoneAtMostOnce /\ CleanDoneIsComplete

(* An execution whose Done could not be sent takes the stream down: its    *)
(* error is in execErrCh, waiting for Run, as long as Run has not returned.*)
LostDoneEndsRun ==
    \A e \in Execs :
        verdict[e] = "unsent" /\ phase[e] \in {"releasing", "ended"} /\ Alive
        => \E i \in DOMAIN execErrCh : execErrCh[i] = "err"

(* A failed execution is not a failed connector: once Run serves, it       *)
(* returns an error only for a broken connection, a Done that could not be *)
(* sent or its own context, and nil only for a stream the Worker closed.   *)
ReturnsForTheStreamOnly ==
    dispatched # {} =>
        /\ exit = "retryable" => \/ ~linkUp
                                 \/ \E e \in Execs : verdict[e] = "unsent"
        /\ exit = "nil" => ~linkUp
        /\ exit = "ctx" => ctxDone
        /\ exit # "fatal"

-----------------------------------------------------------------------------
(* Liveness.                                                               *)

(* An execution settled stays settled, and one that gave the gate back does*)
(* not take it again: for the finite set Execs, all being settled again and*)
(* again says of each that it is settled in the end.                       *)
Settled(e) == verdict[e] # "none" \/ ~Alive

(* A send failure or an invalid finding ends the execution with a Done, or *)
(* Run returns: the wait for an adapter that does not stop is bounded.     *)
FaultIsReported == []<>(\A e \in Execs : fault[e] # "none" => Settled(e))

(* Every execution that was cancelled while it ran is settled, provided    *)
(* that adapters obey their context.                                       *)
CancelIsReported ==
    AdaptersObeyCancel => []<>(\A e \in aborted : Settled(e))

(* Whatever goes wrong with an execution, the Worker hears of its end.     *)
TroubleIsSettled == FaultIsReported /\ CancelIsReported

(* An execution that has its verdict gives the gate back: Run is never     *)
(* blocked for good behind an execution that is over.                      *)
GateIsReturned == []<>(Alive => \A e \in Execs : verdict[e] # "none" => ~HoldsGate(e))

-----------------------------------------------------------------------------
(* Statements of the documentation that the code does not keep.            *)

(* README.md:72: "Cancel aborts the running execution's context".          *)
CancelReachesExecution ==
    [][\A e \in Execs :
        /\ msgCh # <<>> /\ msgCh' = Tail(msgCh)
        /\ Head(msgCh) = [kind |-> "cancel", id |-> e]
        /\ HoldsGate(e) /\ verdict[e] = "none"
        => e \in aborted']_vars

(* runtime.go:308: "Concurrent calls from multiple goroutines on the same  *)
(* stream are not supported".                                              *)
OneSendAtATime ==
    Cardinality({e \in Execs : call[e] = "pending"}) + Cardinality(stray) <= 1
=============================================================================
