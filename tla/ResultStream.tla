---------------------------- MODULE ResultStream ----------------------------
(***************************************************************************)
(* One execution of sdk/runtime seen from its findings: handleExecute from *)
(* the out channel to Done.  The adapter sends findings on out; the loop   *)
(* validates them, gathers them into batches and flushes a batch when it   *)
(* is full, before it would outgrow the byte limit, when its timer fires,  *)
(* when out is closed and before it stops at an invalid finding.           *)
(* Module Runtime has the goroutines around this loop; module Delivery is  *)
(* what the loop promises.                                                 *)
(***************************************************************************)
EXTENDS Naturals, Sequences, FiniteSets

CONSTANTS
    Finding,      \* the findings the adapter may emit, each at most once
    Invalid,      \* those that Validate rejects
    Size,         \* encoded size of each finding
    OutCap,       \* capacity of out (128 in the code)
    MaxFindings,  \* maxBatchFindings (100)
    MaxBytes      \* maxBatchBytes (1 MiB)

ASSUME StreamAssumption ==
    /\ Invalid \subseteq Finding
    /\ Size \in [Finding -> Nat]
    /\ OutCap \in Nat /\ MaxBytes \in Nat
    /\ MaxFindings \in Nat \ {0}

VARIABLES
    adapter,     \* "running", or what it left in errCh when it returned
    emitted,     \* history: what the adapter has sent on out
    out,         \* the channel; closed once the adapter has returned
    loop,        \* "select", "flushing", "awaiting", "finishing" or "ended"
    after,       \* what follows a flush: "append", "loop", "closed", "invalid"
    held,        \* the finding to append after a flush, as a sequence
    batch, batchBytes,
    timer,       \* flushTimer is running
    seen,        \* valid findings received
    invalidErr,  \* the index invalidErr names, as a set of at most one
    sendErr,     \* a Result send failed
    cancelled,   \* execCtx.Err() # nil
    recalled,    \* history: the Worker cancelled this execution
    call,        \* the current sendStreamMsg: "idle", "pending", "ok", "failed"
    stray,       \* a Result send given up and still running: at most one batch
    strayDone,   \* the same for the Done, as a set of at most one verdict
    verdict,     \* what Done is to say
    linkUp, wire, done

adapterVars == <<adapter, emitted>>
batchVars == <<held, batch, batchBytes, timer, seen>>
errVars == <<invalidErr, sendErr, recalled>>
sendVars == <<call, stray, strayDone, linkUp, wire, done>>
vars == <<adapterVars, out, loop, after, batchVars, errVars, cancelled, verdict, sendVars>>

Errors == {"invalid", "send", "adapter", "canceled"}
-----------------------------------------------------------------------------
Init ==
    /\ adapter = "running" /\ emitted = <<>> /\ out = <<>>
    /\ loop = "select" /\ after = "loop"
    /\ held = <<>> /\ batch = <<>> /\ batchBytes = 0 /\ timer = FALSE /\ seen = 0
    /\ invalidErr = {} /\ sendErr = FALSE /\ cancelled = FALSE /\ recalled = FALSE
    /\ call = "idle" /\ stray = <<>> /\ strayDone = {} /\ verdict = "none"
    /\ linkUp = TRUE /\ wire = <<>> /\ done = "none"

-----------------------------------------------------------------------------
(* The adapter, the Worker's Cancel and the connection.                    *)

OutRoom == Len(out) < OutCap

AdapterEmits(f) ==
    /\ adapter = "running" /\ OutRoom
    /\ \A i \in DOMAIN emitted : emitted[i] # f
    /\ emitted' = Append(emitted, f)
    /\ out' = Append(out, f)
    /\ UNCHANGED <<adapter, loop, after, batchVars, errVars, cancelled, verdict, sendVars>>

AdapterReturns ==
    /\ adapter = "running"
    /\ adapter' \in {"nil", "err"}
    /\ UNCHANGED <<emitted, out, loop, after, batchVars, errVars, cancelled,
                   verdict, sendVars>>

Cancel ==
    /\ loop # "ended" /\ ~cancelled
    /\ cancelled' = TRUE /\ recalled' = TRUE
    /\ UNCHANGED <<adapterVars, out, loop, after, batchVars, invalidErr, sendErr,
                   verdict, sendVars>>

LinkCloses ==
    /\ linkUp
    /\ linkUp' = FALSE
    /\ UNCHANGED <<adapterVars, out, loop, after, batchVars, errVars, cancelled,
                   verdict, call, stray, strayDone, wire, done>>

-----------------------------------------------------------------------------
(* sendStreamMsg, as in module Runtime.                                    *)

SendAccepted ==
    /\ call = "pending" /\ linkUp
    /\ call' = "ok"
    /\ IF loop = "finishing" THEN done' = verdict /\ UNCHANGED wire
                             ELSE wire' = wire \o batch /\ UNCHANGED done
    /\ UNCHANGED <<adapterVars, out, loop, after, batchVars, errVars, cancelled,
                   verdict, stray, strayDone, linkUp>>

SendFails ==
    /\ call = "pending" /\ ~linkUp
    /\ call' = "failed"
    /\ UNCHANGED <<adapterVars, out, loop, after, batchVars, errVars, cancelled,
                   verdict, stray, strayDone, linkUp, wire, done>>

StrayBatchEnds ==
    /\ stray # <<>>
    /\ stray' = <<>>
    /\ wire' = IF linkUp THEN wire \o stray ELSE wire
    /\ UNCHANGED <<adapterVars, out, loop, after, batchVars, errVars, cancelled,
                   verdict, call, strayDone, linkUp, done>>

StrayDoneEnds ==
    /\ strayDone # {}
    /\ strayDone' = {}
    /\ IF linkUp THEN done' \in strayDone ELSE done' = done
    /\ UNCHANGED <<adapterVars, out, loop, after, batchVars, errVars, cancelled,
                   verdict, call, stray, linkUp, wire>>

-----------------------------------------------------------------------------
(* The batch.                                                              *)

Full(b) == Len(b) >= MaxFindings
WouldOverflow_Never(f) == FALSE
WouldOverflow(f) == batch # <<>> /\ batchBytes + Size[f] > MaxBytes

(* flush() with something to send: the timer is stopped.                   *)
StartFlush_TimerKept(next) ==
    /\ loop' = "flushing" /\ after' = next
    /\ UNCHANGED timer
    /\ call' = "pending"
StartFlush(next) ==
    /\ loop' = "flushing" /\ after' = next
    /\ timer' = FALSE
    /\ call' = "pending"

(* append(batch, f): a full batch is flushed, else a timer is running.     *)
PutInBatch_NoTimer(f, b, bytes) ==
    /\ batch' = Append(b, f) /\ batchBytes' = bytes + Size[f]
    /\ IF Full(batch')
       THEN StartFlush("loop")
       ELSE loop' = "select" /\ call' = "idle" /\ UNCHANGED <<after, timer>>
PutInBatch(f, b, bytes) ==
    /\ batch' = Append(b, f) /\ batchBytes' = bytes + Size[f]
    /\ IF Full(batch')
       THEN StartFlush("loop")
       ELSE loop' = "select" /\ timer' = TRUE /\ call' = "idle" /\ UNCHANGED after

(* Nothing is pending: flush() returns at once.                            *)
LeaveLoop == loop' = "awaiting" /\ UNCHANGED <<after, timer, call>>

ReceiveValid ==
    /\ loop = "select" /\ out # <<>> /\ Head(out) \notin Invalid
    /\ out' = Tail(out)
    /\ seen' = seen + 1
    /\ IF WouldOverflow(Head(out))
       THEN /\ held' = <<Head(out)>>
            /\ StartFlush("append")
            /\ UNCHANGED <<batch, batchBytes>>
       ELSE /\ PutInBatch(Head(out), batch, batchBytes)
            /\ UNCHANGED held
    /\ UNCHANGED <<adapterVars, errVars, cancelled, verdict, stray, strayDone,
                   linkUp, wire, done>>

InvalidIndex_OneBased == seen + 1
InvalidIndex == seen

ReceiveInvalid ==
    /\ loop = "select" /\ out # <<>> /\ Head(out) \in Invalid
    /\ out' = Tail(out)
    /\ invalidErr' = {InvalidIndex}
    /\ IF batch # <<>> THEN StartFlush("invalid") /\ UNCHANGED cancelled
                       ELSE LeaveLoop /\ cancelled' = TRUE
    /\ UNCHANGED <<adapterVars, held, batch, batchBytes, seen, sendErr, recalled,
                   verdict,
                   stray, strayDone, linkUp, wire, done>>

FinalFlush_Forgotten == LeaveLoop
FinalFlush == IF batch # <<>> THEN StartFlush("closed") ELSE LeaveLoop

OutClosed ==
    /\ loop = "select" /\ out = <<>> /\ adapter # "running"
    /\ FinalFlush
    /\ UNCHANGED <<adapterVars, out, held, batch, batchBytes, seen, errVars,
                   cancelled, verdict, stray, strayDone, linkUp, wire, done>>

TimerFires ==
    /\ loop = "select" /\ timer
    /\ StartFlush("loop")
    /\ UNCHANGED <<adapterVars, out, held, batch, batchBytes, seen, errVars,
                   cancelled, verdict, stray, strayDone, linkUp, wire, done>>

FlushSent ==
    /\ loop = "flushing" /\ call = "ok"
    /\ held' = <<>>
    /\ IF after = "append"
       THEN PutInBatch(Head(held), <<>>, 0)
       ELSE /\ batch' = <<>> /\ batchBytes' = 0 /\ call' = "idle"
            /\ loop' = IF after = "loop" THEN "select" ELSE "awaiting"
            /\ UNCHANGED <<after, timer>>
    /\ cancelled' = (cancelled \/ after = "invalid")
    /\ UNCHANGED <<adapterVars, out, seen, errVars, verdict, stray, strayDone,
                   linkUp, wire, done>>

(* The send failed or timed out, which is a sendErr, or the execution was  *)
(* cancelled meanwhile, which is not; the caller leaves the loop.          *)
FlushFails ==
    /\ loop = "flushing"
    /\ call # "ok" \/ cancelled
    /\ stray' = IF call = "pending" THEN batch ELSE <<>>
    /\ call' = "idle" /\ loop' = "awaiting"
    /\ sendErr' = (sendErr \/ ~cancelled)
    /\ cancelled' = TRUE
    /\ held' = <<>> /\ batch' = <<>> /\ batchBytes' = 0
    /\ UNCHANGED <<adapterVars, out, after, timer, seen, invalidErr, recalled, verdict,
                   strayDone, linkUp, wire, done>>

-----------------------------------------------------------------------------
(* Done.                                                                   *)

(* An invalid finding outranks a failed send, which outranks the adapter's *)
(* error (an abandoned adapter has one too), which outranks cancellation.  *)
Outcome_AdapterFirst == CASE adapter # "nil" -> "adapter"
                          [] adapter = "nil" /\ invalidErr # {} -> "invalid"
                          [] adapter = "nil" /\ invalidErr = {} /\ sendErr -> "send"
                          [] OTHER -> IF cancelled THEN "canceled" ELSE "ok"
Outcome_CancelFirst == CASE cancelled -> "canceled"
                         [] ~cancelled /\ adapter # "nil" -> "adapter"
                         [] OTHER -> "ok"
Outcome == CASE invalidErr # {} -> "invalid"
             [] invalidErr = {} /\ sendErr -> "send"
             [] invalidErr = {} /\ ~sendErr /\ adapter # "nil" -> "adapter"
             [] OTHER -> IF cancelled THEN "canceled" ELSE "ok"

AwaitAdapter ==
    /\ loop = "awaiting"
    /\ verdict' = Outcome
    /\ loop' = "finishing" /\ call' = "pending"
    /\ UNCHANGED <<adapterVars, out, after, batchVars, errVars, cancelled, stray,
                   strayDone, linkUp, wire, done>>

HandleReturns ==
    /\ loop = "finishing"
    /\ loop' = "ended" /\ call' = "idle" /\ cancelled' = TRUE
    /\ strayDone' = IF call = "pending" THEN {verdict} ELSE {}
    /\ UNCHANGED <<adapterVars, out, after, batchVars, errVars, verdict, stray,
                   linkUp, wire, done>>

-----------------------------------------------------------------------------
Loop == \/ ReceiveValid \/ ReceiveInvalid \/ OutClosed \/ TimerFires
        \/ FlushSent \/ FlushFails \/ AwaitAdapter \/ HandleReturns
Send == SendAccepted \/ SendFails \/ StrayBatchEnds \/ StrayDoneEnds
Terminated == loop = "ended" /\ UNCHANGED vars

Next == \/ \E f \in Finding : AdapterEmits(f)
        \/ AdapterReturns \/ Cancel \/ LinkCloses \/ Loop \/ Send \/ Terminated

Spec == Init /\ [][Next]_vars

(* handleExecute's goroutine runs and its timers fire.  Nothing is assumed *)
(* of the adapter, of the Worker or of stream.Send.                        *)
FairSpec == Spec /\ WF_vars(Loop)

-----------------------------------------------------------------------------
(* Properties.                                                             *)

TypeOK ==
    /\ adapter \in {"running", "nil", "err"} /\ emitted \in Seq(Finding)
    /\ out \in Seq(Finding) /\ Len(out) <= OutCap
    /\ loop \in {"select", "flushing", "awaiting", "finishing", "ended"}
    /\ after \in {"append", "loop", "closed", "invalid"}
    /\ held \in Seq(Finding) /\ batch \in Seq(Finding)
    /\ batchBytes \in Nat /\ timer \in BOOLEAN /\ seen \in Nat
    /\ invalidErr \subseteq Nat /\ sendErr \in BOOLEAN /\ cancelled \in BOOLEAN
    /\ call \in {"idle", "pending", "ok", "failed"}
    /\ stray \in Seq(Finding) /\ strayDone \subseteq Errors \cup {"ok"}
    /\ verdict \in Errors \cup {"ok", "none"}
    /\ linkUp \in BOOLEAN /\ wire \in Seq(Finding)
    /\ done \in Errors \cup {"ok", "none"}

(* A Result stays within both limits; only a finding that is too large on  *)
(* its own travels in a larger message, and then alone.                    *)
BatchWithinLimits ==
    /\ Len(batch) <= MaxFindings
    /\ Len(batch) > 1 => batchBytes <= MaxBytes
    /\ loop = "select" => Len(batch) < MaxFindings

(* No finding waits for the next one: while the loop selects, a pending    *)
(* batch has a running timer, and an empty one has none to fire.           *)
PendingBatchHasTimer == loop = "select" => (timer <=> batch # <<>>)

(* A batch is bounded in size and in the time its findings wait in it.     *)
BatchIsBounded == BatchWithinLimits /\ PendingBatchHasTimer

(* An invalid finding is reported by its own index and ends the stream at  *)
(* it: all findings before it were valid, and none from it on ships.       *)
InvalidIsNamed ==
    \A k \in invalidErr :
        /\ k < Len(emitted) /\ emitted[k + 1] \in Invalid
        /\ \A i \in 1..k : emitted[i] \notin Invalid
        /\ Len(wire) <= k

(* Of several errors Done carries the cause of the others.  The SDK itself *)
(* cancels the execution at an invalid finding and after a failed send, so *)
(* the adapter then reports an error too, or never returns: Done names the *)
(* invalid finding whenever one was received, else the failed send.  It    *)
(* names the adapter for an execution that nobody cancelled only if all    *)
(* the adapter emitted has shipped, and a Cancel only if there was one.    *)
(* When it names an invalid finding, the valid prefix has shipped, unless  *)
(* the send of it failed or was cancelled.                                 *)
InvalidReceived == \E i \in 1..(Len(emitted) - Len(out)) : emitted[i] \in Invalid
ErrorIsTheCause ==
    /\ done # "none" => (done = "invalid" <=> InvalidReceived)
    /\ done \notin {"none", "invalid"} => (done = "send" <=> sendErr)
    /\ done = "adapter" /\ ~recalled => wire = emitted
    /\ done = "canceled" => recalled
    /\ done = "invalid" /\ ~sendErr /\ ~recalled
           => \A k \in invalidErr : Len(wire) = k

(* Done names what went wrong first, and in an invalid stream the finding  *)
(* that was.                                                               *)
DoneNamesTheCause == InvalidIsNamed /\ ErrorIsTheCause

(* A finding the adapter has emitted is on the stream before long, even if *)
(* the adapter then stays silent, or the loop has stopped for an error.    *)
Ranges(q) == {q[i] : i \in DOMAIN q}
SlowScanStreams ==
    \A f \in Finding :
        f \in Ranges(emitted) ~> f \in Ranges(wire) \/ loop \notin {"select", "flushing"}

(* handleExecute implements Delivery.                                      *)
Promise == INSTANCE Delivery
               WITH Finding <- Finding, Errors <- Errors,
                    emitted <- emitted, wire <- wire, done <- done
PromiseKept == Promise!Spec
=============================================================================
