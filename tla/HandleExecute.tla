--------------------------- MODULE HandleExecute ---------------------------
(***************************************************************************)
(* Module ResultStream as an execution of module Runtime.  Runtime numbers *)
(* the Results of an execution and does not look at what they hold; here   *)
(* the messages that the loop of ResultStream sends get their numbers, in  *)
(* history variables, and the loop is shown to take no step but those that *)
(* Runtime has for handleExecute.                                          *)
(***************************************************************************)
EXTENDS ResultStream

ASSUME FindingAssumption == IsFiniteSet(Finding)

VARIABLES
    starts,   \* history: Result sends started
    up,       \* history: the messages the stream has accepted
    lost      \* history: the Done could not be sent

history == <<starts, up, lost>>
handleVars == <<vars, history>>

HandleInit == Init /\ starts = 0 /\ up = <<>> /\ lost = FALSE

(* What a Done says to Runtime, which does not tell errors apart.          *)
Said(v) == IF v \in {"none", "ok", "canceled"} THEN v ELSE "error"
ResultMsg == [kind |-> "result", id |-> "job", n |-> starts]
DoneMsg(v) == [kind |-> "done", id |-> "job", err |-> Said(v)]

Accepted ==
    IF call = "pending" /\ call' = "ok"
    THEN <<IF loop = "finishing" THEN DoneMsg(verdict) ELSE ResultMsg>>
    ELSE IF linkUp /\ stray # <<>> /\ stray' = <<>> THEN <<ResultMsg>>
    ELSE IF linkUp /\ strayDone # {} /\ strayDone' = {} THEN <<DoneMsg(verdict)>>
    ELSE <<>>

History ==
    /\ starts' = IF call # "pending" /\ call' = "pending" /\ loop' = "flushing"
                 THEN starts + 1 ELSE starts
    /\ up' = up \o Accepted
    /\ lost' = (lost \/ (loop = "finishing" /\ loop' = "ended" /\ call # "ok"))

HandleNext == Next /\ History
HandleSpec == HandleInit /\ [][HandleNext]_handleVars
FairHandleSpec == HandleSpec /\ WF_vars(Loop)

-----------------------------------------------------------------------------
(* The state of Runtime, which serves this execution alone.  The Worker's  *)
(* Cancel, if it is to come, has been received and waits in msgCh.         *)
OfJob(v) == [e \in {"job"} |-> v]
JobIf(condition) == IF condition THEN {"job"} ELSE {}

HandlePhase == CASE loop = "select" -> "streaming"
                 [] loop = "awaiting" -> "waiting"
                 [] loop = "ended" -> "reporting"
                 [] OTHER -> loop

Fault == IF loop = "ended" THEN "none"
         ELSE IF invalidErr # {} THEN "invalid"
         ELSE IF sendErr THEN "send" ELSE "none"

GivenUp == (IF stray # <<>> THEN {ResultMsg} ELSE {}) \cup {DoneMsg(v) : v \in strayDone}

Process == INSTANCE Runtime WITH
    Execs <- {"job"}, MsgCap <- 1, ErrCap <- 1, MaxCancels <- 1,
    MaxResults <- OfJob(Cardinality(Finding)), Pipelined <- FALSE, CtxEnds <- FALSE,
    dispatched <- {"job"}, recalled <- {"job"},
    run <- "serving", exit <- "none", gated <- {}, ctxDone <- FALSE,
    msgCh <- IF recalled THEN <<>> ELSE <<[kind |-> "cancel", id |-> "job"]>>,
    recvErrCh <- "none", execErrCh <- <<>>, execGate <- 1,
    phase <- OfJob(HandlePhase), cancels <- JobIf(loop # "ended"), aborted <- JobIf(cancelled),
    fault <- OfJob(Fault), results <- OfJob(starts), call <- OfJob(call),
    stray <- GivenUp,
    verdict <- OfJob(IF lost THEN "unsent" ELSE Said(verdict)),
    adapter <- OfJob(IF verdict = "none" \/ adapter = "running" THEN adapter ELSE "idle")

HandleStep == \/ Process!FlushBatch("job") \/ Process!InvalidFinding("job")
              \/ Process!FlushSent("job") \/ Process!FlushFails("job")
              \/ Process!OutClosed("job") \/ Process!AwaitAdapter("job")
              \/ Process!DoneSent("job") \/ Process!DoneFails("job")
SendStep == \/ Process!SendAccepted("job") \/ Process!SendFails("job")
            \/ \E m \in GivenUp : Process!StrayEnds(m)
Outside == Process!TakeCancel \/ Process!LinkCloses \/ Process!AdapterReturns("job")

(* Seen from Run, which holds the gate for it, handleExecute does what     *)
(* module Runtime says and no more: whatever the sizes of the findings and *)
(* the limits of a batch, wherever an invalid one comes and whichever of   *)
(* its sends fail or complete late.  So what Runtime shows of its messages *)
(* and of its Done holds of the loop as it is.                             *)
HandlesTheExecution ==
    /\ HandlePhase = "streaming"
    /\ [][HandleStep \/ SendStep \/ Outside]_(Process!vars)
=============================================================================
