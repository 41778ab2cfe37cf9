------------------------- MODULE ResultStreamProofs -------------------------
(***************************************************************************)
(* What module ResultStream guarantees for any findings, sizes and limits: *)
(* batches are bounded, Done names the true cause, and the loop implements *)
(* module Delivery.  The invariant keeps account of where each finding is: *)
(* the ones on the stream, in the batch, held during a flush, given up     *)
(* with a send, and still in out are segments of what the adapter emitted, *)
(* laid end to end, and the counter of valid findings, seen, is the joint  *)
(* between those received and those in out.                                *)
(***************************************************************************)
EXTENDS HandleExecute, SequenceTheorems, FiniteSetTheorems, TLAPS

(* s is what comes in e after its first k elements.                        *)
Follows(s, k, e) ==
    /\ k + Len(s) <= Len(e)
    /\ \A i \in 1..Len(s) : s[i] = e[k + i]
Segment(s, k) == Follows(s, k, emitted)

Bad == IF invalidErr = {} THEN 0 ELSE 1
Streaming == loop \in {"select", "flushing"}

(* Everything received was valid, but for an invalid finding at the end.   *)
ReceivedInv ==
    /\ invalidErr \subseteq {seen}
    /\ Len(emitted) = seen + Bad + Len(out)
    /\ Segment(out, seen + Bad)
    /\ \A i \in 1..seen : emitted[i] \notin Invalid
    /\ invalidErr # {} => emitted[seen + 1] \in Invalid
    /\ loop = "select" => invalidErr = {}

(* Where the valid findings received are.                                  *)
WireInv ==
    /\ Segment(wire, 0) /\ Len(wire) <= seen
    /\ loop = "select" =>
           held = <<>> /\ Len(wire) + Len(batch) = seen /\ Segment(batch, Len(wire))
    /\ loop = "flushing" /\ call # "ok" =>
           /\ Len(wire) + Len(batch) + Len(held) = seen
           /\ Segment(batch, Len(wire)) /\ Segment(held, Len(wire) + Len(batch))
    /\ loop = "flushing" /\ call = "ok" =>
           Len(wire) + Len(held) = seen /\ Segment(held, Len(wire))
    /\ Len(wire) + Len(stray) <= seen /\ Segment(stray, Len(wire))
    /\ Streaming => stray = <<>>

(* The loop between its steps.                                             *)
FlushInv ==
    /\ loop = "flushing" =>
           /\ batch # <<>> /\ ~timer /\ call # "idle"
           /\ Len(held) = IF after = "append" THEN 1 ELSE 0
           /\ invalidErr # {} <=> after = "invalid"
           /\ after = "closed" => out = <<>> /\ adapter # "running"
    /\ loop = "finishing" => call # "idle"
    /\ loop \notin {"flushing", "finishing"} => call = "idle"

(* A Done is on the stream once at most, and says what it was to say.      *)
DoneInv ==
    /\ verdict = "none" <=> loop \notin {"finishing", "ended"}
    /\ loop # "ended" => strayDone = {}
    /\ loop = "finishing" /\ call # "ok" => done = "none"
    /\ strayDone # {} => done = "none"
    /\ done \in {"none", verdict} /\ strayDone \subseteq {verdict}

(* Nothing is missing where nothing went wrong.                            *)
WholeInv ==
    /\ loop = "awaiting" /\ ~cancelled =>
           out = <<>> /\ adapter # "running" /\ Len(wire) = seen /\ invalidErr = {}
    /\ verdict = "ok" \/ (verdict = "adapter" /\ ~recalled) =>
           adapter # "running" /\ Len(wire) = Len(emitted)

(* Where a cancellation comes from.                                        *)
CauseInv ==
    /\ Streaming /\ cancelled => recalled
    /\ loop = "awaiting" /\ cancelled => recalled \/ sendErr \/ invalidErr # {}
    /\ verdict = "canceled" => recalled
    /\ verdict # "none" => (verdict = "invalid" <=> invalidErr # {})
    /\ verdict \notin {"none", "invalid"} => (verdict = "send" <=> sendErr)
    /\ ~Streaming /\ invalidErr # {} /\ ~sendErr /\ ~recalled => Len(wire) = seen

IInv == TypeOK /\ ReceivedInv /\ WireInv /\ FlushInv /\ DoneInv /\ WholeInv /\ CauseInv
           /\ BatchIsBounded
-----------------------------------------------------------------------------
(* Segments.                                                               *)

LEMMA EmptyFollows ==
  ASSUME NEW e \in Seq(Finding), NEW k \in 0..Len(e)
  PROVE  Follows(<<>>, k, e)
  BY DEF Follows

LEMMA TailFollows ==
  ASSUME NEW e \in Seq(Finding), NEW s \in Seq(Finding), NEW k \in Nat,
         s # <<>>, Follows(s, k, e)
  PROVE  /\ Head(s) = e[k + 1] /\ Head(s) \in Finding
         /\ Tail(s) \in Seq(Finding) /\ Len(Tail(s)) = Len(s) - 1
         /\ Follows(Tail(s), k + 1, e)
  <1>1. /\ Head(s) = s[1] /\ Head(s) \in Finding
        /\ Tail(s) \in Seq(Finding) /\ Len(Tail(s)) = Len(s) - 1
        /\ \A i \in 1..Len(Tail(s)) : Tail(s)[i] = s[i + 1]
    BY HeadTailProperties
  <1>2. Len(s) \in Nat \ {0}
    BY EmptySeq, LenProperties
  <1> QED
    BY <1>1, <1>2, LenProperties DEF Follows

LEMMA ConcatFollows ==
  ASSUME NEW e \in Seq(Finding), NEW s \in Seq(Finding), NEW t \in Seq(Finding),
         NEW k \in Nat, Follows(s, k, e), Follows(t, k + Len(s), e)
  PROVE  /\ s \o t \in Seq(Finding) /\ Len(s \o t) = Len(s) + Len(t)
         /\ Follows(s \o t, k, e)
  <1>1. /\ s \o t \in Seq(Finding) /\ Len(s \o t) = Len(s) + Len(t)
        /\ \A i \in 1..Len(s) + Len(t) :
               (s \o t)[i] = IF i <= Len(s) THEN s[i] ELSE t[i - Len(s)]
    BY ConcatProperties
  <1>2. ASSUME NEW i \in 1..Len(s) + Len(t) PROVE (s \o t)[i] = e[k + i]
    <2>1. CASE i <= Len(s)
      BY <1>1, <2>1, LenProperties DEF Follows
    <2>2. CASE i > Len(s)
      <3>1. i - Len(s) \in 1..Len(t) /\ (s \o t)[i] = t[i - Len(s)]
        BY <1>1, <2>2, LenProperties
      <3>2. t[i - Len(s)] = e[k + Len(s) + (i - Len(s))]
        BY <3>1 DEF Follows
      <3> QED
        BY <3>1, <3>2, LenProperties
    <2> QED
      BY <2>1, <2>2, LenProperties
  <1> QED
    BY <1>1, <1>2, LenProperties DEF Follows

LEMMA AppendFollows ==
  ASSUME NEW e \in Seq(Finding), NEW s \in Seq(Finding), NEW k \in Nat,
         NEW f \in Finding, Follows(s, k, e), k + Len(s) < Len(e), f = e[k + Len(s) + 1]
  PROVE  Append(s, f) \in Seq(Finding) /\ Len(Append(s, f)) = Len(s) + 1 /\ Follows(Append(s, f), k, e)
  BY AppendProperties, LenProperties DEF Follows

(* The adapter only adds at the end.                                       *)
LEMMA StillFollows ==
  ASSUME NEW e \in Seq(Finding), NEW s \in Seq(Finding), NEW k \in Nat,
         NEW f \in Finding, Follows(s, k, e)
  PROVE  Follows(s, k, Append(e, f))
  BY AppendProperties, LenProperties DEF Follows

LEMMA PrefixIsSubSeq ==
  ASSUME NEW e \in Seq(Finding), NEW s \in Seq(Finding), Follows(s, 0, e)
  PROVE  s = SubSeq(e, 1, Len(s))
  <1>1. /\ SubSeq(e, 1, Len(s)) \in Seq(Finding)
        /\ Len(SubSeq(e, 1, Len(s))) = Len(s)
        /\ \A i \in 1..Len(s) : SubSeq(e, 1, Len(s))[i] = e[i]
    BY SubSeqProperties, LenProperties DEF Follows
  <1> QED
    BY <1>1, SeqEqual, LenProperties DEF Follows
-----------------------------------------------------------------------------
LEMMA InitIInv == Init => IInv
  <1> SUFFICES ASSUME Init PROVE IInv
    OBVIOUS
  <1>1. TypeOK
    <2>1. /\ emitted \in Seq(Finding) /\ out \in Seq(Finding) /\ Len(out) <= OutCap
          /\ held \in Seq(Finding) /\ batch \in Seq(Finding)
          /\ stray \in Seq(Finding) /\ wire \in Seq(Finding)
          /\ batchBytes \in Nat /\ seen \in Nat
      BY EmptySeq, StreamAssumption DEF Init
    <2> QED
      BY <2>1, Zenon DEF Init, TypeOK
  <1>2. ReceivedInv /\ WireInv
    BY EmptyFollows DEF Init, ReceivedInv, WireInv, Segment, Follows, Bad, Streaming
  <1>3. FlushInv /\ DoneInv /\ WholeInv /\ CauseInv
    BY DEF Init, FlushInv, DoneInv, WholeInv, CauseInv, Streaming
  <1>4. BatchIsBounded
    BY EmptySeq, StreamAssumption DEF Init, BatchIsBounded, BatchWithinLimits, PendingBatchHasTimer
  <1> QED
    BY <1>1, <1>2, <1>3, <1>4 DEF IInv

(* What the loop receives is a finding.                                    *)
LEMMA Received ==
  ASSUME TypeOK, out # <<>>
  PROVE  /\ Head(out) \in Finding /\ Size[Head(out)] \in Nat
         /\ Tail(out) \in Seq(Finding) /\ Len(Tail(out)) = Len(out) - 1 /\ Len(out) \in Nat
  BY HeadTailProperties, EmptySeq, LenProperties, StreamAssumption DEF TypeOK

LEMMA Outcomes ==
  ASSUME TypeOK
  PROVE  /\ Outcome \in Errors \cup {"ok"}
         /\ Outcome = "ok" => adapter = "nil" /\ ~cancelled
         /\ Outcome = "canceled" => cancelled /\ ~sendErr /\ invalidErr = {}
         /\ Outcome = "invalid" <=> invalidErr # {}
         /\ Outcome # "invalid" => (Outcome = "send" <=> sendErr)
  <1> USE DEF TypeOK, Errors
  <1>1. CASE invalidErr # {}
    BY <1>1, Zenon DEF Outcome
  <1>2. CASE invalidErr = {} /\ sendErr
    BY <1>2, Zenon DEF Outcome
  <1>3. CASE invalidErr = {} /\ ~sendErr /\ adapter # "nil"
    BY <1>3, Zenon DEF Outcome
  <1>4. CASE invalidErr = {} /\ ~sendErr /\ adapter = "nil"
    <2>1. Outcome = IF cancelled THEN "canceled" ELSE "ok"
      BY <1>4, Zenon DEF Outcome
    <2> QED
      BY <1>4, <2>1
  <1> QED
    BY <1>1, <1>2, <1>3, <1>4

LEMMA TypeStep == IInv /\ [Next]_vars => TypeOK'
  <1> SUFFICES ASSUME IInv, [Next]_vars PROVE TypeOK'
    OBVIOUS
  <1>0. TypeOK
    BY DEF IInv
  <1>1. TypeOK /\ DoneInv /\ FlushInv
    BY DEF IInv
  <1> USE DEF TypeOK, adapterVars, batchVars, errVars, sendVars
  <1>2. ASSUME NEW f \in Finding, AdapterEmits(f) PROVE TypeOK'
    BY <1>1, <1>2, AppendProperties, LenProperties, StreamAssumption DEF AdapterEmits, OutRoom
  <1>3. CASE AdapterReturns
    BY <1>1, <1>3 DEF AdapterReturns
  <1>4. CASE Cancel
    BY <1>1, <1>4 DEF Cancel
  <1>15. CASE LinkCloses
    BY <1>0, <1>15, ZenonT(30) DEF LinkCloses
  <1>5. CASE Send
    <2>1. CASE SendAccepted
      <3>1. wire \o batch \in Seq(Finding)
        BY <1>1, ConcatProperties
      <3> QED
        BY <1>1, <2>1, <3>1 DEF SendAccepted
    <2>2. CASE SendFails
      BY <1>1, <2>2 DEF SendFails
    <2>3. CASE StrayBatchEnds
      BY <1>1, <2>3, ConcatProperties DEF StrayBatchEnds
    <2>4. CASE StrayDoneEnds
      BY <1>1, <2>4 DEF StrayDoneEnds
    <2> QED
      BY <1>5, <2>1, <2>2, <2>3, <2>4 DEF Send
  <1>6. CASE ReceiveValid
    <2>1. TypeOK /\ out # <<>>
      BY <1>1, <1>6 DEF ReceiveValid
    <2>2. /\ Head(out) \in Finding /\ Size[Head(out)] \in Nat
          /\ Tail(out) \in Seq(Finding) /\ Len(Tail(out)) <= OutCap
      BY <2>1, Received, StreamAssumption
    <2>3. <<Head(out)>> \in Seq(Finding) /\ Append(batch, Head(out)) \in Seq(Finding)
      BY <2>1, <2>2, AppendProperties
    <2>4. CASE WouldOverflow(Head(out))
      <3>1. seen' \in Nat
        BY <1>6, <2>1 DEF ReceiveValid
      <3> QED
        BY <3>1, <1>6, <2>1, <2>2, <2>3, <2>4, Zenon DEF ReceiveValid, StartFlush
    <2>5. CASE ~WouldOverflow(Head(out))
      <3>1. batchBytes' \in Nat /\ seen' \in Nat
        BY <1>6, <2>1, <2>2, <2>5 DEF ReceiveValid, PutInBatch
      <3> QED
        BY <1>6, <2>1, <2>2, <2>3, <2>5, <3>1, Zenon DEF ReceiveValid, StartFlush, PutInBatch
    <2> QED
      BY <2>4, <2>5
  <1>7. CASE ReceiveInvalid
    <2>1. TypeOK /\ out # <<>>
      BY <1>1, <1>7 DEF ReceiveInvalid
    <2>2. Tail(out) \in Seq(Finding) /\ Len(Tail(out)) <= OutCap
      BY <2>1, Received, StreamAssumption
    <2>3. invalidErr' \subseteq Nat
      BY <1>7, <2>1 DEF ReceiveInvalid, InvalidIndex
    <2>4. CASE batch # <<>>
      BY <1>0, <2>2, <2>3, <2>4, <1>7, Zenon DEF ReceiveInvalid, StartFlush
    <2>5. CASE batch = <<>>
      BY <1>0, <2>2, <2>3, <2>5, <1>7, Zenon DEF ReceiveInvalid, LeaveLoop
    <2> QED
      BY <2>4, <2>5
  <1>8. CASE OutClosed
    BY <1>1, <1>8 DEF OutClosed, FinalFlush, StartFlush, LeaveLoop
  <1>9. CASE TimerFires
    BY <1>1, <1>9 DEF TimerFires, StartFlush
  <1>10. CASE FlushSent
    <2>1. after = "append" => Head(held) \in Finding /\ Size[Head(held)] \in Nat
      <3>1. ASSUME after = "append" PROVE held # <<>>
        <4>1. Len(held) = 1
          BY <1>1, <1>10, <3>1, Zenon DEF FlushSent, FlushInv
        <4> QED
          BY <4>1, EmptySeq
      <3>2. ASSUME held # <<>> PROVE Head(held) \in Finding
        BY <1>1, <3>2, HeadTailProperties
      <3> QED
        BY <3>1, <3>2, StreamAssumption
    <2>2. cancelled' \in BOOLEAN
      BY <1>10 DEF FlushSent
    <2>3. CASE after = "append"
      <3>1. batch' = Append(<<>>, Head(held)) /\ batchBytes' = 0 + Size[Head(held)]
        BY <1>10, <2>3 DEF FlushSent, PutInBatch
      <3>2. batch' \in Seq(Finding) /\ batchBytes' \in Nat
        BY <3>1, <2>1, <2>3, EmptySeq, AppendProperties
      <3> QED
        BY <1>1, <1>10, <2>2, <2>3, <3>2, EmptySeq, Zenon DEF FlushSent, PutInBatch, StartFlush
    <2>4. CASE after # "append"
      BY <1>1, <1>10, <2>2, <2>4 DEF FlushSent
    <2> QED
      BY <2>3, <2>4
  <1>11. CASE FlushFails
    BY <1>1, <1>11 DEF FlushFails
  <1>12. CASE AwaitAdapter
    BY <1>1, <1>12, Outcomes DEF AwaitAdapter
  <1>13. CASE HandleReturns
    <2>1. verdict' = verdict /\ strayDone' \subseteq {verdict} /\ verdict # "none"
      BY <1>1, <1>13 DEF HandleReturns, DoneInv
    <2> QED
      BY <1>1, <1>13, <2>1 DEF HandleReturns
  <1>14. CASE UNCHANGED vars
    BY <1>1, <1>14 DEF vars
  <1> QED
    BY <1>2, <1>3, <1>4, <1>5, <1>6, <1>7, <1>8, <1>9, <1>10, <1>11, <1>12, <1>13, <1>14, <1>15
    DEF Next, Loop, Terminated
-----------------------------------------------------------------------------
(* What was received and what is in out stay next to each other.           *)
LEMMA ReceivedStep == IInv /\ [Next]_vars => ReceivedInv'
  <1> SUFFICES ASSUME IInv, [Next]_vars PROVE ReceivedInv'
    OBVIOUS
  <1>0. TypeOK /\ ReceivedInv
    BY DEF IInv
  <1>1. FlushInv
    BY DEF IInv
  <1> USE DEF TypeOK, adapterVars, batchVars, errVars, sendVars, ReceivedInv, Bad, Segment
  <1>2. ASSUME NEW f \in Finding, AdapterEmits(f) PROVE ReceivedInv'
    <2>1. /\ emitted' = Append(emitted, f) /\ out' = Append(out, f)
          /\ UNCHANGED <<seen, invalidErr, loop>>
      BY <1>2 DEF AdapterEmits
    <2>2. emitted \in Seq(Finding) /\ out \in Seq(Finding) /\ seen \in Nat /\ Bad \in {0, 1}
      BY <1>0
    <2>3. /\ Len(emitted) \in Nat /\ Len(out) \in Nat
          /\ Len(emitted) = seen + Bad + Len(out) /\ Follows(out, seen + Bad, emitted)
      BY <1>0, <2>2, LenProperties
    <2>4. /\ emitted' \in Seq(Finding) /\ Len(emitted') = Len(emitted) + 1
          /\ \A i \in 1..Len(emitted) : emitted'[i] = emitted[i]
          /\ emitted'[Len(emitted) + 1] = f
      <3> HIDE DEF TypeOK, ReceivedInv, Bad
      <3> QED
        BY <2>1, <2>2, <2>3, AppendProperties
    <2>5. Follows(out, seen + Bad, emitted')
      BY <2>1, <2>2, <2>3, StillFollows
    <2>6. Len(out') = Len(out) + 1 /\ Follows(out', seen + Bad, emitted')
      <3> HIDE DEF TypeOK, ReceivedInv, Bad
      <3>1. f = emitted'[seen + Bad + Len(out) + 1] /\ seen + Bad + Len(out) < Len(emitted')
        BY <2>2, <2>3, <2>4
      <3>2. PICK k \in Nat : k = seen + Bad
        BY <2>2
      <3>3. Follows(out, k, emitted') /\ f = emitted'[k + Len(out) + 1] /\ k + Len(out) < Len(emitted')
        BY <2>5, <3>1, <3>2
      <3>4. Len(Append(out, f)) = Len(out) + 1 /\ Follows(Append(out, f), k, emitted')
        BY <2>2, <2>4, <3>3, AppendFollows
      <3> QED
        BY <2>1, <3>2, <3>4
    <2>7. Bad' = Bad
      BY <2>1
    <2>8. /\ \A i \in 1..seen : emitted[i] \notin Invalid
          /\ invalidErr # {} => emitted[seen + 1] \in Invalid /\ Bad = 1
      BY <1>0
    <2>9. /\ \A i \in 1..seen : emitted'[i] \notin Invalid
          /\ invalidErr # {} => emitted'[seen + 1] \in Invalid
      <3> HIDE DEF TypeOK, ReceivedInv, Bad
      <3> QED
        BY <2>2, <2>3, <2>4, <2>8
    <2>10. Len(emitted') = seen + Bad + Len(out')
      <3> HIDE DEF TypeOK, ReceivedInv, Bad
      <3> QED
        BY <2>2, <2>3, <2>4, <2>6
    <2> QED
      <3> HIDE DEF TypeOK, Bad
      <3> QED
        BY <1>0, <2>1, <2>6, <2>7, <2>9, <2>10
  <1>3. CASE AdapterReturns
    BY <1>0, <1>3 DEF AdapterReturns
  <1>4. CASE Cancel
    BY <1>0, <1>4 DEF Cancel
  <1>5. CASE LinkCloses
    BY <1>0, <1>5 DEF LinkCloses
  <1>6. CASE SendAccepted
    BY <1>0, <1>6 DEF SendAccepted
  <1>7. CASE SendFails
    BY <1>0, <1>7 DEF SendFails
  <1>8. CASE StrayBatchEnds
    BY <1>0, <1>8 DEF StrayBatchEnds
  <1>9. CASE StrayDoneEnds
    BY <1>0, <1>9 DEF StrayDoneEnds
  <1>10. CASE ReceiveValid
    <2>1. /\ out # <<>> /\ Head(out) \notin Invalid /\ invalidErr = {}
          /\ out' = Tail(out) /\ seen' = seen + 1 /\ UNCHANGED <<emitted, invalidErr>>
      BY <1>0, <1>10 DEF ReceiveValid
    <2>2. /\ seen \in Nat /\ Len(out) \in Nat /\ Len(emitted) = seen + Len(out)
          /\ \A i \in 1..seen : emitted[i] \notin Invalid
      BY <1>0, <2>1, LenProperties
    <2>3. /\ Head(out) = emitted[seen + 1] /\ Len(Tail(out)) = Len(out) - 1
          /\ Follows(Tail(out), seen + 1, emitted)
      BY <1>0, <2>1, TailFollows
    <2>4. \A i \in 1..seen + 1 : emitted[i] \notin Invalid
      <3> HIDE DEF TypeOK, ReceivedInv
      <3> QED
        BY <2>1, <2>2, <2>3
    <2>5. Bad' = 0
      BY <2>1
    <2> QED
      <3> HIDE DEF TypeOK, Bad
      <3> QED
        BY <2>1, <2>2, <2>3, <2>4, <2>5
  <1>11. CASE ReceiveInvalid
    <2>1. /\ out # <<>> /\ Head(out) \in Invalid /\ invalidErr = {} /\ loop' # "select"
          /\ out' = Tail(out) /\ invalidErr' = {seen} /\ UNCHANGED <<emitted, seen>>
      BY <1>0, <1>11 DEF ReceiveInvalid, StartFlush, LeaveLoop, InvalidIndex
    <2>2. /\ seen \in Nat /\ Len(out) \in Nat /\ Len(emitted) = seen + Len(out)
          /\ \A i \in 1..seen : emitted[i] \notin Invalid
      BY <1>0, <2>1, LenProperties
    <2>3. /\ Head(out) = emitted[seen + 1] /\ Len(Tail(out)) = Len(out) - 1
          /\ Follows(Tail(out), seen + 1, emitted)
      BY <1>0, <2>1, TailFollows
    <2>4. Bad' = 1
      BY <2>1
    <2> QED
      <3> HIDE DEF TypeOK, Bad
      <3> QED
        BY <2>1, <2>2, <2>3, <2>4
  <1>12. CASE OutClosed
    BY <1>0, <1>12 DEF OutClosed, FinalFlush, StartFlush, LeaveLoop
  <1>13. CASE TimerFires
    BY <1>0, <1>13 DEF TimerFires, StartFlush
  <1>14. CASE FlushSent
    <2>1. /\ loop = "flushing" /\ UNCHANGED <<emitted, out, seen, invalidErr>>
          /\ loop' = "select" => after # "invalid"
      BY <1>14 DEF FlushSent, PutInBatch, StartFlush
    <2> QED
      BY <1>0, <1>1, <2>1 DEF FlushInv
  <1>15. CASE FlushFails
    BY <1>0, <1>15 DEF FlushFails
  <1>16. CASE AwaitAdapter
    BY <1>0, <1>16 DEF AwaitAdapter
  <1>17. CASE HandleReturns
    BY <1>0, <1>17 DEF HandleReturns
  <1>18. CASE UNCHANGED vars
    BY <1>0, <1>18 DEF vars
  <1> QED
    BY <1>2, <1>3, <1>4, <1>5, <1>6, <1>7, <1>8, <1>9, <1>10, <1>11,
       <1>12, <1>13, <1>14, <1>15, <1>16, <1>17, <1>18
    DEF Next, Loop, Send, Terminated

(* While the loop selects, nothing is held.                                *)
LEMMA HeldIsEmpty ==
  ASSUME TypeOK, WireInv, loop = "select"
  PROVE  /\ held = <<>> /\ Len(held) = 0 /\ stray = <<>> /\ Len(stray) = 0
         /\ Segment(held, Len(wire) + Len(batch)) /\ Segment(stray, Len(wire))
         /\ Len(wire) + Len(batch) = seen
  <1>1. /\ held = <<>> /\ stray = <<>> /\ Len(wire) + Len(batch) = seen /\ Segment(batch, Len(wire))
        /\ Segment(stray, Len(wire))
    BY DEF WireInv, Streaming
  <1>2. Len(wire) + Len(batch) \in 0..Len(emitted)
    BY <1>1, LenProperties DEF TypeOK, Segment, Follows
  <1> QED
    BY <1>1, <1>2, EmptyFollows, EmptySeq DEF TypeOK, Segment

(* No step loses, repeats or reorders a valid finding.                     *)
LEMMA WireStep == IInv /\ [Next]_vars => WireInv'
  <1> SUFFICES ASSUME IInv, [Next]_vars PROVE WireInv'
    OBVIOUS
  <1>0. TypeOK /\ WireInv
    BY DEF IInv
  <1>1. ReceivedInv /\ FlushInv
    BY DEF IInv
  <1> USE DEF TypeOK, adapterVars, batchVars, errVars, sendVars, WireInv, Segment, Streaming
  <1>2. ASSUME NEW f \in Finding, AdapterEmits(f) PROVE WireInv'
    <2>1. /\ emitted' = Append(emitted, f)
          /\ UNCHANGED <<seen, loop, call, wire, batch, held, stray>>
      BY <1>2 DEF AdapterEmits
    <2>2. ASSUME NEW s \in Seq(Finding), NEW k \in Nat, Follows(s, k, emitted)
          PROVE  Follows(s, k, emitted')
      BY <1>0, <2>1, <2>2, StillFollows
    <2>3. Len(wire) \in Nat /\ Len(batch) \in Nat
      BY <1>0, LenProperties
    <2> QED
      BY <1>0, <2>1, <2>2, <2>3
  <1>3. CASE AdapterReturns
    BY <1>0, <1>3 DEF AdapterReturns
  <1>4. CASE Cancel
    BY <1>0, <1>4 DEF Cancel
  <1>5. CASE LinkCloses
    BY <1>0, <1>5 DEF LinkCloses
  <1>6. CASE SendAccepted
    <2>1. CASE loop = "finishing"
      BY <1>0, <1>6, <2>1 DEF SendAccepted
    <2>2. CASE loop = "flushing"
      <3>1. /\ call = "pending" /\ call' = "ok" /\ wire' = wire \o batch
            /\ UNCHANGED <<emitted, loop, seen, batch, held, stray>>
        BY <1>6, <2>2 DEF SendAccepted
      <3>2. Len(wire') = Len(wire) + Len(batch) /\ Follows(wire', 0, emitted)
        BY <1>0, <2>2, <3>1, ConcatFollows, LenProperties
      <3>3. stray = <<>> /\ Len(wire') \in 0..Len(emitted)
        BY <1>0, <2>2, <3>1, <3>2, LenProperties DEF Follows
      <3>4. Len(stray) = 0 /\ Follows(stray, Len(wire'), emitted)
        BY <1>0, <3>3, EmptyFollows, EmptySeq
      <3> QED
        BY <1>0, <2>2, <3>1, <3>2, <3>3, <3>4, LenProperties
    <2> QED
      BY <1>0, <1>1, <1>6, <2>1, <2>2 DEF SendAccepted, FlushInv
  <1>7. CASE SendFails
    BY <1>0, <1>7 DEF SendFails
  <1>8. CASE StrayBatchEnds
    <2>1. /\ ~Streaming /\ stray' = <<>>
          /\ wire' = IF linkUp THEN wire \o stray ELSE wire
          /\ UNCHANGED <<emitted, loop, seen>>
      BY <1>0, <1>8 DEF StrayBatchEnds
    <2>2. Len(wire') \in 0..seen /\ Follows(wire', 0, emitted)
      BY <1>0, <2>1, ConcatFollows, LenProperties
    <2>3. Follows(<<>>, Len(wire'), emitted) /\ Len(<<>>) = 0
      BY <1>0, <2>2, EmptyFollows, EmptySeq DEF Follows
    <2> QED
      BY <1>0, <2>1, <2>2, <2>3
  <1>9. CASE StrayDoneEnds
    BY <1>0, <1>9 DEF StrayDoneEnds
  <1>10. CASE ReceiveValid
    <2>1. /\ out # <<>> /\ invalidErr = {} /\ seen' = seen + 1 /\ loop = "select"
          /\ UNCHANGED <<emitted, wire, stray>>
      BY <1>0, <1>1, <1>10 DEF ReceiveValid, ReceivedInv
    <2>2. Head(out) \in Finding /\ Head(out) = emitted[seen + 1] /\ seen < Len(emitted)
      <3>1. Len(out) \in Nat \ {0} /\ Len(emitted) = seen + Len(out) /\ Follows(out, seen, emitted)
        BY <1>0, <1>1, <2>1, LenProperties, EmptySeq DEF ReceivedInv, Bad
      <3> QED
        BY <1>0, <2>1, <3>1, TailFollows
    <2>3. /\ Len(wire) \in Nat /\ Len(batch) \in Nat /\ Len(stray) \in Nat
          /\ Len(wire) + Len(batch) = seen /\ stray = <<>> /\ Follows(batch, Len(wire), emitted)
      BY <1>0, <2>1, LenProperties
    <2>4. CASE WouldOverflow(Head(out))
      <3>1. /\ held' = <<Head(out)>> /\ batch' = batch /\ loop' = "flushing" /\ call' = "pending"
        BY <1>10, <2>4 DEF ReceiveValid, StartFlush
      <3>2. Len(held') = 1 /\ Follows(held', seen, emitted)
        BY <2>2, <2>3, <3>1 DEF Follows
      <3> QED
        BY <1>0, <2>1, <2>3, <3>1, <3>2
    <2>5. CASE ~WouldOverflow(Head(out))
      <3>1. /\ held' = <<>> /\ batch' = Append(batch, Head(out))
            /\ loop' \in {"select", "flushing"} /\ call' # "ok"
        BY <1>0, <2>1, <1>10, <2>5 DEF ReceiveValid, PutInBatch, StartFlush
      <3>2. Len(batch') = Len(batch) + 1 /\ Follows(batch', Len(wire), emitted)
        <4>1. batch \in Seq(Finding) /\ emitted \in Seq(Finding) /\ seen \in Nat
          BY <1>0
        <4> HIDE DEF TypeOK, WireInv
        <4> QED
          BY <2>2, <2>3, <3>1, <4>1, AppendFollows, LenProperties
      <3>3. Len(held') = 0 /\ Follows(held', seen + 1, emitted)
        BY <1>0, <2>2, <3>1, EmptyFollows, EmptySeq, LenProperties
      <3> QED
        BY <1>0, <2>1, <2>3, <3>1, <3>2, <3>3
    <2> QED
      BY <2>4, <2>5
  <1>11. CASE ReceiveInvalid
    <2>1. /\ loop = "select" /\ loop' \in {"flushing", "awaiting"}
          /\ loop' = "flushing" => call' = "pending"
          /\ UNCHANGED <<emitted, seen, wire, stray, batch, held>>
      BY <1>11 DEF ReceiveInvalid, LeaveLoop, StartFlush
    <2> QED
      BY <1>0, <2>1, HeldIsEmpty
  <1>12. CASE OutClosed
    <2>1. /\ loop = "select" /\ loop' \in {"flushing", "awaiting"}
          /\ loop' = "flushing" => call' = "pending"
          /\ UNCHANGED <<emitted, seen, wire, stray, batch, held>>
      BY <1>12 DEF OutClosed, FinalFlush, LeaveLoop, StartFlush
    <2> QED
      BY <1>0, <2>1, HeldIsEmpty
  <1>13. CASE TimerFires
    <2>1. /\ loop = "select" /\ loop' \in {"flushing", "awaiting"}
          /\ loop' = "flushing" => call' = "pending"
          /\ UNCHANGED <<emitted, seen, wire, stray, batch, held>>
      BY <1>13 DEF TimerFires, StartFlush
    <2> QED
      BY <1>0, <2>1, HeldIsEmpty
  <1>14. CASE FlushSent
    <2>1. /\ loop = "flushing" /\ call = "ok" /\ held' = <<>>
          /\ UNCHANGED <<emitted, seen, wire, stray>>
      BY <1>14 DEF FlushSent
    <2>2. /\ Len(wire) \in Nat /\ Len(wire) + Len(held) = seen
          /\ Follows(held, Len(wire), emitted) /\ Len(wire) <= Len(emitted)
      BY <1>0, <2>1, LenProperties DEF Follows
    <2>3. Len(<<>>) = 0 /\ Follows(<<>>, Len(wire), emitted)
      BY <1>0, <2>2, EmptyFollows, EmptySeq
    <2>4. CASE after = "append"
      <3>1. Len(held) = 1
        BY <1>1, <2>1, <2>4 DEF FlushInv
      <3>2. Head(held) = held[1] /\ Head(held) \in Finding
        <4>0. held \in Seq(Finding)
          BY <1>0
        <4>1. held \in Seq(Finding) /\ held # <<>>
          <5> HIDE DEF TypeOK, WireInv
          <5> QED
            BY <4>0, <3>1, EmptySeq
        <4> HIDE DEF TypeOK, WireInv
        <4> QED
          BY <4>1, HeadTailProperties
      <3>3. /\ batch' = Append(<<>>, Head(held)) /\ loop' \in {"select", "flushing"}
            /\ call' # "ok"
        BY <1>14, <2>4 DEF FlushSent, PutInBatch, StartFlush
      <3>4. held[1] = emitted[Len(wire) + 1] /\ Len(wire) + 1 <= Len(emitted)
        BY <2>2, <3>1 DEF Follows
      <3>5. Len(batch') = 1 /\ Follows(batch', Len(wire), emitted)
        <4>1. emitted \in Seq(Finding) /\ <<>> \in Seq(Finding)
          BY <1>0, EmptySeq
        <4>2. Len(wire) + Len(<<>>) < Len(emitted) /\ Head(held) = emitted[Len(wire) + Len(<<>>) + 1]
          BY <2>2, <2>3, <3>2, <3>4, <4>1, LenProperties
        <4> HIDE DEF TypeOK, WireInv
        <4> QED
          <5>1. Len(Append(<<>>, Head(held))) = Len(<<>>) + 1 /\ Follows(Append(<<>>, Head(held)), Len(wire), emitted)
            BY <2>2, <2>3, <3>2, <4>1, <4>2, AppendFollows
          <5> QED
            BY <2>3, <3>3, <5>1
      <3>6. Follows(<<>>, Len(wire) + 1, emitted)
        BY <1>0, <2>2, <3>4, EmptyFollows
      <3> QED
        BY <1>0, <2>1, <2>2, <2>3, <3>1, <3>3, <3>5, <3>6
    <2>5. CASE after # "append"
      <3>1. Len(held) = 0
        BY <1>1, <2>1, <2>5 DEF FlushInv
      <3>2. batch' = <<>> /\ loop' \in {"select", "awaiting"}
        BY <1>14, <2>5 DEF FlushSent
      <3> QED
        BY <1>0, <2>1, <2>2, <2>3, <3>1, <3>2
    <2> QED
      BY <2>4, <2>5
  <1>15. CASE FlushFails
    BY <1>0, <1>15 DEF FlushFails
  <1>16. CASE AwaitAdapter
    BY <1>0, <1>16 DEF AwaitAdapter
  <1>17. CASE HandleReturns
    BY <1>0, <1>17 DEF HandleReturns
  <1>18. CASE UNCHANGED vars
    BY <1>0, <1>18 DEF vars
  <1> QED
    BY <1>2, <1>3, <1>4, <1>5, <1>6, <1>7, <1>8, <1>9, <1>10, <1>11,
       <1>12, <1>13, <1>14, <1>15, <1>16, <1>17, <1>18
    DEF Next, Loop, Send, Terminated

(* A flush starts with something to send and the timer stopped.            *)
LEMMA FlushStep == IInv /\ [Next]_vars => FlushInv'
  <1> SUFFICES ASSUME IInv, [Next]_vars PROVE FlushInv'
    OBVIOUS
  <1>0. TypeOK /\ FlushInv
    BY DEF IInv
  <1>1. ReceivedInv /\ WireInv /\ BatchIsBounded
    BY DEF IInv
  <1> USE DEF TypeOK, adapterVars, batchVars, errVars, sendVars, FlushInv
  <1>2. ASSUME NEW f \in Finding, AdapterEmits(f) PROVE FlushInv'
    BY <1>0, <1>2 DEF AdapterEmits
  <1>3. CASE AdapterReturns
    BY <1>0, <1>3 DEF AdapterReturns
  <1>4. CASE Cancel
    BY <1>0, <1>4 DEF Cancel
  <1>5. CASE LinkCloses
    BY <1>0, <1>5 DEF LinkCloses
  <1>6. CASE SendAccepted
    BY <1>0, <1>6 DEF SendAccepted
  <1>7. CASE SendFails
    BY <1>0, <1>7 DEF SendFails
  <1>8. CASE StrayBatchEnds
    BY <1>0, <1>8 DEF StrayBatchEnds
  <1>9. CASE StrayDoneEnds
    BY <1>0, <1>9 DEF StrayDoneEnds
  <1>10. CASE ReceiveValid
    <2>1. Len(held) = 0 /\ call = "idle" /\ invalidErr = {} /\ UNCHANGED invalidErr
      BY <1>0, <1>1, <1>10, HeldIsEmpty DEF ReceiveValid, ReceivedInv
    <2>2. CASE WouldOverflow(Head(out))
      <3>1. batch # <<>> /\ UNCHANGED batch /\ held' = <<Head(out)>> /\ Len(held') = 1
        BY <2>2, <1>10 DEF ReceiveValid, WouldOverflow
      <3> QED
        BY <2>1, <2>2, <3>1, <1>10 DEF ReceiveValid, StartFlush
    <2>3. CASE ~WouldOverflow(Head(out))
      <3>1. batch' # <<>> /\ UNCHANGED held
        <4>1. Head(out) \in Finding /\ batch \in Seq(Finding)
          BY <1>0, <1>10, Received DEF ReceiveValid
        <4>2. Append(batch, Head(out)) # <<>>
          <5> HIDE DEF TypeOK, FlushInv
          <5> QED
            BY <4>1, AppendProperties, EmptySeq
        <4> QED
          BY <4>2, <2>3, <1>10 DEF ReceiveValid, PutInBatch
      <3> QED
        BY <2>1, <2>3, <3>1, <1>10 DEF ReceiveValid, PutInBatch, StartFlush
    <2> QED
      BY <2>2, <2>3
  <1>11. CASE ReceiveInvalid
    <2>1. Len(held) = 0 /\ call = "idle" /\ invalidErr' # {} /\ UNCHANGED <<held, batch>>
      BY <1>0, <1>1, <1>11, HeldIsEmpty DEF ReceiveInvalid
    <2>2. CASE batch # <<>>
      BY <2>1, <2>2, <1>11 DEF ReceiveInvalid, StartFlush
    <2>3. CASE batch = <<>>
      BY <2>1, <2>3, <1>11 DEF ReceiveInvalid, LeaveLoop
    <2> QED
      BY <2>2, <2>3
  <1>12. CASE OutClosed
    <2>1. Len(held) = 0 /\ invalidErr = {} /\ call = "idle"
      BY <1>0, <1>1, <1>12, HeldIsEmpty DEF OutClosed, ReceivedInv
    <2>2. /\ UNCHANGED <<held, batch, invalidErr, out, adapter>> /\ out = <<>> /\ adapter # "running"
      BY <1>12 DEF OutClosed
    <2>3. CASE batch # <<>>
      BY <2>1, <2>2, <2>3, <1>12 DEF OutClosed, FinalFlush, StartFlush
    <2>4. CASE batch = <<>>
      BY <2>1, <2>2, <2>4, <1>12 DEF OutClosed, FinalFlush, LeaveLoop
    <2> QED
      BY <2>3, <2>4
  <1>13. CASE TimerFires
    <2>1. Len(held) = 0 /\ invalidErr = {} /\ batch # <<>>
      BY <1>0, <1>1, <1>13, HeldIsEmpty DEF TimerFires, ReceivedInv, BatchIsBounded, PendingBatchHasTimer
    <2> QED
      BY <2>1, <1>13 DEF TimerFires, StartFlush
  <1>14. CASE FlushSent
    BY <1>0, <1>14 DEF FlushSent, StartFlush, PutInBatch, Full
  <1>15. CASE FlushFails
    BY <1>0, <1>15 DEF FlushFails
  <1>16. CASE AwaitAdapter
    BY <1>0, <1>16 DEF AwaitAdapter
  <1>17. CASE HandleReturns
    BY <1>0, <1>17 DEF HandleReturns
  <1>18. CASE UNCHANGED vars
    BY <1>0, <1>18 DEF vars
  <1> QED
    BY <1>2, <1>3, <1>4, <1>5, <1>6, <1>7, <1>8, <1>9, <1>10, <1>11,
       <1>12, <1>13, <1>14, <1>15, <1>16, <1>17, <1>18
    DEF Next, Loop, Send, Terminated

(* A Done is sent once, given up or not.                                   *)
LEMMA DoneStep == IInv /\ [Next]_vars => DoneInv'
  <1> SUFFICES ASSUME IInv, [Next]_vars PROVE DoneInv'
    OBVIOUS
  <1>0. TypeOK /\ DoneInv
    BY DEF IInv
  <1>1. FlushInv
    BY DEF IInv
  <1> USE DEF TypeOK, adapterVars, batchVars, errVars, sendVars, DoneInv
  <1>2. ASSUME NEW f \in Finding, AdapterEmits(f) PROVE DoneInv'
    BY <1>0, <1>2 DEF AdapterEmits
  <1>3. CASE AdapterReturns
    BY <1>0, <1>3 DEF AdapterReturns
  <1>4. CASE Cancel
    BY <1>0, <1>4 DEF Cancel
  <1>5. CASE LinkCloses
    BY <1>0, <1>5 DEF LinkCloses
  <1>6. CASE SendAccepted
    BY <1>0, <1>6 DEF SendAccepted
  <1>7. CASE SendFails
    BY <1>0, <1>7 DEF SendFails
  <1>8. CASE StrayBatchEnds
    BY <1>0, <1>8 DEF StrayBatchEnds
  <1>9. CASE StrayDoneEnds
    BY <1>0, <1>9 DEF StrayDoneEnds
  <1>10. CASE ReceiveValid
    BY <1>0, <1>10 DEF ReceiveValid, StartFlush, PutInBatch, Full
  <1>11. CASE ReceiveInvalid
    BY <1>0, <1>11 DEF ReceiveInvalid, StartFlush, LeaveLoop, InvalidIndex
  <1>12. CASE OutClosed
    BY <1>0, <1>12 DEF OutClosed, FinalFlush, StartFlush, LeaveLoop
  <1>13. CASE TimerFires
    BY <1>0, <1>13 DEF TimerFires, StartFlush
  <1>14. CASE FlushSent
    BY <1>0, <1>14 DEF FlushSent, StartFlush, PutInBatch, Full
  <1>15. CASE FlushFails
    BY <1>0, <1>15 DEF FlushFails
  <1>16. CASE AwaitAdapter
    <2>1. verdict' # "none"
      BY <1>0, <1>16, Outcomes DEF AwaitAdapter, Errors
    <2> QED
      BY <1>0, <2>1, <1>16 DEF AwaitAdapter
  <1>17. CASE HandleReturns
    BY <1>0, <1>17 DEF HandleReturns
  <1>18. CASE UNCHANGED vars
    BY <1>0, <1>18 DEF vars
  <1> QED
    BY <1>2, <1>3, <1>4, <1>5, <1>6, <1>7, <1>8, <1>9, <1>10, <1>11,
       <1>12, <1>13, <1>14, <1>15, <1>16, <1>17, <1>18
    DEF Next, Loop, Send, Terminated

(* A verdict without error is reached with everything on the stream.       *)
LEMMA WholeStep == IInv /\ [Next]_vars => WholeInv'
  <1> SUFFICES ASSUME IInv, [Next]_vars PROVE WholeInv'
    OBVIOUS
  <1>0. TypeOK /\ WholeInv
    BY DEF IInv
  <1>1. ReceivedInv /\ WireInv /\ FlushInv /\ DoneInv
    BY DEF IInv
  <1>19. CauseInv
    BY DEF IInv
  <1> USE DEF TypeOK, adapterVars, batchVars, errVars, sendVars, WholeInv
  <1>2. ASSUME NEW f \in Finding, AdapterEmits(f) PROVE WholeInv'
    BY <1>0, <1>2 DEF AdapterEmits
  <1>3. CASE AdapterReturns
    BY <1>0, <1>3 DEF AdapterReturns
  <1>4. CASE Cancel
    BY <1>0, <1>4 DEF Cancel
  <1>5. CASE LinkCloses
    BY <1>0, <1>5 DEF LinkCloses
  <1>6. CASE SendAccepted
    <2>1. /\ call = "pending"
          /\ UNCHANGED <<loop, cancelled, emitted, seen, adapter, out, verdict, invalidErr, recalled>>
      BY <1>6 DEF SendAccepted
    <2>2. (loop = "flushing" /\ verdict = "none") \/ loop = "finishing"
      BY <1>1, <2>1 DEF FlushInv, DoneInv
    <2>3. loop = "finishing" => UNCHANGED wire
      BY <1>6 DEF SendAccepted
    <2> QED
      BY <1>0, <2>1, <2>2, <2>3
  <1>7. CASE SendFails
    BY <1>0, <1>7 DEF SendFails
  <1>8. CASE StrayBatchEnds
    <2>1. Len(stray) \in Nat \ {0}
      BY <1>0, <1>8, EmptySeq, LenProperties DEF StrayBatchEnds
    <2>2. /\ Len(wire) \in Nat /\ seen \in Nat /\ Len(wire) + Len(stray) <= seen
          /\ seen <= Len(emitted) /\ Len(emitted) \in Nat
      BY <1>0, <1>1, LenProperties DEF WireInv, ReceivedInv, Bad
    <2>3. Len(wire) # seen /\ Len(wire) # Len(emitted)
      BY <2>1, <2>2
    <2> QED
      BY <1>0, <2>3, <1>8 DEF StrayBatchEnds
  <1>9. CASE StrayDoneEnds
    BY <1>0, <1>9 DEF StrayDoneEnds
  <1>10. CASE ReceiveValid
    BY <1>0, <1>10 DEF ReceiveValid, StartFlush, PutInBatch, Full
  <1>11. CASE ReceiveInvalid
    BY <1>0, <1>11 DEF ReceiveInvalid, StartFlush, LeaveLoop, InvalidIndex
  <1>12. CASE OutClosed
    <2>1. /\ loop = "select" /\ out = <<>> /\ adapter # "running" /\ invalidErr = {}
          /\ UNCHANGED <<emitted, wire, seen, adapter, out, verdict, invalidErr, recalled>>
      BY <1>1, <1>12 DEF OutClosed, ReceivedInv
    <2>2. verdict = "none"
      BY <1>1, <2>1 DEF DoneInv
    <2>3. ASSUME loop' = "awaiting" PROVE Len(wire) = seen
      <3>1. batch = <<>>
        BY <2>3, <1>12 DEF OutClosed, FinalFlush, StartFlush
      <3>2. Len(wire) + Len(batch) = seen
        BY <1>1, <2>1 DEF WireInv
      <3> QED
        BY <1>0, <3>1, <3>2, EmptySeq, LenProperties
    <2> QED
      BY <2>1, <2>2, <2>3
  <1>13. CASE TimerFires
    BY <1>0, <1>13 DEF TimerFires, StartFlush
  <1>14. CASE FlushSent
    <2>1. /\ loop' \in {"select", "flushing"} \/ (after # "append" /\ after # "loop")
          /\ loop = "flushing" /\ call = "ok"
          /\ UNCHANGED <<emitted, wire, seen, adapter, out, verdict, invalidErr, recalled>>
      BY <1>14 DEF FlushSent, PutInBatch, StartFlush
    <2>2. verdict = "none"
      BY <1>1, <2>1 DEF DoneInv
    <2>3. ASSUME loop' = "awaiting", ~cancelled'
          PROVE  out = <<>> /\ adapter # "running" /\ Len(wire) = seen /\ invalidErr = {}
      <3>1. after = "closed"
        BY <1>0, <2>1, <2>3, <1>14 DEF FlushSent
      <3>2. Len(held) = 0 /\ invalidErr = {} /\ out = <<>> /\ adapter # "running"
        BY <1>1, <2>1, <3>1 DEF FlushInv
      <3>3. Len(wire) + Len(held) = seen
        BY <1>1, <2>1 DEF WireInv
      <3> QED
        BY <1>0, <3>2, <3>3, LenProperties
    <2> QED
      BY <2>1, <2>2, <2>3
  <1>15. CASE FlushFails
    BY <1>0, <1>15 DEF FlushFails
  <1>16. CASE AwaitAdapter
    <2>1. ASSUME verdict' = "ok" \/ (verdict' = "adapter" /\ ~recalled)
          PROVE  adapter # "running" /\ Len(wire) = Len(emitted)
      <3>0. loop = "awaiting" /\ ~cancelled
        BY <1>0, <1>19, <2>1, <1>16, Outcomes DEF AwaitAdapter, CauseInv
      <3>1. out = <<>> /\ adapter # "running" /\ Len(wire) = seen /\ invalidErr = {}
        BY <1>0, <3>0
      <3>2. Len(emitted) = seen + 0 + 0
        BY <1>1, <3>1, EmptySeq DEF ReceivedInv, Bad
      <3> QED
        BY <1>0, <3>1, <3>2
    <2> QED
      BY <2>1, <1>16 DEF AwaitAdapter
  <1>17. CASE HandleReturns
    BY <1>0, <1>17 DEF HandleReturns
  <1>18. CASE UNCHANGED vars
    BY <1>0, <1>18 DEF vars
  <1> QED
    BY <1>2, <1>3, <1>4, <1>5, <1>6, <1>7, <1>8, <1>9, <1>10, <1>11,
       <1>12, <1>13, <1>14, <1>15, <1>16, <1>17, <1>18
    DEF Next, Loop, Send, Terminated

(* A cancellation is traced to the Worker or to an error.                  *)
LEMMA CauseStep == IInv /\ [Next]_vars => CauseInv'
  <1> SUFFICES ASSUME IInv, [Next]_vars PROVE CauseInv'
    OBVIOUS
  <1>0. TypeOK /\ CauseInv
    BY DEF IInv
  <1>1. ReceivedInv /\ WireInv /\ FlushInv /\ DoneInv
    BY DEF IInv
  <1> USE DEF TypeOK, adapterVars, batchVars, errVars, sendVars, CauseInv, Streaming
  <1>2. ASSUME NEW f \in Finding, AdapterEmits(f) PROVE CauseInv'
    BY <1>0, <1>2 DEF AdapterEmits
  <1>3. CASE AdapterReturns
    BY <1>0, <1>3 DEF AdapterReturns
  <1>4. CASE Cancel
    BY <1>0, <1>4 DEF Cancel
  <1>5. CASE LinkCloses
    BY <1>0, <1>5 DEF LinkCloses
  <1>6. CASE SendAccepted
    <2>1. /\ call = "pending"
          /\ UNCHANGED <<loop, cancelled, recalled, verdict, invalidErr, seen, sendErr>>
          /\ loop = "finishing" => UNCHANGED wire
      BY <1>6 DEF SendAccepted
    <2>2. loop \in {"flushing", "finishing"}
      BY <1>1, <2>1 DEF FlushInv
    <2> QED
      BY <1>0, <2>1, <2>2
  <1>7. CASE SendFails
    BY <1>0, <1>7 DEF SendFails
  <1>8. CASE StrayBatchEnds
    <2>1. Len(stray) \in Nat \ {0}
      BY <1>0, <1>8, EmptySeq, LenProperties DEF StrayBatchEnds
    <2>2. Len(wire) \in Nat /\ seen \in Nat /\ Len(wire) + Len(stray) <= seen
      BY <1>0, <1>1, LenProperties DEF WireInv
    <2>3. Len(wire) # seen
      BY <2>1, <2>2
    <2> QED
      BY <1>0, <2>3, <1>8 DEF StrayBatchEnds
  <1>9. CASE StrayDoneEnds
    BY <1>0, <1>9 DEF StrayDoneEnds
  <1>10. CASE ReceiveValid
    BY <1>0, <1>10 DEF ReceiveValid, StartFlush, PutInBatch, Full
  <1>11. CASE ReceiveInvalid
    <2>1. /\ loop = "select" /\ invalidErr' # {} /\ verdict = "none"
          /\ UNCHANGED <<recalled, verdict, wire, seen, sendErr>>
      BY <1>1, <1>11 DEF ReceiveInvalid, DoneInv
    <2>2. CASE batch # <<>>
      BY <1>0, <2>1, <2>2, <1>11 DEF ReceiveInvalid, StartFlush
    <2>3. CASE batch = <<>>
      <3>1. Len(wire) = seen
        BY <1>0, <1>1, <2>1, <2>3, HeldIsEmpty, EmptySeq, LenProperties
      <3> QED
        BY <1>0, <2>1, <2>3, <3>1, <1>11 DEF ReceiveInvalid, LeaveLoop
    <2> QED
      BY <2>2, <2>3
  <1>12. CASE OutClosed
    <2>1. /\ loop = "select" /\ loop' \in {"flushing", "awaiting"} /\ invalidErr = {}
          /\ UNCHANGED <<recalled, cancelled, verdict, invalidErr, wire, seen, sendErr>>
      BY <1>1, <1>12 DEF OutClosed, FinalFlush, StartFlush, LeaveLoop, ReceivedInv
    <2> QED
      BY <1>0, <2>1
  <1>13. CASE TimerFires
    BY <1>0, <1>13 DEF TimerFires, StartFlush
  <1>14. CASE FlushSent
    <2>1. /\ loop = "flushing" /\ call = "ok" /\ cancelled' = (cancelled \/ after = "invalid")
          /\ UNCHANGED <<recalled, verdict, invalidErr, wire, seen, sendErr>>
      BY <1>14 DEF FlushSent
    <2>5. loop' \in {"select", "flushing"} \/ (loop' = "awaiting" /\ after # "append")
      <3>1. CASE after = "append"
        BY <3>1, <1>14 DEF FlushSent, PutInBatch, StartFlush
      <3>2. CASE after # "append"
        BY <3>2, <1>14 DEF FlushSent
      <3> QED
        BY <3>1, <3>2
    <2>2. verdict = "none" /\ (cancelled => recalled) /\ (invalidErr # {} <=> after = "invalid")
      BY <1>0, <1>1, <2>1 DEF DoneInv, FlushInv
    <2>3. ASSUME after # "append" PROVE Len(wire) = seen
      <3>1. Len(held) = 0 /\ Len(wire) + Len(held) = seen
        BY <1>1, <2>1, <2>3 DEF FlushInv, WireInv
      <3> QED
        BY <1>0, <3>1, LenProperties
    <2>4. after = "invalid" => loop' = "awaiting"
      BY <1>14 DEF FlushSent
    <2> QED
      BY <1>0, <2>1, <2>2, <2>3, <2>4, <2>5
  <1>15. CASE FlushFails
    <2>1. /\ loop = "flushing" /\ loop' = "awaiting" /\ sendErr' = (sendErr \/ ~cancelled)
          /\ UNCHANGED <<recalled, verdict, invalidErr, wire, seen>>
      BY <1>15 DEF FlushFails
    <2>2. verdict = "none" /\ (cancelled => recalled)
      BY <1>0, <1>1, <2>1 DEF DoneInv
    <2>3. recalled \/ sendErr'
      BY <2>1, <2>2
    <2> QED
      BY <1>0, <2>1, <2>2, <2>3
  <1>16. CASE AwaitAdapter
    <2>1. /\ verdict' = "canceled" => recalled
          /\ verdict' = "invalid" <=> invalidErr # {}
          /\ verdict' # "invalid" => (verdict' = "send" <=> sendErr)
      BY <1>0, <1>16, Outcomes DEF AwaitAdapter
    <2> QED
      BY <1>0, <2>1, <1>16 DEF AwaitAdapter
  <1>17. CASE HandleReturns
    BY <1>0, <1>17 DEF HandleReturns
  <1>18. CASE UNCHANGED vars
    BY <1>0, <1>18 DEF vars
  <1> QED
    BY <1>2, <1>3, <1>4, <1>5, <1>6, <1>7, <1>8, <1>9, <1>10, <1>11,
       <1>12, <1>13, <1>14, <1>15, <1>16, <1>17, <1>18
    DEF Next, Loop, Send, Terminated

(* The batch keeps to its limits and its timer.                            *)
LEMMA BatchStep == IInv /\ [Next]_vars => BatchIsBounded'
  <1> SUFFICES ASSUME IInv, [Next]_vars PROVE BatchIsBounded'
    OBVIOUS
  <1>0. TypeOK /\ BatchIsBounded
    BY DEF IInv
  <1>1. FlushInv
    BY DEF IInv
  <1> USE DEF TypeOK, adapterVars, batchVars, errVars, sendVars, BatchIsBounded, BatchWithinLimits, PendingBatchHasTimer
  <1>2. ASSUME NEW f \in Finding, AdapterEmits(f) PROVE BatchIsBounded'
    BY <1>0, <1>2 DEF AdapterEmits
  <1>3. CASE AdapterReturns
    BY <1>0, <1>3 DEF AdapterReturns
  <1>4. CASE Cancel
    BY <1>0, <1>4 DEF Cancel
  <1>5. CASE LinkCloses
    BY <1>0, <1>5 DEF LinkCloses
  <1>6. CASE SendAccepted
    BY <1>0, <1>6 DEF SendAccepted
  <1>7. CASE SendFails
    BY <1>0, <1>7 DEF SendFails
  <1>8. CASE StrayBatchEnds
    BY <1>0, <1>8 DEF StrayBatchEnds
  <1>9. CASE StrayDoneEnds
    BY <1>0, <1>9 DEF StrayDoneEnds
  <1>10. CASE ReceiveValid
    <2>1. loop = "select" /\ Head(out) \in Finding /\ Size[Head(out)] \in Nat
      BY <1>0, <1>10, Received DEF ReceiveValid
    <2>2. CASE WouldOverflow(Head(out))
      <3>1. loop' = "flushing" /\ UNCHANGED <<batch, batchBytes>>
        BY <2>2, <1>10 DEF ReceiveValid, StartFlush
      <3> QED
        BY <1>0, <3>1
    <2>3. CASE ~WouldOverflow(Head(out))
      <3>1. batch' = Append(batch, Head(out)) /\ batchBytes' = batchBytes + Size[Head(out)]
        BY <2>3, <1>10 DEF ReceiveValid, PutInBatch
      <3>2. Len(batch') = Len(batch) + 1 /\ batch' # <<>> /\ Len(batch) \in Nat
        <4>1. batch \in Seq(Finding)
          BY <1>0
        <4> HIDE DEF TypeOK, BatchIsBounded, BatchWithinLimits, PendingBatchHasTimer
        <4> QED
          BY <2>1, <3>1, <4>1, AppendProperties, EmptySeq, LenProperties
      <3>3. Len(batch) < MaxFindings
        BY <1>0, <2>1
      <3>4. Len(batch') > 1 => batchBytes' <= MaxBytes
        <4>1. Len(batch') > 1 => batch # <<>>
          BY <3>2, EmptySeq
        <4> QED
          BY <2>3, <3>1, <4>1, <1>0, <2>1, StreamAssumption DEF WouldOverflow
      <3>5. CASE Full(batch')
        <4>1. loop' = "flushing"
          BY <2>3, <3>5, <1>10 DEF ReceiveValid, PutInBatch, StartFlush
        <4> QED
          BY <3>2, <3>3, <3>4, <4>1, StreamAssumption
      <3>6. CASE ~Full(batch')
        <4>1. loop' = "select" /\ timer' = TRUE
          BY <2>3, <3>6, <1>10 DEF ReceiveValid, PutInBatch
        <4> QED
          BY <3>2, <3>3, <3>4, <3>6, <4>1, StreamAssumption DEF Full
      <3> QED
        BY <3>5, <3>6
    <2> QED
      BY <2>2, <2>3
  <1>11. CASE ReceiveInvalid
    BY <1>0, <1>11 DEF ReceiveInvalid, StartFlush, LeaveLoop, InvalidIndex
  <1>12. CASE OutClosed
    BY <1>0, <1>12 DEF OutClosed, FinalFlush, StartFlush, LeaveLoop
  <1>13. CASE TimerFires
    BY <1>0, <1>13 DEF TimerFires, StartFlush
  <1>14. CASE FlushSent
    <2>1. loop = "flushing" /\ ~timer /\ (after = "append" => Len(held) = 1) /\ Len(<<>>) = 0
      BY <1>1, <1>14, EmptySeq DEF FlushSent, FlushInv
    <2>2. CASE after = "append"
      <3>1. Head(held) \in Finding /\ batch' = Append(<<>>, Head(held)) /\ <<>> \in Seq(Finding)
        <4>1. held \in Seq(Finding) /\ batch' = Append(<<>>, Head(held))
          BY <1>0, <2>2, <1>14 DEF FlushSent, PutInBatch
        <4> HIDE DEF TypeOK, BatchIsBounded, BatchWithinLimits, PendingBatchHasTimer
        <4> QED
          BY <2>1, <2>2, <4>1, HeadTailProperties, EmptySeq
      <3>2. Len(batch') = 1 /\ batch' # <<>>
        <4> HIDE DEF TypeOK, BatchIsBounded, BatchWithinLimits, PendingBatchHasTimer
        <4> QED
          BY <2>1, <3>1, AppendProperties, EmptySeq
      <3>3. CASE Full(batch')
        <4>1. loop' = "flushing"
          BY <2>2, <3>3, <1>14 DEF FlushSent, PutInBatch, StartFlush
        <4> QED
          BY <3>2, <4>1, StreamAssumption
      <3>4. CASE ~Full(batch')
        <4>1. loop' = "select" /\ timer' = TRUE
          BY <2>2, <3>4, <1>14 DEF FlushSent, PutInBatch
        <4> QED
          BY <3>2, <3>4, <4>1, StreamAssumption DEF Full
      <3> QED
        BY <3>3, <3>4
    <2>3. CASE after # "append"
      <3>1. batch' = <<>> /\ timer' = timer
        BY <2>3, <1>14 DEF FlushSent
      <3> QED
        BY <2>1, <3>1, StreamAssumption
    <2> QED
      BY <2>2, <2>3
  <1>15. CASE FlushFails
    <2>1. batch' = <<>> /\ batchBytes' = 0 /\ loop' = "awaiting" /\ Len(<<>>) = 0
      BY <1>15, EmptySeq DEF FlushFails
    <2> QED
      BY <2>1, StreamAssumption
  <1>16. CASE AwaitAdapter
    BY <1>0, <1>16 DEF AwaitAdapter
  <1>17. CASE HandleReturns
    BY <1>0, <1>17 DEF HandleReturns
  <1>18. CASE UNCHANGED vars
    BY <1>0, <1>18 DEF vars
  <1> QED
    BY <1>2, <1>3, <1>4, <1>5, <1>6, <1>7, <1>8, <1>9, <1>10, <1>11,
       <1>12, <1>13, <1>14, <1>15, <1>16, <1>17, <1>18
    DEF Next, Loop, Send, Terminated
-----------------------------------------------------------------------------
LEMMA IInvStep == IInv /\ [Next]_vars => IInv'
  BY TypeStep, ReceivedStep, WireStep, FlushStep, DoneStep, WholeStep, CauseStep, BatchStep
  DEF IInv

(* The account of the findings holds in every state.                       *)
THEOREM IInvHolds == Spec => []IInv
  BY InitIInv, IInvStep, PTL DEF Spec

(* Every variable keeps its type.                                          *)
THEOREM TypeCorrect == Spec => []TypeOK
  <1>1. IInv => TypeOK
    BY DEF IInv
  <1> QED
    BY <1>1, IInvHolds, PTL

(* The batch keeps to its limits, unless one finding alone exceeds them,   *)
(* and nothing is pending in it without a timer.                           *)
THEOREM BatchesAreBounded == Spec => []BatchIsBounded
  <1>1. IInv => BatchIsBounded
    BY DEF IInv
  <1> QED
    BY <1>1, IInvHolds, PTL

(* The index in invalidErr is that of the first invalid finding, nothing   *)
(* from it on ships, and Done takes neither the SDK's own cancellation for *)
(* a Cancel nor leaves out a part of the valid prefix.                     *)
THEOREM DoneTellsTheCause == Spec => []DoneNamesTheCause
  <1>1. ASSUME IInv PROVE InvalidIsNamed
    <2>1. ASSUME NEW k \in invalidErr PROVE k = seen /\ Bad = 1
      BY <1>1, <2>1 DEF IInv, ReceivedInv, Bad
    <2>2. /\ seen \in Nat /\ Len(out) \in Nat /\ Len(wire) <= seen
          /\ Len(emitted) = seen + Bad + Len(out)
          /\ \A i \in 1..seen : emitted[i] \notin Invalid
      BY <1>1, LenProperties DEF IInv, TypeOK, ReceivedInv, WireInv
    <2>3. invalidErr # {} => emitted[seen + 1] \in Invalid
      BY <1>1 DEF IInv, ReceivedInv
    <2> QED
      BY <2>1, <2>2, <2>3 DEF InvalidIsNamed
  <1>2. ASSUME IInv PROVE ErrorIsTheCause
    <2>1. done \in {"none", verdict} /\ (verdict = "none" <=> loop \notin {"finishing", "ended"})
      BY <1>2 DEF IInv, DoneInv
    <2>2. \A k \in invalidErr : k = seen
      BY <1>2 DEF IInv, ReceivedInv
    <2>3. done = "canceled" => recalled
      BY <1>2, <2>1 DEF IInv, CauseInv
    <2>4. ASSUME done = "invalid", ~sendErr, ~recalled, NEW k \in invalidErr PROVE Len(wire) = k
      <3>1. ~Streaming
        BY <2>1, <2>4 DEF Streaming
      <3> QED
        BY <1>2, <2>2, <2>4, <3>1 DEF IInv, CauseInv
    <2>5. done # "none" => (done = "invalid" <=> InvalidReceived)
      <3>1. done # "none" => (done = "invalid" <=> invalidErr # {})
        BY <1>2, <2>1 DEF IInv, CauseInv
      <3>2. InvalidReceived <=> invalidErr # {}
        <4>0. Bad \in {0, 1} /\ (Bad = 1 <=> invalidErr # {})
          BY DEF Bad
        <4>1. /\ seen \in Nat /\ Len(out) \in Nat
              /\ Len(emitted) = seen + Bad + Len(out)
          BY <1>2, LenProperties DEF IInv, TypeOK, ReceivedInv
        <4>2. /\ \A i \in 1..seen : emitted[i] \notin Invalid
              /\ invalidErr # {} => emitted[seen + 1] \in Invalid
          BY <1>2 DEF IInv, ReceivedInv
        <4>3. Len(emitted) - Len(out) = seen + Bad
          BY <4>0, <4>1
        <4> QED
          BY <4>0, <4>1, <4>2, <4>3 DEF InvalidReceived
      <3> QED
        BY <3>1, <3>2
    <2>6. done \notin {"none", "invalid"} => (done = "send" <=> sendErr)
      BY <1>2, <2>1 DEF IInv, CauseInv
    <2>7. ASSUME done = "adapter", ~recalled PROVE wire = emitted
      <3>1. /\ emitted \in Seq(Finding) /\ wire \in Seq(Finding) /\ Follows(wire, 0, emitted)
            /\ Len(wire) = Len(emitted)
        BY <1>2, <2>1, <2>7 DEF IInv, TypeOK, WireInv, WholeInv, Segment
      <3> QED
        BY <3>1, SeqEqual, LenProperties DEF Follows
    <2> QED
      BY <2>3, <2>4, <2>5, <2>6, <2>7 DEF ErrorIsTheCause
  <1> QED
    BY <1>1, <1>2, IInvHolds, PTL DEF DoneNamesTheCause
-----------------------------------------------------------------------------
(* The loop implements Delivery.                                           *)

(* A send that adds findings to the stream is a Deliver.                   *)
LEMMA Delivered ==
  ASSUME IInv, NEW s \in Seq(Finding), s # <<>>, Segment(s, Len(wire)), done # "ok",
         wire' = wire \o s, UNCHANGED <<emitted, done>>
  PROVE  Promise!Deliver
  <1>1. /\ emitted \in Seq(Finding) /\ wire \in Seq(Finding) /\ Follows(wire, 0, emitted)
        /\ Follows(s, Len(wire), emitted) /\ Len(wire) \in Nat /\ Len(s) \in Nat \ {0}
    BY LenProperties, EmptySeq DEF IInv, TypeOK, WireInv, Segment
  <1>2. /\ wire' \in Seq(Finding) /\ Len(wire') = Len(wire) + Len(s)
        /\ Follows(wire', 0, emitted)
    BY <1>1, ConcatFollows
  <1>3. wire' = SubSeq(emitted, 1, Len(wire'))
    BY <1>1, <1>2, PrefixIsSubSeq
  <1>4. Len(wire') \in (Len(wire) + 1)..Len(emitted)
    BY <1>1, <1>2, LenProperties DEF Follows
  <1> QED
    BY <1>3, <1>4 DEF Promise!Deliver

(* A Done on the stream is a Finish.                                       *)
LEMMA Finished ==
  ASSUME IInv, verdict # "none", done = "none", done' = verdict, UNCHANGED <<emitted, wire>>
  PROVE  Promise!Finish
  <1>1. CASE verdict = "ok"
    <2>1. /\ emitted \in Seq(Finding) /\ wire \in Seq(Finding) /\ Follows(wire, 0, emitted)
          /\ Len(wire) = Len(emitted)
      BY <1>1 DEF IInv, TypeOK, WireInv, WholeInv, Segment
    <2>2. wire = emitted
      BY <2>1, SeqEqual, LenProperties DEF Follows
    <2> QED
      BY <1>1, <2>2 DEF Promise!Finish
  <1>2. CASE verdict # "ok"
    BY <1>2 DEF IInv, TypeOK, Promise!Finish
  <1> QED
    BY <1>1, <1>2

LEMMA PromiseStep == IInv /\ [Next]_vars => [Promise!Next]_(Promise!vars)
  <1> SUFFICES ASSUME IInv, [Next]_vars
               PROVE  Promise!Next \/ UNCHANGED <<emitted, wire, done>>
    BY DEF Promise!vars
  <1>0. TypeOK /\ WireInv /\ FlushInv /\ DoneInv /\ WholeInv
    BY DEF IInv
  <1>1. ASSUME NEW f \in Finding, AdapterEmits(f) PROVE Promise!Emit
    <2>1. done # "ok"
      BY <1>0, <1>1 DEF AdapterEmits, DoneInv, WholeInv
    <2> QED
      BY <1>1, <2>1 DEF AdapterEmits, sendVars, Promise!Emit
  <1>2. CASE SendAccepted
    <2>1. CASE loop = "finishing"
      BY <1>0, <1>2, <2>1, Finished DEF SendAccepted, DoneInv, adapterVars, Promise!Next
    <2>2. CASE loop = "flushing"
      <3>1. done # "ok"
        BY <1>0, <2>2 DEF DoneInv
      <3>2. batch \in Seq(Finding) /\ batch # <<>> /\ Segment(batch, Len(wire))
        BY <1>0, <1>2, <2>2 DEF SendAccepted, TypeOK, FlushInv, WireInv
      <3>3. wire' = wire \o batch /\ UNCHANGED <<emitted, done>>
        BY <1>2, <2>2 DEF SendAccepted, adapterVars
      <3> QED
        BY <3>1, <3>2, <3>3, Delivered DEF Promise!Next
    <2> QED
      BY <1>0, <1>2, <2>1, <2>2 DEF SendAccepted, FlushInv
  <1>3. CASE StrayBatchEnds
    <2>1. CASE linkUp
      <3>1. stray \in Seq(Finding) /\ stray # <<>> /\ Segment(stray, Len(wire))
        BY <1>0, <1>3 DEF StrayBatchEnds, TypeOK, WireInv
      <3>2. done # "ok"
        <4>1. Len(stray) \in Nat \ {0} /\ Len(wire) \in Nat
          BY <1>0, <3>1, LenProperties, EmptySeq DEF TypeOK
        <4>2. Len(wire) # Len(emitted)
          BY <3>1, <4>1 DEF Segment, Follows
        <4> QED
          BY <1>0, <4>2 DEF DoneInv, WholeInv
      <3>3. wire' = wire \o stray /\ UNCHANGED <<emitted, done>>
        BY <1>3, <2>1 DEF StrayBatchEnds, adapterVars
      <3> QED
        BY <3>1, <3>2, <3>3, Delivered DEF Promise!Next
    <2> QED
      BY <1>3, <2>1 DEF StrayBatchEnds, adapterVars
  <1>4. CASE StrayDoneEnds
    <2>1. done = "none" /\ strayDone = {verdict} /\ verdict # "none"
      BY <1>0, <1>4 DEF StrayDoneEnds, DoneInv
    <2> QED
      BY <1>4, <2>1, Finished DEF StrayDoneEnds, adapterVars, Promise!Next
  <1>5. ASSUME SendFails \/ AdapterReturns \/ Cancel \/ LinkCloses \/ Loop \/ UNCHANGED vars
        PROVE  UNCHANGED <<emitted, wire, done>>
    BY <1>5
    DEF SendFails, AdapterReturns, Cancel, LinkCloses, Loop, ReceiveValid, ReceiveInvalid,
        OutClosed, TimerFires, FlushSent, FlushFails, AwaitAdapter, HandleReturns,
        vars, adapterVars, sendVars
  <1> QED
    BY <1>1, <1>2, <1>3, <1>4, <1>5 DEF Next, Send, Terminated, Promise!Next

(* What is on the stream is at any time a prefix of what the adapter has   *)
(* emitted, and a Done without error says that it is all of it: whatever   *)
(* is cancelled, lost or given up, and however the findings are batched.   *)
THEOREM PromiseIsKept == Spec => PromiseKept
  <1>1. Init => Promise!Init
    BY DEF Init, Promise!Init
  <1> QED
    BY <1>1, IInvHolds, PromiseStep, PTL DEF Spec, PromiseKept, Promise!Spec
-----------------------------------------------------------------------------
(* The loop takes the steps of handleExecute in module Runtime.  What this *)
(* needs beyond IInv: no finding comes twice, so there are no more Results *)
(* than findings; a flush that makes room for a finding leaves the batch   *)
(* with room for others; and a Cancel is received once.                    *)

EmitOnceInv == \A i, j \in DOMAIN emitted : emitted[i] = emitted[j] => i = j

StartsInv ==
    /\ starts \in Nat
    /\ loop = "select" => starts + Len(batch) <= seen
    /\ loop = "flushing" => starts + Len(held) + Len(batch) <= seen + 1
    /\ loop \notin {"select", "flushing"} => starts <= seen

RoomInv == loop = "flushing" /\ after = "append" => MaxFindings > 1

LostInv ==
    /\ recalled => cancelled
    /\ lost \in BOOLEAN /\ (loop # "ended" => ~lost)
    /\ up \in Seq(Process!ConnectorMsg)

HInv == IInv /\ EmitOnceInv /\ StartsInv /\ RoomInv /\ LostInv

LEMMA InitHInv == HandleInit => HInv
  <1> SUFFICES ASSUME HandleInit PROVE HInv
    OBVIOUS
  <1>1. IInv
    BY InitIInv DEF HandleInit
  <1>2. emitted = <<>> /\ batch = <<>> /\ seen = 0 /\ loop = "select" /\ starts = 0
        /\ up = <<>> /\ lost = FALSE /\ recalled = FALSE
    BY DEF HandleInit, Init
  <1>3. Len(batch) = 0 /\ DOMAIN emitted = {} /\ up \in Seq(Process!ConnectorMsg)
    BY <1>2, EmptySeq
  <1>4. EmitOnceInv /\ StartsInv /\ RoomInv
    BY <1>2, <1>3 DEF EmitOnceInv, StartsInv, RoomInv
  <1>5. LostInv
    BY <1>2, <1>3, Zenon DEF LostInv
  <1> QED
    BY <1>1, <1>4, <1>5 DEF HInv

LEMMA EmitOnceStep == HInv /\ [Next]_vars => EmitOnceInv'
  <1> SUFFICES ASSUME HInv, [Next]_vars PROVE EmitOnceInv'
    OBVIOUS
  <1>1. EmitOnceInv /\ emitted \in Seq(Finding)
    BY DEF HInv, IInv, TypeOK
  <1>2. ASSUME NEW f \in Finding, AdapterEmits(f) PROVE EmitOnceInv'
    <2>1. emitted' = Append(emitted, f) /\ \A i \in DOMAIN emitted : emitted[i] # f
      BY <1>2 DEF AdapterEmits
    <2>2. /\ DOMAIN emitted = 1..Len(emitted) /\ Len(emitted) \in Nat
          /\ DOMAIN emitted' = 1..Len(emitted) + 1
          /\ \A i \in 1..Len(emitted) : emitted'[i] = emitted[i]
          /\ emitted'[Len(emitted) + 1] = f
      BY <1>1, <2>1, AppendProperties, LenProperties
    <2> QED
      BY <1>1, <2>1, <2>2 DEF EmitOnceInv
  <1>3. CASE UNCHANGED emitted
    BY <1>1, <1>3 DEF EmitOnceInv
  <1> QED
    BY <1>2, <1>3
    DEF Next, Loop, Send, Terminated, vars, adapterVars, AdapterReturns, Cancel, LinkCloses,
        SendAccepted, SendFails, StrayBatchEnds, StrayDoneEnds, ReceiveValid, ReceiveInvalid,
        OutClosed, TimerFires, FlushSent, FlushFails, AwaitAdapter, HandleReturns

(* So there are at most as many as there are findings.                     *)
LEMMA FewAreEmitted ==
  ASSUME HInv
  PROVE  /\ Cardinality(Finding) \in Nat /\ seen \in Nat
         /\ Len(emitted) <= Cardinality(Finding) /\ seen <= Cardinality(Finding)
  <1>1. emitted \in Seq(Finding) /\ EmitOnceInv /\ seen \in Nat
    BY DEF HInv, IInv, TypeOK
  <1>2. emitted \in [1..Len(emitted) -> Finding] /\ Len(emitted) \in Nat
    BY <1>1, LenProperties
  <1>3. emitted \in Injection(1..Len(emitted), Finding)
    <2>1. DOMAIN emitted = 1..Len(emitted)
      BY <1>2
    <2>2. \A i, j \in DOMAIN emitted : emitted[i] = emitted[j] => i = j
      BY <1>1 DEF EmitOnceInv
    <2> QED
      BY <1>2, <2>1, <2>2, Zenon DEF Injection, IsInjective
  <1>4. Cardinality(1..Len(emitted)) <= Cardinality(Finding)
    BY <1>3, FS_Injection, FindingAssumption
  <1>5. Cardinality(1..Len(emitted)) = Len(emitted)
    <2>1. ASSUME NEW n \in Nat PROVE Cardinality(1..n) = n
      BY FS_Interval
    <2> QED
      BY <1>2, <2>1
  <1>6. seen <= Len(emitted)
    BY <1>1, LenProperties DEF HInv, IInv, TypeOK, ReceivedInv, Bad
  <1> QED
    BY <1>1, <1>2, <1>4, <1>5, <1>6, FS_CardinalityType, FindingAssumption

(* What Runtime sees of the state, when an action leaves it alone.         *)
LEMMA NothingAccepted ==
  ASSUME HInv, History, ~(call = "pending" /\ call' = "ok"),
         stray' = stray \/ stray = <<>>, strayDone' = strayDone \/ strayDone = {}
  PROVE  up' = up
  <1>1. Accepted = <<>>
    BY DEF Accepted
  <1>2. up \in Seq(Process!ConnectorMsg)
    BY DEF HInv, LostInv
  <1> QED
    BY <1>1, <1>2, ConcatEmptySeq DEF History

LEMMA LoopFacts ==
  ASSUME HInv
  PROVE  /\ loop \in {"select", "flushing", "awaiting", "finishing", "ended"}
         /\ loop \in {"select", "flushing"} => stray = <<>>
         /\ loop # "ended" => strayDone = {} /\ lost = FALSE
         /\ verdict = "none" <=> loop \notin {"finishing", "ended"}
         /\ loop \notin {"flushing", "finishing"} => call = "idle"
         /\ loop = "select" => invalidErr = {}
         /\ cancelled \in BOOLEAN /\ lost \in BOOLEAN /\ linkUp \in BOOLEAN /\ sendErr \in BOOLEAN
         /\ starts \in Nat /\ Cardinality(Finding) \in Nat
  <1>1. TypeOK /\ WireInv /\ FlushInv /\ DoneInv /\ ReceivedInv /\ LostInv /\ StartsInv
    BY DEF HInv, IInv
  <1>2. loop # "ended" => lost = FALSE
    BY <1>1, Zenon DEF LostInv
  <1>3. /\ loop \in {"select", "flushing", "awaiting", "finishing", "ended"}
        /\ cancelled \in BOOLEAN /\ lost \in BOOLEAN /\ linkUp \in BOOLEAN /\ sendErr \in BOOLEAN
    BY <1>1, Zenon DEF TypeOK, LostInv
  <1> QED
    BY <1>1, <1>2, <1>3, FewAreEmitted DEF WireInv, FlushInv, DoneInv, ReceivedInv, StartsInv, Streaming

(* flush() starts the send of a Result: there are findings left for it.    *)
LEMMA RoomForAResult ==
  ASSUME HInv, loop = "select", out # <<>> \/ batch # <<>>
  PROVE  starts < Cardinality(Finding)
  <1>1. /\ out \in Seq(Finding) /\ batch \in Seq(Finding) /\ seen \in Nat /\ starts \in Nat
        /\ Len(emitted) = seen + Len(out) /\ starts + Len(batch) <= seen
    BY DEF HInv, IInv, TypeOK, ReceivedInv, StartsInv, Bad
  <1>2. Len(out) \in Nat /\ Len(batch) \in Nat /\ (Len(out) # 0 \/ Len(batch) # 0)
    BY <1>1, EmptySeq, LenProperties
  <1> QED
    BY <1>1, <1>2, FewAreEmitted

LEMMA StartsAResult ==
  ASSUME HInv, History, loop = "select", out # <<>> \/ batch # <<>>,
         loop' = "flushing", call' = "pending",
         UNCHANGED <<adapter, sendErr, recalled, cancelled, verdict, stray, strayDone, linkUp>>
  PROVE  /\ invalidErr' = invalidErr => Process!FlushBatch("job")
         /\ invalidErr' # {} => Process!InvalidFinding("job")
         /\ starts' = starts + 1 /\ up' = up /\ lost' = lost
  <1>1. call = "idle" /\ stray = <<>> /\ strayDone = {} /\ lost = FALSE /\ lost \in BOOLEAN
    BY LoopFacts
  <1>2. starts' = starts + 1
    BY <1>1 DEF History
  <1>3. lost' = lost
    BY <1>1, Zenon DEF History
  <1>4. up' = up
    BY <1>1, NothingAccepted
  <1>5. starts < Cardinality(Finding)
    BY RoomForAResult
  <1>6. HandlePhase = "streaming" /\ HandlePhase' = "flushing"
    BY DEF HandlePhase
  <1>7. GivenUp' = GivenUp
    BY <1>1 DEF GivenUp
  <1>8. /\ invalidErr' = invalidErr => Fault' = Fault
        /\ invalidErr' # {} => Fault' = "invalid"
    BY DEF Fault
  <1>9. ASSUME invalidErr' = invalidErr PROVE Process!FlushBatch("job")
    BY <1>2, <1>3, <1>4, <1>5, <1>6, <1>7, <1>8, <1>9
    DEF Process!FlushBatch, Process!StartResult, Process!Alive, Process!workerVars, Process!loopVars,
        OfJob, JobIf, Said
  <1>10. ASSUME invalidErr' # {} PROVE Process!InvalidFinding("job")
    BY <1>2, <1>3, <1>4, <1>5, <1>6, <1>7, <1>8, <1>10
    DEF Process!InvalidFinding, Process!StartResult, Process!Alive, Process!workerVars, Process!loopVars,
        OfJob, JobIf, Said
  <1> QED
    BY <1>2, <1>3, <1>4, <1>9, <1>10

(* What only moves findings about is not seen.                             *)
LEMMA NotSeen ==
  ASSUME HInv, History,
         UNCHANGED <<adapter, loop, invalidErr, sendErr, recalled, cancelled, verdict, stray,
                     strayDone, linkUp, call>>
  PROVE  UNCHANGED Process!vars /\ starts' = starts /\ up' = up /\ lost' = lost
  <1>1. starts' = starts
    BY DEF History
  <1>2. lost \in BOOLEAN /\ ~(loop = "finishing" /\ loop' = "ended")
    BY LoopFacts
  <1>3. lost' = lost
    BY <1>2, Zenon DEF History
  <1>4. up' = up
    BY NothingAccepted
  <1>5. HandlePhase' = HandlePhase /\ Fault' = Fault /\ GivenUp' = GivenUp
    BY <1>1 DEF HandlePhase, Fault, GivenUp, ResultMsg
  <1> QED
    BY <1>1, <1>3, <1>4, <1>5
    DEF Process!vars, Process!workerVars, Process!loopVars, Process!execVars, Process!sendVars,
        OfJob, JobIf, Said

(* The loop receives.                                                      *)
LEMMA ReceiveValidIs ==
  ASSUME HInv, History, ReceiveValid
  PROVE  Process!FlushBatch("job") \/ UNCHANGED Process!vars
  <1>1. /\ loop = "select" /\ out # <<>> /\ call = "idle"
        /\ UNCHANGED <<adapter, invalidErr, sendErr, recalled, cancelled, verdict, stray, strayDone, linkUp>>
    BY LoopFacts DEF ReceiveValid, adapterVars, errVars
  <1>2. \/ loop' = "flushing" /\ call' = "pending"
        \/ loop' = "select" /\ call' = "idle"
    BY DEF ReceiveValid, PutInBatch, StartFlush
  <1>3. CASE loop' = "flushing" /\ call' = "pending"
    BY <1>1, <1>3, StartsAResult
  <1>4. CASE loop' = "select" /\ call' = "idle"
    BY <1>1, <1>4, NotSeen
  <1> QED
    BY <1>2, <1>3, <1>4

LEMMA ReceiveInvalidIs ==
  ASSUME HInv, History, ReceiveInvalid
  PROVE  Process!InvalidFinding("job")
  <1>1. /\ loop = "select" /\ out # <<>> /\ call = "idle" /\ stray = <<>> /\ strayDone = {}
        /\ lost = FALSE /\ lost \in BOOLEAN /\ cancelled \in BOOLEAN /\ invalidErr' # {}
        /\ UNCHANGED <<adapter, sendErr, recalled, verdict, stray, strayDone, linkUp>>
    BY LoopFacts DEF ReceiveInvalid, adapterVars
  <1>2. CASE batch # <<>>
    BY <1>1, <1>2, StartsAResult DEF ReceiveInvalid, StartFlush
  <1>3. CASE batch = <<>>
    <2>1. loop' = "awaiting" /\ UNCHANGED call /\ cancelled' = TRUE
      BY <1>3 DEF ReceiveInvalid, LeaveLoop
    <2>2. starts' = starts /\ lost' = lost
      BY <1>1, <2>1 DEF History
    <2>3. up' = up
      BY <1>1, <2>1, NothingAccepted
    <2>4. /\ HandlePhase = "streaming" /\ HandlePhase' = "waiting" /\ Fault' = "invalid"
          /\ GivenUp' = GivenUp
      BY <1>1, <2>1, <2>2 DEF HandlePhase, Fault, GivenUp
    <2> QED
      BY <1>1, <2>1, <2>2, <2>3, <2>4
      DEF Process!InvalidFinding, Process!Alive, Process!workerVars, Process!loopVars, OfJob, JobIf, Said
  <1> QED
    BY <1>2, <1>3

LEMMA OutClosedIs ==
  ASSUME HInv, History, OutClosed
  PROVE  Process!FlushBatch("job") \/ Process!OutClosed("job")
  <1>1. /\ loop = "select" /\ call = "idle" /\ stray = <<>> /\ strayDone = {} /\ adapter # "running"
        /\ lost = FALSE /\ lost \in BOOLEAN /\ verdict = "none"
        /\ UNCHANGED <<adapter, invalidErr, sendErr, recalled, cancelled, verdict, stray, strayDone, linkUp>>
    BY LoopFacts DEF OutClosed, adapterVars, errVars
  <1>2. CASE batch # <<>>
    BY <1>1, <1>2, StartsAResult DEF OutClosed, FinalFlush, StartFlush
  <1>3. CASE batch = <<>>
    <2>1. loop' = "awaiting" /\ UNCHANGED call
      BY <1>3 DEF OutClosed, FinalFlush, LeaveLoop
    <2>2. starts' = starts /\ lost' = lost
      BY <1>1, <2>1 DEF History
    <2>3. up' = up
      BY <1>1, <2>1, NothingAccepted
    <2>4. /\ HandlePhase = "streaming" /\ HandlePhase' = "waiting" /\ Fault' = Fault
          /\ GivenUp' = GivenUp
      BY <1>1, <2>1, <2>2 DEF HandlePhase, Fault, GivenUp
    <2> QED
      BY <1>1, <2>1, <2>2, <2>3, <2>4
      DEF Process!OutClosed, Process!OutIsClosed, Process!Alive, Process!workerVars, Process!loopVars,
          Process!sendVars, OfJob, JobIf, Said
  <1> QED
    BY <1>2, <1>3

LEMMA TimerFiresIs ==
  ASSUME HInv, History, TimerFires
  PROVE  Process!FlushBatch("job")
  <1>1. loop = "select" /\ timer /\ batch # <<>>
    BY DEF TimerFires, HInv, IInv, BatchIsBounded, PendingBatchHasTimer
  <1> QED
    BY <1>1, StartsAResult DEF TimerFires, StartFlush, adapterVars, errVars

(* A flush ends.  The batch that held a finding up has room for it now.    *)
LEMMA FlushSentLeaves ==
  ASSUME HInv, FlushSent
  PROVE  /\ after = "append" => ~Full(batch') /\ Len(batch') = 1 /\ held # <<>>
         /\ call' = "idle"
         /\ loop' = IF after \in {"append", "loop"} THEN "select" ELSE "awaiting"
  <1>1. ASSUME after = "append" PROVE Len(batch') = 1 /\ ~Full(batch') /\ held # <<>>
    <2>1. batch' = Append(<<>>, Head(held)) /\ held # <<>> /\ held \in Seq(Finding)
      <3>1. Len(held) = 1 /\ held \in Seq(Finding)
        BY <1>1 DEF FlushSent, HInv, IInv, FlushInv, TypeOK
      <3>2. batch' = Append(<<>>, Head(held))
        BY <1>1, Zenon DEF FlushSent, PutInBatch
      <3> QED
        BY <3>1, <3>2, EmptySeq
    <2>2. Len(batch') = 1
      BY <2>1, EmptySeq, AppendProperties, HeadTailProperties
    <2>3. MaxFindings > 1 /\ MaxFindings \in Nat
      BY <1>1, StreamAssumption DEF FlushSent, HInv, RoomInv
    <2> QED
      BY <2>1, <2>2, <2>3 DEF Full
  <1>2. CASE after = "append"
    BY <1>1, <1>2 DEF FlushSent, PutInBatch
  <1>3. CASE after # "append"
    <2>1. after \in {"loop", "closed", "invalid"}
      BY <1>3 DEF HInv, IInv, TypeOK
    <2> QED
      BY <1>3, <2>1 DEF FlushSent
  <1> QED
    BY <1>1, <1>2, <1>3

LEMMA FlushSentIs ==
  ASSUME HInv, History, FlushSent
  PROVE  Process!FlushSent("job")
  <1>1. /\ loop = "flushing" /\ call = "ok" /\ stray = <<>> /\ strayDone = {} /\ verdict = "none"
        /\ lost = FALSE /\ lost \in BOOLEAN /\ cancelled \in BOOLEAN
        /\ UNCHANGED <<adapter, invalidErr, sendErr, recalled, verdict, stray, strayDone, linkUp>>
    BY LoopFacts DEF FlushSent, adapterVars, errVars
  <1>2. /\ call' = "idle" /\ loop' = IF after \in {"append", "loop"} THEN "select" ELSE "awaiting"
        /\ after \in {"append", "loop", "closed", "invalid"}
        /\ invalidErr # {} <=> after = "invalid"
        /\ after = "closed" => adapter # "running"
    BY <1>1, FlushSentLeaves DEF HInv, IInv, FlushInv, TypeOK
  <1>3. starts' = starts /\ lost' = lost
    BY <1>1, <1>2 DEF History
  <1>4. up' = up
    BY <1>1, NothingAccepted
  <1>5. /\ HandlePhase = "flushing"
        /\ HandlePhase' = IF after \in {"append", "loop"} THEN "streaming" ELSE "waiting"
        /\ Fault' = Fault /\ GivenUp' = GivenUp
        /\ Fault = "invalid" <=> after = "invalid"
    BY <1>1, <1>2, <1>3 DEF HandlePhase, Fault, GivenUp
  <1>6. loop' # "ended" /\ loop # "ended"
    BY <1>1, <1>2
  <1>7. CASE after = "invalid"
    <2>1. cancelled' = TRUE
      BY <1>7 DEF FlushSent
    <2> QED
      BY <1>1, <1>2, <1>3, <1>4, <1>5, <1>6, <1>7, <2>1
      DEF Process!FlushSent, Process!LeaveSend, Process!Alive, Process!workerVars, Process!loopVars,
          OfJob, JobIf, Said
  <1>8. CASE after # "invalid"
    <2>1. cancelled' = cancelled
      BY <1>1, <1>8, Zenon DEF FlushSent
    <2> QED
      BY <1>1, <1>2, <1>3, <1>4, <1>5, <1>6, <1>8, <2>1
      DEF Process!FlushSent, Process!LeaveSend, Process!OutIsClosed, Process!Alive, Process!workerVars,
          Process!loopVars, OfJob, JobIf, Said
  <1> QED
    BY <1>7, <1>8

LEMMA FlushFailsIs ==
  ASSUME HInv, History, FlushFails
  PROVE  Process!FlushFails("job")
  <1>1. /\ loop = "flushing" /\ loop' = "awaiting" /\ call' = "idle" /\ cancelled' = TRUE
        /\ stray = <<>> /\ strayDone = {} /\ lost = FALSE /\ lost \in BOOLEAN
        /\ cancelled \in BOOLEAN /\ sendErr \in BOOLEAN
        /\ UNCHANGED <<adapter, invalidErr, recalled, verdict, strayDone, linkUp>>
    BY LoopFacts DEF FlushFails, adapterVars
  <1>2. /\ batch # <<>> /\ (call # "ok" \/ cancelled)
        /\ stray' = IF call = "pending" THEN batch ELSE <<>>
    BY <1>1 DEF FlushFails, HInv, IInv, FlushInv
  <1>3. starts' = starts /\ lost' = lost
    BY <1>1 DEF History
  <1>4. up' = up
    BY <1>1, NothingAccepted
  <1>5. sendErr' = (sendErr \/ ~cancelled)
    BY DEF FlushFails
  <1>6. HandlePhase = "flushing" /\ HandlePhase' = "waiting"
    BY <1>1 DEF HandlePhase
  <1>7. GivenUp = {} /\ GivenUp' = IF call = "pending" THEN {ResultMsg} ELSE {}
    BY <1>1, <1>2, <1>3 DEF GivenUp, ResultMsg
  <1>8. Fault' = IF cancelled \/ Fault = "invalid" THEN Fault ELSE "send"
    BY <1>1, <1>5 DEF Fault
  <1> QED
    BY <1>1, <1>2, <1>3, <1>4, <1>6, <1>7, <1>8
    DEF Process!FlushFails, Process!LeaveSend, Process!Sending, Process!Result, Process!Aborted,
        Process!Alive, Process!workerVars, Process!loopVars, OfJob, JobIf, Said, ResultMsg

-----------------------------------------------------------------------------
(* The end of the execution.                                               *)
LEMMA AwaitAdapterIs ==
  ASSUME HInv, History, AwaitAdapter
  PROVE  Process!AwaitAdapter("job")
  <1>1. /\ loop = "awaiting" /\ loop' = "finishing" /\ call = "idle" /\ call' = "pending"
        /\ strayDone = {} /\ verdict = "none" /\ verdict' = Outcome
        /\ lost = FALSE /\ lost \in BOOLEAN /\ cancelled \in BOOLEAN
        /\ UNCHANGED <<adapter, invalidErr, sendErr, recalled, cancelled, stray, strayDone, linkUp>>
    BY LoopFacts DEF AwaitAdapter, adapterVars, errVars
  <1>2. starts' = starts /\ lost' = lost
    BY <1>1 DEF History
  <1>3. up' = up
    BY <1>1, NothingAccepted
  <1>4. /\ HandlePhase = "waiting" /\ HandlePhase' = "finishing" /\ Fault' = Fault
        /\ GivenUp' = GivenUp
    BY <1>1, <1>2 DEF HandlePhase, Fault, GivenUp, ResultMsg
  <1>5. Said(verdict') = IF Fault # "none" \/ adapter # "nil" THEN "error"
                         ELSE IF cancelled THEN "canceled" ELSE "ok"
    <2>1. CASE invalidErr # {}
      BY <1>1, <2>1 DEF Said, Outcome, Fault
    <2>2. CASE invalidErr = {} /\ sendErr
      BY <1>1, <2>2 DEF Said, Outcome, Fault
    <2>3. CASE invalidErr = {} /\ ~sendErr /\ adapter # "nil"
      BY <1>1, <2>3 DEF Said, Outcome, Fault
    <2>4. CASE invalidErr = {} /\ ~sendErr /\ adapter = "nil"
      BY <1>1, <2>4 DEF Said, Outcome, Fault
    <2> QED
      BY <2>1, <2>2, <2>3, <2>4
  <1>6. verdict' # "none"
    BY <1>1, Outcomes DEF HInv, IInv, Errors
  <1> QED
    BY <1>1, <1>2, <1>3, <1>4, <1>5, <1>6
    DEF Process!AwaitAdapter, Process!AdapterOrTimer, Process!Outcome, Process!Aborted, Process!Alive,
        Process!workerVars, Process!loopVars, OfJob, JobIf

LEMMA HandleReturnsIs ==
  ASSUME HInv, History, HandleReturns
  PROVE  Process!DoneSent("job") \/ Process!DoneFails("job")
  <1>1. /\ loop = "finishing" /\ loop' = "ended" /\ call' = "idle" /\ cancelled' = TRUE
        /\ strayDone = {} /\ strayDone' = IF call = "pending" THEN {verdict} ELSE {}
        /\ lost = FALSE /\ lost \in BOOLEAN /\ verdict # "none"
        /\ UNCHANGED <<adapter, invalidErr, sendErr, recalled, verdict, stray, linkUp>>
    BY LoopFacts DEF HandleReturns, adapterVars, errVars
  <1>2. starts' = starts /\ lost' = (call # "ok")
    BY <1>1 DEF History
  <1>3. up' = up
    BY <1>1, NothingAccepted
  <1>4. HandlePhase = "finishing" /\ HandlePhase' = "reporting" /\ Fault' = "none"
    BY <1>1 DEF HandlePhase, Fault
  <1>5. GivenUp' = IF call = "pending" THEN GivenUp \cup {DoneMsg(verdict)} ELSE GivenUp
    BY <1>1, <1>2 DEF GivenUp, ResultMsg
  <1>6. CASE call = "ok"
    BY <1>1, <1>2, <1>3, <1>4, <1>5, <1>6
    DEF Process!DoneSent, Process!ReturnFromHandle, Process!LeaveSend, Process!Sending, Process!Done,
        Process!Alive, Process!workerVars, Process!loopVars, OfJob, JobIf, DoneMsg
  <1>7. CASE call # "ok"
    BY <1>1, <1>2, <1>3, <1>4, <1>5, <1>7
    DEF Process!DoneFails, Process!ReturnFromHandle, Process!LeaveSend, Process!Sending, Process!Done,
        Process!Alive, Process!workerVars, Process!loopVars, OfJob, JobIf, DoneMsg
  <1> QED
    BY <1>6, <1>7

-----------------------------------------------------------------------------
(* sendStreamMsg.                                                          *)
LEMMA SendAcceptedIs ==
  ASSUME HInv, History, SendAccepted
  PROVE  Process!SendAccepted("job")
  <1>1. /\ call = "pending" /\ linkUp /\ call' = "ok" /\ loop \in {"flushing", "finishing"}
        /\ lost = FALSE /\ lost \in BOOLEAN
        /\ UNCHANGED <<adapter, loop, invalidErr, sendErr, recalled, cancelled, verdict, stray, strayDone, linkUp>>
    BY LoopFacts DEF SendAccepted, adapterVars, errVars
  <1>2. starts' = starts /\ lost' = lost
    BY <1>1 DEF History
  <1>3. HandlePhase' = HandlePhase /\ Fault' = Fault /\ GivenUp' = GivenUp
    BY <1>1, <1>2 DEF HandlePhase, Fault, GivenUp, ResultMsg
  <1>4. up' = Append(up, IF loop = "finishing" THEN DoneMsg(verdict) ELSE ResultMsg)
    <2>1. up' = up \o <<IF loop = "finishing" THEN DoneMsg(verdict) ELSE ResultMsg>>
      BY <1>1 DEF History, Accepted
    <2> QED
      BY <2>1, AppendIsConcat DEF HInv, LostInv
  <1>5. HandlePhase = "finishing" <=> loop = "finishing"
    BY <1>1 DEF HandlePhase
  <1> QED
    BY <1>1, <1>2, <1>3, <1>4, <1>5
    DEF Process!SendAccepted, Process!Sending, Process!Done, Process!Result, Process!Alive,
        Process!workerVars, Process!loopVars, Process!execVars, OfJob, JobIf, DoneMsg, ResultMsg, Said

LEMMA SendFailsIs ==
  ASSUME HInv, History, SendFails
  PROVE  Process!SendFails("job")
  <1>1. /\ call = "pending" /\ linkUp = FALSE /\ call' = "failed" /\ loop \in {"flushing", "finishing"}
        /\ lost = FALSE /\ lost \in BOOLEAN
        /\ UNCHANGED <<adapter, loop, invalidErr, sendErr, recalled, cancelled, verdict, stray, strayDone, linkUp>>
    BY LoopFacts DEF SendFails, adapterVars, errVars
  <1>2. starts' = starts /\ lost' = lost
    BY <1>1 DEF History
  <1>3. HandlePhase' = HandlePhase /\ Fault' = Fault /\ GivenUp' = GivenUp
    BY <1>1, <1>2 DEF HandlePhase, Fault, GivenUp, ResultMsg
  <1>4. up' = up
    BY <1>1, NothingAccepted
  <1> QED
    BY <1>1, <1>2, <1>3, <1>4
    DEF Process!SendFails, Process!Broken, Process!Alive, Process!workerVars, Process!loopVars,
        Process!execVars, OfJob, JobIf, Said

(* A send that was given up ends.                                          *)
LEMMA StrayBatchIs ==
  ASSUME HInv, History, StrayBatchEnds
  PROVE  \E m \in GivenUp : Process!StrayEnds(m)
  <1>1. /\ stray # <<>> /\ stray' = <<>> /\ linkUp \in BOOLEAN /\ lost \in BOOLEAN
        /\ UNCHANGED <<adapter, loop, invalidErr, sendErr, recalled, cancelled, verdict, strayDone, linkUp, call>>
    BY LoopFacts DEF StrayBatchEnds, adapterVars, errVars
  <1>2. starts' = starts
    BY <1>1 DEF History
  <1>3. lost' = lost
    BY <1>1, Zenon DEF History
  <1>4. HandlePhase' = HandlePhase /\ Fault' = Fault
    BY <1>1 DEF HandlePhase, Fault
  <1>5. ResultMsg \in GivenUp /\ GivenUp' = GivenUp \ {ResultMsg}
    <2>1. \A v : DoneMsg(v) # ResultMsg
      BY DEF DoneMsg, ResultMsg
    <2> QED
      BY <1>1, <1>2, <2>1 DEF GivenUp, ResultMsg
  <1>6. up' = IF linkUp THEN Append(up, ResultMsg) ELSE up
    <2>1. Accepted = IF linkUp THEN <<ResultMsg>> ELSE <<>>
      BY <1>1 DEF Accepted
    <2>2. up \in Seq(Process!ConnectorMsg)
      BY DEF HInv, LostInv
    <2> QED
      BY <2>1, <2>2, AppendIsConcat, ConcatEmptySeq DEF History
  <1>7. Process!StrayEnds(ResultMsg)
    BY <1>1, <1>2, <1>3, <1>4, <1>5, <1>6
    DEF Process!StrayEnds, Process!Broken, Process!Alive, Process!workerVars, Process!loopVars,
        Process!execVars, OfJob, JobIf, Said
  <1> QED
    BY <1>5, <1>7

LEMMA StrayDoneIs ==
  ASSUME HInv, History, StrayDoneEnds
  PROVE  \E m \in GivenUp : Process!StrayEnds(m)
  <1>1. /\ strayDone = {verdict} /\ strayDone' = {} /\ linkUp \in BOOLEAN /\ lost \in BOOLEAN
        /\ UNCHANGED <<adapter, loop, invalidErr, sendErr, recalled, cancelled, verdict, stray, linkUp, call>>
    BY LoopFacts DEF StrayDoneEnds, adapterVars, errVars, HInv, IInv, DoneInv
  <1>2. starts' = starts
    BY <1>1 DEF History
  <1>3. lost' = lost
    BY <1>1, Zenon DEF History
  <1>4. HandlePhase' = HandlePhase /\ Fault' = Fault
    BY <1>1 DEF HandlePhase, Fault
  <1>5. DoneMsg(verdict) \in GivenUp /\ GivenUp' = GivenUp \ {DoneMsg(verdict)}
    <2>1. \A v : DoneMsg(v) # ResultMsg
      BY DEF DoneMsg, ResultMsg
    <2> QED
      BY <1>1, <1>2, <2>1 DEF GivenUp, ResultMsg
  <1>6. up' = IF linkUp THEN Append(up, DoneMsg(verdict)) ELSE up
    <2>1. Accepted = IF linkUp THEN <<DoneMsg(verdict)>> ELSE <<>>
      BY <1>1 DEF Accepted
    <2>2. up \in Seq(Process!ConnectorMsg)
      BY DEF HInv, LostInv
    <2> QED
      BY <2>1, <2>2, AppendIsConcat, ConcatEmptySeq DEF History
  <1>7. Process!StrayEnds(DoneMsg(verdict))
    BY <1>1, <1>2, <1>3, <1>4, <1>5, <1>6
    DEF Process!StrayEnds, Process!Broken, Process!Alive, Process!workerVars, Process!loopVars,
        Process!execVars, OfJob, JobIf, Said
  <1> QED
    BY <1>5, <1>7
-----------------------------------------------------------------------------
(* The world around the loop.                                              *)
LEMMA CancelIs ==
  ASSUME HInv, History, Cancel
  PROVE  Process!TakeCancel
  <1>1. /\ loop # "ended" /\ cancelled = FALSE /\ cancelled' = TRUE /\ recalled' = TRUE
        /\ lost \in BOOLEAN
        /\ UNCHANGED <<adapter, loop, invalidErr, sendErr, verdict, stray, strayDone, linkUp, call>>
    BY LoopFacts DEF Cancel, adapterVars, sendVars
  <1>2. ~recalled
    BY <1>1, Zenon DEF HInv, LostInv, Cancel
  <1>3. starts' = starts
    BY <1>1 DEF History
  <1>4. lost' = lost
    BY <1>1, Zenon DEF History
  <1>5. up' = up
    BY <1>1, NothingAccepted
  <1>6. HandlePhase' = HandlePhase /\ Fault' = Fault /\ GivenUp' = GivenUp
    BY <1>1, <1>3 DEF HandlePhase, Fault, GivenUp, ResultMsg
  <1> DEFINE recall == [kind |-> "cancel", id |-> "job"]
             waiting == IF recalled THEN <<>> ELSE <<recall>>
  <1>7. waiting # <<>> /\ Head(waiting) = recall /\ waiting' = Tail(waiting)
    <2>1. waiting = <<recall>> /\ waiting' = <<>>
      BY <1>1, <1>2
    <2> QED
      BY <2>1
  <1>8. JobIf(cancelled)' = JobIf(cancelled) \cup ({recall.id} \cap JobIf(loop # "ended"))
    BY <1>1 DEF JobIf
  <1>9. UNCHANGED <<linkUp, call, starts, up, adapter, loop, verdict, lost, HandlePhase, Fault, GivenUp>>
    BY <1>1, <1>3, <1>4, <1>5, <1>6
  <1> QED
    BY <1>7, <1>8, <1>9
    DEF Process!TakeCancel, Process!workerVars, Process!sendVars, OfJob, JobIf, Said, waiting

LEMMA LinkClosesIs ==
  ASSUME HInv, History, LinkCloses
  PROVE  Process!LinkCloses
  <1>1. /\ linkUp = TRUE /\ linkUp' = FALSE /\ lost \in BOOLEAN
        /\ UNCHANGED <<adapter, loop, invalidErr, sendErr, recalled, cancelled, verdict, stray, strayDone, call>>
    BY LoopFacts DEF LinkCloses, adapterVars, errVars
  <1>2. starts' = starts
    BY <1>1 DEF History
  <1>3. lost' = lost
    BY <1>1, Zenon DEF History
  <1>4. up' = up
    BY <1>1, NothingAccepted
  <1>5. HandlePhase' = HandlePhase /\ Fault' = Fault /\ GivenUp' = GivenUp
    BY <1>1, <1>2 DEF HandlePhase, Fault, GivenUp, ResultMsg
  <1> QED
    BY <1>1, <1>2, <1>3, <1>4, <1>5
    DEF Process!LinkCloses, Process!Serving, Process!loopVars, Process!execVars, Process!sendVars,
        OfJob, JobIf, Said

LEMMA AdapterReturnsIs ==
  ASSUME HInv, History, AdapterReturns
  PROVE  Process!AdapterReturns("job")
  <1>1. /\ adapter = "running" /\ adapter' \in {"nil", "err"} /\ lost \in BOOLEAN
        /\ UNCHANGED <<loop, invalidErr, sendErr, recalled, cancelled, verdict, stray, strayDone, linkUp, call>>
    BY LoopFacts DEF AdapterReturns, sendVars, errVars
  <1>2. starts' = starts
    BY <1>1 DEF History
  <1>3. lost' = lost
    BY <1>1, Zenon DEF History
  <1>4. up' = up
    BY <1>1, NothingAccepted
  <1>5. HandlePhase' = HandlePhase /\ Fault' = Fault /\ GivenUp' = GivenUp
    BY <1>1, <1>2 DEF HandlePhase, Fault, GivenUp, ResultMsg
  <1>6. (IF lost THEN "unsent" ELSE Said(verdict)) = "none" <=> verdict = "none"
    BY LoopFacts DEF Said
  <1> QED
    BY <1>1, <1>2, <1>3, <1>4, <1>5, <1>6
    DEF Process!AdapterReturns, Process!Alive, Process!workerVars, Process!loopVars, Process!execVars,
        Process!sendVars, OfJob, JobIf, Said
-----------------------------------------------------------------------------
(* The invariant of the history.                                           *)
LEMMA StartsStep == HInv /\ [Next]_vars /\ History /\ TypeOK' => StartsInv'
  <1> SUFFICES ASSUME HInv, [Next]_vars, History, TypeOK' PROVE StartsInv'
    OBVIOUS
  <1>1. /\ starts \in Nat /\ seen \in Nat /\ batch \in Seq(Finding) /\ held \in Seq(Finding)
        /\ Len(batch) \in Nat /\ Len(held) \in Nat
        /\ loop = "select" => starts + Len(batch) <= seen /\ call = "idle" /\ Len(held) = 0
        /\ loop = "flushing" => starts + Len(held) + Len(batch) <= seen + 1 /\ Len(batch) # 0
        /\ loop = "flushing" => Len(held) = IF after = "append" THEN 1 ELSE 0
        /\ loop \notin {"select", "flushing"} => starts <= seen
        /\ loop \in {"select", "flushing", "awaiting", "finishing", "ended"}
    BY LenProperties, EmptySeq, LoopFacts DEF HInv, StartsInv, IInv, TypeOK, FlushInv, WireInv
  <1>2. CASE UNCHANGED <<loop, batch, held, seen>> /\ (call' = call \/ call = "pending")
    <2>1. starts' = starts
      BY <1>2 DEF History
    <2> QED
      BY <1>1, <1>2, <2>1 DEF StartsInv
  (* A flush begins, of what is pending or of what is put in the batch.    *)
  <1>3. ASSUME loop = "select", loop' = "flushing", call' = "pending",
               \/ seen' = seen + 1 /\ Len(held') + Len(batch') = Len(batch) + 1
               \/ seen' = seen /\ Len(held') + Len(batch') = Len(batch)
        PROVE  StartsInv'
    <2>1. starts' = starts + 1
      BY <1>1, <1>3 DEF History
    <2>2. Len(held') \in Nat /\ Len(batch') \in Nat
      BY LenProperties DEF TypeOK
    <2> QED
      BY <1>1, <1>3, <2>1, <2>2 DEF StartsInv
  <1>4. CASE ReceiveValid
    <2>1. loop = "select" /\ seen' = seen + 1 /\ Head(out) \in Finding
      BY <1>4, Received DEF ReceiveValid, HInv, IInv
    <2>2. CASE WouldOverflow(Head(out))
      <3>1. held' = <<Head(out)>> /\ batch' = batch /\ loop' = "flushing" /\ call' = "pending"
        BY <1>4, <2>2 DEF ReceiveValid, StartFlush
      <3>2. Len(held') = 1
        BY <3>1
      <3> QED
        BY <1>1, <1>3, <2>1, <3>1, <3>2
    <2>3. CASE ~WouldOverflow(Head(out))
      <3>1. /\ batch' = Append(batch, Head(out)) /\ held' = held
            /\ \/ loop' = "flushing" /\ call' = "pending"
               \/ loop' = "select" /\ call' = "idle"
        BY <1>4, <2>3 DEF ReceiveValid, PutInBatch, StartFlush
      <3>2. Len(batch') = Len(batch) + 1
        BY <1>1, <2>1, <3>1, AppendProperties
      <3>3. CASE loop' = "flushing" /\ call' = "pending"
        BY <1>1, <1>3, <2>1, <3>1, <3>2, <3>3
      <3>4. CASE loop' = "select" /\ call' = "idle"
        <4>1. starts' = starts
          BY <3>4 DEF History
        <4> QED
          BY <1>1, <2>1, <3>2, <3>4, <4>1 DEF StartsInv
      <3> QED
        BY <3>1, <3>3, <3>4
    <2> QED
      BY <2>2, <2>3
  <1>5. CASE ReceiveInvalid \/ OutClosed \/ TimerFires
    <2>1. /\ loop = "select" /\ UNCHANGED <<seen, held, batch>>
          /\ \/ loop' = "flushing" /\ call' = "pending"
             \/ loop' = "awaiting" /\ call' = call
      BY <1>5 DEF ReceiveInvalid, OutClosed, TimerFires, FinalFlush, StartFlush, LeaveLoop
    <2>2. CASE loop' = "flushing" /\ call' = "pending"
      BY <1>1, <1>3, <2>1, <2>2
    <2>3. CASE loop' = "awaiting" /\ call' = call
      <3>1. starts' = starts
        BY <2>3 DEF History
      <3> QED
        BY <1>1, <2>1, <2>3, <3>1 DEF StartsInv
    <2> QED
      BY <2>1, <2>2, <2>3
  <1>6. CASE FlushSent
    <2>1. /\ call' = "idle" /\ loop = "flushing" /\ seen' = seen
          /\ loop' = IF after \in {"append", "loop"} THEN "select" ELSE "awaiting"
          /\ after = "append" => Len(batch') = 1
      BY <1>6, FlushSentLeaves DEF FlushSent
    <2>2. starts' = starts
      BY <2>1 DEF History
    <2>3. after # "append" => batch' = <<>>
      BY <1>6 DEF FlushSent
    <2>4. after # "append" => Len(batch') = 0
      BY <2>3
    <2> QED
      BY <1>1, <2>1, <2>2, <2>4 DEF StartsInv
  <1>7. CASE FlushFails
    <2>1. loop = "flushing" /\ loop' = "awaiting" /\ seen' = seen /\ call' = "idle"
      BY <1>7 DEF FlushFails
    <2>2. starts' = starts
      BY <2>1 DEF History
    <2> QED
      BY <1>1, <2>1, <2>2 DEF StartsInv
  <1>8. CASE AwaitAdapter \/ HandleReturns
    <2>1. /\ loop \in {"awaiting", "finishing"} /\ loop' \in {"finishing", "ended"} /\ seen' = seen
      BY <1>8 DEF AwaitAdapter, HandleReturns, batchVars
    <2>2. starts' = starts
      BY <2>1 DEF History
    <2> QED
      BY <1>1, <2>1, <2>2 DEF StartsInv
  <1> QED
    BY <1>2, <1>4, <1>5, <1>6, <1>7, <1>8
    DEF Next, Loop, Send, Terminated, vars, batchVars, sendVars, AdapterEmits, AdapterReturns, Cancel,
        LinkCloses, SendAccepted, SendFails, StrayBatchEnds, StrayDoneEnds

LEMMA RoomStep == HInv /\ [Next]_vars => RoomInv'
  <1> SUFFICES ASSUME HInv, [Next]_vars PROVE RoomInv'
    OBVIOUS
  <1>1. RoomInv
    BY DEF HInv
  <1>2. CASE ReceiveValid
    <2>1. CASE WouldOverflow(Head(out))
      <3>1. batch # <<>> /\ Len(batch) < MaxFindings /\ batch \in Seq(Finding)
        BY <1>2, <2>1 DEF ReceiveValid, WouldOverflow, HInv, IInv, TypeOK, BatchIsBounded, BatchWithinLimits
      <3>2. Len(batch) \in Nat \ {0} /\ MaxFindings \in Nat
        BY <3>1, EmptySeq, LenProperties, StreamAssumption
      <3> QED
        BY <3>1, <3>2 DEF RoomInv
    <2>2. CASE ~WouldOverflow(Head(out))
      BY <1>2, <2>2 DEF RoomInv, ReceiveValid, PutInBatch, StartFlush
    <2> QED
      BY <2>1, <2>2
  <1>3. CASE ReceiveInvalid \/ OutClosed \/ TimerFires
    BY <1>3 DEF RoomInv, ReceiveInvalid, OutClosed, TimerFires, FinalFlush, StartFlush, LeaveLoop
  <1>4. CASE FlushSent
    BY <1>4, FlushSentLeaves DEF RoomInv
  <1>5. CASE FlushFails \/ AwaitAdapter \/ HandleReturns
    BY <1>5 DEF RoomInv, FlushFails, AwaitAdapter, HandleReturns
  <1>6. CASE UNCHANGED <<loop, after>>
    BY <1>1, <1>6 DEF RoomInv
  <1> QED
    BY <1>2, <1>3, <1>4, <1>5, <1>6
    DEF Next, Loop, Send, Terminated, vars, AdapterEmits, AdapterReturns, Cancel,
        LinkCloses, SendAccepted, SendFails, StrayBatchEnds, StrayDoneEnds

LEMMA LostStep == HInv /\ [Next]_vars /\ History => LostInv'
  <1> SUFFICES ASSUME HInv, [Next]_vars, History PROVE LostInv'
    OBVIOUS
  <1>1. recalled' => cancelled'
    <2>1. recalled => cancelled
      BY DEF HInv, LostInv
    <2>2. (recalled' = recalled /\ (cancelled => cancelled')) \/ cancelled'
      BY DEF Next, Loop, Send, Terminated, vars, errVars, AdapterEmits, AdapterReturns, Cancel,
             LinkCloses, SendAccepted, SendFails, StrayBatchEnds, StrayDoneEnds, ReceiveValid,
             ReceiveInvalid, OutClosed, TimerFires, FlushSent, FlushFails, AwaitAdapter, HandleReturns
    <2> QED
      BY <2>1, <2>2
  <1>2. loop' # "ended" => loop # "ended"
    BY DEF Next, Loop, Send, Terminated, vars, AdapterEmits, AdapterReturns, Cancel,
           LinkCloses, SendAccepted, SendFails, StrayBatchEnds, StrayDoneEnds, ReceiveValid,
           ReceiveInvalid, OutClosed, TimerFires, FlushSent, FlushFails, AwaitAdapter, HandleReturns
  <1>3. lost' \in BOOLEAN /\ (loop' # "ended" => ~lost')
    <2>1. lost' = (lost \/ (loop = "finishing" /\ loop' = "ended" /\ call # "ok"))
      BY DEF History
    <2>2. loop # "ended" => ~lost
      BY DEF HInv, LostInv
    <2>3. lost' \in BOOLEAN
      BY <2>1, Zenon
    <2> QED
      BY <1>2, <2>1, <2>2, <2>3, Zenon
  <1>4. Accepted \in Seq(Process!ConnectorMsg)
    <2>1. ResultMsg \in Process!ConnectorMsg
      BY DEF HInv, StartsInv, ResultMsg, Process!ConnectorMsg
    <2>2. ASSUME verdict # "none" PROVE DoneMsg(verdict) \in Process!ConnectorMsg
      <3>1. Said(verdict) \in Process!Verdicts
        BY <2>2 DEF Said, Process!Verdicts
      <3> QED
        BY <3>1 DEF DoneMsg, Process!ConnectorMsg
    <2>3. loop = "finishing" \/ strayDone # {} => verdict # "none"
      BY LoopFacts DEF HInv, IInv, DoneInv
    <2> QED
      BY <2>1, <2>2, <2>3 DEF Accepted
  <1>5. up' \in Seq(Process!ConnectorMsg)
    BY <1>4, ConcatProperties DEF HInv, LostInv, History
  <1> QED
    BY <1>1, <1>3, <1>5 DEF LostInv
-----------------------------------------------------------------------------
(* Every step is one of Runtime's, or one that Runtime does not see.       *)
LEMMA HandleStepIs ==
  HInv /\ [HandleNext]_handleVars => [HandleStep \/ SendStep \/ Outside]_(Process!vars)
  <1> SUFFICES ASSUME HInv, [HandleNext]_handleVars
               PROVE  HandleStep \/ SendStep \/ Outside \/ UNCHANGED Process!vars
    OBVIOUS
  <1>1. CASE UNCHANGED handleVars
    <2>1. UNCHANGED <<adapter, loop, invalidErr, sendErr, recalled, cancelled, verdict, stray, strayDone,
                      linkUp, call, starts, up, lost>>
      BY <1>1 DEF handleVars, history, vars, adapterVars, errVars, sendVars
    <2>2. UNCHANGED <<HandlePhase, Fault, GivenUp>>
      BY <2>1 DEF HandlePhase, Fault, GivenUp, ResultMsg
    <2> QED
      BY <2>1, <2>2
      DEF Process!vars, Process!workerVars, Process!loopVars, Process!execVars, Process!sendVars,
          OfJob, JobIf, Said
  <1>2. ASSUME Next, History PROVE HandleStep \/ SendStep \/ Outside \/ UNCHANGED Process!vars
    <2>1. ASSUME NEW f \in Finding, AdapterEmits(f) PROVE UNCHANGED Process!vars
      BY <1>2, <2>1, NotSeen DEF AdapterEmits, errVars, sendVars
    <2>2. CASE Terminated
      BY <1>2, <2>2, NotSeen DEF Terminated, vars, adapterVars, errVars, sendVars
    <2>3. CASE Loop
      BY <1>2, <2>3, ReceiveValidIs, ReceiveInvalidIs, OutClosedIs, TimerFiresIs, FlushSentIs,
         FlushFailsIs, AwaitAdapterIs, HandleReturnsIs DEF Loop, HandleStep
    <2>4. CASE Send
      BY <1>2, <2>4, SendAcceptedIs, SendFailsIs, StrayBatchIs, StrayDoneIs DEF Send, SendStep
    <2>5. CASE AdapterReturns \/ Cancel \/ LinkCloses
      BY <1>2, <2>5, AdapterReturnsIs, CancelIs, LinkClosesIs DEF Outside
    <2> QED
      BY <1>2, <2>1, <2>2, <2>3, <2>4, <2>5 DEF Next
  <1> QED
    BY <1>1, <1>2 DEF HandleNext

LEMMA HInvHolds == HandleSpec => []HInv
  <1>1. HInv /\ [HandleNext]_handleVars => [Next]_vars /\ (History \/ UNCHANGED handleVars)
    BY DEF HandleNext, handleVars
  <1>2. HandleInit => Init
    BY DEF HandleInit
  <1>3. HInv /\ IInv' /\ [HandleNext]_handleVars => HInv'
    <2> SUFFICES ASSUME HInv, IInv', [HandleNext]_handleVars PROVE HInv'
      OBVIOUS
    <2>1. EmitOnceInv' /\ RoomInv'
      BY <1>1, EmitOnceStep, RoomStep
    <2>2. CASE History
      BY <1>1, <2>1, <2>2, StartsStep, LostStep DEF HInv, IInv
    <2>3. CASE UNCHANGED handleVars
      BY <2>1, <2>3 DEF handleVars, history, vars, batchVars, errVars, HInv, StartsInv, LostInv
    <2> QED
      BY <1>1, <2>2, <2>3
  <1>4. [HandleNext]_handleVars => [Next]_vars
    BY DEF HandleNext, handleVars
  <1> QED
    BY InitHInv, <1>2, <1>3, <1>4, IInvHolds, PTL DEF HandleSpec, Spec

(* The loop is a handleExecute as Run knows it: it takes no step but those *)
(* of module Runtime, so its messages and its Done are what that module    *)
(* makes of them (runtime.go:329-544).                                     *)
THEOREM HandleIsAnExecution == HandleSpec => HandlesTheExecution
  <1>1. HandleInit => HandlePhase = "streaming"
    BY DEF HandleInit, Init, HandlePhase
  <1> QED
    BY <1>1, HInvHolds, HandleStepIs, PTL DEF HandleSpec, HandlesTheExecution
=============================================================================
