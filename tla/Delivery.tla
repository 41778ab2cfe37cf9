------------------------------ MODULE Delivery ------------------------------
(***************************************************************************)
(* What an execution promises the Worker about the findings of its adapter *)
(* (README.md, "No silent drops"): the findings on the stream are at any   *)
(* time the first ones the adapter emitted, in its order and none twice,   *)
(* and a Done without error says that they are all of them.  With an error *)
(* Done admits that findings may be missing, and some may still follow.    *)
(***************************************************************************)
EXTENDS Naturals, Sequences

CONSTANTS Finding, Errors

VARIABLES
    emitted,   \* what the adapter has sent on out
    wire,      \* the findings the stream has accepted
    done       \* what the Done on the stream says, "none" before it

vars == <<emitted, wire, done>>

Init == emitted = <<>> /\ wire = <<>> /\ done = "none"

Emit == /\ done # "ok"
        /\ \E f \in Finding : emitted' = Append(emitted, f)
        /\ UNCHANGED <<wire, done>>

Deliver == /\ done # "ok"
           /\ \E k \in (Len(wire) + 1)..Len(emitted) : wire' = SubSeq(emitted, 1, k)
           /\ UNCHANGED <<emitted, done>>

Finish == /\ done = "none"
          /\ \/ done' = "ok" /\ wire = emitted
             \/ done' \in Errors
          /\ UNCHANGED <<emitted, wire>>

Next == Emit \/ Deliver \/ Finish

Spec == Init /\ [][Next]_vars
=============================================================================
