----------------------------- MODULE MCRuntime -----------------------------
(* Small instances of Runtime for TLC.                                     *)
EXTENDS Runtime

CONSTANTS e1, e2

OneResultEach == [e \in Execs |-> 1]
(* e1 streams one Result, e2 finds nothing, and either may come first: a   *)
(* run with liveness properties can afford no more.                        *)
OneResultInAll == [e \in Execs |-> IF e = e1 THEN 1 ELSE 0]
=============================================================================
