--------------------------- MODULE MCResultStream ---------------------------
(* A small instance of HandleExecute: two small findings, one that fills   *)
(* the byte limit alone and one that Validate rejects.                     *)
EXTENDS HandleExecute

CONSTANTS small1, small2, large, bad

SizeOf == [f \in Finding |-> IF f = large THEN 3 ELSE 1]
=============================================================================
