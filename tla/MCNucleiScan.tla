---------------------------- MODULE MCNucleiScan ----------------------------
(* Two jobs for TLC that share a template, and one without custom ones.    *)
EXTENDS NucleiScan, TLC

CONSTANTS j1, j2, j3, k1, k2, p1

MCJobs == {j1, j2, j3}
MCProfile ==
    (j1 :> [custom |-> <<k1, p1>>, ids |-> FALSE, select |-> TRUE])
      @@ (j2 :> [custom |-> <<k2, k1>>, ids |-> TRUE, select |-> FALSE])
      @@ (j3 :> [custom |-> <<>>, ids |-> FALSE, select |-> TRUE])
=============================================================================
