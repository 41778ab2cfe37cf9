---------------------------- MODULE MCNessusScan ----------------------------
(* Two jobs for TLC, of which the second names its folder.                 *)
EXTENDS NessusScan, TLC

CONSTANTS j1, j2

MCJobs == {j1, j2}
MCPlugins == (j1 :> 1..3) @@ (j2 :> {1})
MCOwnFolder == {j2}
=============================================================================
