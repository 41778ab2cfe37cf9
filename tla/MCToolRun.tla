----------------------------- MODULE MCToolRun -----------------------------
(* Every adapter for TLC.                                                  *)
EXTENDS ToolRun

AllTools == DOMAIN Adapter
=============================================================================
