--------------------------- MODULE MCAcunetixScan ---------------------------
(* Three interchangeable jobs for TLC.                                     *)
EXTENDS AcunetixScan, TLC

Symmetry == Permutations(Jobs)
=============================================================================
