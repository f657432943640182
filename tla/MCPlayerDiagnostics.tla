------------------------- MODULE MCPlayerDiagnostics -------------------------
(* Symmetry for checking the safety of PlayerDiagnostics with TLC. *)
EXTENDS PlayerDiagnostics, TLC

ItemSymmetry == Permutations(WithUrl)
==============================================================================
