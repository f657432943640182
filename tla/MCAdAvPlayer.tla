----------------------------- MODULE MCAdAvPlayer -----------------------------
(* Symmetry for checking AdAvPlayer with TLC. *)
EXTENDS AdAvPlayer, TLC

AdSymmetry == Permutations(Ads)
==============================================================================
