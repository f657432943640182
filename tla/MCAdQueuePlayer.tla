---------------------------- MODULE MCAdQueuePlayer ----------------------------
(* The app's queue and symmetry for checking AdQueuePlayer with TLC. *)
EXTENDS AdQueuePlayer, TLC

CONSTANTS c1, c2

OneContent  == <<c1>>
TwoContents == <<c1, c2>>
AdSymmetry  == Permutations(Ads)
==============================================================================
