-------------------------- MODULE MCGooglePalManager --------------------------
(* Instance of GooglePalManager for TLC: r1 and r2 carry the same transaction *)
(* id where both are made, r3 has one of its own.                             *)
EXTENDS GooglePalManager

CONSTANTS r1, r2, r3, t1, t2

SharedAndSole == [r \in Requests |-> IF r = r3 THEN t2 ELSE t1]
=============================================================================
