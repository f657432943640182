------------------------ MODULE MCManipulationServer ------------------------
(* Model values for checking ManipulationServer with TLC. *)
EXTENDS ManipulationServer
=============================================================================
