------------------------ MODULE MCMessageCommunicator ------------------------
(* Model values and mutants for checking MessageCommunicator with TLC. *)
EXTENDS MessageCommunicator
==============================================================================
