----------------------------- MODULE MCCommands -----------------------------
(* Commands on a small instance. *)
EXTENDS Commands
=============================================================================
