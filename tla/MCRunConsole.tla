---------------------------- MODULE MCRunConsole ----------------------------
(* Instances of RunConsole for TLC. *)
EXTENDS RunConsole
=============================================================================
