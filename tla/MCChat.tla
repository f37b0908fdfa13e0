------------------------------- MODULE MCChat -------------------------------
(* Chat on a small instance: the conversations are interchangeable. *)
EXTENDS Chat, TLC
Symmetry == Permutations(Convs)
=============================================================================
