----------------------------- MODULE MCMcpCalls -----------------------------
(* McpCalls on four and on three calls that are interchangeable.           *)
EXTENDS McpCalls

CONSTANTS a, b, c, d

MCThree == {a, b, c}
MCTwo == {a, b}
MCFour == {a, b, c, d}
(* At most three of the four calls get as far as a child. *)
MCStarted == Cardinality({e \in Calls : proc[e] # NotSpawned}) <= 3
MCSymmetry == Permutations(MCFour)
=============================================================================
