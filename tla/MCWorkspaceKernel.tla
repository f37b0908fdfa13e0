-------------------------- MODULE MCWorkspaceKernel --------------------------
(* Instances of WorkspaceKernel for TLC. *)
EXTENDS WorkspaceKernel, TLC

CONSTANTS o1, o2, nobody, norun, d1

MCOwners == {o1, o2}
MCDiffs == {d1}
MCTools == {"run_task"}
MCRunLimits == [max |-> 1, ttl |-> 1]
MCBundleLimits == [max |-> 1, ttl |-> 1]
MCSymmetry == Permutations(MCOwners)
=============================================================================
