--------------------------- MODULE MCWorkflowRuns ---------------------------
(* Instances of WorkflowRuns for TLC. *)
EXTENDS WorkflowRuns, TLC

CONSTANTS r1, r2

MCOneRun == {r1}
MCTwoRuns == {r1, r2}
MCSymmetry == Permutations(MCTwoRuns)

\* A delegated step, a local one, and a delegated one.
MCMixedSteps == {1, 3}
MCBothSteps == {1, 2}
=============================================================================
