----------------------------- MODULE MCMcpJobs -----------------------------
(* Instances of McpJobs for TLC. *)
EXTENDS McpJobs

CONSTANTS a, b

MCJobs == {a, b}
=============================================================================
