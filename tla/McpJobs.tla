------------------------------ MODULE McpJobs ------------------------------
(***************************************************************************)
(* Tool calls through the job queue: callAllowedToolSmart with preferAsync *)
(* (mcp.service.ts) enqueues a job and polls for its result; the worker    *)
(* (apps/worker/src/main.ts) runs the tool in a child process.             *)
(*                                                                         *)
(* The queue is BullMQ, which is external: a job that throws is tried      *)
(* again, after a back-off, until its attempts are used up; a job whose    *)
(* worker has died is found to be stalled and is run again, at most        *)
(* MaxStalls times; of the jobs that are completed, and of those that have *)
(* failed, the last ones are kept.                                         *)
(***************************************************************************)
EXTENDS Naturals, FiniteSets

CONSTANTS
  Jobs,          \* the calls that requests may make, each with its job
  Attempts,      \* MCP_WORKER_RETRIES, the attempts option (0 is as good as 1)
  Concurrency,   \* MCP_WORKER_CONCURRENCY
  Kept,          \* removeOnComplete
  KeptFailed,    \* removeOnFail
  MaxStalls,     \* maxStalledCount of BullMQ
  MaxCrashes     \* bound: how often the worker dies

ASSUME LimitsAssumption ==
  /\ Attempts \in Nat \ {0} /\ Concurrency \in Nat \ {0}
  /\ Kept \in Nat /\ KeptFailed \in Nat /\ MaxStalls \in Nat /\ MaxCrashes \in Nat

VARIABLES
  caller,    \* what the request of the call is doing
  seen,      \* whether the job that it has fetched carried its result
  job,       \* the state of the job, the last one when it was removed
  removed,   \* the jobs that are settled and no longer kept
  made,      \* attemptsMade
  stalls,    \* how often the job was found to be stalled
  work,      \* what the worker's process is doing for the job
  ran,       \* how often the tool of the job was run
  worker,    \* the worker's process
  crashes    \* how often it has died

api == <<caller, seen>>
queue == <<job, removed, made, stalls>>
vars == <<api, queue, work, ran, worker, crashes>>

Answered == {"result", "empty", "error", "lost", "timedOut", "forbidden"}
Settled == {"completed", "failed"}
Busy == {"child", "ran"}

TypeOK ==
  /\ caller \in [Jobs -> {"idle", "polling", "looking"} \cup Answered] /\ seen \in [Jobs -> BOOLEAN]
  /\ job \in [Jobs -> {"none", "waiting", "active", "delayed"} \cup Settled] /\ removed \subseteq Jobs
  /\ made \in [Jobs -> Nat] /\ stalls \in [Jobs -> Nat] /\ ran \in [Jobs -> Nat]
  /\ work \in [Jobs -> {"none", "hung"} \cup Busy]
  /\ worker \in {"up", "closing", "down"}
  /\ crashes \in 0..MaxCrashes

Init ==
  /\ caller = [j \in Jobs |-> "idle"] /\ seen = [j \in Jobs |-> FALSE]
  /\ removed = {} /\ job = [j \in Jobs |-> "none"]
  /\ made = [j \in Jobs |-> 0] /\ stalls = [j \in Jobs |-> 0] /\ ran = [j \in Jobs |-> 0]
  /\ work = [j \in Jobs |-> "none"]
  /\ worker = "up" /\ crashes = 0

-----------------------------------------------------------------------------
(* The API *)

Tell(j, answer) ==
  /\ caller' = [caller EXCEPT ![j] = answer] /\ seen' = [seen EXCEPT ![j] = FALSE]
  /\ UNCHANGED <<queue, work, ran, worker, crashes>>

\* callAllowedToolAsync, for a tool that is not allowlisted or without a queue ...
Refuse(j) == caller[j] = "idle" /\ Tell(j, "forbidden")

\* ... and for one that is.
Submit(j) ==
  /\ caller[j] = "idle"
  /\ caller' = [caller EXCEPT ![j] = "polling"]
  /\ job' = [job EXCEPT ![j] = "waiting"]
  /\ UNCHANGED <<seen, removed, made, stalls, work, ran, worker, crashes>>

\* One turn of the loop of waitForToolJobResult is a call of getToolJobStatus. It
\* fetches the job, with the result it has by now, if there still is such a job ...
GetJob(j) ==
  /\ caller[j] = "polling"
  /\ IF j \in removed THEN Tell(j, "lost")
     ELSE /\ caller' = [caller EXCEPT ![j] = "looking"]
          /\ seen' = [seen EXCEPT ![j] = job[j] = "completed"]
          /\ UNCHANGED <<queue, work, ran, worker, crashes>>

\* Mutant: every state but failed is taken for a result.
GetStateAny(j) ==
  /\ caller[j] = "looking"
  /\ Tell(j, IF job[j] = "failed" THEN "error" ELSE IF seen[j] THEN "result" ELSE "empty")

\* ... and asks for its state, which may be a later one: what it answers with is the
\* result of the job that was fetched. The state of a job that was removed is unknown.
GetState(j) ==
  /\ caller[j] = "looking"
  /\ \/ j \notin removed /\ job[j] = "completed" /\ Tell(j, IF seen[j] THEN "result" ELSE "empty")
     \/ j \notin removed /\ job[j] = "failed" /\ Tell(j, "error")
     \/ (j \in removed \/ job[j] \notin Settled) /\ Tell(j, "polling")

\* The time of the loop is over, whatever the job is doing: it is not cancelled.
GiveUp(j) == caller[j] = "polling" /\ Tell(j, "timedOut")

-----------------------------------------------------------------------------
(* The worker *)

Take(j) ==
  /\ worker = "up" /\ job[j] = "waiting" /\ work[j] = "none"
  /\ Cardinality({k \in Jobs : work[k] # "none"}) < Concurrency
  /\ job' = [job EXCEPT ![j] = "active"]
  /\ work' = [work EXCEPT ![j] = "child"]
  /\ UNCHANGED <<api, removed, made, stalls, ran, worker, crashes>>

\* The child runs the tool, and has not answered yet.
RunTool(j) ==
  /\ work[j] = "child"
  /\ ran' = [ran EXCEPT ![j] = @ + 1]
  /\ work' = [work EXCEPT ![j] = "ran"]
  /\ UNCHANGED <<api, queue, worker, crashes>>

\* A job is completed or has failed. Of the jobs of either kind that are kept, one has
\* to go when there are too many; which one depends on when they were settled.
Settle(j, state, limit) ==
  LET kept == {k \in Jobs \ removed : job[k] = state}
  IN /\ job' = [job EXCEPT ![j] = state]
     /\ \/ Cardinality(kept) < limit /\ UNCHANGED removed
        \/ Cardinality(kept) >= limit /\ \E old \in kept : removed' = removed \cup {old}
        \/ limit = 0 /\ removed' = removed \cup {j}

\* The answer is there.
Complete(j) ==
  /\ work[j] = "ran"
  /\ work' = [work EXCEPT ![j] = "none"]
  /\ Settle(j, "completed", Kept)
  /\ UNCHANGED <<api, made, stalls, ran, worker, crashes>>

\* A job that could not be finished is tried again, or has failed.
Again(j, may, state) ==
  \/ may /\ job' = [job EXCEPT ![j] = state] /\ UNCHANGED removed
  \/ ~may /\ Settle(j, "failed", KeptFailed)

\* Mutant: a job that has used up its attempts is tried once more.
FailLate(j) ==
  /\ work[j] \in Busy
  /\ work' = [work EXCEPT ![j] = "none"]
  /\ made' = [made EXCEPT ![j] = @ + 1]
  /\ Again(j, made[j] < Attempts, "delayed")
  /\ UNCHANGED <<api, stalls, ran, worker, crashes>>

\* runMcpToolCall rejects: an error, a time-out or a bad exit, before the tool
\* has run or after it.
Fail(j) ==
  /\ work[j] \in Busy
  /\ work' = [work EXCEPT ![j] = "none"]
  /\ made' = [made EXCEPT ![j] = @ + 1]
  /\ Again(j, made[j] + 1 < Attempts, "delayed")
  /\ UNCHANGED <<api, stalls, ran, worker, crashes>>

Backoff(j) ==
  /\ job[j] = "delayed"
  /\ job' = [job EXCEPT ![j] = "waiting"]
  /\ UNCHANGED <<api, removed, made, stalls, work, ran, worker, crashes>>

\* The child exits with code 0 and has not answered: close clears the timer and
\* settles nothing. The job stays active, and its place in the worker is taken.
Hang(j) ==
  /\ work[j] \in Busy
  /\ work' = [work EXCEPT ![j] = "hung"]
  /\ UNCHANGED <<api, queue, ran, worker, crashes>>

\* The worker dies, or is killed while it shuts down.
Crash ==
  /\ worker # "down" /\ crashes < MaxCrashes
  /\ worker' = "down" /\ crashes' = crashes + 1
  /\ work' = [j \in Jobs |-> "none"]
  /\ UNCHANGED <<api, queue, ran>>

\* SIGTERM: shutdown closes the workers, which take no more jobs ...
Shutdown ==
  /\ worker = "up" /\ worker' = "closing"
  /\ UNCHANGED <<api, queue, work, ran, crashes>>

\* ... and exits when none is being run any more.
ExitCleanly ==
  /\ worker = "closing" /\ \A j \in Jobs : work[j] = "none"
  /\ worker' = "down"
  /\ UNCHANGED <<api, queue, work, ran, crashes>>

Restart ==
  /\ worker = "down" /\ worker' = "up"
  /\ UNCHANGED <<api, queue, work, ran, crashes>>

\* Mutant: it looks for a state that no job is ever in.
StalledIgnored(j) == job[j] = "stalled" /\ UNCHANGED vars

\* A worker that is up finds a job that no process works on any more.
Stalled(j) ==
  /\ worker = "up" /\ job[j] = "active" /\ work[j] = "none"
  /\ stalls' = [stalls EXCEPT ![j] = @ + 1]
  /\ Again(j, stalls[j] < MaxStalls, "waiting")
  /\ UNCHANGED <<api, made, work, ran, worker, crashes>>

-----------------------------------------------------------------------------
Api(j) == Refuse(j) \/ Submit(j) \/ GetJob(j) \/ GetState(j) \/ GiveUp(j)
Process(j) == RunTool(j) \/ Complete(j) \/ Fail(j) \/ Hang(j)
Moves(j) == Take(j) \/ Backoff(j) \/ Stalled(j)

Next ==
  \/ \E j \in Jobs : Api(j) \/ Process(j) \/ Moves(j)
  \/ Crash \/ Shutdown \/ ExitCleanly \/ Restart

\* The timer of the child ends every run of it; the queue moves its jobs; the
\* worker exits when it can and is restarted whenever it is down, as often as that is.
Fairness ==
  /\ WF_vars(Restart) /\ WF_vars(ExitCleanly)
  /\ \A j \in Jobs : /\ WF_vars(Complete(j) \/ Fail(j) \/ Hang(j))
                     /\ WF_vars(Backoff(j)) /\ SF_vars(Stalled(j)) /\ SF_vars(Take(j))

Spec == Init /\ [][Next]_vars /\ Fairness

-----------------------------------------------------------------------------
(* Properties *)

\* However it fails, hangs, stalls or is cut off, a tool is run at most once for
\* every attempt it has, and once more for every stall that is allowed.
RunsBounded == \A j \in Jobs : ran[j] <= Attempts + MaxStalls

\* What a caller is told is so, however much happens between the two reads of a
\* status: a result, and a completion without its result, are those of a run of the
\* tool, an error is that of a job that will not be run again, and a job that is not
\* found was settled. After that the answer can only be late, never another one.
AnswersAreTrue ==
  /\ \A j \in removed : job[j] \in Settled
  /\ \A j \in Jobs :
       /\ caller[j] \in {"result", "empty"} => ran[j] > 0 /\ job[j] = "completed"
       /\ caller[j] = "error" => job[j] = "failed"
       /\ caller[j] = "lost" => j \in removed
       /\ caller[j] \in {"idle", "forbidden"} => ran[j] = 0 /\ job[j] = "none"

\* A job that was taken into the queue is settled, through failures, crashes
\* and restarts; unless a child that left unanswered holds a place in the
\* worker, for then its job and those that wait for the place never are.
JobsSettle ==
  \A j \in Jobs :
    job[j] = "waiting" ~>
      job[j] \in Settled \/ \E k \in Jobs : work[k] = "hung"
=============================================================================
