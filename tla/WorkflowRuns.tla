---------------------------- MODULE WorkflowRuns ----------------------------
(***************************************************************************)
(* WorkflowsService.run and the polling of delegated DAX runs              *)
(* (apps/api/src/modules/workflows/workflows.service.ts): every request    *)
(* runs the steps of a workflow one after the other, inline, writing a     *)
(* workflow-run row, one row per step and the counters of the workflow     *)
(* row that all its runs share.                                            *)
(*                                                                         *)
(* An action is one awaited call (a row written, a request to DAX) with    *)
(* the code that follows it up to the next await; pc[r] names the call     *)
(* that run r makes next. Between two of its actions anything else may     *)
(* happen: other runs, the DAX engine, a crash of the API. Texts, logs and *)
(* durations are left out.                                                 *)
(***************************************************************************)
EXTENDS Naturals, FiniteSets

CONSTANTS
  Runs,           \* the requests to run the workflow
  Steps,          \* how many steps the workflow has
  DaxSteps,       \* the steps of type dax_run
  WithInput,      \* the dax_run steps that have an input
  MaxDbFailures,  \* bound: failed database calls
  MaxCrashes      \* bound: crashes of the API process

ASSUME StepsAssumption ==
  /\ Steps \in Nat
  /\ DaxSteps \subseteq 1..Steps
  /\ WithInput \subseteq DaxSteps

ASSUME RunsAssumption == IsFiniteSet(Runs)

ASSUME FailuresAssumption == MaxDbFailures \in Nat /\ MaxCrashes \in Nat

VARIABLES
  pc,           \* the call each run makes next
  current,      \* the step it is at
  seen,         \* the status its last poll returned (snapshot, lastStatus)
  expired,      \* daxPollTimeoutMs has passed for the current step
  row,          \* workflowRun.status
  stepRow,      \* workflowStepRun.status
  recorded,     \* the steps whose row holds the id of their DAX run
  linked,       \* the steps whose DAX run is in workflowRun.metadata.daxRuns
  dax,          \* the status of the DAX run of each step, at the engine
  totalRuns, successfulRuns, failedRuns,  \* the workflow row's counters
  dbFailures, crashes

local == <<pc, current, seen, expired>>
rows == <<row, stepRow, recorded, linked>>
counters == <<totalRuns, successfulRuns, failedRuns>>
failures == <<dbFailures, crashes>>
vars == <<local, rows, dax, counters, failures>>

-----------------------------------------------------------------------------
(* Types *)

\* In the try block of run, in its catch block, and neither.
InTry == {"createStep", "finishLocal", "createDax", "recordStep", "recordRun",
          "poll", "mirrorStep", "mirrorRun", "summary", "closeStep",
          "complete", "countSuccess"}
InCatch == {"failRun", "countFailure"}
Over == {"returned", "threw", "crashed"}

\* "created" and "queued" are reported as a run in progress: here "running".
Ended == {"completed", "failed"}
DaxStatus == {"none", "running", "waiting_approval", "cancelled"} \cup Ended
RowStatus == {"none", "running", "waiting_approval"} \cup Ended

TypeOK ==
  /\ pc \in [Runs -> InTry \cup InCatch \cup Over \cup {"idle"}]
  /\ current \in [Runs -> 0..Steps + 1]
  /\ seen \in [Runs -> DaxStatus]
  /\ expired \in [Runs -> BOOLEAN]
  /\ row \in [Runs -> RowStatus]
  /\ stepRow \in [Runs -> [1..Steps -> RowStatus]]
  /\ recorded \in [Runs -> SUBSET DaxSteps]
  /\ linked \in [Runs -> SUBSET DaxSteps]
  /\ dax \in [Runs -> [1..Steps -> DaxStatus]]
  /\ totalRuns \in Nat /\ successfulRuns \in Nat /\ failedRuns \in Nat
  /\ dbFailures \in 0..MaxDbFailures /\ crashes \in 0..MaxCrashes

Init ==
  /\ pc = [r \in Runs |-> "idle"]
  /\ current = [r \in Runs |-> 0]
  /\ seen = [r \in Runs |-> "none"]
  /\ expired = [r \in Runs |-> FALSE]
  /\ row = [r \in Runs |-> "none"]
  /\ stepRow = [r \in Runs |-> [i \in 1..Steps |-> "none"]]
  /\ recorded = [r \in Runs |-> {}]
  /\ linked = [r \in Runs |-> {}]
  /\ dax = [r \in Runs |-> [i \in 1..Steps |-> "none"]]
  /\ totalRuns = 0 /\ successfulRuns = 0 /\ failedRuns = 0
  /\ dbFailures = 0 /\ crashes = 0

-----------------------------------------------------------------------------
(* The loop over the steps *)

Goto(r, call) == pc' = [pc EXCEPT ![r] = call]

\* The top of the loop: the next step, or the end of the run.
NextStep(r) ==
  /\ current' = [current EXCEPT ![r] = @ + 1]
  /\ Goto(r, IF current[r] + 1 > Steps THEN "complete" ELSE "createStep")
  /\ seen' = [seen EXCEPT ![r] = "none"]
  /\ expired' = [expired EXCEPT ![r] = FALSE]

SetStep(r, status) ==
  stepRow' = [stepRow EXCEPT ![r][current[r]] = status]

Start(r) ==
  /\ pc[r] = "idle"
  /\ row' = [row EXCEPT ![r] = "running"]
  /\ NextStep(r)
  /\ UNCHANGED <<stepRow, recorded, linked, dax, counters, failures>>

\* A dax_run step without input throws, after its row was created.
CreateStep(r) ==
  /\ pc[r] = "createStep"
  /\ SetStep(r, "running")
  /\ Goto(r, IF current[r] \notin DaxSteps THEN "finishLocal"
             ELSE IF current[r] \in WithInput THEN "createDax" ELSE "failRun")
  /\ UNCHANGED <<current, seen, expired, row, recorded, linked, dax, counters,
                 failures>>

FinishLocal(r) ==
  /\ pc[r] = "finishLocal"
  /\ SetStep(r, "completed")
  /\ NextStep(r)
  /\ UNCHANGED <<row, recorded, linked, dax, counters, failures>>

-----------------------------------------------------------------------------
(* A delegated step: executeDaxRunStep and waitForDaxTerminal *)

\* Mutant: the id of the DAX run is not written to the step's row.
CreateDaxUnrecorded(r) ==
  /\ pc[r] = "createDax"
  /\ dax' = [dax EXCEPT ![r][current[r]] = "running"]
  /\ Goto(r, "recordRun")
  /\ UNCHANGED <<current, seen, expired, rows, counters, failures>>

\* The request to DAX succeeds; or it fails, or times out after DAX has
\* created the run all the same.
CreateDax(r) ==
  /\ pc[r] = "createDax"
  /\ \E created, answered \in BOOLEAN :
       /\ answered => created
       /\ dax' = IF created THEN [dax EXCEPT ![r][current[r]] = "running"] ELSE dax
       /\ Goto(r, IF answered THEN "recordStep" ELSE "failRun")
  /\ UNCHANGED <<current, seen, expired, rows, counters, failures>>

RecordStep(r) ==
  /\ pc[r] = "recordStep"
  /\ recorded' = [recorded EXCEPT ![r] = @ \cup {current[r]}]
  /\ Goto(r, "recordRun")
  /\ UNCHANGED <<current, seen, expired, row, stepRow, linked, dax, counters,
                 failures>>

\* The metadata is replaced: only the current step's DAX run is in it.
RecordRun(r) ==
  /\ pc[r] = "recordRun"
  /\ linked' = [linked EXCEPT ![r] = {current[r]}]
  /\ Goto(r, "poll")
  /\ UNCHANGED <<current, seen, expired, row, stepRow, recorded, dax, counters,
                 failures>>

Deadline(r) ==
  /\ pc[r] \in {"poll", "mirrorStep", "mirrorRun", "summary", "closeStep"}
  /\ ~expired[r]
  /\ expired' = [expired EXCEPT ![r] = TRUE]
  /\ UNCHANGED <<pc, current, seen, rows, dax, counters, failures>>

\* getRun at the top of the polling loop. Only completed and failed end it.
Poll(r) ==
  /\ pc[r] = "poll"
  /\ ~expired[r] \/ seen[r] = "none"
  /\ LET status == dax[r][current[r]]
     IN /\ status # seen[r]
        /\ seen' = [seen EXCEPT ![r] = status]
        /\ Goto(r, "mirrorStep")
  /\ UNCHANGED <<current, expired, rows, dax, counters, failures>>

\* getRun or getSummary fails, also by DAX_REQUEST_TIMEOUT_MS.
DaxUnreachable(r) ==
  /\ pc[r] \in {"poll", "summary"}
  /\ Goto(r, "failRun")
  /\ UNCHANGED <<current, seen, expired, rows, dax, counters, failures>>

\* Mutant: the loop has no deadline.
PollForever(r) == FALSE /\ r \in Runs /\ UNCHANGED vars

PollTimeout(r) ==
  /\ pc[r] = "poll"
  /\ expired[r] /\ seen[r] # "none"
  /\ Goto(r, "failRun")
  /\ UNCHANGED <<current, seen, expired, rows, dax, counters, failures>>

Mirrored(status) ==
  IF status \in Ended \cup {"waiting_approval"} THEN status ELSE "running"

MirrorStep(r) ==
  /\ pc[r] = "mirrorStep"
  /\ SetStep(r, Mirrored(seen[r]))
  /\ Goto(r, "mirrorRun")
  /\ UNCHANGED <<current, seen, expired, row, recorded, linked, dax, counters,
                 failures>>

\* Mutant: the run's row is only ever moved to waiting_approval.
MirrorRunOneWay(r) ==
  /\ pc[r] = "mirrorRun"
  /\ row' = [row EXCEPT ![r] = IF seen[r] = "waiting_approval" THEN seen[r] ELSE @]
  /\ Goto(r, IF seen[r] \in Ended THEN "summary" ELSE "poll")
  /\ UNCHANGED <<current, seen, expired, stepRow, recorded, linked, dax, counters,
                 failures>>

\* Mutant: the row of the run is given the status of the DAX run as it is.
MirrorRunAsIs(r) ==
  /\ pc[r] = "mirrorRun"
  /\ row' = [row EXCEPT ![r] = Mirrored(seen[r])]
  /\ Goto(r, IF seen[r] \in Ended THEN "summary" ELSE "poll")
  /\ UNCHANGED <<current, seen, expired, stepRow, recorded, linked, dax, counters,
                 failures>>

MirrorRun(r) ==
  /\ pc[r] = "mirrorRun"
  /\ row' = [row EXCEPT ![r] = IF seen[r] = "waiting_approval" THEN seen[r]
                               ELSE "running"]
  /\ Goto(r, IF seen[r] \in Ended THEN "summary" ELSE "poll")
  /\ UNCHANGED <<current, seen, expired, stepRow, recorded, linked, dax, counters,
                 failures>>

Summary(r) ==
  /\ pc[r] = "summary"
  /\ Goto(r, "closeStep")
  /\ UNCHANGED <<current, seen, expired, rows, dax, counters, failures>>

\* Mutant: the result of the DAX run is not looked at.
CloseStepAnyResult(r) ==
  /\ pc[r] = "closeStep"
  /\ SetStep(r, seen[r])
  /\ NextStep(r)
  /\ UNCHANGED <<row, recorded, linked, dax, counters, failures>>

\* The loop goes on after a completed DAX run; a failed one throws.
CloseStep(r) ==
  /\ pc[r] = "closeStep"
  /\ SetStep(r, seen[r])
  /\ \/ seen[r] = "completed" /\ NextStep(r)
     \/ seen[r] = "failed" /\ Goto(r, "failRun") /\ UNCHANGED <<current, seen, expired>>
  /\ UNCHANGED <<row, recorded, linked, dax, counters, failures>>

-----------------------------------------------------------------------------
(* The end of a run *)

\* Mutant: the metadata that RecordRun wrote is kept.
CompleteKeepsMetadata(r) ==
  /\ pc[r] = "complete"
  /\ row' = [row EXCEPT ![r] = "completed"]
  /\ Goto(r, "countSuccess")
  /\ UNCHANGED <<current, seen, expired, stepRow, recorded, linked, dax, counters,
                 failures>>

Complete(r) ==
  /\ pc[r] = "complete"
  /\ row' = [row EXCEPT ![r] = "completed"]
  /\ linked' = [linked EXCEPT ![r] = DaxSteps]
  /\ Goto(r, "countSuccess")
  /\ UNCHANGED <<current, seen, expired, stepRow, recorded, dax, counters, failures>>

CountSuccess(r) ==
  /\ pc[r] = "countSuccess"
  /\ totalRuns' = totalRuns + 1
  /\ successfulRuns' = successfulRuns + 1
  /\ Goto(r, "returned")
  /\ UNCHANGED <<current, seen, expired, rows, dax, failedRuns, failures>>

\* Mutant: the catch block only counts.
FailRunUnwritten(r) ==
  /\ pc[r] = "failRun"
  /\ Goto(r, "countFailure")
  /\ UNCHANGED <<current, seen, expired, rows, dax, counters, failures>>

\* The catch block writes the run's row, not the row of the step that threw.
FailRun(r) ==
  /\ pc[r] = "failRun"
  /\ row' = [row EXCEPT ![r] = "failed"]
  /\ Goto(r, "countFailure")
  /\ UNCHANGED <<current, seen, expired, stepRow, recorded, linked, dax, counters,
                 failures>>

CountFailure(r) ==
  /\ pc[r] = "countFailure"
  /\ totalRuns' = totalRuns + 1
  /\ failedRuns' = failedRuns + 1
  /\ Goto(r, "threw")
  /\ UNCHANGED <<current, seen, expired, rows, dax, successfulRuns, failures>>

\* A database call fails: caught when in the try block, which fails the run
\* (also one whose row says completed); out of the catch block it goes to
\* the client.
DbFailure(r) ==
  /\ dbFailures < MaxDbFailures
  /\ dbFailures' = dbFailures + 1
  /\ \/ pc[r] \in InTry \ {"createDax", "poll", "summary"} /\ Goto(r, "failRun")
     \/ pc[r] \in InCatch /\ Goto(r, "threw")
  /\ UNCHANGED <<current, seen, expired, rows, dax, counters, crashes>>

\* The API dies: what its runs were doing is gone, the rows stay as they are,
\* and nothing takes them up again when it is back.
Crash ==
  /\ crashes < MaxCrashes
  /\ crashes' = crashes + 1
  /\ \E r \in Runs : pc[r] \in InTry \cup InCatch
  /\ pc' = [r \in Runs |-> IF pc[r] \in InTry \cup InCatch THEN "crashed" ELSE pc[r]]
  /\ UNCHANGED <<current, seen, expired, rows, dax, counters, dbFailures>>

-----------------------------------------------------------------------------
(* The DAX engine (external): it works on a run, waits for an approval of it *)
(* and ends it.                                                              *)
Engine(r, i) ==
  /\ dax[r][i] \in {"running", "waiting_approval"}
  /\ \E status \in DaxStatus \ {"none", dax[r][i]} :
       dax' = [dax EXCEPT ![r][i] = status]
  /\ UNCHANGED <<local, rows, counters, failures>>

-----------------------------------------------------------------------------
Delegate(r) ==
  \/ CreateDax(r) \/ RecordStep(r) \/ RecordRun(r)
  \/ Poll(r) \/ PollTimeout(r)
  \/ MirrorStep(r) \/ MirrorRun(r) \/ Summary(r) \/ CloseStep(r)

\* What the code of a run in progress does next.
Advance(r) ==
  \/ CreateStep(r) \/ FinishLocal(r) \/ Delegate(r)
  \/ Complete(r) \/ CountSuccess(r) \/ FailRun(r) \/ CountFailure(r)

Next ==
  \/ \E r \in Runs : Start(r) \/ Advance(r) \/ Deadline(r)
  \/ \E r \in Runs : DaxUnreachable(r) \/ DbFailure(r)
  \/ \E r \in Runs, i \in DaxSteps : Engine(r, i)
  \/ Crash

\* Every awaited call is answered (a request to DAX by its timeout at the
\* latest) and time passes. Nothing is assumed of the engine, nor that it fails.
Fairness == \A r \in Runs : WF_vars(Advance(r)) /\ WF_vars(Deadline(r))

Spec == Init /\ [][Next]_vars /\ Fairness

-----------------------------------------------------------------------------
(* Properties *)

Active(r) == pc[r] \in InTry \cup InCatch

\* A step begins only when every step before it is completed, and a delegated
\* one only counts as completed when the engine says so.
StepsInOrder ==
  \A r \in Runs, i \in 1..Steps :
    /\ stepRow[r][i] # "none" => \A j \in 1..(i - 1) : stepRow[r][j] = "completed"
    /\ stepRow[r][i] = "completed" /\ i \in DaxSteps => dax[r][i] = "completed"

\* A run's row says completed only when all its steps are, and its metadata
\* then names the DAX run of every delegated step, with each of these recorded
\* on its own step row.
CompletedIsComplete ==
  \A r \in Runs : row[r] = "completed" =>
    /\ \A i \in 1..Steps : stepRow[r][i] = "completed"
    /\ recorded[r] = DaxSteps /\ linked[r] = DaxSteps

\* Concurrent runs of one workflow share its counters: each run is counted at
\* most once, on the side its row shows, and never by a run still going on.
CountersMatchRows ==
  /\ totalRuns = successfulRuns + failedRuns
  /\ successfulRuns = Cardinality({r \in Runs : pc[r] = "returned"})
  /\ failedRuns <= Cardinality({r \in Runs : pc[r] = "threw" /\ row[r] = "failed"})
  /\ \A r \in Runs : pc[r] = "returned" => row[r] = "completed"

\* Before DAX is asked again, both rows show what it answered last, and the
\* run the client is sent to is the one that is polled.
RowsShowLastPoll ==
  \A r \in Runs : pc[r] = "poll" =>
    /\ current[r] \in recorded[r] \cap linked[r]
    /\ seen[r] # "none" =>
         /\ stepRow[r][current[r]] = Mirrored(seen[r])
         /\ (row[r] = "waiting_approval") = (seen[r] = "waiting_approval")

\* No run's DAX work goes unrecorded behind a run that is still going on or
\* has succeeded: it does only when the answer to its creation, or the write
\* that records it, was lost.
NoSilentDelegation ==
  \A r \in Runs, i \in DaxSteps :
    dax[r][i] # "none" /\ i \notin recorded[r] =>
      \/ pc[r] = "recordStep" /\ current[r] = i
      \/ row[r] # "completed" /\ pc[r] \in InCatch \cup {"threw", "crashed"}

\* Every run that is started ends: it is answered, unless the API dies under it.
RunsSettle == \A r \in Runs : Active(r) ~> pc[r] \in Over

\* The workflow's rows behave as RunLifecycle promises. It needs a database
\* that does not fail: see DbFailure at countSuccess.
Finished(r) == Cardinality({i \in 1..Steps : stepRow[r][i] = "completed"})

Lifecycle == INSTANCE RunLifecycle
  WITH Parts <- Steps, status <- row, done <- [r \in Runs |-> Finished(r)]

RowLifecycle == Lifecycle!Spec
=============================================================================
