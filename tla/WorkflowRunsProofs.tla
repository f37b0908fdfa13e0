------------------------- MODULE WorkflowRunsProofs -------------------------
(***************************************************************************)
(* The safety of WorkflowRuns, for every set of runs, every number and     *)
(* kind of steps and any number of failures and crashes.                   *)
(*                                                                         *)
(* None of the properties is inductive alone: what the rows say at the end *)
(* of a run depends on where its loop was at every await before. RunInv    *)
(* says, for one run and for every place pc its code can be at, what its   *)
(* rows and its DAX runs are there.                                        *)
(***************************************************************************)
EXTENDS WorkflowRuns, FiniteSetTheorems, TLAPS

\* In the loop over the steps, at a delegated step, polling, past the loop.
AtStep == InTry \ {"complete", "countSuccess"}
Delegated == AtStep \ {"createStep", "finishLocal"}
Polling == {"poll", "mirrorStep", "mirrorRun", "summary", "closeStep"}
PastLoop == {"complete", "countSuccess", "returned"}
Open == {"running", "waiting_approval"}

\* Where the loop is.
LoopInv(r) ==
  /\ pc[r] = "idle" => current[r] = 0
  /\ pc[r] # "idle" => current[r] >= 1
  /\ pc[r] \in AtStep => current[r] <= Steps
  /\ pc[r] \in PastLoop => current[r] = Steps + 1
  /\ pc[r] = "finishLocal" => current[r] \notin DaxSteps
  /\ pc[r] \in Delegated => current[r] \in DaxSteps

\* The rows of the steps before, at and after the current one.
StepsInv(r) ==
  \A i \in 1..Steps :
    /\ i < current[r] => stepRow[r][i] = "completed"
    /\ i > current[r] => stepRow[r][i] = "none" /\ dax[r][i] = "none"
    /\ i = current[r] =>
         /\ pc[r] = "createStep" => stepRow[r][i] = "none"
         /\ pc[r] \in {"createStep", "finishLocal", "createDax"} => dax[r][i] = "none"
         /\ pc[r] \in AtStep \ {"mirrorRun", "summary", "closeStep"} =>
              stepRow[r][i] # "completed"
         /\ pc[r] \in {"mirrorRun", "summary", "closeStep"} =>
              stepRow[r][i] = Mirrored(seen[r])
    /\ i \in DaxSteps /\ stepRow[r][i] = "completed" =>
         dax[r][i] = "completed" /\ i \in recorded[r]

\* What the last poll saw.
SeenInv(r) ==
  /\ pc[r] \in {"summary", "closeStep"} => seen[r] \in Ended
  /\ pc[r] \in AtStep \ Polling => seen[r] = "none"
  /\ pc[r] = "poll" => seen[r] \notin Ended
  /\ pc[r] = "recordRun" => current[r] \in recorded[r]
  /\ pc[r] \in Polling => current[r] \in recorded[r] \cap linked[r]
  /\ pc[r] \in Polling /\ seen[r] \in Ended => dax[r][current[r]] = seen[r]
  /\ pc[r] = "poll" /\ seen[r] # "none" =>
       /\ stepRow[r][current[r]] = Mirrored(seen[r])
       /\ (row[r] = "waiting_approval") = (seen[r] = "waiting_approval")

\* The row of the run.
RowInv(r) ==
  /\ row[r] = "none" <=> pc[r] = "idle"
  /\ pc[r] \in InTry \ {"countSuccess"} => row[r] \in Open
  /\ pc[r] \in {"countSuccess", "returned"} => row[r] = "completed"
  /\ row[r] = "completed" => current[r] = Steps + 1 /\ linked[r] = DaxSteps
  /\ pc[r] = "countFailure" => row[r] = "failed"
  /\ pc[r] = "failRun" /\ row[r] \notin Open => row[r] = "completed" /\ dbFailures > 0

\* The DAX runs that no row names.
DelegationInv(r) ==
  \A i \in DaxSteps : dax[r][i] # "none" /\ i \notin recorded[r] =>
    \/ pc[r] = "recordStep" /\ current[r] = i
    \/ row[r] # "completed" /\ pc[r] \in InCatch \cup {"threw", "crashed"}

RunInv(r) == LoopInv(r) /\ StepsInv(r) /\ SeenInv(r) /\ RowInv(r) /\ DelegationInv(r)

IInv == TypeOK /\ \A r \in Runs : RunInv(r)

-----------------------------------------------------------------------------
(* Types *)

USE DEF InTry, InCatch, Over, Ended, DaxStatus, RowStatus

\* The next step is the current one, or the place after the last.
LEMMA NextStepTypes ==
  ASSUME TypeOK, NEW r \in Runs, current[r] <= Steps, NextStep(r)
  PROVE  /\ pc' \in [Runs -> InTry \cup InCatch \cup Over \cup {"idle"}]
         /\ current' \in [Runs -> 0..Steps + 1]
         /\ seen' \in [Runs -> DaxStatus]
         /\ expired' \in [Runs -> BOOLEAN]
<1>1. current[r] + 1 \in 0..Steps + 1
  BY StepsAssumption DEF TypeOK
<1> QED
  BY <1>1 DEF TypeOK, NextStep, Goto

\* Writing a status to a step row keeps the type of the rows.
LEMMA SetStepTypes ==
  ASSUME TypeOK, NEW r \in Runs, NEW s \in RowStatus, SetStep(r, s)
  PROVE  stepRow' \in [Runs -> [1..Steps -> RowStatus]]
BY DEF TypeOK, SetStep

\* Every step of run's code keeps the types, given where its loop is.
LEMMA RunTypes ==
  ASSUME TypeOK, NEW r \in Runs, LoopInv(r), SeenInv(r),
         Start(r) \/ Advance(r) \/ Deadline(r) \/ DaxUnreachable(r) \/ DbFailure(r)
  PROVE  TypeOK'
<1> USE StepsAssumption DEF TypeOK, Goto, local, rows, counters, failures
<1>0. pc[r] \in {"idle"} \cup AtStep => current[r] <= Steps
  BY DEF LoopInv, AtStep
<1>a. pc[r] \in Delegated => current[r] \in DaxSteps
  BY DEF LoopInv
<1>b. pc[r] \in {"summary", "closeStep"} => seen[r] \in Ended
  BY DEF SeenInv
<1>c. seen[r] \in DaxStatus /\ Mirrored(seen[r]) \in RowStatus
  BY DEF Mirrored
<1>1. CASE Start(r)
  BY <1>1, <1>0, NextStepTypes DEF Start, AtStep
<1>2. CASE CreateStep(r)
  BY <1>2, SetStepTypes DEF CreateStep
<1>3. CASE FinishLocal(r)
  BY <1>3, <1>0, NextStepTypes, SetStepTypes DEF FinishLocal, AtStep
<1>4. CASE CreateDax(r)
  BY <1>4, <1>a DEF CreateDax, Delegated, AtStep
<1>5. CASE RecordStep(r)
  BY <1>5, <1>a DEF RecordStep, Delegated, AtStep
<1>6. CASE RecordRun(r)
  BY <1>6, <1>a DEF RecordRun, Delegated, AtStep
<1>7. CASE Poll(r)
  BY <1>7, <1>a DEF Poll, Delegated, AtStep
<1>8. CASE PollTimeout(r)
  BY <1>8 DEF PollTimeout
<1>9. CASE MirrorStep(r)
  BY <1>9, SetStepTypes, <1>c DEF MirrorStep
<1>10. CASE MirrorRun(r)
  BY <1>10 DEF MirrorRun
<1>11. CASE Summary(r)
  BY <1>11 DEF Summary
<1>12. CASE CloseStep(r)
  BY <1>12, <1>0, NextStepTypes, SetStepTypes, <1>b DEF CloseStep, AtStep
<1>13. CASE Complete(r)
  BY <1>13 DEF Complete
<1>14. CASE CountSuccess(r)
  BY <1>14 DEF CountSuccess
<1>15. CASE FailRun(r)
  BY <1>15 DEF FailRun
<1>16. CASE CountFailure(r)
  BY <1>16 DEF CountFailure
<1>17. CASE Deadline(r)
  BY <1>17 DEF Deadline
<1>18. CASE DaxUnreachable(r)
  BY <1>18 DEF DaxUnreachable
<1>19. CASE DbFailure(r)
  <2>1. dbFailures' \in 0..MaxDbFailures
    BY <1>19, FailuresAssumption DEF DbFailure
  <2>2. pc' \in [Runs -> InTry \cup InCatch \cup Over \cup {"idle"}]
    BY <1>19 DEF DbFailure
  <2> QED
    BY <1>19, <2>1, <2>2 DEF DbFailure
<1> QED
  BY <1>1, <1>2, <1>3, <1>4, <1>5, <1>6, <1>7, <1>8, <1>9, <1>10, <1>11, <1>12,
     <1>13, <1>14, <1>15, <1>16, <1>17, <1>18, <1>19 DEF Advance, Delegate

-----------------------------------------------------------------------------
(* The invariant of one run *)

\* Nothing that RunInv says of run q has changed.
Same(q) ==
  /\ pc'[q] = pc[q] /\ current'[q] = current[q] /\ seen'[q] = seen[q]
  /\ row'[q] = row[q] /\ stepRow'[q] = stepRow[q]
  /\ recorded'[q] = recorded[q] /\ linked'[q] = linked[q] /\ dax'[q] = dax[q]
  /\ dbFailures' \in Nat /\ dbFailures' >= dbFailures

\* A step that does not touch a run keeps what its invariant says of it.
LEMMA SameKeeps ==
  ASSUME TypeOK, NEW q \in Runs, Same(q), RunInv(q)
  PROVE  RunInv(q)'
<1> USE DEF Same
<1>1. LoopInv(q)'
  BY DEF RunInv, LoopInv
<1>2. StepsInv(q)'
  BY DEF RunInv, StepsInv, Mirrored
<1>3. SeenInv(q)'
  BY DEF RunInv, SeenInv, Mirrored
<1>4. RowInv(q)'
  BY FailuresAssumption DEF RunInv, RowInv, TypeOK
<1>5. DelegationInv(q)'
  BY DEF RunInv, DelegationInv
<1> QED
  BY <1>1, <1>2, <1>3, <1>4, <1>5 DEF RunInv

\* The run row is created as running and the loop begins at step 1.
LEMMA StartKeeps ==
  ASSUME TypeOK, NEW r \in Runs, RunInv(r), Start(r)
  PROVE  RunInv(r)'
<1>1. LoopInv(r)'
  BY StepsAssumption DEF TypeOK, RunInv, Start, Goto, NextStep, LoopInv,
      AtStep, Delegated, PastLoop
<1>2. StepsInv(r)'
  BY DEF RunInv, Start, Goto, NextStep, LoopInv, StepsInv
<1>3. SeenInv(r)'
  BY DEF TypeOK, RunInv, Start, Goto, NextStep, SeenInv, Polling
<1>4. RowInv(r)'
  BY DEF TypeOK, RunInv, Start, Goto, NextStep, RowInv, Open
<1>5. DelegationInv(r)'
  BY DEF RunInv, Start, DelegationInv
<1> QED
  BY <1>1, <1>2, <1>3, <1>4, <1>5 DEF RunInv

\* The row of the current step is created; steps before are completed.
LEMMA CreateStepKeeps ==
  ASSUME TypeOK, NEW r \in Runs, RunInv(r), CreateStep(r)
  PROVE  RunInv(r)'
<1>1. LoopInv(r)'
  BY DEF RunInv, CreateStep, Goto, LoopInv, AtStep, Delegated, PastLoop
<1>2. StepsInv(r)'
  BY DEF TypeOK, RunInv, CreateStep, Goto, SetStep, StepsInv
<1>3. SeenInv(r)'
  BY DEF RunInv, CreateStep, Goto, SeenInv, AtStep, Polling
<1>4. RowInv(r)'
  BY DEF RunInv, CreateStep, Goto, RowInv
<1>5. DelegationInv(r)'
  BY DEF RunInv, CreateStep, DelegationInv
<1> QED
  BY <1>1, <1>2, <1>3, <1>4, <1>5 DEF RunInv

\* A local step completes its row and the loop goes on.
LEMMA FinishLocalKeeps ==
  ASSUME TypeOK, NEW r \in Runs, RunInv(r), FinishLocal(r)
  PROVE  RunInv(r)'
<1>1. LoopInv(r)'
  BY StepsAssumption DEF TypeOK, RunInv, FinishLocal, Goto, NextStep, LoopInv,
      AtStep, Delegated, PastLoop
<1>2. StepsInv(r)'
  BY StepsAssumption DEF TypeOK, RunInv, FinishLocal, Goto, NextStep, SetStep,
      LoopInv, StepsInv
<1>3. SeenInv(r)'
  BY DEF TypeOK, RunInv, FinishLocal, Goto, NextStep, SeenInv, Polling
<1>4. RowInv(r)'
  BY DEF RunInv, FinishLocal, Goto, NextStep, RowInv, Open
<1>5. DelegationInv(r)'
  BY DEF RunInv, FinishLocal, DelegationInv
<1> QED
  BY <1>1, <1>2, <1>3, <1>4, <1>5 DEF RunInv

\* createRun: an unanswered request leaves an unrecorded run to the catch.
LEMMA CreateDaxKeeps ==
  ASSUME TypeOK, NEW r \in Runs, RunInv(r), CreateDax(r)
  PROVE  RunInv(r)'
<1>1. LoopInv(r)'
  BY DEF RunInv, CreateDax, Goto, LoopInv, AtStep, Delegated, PastLoop
<1>2. StepsInv(r)'
  BY DEF TypeOK, RunInv, CreateDax, Goto, rows, StepsInv, AtStep
<1>3. SeenInv(r)'
  BY DEF RunInv, CreateDax, Goto, SeenInv, AtStep, Polling
<1>4. RowInv(r)'
  BY DEF RunInv, CreateDax, Goto, rows, RowInv
<1>5. DelegationInv(r)'
  BY DEF TypeOK, RunInv, CreateDax, Goto, rows, RowInv, DelegationInv, Open
<1> QED
  BY <1>1, <1>2, <1>3, <1>4, <1>5 DEF RunInv

\* The DAX run's id is written to the step row.
LEMMA RecordStepKeeps ==
  ASSUME TypeOK, NEW r \in Runs, RunInv(r), RecordStep(r)
  PROVE  RunInv(r)'
<1>1. LoopInv(r)'
  BY DEF RunInv, RecordStep, Goto, LoopInv, AtStep, Delegated, PastLoop
<1>2. StepsInv(r)'
  BY DEF RunInv, RecordStep, Goto, StepsInv, AtStep
<1>3. SeenInv(r)'
  BY DEF TypeOK, RunInv, RecordStep, Goto, SeenInv, AtStep, Polling
<1>4. RowInv(r)'
  BY DEF RunInv, RecordStep, Goto, RowInv
<1>5. DelegationInv(r)'
  BY DEF TypeOK, RunInv, RecordStep, DelegationInv
<1> QED
  BY <1>1, <1>2, <1>3, <1>4, <1>5 DEF RunInv

\* The DAX run is written to the metadata of the run row.
LEMMA RecordRunKeeps ==
  ASSUME TypeOK, NEW r \in Runs, RunInv(r), RecordRun(r)
  PROVE  RunInv(r)'
<1>1. LoopInv(r)'
  BY DEF RunInv, RecordRun, Goto, LoopInv, AtStep, Delegated, PastLoop
<1>2. StepsInv(r)'
  BY DEF RunInv, RecordRun, Goto, StepsInv, AtStep
<1>3. SeenInv(r)'
  BY DEF TypeOK, RunInv, RecordRun, Goto, SeenInv, AtStep, Polling
<1>4. RowInv(r)'
  BY DEF RunInv, RecordRun, Goto, RowInv, Open
<1>5. DelegationInv(r)'
  BY DEF RunInv, RecordRun, DelegationInv
<1> QED
  BY <1>1, <1>2, <1>3, <1>4, <1>5 DEF RunInv

\* getRun returns what the engine shows at that moment.
LEMMA PollKeeps ==
  ASSUME TypeOK, NEW r \in Runs, RunInv(r), Poll(r)
  PROVE  RunInv(r)'
<1>1. LoopInv(r)'
  BY DEF RunInv, Poll, Goto, LoopInv, AtStep, Delegated, PastLoop
<1>2. StepsInv(r)'
  BY DEF RunInv, Poll, Goto, rows, StepsInv, AtStep
<1>3. SeenInv(r)'
  BY DEF TypeOK, RunInv, Poll, Goto, rows, SeenInv, Polling
<1>4. RowInv(r)'
  BY DEF RunInv, Poll, Goto, rows, RowInv
<1>5. DelegationInv(r)'
  BY DEF RunInv, Poll, rows, DelegationInv
<1> QED
  BY <1>1, <1>2, <1>3, <1>4, <1>5 DEF RunInv

\* The deadline of the polling loop throws.
LEMMA PollTimeoutKeeps ==
  ASSUME TypeOK, NEW r \in Runs, RunInv(r), PollTimeout(r)
  PROVE  RunInv(r)'
<1>1. LoopInv(r)'
  BY DEF RunInv, PollTimeout, Goto, LoopInv, AtStep, Delegated, PastLoop
<1>2. StepsInv(r)'
  BY DEF RunInv, PollTimeout, Goto, rows, StepsInv, AtStep
<1>3. SeenInv(r)'
  BY DEF TypeOK, RunInv, PollTimeout, Goto, SeenInv, AtStep, Polling
<1>4. RowInv(r)'
  BY DEF RunInv, PollTimeout, Goto, rows, RowInv
<1>5. DelegationInv(r)'
  BY DEF RunInv, PollTimeout, rows, DelegationInv
<1> QED
  BY <1>1, <1>2, <1>3, <1>4, <1>5 DEF RunInv

\* The answer is written to the step row.
LEMMA MirrorStepKeeps ==
  ASSUME TypeOK, NEW r \in Runs, RunInv(r), MirrorStep(r)
  PROVE  RunInv(r)'
<1>1. LoopInv(r)'
  BY DEF RunInv, MirrorStep, Goto, LoopInv, AtStep, Delegated, PastLoop
<1>2. StepsInv(r)'
  BY StepsAssumption DEF TypeOK, RunInv, MirrorStep, Goto, SetStep, StepsInv,
      SeenInv, AtStep, Mirrored
<1>3. SeenInv(r)'
  BY DEF RunInv, MirrorStep, Goto, SeenInv, Polling
<1>4. RowInv(r)'
  BY DEF RunInv, MirrorStep, Goto, RowInv
<1>5. DelegationInv(r)'
  BY DEF RunInv, MirrorStep, DelegationInv
<1> QED
  BY <1>1, <1>2, <1>3, <1>4, <1>5 DEF RunInv

\* The answer is written to the run row, then the loop polls or ends.
LEMMA MirrorRunKeeps ==
  ASSUME TypeOK, NEW r \in Runs, RunInv(r), MirrorRun(r)
  PROVE  RunInv(r)'
<1>1. LoopInv(r)'
  BY DEF RunInv, MirrorRun, Goto, LoopInv, AtStep, Delegated, PastLoop
<1>2. StepsInv(r)'
  BY DEF RunInv, MirrorRun, Goto, StepsInv, Mirrored
<1>3. SeenInv(r)'
  BY DEF TypeOK, RunInv, MirrorRun, Goto, LoopInv, StepsInv, SeenInv, AtStep,
      Polling
<1>4. RowInv(r)'
  BY DEF RunInv, MirrorRun, Goto, RowInv, Open
<1>5. DelegationInv(r)'
  BY DEF RunInv, MirrorRun, DelegationInv
<1> QED
  BY <1>1, <1>2, <1>3, <1>4, <1>5 DEF RunInv

\* getSummary changes no row.
LEMMA SummaryKeeps ==
  ASSUME TypeOK, NEW r \in Runs, RunInv(r), Summary(r)
  PROVE  RunInv(r)'
<1>1. LoopInv(r)'
  BY DEF RunInv, Summary, Goto, LoopInv, AtStep, Delegated, PastLoop
<1>2. StepsInv(r)'
  BY DEF RunInv, Summary, Goto, rows, StepsInv
<1>3. SeenInv(r)'
  BY DEF RunInv, Summary, Goto, rows, SeenInv, Polling
<1>4. RowInv(r)'
  BY DEF RunInv, Summary, Goto, rows, RowInv
<1>5. DelegationInv(r)'
  BY DEF RunInv, Summary, rows, DelegationInv
<1> QED
  BY <1>1, <1>2, <1>3, <1>4, <1>5 DEF RunInv

\* The result of the DAX run closes the step, or throws.
LEMMA CloseStepKeeps ==
  ASSUME TypeOK, NEW r \in Runs, RunInv(r), CloseStep(r)
  PROVE  RunInv(r)'
<1>1. LoopInv(r)'
  BY StepsAssumption DEF TypeOK, RunInv, CloseStep, Goto, NextStep, LoopInv,
      AtStep, Delegated, PastLoop
<1>2. StepsInv(r)'
  BY DEF TypeOK, RunInv, CloseStep, Goto, NextStep, SetStep, StepsInv,
      Mirrored
<1>3. SeenInv(r)'
  BY DEF TypeOK, RunInv, CloseStep, Goto, NextStep, SeenInv, AtStep, Polling
<1>4. RowInv(r)'
  BY DEF TypeOK, RunInv, CloseStep, Goto, NextStep, RowInv, Open
<1>5. DelegationInv(r)'
  BY DEF RunInv, CloseStep, DelegationInv
<1> QED
  BY <1>1, <1>2, <1>3, <1>4, <1>5 DEF RunInv

\* After the last step the run row is completed, with all its DAX runs.
LEMMA CompleteKeeps ==
  ASSUME TypeOK, NEW r \in Runs, RunInv(r), Complete(r)
  PROVE  RunInv(r)'
<1>1. LoopInv(r)'
  BY DEF RunInv, Complete, Goto, LoopInv, AtStep, Delegated, PastLoop
<1>2. StepsInv(r)'
  BY DEF RunInv, Complete, Goto, StepsInv, AtStep
<1>3. SeenInv(r)'
  BY DEF RunInv, Complete, Goto, SeenInv, AtStep, Polling
<1>4. RowInv(r)'
  BY DEF TypeOK, RunInv, Complete, Goto, LoopInv, RowInv, PastLoop
<1>5. DelegationInv(r)'
  BY DEF RunInv, Complete, DelegationInv
<1> QED
  BY <1>1, <1>2, <1>3, <1>4, <1>5 DEF RunInv

\* The counters of the workflow row change no run.
LEMMA CountSuccessKeeps ==
  ASSUME TypeOK, NEW r \in Runs, RunInv(r), CountSuccess(r)
  PROVE  RunInv(r)'
<1>1. LoopInv(r)'
  BY DEF RunInv, CountSuccess, Goto, LoopInv, AtStep, Delegated, PastLoop
<1>2. StepsInv(r)'
  BY DEF RunInv, CountSuccess, Goto, rows, StepsInv, AtStep
<1>3. SeenInv(r)'
  BY DEF RunInv, CountSuccess, Goto, SeenInv, AtStep, Polling
<1>4. RowInv(r)'
  BY DEF RunInv, CountSuccess, Goto, rows, RowInv
<1>5. DelegationInv(r)'
  BY DEF RunInv, CountSuccess, rows, DelegationInv
<1> QED
  BY <1>1, <1>2, <1>3, <1>4, <1>5 DEF RunInv

\* The catch block writes failed over whatever the run row said.
LEMMA FailRunKeeps ==
  ASSUME TypeOK, NEW r \in Runs, RunInv(r), FailRun(r)
  PROVE  RunInv(r)'
<1>1. LoopInv(r)'
  BY DEF RunInv, FailRun, Goto, LoopInv, AtStep, Delegated, PastLoop
<1>2. StepsInv(r)'
  BY DEF RunInv, FailRun, Goto, StepsInv, AtStep
<1>3. SeenInv(r)'
  BY DEF RunInv, FailRun, Goto, SeenInv, AtStep, Polling
<1>4. RowInv(r)'
  BY DEF TypeOK, RunInv, FailRun, Goto, RowInv
<1>5. DelegationInv(r)'
  BY DEF RunInv, FailRun, Goto, DelegationInv
<1> QED
  BY <1>1, <1>2, <1>3, <1>4, <1>5 DEF RunInv

\* Counting the failure rethrows the error.
LEMMA CountFailureKeeps ==
  ASSUME TypeOK, NEW r \in Runs, RunInv(r), CountFailure(r)
  PROVE  RunInv(r)'
<1>1. LoopInv(r)'
  BY DEF RunInv, CountFailure, Goto, LoopInv, AtStep, Delegated, PastLoop
<1>2. StepsInv(r)'
  BY DEF RunInv, CountFailure, Goto, rows, StepsInv, AtStep
<1>3. SeenInv(r)'
  BY DEF RunInv, CountFailure, Goto, SeenInv, AtStep, Polling
<1>4. RowInv(r)'
  BY DEF RunInv, CountFailure, Goto, rows, RowInv
<1>5. DelegationInv(r)'
  BY DEF RunInv, CountFailure, Goto, rows, DelegationInv
<1> QED
  BY <1>1, <1>2, <1>3, <1>4, <1>5 DEF RunInv

\* daxPollTimeoutMs passes while the code waits.
LEMMA DeadlineKeeps ==
  ASSUME TypeOK, NEW r \in Runs, RunInv(r), Deadline(r)
  PROVE  RunInv(r)'
<1>1. LoopInv(r)'
  BY DEF RunInv, Deadline, LoopInv
<1>2. StepsInv(r)'
  BY DEF RunInv, Deadline, rows, StepsInv
<1>3. SeenInv(r)'
  BY DEF RunInv, Deadline, rows, SeenInv
<1>4. RowInv(r)'
  BY DEF RunInv, Deadline, rows, RowInv
<1>5. DelegationInv(r)'
  BY DEF RunInv, Deadline, rows, DelegationInv
<1> QED
  BY <1>1, <1>2, <1>3, <1>4, <1>5 DEF RunInv

\* A request to DAX throws.
LEMMA DaxUnreachableKeeps ==
  ASSUME TypeOK, NEW r \in Runs, RunInv(r), DaxUnreachable(r)
  PROVE  RunInv(r)'
<1>1. LoopInv(r)'
  BY DEF RunInv, DaxUnreachable, Goto, LoopInv, AtStep, Delegated, PastLoop
<1>2. StepsInv(r)'
  BY DEF RunInv, DaxUnreachable, Goto, rows, StepsInv, AtStep
<1>3. SeenInv(r)'
  BY DEF TypeOK, RunInv, DaxUnreachable, Goto, SeenInv, AtStep, Polling
<1>4. RowInv(r)'
  BY DEF RunInv, DaxUnreachable, Goto, rows, RowInv
<1>5. DelegationInv(r)'
  BY DEF RunInv, DaxUnreachable, rows, DelegationInv
<1> QED
  BY <1>1, <1>2, <1>3, <1>4, <1>5 DEF RunInv

\* A failed database call goes to the catch block, or out of it.
LEMMA DbFailureKeeps ==
  ASSUME TypeOK, NEW r \in Runs, RunInv(r), DbFailure(r)
  PROVE  RunInv(r)'
<1>1. LoopInv(r)'
  BY DEF TypeOK, RunInv, DbFailure, Goto, LoopInv, AtStep, Delegated, PastLoop
<1>2. StepsInv(r)'
  BY DEF TypeOK, RunInv, DbFailure, Goto, rows, StepsInv, AtStep
<1>3. SeenInv(r)'
  BY DEF TypeOK, RunInv, DbFailure, Goto, SeenInv, AtStep, Polling
<1>4. RowInv(r)'
  BY DEF TypeOK, RunInv, DbFailure, Goto, rows, RowInv
<1>5. DelegationInv(r)'
  BY DEF TypeOK, RunInv, DbFailure, Goto, rows, RowInv, DelegationInv, Open
<1> QED
  BY <1>1, <1>2, <1>3, <1>4, <1>5 DEF RunInv

\* The engine never moves a run that has ended, nor makes one unseen.
LEMMA EngineKeeps ==
  ASSUME TypeOK, NEW r \in Runs, NEW k \in DaxSteps, RunInv(r), Engine(r, k)
  PROVE  TypeOK' /\ RunInv(r)'
<1> USE StepsAssumption DEF local, rows, counters, failures
<1>k. k \in 1..Steps
  OBVIOUS
<1>0. TypeOK'
  BY <1>k DEF TypeOK, Engine
<1>1. LoopInv(r)'
  BY DEF RunInv, Engine, LoopInv
<1>2. StepsInv(r)'
  BY <1>k DEF TypeOK, RunInv, Engine, StepsInv
<1>3. SeenInv(r)'
  <2>1. pc[r] \in Polling /\ seen[r] \in Ended => dax'[r][current[r]] = seen[r]
    BY <1>k DEF TypeOK, RunInv, Engine, SeenInv
  <2> QED
    BY <2>1 DEF RunInv, Engine, SeenInv
<1>4. RowInv(r)'
  BY DEF RunInv, Engine, RowInv
<1>5. DelegationInv(r)'
  BY <1>k DEF TypeOK, RunInv, Engine, DelegationInv
<1> QED
  BY <1>0, <1>1, <1>2, <1>3, <1>4, <1>5 DEF RunInv

\* A crash leaves the rows of its runs where they are.
LEMMA CrashKeeps ==
  ASSUME TypeOK, NEW r \in Runs, RunInv(r), Crash
  PROVE  TypeOK' /\ RunInv(r)'
<1> USE DEF local, rows, counters, failures
<1>0. TypeOK'
  <2>1. crashes' \in 0..MaxCrashes
    BY FailuresAssumption DEF TypeOK, Crash
  <2>2. pc' \in [Runs -> InTry \cup InCatch \cup Over \cup {"idle"}]
    BY DEF TypeOK, Crash
  <2> QED
    BY <2>1, <2>2 DEF TypeOK, Crash
<1>p. \/ pc'[r] = pc[r]
      \/ pc[r] \in InTry \cup InCatch /\ pc'[r] = "crashed"
  BY DEF TypeOK, Crash
<1>u. UNCHANGED <<current, seen, expired, rows, dax, counters, dbFailures>>
  BY DEF Crash
<1> HIDE DEF InTry, InCatch, Over, Ended, DaxStatus, RowStatus
<1>1. CASE pc'[r] = pc[r]
  <2>1. Same(r)
    BY <1>1, <1>u, FailuresAssumption DEF TypeOK, Same
  <2> QED
    BY <2>1, <1>0, SameKeeps
<1>2. CASE pc[r] \in InTry \cup InCatch /\ pc'[r] = "crashed"
  <2> USE DEF InTry, InCatch, Ended
  <2>1. LoopInv(r)'
    BY <1>2, <1>u DEF RunInv, LoopInv, AtStep, Delegated, PastLoop
  <2>2. StepsInv(r)'
    BY <1>2, <1>u DEF RunInv, StepsInv, AtStep
  <2>3. SeenInv(r)'
    BY <1>2, <1>u DEF RunInv, SeenInv, AtStep, Polling
  <2>4. RowInv(r)'
    BY <1>2, <1>u DEF RunInv, RowInv, Open
  <2>5. DelegationInv(r)'
    BY <1>2, <1>u DEF RunInv, RowInv, DelegationInv, Open
  <2> QED
    BY <1>0, <2>1, <2>2, <2>3, <2>4, <2>5 DEF RunInv
<1> QED
  BY <1>p, <1>1, <1>2

-----------------------------------------------------------------------------
(* The whole system *)

\* The actions of one run.
RunStep(r) == Start(r) \/ Advance(r) \/ Deadline(r) \/ DaxUnreachable(r) \/ DbFailure(r)

\* All the steps of one run together.
LEMMA RunStepKeeps ==
  ASSUME TypeOK, NEW r \in Runs, RunInv(r), RunStep(r)
  PROVE  RunInv(r)'
BY StartKeeps, CreateStepKeeps, FinishLocalKeeps, CreateDaxKeeps, RecordStepKeeps,
   RecordRunKeeps, PollKeeps, PollTimeoutKeeps, MirrorStepKeeps, MirrorRunKeeps,
   SummaryKeeps, CloseStepKeeps, CompleteKeeps, CountSuccessKeeps, FailRunKeeps,
   CountFailureKeeps, DeadlineKeeps, DaxUnreachableKeeps, DbFailureKeeps
   DEF RunStep, Advance, Delegate

\* A run touches none of the rows and DAX runs of another.
LEMMA OthersSame ==
  ASSUME TypeOK, NEW r \in Runs, NEW q \in Runs, q # r, RunStep(r)
  PROVE  Same(q)
<1> USE DEF TypeOK, Same, Goto, local, rows, counters, failures
<1>0. dbFailures \in Nat
  BY FailuresAssumption
<1>1. CASE Start(r)
  BY <1>0, <1>1 DEF Start, NextStep
<1>2. CASE CreateStep(r)
  BY <1>0, <1>2 DEF CreateStep, SetStep
<1>3. CASE FinishLocal(r)
  BY <1>0, <1>3 DEF FinishLocal, NextStep, SetStep
<1>4. CASE CreateDax(r)
  BY <1>0, <1>4 DEF CreateDax
<1>5. CASE RecordStep(r)
  BY <1>0, <1>5 DEF RecordStep
<1>6. CASE RecordRun(r)
  BY <1>0, <1>6 DEF RecordRun
<1>7. CASE Poll(r)
  BY <1>0, <1>7 DEF Poll
<1>8. CASE PollTimeout(r)
  BY <1>0, <1>8 DEF PollTimeout
<1>9. CASE MirrorStep(r)
  BY <1>0, <1>9 DEF MirrorStep, SetStep
<1>10. CASE MirrorRun(r)
  BY <1>0, <1>10 DEF MirrorRun
<1>11. CASE Summary(r)
  BY <1>0, <1>11 DEF Summary
<1>12. CASE CloseStep(r)
  BY <1>0, <1>12 DEF CloseStep, NextStep, SetStep
<1>13. CASE Complete(r)
  BY <1>0, <1>13 DEF Complete
<1>14. CASE CountSuccess(r)
  BY <1>0, <1>14 DEF CountSuccess
<1>15. CASE FailRun(r)
  BY <1>0, <1>15 DEF FailRun
<1>16. CASE CountFailure(r)
  BY <1>0, <1>16 DEF CountFailure
<1>17. CASE Deadline(r)
  BY <1>0, <1>17 DEF Deadline
<1>18. CASE DaxUnreachable(r)
  BY <1>0, <1>18 DEF DaxUnreachable
<1>19. CASE DbFailure(r)
  BY <1>0, <1>19 DEF DbFailure
<1> QED
  BY <1>1, <1>2, <1>3, <1>4, <1>5, <1>6, <1>7, <1>8, <1>9, <1>10, <1>11, <1>12,
     <1>13, <1>14, <1>15, <1>16, <1>17, <1>18, <1>19 DEF RunStep, Advance, Delegate

\* The invariant holds before any run.
LEMMA InitHolds ==
  ASSUME Init
  PROVE  IInv
<1>1. TypeOK
  BY StepsAssumption, FailuresAssumption DEF Init, TypeOK
<1>2. ASSUME NEW r \in Runs
      PROVE  RunInv(r)
  <2>1. LoopInv(r)
    BY DEF Init, LoopInv, AtStep, Delegated, PastLoop
  <2>2. StepsInv(r)
    BY DEF Init, StepsInv, AtStep
  <2>3. SeenInv(r)
    BY DEF Init, SeenInv, AtStep, Polling
  <2>4. RowInv(r)
    BY DEF Init, RowInv
  <2>5. DelegationInv(r)
    BY StepsAssumption DEF Init, DelegationInv
  <2> QED
    BY <2>1, <2>2, <2>3, <2>4, <2>5 DEF RunInv
<1> QED
  BY <1>1, <1>2 DEF IInv

\* Every step of the system keeps the invariant.
LEMMA NextKeeps ==
  ASSUME IInv, [Next]_vars
  PROVE  IInv'
<1> HIDE DEF InTry, InCatch, Over, Ended, DaxStatus, RowStatus
<1>t. TypeOK /\ \A q \in Runs : RunInv(q)
  BY DEF IInv
<1>0. dbFailures \in Nat
  BY FailuresAssumption, <1>t DEF TypeOK
<1>1. ASSUME NEW r \in Runs, RunStep(r)
      PROVE  IInv'
  <2>1. TypeOK'
    BY <1>t, <1>1, RunTypes DEF RunStep, RunInv
  <2>2. ASSUME NEW q \in Runs
        PROVE  RunInv(q)'
    <3>1. CASE q = r
      BY <1>t, <1>1, <3>1, RunStepKeeps
    <3>2. CASE q # r
      BY <1>t, <1>1, <3>2, OthersSame, SameKeeps
    <3> QED
      BY <3>1, <3>2
  <2> QED
    BY <2>1, <2>2 DEF IInv
<1>2. ASSUME NEW r \in Runs, NEW k \in DaxSteps, Engine(r, k)
      PROVE  IInv'
  <2>1. TypeOK' /\ RunInv(r)'
    BY <1>t, <1>2, EngineKeeps
  <2>2. ASSUME NEW q \in Runs, q # r
        PROVE  RunInv(q)'
    <3>1. Same(q)
      BY <1>t, <1>0, <1>2, <2>2 DEF Engine, Same, TypeOK, local, rows, failures
    <3> QED
      BY <3>1, <1>t, SameKeeps
  <2> QED
    BY <2>1, <2>2 DEF IInv
<1>3. CASE Crash
  <2>1. \A q \in Runs : TypeOK' /\ RunInv(q)'
    BY <1>t, <1>3, CrashKeeps
  <2>2. \E q \in Runs : TRUE
    BY <1>3 DEF Crash
  <2> QED
    BY <2>1, <2>2 DEF IInv
<1>4. CASE UNCHANGED vars
  <2>1. TypeOK'
    BY <1>t, <1>4 DEF TypeOK, vars, local, rows, counters, failures
  <2>2. ASSUME NEW q \in Runs
        PROVE  RunInv(q)'
    <3>1. Same(q)
      BY <1>0, <1>4 DEF Same, vars, local, rows, failures
    <3> QED
      BY <3>1, <1>t, SameKeeps
  <2> QED
    BY <2>1, <2>2 DEF IInv
<1> QED
  BY <1>1, <1>2, <1>3, <1>4 DEF Next, RunStep

(***************************************************************************)
(* Every reachable state satisfies the invariant: run, its catch block and *)
(* the DAX polling leave rows, loop and DAX runs as it says at every await.*)
(***************************************************************************)
THEOREM Invariance == Spec => []IInv
<1>1. Init => IInv
  BY InitHolds
<1>2. IInv /\ [Next]_vars => IInv'
  BY NextKeeps
<1> QED
  BY <1>1, <1>2, PTL DEF Spec

\* The rows, the counters and what run keeps locally have their types.
THEOREM TypeCorrect == Spec => []TypeOK
<1>1. IInv => TypeOK
  BY DEF IInv
<1> QED
  BY <1>1, Invariance, PTL

\* run never begins a step before the one before it is completed, and takes
\* no DAX step as completed of which DAX has not said so.
THEOREM Order == Spec => []StepsInOrder
<1>1. IInv => StepsInOrder
  <2> SUFFICES ASSUME IInv, NEW r \in Runs, NEW i \in 1..Steps
               PROVE  /\ stepRow[r][i] # "none" =>
                           \A j \in 1..(i - 1) : stepRow[r][j] = "completed"
                      /\ stepRow[r][i] = "completed" /\ i \in DaxSteps =>
                           dax[r][i] = "completed"
    BY DEF StepsInOrder
  <2>1. StepsInv(r) /\ current[r] \in Nat
    BY StepsAssumption DEF IInv, RunInv, TypeOK
  <2>2. ASSUME stepRow[r][i] # "none", NEW j \in 1..(i - 1)
        PROVE  stepRow[r][j] = "completed"
    <3>1. i <= current[r] /\ j \in 1..Steps /\ j < current[r]
      BY <2>1, <2>2, StepsAssumption DEF StepsInv
    <3> QED
      BY <3>1, <2>1 DEF StepsInv
  <2>3. stepRow[r][i] = "completed" /\ i \in DaxSteps => dax[r][i] = "completed"
    BY <2>1 DEF StepsInv
  <2> QED
    BY <2>2, <2>3
<1> QED
  BY <1>1, Invariance, PTL

\* A run whose row run has set to completed has completed all its steps, and
\* names the DAX run of each delegated one on its row and on the step's.
THEOREM Completeness == Spec => []CompletedIsComplete
<1>1. IInv => CompletedIsComplete
  <2> SUFFICES ASSUME IInv, NEW r \in Runs, row[r] = "completed"
               PROVE  /\ \A i \in 1..Steps : stepRow[r][i] = "completed"
                      /\ recorded[r] = DaxSteps /\ linked[r] = DaxSteps
    BY DEF CompletedIsComplete
  <2>1. RunInv(r) /\ recorded[r] \subseteq DaxSteps
    BY DEF IInv, TypeOK
  <2>2. current[r] = Steps + 1 /\ linked[r] = DaxSteps
    BY <2>1 DEF RunInv, RowInv
  <2>3. \A i \in 1..Steps : stepRow[r][i] = "completed"
    BY <2>1, <2>2, StepsAssumption DEF RunInv, StepsInv
  <2>4. DaxSteps \subseteq recorded[r]
    BY <2>1, <2>3, StepsAssumption DEF RunInv, StepsInv
  <2> QED
    BY <2>1, <2>2, <2>3, <2>4
<1> QED
  BY <1>1, Invariance, PTL

\* Whenever waitForDaxTerminal asks DAX again, both rows show its last answer.
THEOREM PollsAreShown == Spec => []RowsShowLastPoll
<1>1. IInv => RowsShowLastPoll
  BY DEF IInv, RunInv, SeenInv, RowsShowLastPoll, Polling
<1> QED
  BY <1>1, Invariance, PTL

\* executeDaxRunStep leaves no DAX run unrecorded behind a run that goes on.
THEOREM Delegation == Spec => []NoSilentDelegation
<1>1. IInv => NoSilentDelegation
  BY DEF IInv, RunInv, DelegationInv, NoSilentDelegation
<1> QED
  BY <1>1, Invariance, PTL

-----------------------------------------------------------------------------
(* The counters *)

Returned == {q \in Runs : pc[q] = "returned"}
Failed == {q \in Runs : pc[q] = "threw" /\ row[q] = "failed"}

\* A step that counts nothing leaves the runs that have returned as they are,
\* and no failed run comes back.
Uncounted ==
  /\ UNCHANGED counters
  /\ \A q \in Runs : /\ pc'[q] = "returned" <=> pc[q] = "returned"
                     /\ pc[q] = "threw" /\ row[q] = "failed" =>
                          pc'[q] = "threw" /\ row'[q] = "failed"

\* Only the two counting steps change what the counters stand for.
LEMMA StepsUncounted ==
  ASSUME IInv, NEW r \in Runs, RunStep(r), ~CountSuccess(r), ~CountFailure(r)
  PROVE  Uncounted
<1> USE DEF IInv, TypeOK, Uncounted, Goto, local, rows, failures
<1>1. CASE Start(r)
  BY <1>1 DEF Start, NextStep
<1>2. CASE CreateStep(r)
  BY <1>2 DEF CreateStep
<1>3. CASE FinishLocal(r)
  BY <1>3 DEF FinishLocal, NextStep
<1>4. CASE CreateDax(r)
  BY <1>4 DEF CreateDax
<1>5. CASE RecordStep(r)
  BY <1>5 DEF RecordStep
<1>6. CASE RecordRun(r)
  BY <1>6 DEF RecordRun
<1>7. CASE Poll(r)
  BY <1>7 DEF Poll
<1>8. CASE PollTimeout(r)
  BY <1>8 DEF PollTimeout
<1>9. CASE MirrorStep(r)
  BY <1>9 DEF MirrorStep
<1>10. CASE MirrorRun(r)
  BY <1>10 DEF MirrorRun
<1>11. CASE Summary(r)
  BY <1>11 DEF Summary
<1>12. CASE CloseStep(r)
  BY <1>12 DEF CloseStep, NextStep
<1>13. CASE Complete(r)
  BY <1>13 DEF Complete
<1>14. CASE FailRun(r)
  BY <1>14 DEF FailRun
<1>15. CASE Deadline(r)
  BY <1>15 DEF Deadline
<1>16. CASE DaxUnreachable(r)
  BY <1>16 DEF DaxUnreachable
<1>17. CASE DbFailure(r)
  BY <1>17 DEF DbFailure
<1> QED
  BY <1>1, <1>2, <1>3, <1>4, <1>5, <1>6, <1>7, <1>8, <1>9, <1>10, <1>11, <1>12,
     <1>13, <1>14, <1>15, <1>16, <1>17 DEF RunStep, Advance, Delegate

\* A step that counts nothing keeps the counters right.
LEMMA UncountedKeeps ==
  ASSUME IInv, CountersMatchRows, IInv', Uncounted
  PROVE  CountersMatchRows'
<1>1. Returned' = Returned /\ Failed \subseteq Failed' /\ IsFiniteSet(Failed')
  <2>1. Returned' = Returned /\ Failed \subseteq Failed' /\ Failed' \subseteq Runs
    BY DEF Uncounted, Returned, Failed
  <2> QED
    BY <2>1, RunsAssumption, FS_Subset
<1>2. Cardinality(Failed) <= Cardinality(Failed')
      /\ Cardinality(Failed) \in Nat /\ Cardinality(Failed') \in Nat
  BY <1>1, FS_Subset, FS_CardinalityType
<1>3. failedRuns \in Nat /\ failedRuns <= Cardinality(Failed)
      /\ successfulRuns = Cardinality(Returned)
  BY DEF CountersMatchRows, IInv, TypeOK, Failed, Returned
<1>4. failedRuns' <= Cardinality(Failed') /\ successfulRuns' = Cardinality(Returned')
  BY <1>1, <1>2, <1>3 DEF Uncounted, counters
<1>5. totalRuns' = successfulRuns' + failedRuns'
  BY DEF Uncounted, counters, CountersMatchRows
<1>6. \A q \in Runs : pc'[q] = "returned" => row'[q] = "completed"
  BY DEF IInv, RunInv, RowInv
<1> QED
  BY <1>4, <1>5, <1>6 DEF CountersMatchRows, Returned, Failed

\* A run is counted as it leaves, on the side its row shows.
LEMMA CountKeeps ==
  ASSUME IInv, CountersMatchRows, IInv', NEW r \in Runs,
         CountSuccess(r) \/ CountFailure(r)
  PROVE  CountersMatchRows'
<1> USE DEF Goto, rows, failures
<1>t. totalRuns \in Nat /\ successfulRuns \in Nat /\ failedRuns \in Nat
      /\ pc \in [Runs -> InTry \cup InCatch \cup Over \cup {"idle"}]
  BY DEF IInv, TypeOK
<1>f. IsFiniteSet(Returned) /\ IsFiniteSet(Failed)
  BY RunsAssumption, FS_Subset DEF Returned, Failed
<1>c. Cardinality(Returned) \in Nat /\ Cardinality(Failed) \in Nat
  BY <1>f, FS_CardinalityType
<1>0. totalRuns = successfulRuns + failedRuns
      /\ successfulRuns = Cardinality(Returned) /\ failedRuns <= Cardinality(Failed)
  BY DEF CountersMatchRows, Returned, Failed
<1>3. \A q \in Runs : pc'[q] = "returned" => row'[q] = "completed"
  BY DEF IInv, RunInv, RowInv
<1>1. CASE CountSuccess(r)
  <2>1. Returned' = Returned \cup {r} /\ r \notin Returned /\ Failed' = Failed
    BY <1>1, <1>t DEF CountSuccess, Returned, Failed
  <2>2. Cardinality(Returned') = Cardinality(Returned) + 1
    BY <2>1, <1>f, FS_AddElement
  <2>3. /\ totalRuns' = successfulRuns' + failedRuns'
        /\ successfulRuns' = Cardinality(Returned') /\ failedRuns' <= Cardinality(Failed')
    BY <1>1, <1>t, <1>c, <1>0, <2>1, <2>2 DEF CountSuccess
  <2> QED
    BY <2>3, <1>3 DEF CountersMatchRows, Returned, Failed
<1>2. CASE CountFailure(r)
  <2>0. row[r] = "failed"
    BY <1>2 DEF CountFailure, IInv, RunInv, RowInv
  <2>1. Returned' = Returned /\ Failed' = Failed \cup {r} /\ r \notin Failed
    BY <1>2, <1>t, <2>0 DEF CountFailure, Returned, Failed
  <2>2. Cardinality(Failed') = Cardinality(Failed) + 1
    BY <2>1, <1>f, FS_AddElement
  <2>3. /\ totalRuns' = successfulRuns' + failedRuns'
        /\ successfulRuns' = Cardinality(Returned') /\ failedRuns' <= Cardinality(Failed')
    BY <1>2, <1>t, <1>c, <1>0, <2>1, <2>2 DEF CountFailure
  <2> QED
    BY <2>3, <1>3 DEF CountersMatchRows, Returned, Failed
<1> QED
  BY <1>1, <1>2

\* However the runs of a workflow interleave, fail and crash, the counters of
\* its row count each run once at most, on the side its own row shows.
THEOREM Counters == Spec => []CountersMatchRows
<1>1. Init => CountersMatchRows
  <2> SUFFICES ASSUME Init
               PROVE  CountersMatchRows
    OBVIOUS
  <2>1. Returned = {} /\ Failed = {}
    BY DEF Init, Returned, Failed
  <2>2. Cardinality(Returned) = 0 /\ Cardinality(Failed) = 0
    BY <2>1, FS_EmptySet
  <2> QED
    BY <2>2 DEF Init, CountersMatchRows, Returned, Failed
<1>2. IInv /\ CountersMatchRows /\ [Next]_vars => CountersMatchRows'
  <2> SUFFICES ASSUME IInv, CountersMatchRows, [Next]_vars
               PROVE  CountersMatchRows'
    OBVIOUS
  <2>0. IInv'
    BY NextKeeps
  <2>1. ASSUME NEW r \in Runs, RunStep(r)
        PROVE  CountersMatchRows'
    <3>1. CASE CountSuccess(r) \/ CountFailure(r)
      BY <2>0, <3>1, CountKeeps
    <3>2. CASE ~CountSuccess(r) /\ ~CountFailure(r)
      BY <2>0, <2>1, <3>2, StepsUncounted, UncountedKeeps
    <3> QED
      BY <3>1, <3>2
  <2>2. ASSUME NEW r \in Runs, NEW k \in DaxSteps, Engine(r, k)
        PROVE  CountersMatchRows'
    <3>1. Uncounted
      BY <2>2 DEF Engine, Uncounted, local, rows, failures
    <3> QED
      BY <2>0, <3>1, UncountedKeeps
  <2>3. CASE Crash
    <3>1. Uncounted
      BY <2>3 DEF Crash, Uncounted, rows, IInv, TypeOK
    <3> QED
      BY <2>0, <3>1, UncountedKeeps
  <2>4. CASE UNCHANGED vars
    <3>1. Uncounted
      BY <2>4 DEF Uncounted, vars, local, rows
    <3> QED
      BY <2>0, <3>1, UncountedKeeps
  <2> QED
    BY <2>1, <2>2, <2>3, <2>4 DEF Next, RunStep
<1> QED
  BY <1>1, <1>2, Invariance, PTL DEF Spec

-----------------------------------------------------------------------------
(* The rows as RunLifecycle has them *)

CompletedSteps(r) == {i \in 1..Steps : stepRow[r][i] = "completed"}
DoneSteps == [r \in Runs |-> Finished(r)]

\* Without database failures, a run that gets to its catch block is open.
LEMMA FailsOpen ==
  ASSUME MaxDbFailures = 0, IInv, NEW r \in Runs, pc[r] = "failRun"
  PROVE  row[r] \in Open
<1>1. dbFailures = 0
  BY DEF IInv, TypeOK
<1> QED
  BY <1>1 DEF IInv, RunInv, RowInv

\* One step more is completed.
LEMMA OneMoreDone ==
  ASSUME IInv, NEW r \in Runs, NEW i \in 1..Steps, stepRow[r][i] # "completed",
         stepRow' = [stepRow EXCEPT ![r][i] = "completed"]
  PROVE  Finished(r) < Steps /\ DoneSteps' = [DoneSteps EXCEPT ![r] = @ + 1]
<1>t. stepRow \in [Runs -> [1..Steps -> RowStatus]]
  BY DEF IInv, TypeOK
<1>1. CompletedSteps(r)' = CompletedSteps(r) \cup {i} /\ i \notin CompletedSteps(r)
  BY <1>t DEF CompletedSteps
<1>2. IsFiniteSet(1..Steps) /\ Cardinality(1..Steps) = Steps
  BY StepsAssumption, FS_Interval
<1>3. /\ IsFiniteSet(CompletedSteps(r))
      /\ CompletedSteps(r)' \in SUBSET (1..Steps)
  BY <1>2, FS_Subset DEF CompletedSteps
<1>4. /\ Cardinality(CompletedSteps(r)') = Cardinality(CompletedSteps(r)) + 1
      /\ Cardinality(CompletedSteps(r)) \in Nat
  BY <1>1, <1>3, FS_AddElement, FS_CardinalityType
<1>5. Cardinality(CompletedSteps(r)') <= Steps
  BY <1>2, <1>3, FS_Subset
<1>6. Finished(r)' = Finished(r) + 1 /\ Finished(r) < Steps
  BY <1>4, <1>5, StepsAssumption DEF Finished, CompletedSteps
<1>7. \A q \in Runs : q # r => Finished(q)' = Finished(q)
  <2> SUFFICES ASSUME NEW q \in Runs, q # r
               PROVE  Finished(q)' = Finished(q)
    OBVIOUS
  <2>1. stepRow'[q] = stepRow[q]
    BY <1>t
  <2> QED
    BY <2>1 DEF Finished
<1> QED
  BY <1>6, <1>7 DEF DoneSteps

\* No other step is completed than before.
LEMMA NoMoreDone ==
  ASSUME \A q \in Runs, i \in 1..Steps :
           stepRow'[q][i] = "completed" <=> stepRow[q][i] = "completed"
  PROVE  DoneSteps' = DoneSteps
<1>1. \A q \in Runs : CompletedSteps(q)' = CompletedSteps(q)
  BY DEF CompletedSteps
<1>2. \A q \in Runs : Finished(q)' = Finished(q)
  BY <1>1 DEF Finished, CompletedSteps
<1> QED
  BY <1>2 DEF DoneSteps

\* A step of a run is one of the row's life or hidden from its readers.
LEMMA RunStepRefines ==
  ASSUME MaxDbFailures = 0, IInv, NEW r \in Runs, RunStep(r)
  PROVE  Lifecycle!Next \/ (row' = row /\ DoneSteps' = DoneSteps)
<1> USE DEF Goto, local, rows, counters, failures
<1>t. TypeOK /\ RunInv(r)
  BY DEF IInv
<1>d. DoneSteps = [q \in Runs |-> Finished(q)]
  BY DEF DoneSteps
<1>s. stepRow' = stepRow => DoneSteps' = DoneSteps
  BY NoMoreDone
<1>1. CASE Start(r)
  <2>1. row[r] = "none"
    BY <1>t, <1>1 DEF Start, RunInv, RowInv
  <2>2. Lifecycle!Begin(r)
    BY <1>1, <1>s, <1>d, <2>1 DEF Start, Lifecycle!Begin, DoneSteps
  <2> QED
    BY <2>2 DEF Lifecycle!Next
<1>2. CASE CreateStep(r)
  <2>1. \A q \in Runs, i \in 1..Steps :
          stepRow'[q][i] = "completed" <=> stepRow[q][i] = "completed"
    BY <1>t, <1>2 DEF CreateStep, SetStep, TypeOK, RunInv, StepsInv
  <2> QED
    BY <1>2, <2>1, NoMoreDone DEF CreateStep
<1>3. CASE FinishLocal(r)
  <2>1. /\ current[r] \in 1..Steps /\ stepRow[r][current[r]] # "completed"
        /\ row[r] \in Open
    BY <1>t, <1>3, StepsAssumption
       DEF FinishLocal, TypeOK, RunInv, LoopInv, StepsInv, RowInv, AtStep
  <2>2. Finished(r) < Steps /\ DoneSteps' = [DoneSteps EXCEPT ![r] = @ + 1]
    BY <1>3, <2>1, OneMoreDone DEF FinishLocal, SetStep
  <2>3. Lifecycle!FinishPart(r)
    BY <1>3, <2>1, <2>2 DEF FinishLocal, Lifecycle!FinishPart, Lifecycle!Open, Open, DoneSteps
  <2> QED
    BY <2>3 DEF Lifecycle!Next
<1>4. CASE MirrorStep(r)
  <2>1. /\ current[r] \in 1..Steps /\ stepRow[r][current[r]] # "completed"
        /\ row[r] \in Open
    BY <1>t, <1>4, StepsAssumption
       DEF MirrorStep, TypeOK, RunInv, LoopInv, StepsInv, RowInv, AtStep
  <2>2. CASE Mirrored(seen[r]) = "completed"
    <3>1. Finished(r) < Steps /\ DoneSteps' = [DoneSteps EXCEPT ![r] = @ + 1]
      BY <1>4, <2>1, <2>2, OneMoreDone DEF MirrorStep, SetStep
    <3>2. Lifecycle!FinishPart(r)
      BY <1>4, <2>1, <3>1 DEF MirrorStep, Lifecycle!FinishPart, Lifecycle!Open, Open, DoneSteps
    <3> QED
      BY <3>2 DEF Lifecycle!Next
  <2>3. CASE Mirrored(seen[r]) # "completed"
    <3>1. \A q \in Runs, i \in 1..Steps :
            stepRow'[q][i] = "completed" <=> stepRow[q][i] = "completed"
      BY <1>t, <1>4, <2>1, <2>3 DEF MirrorStep, SetStep, TypeOK
    <3> QED
      BY <1>4, <3>1, NoMoreDone DEF MirrorStep
  <2> QED
    BY <2>2, <2>3
<1>5. CASE MirrorRun(r)
  <2>1. row[r] \in Open
    BY <1>t, <1>5 DEF MirrorRun, RunInv, RowInv
  <2>2. Lifecycle!Report(r)
    BY <1>5, <1>s, <1>d, <2>1 DEF MirrorRun, Lifecycle!Report, Lifecycle!Open, Open, DoneSteps
  <2> QED
    BY <2>2 DEF Lifecycle!Next
<1>6. CASE CloseStep(r)
  <2>1. /\ current[r] \in 1..Steps /\ stepRow[r][current[r]] = Mirrored(seen[r])
        /\ seen[r] \in Ended
    BY <1>t, <1>6, StepsAssumption
       DEF CloseStep, TypeOK, RunInv, LoopInv, StepsInv, SeenInv, AtStep
  <2>2. stepRow' = stepRow
    BY <1>t, <1>6, <2>1 DEF CloseStep, SetStep, TypeOK, Mirrored
  <2> QED
    BY <1>6, <2>2, <1>s DEF CloseStep
<1>7. CASE Complete(r)
  <2>1. row[r] \in Open
    BY <1>t, <1>7 DEF Complete, RunInv, RowInv
  <2>2. CompletedSteps(r) = 1..Steps
    BY <1>t, <1>7, StepsAssumption
       DEF Complete, RunInv, LoopInv, StepsInv, PastLoop, CompletedSteps
  <2>3. Finished(r) = Steps
    <3>1. Cardinality(1..Steps) = Steps
      BY StepsAssumption, FS_Interval
    <3> QED
      BY <2>2, <3>1 DEF Finished, CompletedSteps
  <2>4. Lifecycle!Complete(r)
    BY <1>7, <1>s, <1>d, <2>1, <2>3
       DEF Complete, Lifecycle!Complete, Lifecycle!Open, Open, DoneSteps
  <2> QED
    BY <2>4 DEF Lifecycle!Next
<1>8. CASE FailRun(r)
  <2>1. row[r] \in Open
    BY <1>8, FailsOpen DEF FailRun
  <2>2. Lifecycle!Fail(r)
    BY <1>8, <1>s, <1>d, <2>1 DEF FailRun, Lifecycle!Fail, Lifecycle!Open, Open, DoneSteps
  <2> QED
    BY <2>2 DEF Lifecycle!Next
<1>9. CASE \/ CreateDax(r) \/ RecordStep(r) \/ RecordRun(r) \/ Poll(r) \/ PollTimeout(r)
           \/ Summary(r) \/ CountSuccess(r) \/ CountFailure(r) \/ Deadline(r)
           \/ DaxUnreachable(r) \/ DbFailure(r)
  <2>1. row' = row /\ stepRow' = stepRow
    BY <1>9 DEF CreateDax, RecordStep, RecordRun, Poll, PollTimeout, Summary,
                CountSuccess, CountFailure, Deadline, DaxUnreachable, DbFailure
  <2> QED
    BY <2>1, <1>s
<1> QED
  BY <1>1, <1>2, <1>3, <1>4, <1>5, <1>6, <1>7, <1>8, <1>9
     DEF RunStep, Advance, Delegate

\* With a database that does not fail, what readers of a run's row and of its
\* step rows see is the life RunLifecycle describes.
THEOREM Refinement ==
  ASSUME MaxDbFailures = 0
  PROVE  Spec => RowLifecycle
<1>1. Init => Lifecycle!Init
  <2> SUFFICES ASSUME Init
               PROVE  Lifecycle!Init
    OBVIOUS
  <2>1. ASSUME NEW q \in Runs
        PROVE  Finished(q) = 0
    <3>1. CompletedSteps(q) = {}
      BY DEF Init, CompletedSteps
    <3> QED
      BY <3>1, FS_EmptySet DEF Finished, CompletedSteps
  <2> QED
    BY <2>1 DEF Init, Lifecycle!Init
<1>2. IInv /\ [Next]_vars => [Lifecycle!Next]_(Lifecycle!lifecycle)
  <2> SUFFICES ASSUME IInv, [Next]_vars
               PROVE  Lifecycle!Next \/ (row' = row /\ DoneSteps' = DoneSteps)
    BY DEF Lifecycle!lifecycle, DoneSteps
  <2>s. stepRow' = stepRow => DoneSteps' = DoneSteps
    BY NoMoreDone
  <2>1. ASSUME NEW r \in Runs, RunStep(r)
        PROVE  Lifecycle!Next \/ (row' = row /\ DoneSteps' = DoneSteps)
    BY <2>1, RunStepRefines
  <2>2. ASSUME NEW r \in Runs, NEW k \in DaxSteps, Engine(r, k)
        PROVE  row' = row /\ DoneSteps' = DoneSteps
    BY <2>2, <2>s DEF Engine, rows
  <2>3. CASE Crash
    BY <2>3, <2>s DEF Crash, rows
  <2>4. CASE UNCHANGED vars
    BY <2>4, <2>s DEF vars, rows
  <2> QED
    BY <2>1, <2>2, <2>3, <2>4 DEF Next, RunStep
<1> QED
  BY <1>1, <1>2, Invariance, PTL DEF Spec, RowLifecycle, Lifecycle!Spec
=============================================================================
