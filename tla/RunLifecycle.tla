---------------------------- MODULE RunLifecycle ----------------------------
(***************************************************************************)
(* What a client that reads workflow-run rows may rely on: a run is        *)
(* announced, is in progress or waits for an approval, finishes its parts  *)
(* one after the other and ends once, as completed only when every part is *)
(* done. The engine behind the parts, the polling and the counters of      *)
(* WorkflowRuns are hidden here.                                           *)
(***************************************************************************)
EXTENDS Naturals

CONSTANTS
  Runs,    \* workflow runs
  Parts    \* how many parts each run has

VARIABLES
  status,  \* the status of each run's row
  done     \* how many of its parts are done

lifecycle == <<status, done>>

Open == {"running", "waiting_approval"}

Init ==
  /\ status = [r \in Runs |-> "none"]
  /\ done = [r \in Runs |-> 0]

Begin(r) ==
  /\ status[r] = "none"
  /\ status' = [status EXCEPT ![r] = "running"]
  /\ UNCHANGED done

\* An approval is asked for, or the wait for it is over.
Report(r) ==
  /\ status[r] \in Open
  /\ \E s \in Open : status' = [status EXCEPT ![r] = s]
  /\ UNCHANGED done

FinishPart(r) ==
  /\ status[r] \in Open
  /\ done[r] < Parts
  /\ done' = [done EXCEPT ![r] = @ + 1]
  /\ UNCHANGED status

Complete(r) ==
  /\ status[r] \in Open
  /\ done[r] = Parts
  /\ status' = [status EXCEPT ![r] = "completed"]
  /\ UNCHANGED done

Fail(r) ==
  /\ status[r] \in Open
  /\ status' = [status EXCEPT ![r] = "failed"]
  /\ UNCHANGED done

Next == \E r \in Runs :
  Begin(r) \/ Report(r) \/ FinishPart(r) \/ Complete(r) \/ Fail(r)

Spec == Init /\ [][Next]_lifecycle
=============================================================================
