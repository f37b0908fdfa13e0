------------------------------- MODULE Commands -------------------------------
(***************************************************************************)
(* Commands that the API runs in a shell (CommandsService), in three ways: *)
(*                                                                         *)
(*   - a terminal command, whose output is streamed as server-sent events  *)
(*     to the terminal page, which may leave at any time;                  *)
(*   - a recorded execution, whose status and output are kept in a row,    *)
(*     which the database may refuse to update;                            *)
(*   - a terminal command whose result is answered at its end, without a   *)
(*     stream and without a row.                                           *)
(*                                                                         *)
(* All spawn /bin/sh with a timer that kills it and read its pipes until  *)
(* they are closed.  The kill reaches the shell alone: a process that the  *)
(* shell has left behind keeps the pipes open, and 'close' waits for it.   *)
(*                                                                         *)
(* Output is counted in bytes; Limit stands for the 100 000 of the code.   *)
(***************************************************************************)
EXTENDS Naturals, Sequences

CONSTANTS Streams,      \* the terminal commands
          Records,      \* the executions whose result comes at the end, recorded or not
          Limit,        \* the bytes of output that are passed on (maxBytes)
          MaxOutput,    \* the bytes a command writes to a pipe at most
          MaxCrashes,   \* how often the API dies
          MaxFailures   \* how often the database refuses an update

ASSUME LimitAssumption == Limit \in Nat /\ MaxOutput \in Nat /\ MaxCrashes \in Nat /\ MaxFailures \in Nat
ASSUME KindsAssumption == Streams \cap Records = {}

Runs  == Streams \cup Records
Pipes == {"stdout", "stderr"}

VARIABLES
  at,         \* what the API is at for each run
  child,      \* its shell: none, alive, unspawned, killed, or how it exited
  pipe,       \* whether a process holds the ends the shell writes to
  timer,      \* "armed", "fired" (timedOut) or "off"
  written,    \* the bytes of each pipe that were read
  truncated,  \* the streams whose output was cut off
  listening,  \* the runs whose shell is asked to end when the request closes
  closed,     \* the requests that have closed
  signalled,  \* history: the shells that were asked to end
  late,       \* history: the runs whose request had closed before they started
  wire,       \* the events on their way to the page
  busy,       \* the streams whose page is reading (isRunning)
  shown,      \* the status of an execution, on the page, in its row or in the answer
  view,       \* the bytes that the page shows, and the marks of a cut
  crashes, failures

faults  == <<crashes, failures>>
process == <<child, pipe, timer>>
output  == <<written, truncated>>
request == <<listening, closed, signalled, late>>
page    == <<busy, shown, view>>
vars == <<at, process, output, request, wire, page, faults>>

Blank == [bytes |-> [p \in Pipes |-> 0], marks |-> 0]

Init ==
  /\ at = [r \in Runs |-> "idle"]
  /\ child = [r \in Runs |-> "none"] /\ pipe = [r \in Runs |-> FALSE] /\ timer = [r \in Runs |-> "off"]
  /\ written = [r \in Streams |-> [p \in Pipes |-> 0]] /\ truncated = {}
  /\ listening = {} /\ closed = {} /\ signalled = {} /\ late = {}
  /\ wire = [r \in Streams |-> << >>] /\ busy = {} /\ shown = [r \in Runs |-> "none"]
  /\ view = [r \in Streams |-> Blank]
  /\ crashes = 0 /\ failures = 0

Goes(r, to) == at' = [at EXCEPT ![r] = to]
Shows(r, s) == shown' = [shown EXCEPT ![r] = s]

(* The events of a stream, and the end of the connection, orderly or not. *)
Started == [type |-> "started"]
Failure == [type |-> "error"]
Chunk(p, n, cut)  == [type |-> "chunk", pipe |-> p, bytes |-> n, cut |-> cut]
Completed(status) == [type |-> "completed", status |-> status]
End     == [type |-> "end"]
Broken  == [type |-> "broken"]
Write(r, events) == wire' = [wire EXCEPT ![r] = IF r \in busy THEN @ \o events ELSE @]

-----------------------------------------------------------------------------
(* The shell. *)

(* spawn, and the timer: a shell that cannot be spawned is reported later. *)
Spawns(r) ==
  /\ \E how \in {"alive", "unspawned"} :
       child' = [child EXCEPT ![r] = how] /\ pipe' = [pipe EXCEPT ![r] = how = "alive"]
  /\ timer' = [timer EXCEPT ![r] = "armed"]

(* A live shell ends in one of some ways or, after a signal that it ignores, *)
(* lives on; what it has started may keep the pipes.                         *)
Ends(r, fates) ==
  /\ child[r] = "alive"
  /\ \E fate \in fates, kept \in BOOLEAN :
       child' = [child EXCEPT ![r] = fate] /\ pipe' = [pipe EXCEPT ![r] = kept \/ fate = "alive"]

(* What becomes of a shell after the API has died is not followed. *)
Exit(r) ==
  /\ at[r] # "dead" /\ Ends(r, {"zero", "nonzero"})
  /\ UNCHANGED <<at, timer, output, request, wire, page, faults>>

(* The last process that a shell has left behind exits. *)
Release(r) ==
  /\ at[r] # "dead" /\ child[r] # "alive" /\ pipe[r]
  /\ pipe' = [pipe EXCEPT ![r] = FALSE]
  /\ UNCHANGED <<at, child, timer, output, request, wire, page, faults>>

Signal(r, fates) == Ends(r, fates) \/ (child[r] # "alive" /\ UNCHANGED <<child, pipe>>)

(* Mutation: the flag is set, the shell is left alone. *)
TimeOutKindly(r) ==
  /\ at[r] = "running" /\ timer[r] = "armed"
  /\ timer' = [timer EXCEPT ![r] = "fired"]
  /\ UNCHANGED <<at, child, pipe, output, request, wire, page, faults>>

(* The timer of a run: SIGKILL. *)
TimeOut(r) ==
  /\ at[r] = "running" /\ timer[r] = "armed"
  /\ timer' = [timer EXCEPT ![r] = "fired"]
  /\ Signal(r, {"killed"})
  /\ UNCHANGED <<at, output, request, wire, page, faults>>

Exited(r) == child[r] \in {"zero", "nonzero", "killed"}
Off(r) == timer' = [timer EXCEPT ![r] = IF @ = "armed" THEN "off" ELSE @]
ExitStatus(r) == IF timer[r] # "fired" /\ child[r] = "zero" THEN "completed" ELSE "failed"

-----------------------------------------------------------------------------
(* Terminal commands: executeTerminalStream and the route that calls it. *)

(* The page submits a command; it runs one at a time. *)
Submit(r) ==
  /\ r \in Streams /\ at[r] = "idle" /\ busy = {}
  /\ Goes(r, "checking") /\ Shows(r, "running") /\ busy' = {r}
  /\ UNCHANGED <<process, output, request, wire, view, faults>>

(* No access, no such directory or a template with parameters: before anything *)
(* has started; a blocked pattern: after onStart.                              *)
Refuse(r) ==
  /\ r \in Streams /\ at[r] = "checking"
  /\ \E events \in {<<Failure, End>>, <<Started, Failure, End>>} : Write(r, events)
  /\ Goes(r, "refused")
  /\ UNCHANGED <<process, output, request, page, faults>>

(* Mutation: nobody listens for the abort. *)
StartDeaf(r) ==
  /\ r \in Streams /\ at[r] = "checking"
  /\ Write(r, <<Started>>)
  /\ Spawns(r)
  /\ late' = late \cup ({r} \cap closed)
  /\ Goes(r, "running")
  /\ UNCHANGED <<output, listening, closed, signalled, page, faults>>

(* onStart, spawn, timer, and the listener of the abort signal: when the      *)
(* signal was aborted during the checks before, no listener is ever called.   *)
Start(r) ==
  /\ r \in Streams /\ at[r] = "checking"
  /\ Write(r, <<Started>>)
  /\ Spawns(r)
  /\ listening' = listening \cup ({r} \ closed)
  /\ late' = late \cup ({r} \cap closed)
  /\ Goes(r, "running")
  /\ UNCHANGED <<output, closed, signalled, page, faults>>

(* 'data': what exceeds the limit of a pipe is cut off, and so is all output *)
(* of either pipe from then on.  The listeners stay until the pipes close.   *)
Data(r, p, n) ==
  LET sum == written[r][p] + n IN
  /\ r \in Streams \ truncated /\ child[r] \notin {"none", "unspawned"}
  /\ at[r] = "running" \/ (at[r] = "ended" /\ pipe[r])
  /\ sum <= MaxOutput
  /\ written' = [written EXCEPT ![r][p] = sum]
  /\ IF sum > Limit
     THEN truncated' = truncated \cup {r} /\ Write(r, <<Chunk(p, n - (sum - Limit), TRUE)>>)
     ELSE UNCHANGED truncated /\ Write(r, <<Chunk(p, n, FALSE)>>)
  /\ UNCHANGED <<at, process, request, page, faults>>

(* finalize, onComplete and the end of the response. *)
Finish(r, events) ==
  /\ Off(r)
  /\ listening' = listening \ {r}
  /\ Write(r, events)
  /\ Goes(r, "ended")
  /\ UNCHANGED <<child, pipe, output, closed, signalled, late, page, faults>>

(* Mutation: an error does not count as the end of the run. *)
SpawnFailsOpen(r) ==
  /\ r \in Streams /\ at[r] = "running" /\ child[r] = "unspawned"
  /\ Finish(r, <<Failure, End>>)

(* 'error': the shell could not be spawned. *)
SpawnFails(r) ==
  /\ r \in Streams /\ at[r] = "running" /\ child[r] = "unspawned"
  /\ Finish(r, <<Failure, Completed("failed"), End>>)

(* Mutation: 'exit' is taken for 'close'. *)
CloseAtExit(r) ==
  /\ r \in Streams /\ at[r] = "running" /\ Exited(r)
  /\ Finish(r, <<Completed(ExitStatus(r)), End>>)

(* 'close': the shell has exited and its pipes are closed. *)
Close(r) ==
  /\ r \in Streams /\ at[r] = "running" /\ Exited(r) /\ ~pipe[r]
  /\ Finish(r, <<Completed(ExitStatus(r)), End>>)

(* The request closes: when its page has left or, on a newer platform, as soon *)
(* as its body is read, which may be before the route listens and before the   *)
(* command is checked, while the page reads on.                                *)
RequestCloses(r) ==
  /\ r \in Streams \ closed
  /\ at[r] = "checking" \/ (at[r] = "running" /\ r \notin busy)
  /\ closed' = closed \cup {r} /\ listening' = listening \ {r}
  /\ IF r \in listening
     THEN Signal(r, {"killed", "alive"}) /\ signalled' = signalled \cup {r}
     ELSE UNCHANGED <<child, pipe, signalled>>
  /\ UNCHANGED <<at, timer, output, late, wire, page, faults>>

(* The page after an event. *)
After(v, e) ==
  IF e.type # "chunk" THEN v
  ELSE [bytes |-> [v.bytes EXCEPT ![e.pipe] = @ + e.bytes], marks |-> v.marks + (IF e.cut THEN 1 ELSE 0)]

(* streamTerminalCommand and the handlers of the page: the next event. *)
Read(r) ==
  /\ r \in busy /\ wire[r] # << >>
  /\ LET e == Head(wire[r]) IN
       /\ view' = [view EXCEPT ![r] = After(@, e)]
       /\ CASE e.type = "completed" -> Shows(r, e.status) /\ UNCHANGED busy
            [] e.type = "broken" -> Shows(r, "failed") /\ busy' = {}
            [] e.type = "end" -> busy' = {} /\ UNCHANGED shown
            [] OTHER -> UNCHANGED <<busy, shown>>
  /\ wire' = [wire EXCEPT ![r] = IF r \in busy' THEN Tail(@) ELSE << >>]
  /\ UNCHANGED <<at, process, output, request, faults>>

(* The operator terminates the command: the page stops to read. *)
Terminate(r) ==
  /\ r \in busy
  /\ busy' = {} /\ Shows(r, "failed")
  /\ wire' = [wire EXCEPT ![r] = << >>]
  /\ UNCHANGED <<at, process, output, request, view, faults>>

-----------------------------------------------------------------------------
(* Executions whose result comes at the end: execute, executeTerminal. *)

Create(r) ==
  /\ r \in Records /\ at[r] = "idle"
  /\ Goes(r, "pending") /\ Shows(r, "pending")
  /\ UNCHANGED <<process, output, request, wire, busy, view, faults>>

(* executeTerminal has no row: it checks the request, as Run may refuse it. *)
Ask(r) ==
  /\ r \in Records /\ at[r] = "idle"
  /\ Goes(r, "marked")
  /\ UNCHANGED <<process, output, request, wire, page, faults>>

(* The database refuses an update: the execution throws and its row stays. *)
UpdateFails(r) ==
  /\ failures < MaxFailures /\ failures' = failures + 1
  /\ Goes(r, "unsaved") /\ UNCHANGED shown

(* The row is set to running, before the command is looked at. *)
Begin(r) ==
  /\ at[r] = "pending"
  /\ \/ Goes(r, "marked") /\ Shows(r, "running") /\ UNCHANGED failures
     \/ UpdateFails(r)
  /\ UNCHANGED <<process, output, request, wire, busy, view, crashes>>

(* runCommandWithGuards throws on a blocked pattern, when the row says running. *)
Run(r) ==
  /\ at[r] = "marked"
  /\ \/ Goes(r, "refused") /\ UNCHANGED process
     \/ Goes(r, "running") /\ Spawns(r)
  /\ UNCHANGED <<output, request, wire, page, faults>>

Gather(r) ==
  /\ r \in Records /\ at[r] = "running" /\ Exited(r) /\ ~pipe[r]
  /\ Off(r) /\ Goes(r, "saving")
  /\ UNCHANGED <<child, pipe, output, request, wire, page, faults>>

(* The result goes into the row, if there is one, and to the caller. *)
Save(r) ==
  /\ at[r] = "saving"
  /\ \/ Goes(r, "ended") /\ Shows(r, ExitStatus(r)) /\ UNCHANGED failures
     \/ shown[r] = "running" /\ UpdateFails(r)
  /\ UNCHANGED <<process, output, request, wire, busy, view, crashes>>

-----------------------------------------------------------------------------
(* The API dies: with all its runs, whose shells live on unread. *)
Resting == {"idle", "ended", "refused", "unsaved", "dead"}
Dies ==
  /\ at' = [r \in Runs |-> IF at[r] \in Resting THEN at[r] ELSE "dead"]
  /\ timer' = [r \in Runs |-> IF timer[r] = "armed" THEN "off" ELSE timer[r]]
  /\ listening' = {}
  /\ wire' = [r \in Streams |-> IF r \in busy /\ at'[r] = "dead" THEN wire[r] \o <<Broken>> ELSE wire[r]]
  /\ UNCHANGED <<child, pipe, output, closed, signalled, late, page>>

(* A crash between the runs changes nothing. *)
Crash ==
  /\ \E r \in Runs : at[r] \notin Resting
  /\ crashes < MaxCrashes /\ crashes' = crashes + 1 /\ Dies /\ UNCHANGED failures

(* The 'error' of a shell that nobody handles, as in runCommandWithGuards, ends *)
(* the process.                                                                 *)
SpawnErrorUnhandled(r) ==
  /\ r \in Records /\ at[r] = "running" /\ child[r] = "unspawned"
  /\ Dies /\ UNCHANGED faults

-----------------------------------------------------------------------------
Checked(r) == Refuse(r) \/ Start(r)
Over(r) == SpawnFails(r) \/ Close(r) \/ Gather(r) \/ SpawnErrorUnhandled(r)
Recorded(r) == Begin(r) \/ Run(r) \/ Save(r)

Next ==
  \/ \E r \in Runs : \/ Submit(r) \/ Checked(r) \/ Over(r) \/ RequestCloses(r) \/ Read(r) \/ Terminate(r)
                     \/ Create(r) \/ Ask(r) \/ Recorded(r)
                     \/ Exit(r) \/ Release(r) \/ TimeOut(r)
  \/ \E r \in Streams, p \in Pipes, n \in 1 .. MaxOutput : Data(r, p, n)
  \/ Crash

(* The API and the page are scheduled; commands need not end by themselves. *)
Fairness == \A r \in Runs : /\ WF_vars(Checked(r)) /\ WF_vars(Over(r)) /\ WF_vars(Recorded(r))
                            /\ WF_vars(TimeOut(r)) /\ WF_vars(Read(r))

Spec == Init /\ [][Next]_vars /\ Fairness

-----------------------------------------------------------------------------
(* Types. *)
Event == [type : {"started", "error", "end", "broken"}]
  \cup [type : {"chunk"}, pipe : Pipes, bytes : Nat, cut : BOOLEAN]
  \cup [type : {"completed"}, status : {"completed", "failed"}]

TypeOK ==
  /\ at \in [Runs -> {"idle", "checking", "pending", "marked", "running", "saving", "ended", "refused",
                      "unsaved", "dead"}]
  /\ child \in [Runs -> {"none", "alive", "unspawned", "killed", "zero", "nonzero"}]
  /\ pipe \in [Runs -> BOOLEAN] /\ timer \in [Runs -> {"off", "armed", "fired"}]
  /\ written \in [Streams -> [Pipes -> 0 .. MaxOutput]] /\ truncated \subseteq Streams
  /\ listening \subseteq Streams /\ closed \subseteq Streams /\ signalled \subseteq Streams /\ late \subseteq Streams
  /\ wire \in [Streams -> Seq(Event)] /\ busy \subseteq Streams
  /\ shown \in [Runs -> {"none", "pending", "running", "completed", "failed"}]
  /\ view \in [Streams -> [bytes : [Pipes -> Nat], marks : Nat]] /\ crashes \in 0 .. MaxCrashes
  /\ failures \in 0 .. MaxFailures

(* An execution that is shown or answered as completed has run to its end in *)
(* time and with code 0; and the page shows of each pipe all that was read   *)
(* until one of the two exceeded the limit, and no more than the limit, with *)
(* at most one mark of a cut in both ('close' after 'data').                 *)
Expected(r, p) == IF written[r][p] < Limit THEN written[r][p] ELSE Limit
ResultIsTrue ==
  /\ \A r \in Runs : shown[r] = "completed" => child[r] = "zero" /\ timer[r] # "fired"
  /\ \A r \in Streams : /\ view[r].marks <= 1
                         /\ \A p \in Pipes : /\ view[r].bytes[p] <= Limit
                                              /\ shown[r] = "completed" => view[r].bytes[p] = Expected(r, p)

(* What is shown as pending or running is being run; or else it was refused  *)
(* after its row said running, or the API died during it, or the database    *)
(* refused the update that would have changed it.  Those rows nobody         *)
(* changes any more; there is no other way to leave one behind (execute has  *)
(* no catch, and nothing looks for such rows when the API starts).           *)
RunningIsMinded ==
  /\ \A r \in Runs : shown[r] = "running" =>
       \/ r \in busy
       \/ r \in Records /\ at[r] \in {"marked", "running", "saving", "unsaved", "dead"}
       \/ at[r] = "refused"
  /\ \A r \in Records : shown[r] = "pending" => at[r] \in {"pending", "unsaved", "dead"}

(* When the request has closed, the shell has been asked to end, unless the  *)
(* request closed before there was a shell, as it always does on a platform  *)
(* that closes it once its body is read: no page that leaves stops a command *)
(* there (listener of the abort signal).                                     *)
LeavingStopsCommands ==
  \A r \in closed : child[r] = "alive" /\ at[r] = "running" => r \in signalled \/ r \in late

(* Every run is over in the end, at the latest by its timer; unless what the *)
(* shell has started keeps the pipes open for ever, which no timer ends.     *)
RunsEnd ==
  \A r \in Runs : \/ at[r] # "idle" ~> at[r] \in {"ended", "refused", "unsaved", "dead"}
                  \/ <>[](pipe[r] /\ Exited(r))
=============================================================================
