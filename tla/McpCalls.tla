------------------------------ MODULE McpCalls ------------------------------
(***************************************************************************)
(* The tool-call path of the API's McpService                              *)
(* (apps/api/src/modules/mcp/mcp.service.ts): a limiter that runs at most  *)
(* MaxConcurrent calls and parks at most MaxQueue more, and, for every     *)
(* call that runs, one workspace-mcp child process that is driven over     *)
(* JSON-RPC lines: initialize, then tools/call, then one answer.           *)
(*                                                                         *)
(* Node runs one callback at a time, so one action is one callback: a      *)
(* request that reaches callTool, a timer, a stdout line, an exit event.   *)
(* A promise that settles runs the finally of startCall, and with it       *)
(* drainQueue, before any other callback: the same action does it all.     *)
(* The child process is external and is modelled by what the protocol of   *)
(* the service lets it do.                                                 *)
(***************************************************************************)
EXTENDS Naturals, Sequences, FiniteSets, SequencesExt

CONSTANTS
  Calls,          \* the tool calls that requests may make
  Allowlisted,    \* the calls whose tool getAllowedTools contains
  MaxConcurrent,  \* MCP_MAX_CONCURRENT_CALLS
  MaxQueue        \* MCP_MAX_QUEUE_SIZE

\* The ranges that env.validation.ts (lines 123-124) enforces at start-up.
ASSUME LimitsAssumption ==
  /\ MaxConcurrent \in Nat \ {0}
  /\ MaxQueue \in Nat

ASSUME CallsAssumption == IsFiniteSet(Calls) /\ Allowlisted \subseteq Calls

VARIABLES
  inflight,   \* inflightCalls
  queue,      \* queuedCalls, oldest first
  counter,    \* queueCounter
  ticket,     \* the id that a queued call was given
  call,       \* what the caller's promise is doing
  proc,       \* the child process and the locals of callToolProcess
  executed    \* the calls whose tool the child has run

vars == <<inflight, queue, counter, ticket, call, proc, executed>>

-----------------------------------------------------------------------------
(* Types *)

Rejected == {"forbidden", "queueFull", "queueTimeout"}
Outcomes == {"resolved", "failed"}
CallStates == {"idle", "queued", "running"} \cup Outcomes \cup Rejected

\* "killed" has SIGTERM pending; the exit codes and "signal" have exited, and
\* are "closed" once the close event is delivered.
Exited == {"zero", "nonzero", "signal"}
ChildStates == {"none", "alive", "killed", "closed"} \cup Exited

Requests == {"initialize", "tools/call"}
Lines == {"initResult", "initEmpty", "toolResult", "error"}

Procs == [child : ChildStates, initialized : BOOLEAN, timer : BOOLEAN,
          stdin : Seq(Requests), stdout : Seq(Lines)]

TypeOK ==
  /\ inflight \in Nat
  /\ queue \in Seq(Calls)
  /\ counter \in Nat
  /\ ticket \in [Calls -> Nat]
  /\ call \in [Calls -> CallStates]
  /\ proc \in [Calls -> Procs]
  /\ executed \subseteq Calls

NotSpawned == [child |-> "none", initialized |-> FALSE, timer |-> FALSE,
               stdin |-> <<>>, stdout |-> <<>>]

\* callToolProcess up to its first await: spawned, timer armed, initialize sent.
Spawned == [child |-> "alive", initialized |-> FALSE, timer |-> TRUE,
            stdin |-> <<"initialize">>, stdout |-> <<>>]

Init ==
  /\ inflight = 0
  /\ queue = <<>>
  /\ counter = 0
  /\ ticket = [c \in Calls |-> 0]
  /\ call = [c \in Calls |-> "idle"]
  /\ proc = [c \in Calls |-> NotSpawned]
  /\ executed = {}

-----------------------------------------------------------------------------
(* callAllowedTool and callWithConcurrencyLimit *)

RefuseTool(c) ==
  /\ call[c] = "idle"
  /\ c \notin Allowlisted
  /\ call' = [call EXCEPT ![c] = "forbidden"]
  /\ UNCHANGED <<inflight, queue, counter, ticket, proc, executed>>

\* There is a free slot: startCall runs at once.
StartCall(c) ==
  /\ call[c] = "idle"
  /\ c \in Allowlisted
  /\ inflight < MaxConcurrent
  /\ inflight' = inflight + 1
  /\ call' = [call EXCEPT ![c] = "running"]
  /\ proc' = [proc EXCEPT ![c] = Spawned]
  /\ UNCHANGED <<queue, counter, ticket, executed>>

RejectFull(c) ==
  /\ call[c] = "idle"
  /\ c \in Allowlisted
  /\ inflight >= MaxConcurrent
  /\ Len(queue) >= MaxQueue
  /\ call' = [call EXCEPT ![c] = "queueFull"]
  /\ UNCHANGED <<inflight, queue, counter, ticket, proc, executed>>

Enqueue(c) ==
  /\ call[c] = "idle"
  /\ c \in Allowlisted
  /\ inflight >= MaxConcurrent
  /\ Len(queue) < MaxQueue
  /\ counter' = counter + 1
  /\ ticket' = [ticket EXCEPT ![c] = counter + 1]
  /\ queue' = Append(queue, c)
  /\ call' = [call EXCEPT ![c] = "queued"]
  /\ UNCHANGED <<inflight, proc, executed>>

\* Mutant: the caller is rejected but its entry stays in the queue.
QueueWaitKeepsEntry(c) ==
  /\ call[c] = "queued"
  /\ call' = [call EXCEPT ![c] = "queueTimeout"]
  /\ UNCHANGED <<inflight, queue, counter, ticket, proc, executed>>

\* Mutant: the wait timer is never armed.
QueueWaitNeverArmed(c) == FALSE /\ c \in Calls /\ UNCHANGED vars

\* MCP_MAX_QUEUE_WAIT_MS has passed: the entry is found by its id and spliced
\* out. drainQueue clears this timer when it takes the entry.
QueueWaitExceeded(c) ==
  /\ call[c] = "queued"
  /\ \E i \in DOMAIN queue : queue[i] = c /\ queue' = RemoveAt(queue, i)
  /\ call' = [call EXCEPT ![c] = "queueTimeout"]
  /\ UNCHANGED <<inflight, counter, ticket, proc, executed>>

-----------------------------------------------------------------------------
(* Settling a running call *)

\* Mutant: the child is left running.
NotKilled(p) == p

\* finishOk and finishError end with child.kill('SIGTERM').
Killed(p) == IF p.child = "alive" THEN [p EXCEPT !.child = "killed"] ELSE p

\* How many queued calls the loop of drainQueue starts once the finally of
\* startCall has released a slot.
Freed == IF inflight > 0 THEN inflight - 1 ELSE 0
DrainCount ==
  IF Freed >= MaxConcurrent THEN 0
  ELSE IF Len(queue) <= MaxConcurrent - Freed THEN Len(queue)
  ELSE MaxConcurrent - Freed
\* Mutant: pop instead of shift.
DrainedNewest == {queue[i] : i \in (Len(queue) - DrainCount + 1)..Len(queue)}
Drained == {queue[i] : i \in 1..DrainCount}

\* Mutant: finishOk and finishError without the settled flag.
SettleAgain(c, outcome, p) ==
  /\ call' = [call EXCEPT ![c] = outcome]
  /\ proc' = [proc EXCEPT ![c] = Killed(p)]
  /\ inflight' = Freed
  /\ UNCHANGED queue

\* Mutant: the slot is released although a process settled before, and the
\* promise keeps its first outcome.
SettleReleasesTwice(c, outcome, p) ==
  /\ call' = IF call[c] = "running" THEN [call EXCEPT ![c] = outcome] ELSE call
  /\ proc' = [proc EXCEPT ![c] = Killed(p)]
  /\ inflight' = Freed
  /\ UNCHANGED queue

\* Call c settles with this outcome, its process being p: the promise is
\* settled, the slot released and the queue drained. A process whose promise
\* has settled before only keeps its own bookkeeping.
Settle(c, outcome, p) ==
  IF call[c] = "running"
  THEN /\ call' = [d \in Calls |-> IF d = c THEN outcome
                                   ELSE IF d \in Drained THEN "running"
                                   ELSE call[d]]
       /\ proc' = [d \in Calls |-> IF d = c THEN Killed(p)
                                   ELSE IF d \in Drained THEN Spawned
                                   ELSE proc[d]]
       /\ inflight' = Freed + DrainCount
       /\ queue' = SubSeq(queue, DrainCount + 1, Len(queue))
  ELSE /\ proc' = [proc EXCEPT ![c] = p]
       /\ UNCHANGED <<inflight, queue, call>>

\* The call's own timer (MCP_TIMEOUT_MS) fires.
CallTimeout(c) ==
  /\ proc[c].timer
  /\ Settle(c, "failed", [proc[c] EXCEPT !.timer = FALSE])
  /\ UNCHANGED <<counter, ticket, executed>>

\* The binary cannot be started: the child emits 'error', and closes later.
SpawnError(c) ==
  /\ proc[c].child = "alive"
  /\ proc[c].stdin = <<"initialize">>
  /\ Settle(c, "failed", [proc[c] EXCEPT !.child = "nonzero", !.timer = FALSE,
                                         !.stdin = <<>>])
  /\ UNCHANGED <<counter, ticket, executed>>

\* Mutant: any result line is taken for the tool's answer, whatever its id.
ReadLineAnyId(c) ==
  /\ proc[c].stdout # <<>>
  /\ LET line == Head(proc[c].stdout)
         done == [proc[c] EXCEPT !.stdout = Tail(@), !.timer = FALSE]
     IN Settle(c, IF line = "error" THEN "failed" ELSE "resolved", done)
  /\ UNCHANGED <<counter, ticket, executed>>

\* One line of stdout reaches handleLine. A result without its id expected, or
\* an initialize answer without a result, is read and ignored.
ReadLine(c) ==
  /\ proc[c].stdout # <<>>
  /\ LET line == Head(proc[c].stdout)
         rest == [proc[c] EXCEPT !.stdout = Tail(@)]
         done == [rest EXCEPT !.timer = FALSE]
     IN \/ /\ line = "error"
           /\ Settle(c, "failed", done)
        \/ /\ line = "initResult" /\ ~rest.initialized
           /\ proc' = [proc EXCEPT ![c] =
                [rest EXCEPT !.initialized = TRUE,
                             !.stdin = Append(@, "tools/call")]]
           /\ UNCHANGED <<inflight, queue, call>>
        \/ /\ line = "toolResult" /\ rest.initialized
           /\ Settle(c, "resolved", done)
        \/ /\ \/ line = "initEmpty"
              \/ line = "initResult" /\ rest.initialized
              \/ line = "toolResult" /\ ~rest.initialized
           /\ proc' = [proc EXCEPT ![c] = rest]
           /\ UNCHANGED <<inflight, queue, call>>
  /\ UNCHANGED <<counter, ticket, executed>>

\* The 'close' event: the child has exited and its pipes are drained. The timer
\* is cleared whatever the exit code; the promise is rejected unless it
\* is zero. Nothing reads the other locals again.
Close(c) ==
  /\ proc[c].child \in Exited
  /\ proc[c].stdout = <<>>
  /\ LET p == [NotSpawned EXCEPT !.child = "closed"]
     IN IF proc[c].child # "zero"
        THEN Settle(c, "failed", p)
        ELSE /\ proc' = [proc EXCEPT ![c] = p]
             /\ UNCHANGED <<inflight, queue, call>>
  /\ UNCHANGED <<counter, ticket, executed>>

-----------------------------------------------------------------------------
(* The child process (external: the workspace-mcp server) *)

Answers(request) ==
  IF request = "initialize" THEN {"initResult", "initEmpty", "error"}
                            ELSE {"toolResult", "error"}

\* It serves the oldest request; tools/call runs the tool, also when it is
\* answered with an error.
Serve(c) ==
  /\ proc[c].child \in {"alive", "killed"}
  /\ proc[c].stdin # <<>>
  /\ LET request == Head(proc[c].stdin)
     IN /\ \E line \in Answers(request) :
             proc' = [proc EXCEPT ![c].stdin = Tail(@),
                                  ![c].stdout = Append(@, line)]
        /\ executed' = IF request = "tools/call" THEN executed \cup {c}
                       ELSE executed
  /\ UNCHANGED <<inflight, queue, counter, ticket, call>>

\* It exits, by itself with either kind of code or because of the SIGTERM (with
\* what code no longer matters then: its promise has settled).
Exit(c) ==
  /\ \/ /\ proc[c].child = "alive"
        /\ \E code \in {"zero", "nonzero"} :
             proc' = [proc EXCEPT ![c].child = code, ![c].stdin = <<>>]
     \/ /\ proc[c].child = "killed"
        /\ proc' = [proc EXCEPT ![c].child = "signal", ![c].stdin = <<>>]
  /\ UNCHANGED <<inflight, queue, counter, ticket, call, executed>>

-----------------------------------------------------------------------------
Limiter(c) ==
  \/ RefuseTool(c) \/ StartCall(c) \/ RejectFull(c) \/ Enqueue(c)
  \/ QueueWaitExceeded(c)

Process(c) == CallTimeout(c) \/ SpawnError(c) \/ ReadLine(c) \/ Close(c)

Child(c) == Serve(c) \/ Exit(c)

Next == \E c \in Calls : Limiter(c) \/ Process(c) \/ Child(c)

\* Node delivers what is due: an armed timer fires, and so do the close event
\* and the readable pipe. Nothing is assumed of the child or of the callers.
Fairness ==
  \A c \in Calls : /\ WF_vars(QueueWaitExceeded(c))
                   /\ WF_vars(CallTimeout(c))
                   /\ WF_vars(ReadLine(c))
                   /\ WF_vars(Close(c))

Spec == Init /\ [][Next]_vars /\ Fairness

-----------------------------------------------------------------------------
(* Properties *)

Running == {c \in Calls : call[c] = "running"}

\* The child left with code 0 before it answered: close cleared the timer and
\* settled nothing, so the call keeps its slot for as long as the API lives.
HungUp(c) == call[c] = "running" /\ proc[c].child = "closed"

\* inflightCalls counts exactly the calls that hold a slot, and the limit
\* holds: no path (late timer, late line, close after settling) releases a slot
\* twice or takes one it does not release.
SlotAccounting ==
  /\ inflight = Cardinality(Running)
  /\ inflight <= MaxConcurrent

\* The queue holds exactly the waiting calls, once each and within its bound,
\* and no call waits while a slot is free.
QueueDiscipline ==
  /\ IsInjective(queue)
  /\ ToSet(queue) = {c \in Calls : call[c] = "queued"}
  /\ Len(queue) <= MaxQueue
  /\ queue # <<>> => inflight = MaxConcurrent

\* A call never starts while a call that was queued before it still waits.
NoOvertaking ==
  [][\A c, d \in Calls :
       call[c] = "queued" /\ call[d] = "queued" /\ ticket[c] < ticket[d]
       /\ call'[d] = "running" => call'[c] # "queued"]_vars

\* The caller's promise settles once: a timer, a line or an exit that comes
\* after the outcome never changes it, nor restarts a call that was rejected.
SettledForGood ==
  [][\A c \in Calls : call[c] \in Outcomes \cup Rejected => call'[c] = call[c]]_vars

\* A result that a caller gets is the result of its tool having run, and a call
\* that was turned away or is still waiting has had no effect.
EffectsMatchOutcomes ==
  \A c \in Calls :
    /\ call[c] = "resolved" => c \in executed
    /\ call[c] \in {"idle", "queued"} \cup Rejected => c \notin executed

\* Whatever settles a call also takes its child down; and a call that has not
\* settled still has its timer, or its child closed with code 0 unanswered.
ProcessesAreMinded ==
  \A c \in Calls :
    /\ call[c] \in Outcomes => proc[c].child # "alive" /\ ~proc[c].timer
    /\ call[c] = "running" => proc[c].timer \/ HungUp(c)

\* Every call that is made is eventually answered, with the one exception of a
\* child that exits with code 0 unanswered; also the calls queued behind it.
EveryCallAnswered ==
  \A c \in Calls :
    call[c] # "idle" ~> call[c] \in Outcomes \cup Rejected \/ HungUp(c)
=============================================================================
