--------------------------- MODULE McpCallsProofs ---------------------------
(***************************************************************************)
(* The limiter of McpCalls, for every set of calls and every limit: type   *)
(* correctness, the slot accounting, the queue discipline, the order in    *)
(* which waiting calls start, that an outcome is final, that it is the one *)
(* its process gave, and that no process is left unminded.                 *)
(*                                                                         *)
(* SlotAccounting is not inductive alone: releasing a slot and draining    *)
(* the queue keeps the count only because the drained call was a waiting   *)
(* one (the queue holds exactly those, once each) and because a call waits *)
(* only when every slot is taken (so that one release starts one call).    *)
(***************************************************************************)
EXTENDS McpCalls, FiniteSetTheorems, TLAPS

\* The queue is in the order of the tickets, and no ticket is from the future.
TicketOrder ==
  /\ \A i, j \in DOMAIN queue : i < j => ticket[queue[i]] < ticket[queue[j]]
  /\ \A c \in Calls : ticket[c] <= counter

\* The inductive invariant.
IInv == TypeOK /\ SlotAccounting /\ QueueDiscipline /\ TicketOrder

-----------------------------------------------------------------------------
(* Sequences *)

\* Splicing one element out keeps the others in their order.
LEMMA RemoveAtProperties ==
  ASSUME NEW S, NEW s \in Seq(S), NEW i \in 1..Len(s)
  PROVE  /\ RemoveAt(s, i) \in Seq(S)
         /\ Len(RemoveAt(s, i)) = Len(s) - 1
         /\ \A j \in 1..Len(s) - 1 :
              RemoveAt(s, i)[j] = IF j < i THEN s[j] ELSE s[j + 1]
<1> DEFINE before == SubSeq(s, 1, i - 1)
           after == SubSeq(s, i + 1, Len(s))
<1>1. /\ before \in Seq(S) /\ Len(before) = i - 1
      /\ \A j \in 1..i - 1 : before[j] = s[j]
  OBVIOUS
<1>2. /\ after \in Seq(S) /\ Len(after) = Len(s) - i
      /\ \A j \in 1..Len(s) - i : after[j] = s[j + i]
  OBVIOUS
<1>3. RemoveAt(s, i) = before \o after
  BY DEF RemoveAt
<1> HIDE DEF before, after
<1>4. /\ before \o after \in Seq(S)
      /\ Len(before \o after) = Len(s) - 1
  BY <1>1, <1>2
<1>5. ASSUME NEW j \in 1..Len(s) - 1
      PROVE  (before \o after)[j] = IF j < i THEN s[j] ELSE s[j + 1]
  BY <1>1, <1>2
<1> QED
  BY <1>3, <1>4, <1>5

\* What is left of a sequence after its first element.
LEMMA DropFirst ==
  ASSUME NEW S, NEW s \in Seq(S), s # <<>>
  PROVE  /\ SubSeq(s, 2, Len(s)) \in Seq(S)
         /\ Len(SubSeq(s, 2, Len(s))) = Len(s) - 1
         /\ \A j \in 1..Len(s) - 1 : SubSeq(s, 2, Len(s))[j] = s[j + 1]
<1>1. Len(s) \in Nat /\ Len(s) >= 1
  OBVIOUS
<1>2. SubSeq(s, 2, Len(s)) \in Seq(S)
  BY <1>1, SMTT(30)
<1>3. Len(SubSeq(s, 2, Len(s))) = Len(s) - 1
  BY <1>1, SMTT(30)
<1>4. ASSUME NEW j \in 1..Len(s) - 1
      PROVE  SubSeq(s, 2, Len(s))[j] = s[j + 1]
  BY <1>1, <1>3, SMTT(30)
<1> QED BY <1>2, <1>3, <1>4

\* Taking one element out of a sequence without repetitions takes exactly that
\* element out of its set. The result is given by its elements, which is how
\* both DropFirst (i = 1) and RemoveAtProperties give it.
IsWithout(t, s, i) ==
  /\ Len(t) = Len(s) - 1
  /\ \A j \in 1..Len(s) - 1 : t[j] = IF j < i THEN s[j] ELSE s[j + 1]

LEMMA RemovalSet ==
  ASSUME NEW S, NEW s \in Seq(S), NEW i \in 1..Len(s), IsInjective(s),
         NEW t \in Seq(S), IsWithout(t, s, i)
  PROVE  IsInjective(t) /\ ToSet(t) = ToSet(s) \ {s[i]}
<1>0. /\ Len(t) = Len(s) - 1
      /\ \A j \in 1..Len(s) - 1 : t[j] = IF j < i THEN s[j] ELSE s[j + 1]
  BY DEF IsWithout
<1>1. DOMAIN s = 1..Len(s) /\ DOMAIN t = 1..Len(s) - 1 /\ Len(s) \in Nat
  BY <1>0
<1>2. \A j, k \in 1..Len(s) : s[j] = s[k] => j = k
  BY <1>1 DEF IsInjective
<1>3. IsInjective(t)
  <2> SUFFICES ASSUME NEW j \in 1..Len(s) - 1, NEW k \in 1..Len(s) - 1, t[j] = t[k]
               PROVE  j = k
    BY <1>1 DEF IsInjective
  <2> QED
    BY <1>0, <1>1, <1>2
<1>4. ASSUME NEW x \in ToSet(s) \ {s[i]} PROVE x \in ToSet(t)
  <2>1. PICK k \in 1..Len(s) : s[k] = x /\ k # i
    BY <1>1, <1>4 DEF ToSet
  <2>2. CASE k < i
    <3>1. k \in 1..Len(s) - 1 /\ t[k] = x
      BY <2>1, <2>2, <1>0, <1>1
    <3> QED
      BY <3>1, <1>1 DEF ToSet
  <2>3. CASE k > i
    <3>1. k - 1 \in 1..Len(s) - 1 /\ ~(k - 1 < i) /\ (k - 1) + 1 = k
      BY <2>1, <2>3, <1>1
    <3>2. t[k - 1] = x
      BY <1>0, <2>1, <3>1
    <3> QED
      BY <3>1, <3>2, <1>1 DEF ToSet
  <2> QED
    BY <2>1, <2>2, <2>3
<1>5. ASSUME NEW x \in ToSet(t) PROVE x \in ToSet(s) \ {s[i]}
  <2>1. PICK j \in 1..Len(s) - 1 : t[j] = x
    BY <1>1, <1>5 DEF ToSet
  <2>2. PICK k \in 1..Len(s) : s[k] = x /\ k # i
    BY <2>1, <1>0, <1>1
  <2> QED
    BY <2>2, <1>1, <1>2 DEF ToSet
<1> QED
  BY <1>3, <1>4, <1>5

LEMMA AppendSet ==
  ASSUME NEW S, NEW s \in Seq(S), NEW e \in S, IsInjective(s), e \notin ToSet(s)
  PROVE  IsInjective(Append(s, e)) /\ ToSet(Append(s, e)) = ToSet(s) \cup {e}
<1> DEFINE t == Append(s, e)
<1>1. /\ DOMAIN s = 1..Len(s) /\ Len(s) \in Nat
      /\ DOMAIN t = 1..Len(s) + 1
      /\ \A j \in 1..Len(s) : t[j] = s[j]
      /\ t[Len(s) + 1] = e
  OBVIOUS
<1> HIDE DEF t
<1>2. \A j \in 1..Len(s) : s[j] # e
  BY <1>1 DEF ToSet
<1>3. IsInjective(t)
  <2> SUFFICES ASSUME NEW j \in 1..Len(s) + 1, NEW k \in 1..Len(s) + 1, t[j] = t[k]
               PROVE  j = k
    BY <1>1 DEF IsInjective
  <2>1. \A m \in 1..Len(s) + 1 : m \in 1..Len(s) \/ m = Len(s) + 1
    BY <1>1
  <2> QED
    BY <1>1, <1>2, <2>1 DEF IsInjective
<1>4. ASSUME NEW x \in ToSet(t) PROVE x \in ToSet(s) \cup {e}
  BY <1>1, <1>4 DEF ToSet
<1>5. ASSUME NEW x \in ToSet(s) \cup {e} PROVE x \in ToSet(t)
  <2>1. 1..Len(s) \subseteq 1..Len(s) + 1 /\ Len(s) + 1 \in 1..Len(s) + 1
    BY <1>1
  <2> QED
    BY <1>1, <1>5, <2>1 DEF ToSet
<1> QED
  BY <1>3, <1>4, <1>5 DEF t

-----------------------------------------------------------------------------
(* Type correctness *)

LEMMA ProcTypes ==
  /\ NotSpawned \in Procs
  /\ Spawned \in Procs
  /\ \A p \in Procs : Killed(p) \in Procs
  BY DEF NotSpawned, Spawned, Killed, Procs, ChildStates, Exited, Requests, Lines

\* The loop of drainQueue never starts more calls than wait.
LEMMA DrainBounds ==
  ASSUME TypeOK
  PROVE  /\ Freed \in Nat
         /\ DrainCount \in 0..Len(queue)
  BY LimitsAssumption DEF TypeOK, Freed, DrainCount

LEMMA SettleTypes ==
  ASSUME TypeOK, NEW c \in Calls, NEW o \in Outcomes, NEW p \in Procs,
         Settle(c, o, p), UNCHANGED <<counter, ticket, executed>>
  PROVE  TypeOK'
<1>1. CASE call[c] = "running"
  <2>1. /\ inflight' = Freed + DrainCount
        /\ queue' = SubSeq(queue, DrainCount + 1, Len(queue))
        /\ call' = [d \in Calls |-> IF d = c THEN o
                                   ELSE IF d \in Drained THEN "running"
                                   ELSE call[d]]
        /\ proc' = [d \in Calls |-> IF d = c THEN Killed(p)
                                   ELSE IF d \in Drained THEN Spawned
                                   ELSE proc[d]]
    BY <1>1 DEF Settle
  <2>2. inflight' \in Nat /\ queue' \in Seq(Calls)
    BY <2>1, DrainBounds DEF TypeOK
  <2>3. call' \in [Calls -> CallStates]
    BY <2>1 DEF TypeOK, CallStates, Outcomes
  <2>4. proc' \in [Calls -> Procs]
    BY <2>1, ProcTypes DEF TypeOK
  <2> QED
    BY <2>2, <2>3, <2>4 DEF TypeOK
<1>2. CASE call[c] # "running"
  BY <1>2 DEF Settle, TypeOK
<1> QED
  BY <1>1, <1>2

\* What each handler of a child process hands to Settle is a process record.
LEMMA HandlerTypes ==
  ASSUME TypeOK, NEW c \in Calls
  PROVE  /\ [proc[c] EXCEPT !.timer = FALSE] \in Procs
         /\ [proc[c] EXCEPT !.child = "nonzero", !.timer = FALSE,
                            !.stdin = <<>>] \in Procs
         /\ [NotSpawned EXCEPT !.child = "closed"] \in Procs
         /\ \A code \in Exited :
              [proc[c] EXCEPT !.child = code, !.stdin = <<>>] \in Procs
<1>1. proc[c] \in Procs
  BY DEF TypeOK
<1>2. <<>> \in Seq(Requests) /\ <<>> \in Seq(Lines)
  OBVIOUS
<1>3. ASSUME NEW code \in Exited
      PROVE  [proc[c] EXCEPT !.child = code, !.stdin = <<>>] \in Procs
  BY <1>1, <1>2 DEF Procs, ChildStates
<1>4. [proc[c] EXCEPT !.child = "nonzero", !.timer = FALSE,
                     !.stdin = <<>>] \in Procs
  BY <1>1, <1>2 DEF Procs, ChildStates, Exited
<1>5. [proc[c] EXCEPT !.timer = FALSE] \in Procs
  BY <1>1 DEF Procs
<1>6. [NotSpawned EXCEPT !.child = "closed"] \in Procs
  BY <1>2 DEF NotSpawned, Procs, ChildStates
<1> QED
  BY <1>3, <1>4, <1>5, <1>6

LEMMA LineTypes ==
  ASSUME TypeOK, NEW c \in Calls, proc[c].stdout # <<>>
  PROVE  LET rest == [proc[c] EXCEPT !.stdout = Tail(@)]
         IN /\ rest \in Procs
            /\ [rest EXCEPT !.timer = FALSE] \in Procs
            /\ [rest EXCEPT !.initialized = TRUE,
                            !.stdin = Append(@, "tools/call")] \in Procs
<1>1. proc[c] \in Procs
  BY DEF TypeOK
<1>2. proc[c].stdout \in Seq(Lines) /\ Tail(proc[c].stdout) \in Seq(Lines)
  BY <1>1 DEF Procs
<1>3. proc[c].stdin \in Seq(Requests)
      /\ Append(proc[c].stdin, "tools/call") \in Seq(Requests)
  BY <1>1 DEF Procs, Requests
<1> QED
  BY <1>1, <1>2, <1>3 DEF Procs

\* How a child-process handler changes the limiter's state: it settles its call,
\* or it leaves the limiter alone and only keeps its process record.
LEMMA ProcessSteps ==
  ASSUME TypeOK, NEW c \in Calls, Process(c)
  PROVE  /\ UNCHANGED <<counter, ticket, executed>>
         /\ \/ \E o \in Outcomes, p \in Procs : Settle(c, o, p)
            \/ /\ UNCHANGED <<inflight, queue, call>>
               /\ proc' \in [Calls -> Procs]
<1>1. CASE CallTimeout(c)
  <2>1. Settle(c, "failed", [proc[c] EXCEPT !.timer = FALSE])
    BY <1>1 DEF CallTimeout
  <2> QED
    BY <1>1, <2>1, HandlerTypes DEF CallTimeout, Outcomes
<1>2. CASE SpawnError(c)
  <2>1. Settle(c, "failed", [proc[c] EXCEPT !.child = "nonzero", !.timer = FALSE,
                                            !.stdin = <<>>])
    BY <1>2 DEF SpawnError
  <2> QED
    BY <1>2, <2>1, HandlerTypes DEF SpawnError, Outcomes
<1>3. CASE ReadLine(c)
  <2> DEFINE rest == [proc[c] EXCEPT !.stdout = Tail(@)]
             done == [rest EXCEPT !.timer = FALSE]
             next == [rest EXCEPT !.initialized = TRUE,
                                  !.stdin = Append(@, "tools/call")]
  <2>1. proc[c].stdout # <<>> /\ UNCHANGED <<counter, ticket, executed>>
    BY <1>3 DEF ReadLine
  <2>2. rest \in Procs /\ done \in Procs /\ next \in Procs
    BY <2>1, LineTypes
  <2>3. \/ Settle(c, "failed", done)
        \/ Settle(c, "resolved", done)
        \/ UNCHANGED <<inflight, queue, call>> /\ proc' = [proc EXCEPT ![c] = next]
        \/ UNCHANGED <<inflight, queue, call>> /\ proc' = [proc EXCEPT ![c] = rest]
    BY <1>3 DEF ReadLine
  <2> HIDE DEF rest, done, next
  <2> QED
    BY <2>1, <2>2, <2>3 DEF Outcomes, TypeOK
<1>4. CASE Close(c)
  <2> DEFINE p == [NotSpawned EXCEPT !.child = "closed"]
  <2>1. UNCHANGED <<counter, ticket, executed>>
    BY <1>4 DEF Close
  <2>2. \/ Settle(c, "failed", p)
        \/ UNCHANGED <<inflight, queue, call>> /\ proc' = [proc EXCEPT ![c] = p]
    BY <1>4 DEF Close
  <2>3. p \in Procs
    BY HandlerTypes
  <2> HIDE DEF p
  <2> QED
    BY <2>1, <2>2, <2>3 DEF Outcomes, TypeOK
<1> QED
  BY <1>1, <1>2, <1>3, <1>4 DEF Process

\* The child itself touches nothing of the limiter.
LEMMA ChildSteps ==
  ASSUME TypeOK, NEW c \in Calls, Child(c)
  PROVE  /\ UNCHANGED <<inflight, queue, counter, ticket, call>>
         /\ proc' \in [Calls -> Procs]
         /\ executed' \subseteq Calls
<1>1. proc[c] \in Procs
  BY DEF TypeOK
<1>2. CASE Serve(c)
  <2> DEFINE request == Head(proc[c].stdin)
  <2>1. PICK line \in Answers(request) :
          proc' = [proc EXCEPT ![c].stdin = Tail(@), ![c].stdout = Append(@, line)]
    BY <1>2 DEF Serve
  <2>2. line \in Lines
    BY <2>1 DEF Answers, Lines
  <2>3. /\ Tail(proc[c].stdin) \in Seq(Requests)
        /\ Append(proc[c].stdout, line) \in Seq(Lines)
    BY <1>1, <1>2, <2>2 DEF Serve, Procs
  <2>4. [proc[c] EXCEPT !.stdin = Tail(@), !.stdout = Append(@, line)] \in Procs
    BY <1>1, <2>3 DEF Procs
  <2>5. proc' \in [Calls -> Procs]
    BY <2>1, <2>4 DEF TypeOK
  <2> QED
    BY <1>2, <2>5 DEF Serve, TypeOK
<1>3. CASE Exit(c)
  <2>1. PICK code \in Exited :
          proc' = [proc EXCEPT ![c].child = code, ![c].stdin = <<>>]
    BY <1>3 DEF Exit, Exited
  <2> DEFINE p == [proc[c] EXCEPT !.child = code, !.stdin = <<>>]
  <2>2. p \in Procs /\ proc' = [proc EXCEPT ![c] = p]
    BY <2>1, HandlerTypes
  <2> HIDE DEF p
  <2>3. proc' \in [Calls -> Procs]
    BY <2>2 DEF TypeOK
  <2> QED
    BY <1>3, <2>3 DEF Exit, TypeOK
<1> QED
  BY <1>2, <1>3 DEF Child

LEMMA LimiterTypes ==
  ASSUME TypeOK, NEW c \in Calls, Limiter(c)
  PROVE  TypeOK'
<1>1. CASE RefuseTool(c)
  BY <1>1 DEF TypeOK, RefuseTool, CallStates, Rejected
<1>2. CASE StartCall(c)
  BY <1>2, ProcTypes DEF TypeOK, StartCall, CallStates
<1>3. CASE RejectFull(c)
  BY <1>3 DEF TypeOK, RejectFull, CallStates, Rejected
<1>4. CASE Enqueue(c)
  BY <1>4 DEF TypeOK, Enqueue, CallStates
<1>5. CASE QueueWaitExceeded(c)
  <2>1. queue' \in Seq(Calls)
    BY <1>5, RemoveAtProperties DEF TypeOK, QueueWaitExceeded
  <2> QED
    BY <1>5, <2>1 DEF TypeOK, QueueWaitExceeded, CallStates, Rejected
<1> QED
  BY <1>1, <1>2, <1>3, <1>4, <1>5 DEF Limiter

LEMMA NextTypes == TypeOK /\ [Next]_vars => TypeOK'
<1> SUFFICES ASSUME TypeOK, [Next]_vars PROVE TypeOK'
  OBVIOUS
<1>1. CASE UNCHANGED vars
  BY <1>1 DEF vars, TypeOK
<1>2. ASSUME NEW c \in Calls, Limiter(c) PROVE TypeOK'
  BY <1>2, LimiterTypes
<1>3. ASSUME NEW c \in Calls, Process(c) PROVE TypeOK'
  <2>1. CASE \E o \in Outcomes, p \in Procs : Settle(c, o, p)
    BY <1>3, <2>1, ProcessSteps, SettleTypes
  <2>2. CASE UNCHANGED <<inflight, queue, call>> /\ proc' \in [Calls -> Procs]
    BY <1>3, <2>2, ProcessSteps DEF TypeOK
  <2> QED
    BY <1>3, <2>1, <2>2, ProcessSteps
<1>4. ASSUME NEW c \in Calls, Child(c) PROVE TypeOK'
  BY <1>4, ChildSteps DEF TypeOK
<1> QED
  BY <1>1, <1>2, <1>3, <1>4 DEF Next

\* Every variable of McpCalls stays in its range.
THEOREM TypeCorrect == Spec => []TypeOK
<1>1. Init => TypeOK
  BY ProcTypes DEF Init, TypeOK, CallStates
<1> QED
  BY <1>1, NextTypes, PTL DEF Spec

-----------------------------------------------------------------------------
(* The limiter's invariant *)

LEMMA RunningFinite == IsFiniteSet(Running) /\ Cardinality(Running) \in Nat
<1>1. Running \in SUBSET Calls
  BY DEF Running
<1> QED
  BY <1>1, CallsAssumption, FS_Subset, FS_CardinalityType

\* A step that leaves the queue, the counter and the statuses alone.
LEMMA FrameKeeps ==
  ASSUME IInv, TypeOK', UNCHANGED <<inflight, queue, counter, ticket, call>>
  PROVE  IInv'
  BY DEF IInv, SlotAccounting, QueueDiscipline, TicketOrder, Running

\* What drainQueue does, given the invariant: one released slot goes to the
\* oldest waiting call, or to nobody when no call waits.
LEMMA DrainStartsOldest ==
  ASSUME IInv, NEW c \in Calls, call[c] = "running"
  PROVE  /\ inflight >= 1 /\ Freed = inflight - 1
         /\ queue = <<>> => DrainCount = 0 /\ Drained = {}
         /\ queue # <<>> => DrainCount = 1 /\ Drained = {queue[1]}
<1>1. inflight = Cardinality(Running) /\ inflight <= MaxConcurrent /\ inflight \in Nat
      /\ queue \in Seq(Calls)
  BY DEF IInv, SlotAccounting, TypeOK
<1>2. Running # {}
  BY DEF Running
<1>3. inflight >= 1
  BY <1>1, <1>2, RunningFinite, FS_EmptySet
<1>4. Freed = inflight - 1 /\ Freed < MaxConcurrent /\ Freed \in Nat
  BY <1>1, <1>3, LimitsAssumption DEF Freed
<1>5. CASE queue = <<>>
  <2>1. DrainCount = 0
    BY <1>4, <1>5, LimitsAssumption DEF DrainCount
  <2>2. Drained = {}
    BY <2>1 DEF Drained
  <2> QED
    BY <1>3, <1>4, <1>5, <2>1, <2>2
<1>6. CASE queue # <<>>
  <2>1. inflight = MaxConcurrent
    BY <1>6 DEF IInv, QueueDiscipline
  <2>2. Len(queue) \in Nat /\ Len(queue) >= 1
    BY <1>1, <1>6
  <2>3. MaxConcurrent - Freed = 1
    BY <1>4, <2>1, LimitsAssumption
  <2>4. DrainCount = IF Len(queue) <= 1 THEN Len(queue) ELSE 1
    <3>1. ~(Freed >= MaxConcurrent)
      BY <1>4, LimitsAssumption
    <3> QED
      BY <2>3, <3>1 DEF DrainCount
  <2>5. DrainCount = 1
    <3>1. \A n \in Nat : n >= 1 => (IF n <= 1 THEN n ELSE 1) = 1
      OBVIOUS
    <3> QED
      BY <2>2, <2>4, <3>1
  <2>6. 1..1 = {1}
    OBVIOUS
  <2>7. Drained = {queue[1]}
    BY <2>5, <2>6 DEF Drained
  <2> QED
    BY <1>3, <1>4, <1>6, <2>5, <2>7
<1> QED
  BY <1>5, <1>6

LEMMA SettleKeeps ==
  ASSUME IInv, TypeOK', NEW c \in Calls, NEW o \in Outcomes, NEW p \in Procs,
         Settle(c, o, p), UNCHANGED <<counter, ticket, executed>>
  PROVE  IInv'
<1>0. /\ TypeOK /\ SlotAccounting /\ QueueDiscipline /\ TicketOrder
      /\ queue \in Seq(Calls) /\ o \notin {"running", "queued"}
      /\ call \in [Calls -> CallStates]
  BY DEF IInv, TypeOK, Outcomes
<1>1. CASE call[c] # "running"
  BY <1>1, FrameKeeps DEF Settle
<1>2. CASE call[c] = "running" /\ queue = <<>>
  <2>1. /\ inflight' = inflight - 1 + 0
        /\ queue' = SubSeq(queue, 1, Len(queue))
        /\ call' = [d \in Calls |-> IF d = c THEN o ELSE call[d]]
    BY <1>2, DrainStartsOldest DEF Settle
  <2>2. queue' = queue
    BY <1>0, <2>1
  <2>3. Running' = Running \ {c} /\ c \in Running
    BY <1>0, <1>2, <2>1 DEF Running
  <2>4. Cardinality(Running') = Cardinality(Running) - 1
    BY <2>3, RunningFinite, FS_RemoveElement
  <2>5. inflight' = inflight - 1 /\ inflight \in Nat
    BY <1>0, <2>1 DEF TypeOK
  <2>6. SlotAccounting'
    BY <1>0, <2>4, <2>5, LimitsAssumption DEF SlotAccounting
  <2>7. {d \in Calls : call'[d] = "queued"} = {d \in Calls : call[d] = "queued"}
    BY <1>0, <1>2, <2>1
  <2>8. QueueDiscipline'
    BY <1>0, <1>2, <2>2, <2>7 DEF QueueDiscipline
  <2>9. TicketOrder'
    BY <1>0, <2>2 DEF TicketOrder
  <2> QED
    BY <2>6, <2>8, <2>9 DEF IInv
<1>3. CASE call[c] = "running" /\ queue # <<>>
  <2> DEFINE first == queue[1]
             t == SubSeq(queue, 2, Len(queue))
  <2>1. 1 \in 1..Len(queue) /\ DOMAIN queue = 1..Len(queue)
    BY <1>0, <1>3
  <2>2. first \in Calls /\ call[first] = "queued" /\ first # c
    BY <1>0, <1>3, <2>1 DEF QueueDiscipline, ToSet
  <2>3. /\ inflight' = inflight - 1 + 1 /\ queue' = t
        /\ call' = [d \in Calls |-> IF d = c THEN o
                                   ELSE IF d \in {first} THEN "running"
                                   ELSE call[d]]
    BY <1>3, DrainStartsOldest DEF Settle
  <2>4. /\ t \in Seq(Calls) /\ Len(t) = Len(queue) - 1
        /\ \A j \in 1..Len(queue) - 1 : t[j] = queue[j + 1]
    BY <1>0, <1>3, DropFirst
  <2>5. inflight' = inflight
    BY <1>0, <2>3 DEF TypeOK
  <2> HIDE DEF first, t
  <2>6. /\ Running' = (Running \ {c}) \cup {first}
        /\ c \in Running /\ first \notin Running \ {c}
    BY <1>0, <1>3, <2>2, <2>3 DEF Running
  <2>7. IsFiniteSet(Running \ {c}) /\ Cardinality(Running \ {c}) = Cardinality(Running) - 1
    BY <2>6, RunningFinite, FS_RemoveElement
  <2>8. Cardinality((Running \ {c}) \cup {first}) = Cardinality(Running \ {c}) + 1
    BY <2>6, <2>7, FS_AddElement
  <2>9. SlotAccounting'
    <3>1. Cardinality(Running') = Cardinality(Running)
      BY <2>6, <2>7, <2>8, RunningFinite
    <3> QED
      BY <1>0, <2>5, <3>1 DEF SlotAccounting
  <2>10. QueueDiscipline'
    <3>1. IsWithout(t, queue, 1)
      BY <2>4 DEF IsWithout
    <3>2. IsInjective(t) /\ ToSet(t) = ToSet(queue) \ {first}
      BY <1>0, <2>1, <2>4, <3>1, RemovalSet DEF QueueDiscipline, first
    <3>3. {d \in Calls : call'[d] = "queued"} = {d \in Calls : call[d] = "queued"} \ {first}
      BY <1>0, <1>3, <2>2, <2>3
    <3>4. Len(queue) \in Nat
      BY <1>0
    <3>5. Len(t) <= MaxQueue
      BY <1>0, <2>4, <3>4, LimitsAssumption DEF QueueDiscipline
    <3>6. inflight' = MaxConcurrent
      BY <1>0, <1>3, <2>5 DEF QueueDiscipline
    <3> QED
      BY <1>0, <2>3, <3>2, <3>3, <3>5, <3>6 DEF QueueDiscipline
  <2>11. TicketOrder'
    <3>1. DOMAIN t = 1..Len(queue) - 1 /\ Len(queue) \in Nat
      BY <1>0, <2>4
    <3>2. ASSUME NEW i \in DOMAIN t, NEW j \in DOMAIN t, i < j
          PROVE  ticket[t[i]] < ticket[t[j]]
      <4>1. /\ i + 1 \in DOMAIN queue /\ j + 1 \in DOMAIN queue /\ i + 1 < j + 1
            /\ t[i] = queue[i + 1] /\ t[j] = queue[j + 1]
        BY <2>1, <2>4, <3>1, <3>2
      <4> QED
        BY <1>0, <4>1 DEF TicketOrder
    <3> QED
      BY <1>0, <2>3, <3>2 DEF TicketOrder
  <2> QED
    BY <2>9, <2>10, <2>11 DEF IInv
<1> QED
  BY <1>1, <1>2, <1>3

LEMMA EnqueueKeeps ==
  ASSUME IInv, TypeOK', NEW c \in Calls, Enqueue(c)
  PROVE  IInv'
<1> DEFINE t == Append(queue, c)
<1>1. /\ TypeOK /\ SlotAccounting /\ QueueDiscipline /\ TicketOrder
      /\ queue \in Seq(Calls) /\ Len(queue) \in Nat /\ counter \in Nat
      /\ call \in [Calls -> CallStates] /\ ticket \in [Calls -> Nat]
      /\ inflight \in Nat
  BY DEF IInv, TypeOK
<1>2. /\ call[c] = "idle" /\ inflight >= MaxConcurrent /\ Len(queue) < MaxQueue
      /\ queue' = t /\ counter' = counter + 1 /\ inflight' = inflight
      /\ ticket' = [ticket EXCEPT ![c] = counter + 1]
      /\ call' = [call EXCEPT ![c] = "queued"]
  BY DEF Enqueue
<1>3. c \notin ToSet(queue)
  BY <1>1, <1>2 DEF QueueDiscipline
<1>4. IsInjective(t) /\ ToSet(t) = ToSet(queue) \cup {c}
  BY <1>1, <1>3, AppendSet DEF QueueDiscipline
<1>5. /\ DOMAIN queue = 1..Len(queue) /\ DOMAIN t = 1..Len(queue) + 1
      /\ Len(t) = Len(queue) + 1
      /\ \A j \in 1..Len(queue) : t[j] = queue[j]
      /\ t[Len(queue) + 1] = c
  BY <1>1
<1> HIDE DEF t
<1>6. SlotAccounting'
  <2>1. Running' = Running
    BY <1>1, <1>2 DEF Running
  <2> QED
    BY <1>1, <1>2, <2>1 DEF SlotAccounting
<1>7. QueueDiscipline'
  <2>1. {d \in Calls : call'[d] = "queued"} = {d \in Calls : call[d] = "queued"} \cup {c}
    BY <1>1, <1>2
  <2>2. Len(t) <= MaxQueue
    BY <1>1, <1>2, <1>5, LimitsAssumption
  <2>3. inflight = MaxConcurrent
    BY <1>1, <1>2, LimitsAssumption DEF SlotAccounting
  <2> QED
    BY <1>1, <1>2, <1>4, <2>1, <2>2, <2>3 DEF QueueDiscipline
<1>8. TicketOrder'
  <2>1. \A d \in Calls : ticket'[d] = IF d = c THEN counter + 1 ELSE ticket[d]
    BY <1>1, <1>2
  <2>2. \A d \in Calls : ticket[d] \in Nat /\ ticket[d] <= counter
    BY <1>1 DEF TicketOrder
  <2>3. ASSUME NEW i \in DOMAIN t, NEW j \in DOMAIN t, i < j
        PROVE  ticket'[t[i]] < ticket'[t[j]]
    <3>1. i \in 1..Len(queue) /\ t[i] = queue[i] /\ queue[i] \in Calls
          /\ queue[i] # c
      BY <1>1, <1>3, <1>5, <2>3 DEF ToSet
    <3>2. ticket'[t[i]] = ticket[queue[i]]
      BY <2>1, <3>1
    <3>3. CASE j = Len(queue) + 1
      <4>1. ticket'[t[j]] = counter + 1
        BY <1>5, <2>1, <3>3
      <4> QED
        BY <1>1, <2>2, <3>1, <3>2, <4>1
    <3>4. CASE j \in 1..Len(queue)
      <4>1. t[j] = queue[j] /\ queue[j] \in Calls /\ queue[j] # c
        BY <1>1, <1>3, <1>5, <3>4 DEF ToSet
      <4>2. ticket'[t[j]] = ticket[queue[j]]
        BY <2>1, <4>1
      <4> QED
        BY <1>1, <1>5, <2>3, <3>1, <3>2, <3>4, <4>2 DEF TicketOrder
    <3> QED
      BY <1>1, <1>5, <3>3, <3>4
  <2>4. \A d \in Calls : ticket'[d] <= counter'
    BY <1>1, <1>2, <2>1, <2>2
  <2> QED
    BY <1>2, <2>3, <2>4 DEF TicketOrder
<1> QED
  BY <1>6, <1>7, <1>8 DEF IInv

LEMMA QueueWaitKeeps ==
  ASSUME IInv, TypeOK', NEW c \in Calls, QueueWaitExceeded(c)
  PROVE  IInv'
<1>1. /\ TypeOK /\ SlotAccounting /\ QueueDiscipline /\ TicketOrder
      /\ queue \in Seq(Calls) /\ Len(queue) \in Nat
      /\ call \in [Calls -> CallStates]
      /\ DOMAIN queue = 1..Len(queue)
  BY DEF IInv, TypeOK
<1>2. PICK i \in 1..Len(queue) : queue[i] = c /\ queue' = RemoveAt(queue, i)
  BY <1>1 DEF QueueWaitExceeded
<1>3. /\ call[c] = "queued" /\ call' = [call EXCEPT ![c] = "queueTimeout"]
      /\ inflight' = inflight /\ counter' = counter /\ ticket' = ticket
  BY DEF QueueWaitExceeded
<1> DEFINE t == RemoveAt(queue, i)
<1>4. /\ t \in Seq(Calls) /\ Len(t) = Len(queue) - 1
      /\ \A j \in 1..Len(queue) - 1 : t[j] = IF j < i THEN queue[j] ELSE queue[j + 1]
  BY <1>1, RemoveAtProperties
<1>5. queue' = t
  BY <1>2
<1> HIDE DEF t
<1>6. IsInjective(t) /\ ToSet(t) = ToSet(queue) \ {c}
  <2>1. IsInjective(queue)
    BY <1>1 DEF QueueDiscipline
  <2>2. IsInjective(t) /\ ToSet(t) = ToSet(queue) \ {queue[i]}
    <3>1. IsWithout(t, queue, i)
      BY <1>4 DEF IsWithout
    <3> QED
      BY <1>1, <1>4, <2>1, <3>1, RemovalSet
  <2> QED
    BY <1>2, <2>2
<1>7. SlotAccounting'
  <2>1. Running' = Running
    BY <1>1, <1>3 DEF Running
  <2> QED
    BY <1>1, <1>3, <2>1 DEF SlotAccounting
<1>8. QueueDiscipline'
  <2>1. {d \in Calls : call'[d] = "queued"} = {d \in Calls : call[d] = "queued"} \ {c}
    BY <1>1, <1>3
  <2>2. Len(t) <= MaxQueue
    BY <1>1, <1>4, LimitsAssumption DEF QueueDiscipline
  <2>3. inflight = MaxConcurrent
    BY <1>1, <1>2 DEF QueueDiscipline
  <2> QED
    BY <1>1, <1>3, <1>5, <1>6, <2>1, <2>2, <2>3 DEF QueueDiscipline
<1>9. TicketOrder'
  <2>1. DOMAIN t = 1..Len(queue) - 1
    BY <1>1, <1>4
  <2>2. ASSUME NEW j \in DOMAIN t, NEW k \in DOMAIN t, j < k
        PROVE  ticket[t[j]] < ticket[t[k]]
    <3>1. PICK m \in 1..Len(queue), n \in 1..Len(queue) :
            m < n /\ t[j] = queue[m] /\ t[k] = queue[n]
      <4>1. j \in 1..Len(queue) /\ j + 1 \in 1..Len(queue)
            /\ k \in 1..Len(queue) /\ k + 1 \in 1..Len(queue)
        BY <1>1, <2>1
      <4> QED
        BY <1>1, <1>4, <2>1, <2>2, <4>1
    <3> QED
      BY <1>1, <3>1 DEF TicketOrder
  <2> QED
    BY <1>1, <1>3, <1>5, <2>2 DEF TicketOrder
<1> QED
  BY <1>7, <1>8, <1>9 DEF IInv

LEMMA LimiterKeeps ==
  ASSUME IInv, TypeOK', NEW c \in Calls, Limiter(c)
  PROVE  IInv'
<1>1. /\ TypeOK /\ SlotAccounting /\ QueueDiscipline /\ TicketOrder
      /\ queue \in Seq(Calls) /\ call \in [Calls -> CallStates] /\ inflight \in Nat
  BY DEF IInv, TypeOK
<1>2. CASE RefuseTool(c) \/ RejectFull(c)
  <2>1. /\ UNCHANGED <<inflight, queue, counter, ticket>>
        /\ \E r \in Rejected : call' = [call EXCEPT ![c] = r]
        /\ call[c] = "idle"
    BY <1>2 DEF RefuseTool, RejectFull, Rejected
  <2>2. /\ Running' = Running
        /\ {d \in Calls : call'[d] = "queued"} = {d \in Calls : call[d] = "queued"}
    BY <1>1, <2>1 DEF Running, Rejected
  <2>3. SlotAccounting' /\ TicketOrder'
    BY <1>1, <2>1, <2>2 DEF SlotAccounting, TicketOrder
  <2>4. QueueDiscipline'
    BY <1>1, <2>1, <2>2 DEF QueueDiscipline
  <2> QED
    BY <2>3, <2>4 DEF IInv
<1>3. CASE StartCall(c)
  <2>1. /\ inflight < MaxConcurrent /\ inflight' = inflight + 1 /\ call[c] = "idle"
        /\ call' = [call EXCEPT ![c] = "running"]
        /\ UNCHANGED <<queue, counter, ticket>>
    BY <1>3 DEF StartCall
  <2>2. Running' = Running \cup {c} /\ c \notin Running
    BY <1>1, <2>1 DEF Running
  <2>3. Cardinality(Running \cup {c}) = Cardinality(Running) + 1
    BY <2>2, RunningFinite, FS_AddElement
  <2>4. SlotAccounting'
    BY <1>1, <2>1, <2>2, <2>3, LimitsAssumption DEF SlotAccounting
  <2>5. queue = <<>>
    BY <1>1, <2>1, LimitsAssumption DEF QueueDiscipline
  <2>6. {d \in Calls : call'[d] = "queued"} = {d \in Calls : call[d] = "queued"}
    BY <1>1, <2>1
  <2>7. QueueDiscipline'
    BY <1>1, <2>1, <2>5, <2>6 DEF QueueDiscipline
  <2>8. TicketOrder'
    BY <1>1, <2>1 DEF TicketOrder
  <2> QED
    BY <2>4, <2>7, <2>8 DEF IInv
<1> QED
  BY <1>2, <1>3, EnqueueKeeps, QueueWaitKeeps DEF Limiter

LEMMA NextKeeps == IInv /\ [Next]_vars => IInv'
<1> SUFFICES ASSUME IInv, [Next]_vars PROVE IInv'
  OBVIOUS
<1>1. TypeOK /\ TypeOK'
  BY NextTypes DEF IInv
<1>2. CASE UNCHANGED vars
  BY <1>1, <1>2, FrameKeeps DEF vars
<1>3. ASSUME NEW c \in Calls, Limiter(c) PROVE IInv'
  BY <1>1, <1>3, LimiterKeeps
<1>4. ASSUME NEW c \in Calls, Process(c) PROVE IInv'
  <2>1. CASE \E o \in Outcomes, p \in Procs : Settle(c, o, p)
    BY <1>1, <1>4, <2>1, ProcessSteps, SettleKeeps
  <2>2. CASE UNCHANGED <<inflight, queue, call>>
    BY <1>1, <1>4, <2>2, ProcessSteps, FrameKeeps
  <2> QED
    BY <1>1, <1>4, <2>1, <2>2, ProcessSteps
<1>5. ASSUME NEW c \in Calls, Child(c) PROVE IInv'
  BY <1>1, <1>5, ChildSteps, FrameKeeps
<1> QED
  BY <1>2, <1>3, <1>4, <1>5 DEF Next

LEMMA InitHolds == Init => IInv
<1> SUFFICES ASSUME Init PROVE IInv
  OBVIOUS
<1>1. TypeOK
  BY ProcTypes DEF Init, TypeOK, CallStates
<1>2. Running = {} /\ Cardinality(Running) = 0
  BY FS_EmptySet DEF Init, Running
<1>3. SlotAccounting
  BY <1>2, LimitsAssumption DEF Init, SlotAccounting
<1>4. QueueDiscipline
  <2>1. queue = <<>> /\ Len(queue) = 0 /\ DOMAIN queue = {}
    BY DEF Init
  <2>2. IsInjective(queue) /\ ToSet(queue) = {}
    BY <2>1 DEF IsInjective, ToSet
  <2>3. {c \in Calls : call[c] = "queued"} = {}
    BY DEF Init
  <2> QED
    BY <2>1, <2>2, <2>3, LimitsAssumption DEF QueueDiscipline
<1>5. TicketOrder
  BY DEF Init, TicketOrder
<1> QED
  BY <1>1, <1>3, <1>4, <1>5 DEF IInv

\* The inductive invariant holds in every reachable state.
THEOREM Invariance == Spec => []IInv
  BY InitHolds, NextKeeps, PTL DEF Spec

\* inflightCalls counts exactly the running calls and never exceeds
\* MCP_MAX_CONCURRENT_CALLS, whatever the order of timers, lines and exits.
THEOREM SlotsBounded == Spec => []SlotAccounting
<1>1. IInv => SlotAccounting
  BY DEF IInv
<1> QED
  BY <1>1, Invariance, PTL

\* queuedCalls holds exactly the waiting calls, within MCP_MAX_QUEUE_SIZE, and
\* nobody waits while a slot is free.
THEOREM QueueCorrect == Spec => []QueueDiscipline
<1>1. IInv => QueueDiscipline
  BY DEF IInv
<1> QED
  BY <1>1, Invariance, PTL

-----------------------------------------------------------------------------
(* What a step may do to a promise *)

Final == \A d \in Calls : call[d] \in Outcomes \cup Rejected => call'[d] = call[d]

Oldest == \A d \in Calls : call[d] = "queued" /\ call'[d] = "running"
                          => queue # <<>> /\ d = queue[1]

\* Only drainQueue starts a waiting call, and it starts the oldest one; and no
\* step touches a promise that has settled.
LEMMA CallSteps ==
  ASSUME IInv, [Next]_vars
  PROVE  Final /\ Oldest
<1>0. /\ TypeOK /\ QueueDiscipline
      /\ queue \in Seq(Calls) /\ call \in [Calls -> CallStates]
  BY DEF IInv, TypeOK
<1>1. CASE UNCHANGED call
  BY <1>1 DEF Final, Oldest
<1>2. ASSUME NEW c \in Calls, NEW r \in CallStates,
             call[c] \in {"idle", "queued"}, call' = [call EXCEPT ![c] = r],
             r = "running" => call[c] = "idle"
      PROVE  Final /\ Oldest
  BY <1>0, <1>2 DEF Final, Oldest, Outcomes, Rejected
<1>3. ASSUME NEW c \in Calls, Limiter(c) PROVE Final /\ Oldest
  <2>1. \E r \in CallStates : /\ call' = [call EXCEPT ![c] = r]
                              /\ call[c] \in {"idle", "queued"}
                              /\ r = "running" => call[c] = "idle"
    BY <1>3 DEF Limiter, RefuseTool, StartCall, RejectFull, Enqueue,
                QueueWaitExceeded, CallStates, Rejected
  <2> QED
    BY <1>2, <2>1
<1>4. ASSUME NEW c \in Calls, NEW o \in Outcomes, NEW p \in Procs, Settle(c, o, p)
      PROVE  Final /\ Oldest
  <2>1. CASE call[c] # "running"
    BY <1>1, <1>4, <2>1 DEF Settle
  <2>2. CASE call[c] = "running" /\ queue = <<>>
    <3>1. call' = [d \in Calls |-> IF d = c THEN o ELSE call[d]]
      BY <1>4, <2>2, DrainStartsOldest DEF Settle
    <3> QED
      BY <2>2, <3>1 DEF Final, Oldest, Outcomes, Rejected
  <2>3. CASE call[c] = "running" /\ queue # <<>>
    <3> DEFINE first == queue[1]
    <3>1. call' = [d \in Calls |-> IF d = c THEN o
                                   ELSE IF d \in {first} THEN "running"
                                   ELSE call[d]]
      BY <1>4, <2>3, DrainStartsOldest DEF Settle
    <3>2. 1 \in 1..Len(queue) /\ DOMAIN queue = 1..Len(queue)
      BY <1>0, <2>3
    <3>3. first \in Calls /\ call[first] = "queued"
      BY <1>0, <3>2 DEF QueueDiscipline, ToSet
    <3> QED
      BY <2>3, <3>1, <3>3 DEF Final, Oldest, Outcomes, Rejected
  <2> QED
    BY <2>1, <2>2, <2>3
<1>5. ASSUME NEW c \in Calls, Process(c) PROVE Final /\ Oldest
  <2>1. \/ \E o \in Outcomes, p \in Procs : Settle(c, o, p)
        \/ UNCHANGED call
    BY <1>0, <1>5, ProcessSteps
  <2> QED
    BY <1>1, <1>4, <2>1
<1>6. ASSUME NEW c \in Calls, Child(c) PROVE Final /\ Oldest
  <2>1. UNCHANGED call
    BY <1>0, <1>6, ChildSteps
  <2> QED
    BY <1>1, <2>1
<1>7. CASE UNCHANGED vars
  BY <1>1, <1>7 DEF vars
<1> QED
  BY <1>3, <1>5, <1>6, <1>7 DEF Next

\* Once a caller's promise has settled no timer, line, exit or drain changes it.
THEOREM OutcomesFinal == Spec => SettledForGood
<1>1. IInv /\ [Next]_vars =>
        [\A c \in Calls :
           call[c] \in Outcomes \cup Rejected => call'[c] = call[c]]_vars
  BY CallSteps DEF Final
<1> QED
  BY <1>1, Invariance, PTL DEF Spec, SettledForGood

\* Waiting calls start in the order in which they were queued.
THEOREM FirstComeFirstServed == Spec => NoOvertaking
<1> DEFINE InOrder ==
      \A c, d \in Calls :
        call[c] = "queued" /\ call[d] = "queued" /\ ticket[c] < ticket[d]
        /\ call'[d] = "running" => call'[c] # "queued"
<1>1. ASSUME IInv, [Next]_vars PROVE InOrder
  <2> SUFFICES ASSUME NEW c \in Calls, NEW d \in Calls,
                      call[c] = "queued", call[d] = "queued",
                      ticket[c] < ticket[d], call'[d] = "running"
               PROVE  FALSE
    OBVIOUS
  <2>1. /\ QueueDiscipline /\ TicketOrder /\ queue \in Seq(Calls)
        /\ ticket \in [Calls -> Nat]
    BY <1>1 DEF IInv, TypeOK
  <2>2. queue # <<>> /\ d = queue[1]
    BY <1>1, CallSteps DEF Oldest
  <2>3. DOMAIN queue = 1..Len(queue) /\ 1 \in DOMAIN queue /\ Len(queue) \in Nat
    BY <2>1, <2>2
  <2>4. PICK k \in DOMAIN queue : queue[k] = c
    BY <2>1 DEF QueueDiscipline, ToSet
  <2>5. k = 1 \/ 1 < k
    BY <2>3, <2>4
  <2>6. ticket[d] <= ticket[c]
    BY <2>1, <2>2, <2>3, <2>4, <2>5 DEF TicketOrder
  <2> QED
    BY <2>1, <2>6
<1>2. IInv /\ [Next]_vars => [InOrder]_vars
  BY <1>1
<1> QED
  BY <1>2, Invariance, PTL DEF Spec, NoOvertaking

-----------------------------------------------------------------------------
(* What a call's process has to do with its promise *)

\* A call that was not started has no process, one that has settled has none
\* that lives or is timed, one that runs is timed until its process has closed;
\* and nothing answers with a tool's result before the tool has run.
Minded(c) ==
  /\ call[c] \in {"idle", "queued"} \cup Rejected => proc[c] = NotSpawned /\ c \notin executed
  /\ call[c] \in Outcomes => proc[c].child # "alive" /\ ~proc[c].timer
  /\ call[c] = "running" => proc[c].timer \/ proc[c].child = "closed"
  /\ call[c] = "resolved" => c \in executed

Truthful(c, stdout) == \A i \in 1..Len(stdout) : stdout[i] = "toolResult" => c \in executed

PInv == \A c \in Calls : Minded(c) /\ Truthful(c, proc[c].stdout)

\* A handler of a process runs for a call that was started.
LEMMA StartedCalls ==
  ASSUME TypeOK, PInv, NEW c \in Calls, proc[c] # NotSpawned
  PROVE  call[c] = "running" \/ call[c] \in Outcomes
  BY DEF TypeOK, PInv, Minded, CallStates

\* The calls that a drain starts were waiting.
LEMMA DrainedWaited ==
  ASSUME IInv, NEW d \in Drained
  PROVE  d \in Calls /\ call[d] = "queued"
<1>1. PICK i \in 1..DrainCount : d = queue[i]
  BY DEF Drained
<1>2. i \in 1..Len(queue) /\ DOMAIN queue = 1..Len(queue) /\ queue \in Seq(Calls)
  BY DrainBounds, <1>1 DEF IInv, TypeOK
<1>3. d \in ToSet(queue)
  BY <1>1, <1>2 DEF ToSet
<1> QED
  BY <1>1, <1>2, <1>3 DEF IInv, QueueDiscipline

LEMMA SettleMinds ==
  ASSUME IInv, PInv, NEW c \in Calls, NEW o \in Outcomes, NEW p \in Procs,
         Settle(c, o, p), UNCHANGED executed, proc[c] # NotSpawned,
         ~p.timer, p.child = "alive" => proc[c].child = "alive",
         Truthful(c, p.stdout), o = "resolved" => c \in executed
  PROVE  PInv'
<1>1. TypeOK
  BY DEF IInv
<1>2. CASE call[c] = "running"
  <2>1. /\ call' = [d \in Calls |-> IF d = c THEN o
                                   ELSE IF d \in Drained THEN "running"
                                   ELSE call[d]]
        /\ proc' = [d \in Calls |-> IF d = c THEN Killed(p)
                                   ELSE IF d \in Drained THEN Spawned
                                   ELSE proc[d]]
    BY <1>2 DEF Settle
  <2>2. Killed(p).child # "alive" /\ ~Killed(p).timer /\ Killed(p).stdout = p.stdout
    BY DEF Killed, Procs
  <2>3. Minded(c)' /\ Truthful(c, proc[c].stdout)'
    BY <2>1, <2>2 DEF Minded, Truthful, Outcomes, Rejected
  <2>4. ASSUME NEW d \in Calls, d # c, d \in Drained
        PROVE  Minded(d)' /\ Truthful(d, proc[d].stdout)'
    <3>1. call'[d] = "running" /\ proc'[d] = Spawned
      BY <2>1, <2>4
    <3> QED
      BY <3>1 DEF Minded, Truthful, Spawned, Outcomes, Rejected
  <2>5. ASSUME NEW d \in Calls, d # c, d \notin Drained
        PROVE  Minded(d)' /\ Truthful(d, proc[d].stdout)'
    <3>1. call'[d] = call[d] /\ proc'[d] = proc[d]
      BY <2>1, <2>5
    <3> QED
      BY <3>1 DEF PInv, Minded, Truthful
  <2> QED
    BY <2>3, <2>4, <2>5 DEF PInv
<1>3. CASE call[c] # "running"
  <2>1. proc' = [proc EXCEPT ![c] = p] /\ UNCHANGED call /\ call[c] \in Outcomes
    BY <1>1, <1>3, StartedCalls DEF Settle
  <2>2. Minded(c)' /\ Truthful(c, proc[c].stdout)'
    BY <1>1, <2>1 DEF PInv, Minded, Truthful, TypeOK, Outcomes, Rejected
  <2>3. ASSUME NEW d \in Calls, d # c PROVE Minded(d)' /\ Truthful(d, proc[d].stdout)'
    BY <1>1, <2>1, <2>3 DEF PInv, Minded, Truthful, TypeOK
  <2> QED
    BY <2>2, <2>3 DEF PInv
<1> QED
  BY <1>2, <1>3

\* A handler that only keeps the record of its process.
LEMMA BookkeepingMinds ==
  ASSUME TypeOK, PInv, NEW c \in Calls, NEW p \in Procs, proc[c] # NotSpawned,
         UNCHANGED call, executed \subseteq executed', executed' \subseteq executed \cup {c},
         proc' = [proc EXCEPT ![c] = p],
         p.child = "alive" => proc[c].child = "alive",
         p.timer => proc[c].timer,
         proc[c].timer \/ proc[c].child = "closed" => p.timer \/ p.child = "closed",
         \A i \in 1..Len(p.stdout) : p.stdout[i] = "toolResult" => c \in executed'
  PROVE  PInv'
<1>1. Minded(c)' /\ Truthful(c, proc[c].stdout)'
  BY StartedCalls DEF PInv, Minded, Truthful, TypeOK, Outcomes, Rejected
<1>2. ASSUME NEW d \in Calls, d # c PROVE Minded(d)' /\ Truthful(d, proc[d].stdout)'
  BY <1>2 DEF PInv, Minded, Truthful, TypeOK
<1> QED
  BY <1>1, <1>2 DEF PInv

LEMMA LimiterMinds ==
  ASSUME TypeOK, PInv, NEW c \in Calls, Limiter(c)
  PROVE  PInv'
<1>1. UNCHANGED executed /\ \A d \in Calls : d # c => call'[d] = call[d] /\ proc'[d] = proc[d]
  BY DEF Limiter, RefuseTool, StartCall, RejectFull, Enqueue, QueueWaitExceeded, TypeOK
<1>2. call[c] \in {"idle", "queued"}
  BY DEF Limiter, RefuseTool, StartCall, RejectFull, Enqueue, QueueWaitExceeded
<1>3. \/ call'[c] \in {"queued"} \cup Rejected /\ UNCHANGED proc
      \/ call'[c] = "running" /\ proc'[c] = Spawned
  BY DEF Limiter, RefuseTool, StartCall, RejectFull, Enqueue, QueueWaitExceeded, TypeOK, Rejected
<1>4. Minded(c)' /\ Truthful(c, proc[c].stdout)'
  BY <1>1, <1>2, <1>3 DEF PInv, Minded, Truthful, Spawned, NotSpawned, Outcomes, Rejected
<1>5. ASSUME NEW d \in Calls, d # c PROVE Minded(d)' /\ Truthful(d, proc[d].stdout)'
  BY <1>1, <1>5 DEF PInv, Minded, Truthful
<1> QED
  BY <1>4, <1>5 DEF PInv

LEMMA LinesMind ==
  ASSUME IInv, PInv, NEW c \in Calls, ReadLine(c)
  PROVE  PInv'
<1> DEFINE line == Head(proc[c].stdout)
           rest == [proc[c] EXCEPT !.stdout = Tail(@)]
           done == [rest EXCEPT !.timer = FALSE]
           next == [rest EXCEPT !.initialized = TRUE, !.stdin = Append(@, "tools/call")]
<1>1. TypeOK /\ proc[c] \in Procs /\ proc[c].stdout # <<>> /\ UNCHANGED executed
  BY DEF IInv, TypeOK, ReadLine
<1>2. rest \in Procs /\ done \in Procs /\ next \in Procs
  BY <1>1, LineTypes
<1>3. /\ rest.stdout = Tail(proc[c].stdout) /\ rest.timer = proc[c].timer /\ rest.child = proc[c].child
      /\ done.stdout = Tail(proc[c].stdout) /\ done.timer = FALSE /\ done.child = proc[c].child
      /\ next.stdout = Tail(proc[c].stdout) /\ next.timer = proc[c].timer /\ next.child = proc[c].child
  BY <1>1 DEF Procs
<1>4. Truthful(c, Tail(proc[c].stdout)) /\ (line = "toolResult" => c \in executed)
  <2>1. proc[c].stdout \in Seq(Lines) /\ Truthful(c, proc[c].stdout)
    BY <1>1 DEF Procs, PInv
  <2> QED
    BY <1>1, <2>1 DEF Truthful
<1>5. proc[c] # NotSpawned
  BY <1>1 DEF NotSpawned
<1>6. \/ Settle(c, "failed", done)
      \/ line = "toolResult" /\ Settle(c, "resolved", done)
      \/ UNCHANGED call /\ proc' = [proc EXCEPT ![c] = next]
      \/ UNCHANGED call /\ proc' = [proc EXCEPT ![c] = rest]
  BY DEF ReadLine
<1> HIDE DEF line, rest, done, next
<1>7. CASE Settle(c, "failed", done)
  BY <1>1, <1>2, <1>3, <1>4, <1>5, <1>7, SettleMinds DEF Outcomes
<1>8. CASE line = "toolResult" /\ Settle(c, "resolved", done)
  BY <1>1, <1>2, <1>3, <1>4, <1>5, <1>8, SettleMinds DEF Outcomes
<1>9. CASE UNCHANGED call /\ proc' = [proc EXCEPT ![c] = next]
  BY <1>1, <1>2, <1>3, <1>4, <1>5, <1>9, BookkeepingMinds DEF Truthful
<1>10. CASE UNCHANGED call /\ proc' = [proc EXCEPT ![c] = rest]
  BY <1>1, <1>2, <1>3, <1>4, <1>5, <1>10, BookkeepingMinds DEF Truthful
<1> QED
  BY <1>6, <1>7, <1>8, <1>9, <1>10

LEMMA ProcessMinds ==
  ASSUME IInv, PInv, NEW c \in Calls, Process(c)
  PROVE  PInv'
<1>1. TypeOK /\ proc[c] \in Procs /\ Truthful(c, proc[c].stdout)
  BY DEF IInv, TypeOK, PInv
<1>2. CASE CallTimeout(c)
  <2> DEFINE p == [proc[c] EXCEPT !.timer = FALSE]
  <2>1. Settle(c, "failed", p) /\ UNCHANGED executed /\ proc[c] # NotSpawned
    BY <1>2 DEF CallTimeout, NotSpawned
  <2>2. p \in Procs /\ ~p.timer /\ p.child = proc[c].child /\ p.stdout = proc[c].stdout
    BY <1>1, HandlerTypes DEF Procs
  <2> HIDE DEF p
  <2> QED
    BY <1>1, <2>1, <2>2, SettleMinds DEF Outcomes
<1>3. CASE SpawnError(c)
  <2> DEFINE p == [proc[c] EXCEPT !.child = "nonzero", !.timer = FALSE, !.stdin = <<>>]
  <2>1. Settle(c, "failed", p) /\ UNCHANGED executed /\ proc[c] # NotSpawned
    BY <1>3 DEF SpawnError, NotSpawned
  <2>2. p \in Procs /\ ~p.timer /\ p.child = "nonzero" /\ p.stdout = proc[c].stdout
    BY <1>1, HandlerTypes DEF Procs
  <2> HIDE DEF p
  <2> QED
    BY <1>1, <2>1, <2>2, SettleMinds DEF Outcomes
<1>4. CASE Close(c)
  <2> DEFINE p == [NotSpawned EXCEPT !.child = "closed"]
  <2>1. /\ Settle(c, "failed", p) \/ (proc' = [proc EXCEPT ![c] = p] /\ UNCHANGED call)
        /\ UNCHANGED executed /\ proc[c] # NotSpawned
    BY <1>4 DEF Close, NotSpawned, Exited
  <2>2. p \in Procs /\ ~p.timer /\ p.child = "closed" /\ p.stdout = <<>>
    BY <1>1, HandlerTypes DEF NotSpawned
  <2>3. Truthful(c, p.stdout)
    BY <2>2 DEF Truthful
  <2> HIDE DEF p
  <2> QED
    BY <1>1, <2>1, <2>2, <2>3, SettleMinds, BookkeepingMinds DEF Outcomes, Truthful
<1> QED
  BY <1>2, <1>3, <1>4, LinesMind DEF Process

LEMMA ChildMinds ==
  ASSUME TypeOK, PInv, NEW c \in Calls, Child(c)
  PROVE  PInv'
<1>1. proc[c] \in Procs /\ Truthful(c, proc[c].stdout)
  BY DEF TypeOK, PInv
<1>2. CASE Serve(c)
  <2> DEFINE request == Head(proc[c].stdin)
  <2>1. PICK line \in Answers(request) :
          proc' = [proc EXCEPT ![c].stdin = Tail(@), ![c].stdout = Append(@, line)]
    BY <1>2 DEF Serve
  <2> DEFINE p == [proc[c] EXCEPT !.stdin = Tail(@), !.stdout = Append(@, line)]
  <2>2. /\ proc[c].stdin \in Seq(Requests) /\ proc[c].stdin # <<>> /\ proc[c].stdout \in Seq(Lines)
        /\ request \in Requests /\ Tail(proc[c].stdin) \in Seq(Requests)
    BY <1>1, <1>2 DEF Serve, Procs
  <2>3. line \in Lines /\ (line = "toolResult" => request = "tools/call")
    BY <2>1, <2>2 DEF Answers, Lines, Requests
  <2>4. Append(proc[c].stdout, line) \in Seq(Lines)
    BY <2>2, <2>3
  <2>5. /\ p \in Procs /\ p.child = proc[c].child /\ p.timer = proc[c].timer
        /\ p.stdout = Append(proc[c].stdout, line)
    BY <1>1, <2>2, <2>4 DEF Procs
  <2>6. proc' = [proc EXCEPT ![c] = p]
    BY <2>1
  <2>7. executed' = IF request = "tools/call" THEN executed \cup {c} ELSE executed
    BY <1>2 DEF Serve
  <2>8. UNCHANGED call /\ proc[c] # NotSpawned
    BY <1>2 DEF Serve, NotSpawned
  <2> HIDE DEF p, request
  <2>9. ASSUME NEW i \in 1..Len(p.stdout), p.stdout[i] = "toolResult" PROVE c \in executed'
    <3>1. CASE i \in 1..Len(proc[c].stdout)
      BY <1>1, <2>2, <2>5, <2>7, <2>9, <3>1 DEF Truthful
    <3>2. CASE i = Len(proc[c].stdout) + 1
      BY <2>2, <2>3, <2>5, <2>7, <2>9, <3>2
    <3> QED
      BY <2>2, <2>5, <2>9, <3>1, <3>2
  <2> QED
    BY <2>5, <2>6, <2>7, <2>8, <2>9, BookkeepingMinds
<1>3. CASE Exit(c)
  <2>1. PICK code \in Exited :
          proc' = [proc EXCEPT ![c].child = code, ![c].stdin = <<>>]
    BY <1>3 DEF Exit, Exited
  <2> DEFINE p == [proc[c] EXCEPT !.child = code, !.stdin = <<>>]
  <2>2. p \in Procs /\ proc' = [proc EXCEPT ![c] = p]
    BY <2>1, HandlerTypes
  <2>3. p.child = code /\ p.timer = proc[c].timer /\ p.stdout = proc[c].stdout
    BY <1>1 DEF Procs
  <2>4. UNCHANGED <<call, executed>> /\ proc[c].child \in {"alive", "killed"} /\ proc[c] # NotSpawned
    BY <1>3 DEF Exit, NotSpawned
  <2> HIDE DEF p
  <2> QED
    BY <1>1, <2>2, <2>3, <2>4, BookkeepingMinds DEF Exited, Truthful
<1> QED
  BY <1>2, <1>3 DEF Child

\* What a process may do to its call holds in every reachable state.
THEOREM ProcessesInvariant == Spec => []PInv
<1>1. Init => PInv
  BY DEF Init, PInv, Minded, Truthful, NotSpawned, Outcomes
<1>2. ASSUME IInv, PInv, [Next]_vars PROVE PInv'
  <2>1. TypeOK
    BY <1>2 DEF IInv
  <2>2. CASE UNCHANGED vars
    BY <1>2, <2>2 DEF vars, PInv, Minded, Truthful
  <2> QED
    BY <1>2, <2>1, <2>2, LimiterMinds, ProcessMinds, ChildMinds DEF Next
<1> QED
  BY <1>1, <1>2, Invariance, PTL DEF Spec

\* A result that a caller gets is that of a tool that has run, and a call that
\* was turned away, or still waits, has had no effect.
THEOREM NoFalseAnswers == Spec => []EffectsMatchOutcomes
<1>1. PInv => EffectsMatchOutcomes
  BY DEF PInv, Minded, EffectsMatchOutcomes
<1> QED
  BY <1>1, ProcessesInvariant, PTL

\* No call settles and leaves a child that nobody has asked to end, and none
\* waits untimed but for a child that closed with code 0.
THEOREM NoStrayProcesses == Spec => []ProcessesAreMinded
<1>1. PInv => ProcessesAreMinded
  BY DEF PInv, Minded, ProcessesAreMinded, HungUp
<1> QED
  BY <1>1, ProcessesInvariant, PTL
=============================================================================
