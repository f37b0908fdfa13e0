-------------------------- MODULE RunConsoleProofs --------------------------
(***************************************************************************)
(* Proofs about RunConsole, for any number of events, of reads in flight   *)
(* and of reconnections.  The end of a run is the last of its events;      *)
(* hence an answer or an event that tells of the end, however late it is   *)
(* shown, tells what the engine would say now.                             *)
(***************************************************************************)
EXTENDS RunConsole, FiniteSetTheorems, TLAPS

(* Nothing happens to a run that has ended. *)
EndIsLast == \A i \in 1..Len(log) : log[i].type \in Terminal => i = Len(log)

(* A read that the loop waits for is there only while it waits, one at a     *)
(* time when it synchronises; and the loop that goes on has a reconnection   *)
(* left.                                                                     *)
LoopInv ==
  /\ \A read \in reads : /\ read.by = "recover" => stream = "recovering"
                         /\ read.by = "sync" => stream = "syncing"
  /\ \A one, other \in reads : one.by = "sync" /\ other.by = "sync" => one = other
  /\ stream # "closed" => attempts <= MaxReconnects
  /\ stream = "live" => attempts = 0

IInv == TypeOK /\ EndIsLast /\ LoopInv /\ EndIsTrue

-----------------------------------------------------------------------------
(* What the engine tells of a run. *)

(* What was true of the run after n of its events is typed, and if it had    *)
(* ended by then, that is how it has ended (daxService.getRun).              *)
LEMMA SnapshotFacts ==
  ASSUME TypeOK, EndIsLast, NEW n \in 0..Len(log)
  PROVE  /\ SnapshotAt(n) \in [status : {"running", "waiting_approval"} \cup Terminal,
                               pending : Nat, at : 0..MaxEvents]
         /\ SnapshotAt(n).at = n
         /\ SnapshotAt(n).status \in Terminal => SnapshotAt(n).status = StatusAt(Len(log))
         /\ PendingAt(n) \subseteq 1..MaxEvents
<1> USE DEF TypeOK
<1>1. PendingAt(n) \subseteq 1..n
  BY DEF PendingAt
<1>2. Cardinality(PendingAt(n)) \in Nat
  <2>1. IsFiniteSet(1..n)
    BY FS_Interval
  <2>2. IsFiniteSet(PendingAt(n))
    BY <1>1, <2>1, FS_Subset
  <2> QED BY <2>2, FS_CardinalityType
<1>4. StatusAt(n) \in Terminal => n > 0 /\ log[n].type \in Terminal /\ StatusAt(n) = log[n].type
  BY DEF StatusAt, Terminal
<1>5. StatusAt(n) \in Terminal => StatusAt(n) = StatusAt(Len(log))
  BY <1>4 DEF EndIsLast
<1>6. StatusAt(n) \in {"running", "waiting_approval"} \cup Terminal
  BY DEF StatusAt
<1> QED BY <1>1, <1>2, <1>5, <1>6, BoundsAssumption DEF SnapshotAt

(* A console that shows the answer to a read shows nothing false of the end. *)
LEMMA AnsweredKeeps ==
  ASSUME IInv, NEW read \in reads, Answered(read), UNCHANGED log
  PROVE  /\ snapshot' \in [status : {"none", "running", "waiting_approval"} \cup Terminal,
                           pending : Nat, at : 0..MaxEvents]
         /\ cursor' \in 0..MaxEvents
         /\ listed' \subseteq 1..MaxEvents
         /\ EndIsLast' /\ EndIsTrue'
<1>1. PICK n \in read.from..Len(log) :
        \/ Show(n) /\ UNCHANGED listed
        \/ listed' = PendingAt(n) /\ UNCHANGED <<snapshot, cursor>>
  BY DEF Answered
<1>2. n \in 0..Len(log)
  BY DEF IInv, TypeOK, Reads
<1>3. EndIsLast' /\ StatusAt(Len(log))' = StatusAt(Len(log))
  BY DEF IInv, EndIsLast, StatusAt, PendingAt
<1>4. CASE Show(n) /\ UNCHANGED listed
  <2>1. snapshot' = SnapshotAt(n) /\ cursor' = n
    BY <1>4 DEF Show
  <2> QED BY <2>1, <1>2, <1>3, <1>4, SnapshotFacts DEF IInv, EndIsTrue, TypeOK
<1>5. CASE listed' = PendingAt(n) /\ UNCHANGED <<snapshot, cursor>>
  BY <1>2, <1>3, <1>5, SnapshotFacts DEF IInv, EndIsTrue, TypeOK
<1> QED BY <1>1, <1>4, <1>5

(* A read that is asked for now is one of the reads. *)
LEMMA ReadTyped ==
  ASSUME TypeOK, NEW what \in {"snapshot", "approvals"},
         NEW by \in {"load", "sync", "recover", "background"}
  PROVE  Read(what, by) \in Reads /\ Read(what, by).by = by
BY DEF Read, Reads, TypeOK

(* Reads that nothing in the loop waits for do not matter to it. *)
LEMMA MoreInBackground ==
  ASSUME LoopInv, UNCHANGED <<stream, attempts>>,
         \A read \in reads' : read \in reads \/ read.by = "background"
  PROVE  LoopInv'
BY DEF LoopInv

(* An approval that is pending can be resolved. *)
LEMMA PendingTyped ==
  ASSUME TypeOK, NEW i \in PendingAt(Len(log))
  PROVE  [type |-> "resolved", of |-> i] \in Events
<1>1. Len(log) \in Nat /\ Len(log) <= MaxEvents
  BY DEF TypeOK
<1>2. i \in 1..Len(log)
  BY DEF PendingAt
<1>3. i \in 0..MaxEvents
  BY <1>1, <1>2, BoundsAssumption
<1> QED BY <1>3 DEF Events, EventTypes

-----------------------------------------------------------------------------
(* Every step keeps the invariant. *)
LEMMA InitIInv == Init => IInv
<1> SUFFICES ASSUME Init PROVE IInv
  OBVIOUS
<1>1. Len(log) = 0 /\ log \in Seq(Events)
  BY DEF Init
<1>2. TypeOK
  BY <1>1, BoundsAssumption DEF Init, TypeOK, NoSnapshot, Read, Reads
<1> QED BY <1>1, <1>2, BoundsAssumption DEF Init, IInv, EndIsLast, LoopInv, EndIsTrue, NoSnapshot, Read, Terminal

(* A step that leaves the run and what is shown of it alone keeps what is    *)
(* known of them.                                                            *)
LEMMA SameShown ==
  ASSUME IInv, UNCHANGED <<log, snapshot, cursor>>
  PROVE  EndIsLast' /\ EndIsTrue'
BY DEF IInv, EndIsLast, EndIsTrue, StatusAt, PendingAt

(* An event is added only to a run that has not ended, of which the console  *)
(* shows no end.                                                             *)
LEMMA EmitKeeps ==
  ASSUME IInv, NEW event \in Events, Emit(event), UNCHANGED console
  PROVE  /\ log' \in Seq(Events) /\ Len(log') = Len(log) + 1 /\ Len(log') <= MaxEvents
         /\ EndIsLast' /\ EndIsTrue'
<1> USE DEF IInv, TypeOK
<1>1. log' = Append(log, event) /\ Len(log) < MaxEvents /\ StatusAt(Len(log)) \notin Terminal
  BY DEF Emit, Ended
<1>2. log' \in Seq(Events) /\ Len(log') = Len(log) + 1
  BY <1>1
<1>3. \A i \in 1..Len(log) : log'[i] = log[i]
  BY <1>1
<1>4. ASSUME NEW i \in 1..Len(log), log[i].type \in Terminal
      PROVE  FALSE
  <2>1. i = Len(log) /\ Len(log) > 0
    BY <1>4 DEF EndIsLast
  <2> QED BY <1>1, <1>4, <2>1 DEF StatusAt
<1>5. EndIsLast'
  BY <1>2, <1>3, <1>4 DEF EndIsLast
<1>6. snapshot.status \notin Terminal
  BY <1>1 DEF EndIsTrue
<1>7. EndIsTrue'
  BY <1>6 DEF EndIsTrue, console
<1> QED BY <1>1, <1>2, <1>5, <1>7, BoundsAssumption

LEMMA EngineKeeps ==
  ASSUME IInv, Engine PROVE IInv'
<1>1. PICK event \in Events : Emit(event)
  <2>1. \A type \in EventTypes : [type |-> type, of |-> 0] \in Events
    BY BoundsAssumption DEF Events
  <2>2. \A i \in PendingAt(Len(log)) : [type |-> "resolved", of |-> i] \in Events
    BY PendingTyped DEF IInv
  <2> QED BY <2>1, <2>2 DEF Engine
<1> QED BY <1>1, EmitKeeps DEF IInv, TypeOK, LoopInv, Engine, console, loop

LEMMA DecideKeeps ==
  ASSUME IInv, Decide PROVE IInv'
<1>1. PICK i \in PendingAt(Len(log)) : Emit([type |-> "resolved", of |-> i])
  BY DEF Decide
<1>2. [type |-> "resolved", of |-> i] \in Events
  BY PendingTyped DEF IInv
<1>3. /\ log' \in Seq(Events) /\ Len(log') <= MaxEvents
      /\ EndIsLast' /\ EndIsTrue'
  BY <1>1, <1>2, EmitKeeps DEF Decide
<1>4. Len(log) + 1 \in 0..MaxEvents
  BY <1>1, BoundsAssumption DEF Emit, IInv, TypeOK
<1>5. ASSUME NEW read \in Both("background")
      PROVE  [read EXCEPT !.from = @ + 1] \in Reads /\ [read EXCEPT !.from = @ + 1].by = "background"
  <2>1. PICK what \in {"snapshot", "approvals"} : read = [what |-> what, by |-> "background", from |-> Len(log)]
    BY DEF Both, Read
  <2>2. [read EXCEPT !.from = @ + 1] = [what |-> what, by |-> "background", from |-> Len(log) + 1]
    BY <2>1
  <2> QED BY <1>4, <2>2 DEF Reads
<1>6. \A read \in reads' : read \in Reads /\ (read \in reads \/ read.by = "background")
  <2>1. CASE UNCHANGED reads
    BY <2>1 DEF IInv, TypeOK
  <2>2. CASE reads' = reads \cup {[read EXCEPT !.from = @ + 1] : read \in Both("background")}
    <3>1. \A read \in reads : read \in Reads
      BY DEF IInv, TypeOK
    <3> HIDE DEF IInv
    <3> QED BY <1>5, <2>2, <3>1
  <2> QED BY <2>1, <2>2 DEF Decide
<1>7. LoopInv'
  BY <1>6, MoreInBackground DEF Decide, IInv, loop
<1> QED BY <1>3, <1>6, <1>7 DEF IInv, TypeOK, Decide, console, loop

LEMMA AnswersKeep ==
  ASSUME IInv, Answers PROVE IInv'
<1>1. PICK read \in reads : LoadAnswered(read) \/ BackgroundAnswered(read) \/ ReadFailed(read)
  BY DEF Answers
<1>2. CASE LoadAnswered(read)
  <2>1. \A more \in reads' : more \in Reads /\ (more \in reads \/ more.by = "background")
    BY <1>2, ReadTyped DEF LoadAnswered, IInv, TypeOK, Both
  <2> QED BY <1>2, <2>1, AnsweredKeeps DEF LoadAnswered, IInv, TypeOK, LoopInv, loop
<1>3. CASE BackgroundAnswered(read)
  BY <1>3, AnsweredKeeps DEF BackgroundAnswered, IInv, TypeOK, LoopInv, loop
<1>4. CASE ReadFailed(read)
  BY <1>4, SameShown DEF ReadFailed, IInv, TypeOK, LoopInv, console, loop
<1> QED BY <1>1, <1>2, <1>3, <1>4

(* An event is shown for what it is; only the last can be the end.           *)
LEMMA DeliverKeeps ==
  ASSUME IInv, Deliver PROVE IInv'
<1> USE DEF IInv, TypeOK
<1>1. next \in 1..Len(log) /\ log[next] \in Events
  <2>1. next \in 1..Len(log)
    BY DEF Deliver
  <2> QED BY <2>1
<1>2. snapshot' = Projected(log[next], next) /\ cursor' = next /\ UNCHANGED <<log, listed, stream, attempts>>
  BY DEF Deliver
<1>3. /\ snapshot' \in [status : {"none", "running", "waiting_approval"} \cup Terminal,
                        pending : Nat, at : 0..MaxEvents]
      /\ snapshot' # NoSnapshot => snapshot'.at = next
      /\ snapshot'.status \in Terminal =>
           (log[next].type \in Terminal /\ snapshot'.status = log[next].type) \/ snapshot'.status = snapshot.status
  <2> DEFINE type == log[next].type
             pending == CASE type = "requested" -> snapshot.pending + 1
                          [] type = "resolved" /\ snapshot.pending > 0 -> snapshot.pending - 1
                          [] OTHER -> snapshot.pending
             status == CASE type = "requested" -> "waiting_approval"
                         [] type \in Terminal -> type
                         [] OTHER -> IF snapshot.status = "waiting_approval" /\ pending = 0
                                     THEN "running" ELSE snapshot.status
  <2>1. pending \in Nat
    OBVIOUS
  <2>2. /\ status \in {"none", "running", "waiting_approval"} \cup Terminal
        /\ status \in Terminal => (type \in Terminal /\ status = type) \/ status = snapshot.status
    <3> HIDE DEF pending
    <3> QED BY DEF Terminal
  <2>3. CASE snapshot = NoSnapshot
    BY <1>2, <2>3 DEF Projected
  <2>4. CASE snapshot # NoSnapshot
    <3>1. snapshot' = [status |-> status, pending |-> pending, at |-> next]
      BY <1>2, <2>4 DEF Projected
    <3>2. next \in 0..MaxEvents
      BY <1>1, BoundsAssumption
    <3> HIDE DEF status, pending
    <3> QED BY <2>1, <2>2, <3>1, <3>2
  <2> QED BY <2>3, <2>4
<1>4. log[next].type \in Terminal => next = Len(log) /\ StatusAt(Len(log)) = log[next].type
  BY <1>1 DEF EndIsLast, StatusAt
<1>5. StatusAt(Len(log))' = StatusAt(Len(log)) /\ EndIsLast'
  BY <1>2 DEF StatusAt, PendingAt, EndIsLast
<1>6. EndIsTrue'
  BY <1>2, <1>3, <1>4, <1>5 DEF EndIsTrue
<1>7. \A read \in reads' : read \in Reads /\ (read \in reads \/ read.by = "background")
  BY ReadTyped DEF Deliver, Refreshes, Both
<1>8. next' \in 1..MaxEvents + 1
  BY <1>1, BoundsAssumption DEF Deliver
<1>9. LoopInv'
  BY <1>2, <1>7, MoreInBackground
<1>10. cursor' \in 0..MaxEvents /\ reads' \subseteq Reads
  BY <1>1, <1>2, <1>7, BoundsAssumption
<1>11. TypeOK'
  BY <1>2, <1>3, <1>8, <1>10
<1> QED BY <1>5, <1>6, <1>9, <1>11

LEMMA ReconnectingKeeps ==
  ASSUME IInv, Opened \/ Broken \/ StreamEnds \/ Reconnect \/ Caught
  PROVE  IInv'
<1> USE DEF IInv
<1>1. CASE Opened
  BY <1>1, SameShown, BoundsAssumption DEF Opened, TypeOK, LoopInv, console
<1>2. CASE Broken
  BY <1>2, SameShown DEF Broken, TypeOK, LoopInv, console
<1>3. CASE StreamEnds
  BY <1>3, SameShown, BoundsAssumption DEF StreamEnds, TypeOK, LoopInv, console
<1>4. CASE Reconnect
  BY <1>4, SameShown, ReadTyped DEF Reconnect, TypeOK, LoopInv, console
<1>5. CASE Caught
  <2>1. \A read \in reads' : read \in Reads /\ (read \in reads \/ (read.by = "recover" /\ stream' = "recovering"))
    <3>1. \A read \in Both("recover") : read \in Reads /\ read.by = "recover"
      BY ReadTyped DEF Both
    <3> QED BY <1>5, <3>1 DEF Caught, TypeOK
  <2>2. \A read \in reads : read.by \notin {"recover", "sync"}
    BY <1>5 DEF Caught, LoopInv
  <2> QED BY <1>5, <2>1, <2>2, SameShown, BoundsAssumption DEF Caught, TryAgain, TypeOK, LoopInv, console
<1> QED BY <1>1, <1>2, <1>3, <1>4, <1>5

LEMMA SyncKeeps ==
  ASSUME IInv, NEW read \in reads, Synced(read) \/ SyncFailed(read)
  PROVE  IInv'
<1> USE DEF IInv
<1>1. CASE Synced(read)
  <2>1. /\ snapshot' \in [status : {"none", "running", "waiting_approval"} \cup Terminal,
                          pending : Nat, at : 0..MaxEvents]
        /\ cursor' \in 0..MaxEvents /\ listed' \subseteq 1..MaxEvents
        /\ EndIsLast' /\ EndIsTrue'
    BY <1>1, AnsweredKeeps DEF Synced
  <2>2. stream = "syncing" /\ UNCHANGED <<log, attempts>>
    BY <1>1 DEF Synced, LoopInv
  <2>3. \A other \in reads : other.by # "recover"
    BY <2>2 DEF LoopInv
  <2>4. CASE UNCHANGED <<stream, next>> /\ reads' = (reads \ {read}) \cup {Read("approvals", "sync")}
    <3>1. Read("approvals", "sync") \in Reads /\ Read("approvals", "sync").by = "sync"
      BY ReadTyped
    <3>2. \A other \in reads : other.by = "sync" => other = read
      BY <1>1 DEF Synced, LoopInv
    <3>3. \A other \in reads' : other.by # "recover" /\ (other.by = "sync" => other = Read("approvals", "sync"))
      BY <2>3, <2>4, <3>1, <3>2
    <3> HIDE DEF IInv
    <3>4. LoopInv'
      BY <2>2, <2>4, <3>3 DEF LoopInv, IInv
    <3> QED BY <2>1, <2>2, <2>4, <3>1, <3>4 DEF TypeOK, IInv
  <2>5. CASE reads' = reads \ {read} /\ ((stream' = "closed" /\ UNCHANGED next) \/ Connect)
    <3>1. reads' \subseteq Reads /\ next' \in 1..MaxEvents + 1 /\ stream' \in {"closed", "opening"}
      BY <2>1, <2>5, BoundsAssumption DEF TypeOK, Connect
    <3>2. \A other \in reads' : other.by # "sync"
      BY <1>1, <2>5 DEF LoopInv, Synced
    <3> QED BY <2>1, <2>2, <2>3, <2>5, <3>1, <3>2 DEF TypeOK, LoopInv
  <2> QED BY <1>1, <2>4, <2>5 DEF Synced
<1>2. CASE SyncFailed(read)
  <2>1. \A other \in reads' : other \in reads /\ other.by \notin {"recover", "sync"}
    BY <1>2 DEF SyncFailed, LoopInv
  <2> QED BY <1>2, <2>1, SameShown DEF SyncFailed, TypeOK, LoopInv, console
<1> QED BY <1>1, <1>2

LEMMA RecoveryKeeps ==
  ASSUME IInv, NEW read \in reads, Recovered(read) \/ RecoveryFailed(read)
  PROVE  IInv'
<1> USE DEF IInv
<1>1. stream = "recovering" /\ attempts <= MaxReconnects
  BY DEF Recovered, RecoveryFailed, LoopInv
<1>2. \A other \in reads : other.by # "sync"
  BY <1>1 DEF LoopInv
<1>3. CASE Recovered(read)
  <2>1. /\ snapshot' \in [status : {"none", "running", "waiting_approval"} \cup Terminal,
                          pending : Nat, at : 0..MaxEvents]
        /\ cursor' \in 0..MaxEvents /\ listed' \subseteq 1..MaxEvents
        /\ EndIsLast' /\ EndIsTrue'
    BY <1>3, AnsweredKeeps DEF Recovered
  <2>2. CASE (\A other \in reads' : other.by # "recover") /\ Connect /\ attempts' = 0
    <3>1. next' = cursor' + 1 /\ stream' = "opening" /\ attempts' = 0
      BY <2>2 DEF Connect
    <3>2. cursor' + 1 \in 1..MaxEvents + 1
      <4>1. cursor' \in 0..MaxEvents
        BY <2>1, Zenon
      <4>2. \A c \in 0..MaxEvents : c + 1 \in 1..MaxEvents + 1
        BY BoundsAssumption
      <4> QED BY <4>1, <4>2, Zenon
    <3>3. LoopInv'
      <4>1. \A other \in reads' : other \in reads
        BY <1>3 DEF Recovered
      <4> HIDE DEF IInv
      <4> QED BY <1>2, <2>2, <3>1, <4>1, BoundsAssumption DEF LoopInv
    <3>4. TypeOK'
      <4>1. next' \in 1..MaxEvents + 1
        BY <3>1, <3>2, Zenon
      <4>2. reads' \subseteq Reads
        BY <1>3 DEF Recovered, TypeOK
      <4>3. log' \in Seq(Events) /\ Len(log') <= MaxEvents
        BY <1>3 DEF Recovered, TypeOK
      <4>4. attempts' \in 0..MaxReconnects + 1
        BY <3>1, BoundsAssumption
      <4> HIDE DEF IInv
      <4> QED BY <2>1, <3>1, <4>1, <4>2, <4>3, <4>4, Zenon DEF TypeOK
    <3> QED BY <2>1, <3>3, <3>4
  <2>3. CASE UNCHANGED loop
    BY <1>1, <1>2, <1>3, <2>1, <2>3 DEF Recovered, TypeOK, LoopInv, loop
  <2> QED BY <1>3, <2>2, <2>3 DEF Recovered
<1>4. CASE RecoveryFailed(read)
  <2>1. \A other \in reads' : other \in Reads /\ other.by \notin {"recover", "sync"}
    BY <1>2, <1>4 DEF RecoveryFailed, TypeOK, Reads
  <2> QED BY <1>1, <1>4, <2>1, SameShown, BoundsAssumption DEF RecoveryFailed, TryAgain, TypeOK, LoopInv, console
<1> QED BY <1>3, <1>4

LEMMA NextIInv == IInv /\ [Next]_vars => IInv'
<1> SUFFICES ASSUME IInv, [Next]_vars PROVE IInv'
  OBVIOUS
<1>1. CASE StreamLoop
  BY <1>1, DeliverKeeps, ReconnectingKeeps, SyncKeeps, RecoveryKeeps DEF StreamLoop
<1>2. CASE UNCHANGED vars
  BY <1>2, SameShown DEF IInv, TypeOK, LoopInv, vars, console, loop
<1> QED BY <1>1, <1>2, EngineKeeps, ReconnectingKeeps, AnswersKeep, DecideKeeps DEF Next

(* The inductive invariant holds of every reachable state. *)
THEOREM Invariance == Spec => []IInv
BY InitIInv, NextIInv, PTL DEF Spec

-----------------------------------------------------------------------------
(* Every variable of the console keeps its type, the bounds included: the    *)
(* loop never goes on after maxReconnectAttempts (useRunConsole).            *)
THEOREM TypeCorrect == Spec => []TypeOK
<1>1. IInv => TypeOK
  BY DEF IInv
<1> QED BY <1>1, Invariance, PTL

(* However answers, events, reconnections and recoveries interleave, the     *)
(* console shows no run as over that is not, and goes on from the cursor of  *)
(* what it shows (useRunConsole, applyDaxEventToSnapshot).                   *)
THEOREM EndTrue == Spec => []EndIsTrue
<1>1. IInv => EndIsTrue
  BY DEF IInv
<1> QED BY <1>1, Invariance, PTL
=============================================================================
