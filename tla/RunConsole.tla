----------------------------- MODULE RunConsole -----------------------------
(***************************************************************************)
(* The console of a DAX run in the browser: the hook useRunConsole         *)
(* (apps/web/src/hooks/useRunConsole.ts) with the projection of events     *)
(* (lib/dax-run.ts) and the event stream (lib/api.ts), over the proxy of   *)
(* the API (modules/dax).                                                  *)
(*                                                                         *)
(* The DAX engine is external: log is what has happened to the run, and a  *)
(* snapshot or list of approvals that it returns is that of some point of  *)
(* the log between the request and its answer. Each continuation of an     *)
(* await in the browser is an action. Titles, steps, artifacts, summaries  *)
(* and toasts are left out; a failed run is treated as a completed one is. *)
(***************************************************************************)
EXTENDS Naturals, Sequences, FiniteSets

CONSTANTS
  MaxEvents,      \* bound: the events of the run
  MaxReads,       \* bound: the GET requests that are in flight
  MaxReconnects,  \* maxReconnectAttempts
  ReadsFail       \* whether a GET request may fail

ASSUME BoundsAssumption ==
  /\ MaxEvents \in Nat /\ MaxReads \in Nat \ {0} /\ MaxReconnects \in Nat \ {0}
  /\ ReadsFail \in BOOLEAN

VARIABLES
  log,       \* the events of the run, at the engine
  snapshot,  \* the snapshot that is shown; at is the cursor of its lastEvent
  cursor,    \* lastCursorRef
  listed,    \* the approvals that are shown as pending
  reads,     \* the GET requests that have not been answered
  stream,    \* where the stream loop is
  next,      \* the event that the open stream delivers next
  attempts   \* reconnectAttempts

vars == <<log, snapshot, cursor, listed, reads, stream, next, attempts>>
console == <<snapshot, cursor, listed>>
loop == <<stream, next, attempts>>

-----------------------------------------------------------------------------
(* The engine *)

Terminal == {"completed", "cancelled"}
EventTypes == {"requested", "resolved"} \cup Terminal

\* approval.requested and resolved name the approval by the place of its
\* request; cancelled is a run.state_changed. Events that change neither the
\* status nor the pending approvals are left out.
Events == [type : EventTypes, of : 0..MaxEvents]

PendingAt(n) ==
  {i \in 1..n : /\ log[i].type = "requested"
                /\ \A j \in i..n : ~(log[j].type = "resolved" /\ log[j].of = i)}

StatusAt(n) ==
  IF n > 0 /\ log[n].type \in Terminal THEN log[n].type
  ELSE IF PendingAt(n) # {} THEN "waiting_approval" ELSE "running"

SnapshotAt(n) == [status |-> StatusAt(n), pending |-> Cardinality(PendingAt(n)), at |-> n]

Ended == StatusAt(Len(log)) \in Terminal

Emit(event) ==
  /\ ~Ended /\ Len(log) < MaxEvents
  /\ log' = Append(log, event)

\* The run goes on: it asks for an approval, which someone else may resolve, or ends.
Engine ==
  /\ \/ \E type \in EventTypes \ {"resolved"} : Emit([type |-> type, of |-> 0])
     \/ \E i \in PendingAt(Len(log)) : Emit([type |-> "resolved", of |-> i])
  /\ UNCHANGED <<console, reads, loop>>

-----------------------------------------------------------------------------
(* Reading snapshots and approvals *)

NoSnapshot == [status |-> "none", pending |-> 0, at |-> 0]

\* by is the code that waits for the answer, from the length of the log when
\* it was asked for. What an event or a decision asks for is only shown.
Reads == [what : {"snapshot", "approvals"},
          by : {"load", "sync", "recover", "background"},
          from : 0..MaxEvents]

Read(what, by) == [what |-> what, by |-> by, from |-> Len(log)]
Both(by) == {Read("snapshot", by), Read("approvals", by)}

\* Mutant: a status is shown that the engine has not reported.
ShowAsEnded(n) ==
  /\ snapshot' = [SnapshotAt(n) EXCEPT
       !.status = IF PendingAt(n) = {} /\ n > 0 /\ log[n].type = "resolved"
                  THEN "completed" ELSE @]
  /\ cursor' = n

\* refreshSnapshot and refreshApprovals, when the answer is there.
Show(n) == snapshot' = SnapshotAt(n) /\ cursor' = n

Answered(read) ==
  \E n \in read.from..Len(log) :
    \/ read.what = "snapshot" /\ Show(n) /\ UNCHANGED listed
    \/ read.what = "approvals" /\ listed' = PendingAt(n) /\ UNCHANGED <<snapshot, cursor>>

\* The stream is asked for from the cursor on.
Connect ==
  /\ stream' = "opening"
  /\ next' = cursor' + 1

\* loadRun: the snapshot, then the approvals or, after a recovery, both.
LoadAnswered(read) ==
  /\ read \in reads /\ read.by = "load"
  /\ Answered(read)
  /\ \E more \in {{Read("approvals", "background")}, Both("background")} :
       reads' = (reads \ {read}) \cup more
  /\ UNCHANGED <<log, loop>>

\* The reads that only change what is shown.
BackgroundAnswered(read) ==
  /\ read \in reads /\ read.by = "background"
  /\ Answered(read)
  /\ reads' = reads \ {read}
  /\ UNCHANGED <<log, loop>>

\* loadRun gives up, with a toast; a decision's or an event's read is dropped.
ReadFailed(read) ==
  /\ read \in reads /\ read.by \notin {"sync", "recover"}
  /\ ReadsFail
  /\ reads' = reads \ {read}
  /\ UNCHANGED <<log, console, loop>>

-----------------------------------------------------------------------------
(* The stream loop *)

Opened ==
  /\ stream = "opening"
  /\ stream' = "live" /\ attempts' = 0
  /\ UNCHANGED <<log, console, reads, next>>

\* The request fails, or the open stream breaks.
Broken ==
  /\ stream \in {"opening", "live"}
  /\ stream' = "broken"
  /\ UNCHANGED <<log, console, reads, next, attempts>>

\* applyDaxEventToSnapshot: it knows the event, not where the snapshot is from.
Projected(event, n) ==
  LET pending == CASE event.type = "requested" -> snapshot.pending + 1
                   [] event.type = "resolved" /\ snapshot.pending > 0 -> snapshot.pending - 1
                   [] OTHER -> snapshot.pending
      status == CASE event.type = "requested" -> "waiting_approval"
                  [] event.type \in Terminal -> event.type
                  [] OTHER -> IF snapshot.status = "waiting_approval" /\ pending = 0
                              THEN "running" ELSE snapshot.status
  IN IF snapshot = NoSnapshot THEN snapshot
     ELSE [status |-> status, pending |-> pending, at |-> n]

\* shouldRefreshApprovalsForEvent and shouldRefreshSummaryForEvent.
Refreshes(event) ==
  CASE event.type \in {"requested", "resolved"} -> {Read("approvals", "background")}
    [] event.type = "completed" -> Both("background")
    [] OTHER -> {}

Deliver ==
  /\ stream = "live" /\ next <= Len(log)
  /\ snapshot' = Projected(log[next], next)
  /\ cursor' = next
  /\ reads' = reads \cup Refreshes(log[next]) /\ Cardinality(reads') <= MaxReads
  /\ next' = next + 1
  /\ UNCHANGED <<log, listed, stream, attempts>>

\* The stream ends: the engine has no more to say, or a proxy closed it.
StreamEnds ==
  /\ stream = "live"
  /\ \/ /\ snapshot.status \in Terminal
        /\ stream' = "closed" /\ UNCHANGED attempts
     \/ /\ snapshot.status \notin Terminal
        /\ stream' = "waiting" /\ attempts' = attempts + 1
  /\ UNCHANGED <<log, console, reads, next>>

\* Mutant: after the back-off the stream is asked for again, and nothing else.
ReconnectBlindly ==
  /\ stream = "waiting"
  /\ stream' = "opening" /\ next' = cursor + 1
  /\ UNCHANGED <<log, console, reads, attempts>>

\* After the back-off: syncAfterReconnect.
Reconnect ==
  /\ stream = "waiting"
  /\ stream' = "syncing"
  /\ reads' = reads \cup {Read("snapshot", "sync")}
  /\ UNCHANGED <<log, console, next, attempts>>

Synced(read) ==
  /\ read \in reads /\ read.by = "sync"
  /\ Answered(read)
  /\ \/ /\ read.what = "snapshot" /\ snapshot'.pending > 0
        /\ reads' = (reads \ {read}) \cup {Read("approvals", "sync")}
        /\ UNCHANGED <<stream, next>>
     \/ /\ read.what = "approvals" \/ snapshot'.pending = 0
        /\ reads' = reads \ {read}
        /\ \/ snapshot'.status \in Terminal /\ stream' = "closed" /\ UNCHANGED next
           \/ snapshot'.status \notin Terminal /\ Connect
  /\ UNCHANGED <<log, attempts>>

SyncFailed(read) ==
  /\ read \in reads /\ read.by = "sync"
  /\ ReadsFail
  /\ reads' = reads \ {read}
  /\ stream' = "broken"
  /\ UNCHANGED <<log, console, next, attempts>>

\* The catch block, when no recovery is needed or it failed.
TryAgain ==
  /\ attempts' = attempts + 1
  /\ stream' = IF attempts + 1 > MaxReconnects THEN "closed" ELSE "waiting"

\* The catch block; attemptRecovery reads both again when it succeeded.
Caught ==
  /\ stream = "broken"
  /\ \/ TryAgain /\ UNCHANGED reads
     \/ stream' = "recovering" /\ reads' = reads \cup Both("recover") /\ UNCHANGED attempts
  /\ UNCHANGED <<log, console, next>>

Recovered(read) ==
  /\ read \in reads /\ read.by = "recover"
  /\ Answered(read)
  /\ reads' = reads \ {read}
  /\ \/ (\A other \in reads' : other.by # "recover") /\ Connect /\ attempts' = 0
     \/ (\E other \in reads' : other.by = "recover") /\ UNCHANGED loop
  /\ UNCHANGED log

\* Promise.all rejects; the answer of the other read is shown when it comes.
RecoveryFailed(read) ==
  /\ ReadsFail
  /\ read \in reads /\ read.by = "recover"
  /\ reads' = {IF other.by = "recover" THEN [other EXCEPT !.by = "background"] ELSE other :
                 other \in reads \ {read}}
  /\ TryAgain
  /\ UNCHANGED <<log, console, next>>

-----------------------------------------------------------------------------
(* Resolving an approval *)

\* The first approval that is listed as pending is the one with the buttons.
\* If the engine takes the decision, both are read again; if it is too late
\* for it, or the answer is lost, nothing is.
Decide ==
  /\ \E i \in PendingAt(Len(log)) :
       /\ i \in listed /\ \A j \in listed : i <= j
       /\ Emit([type |-> "resolved", of |-> i])
  /\ \/ reads' = reads \cup {[read EXCEPT !.from = @ + 1] : read \in Both("background")}
     \/ UNCHANGED reads
  /\ Cardinality(reads') <= MaxReads
  /\ UNCHANGED <<console, loop>>

-----------------------------------------------------------------------------
Init ==
  /\ log = <<>>
  /\ snapshot = NoSnapshot /\ cursor = 0 /\ listed = {}
  /\ reads = {Read("snapshot", "load")}
  /\ stream = "opening" /\ next = 1 /\ attempts = 0

StreamLoop ==
  \/ Opened \/ Deliver \/ Reconnect \/ Caught
  \/ \E read \in reads : \/ Synced(read) \/ SyncFailed(read)
                         \/ Recovered(read) \/ RecoveryFailed(read)

Answers == \E read \in reads :
  LoadAnswered(read) \/ BackgroundAnswered(read) \/ ReadFailed(read)

Next ==
  \/ Engine \/ StreamLoop \/ StreamEnds \/ Broken \/ Answers \/ Decide

\* The browser runs its continuations, and a request is answered or fails by
\* its time-out. The engine ends the stream of a run that has ended.
Fairness ==
  /\ WF_vars(StreamLoop)
  /\ \A what \in {"snapshot", "approvals"} :
       WF_vars(\E read \in reads : /\ read.what = what
                                  /\ \/ LoadAnswered(read) \/ BackgroundAnswered(read)
                                     \/ ReadFailed(read))
  /\ WF_vars(Ended /\ next > Len(log) /\ StreamEnds)

Spec == Init /\ [][Next]_vars /\ Fairness

-----------------------------------------------------------------------------
(* Properties *)

TypeOK ==
  /\ log \in Seq(Events) /\ Len(log) <= MaxEvents
  /\ snapshot \in [status : {"none", "running", "waiting_approval"} \cup Terminal,
                   pending : Nat, at : 0..MaxEvents]
  /\ cursor \in 0..MaxEvents /\ next \in 1..MaxEvents + 1
  /\ listed \subseteq 1..MaxEvents
  /\ reads \subseteq Reads
  /\ stream \in {"opening", "live", "waiting", "syncing", "broken", "recovering", "closed"}
  /\ attempts \in 0..MaxReconnects + 1

\* However answers, events and reconnections interleave, the console never
\* shows a run as over that is not, or as over in another way; and the cursor
\* from which it would go on is the one of the snapshot that is shown.
EndIsTrue ==
  /\ snapshot.status \in Terminal => snapshot.status = StatusAt(Len(log))
  /\ snapshot # NoSnapshot => cursor = snapshot.at

\* The end of a run is noticed, although the first load may have failed and
\* the stream may break at any time: it is shown, or the loop has given up.
EndIsNoticed == Ended ~> (snapshot.status \in Terminal \/ stream = "closed")

\* docs/DAX_RUN_CONSOLE_RUNTIME.md (lines 28, 32): the console converges back
\* to the engine's truth, and approvals are those of its records. An approval
\* that stays pending is offered to the user while the stream is followed,
\* even if no request ever fails.
ApprovalsReachUser ==
  \A i \in 1..MaxEvents :
    i \in PendingAt(Len(log))
      ~> (i \in listed \/ i \notin PendingAt(Len(log)) \/ Ended \/ stream = "closed")
=============================================================================
