-------------------------- MODULE PicobotCommands --------------------------
(***************************************************************************)
(* Commands that Picobot has left for an operator: the page lists them and *)
(* executes one on a press of its button, the API creates a DAX run and    *)
(* then marks the row. The page shows what the last overview to arrive     *)
(* says, which need not be the last one asked for, and remembers one       *)
(* command as being executed, however many are.                            *)
(***************************************************************************)
EXTENDS Integers

CONSTANTS
  Commands,
  Own,        \* those of a workspace of the operator: the overview may show others
  Requests,   \* bound: presses of a button
  Loads,      \* bound: overviews, by the timer, by hand and after a press
  None

VARIABLES
  row,         \* Postgres: every command's status and the run it names
  made,        \* DAX: the requests for which there is a run
  req,         \* every press: its command, how far the API is with it, whether
               \* the page waits for it, and (history) whose runs the rows named
               \* when the button was pressed
  load,        \* every overview: how far it is, and the statuses that it brings
  shown,       \* the page: the statuses it lists
  executing    \* the page: executingCommandId

vars == <<row, made, req, load, shown, executing>>

Statuses == {"pending", "executing"}
Listed == [Commands -> Statuses \cup {"hidden"}]
Hidden == [c \in Commands |-> "hidden"]

Idle == [command |-> None, pc |-> "idle", waiting |-> FALSE, after |-> {}]
Unasked == [pc |-> "idle", brings |-> Hidden]

TypeOK ==
  /\ row \in [Commands -> [status : Statuses, run : Requests \cup {None}]]
  /\ made \subseteq Requests
  /\ req \in [Requests -> [command : Commands \cup {None}, waiting : BOOLEAN,
                           pc : {"idle", "sent", "found", "created", "done", "failed"},
                           after : SUBSET Requests]]
  /\ load \in [Loads -> [pc : {"idle", "asked", "read", "over"}, brings : Listed]]
  /\ shown \in Listed /\ executing \in Commands \cup {None}

Init ==
  /\ row = [c \in Commands |-> [status |-> "pending", run |-> None]]
  /\ made = {}
  /\ req = [r \in Requests |-> Idle] /\ load = [l \in Loads |-> Unasked]
  /\ shown = Hidden /\ executing = None

At(r, pc) == req[r].pc = pc

Goto(r, pc) == req' = [req EXCEPT ![r].pc = pc]

-----------------------------------------------------------------------------
(* The page *)

\* loadOverview sends its requests: on entry, every 20 seconds, by hand.
AskOverview(l) ==
  /\ load[l].pc = "idle"
  /\ load' = [load EXCEPT ![l].pc = "asked"]
  /\ UNCHANGED <<row, made, req, shown, executing>>

\* The answer is shown whole, whatever has been shown since it was asked for; an
\* overview that has failed empties the list.
ShowOverview(l) ==
  /\ \/ load[l].pc = "read" /\ shown' = load[l].brings
     \/ load[l].pc \in {"asked", "read"} /\ shown' = Hidden
  /\ load' = [load EXCEPT ![l] = [Unasked EXCEPT !.pc = "over"]]
  /\ UNCHANGED <<row, made, req, executing>>

\* The button is there for a command shown as pending, and disabled for the one
\* that executingCommandId names.
Press(r, c) ==
  /\ At(r, "idle") /\ shown[c] = "pending" /\ executing # c
  /\ executing' = c
  /\ req' = [req EXCEPT ![r] = [command |-> c, pc |-> "sent", waiting |-> TRUE,
                                after |-> {row[d].run : d \in Commands} \ {None}]]
  /\ UNCHANGED <<row, made, load, shown>>

\* The answer comes, good or bad, or none does before the request times out. After
\* a good one the overview is asked for again. Either way no command is taken as
\* being executed, even if another one is.
Answered(r) ==
  /\ req[r].waiting
  /\ \/ /\ At(r, "done")
        /\ \E l \in Loads :
             /\ load[l].pc = "idle"
             /\ load' = [load EXCEPT ![l].pc = "asked"]
     \/ UNCHANGED load
  /\ executing' = None
  /\ req' = [req EXCEPT ![r].waiting = FALSE]
  /\ UNCHANGED <<row, made, shown>>

-----------------------------------------------------------------------------
(* The API *)

\* getOverview reads the commands of the instance.
ReadOverview(l) ==
  /\ load[l].pc = "asked"
  /\ load' = [load EXCEPT ![l] = [pc |-> "read",
                                  brings |-> [c \in Commands |-> row[c].status]]]
  /\ UNCHANGED <<row, made, req, shown, executing>>

\* Mutant: the command is found in whatever status.
FindAny(r) ==
  /\ At(r, "sent")
  /\ Goto(r, IF req[r].command \in Own THEN "found" ELSE "failed")
  /\ UNCHANGED <<row, made, load, shown, executing>>

\* executeCommand finds the command if it is still pending and of a workspace of
\* the user.
Find(r) ==
  /\ At(r, "sent")
  /\ Goto(r, IF row[req[r].command].status = "pending" /\ req[r].command \in Own
             THEN "found" ELSE "failed")
  /\ UNCHANGED <<row, made, load, shown, executing>>

\* DAX creates a run, does not, or does so and its answer is lost.
CreateRun(r) ==
  /\ At(r, "found")
  /\ \/ made' = made \cup {r} /\ Goto(r, "created")
     \/ made' \in {made, made \cup {r}} /\ Goto(r, "failed")
  /\ UNCHANGED <<row, load, shown, executing>>

\* The row takes the run, unless the write fails or the API has gone down.
MarkRow(r) ==
  /\ At(r, "created")
  /\ \/ /\ row' = [row EXCEPT ![req[r].command] = [status |-> "executing", run |-> r]]
        /\ Goto(r, "done")
     \/ Goto(r, "failed") /\ UNCHANGED row
  /\ UNCHANGED <<made, load, shown, executing>>

Next ==
  \/ \E l \in Loads : AskOverview(l) \/ ReadOverview(l) \/ ShowOverview(l)
  \/ \E r \in Requests :
       \/ \E c \in Commands : Press(r, c)
       \/ Find(r) \/ CreateRun(r) \/ MarkRow(r) \/ Answered(r)

Spec == Init /\ [][Next]_vars

-----------------------------------------------------------------------------
(* Properties *)

\* An overview that arrives late shows a command as pending again, and its button
\* comes back also while it is being executed, when the execution of another has
\* ended. Still a command whose row names a run gets no other run from a press that
\* comes after: two runs of a command are of presses that were under way at once, or
\* the first never reached the row. And the run that a row names is one of its own.
CommandsRunOnce ==
  /\ \A c \in Commands : row[c].status = "executing" =>
       row[c].run \in made /\ req[row[c].run].command = c
  /\ \A r, s \in made : req[r].command = req[s].command => r \notin req[s].after
=============================================================================
