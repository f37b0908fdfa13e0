------------------------------ MODULE Personas ------------------------------
(***************************************************************************)
(* One persona and the record of its versions. Every request that edits it *)
(* reads the row, writes the row and then writes the record, each in a     *)
(* call of its own, and nothing holds the row in between: requests overlap *)
(* freely. Only the unique index on a version keeps two records apart.     *)
(*                                                                         *)
(* A configuration is the set of the requests whose fields are in it.      *)
(***************************************************************************)
EXTENDS Integers

CONSTANTS
  Requests,     \* requests to create, edit, roll back or delete the persona
  MaxFailures   \* bound: calls of the database that fail, crashes of the API included

VARIABLES
  row,        \* the persona, or Absent
  record,     \* version |-> the configuration recorded under it
  req,        \* the locals of every request
  failures

vars == <<row, record, req, failures>>

Configs == SUBSET Requests
Absent == [version |-> 0, config |-> {}, builtIn |-> FALSE, deleted |-> FALSE]
Exists == row.version > 0

Kinds == {"create", "update", "rollback", "delete"}
Places == {"idle", "read", "found", "written", "done", "refused", "failed"}

\* base and version are what the request has read and what it writes, old the
\* configuration it has read, config the one it writes.
Local(kind, pc, version, old, config) ==
  [kind |-> kind, pc |-> pc, version |-> version, old |-> old, config |-> config]

TypeOK ==
  /\ row \in [version : Nat, config : Configs, builtIn : BOOLEAN, deleted : BOOLEAN]
  /\ DOMAIN record \subseteq Nat \ {0} /\ record \in [DOMAIN record -> Configs]
  /\ req \in [Requests -> [kind : Kinds, pc : Places, version : Nat,
                           old : Configs, config : Configs]]
  /\ failures \in 0..MaxFailures

\* The persona is yet to be created, or one of those that the seed has built in,
\* which have no record of their first version.
Init ==
  /\ row \in {Absent, [Absent EXCEPT !.version = 1, !.builtIn = TRUE]}
  /\ record = [v \in {} |-> {}]
  /\ req = [r \in Requests |-> Local("create", "idle", 0, {}, {})]
  /\ failures = 0

At(r, pc) == req[r].pc = pc

Goto(r, pc) == req' = [req EXCEPT ![r].pc = pc]

-----------------------------------------------------------------------------
(* The requests *)

\* create, clone and importPersona: a new row shows version 1, before its record
\* is there. A clone takes its configuration from another persona.
Create(r) ==
  /\ At(r, "idle") /\ ~Exists
  /\ row' = [Absent EXCEPT !.version = 1, !.config = {r}]
  /\ req' = [req EXCEPT ![r] = Local("create", "written", 1, {}, {r})]
  /\ UNCHANGED <<record, failures>>

\* findOne and the check that follows it: what a request works with from here on.
Read(r, kind) ==
  /\ At(r, "idle")
  /\ IF Exists /\ ~row.deleted /\ ~row.builtIn
     THEN req' = [req EXCEPT ![r] = Local(kind, "read", row.version + 1,
                                          row.config, row.config \cup {r})]
     ELSE Goto(r, "refused")
  /\ UNCHANGED <<row, record, failures>>

\* rollback looks its target up, among the records as they are now.
FindVersion(r, v) ==
  /\ At(r, "read") /\ req[r].kind = "rollback"
  /\ IF v \in DOMAIN record
     THEN req' = [req EXCEPT ![r].pc = "found", ![r].config = record[v]]
     ELSE Goto(r, "refused")
  /\ UNCHANGED <<row, record, failures>>

\* The update of the row, by its id alone, whatever has become of it meanwhile.
Write(r) ==
  /\ \/ At(r, "read") /\ req[r].kind = "update"
     \/ At(r, "found")
  /\ row' = [row EXCEPT !.version = req[r].version, !.config = req[r].config]
  /\ Goto(r, "written")
  /\ UNCHANGED <<record, failures>>

\* Mutant: a record of the version that is there already is overwritten.
RecordOver(r) ==
  /\ At(r, "written")
  /\ record' = [v \in DOMAIN record \cup {req[r].version} |->
                  IF v = req[r].version THEN req[r].config ELSE record[v]]
  /\ Goto(r, "done")
  /\ UNCHANGED <<row, failures>>

\* The record of the version, which the unique index refuses when it is there.
Record(r) ==
  /\ At(r, "written")
  /\ IF req[r].version \in DOMAIN record
     THEN Goto(r, "failed") /\ UNCHANGED record
     ELSE /\ record' = [v \in DOMAIN record \cup {req[r].version} |->
                          IF v = req[r].version THEN req[r].config ELSE record[v]]
          /\ Goto(r, "done")
  /\ UNCHANGED <<row, failures>>

\* delete marks the row.
Delete(r) ==
  /\ At(r, "read") /\ req[r].kind = "delete"
  /\ row' = [row EXCEPT !.deleted = TRUE]
  /\ Goto(r, "done")
  /\ UNCHANGED <<record, failures>>

\* The call that a request waits for fails, or the API goes down under it.
Break(r) ==
  /\ failures < MaxFailures /\ req[r].pc \in {"read", "found", "written"}
  /\ failures' = failures + 1
  /\ Goto(r, IF At(r, "written") THEN "failed" ELSE "refused")
  /\ UNCHANGED <<row, record>>

Next ==
  \E r \in Requests :
    \/ Create(r) \/ Write(r) \/ Record(r) \/ Delete(r) \/ Break(r)
    \/ \E kind \in Kinds \ {"create"} : Read(r, kind)
    \/ \E v \in 1..row.version + 1 : FindVersion(r, v)

Spec == Init /\ [][Next]_vars

-----------------------------------------------------------------------------
(* Properties *)

\* No request is between the row and its record, and none has ended there with
\* an error.
Unbroken == \A r \in Requests : ~At(r, "written") /\ ~At(r, "failed")

\* Edits that overlap can overwrite each other, take the version of the row back
\* and leave it with a configuration that no record has. Then one of them has ended
\* with an error: while none has, the records are those of the versions up to the
\* row's own, the row shows the last, and each was made from the one before it, so
\* that no edit is lost.
HistoryIsWhole ==
  Unbroken /\ Exists /\ ~row.builtIn =>
    /\ DOMAIN record = 1..row.version
    /\ record[row.version] = row.config
    /\ \A r \in Requests : At(r, "done") /\ req[r].kind \in {"update", "rollback"} =>
         record[req[r].version - 1] = req[r].old
=============================================================================
