-------------------------- MODULE WorkflowCatalog --------------------------
(***************************************************************************)
(* The workflows of one workspace: how they get their names and slugs. The *)
(* editor saves a workflow whole, its name always included; the API looks  *)
(* for a free slug when the name is another one than it has just read, and *)
(* writes afterwards. The unique index on slugs has the last word.         *)
(***************************************************************************)
EXTENDS Integers, Sequences

CONSTANTS
  Workflows,    \* bound: rows
  Names,        \* of which every one makes another slug
  Templates,    \* defaultTemplates: their names and slugs, in order
  MaxAttempts,  \* 20: after as many slugs that are taken one is made from the time
  Requests,     \* bound: calls of the API
  None

VARIABLES
  row,        \* the rows: name, slug and version
  req,        \* the locals of every request
  overlapped  \* history: workflows that were written between the read and the
              \* write of an update

vars == <<row, req, overlapped>>

\* A slug is made of a name and a number, which the first has not (1), or of a name
\* and the time, which no two requests share.
Slug(name, attempt) == [of |-> name, nr |-> attempt]
Slugs == [of : Names, nr : 1..MaxAttempts \cup Requests]

\* The slug of a template is one of its own: that of Repository Intelligence is the
\* one that the name Repo Intelligence would have.
Template == [name : Names, slug : Slugs]

NoRow == [name |-> None, slug |-> None, version |-> 0]
Saved == {w \in Workflows : row[w].version > 0}
TakenBy(slug) == {w \in Saved : row[w].slug = slug}

\* place counts the attempts, or the templates; row is the target as it was read.
Idle == [pc |-> "idle", target |-> None, name |-> None, slug |-> None,
         place |-> 1, version |-> 0]

TypeOK ==
  /\ row \in [Workflows -> [name : Names \cup {None}, slug : Slugs \cup {None}, version : Nat]]
  /\ req \in [Requests ->
       [pc : {"idle", "search", "write", "template", "add", "done", "refused"},
        target : Workflows \cup {None}, name : Names \cup {None},
        slug : Slugs \cup {None}, place : Nat, version : Nat]]
  /\ overlapped \subseteq Workflows

Init ==
  /\ row = [w \in Workflows |-> NoRow]
  /\ req = [r \in Requests |-> Idle]
  /\ overlapped = {}

At(r, pc) == req[r].pc = pc

Goto(r, pc) == req' = [req EXCEPT ![r].pc = pc]

-----------------------------------------------------------------------------
(* create and update *)

Create(r, name) ==
  /\ At(r, "idle")
  /\ req' = [req EXCEPT ![r].pc = "search", ![r].name = name]
  /\ UNCHANGED <<row, overlapped>>

\* Mutant: another name needs no other slug.
UpdateKeepsSlug(r, w, name) ==
  /\ At(r, "idle") /\ w \in Saved
  /\ req' = [req EXCEPT ![r] = [Idle EXCEPT
               !.pc = "write", !.target = w, !.name = name, !.version = row[w].version]]
  /\ UNCHANGED <<row, overlapped>>

\* update reads the row; a name that it has already needs no other slug.
Update(r, w, name) ==
  /\ At(r, "idle") /\ w \in Saved
  /\ req' = [req EXCEPT ![r] = [Idle EXCEPT
               !.pc = IF name = row[w].name THEN "write" ELSE "search",
               !.target = w, !.name = name, !.version = row[w].version]]
  /\ UNCHANGED <<row, overlapped>>

\* One round of ensureUniqueSlug: is the slug that of another workflow?
SearchSlug(r) ==
  /\ At(r, "search")
  /\ LET slug == Slug(req[r].name, req[r].place)
         free == TakenBy(slug) \subseteq {req[r].target}
     IN \/ /\ free
           /\ req' = [req EXCEPT ![r].slug = slug, ![r].pc = "write"]
        \/ /\ ~free /\ req[r].place < MaxAttempts
           /\ req' = [req EXCEPT ![r].place = @ + 1]
        \/ /\ ~free /\ req[r].place = MaxAttempts
           /\ req' = [req EXCEPT ![r].slug = Slug(req[r].name, r), ![r].pc = "write"]
  /\ UNCHANGED <<row, overlapped>>

\* A row is added in a free place, as long as the index allows it.
Insert(name, slug) ==
  \E w \in Workflows \ Saved :
    row' = [row EXCEPT ![w] = [name |-> name, slug |-> slug, version |-> 1]]

\* What is written to the row that was read is the name, and the slug if there is
\* a new one.
WriteWorkflow(r) ==
  /\ At(r, "write")
  /\ LET w == req[r].target
         slug == IF req[r].slug = None THEN row[w].slug ELSE req[r].slug
     IN \/ /\ TakenBy(slug) \ {w} # {}
           /\ Goto(r, "refused") /\ UNCHANGED <<row, overlapped>>
        \/ /\ TakenBy(slug) = {} /\ w = None
           /\ Insert(req[r].name, slug)
           /\ Goto(r, "done") /\ UNCHANGED overlapped
        \/ /\ TakenBy(slug) \subseteq {w} /\ w # None
           /\ row' = [row EXCEPT ![w] = [name |-> req[r].name, slug |-> slug,
                                         version |-> @.version + 1]]
           /\ overlapped' = IF row[w].version = req[r].version THEN overlapped
                            ELSE overlapped \cup {w}
           /\ Goto(r, "done")

-----------------------------------------------------------------------------
(* bootstrapTemplates *)

Bootstrap(r) ==
  /\ At(r, "idle")
  /\ Goto(r, "template")
  /\ UNCHANGED <<row, overlapped>>

\* Is there a workflow with the slug of the template? If so, or when it has been
\* added, the next template is looked for.
FindTemplate(r) ==
  /\ At(r, "template")
  /\ LET place == req[r].place IN
       \/ place > Len(Templates) /\ Goto(r, "done")
       \/ /\ place <= Len(Templates) /\ TakenBy(Templates[place].slug) # {}
          /\ req' = [req EXCEPT ![r].place = @ + 1]
       \/ /\ place <= Len(Templates) /\ TakenBy(Templates[place].slug) = {}
          /\ Goto(r, "add")
  /\ UNCHANGED <<row, overlapped>>

AddTemplate(r) ==
  /\ At(r, "add")
  /\ LET template == Templates[req[r].place] IN
       \/ /\ TakenBy(template.slug) # {}
          /\ Goto(r, "refused") /\ UNCHANGED row
       \/ /\ TakenBy(template.slug) = {}
          /\ Insert(template.name, template.slug)
          /\ req' = [req EXCEPT ![r].pc = "template", ![r].place = @ + 1]
  /\ UNCHANGED overlapped

Next ==
  \E r \in Requests :
    \/ \E name \in Names : Create(r, name) \/ \E w \in Workflows : Update(r, w, name)
    \/ Bootstrap(r)
    \/ SearchSlug(r) \/ WriteWorkflow(r) \/ FindTemplate(r) \/ AddTemplate(r)

Spec == Init /\ [][Next]_vars

-----------------------------------------------------------------------------
(* Properties *)

\* A slug that a workflow of this name is given.
Suits(name, slug) ==
  slug.of = name \/ \E i \in DOMAIN Templates : Templates[i] = [name |-> name, slug |-> slug]

\* The editor saves the name with everything else, and the API gives a new slug only
\* when the name differs from the one it has read: two updates of a workflow that
\* overlap can leave it with the name of the one and the slug of the other. Without
\* such an overlap the slug of a workflow is one that was made from its name, or the
\* two are those of a template; no two workflows have the same slug; and an update
\* that leaves the name alone is not refused for its slug.
SlugsFollowNames ==
  /\ \A w \in Saved \ overlapped : Suits(row[w].name, row[w].slug)
  /\ \A v, w \in Saved : row[v].slug = row[w].slug => v = w
  /\ \A r \in Requests : At(r, "refused") /\ req[r].target # None => req[r].slug # None
=============================================================================
