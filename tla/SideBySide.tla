----------------------------- MODULE SideBySide -----------------------------
(***************************************************************************)
(* Five components that share nothing, for TLC to check in one run: each   *)
(* behaviour is one of the subject that its initial state names, while the *)
(* others stay as they begin, so that the states of the run are the sum of *)
(* those of the five.                                                      *)
(***************************************************************************)
EXTENDS StoreHistory

CONSTANTS
  None,
  Edits, MaxFailures,                                           \* Personas
  Commands, Own, Presses, Loads,                                \* PicobotCommands
  Users, Providers, Calls, LinkTtl, LinkTime,                   \* Connections
  Workflows, Names, Templates, MaxAttempts, Saves               \* WorkflowCatalog

VARIABLES
  subject,
  persona, record, edit, failures,                    \* Personas
  command, created, press, load, shown, executing,    \* PicobotCommands
  members, standing, today, links, conn, call,        \* Connections
  flow, save, overlapped                              \* WorkflowCatalog

personaVars == <<persona, record, edit, failures>>
picobotVars == <<command, created, press, load, shown, executing>>
linksVars == <<members, standing, today, links, conn, call>>
catalogVars == <<flow, save, overlapped>>

Persona == INSTANCE Personas WITH Requests <- Edits, row <- persona, req <- edit

Picobot == INSTANCE PicobotCommands WITH
  Requests <- Presses, row <- command, made <- created, req <- press

Links == INSTANCE Connections WITH
  Requests <- Calls, MaxTime <- LinkTime, now <- today, req <- call

Catalog == INSTANCE WorkflowCatalog WITH Requests <- Saves, row <- flow, req <- save

\* None is nobody and nothing: no user, run, command, slug, workflow or time.
ASSUME SideAssumption ==
  /\ MaxFailures \in Nat /\ LinkTtl \in Nat /\ LinkTime \in Nat /\ MaxAttempts \in Nat \ {0}
  /\ None \notin Commands \cup Presses \cup Users \cup Calls \cup Workflows \cup Nat
  /\ None \notin Catalog!Slugs /\ Templates \in Seq(Catalog!Template)

SideInit ==
  /\ subject \in {"persona", "store", "picobot", "links", "catalog"}
  /\ Persona!Init /\ StoreInit /\ Picobot!Init /\ Links!Init /\ Catalog!Init
  /\ subject = "persona" \/ ~Persona!Exists
  /\ subject = "links" \/ members = Users

PersonaStep ==
  /\ subject = "persona" /\ Persona!Next
  /\ UNCHANGED <<subject, storeVars, picobotVars, linksVars, catalogVars>>

StoreStep ==
  /\ subject = "store" /\ StoreNext
  /\ UNCHANGED <<subject, personaVars, picobotVars, linksVars, catalogVars>>

PicobotStep ==
  /\ subject = "picobot" /\ Picobot!Next
  /\ UNCHANGED <<subject, personaVars, storeVars, linksVars, catalogVars>>

LinksStep ==
  /\ subject = "links" /\ Links!Next
  /\ UNCHANGED <<subject, personaVars, storeVars, picobotVars, catalogVars>>

CatalogStep ==
  /\ subject = "catalog" /\ Catalog!Next
  /\ UNCHANGED <<subject, personaVars, storeVars, picobotVars, linksVars>>

SideNext == PersonaStep \/ StoreStep \/ PicobotStep \/ LinksStep \/ CatalogStep

sideVars == <<subject, personaVars, storeVars, picobotVars, linksVars, catalogVars>>

SideSpec == SideInit /\ [][SideNext]_sideVars

-----------------------------------------------------------------------------
(* The properties of the components, under their names there. *)

\* The records of a persona are those of its versions, and no edit is lost, unless
\* one has ended with an error.
HistoryIsWhole == Persona!HistoryIsWhole

\* A command of Picobot that has been executed is not executed again.
CommandsRunOnce == Picobot!CommandsRunOnce

\* A token was brought to the workspace by somebody who had standing there in time.
TokensAreOfMembers == Links!TokensAreOfMembers

\* A workflow has a slug of its name, or those of a template, unless updates of it
\* have overlapped.
SlugsFollowNames == Catalog!SlugsFollowNames
=============================================================================
