---------------------------- MODULE Connections ----------------------------
(***************************************************************************)
(* The connections of one workspace to third parties. A member asks for a  *)
(* link, which carries a signed state for ten minutes; whoever comes back  *)
(* from the provider with it is served without being signed in, so that    *)
(* the state is all that the callback goes by. A member may also bring a   *)
(* token, or disconnect. Members come and go meanwhile: an administrator   *)
(* adds and removes them.                                                  *)
(***************************************************************************)
EXTENDS Integers, FiniteSets

CONSTANTS
  Users,
  Providers,
  Requests,    \* bound: calls of the API
  LinkTtl,     \* the ten minutes
  MaxTime,     \* bound: the time at which the clock stops
  None

VARIABLES
  members,   \* the users who are members of the workspace
  standing,  \* history: when a user last had standing in it, or None
  now,
  links,     \* the states that have been signed
  conn,      \* Postgres: the row of every provider; its token is named by the
             \* request that has brought it
  req

vars == <<members, standing, now, links, conn, req>>

NoRow == [status |-> "none", token |-> None]
Idle == [kind |-> None, user |-> None, provider |-> None, pc |-> "idle", began |-> 0]
Links == [user : Users, provider : Providers, exp : 0..MaxTime + LinkTtl]

TypeOK ==
  /\ members \subseteq Users /\ now \in 0..MaxTime
  /\ standing \in [Users -> 0..MaxTime \cup {None}]
  /\ links \subseteq Links
  /\ conn \in [Providers -> [status : {"none", "connected", "disconnected"},
                             token : Requests \cup {None}]]
  /\ req \in [Requests -> [kind : {"connect", "callback", "manual", "disconnect", None},
                           user : Users \cup {None}, provider : Providers \cup {None},
                           pc : {"idle", "signing", "proving", "proved", "finding", "found", "over"},
                           began : 0..MaxTime]]

Init ==
  /\ members \in SUBSET Users
  /\ standing = [u \in Users |-> IF u \in members THEN 0 ELSE None]
  /\ now = 0 /\ links = {}
  /\ conn = [p \in Providers |-> NoRow]
  /\ req = [r \in Requests |-> Idle]

Goto(r, pc) == req' = [req EXCEPT ![r].pc = pc]

Begin(r, kind, u, p, pc) ==
  /\ req[r].pc = "idle"
  /\ req' = [req EXCEPT ![r] = [kind |-> kind, user |-> u, provider |-> p,
                                pc |-> pc, began |-> now]]
  /\ UNCHANGED <<members, standing, now, links, conn>>

Refuse(r) ==
  /\ req[r].pc = "idle" /\ Goto(r, "over")
  /\ UNCHANGED <<members, standing, now, links, conn>>

\* resolveWorkspaceId lets members in only.
Enter(r, kind, u, p, pc) ==
  \/ u \in members /\ Begin(r, kind, u, p, pc)
  \/ u \notin members /\ Refuse(r)

\* A user has standing as a member, and as long as a link that he has asked for as a
\* member is still to be signed.
HasStanding(u) ==
  u \in members \/ \E r \in Requests : req[r].pc = "signing" /\ req[r].user = u

-----------------------------------------------------------------------------
(* Operations *)

\* getConnectUrl: a member is let in ...
GetConnectUrl(r, u, p) == Enter(r, "connect", u, p, "signing")

\* ... and is given a state that says who asks, for which provider, and until when.
SignState(r) ==
  /\ req[r].pc = "signing"
  /\ links' = links \cup {[user |-> req[r].user, provider |-> req[r].provider,
                           exp |-> now + LinkTtl]}
  /\ Goto(r, "over")
  /\ UNCHANGED <<members, standing, now, conn>>

\* Mutant: the age of the state is not looked at.
CallbackUndated(r, l, p) ==
  \/ l \in links /\ l.provider = p /\ Begin(r, "callback", l.user, p, "proving")
  \/ (l \notin links \/ l.provider # p) /\ Refuse(r)

\* handleOAuthCallback of provider p takes the user from the state that it is given,
\* if that is one that was signed, for this provider, and not too long ago.
Callback(r, l, p) ==
  LET good == l \in links /\ l.provider = p /\ now <= l.exp
  IN \/ good /\ Begin(r, "callback", l.user, p, "proving")
     \/ ~good /\ Refuse(r)

\* setManualToken
BringToken(r, u, p) == Enter(r, "manual", u, p, "proving")

\* The provider exchanges the code for a token and says whose it is, or the one
\* or the other fails and the request ends.
Prove(r) ==
  /\ req[r].pc = "proving"
  /\ Goto(r, "proved") \/ Goto(r, "over")
  /\ UNCHANGED <<members, standing, now, links, conn>>

\* upsertConnection: the token takes the place of whatever the row holds, unless
\* the database refuses.
Upsert(r) ==
  /\ req[r].pc = "proved"
  /\ \/ conn' = [conn EXCEPT ![req[r].provider] = [status |-> "connected", token |-> r]]
     \/ UNCHANGED conn
  /\ Goto(r, "over")
  /\ UNCHANGED <<members, standing, now, links>>

\* disconnect looks the row up and marks it, by its id; the token stays in it.
Disconnect(r, u, p) == Enter(r, "disconnect", u, p, "finding")

FindRow(r) ==
  /\ req[r].pc = "finding"
  /\ Goto(r, IF conn[req[r].provider].status # "none" THEN "found" ELSE "over")
  /\ UNCHANGED <<members, standing, now, links, conn>>

MarkDisconnected(r) ==
  /\ req[r].pc = "found"
  /\ \/ conn' = [conn EXCEPT ![req[r].provider].status = "disconnected"]
     \/ UNCHANGED conn
  /\ Goto(r, "over")
  /\ UNCHANGED <<members, standing, now, links>>

\* addMember and removeMember of the workspaces
AddMember(u) ==
  /\ u \notin members
  /\ members' = members \cup {u} /\ standing' = [standing EXCEPT ![u] = now]
  /\ UNCHANGED <<now, links, conn, req>>

RemoveMember(u) ==
  /\ u \in members
  /\ members' = members \ {u}
  /\ UNCHANGED <<standing, now, links, conn, req>>

Tick ==
  /\ now < MaxTime
  /\ now' = now + 1
  /\ standing' = [u \in Users |-> IF HasStanding(u) THEN now + 1 ELSE standing[u]]
  /\ UNCHANGED <<members, links, conn, req>>

Next ==
  \/ Tick
  \/ \E u \in Users : AddMember(u) \/ RemoveMember(u)
  \/ \E r \in Requests :
       \/ SignState(r) \/ Prove(r) \/ Upsert(r) \/ FindRow(r) \/ MarkDisconnected(r)
       \/ \E p \in Providers :
            \/ \E l \in Links : Callback(r, l, p)
            \/ \E u \in Users : GetConnectUrl(r, u, p) \/ BringToken(r, u, p) \/ Disconnect(r, u, p)

Spec == Init /\ [][Next]_vars

-----------------------------------------------------------------------------
(* Properties *)

\* A user who was removed from the workspace can still connect it: with a link that is
\* still good, even one that is signed after the removal because it was asked for
\* before, and with a request that is still waiting for the provider. But not for
\* longer: the token of a connection was brought by somebody who had standing in the
\* workspace within the life of a link before coming back from its provider, and a
\* token that was typed in by somebody who was let in as a member then.
TokensAreOfMembers ==
  \A p \in Providers : conn[p].status # "none" =>
    LET r == req[conn[p].token] IN
      /\ r.provider = p /\ standing[r.user] # None
      /\ r.began <= standing[r.user] + (IF r.kind = "callback" THEN LinkTtl ELSE 0)
=============================================================================
