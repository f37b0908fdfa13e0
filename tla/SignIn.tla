-------------------------------- MODULE SignIn --------------------------------
(***************************************************************************)
(* How a user stays signed in: AuthService and its session table on one    *)
(* side, the axios interceptors and the persisted auth store of the web    *)
(* client on the other.                                                    *)
(*                                                                         *)
(* A login opens a session and issues a pair of tokens.  The access token  *)
(* goes with every call and lives shortly; the refresh token is exchanged  *)
(* for a new pair when a call is answered with 401.  A refresh is a lookup *)
(* of the session followed by a rotation of its token, with an await in    *)
(* between, and any number of calls of any tab may refresh at a time.      *)
(* Meanwhile a password reset or a logout of all devices may remove the    *)
(* session, pages are loaded anew, the database or the network may fail,   *)
(* and answers may be lost.                                                *)
(*                                                                         *)
(* Tokens are numbers: pair n is the n-th that was issued, pairs[n] the    *)
(* session it was issued for, and 0 is no token.  There is one user, whose *)
(* account is active; passwords are numbered by the resets before them.    *)
(***************************************************************************)
EXTENDS Naturals, Sequences, FiniteSets

CONSTANTS Tabs,         \* the tabs of one browser, which share its local storage
          MaxCalls,     \* how many calls the pages make, logins included
          Resets,       \* the requests that use the link of a reset mail, numbered
          MaxUpsets,    \* how often a refresh fails or its answer is lost, a session lapses
                        \* or is logged out, or the user signs out, takes the demo account,
                        \* reloads a page or asks for a link
          NoTab         \* the tab of a call that is not sent, or whose page is gone

ASSUME BoundsAssumption == NoTab \notin Tabs /\ Resets \subseteq Nat /\ MaxCalls \in Nat /\ MaxUpsets \in Nat

Calls     == 1 .. MaxCalls
NoToken   == 0
NoSession == 0

VARIABLES
  sessions,   \* session id -> its refresh token: the rows of the table
  lapsed,     \* the sessions whose expiresAt has passed
  pairs,      \* history: the session of every pair of tokens, NoSession for those that
              \* the login page makes up for the demo account
  ended,      \* history: the sessions that were deleted
  over,       \* history: the sessions that were deleted or have lapsed at some time
  password,   \* the number of the current password
  link,       \* the reset link that the user's row holds, NoToken when none
  links,      \* how many reset links were made
  resets,     \* the requests that reset the password
  spent,      \* history: the links that have reset the password
  store,      \* the pair in the auth store of each tab
  saved,      \* the pair in the browser's local storage
  leaving,    \* the tabs that are on their way to the login page
  calls,      \* the calls of the pages
  upsets

server == <<sessions, lapsed, pairs, ended, over>>
account == <<password, link, links, resets, spent>>
browser == <<store, saved, leaving>>
vars == <<server, account, browser, calls, upsets>>

\* beside: history, the calls of the page that were refreshing this token at once with it
Unsent == [at |-> "unsent", tab |-> NoTab, ref |-> NoToken, sid |-> NoSession, new |-> NoToken,
           retry |-> FALSE, lost |-> FALSE, pw |-> 0, beside |-> {}]
Refreshing == {"refreshing", "found", "renewed", "refused"}

(* The browser opens with the tokens of an earlier login, or without any. *)
Init ==
  /\ saved \in {NoToken, 1} /\ store = [t \in Tabs |-> saved] /\ leaving = {}
  /\ pairs = IF saved = 1 THEN <<1>> ELSE << >>
  /\ sessions = pairs
  /\ lapsed = {} /\ ended = {} /\ over = {}
  /\ password = 0 /\ link = NoToken /\ links = 0
  /\ resets = [r \in Resets |-> [at |-> "unsent", link |-> NoToken]] /\ spent = {}
  /\ calls = [c \in Calls |-> Unsent]
  /\ upsets = 0

Upset == upsets < MaxUpsets /\ upsets' = upsets + 1
Goes(c, to) == calls' = [calls EXCEPT ![c].at = to]
Settled == [Unsent EXCEPT !.at = "settled"]
(* The call is answered to the page, or gone; the tokens that it has exchanged are remembered. *)
Over(call) == IF call.ref = NoToken \/ call.new = NoToken THEN Settled
              ELSE [Settled EXCEPT !.tab = call.tab, !.ref = call.ref, !.new = call.new]
Settle(c) == calls' = [calls EXCEPT ![c] = Over(calls[c])]
(* The API answers, which leaves a call whose page is gone without consequence. *)
Reply(c, call) == calls' = [calls EXCEPT ![c] = IF call.tab = NoTab THEN Over(call) ELSE call]
(* Calls are numbered as they are sent. *)
Sendable(c) == calls[c].at = "unsent" /\ \A d \in 1 .. c - 1 : calls[d].at # "unsent"
NewPair == Len(pairs) + 1
Rows == DOMAIN sessions
Without(S) == [s \in Rows \ S |-> sessions[s]]

-----------------------------------------------------------------------------
(* The web client. *)

(* A page behind the login calls the API, with the access token of the store. *)
Send(c, t) ==
  /\ Sendable(c) /\ t \notin leaving /\ store[t] # NoToken
  /\ calls' = [calls EXCEPT ![c].at = "sent", ![c].tab = t]
  /\ UNCHANGED <<server, account, browser, upsets>>

(* The login page posts the password of the day, which a reset may overtake. *)
SendLogin(c, t) ==
  /\ Sendable(c) /\ t \notin leaving /\ store[t] = NoToken
  /\ calls' = [calls EXCEPT ![c].at = "login", ![c].tab = t, ![c].pw = password]
  /\ UNCHANGED <<server, account, browser, upsets>>

(* useAuthStore: login and logout, both persisted. *)
Keep(t, n) == store' = [store EXCEPT ![t] = n] /\ saved' = n

(* The page of the login puts the tokens into the store. *)
SignedIn(c) ==
  /\ calls[c].at = "opened"
  /\ Keep(calls[c].tab, calls[c].new)
  /\ Settle(c)
  /\ UNCHANGED <<server, account, leaving, upsets>>

(* The 401 of a call that was sent again goes to its caller. *)
Return(c) ==
  /\ calls[c].at = "denied" /\ calls[c].retry
  /\ Settle(c)
  /\ UNCHANGED <<server, account, browser, upsets>>

(* The first 401 of a call: the store is read now, not when the call was sent. *)
Unauthorized(c) ==
  LET t == calls[c].tab
      n == store[t]
      others == {d \in Calls : calls[d].tab = t /\ calls[d].ref = n /\ calls[d].at \in Refreshing}
  IN /\ calls[c].at = "denied" /\ ~calls[c].retry
     /\ IF n # NoToken
        THEN /\ calls' = [d \in Calls |->
                  IF d = c THEN [calls[c] EXCEPT !.at = "refreshing", !.retry = TRUE, !.ref = n,
                                                 !.beside = others]
                  ELSE IF d \in others THEN [calls[d] EXCEPT !.beside = @ \cup {c}]
                  ELSE calls[d]]
             /\ UNCHANGED browser
        ELSE /\ Settle(c)
             /\ Keep(t, NoToken) /\ leaving' = leaving \cup {t}
     /\ UNCHANGED <<server, account, upsets>>

(* The refresh was answered: the new pair is stored and the call sent again. *)
Retry(c) ==
  /\ calls[c].at = "renewed"
  /\ Keep(calls[c].tab, calls[c].new)
  /\ calls' = [calls EXCEPT ![c].at = "sent"]
  /\ UNCHANGED <<server, account, leaving, upsets>>

(* Mutation. *)
ForceOutSilently(c) ==     \* the catch signs out but does not reject
  /\ calls[c].at = "refused"
  /\ Keep(calls[c].tab, NoToken)
  /\ UNCHANGED <<server, account, leaving, calls, upsets>>

(* The refresh failed, for whatever reason: the user is signed out. *)
ForceOut(c) ==
  LET t == calls[c].tab IN
  /\ calls[c].at = "refused"
  /\ Keep(t, NoToken) /\ leaving' = leaving \cup {t}
  /\ Settle(c)
  /\ UNCHANGED <<server, account, upsets>>

(* The user signs out: only the store is cleared; the API is not told. *)
SignOut(t) ==
  /\ store[t] # NoToken /\ Upset
  /\ Keep(t, NoToken)
  /\ UNCHANGED <<server, account, leaving, calls>>

(* The login page offers a demo account, whose tokens are those of no session. *)
DemoLogin(t) ==
  /\ t \notin leaving /\ store[t] = NoToken /\ Upset
  /\ pairs' = Append(pairs, NoSession) /\ Keep(t, NewPair)
  /\ UNCHANGED <<sessions, lapsed, ended, over, account, leaving, calls>>

(* A page is loaded, because it was sent to the login or because the user reloads *)
(* it: its store is read from local storage, and nobody waits for its calls, which *)
(* the API serves none the less.                                                   *)
Load(t) ==
  /\ \/ t \in leaving /\ UNCHANGED upsets
     \/ t \notin leaving /\ Upset
  /\ leaving' = leaving \ {t} /\ store' = [store EXCEPT ![t] = saved]
  /\ calls' = [c \in Calls |->
       IF calls[c].tab # t \/ calls[c].at = "settled" THEN calls[c]
       ELSE IF calls[c].at \in {"denied", "opened", "renewed", "refused"} THEN Over([calls[c] EXCEPT !.tab = NoTab])
       ELSE [calls[c] EXCEPT !.tab = NoTab]]
  /\ UNCHANGED <<server, account, saved>>

-----------------------------------------------------------------------------
(* The API. *)

(* JwtStrategy: the access token has expired or it has not.  When it has not, *)
(* or when the call fails for want of a network, the interceptors do nothing.  *)
Authenticate(c) ==
  /\ calls[c].at = "sent"
  /\ Reply(c, [calls[c] EXCEPT !.at = "denied"]) \/ Settle(c)
  /\ UNCHANGED <<server, account, browser, upsets>>

(* validateUser compares the password; the session is opened later. *)
ValidateUser(c) ==
  /\ calls[c].at = "login"
  /\ \/ calls[c].pw = password /\ Goes(c, "checked")
     \/ calls[c].pw # password /\ Reply(c, [calls[c] EXCEPT !.at = "denied"])
  /\ UNCHANGED <<server, account, browser, upsets>>

(* The row of session s holds pair n, freshly issued. *)
Issue(c, s, n) ==
  /\ pairs' = Append(pairs, s)
  /\ sessions' = [r \in Rows \cup {s} |-> IF r = s THEN n ELSE sessions[r]]
  /\ lapsed' = lapsed \ {s}

(* generateTokens and createSession. *)
CreateSession(c) ==
  LET s == Cardinality(Rows \cup ended) + 1 IN
  /\ calls[c].at = "checked"
  /\ Issue(c, s, NewPair)
  /\ Reply(c, [calls[c] EXCEPT !.at = "opened", !.new = NewPair])
  /\ UNCHANGED <<ended, over, account, browser, upsets>>

(* The refresh fails, for want of the database or of the network. *)
Fail(c) == Upset /\ Reply(c, [calls[c] EXCEPT !.at = "refused", !.lost = TRUE])

(* refreshToken, up to the lookup of the session. *)
FindSession(c) ==
  LET found == {s \in Rows \ lapsed : sessions[s] = calls[c].ref} IN
  /\ calls[c].at = "refreshing"
  /\ \/ found = {} /\ Reply(c, [calls[c] EXCEPT !.at = "refused"]) /\ UNCHANGED upsets
     \/ /\ \E s \in found : calls' = [calls EXCEPT ![c].at = "found", ![c].sid = s]
        /\ UNCHANGED upsets
     \/ Fail(c)
  /\ UNCHANGED <<server, account, browser>>

(* Mutations: two slips in the rotation. *)
RotateTokenUnsaved(c) ==   \* the new token is answered but not kept
  /\ calls[c].at = "found"
  /\ IF calls[c].sid \in Rows
     THEN /\ pairs' = Append(pairs, calls[c].sid)
          /\ Reply(c, [calls[c] EXCEPT !.at = "renewed", !.new = NewPair])
          /\ UNCHANGED <<sessions, lapsed, ended, over>>
     ELSE Reply(c, [calls[c] EXCEPT !.at = "refused"]) /\ UNCHANGED server
  /\ UNCHANGED <<account, browser, upsets>>
RotateTokenUpsert(c) ==    \* a row that is gone is made anew
  /\ calls[c].at = "found"
  /\ Issue(c, calls[c].sid, NewPair)
  /\ Reply(c, [calls[c] EXCEPT !.at = "renewed", !.new = NewPair])
  /\ UNCHANGED <<ended, over, account, browser, upsets>>

(* The rest of refreshToken: session.update by id, which fails when the row is gone. *)
RotateToken(c) ==
  /\ calls[c].at = "found"
  /\ \/ /\ calls[c].sid \in Rows
        /\ Issue(c, calls[c].sid, NewPair)
        /\ Reply(c, [calls[c] EXCEPT !.at = "renewed", !.new = NewPair])
        /\ UNCHANGED <<ended, over, upsets>>
     \/ calls[c].sid \notin Rows /\ Reply(c, [calls[c] EXCEPT !.at = "refused"]) /\ UNCHANGED <<server, upsets>>
     \/ Fail(c) /\ UNCHANGED server
  /\ UNCHANGED <<account, browser>>

(* Sessions S are deleted. *)
Delete(S) ==
  /\ sessions' = Without(S) /\ lapsed' = lapsed \ S
  /\ ended' = ended \cup S /\ over' = over \cup S
  /\ UNCHANGED pairs

(* logout: of the session with a given refresh token, or of all of them. *)
Logout ==
  /\ \E S \in {{s} : s \in Rows} \cup {Rows} : S # {} /\ Delete(S)
  /\ Upset
  /\ UNCHANGED <<account, browser, calls>>

(* forgotPassword: the link replaces the one before. *)
ForgotPassword ==
  /\ Upset
  /\ links' = links + 1 /\ link' = links'
  /\ UNCHANGED <<server, password, resets, spent, browser, calls>>

(* resetPassword, up to bcrypt: the link is the one of the user's row.  One that *)
(* is not, or that has expired, changes nothing.                                  *)
FindLink(r) ==
  /\ resets[r].at = "unsent" /\ \A p \in Resets : p < r => resets[p].at # "unsent"
  /\ link # NoToken
  /\ resets' = [resets EXCEPT ![r] = [at |-> "found", link |-> link]]
  /\ UNCHANGED <<server, password, link, links, spent, browser, calls, upsets>>

(* The transaction of resetPassword: the link goes, and every session with it. *)
ResetPassword(r) ==
  /\ resets[r].at = "found"
  /\ resets' = [resets EXCEPT ![r].at = "done"]
  /\ password' = password + 1
  /\ link' = NoToken
  /\ spent' = spent \cup {resets[r].link}
  /\ Delete(Rows)
  /\ UNCHANGED <<links, browser, calls, upsets>>

-----------------------------------------------------------------------------
(* Time and the network. *)

SessionLapses ==
  /\ \E s \in Rows \ lapsed : lapsed' = lapsed \cup {s} /\ over' = over \cup {s}
  /\ Upset
  /\ UNCHANGED <<sessions, pairs, ended, account, browser, calls>>

(* The answer of a login, or that of a refresh, does not arrive. *)
Lose(c) ==
  /\ Upset
  /\ \/ calls[c].at = "opened" /\ Settle(c)
     \/ calls[c].at = "renewed"
        /\ calls' = [calls EXCEPT ![c].at = "refused", ![c].lost = TRUE]
  /\ UNCHANGED <<server, account, browser>>

-----------------------------------------------------------------------------
Client(c) == SignedIn(c) \/ Return(c) \/ Unauthorized(c) \/ Retry(c) \/ ForceOut(c)
Api(c) == Authenticate(c) \/ ValidateUser(c) \/ CreateSession(c) \/ FindSession(c) \/ RotateToken(c)

Next ==
  \/ \E c \in Calls : Client(c) \/ Api(c) \/ Lose(c)
  \/ \E c \in Calls, t \in Tabs : Send(c, t) \/ SendLogin(c, t)
  \/ \E t \in Tabs : SignOut(t) \/ DemoLogin(t) \/ Load(t)
  \/ \E r \in Resets : FindLink(r) \/ ResetPassword(r)
  \/ Logout \/ ForgotPassword \/ SessionLapses

(* The API and the pages are scheduled fairly; nobody need sign in, out or reset. *)
Fairness == \A c \in Calls : WF_vars(Client(c)) /\ WF_vars(Api(c))

Spec == Init /\ [][Next]_vars /\ Fairness

-----------------------------------------------------------------------------
(* Types. *)
Places == {"unsent", "settled", "sent", "login", "denied", "checked", "opened",
                        "refreshing", "found", "renewed", "refused"}
Token == 0 .. Len(pairs)
CallType == [at : Places, tab : Tabs \cup {NoTab}, ref : Token, sid : Nat, new : Token,
             retry : BOOLEAN, lost : BOOLEAN, pw : Nat, beside : SUBSET Calls]
ServerTypeOK ==
  /\ pairs \in Seq(Nat) /\ ended \subseteq Nat /\ over \subseteq Nat
  /\ Rows \subseteq 1 .. Len(pairs) /\ sessions \in [Rows -> 1 .. Len(pairs)] /\ lapsed \subseteq Rows
AccountTypeOK ==
  /\ password \in Nat /\ links \in Nat /\ link \in 0 .. links /\ spent \subseteq 0 .. links
  /\ resets \in [Resets -> [at : {"unsent", "found", "done"}, link : 0 .. links]]
TypeOK ==
  /\ ServerTypeOK /\ AccountTypeOK
  /\ saved \in Token /\ store \in [Tabs -> Token] /\ leaving \subseteq Tabs
  /\ calls \in [Calls -> CallType] /\ upsets \in 0 .. MaxUpsets

(* Somebody else has exchanged the token that c presents: a call of another    *)
(* page, of another tab or of this one before it was loaded, since no page     *)
(* tells the others of its new tokens; or a call of this page that was         *)
(* refreshing it at once with c.                                               *)
Exchanged(c) ==
  \E d \in Calls \ {c} :
    /\ calls[d].ref = calls[c].ref /\ calls[d].new # NoToken
    /\ calls[d].tab # calls[c].tab \/ d \in calls[c].beside

(* A refresh that was under way since before the token of c was issued has     *)
(* replaced it.                                                                *)
Overtaken(c) ==
  \E d \in Calls :
    /\ calls[d].ref \in 1 .. calls[c].ref - 1 /\ calls[c].ref < calls[d].new
    /\ pairs[calls[d].ref] = pairs[calls[c].ref]

Excused(c) ==
  \/ calls[c].lost
  \/ pairs[calls[c].ref] \in over \cup {NoSession}
  \/ Exchanged(c) \/ Overtaken(c)

(* A page signs its user out by force only for a reason that can be named: the   *)
(* database or the network has failed its refresh or lost the answer; the session *)
(* of the token has ended or lapsed, or there never was one; another page has     *)
(* exchanged the token, or a call of this one at the same time; or a refresh that *)
(* was under way when the token was issued has replaced it.  A user with a single *)
(* page, whose refreshes come one at a time and are answered, stays signed in as  *)
(* long as the session does (catch of the response interceptor).                  *)
SignedOutForAReason == \A c \in Calls : calls[c].at = "refused" => Excused(c)

(* What a logout or a reset has ended stays ended: a refresh that found the  *)
(* session before does not bring it back, and a link that was used is not    *)
(* accepted again (refreshToken against logout and resetPassword).           *)
EndedForGood == Rows \cap ended = {} /\ link \notin spent

(* Every call that a page makes is answered, or the page itself goes away:   *)
(* the interceptor refreshes at most once for a call.                        *)
CallsSettle == <>[](\A c \in Calls : calls[c].at \in {"unsent", "settled"})
=============================================================================
