---------------------------- MODULE SignInProofs ----------------------------
(***************************************************************************)
(* Proofs about SignIn, for any number of tabs, calls, resets and upsets.  *)
(* Sessions and pairs of tokens are accounted for: a pair that its session *)
(* no longer accepts was exchanged by a call that remembers it, or a       *)
(* refresh that had found the session before replaced it; a page that has  *)
(* stored new tokens never presents the old ones again; what has ended     *)
(* does not come back, since sessions are numbered anew and a rotation     *)
(* needs the row.                                                          *)
(***************************************************************************)
EXTENDS SignIn, FiniteSetTheorems, TLAPS

-----------------------------------------------------------------------------
(* Types. *)

(* A pair is issued: those before keep their numbers and their sessions. *)
LEMMA PairsGrow ==
  ASSUME ServerTypeOK, NEW c, NEW s \in Nat, Issue(c, s, NewPair)
  PROVE  /\ pairs' \in Seq(Nat) /\ Len(pairs') = Len(pairs) + 1 /\ NewPair = Len(pairs')
         /\ \A n \in 1 .. Len(pairs) : pairs'[n] = pairs[n]
         /\ pairs'[Len(pairs) + 1] = s
BY DEF ServerTypeOK, Issue, NewPair

LEMMA UnsentTyped == ServerTypeOK => Unsent \in CallType
BY DEF Unsent, CallType, Token, Places, NoToken, NoSession, ServerTypeOK

LEMMA InitTypes == Init => TypeOK
<1> SUFFICES ASSUME Init PROVE TypeOK
  OBVIOUS
<1>1. ServerTypeOK
  <2>1. CASE saved = 1
    <3>1. pairs = <<1>> /\ sessions = <<1>> /\ pairs \in Seq(Nat) /\ Len(pairs) = 1
      BY <2>1 DEF Init
    <3> QED BY <3>1 DEF Init, ServerTypeOK, Rows
  <2>2. CASE saved = 0
    <3>1. pairs = << >> /\ sessions = << >> /\ pairs \in Seq(Nat) /\ Len(pairs) = 0
      BY <2>2 DEF Init
    <3> QED BY <3>1 DEF Init, ServerTypeOK, Rows
  <2> QED BY <2>1, <2>2 DEF Init, NoToken
<1>2. calls \in [Calls -> CallType]
  BY <1>1, UnsentTyped DEF Init
<1>3. AccountTypeOK
  BY DEF Init, AccountTypeOK, NoToken
<1>4. saved \in Token /\ store \in [Tabs -> Token]
  <2>1. CASE saved = 1
    BY <2>1 DEF Init, Token
  <2>2. CASE saved = 0
    BY <2>2 DEF Init, Token
  <2> QED BY <2>1, <2>2 DEF Init, NoToken
<1> QED BY <1>1, <1>2, <1>3, <1>4, BoundsAssumption DEF Init, TypeOK

(* A call that is over remembers what it has exchanged, or nothing at all. *)
LEMMA OverIs ==
  ASSUME NEW x
  PROVE  /\ Over(x).at = "settled" /\ ~Over(x).retry
         /\ \/ /\ x.ref # NoToken /\ x.new # NoToken
               /\ Over(x).tab = x.tab /\ Over(x).ref = x.ref /\ Over(x).new = x.new
            \/ /\ x.ref = NoToken \/ x.new = NoToken
               /\ Over(x).tab = NoTab /\ Over(x).ref = NoToken /\ Over(x).new = NoToken
BY DEF Over, Settled, Unsent

LEMMA OverTyped ==
  ASSUME NEW T, NoToken \in T,
         NEW x \in [at : Places, tab : Tabs \cup {NoTab}, ref : T, sid : Nat, new : T,
                    retry : BOOLEAN, lost : BOOLEAN, pw : Nat, beside : SUBSET Calls]
  PROVE  Over(x) \in [at : Places, tab : Tabs \cup {NoTab}, ref : T, sid : Nat, new : T,
                      retry : BOOLEAN, lost : BOOLEAN, pw : Nat, beside : SUBSET Calls]
BY DEF Over, Settled, Unsent, Places, NoSession

(* The calls that the actions leave behind are typed. *)
LEMMA CallTypes ==
  ASSUME TypeOK, NEW x \in CallType
  PROVE  Over(x) \in CallType
<1>1. NoToken \in Token
  BY DEF TypeOK, ServerTypeOK, Token, NoToken
<1> QED BY <1>1, OverTyped DEF CallType

(* What a call becomes when the API answers it. *)
Answered(x) == IF x.tab = NoTab THEN Over(x) ELSE x

LEMMA AnsweredIs ==
  ASSUME NEW x
  PROVE  /\ Answered(x).at \in {"denied", "opened", "renewed", "refused"} => Answered(x).tab # NoTab
         /\ \/ x.tab # NoTab /\ Answered(x) = x
            \/ x.tab = NoTab /\ Answered(x) = Over(x)
BY OverIs DEF Answered

LEMMA AnsweredTyped ==
  ASSUME TypeOK, NEW x \in CallType
  PROVE  Answered(x) \in CallType
BY CallTypes DEF Answered

LEMMA SameServer == ServerTypeOK /\ UNCHANGED server => ServerTypeOK' /\ Token' = Token /\ CallType' = CallType
BY DEF ServerTypeOK, server, Rows, Token, CallType

LEMMA SameAccount == AccountTypeOK /\ UNCHANGED account => AccountTypeOK'
BY DEF AccountTypeOK, account

(* A call whose answer is there has a page that waits for it. *)
Waited(c) == calls[c].at \in {"denied", "opened", "renewed", "refused"} => calls[c].tab # NoTab
AllWaited == \A c \in Calls : Waited(c)

LEMMA ClientTypes ==
  ASSUME TypeOK, NEW c \in Calls, Waited(c), Client(c)
  PROVE  TypeOK'
<1>1. UNCHANGED <<server, account, upsets>> /\ calls[c].tab \in Tabs /\ calls[c] \in CallType
  <2>1. calls[c].at \in {"denied", "opened", "renewed", "refused"}
    BY DEF Client, SignedIn, Return, Unauthorized, Retry, ForceOut
  <2> QED BY <2>1 DEF Waited, TypeOK, CallType, Client, SignedIn, Return, Unauthorized, Retry, ForceOut
<1>2. calls' \in [Calls -> CallType]
  <2>1. CASE calls' = [calls EXCEPT ![c] = Over(calls[c])]
    BY <1>1, <2>1, CallTypes DEF TypeOK
  <2>2. CASE Retry(c)
    BY <2>2 DEF TypeOK, Retry, CallType, Places
  <2>3. CASE Unauthorized(c) /\ store[calls[c].tab] # NoToken
    <3> DEFINE n == store[calls[c].tab]
               others == {d \in Calls : calls[d].tab = calls[c].tab /\ calls[d].ref = n /\ calls[d].at \in Refreshing}
    <3>1. calls' = [d \in Calls |->
             IF d = c THEN [calls[c] EXCEPT !.at = "refreshing", !.retry = TRUE, !.ref = n, !.beside = others]
             ELSE IF d \in others THEN [calls[d] EXCEPT !.beside = @ \cup {c}] ELSE calls[d]]
      BY <2>3 DEF Unauthorized
    <3>2. n \in Token /\ others \in SUBSET Calls
      BY <1>1 DEF TypeOK
    <3> HIDE DEF n, others
    <3>3. [calls[c] EXCEPT !.at = "refreshing", !.retry = TRUE, !.ref = n, !.beside = others] \in CallType
      BY <1>1, <3>2 DEF CallType, Places
    <3>4. \A d \in Calls : [calls[d] EXCEPT !.beside = @ \cup {c}] \in CallType /\ calls[d] \in CallType
      BY DEF TypeOK, CallType
    <3> QED BY <3>1, <3>3, <3>4
  <2> QED BY <2>1, <2>2, <2>3 DEF Client, SignedIn, Return, Unauthorized, ForceOut, Settle
<1>3. saved' \in Token /\ store' \in [Tabs -> Token] /\ leaving' \subseteq Tabs
  <2>1. NoToken \in Token
    BY DEF TypeOK, ServerTypeOK, Token, NoToken
  <2>2. calls[c].new \in Token /\ calls[c].tab \in Tabs
    BY <1>1 DEF CallType
  <2>3. \/ UNCHANGED browser
        \/ \E n \in {NoToken, calls[c].new} :
             Keep(calls[c].tab, n) /\ leaving' \in {leaving, leaving \cup {calls[c].tab}}
    BY DEF Client, SignedIn, Return, Unauthorized, Retry, ForceOut
  <2> QED BY <2>1, <2>2, <2>3 DEF TypeOK, Keep, browser
<1> QED BY <1>1, <1>2, <1>3, SameServer, SameAccount DEF TypeOK

LEMMA SendTypes ==
  ASSUME TypeOK, NEW c \in Calls, NEW t \in Tabs, Send(c, t) \/ SendLogin(c, t)
  PROVE  TypeOK'
<1>1. UNCHANGED <<server, account, browser, upsets>>
  BY DEF Send, SendLogin
<1>2. calls' \in [Calls -> CallType]
  BY DEF TypeOK, Send, SendLogin, CallType, Places, AccountTypeOK
<1> QED BY <1>1, <1>2, SameServer, SameAccount DEF TypeOK, browser

LEMMA TabTypes ==
  ASSUME TypeOK, NEW t \in Tabs, SignOut(t) \/ Load(t)
  PROVE  TypeOK'
<1>1. UNCHANGED <<server, account>> /\ upsets' \in 0 .. MaxUpsets
  BY BoundsAssumption DEF SignOut, Load, Upset, TypeOK
<1>2. calls' \in [Calls -> CallType]
  <2>1. ASSUME NEW c \in Calls
        PROVE  /\ calls[c] \in CallType /\ [calls[c] EXCEPT !.tab = NoTab] \in CallType
               /\ Over([calls[c] EXCEPT !.tab = NoTab]) \in CallType
    BY CallTypes DEF TypeOK, CallType
  <2> QED BY <2>1 DEF SignOut, Load, TypeOK
<1>3. saved' \in Token /\ store' \in [Tabs -> Token] /\ leaving' \subseteq Tabs
  <2>1. NoToken \in Token
    BY DEF TypeOK, ServerTypeOK, Token, NoToken
  <2> QED
    BY <2>1 DEF TypeOK, SignOut, Load, Keep, browser
<1> QED BY <1>1, <1>2, <1>3, SameServer, SameAccount DEF TypeOK

(* The pair of the demo account is one more, of no session. *)
LEMMA DemoTypes ==
  ASSUME TypeOK, NEW t \in Tabs, DemoLogin(t)
  PROVE  /\ TypeOK' /\ Len(pairs') = Len(pairs) + 1 /\ Rows' = Rows
         /\ \A n \in 1 .. Len(pairs) : pairs'[n] = pairs[n]
         /\ pairs'[Len(pairs) + 1] = NoSession
<1>1. pairs' = Append(pairs, NoSession) /\ UNCHANGED <<sessions, lapsed, ended, over, account, leaving, calls>>
  BY DEF DemoLogin
<1>2. /\ pairs' \in Seq(Nat) /\ Len(pairs') = Len(pairs) + 1 /\ Len(pairs) \in Nat
      /\ \A n \in 1 .. Len(pairs) : pairs'[n] = pairs[n]
      /\ pairs'[Len(pairs) + 1] = NoSession /\ NewPair = Len(pairs')
  BY <1>1 DEF TypeOK, ServerTypeOK, NoSession, NewPair
<1>3. Rows' = Rows /\ Token \subseteq Token' /\ NewPair \in Token'
  BY <1>1, <1>2 DEF Rows, Token
<1>4. ServerTypeOK'
  <2>1. ServerTypeOK /\ 1 .. Len(pairs) \subseteq 1 .. Len(pairs')
    BY <1>2 DEF TypeOK
  <2>2. sessions' \in [Rows' -> 1 .. Len(pairs')]
    BY <1>1, <1>3, <2>1 DEF ServerTypeOK
  <2> QED BY <1>1, <1>2, <1>3, <2>1, <2>2 DEF ServerTypeOK
<1>5. calls' \in [Calls -> CallType']
  BY <1>1, <1>3 DEF TypeOK, CallType
<1>6. saved' \in Token' /\ store' \in [Tabs -> Token'] /\ leaving' \subseteq Tabs /\ upsets' \in 0 .. MaxUpsets
  BY <1>3, BoundsAssumption DEF TypeOK, DemoLogin, Keep, Upset
<1> QED BY <1>1, <1>2, <1>3, <1>4, <1>5, <1>6, SameAccount DEF TypeOK

(* The API leaves the sessions alone, or issues a pair for a number of a session. *)
LEMMA IssueTypes ==
  ASSUME TypeOK, NEW c \in Calls, NEW s \in 1 .. Len(pairs) + 1, Issue(c, s, NewPair), UNCHANGED <<ended, over>>
  PROVE  /\ ServerTypeOK' /\ Rows' = Rows \cup {s}
         /\ Token \subseteq Token' /\ CallType \subseteq CallType' /\ NewPair \in Token'
<1>1. ServerTypeOK
  BY DEF TypeOK
<1>2. /\ pairs' \in Seq(Nat) /\ Len(pairs') = Len(pairs) + 1 /\ NewPair = Len(pairs')
      /\ Len(pairs) \in Nat
  BY <1>1, PairsGrow DEF ServerTypeOK
<1>3. Rows' = Rows \cup {s} /\ sessions' = [r \in Rows' |-> IF r = s THEN NewPair ELSE sessions[r]]
  BY DEF Issue, Rows
<1>4. sessions' \in [Rows' -> 1 .. Len(pairs')]
  BY <1>1, <1>2, <1>3 DEF ServerTypeOK
<1>5. ServerTypeOK'
  BY <1>1, <1>2, <1>3, <1>4 DEF ServerTypeOK, Issue
<1>6. Token \subseteq Token' /\ NewPair \in Token'
  BY <1>2 DEF Token
<1> QED BY <1>3, <1>5, <1>6 DEF CallType

-----------------------------------------------------------------------------
(* What has ended stays ended. *)

(* Sessions are numbered in the order of their creation, and none is skipped. *)
SessionsNumbered == \E n \in 0 .. Len(pairs) : Rows \cup ended = 1 .. n
EndedApart == Rows \cap ended = {}
(* The links that were used are older than the one that is open, if one is. *)
LinksFresh == /\ link \notin spent /\ spent \subseteq 1 .. links
              /\ \A r \in Resets : resets[r].at = "found" => resets[r].link \in 1 .. links
EInv == TypeOK /\ AllWaited /\ SessionsNumbered /\ EndedApart /\ LinksFresh

LEMMA InitEInv == Init => EInv
<1> SUFFICES ASSUME Init PROVE EInv
  OBVIOUS
<1>1. TypeOK
  BY InitTypes
<1>2. Rows = 1 .. Len(pairs) /\ Len(pairs) \in 0 .. Len(pairs)
  <2>1. pairs \in Seq(Nat) /\ sessions = pairs
    BY <1>1 DEF TypeOK, ServerTypeOK, Init
  <2> QED BY <2>1 DEF Rows
<1>3. SessionsNumbered /\ EndedApart
  BY <1>2 DEF Init, SessionsNumbered, EndedApart
<1>4. LinksFresh
  BY DEF Init, LinksFresh, NoToken
<1>5. AllWaited
  BY DEF Init, AllWaited, Waited, Unsent
<1> QED BY <1>1, <1>3, <1>4, <1>5 DEF EInv

(* A new session gets a number that none has had. *)
LEMMA NewSession ==
  ASSUME SessionsNumbered, ServerTypeOK, NEW s, s = Cardinality(Rows \cup ended) + 1
  PROVE  s \in 1 .. Len(pairs) + 1 /\ s \notin Rows \cup ended /\ Rows \cup ended = 1 .. s - 1
<1>1. PICK n \in 0 .. Len(pairs) : Rows \cup ended = 1 .. n
  BY DEF SessionsNumbered
<1>2. Len(pairs) \in Nat /\ n \in Nat
  BY DEF ServerTypeOK
<1>3. Cardinality(1 .. n) = n
  BY <1>2, FS_Interval
<1>4. s = n + 1
  BY <1>1, <1>3
<1>5. s - 1 = n /\ s \in 1 .. Len(pairs) + 1 /\ s \notin 1 .. n
  BY <1>2, <1>4
<1>6. Rows \cup ended = 1 .. s - 1
  BY <1>1, <1>5
<1> QED BY <1>1, <1>5, <1>6

LEMMA IssueKeepsEInv ==
  ASSUME EInv, NEW c \in Calls, NEW s, Issue(c, s, NewPair), UNCHANGED <<ended, over, account>>,
         s \in Rows \/ s = Cardinality(Rows \cup ended) + 1,
         calls' \in [Calls -> CallType'], AllWaited', UNCHANGED <<browser, upsets>>
  PROVE  EInv'
<1>1. ServerTypeOK /\ SessionsNumbered /\ EndedApart
  BY DEF EInv, TypeOK
<1>2. s \in 1 .. Len(pairs) + 1 /\ s \notin ended
  <2>1. CASE s \in Rows
    BY <2>1, <1>1 DEF ServerTypeOK, EndedApart
  <2>2. CASE s = Cardinality(Rows \cup ended) + 1
    BY <2>2, <1>1, NewSession
  <2> QED BY <2>1, <2>2
<1>3. ServerTypeOK' /\ Rows' = Rows \cup {s} /\ Token \subseteq Token' /\ Len(pairs') = Len(pairs) + 1
  BY <1>1, <1>2, IssueTypes, PairsGrow DEF EInv
<1>4. TypeOK'
  BY <1>3, SameAccount DEF EInv, TypeOK, browser
<1>5. EndedApart'
  BY <1>1, <1>2, <1>3 DEF EndedApart
<1>6. SessionsNumbered'
  <2>1. CASE s \in Rows
    <3>1. Rows' \cup ended' = Rows \cup ended /\ Len(pairs) \in Nat
      BY <2>1, <1>1, <1>3 DEF ServerTypeOK
    <3> QED BY <3>1, <1>1, <1>3 DEF SessionsNumbered
  <2>2. CASE s = Cardinality(Rows \cup ended) + 1
    <3>1. Rows' \cup ended' = 1 .. s /\ s \in 0 .. Len(pairs')
      <4>1. Rows \cup ended = 1 .. s - 1
        BY <2>2, <1>1, NewSession
      <4>2. Len(pairs) \in Nat /\ s \in Nat \ {0}
        BY <1>1, <1>2 DEF ServerTypeOK
      <4>3. (1 .. s - 1) \cup {s} = 1 .. s
        BY <4>2
      <4>4. Rows' \cup ended' = (Rows \cup ended) \cup {s}
        BY <1>3
      <4> QED BY <4>1, <4>2, <4>3, <4>4, <1>2, <1>3
    <3> QED BY <3>1 DEF SessionsNumbered
  <2> QED BY <2>1, <2>2
<1>7. LinksFresh'
  BY DEF EInv, LinksFresh, account
<1> QED BY <1>4, <1>5, <1>6, <1>7 DEF EInv

LEMMA DeleteKeeps ==
  ASSUME EInv, NEW S \in SUBSET Rows, Delete(S)
  PROVE  /\ ServerTypeOK' /\ SessionsNumbered' /\ EndedApart' /\ Token' = Token /\ CallType' = CallType
         /\ Rows' = Rows \ S
<1>1. Rows' = Rows \ S /\ sessions' = [s \in Rows' |-> sessions[s]]
  BY DEF Delete, Without, Rows
<1>2. ServerTypeOK'
  BY <1>1 DEF EInv, TypeOK, ServerTypeOK, Delete
<1>3. SessionsNumbered'
  <2>1. Rows' \cup ended' = Rows \cup ended /\ UNCHANGED pairs
    BY <1>1 DEF Delete
  <2> QED BY <2>1 DEF EInv, SessionsNumbered
<1> QED BY <1>1, <1>2, <1>3 DEF EInv, EndedApart, Delete, Token, CallType

(* Steps that leave the sessions and the account alone. *)
LEMMA QuietKeepsEInv ==
  ASSUME EInv, TypeOK', AllWaited', UNCHANGED <<server, account>>
  PROVE  EInv'
BY DEF EInv, SessionsNumbered, EndedApart, LinksFresh, server, account, Rows

(* The others keep waiting when one call moves. *)
LEMMA OneWaits ==
  ASSUME TypeOK, AllWaited, NEW c \in Calls, NEW x, calls' = [calls EXCEPT ![c] = x],
         x.at \in {"denied", "opened", "renewed", "refused"} => x.tab # NoTab
  PROVE  AllWaited'
BY DEF TypeOK, AllWaited, Waited

(* A refresh that fails touches nothing but its call. *)
LEMMA FailKeepsEInv ==
  ASSUME EInv, NEW c \in Calls, Fail(c), UNCHANGED <<server, account, browser>>
  PROVE  EInv'
<1> DEFINE y == [calls[c] EXCEPT !.at = "refused", !.lost = TRUE]
           x == Answered(y)
<1>1. TypeOK /\ AllWaited /\ "refused" \in Places
  BY DEF EInv, Places
<1>2. calls' = [calls EXCEPT ![c] = x] /\ upsets' \in 0 .. MaxUpsets
  <2>1. upsets \in Nat /\ upsets < MaxUpsets /\ upsets' = upsets + 1
    BY <1>1, BoundsAssumption DEF Fail, Upset, TypeOK
  <2>2. calls' = [calls EXCEPT ![c] = x]
    BY DEF Fail, Reply, Answered
  <2> QED BY <2>1, <2>2, BoundsAssumption
<1>3. x \in CallType /\ (x.at \in {"denied", "opened", "renewed", "refused"} => x.tab # NoTab)
  <2>1. y \in CallType
    <3>1. calls[c] \in CallType
      BY <1>1 DEF TypeOK
    <3> QED BY <1>1, <3>1 DEF CallType
  <2> HIDE DEF y
  <2> QED BY <1>1, <2>1, AnsweredIs, AnsweredTyped
<1> HIDE DEF x
<1>4. TypeOK' /\ AllWaited'
  BY <1>1, <1>2, <1>3, OneWaits, SameServer, SameAccount DEF TypeOK, browser
<1> QED BY <1>4, QuietKeepsEInv

(* Steps of the API that leave the sessions alone. *)
LEMMA LooksKeepEInv ==
  ASSUME EInv, NEW c \in Calls, NEW x \in CallType, calls' = [calls EXCEPT ![c] = x],
         x.at \in {"denied", "opened", "renewed", "refused"} => x.tab # NoTab,
         UNCHANGED <<server, account, browser, upsets>>
  PROVE  EInv'
<1>1. TypeOK /\ AllWaited
  BY DEF EInv
<1>2. TypeOK' /\ AllWaited'
  BY <1>1, OneWaits, SameServer, SameAccount DEF TypeOK, browser
<1> QED BY <1>2, QuietKeepsEInv

LEMMA ApiKeepsEInv ==
  ASSUME EInv, NEW c \in Calls, Api(c)
  PROVE  EInv'
<1>1. TypeOK /\ AllWaited /\ calls[c] \in CallType /\ Rows \subseteq 1 .. Len(pairs) /\ Len(pairs) \in Nat
  BY DEF EInv, TypeOK, ServerTypeOK
<1>2. ASSUME NEW to \in Places, Reply(c, [calls[c] EXCEPT !.at = to]),
             UNCHANGED <<server, account, browser, upsets>>
      PROVE  EInv'
  <2> DEFINE y == [calls[c] EXCEPT !.at = to]
  <2>1. y \in CallType
    BY <1>1 DEF CallType
  <2>2. calls' = [calls EXCEPT ![c] = Answered(y)]
    BY <1>2 DEF Reply, Answered
  <2> HIDE DEF y
  <2> QED BY <1>1, <1>2, <2>1, <2>2, AnsweredIs, AnsweredTyped, LooksKeepEInv
<1>3. CASE Authenticate(c)
  <2>1. CASE Reply(c, [calls[c] EXCEPT !.at = "denied"])
    BY <1>2, <1>3, <2>1 DEF Authenticate, Places
  <2>2. CASE Settle(c)
    <3>1. Over(calls[c]) \in CallType /\ Over(calls[c]).at = "settled"
      BY <1>1, CallTypes, OverIs
    <3> QED BY <1>3, <2>2, <3>1, LooksKeepEInv DEF Authenticate, Settle
  <2> QED BY <1>3, <2>1, <2>2 DEF Authenticate
<1>4. CASE ValidateUser(c)
  <2>1. CASE calls[c].pw = password
    <3>1. [calls[c] EXCEPT !.at = "checked"] \in CallType /\ [calls[c] EXCEPT !.at = "checked"].at = "checked"
      BY <1>1 DEF CallType, Places
    <3>2. calls' = [calls EXCEPT ![c] = [calls[c] EXCEPT !.at = "checked"]]
      BY <1>1, <1>4, <2>1 DEF ValidateUser, Goes, TypeOK
    <3> QED BY <1>4, <3>1, <3>2, LooksKeepEInv DEF ValidateUser
  <2>2. CASE calls[c].pw # password
    BY <1>2, <1>4, <2>2 DEF ValidateUser, Places
  <2> QED BY <2>1, <2>2
<1>5. CASE FindSession(c)
  <2>1. CASE Reply(c, [calls[c] EXCEPT !.at = "refused"]) /\ UNCHANGED upsets
    BY <1>2, <1>5, <2>1 DEF FindSession, Places
  <2>2. ASSUME NEW s \in Rows, calls' = [calls EXCEPT ![c].at = "found", ![c].sid = s], UNCHANGED upsets PROVE EInv'
    <3>1. [calls[c] EXCEPT !.at = "found", !.sid = s] \in CallType /\ [calls[c] EXCEPT !.at = "found", !.sid = s].at = "found"
      <4>1. s \in Nat
        BY <1>1
      <4> QED BY <1>1, <4>1 DEF CallType, Places
    <3>2. calls' = [calls EXCEPT ![c] = [calls[c] EXCEPT !.at = "found", !.sid = s]]
      BY <1>1, <2>2 DEF TypeOK
    <3> QED BY <1>5, <2>2, <3>1, <3>2, LooksKeepEInv DEF FindSession
  <2>3. CASE Fail(c)
    BY <1>5, <2>3, FailKeepsEInv DEF FindSession
  <2> QED BY <1>5, <2>1, <2>2, <2>3 DEF FindSession
<1>6. ASSUME NEW s, s \in Rows \/ s = Cardinality(Rows \cup ended) + 1, Issue(c, s, NewPair),
             UNCHANGED <<ended, over, account, browser, upsets>>, NEW to \in Places,
             Reply(c, [calls[c] EXCEPT !.at = to, !.new = NewPair])
      PROVE  EInv'
  <2> DEFINE y == [calls[c] EXCEPT !.at = to, !.new = NewPair]
             x == Answered(y)
  <2>1. s \in 1 .. Len(pairs) + 1
    <3>1. CASE s \in Rows
      BY <1>1, <3>1
    <3>2. CASE s = Cardinality(Rows \cup ended) + 1
      BY <3>2, NewSession DEF EInv, TypeOK
    <3> QED BY <1>6, <3>1, <3>2
  <2>2. CallType \subseteq CallType' /\ NewPair \in Token'
    BY <1>1, <1>6, <2>1, IssueTypes
  <2>3. x \in CallType'
    <3>1. y \in CallType' /\ NoToken \in Token'
      <4>1. calls[c] \in CallType' /\ NoToken \in Token
        BY <1>1, <2>2 DEF Token, NoToken
      <4> QED BY <1>1, <1>6, <2>1, <2>2, <4>1, IssueTypes DEF CallType
    <3> HIDE DEF y
    <3>2. Over(y) \in CallType'
      BY <3>1, OverTyped DEF CallType
    <3> QED BY <3>1, <3>2 DEF Answered
  <2>4. calls' = [calls EXCEPT ![c] = x]
    BY <1>6 DEF Reply, Answered
  <2> HIDE DEF y
  <2>5. x.at \in {"denied", "opened", "renewed", "refused"} => x.tab # NoTab
    BY AnsweredIs
  <2> HIDE DEF x
  <2>6. calls' \in [Calls -> CallType'] /\ AllWaited'
    BY <1>1, <2>2, <2>3, <2>4, <2>5, OneWaits DEF TypeOK
  <2> QED BY <1>6, <2>6, IssueKeepsEInv
<1>7. CASE CreateSession(c)
  BY <1>6, <1>7 DEF CreateSession, Places
<1>8. CASE RotateToken(c)
  <2>1. CASE calls[c].sid \in Rows /\ Issue(c, calls[c].sid, NewPair) /\ UNCHANGED <<ended, over, upsets>>
             /\ Reply(c, [calls[c] EXCEPT !.at = "renewed", !.new = NewPair])
    BY <1>6, <1>8, <2>1 DEF RotateToken, Places
  <2>2. CASE Reply(c, [calls[c] EXCEPT !.at = "refused"]) /\ UNCHANGED <<server, upsets>>
    BY <1>2, <1>8, <2>2 DEF RotateToken, Places
  <2>3. CASE Fail(c) /\ UNCHANGED server
    BY <1>8, <2>3, FailKeepsEInv DEF RotateToken
  <2> QED BY <1>8, <2>1, <2>2, <2>3 DEF RotateToken
<1> QED BY <1>3, <1>4, <1>5, <1>7, <1>8 DEF Api

LEMMA WorldKeepsEInv ==
  ASSUME EInv, Logout \/ ForgotPassword \/ SessionLapses \/ (\E c \in Calls : Lose(c))
  PROVE  EInv'
<1>1. CASE Logout
  <2>1. PICK S \in SUBSET Rows : Delete(S)
    BY <1>1 DEF Logout
  <2>2. UNCHANGED <<account, browser, calls>> /\ upsets' \in 0 .. MaxUpsets
    BY <1>1, BoundsAssumption DEF Logout, Upset, EInv, TypeOK
  <2> QED BY <2>1, <2>2, DeleteKeeps, SameAccount DEF EInv, TypeOK, browser, LinksFresh, account, AllWaited, Waited
<1>2. CASE ForgotPassword
  <2>1. UNCHANGED <<server, browser, calls>> /\ upsets' \in 0 .. MaxUpsets
    BY <1>2, BoundsAssumption DEF ForgotPassword, Upset, EInv, TypeOK
  <2>2. AccountTypeOK'
    BY <1>2 DEF ForgotPassword, EInv, TypeOK, AccountTypeOK
  <2>3. LinksFresh'
    BY <1>2 DEF ForgotPassword, EInv, TypeOK, AccountTypeOK, LinksFresh
  <2>4. SessionsNumbered' /\ EndedApart'
    BY <2>1 DEF EInv, SessionsNumbered, EndedApart, server, Rows
  <2> QED BY <2>1, <2>2, <2>3, <2>4, SameServer DEF EInv, TypeOK, browser, AllWaited, Waited
<1>3. CASE SessionLapses
  <2>1. UNCHANGED <<sessions, pairs, ended, account, browser, calls>> /\ upsets' \in 0 .. MaxUpsets
    BY <1>3, BoundsAssumption DEF SessionLapses, Upset, EInv, TypeOK
  <2>2. ServerTypeOK' /\ Token' = Token /\ CallType' = CallType
    BY <1>3, <2>1 DEF SessionLapses, EInv, TypeOK, ServerTypeOK, Rows, Token, CallType
  <2>3. SessionsNumbered' /\ EndedApart' /\ LinksFresh'
    BY <2>1 DEF EInv, SessionsNumbered, EndedApart, LinksFresh, Rows, account
  <2> QED BY <2>1, <2>2, <2>3, SameAccount DEF EInv, TypeOK, browser, AllWaited, Waited
<1>4. ASSUME NEW c \in Calls, Lose(c) PROVE EInv'
  <2>1. UNCHANGED <<server, account, browser>> /\ upsets' \in 0 .. MaxUpsets
    BY <1>4, BoundsAssumption DEF Lose, Upset, EInv, TypeOK
  <2>2. calls' \in [Calls -> CallType]
    BY <1>4, CallTypes DEF Lose, EInv, TypeOK, Settle, CallType, Places
  <2>3. TypeOK'
    BY <2>1, <2>2, SameServer, SameAccount DEF EInv, TypeOK, browser
  <2>4. AllWaited'
    <3>1. CASE calls' = [calls EXCEPT ![c] = Over(calls[c])]
      BY <3>1, OneWaits, OverIs DEF EInv
    <3>2. CASE calls[c].at = "renewed" /\ calls' = [calls EXCEPT ![c].at = "refused", ![c].lost = TRUE]
      <4>1. calls[c] \in CallType /\ calls[c].tab # NoTab
        BY <3>2 DEF EInv, TypeOK, AllWaited, Waited
      <4>2. calls' = [calls EXCEPT ![c] = [calls[c] EXCEPT !.at = "refused", !.lost = TRUE]]
        BY <3>2 DEF EInv, TypeOK
      <4>3. [calls[c] EXCEPT !.at = "refused", !.lost = TRUE].tab = calls[c].tab
        BY <4>1 DEF CallType
      <4> QED BY <4>1, <4>2, <4>3, OneWaits DEF EInv
    <3> QED BY <1>4, <3>1, <3>2 DEF Lose, Settle
  <2> QED BY <2>1, <2>3, <2>4, QuietKeepsEInv
<1> QED BY <1>1, <1>2, <1>3, <1>4

LEMMA ResetKeepsEInv ==
  ASSUME EInv, NEW r \in Resets, FindLink(r) \/ ResetPassword(r)
  PROVE  EInv'
<1>1. CASE FindLink(r)
  <2>1. UNCHANGED <<server, browser, calls, upsets>>
    BY <1>1 DEF FindLink
  <2>2. AccountTypeOK' /\ LinksFresh'
    BY <1>1 DEF FindLink, EInv, TypeOK, AccountTypeOK, LinksFresh, NoToken
  <2>3. SessionsNumbered' /\ EndedApart'
    BY <2>1 DEF EInv, SessionsNumbered, EndedApart, server, Rows
  <2> QED BY <2>1, <2>2, <2>3, SameServer DEF EInv, TypeOK, browser, AllWaited, Waited
<1>2. CASE ResetPassword(r)
  <2>1. Delete(Rows) /\ UNCHANGED <<browser, calls, upsets>>
    BY <1>2 DEF ResetPassword
  <2>2. AccountTypeOK' /\ LinksFresh'
    BY <1>2 DEF ResetPassword, EInv, TypeOK, AccountTypeOK, LinksFresh, NoToken
  <2> QED BY <2>1, <2>2, DeleteKeeps DEF EInv, TypeOK, browser, AllWaited, Waited
<1> QED BY <1>1, <1>2

LEMMA DemoKeepsEInv ==
  ASSUME EInv, NEW t \in Tabs, DemoLogin(t)
  PROVE  EInv'
<1>1. TypeOK' /\ Len(pairs') = Len(pairs) + 1 /\ Rows' = Rows /\ Len(pairs) \in Nat
  BY DemoTypes DEF EInv, TypeOK, ServerTypeOK
<1>2. UNCHANGED <<ended, account, calls>>
  BY DEF DemoLogin
<1>3. SessionsNumbered'
  BY <1>1, <1>2 DEF EInv, SessionsNumbered
<1> QED BY <1>1, <1>2, <1>3 DEF EInv, EndedApart, LinksFresh, AllWaited, Waited, account

LEMMA StepKeepsEInv == EInv /\ [Next]_vars => EInv'
<1> SUFFICES ASSUME EInv, [Next]_vars PROVE EInv'
  OBVIOUS
<1>1. ASSUME NEW c \in Calls, Client(c) PROVE EInv'
  <2>1. TypeOK'
    BY <1>1, ClientTypes DEF EInv, AllWaited
  <2>2. UNCHANGED <<server, account>>
    BY <1>1 DEF Client, SignedIn, Return, Unauthorized, Retry, ForceOut
  <2>3. AllWaited'
    <3>1. CASE calls' = [calls EXCEPT ![c] = Over(calls[c])]
      BY <3>1, OneWaits, OverIs DEF EInv
    <3>2. CASE Retry(c)
      <4>1. calls[c] \in CallType /\ calls' = [calls EXCEPT ![c] = [calls[c] EXCEPT !.at = "sent"]]
        BY <3>2 DEF Retry, EInv, TypeOK
      <4>2. [calls[c] EXCEPT !.at = "sent"].at = "sent"
        BY <4>1 DEF CallType
      <4> QED BY <4>1, <4>2, OneWaits DEF EInv
    <3>3. CASE Unauthorized(c) /\ store[calls[c].tab] # NoToken
      <4>1. ASSUME NEW d \in Calls
            PROVE  \/ calls'[d].at = "refreshing"
                   \/ calls'[d].at = calls[d].at /\ calls'[d].tab = calls[d].tab
        <5>1. calls[d] \in CallType
          BY DEF EInv, TypeOK
        <5>2. [calls[d] EXCEPT !.beside = @ \cup {c}].at = calls[d].at /\ [calls[d] EXCEPT !.beside = @ \cup {c}].tab = calls[d].tab
          BY <5>1 DEF CallType
        <5>3. CASE d = c
          BY <3>3, <5>1, <5>3 DEF Unauthorized, CallType
        <5>4. CASE d # c
          BY <3>3, <5>2, <5>4 DEF Unauthorized
        <5> QED BY <5>3, <5>4
      <4> QED BY <4>1 DEF EInv, AllWaited, Waited
    <3> QED BY <1>1, <3>1, <3>2, <3>3 DEF Client, SignedIn, Return, Unauthorized, ForceOut, Settle
  <2> QED BY <2>1, <2>2, <2>3, QuietKeepsEInv
<1>2. ASSUME NEW c \in Calls, NEW t \in Tabs, Send(c, t) \/ SendLogin(c, t) PROVE EInv'
  <2>1. TypeOK'
    BY <1>2, SendTypes DEF EInv
  <2>2. AllWaited'
    BY <1>2 DEF EInv, TypeOK, CallType, AllWaited, Waited, Send, SendLogin
  <2> QED BY <1>2, <2>1, <2>2, QuietKeepsEInv DEF Send, SendLogin
<1>3. ASSUME NEW t \in Tabs, SignOut(t) \/ Load(t) PROVE EInv'
  <2>1. TypeOK'
    BY <1>3, TabTypes DEF EInv
  <2>2. AllWaited'
    <3>1. CASE SignOut(t)
      BY <3>1 DEF SignOut, EInv, AllWaited, Waited
    <3>2. CASE Load(t)
      <4>1. ASSUME NEW d \in Calls
            PROVE  calls'[d] = calls[d] \/ calls'[d].at \notin {"denied", "opened", "renewed", "refused"}
        <5>1. calls[d] \in CallType /\ Over([calls[d] EXCEPT !.tab = NoTab]).at = "settled"
          BY OverIs DEF EInv, TypeOK
        <5>2. [calls[d] EXCEPT !.tab = NoTab].at = calls[d].at
          BY <5>1 DEF CallType
        <5> QED BY <3>2, <5>1, <5>2 DEF Load
      <4> QED BY <4>1 DEF EInv, AllWaited, Waited
    <3> QED BY <1>3, <3>1, <3>2
  <2> QED BY <1>3, <2>1, <2>2, QuietKeepsEInv DEF SignOut, Load
<1>4. CASE UNCHANGED vars
  <2>1. TypeOK' /\ AllWaited'
    BY <1>4, SameServer, SameAccount DEF vars, EInv, TypeOK, browser, AllWaited, Waited
  <2> QED BY <1>4, <2>1, QuietKeepsEInv DEF vars
<1>5. ASSUME NEW t \in Tabs, DemoLogin(t) PROVE EInv'
  BY <1>5, DemoKeepsEInv
<1> QED BY <1>1, <1>2, <1>3, <1>4, <1>5, ApiKeepsEInv, WorldKeepsEInv, ResetKeepsEInv DEF Next

(* What the accounts, the sessions and the browser may hold, always. *)
THEOREM Endings == Spec => []EInv
BY InitEInv, StepKeepsEInv, PTL DEF Spec

(* Every reachable state of SignIn is well typed. *)
THEOREM TypeCorrect == Spec => []TypeOK
BY Endings, PTL DEF EInv

(* No refresh, however it is overtaken, brings back a session that a logout or *)
(* a reset has ended, and no link resets the password once another use of it   *)
(* is done.                                                                    *)
THEOREM Ended == Spec => []EndedForGood
<1>1. EInv => EndedForGood
  BY DEF EInv, EndedApart, LinksFresh, EndedForGood
<1> QED BY <1>1, Endings, PTL

-----------------------------------------------------------------------------
(* The tokens that the pages hold, present and wait for. *)

Pending == {"renewed", "opened"}

(* A call presents one token in its life and is given one pair. *)
CallShape(c) ==
  /\ calls[c].at = "unsent" \/ (~calls[c].retry /\ calls[c].at # "settled") => calls[c].ref = NoToken
  /\ calls[c].at \in Refreshing => calls[c].ref # NoToken /\ calls[c].retry
  /\ calls[c].at \in {"unsent", "login", "checked", "opened"} => ~calls[c].retry
  /\ \/ calls[c].at \in {"refreshing", "found"}
     \/ ~calls[c].retry /\ calls[c].at \notin {"opened", "settled"}
     => calls[c].new = NoToken
  /\ calls[c].at \in Pending => calls[c].new # NoToken

(* The pair of an answer under way is known to nobody else yet. *)
Fresh(c) == calls[c].at \in Pending =>
  /\ saved # calls[c].new /\ \A t \in Tabs : store[t] # calls[c].new
  /\ \A d \in Calls : /\ calls[d].ref # calls[c].new
                      /\ d # c /\ calls[d].at \in Pending => calls[d].new # calls[c].new

(* Once a refresh of a page is over, no page can find its old token any more. *)
Moved(c) == calls[c].ref # NoToken /\ calls[c].tab # NoTab /\ calls[c].at \notin Refreshing =>
  saved # calls[c].ref /\ store[calls[c].tab] # calls[c].ref

(* Two calls of a page that present one token are refreshing it at once. *)
Together(c, d) ==
  c # d /\ calls[c].at \in Refreshing /\ calls[d].ref = calls[c].ref
        /\ calls[d].tab = calls[c].tab /\ calls[c].tab # NoTab => d \in calls[c].beside

PageOf(c) == CallShape(c) /\ Fresh(c) /\ Moved(c) /\ \A d \in Calls : Together(c, d)
BInv == EInv /\ \A c \in Calls : PageOf(c)

LEMMA InitBInv == Init => BInv
BY InitEInv DEF Init, BInv, PageOf, CallShape, Fresh, Moved, Together, Unsent, Pending, Refreshing, NoToken

(* What every step makes of a call, but for the start of its refresh. *)
Tame(d) ==
  /\ \/ calls'[d].ref = calls[d].ref
     \/ calls'[d].ref = NoToken /\ calls[d].new = NoToken /\ calls'[d].at = "settled"
  /\ calls[d].ref # NoToken =>
       /\ calls'[d].tab \in {calls[d].tab, NoTab}
       /\ calls[d].new # NoToken => calls'[d].new = calls[d].new
  /\ calls'[d].at \in Refreshing => calls[d].at \in Refreshing /\ calls[d].beside \subseteq calls'[d].beside
  /\ calls'[d].at \in Pending =>
       calls'[d].new = NewPair \/ (calls[d].at \in Pending /\ calls'[d].new = calls[d].new)

(* A call that stays as it is, or is over, is tame. *)
LEMMA IdleTame ==
  ASSUME BInv, NEW d \in Calls,
         \/ calls'[d] = calls[d] \/ calls'[d] = Over(calls[d])
         \/ calls'[d] = Over([calls[d] EXCEPT !.tab = NoTab])
  PROVE  Tame(d) /\ CallShape(d)'
<1>1. CASE calls'[d] = calls[d]
  BY <1>1 DEF Tame, CallShape, BInv, PageOf
<1>2. CASE calls'[d] = Over(calls[d]) \/ calls'[d] = Over([calls[d] EXCEPT !.tab = NoTab])
  <2>1. PICK y : /\ calls'[d] = Over(y) /\ y.ref = calls[d].ref /\ y.new = calls[d].new
                 /\ y.tab \in {calls[d].tab, NoTab}
    <3>1. calls[d] \in CallType
      BY DEF BInv, EInv, TypeOK
    <3>2. LET y == [calls[d] EXCEPT !.tab = NoTab]
          IN  y.ref = calls[d].ref /\ y.new = calls[d].new /\ y.tab = NoTab
      BY <3>1 DEF CallType
    <3> QED BY <1>2, <3>2
  <2>2. /\ calls'[d].at = "settled" /\ ~calls'[d].retry
        /\ \/ calls'[d].ref = calls[d].ref /\ calls'[d].new = calls[d].new /\ calls'[d].tab \in {calls[d].tab, NoTab}
           \/ /\ calls[d].ref = NoToken \/ calls[d].new = NoToken
              /\ calls'[d].ref = NoToken /\ calls'[d].tab = NoTab
    BY <2>1, OverIs
  <2> QED BY <2>2 DEF Tame, CallShape, Pending, Refreshing
<1> QED BY <1>1, <1>2

LEMMA OneTame ==
  ASSUME BInv, NEW c \in Calls, NEW x, calls' = [calls EXCEPT ![c] = x], Tame(c), CallShape(c)'
  PROVE  \A d \in Calls : Tame(d) /\ CallShape(d)'
<1>1. ASSUME NEW d \in Calls, d # c PROVE calls'[d] = calls[d]
  BY <1>1 DEF BInv, EInv, TypeOK
<1> QED BY <1>1, IdleTame

(* When the calls are tame, the pages may store a pair k that is no token of *)
(* theirs; and they do when the refresh of one of them is over.              *)
LEMMA TameKeepsBInv ==
  ASSUME BInv, EInv', Len(pairs) <= Len(pairs'), NEW k,
         \A d \in Calls : Tame(d) /\ CallShape(d)',
         \A d, e \in Calls : d # e /\ calls'[d].at \in Pending /\ calls'[e].at \in Pending
                             /\ calls'[d].new = NewPair => calls'[e].new # NewPair,
         saved' \in {saved, k}, \A t \in Tabs : store'[t] \in {store[t], saved, k},
         \A d \in Calls : /\ calls[d].ref # NoToken => calls[d].ref # k
                          /\ calls'[d].at \in Pending => calls'[d].new # k,
         \A d \in Calls : calls[d].at \in Refreshing /\ calls'[d].at \notin Refreshing /\ calls'[d].tab # NoTab =>
                            saved' = k /\ store'[calls'[d].tab] = k
  PROVE  BInv'
<1>1. /\ Len(pairs) \in Nat /\ saved \in Token /\ NewPair \notin Token
      /\ \A t \in Tabs : store[t] \in Token
      /\ \A d \in Calls : calls[d].ref \in Token /\ calls[d].new \in Token /\ calls[d].tab \in Tabs \cup {NoTab}
  BY DEF BInv, EInv, TypeOK, ServerTypeOK, CallType, Token, NewPair
<1>2. ASSUME NEW d \in Calls PROVE Fresh(d)'
  <2> SUFFICES ASSUME calls'[d].at \in Pending
               PROVE  /\ saved' # calls'[d].new /\ \A t \in Tabs : store'[t] # calls'[d].new
                      /\ \A e \in Calls : /\ calls'[e].ref # calls'[d].new
                                          /\ e # d /\ calls'[e].at \in Pending => calls'[e].new # calls'[d].new
    BY DEF Fresh
  <2>1. calls'[d].new # NoToken
    BY DEF CallShape
  <2>2. CASE calls'[d].new = NewPair
    BY <1>1, <2>1, <2>2 DEF Tame
  <2>3. CASE calls[d].at \in Pending /\ calls'[d].new = calls[d].new
    BY <1>1, <2>1, <2>3 DEF Tame, BInv, PageOf, Fresh
  <2> QED BY <2>2, <2>3 DEF Tame
<1>3. ASSUME NEW d \in Calls PROVE Moved(d)'
  <2> SUFFICES ASSUME calls'[d].ref # NoToken, calls'[d].tab # NoTab, calls'[d].at \notin Refreshing
               PROVE  saved' # calls'[d].ref /\ store'[calls'[d].tab] # calls'[d].ref
    BY DEF Moved
  <2>1. calls'[d].ref = calls[d].ref /\ calls'[d].tab = calls[d].tab /\ calls[d].tab \in Tabs /\ calls[d].ref # k
    BY <1>1 DEF Tame
  <2>2. CASE calls[d].at \in Refreshing
    BY <2>1, <2>2
  <2>3. CASE calls[d].at \notin Refreshing
    BY <2>1, <2>3 DEF BInv, PageOf, Moved
  <2> QED BY <2>2, <2>3
<1>4. ASSUME NEW d \in Calls, NEW e \in Calls PROVE Together(d, e)'
  <2> SUFFICES ASSUME d # e, calls'[d].at \in Refreshing, calls'[e].ref = calls'[d].ref,
                      calls'[e].tab = calls'[d].tab, calls'[d].tab # NoTab
               PROVE  e \in calls'[d].beside
    BY DEF Together
  <2>1. calls[d].at \in Refreshing /\ calls[d].ref # NoToken /\ calls[d].beside \subseteq calls'[d].beside
    BY DEF Tame, BInv, PageOf, CallShape
  <2>2. calls[e].ref = calls[d].ref /\ calls[e].tab = calls[d].tab /\ calls[d].tab # NoTab
    <3>1. calls'[d].ref = calls[d].ref /\ calls'[e].ref = calls[e].ref
      BY <2>1 DEF Tame, Refreshing
    <3> QED BY <2>1, <3>1 DEF Tame
  <2> QED BY <2>1, <2>2 DEF BInv, PageOf, Together
<1> QED BY <1>2, <1>3, <1>4 DEF BInv, PageOf, Calls

(* Steps of one call that leave the browser alone. *)
LEMMA OneKeepsBInv ==
  ASSUME BInv, EInv', NEW c \in Calls, NEW x, calls' = [calls EXCEPT ![c] = x], UNCHANGED <<store, saved>>,
         Len(pairs) <= Len(pairs'), Tame(c), CallShape(c)',
         calls[c].at \in Refreshing => calls'[c].at \in Refreshing \/ calls'[c].tab = NoTab
  PROVE  BInv'
<1>1. \A d \in Calls : Tame(d) /\ CallShape(d)'
  BY OneTame
<1>2. \A d \in Calls : d = c \/ calls'[d] = calls[d]
  BY DEF BInv, EInv, TypeOK
<1>3. \A d \in Calls : calls[d].new # NewPair
  BY DEF BInv, EInv, TypeOK, ServerTypeOK, CallType, Token, NewPair
<1>4. \A d \in Calls : calls'[d].at \in Pending => calls'[d].new # NoToken
  BY <1>1 DEF CallShape
<1>5. \A d, e \in Calls : d # e /\ calls'[d].at \in Pending /\ calls'[e].at \in Pending
                          /\ calls'[d].new = NewPair => calls'[e].new # NewPair
  BY <1>2, <1>3
<1>6. \A d \in Calls : calls[d].at \in Refreshing /\ calls'[d].at \notin Refreshing /\ calls'[d].tab # NoTab =>
                            saved' = NoToken /\ store'[calls'[d].tab] = NoToken
  BY <1>2
<1> QED BY <1>1, <1>4, <1>5, <1>6, TameKeepsBInv

(* Steps of one call that store k, a pair of nobody else. *)
LEMMA KeepKeepsBInv ==
  ASSUME BInv, EInv', NEW c \in Calls, NEW x, calls' = [calls EXCEPT ![c] = x], UNCHANGED pairs,
         calls[c].tab \in Tabs, NEW k, Keep(calls[c].tab, k), k = NoToken \/ (calls[c].at \in Pending /\ k = calls[c].new),
         Tame(c), CallShape(c)', calls'[c].at \notin Pending, calls'[c].tab \in {calls[c].tab, NoTab}
  PROVE  BInv'
<1>1. \A d \in Calls : Tame(d) /\ CallShape(d)'
  BY OneTame
<1>2. \A d \in Calls : d = c \/ calls'[d] = calls[d]
  BY DEF BInv, EInv, TypeOK
<1>3. saved' = k /\ store'[calls[c].tab] = k /\ \A t \in Tabs : store'[t] \in {store[t], k}
  BY DEF Keep, BInv, EInv, TypeOK
<1>4. \A d \in Calls : /\ calls[d].ref # NoToken => calls[d].ref # k
                       /\ calls'[d].at \in Pending => calls'[d].new # k
  <2>1. CASE k = NoToken
    BY <1>1, <2>1 DEF CallShape
  <2>2. CASE calls[c].at \in Pending /\ k = calls[c].new
    BY <1>2, <2>2 DEF BInv, PageOf, Fresh
  <2> QED BY <2>1, <2>2
<1>5. \A d, e \in Calls : d # e /\ calls'[d].at \in Pending /\ calls'[e].at \in Pending
                          /\ calls'[d].new = NewPair => calls'[e].new # NewPair
  <2>1. \A d \in Calls : calls[d].new # NewPair
    BY DEF BInv, EInv, TypeOK, ServerTypeOK, CallType, Token, NewPair
  <2> QED BY <1>2, <2>1
<1>6. \A d \in Calls : calls[d].at \in Refreshing /\ calls'[d].at \notin Refreshing /\ calls'[d].tab # NoTab =>
                            saved' = k /\ store'[calls'[d].tab] = k
  BY <1>2, <1>3
<1>7. Len(pairs) <= Len(pairs')
  BY DEF BInv, EInv, TypeOK, ServerTypeOK
<1> QED BY <1>1, <1>3, <1>4, <1>5, <1>6, <1>7, TameKeepsBInv

(* A refresh starts: the token is the one of the store, which no call of the *)
(* page has done with.                                                       *)
Starts(c) == Unauthorized(c) /\ store[calls[c].tab] # NoToken

LEMMA StartChanges ==
  ASSUME BInv, NEW c \in Calls, Starts(c)
  PROVE  /\ calls[c].at = "denied" /\ ~calls[c].retry /\ calls[c].new = NoToken /\ calls[c].ref = NoToken
         /\ calls'[c].at = "refreshing" /\ calls'[c].retry /\ calls'[c].ref = store[calls[c].tab]
         /\ calls'[c].new = NoToken /\ calls'[c].tab = calls[c].tab /\ calls[c].tab \in Tabs
         /\ \A d \in Calls : calls[d].tab = calls[c].tab /\ calls[d].ref = store[calls[c].tab] /\ calls[d].at \in Refreshing
              => d \in calls'[c].beside /\ (d # c => c \in calls'[d].beside)
         /\ \A d \in Calls \ {c} :
              /\ calls'[d].at = calls[d].at /\ calls'[d].tab = calls[d].tab /\ calls'[d].ref = calls[d].ref
              /\ calls'[d].new = calls[d].new /\ calls'[d].retry = calls[d].retry /\ calls'[d].lost = calls[d].lost
              /\ calls'[d].sid = calls[d].sid /\ calls[d].beside \subseteq calls'[d].beside
<1> DEFINE n == store[calls[c].tab]
           others == {d \in Calls : calls[d].tab = calls[c].tab /\ calls[d].ref = n /\ calls[d].at \in Refreshing}
<1>1. calls' = [d \in Calls |->
         IF d = c THEN [calls[c] EXCEPT !.at = "refreshing", !.retry = TRUE, !.ref = n, !.beside = others]
         ELSE IF d \in others THEN [calls[d] EXCEPT !.beside = @ \cup {c}] ELSE calls[d]]
  BY DEF Starts, Unauthorized
<1>2. \A d \in Calls : calls[d] \in CallType
  BY DEF BInv, EInv, TypeOK
<1>3. calls[c].at = "denied" /\ ~calls[c].retry
  BY DEF Starts, Unauthorized
<1>4. calls[c].new = NoToken /\ calls[c].ref = NoToken /\ calls[c].tab \in Tabs
  BY <1>2, <1>3 DEF BInv, EInv, AllWaited, Waited, PageOf, CallShape, CallType
<1>5. \A d \in others : d \in Calls
  OBVIOUS
<1>6. ASSUME NEW d \in Calls, d # c
      PROVE  /\ calls'[d].at = calls[d].at /\ calls'[d].tab = calls[d].tab /\ calls'[d].ref = calls[d].ref
             /\ calls'[d].new = calls[d].new /\ calls'[d].retry = calls[d].retry /\ calls'[d].lost = calls[d].lost
             /\ calls'[d].sid = calls[d].sid /\ calls[d].beside \subseteq calls'[d].beside
             /\ d \in others => c \in calls'[d].beside
  <2> HIDE DEF others
  <2>1. CASE d \in others
    <3>1. calls'[d] = [calls[d] EXCEPT !.beside = @ \cup {c}] /\ calls[d] \in CallType
      BY <1>1, <1>2, <1>6, <2>1
    <3> QED BY <3>1 DEF CallType
  <2>2. CASE d \notin others
    BY <1>1, <1>6, <2>2
  <2> QED BY <2>1, <2>2
<1>7. /\ calls'[c].at = "refreshing" /\ calls'[c].retry /\ calls'[c].ref = n
      /\ calls'[c].new = calls[c].new /\ calls'[c].tab = calls[c].tab /\ calls'[c].beside = others
  <2> HIDE DEF others, n
  <2>1. calls'[c] = [calls[c] EXCEPT !.at = "refreshing", !.retry = TRUE, !.ref = n, !.beside = others]
    BY <1>1
  <2>2. calls[c] \in CallType
    BY <1>2
  <2> QED BY <2>1, <2>2 DEF CallType
<1> QED BY <1>3, <1>4, <1>6, <1>7

LEMMA StartKeepsBInv ==
  ASSUME BInv, EInv', NEW c \in Calls, Starts(c)
  PROVE  BInv'
<1> DEFINE t == calls[c].tab
           n == store[t]
<1>1. UNCHANGED <<store, saved>> /\ n # NoToken /\ t \in Tabs
  BY StartChanges DEF Starts, Unauthorized, browser
<1>2. ASSUME NEW d \in Calls PROVE CallShape(d)'
  <2>1. CASE d = c
    BY <1>1, <2>1, StartChanges DEF CallShape, Refreshing, Pending
  <2>2. CASE d # c
    BY <2>2, StartChanges DEF CallShape, BInv, PageOf
  <2> QED BY <2>1, <2>2
<1>3. ASSUME NEW d \in Calls PROVE Fresh(d)'
  <2> SUFFICES ASSUME calls'[d].at \in Pending PROVE Fresh(d)'
    BY DEF Fresh
  <2>1. d # c /\ calls[d].at \in Pending /\ calls'[d].new = calls[d].new
    BY StartChanges DEF Pending
  <2>2. Fresh(d)
    BY DEF BInv, PageOf
  <2>3. ASSUME NEW e \in Calls
        PROVE  /\ calls'[e].ref # calls'[d].new
               /\ e # d /\ calls'[e].at \in Pending => calls'[e].new # calls'[d].new
    <3>1. CASE e = c
      BY <1>1, <2>1, <2>2, <3>1, StartChanges DEF Fresh, Pending
    <3>2. CASE e # c
      BY <2>1, <2>2, <3>2, StartChanges DEF Fresh
    <3> QED BY <3>1, <3>2
  <2> QED BY <1>1, <2>1, <2>2, <2>3 DEF Fresh
<1>4. ASSUME NEW d \in Calls PROVE Moved(d)'
  <2>1. CASE d = c
    BY <2>1, StartChanges DEF Moved, Refreshing
  <2>2. CASE d # c
    BY <1>1, <2>2, StartChanges DEF Moved, BInv, PageOf
  <2> QED BY <2>1, <2>2
<1>5. ASSUME NEW d \in Calls, NEW e \in Calls PROVE Together(d, e)'
  <2>1. CASE d = c
    <3> SUFFICES ASSUME e # c, calls'[e].ref = n, calls'[e].tab = t PROVE e \in calls'[c].beside
      BY <2>1, StartChanges DEF Together
    <3>1. calls[e].ref = n /\ calls[e].tab = t
      BY StartChanges
    <3>2. calls[e].at \in Refreshing
      <4>1. Moved(e) /\ t # NoTab
        BY <1>1, BoundsAssumption DEF BInv, PageOf
      <4> QED BY <1>1, <3>1, <4>1 DEF Moved
    <3> QED BY <3>1, <3>2, StartChanges
  <2>2. CASE d # c /\ e = c
    BY <2>2, StartChanges DEF Together
  <2>3. CASE d # c /\ e # c
    BY <2>3, StartChanges DEF Together, BInv, PageOf
  <2> QED BY <2>1, <2>2, <2>3
<1> QED BY <1>2, <1>3, <1>4, <1>5 DEF BInv, PageOf, Calls

(* The other steps of a page. *)
LEMMA ClientMoves ==
  ASSUME BInv, NEW c \in Calls, Client(c), ~Starts(c)
  PROVE  /\ UNCHANGED <<server, account>> /\ calls[c].tab \in Tabs
         /\ \/ calls' = [calls EXCEPT ![c] = Over(calls[c])] /\ calls[c].at \notin Refreshing /\ UNCHANGED <<store, saved>>
            \/ /\ calls' = [calls EXCEPT ![c] = Over(calls[c])]
               /\ \E k : Keep(calls[c].tab, k) /\ (k = NoToken \/ (calls[c].at \in Pending /\ k = calls[c].new))
            \/ /\ calls' = [calls EXCEPT ![c] = [calls[c] EXCEPT !.at = "sent"]]
               /\ calls[c].at = "renewed" /\ Keep(calls[c].tab, calls[c].new)
<1>1. calls[c] \in CallType
  BY DEF BInv, EInv, TypeOK
<1>2. calls[c].at \in {"denied", "opened", "renewed", "refused"}
  BY DEF Client, SignedIn, Return, Unauthorized, Retry, ForceOut
<1>3. calls[c].tab \in Tabs
  BY <1>1, <1>2 DEF BInv, EInv, AllWaited, Waited, CallType
<1>4. CASE SignedIn(c)
  BY <1>3, <1>4 DEF SignedIn, Settle, Pending
<1>5. CASE Return(c)
  BY <1>3, <1>5 DEF Return, Settle, Refreshing, browser
<1>6. CASE Unauthorized(c)
  BY <1>3, <1>6 DEF Starts, Unauthorized, Settle
<1>7. CASE Retry(c)
  BY <1>3, <1>7 DEF Retry, BInv, EInv, TypeOK
<1>8. CASE ForceOut(c)
  BY <1>3, <1>8 DEF ForceOut, Settle
<1> QED BY <1>4, <1>5, <1>6, <1>7, <1>8 DEF Client

LEMMA ClientTame ==
  ASSUME BInv, NEW c \in Calls, Client(c), ~Starts(c)
  PROVE  /\ Tame(c) /\ CallShape(c)' /\ calls'[c].at \in {"settled", "sent"}
         /\ calls'[c].tab \in {calls[c].tab, NoTab}
<1>1. calls[c] \in CallType /\ calls \in [Calls -> CallType]
  BY DEF BInv, EInv, TypeOK
<1>2. CASE calls' = [calls EXCEPT ![c] = Over(calls[c])]
  <2>1. calls'[c] = Over(calls[c])
    BY <1>1, <1>2
  <2> QED BY <2>1, IdleTame, OverIs
<1>3. CASE calls[c].at = "renewed" /\ calls' = [calls EXCEPT ![c] = [calls[c] EXCEPT !.at = "sent"]]
  <2>1. /\ calls'[c].at = "sent" /\ calls'[c].ref = calls[c].ref /\ calls'[c].new = calls[c].new
        /\ calls'[c].tab = calls[c].tab /\ calls'[c].retry = calls[c].retry
    BY <1>1, <1>3 DEF CallType
  <2> QED BY <1>3, <2>1 DEF Tame, CallShape, Refreshing, Pending, BInv, PageOf
<1> QED BY <1>2, <1>3, ClientMoves

LEMMA ClientKeepsBInv ==
  ASSUME BInv, EInv', NEW c \in Calls, Client(c)
  PROVE  BInv'
<1>1. CASE Starts(c)
  BY <1>1, StartKeepsBInv
<1>2. CASE ~Starts(c)
  <2>1. Tame(c) /\ CallShape(c)' /\ calls'[c].at \notin Pending /\ calls'[c].tab \in {calls[c].tab, NoTab}
    BY <1>2, ClientTame DEF Pending
  <2>2. Len(pairs) <= Len(pairs') /\ UNCHANGED pairs /\ calls[c].tab \in Tabs
    BY <1>2, ClientMoves DEF server, BInv, EInv, TypeOK, ServerTypeOK
  <2>3. CASE calls' = [calls EXCEPT ![c] = Over(calls[c])] /\ calls[c].at \notin Refreshing /\ UNCHANGED <<store, saved>>
    BY <2>1, <2>2, <2>3, OneKeepsBInv
  <2>4. ASSUME NEW x, calls' = [calls EXCEPT ![c] = x],
               NEW k, Keep(calls[c].tab, k), k = NoToken \/ (calls[c].at \in Pending /\ k = calls[c].new)
        PROVE  BInv'
    BY <2>1, <2>2, <2>4, KeepKeepsBInv
  <2> QED BY <1>2, <2>3, <2>4, ClientMoves DEF Pending
<1> QED BY <1>1, <1>2

LEMMA SendTame ==
  ASSUME BInv, NEW c \in Calls, NEW t \in Tabs, Send(c, t) \/ SendLogin(c, t)
  PROVE  /\ UNCHANGED <<server, account, browser>> /\ \E x : calls' = [calls EXCEPT ![c] = x]
         /\ calls[c].ref = NoToken /\ calls'[c].at \in {"sent", "login"} /\ calls[c].at = "unsent"
         /\ Tame(c) /\ CallShape(c)'
<1>1. calls[c] \in CallType /\ calls \in [Calls -> CallType] /\ CallShape(c) /\ calls[c].at = "unsent"
  BY DEF BInv, EInv, TypeOK, PageOf, Send, SendLogin, Sendable
<1>2. UNCHANGED <<server, account, browser>>
  BY DEF Send, SendLogin
<1>3. ASSUME NEW x, calls' = [calls EXCEPT ![c] = x], x.at \in {"sent", "login"}, x.ref = calls[c].ref,
             x.new = calls[c].new, x.retry = calls[c].retry
      PROVE  (\E y : calls' = [calls EXCEPT ![c] = y]) /\ calls'[c].at \in {"sent", "login"} /\ Tame(c) /\ CallShape(c)'
  <2>1. calls'[c] = x
    BY <1>1, <1>3
  <2> QED BY <1>1, <1>3, <2>1 DEF Tame, CallShape, Refreshing, Pending
<1>4. CASE Send(c, t)
  <2> DEFINE x == [calls[c] EXCEPT !.at = "sent", !.tab = t]
  <2>1. x.at = "sent" /\ x.ref = calls[c].ref /\ x.new = calls[c].new /\ x.retry = calls[c].retry
    BY <1>1 DEF CallType
  <2>2. calls' = [calls EXCEPT ![c] = x]
    BY <1>1, <1>4 DEF Send
  <2> HIDE DEF x
  <2> QED BY <1>1, <1>2, <1>3, <2>1, <2>2 DEF CallShape
<1>5. CASE SendLogin(c, t)
  <2> DEFINE x == [calls[c] EXCEPT !.at = "login", !.tab = t, !.pw = password]
  <2>1. x.at = "login" /\ x.ref = calls[c].ref /\ x.new = calls[c].new /\ x.retry = calls[c].retry
    BY <1>1 DEF CallType
  <2>2. calls' = [calls EXCEPT ![c] = x]
    BY <1>1, <1>5 DEF SendLogin
  <2> HIDE DEF x
  <2> QED BY <1>1, <1>2, <1>3, <2>1, <2>2 DEF CallShape
<1> QED BY <1>4, <1>5

(* The steps of the API and of the network: a call goes on, maybe with a new pair. *)
MovesOn(c, x) ==
  /\ calls' = [calls EXCEPT ![c] = x]
  /\ x.at # "settled" => /\ x.ref = calls[c].ref /\ x.tab = calls[c].tab
                         /\ x.retry = calls[c].retry /\ x.beside = calls[c].beside
  /\ x.at = "settled" => /\ x.tab = NoTab /\ ~x.retry
                         /\ \/ x.ref = calls[c].ref
                            \/ x.ref = NoToken /\ calls[c].new = NoToken
  /\ calls[c].at \in {"sent", "login", "checked", "refreshing", "found", "renewed"}
  /\ x.at \in {"settled", "denied", "checked", "opened", "found", "renewed", "refused"}
  /\ x.at \in {"checked", "opened"} => calls[c].at \in {"login", "checked"}
  /\ x.at \in {"found", "renewed", "refused"} => calls[c].at \in Refreshing
  /\ x.at = "found" => calls[c].at = "refreshing"
  /\ x.at \in Pending => x.new = NewPair /\ calls[c].at \in {"checked", "found"}
  /\ x.at \notin Pending => x.new = calls[c].new \/ x.at = "settled"
  /\ calls[c].at \in Refreshing => x.at \in Refreshing \/ x.tab = NoTab
  /\ calls[c].ref # NoToken /\ calls[c].new # NoToken => x.new = calls[c].new

LEMMA MovesOnTame ==
  ASSUME BInv, NEW c \in Calls, NEW x, MovesOn(c, x)
  PROVE  Tame(c) /\ CallShape(c)' /\ calls'[c] = x
<1>1. calls'[c] = x /\ CallShape(c) /\ NewPair # NoToken
  BY DEF MovesOn, BInv, EInv, TypeOK, ServerTypeOK, PageOf, NewPair, NoToken
<1>2. Tame(c)
  BY <1>1 DEF MovesOn, Tame, Pending, Refreshing
<1>3. CallShape(c)'
  BY <1>1 DEF MovesOn, CallShape, Pending, Refreshing
<1> QED BY <1>1, <1>2, <1>3

LEMMA MovesOnKeepsBInv ==
  ASSUME BInv, EInv', NEW c \in Calls, NEW x, MovesOn(c, x), Len(pairs) <= Len(pairs'), UNCHANGED browser
  PROVE  BInv'
BY MovesOnTame, OneKeepsBInv DEF MovesOn, browser

(* What is known of a call before a step of it. *)
LEMMA CallKnown ==
  ASSUME BInv, NEW c \in Calls
  PROVE  /\ calls[c] \in CallType /\ calls \in [Calls -> CallType] /\ CallShape(c)
         /\ Len(pairs) \in Nat /\ Len(pairs) <= Len(pairs)
BY DEF BInv, EInv, TypeOK, ServerTypeOK, PageOf

(* What the answer x of the API makes of a call: one whose page is gone is over. *)
LEMMA ReplyIs ==
  ASSUME NEW c \in Calls, NEW x, Reply(c, x), x.tab = calls[c].tab, x.ref = calls[c].ref
  PROVE  /\ calls' = [calls EXCEPT ![c] = Answered(x)]
         /\ \/ Answered(x) = x
            \/ /\ Answered(x).at = "settled" /\ Answered(x).tab = NoTab /\ ~Answered(x).retry
               /\ \/ x.new # NoToken /\ Answered(x).ref = calls[c].ref /\ Answered(x).new = x.new
                  \/ /\ calls[c].ref = NoToken \/ x.new = NoToken
                     /\ Answered(x).ref = NoToken
BY AnsweredIs, OverIs DEF Reply, Answered

LEMMA AuthenticateMoves ==
  ASSUME BInv, NEW c \in Calls, Authenticate(c) \/ ValidateUser(c)
  PROVE  /\ UNCHANGED <<server, account, browser, upsets>>
         /\ \/ calls' = [calls EXCEPT ![c] = Over(calls[c])]
            \/ \E x : MovesOn(c, x) /\ x.at \in {"denied", "checked", "settled"}
<1>1. UNCHANGED <<server, account, browser, upsets>>
  BY DEF Authenticate, ValidateUser
<1>2. CASE Reply(c, [calls[c] EXCEPT !.at = "denied"]) /\ calls[c].at \in {"sent", "login"}
  <2> DEFINE x == [calls[c] EXCEPT !.at = "denied"]
  <2>1. /\ x.at = "denied" /\ x.ref = calls[c].ref /\ x.tab = calls[c].tab /\ x.retry = calls[c].retry
        /\ x.beside = calls[c].beside /\ x.new = calls[c].new
    BY CallKnown DEF CallType
  <2>2. Reply(c, x)
    BY <1>2
  <2> HIDE DEF x
  <2>3. MovesOn(c, Answered(x)) /\ Answered(x).at \in {"denied", "settled"}
    BY <1>2, <2>1, <2>2, ReplyIs DEF MovesOn, Pending, Refreshing
  <2> QED BY <1>1, <2>3
<1>3. CASE Goes(c, "checked") /\ calls[c].at = "login"
  <2> DEFINE x == [calls[c] EXCEPT !.at = "checked"]
  <2>1. /\ x.at = "checked" /\ x.ref = calls[c].ref /\ x.tab = calls[c].tab /\ x.retry = calls[c].retry
        /\ x.beside = calls[c].beside /\ x.new = calls[c].new
    BY CallKnown DEF CallType
  <2>2. calls' = [calls EXCEPT ![c] = x]
    BY <1>3, CallKnown DEF Goes
  <2> HIDE DEF x
  <2>3. MovesOn(c, x)
    BY <1>3, <2>1, <2>2 DEF MovesOn, Pending, Refreshing
  <2> QED BY <1>1, <2>1, <2>3
<1> QED BY <1>1, <1>2, <1>3 DEF Authenticate, ValidateUser, Settle

LEMMA CreateMoves ==
  ASSUME BInv, NEW c \in Calls, CreateSession(c)
  PROVE  \E x : MovesOn(c, x) /\ x.at \in {"opened", "settled"} /\ calls[c].at = "checked"
<1> DEFINE x == [calls[c] EXCEPT !.at = "opened", !.new = NewPair]
<1>1. /\ x.at = "opened" /\ x.ref = calls[c].ref /\ x.tab = calls[c].tab /\ x.retry = calls[c].retry
      /\ x.beside = calls[c].beside /\ x.new = NewPair
  BY CallKnown DEF CallType
<1>2. Reply(c, x) /\ calls[c].at = "checked" /\ calls[c].ref = NoToken
  BY CallKnown DEF CreateSession, CallShape
<1> HIDE DEF x
<1>3. MovesOn(c, Answered(x)) /\ Answered(x).at \in {"opened", "settled"}
  BY <1>1, <1>2, ReplyIs DEF MovesOn, Pending, Refreshing
<1> QED BY <1>2, <1>3

(* A refresh is answered, or it fails. *)
LEMMA FailMoves ==
  ASSUME BInv, NEW c \in Calls, Fail(c), calls[c].at \in {"refreshing", "found"}
  PROVE  \E x : MovesOn(c, x) /\ (x.at = "settled" \/ (x.at = "refused" /\ x.lost))
<1> DEFINE x == [calls[c] EXCEPT !.at = "refused", !.lost = TRUE]
<1>1. /\ x.at = "refused" /\ x.ref = calls[c].ref /\ x.tab = calls[c].tab /\ x.retry = calls[c].retry
      /\ x.beside = calls[c].beside /\ x.new = calls[c].new /\ x.lost
  BY CallKnown DEF CallType
<1>2. Reply(c, x) /\ calls[c].new = NoToken
  BY CallKnown DEF Fail, CallShape
<1> HIDE DEF x
<1>3. MovesOn(c, Answered(x)) /\ (Answered(x).at = "settled" \/ (Answered(x).at = "refused" /\ Answered(x).lost))
  BY <1>1, <1>2, ReplyIs DEF MovesOn, Pending, Refreshing
<1> QED BY <1>3

LEMMA RefusalMoves ==
  ASSUME BInv, NEW c \in Calls, Reply(c, [calls[c] EXCEPT !.at = "refused"]), calls[c].at \in {"refreshing", "found"}
  PROVE  \E x : MovesOn(c, x) /\ x.at \in {"refused", "settled"}
<1> DEFINE x == [calls[c] EXCEPT !.at = "refused"]
<1>1. /\ x.at = "refused" /\ x.ref = calls[c].ref /\ x.tab = calls[c].tab /\ x.retry = calls[c].retry
      /\ x.beside = calls[c].beside /\ x.new = calls[c].new
  BY CallKnown DEF CallType
<1>2. Reply(c, x) /\ calls[c].new = NoToken
  BY CallKnown DEF CallShape
<1> HIDE DEF x
<1>3. MovesOn(c, Answered(x)) /\ Answered(x).at \in {"refused", "settled"}
  BY <1>1, <1>2, ReplyIs DEF MovesOn, Pending, Refreshing
<1> QED BY <1>3

LEMMA FoundMoves ==
  ASSUME BInv, NEW c \in Calls, NEW s, calls' = [calls EXCEPT ![c].at = "found", ![c].sid = s], calls[c].at = "refreshing"
  PROVE  \E x : MovesOn(c, x) /\ x.at = "found" /\ x.sid = s
<1> DEFINE x == [calls[c] EXCEPT !.at = "found", !.sid = s]
<1>1. /\ x.at = "found" /\ x.ref = calls[c].ref /\ x.tab = calls[c].tab /\ x.retry = calls[c].retry
      /\ x.beside = calls[c].beside /\ x.new = calls[c].new /\ x.sid = s
  BY CallKnown DEF CallType
<1>2. calls' = [calls EXCEPT ![c] = x]
  BY CallKnown
<1> HIDE DEF x
<1>3. MovesOn(c, x)
  BY <1>1, <1>2 DEF MovesOn, Pending, Refreshing
<1> QED BY <1>1, <1>3

LEMMA RotateMoves ==
  ASSUME BInv, NEW c \in Calls, calls[c].at = "found",
         Reply(c, [calls[c] EXCEPT !.at = "renewed", !.new = NewPair])
  PROVE  \E x : MovesOn(c, x) /\ x.at \in {"renewed", "settled"} /\ x.new = NewPair /\ x.ref = calls[c].ref
<1> DEFINE x == [calls[c] EXCEPT !.at = "renewed", !.new = NewPair]
<1>1. /\ x.at = "renewed" /\ x.ref = calls[c].ref /\ x.tab = calls[c].tab /\ x.retry = calls[c].retry
      /\ x.beside = calls[c].beside /\ x.new = NewPair
  BY CallKnown DEF CallType
<1>2. Reply(c, x) /\ calls[c].new = NoToken /\ calls[c].ref # NoToken /\ NewPair # NoToken
  BY CallKnown DEF CallShape, Refreshing, NewPair, NoToken
<1> HIDE DEF x
<1>3. /\ MovesOn(c, Answered(x)) /\ Answered(x).at \in {"renewed", "settled"}
      /\ Answered(x).new = NewPair /\ Answered(x).ref = calls[c].ref
  BY <1>1, <1>2, ReplyIs DEF MovesOn, Pending, Refreshing
<1> QED BY <1>3

LEMMA LoseMoves ==
  ASSUME BInv, NEW c \in Calls, Lose(c)
  PROVE  /\ UNCHANGED <<server, account, browser>>
         /\ \/ calls' = [calls EXCEPT ![c] = Over(calls[c])] /\ calls[c].at \notin Refreshing
            \/ \E x : MovesOn(c, x) /\ x.at = "refused" /\ x.lost
<1>1. CASE calls[c].at = "opened" /\ Settle(c)
  BY <1>1 DEF Lose, Settle, Refreshing
<1>2. CASE calls[c].at = "renewed" /\ calls' = [calls EXCEPT ![c].at = "refused", ![c].lost = TRUE]
  <2> DEFINE x == [calls[c] EXCEPT !.at = "refused", !.lost = TRUE]
  <2>1. /\ x.at = "refused" /\ x.ref = calls[c].ref /\ x.tab = calls[c].tab /\ x.retry = calls[c].retry
        /\ x.beside = calls[c].beside /\ x.new = calls[c].new /\ x.lost
    BY CallKnown DEF CallType
  <2>2. calls' = [calls EXCEPT ![c] = x]
    BY <1>2, CallKnown
  <2> HIDE DEF x
  <2>3. MovesOn(c, x)
    BY <1>2, <2>1, <2>2 DEF MovesOn, Pending, Refreshing
  <2> QED BY <2>1, <2>3 DEF Lose
<1> QED BY <1>1, <1>2 DEF Lose

(* One lemma for the five steps of the API. *)
LEMMA ApiMoves ==
  ASSUME BInv, NEW c \in Calls, Api(c)
  PROVE  /\ UNCHANGED browser /\ Len(pairs) <= Len(pairs')
         /\ \/ calls' = [calls EXCEPT ![c] = Over(calls[c])] /\ calls[c].at \notin Refreshing
            \/ \E x : MovesOn(c, x)
<1>1. \A s : Issue(c, s, NewPair) => Len(pairs) <= Len(pairs')
  BY DEF Issue, BInv, EInv, TypeOK, ServerTypeOK
<1>2. UNCHANGED server => Len(pairs) <= Len(pairs')
  BY CallKnown DEF server
<1>3. CASE Authenticate(c) \/ ValidateUser(c)
  BY <1>2, <1>3, AuthenticateMoves DEF Authenticate, ValidateUser, Refreshing
<1>4. CASE CreateSession(c)
  BY <1>1, <1>4, CreateMoves DEF CreateSession
<1>5. CASE FindSession(c)
  BY <1>2, <1>5, FailMoves, RefusalMoves, FoundMoves DEF FindSession
<1>6. CASE RotateToken(c)
  BY <1>1, <1>2, <1>6, FailMoves, RefusalMoves, RotateMoves DEF RotateToken
<1> QED BY <1>3, <1>4, <1>5, <1>6 DEF Api

LEMMA ApiKeepsBInv ==
  ASSUME BInv, EInv', NEW c \in Calls, Api(c) \/ Lose(c)
  PROVE  BInv'
<1>1. UNCHANGED browser /\ Len(pairs) <= Len(pairs')
  BY ApiMoves, LoseMoves, CallKnown DEF server
<1>2. CASE \E x : MovesOn(c, x)
  BY <1>1, <1>2, MovesOnKeepsBInv
<1>3. CASE calls' = [calls EXCEPT ![c] = Over(calls[c])] /\ calls[c].at \notin Refreshing
  <2>1. calls'[c] = Over(calls[c])
    BY <1>3, CallKnown
  <2> QED BY <1>1, <1>3, <2>1, IdleTame, OneKeepsBInv DEF browser
<1> QED BY <1>2, <1>3, ApiMoves, LoseMoves

(* A page is loaded: its calls have nobody to answer to. *)
LEMMA LoadChanges ==
  ASSUME BInv, NEW t \in Tabs, Load(t), NEW d \in Calls
  PROVE  /\ Tame(d) /\ CallShape(d)'
         /\ \/ calls'[d].at = calls[d].at /\ calls'[d].lost = calls[d].lost /\ calls'[d].sid = calls[d].sid
            \/ calls'[d].at = "settled"
         /\ calls[d].at \in Refreshing /\ calls'[d].at \notin Refreshing => calls'[d].tab = NoTab
         /\ calls'[d].at \in {"denied", "refused"} \cup Pending => calls'[d] = calls[d]
<1>1. CASE calls'[d] = calls[d]
  BY <1>1, IdleTame
<1>2. CASE calls'[d] = Over([calls[d] EXCEPT !.tab = NoTab])
  <2>1. [calls[d] EXCEPT !.tab = NoTab].tab = NoTab
    BY CallKnown DEF CallType
  <2>2. calls'[d].at = "settled" /\ calls'[d].tab = NoTab
    BY <1>2, <2>1, OverIs
  <2> QED BY <1>2, <2>2, IdleTame DEF Pending
<1>3. CASE /\ calls'[d] = [calls[d] EXCEPT !.tab = NoTab]
           /\ calls[d].at \notin {"denied", "opened", "renewed", "refused"}
  <2>1. /\ calls'[d].at = calls[d].at /\ calls'[d].ref = calls[d].ref /\ calls'[d].new = calls[d].new
        /\ calls'[d].tab = NoTab /\ calls'[d].retry = calls[d].retry /\ calls'[d].lost = calls[d].lost
        /\ calls'[d].beside = calls[d].beside /\ calls'[d].sid = calls[d].sid
    BY <1>3, CallKnown DEF CallType
  <2> QED BY <1>3, <2>1, CallKnown DEF Tame, CallShape, Pending, Refreshing
<1> QED BY <1>1, <1>2, <1>3 DEF Load

LEMMA TabKeepsBInv ==
  ASSUME BInv, EInv', NEW t \in Tabs, SignOut(t) \/ DemoLogin(t) \/ Load(t)
  PROVE  BInv'
<1>1. /\ Len(pairs) \in Nat /\ saved \in Token /\ NewPair \notin Token
      /\ \A d \in Calls : calls[d].ref \in Token /\ calls[d].new \in Token
  BY DEF BInv, EInv, TypeOK, ServerTypeOK, CallType, Token, NewPair
<1>2. \A d, e \in Calls : d # e /\ calls[d].at \in Pending /\ calls[e].at \in Pending => calls[d].new # NewPair
  BY <1>1
<1>3. CASE Load(t)
  <2>1. \A d \in Calls : Tame(d) /\ CallShape(d)'
    BY <1>3, LoadChanges
  <2>2. \A d \in Calls : /\ calls'[d].at \in Pending => calls'[d] = calls[d]
                         /\ calls[d].at \in Refreshing /\ calls'[d].at \notin Refreshing => calls'[d].tab = NoTab
    BY <1>3, LoadChanges
  <2>3. saved' = saved /\ UNCHANGED pairs /\ \A u \in Tabs : store'[u] \in {store[u], saved}
    BY <1>3 DEF Load, server, BInv, EInv, TypeOK
  <2>4. \A d \in Calls : calls'[d].at \in Pending => calls'[d].new # NoToken
    BY <2>1 DEF CallShape
  <2>5. \A d, e \in Calls : d # e /\ calls'[d].at \in Pending /\ calls'[e].at \in Pending
                            /\ calls'[d].new = NewPair => calls'[e].new # NewPair
    BY <1>2, <2>2
  <2>6. \A d \in Calls : calls[d].at \in Refreshing /\ calls'[d].at \notin Refreshing /\ calls'[d].tab # NoTab =>
                            saved' = NoToken /\ store'[calls'[d].tab] = NoToken
    BY <2>2
  <2>7. saved' \in {saved, NoToken} /\ (\A u \in Tabs : store'[u] \in {store[u], saved, NoToken}) /\ Len(pairs) <= Len(pairs')
    BY <1>1, <2>3
  <2> QED BY <2>1, <2>4, <2>5, <2>6, <2>7, TameKeepsBInv
<1>4. ASSUME NEW k, UNCHANGED calls, Keep(t, k), Len(pairs) <= Len(pairs'), k \in {NoToken, NewPair} PROVE BInv'
  <2>1. \A d \in Calls : Tame(d) /\ CallShape(d)'
    BY <1>4, IdleTame
  <2>2. saved' = k /\ \A u \in Tabs : store'[u] \in {store[u], k}
    BY <1>4 DEF Keep, BInv, EInv, TypeOK
  <2>3. \A d \in Calls : /\ calls[d].ref # NoToken => calls[d].ref # k
                         /\ calls'[d].at \in Pending => calls'[d].new # k
    BY <1>1, <1>4, <2>1 DEF CallShape
  <2> QED BY <1>2, <1>4, <2>1, <2>2, <2>3, TameKeepsBInv
<1>5. CASE SignOut(t)
  BY <1>1, <1>4, <1>5 DEF SignOut, server
<1>6. CASE DemoLogin(t)
  <2>1. Len(pairs) <= Len(pairs')
    BY <1>1, <1>6, DemoTypes DEF BInv, EInv
  <2> QED BY <1>4, <1>6, <2>1 DEF DemoLogin
<1> QED BY <1>3, <1>5, <1>6

(* The rest of the world does not reach into the pages. *)
LEMMA WorldKeepsBInv ==
  ASSUME BInv, EInv', UNCHANGED <<pairs, browser, calls>>
  PROVE  BInv'
BY DEF BInv, PageOf, CallShape, Fresh, Moved, Together, browser

LEMMA StepKeepsBInv == BInv /\ [Next]_vars => BInv'
<1> SUFFICES ASSUME BInv, [Next]_vars PROVE BInv'
  OBVIOUS
<1>1. EInv'
  BY StepKeepsEInv DEF BInv
<1>2. CASE UNCHANGED vars
  BY <1>1, <1>2, WorldKeepsBInv DEF vars, server
<1>3. ASSUME NEW c \in Calls, Client(c) \/ Api(c) \/ Lose(c) PROVE BInv'
  BY <1>1, <1>3, ClientKeepsBInv, ApiKeepsBInv
<1>4. ASSUME NEW c \in Calls, NEW t \in Tabs, Send(c, t) \/ SendLogin(c, t) PROVE BInv'
  <2>1. UNCHANGED <<server, browser>> /\ Len(pairs) <= Len(pairs')
    BY <1>4, SendTame, CallKnown DEF server
  <2>2. calls[c].at \notin Refreshing
    BY <1>4, SendTame DEF Refreshing
  <2> QED BY <1>1, <1>4, <2>1, <2>2, SendTame, OneKeepsBInv DEF browser
<1>5. ASSUME NEW t \in Tabs, SignOut(t) \/ DemoLogin(t) \/ Load(t) PROVE BInv'
  BY <1>1, <1>5, TabKeepsBInv
<1>6. CASE Logout \/ ForgotPassword \/ SessionLapses \/ \E r \in Resets : FindLink(r) \/ ResetPassword(r)
  <2>1. UNCHANGED <<pairs, browser, calls>>
    BY <1>6 DEF Logout, ForgotPassword, SessionLapses, FindLink, ResetPassword, Delete, server
  <2> QED BY <1>1, <2>1, WorldKeepsBInv
<1> QED BY <1>2, <1>3, <1>4, <1>5, <1>6 DEF Next

-----------------------------------------------------------------------------
(* Nobody is signed out without a reason. *)

OverCovers == ended \subseteq over /\ lapsed \subseteq over
PairsHaveSessions == \A n \in 1 .. Len(pairs) : pairs[n] \in Rows \cup ended \cup {NoSession}
RowsHoldTheirPairs == \A s \in Rows : pairs[sessions[s]] = s

(* The session of a pair is over, or its row holds the pair; or else a call    *)
(* has exchanged the pair, or has exchanged an older one for a newer one.      *)
Spent(n)  == \E d \in Calls : calls[d].ref = n /\ calls[d].new # NoToken
Passed(n) == \E d \in Calls : calls[d].ref \in 1 .. n - 1 /\ n < calls[d].new /\ pairs[calls[d].ref] = pairs[n]
AccountedFor(n) ==
  \/ pairs[n] \in over \cup {NoSession}
  \/ pairs[n] \in Rows /\ sessions[pairs[n]] = n
  \/ Spent(n) \/ Passed(n)

(* A call has found the session of its token, whose row may hold a newer one by now. *)
RefMatches(c) ==
  calls[c].at = "found" =>
    /\ calls[c].sid \in Rows \cup ended /\ pairs[calls[c].ref] = calls[c].sid
    /\ calls[c].sid \in Rows => calls[c].ref <= sessions[calls[c].sid]

ServerInv == OverCovers /\ PairsHaveSessions /\ RowsHoldTheirPairs /\ \A n \in 1 .. Len(pairs) : AccountedFor(n)
SInv == BInv /\ ServerInv /\ (\A c \in Calls : RefMatches(c)) /\ SignedOutForAReason

LEMMA InitSInv == Init => SInv
<1> SUFFICES ASSUME Init PROVE SInv
  OBVIOUS
<1>1. BInv
  BY InitBInv
<1>2. CASE saved = 1
  <2>1. pairs = <<1>> /\ sessions = <<1>> /\ Len(pairs) = 1 /\ Rows = {1} /\ pairs[1] = 1 /\ sessions[1] = 1
    BY <1>2 DEF Init, Rows
  <2> QED BY <1>1, <2>1 DEF Init, SInv, ServerInv, OverCovers, PairsHaveSessions, RowsHoldTheirPairs, AccountedFor,
             RefMatches, SignedOutForAReason, Unsent
<1>3. CASE saved = 0
  <2>1. Len(pairs) = 0 /\ Rows = {}
    BY <1>3 DEF Init, Rows
  <2> QED BY <1>1, <2>1 DEF Init, SInv, ServerInv, OverCovers, PairsHaveSessions, RowsHoldTheirPairs, RefMatches,
             SignedOutForAReason, Unsent
<1> QED BY <1>2, <1>3 DEF Init, NoToken

(* What no step does: forget a token that was exchanged or the pair it was     *)
(* exchanged for, take a call to another page, renumber a pair, or forget that *)
(* a session is over.                                                          *)
Remembers ==
  \A d \in Calls : calls[d].ref # NoToken /\ calls[d].new # NoToken =>
    /\ calls'[d].ref = calls[d].ref /\ calls'[d].tab \in {calls[d].tab, NoTab}
    /\ calls'[d].new = calls[d].new
Grows ==
  /\ \A n \in 1 .. Len(pairs) : pairs'[n] = pairs[n]
  /\ over \subseteq over'
(* A call was refused before, with the same excuses. *)
Stays(d) ==
  /\ calls[d].at = "refused" /\ calls'[d].lost = calls[d].lost /\ calls'[d].ref = calls[d].ref
  /\ calls'[d].tab = calls[d].tab /\ calls[d].beside \subseteq calls'[d].beside

LEMMA TameRemembers ==
  ASSUME \A d \in Calls : Tame(d)
  PROVE  Remembers
BY DEF Tame, Remembers

LEMMA RefInPairs ==
  ASSUME BInv, NEW d \in Calls, calls[d].ref # NoToken
  PROVE  calls[d].ref \in 1 .. Len(pairs)
BY DEF BInv, EInv, TypeOK, CallType, Token, NoToken, ServerTypeOK

LEMMA SpentStays ==
  ASSUME Remembers, NEW n \in 1 .. Len(pairs), Spent(n)
  PROVE  Spent(n)'
<1>1. PICK d \in Calls : calls[d].ref = n /\ calls[d].new # NoToken
  BY DEF Spent
<1>2. calls'[d].ref = n /\ calls'[d].new = calls[d].new
  BY <1>1 DEF Remembers, NoToken
<1> QED BY <1>1, <1>2 DEF Spent, Calls

LEMMA PassedStays ==
  ASSUME BInv, Remembers, Grows, NEW n \in 1 .. Len(pairs), Passed(n)
  PROVE  Passed(n)'
<1>1. PICK d \in Calls : calls[d].ref \in 1 .. n - 1 /\ n < calls[d].new /\ pairs[calls[d].ref] = pairs[n]
  BY DEF Passed
<1>2. calls[d].ref # NoToken /\ calls[d].new # NoToken /\ calls[d].ref \in 1 .. Len(pairs)
  BY <1>1, RefInPairs DEF NoToken
<1>3. calls'[d].ref = calls[d].ref /\ calls'[d].new = calls[d].new
  BY <1>2 DEF Remembers
<1>4. pairs'[calls[d].ref] = pairs[calls[d].ref] /\ pairs'[n] = pairs[n]
  BY <1>2 DEF Grows
<1> QED BY <1>1, <1>3, <1>4 DEF Passed, Calls

LEMMA OvertakenIsPassed ==
  ASSUME NEW c \in Calls
  PROVE  Overtaken(c) <=> Passed(calls[c].ref)
BY DEF Overtaken, Passed

(* A reason stays one. *)
LEMMA ReasonsStay ==
  ASSUME SInv, Remembers, Grows, NEW c \in Calls, Stays(c)
  PROVE  Excused(c)'
<1>1. BInv /\ Excused(c) /\ calls[c].ref # NoToken /\ calls[c].tab # NoTab
  BY DEF SInv, SignedOutForAReason, BInv, EInv, AllWaited, Waited, PageOf, CallShape, Refreshing, Stays
<1>2. calls[c].ref \in 1 .. Len(pairs) /\ calls'[c].ref = calls[c].ref /\ pairs'[calls[c].ref] = pairs[calls[c].ref]
  BY <1>1, RefInPairs DEF Stays, Grows
<1>3. CASE calls[c].lost
  BY <1>3 DEF Excused, Stays
<1>4. CASE pairs[calls[c].ref] \in over \cup {NoSession}
  BY <1>2, <1>4 DEF Excused, Grows
<1>5. CASE Exchanged(c)
  <2>1. PICK d \in Calls \ {c} : /\ calls[d].ref = calls[c].ref /\ calls[d].new # NoToken
                                 /\ calls[d].tab # calls[c].tab \/ d \in calls[c].beside
    BY <1>5 DEF Exchanged
  <2>2. /\ calls'[d].ref = calls'[c].ref /\ calls'[d].new = calls[d].new
        /\ calls'[d].tab \in {calls[d].tab, NoTab}
    BY <1>1, <1>2, <2>1 DEF Remembers
  <2>3. calls'[d].tab # calls'[c].tab \/ d \in calls'[c].beside
    BY <1>1, <2>1, <2>2 DEF Stays
  <2> QED BY <2>1, <2>2, <2>3 DEF Excused, Exchanged, Calls
<1>6. CASE Overtaken(c)
  <2>1. Passed(calls[c].ref)'
    BY <1>1, <1>2, <1>6, OvertakenIsPassed, PassedStays
  <2> QED BY <1>2, <2>1 DEF Passed, Excused, Overtaken, Calls
<1> QED BY <1>1, <1>3, <1>4, <1>5, <1>6 DEF Excused

(* Pairs stay accounted for when the rows of sessions that are not over stay. *)
LEMMA AccountsStay ==
  ASSUME SInv, Remembers, Grows, NEW n \in 1 .. Len(pairs),
         pairs[n] \in Rows /\ sessions[pairs[n]] = n =>
           \/ pairs[n] \in Rows' /\ sessions'[pairs[n]] = n
           \/ AccountedFor(n)'
  PROVE  AccountedFor(n)'
<1>1. BInv /\ AccountedFor(n) /\ pairs'[n] = pairs[n]
  BY DEF SInv, ServerInv, Grows
<1>2. CASE pairs[n] \in over \cup {NoSession}
  BY <1>1, <1>2 DEF AccountedFor, Grows
<1>3. CASE pairs[n] \in Rows /\ sessions[pairs[n]] = n
  BY <1>1, <1>3 DEF AccountedFor
<1>4. CASE Spent(n) \/ Passed(n)
  BY <1>1, <1>4, SpentStays, PassedStays DEF AccountedFor
<1> QED BY <1>1, <1>2, <1>3, <1>4 DEF AccountedFor

(* Steps that leave the sessions alone. *)
LEMMA QuietKeepsSInv ==
  ASSUME SInv, BInv', UNCHANGED server, Remembers,
         \A d \in Calls : calls'[d].at = "refused" => Stays(d) \/ Excused(d)',
         \A d \in Calls : calls'[d].at = "found" =>
           calls'[d].sid \in Rows \cup ended /\ pairs[calls'[d].ref] = calls'[d].sid
           /\ (calls'[d].sid \in Rows => calls'[d].ref <= sessions[calls'[d].sid])
  PROVE  SInv'
<1>1. Grows /\ Rows' = Rows
  BY DEF Grows, server, Rows
<1>2. \A n \in 1 .. Len(pairs) : AccountedFor(n)'
  BY <1>1, AccountsStay DEF server
<1>3. SignedOutForAReason'
  BY <1>1, ReasonsStay DEF SignedOutForAReason, Calls
<1>4. \A d \in Calls : RefMatches(d)'
  BY <1>1 DEF RefMatches, server
<1> QED BY <1>1, <1>2, <1>3, <1>4
        DEF SInv, ServerInv, OverCovers, PairsHaveSessions, RowsHoldTheirPairs, server, Calls

(* A step of one call: the others are refused for the reasons they had, and *)
(* have found what they had found.                                          *)
LEMMA OneQuiet ==
  ASSUME SInv, BInv', UNCHANGED server, NEW c \in Calls, NEW x, calls' = [calls EXCEPT ![c] = x], Tame(c), CallShape(c)',
         calls'[c].at = "refused" => Excused(c)',
         calls'[c].at = "found" =>
           calls'[c].sid \in Rows \cup ended /\ pairs[calls'[c].ref] = calls'[c].sid
           /\ (calls'[c].sid \in Rows => calls'[c].ref <= sessions[calls'[c].sid])
  PROVE  SInv'
<1>1. BInv
  BY DEF SInv
<1>2. Remembers
  BY <1>1, OneTame, TameRemembers
<1>3. ASSUME NEW d \in Calls, d # c PROVE calls'[d] = calls[d] /\ RefMatches(d) /\ (calls'[d].at = "refused" => Stays(d))
  BY <1>1, <1>3 DEF BInv, EInv, TypeOK, SInv, Stays
<1> QED BY <1>2, <1>3, QuietKeepsSInv DEF RefMatches

LEMMA ClientKeepsSInv ==
  ASSUME SInv, BInv', NEW c \in Calls, Client(c)
  PROVE  SInv'
<1>1. BInv
  BY DEF SInv
<1>2. CASE ~Starts(c)
  <2>1. Tame(c) /\ CallShape(c)' /\ calls'[c].at \in {"settled", "sent"} /\ UNCHANGED server
    BY <1>1, <1>2, ClientTame, ClientMoves
  <2>2. \E x : calls' = [calls EXCEPT ![c] = x]
    BY <1>1, <1>2, ClientMoves
  <2> QED BY <2>1, <2>2, OneQuiet
<1>3. CASE Starts(c)
  <2>1. UNCHANGED server
    BY <1>3 DEF Starts, Unauthorized
  <2>2. Remembers
    BY <1>1, <1>3, StartChanges DEF Remembers
  <2>3. ASSUME NEW d \in Calls, calls'[d].at \in {"refused", "found"}
        PROVE  /\ calls'[d].at = "refused" => Stays(d)
               /\ calls'[d].at = "found" => /\ calls'[d].sid \in Rows \cup ended /\ pairs[calls'[d].ref] = calls'[d].sid
                                            /\ calls'[d].sid \in Rows => calls'[d].ref <= sessions[calls'[d].sid]
    <3>1. d # c
      BY <1>1, <1>3, <2>3, StartChanges
    <3>2. /\ calls'[d].at = calls[d].at /\ calls'[d].tab = calls[d].tab /\ calls'[d].lost = calls[d].lost
          /\ calls'[d].sid = calls[d].sid /\ calls'[d].ref = calls[d].ref /\ calls[d].beside \subseteq calls'[d].beside
      BY <1>1, <1>3, <3>1, StartChanges
    <3> QED BY <3>2 DEF SInv, RefMatches, Stays
  <2> QED BY <2>1, <2>2, <2>3, QuietKeepsSInv
<1> QED BY <1>2, <1>3

LEMMA SendKeepsSInv ==
  ASSUME SInv, BInv', NEW c \in Calls, NEW t \in Tabs, Send(c, t) \/ SendLogin(c, t)
  PROVE  SInv'
<1>1. BInv
  BY DEF SInv
<1>2. /\ UNCHANGED server /\ (\E x : calls' = [calls EXCEPT ![c] = x])
      /\ Tame(c) /\ CallShape(c)' /\ calls'[c].at \in {"sent", "login"}
  BY <1>1, SendTame
<1> QED BY <1>2, OneQuiet

(* The steps of the API that only look, and the answers that are lost. *)
LEMMA LooksKeepSInv ==
  ASSUME SInv, BInv', NEW c \in Calls, Authenticate(c) \/ ValidateUser(c) \/ Lose(c)
  PROVE  SInv'
<1>1. BInv
  BY DEF SInv
<1>2. UNCHANGED server
  BY <1>1, AuthenticateMoves, LoseMoves
<1>3. CASE calls' = [calls EXCEPT ![c] = Over(calls[c])]
  <2>1. calls'[c] = Over(calls[c]) /\ Over(calls[c]).at = "settled"
    BY <1>1, <1>3, CallKnown, OverIs
  <2> QED BY <1>1, <1>2, <1>3, <2>1, IdleTame, OneQuiet
<1>4. ASSUME NEW x, MovesOn(c, x), x.at \in {"denied", "checked", "settled"} \/ (x.at = "refused" /\ x.lost) PROVE SInv'
  <2>1. Tame(c) /\ CallShape(c)' /\ calls'[c] = x /\ calls' = [calls EXCEPT ![c] = x]
    BY <1>1, <1>4, MovesOnTame DEF MovesOn
  <2>2. x.at = "refused" => Excused(c)'
    BY <1>4, <2>1 DEF Excused
  <2> QED BY <1>2, <1>4, <2>1, <2>2, OneQuiet
<1> QED BY <1>1, <1>3, <1>4, AuthenticateMoves, LoseMoves

LEMMA TabKeepsSInv ==
  ASSUME SInv, BInv', NEW t \in Tabs, SignOut(t) \/ Load(t)
  PROVE  SInv'
<1>1. BInv /\ UNCHANGED server
  BY DEF SignOut, Load, SInv
<1>2. ASSUME NEW d \in Calls
      PROVE  /\ Tame(d) /\ (calls'[d].at = "refused" => Stays(d))
             /\ calls'[d].at = "found" => calls[d].at = "found" /\ calls'[d].sid = calls[d].sid
  <2>1. CASE SignOut(t)
    BY <1>1, <2>1, IdleTame DEF SignOut, Stays
  <2>2. CASE Load(t)
    BY <1>1, <2>2, LoadChanges DEF Stays
  <2> QED BY <2>1, <2>2
<1>3. Remembers
  BY <1>2, TameRemembers
<1>4. ASSUME NEW d \in Calls, calls'[d].at = "found"
      PROVE  /\ calls'[d].sid \in Rows \cup ended /\ pairs[calls'[d].ref] = calls'[d].sid
             /\ calls'[d].sid \in Rows => calls'[d].ref <= sessions[calls'[d].sid]
  <2>1. RefMatches(d) /\ calls'[d].ref = calls[d].ref
    BY <1>2, <1>4 DEF SInv, Tame
  <2> QED BY <1>2, <1>4, <2>1 DEF RefMatches
<1> QED BY <1>1, <1>2, <1>3, <1>4, QuietKeepsSInv

(* The calls stay, and the sessions that are left are those there were. *)
LEMMA StillKeepsSInv ==
  ASSUME SInv, BInv', UNCHANGED calls, Grows, ServerInv', \A d \in Calls : RefMatches(d)'
  PROVE  SInv'
<1>1. Remembers /\ \A d \in Calls : calls'[d].at = "refused" => Stays(d)
  BY DEF Remembers, Stays
<1>2. SignedOutForAReason'
  BY <1>1, ReasonsStay DEF SignedOutForAReason, Calls
<1> QED BY <1>2 DEF SInv, Calls

LEMMA DemoKeepsSInv ==
  ASSUME SInv, BInv', NEW t \in Tabs, DemoLogin(t)
  PROVE  SInv'
<1>1. /\ UNCHANGED <<sessions, lapsed, ended, over, calls>> /\ Rows' = Rows /\ Len(pairs') = Len(pairs) + 1
      /\ (\A n \in 1 .. Len(pairs) : pairs'[n] = pairs[n]) /\ pairs'[Len(pairs) + 1] = NoSession
      /\ Len(pairs) \in Nat /\ BInv
  <2>1. BInv /\ TypeOK /\ Len(pairs) \in Nat
    <3>1. BInv
      BY DEF SInv
    <3>2. TypeOK
      BY <3>1 DEF BInv, EInv
    <3> QED BY <3>1, <3>2 DEF TypeOK, ServerTypeOK
  <2>2. UNCHANGED <<sessions, lapsed, ended, over, calls>>
    BY DEF DemoLogin
  <2> QED BY <2>1, <2>2, DemoTypes
<1>2. Grows /\ Remembers
  BY <1>1 DEF Grows, Remembers
<1>3. ASSUME NEW n \in 1 .. Len(pairs) + 1
      PROVE  AccountedFor(n)' /\ pairs'[n] \in Rows' \cup ended' \cup {NoSession}
  <2>1. CASE n = Len(pairs) + 1
    BY <1>1, <2>1 DEF AccountedFor
  <2>2. CASE n \in 1 .. Len(pairs)
    BY <1>1, <1>2, <2>2, AccountsStay DEF SInv, ServerInv, PairsHaveSessions
  <2> QED BY <1>1, <2>1, <2>2
<1>4. RowsHoldTheirPairs'
  <2>1. \A s \in Rows : sessions[s] \in 1 .. Len(pairs)
    BY <1>1 DEF BInv, EInv, TypeOK, ServerTypeOK
  <2> QED BY <1>1, <2>1 DEF SInv, ServerInv, RowsHoldTheirPairs
<1>5. ServerInv'
  BY <1>1, <1>3, <1>4 DEF ServerInv, OverCovers, PairsHaveSessions, SInv
<1>6. ASSUME NEW d \in Calls PROVE RefMatches(d)'
  <2>1. calls[d].at = "found" => calls[d].ref \in 1 .. Len(pairs)
    BY <1>1, RefInPairs, CallKnown DEF CallShape, Refreshing
  <2> QED BY <1>1, <2>1 DEF SInv, RefMatches
<1> QED BY <1>1, <1>2, <1>5, <1>6, StillKeepsSInv

LEMMA DeleteKeepsSInv ==
  ASSUME SInv, BInv', UNCHANGED <<pairs, calls>>, NEW S \in SUBSET Rows, Delete(S)
  PROVE  SInv'
<1>1. Rows' = Rows \ S /\ sessions' = [s \in Rows' |-> sessions[s]] /\ ended' = ended \cup S /\ over' = over \cup S
  BY DEF Delete, Without, Rows
<1>2. Remembers /\ Grows
  BY <1>1 DEF Remembers, Grows
<1>3. ASSUME NEW n \in 1 .. Len(pairs) PROVE AccountedFor(n)'
  <2>1. CASE pairs[n] \in S
    BY <1>1, <2>1 DEF AccountedFor
  <2>2. CASE pairs[n] \notin S
    BY <1>1, <1>2, <2>2, AccountsStay
  <2> QED BY <2>1, <2>2
<1>4. \A d \in Calls : RefMatches(d)'
  BY <1>1 DEF SInv, RefMatches
<1>5. ServerInv'
  BY <1>1, <1>3 DEF SInv, ServerInv, OverCovers, PairsHaveSessions, RowsHoldTheirPairs, Delete
<1> QED BY <1>2, <1>4, <1>5, StillKeepsSInv

(* The lookup of a refresh fails for a reason: its session is over, or there  *)
(* never was one; or its token was exchanged, by another page or at once with *)
(* this call, or it was passed by.                                            *)
LEMMA FindKeepsSInv ==
  ASSUME SInv, BInv', NEW c \in Calls, FindSession(c)
  PROVE  SInv'
<1> DEFINE n == calls[c].ref
<1>1. UNCHANGED server /\ BInv /\ calls[c].at = "refreshing" /\ n # NoToken
  BY CallKnown DEF FindSession, SInv, CallShape, Refreshing
<1>2. n \in 1 .. Len(pairs) /\ Rows' = Rows /\ UNCHANGED <<pairs, ended, over, sessions>>
  BY <1>1, RefInPairs DEF server, Rows
<1>3. ASSUME NEW x, MovesOn(c, x), x.at = "refused" => Excused(c)',
             x.at = "found" => x.sid \in Rows /\ sessions[x.sid] = n
      PROVE  SInv'
  <2>1. /\ Tame(c) /\ CallShape(c)' /\ calls'[c] = x /\ calls' = [calls EXCEPT ![c] = x]
        /\ x.at # "settled" => x.ref = n
    BY <1>1, <1>3, MovesOnTame DEF MovesOn
  <2>2. x.at = "found" => pairs[n] = x.sid /\ x.sid \in Rows /\ n <= sessions[x.sid]
    <3>1. n \in Nat
      BY <1>2
    <3> QED BY <1>3, <3>1 DEF SInv, ServerInv, RowsHoldTheirPairs
  <2> QED BY <1>1, <1>3, <2>1, <2>2, OneQuiet
<1>4. CASE Fail(c)
  <2>1. PICK x : MovesOn(c, x) /\ (x.at = "settled" \/ (x.at = "refused" /\ x.lost))
    BY <1>1, <1>4, FailMoves
  <2>2. calls'[c] = x
    BY <1>1, <2>1, MovesOnTame
  <2> QED BY <1>3, <2>1, <2>2 DEF Excused
<1>5. ASSUME NEW s \in Rows \ lapsed, sessions[s] = n, calls' = [calls EXCEPT ![c].at = "found", ![c].sid = s]
      PROVE  SInv'
  <2>1. PICK x : MovesOn(c, x) /\ x.at = "found" /\ x.sid = s
    BY <1>1, <1>5, FoundMoves
  <2> QED BY <1>3, <1>5, <2>1
<1>6. CASE Reply(c, [calls[c] EXCEPT !.at = "refused"]) /\ \A s \in Rows \ lapsed : sessions[s] # n
  <2>1. PICK x : MovesOn(c, x) /\ x.at \in {"refused", "settled"}
    BY <1>1, <1>6, RefusalMoves
  <2>2. /\ calls'[c] = x /\ Tame(c) /\ CallShape(c)' /\ calls' = [calls EXCEPT ![c] = x]
        /\ x.at # "settled" => x.ref = n /\ x.tab = calls[c].tab /\ x.beside = calls[c].beside
    BY <1>1, <2>1, MovesOnTame DEF MovesOn
  <2>3. Remembers /\ Grows
    BY <1>1, <1>2, <2>2, OneTame, TameRemembers DEF Grows
  <2>4. ASSUME calls'[c].at = "refused" PROVE Excused(c)'
    <3>1. /\ calls[c].tab # NoTab /\ calls'[c].ref = n /\ calls'[c].tab = calls[c].tab
          /\ calls'[c].beside = calls[c].beside
      BY <2>2, <2>4 DEF BInv, EInv, AllWaited, Waited
    <3>2. pairs[n] \in over \cup {NoSession} \/ Spent(n) \/ Passed(n)
      BY <1>2, <1>6 DEF SInv, ServerInv, AccountedFor, OverCovers
    <3>3. CASE pairs[n] \in over \cup {NoSession}
      BY <1>2, <3>1, <3>3 DEF Excused
    <3>4. CASE Spent(n)
      <4>1. PICK d \in Calls : calls[d].ref = n /\ calls[d].new # NoToken
        BY <3>4 DEF Spent
      <4>2. d # c
        BY <1>1, <4>1, CallKnown DEF CallShape
      <4>3. calls[d].tab # calls[c].tab \/ d \in calls[c].beside
        <5>1. Together(c, d)
          BY <1>1 DEF BInv, PageOf
        <5> QED BY <1>1, <3>1, <4>1, <4>2, <5>1 DEF Together, Refreshing
      <4>4. calls'[d] = calls[d]
        BY <1>1, <2>2, <4>2, CallKnown
      <4> QED BY <3>1, <4>1, <4>2, <4>3, <4>4 DEF Excused, Exchanged, Calls
    <3>5. CASE Passed(n)
      <4>1. PICK m \in 1 .. Len(pairs) : m = n
        BY <1>2
      <4>2. Passed(m)
        BY <3>5, <4>1
      <4>3. Passed(m)' /\ calls'[c].ref = m
        BY <1>1, <2>3, <3>1, <4>1, <4>2, PassedStays
      <4> QED BY <4>3 DEF Excused, Overtaken, Passed, Calls
    <3> QED BY <3>2, <3>3, <3>4, <3>5
  <2> QED BY <1>3, <2>1, <2>2, <2>4
<1> QED BY <1>4, <1>5, <1>6 DEF FindSession

(* A pair is issued for a new session, or in exchange for a token that the row *)
(* holds or has held.                                                          *)
LEMMA IssueKeepsSInv ==
  ASSUME SInv, BInv', NEW c \in Calls, NEW x, MovesOn(c, x), NEW s \in 1 .. Len(pairs) + 1, Issue(c, s, NewPair),
         UNCHANGED <<ended, over>>, x.at \in {"opened", "renewed", "settled"},
         s \in Rows => /\ calls[c].ref \in 1 .. Len(pairs) /\ pairs[calls[c].ref] = s
                       /\ calls[c].ref <= sessions[s] /\ x.new = NewPair /\ x.ref = calls[c].ref
  PROVE  SInv'
<1>1. BInv /\ ServerTypeOK /\ Tame(c) /\ CallShape(c)' /\ calls'[c] = x /\ calls' = [calls EXCEPT ![c] = x]
  BY MovesOnTame DEF SInv, BInv, EInv, TypeOK, MovesOn
<1>2. /\ pairs' \in Seq(Nat) /\ Len(pairs') = Len(pairs) + 1 /\ NewPair = Len(pairs) + 1
      /\ \A n \in 1 .. Len(pairs) : pairs'[n] = pairs[n]
      /\ pairs'[Len(pairs) + 1] = s /\ Len(pairs) \in Nat
  <2>1. Len(pairs) \in Nat /\ s \in Nat
    BY <1>1 DEF ServerTypeOK
  <2> QED BY <1>1, <2>1, PairsGrow DEF NewPair
<1>3. /\ Rows' = Rows \cup {s} /\ sessions' = [r \in Rows' |-> IF r = s THEN NewPair ELSE sessions[r]]
      /\ \A r \in Rows : sessions[r] \in 1 .. Len(pairs)
  BY <1>1 DEF Issue, Rows, ServerTypeOK
<1>4. Grows /\ Remembers
  BY <1>1, <1>2, OneTame, TameRemembers DEF Grows
<1>5. ASSUME NEW n \in 1 .. Len(pairs) PROVE AccountedFor(n)'
  <2>1. SUFFICES ASSUME pairs[n] = s, s \in Rows, sessions[s] = n PROVE AccountedFor(n)'
    BY <1>3, <1>4, AccountsStay
  <2>2. calls'[c].ref = calls[c].ref /\ calls'[c].new = NewPair /\ pairs'[n] = s /\ calls[c].ref \in 1 .. n
        /\ pairs'[calls[c].ref] = s
    BY <1>1, <1>2, <2>1
  <2>3. CASE calls[c].ref = n
    BY <1>2, <2>2, <2>3 DEF AccountedFor, Spent, Calls, NoToken
  <2>4. CASE calls[c].ref # n
    <3>1. calls[c].ref \in 1 .. n - 1 /\ n < NewPair
      BY <1>2, <2>2, <2>4
    <3> QED BY <2>2, <3>1 DEF AccountedFor, Passed, Calls
  <2> QED BY <2>3, <2>4
<1>6. ASSUME NEW n, n = Len(pairs) + 1 PROVE AccountedFor(n)'
  BY <1>2, <1>3, <1>6 DEF AccountedFor
<1>7. SignedOutForAReason'
  <2>1. ASSUME NEW d \in Calls, calls'[d].at = "refused" PROVE Stays(d)
    <3>1. d # c
      BY <1>1, <2>1
    <3>2. calls'[d] = calls[d]
      BY <1>1, <3>1, CallKnown
    <3> QED BY <2>1, <3>2 DEF Stays
  <2> QED BY <1>4, <2>1, ReasonsStay DEF SignedOutForAReason, Calls
<1>8. OverCovers'
  BY DEF SInv, ServerInv, OverCovers, Issue
<1>9. PairsHaveSessions'
  <2> SUFFICES ASSUME NEW n \in 1 .. Len(pairs) + 1 PROVE pairs'[n] \in Rows' \cup ended' \cup {NoSession}
    BY <1>2 DEF PairsHaveSessions
  <2>1. CASE n = Len(pairs) + 1
    BY <1>2, <1>3, <2>1
  <2>2. CASE n \in 1 .. Len(pairs)
    BY <1>2, <1>3, <2>2 DEF SInv, ServerInv, PairsHaveSessions
  <2> QED BY <1>2, <2>1, <2>2
<1>10. RowsHoldTheirPairs'
  <2> SUFFICES ASSUME NEW r \in Rows' PROVE pairs'[sessions'[r]] = r
    BY DEF RowsHoldTheirPairs
  <2>1. CASE r = s
    BY <1>2, <1>3, <2>1
  <2>2. CASE r # s
    BY <1>2, <1>3, <2>2 DEF SInv, ServerInv, RowsHoldTheirPairs
  <2> QED BY <2>1, <2>2
<1>11. \A n \in 1 .. Len(pairs') : AccountedFor(n)'
  <2> SUFFICES ASSUME NEW n \in 1 .. Len(pairs) + 1 PROVE AccountedFor(n)'
    BY <1>2
  <2>1. n \in 1 .. Len(pairs) \/ n = Len(pairs) + 1
    BY <1>2
  <2> QED BY <1>5, <1>6, <2>1
<1>12. ASSUME NEW d \in Calls PROVE RefMatches(d)'
  <2> SUFFICES ASSUME calls'[d].at = "found"
               PROVE  /\ calls'[d].sid \in Rows' \cup ended' /\ pairs'[calls'[d].ref] = calls'[d].sid
                      /\ calls'[d].sid \in Rows' => calls'[d].ref <= sessions'[calls'[d].sid]
    BY DEF RefMatches
  <2>1. d # c
    BY <1>1
  <2>2. calls'[d] = calls[d] /\ calls[d].ref \in 1 .. Len(pairs) /\ RefMatches(d)
    <3>1. calls'[d] = calls[d]
      BY <1>1, <2>1, CallKnown
    <3>2. calls[d].ref # NoToken
      BY <1>1, <3>1, CallKnown DEF CallShape, Refreshing
    <3> QED BY <1>1, <3>1, <3>2, RefInPairs DEF SInv
  <2>3. calls[d].sid \in Rows \cup ended /\ pairs'[calls[d].ref] = calls[d].sid
    BY <1>2, <2>2 DEF RefMatches
  <2>4. ASSUME calls[d].sid \in Rows' PROVE calls[d].ref <= sessions'[calls[d].sid]
    <3>1. CASE calls[d].sid = s
      BY <1>2, <1>3, <2>2, <3>1
    <3>2. CASE calls[d].sid # s
      BY <1>3, <2>2, <2>4, <3>2 DEF RefMatches
    <3> QED BY <3>1, <3>2
  <2> QED BY <1>3, <2>2, <2>3, <2>4
<1> QED BY <1>7, <1>8, <1>9, <1>10, <1>11, <1>12 DEF SInv, ServerInv, Calls

LEMMA CreateKeepsSInv ==
  ASSUME SInv, BInv', NEW c \in Calls, CreateSession(c)
  PROVE  SInv'
<1> DEFINE s == Cardinality(Rows \cup ended) + 1
<1>1. Issue(c, s, NewPair) /\ UNCHANGED <<ended, over>> /\ BInv
  BY DEF CreateSession, SInv
<1>2. s \in 1 .. Len(pairs) + 1 /\ s \notin Rows
  BY NewSession DEF SInv, BInv, EInv, TypeOK
<1>3. PICK x : MovesOn(c, x) /\ x.at \in {"opened", "settled"}
  BY <1>1, CreateMoves
<1> HIDE DEF s
<1> QED BY <1>1, <1>2, <1>3, IssueKeepsSInv

LEMMA RotateKeepsSInv ==
  ASSUME SInv, BInv', NEW c \in Calls, RotateToken(c)
  PROVE  SInv'
<1> DEFINE s == calls[c].sid
           n == calls[c].ref
<1>1. BInv /\ calls[c].at = "found" /\ n # NoToken /\ RefMatches(c)
  BY CallKnown DEF RotateToken, SInv, CallShape, Refreshing
<1>2. n \in 1 .. Len(pairs) /\ s \in Rows \cup ended /\ pairs[n] = s /\ (s \in Rows => n <= sessions[s])
  BY <1>1, RefInPairs DEF RefMatches
<1>3. ASSUME UNCHANGED server, NEW x, MovesOn(c, x), x.at = "settled" \/ (x.at = "refused" /\ (x.lost \/ s \notin Rows))
      PROVE  SInv'
  <2>1. /\ Tame(c) /\ CallShape(c)' /\ calls'[c] = x /\ calls' = [calls EXCEPT ![c] = x]
        /\ x.at # "settled" => x.ref = n
    BY <1>1, <1>3, MovesOnTame DEF MovesOn
  <2>2. ASSUME x.at = "refused" PROVE Excused(c)'
    <3>1. CASE x.lost
      BY <2>1, <3>1 DEF Excused
    <3>2. CASE s \notin Rows
      <4>1. pairs'[calls'[c].ref] \in over'
        BY <1>2, <1>3, <2>1, <2>2, <3>2 DEF SInv, ServerInv, OverCovers, server
      <4> QED BY <4>1 DEF Excused
    <3> QED BY <1>3, <2>2, <3>1, <3>2
  <2> QED BY <1>3, <2>1, <2>2, OneQuiet
<1>4. CASE s \in Rows /\ Issue(c, s, NewPair) /\ UNCHANGED <<ended, over>>
           /\ Reply(c, [calls[c] EXCEPT !.at = "renewed", !.new = NewPair])
  <2>1. PICK x : MovesOn(c, x) /\ x.at \in {"renewed", "settled"} /\ x.new = NewPair /\ x.ref = n
    BY <1>1, <1>4, RotateMoves
  <2>2. Rows \subseteq 1 .. Len(pairs) /\ Len(pairs) \in Nat /\ s \in Rows
    BY <1>1, <1>4 DEF BInv, EInv, TypeOK, ServerTypeOK
  <2> HIDE DEF s
  <2>3. s \in 1 .. Len(pairs) + 1
    BY <2>2
  <2> QED BY <1>2, <1>4, <2>1, <2>3, IssueKeepsSInv
<1>5. CASE s \notin Rows /\ Reply(c, [calls[c] EXCEPT !.at = "refused"]) /\ UNCHANGED server
  BY <1>1, <1>3, <1>5, RefusalMoves
<1>6. CASE Fail(c) /\ UNCHANGED server
  BY <1>1, <1>3, <1>6, FailMoves
<1> QED BY <1>4, <1>5, <1>6 DEF RotateToken

LEMMA WorldKeepsSInv ==
  ASSUME SInv, BInv',
         Logout \/ ForgotPassword \/ SessionLapses \/ \E r \in Resets : FindLink(r) \/ ResetPassword(r)
  PROVE  SInv'
<1>1. UNCHANGED <<pairs, calls>>
  BY DEF Logout, ForgotPassword, SessionLapses, FindLink, ResetPassword, Delete, server
<1>2. CASE \E S \in SUBSET Rows : Delete(S)
  BY <1>1, <1>2, DeleteKeepsSInv
<1>3. CASE ForgotPassword \/ \E r \in Resets : FindLink(r)
  <2>1. UNCHANGED server
    BY <1>3 DEF ForgotPassword, FindLink
  <2>2. Remembers /\ \A d \in Calls : calls'[d].at = "refused" => Stays(d)
    BY <1>1 DEF Remembers, Stays
  <2> QED BY <1>1, <2>1, <2>2, QuietKeepsSInv DEF SInv, RefMatches
<1>4. CASE SessionLapses
  <2>1. UNCHANGED <<sessions, ended>> /\ Rows' = Rows
    BY <1>4 DEF SessionLapses, Rows
  <2>2. PICK s \in Rows : lapsed' = lapsed \cup {s} /\ over' = over \cup {s}
    BY <1>4 DEF SessionLapses
  <2>3. Remembers /\ Grows
    BY <1>1, <2>2 DEF Remembers, Grows
  <2>4. \A n \in 1 .. Len(pairs) : AccountedFor(n)'
    BY <1>1, <2>1, <2>3, AccountsStay
  <2>5. \A d \in Calls : RefMatches(d)'
    BY <1>1, <2>1 DEF SInv, RefMatches
  <2>6. ServerInv'
    BY <1>1, <2>1, <2>2, <2>4 DEF SInv, ServerInv, OverCovers, PairsHaveSessions, RowsHoldTheirPairs
  <2> QED BY <1>1, <2>3, <2>5, <2>6, StillKeepsSInv
<1> QED BY <1>2, <1>3, <1>4 DEF Logout, ResetPassword

LEMMA StepKeepsSInv == SInv /\ [Next]_vars => SInv'
<1> SUFFICES ASSUME SInv, [Next]_vars PROVE SInv'
  OBVIOUS
<1>1. BInv'
  BY StepKeepsBInv DEF SInv
<1>2. CASE UNCHANGED vars
  <2>1. UNCHANGED <<server, calls>>
    BY <1>2 DEF vars
  <2>2. Remembers /\ \A d \in Calls : calls'[d].at = "refused" => Stays(d)
    BY <2>1 DEF Remembers, Stays
  <2> QED BY <1>1, <2>1, <2>2, QuietKeepsSInv DEF SInv, RefMatches
<1>3. ASSUME NEW c \in Calls, Client(c) \/ Api(c) \/ Lose(c) PROVE SInv'
  BY <1>1, <1>3, ClientKeepsSInv, LooksKeepSInv, FindKeepsSInv, CreateKeepsSInv, RotateKeepsSInv DEF Api
<1>4. ASSUME NEW c \in Calls, NEW t \in Tabs, Send(c, t) \/ SendLogin(c, t) PROVE SInv'
  BY <1>1, <1>4, SendKeepsSInv
<1>5. ASSUME NEW t \in Tabs, SignOut(t) \/ DemoLogin(t) \/ Load(t) PROVE SInv'
  BY <1>1, <1>5, TabKeepsSInv, DemoKeepsSInv
<1>6. ASSUME Logout \/ ForgotPassword \/ SessionLapses \/ \E r \in Resets : FindLink(r) \/ ResetPassword(r)
      PROVE  SInv'
  BY <1>1, <1>6, WorldKeepsSInv
<1> QED BY <1>2, <1>3, <1>4, <1>5, <1>6 DEF Next

(* A page signs its user out by force only when the database or the network    *)
(* failed its refresh, when the session has ended or lapsed or never was, when *)
(* another page, or a call refreshing at once, has exchanged the token, or     *)
(* when an older refresh has passed the token by: whatever the number of tabs, *)
(* calls, reloads, resets and logouts.                                         *)
THEOREM SignedOut == Spec => []SignedOutForAReason
<1>1. SInv => SignedOutForAReason
  BY DEF SInv
<1> QED BY <1>1, InitBInv, InitSInv, StepKeepsSInv, PTL DEF Spec
=============================================================================
