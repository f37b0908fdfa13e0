--------------------------------- MODULE Chat ---------------------------------
(***************************************************************************)
(* A chat about which three parties keep different records: the chat page  *)
(* the messages it shows, ChatService the rows of the conversation, and    *)
(* the DAX engine the runs that it was asked to make.                      *)
(*                                                                         *)
(* The page shows a question before it is sent, sends it to a conversation *)
(* that it may have to create first, retries a direct provider that failed *)
(* with DAX, and appends the reply to whatever it shows by then.  Opening  *)
(* a conversation loads its messages; a load is not called off when the    *)
(* user moves on.                                                          *)
(*                                                                         *)
(* The API stores the question, finds a reply and stores it.  A reply      *)
(* through DAX is waited for as long as a window allows; then, or when the *)
(* run needs an approval, the reply links to the run.                      *)
(*                                                                         *)
(* Messages are the number of their question and who said them.            *)
(***************************************************************************)
EXTENDS Naturals, Sequences, SequencesExt

CONSTANTS Convs,        \* the conversations that may come to be
          MaxSends,     \* how many questions the user asks
          MaxLoads,     \* how many times messages are loaded
          Take,         \* how many messages a load returns, the oldest first (100)
          MaxFailures   \* how many requests fail or stay without an answer

ASSUME BoundsAssumption == MaxSends \in Nat /\ MaxLoads \in Nat /\ Take \in Nat /\ MaxFailures \in Nat

NoConv == "none"
Questions == 1 .. MaxSends
(* The requests of a question: the first, and the retry in DAX mode. *)
Requests == Questions \X {1, 2}
Running == {"running", "waiting_approval"}

VARIABLES
  rows,       \* the messages of each conversation, in the order of creation
  made,       \* the conversations that were created
  reqs,       \* what the API is at for each request
  runs,       \* the DAX run of each request
  active,     \* activeConversationId of the page
  shown,      \* the messages on the page
  loads,      \* the loads of the page: their conversation and what was read
  booting,    \* isBootstrapping
  send,       \* the question that the page sends, and the request it waits for
  provider,   \* activeProvider
  slip,       \* history: what has set the page and the conversation apart, if anything
  failures

server == <<rows, made, reqs, runs>>
page == <<active, shown, loads, booting, send, provider, slip>>
vars == <<server, page, failures>>

NotSending == [at |-> "idle", q |-> 0, try |-> 1]
Unsent == [at |-> "none", conv |-> NoConv, via |-> "dax", reply |-> "none", unread |-> FALSE]
User(q, temp) == [who |-> "user", q |-> q, temp |-> temp]
Assistant(q)  == [who |-> "assistant", q |-> q, temp |-> FALSE]

Init ==
  /\ rows = [c \in Convs |-> << >>] /\ made \in SUBSET Convs
  /\ reqs = [r \in Requests |-> Unsent] /\ runs = [r \in Requests |-> "none"]
  /\ active = NoConv /\ shown = << >> /\ loads = << >> /\ booting = FALSE
  /\ send = NotSending /\ provider \in {"dax", "direct"} /\ slip = "none"
  /\ failures = 0

Fails == failures < MaxFailures /\ failures' = failures + 1
Under == {"sent", "stored", "waiting", "replying"}     \* a request under way
Awaited == <<send.q, send.try>>

-----------------------------------------------------------------------------
(* The page: what it loads. *)

(* The effect of activeConversationId. *)
Opens(c) ==
  /\ Len(loads) < MaxLoads
  /\ active' = c /\ booting' = TRUE
  /\ loads' = Append(loads, [conv |-> c, at |-> "asked", got |-> << >>])

(* The user opens a conversation, or a new chat. *)
Move(c) ==
  /\ c # active
  /\ \/ c \in made /\ Opens(c) /\ UNCHANGED shown
     \/ c = NoConv /\ active' = c /\ shown' = << >> /\ UNCHANGED <<loads, booting>>
  /\ slip' = IF send = NotSending THEN slip ELSE "moved"
  /\ UNCHANGED <<server, send, provider, failures>>

First(ms) == SubSeq(ms, 1, IF Len(ms) < Take THEN Len(ms) ELSE Take)

(* findConversation: the first messages, the oldest first. *)
LoadRead(l) ==
  /\ loads[l].at = "asked"
  /\ loads' = [loads EXCEPT ![l].at = "read", ![l].got = First(rows[loads[l].conv])]
  /\ UNCHANGED <<server, active, shown, booting, send, provider, slip, failures>>

Done(l) == loads' = [loads EXCEPT ![l].at = "done", ![l].got = << >>] /\ booting' = FALSE

(* A sequence of messages ends with a question, shown or stored. *)
EndsWith(ms, q) == ms # << >> /\ Last(ms) \in {User(q, TRUE), User(q, FALSE)}

(* A load holds all of the conversation that is open, but for the question   *)
(* that the page waits to see answered: that one it may have missed.         *)
UpToDate(l) ==
  LET ms == rows[active]  got == loads[l].got IN
  /\ active = loads[l].conv
  /\ \A r \in Requests : reqs[r].at \in Under => send.at = "posted" /\ r = Awaited
  /\ \/ send = NotSending /\ got = ms
     \/ /\ send.at = "posted" /\ reqs[Awaited].conv = active
        /\ \/ reqs[Awaited].at \in {"sent", "failed"} /\ got = ms
           \/ reqs[Awaited].at # "answered" /\ EndsWith(ms, send.q) /\ got \in {ms, Front(ms)}

(* The messages replace those on the page, whatever was opened since. *)
LoadAnswered(l) ==
  /\ loads[l].at = "read"
  /\ shown' = loads[l].got /\ Done(l)
  /\ slip' = IF UpToDate(l) THEN "none" ELSE "stale"
  /\ UNCHANGED <<server, active, send, provider, failures>>

(* The page keeps what it shows, be it of the conversation that was open before. *)
LoadFails(l) ==
  /\ loads[l].at = "asked" /\ Fails
  /\ Done(l) /\ slip' = "unloaded"
  /\ UNCHANGED <<server, active, shown, send, provider>>

-----------------------------------------------------------------------------
(* The page: what it sends. *)

Post(r, c, via) == reqs' = [reqs EXCEPT ![r] = [Unsent EXCEPT !.at = "sent", !.conv = c, !.via = via]]

(* handleSend: the question is shown at once, and posted when there is a conversation. *)
Send(q) ==
  /\ send = NotSending /\ ~booting /\ \A p \in Questions : reqs[<<p, 1>>].at # "none" <=> p < q
  /\ shown' = Append(shown, User(q, TRUE))
  /\ send' = [at |-> IF active = NoConv THEN "opening" ELSE "posted", q |-> q, try |-> 1]
  /\ IF active = NoConv THEN Convs \ made # {} /\ UNCHANGED reqs
     ELSE Post(<<q, 1>>, active, provider)
  /\ UNCHANGED <<rows, made, runs, active, loads, booting, provider, slip, failures>>

(* The conversation was created: the page opens it, which loads it, and posts. *)
Created(c) ==
  /\ send.at = "opening" /\ c \in Convs \ made
  /\ made' = made \cup {c}
  /\ Opens(c)
  /\ Post(Awaited, c, provider)
  /\ send' = [send EXCEPT !.at = "posted"]
  /\ UNCHANGED <<rows, runs, shown, provider, slip, failures>>

(* createConversation fails: the question stays on a page without a conversation. *)
CreateFails ==
  /\ send.at = "opening" /\ Fails
  /\ reqs' = [reqs EXCEPT ![Awaited].at = "failed"]
  /\ send' = NotSending
  /\ UNCHANGED <<rows, made, runs, active, shown, loads, booting, provider, slip>>

(* Mutation: the reply alone is appended; the question is shown already. *)
ReplyArrivesAlone ==
  /\ send.at = "posted" /\ reqs[Awaited].at = "answered"
  /\ shown' = Append(shown, Assistant(send.q))
  /\ provider' = IF send.try = 2 THEN "dax" ELSE provider
  /\ send' = NotSending
  /\ UNCHANGED <<server, active, loads, booting, slip, failures>>

(* The reply is appended to whatever the page shows by now; the question, *)
(* which is there once or not at all, moves to its end.                  *)
ReplyArrives ==
  /\ send.at = "posted" /\ reqs[Awaited].at = "answered"
  /\ shown' = RemoveFirst(shown, User(send.q, TRUE)) \o <<User(send.q, TRUE), Assistant(send.q)>>
  /\ provider' = IF send.try = 2 THEN "dax" ELSE provider
  /\ send' = NotSending
  /\ UNCHANGED <<server, active, loads, booting, slip, failures>>

(* The request failed, or its answer is lost: a direct provider is retried *)
(* with DAX, else the question stays on the page without a reply.          *)
SendFails ==
  LET r == Awaited  answerLost == reqs[r].at # "failed" IN
  /\ send.at = "posted"
  /\ IF answerLost THEN Fails ELSE UNCHANGED failures
  /\ IF reqs[r].via = "direct"
     THEN /\ Post(<<send.q, 2>>, reqs[r].conv, "dax") /\ send' = [send EXCEPT !.try = 2]
          /\ slip' = IF answerLost THEN "lost" ELSE slip
     ELSE /\ send' = NotSending /\ UNCHANGED reqs
          /\ slip' = IF ~answerLost /\ EndsWith(shown, send.q) /\ EndsWith(rows[reqs[r].conv], send.q)
                     THEN slip ELSE "lost"
  /\ UNCHANGED <<rows, made, runs, active, shown, loads, booting, provider>>

-----------------------------------------------------------------------------
(* The API: sendMessage. *)

Replies(r, how) == reqs' = [reqs EXCEPT ![r].at = "replying", ![r].reply = how]
Gives(r, unread) == reqs' = [reqs EXCEPT ![r].at = "failed", ![r].unread = unread]

StoreQuestion(r) ==
  /\ reqs[r].at = "sent"
  /\ \/ /\ rows' = [rows EXCEPT ![reqs[r].conv] = Append(@, User(r[1], FALSE))]
        /\ reqs' = [reqs EXCEPT ![r].at = "stored"] /\ UNCHANGED failures
     \/ Gives(r, FALSE) /\ Fails /\ UNCHANGED rows
  /\ UNCHANGED <<made, runs, page>>

(* A greeting is answered by itself, a direct provider answers, what the      *)
(* policies hand off becomes a run, and DAX is given a run to answer with.    *)
FindReply(r) ==
  /\ reqs[r].at = "stored"
  /\ \/ Replies(r, "text") /\ UNCHANGED <<runs, failures>>
     \/ Replies(r, "link") /\ runs' = [runs EXCEPT ![r] = "running"] /\ UNCHANGED failures
     \/ /\ reqs[r].via = "dax"
        /\ reqs' = [reqs EXCEPT ![r].at = "waiting"]
        /\ runs' = [runs EXCEPT ![r] = "running"] /\ UNCHANGED failures
     \/ Gives(r, FALSE) /\ Fails /\ UNCHANGED runs
     \/ Gives(r, TRUE) /\ Fails /\ runs' = [runs EXCEPT ![r] = "running"]
  /\ UNCHANGED <<rows, made, page>>

(* Mutation: a run that has paused counts as one that is over. *)
PollHasty(r) ==
  /\ reqs[r].at = "waiting"
  /\ \/ runs[r] \in {"completed", "waiting_approval"} /\ Replies(r, "text") /\ UNCHANGED failures
     \/ runs[r] = "failed" /\ Gives(r, FALSE) /\ UNCHANGED failures
     \/ runs[r] = "running" /\ (Replies(r, "link") \/ Replies(r, "kept")) /\ UNCHANGED failures
     \/ Gives(r, TRUE) /\ Fails
  /\ UNCHANGED <<rows, made, runs, page>>

(* waitForDaxTerminal and what callDaxAssistant makes of it: the outcome of   *)
(* a run that completed, a link to one that needs an approval or that goes on *)
(* after the window, unless the question reads as conversation.               *)
Poll(r) ==
  /\ reqs[r].at = "waiting"
  /\ \/ runs[r] = "completed" /\ Replies(r, "text") /\ UNCHANGED failures
     \/ runs[r] = "failed" /\ Gives(r, FALSE) /\ UNCHANGED failures
     \/ runs[r] = "waiting_approval" /\ Replies(r, "link") /\ UNCHANGED failures
     \/ runs[r] = "running" /\ (Replies(r, "link") \/ Replies(r, "kept")) /\ UNCHANGED failures
     \/ Gives(r, TRUE) /\ Fails
  /\ UNCHANGED <<rows, made, runs, page>>

(* A reply that cannot be stored is lost, and with it the link to a run. *)
StoreReply(r) ==
  /\ reqs[r].at = "replying"
  /\ \/ /\ rows' = [rows EXCEPT ![reqs[r].conv] = Append(@, Assistant(r[1]))]
        /\ reqs' = [reqs EXCEPT ![r].at = "answered"] /\ UNCHANGED failures
     \/ Gives(r, FALSE) /\ Fails /\ UNCHANGED rows
  /\ UNCHANGED <<made, runs, page>>

(* The engine, while a request waits for the run: no record of the chat *)
(* depends on what the run does later.                                 *)
RunMoves(r) ==
  /\ reqs[r].at = "waiting"
  /\ \/ runs[r] = "running" /\ \E s \in {"waiting_approval", "completed", "failed"} : runs' = [runs EXCEPT ![r] = s]
     \/ runs[r] = "waiting_approval" /\ \E s \in {"running", "failed"} : runs' = [runs EXCEPT ![r] = s]
  /\ UNCHANGED <<rows, made, reqs, page, failures>>

-----------------------------------------------------------------------------
Next ==
  \/ \E c \in Convs \cup {NoConv} : Move(c)
  \/ \E c \in Convs : Created(c)
  \/ \E l \in DOMAIN loads : LoadRead(l) \/ LoadAnswered(l) \/ LoadFails(l)
  \/ \E q \in Questions : Send(q)
  \/ ReplyArrives \/ SendFails \/ CreateFails
  \/ \E r \in Requests : StoreQuestion(r) \/ FindReply(r) \/ Poll(r) \/ StoreReply(r) \/ RunMoves(r)

Spec == Init /\ [][Next]_vars

-----------------------------------------------------------------------------
(* Types. *)
Messages == [who : {"user", "assistant"}, q : Questions, temp : BOOLEAN]
Slips == {"none", "moved", "stale", "unloaded", "lost"}
TypeOK ==
  /\ rows \in [Convs -> Seq(Messages)] /\ made \subseteq Convs
  /\ reqs \in [Requests -> [at : Under \cup {"none", "answered", "failed"}, conv : Convs \cup {NoConv},
                            via : {"dax", "direct"},
                            reply : {"none", "text", "link", "kept"}, unread : BOOLEAN]]
  /\ runs \in [Requests -> Running \cup {"none", "completed", "failed"}]
  /\ active \in Convs \cup {NoConv} /\ shown \in Seq(Messages) /\ booting \in BOOLEAN
  /\ loads \in Seq([conv : Convs, at : {"asked", "read", "done"}, got : Seq(Messages)])
  /\ send \in [at : {"idle", "opening", "posted"}, q : Questions \cup {0}, try : {1, 2}]
  /\ provider \in {"dax", "direct"} /\ slip \in Slips /\ failures \in 0 .. MaxFailures

Says(m) == <<m.who, m.q>>
(* The place of a message: how often, up to it, something else is said than   *)
(* just before.  What is said, each in its place, says who has said what in   *)
(* which order, and a thing that is said again at once only once.             *)
Place(ms, i) == Cardinality({h \in 2 .. i : Says(ms[h]) # Says(ms[h - 1])})
Said(ms) == {<<Place(ms, i), Says(ms[i])>> : i \in DOMAIN ms}
Quiet == /\ send = NotSending /\ active # NoConv
         /\ \A l \in DOMAIN loads : loads[l].at = "done"
         /\ \A r \in Requests : reqs[r].at \notin Under

(* When nothing is under way, the page shows the messages of the conversation *)
(* that is open, in their order, with a question that was retried shown once  *)
(* (handleSend against loadConversation); unless since the last load that was *)
(* up to date one of these has happened:                                      *)
(*   moved     the user has opened another conversation while a question was  *)
(*             being sent: the reply is appended there;                       *)
(*   stale     a load was answered that is not of the open conversation, is   *)
(*             cut at Take messages, lacks messages that were stored after it *)
(*             was read, or holds the reply that the page still waits for;    *)
(*   unloaded  a load failed: the messages of the conversation that was open  *)
(*             before stay on the page;                                       *)
(*   lost      the answer to a request was lost, so that a question is stored *)
(*             again by its retry or answered unseen; or a request has failed *)
(*             whose question is not both shown and stored.                   *)
PageShowsConversation == Quiet /\ slip = "none" => Said(shown) = Said(rows[active])

(* Whatever overlaps, fails or is lost, a reply on the page stands after its  *)
(* question, although a load may have taken that question from the page, and  *)
(* is stored in the conversation to which a request has sent the question.    *)
RepliesFollowQuestions ==
  \A i \in DOMAIN shown : shown[i].who = "assistant" =>
    /\ \E h \in 1 .. (i - 1) : Says(shown[h]) = <<"user", shown[i].q>>
    /\ \E r \in Requests : /\ r[1] = shown[i].q /\ reqs[r].at = "answered"
                           /\ shown[i] \in Range(rows[reqs[r].conv])

(* A reply that gives the outcome of a run gives that of a completed one.  A  *)
(* run that goes on when its request is over is linked in the conversation,   *)
(* unless the question reads as conversation, the engine gave no answer, or   *)
(* the reply could not be stored.                                             *)
RunsAreAccountedFor ==
  \A r \in Requests :
    /\ reqs[r].reply = "text" /\ runs[r] # "none" => runs[r] = "completed"
    /\ runs[r] \in Running /\ reqs[r].at \in {"answered", "failed"} =>
         \/ reqs[r].reply = "link" /\ Assistant(r[1]) \in Range(rows[reqs[r].conv])
         \/ reqs[r].reply = "kept"
         \/ reqs[r].unread
         \/ reqs[r].at = "failed" /\ reqs[r].reply # "none"
=============================================================================
