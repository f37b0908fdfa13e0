----------------------------- MODULE ChatProofs -----------------------------
(***************************************************************************)
(* Proofs about Chat, for any conversations and any number of questions,   *)
(* loads and failures: what a conversation says of the runs that its       *)
(* requests have made is true, the page shows what the conversation holds, *)
(* and its replies stand after their questions.  The first inductive       *)
(* invariant (IInv) says, of every request, what has become of its run by  *)
(* the time it is there; the second (ShowInv) how far page and             *)
(* conversation may be apart meanwhile, as long as nothing has set them    *)
(* apart; the third (FollowInv) what is true of replies in any case.       *)
(***************************************************************************)
EXTENDS Chat, WellFoundedInduction, FiniteSetTheorems, SequenceTheorems, TLAPS

(* What the page and the API need of their types for that. *)
States == Under \cup {"none", "answered", "failed"}
ReqType == [at : States, conv : Convs \cup {NoConv}, via : {"dax", "direct"},
            reply : {"none", "text", "link", "kept"}, unread : BOOLEAN]
Typed ==
  /\ rows \in [Convs -> Seq(Messages)] /\ made \subseteq Convs
  /\ reqs \in [Requests -> ReqType]
  /\ runs \in [Requests -> Running \cup {"none", "completed", "failed"}]
  /\ active \in Convs \cup {NoConv} /\ provider \in {"dax", "direct"}
  /\ send \in [at : {"idle", "opening", "posted"}, q : Questions \cup {0}, try : {1, 2}]

(* A request has a run when it may have asked for one, and a reply when it   *)
(* has found one; and what it then says of the run is true.                  *)
RequestInv(r) ==
  /\ reqs[r].at \notin {"none", "failed"} => reqs[r].conv \in Convs
  /\ reqs[r].at \in {"none", "sent", "stored"} => runs[r] = "none"
  /\ reqs[r].at \in {"none", "sent", "stored", "waiting"} => reqs[r].reply = "none"
  /\ reqs[r].at \in {"replying", "answered"} =>
       \/ reqs[r].reply = "text" /\ runs[r] \in {"none", "completed"}
       \/ reqs[r].reply \in {"link", "kept"}
  /\ reqs[r].at = "failed" => /\ reqs[r].reply = "none" /\ runs[r] \in Running => reqs[r].unread
                              /\ reqs[r].reply = "text" => runs[r] \in {"none", "completed"}
  /\ reqs[r].at = "answered" => Assistant(r[1]) \in Range(rows[reqs[r].conv])

(* A question is sent once, and tried again once at most.                    *)
SendInv ==
  /\ send.at # "idle" => send.q \in Questions
  /\ send.at = "opening" => send.try = 1 /\ reqs[<<send.q, 1>>].at = "none"
  /\ send.at = "posted" => reqs[Awaited].at # "none" /\ reqs[Awaited].conv \in Convs
  /\ \A q \in Questions : reqs[<<q, 2>>].at # "none" =>
       /\ reqs[<<q, 2>>].via = "dax"
       /\ reqs[<<q, 1>>].at # "none"
       /\ send.at = "posted" /\ send.q = q => send.try = 2

IInv == Typed /\ SendInv /\ \A r \in Requests : RequestInv(r)

-----------------------------------------------------------------------------
(* What a message that is stored changes. *)

(* The rows of a conversation keep what was said when more is (createMessage). *)
LEMMA RowsGrow ==
  ASSUME Typed, NEW c \in Convs, NEW m \in Messages,
         rows' = [rows EXCEPT ![c] = Append(@, m)]
  PROVE  /\ rows' \in [Convs -> Seq(Messages)]
         /\ \A d \in Convs : Range(rows[d]) \subseteq Range(rows'[d])
         /\ m \in Range(rows'[c])
<1>1. \A d \in Convs : rows[d] \in Seq(Messages)
  BY DEF Typed
<1>2. rows'[c] = Append(rows[c], m) /\ \A d \in Convs \ {c} : rows'[d] = rows[d]
  BY DEF Typed
<1>3. /\ Len(rows'[c]) = Len(rows[c]) + 1
      /\ rows'[c][Len(rows[c]) + 1] = m
      /\ \A i \in 1..Len(rows[c]) : rows'[c][i] = rows[c][i]
  BY <1>1, <1>2
<1>4. Range(rows[c]) \subseteq Range(rows'[c]) /\ m \in Range(rows'[c])
  BY <1>1, <1>2, <1>3 DEF Range
<1> QED BY <1>2, <1>4 DEF Typed

(* A request is one of those of a question. *)
LEMMA RequestsOf ==
  /\ \A q \in Questions : <<q, 1>> \in Requests /\ <<q, 2>> \in Requests
  /\ \A r \in Requests : r = <<r[1], r[2]>> /\ r[1] \in Questions /\ r[2] \in {1, 2}
BY DEF Requests

(* A step of a request that leaves the others, the page and the messages     *)
(* alone.                                                                    *)
LEMMA OthersSame ==
  ASSUME IInv, NEW r \in Requests, NEW rec \in ReqType, NEW run \in Running \cup {"none", "completed", "failed"},
         reqs' = [reqs EXCEPT ![r] = rec], runs' = [runs EXCEPT ![r] = run],
         rec.at # "none", reqs[r].at # "none", rec.via = reqs[r].via, rec.conv = reqs[r].conv,
         UNCHANGED <<rows, made, page>>, RequestInv(r)'
  PROVE  IInv'
<1> USE DEF IInv
<1>1. /\ reqs'[r] = rec /\ \A o \in Requests \ {r} : reqs'[o] = reqs[o] /\ runs'[o] = runs[o]
      /\ \A o \in Requests : /\ (reqs'[o].at = "none") = (reqs[o].at = "none")
                              /\ reqs'[o].via = reqs[o].via /\ reqs'[o].conv = reqs[o].conv
  BY DEF Typed
<1>2. Typed'
  BY DEF Typed, page
<1>3. SendInv'
  BY <1>1, RequestsOf DEF SendInv, Awaited, page, Typed
<1>4. \A o \in Requests \ {r} : RequestInv(o)'
  BY <1>1 DEF RequestInv
<1> QED BY <1>2, <1>3, <1>4

-----------------------------------------------------------------------------
(* The steps of the API and of the engine. *)

(* A reply is found, or will not be: what is then said of the run is true.   *)
LEMMA FoundKeeps ==
  ASSUME IInv, NEW r \in Requests, NEW rec \in ReqType, NEW run \in Running \cup {"none", "completed", "failed"},
         reqs' = [reqs EXCEPT ![r] = rec], runs' = [runs EXCEPT ![r] = run],
         reqs[r].at \in {"sent", "stored", "waiting"}, rec.via = reqs[r].via, rec.conv = reqs[r].conv,
         \/ rec.at = "replying" /\ rec.reply = "text" /\ run \in {"none", "completed"}
         \/ rec.at = "replying" /\ rec.reply \in {"link", "kept"}
         \/ rec.at = "waiting" /\ rec.reply = "none"
         \/ rec.at = "failed" /\ rec.reply = "none" /\ (run \notin Running \/ rec.unread),
         UNCHANGED <<rows, made, page>>
  PROVE  IInv'
<1>1. reqs'[r] = rec /\ runs'[r] = run /\ reqs[r].conv \in Convs
  BY DEF IInv, Typed, RequestInv
<1>2. RequestInv(r)'
  BY <1>1 DEF RequestInv
<1> QED BY <1>2, OthersSame

LEMMA FindReplyKeeps ==
  ASSUME IInv, NEW r \in Requests, FindReply(r) PROVE IInv'
<1>1. /\ reqs[r] \in ReqType /\ reqs[r].at = "stored" /\ runs[r] = "none" /\ reqs[r].reply = "none"
      /\ UNCHANGED <<rows, made, page>>
  BY DEF IInv, FindReply, RequestInv, Typed
<1>2. UNCHANGED runs => runs' = [runs EXCEPT ![r] = "none"]
  BY <1>1 DEF IInv, Typed
<1>3. ASSUME NEW how \in {"text", "link"}, Replies(r, how),
             runs' = [runs EXCEPT ![r] = IF how = "text" THEN "none" ELSE "running"]
      PROVE  IInv'
  <2> DEFINE rec == [reqs[r] EXCEPT !.at = "replying", !.reply = how]
  <2>1. reqs' = [reqs EXCEPT ![r] = rec]
    BY <1>3 DEF Replies, IInv, Typed, ReqType
  <2>2. /\ rec \in ReqType /\ rec.via = reqs[r].via /\ rec.conv = reqs[r].conv
        /\ rec.at = "replying" /\ rec.reply = how
    BY <1>1 DEF ReqType, States, Under
  <2> HIDE DEF rec
  <2>3. CASE how = "text"
    BY <1>1, <1>3, <2>1, <2>2, <2>3, FoundKeeps DEF Running
  <2>4. CASE how = "link"
    BY <1>1, <1>3, <2>1, <2>2, <2>4, FoundKeeps DEF Running
  <2> QED BY <2>3, <2>4
<1>4. ASSUME reqs' = [reqs EXCEPT ![r].at = "waiting"], runs' = [runs EXCEPT ![r] = "running"]
      PROVE  IInv'
  <2> DEFINE rec == [reqs[r] EXCEPT !.at = "waiting"]
  <2>1. reqs' = [reqs EXCEPT ![r] = rec]
    BY <1>4 DEF IInv, Typed, ReqType
  <2>2. /\ rec \in ReqType /\ rec.via = reqs[r].via /\ rec.conv = reqs[r].conv
        /\ rec.at = "waiting" /\ rec.reply = "none"
    BY <1>1 DEF ReqType, States, Under
  <2> HIDE DEF rec
  <2> QED BY <1>1, <1>4, <2>1, <2>2, FoundKeeps DEF Running
<1>5. ASSUME NEW unread \in BOOLEAN, Gives(r, unread),
             runs' = [runs EXCEPT ![r] = IF unread THEN "running" ELSE "none"]
      PROVE  IInv'
  <2> DEFINE rec == [reqs[r] EXCEPT !.at = "failed", !.unread = unread]
  <2>1. reqs' = [reqs EXCEPT ![r] = rec]
    BY <1>5 DEF Gives, IInv, Typed, ReqType
  <2>2. /\ rec \in ReqType /\ rec.via = reqs[r].via /\ rec.conv = reqs[r].conv
        /\ rec.at = "failed" /\ rec.reply = "none" /\ rec.unread = unread
    BY <1>1 DEF ReqType, States, Under
  <2> HIDE DEF rec
  <2>3. CASE unread = TRUE
    BY <1>1, <1>5, <2>1, <2>2, <2>3, FoundKeeps DEF Running
  <2>4. CASE unread = FALSE
    BY <1>1, <1>5, <2>1, <2>2, <2>4, FoundKeeps DEF Running
  <2> QED BY <2>3, <2>4
<1> QED BY <1>2, <1>3, <1>4, <1>5 DEF FindReply

LEMMA PollKeeps ==
  ASSUME IInv, NEW r \in Requests, Poll(r) PROVE IInv'
<1>1. /\ reqs[r] \in ReqType /\ reqs[r].at = "waiting" /\ reqs[r].reply = "none"
      /\ runs[r] \in Running \cup {"none", "completed", "failed"}
      /\ runs' = [runs EXCEPT ![r] = runs[r]] /\ UNCHANGED <<rows, made, page>>
  BY DEF IInv, Poll, RequestInv, Typed
<1>2. ASSUME NEW how \in {"text", "link", "kept"}, Replies(r, how), how = "text" => runs[r] = "completed"
      PROVE  IInv'
  <2> DEFINE rec == [reqs[r] EXCEPT !.at = "replying", !.reply = how]
  <2>1. reqs' = [reqs EXCEPT ![r] = rec]
    BY <1>2 DEF Replies, IInv, Typed, ReqType
  <2>2. /\ rec \in ReqType /\ rec.via = reqs[r].via /\ rec.conv = reqs[r].conv
        /\ rec.at = "replying" /\ rec.reply = how
    BY <1>1 DEF ReqType, States, Under
  <2> HIDE DEF rec
  <2> QED BY <1>1, <1>2, <2>1, <2>2, FoundKeeps
<1>3. ASSUME NEW unread \in BOOLEAN, Gives(r, unread), runs[r] = "failed" \/ unread = TRUE
      PROVE  IInv'
  <2> DEFINE rec == [reqs[r] EXCEPT !.at = "failed", !.unread = unread]
  <2>1. reqs' = [reqs EXCEPT ![r] = rec]
    BY <1>3 DEF Gives, IInv, Typed, ReqType
  <2>2. /\ rec \in ReqType /\ rec.via = reqs[r].via /\ rec.conv = reqs[r].conv
        /\ rec.at = "failed" /\ rec.reply = "none" /\ rec.unread = unread
    BY <1>1 DEF ReqType, States, Under
  <2> HIDE DEF rec
  <2>3. runs[r] \notin Running \/ rec.unread
    BY <1>3, <2>2 DEF Running
  <2> QED BY <1>1, <2>1, <2>2, <2>3, FoundKeeps
<1> QED BY <1>2, <1>3 DEF Poll

LEMMA RunMovesKeeps ==
  ASSUME IInv, NEW r \in Requests, RunMoves(r) PROVE IInv'
<1> USE DEF IInv
<1>1. PICK run \in Running \cup {"none", "completed", "failed"} : runs' = [runs EXCEPT ![r] = run]
  BY DEF RunMoves, Running
<1>2. reqs[r] \in ReqType /\ reqs[r].at = "waiting" /\ reqs' = [reqs EXCEPT ![r] = reqs[r]]
  BY DEF RunMoves, Typed
<1>3. RequestInv(r)'
  BY <1>1, <1>2 DEF RunMoves, RequestInv, Typed
<1> QED BY <1>1, <1>2, <1>3, OthersSame DEF RunMoves

(* The question and the reply are stored; what the others have stored stays. *)
LEMMA StoredKeeps ==
  ASSUME IInv, NEW r \in Requests, NEW m \in Messages, NEW at \in {"stored", "answered"},
         rows' = [rows EXCEPT ![reqs[r].conv] = Append(@, m)],
         reqs' = [reqs EXCEPT ![r].at = at],
         reqs[r].at = IF at = "stored" THEN "sent" ELSE "replying",
         at = "answered" => m = Assistant(r[1]),
         UNCHANGED <<made, runs, page>>
  PROVE  IInv'
<1> USE DEF IInv
<1>1. reqs[r] \in ReqType /\ reqs[r].at \in {"sent", "replying"} /\ reqs[r].conv \in Convs
  BY DEF RequestInv, Typed
<1>3. /\ rows' \in [Convs -> Seq(Messages)]
      /\ \A d \in Convs : Range(rows[d]) \subseteq Range(rows'[d])
      /\ m \in Range(rows'[reqs[r].conv])
  BY <1>1, RowsGrow
<1>4. /\ reqs'[r] = [reqs[r] EXCEPT !.at = at] /\ reqs'[r] \in ReqType
      /\ \A o \in Requests \ {r} : reqs'[o] = reqs[o]
      /\ reqs' \in [Requests -> ReqType]
  BY <1>1 DEF Typed, ReqType, States, Under
<1>5. \A o \in Requests : /\ (reqs'[o].at = "none") = (reqs[o].at = "none")
                          /\ reqs'[o].via = reqs[o].via /\ reqs'[o].conv = reqs[o].conv
  BY <1>1, <1>4 DEF ReqType
<1>6. Typed'
  BY <1>3, <1>4 DEF Typed, page
<1>7. SendInv'
  BY <1>5, RequestsOf DEF SendInv, Awaited, page, Typed
<1>8. RequestInv(r)'
  BY <1>1, <1>3, <1>4 DEF RequestInv, ReqType
<1>9. \A o \in Requests \ {r} : RequestInv(o)'
  BY <1>3, <1>4 DEF RequestInv
<1> QED BY <1>6, <1>7, <1>8, <1>9

(* A message that cannot be stored fails the request. *)
LEMMA UnstoredKeeps ==
  ASSUME IInv, NEW r \in Requests, reqs[r].at \in {"sent", "replying"}, Gives(r, FALSE),
         UNCHANGED <<rows, made, runs, page>>
  PROVE  IInv'
<1> DEFINE rec == [reqs[r] EXCEPT !.at = "failed", !.unread = FALSE]
<1>1. reqs[r] \in ReqType /\ runs[r] \in Running \cup {"none", "completed", "failed"}
  BY DEF IInv, Typed
<1>2. reqs' = [reqs EXCEPT ![r] = rec] /\ runs' = [runs EXCEPT ![r] = runs[r]]
  BY DEF Gives, IInv, Typed, ReqType
<1>3. /\ rec \in ReqType /\ rec.via = reqs[r].via /\ rec.conv = reqs[r].conv
      /\ rec.at = "failed" /\ rec.reply = reqs[r].reply
  BY <1>1 DEF ReqType, States, Under
<1> HIDE DEF rec
<1>4. CASE reqs[r].at = "sent"
  <2>1. rec.reply = "none" /\ runs[r] \notin Running
    BY <1>3, <1>4 DEF IInv, RequestInv, Running
  <2> QED BY <1>1, <1>2, <1>3, <1>4, <2>1, FoundKeeps
<1>5. CASE reqs[r].at = "replying"
  <2>1. reqs'[r] = rec /\ runs'[r] = runs[r]
    BY <1>2 DEF IInv, Typed
  <2>2. RequestInv(r)'
    BY <1>3, <1>5, <2>1 DEF IInv, RequestInv
  <2> QED BY <1>1, <1>2, <1>3, <1>5, <2>2, OthersSame
<1> QED BY <1>4, <1>5

LEMMA StoreKeeps ==
  ASSUME IInv, NEW r \in Requests, StoreQuestion(r) \/ StoreReply(r) PROVE IInv'
<1>1. User(r[1], FALSE) \in Messages /\ Assistant(r[1]) \in Messages
  BY RequestsOf DEF User, Assistant, Messages
<1>2. CASE StoreQuestion(r)
  BY <1>1, <1>2, StoredKeeps, UnstoredKeeps DEF StoreQuestion
<1>3. CASE StoreReply(r)
  BY <1>1, <1>3, StoredKeeps, UnstoredKeeps DEF StoreReply
<1> QED BY <1>2, <1>3

-----------------------------------------------------------------------------
(* The steps of the page. *)

(* What the page does without a request changes nothing of the server. *)
LEMMA PageKeeps ==
  ASSUME IInv, UNCHANGED server, active' \in Convs \cup {NoConv}, provider' \in {"dax", "direct"},
         send' \in {send, NotSending}
  PROVE  IInv'
<1>1. Typed'
  BY DEF IInv, Typed, server, NotSending
<1>2. SendInv'
  BY DEF IInv, SendInv, Awaited, server, NotSending
<1>3. \A r \in Requests : RequestInv(r)'
  BY DEF IInv, RequestInv, server
<1> QED BY <1>1, <1>2, <1>3 DEF IInv

(* A request is posted that was not posted before. *)
LEMMA PostKeeps ==
  ASSUME IInv, NEW r \in Requests, NEW c \in Convs, NEW via \in {"dax", "direct"},
         Post(r, c, via), reqs[r].at = "none",
         send' = [at |-> "posted", q |-> r[1], try |-> r[2]],
         r[2] = 2 => via = "dax" /\ reqs[<<r[1], 1>>].at # "none",
         r[2] = 1 => reqs[<<r[1], 2>>].at = "none",
         UNCHANGED <<rows, runs>>, made' \subseteq Convs,
         active' \in Convs \cup {NoConv}, provider' \in {"dax", "direct"}
  PROVE  IInv'
<1> USE DEF IInv
<1>1. [Unsent EXCEPT !.at = "sent", !.conv = c, !.via = via] \in ReqType
  BY DEF Unsent, ReqType, States, Under
<1>2. /\ reqs'[r] = [Unsent EXCEPT !.at = "sent", !.conv = c, !.via = via]
      /\ \A o \in Requests \ {r} : reqs'[o] = reqs[o]
      /\ reqs' \in [Requests -> ReqType]
  BY <1>1 DEF Post, Typed
<1>3. r = <<r[1], r[2]>> /\ r[1] \in Questions /\ r[2] \in {1, 2}
  BY RequestsOf
<1>4. Typed'
  BY <1>2, <1>3 DEF Typed
<1>5. SendInv'
  <2>1. Awaited' = r
    BY <1>3 DEF Awaited
  <2>2. reqs'[r].at = "sent" /\ reqs'[r].via = via /\ reqs'[r].conv \in Convs
    BY <1>2 DEF Unsent
  <2>3. ASSUME NEW q \in Questions, reqs'[<<q, 2>>].at # "none"
        PROVE  /\ reqs'[<<q, 2>>].via = "dax" /\ reqs'[<<q, 1>>].at # "none"
               /\ r[1] = q => r[2] = 2
    <3>1. CASE r = <<q, 2>>
      BY <1>2, <1>3, <2>2, <3>1, RequestsOf
    <3>2. CASE r # <<q, 2>>
      <4>1. reqs[<<q, 2>>].at # "none" /\ reqs'[<<q, 2>>].via = reqs[<<q, 2>>].via
        BY <1>2, <2>3, <3>2, RequestsOf
      <4> QED BY <1>2, <1>3, <2>2, <2>3, <3>2, <4>1, RequestsOf DEF SendInv
    <3> QED BY <3>1, <3>2
  <2> QED BY <1>3, <2>1, <2>2, <2>3 DEF SendInv
<1>6. RequestInv(r)'
  BY <1>2 DEF RequestInv, Unsent
<1>7. \A o \in Requests \ {r} : RequestInv(o)'
  BY <1>2 DEF RequestInv
<1> QED BY <1>4, <1>5, <1>6, <1>7

LEMMA SendKeeps ==
  ASSUME IInv, NEW q \in Questions, Send(q) PROVE IInv'
<1>1. q # 0 /\ <<q, 1>> \in Requests /\ reqs[<<q, 1>>].at = "none" /\ reqs[<<q, 2>>].at = "none"
  BY RequestsOf DEF Send, IInv, SendInv, Questions
<1>2. CASE active = NoConv
  <2>1. UNCHANGED <<rows, made, reqs, runs, active, provider>> /\ send' = [at |-> "opening", q |-> q, try |-> 1]
    BY <1>2 DEF Send
  <2>2. Typed'
    BY <2>1 DEF IInv, Typed
  <2>3. SendInv'
    BY <1>1, <2>1 DEF IInv, SendInv, Awaited
  <2>4. \A r \in Requests : RequestInv(r)'
    BY <2>1 DEF IInv, RequestInv
  <2> QED BY <2>2, <2>3, <2>4 DEF IInv
<1>3. CASE active # NoConv
  <2>1. active \in Convs /\ active' = active /\ UNCHANGED <<rows, made, runs, provider>>
    BY <1>3 DEF Send, IInv, Typed
  <2>2. Post(<<q, 1>>, active, provider) /\ send' = [at |-> "posted", q |-> <<q, 1>>[1], try |-> <<q, 1>>[2]]
    BY <1>3 DEF Send
  <2>3. provider \in {"dax", "direct"} /\ made \subseteq Convs
    BY DEF IInv, Typed
  <2>4. <<q, 1>>[1] = q /\ <<q, 1>>[2] = 1
    OBVIOUS
  <2> QED BY <1>1, <2>1, <2>2, <2>3, <2>4, PostKeeps
<1> QED BY <1>2, <1>3

LEMMA CreatedKeeps ==
  ASSUME IInv, NEW c \in Convs, Created(c) PROVE IInv'
<1>1. /\ send.at = "opening" /\ send.q \in Questions /\ send.try = 1 /\ send = [at |-> "opening", q |-> send.q, try |-> 1]
      /\ reqs[<<send.q, 1>>].at = "none"
  BY DEF Created, IInv, SendInv, Typed
<1>2. reqs[<<send.q, 2>>].at = "none"
  BY <1>1 DEF IInv, SendInv
<1>3. send' = [at |-> "posted", q |-> send.q, try |-> 1]
  BY <1>1 DEF Created
<1>4. /\ Post(<<send.q, 1>>, c, provider) /\ UNCHANGED <<rows, runs, provider>>
      /\ active' \in Convs \cup {NoConv}
  BY <1>1 DEF Created, Awaited, Opens
<1>5. provider \in {"dax", "direct"} /\ made' \subseteq Convs /\ <<send.q, 1>> \in Requests
  BY <1>1, RequestsOf DEF Created, IInv, Typed
<1>6. <<send.q, 1>>[1] = send.q /\ <<send.q, 1>>[2] = 1
  OBVIOUS
<1> QED BY <1>1, <1>2, <1>3, <1>4, <1>5, <1>6, PostKeeps

(* The first try of a question is waited for only before there is a second. *)
LEMMA TriedAgain ==
  ASSUME SendInv, send.at = "posted", send.q \in Questions, send.try = 1
  PROVE  reqs[<<send.q, 2>>].at = "none"
<1> SUFFICES ASSUME reqs[<<send.q, 2>>].at # "none" PROVE FALSE
  OBVIOUS
<1>1. send.try = 2
  BY DEF SendInv
<1> QED BY <1>1

(* A question for which no conversation came to be. *)
LEMMA CreateFailsKeeps ==
  ASSUME IInv, CreateFails PROVE IInv'
<1>0. PICK r \in Requests : r = Awaited
  BY RequestsOf DEF CreateFails, IInv, SendInv, Awaited
<1>1. /\ send.at = "opening" /\ send.q \in Questions /\ r = <<send.q, 1>>
      /\ reqs[r] \in ReqType /\ reqs[r].at = "none"
      /\ UNCHANGED <<rows, made, runs, active, provider>> /\ send' = NotSending
  BY <1>0 DEF CreateFails, IInv, SendInv, Typed, Awaited
<1>2. /\ reqs'[r] = [reqs[r] EXCEPT !.at = "failed"] /\ reqs'[r] \in ReqType
      /\ \A o \in Requests \ {r} : reqs'[o] = reqs[o]
      /\ reqs' \in [Requests -> ReqType]
  BY <1>0, <1>1 DEF CreateFails, IInv, Typed, ReqType, States, Under
<1>3. Typed'
  BY <1>1, <1>2 DEF IInv, Typed, NotSending
<1>4. SendInv'
  <2>1. ASSUME NEW q \in Questions, reqs'[<<q, 2>>].at # "none"
        PROVE  reqs'[<<q, 2>>].via = "dax" /\ reqs'[<<q, 1>>].at # "none"
    <3>1. reqs'[<<q, 2>>] = reqs[<<q, 2>>] /\ reqs[<<q, 1>>].at # "none"
      BY <1>1, <1>2, <2>1, RequestsOf DEF IInv, SendInv
    <3>2. reqs'[<<q, 1>>].at # "none"
      BY <1>1, <1>2, <3>1, RequestsOf
    <3> QED BY <2>1, <3>1, <3>2 DEF IInv, SendInv
  <2> QED BY <1>1, <2>1 DEF SendInv, NotSending
<1>5. RequestInv(r)'
  BY <1>1, <1>2 DEF IInv, RequestInv, ReqType, Running
<1>6. \A o \in Requests \ {r} : RequestInv(o)'
  BY <1>1, <1>2 DEF IInv, RequestInv
<1> QED BY <1>3, <1>4, <1>5, <1>6 DEF IInv

LEMMA SendFailsKeeps ==
  ASSUME IInv, SendFails PROVE IInv'
<1>1. /\ send.at = "posted" /\ send.q \in Questions /\ send.try \in {1, 2} /\ Awaited \in Requests
      /\ reqs[Awaited].at # "none" /\ reqs[Awaited].conv \in Convs
  BY RequestsOf DEF SendFails, IInv, SendInv, Typed, Awaited, RequestInv
<1>2. CASE reqs[Awaited].via = "direct"
  <2>1. send.try = 1
    BY <1>1, <1>2 DEF IInv, SendInv, Awaited
  <2>2. reqs[<<send.q, 2>>].at = "none"
    BY <1>1, <2>1, TriedAgain DEF IInv
  <2>3. send' = [at |-> "posted", q |-> send.q, try |-> 2] /\ Post(<<send.q, 2>>, reqs[Awaited].conv, "dax")
    BY <1>1, <1>2 DEF SendFails, IInv, Typed
  <2> QED BY <1>1, <2>1, <2>2, <2>3, RequestsOf, PostKeeps DEF SendFails, Awaited, IInv, Typed
<1>3. CASE reqs[Awaited].via # "direct"
  BY <1>3, PageKeeps DEF SendFails, IInv, Typed, server
<1> QED BY <1>2, <1>3

-----------------------------------------------------------------------------
LEMMA InitIInv == Init => IInv
<1> SUFFICES ASSUME Init PROVE IInv
  OBVIOUS
<1>1. Unsent \in ReqType
  BY DEF Unsent, ReqType, States
<1>2. Typed
  BY <1>1 DEF Init, Typed, NotSending
<1>3. SendInv
  BY RequestsOf DEF Init, SendInv, NotSending, Unsent
<1>4. \A r \in Requests : RequestInv(r)
  BY DEF Init, RequestInv, Unsent
<1> QED BY <1>2, <1>3, <1>4 DEF IInv

LEMMA NextIInv == IInv /\ [Next]_vars => IInv'
<1> SUFFICES ASSUME IInv, [Next]_vars PROVE IInv'
  OBVIOUS
<1>1. ASSUME NEW c \in Convs \cup {NoConv}, Move(c) PROVE IInv'
  BY <1>1, PageKeeps DEF Move, Opens, IInv, Typed
<1>2. ASSUME NEW l \in DOMAIN loads, LoadRead(l) \/ LoadAnswered(l) \/ LoadFails(l) PROVE IInv'
  BY <1>2, PageKeeps DEF LoadRead, LoadAnswered, LoadFails, IInv, Typed
<1>3. CASE ReplyArrives
  BY <1>3, PageKeeps DEF ReplyArrives, IInv, Typed
<1>4. CASE UNCHANGED vars
  BY <1>4, PageKeeps DEF vars, page, IInv, Typed
<1> QED BY <1>1, <1>2, <1>3, <1>4, SendKeeps, CreatedKeeps, CreateFailsKeeps, SendFailsKeeps, StoreKeeps, FindReplyKeeps,
           PollKeeps, RunMovesKeeps DEF Next

(* The inductive invariant holds of every reachable state. *)
THEOREM Invariance == Spec => []IInv
BY InitIInv, NextIInv, PTL DEF Spec

-----------------------------------------------------------------------------
(* Whatever the page, the API and the engine do at the same time, a reply    *)
(* with the outcome of a run is that of a completed one, and a run that goes *)
(* on when its request is over is linked in the conversation, but for the    *)
(* exceptions that the property names (sendMessage, callDaxAssistant).       *)
THEOREM Accounted == Spec => []RunsAreAccountedFor
<1>1. IInv => RunsAreAccountedFor
  BY DEF IInv, RunsAreAccountedFor, RequestInv, Running, Typed, ReqType, States, Under
<1> QED BY <1>1, Invariance, PTL
-----------------------------------------------------------------------------
(***************************************************************************)
(* What two sequences of messages say.  They stay alike when the same is   *)
(* added to both, or to one of them what its end says already.             *)
(***************************************************************************)

(* Two sequences say the same, and say the same at their end.                *)
Alike(a, b) ==
  /\ Said(a) = Said(b)
  /\ a = << >> <=> b = << >>
  /\ a # << >> => Place(a, Len(a)) = Place(b, Len(b)) /\ Says(Last(a)) = Says(Last(b))

(* Where the next message goes, after a last one in place p that says old.   *)
NextPlace(p, old, new) == IF old = new THEN p ELSE p + 1

LEMMA Appended ==
  ASSUME NEW a \in Seq(Messages), NEW x \in Messages
  PROVE  /\ Append(a, x) \in Seq(Messages) /\ Append(a, x) # << >>
         /\ Len(Append(a, x)) = Len(a) + 1 /\ DOMAIN Append(a, x) = 1 .. (Len(a) + 1)
         /\ \A i \in 1 .. Len(a) : Append(a, x)[i] = a[i]
         /\ Append(a, x)[Len(a) + 1] = x
         /\ Front(Append(a, x)) = a /\ Last(Append(a, x)) = x
         /\ Range(Append(a, x)) = Range(a) \cup {x}
<1>1. /\ Append(a, x) \in Seq(Messages) /\ Append(a, x) # << >>
      /\ Len(Append(a, x)) = Len(a) + 1 /\ DOMAIN Append(a, x) = 1 .. (Len(a) + 1)
      /\ \A i \in 1 .. Len(a) : Append(a, x)[i] = a[i]
      /\ Append(a, x)[Len(a) + 1] = x
  OBVIOUS
<1>2. Front(Append(a, x)) = a /\ Last(Append(a, x)) = x
  BY <1>1 DEF Front, Last
<1>3. Range(Append(a, x)) = Range(a) \cup {x}
  BY <1>1 DEF Range
<1> QED BY <1>1, <1>2, <1>3

LEMMA SplitAtLast ==
  ASSUME NEW s \in Seq(Messages), s # << >>
  PROVE  /\ Front(s) \in Seq(Messages) /\ Last(s) \in Messages
         /\ s = Append(Front(s), Last(s)) /\ Range(Front(s)) \subseteq Range(s)
<1>1. PICK n \in Nat : n = Len(s) - 1
  OBVIOUS
<1>2. Len(s) = n + 1 /\ Last(s) = s[n + 1] /\ Front(s) = SubSeq(s, 1, n)
  BY <1>1 DEF Last, Front
<1>3. Last(s) \in Messages
  BY <1>2
<1>4. 1 \in Int /\ n \in Int /\ \A i \in 1 .. n : s[i] \in Messages
  BY <1>2
<1>5. /\ Front(s) \in Seq(Messages) /\ Len(Front(s)) = IF 1 <= n THEN n - 1 + 1 ELSE 0
      /\ \A i \in 1 .. n - 1 + 1 : Front(s)[i] = s[1 + i - 1]
  BY ONLY <1>2, <1>4, SubSeqProperties
<1>6. Len(Front(s)) = n /\ \A i \in 1 .. n : Front(s)[i] = s[i]
  BY ONLY <1>5, n \in Nat
<1>7. Append(Front(s), Last(s)) = s
  <2>1. Append(Front(s), Last(s)) \in Seq(Messages) /\ Len(Append(Front(s), Last(s))) = Len(s)
    BY <1>2, <1>3, <1>5, <1>6
  <2>2. \A i \in 1 .. Len(s) : Append(Front(s), Last(s))[i] = s[i]
    BY <1>2, <1>3, <1>5, <1>6
  <2> QED BY <2>1, <2>2, SeqEqual
<1>8. Range(Append(Front(s), Last(s))) = Range(Front(s)) \cup {Last(s)}
  BY <1>3, <1>5, Appended
<1> QED BY <1>3, <1>5, <1>7, <1>8

LEMMA PlacesKept ==
  ASSUME NEW a \in Seq(Messages), NEW x \in Messages, NEW i \in 1 .. Len(a)
  PROVE  Place(Append(a, x), i) = Place(a, i)
<1>1. \A h \in 2 .. i : Append(a, x)[h] = a[h] /\ Append(a, x)[h - 1] = a[h - 1]
  OBVIOUS
<1>2. {h \in 2 .. i : Says(Append(a, x)[h]) # Says(Append(a, x)[h - 1])} = {h \in 2 .. i : Says(a[h]) # Says(a[h - 1])}
  BY <1>1
<1> QED BY <1>2 DEF Place

LEMMA PlaceOfFirst ==
  ASSUME NEW x \in Messages
  PROVE  Place(Append(<< >>, x), 1) = 0
<1>1. {h \in 2 .. 1 : Says(Append(<< >>, x)[h]) # Says(Append(<< >>, x)[h - 1])} = {}
  OBVIOUS
<1> QED BY <1>1, FS_EmptySet DEF Place

LEMMA PlaceOfNext ==
  ASSUME NEW a \in Seq(Messages), a # << >>, NEW x \in Messages
  PROVE  Place(Append(a, x), Len(a) + 1) = NextPlace(Place(a, Len(a)), Says(Last(a)), Says(x))
<1> DEFINE n == Len(a)
           b == Append(a, x)
           old == {h \in 2 .. n : Says(b[h]) # Says(b[h - 1])}
           new == {h \in 2 .. (n + 1) : Says(b[h]) # Says(b[h - 1])}
<1>1. n \in Nat /\ n >= 1 /\ b[n + 1] = x /\ b[n] = Last(a)
  BY DEF Last
<1>2. Place(a, n) = Cardinality(old) /\ Place(b, n + 1) = Cardinality(new)
  <2>1. Place(b, n + 1) = Cardinality(new)
    BY DEF Place
  <2>2. Place(b, n) = Cardinality(old)
    BY DEF Place
  <2>3. Place(b, n) = Place(a, n)
    BY <1>1, PlacesKept
  <2> QED BY <2>1, <2>2, <2>3
<1>3. IsFiniteSet(old)
  <2>1. IsFiniteSet(2 .. n)
    BY <1>1, FS_Interval
  <2> QED BY <2>1, FS_Subset
<1>4. n + 1 \notin old
  BY <1>1
<1>5. CASE Says(x) = Says(Last(a))
  <2>1. new = old
    BY <1>1, <1>5
  <2> QED BY <1>2, <1>5, <2>1 DEF NextPlace
<1>6. CASE Says(x) # Says(Last(a))
  <2>1. new = old \cup {n + 1}
    BY <1>1, <1>6
  <2>2. Cardinality(old \cup {n + 1}) = Cardinality(old) + 1
    BY <1>3, <1>4, FS_AddElement
  <2> QED BY <1>2, <1>6, <2>1, <2>2 DEF NextPlace
<1> QED BY <1>5, <1>6

LEMMA SaidOfAppend ==
  ASSUME NEW a \in Seq(Messages), NEW x \in Messages
  PROVE  Said(Append(a, x)) = Said(a) \cup {<<Place(Append(a, x), Len(a) + 1), Says(x)>>}
<1> DEFINE b == Append(a, x)
           pair(s, i) == <<Place(s, i), Says(s[i])>>
<1>1. /\ DOMAIN b = DOMAIN a \cup {Len(a) + 1}
      /\ \A i \in DOMAIN a : pair(b, i) = pair(a, i)
      /\ pair(b, Len(a) + 1) = <<Place(b, Len(a) + 1), Says(x)>>
  <2>1. DOMAIN a = 1 .. Len(a) /\ Len(a) \in Nat
    OBVIOUS
  <2>2. DOMAIN b = DOMAIN a \cup {Len(a) + 1}
    BY <2>1, Appended
  <2> QED BY <2>1, <2>2, Appended, PlacesKept
<1>2. Said(b) = {pair(b, i) : i \in DOMAIN b} /\ Said(a) = {pair(a, i) : i \in DOMAIN a}
  BY DEF Said
<1> HIDE DEF pair
<1>3. {pair(b, i) : i \in DOMAIN b} = {pair(a, i) : i \in DOMAIN a} \cup {pair(b, Len(a) + 1)}
  BY <1>1
<1> QED BY <1>1, <1>2, <1>3

(* What is alike is so in both directions, and through what lies between. *)
LEMMA AlikeEquiv ==
  ASSUME NEW a \in Seq(Messages), NEW b \in Seq(Messages)
  PROVE  /\ Alike(a, a)
         /\ Alike(a, b) => Alike(b, a)
         /\ \A c \in Seq(Messages) : Alike(a, b) /\ Alike(b, c) => Alike(a, c)
BY DEF Alike

(* The same is said next: it is shown where it is stored.                    *)
LEMMA AlikeAppended ==
  ASSUME NEW a \in Seq(Messages), NEW b \in Seq(Messages), Alike(a, b),
         NEW x \in Messages, NEW y \in Messages, Says(x) = Says(y)
  PROVE  Alike(Append(a, x), Append(b, y))
<1>1. Place(Append(a, x), Len(a) + 1) = Place(Append(b, y), Len(b) + 1)
  <2>1. CASE a = << >>
    BY <2>1, PlaceOfFirst DEF Alike
  <2>2. CASE a # << >>
    BY <2>2, PlaceOfNext DEF Alike
  <2> QED BY <2>1, <2>2
<1>2. Said(Append(a, x)) = Said(Append(b, y))
  <2>1. Said(Append(a, x)) = Said(a) \cup {<<Place(Append(a, x), Len(a) + 1), Says(x)>>}
    BY SaidOfAppend
  <2>2. Said(Append(b, y)) = Said(b) \cup {<<Place(Append(b, y), Len(b) + 1), Says(y)>>}
    BY SaidOfAppend
  <2> QED BY <1>1, <2>1, <2>2 DEF Alike
<1>3. /\ Append(a, x) # << >> /\ Append(b, y) # << >>
      /\ Len(Append(a, x)) = Len(a) + 1 /\ Len(Append(b, y)) = Len(b) + 1
      /\ Last(Append(a, x)) = x /\ Last(Append(b, y)) = y
  BY Appended
<1> QED BY <1>1, <1>2, <1>3 DEF Alike

(* What the end says already is stored again, as a retry does.               *)
LEMMA AlikeRepeated ==
  ASSUME NEW a \in Seq(Messages), NEW b \in Seq(Messages), Alike(a, b),
         NEW y \in Messages, a # << >>, Says(y) = Says(Last(a))
  PROVE  Alike(a, Append(b, y))
<1>1. b # << >> /\ Says(Last(b)) = Says(y)
  BY DEF Alike
<1>2. Place(Append(b, y), Len(b) + 1) = Place(b, Len(b))
  BY <1>1, PlaceOfNext DEF NextPlace
<1>3. <<Place(b, Len(b)), Says(y)>> \in Said(b)
  BY <1>1 DEF Said, Last
<1>4. Said(Append(b, y)) = Said(b)
  <2>1. Said(Append(b, y)) = Said(b) \cup {<<Place(Append(b, y), Len(b) + 1), Says(y)>>}
    BY SaidOfAppend
  <2> QED BY <1>2, <1>3, <2>1
<1>5. Append(b, y) # << >> /\ Len(Append(b, y)) = Len(b) + 1 /\ Last(Append(b, y)) = y
  BY Appended
<1> QED BY <1>1, <1>2, <1>4, <1>5 DEF Alike

(* Two messages are appended one after the other. *)
LEMMA AppendTwo ==
  ASSUME NEW f \in Seq(Messages), NEW l \in Messages, NEW x \in Messages
  PROVE  f \o <<l, x>> = Append(Append(f, l), x)
<1>1. /\ f \o <<l, x>> \in Seq(Messages) /\ Len(f \o <<l, x>>) = Len(f) + 2
      /\ Append(Append(f, l), x) \in Seq(Messages) /\ Len(Append(Append(f, l), x)) = Len(f) + 2
  OBVIOUS
<1>2. \A i \in 1 .. (Len(f) + 2) : (f \o <<l, x>>)[i] = Append(Append(f, l), x)[i]
  OBVIOUS
<1> QED BY <1>1, <1>2, SeqEqual

(* The question that the page waits for, when it is the last it shows, and   *)
(* only there, stays there when the reply is appended (handleSend).          *)
LEMMA QuestionMoves ==
  ASSUME NEW s \in Seq(Messages), s # << >>, Last(s) \notin Range(Front(s)), NEW x \in Messages
  PROVE  RemoveFirst(s, Last(s)) \o <<Last(s), x>> = Append(s, x)
<1> DEFINE n == Len(s)
<1>1. n \in Nat \ {0} /\ s[n] = Last(s) /\ n \in 1 .. Len(s)
  BY DEF Last
<1>2. \A i \in 1 .. n : s[i] = Last(s) => i = n
  <2>1. ASSUME NEW i \in 1 .. n, i # n PROVE s[i] \in Range(Front(s))
    <3>1. i \in 1 .. (n - 1)
      BY <2>1, <1>1
    <3>2. DOMAIN Front(s) = 1 .. (n - 1) /\ Front(s)[i] = s[i]
      BY <3>1, <1>1 DEF Front
    <3> QED BY <3>1, <3>2 DEF Range
  <2> QED BY <2>1
<1>3. SelectInSeq(s, LAMBDA v : v = Last(s)) = n
  <2>1. {i \in 1 .. Len(s) : s[i] = Last(s)} = {n}
    BY <1>1, <1>2
  <2> QED BY <1>1, <2>1 DEF SelectInSeq, Min
<1>4. RemoveFirst(s, Last(s)) = RemoveAt(s, n)
  BY <1>1, <1>3 DEF RemoveFirst
<1>5. RemoveAt(s, n) = Front(s)
  BY <1>1 DEF RemoveAt, Front
<1>6. Front(s) \in Seq(Messages) /\ Last(s) \in Messages /\ s = Append(Front(s), Last(s))
  BY SplitAtLast
<1>7. Front(s) \o <<Last(s), x>> = Append(Append(Front(s), Last(s)), x)
  BY ONLY <1>6, AppendTwo, x \in Messages
<1> QED BY ONLY <1>4, <1>5, <1>6, <1>7

(* A message that is not there is not removed. *)
LEMMA NothingToRemove ==
  ASSUME NEW s \in Seq(Messages), NEW m, m \notin Range(s)
  PROVE  RemoveFirst(s, m) = s
<1>1. ~ \E i \in 1 .. Len(s) : s[i] = m
  BY DEF Range
<1> QED BY <1>1 DEF RemoveFirst

(* A question ends the page, where it is shown once. *)
AtEnd(s, u) == s # << >> /\ Last(s) = u /\ u \notin Range(Front(s))
(* The page with the question at its end, be it shown already or not. *)
With(s, u) == IF AtEnd(s, u) THEN s ELSE Append(s, u)

LEMMA WithQuestion ==
  ASSUME NEW s \in Seq(Messages), NEW u \in Messages
  PROVE  /\ With(s, u) \in Seq(Messages) /\ With(s, u) # << >> /\ Last(With(s, u)) = u
         /\ Range(With(s, u)) = Range(s) \cup {u}
<1>1. CASE AtEnd(s, u)
  <2>1. s = Append(Front(s), u) /\ Front(s) \in Seq(Messages)
    BY <1>1, SplitAtLast DEF AtEnd
  <2>2. Range(s) = Range(Front(s)) \cup {u}
    BY <2>1, Appended
  <2> QED BY <1>1, <2>2 DEF With, AtEnd
<1>2. CASE ~AtEnd(s, u)
  BY <1>2, Appended DEF With
<1> QED BY <1>1, <1>2

(* The reply is appended after its question, which is shown once before it.  *)
LEMMA ReplyTo ==
  ASSUME NEW s \in Seq(Messages), NEW u \in Messages, NEW x \in Messages,
         AtEnd(s, u) \/ u \notin Range(s)
  PROVE  RemoveFirst(s, u) \o <<u, x>> = Append(With(s, u), x)
<1>1. CASE AtEnd(s, u)
  BY <1>1, QuestionMoves DEF AtEnd, With
<1>2. CASE ~AtEnd(s, u)
  <2>1. RemoveFirst(s, u) = s
    BY <1>2, NothingToRemove
  <2>2. s \o <<u, x>> = Append(Append(s, u), x)
    BY AppendTwo
  <2> QED BY <1>2, <2>1, <2>2 DEF With
<1> QED BY <1>1, <1>2

(* A message that is removed from a sequence leaves others of it. *)
LEMMA RemoveFirstKeeps ==
  ASSUME NEW s \in Seq(Messages), NEW m
  PROVE  RemoveFirst(s, m) \in Seq(Messages) /\ Range(RemoveFirst(s, m)) \subseteq Range(s)
<1>1. CASE ~ \E i \in 1 .. Len(s) : s[i] = m
  BY <1>1 DEF RemoveFirst
<1>2. CASE \E i \in 1 .. Len(s) : s[i] = m
  <2> DEFINE I == {i \in 1 .. Len(s) : s[i] = m}
  <2>1. Min(I) \in I
    <3>1. I \in SUBSET Nat /\ I # {}
      BY <1>2
    <3> HIDE DEF I
    <3>2. \E i \in I : \A k \in I : i <= k
      <4>1. PICK i \in I : \A k \in I : <<k, i>> \notin OpToRel(<, Nat)
        BY ONLY <3>1, WFMin, NatLessThanWellFounded
      <4>2. \A k \in I : k \in Nat /\ i \in Nat /\ ~(k < i)
        BY <3>1, <4>1 DEF OpToRel
      <4> QED BY <4>2
    <3> QED BY <3>2 DEF Min
  <2> DEFINE n == Min(I)
  <2>2. n \in 1 .. Len(s) /\ I # {}
    BY <2>1
  <2>3. RemoveFirst(s, m) = SubSeq(s, 1, n - 1) \o SubSeq(s, n + 1, Len(s))
    BY <1>2, <2>2 DEF RemoveFirst, RemoveAt, SelectInSeq
  <2> HIDE DEF n
  <2>4. /\ 1 \in Int /\ n - 1 \in Int /\ n + 1 \in Int /\ Len(s) \in Int
        /\ \A i \in 1 .. (n - 1) : s[i] \in Range(s) /\ s[i] \in Messages
        /\ \A i \in (n + 1) .. Len(s) : s[i] \in Range(s) /\ s[i] \in Messages
    BY <2>2 DEF Range
  <2>5. ASSUME NEW S, \A i \in 1 .. (n - 1) : s[i] \in S, \A i \in (n + 1) .. Len(s) : s[i] \in S
        PROVE  SubSeq(s, 1, n - 1) \o SubSeq(s, n + 1, Len(s)) \in Seq(S)
    <3>1. SubSeq(s, 1, n - 1) \in Seq(S)
      BY ONLY <2>4, <2>5, SubSeqProperties
    <3>2. SubSeq(s, n + 1, Len(s)) \in Seq(S)
      BY ONLY <2>4, <2>5, SubSeqProperties
    <3> QED BY <3>1, <3>2
  <2>6. RemoveFirst(s, m) \in Seq(Messages) /\ RemoveFirst(s, m) \in Seq(Range(s))
    BY <2>3, <2>4, <2>5
  <2> QED BY <2>6 DEF Range
<1> QED BY <1>1, <1>2

-----------------------------------------------------------------------------
(***************************************************************************)
(* The page and the conversation that is open.  As long as nothing has set *)
(* them apart, at most the request that the page waits for is under way,   *)
(* and in the open conversation; then what the page shows and what is      *)
(* stored are alike but for the step that the request has taken and the    *)
(* page has not, or the page has and the request has not.  A load that is  *)
(* under way decides alone what the page shows, so nothing is said before  *)
(* it ends; when it ends it may have taken the question from the page.     *)
(***************************************************************************)

(* The question is one that the user has asked. *)
Posed(q) == reqs[<<q, 1>>].at # "none" \/ (send.at = "opening" /\ send.q = q)

(* What is shown before it is stored is a question, and only the page has it. *)
QuestionsArePosed ==
  /\ \A c \in Convs : \A m \in Range(rows[c]) : ~m.temp
  /\ \A l \in DOMAIN loads : \A m \in Range(loads[l].got) : ~m.temp
  /\ \A m \in Range(shown) : m.temp => Posed(m.q)

OnlyAwaited ==
  /\ send.at = "idle" => send = NotSending
  /\ slip = "none" =>
     /\ \A r \in Requests : reqs[r].at \in Under => send.at = "posted" /\ r = Awaited
     /\ send.at = "posted" => reqs[Awaited].conv = active
     /\ send.at = "opening" => active = NoConv

(* The question that is being sent, as the page shows it. *)
Asked == User(send.q, TRUE)
AskedOnce == send.at # "idle" => AtEnd(shown, Asked) \/ Asked \notin Range(shown)

(* While the page waits: with the question at its end, it is what the       *)
(* conversation is, or will be when the question is stored there.           *)
WaitsForReply ==
  /\ reqs[Awaited].at \in {"sent", "failed"} => Alike(With(shown, Asked), Append(rows[active], Asked))
  /\ reqs[Awaited].at \in {"stored", "waiting", "replying"} => Alike(With(shown, Asked), rows[active])
  /\ reqs[Awaited].at = "answered" =>
       /\ rows[active] # << >> /\ Last(rows[active]) = Assistant(send.q)
       /\ Alike(With(shown, Asked), Front(rows[active]))

Settled == slip = "none" /\ active # NoConv /\ \A l \in DOMAIN loads : loads[l].at = "done"

PageInv ==
  Settled => /\ send.at = "idle" => Alike(shown, rows[active])
             /\ send.at = "posted" => WaitsForReply

LoadType == [conv : Convs, at : {"asked", "read", "done"}, got : Seq(Messages)]
ShownTyped ==
  /\ shown \in Seq(Messages) /\ slip \in Slips /\ booting \in BOOLEAN
  /\ loads \in Seq(LoadType) /\ failures \in 0 .. MaxFailures

Shows == QuestionsArePosed /\ OnlyAwaited /\ AskedOnce /\ PageInv
ShowInv == ShownTyped /\ Shows

(* The messages of a question. *)
LEMMA MessagesOf ==
  ASSUME NEW q \in Questions
  PROVE  /\ User(q, TRUE) \in Messages /\ User(q, FALSE) \in Messages /\ Assistant(q) \in Messages
         /\ Says(User(q, TRUE)) = Says(User(q, FALSE))
         /\ User(q, TRUE).temp = TRUE /\ User(q, FALSE).temp = FALSE /\ Assistant(q).temp = FALSE
         /\ User(q, TRUE).q = q
BY DEF User, Assistant, Messages, Says

(* What a load returns. *)
LEMMA FirstOf ==
  ASSUME NEW ms \in Seq(Messages)
  PROVE  First(ms) \in Seq(Messages) /\ Range(First(ms)) \subseteq Range(ms)
<1> DEFINE n == IF Len(ms) < Take THEN Len(ms) ELSE Take
<1>1. n \in Nat /\ n <= Len(ms)
  BY BoundsAssumption
<1> HIDE DEF n
<1>2. 1 \in Int /\ n \in Int /\ \A i \in 1 .. n : ms[i] \in Messages
  BY <1>1
<1>3. SubSeq(ms, 1, n) \in Seq(Messages)
  BY ONLY <1>2, SubSeqProperties
<1>4. \A i \in 1 .. Len(SubSeq(ms, 1, n)) : SubSeq(ms, 1, n)[i] = ms[i] /\ i \in 1 .. Len(ms)
  BY <1>1
<1>5. Range(SubSeq(ms, 1, n)) \subseteq Range(ms)
  BY <1>3, <1>4 DEF Range
<1> QED BY <1>3, <1>5 DEF First, n

(* A load that begins, and one that goes on. *)
LEMMA LoadBegins ==
  ASSUME ShownTyped, NEW c \in Convs, Opens(c)
  PROVE  /\ loads' \in Seq(LoadType) /\ active' = c
         /\ \A l \in DOMAIN loads' :
              \/ l \in DOMAIN loads /\ loads'[l] = loads[l]
              \/ loads'[l].got = << >>
         /\ \E l \in DOMAIN loads' : loads'[l].at = "asked"
<1> DEFINE new == [conv |-> c, at |-> "asked", got |-> << >>]
<1>1. new \in LoadType /\ new.at = "asked" /\ new.got = << >>
  BY DEF LoadType
<1>2. loads' = Append(loads, new) /\ loads \in Seq(LoadType) /\ active' = c
  BY DEF Opens, ShownTyped
<1> HIDE DEF new
<1>3. /\ loads' \in Seq(LoadType) /\ DOMAIN loads' = 1 .. (Len(loads) + 1) /\ loads'[Len(loads) + 1] = new
      /\ \A l \in 1 .. Len(loads) : loads'[l] = loads[l] /\ l \in DOMAIN loads
  BY <1>1, <1>2
<1>4. \A l \in DOMAIN loads' : l = Len(loads) + 1 \/ l \in 1 .. Len(loads)
  BY <1>2, <1>3
<1>5. Len(loads) + 1 \in DOMAIN loads'
  BY <1>2, <1>3
<1> QED BY <1>1, <1>2, <1>3, <1>4, <1>5

LEMMA LoadGoesOn ==
  ASSUME ShownTyped, NEW l \in DOMAIN loads, NEW at \in {"asked", "read", "done"}, NEW got \in Seq(Messages),
         loads' = [loads EXCEPT ![l].at = at, ![l].got = got]
  PROVE  /\ loads' \in Seq(LoadType) /\ DOMAIN loads' = DOMAIN loads
         /\ loads'[l].at = at /\ loads'[l].got = got
         /\ \A k \in DOMAIN loads \ {l} : loads'[k] = loads[k]
<1>1. loads \in Seq(LoadType) /\ loads[l] \in LoadType
  BY DEF ShownTyped
<1>2. PICK c \in Convs, was \in {"asked", "read", "done"}, had \in Seq(Messages) :
        loads[l] = [conv |-> c, at |-> was, got |-> had]
  BY <1>1 DEF LoadType
<1> DEFINE new == [conv |-> c, at |-> at, got |-> got]
<1>3. new \in LoadType /\ new.at = at /\ new.got = got
  BY DEF LoadType
<1>4. loads' = [loads EXCEPT ![l] = new]
  <2>1. loads' = [loads EXCEPT ![l] = [[loads[l] EXCEPT !.at = at] EXCEPT !.got = got]]
    BY <1>1
  <2>2. [loads[l] EXCEPT !.at = at] = [conv |-> c, at |-> at, got |-> had]
    BY <1>2
  <2>3. [[conv |-> c, at |-> at, got |-> had] EXCEPT !.got = got] = new
    OBVIOUS
  <2> QED BY <2>1, <2>2, <2>3
<1> HIDE DEF new
<1>5. loads' \in Seq(LoadType)
  BY ONLY <1>1, <1>3, <1>4, ExceptSeq, l \in DOMAIN loads
<1>6. /\ DOMAIN loads' = DOMAIN loads /\ loads'[l] = new
      /\ \A k \in DOMAIN loads \ {l} : loads'[k] = loads[k]
  BY ONLY <1>4, l \in DOMAIN loads
<1> QED BY <1>3, <1>5, <1>6

(* Nothing is said of the page while it loads. *)
LEMMA Loading ==
  ASSUME \E l \in DOMAIN loads' : loads'[l].at # "done"
  PROVE  PageInv'
BY DEF PageInv, Settled

-----------------------------------------------------------------------------
(* The steps of the page. *)

LEMMA MoveShows ==
  ASSUME IInv, ShowInv, NEW c \in Convs \cup {NoConv}, Move(c) PROVE Shows'
<1>1. /\ UNCHANGED <<rows, reqs, send>> /\ slip' = (IF send = NotSending THEN slip ELSE "moved")
      /\ \A q : Posed(q)' = Posed(q)
  BY DEF Move, server, Posed
<1>2. OnlyAwaited'
  <2>1. CASE send = NotSending
    BY <1>1, <2>1 DEF ShowInv, Shows, OnlyAwaited, NotSending
  <2>2. CASE send # NotSending
    BY <1>1, <2>2 DEF ShowInv, Shows, OnlyAwaited
  <2> QED BY <2>1, <2>2
<1>3. CASE c \in made /\ Opens(c) /\ UNCHANGED shown
  <2>1. c \in Convs
    BY <1>3 DEF IInv, Typed
  <2>2. /\ \A l \in DOMAIN loads' : loads'[l].got = << >> \/ (l \in DOMAIN loads /\ loads'[l] = loads[l])
        /\ \E l \in DOMAIN loads' : loads'[l].at = "asked"
    <3>1. ShownTyped /\ Opens(c)
      BY <1>3 DEF ShowInv
    <3> QED BY ONLY <2>1, <3>1, LoadBegins
  <2>3. QuestionsArePosed'
    BY <1>1, <1>3, <2>2 DEF ShowInv, Shows, QuestionsArePosed, Range
  <2>4. AskedOnce'
    BY <1>1, <1>3 DEF ShowInv, Shows, AskedOnce, Asked
  <2> QED BY <1>2, <2>2, <2>3, <2>4, Loading DEF Shows
<1>4. CASE c = NoConv /\ active' = c /\ shown' = << >> /\ UNCHANGED <<loads, booting>>
  <2>1. QuestionsArePosed'
    BY <1>1, <1>4 DEF ShowInv, Shows, QuestionsArePosed, Range
  <2>2. PageInv'
    BY <1>4 DEF PageInv, Settled
  <2>3. AskedOnce'
    BY <1>4 DEF AskedOnce, Range
  <2> QED BY <1>2, <2>1, <2>2, <2>3 DEF Shows
<1> QED BY <1>3, <1>4 DEF Move

LEMMA LoadReadShows ==
  ASSUME IInv, ShowInv, NEW l \in DOMAIN loads, LoadRead(l) PROVE Shows'
<1>1. /\ UNCHANGED <<rows, reqs, send, active, slip, shown>> /\ \A q : Posed(q)' = Posed(q)
  BY DEF LoadRead, server, Posed
<1>2. OnlyAwaited'
  BY <1>1 DEF ShowInv, Shows, OnlyAwaited, Awaited
<1> DEFINE got == First(rows[loads[l].conv])
<1>3. loads[l].conv \in Convs /\ rows[loads[l].conv] \in Seq(Messages)
  <2>1. loads[l] \in LoadType
    BY DEF ShowInv, ShownTyped
  <2> QED BY <2>1 DEF LoadType, IInv, Typed
<1>4. got \in Seq(Messages) /\ Range(got) \subseteq Range(rows[loads[l].conv])
  BY <1>3, FirstOf
<1>5. loads' = [loads EXCEPT ![l].at = "read", ![l].got = got]
  BY DEF LoadRead
<1> HIDE DEF got
<1>6. /\ DOMAIN loads' = DOMAIN loads /\ loads'[l].at = "read" /\ loads'[l].got = got
      /\ \A k \in DOMAIN loads \ {l} : loads'[k] = loads[k]
  BY <1>4, <1>5, LoadGoesOn DEF ShowInv
<1>7. QuestionsArePosed'
  BY <1>1, <1>3, <1>4, <1>6 DEF ShowInv, Shows, QuestionsArePosed
<1>8. PageInv'
  BY <1>6, Loading
<1>9. AskedOnce'
  BY <1>1 DEF ShowInv, Shows, AskedOnce, Asked
<1> QED BY <1>2, <1>7, <1>8, <1>9 DEF Shows

(* A load that is up to date shows what the conversation holds, but for the  *)
(* question that the page waits to see answered.                             *)
LEMMA UpToDateShows ==
  ASSUME NEW ms \in Seq(Messages), NEW q \in Questions, NEW got, got \in {ms, Front(ms)},
         EndsWith(ms, q)
  PROVE  /\ got \in Seq(Messages)
         /\ Alike(Append(got, User(q, TRUE)), ms)
         /\ Alike(Append(got, User(q, TRUE)), Append(ms, User(q, TRUE)))
<1> DEFINE U == User(q, TRUE)
           L == Last(ms)
<1>1. /\ U \in Messages /\ L \in Messages /\ Says(U) = Says(L)
      /\ Front(ms) \in Seq(Messages) /\ ms = Append(Front(ms), L) /\ ms # << >>
  BY MessagesOf, SplitAtLast DEF EndsWith
<1> HIDE DEF U, L
<1>2. Alike(ms, Append(ms, U))
  BY <1>1, AlikeEquiv, AlikeRepeated DEF L
<1>3. CASE got = ms
  BY <1>1, <1>2, <1>3, Appended, AlikeEquiv DEF U
<1>4. CASE got = Front(ms)
  <2>1. Alike(Append(Front(ms), U), Append(Front(ms), L))
    BY <1>1, AlikeEquiv, AlikeAppended
  <2>2. Append(Front(ms), U) \in Seq(Messages) /\ Append(ms, U) \in Seq(Messages)
    BY <1>1, Appended
  <2>3. Alike(Append(Front(ms), U), Append(ms, U))
    BY <1>1, <1>2, <2>1, <2>2, AlikeEquiv
  <2> QED BY <1>1, <1>4, <2>1, <2>3 DEF U
<1> QED BY <1>3, <1>4

LEMMA LoadAnsweredShows ==
  ASSUME IInv, ShowInv, NEW l \in DOMAIN loads, LoadAnswered(l) PROVE Shows'
<1>1. /\ UNCHANGED <<rows, reqs, send, active>> /\ \A q : Posed(q)' = Posed(q)
      /\ shown' = loads[l].got /\ slip' = (IF UpToDate(l) THEN "none" ELSE "stale")
      /\ loads' = [loads EXCEPT ![l].at = "done", ![l].got = << >>]
  BY DEF LoadAnswered, Done, server, Posed
<1>2. << >> \in Seq(Messages)
  OBVIOUS
<1>3. /\ DOMAIN loads' = DOMAIN loads /\ loads'[l].got = << >>
      /\ \A k \in DOMAIN loads \ {l} : loads'[k] = loads[k]
  BY <1>1, <1>2, LoadGoesOn DEF ShowInv
<1>4. QuestionsArePosed' /\ \A m \in Range(shown') : ~m.temp
  <2>1. \A c \in Convs : \A m \in Range(rows'[c]) : ~m.temp
    BY <1>1 DEF ShowInv, Shows, QuestionsArePosed
  <2>2. \A k \in DOMAIN loads' : \A m \in Range(loads'[k].got) : ~m.temp
    BY <1>3 DEF ShowInv, Shows, QuestionsArePosed, Range
  <2>3. \A m \in Range(shown') : ~m.temp
    BY <1>1 DEF ShowInv, Shows, QuestionsArePosed
  <2> QED BY <2>1, <2>2, <2>3 DEF QuestionsArePosed
<1>5. Asked' = Asked /\ Asked \notin Range(shown') /\ AskedOnce'
  <2>1. Asked' = Asked /\ Asked.temp
    BY <1>1 DEF Asked, User
  <2> QED BY <1>4, <2>1 DEF AskedOnce
<1>6. shown' \in Seq(Messages)
  <2>1. loads[l] \in LoadType
    BY DEF ShowInv, ShownTyped
  <2> QED BY <1>1, <2>1 DEF LoadType
<1>7. CASE ~UpToDate(l)
  BY <1>1, <1>4, <1>5, <1>7 DEF ShowInv, Shows, OnlyAwaited, PageInv, Settled
<1>8. CASE UpToDate(l)
  <2>1. /\ \A r \in Requests : reqs[r].at \in Under => send.at = "posted" /\ r = Awaited
        /\ \/ send = NotSending
           \/ send.at = "posted" /\ reqs[Awaited].conv = active
    BY <1>8 DEF UpToDate
  <2>2. OnlyAwaited'
    BY <1>1, <2>1 DEF ShowInv, Shows, OnlyAwaited, NotSending, Awaited
  <2>3. CASE send = NotSending
    <3>1. shown' = rows[active]
      BY <1>1, <1>8, <2>3 DEF UpToDate, NotSending
    <3>2. PageInv'
      BY <1>1, <2>3, <3>1 DEF PageInv, Alike, NotSending
    <3> QED BY <1>4, <1>5, <2>2, <3>2 DEF Shows
  <2>4. CASE send # NotSending
    <3> DEFINE ms == rows[active]
               U == User(send.q, TRUE)
               at == reqs[Awaited].at
    <3>1. /\ send.at = "posted" /\ active \in Convs /\ send.q \in Questions /\ ms \in Seq(Messages)
          /\ reqs[Awaited].conv = active
      BY <2>1, <2>4 DEF IInv, SendInv, Typed
    <3>2. \/ at \in {"sent", "failed"} /\ shown' = ms
          \/ at # "answered" /\ EndsWith(ms, send.q) /\ shown' \in {ms, Front(ms)}
      BY <1>1, <1>8, <2>4 DEF UpToDate
    <3>3. U \in Messages /\ U \notin Range(shown')
      BY <1>5, <3>1, MessagesOf DEF Asked
    <3>4. With(shown', U) = Append(shown', U)
      <4>1. shown' # << >> => Last(shown') \in Range(shown')
        BY <1>6 DEF Last, Range
      <4> QED BY <3>3, <4>1 DEF With, AtEnd
    <3>5. /\ at \in {"sent", "failed"} => Alike(Append(shown', U), Append(ms, U))
          /\ at # "answered" => at \in {"sent", "failed"} \/ Alike(Append(shown', U), ms)
      <4>1. CASE at \in {"sent", "failed"} /\ shown' = ms
        <5>1. Append(ms, U) \in Seq(Messages)
          BY <3>1, <3>3, Appended
        <5> QED BY <4>1, <5>1, AlikeEquiv
      <4>2. CASE at # "answered" /\ EndsWith(ms, send.q) /\ shown' \in {ms, Front(ms)}
        <5>1. Alike(Append(shown', U), ms) /\ Alike(Append(shown', U), Append(ms, U))
          BY <3>1, <4>2, UpToDateShows
        <5> QED BY <5>1
      <4> QED BY <3>2, <4>1, <4>2
    <3>6. at # "answered"
      BY <3>2
    <3>7. WaitsForReply'
      <4>1. /\ Awaited' = Awaited /\ Asked' = U /\ reqs'[Awaited'].at = at /\ rows'[active'] = ms
        BY <1>1 DEF Awaited, Asked
      <4> QED BY <3>4, <3>5, <3>6, <4>1 DEF WaitsForReply
    <3>8. PageInv'
      BY <1>1, <3>1, <3>7 DEF PageInv
    <3> QED BY <1>4, <1>5, <2>2, <3>8 DEF Shows
  <2> QED BY <2>3, <2>4
<1> QED BY <1>7, <1>8

LEMMA LoadFailsShows ==
  ASSUME IInv, ShowInv, NEW l \in DOMAIN loads, LoadFails(l) PROVE Shows'
<1>1. /\ UNCHANGED <<rows, reqs, send, shown>> /\ \A q : Posed(q)' = Posed(q) /\ slip' = "unloaded"
      /\ loads' = [loads EXCEPT ![l].at = "done", ![l].got = << >>]
  BY DEF LoadFails, Done, server, Posed
<1>2. << >> \in Seq(Messages)
  OBVIOUS
<1>3. /\ DOMAIN loads' = DOMAIN loads /\ loads'[l].got = << >>
      /\ \A k \in DOMAIN loads \ {l} : loads'[k] = loads[k]
  BY <1>1, <1>2, LoadGoesOn DEF ShowInv
<1>4. \A k \in DOMAIN loads' : \A m \in Range(loads'[k].got) : ~m.temp
  BY <1>3 DEF ShowInv, Shows, QuestionsArePosed, Range
<1> QED BY <1>1, <1>4 DEF ShowInv, Shows, QuestionsArePosed, OnlyAwaited, AskedOnce, Asked, PageInv, Settled

(* A question is shown, and posted when there is a conversation for it. *)
LEMMA SendShows ==
  ASSUME IInv, ShowInv, NEW q \in Questions, Send(q) PROVE Shows'
<1> DEFINE U == User(q, TRUE)
<1>1. /\ send = NotSending /\ send.at = "idle" /\ reqs[<<q, 1>>].at = "none" /\ <<q, 1>> \in Requests
      /\ shown' = Append(shown, U) /\ UNCHANGED <<rows, active, loads, slip>>
      /\ send'.at # "idle" /\ send'.q = q /\ send'.try = 1
  <2>1. /\ send = NotSending /\ send.at = "idle"
        /\ shown' = Append(shown, U) /\ UNCHANGED <<rows, active, loads, slip>>
    BY DEF Send, NotSending
  <2>2. send' = [at |-> IF active = NoConv THEN "opening" ELSE "posted", q |-> q, try |-> 1]
    BY DEF Send
  <2>3. reqs[<<q, 1>>].at = "none" /\ <<q, 1>> \in Requests
    <3>1. (reqs[<<q, 1>>].at # "none") <=> q < q
      BY DEF Send
    <3>2. ~(q < q)
      BY DEF Questions
    <3> QED BY <3>1, <3>2, RequestsOf
  <2>4. send'.at # "idle" /\ send'.q = q /\ send'.try = 1
    BY <2>2
  <2> QED BY <2>1, <2>3, <2>4
<1>2. U \in Messages /\ U.temp = TRUE /\ U.q = q /\ shown \in Seq(Messages)
  BY MessagesOf DEF ShowInv, ShownTyped
<1>3. U \notin Range(shown)
  BY <1>1, <1>2 DEF ShowInv, Shows, QuestionsArePosed, Posed
<1> HIDE DEF U
<1>4. shown' # << >> /\ Last(shown') = U /\ Front(shown') = shown /\ Range(shown') = Range(shown) \cup {U}
  BY <1>1, <1>2, Appended
<1>8. AskedOnce' /\ Asked' = U /\ AtEnd(shown', U)
  BY <1>1, <1>3, <1>4 DEF AskedOnce, Asked, AtEnd, U
<1>5. ASSUME \A p : Posed(p) => Posed(p)', Posed(q)' PROVE QuestionsArePosed'
  BY <1>1, <1>2, <1>4, <1>5 DEF ShowInv, Shows, QuestionsArePosed
<1>6. CASE active = NoConv
  <2>1. UNCHANGED reqs /\ send'.at = "opening"
    BY <1>6 DEF Send
  <2>2. QuestionsArePosed'
    BY <1>1, <1>5, <2>1 DEF Posed
  <2>3. OnlyAwaited'
    BY <1>1, <1>6, <2>1 DEF ShowInv, Shows, OnlyAwaited
  <2>4. PageInv'
    BY <1>1, <1>6 DEF PageInv, Settled
  <2> QED BY <1>8, <2>2, <2>3, <2>4 DEF Shows
<1>7. CASE active # NoConv
  <2>1. Post(<<q, 1>>, active, provider) /\ send'.at = "posted" /\ Awaited' = <<q, 1>>
    BY <1>1, <1>7 DEF Send, Awaited
  <2>2. /\ reqs'[<<q, 1>>].at = "sent" /\ reqs'[<<q, 1>>].conv = active
        /\ \A r \in Requests \ {<<q, 1>>} : reqs'[r] = reqs[r]
    BY <1>1, <2>1 DEF Post, Unsent, IInv, Typed
  <2>3. QuestionsArePosed'
    <3>1. ASSUME NEW p, Posed(p) PROVE Posed(p)'
      <4>1. CASE p = q
        BY <2>2, <4>1 DEF Posed
      <4>2. CASE p # q
        <5>1. reqs'[<<p, 1>>] = reqs[<<p, 1>>]
          BY <4>2, <2>1 DEF Post, IInv, Typed
        <5> QED BY <1>1, <3>1, <5>1 DEF Posed
      <4> QED BY <4>1, <4>2
    <3>2. Posed(q)'
      BY <2>2 DEF Posed
    <3> QED BY <1>5, <3>1, <3>2
  <2>4. OnlyAwaited'
    BY <1>1, <2>1, <2>2 DEF ShowInv, Shows, OnlyAwaited
  <2>5. PageInv'
    <3> SUFFICES ASSUME Settled' PROVE WaitsForReply'
      BY <2>1 DEF PageInv
    <3>1. Alike(shown, rows[active])
      BY <1>1 DEF ShowInv, Shows, PageInv, Settled
    <3>2. reqs'[Awaited'].at = "sent" /\ With(shown', Asked') = Append(shown, U)
      BY <1>1, <1>8, <2>1, <2>2 DEF With
    <3>3. rows[active] \in Seq(Messages)
      BY <1>7 DEF IInv, Typed
    <3>4. Alike(Append(shown, U), Append(rows[active], U))
      BY <1>2, <3>1, <3>3, AlikeAppended
    <3> QED BY <1>1, <1>8, <3>2, <3>4 DEF WaitsForReply
  <2> QED BY <1>8, <2>3, <2>4, <2>5 DEF Shows
<1> QED BY <1>6, <1>7

(* The conversation that was made for a question is opened, which loads it. *)
LEMMA CreatedShows ==
  ASSUME IInv, ShowInv, NEW c \in Convs, Created(c) PROVE Shows'
<1>1. /\ send.at = "opening" /\ send.try = 1 /\ send.q \in Questions /\ Awaited = <<send.q, 1>> /\ Awaited \in Requests
      /\ UNCHANGED <<rows, shown, slip>> /\ Opens(c) /\ Post(Awaited, c, provider)
      /\ send' = [send EXCEPT !.at = "posted"]
  BY RequestsOf DEF Created, IInv, SendInv, Awaited
<1>2. send'.at = "posted" /\ Awaited' = Awaited
  BY <1>1 DEF IInv, Typed, Awaited
<1>3. /\ reqs'[Awaited].at = "sent" /\ reqs'[Awaited].conv = c
      /\ \A r \in Requests \ {Awaited} : reqs'[r] = reqs[r]
      /\ \A q : q # send.q => reqs'[<<q, 1>>] = reqs[<<q, 1>>]
  BY <1>1 DEF Post, Unsent, IInv, Typed
<1>4. ASSUME NEW q, Posed(q) PROVE Posed(q)'
  BY <1>1, <1>3, <1>4 DEF Posed
<1>5. /\ active' = c /\ \E l \in DOMAIN loads' : loads'[l].at = "asked"
      /\ \A l \in DOMAIN loads' : loads'[l].got = << >> \/ (l \in DOMAIN loads /\ loads'[l] = loads[l])
  BY <1>1, LoadBegins DEF ShowInv
<1>6. QuestionsArePosed'
  <2>1. \A m \in Range(shown') : m.temp => Posed(m.q)'
    BY <1>1, <1>4 DEF ShowInv, Shows, QuestionsArePosed
  <2>2. \A l \in DOMAIN loads' : \A m \in Range(loads'[l].got) : ~m.temp
    BY <1>5 DEF ShowInv, Shows, QuestionsArePosed, Range
  <2>3. \A d \in Convs : \A m \in Range(rows'[d]) : ~m.temp
    BY <1>1 DEF ShowInv, Shows, QuestionsArePosed
  <2> QED BY <2>1, <2>2, <2>3 DEF QuestionsArePosed
<1>7. OnlyAwaited'
  BY <1>1, <1>2, <1>3, <1>5 DEF ShowInv, Shows, OnlyAwaited
<1>8. PageInv'
  BY <1>5, Loading
<1>9. AskedOnce'
  <2>1. send'.q = send.q
    BY <1>1 DEF IInv, Typed
  <2> QED BY <1>1, <2>1 DEF ShowInv, Shows, AskedOnce, Asked
<1> QED BY <1>6, <1>7, <1>8, <1>9 DEF Shows

(* A question for which no conversation came to be stays on the page. *)
LEMMA CreateFailsShows ==
  ASSUME IInv, ShowInv, CreateFails PROVE Shows'
<1>0. PICK r \in Requests : r = Awaited
  BY RequestsOf DEF CreateFails, IInv, SendInv, Awaited
<1>1. /\ send.at = "opening" /\ r = <<send.q, 1>>
      /\ UNCHANGED <<rows, active, shown, loads, slip>> /\ send' = NotSending
  BY <1>0 DEF CreateFails, IInv, SendInv, Awaited
<1>2. reqs'[r].at = "failed" /\ \A o \in Requests \ {r} : reqs'[o] = reqs[o]
  BY <1>0 DEF CreateFails, IInv, Typed, ReqType
<1>3. ASSUME NEW q, Posed(q) PROVE Posed(q)'
  <2>1. CASE q = send.q
    BY <1>1, <1>2, <2>1 DEF Posed
  <2>2. CASE q # send.q
    <3>1. reqs'[<<q, 1>>] = reqs[<<q, 1>>]
      BY <1>0, <1>1, <2>2 DEF CreateFails, IInv, Typed
    <3> QED BY <1>3, <2>2, <3>1 DEF Posed
  <2> QED BY <2>1, <2>2
<1>4. QuestionsArePosed'
  <2>1. \A m \in Range(shown') : m.temp => Posed(m.q)'
    BY <1>1, <1>3 DEF ShowInv, Shows, QuestionsArePosed
  <2> QED BY <1>1, <2>1 DEF ShowInv, Shows, QuestionsArePosed
<1>5. OnlyAwaited'
  BY <1>1, <1>2 DEF ShowInv, Shows, OnlyAwaited, NotSending, Under
<1>6. AskedOnce' /\ PageInv'
  BY <1>1 DEF ShowInv, Shows, OnlyAwaited, AskedOnce, PageInv, Settled, NotSending
<1> QED BY <1>4, <1>5, <1>6 DEF Shows

(* The reply has been stored at the end of what is shown; now it is shown there. *)
LEMMA ReplyShows ==
  ASSUME IInv, ShowInv, ReplyArrives PROVE Shows'
<1>0. PICK q \in Questions : q = send.q
  BY DEF ReplyArrives, IInv, SendInv
<1> DEFINE U == User(q, TRUE)
           A == Assistant(q)
<1>1. /\ send.at = "posted" /\ reqs[Awaited].at = "answered" /\ Awaited \in Requests
      /\ shown' = RemoveFirst(shown, U) \o <<U, A>> /\ send' = NotSending
      /\ UNCHANGED <<rows, reqs, active, loads, slip>>
  BY <1>0, RequestsOf DEF ReplyArrives, IInv, SendInv, Typed, Awaited, server
<1>2. U \in Messages /\ A \in Messages /\ U.q = q /\ A.temp = FALSE /\ shown \in Seq(Messages)
  BY <1>0, MessagesOf DEF ShowInv, ShownTyped
<1>3. \A p : Posed(p) => Posed(p)'
  BY <1>1 DEF Posed
<1>4. Posed(q)'
  <2>1. reqs[<<q, 1>>].at # "none"
    <3>1. send.try \in {1, 2} /\ reqs[<<q, send.try>>].at # "none"
      BY <1>0, <1>1 DEF Awaited, IInv, Typed
    <3>2. reqs[<<q, 2>>].at # "none" => reqs[<<q, 1>>].at # "none"
      BY <1>0, <1>1 DEF IInv, SendInv
    <3> QED BY <3>1, <3>2
  <2> QED BY <1>1, <2>1 DEF Posed
<1>5. OnlyAwaited'
  BY <1>1 DEF ShowInv, Shows, OnlyAwaited, NotSending, Under
<1> HIDE DEF U, A
<1>7. shown' = Append(With(shown, U), A)
  <2>1. AtEnd(shown, U) \/ U \notin Range(shown)
    BY <1>0, <1>1 DEF ShowInv, Shows, AskedOnce, Asked, U
  <2> QED BY <1>1, <1>2, <2>1, ReplyTo
<1>6. QuestionsArePosed'
  <2>1. Range(shown') \subseteq Range(shown) \cup {U, A}
    BY <1>2, <1>7, WithQuestion, Appended
  <2>2. \A m \in Range(shown') : m.temp => Posed(m.q)'
    <3>1. ASSUME NEW m \in Range(shown), m.temp PROVE Posed(m.q)'
      BY <1>3, <3>1 DEF ShowInv, Shows, QuestionsArePosed
    <3>2. U.temp => Posed(U.q)'
      BY <1>2, <1>4
    <3> QED BY <1>2, <2>1, <3>1, <3>2
  <2> QED BY <1>1, <2>2 DEF ShowInv, Shows, QuestionsArePosed
<1>8. PageInv'
  <2> SUFFICES ASSUME Settled' PROVE Alike(shown', rows'[active'])
    BY <1>1 DEF PageInv, NotSending
  <2>1. WaitsForReply
    BY <1>1 DEF ShowInv, Shows, PageInv, Settled
  <2>2. rows[active] # << >> /\ Last(rows[active]) = A /\ Alike(With(shown, U), Front(rows[active]))
    BY <1>0, <1>1, <2>1 DEF WaitsForReply, Asked, U, A
  <2>3. rows[active] \in Seq(Messages)
    BY <1>1 DEF Settled, IInv, Typed
  <2>4. Front(rows[active]) \in Seq(Messages) /\ rows[active] = Append(Front(rows[active]), A)
    BY <2>2, <2>3, SplitAtLast
  <2>5. With(shown, U) \in Seq(Messages)
    BY <1>2, WithQuestion
  <2>6. Alike(Append(With(shown, U), A), Append(Front(rows[active]), A))
    BY <1>2, <2>2, <2>4, <2>5, AlikeAppended
  <2> QED BY <1>1, <1>7, <2>4, <2>6
<1>9. AskedOnce'
  BY <1>1 DEF AskedOnce, NotSending
<1> QED BY <1>5, <1>6, <1>8, <1>9 DEF Shows

(* A question that failed is sent once more, or left on the page; when it is *)
(* stored as well, page and conversation are alike.                          *)
LEMMA SendFailsShows ==
  ASSUME IInv, ShowInv, SendFails PROVE Shows'
<1>1. /\ send.at = "posted" /\ send.q \in Questions /\ send.try \in {1, 2} /\ Awaited \in Requests
      /\ Awaited = <<send.q, send.try>>
      /\ reqs[Awaited].at # "none" /\ reqs[Awaited].conv \in Convs
      /\ UNCHANGED <<rows, active, shown, loads>>
      /\ slip' = "none" => slip = "none" /\ reqs[Awaited].at = "failed"
  BY RequestsOf DEF SendFails, IInv, SendInv, Typed, Awaited
<1> DEFINE U == User(send.q, TRUE)
<1>2. ASSUME \A q : Posed(q) => Posed(q)' PROVE QuestionsArePosed'
  BY <1>1, <1>2 DEF ShowInv, Shows, QuestionsArePosed
<1>3. ASSUME Settled'
      PROVE  /\ slip = "none" /\ reqs[Awaited].at = "failed" /\ Settled /\ reqs[Awaited].conv = active
             /\ Alike(With(shown, U), Append(rows[active], U))
  <2>1. slip = "none" /\ reqs[Awaited].at = "failed" /\ Settled
    BY <1>1, <1>3 DEF Settled
  <2>2. WaitsForReply /\ reqs[Awaited].conv = active
    BY <1>1, <2>1 DEF ShowInv, Shows, PageInv, OnlyAwaited
  <2> QED BY <2>1, <2>2 DEF WaitsForReply, Asked
<1>4. CASE reqs[Awaited].via = "direct"
  <2> DEFINE again == <<send.q, 2>>
  <2>1. send.try = 1
    BY <1>1, <1>4 DEF IInv, SendInv
  <2>2. send' = [at |-> "posted", q |-> send.q, try |-> 2] /\ Post(again, reqs[Awaited].conv, "dax") /\ again \in Requests
    BY <1>1, <1>4, RequestsOf DEF SendFails, IInv, Typed
  <2>3. Awaited' = again /\ send'.at = "posted" /\ send'.q = send.q /\ send'.try = 2 /\ Asked' = U
    BY <2>2 DEF Awaited, Asked
  <2>4. /\ reqs'[again].at = "sent" /\ reqs'[again].conv = reqs[Awaited].conv
        /\ \A r \in Requests \ {again} : reqs'[r] = reqs[r]
        /\ \A q : reqs'[<<q, 1>>] = reqs[<<q, 1>>]
    BY <2>2 DEF Post, Unsent, IInv, Typed
  <2>5. QuestionsArePosed'
    BY <1>1, <1>2, <2>3, <2>4 DEF Posed
  <2>6. OnlyAwaited'
    BY <1>1, <2>3, <2>4 DEF ShowInv, Shows, OnlyAwaited, Under
  <2>7. AskedOnce'
    BY <1>1, <2>3 DEF ShowInv, Shows, AskedOnce, Asked
  <2>8. PageInv'
    <3> SUFFICES ASSUME Settled' PROVE WaitsForReply'
      BY <2>3 DEF PageInv
    <3>1. reqs'[Awaited'].at = "sent"
      BY <2>3, <2>4
    <3> QED BY <1>1, <1>3, <2>3, <3>1 DEF WaitsForReply
  <2> QED BY <2>5, <2>6, <2>7, <2>8 DEF Shows
<1>5. CASE reqs[Awaited].via # "direct"
  <2>1. send' = NotSending /\ UNCHANGED reqs
    BY <1>1, <1>5 DEF SendFails
  <2>2. QuestionsArePosed'
    BY <1>1, <1>2, <2>1 DEF Posed
  <2>3. OnlyAwaited'
    BY <1>1, <2>1 DEF ShowInv, Shows, OnlyAwaited, NotSending, Under
  <2>4. PageInv'
    <3> SUFFICES ASSUME Settled' PROVE Alike(shown, rows[active])
      BY <1>1, <2>1 DEF PageInv, NotSending
    <3> DEFINE ms == rows[active]
    <3>1. /\ Alike(With(shown, U), Append(ms, U)) /\ shown \in Seq(Messages) /\ U \in Messages
          /\ ms \in Seq(Messages)
      BY <1>1, <1>3, MessagesOf DEF ShowInv, ShownTyped, Settled, IInv, Typed
    <3>2. EndsWith(shown, send.q) /\ EndsWith(ms, send.q)
      BY <1>1, <1>3, <1>5 DEF SendFails, Settled
    <3>3. Says(Last(shown)) = Says(U) /\ Says(Last(ms)) = Says(U) /\ shown # << >> /\ ms # << >>
      BY <1>1, <3>2, MessagesOf DEF EndsWith
    <3> HIDE DEF U
    <3>4. Alike(shown, Append(shown, U)) /\ Alike(ms, Append(ms, U))
      BY <3>1, <3>3, AlikeEquiv, AlikeRepeated
    <3>5. Alike(shown, With(shown, U))
      BY <3>1, <3>4, AlikeEquiv DEF With
    <3>6. With(shown, U) \in Seq(Messages) /\ Append(ms, U) \in Seq(Messages)
      BY <3>1, WithQuestion, Appended
    <3>7. Alike(shown, Append(ms, U)) /\ Alike(Append(ms, U), ms)
      BY <3>1, <3>4, <3>5, <3>6, AlikeEquiv
    <3> QED BY <3>1, <3>6, <3>7, AlikeEquiv
  <2>5. AskedOnce'
    BY <2>1 DEF AskedOnce, NotSending
  <2> QED BY <2>2, <2>3, <2>4, <2>5 DEF Shows
<1> QED BY <1>4, <1>5

-----------------------------------------------------------------------------
(* The steps of the API and of the engine. *)

(* A request that is under way, while nothing has set page and conversation  *)
(* apart, is the one that the page waits for, in the conversation it shows.  *)
LEMMA RequestGoesOn ==
  ASSUME IInv, ShowInv, NEW r \in Requests, NEW rec \in ReqType,
         reqs' = [reqs EXCEPT ![r] = rec], reqs[r].at \in Under,
         rec.at # "none", rec.conv = reqs[r].conv, UNCHANGED page
  PROVE  /\ reqs'[r] = rec
         /\ \A q : Posed(q)' = Posed(q)
         /\ OnlyAwaited'
         /\ slip = "none" => send.at = "posted" /\ r = Awaited /\ Awaited' = Awaited /\ reqs[r].conv = active
<1>1. reqs'[r] = rec /\ \A o \in Requests \ {r} : reqs'[o] = reqs[o]
  BY DEF IInv, Typed
<1>2. reqs[r].at # "none"
  BY DEF Under
<1>3. UNCHANGED <<active, shown, loads, send, slip>> /\ Awaited' = Awaited
  BY DEF page, Awaited
<1>4. ASSUME NEW q PROVE Posed(q)' = Posed(q)
  <2>1. (reqs'[<<q, 1>>].at # "none") = (reqs[<<q, 1>>].at # "none")
    <3>1. CASE <<q, 1>> = r
      BY <1>1, <1>2, <3>1
    <3>2. CASE <<q, 1>> # r
      BY <3>2 DEF IInv, Typed
    <3> QED BY <3>1, <3>2
  <2> QED BY <1>3, <2>1 DEF Posed
<1>5. slip = "none" => send.at = "posted" /\ r = Awaited /\ reqs[r].conv = active
  BY DEF ShowInv, Shows, OnlyAwaited
<1>6. OnlyAwaited'
  BY <1>1, <1>3, <1>5 DEF ShowInv, Shows, OnlyAwaited
<1> QED BY <1>1, <1>3, <1>4, <1>5, <1>6

(* A reply is found, or will not be, or the request fails for what cannot be *)
(* stored: neither page nor conversation changes.                            *)
LEMMA ReplyFoundShows ==
  ASSUME IInv, ShowInv, NEW r \in Requests, NEW rec \in ReqType,
         reqs' = [reqs EXCEPT ![r] = rec], reqs[r].at \in Under,
         \/ rec.at \in {"waiting", "replying"} /\ reqs[r].at \in {"stored", "waiting"}
         \/ rec.at = "failed",
         rec.conv = reqs[r].conv, UNCHANGED <<rows, page>>
  PROVE  Shows'
<1>1. /\ reqs'[r] = rec /\ (\A q : Posed(q)' = Posed(q)) /\ OnlyAwaited'
      /\ slip = "none" => send.at = "posted" /\ r = Awaited /\ Awaited' = Awaited /\ reqs[r].conv = active
  BY RequestGoesOn DEF Under
<1>2. UNCHANGED <<active, shown, loads, send, slip, rows>>
  BY DEF page
<1>3. QuestionsArePosed'
  BY <1>1, <1>2 DEF ShowInv, Shows, QuestionsArePosed
<1>4. PageInv'
  <2> SUFFICES ASSUME Settled' PROVE send.at # "idle" /\ WaitsForReply'
    BY <1>2 DEF PageInv
  <2>1. Settled /\ send.at = "posted" /\ r = Awaited /\ Awaited' = Awaited /\ Asked' = Asked
    BY <1>1, <1>2 DEF Settled, Asked
  <2>2. WaitsForReply /\ send.q \in Questions /\ active \in Convs
    BY <2>1 DEF ShowInv, Shows, PageInv, IInv, SendInv, Typed, Settled
  <2>3. /\ shown \in Seq(Messages) /\ rows[active] \in Seq(Messages) /\ Asked \in Messages
        /\ With(shown, Asked) \in Seq(Messages) /\ With(shown, Asked) # << >> /\ Last(With(shown, Asked)) = Asked
    BY <2>2, MessagesOf, WithQuestion DEF ShowInv, ShownTyped, IInv, Typed, Asked
  <2>4. reqs[r].at \in {"stored", "waiting", "replying"} => Alike(With(shown, Asked), rows[active])
    BY <2>1, <2>2 DEF WaitsForReply
  <2>5. reqs[r].at \in {"stored", "waiting", "replying"} => Alike(With(shown, Asked), Append(rows[active], Asked))
    BY <2>3, <2>4, AlikeRepeated
  <2>6. reqs[r].at = "sent" => Alike(With(shown, Asked), Append(rows[active], Asked))
    BY <2>1, <2>2 DEF WaitsForReply
  <2>7. reqs'[Awaited'].at = rec.at
    BY <1>1, <2>1
  <2> QED BY <1>2, <2>1, <2>4, <2>5, <2>6, <2>7 DEF WaitsForReply, Under
<1>5. AskedOnce'
  BY <1>2 DEF ShowInv, Shows, AskedOnce, Asked
<1> QED BY <1>1, <1>3, <1>4, <1>5 DEF Shows

(* A request fails. *)
LEMMA GivesShows ==
  ASSUME IInv, ShowInv, NEW r \in Requests, reqs[r].at \in Under, NEW unread \in BOOLEAN, Gives(r, unread),
         UNCHANGED <<rows, page>>
  PROVE  Shows'
<1> DEFINE rec == [reqs[r] EXCEPT !.at = "failed", !.unread = unread]
<1>1. reqs[r] \in ReqType
  BY DEF IInv, Typed
<1>2. reqs' = [reqs EXCEPT ![r] = rec]
  BY DEF Gives, IInv, Typed, ReqType
<1>3. rec \in ReqType /\ rec.conv = reqs[r].conv /\ rec.at = "failed"
  BY <1>1 DEF ReqType, States, Under
<1> HIDE DEF rec
<1> QED BY <1>1, <1>2, <1>3, ReplyFoundShows

LEMMA FindReplyShows ==
  ASSUME IInv, ShowInv, NEW r \in Requests, FindReply(r) \/ Poll(r) PROVE Shows'
<1>1. /\ reqs[r] \in ReqType /\ reqs[r].at \in {"stored", "waiting"} /\ UNCHANGED <<rows, page>>
  BY DEF IInv, FindReply, Poll, Typed
<1>2. ASSUME NEW how \in {"text", "link", "kept"}, Replies(r, how) PROVE Shows'
  <2> DEFINE rec == [reqs[r] EXCEPT !.at = "replying", !.reply = how]
  <2>1. reqs' = [reqs EXCEPT ![r] = rec]
    BY <1>2 DEF Replies, IInv, Typed, ReqType
  <2>2. rec \in ReqType /\ rec.conv = reqs[r].conv /\ rec.at = "replying"
    BY <1>1 DEF ReqType, States, Under
  <2> HIDE DEF rec
  <2> QED BY <1>1, <2>1, <2>2, ReplyFoundShows DEF Under
<1>3. ASSUME NEW unread \in BOOLEAN, Gives(r, unread) PROVE Shows'
  BY <1>1, <1>3, GivesShows DEF Under
<1>4. ASSUME reqs' = [reqs EXCEPT ![r].at = "waiting"] PROVE Shows'
  <2> DEFINE rec == [reqs[r] EXCEPT !.at = "waiting"]
  <2>1. reqs' = [reqs EXCEPT ![r] = rec]
    BY <1>4 DEF IInv, Typed, ReqType
  <2>2. rec \in ReqType /\ rec.conv = reqs[r].conv /\ rec.at = "waiting"
    BY <1>1 DEF ReqType, States, Under
  <2> HIDE DEF rec
  <2> QED BY <1>1, <2>1, <2>2, ReplyFoundShows DEF Under
<1> QED BY <1>2, <1>3, <1>4 DEF FindReply, Poll

(* A message is stored at the end of its conversation. *)
LEMMA StoredShows ==
  ASSUME IInv, ShowInv, NEW c \in Convs, NEW m \in Messages, ~m.temp,
         rows' = [rows EXCEPT ![c] = Append(@, m)], UNCHANGED page, \A q : Posed(q)' = Posed(q)
  PROVE  QuestionsArePosed' /\ AskedOnce' /\ rows'[c] = Append(rows[c], m) /\ rows[c] \in Seq(Messages)
<1>1. /\ rows'[c] = Append(rows[c], m) /\ rows[c] \in Seq(Messages)
      /\ \A d \in Convs \ {c} : rows'[d] = rows[d]
  BY DEF IInv, Typed
<1>2. Range(rows'[c]) = Range(rows[c]) \cup {m}
  BY <1>1, Appended
<1>3. \A d \in Convs : \A n \in Range(rows'[d]) : ~n.temp
  BY <1>1, <1>2 DEF ShowInv, Shows, QuestionsArePosed
<1>4. AskedOnce'
  BY DEF ShowInv, Shows, AskedOnce, Asked, page
<1> QED BY <1>1, <1>3, <1>4 DEF ShowInv, Shows, QuestionsArePosed, page

LEMMA StoredQuestionShows ==
  ASSUME IInv, ShowInv, NEW r \in Requests, reqs[r].at = "sent",
         rows' = [rows EXCEPT ![reqs[r].conv] = Append(@, User(r[1], FALSE))],
         reqs' = [reqs EXCEPT ![r].at = "stored"], UNCHANGED page
  PROVE  Shows'
<1> DEFINE rec == [reqs[r] EXCEPT !.at = "stored"]
           c == reqs[r].conv
           m == User(r[1], FALSE)
<1>1. reqs[r] \in ReqType /\ reqs[r].at = "sent" /\ c \in Convs /\ r[1] \in Questions
  BY RequestsOf DEF IInv, RequestInv, Typed
<1>2. reqs' = [reqs EXCEPT ![r] = rec] /\ rows' = [rows EXCEPT ![c] = Append(@, m)]
  BY DEF m
<1>3. rec \in ReqType /\ rec.conv = c /\ rec.at = "stored"
  BY <1>1 DEF ReqType, States, Under
<1>4. m \in Messages /\ ~m.temp /\ Says(User(r[1], TRUE)) = Says(m) /\ User(r[1], TRUE) \in Messages
  BY <1>1, MessagesOf
<1> HIDE DEF rec, m
<1>5. /\ reqs'[r] = rec /\ (\A q : Posed(q)' = Posed(q)) /\ OnlyAwaited'
      /\ slip = "none" => send.at = "posted" /\ r = Awaited /\ Awaited' = Awaited /\ c = active
  BY <1>1, <1>2, <1>3, RequestGoesOn DEF Under
<1>6. QuestionsArePosed' /\ AskedOnce' /\ rows'[c] = Append(rows[c], m) /\ rows[c] \in Seq(Messages)
  BY <1>1, <1>2, <1>4, <1>5, StoredShows
<1>7. UNCHANGED <<active, shown, loads, send, slip>>
  BY <1>1 DEF page
<1>8. PageInv'
  <2> SUFFICES ASSUME Settled' PROVE send.at # "idle" /\ WaitsForReply'
    BY <1>7 DEF PageInv
  <2>1. Settled /\ send.at = "posted" /\ r = Awaited /\ Awaited' = Awaited /\ c = active /\ Asked' = Asked
    BY <1>5, <1>7 DEF Settled, Asked
  <2>2. Alike(With(shown, Asked), Append(rows[c], Asked)) /\ r[1] = send.q /\ Asked \in Messages /\ Says(Asked) = Says(m)
    BY <1>1, <1>4, <2>1 DEF ShowInv, Shows, PageInv, WaitsForReply, Awaited, IInv, Typed, Asked
  <2>3. With(shown, Asked) \in Seq(Messages) /\ Append(rows[c], Asked) \in Seq(Messages) /\ Append(rows[c], m) \in Seq(Messages)
    BY <1>4, <1>6, <2>2, WithQuestion, Appended DEF ShowInv, ShownTyped
  <2>4. Alike(Append(rows[c], Asked), Append(rows[c], m))
    BY <1>4, <1>6, <2>2, AlikeEquiv, AlikeAppended
  <2>5. Alike(With(shown, Asked), Append(rows[c], m))
    BY <2>2, <2>3, <2>4, AlikeEquiv
  <2>6. reqs'[Awaited'].at = "stored" /\ rows'[active'] = Append(rows[c], m)
    BY <1>3, <1>5, <1>6, <1>7, <2>1
  <2>7. With(shown', Asked') = With(shown, Asked)
    BY <1>7, <2>1
  <2>8. WaitsForReply'
    BY <2>5, <2>6, <2>7 DEF WaitsForReply
  <2> QED BY <2>1, <2>8
<1> QED BY <1>5, <1>6, <1>8 DEF Shows

LEMMA StoredReplyShows ==
  ASSUME IInv, ShowInv, NEW r \in Requests, reqs[r].at = "replying",
         rows' = [rows EXCEPT ![reqs[r].conv] = Append(@, Assistant(r[1]))],
         reqs' = [reqs EXCEPT ![r].at = "answered"], UNCHANGED page
  PROVE  Shows'
<1> DEFINE rec == [reqs[r] EXCEPT !.at = "answered"]
           c == reqs[r].conv
           m == Assistant(r[1])
<1>1. reqs[r] \in ReqType /\ reqs[r].at = "replying" /\ c \in Convs /\ r[1] \in Questions
  BY RequestsOf DEF IInv, RequestInv, Typed
<1>2. reqs' = [reqs EXCEPT ![r] = rec] /\ rows' = [rows EXCEPT ![c] = Append(@, m)]
  BY DEF m
<1>3. rec \in ReqType /\ rec.conv = c /\ rec.at = "answered"
  BY <1>1 DEF ReqType, States, Under
<1>4. m \in Messages /\ ~m.temp
  BY <1>1, MessagesOf
<1> HIDE DEF rec, m
<1>5. /\ reqs'[r] = rec /\ (\A q : Posed(q)' = Posed(q)) /\ OnlyAwaited'
      /\ slip = "none" => send.at = "posted" /\ r = Awaited /\ Awaited' = Awaited /\ c = active
  BY <1>1, <1>2, <1>3, RequestGoesOn DEF Under
<1>6. QuestionsArePosed' /\ AskedOnce' /\ rows'[c] = Append(rows[c], m) /\ rows[c] \in Seq(Messages)
  BY <1>1, <1>2, <1>4, <1>5, StoredShows
<1>7. UNCHANGED <<active, shown, loads, send, slip>>
  BY <1>1 DEF page
<1>8. PageInv'
  <2> SUFFICES ASSUME Settled' PROVE send.at # "idle" /\ WaitsForReply'
    BY <1>7 DEF PageInv
  <2>1. Settled /\ send.at = "posted" /\ r = Awaited /\ Awaited' = Awaited /\ c = active /\ Asked' = Asked
    BY <1>5, <1>7 DEF Settled, Asked
  <2>2. WaitsForReply /\ r[1] = send.q /\ reqs[Awaited].at = "replying"
    BY <1>1, <2>1 DEF ShowInv, Shows, PageInv, Awaited, IInv, Typed
  <2>3. Alike(With(shown, Asked), rows[c])
    BY <2>1, <2>2 DEF WaitsForReply
  <2>4. reqs'[Awaited'].at = "answered" /\ rows'[active'] = Append(rows[c], m)
    BY <1>3, <1>5, <1>6, <1>7, <2>1
  <2>5. Append(rows[c], m) # << >> /\ Last(Append(rows[c], m)) = m /\ Front(Append(rows[c], m)) = rows[c]
    BY <1>4, <1>6, Appended
  <2>6. With(shown', Asked') = With(shown, Asked) /\ send' = send
    BY <1>7, <2>1
  <2>7. WaitsForReply'
    BY <2>2, <2>3, <2>4, <2>5, <2>6 DEF WaitsForReply, m
  <2> QED BY <2>1, <2>7
<1> QED BY <1>5, <1>6, <1>8 DEF Shows

LEMMA StoreShows ==
  ASSUME IInv, ShowInv, NEW r \in Requests, StoreQuestion(r) \/ StoreReply(r) PROVE Shows'
<1>1. UNCHANGED page /\ reqs[r].at \in Under
  BY DEF StoreQuestion, StoreReply, Under
<1>2. CASE StoreQuestion(r)
  BY <1>1, <1>2, StoredQuestionShows, GivesShows DEF StoreQuestion
<1>3. CASE StoreReply(r)
  BY <1>1, <1>3, StoredReplyShows, GivesShows DEF StoreReply
<1> QED BY <1>2, <1>3

LEMMA RestShows ==
  ASSUME IInv, ShowInv, UNCHANGED <<rows, reqs, page>> PROVE Shows'
BY DEF ShowInv, Shows, QuestionsArePosed, Posed, OnlyAwaited, AskedOnce, Asked, PageInv, Settled,
       WaitsForReply, Awaited, page

-----------------------------------------------------------------------------
LEMMA ShownTypes ==
  ASSUME IInv, ShownTyped, [Next]_vars PROVE ShownTyped'
<1> USE DEF ShownTyped
<1>1. failures' \in 0 .. MaxFailures
  <2>1. ASSUME NEW r \in Requests, FindReply(r) \/ Poll(r) \/ StoreQuestion(r) \/ StoreReply(r)
        PROVE  failures' = failures \/ Fails
    BY <2>1 DEF FindReply, Poll, StoreQuestion, StoreReply
  <2>2. ASSUME SendFails \/ CreateFails PROVE failures' = failures \/ Fails
    BY <2>2 DEF SendFails, CreateFails
  <2>3. failures' = failures \/ Fails
    BY <2>1, <2>2 DEF Next, Move, LoadRead, LoadAnswered, LoadFails, Send, Created, ReplyArrives,
       RunMoves, vars
  <2> QED BY <2>3, BoundsAssumption DEF Fails
<1>2. slip' \in Slips
  BY DEF Next, Move, LoadRead, LoadAnswered, LoadFails, Send, Created, CreateFails, ReplyArrives, SendFails, Slips,
     StoreQuestion, FindReply, Poll, StoreReply, RunMoves, vars, page
<1>3. ASSUME NEW c \in Convs \cup {NoConv}, Move(c) PROVE shown' \in Seq(Messages) /\ loads' \in Seq(LoadType)
  <2>1. << >> \in Seq(Messages)
    OBVIOUS
  <2>2. CASE c \in made /\ Opens(c) /\ UNCHANGED shown
    <3>1. c \in Convs /\ Opens(c)
      BY <2>2 DEF IInv, Typed
    <3> QED BY <2>2, <3>1, LoadBegins
  <2>3. CASE ~(c \in made /\ Opens(c) /\ UNCHANGED shown)
    BY <1>3, <2>1, <2>3 DEF Move
  <2> QED BY <2>2, <2>3
<1>4. ASSUME NEW l \in DOMAIN loads, LoadRead(l) \/ LoadAnswered(l) \/ LoadFails(l)
      PROVE  shown' \in Seq(Messages) /\ loads' \in Seq(LoadType)
  <2>1. loads[l] \in LoadType
    OBVIOUS
  <2>2. loads[l].got \in Seq(Messages) /\ First(rows[loads[l].conv]) \in Seq(Messages) /\ << >> \in Seq(Messages)
    BY <2>1, FirstOf DEF LoadType, IInv, Typed
  <2>3. shown' \in Seq(Messages)
    BY <1>4, <2>2 DEF LoadRead, LoadAnswered, LoadFails
  <2>4. PICK at \in {"asked", "read", "done"}, got \in Seq(Messages) :
          loads' = [loads EXCEPT ![l].at = at, ![l].got = got]
    BY <1>4, <2>2 DEF LoadRead, LoadAnswered, LoadFails, Done
  <2> QED BY <2>3, <2>4, LoadGoesOn
<1>5. ASSUME NEW q \in Questions, Send(q) PROVE shown' \in Seq(Messages) /\ loads' \in Seq(LoadType)
  BY <1>5, MessagesOf, Appended DEF Send
<1>6. ASSUME NEW c \in Convs, Created(c) PROVE shown' \in Seq(Messages) /\ loads' \in Seq(LoadType)
  BY <1>6, LoadBegins DEF Created
<1>7. ASSUME ReplyArrives PROVE shown' \in Seq(Messages) /\ loads' \in Seq(LoadType)
  <2>1. PICK q \in Questions : q = send.q
    BY <1>7 DEF ReplyArrives, IInv, SendInv
  <2>2. RemoveFirst(shown, User(q, TRUE)) \in Seq(Messages)
    BY RemoveFirstKeeps
  <2>3. /\ shown' = RemoveFirst(shown, User(q, TRUE)) \o <<User(q, TRUE), Assistant(q)>> /\ UNCHANGED loads
        /\ User(q, TRUE) \in Messages /\ Assistant(q) \in Messages
    BY <1>7, <2>1, MessagesOf DEF ReplyArrives
  <2>4. shown' = Append(Append(RemoveFirst(shown, User(q, TRUE)), User(q, TRUE)), Assistant(q))
    BY <2>2, <2>3, AppendTwo
  <2> QED BY <2>2, <2>3, <2>4, Appended
<1>8. ASSUME SendFails \/ CreateFails PROVE shown' \in Seq(Messages) /\ loads' \in Seq(LoadType)
  <2>1. UNCHANGED <<shown, loads>>
    BY <1>8 DEF SendFails, CreateFails
  <2> QED BY <2>1
<1>9. ASSUME NEW r \in Requests, StoreQuestion(r) \/ FindReply(r) \/ Poll(r) \/ StoreReply(r) \/ RunMoves(r)
      PROVE  shown' \in Seq(Messages) /\ loads' \in Seq(LoadType)
  BY <1>9 DEF StoreQuestion, FindReply, Poll, StoreReply, RunMoves, page
<1>10. ASSUME UNCHANGED vars PROVE shown' \in Seq(Messages) /\ loads' \in Seq(LoadType)
  BY <1>10 DEF vars, page
<1>11. shown' \in Seq(Messages) /\ loads' \in Seq(LoadType)
  BY <1>3, <1>4, <1>5, <1>6, <1>7, <1>8, <1>9, <1>10 DEF Next
<1>12. booting' \in BOOLEAN
  BY DEF Next, Move, Opens, LoadRead, LoadAnswered, LoadFails, Done, Send, Created, ReplyArrives, SendFails, CreateFails,
     StoreQuestion, FindReply, Poll, StoreReply, RunMoves, vars, page
<1> QED BY <1>1, <1>2, <1>11, <1>12

LEMMA InitShowInv == Init => ShowInv
<1> SUFFICES ASSUME Init PROVE ShowInv
  OBVIOUS
<1>1. ShownTyped
  <2>1. shown = << >> /\ loads = << >> /\ slip = "none" /\ booting = FALSE /\ failures = 0
    BY DEF Init
  <2>2. failures \in 0 .. MaxFailures
    BY <2>1, BoundsAssumption
  <2>3. << >> \in Seq(Messages) /\ << >> \in Seq(LoadType)
    OBVIOUS
  <2> QED BY <2>1, <2>2, <2>3 DEF ShownTyped, Slips
<1>2. QuestionsArePosed
  BY DEF Init, QuestionsArePosed, Range
<1>3. OnlyAwaited
  BY DEF Init, OnlyAwaited, NotSending, Unsent, Under
<1>4. PageInv
  BY DEF Init, PageInv, Settled
<1>5. AskedOnce
  BY DEF Init, AskedOnce, NotSending
<1> QED BY <1>1, <1>2, <1>3, <1>4, <1>5 DEF ShowInv, Shows

LEMMA NextShowInv == IInv /\ ShowInv /\ [Next]_vars => ShowInv'
<1> SUFFICES ASSUME IInv, ShowInv, [Next]_vars PROVE ShowInv'
  OBVIOUS
<1>1. ShownTyped'
  BY ShownTypes DEF ShowInv
<1>2. ASSUME NEW l \in DOMAIN loads, LoadRead(l) \/ LoadAnswered(l) \/ LoadFails(l) PROVE Shows'
  BY <1>2, LoadReadShows, LoadAnsweredShows, LoadFailsShows
<1>3. ASSUME NEW r \in Requests, StoreQuestion(r) \/ FindReply(r) \/ Poll(r) \/ StoreReply(r) \/ RunMoves(r)
      PROVE  Shows'
  BY <1>3, StoreShows, FindReplyShows, RestShows DEF RunMoves
<1>4. ASSUME UNCHANGED vars PROVE Shows'
  <2>1. UNCHANGED <<rows, reqs, page>>
    BY <1>4 DEF vars, server
  <2> QED BY <2>1, RestShows
<1>5. ASSUME NEW c \in Convs \cup {NoConv}, Move(c) PROVE Shows'
  BY <1>5, MoveShows
<1>6. ASSUME NEW c \in Convs, Created(c) PROVE Shows'
  BY <1>6, CreatedShows
<1>7. ASSUME NEW q \in Questions, Send(q) PROVE Shows'
  BY <1>7, SendShows
<1>8. ASSUME ReplyArrives \/ SendFails \/ CreateFails PROVE Shows'
  BY <1>8, ReplyShows, SendFailsShows, CreateFailsShows
<1>9. Shows'
  BY <1>2, <1>3, <1>4, <1>5, <1>6, <1>7, <1>8 DEF Next
<1> QED BY <1>1, <1>9 DEF ShowInv

(* The inductive invariant about the page holds of every reachable state.    *)
THEOREM PageInvariance == Spec => [](IInv /\ ShowInv)
BY InitIInv, NextIInv, InitShowInv, NextShowInv, PTL DEF Spec

(* Every variable of Chat always has its type. *)
THEOREM TypeCorrect == Spec => []TypeOK
<1>1. IInv /\ ShowInv => TypeOK
  <2>1. ReqType = [at : Under \cup {"none", "answered", "failed"}, conv : Convs \cup {NoConv},
                   via : {"dax", "direct"}, reply : {"none", "text", "link", "kept"}, unread : BOOLEAN]
    BY DEF ReqType, States
  <2>2. LoadType = [conv : Convs, at : {"asked", "read", "done"}, got : Seq(Messages)]
    BY DEF LoadType
  <2> HIDE DEF ReqType, LoadType
  <2> QED BY ONLY <2>1, <2>2 DEF IInv, Typed, ShowInv, ShownTyped, TypeOK
<1> QED BY <1>1, PageInvariance, PTL

(* A quiet page shows what the open conversation holds, in its order, unless *)
(* one of the events has set them apart that the property names; a question  *)
(* that fails and is sent again, or whose own first load overlaps with it,   *)
(* does not (handleSend, loadConversation, sendMessage).                     *)
THEOREM PageIsTrue == Spec => []PageShowsConversation
<1>1. ShowInv => PageShowsConversation
  BY DEF ShowInv, Shows, PageInv, Settled, PageShowsConversation, Quiet, NotSending, Alike
<1> QED BY <1>1, PageInvariance, PTL

-----------------------------------------------------------------------------
(***************************************************************************)
(* Replies and their questions, whatever has set page and conversation     *)
(* apart.  What is stored, what a load has read and what the page shows is *)
(* backed: each reply stands after its question and is the answer of some  *)
(* request.  Answers stay and conversations only grow, so that what was    *)
(* backed once remains so.                                                 *)
(***************************************************************************)
Follows(ms) ==
  \A i \in DOMAIN ms : ms[i].who = "assistant" => \E h \in 1 .. (i - 1) : Says(ms[h]) = <<"user", ms[i].q>>
Replied(m, rq, rw) == \E r \in Requests : r[1] = m.q /\ rq[r].at = "answered" /\ m \in Range(rw[rq[r].conv])
Backed(ms, rq, rw) == Follows(ms) /\ \A m \in Range(ms) : m.who = "assistant" => Replied(m, rq, rw)

(* The question of a request, once it is stored, is in its conversation. *)
QuestionStored(r, rq, rw) ==
  rq[r].at \in {"stored", "waiting", "replying"} =>
    \E m \in Range(rw[rq[r].conv]) : Says(m) = <<"user", r[1]>>

FollowInv ==
  /\ \A c \in Convs : Backed(rows[c], reqs, rows)
  /\ \A l \in DOMAIN loads : Backed(loads[l].got, reqs, rows)
  /\ Backed(shown, reqs, rows)
  /\ \A r \in Requests : QuestionStored(r, reqs, rows)

LEMMA FollowsAppended ==
  ASSUME NEW ms \in Seq(Messages), Follows(ms), NEW x \in Messages,
         x.who = "assistant" => \E m \in Range(ms) : Says(m) = <<"user", x.q>>
  PROVE  Follows(Append(ms, x))
<1> SUFFICES ASSUME NEW i \in DOMAIN Append(ms, x), Append(ms, x)[i].who = "assistant"
             PROVE  \E h \in 1 .. (i - 1) : Says(Append(ms, x)[h]) = <<"user", Append(ms, x)[i].q>>
  BY DEF Follows
<1>1. CASE i \in 1 .. Len(ms)
  <2>1. Append(ms, x)[i] = ms[i] /\ i \in DOMAIN ms
    BY <1>1
  <2>2. PICK h \in 1 .. (i - 1) : Says(ms[h]) = <<"user", ms[i].q>>
    BY <2>1 DEF Follows
  <2>3. Append(ms, x)[h] = ms[h]
    BY <1>1
  <2> QED BY <2>1, <2>2, <2>3
<1>2. CASE i = Len(ms) + 1
  <2>1. Append(ms, x)[i] = x
    BY <1>2
  <2>2. PICK h \in DOMAIN ms : Says(ms[h]) = <<"user", x.q>>
    BY <2>1 DEF Range
  <2>3. h \in 1 .. (i - 1) /\ Append(ms, x)[h] = ms[h]
    BY <1>2
  <2> QED BY <2>1, <2>2, <2>3
<1> QED BY <1>1, <1>2

LEMMA FollowsFirst ==
  ASSUME NEW ms \in Seq(Messages), Follows(ms)
  PROVE  Follows(First(ms))
<1> DEFINE n == IF Len(ms) < Take THEN Len(ms) ELSE Take
<1>1. n \in Nat /\ n <= Len(ms)
  BY BoundsAssumption
<1>2. First(ms) = SubSeq(ms, 1, n)
  BY DEF First
<1> HIDE DEF n
<1>3. /\ DOMAIN SubSeq(ms, 1, n) = 1 .. n
      /\ \A i \in 1 .. n : SubSeq(ms, 1, n)[i] = ms[i] /\ i \in DOMAIN ms
  BY <1>1
<1> SUFFICES ASSUME NEW i \in 1 .. n, ms[i].who = "assistant"
             PROVE  \E h \in 1 .. (i - 1) : Says(SubSeq(ms, 1, n)[h]) = <<"user", ms[i].q>>
  BY <1>2, <1>3 DEF Follows
<1>4. PICK h \in 1 .. (i - 1) : Says(ms[h]) = <<"user", ms[i].q>>
  BY <1>3 DEF Follows
<1>5. h \in 1 .. n
  BY <1>1, <1>4
<1> QED BY <1>3, <1>4, <1>5

(* Answered requests stay so, and no message of a conversation is removed.   *)
LEMMA ServerGrows ==
  ASSUME IInv, [Next]_vars
  PROVE  /\ \A r \in Requests : reqs[r].at = "answered" => reqs'[r] = reqs[r]
         /\ \A c \in Convs : Range(rows[c]) \subseteq Range(rows'[c])
<1> DEFINE Grows == /\ \A r \in Requests : reqs[r].at = "answered" => reqs'[r] = reqs[r]
                    /\ \A c \in Convs : Range(rows[c]) \subseteq Range(rows'[c])
<1>1. ASSUME NEW r \in Requests, NEW rec, reqs' = [reqs EXCEPT ![r] = rec], reqs[r].at # "answered", UNCHANGED rows
      PROVE  Grows
  BY <1>1 DEF IInv, Typed
<1>2. ASSUME UNCHANGED <<rows, reqs>> PROVE Grows
  BY <1>2
<1>3. ASSUME NEW r \in Requests, FindReply(r) \/ Poll(r) \/ RunMoves(r) PROVE Grows
  BY <1>1, <1>2, <1>3 DEF FindReply, Poll, RunMoves, Replies, Gives
<1>4. ASSUME NEW r \in Requests, StoreQuestion(r) \/ StoreReply(r) PROVE Grows
  <2>1. CASE UNCHANGED rows
    BY <1>1, <1>4, <2>1 DEF StoreQuestion, StoreReply, Gives
  <2>2. CASE ~UNCHANGED rows
    <3>1. PICK m \in Messages : rows' = [rows EXCEPT ![reqs[r].conv] = Append(@, m)]
      BY <1>4, <2>2, RequestsOf, MessagesOf DEF StoreQuestion, StoreReply
    <3>2. reqs[r].conv \in Convs /\ reqs[r].at # "answered"
      BY <1>4 DEF StoreQuestion, StoreReply, IInv, RequestInv
    <3>3. \A c \in Convs : Range(rows[c]) \subseteq Range(rows'[c])
      BY <3>1, <3>2, RowsGrow DEF IInv
    <3>4. \A o \in Requests \ {r} : reqs'[o] = reqs[o]
      BY <1>4 DEF StoreQuestion, StoreReply, Gives, IInv, Typed
    <3> QED BY <3>2, <3>3, <3>4
  <2> QED BY <2>1, <2>2
<1>5. ASSUME NEW q \in Questions, Send(q) PROVE Grows
  <2>1. reqs[<<q, 1>>].at = "none" /\ <<q, 1>> \in Requests
    <3>1. (reqs[<<q, 1>>].at # "none") <=> q < q
      BY <1>5 DEF Send
    <3>2. ~(q < q)
      BY DEF Questions
    <3> QED BY <3>1, <3>2, RequestsOf
  <2> QED BY <1>1, <1>2, <1>5, <2>1 DEF Send, Post
<1>6. ASSUME NEW c \in Convs, Created(c) PROVE Grows
  <2>1. Awaited \in Requests /\ reqs[Awaited].at = "none"
    BY <1>6, RequestsOf DEF Created, IInv, SendInv, Awaited
  <2> QED BY <1>1, <1>6, <2>1 DEF Created, Post
<1>7. ASSUME CreateFails PROVE Grows
  <2>1. Awaited \in Requests /\ reqs[Awaited].at = "none"
    BY <1>7, RequestsOf DEF CreateFails, IInv, SendInv, Awaited
  <2> QED BY <1>1, <1>7, <2>1 DEF CreateFails
<1>8. ASSUME SendFails PROVE Grows
  <2>1. CASE reqs[Awaited].via = "direct"
    <3>1. /\ send.at = "posted" /\ send.q \in Questions /\ send.try \in {1, 2}
          /\ <<send.q, 2>> \in Requests /\ Awaited = <<send.q, send.try>>
      BY <1>8, RequestsOf DEF SendFails, IInv, SendInv, Typed, Awaited
    <3>2. send.try = 1
      BY <2>1, <3>1 DEF IInv, SendInv
    <3>3. reqs[<<send.q, 2>>].at = "none"
      BY <3>1, <3>2, TriedAgain DEF IInv
    <3> QED BY <1>1, <1>8, <2>1, <3>1, <3>3 DEF SendFails, Post
  <2> QED BY <1>2, <1>8, <2>1 DEF SendFails
<1>9. ASSUME NEW l \in DOMAIN loads, LoadRead(l) \/ LoadAnswered(l) \/ LoadFails(l) PROVE Grows
  BY <1>2, <1>9 DEF LoadRead, LoadAnswered, LoadFails, server
<1>10. ASSUME NEW c \in Convs \cup {NoConv}, Move(c) PROVE Grows
  BY <1>2, <1>10 DEF Move, server
<1>11. ASSUME ReplyArrives \/ UNCHANGED vars PROVE Grows
  BY <1>2, <1>11 DEF ReplyArrives, vars, server
<1> HIDE DEF Grows
<1> SUFFICES Grows
  BY DEF Grows
<1>12. CASE \E l \in DOMAIN loads : LoadRead(l) \/ LoadAnswered(l) \/ LoadFails(l)
  BY <1>9, <1>12
<1>13. CASE \E r \in Requests : StoreQuestion(r) \/ FindReply(r) \/ Poll(r) \/ StoreReply(r) \/ RunMoves(r)
  BY <1>3, <1>4, <1>13
<1> QED BY <1>5, <1>6, <1>7, <1>8, <1>10, <1>11, <1>12, <1>13 DEF Next

LEMMA BackedStays ==
  ASSUME IInv, [Next]_vars
  PROVE  \A ms : Backed(ms, reqs, rows) => Backed(ms, reqs', rows')
<1>1. ASSUME NEW m, Replied(m, reqs, rows) PROVE Replied(m, reqs', rows')
  <2>1. PICK r \in Requests : r[1] = m.q /\ reqs[r].at = "answered" /\ m \in Range(rows[reqs[r].conv])
    BY <1>1 DEF Replied
  <2>2. reqs[r].conv \in Convs
    BY <2>1 DEF IInv, RequestInv
  <2>3. reqs'[r] = reqs[r] /\ m \in Range(rows'[reqs[r].conv])
    BY <2>1, <2>2, ServerGrows
  <2> QED BY <2>1, <2>3 DEF Replied
<1> QED BY <1>1 DEF Backed

(* Nothing of what is stored is new. *)
LEMMA NothingStored ==
  ASSUME IInv, FollowInv, [Next]_vars, UNCHANGED rows,
         Backed(shown', reqs', rows'),
         \A l \in DOMAIN loads' : Backed(loads'[l].got, reqs', rows'),
         \A r \in Requests : QuestionStored(r, reqs', rows')
  PROVE  FollowInv'
<1>1. \A c \in Convs : Backed(rows'[c], reqs', rows')
  BY BackedStays DEF FollowInv
<1> QED BY <1>1 DEF FollowInv

(* A message is stored: the question of a request, or its reply after it. *)
LEMMA StoreFollows ==
  ASSUME IInv, ShowInv, FollowInv, [Next]_vars, NEW r \in Requests, StoreQuestion(r) \/ StoreReply(r)
  PROVE  FollowInv'
<1> DEFINE c == reqs[r].conv
<1>1. /\ c \in Convs /\ reqs[r].at \in {"sent", "replying"} /\ UNCHANGED <<loads, shown>>
      /\ r[1] \in Questions
  BY RequestsOf DEF StoreQuestion, StoreReply, IInv, RequestInv, page
<1>2. Backed(shown', reqs', rows') /\ \A l \in DOMAIN loads' : Backed(loads'[l].got, reqs', rows')
  BY <1>1, BackedStays DEF FollowInv
<1>3. ASSUME Gives(r, FALSE), UNCHANGED rows PROVE FollowInv'
  <2>1. reqs'[r].at = "failed" /\ \A o \in Requests \ {r} : reqs'[o] = reqs[o]
    BY <1>3 DEF Gives, IInv, Typed, ReqType
  <2>2. \A o \in Requests : QuestionStored(o, reqs', rows')
    BY <1>3, <2>1 DEF FollowInv, QuestionStored
  <2> QED BY <1>2, <1>3, <2>2, NothingStored
<1>4. ASSUME NEW m \in Messages, NEW at \in {"stored", "answered"},
             rows' = [rows EXCEPT ![c] = Append(@, m)], reqs' = [reqs EXCEPT ![r].at = at],
             \/ at = "stored" /\ m = User(r[1], FALSE)
             \/ at = "answered" /\ reqs[r].at = "replying" /\ m = Assistant(r[1])
      PROVE  FollowInv'
  <2>1. /\ rows'[c] = Append(rows[c], m) /\ rows[c] \in Seq(Messages) /\ \A d \in Convs \ {c} : rows'[d] = rows[d]
        /\ reqs'[r].at = at /\ reqs'[r].conv = c /\ \A o \in Requests \ {r} : reqs'[o] = reqs[o]
    BY <1>1, <1>4 DEF IInv, Typed, ReqType
  <2>2. Range(rows'[c]) = Range(rows[c]) \cup {m}
    BY <2>1, Appended
  <2>3. m.who = "assistant" => at = "answered" /\ reqs[r].at = "replying" /\ m.q = r[1] /\ m = Assistant(r[1])
    BY <1>4 DEF User, Assistant
  <2>4. m.who = "assistant" => \E n \in Range(rows[c]) : Says(n) = <<"user", m.q>>
    BY <1>1, <2>3 DEF FollowInv, QuestionStored
  <2>5. Follows(rows'[c])
    BY <1>1, <2>1, <2>4, FollowsAppended DEF FollowInv, Backed
  <2>6. m.who = "assistant" => Replied(m, reqs', rows')
    BY <2>1, <2>2, <2>3 DEF Replied
  <2>7. \A n \in Range(rows[c]) : n.who = "assistant" => Replied(n, reqs', rows')
    BY <1>1, BackedStays DEF FollowInv, Backed
  <2>8. Backed(rows'[c], reqs', rows')
    BY <2>2, <2>5, <2>6, <2>7 DEF Backed
  <2>9. \A d \in Convs : Backed(rows'[d], reqs', rows')
    BY <2>1, <2>8, BackedStays DEF FollowInv
  <2>10. QuestionStored(r, reqs', rows')
    <3>1. at = "stored" => Says(m) = <<"user", r[1]>>
      BY <1>4 DEF Says, User
    <3> QED BY <2>1, <2>2, <3>1 DEF QuestionStored
  <2>11. \A o \in Requests \ {r} : QuestionStored(o, reqs', rows')
    <3> SUFFICES ASSUME NEW o \in Requests \ {r}, reqs[o].at \in {"stored", "waiting", "replying"}
                 PROVE  \E n \in Range(rows'[reqs[o].conv]) : Says(n) = <<"user", o[1]>>
      BY <2>1 DEF QuestionStored
    <3>1. reqs[o].conv \in Convs /\ \E n \in Range(rows[reqs[o].conv]) : Says(n) = <<"user", o[1]>>
      BY DEF FollowInv, QuestionStored, IInv, RequestInv
    <3> QED BY <3>1, ServerGrows
  <2> QED BY <1>2, <2>9, <2>10, <2>11 DEF FollowInv
<1>5. User(r[1], FALSE) \in Messages /\ Assistant(r[1]) \in Messages
  BY <1>1, MessagesOf
<1> QED BY <1>3, <1>4, <1>5 DEF StoreQuestion, StoreReply

(* A request goes on without a message, or one is posted. *)
LEMMA QuestionsStay ==
  ASSUME IInv, FollowInv, UNCHANGED rows, NEW r \in Requests, NEW rec,
         reqs' = [reqs EXCEPT ![r] = rec],
         rec.at \in {"sent", "failed"} \/ (reqs[r].at \in {"stored", "waiting"} /\ rec.conv = reqs[r].conv)
  PROVE  \A o \in Requests : QuestionStored(o, reqs', rows')
<1>1. reqs'[r] = rec /\ \A o \in Requests \ {r} : reqs'[o] = reqs[o]
  BY DEF IInv, Typed
<1>2. QuestionStored(r, reqs', rows')
  BY <1>1 DEF FollowInv, QuestionStored
<1>3. \A o \in Requests \ {r} : QuestionStored(o, reqs', rows')
  BY <1>1 DEF FollowInv, QuestionStored
<1> QED BY <1>2, <1>3

(* A reply is looked for; the page does not change. *)
LEMMA FindFollows ==
  ASSUME IInv, FollowInv, [Next]_vars, NEW r \in Requests, FindReply(r) \/ Poll(r) \/ RunMoves(r)
  PROVE  FollowInv'
<1>1. UNCHANGED <<rows, shown, loads>>
  BY DEF FindReply, Poll, RunMoves, page
<1>2. \A o \in Requests : QuestionStored(o, reqs', rows')
  <2>1. CASE UNCHANGED reqs
    BY <1>1, <2>1 DEF FollowInv, QuestionStored
  <2>2. CASE ~UNCHANGED reqs
    <3>1. reqs[r] \in ReqType /\ reqs[r].at \in {"stored", "waiting"}
      BY <2>2 DEF FindReply, Poll, RunMoves, IInv, Typed
    <3>2. PICK rec : reqs' = [reqs EXCEPT ![r] = rec] /\ rec.conv = reqs[r].conv
      BY <2>2, <3>1 DEF FindReply, Poll, RunMoves, Replies, Gives, ReqType
    <3> QED BY <1>1, <3>1, <3>2, QuestionsStay
  <2> QED BY <2>1, <2>2
<1> QED BY <1>1, <1>2, BackedStays, NothingStored DEF FollowInv

(* What the page shows and loads: what it did before, what is stored, or a   *)
(* question at its end.                                                      *)
LEMMA PageFollows ==
  ASSUME IInv, ShowInv, FollowInv, [Next]_vars, UNCHANGED rows,
         Backed(shown', reqs, rows),
         \A l \in DOMAIN loads' : Backed(loads'[l].got, reqs, rows),
         \/ UNCHANGED reqs
         \/ \E r \in Requests : \E rec : reqs' = [reqs EXCEPT ![r] = rec] /\ rec.at \in {"sent", "failed"}
  PROVE  FollowInv'
<1>1. Backed(shown', reqs', rows') /\ \A l \in DOMAIN loads' : Backed(loads'[l].got, reqs', rows')
  BY BackedStays
<1>2. \A o \in Requests : QuestionStored(o, reqs', rows')
  <2>1. CASE UNCHANGED reqs
    BY <2>1 DEF FollowInv, QuestionStored
  <2>2. CASE \E r \in Requests : \E rec : reqs' = [reqs EXCEPT ![r] = rec] /\ rec.at \in {"sent", "failed"}
    BY <2>2, QuestionsStay
  <2> QED BY <2>1, <2>2
<1> QED BY <1>1, <1>2, NothingStored

LEMMA NothingBacked == Backed(<< >>, reqs, rows)
BY DEF Backed, Follows, Range

(* A question is added at the end of the page. *)
LEMMA QuestionBacked ==
  ASSUME NEW ms \in Seq(Messages), Backed(ms, reqs, rows), NEW q \in Questions
  PROVE  Backed(Append(ms, User(q, TRUE)), reqs, rows)
<1>1. User(q, TRUE) \in Messages /\ User(q, TRUE).who = "user"
  BY MessagesOf DEF User
<1>2. Follows(Append(ms, User(q, TRUE)))
  BY <1>1, FollowsAppended DEF Backed
<1>3. Range(Append(ms, User(q, TRUE))) = Range(ms) \cup {User(q, TRUE)}
  BY <1>1, Appended
<1> QED BY <1>1, <1>2, <1>3 DEF Backed

LEMMA ReplyFollows ==
  ASSUME IInv, ShowInv, FollowInv, [Next]_vars, ReplyArrives
  PROVE  FollowInv'
<1>0. PICK q \in Questions : q = send.q
  BY DEF ReplyArrives, IInv, SendInv
<1> DEFINE U == User(q, TRUE)
           A == Assistant(q)
           W == With(shown, U)
<1>1. /\ send.at = "posted" /\ reqs[Awaited].at = "answered" /\ Awaited \in Requests /\ Awaited[1] = q
      /\ shown' = RemoveFirst(shown, U) \o <<U, A>> /\ UNCHANGED <<rows, reqs, loads>>
  BY <1>0, RequestsOf DEF ReplyArrives, IInv, SendInv, Typed, Awaited, server
<1>2. /\ U \in Messages /\ A \in Messages /\ shown \in Seq(Messages) /\ A.who = "assistant" /\ A.q = q
      /\ Says(U) = <<"user", q>>
  BY <1>0, MessagesOf DEF ShowInv, ShownTyped, Assistant, User, Says
<1>3. AtEnd(shown, U) \/ U \notin Range(shown)
  BY <1>0, <1>1 DEF ShowInv, Shows, AskedOnce, Asked
<1>4. Backed(Append(shown, U), reqs, rows) /\ Backed(shown, reqs, rows)
  BY <1>2, QuestionBacked DEF FollowInv
<1> HIDE DEF U, A
<1>5. shown' = Append(W, A)
  BY <1>1, <1>2, <1>3, ReplyTo
<1>6. W \in Seq(Messages) /\ U \in Range(W) /\ Backed(W, reqs, rows)
  BY <1>2, <1>4, WithQuestion DEF With
<1>7. A \in Range(rows[reqs[Awaited].conv])
  BY <1>0, <1>1 DEF IInv, RequestInv, A
<1>8. Replied(A, reqs, rows)
  BY <1>1, <1>2, <1>7 DEF Replied
<1> HIDE DEF W
<1>9. Follows(Append(W, A)) /\ Range(Append(W, A)) = Range(W) \cup {A}
  BY <1>2, <1>6, FollowsAppended, Appended DEF Backed
<1>10. Backed(shown', reqs, rows)
  BY <1>5, <1>6, <1>8, <1>9 DEF Backed
<1> QED BY <1>1, <1>10, PageFollows DEF FollowInv

LEMMA LoadsFollow ==
  ASSUME IInv, ShowInv, FollowInv, [Next]_vars, NEW l \in DOMAIN loads,
         LoadRead(l) \/ LoadAnswered(l) \/ LoadFails(l)
  PROVE  FollowInv'
<1> DEFINE got == First(rows[loads[l].conv])
<1>1. UNCHANGED <<rows, reqs>>
  BY DEF LoadRead, LoadAnswered, LoadFails, server
<1>2. loads[l] \in LoadType /\ loads[l].conv \in Convs /\ rows[loads[l].conv] \in Seq(Messages)
  <2>1. loads[l] \in LoadType
    BY DEF ShowInv, ShownTyped
  <2> QED BY <2>1 DEF LoadType, IInv, Typed
<1>3. got \in Seq(Messages) /\ Backed(got, reqs, rows)
  <2>1. got \in Seq(Messages) /\ Range(got) \subseteq Range(rows[loads[l].conv])
    BY <1>2, FirstOf
  <2>2. Follows(got)
    BY <1>2, FollowsFirst DEF FollowInv, Backed
  <2> QED BY <1>2, <2>1, <2>2 DEF FollowInv, Backed
<1> HIDE DEF got
<1>4. Backed(shown', reqs, rows)
  BY DEF LoadRead, LoadAnswered, LoadFails, FollowInv
<1>5. PICK at \in {"asked", "read", "done"}, new \in {<< >>, got} : loads' = [loads EXCEPT ![l].at = at, ![l].got = new]
  BY DEF LoadRead, LoadAnswered, LoadFails, Done, got
<1>6. new \in Seq(Messages) /\ Backed(new, reqs, rows)
  <2>1. << >> \in Seq(Messages)
    OBVIOUS
  <2> QED BY <1>3, <2>1, NothingBacked
<1>7. /\ DOMAIN loads' = DOMAIN loads /\ loads'[l].got = new
      /\ \A k \in DOMAIN loads \ {l} : loads'[k] = loads[k]
  BY <1>5, <1>6, LoadGoesOn DEF ShowInv
<1>8. \A k \in DOMAIN loads' : Backed(loads'[k].got, reqs, rows)
  BY <1>6, <1>7 DEF FollowInv
<1> QED BY <1>1, <1>4, <1>8, PageFollows

(* A conversation is opened. *)
LEMMA OpensFollows ==
  ASSUME ShowInv, FollowInv, NEW c \in Convs, Opens(c)
  PROVE  \A l \in DOMAIN loads' : Backed(loads'[l].got, reqs, rows)
<1>1. \A l \in DOMAIN loads' : (l \in DOMAIN loads /\ loads'[l] = loads[l]) \/ loads'[l].got = << >>
  BY LoadBegins DEF ShowInv
<1> QED BY <1>1, NothingBacked DEF FollowInv

LEMMA SendFollows ==
  ASSUME IInv, ShowInv, FollowInv, [Next]_vars,
         \/ \E q \in Questions : Send(q)
         \/ \E c \in Convs : Created(c)
         \/ SendFails \/ CreateFails
  PROVE  FollowInv'
<1>1. ASSUME NEW r \in Requests, NEW d, NEW via, Post(r, d, via)
      PROVE  \E o \in Requests : \E rec : reqs' = [reqs EXCEPT ![o] = rec] /\ rec.at \in {"sent", "failed"}
  <2>1. [Unsent EXCEPT !.at = "sent", !.conv = d, !.via = via].at = "sent"
    BY DEF Unsent
  <2> QED BY <1>1, <2>1 DEF Post
<1>2. ASSUME NEW q \in Questions, Send(q) PROVE FollowInv'
  <2>1. Backed(shown', reqs, rows) /\ UNCHANGED <<loads, rows>>
    BY <1>2, QuestionBacked DEF Send, FollowInv, ShowInv, ShownTyped
  <2>2. UNCHANGED reqs \/ Post(<<q, 1>>, active, provider)
    BY <1>2 DEF Send
  <2> QED BY <1>1, <2>1, <2>2, PageFollows, RequestsOf DEF FollowInv
<1>3. ASSUME NEW c \in Convs, Created(c) PROVE FollowInv'
  <2>1. Awaited \in Requests /\ Post(Awaited, c, provider) /\ UNCHANGED <<rows, shown>> /\ Opens(c)
    BY <1>3, RequestsOf DEF Created, IInv, SendInv, Awaited
  <2>2. \A l \in DOMAIN loads' : Backed(loads'[l].got, reqs, rows)
    BY <2>1, OpensFollows
  <2> QED BY <1>1, <2>1, <2>2, PageFollows DEF FollowInv
<1>4. CASE SendFails
  <2>1. <<send.q, 2>> \in Requests /\ UNCHANGED <<rows, shown, loads>>
    BY <1>4, RequestsOf DEF SendFails, IInv, SendInv
  <2>2. UNCHANGED reqs \/ Post(<<send.q, 2>>, reqs[Awaited].conv, "dax")
    BY <1>4 DEF SendFails
  <2> QED BY <1>1, <2>1, <2>2, PageFollows DEF FollowInv
<1>5. CASE CreateFails
  <2>1. /\ Awaited \in Requests /\ UNCHANGED <<rows, shown, loads>> /\ reqs[Awaited] \in ReqType
        /\ reqs' = [reqs EXCEPT ![Awaited] = [reqs[Awaited] EXCEPT !.at = "failed"]]
    BY <1>5, RequestsOf DEF CreateFails, IInv, SendInv, Awaited, Typed
  <2>2. [reqs[Awaited] EXCEPT !.at = "failed"].at = "failed"
    BY <2>1 DEF ReqType
  <2> QED BY <2>1, <2>2, PageFollows DEF FollowInv
<1> QED BY <1>2, <1>3, <1>4, <1>5

LEMMA MoveFollows ==
  ASSUME IInv, ShowInv, FollowInv, [Next]_vars, NEW c \in Convs \cup {NoConv}, Move(c)
  PROVE  FollowInv'
<1>1. UNCHANGED <<rows, reqs>>
  BY DEF Move, server
<1>2. CASE c \in made /\ Opens(c) /\ UNCHANGED shown
  BY <1>1, <1>2, OpensFollows, PageFollows DEF FollowInv, IInv, Typed
<1>3. CASE shown' = << >> /\ UNCHANGED loads
  BY <1>1, <1>3, NothingBacked, PageFollows DEF FollowInv
<1> QED BY <1>2, <1>3 DEF Move

LEMMA InitFollowInv == Init => FollowInv
BY NothingBacked DEF Init, FollowInv, QuestionStored, Unsent

LEMMA NextFollowInv == IInv /\ ShowInv /\ FollowInv /\ [Next]_vars => FollowInv'
<1> SUFFICES ASSUME IInv, ShowInv, FollowInv, [Next]_vars PROVE FollowInv'
  OBVIOUS
<1>1. ASSUME UNCHANGED vars PROVE FollowInv'
  BY <1>1, PageFollows DEF FollowInv, vars, server, page
<1>2. CASE \E l \in DOMAIN loads : LoadRead(l) \/ LoadAnswered(l) \/ LoadFails(l)
  BY <1>2, LoadsFollow
<1>3. CASE \E c \in Convs \cup {NoConv} : Move(c)
  BY <1>3, MoveFollows
<1>4. CASE (\E q \in Questions : Send(q)) \/ (\E c \in Convs : Created(c)) \/ SendFails \/ CreateFails
  BY <1>4, SendFollows
<1>5. CASE ReplyArrives
  BY <1>5, ReplyFollows
<1>6. CASE \E r \in Requests : StoreQuestion(r) \/ FindReply(r) \/ Poll(r) \/ StoreReply(r) \/ RunMoves(r)
  BY <1>6, StoreFollows, FindFollows
<1> QED BY <1>1, <1>2, <1>3, <1>4, <1>5, <1>6 DEF Next

(* Whatever overlaps, fails or is lost between page and API, a reply on the  *)
(* page stands after its question and is stored where a request has sent it  *)
(* (handleSend, loadConversation, sendMessage).                              *)
THEOREM RepliesFollow == Spec => []RepliesFollowQuestions
<1>1. ShowInv /\ FollowInv => RepliesFollowQuestions
  <2> SUFFICES ASSUME ShowInv, FollowInv, NEW i \in DOMAIN shown, shown[i].who = "assistant"
               PROVE  /\ \E h \in 1 .. (i - 1) : Says(shown[h]) = <<"user", shown[i].q>>
                      /\ Replied(shown[i], reqs, rows)
    BY DEF RepliesFollowQuestions, Replied
  <2>1. shown[i] \in Range(shown)
    BY DEF Range
  <2> QED BY <2>1 DEF FollowInv, Backed, Follows
<1> QED BY <1>1, InitIInv, NextIInv, InitShowInv, NextShowInv, InitFollowInv, NextFollowInv, PTL DEF Spec
=============================================================================
