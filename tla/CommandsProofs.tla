---------------------------- MODULE CommandsProofs ----------------------------
(***************************************************************************)
(* Commands, for any number of runs, any limit and any output: what is     *)
(* shown as completed has completed and is shown in full up to the limit,  *)
(* no status "running" is left behind, and a page that leaves ends its     *)
(* command.                                                                *)
(*                                                                         *)
(* The bytes of a page and those on their way to it are related by a       *)
(* ledger: a function that gives what the page will show after each event  *)
(* of its wire, and that ends at what the pipes have yielded.  The ledger  *)
(* needs no sum over the wire, hence no induction over its length: an      *)
(* event that is sent extends it, and one that is read moves it on.        *)
(***************************************************************************)
EXTENDS Commands, TLAPS

StreamStates == {"idle", "checking", "running", "ended", "refused", "dead"}
RecordStates == {"idle", "pending", "marked", "running", "saving", "ended", "refused", "unsaved", "dead"}

(* What the page of r will show when it has read all that is under way. *)
Views == [bytes : [Pipes -> 0 .. Limit], marks : 0 .. 1]
Full(r) == [bytes |-> [p \in Pipes |-> Expected(r, p)], marks |-> IF r \in truncated THEN 1 ELSE 0]

(* g is a ledger of a page with view v, whose wire is w, that will show `full`; *)
(* nothing is added once the page is told, or will be, of the completion.       *)
IsLedger(g, w, v, full, told) ==
  /\ g[0] = v /\ g[Len(w)] = full
  /\ \A i \in 1 .. Len(w) : g[i] = After(g[i - 1], w[i])
  /\ \A i \in 1 .. Len(w) : w[i] = Completed("completed") => \A j \in i .. Len(w) : g[j] = full
  /\ told => \A j \in 0 .. Len(w) : g[j] = full
HasLedger(w, v, full, told) == \E g \in [0 .. Len(w) -> Views] : IsLedger(g, w, v, full, told)

Told(r) == shown[r] = "completed"
Ledger(r) ==
  /\ view[r] \in Views
  /\ IF r \in busy THEN HasLedger(wire[r], view[r], Full(r), Told(r))
     ELSE wire[r] = << >> /\ (Told(r) => view[r] = Full(r))

(* A stream that is told to be completed has completed, and its pipes are closed. *)
Done(r) == child[r] = "zero" /\ timer[r] # "fired" /\ at[r] = "ended" /\ ~pipe[r]
DoneIsTold(r) ==
  /\ shown[r] = "completed" => Done(r)
  /\ \A i \in 1 .. Len(wire[r]) : wire[r][i] = Completed("completed") => Done(r)

(* A wire that ends has told the page of the outcome, or of the refusal. *)
IsOutcome(e) == e.type = "completed"
EndIsTold(r) ==
  \A i \in 1 .. Len(wire[r]) : wire[r][i] = End =>
    at[r] = "refused" \/ shown[r] # "running" \/ \E j \in 1 .. i : IsOutcome(wire[r][j])

StreamInv(r) ==
  /\ at[r] \in StreamStates
  /\ at[r] \in {"idle", "checking"} => child[r] = "none"
  /\ at[r] = "idle" => view[r] = Full(r) /\ r \notin busy /\ shown[r] = "none"
  /\ at[r] = "running" => r \in listening \cup closed
  /\ r \in closed => at[r] # "running" \/ child[r] # "alive" \/ r \in signalled \cup late
  /\ r \notin truncated => \A p \in Pipes : written[r][p] <= Limit
  /\ r \notin busy => shown[r] # "running" \/ at[r] = "refused"
  /\ Ledger(r) /\ DoneIsTold(r) /\ EndIsTold(r)

RecordInv(r) ==
  /\ at[r] \in RecordStates
  /\ shown[r] = "completed" => child[r] = "zero" /\ timer[r] # "fired" /\ at[r] = "ended"
  /\ shown[r] = "running" => at[r] \in {"marked", "running", "saving", "unsaved", "dead", "refused"}
  /\ shown[r] = "pending" => at[r] \in {"pending", "unsaved", "dead"}
  /\ at[r] = "idle" => shown[r] = "none"

CInv ==
  /\ TypeOK
  /\ \A r, s \in busy : r = s
  /\ \A r \in Streams : StreamInv(r)
  /\ \A r \in Records : RecordInv(r)

-----------------------------------------------------------------------------
(* Types. *)

LEMMA EventTypes ==
  /\ Started \in Event /\ Failure \in Event /\ End \in Event /\ Broken \in Event
  /\ \A s \in {"completed", "failed"} : Completed(s) \in Event
  /\ \A p \in Pipes, n \in Nat, cut \in BOOLEAN : Chunk(p, n, cut) \in Event
BY DEF Started, Failure, End, Broken, Completed, Chunk, Event

LEMMA WriteTypes ==
  ASSUME TypeOK, NEW r \in Streams, NEW events \in Seq(Event), Write(r, events)
  PROVE  wire' \in [Streams -> Seq(Event)]
<1>1. wire[r] \o events \in Seq(Event)
  BY DEF TypeOK
<1> QED BY <1>1 DEF TypeOK, Write

(* The steps of the shell. *)
LEMMA EndsTypes ==
  ASSUME TypeOK, NEW r \in Runs, NEW fates \in SUBSET {"killed", "alive", "zero", "nonzero"}, Ends(r, fates)
  PROVE  child' \in [Runs -> {"none", "alive", "unspawned", "killed", "zero", "nonzero"}] /\ pipe' \in [Runs -> BOOLEAN]
<1>1. PICK fate \in fates, kept \in BOOLEAN :
        child' = [child EXCEPT ![r] = fate] /\ pipe' = [pipe EXCEPT ![r] = kept \/ fate = "alive"]
  BY DEF Ends
<1>2. (kept \/ fate = "alive") \in BOOLEAN /\ fate \in {"killed", "alive", "zero", "nonzero"}
  OBVIOUS
<1> QED BY <1>1, <1>2 DEF TypeOK

LEMMA ExitStatusType == \A r \in Runs : ExitStatus(r) \in {"completed", "failed"}
BY DEF ExitStatus

LEMMA SpawnsTypes ==
  ASSUME TypeOK, NEW r \in Runs, Spawns(r)
  PROVE  /\ child' \in [Runs -> {"none", "alive", "unspawned", "killed", "zero", "nonzero"}]
         /\ pipe' \in [Runs -> BOOLEAN] /\ timer' \in [Runs -> {"off", "armed", "fired"}]
<1>1. PICK how \in {"alive", "unspawned"} :
        child' = [child EXCEPT ![r] = how] /\ pipe' = [pipe EXCEPT ![r] = how = "alive"]
  BY DEF Spawns
<1>2. (how = "alive") \in BOOLEAN
  OBVIOUS
<1> QED BY <1>1, <1>2 DEF TypeOK, Spawns

LEMMA AfterTypes ==
  ASSUME NEW v \in [bytes : [Pipes -> Nat], marks : Nat], NEW e \in Event
  PROVE  After(v, e) \in [bytes : [Pipes -> Nat], marks : Nat]
<1>1. CASE e.type # "chunk"
  BY <1>1 DEF After
<1>2. CASE e.type = "chunk"
  <2>1. e.pipe \in Pipes /\ e.bytes \in Nat /\ e.cut \in BOOLEAN
    BY <1>2 DEF Event
  <2>2. v.bytes[e.pipe] + e.bytes \in Nat /\ v.marks + (IF e.cut THEN 1 ELSE 0) \in Nat
    BY <2>1
  <2> QED BY <1>2, <2>1, <2>2 DEF After
<1> QED BY <1>1, <1>2

LEMMA StreamTypes ==
  ASSUME TypeOK, NEW r \in Streams,
         Submit(r) \/ Checked(r) \/ SpawnFails(r) \/ Close(r) \/ RequestCloses(r) \/ Read(r) \/ Terminate(r)
  PROVE  TypeOK'
<1> USE DEF Runs, faults
<1>1. CASE Submit(r)
  BY <1>1 DEF TypeOK, Submit, Goes, Shows, process, output, request
<1>2. CASE Refuse(r)
  <2>1. <<Failure, End>> \in Seq(Event) /\ <<Started, Failure, End>> \in Seq(Event)
    BY EventTypes
  <2>2. PICK events \in Seq(Event) : Write(r, events)
    BY <1>2, <2>1 DEF Refuse
  <2>3. wire' \in [Streams -> Seq(Event)]
    BY <2>2, WriteTypes
  <2> QED BY <1>2, <2>3 DEF TypeOK, Refuse, Goes, process, output, request, page
<1>3. CASE Start(r)
  <2>1. <<Started>> \in Seq(Event)
    BY EventTypes
  <2>2. wire' \in [Streams -> Seq(Event)]
    BY <1>3, <2>1, WriteTypes DEF Start
  <2> QED BY <1>3, <2>2, SpawnsTypes DEF TypeOK, Start, Goes, output, page
<1>4. CASE SpawnFails(r) \/ Close(r)
  <2>1. PICK events \in Seq(Event) : Finish(r, events)
    <3>1. <<Failure, Completed("failed"), End>> \in Seq(Event) /\ <<Completed(ExitStatus(r)), End>> \in Seq(Event)
      BY EventTypes, ExitStatusType
    <3> QED BY <1>4, <3>1 DEF SpawnFails, Close
  <2>3. wire' \in [Streams -> Seq(Event)]
    BY <2>1, WriteTypes DEF Finish
  <2>4. timer' \in [Runs -> {"off", "armed", "fired"}]
    BY <2>1 DEF Finish, Off, TypeOK
  <2> QED BY <2>1, <2>3, <2>4 DEF TypeOK, Finish, Goes, output, page
<1>5. CASE RequestCloses(r)
  <2>1. child' \in [Runs -> {"none", "alive", "unspawned", "killed", "zero", "nonzero"}] /\ pipe' \in [Runs -> BOOLEAN]
    BY <1>5, EndsTypes DEF RequestCloses, Signal, TypeOK
  <2> QED BY <1>5, <2>1 DEF TypeOK, RequestCloses, output, page
<1>6. CASE Read(r)
  <2> DEFINE e == Head(wire[r])
  <2>1. wire[r] \in Seq(Event) /\ wire[r] # << >> /\ e \in Event /\ Tail(wire[r]) \in Seq(Event)
    BY <1>6 DEF TypeOK, Read
  <2>2. view' = [view EXCEPT ![r] = After(view[r], e)]
    BY <1>6 DEF Read
  <2>3. view' \in [Streams -> [bytes : [Pipes -> Nat], marks : Nat]]
    BY <2>1, <2>2, AfterTypes DEF TypeOK
  <2>4. wire' \in [Streams -> Seq(Event)]
    <3>1. wire' = [wire EXCEPT ![r] = IF r \in busy' THEN Tail(@) ELSE << >>]
      BY <1>6 DEF Read
    <3>2. << >> \in Seq(Event)
      OBVIOUS
    <3> QED BY <2>1, <3>1, <3>2 DEF TypeOK
  <2>5. busy' \subseteq Streams /\ shown' \in [Runs -> {"none", "pending", "running", "completed", "failed"}]
    <3>1. e.type = "completed" => e.status \in {"completed", "failed"}
      BY <2>1 DEF Event
    <3>2. \/ e.type = "completed" /\ Shows(r, e.status) /\ UNCHANGED busy
          \/ Shows(r, "failed") /\ busy' = {}
          \/ busy' \in {{}, busy} /\ UNCHANGED shown
      BY <1>6 DEF Read
    <3>3. /\ shown \in [Runs -> {"none", "pending", "running", "completed", "failed"}]
          /\ busy \subseteq Streams /\ r \in Runs
      BY DEF TypeOK
    <3>4. busy' \subseteq Streams
      BY <3>2, <3>3
    <3>5. UNCHANGED shown \/ \E s \in {"completed", "failed"} : shown' = [shown EXCEPT ![r] = s]
      BY <3>1, <3>2 DEF Shows
    <3> QED BY <3>3, <3>4, <3>5
  <2> QED BY <1>6, <2>3, <2>4, <2>5 DEF TypeOK, Read, process, output, request
<1>7. CASE Terminate(r)
  <2>1. << >> \in Seq(Event)
    OBVIOUS
  <2> QED BY <1>7, <2>1 DEF TypeOK, Terminate, Shows, process, output, request
<1> QED BY <1>1, <1>2, <1>3, <1>4, <1>5, <1>6, <1>7 DEF Checked

LEMMA DataTypes ==
  ASSUME TypeOK, NEW r \in Runs, NEW p \in Pipes, NEW n \in 1 .. MaxOutput, Data(r, p, n),
         r \in Streams \ truncated => written[r][p] <= Limit
  PROVE  TypeOK'
<1> DEFINE sum == written[r][p] + n
<1>1. r \in Streams /\ sum \in 0 .. MaxOutput /\ written[r][p] \in Nat /\ written[r][p] <= Limit
  BY LimitAssumption DEF TypeOK, Data
<1>2. written' \in [Streams -> [Pipes -> 0 .. MaxOutput]]
  BY <1>1 DEF Data, TypeOK
<1>3. PICK e \in Event : Write(r, <<e>>)
  <2>1. n \in Nat /\ (sum > Limit => n - (sum - Limit) \in Nat)
    BY <1>1, LimitAssumption
  <2>2. \/ sum > Limit /\ Write(r, <<Chunk(p, n - (sum - Limit), TRUE)>>)
        \/ Write(r, <<Chunk(p, n, FALSE)>>)
    BY DEF Data
  <2>3. sum > Limit => Chunk(p, n - (sum - Limit), TRUE) \in Event
    BY <2>1, EventTypes
  <2>4. Chunk(p, n, FALSE) \in Event
    BY <2>1, EventTypes
  <2> HIDE DEF sum
  <2> QED BY <2>2, <2>3, <2>4
<1>4. wire' \in [Streams -> Seq(Event)]
  <2>1. <<e>> \in Seq(Event)
    OBVIOUS
  <2> HIDE DEF sum
  <2> QED BY <1>1, <1>3, <2>1, WriteTypes
<1>5. truncated' \subseteq Streams
  BY <1>1 DEF Data, TypeOK
<1> QED BY <1>2, <1>4, <1>5 DEF TypeOK, Data, process, request, page, faults

LEMMA RunTypes ==
  ASSUME TypeOK, NEW r \in Runs,
         Create(r) \/ Ask(r) \/ Recorded(r) \/ Gather(r) \/ Exit(r) \/ Release(r) \/ TimeOut(r)
  PROVE  TypeOK'
<1> USE DEF faults
<1>0. UpdateFails(r) => failures' \in 0 .. MaxFailures /\ shown' = shown /\ at' = [at EXCEPT ![r] = "unsaved"]
  BY LimitAssumption DEF TypeOK, UpdateFails, Goes
<1>1. CASE Create(r) \/ Ask(r)
  BY <1>1 DEF TypeOK, Create, Ask, Goes, Shows, process, output, request, page
<1>8. CASE Begin(r)
  <2>1. CASE UpdateFails(r)
    BY <1>0, <1>8, <2>1 DEF TypeOK, Begin, process, output, request
  <2>2. CASE Goes(r, "marked") /\ Shows(r, "running") /\ UNCHANGED failures
    BY <1>8, <2>2 DEF TypeOK, Begin, Goes, Shows, process, output, request
  <2> QED BY <1>8, <2>1, <2>2 DEF Begin
<1>2. CASE Run(r)
  BY <1>2, SpawnsTypes DEF TypeOK, Run, Goes, process, output, request, page
<1>3. CASE Gather(r)
  <2>1. timer' \in [Runs -> {"off", "armed", "fired"}]
    BY <1>3 DEF Gather, Off, TypeOK
  <2> QED BY <1>3, <2>1 DEF TypeOK, Gather, Goes, output, request, page
<1>4. CASE Save(r)
  <2>1. CASE UpdateFails(r)
    BY <1>0, <1>4, <2>1 DEF TypeOK, Save, process, output, request
  <2>2. CASE Goes(r, "ended") /\ Shows(r, ExitStatus(r)) /\ UNCHANGED failures
    BY <1>4, <2>2, ExitStatusType DEF TypeOK, Save, Goes, Shows, process, output, request
  <2> QED BY <1>4, <2>1, <2>2 DEF Save
<1>5. CASE Exit(r)
  BY <1>5, EndsTypes DEF TypeOK, Exit, output, request, page
<1>6. CASE Release(r)
  BY <1>6 DEF TypeOK, Release, output, request, page
<1>7. CASE TimeOut(r)
  BY <1>7, EndsTypes DEF TypeOK, TimeOut, Signal, output, request, page
<1> QED BY <1>1, <1>2, <1>3, <1>4, <1>5, <1>6, <1>7, <1>8 DEF Recorded

LEMMA DiesTypes ==
  ASSUME TypeOK, Dies, crashes' \in 0 .. MaxCrashes, UNCHANGED failures
  PROVE  TypeOK'
<1>1. at' \in [Runs -> {"idle", "checking", "pending", "marked", "running", "saving", "ended", "refused",
                         "unsaved", "dead"}]
  BY DEF Dies, TypeOK
<1>2. timer' \in [Runs -> {"off", "armed", "fired"}]
  BY DEF Dies, TypeOK
<1>3. wire' \in [Streams -> Seq(Event)]
  <2>1. \A r \in Streams : wire[r] \o <<Broken>> \in Seq(Event) /\ wire[r] \in Seq(Event)
    BY EventTypes DEF TypeOK
  <2> QED BY <2>1 DEF Dies
<1> QED BY <1>1, <1>2, <1>3 DEF Dies, TypeOK, output, page

-----------------------------------------------------------------------------
(* The ledger. *)

IsChunk(e) == e.type = "chunk"

LEMMA FullType ==
  ASSUME TypeOK, NEW r \in Streams
  PROVE  Full(r) \in Views
<1>1. \A p \in Pipes : Expected(r, p) \in 0 .. Limit
  BY LimitAssumption DEF TypeOK, Expected
<1> QED BY <1>1 DEF Full, Views

LEMMA FullStays ==
  ASSUME NEW r \in Streams, written'[r] = written[r], r \in truncated' <=> r \in truncated
  PROVE  Full(r)' = Full(r)
BY DEF Full, Expected

(* Events other than chunks extend a ledger. *)
LEMMA QuietEventsExtend ==
  ASSUME NEW w \in Seq(Event), NEW events \in Seq(Event), NEW v, NEW full \in Views, NEW told,
         HasLedger(w, v, full, told), \A i \in 1 .. Len(events) : ~IsChunk(events[i])
  PROVE  HasLedger(w \o events, v, full, told)
<1> DEFINE n == Len(w)  m == Len(events)  x == w \o events
<1>1. PICK g \in [0 .. n -> Views] : IsLedger(g, w, v, full, told)
  BY DEF HasLedger
<1> DEFINE h == [i \in 0 .. n + m |-> IF i <= n THEN g[i] ELSE full]
<1>2. n \in Nat /\ m \in Nat /\ Len(x) = n + m
  OBVIOUS
<1>3. /\ \A i \in 1 .. n : x[i] = w[i]
      /\ \A i \in 1 .. n + m : i > n => i - n \in 1 .. m /\ x[i] = events[i - n]
  OBVIOUS
<1>4. /\ g[0] = v /\ g[n] = full
      /\ \A i \in 1 .. n : g[i] = After(g[i - 1], w[i])
      /\ \A i \in 1 .. n : w[i] = Completed("completed") => \A j \in i .. n : g[j] = full
      /\ told => \A j \in 0 .. n : g[j] = full
  BY <1>1 DEF IsLedger
<1> HIDE DEF n, m, x
<1>5. /\ h \in [0 .. n + m -> Views]
      /\ \A i \in 0 .. n : i \in 0 .. n + m /\ h[i] = g[i]
      /\ \A i \in 0 .. n + m : i >= n => h[i] = full
  BY <1>1, <1>2, <1>4
<1> HIDE DEF h
<1>6. ASSUME NEW i \in 1 .. n + m PROVE h[i] = After(h[i - 1], x[i])
  <2>1. CASE i <= n
    <3>1. i \in 1 .. n /\ i \in 0 .. n /\ i - 1 \in 0 .. n
      BY <1>2, <2>1
    <3> QED BY <3>1, <1>3, <1>4, <1>5
  <2>2. CASE i > n
    <3>1. i \in 0 .. n + m /\ i >= n /\ i - 1 \in 0 .. n + m /\ i - 1 >= n
      BY <1>2, <2>2
    <3>2. h[i] = full /\ h[i - 1] = full
      BY <1>5, <3>1
    <3>3. ~IsChunk(x[i])
      BY <1>3, <2>2 DEF m
    <3> QED BY <3>2, <3>3 DEF After, IsChunk
  <2> QED BY <1>2, <2>1, <2>2
<1>7. ASSUME NEW i \in 1 .. n + m, x[i] = Completed("completed"), NEW j \in i .. n + m
      PROVE  h[j] = full
  <2>1. CASE j >= n
    <3>1. j \in 0 .. n + m
      BY <1>2
    <3> QED BY <3>1, <1>5, <2>1
  <2>2. CASE j < n
    <3>1. i \in 1 .. n /\ j \in i .. n /\ j \in 0 .. n
      BY <1>2, <2>2
    <3> QED BY <3>1, <1>3, <1>4, <1>5, <1>7
  <2> QED BY <1>2, <2>1, <2>2
<1>8. ASSUME told, NEW j \in 0 .. n + m PROVE h[j] = full
  <2>1. j >= n \/ j \in 0 .. n
    BY <1>2
  <2> QED BY <2>1, <1>4, <1>5, <1>8
<1>9. h[0] = v /\ h[n + m] = full
  <2>1. 0 \in 0 .. n /\ n + m \in 0 .. n + m /\ n + m >= n
    BY <1>2
  <2> QED BY <2>1, <1>4, <1>5
<1>10. IsLedger(h, x, v, full, told)
  BY <1>2, <1>6, <1>7, <1>8, <1>9 DEF IsLedger
<1> QED BY <1>2, <1>5, <1>10 DEF HasLedger, x

(* A chunk extends a ledger when nothing is told. *)
LEMMA ChunkExtends ==
  ASSUME NEW w \in Seq(Event), NEW e \in Event, NEW v, NEW full, After(full, e) \in Views,
         HasLedger(w, v, full, FALSE), IsChunk(e), \A i \in 1 .. Len(w) : w[i] # Completed("completed")
  PROVE  HasLedger(w \o <<e>>, v, After(full, e), FALSE)
<1> DEFINE n == Len(w)  x == w \o <<e>>
<1>1. PICK g \in [0 .. n -> Views] : IsLedger(g, w, v, full, FALSE)
  BY DEF HasLedger
<1> DEFINE h == [i \in 0 .. n + 1 |-> IF i <= n THEN g[i] ELSE After(full, e)]
<1>2. n \in Nat /\ Len(x) = n + 1 /\ x[n + 1] = e /\ \A i \in 1 .. n : x[i] = w[i]
  OBVIOUS
<1>3. g[0] = v /\ g[n] = full /\ \A i \in 1 .. n : g[i] = After(g[i - 1], w[i])
  BY <1>1 DEF IsLedger
<1>4. /\ h \in [0 .. n + 1 -> Views] /\ h[n + 1] = After(full, e)
      /\ \A i \in 0 .. n : h[i] = g[i]
  BY <1>1, <1>2
<1>5. e # Completed("completed")
  BY DEF IsChunk, Completed
<1>6. \A i \in 1 .. n : w[i] # Completed("completed")
  OBVIOUS
<1> HIDE DEF n, x, h
<1>7. ASSUME NEW i \in 1 .. n + 1 PROVE h[i] = After(h[i - 1], x[i]) /\ x[i] # Completed("completed")
  <2>1. CASE i \in 1 .. n
    <3>1. i \in 0 .. n /\ i - 1 \in 0 .. n
      BY <1>2, <2>1
    <3> QED BY <3>1, <1>2, <1>3, <1>4, <1>6, <2>1
  <2>2. CASE i = n + 1
    <3>1. i - 1 = n /\ n \in 0 .. n
      BY <1>2, <2>2
    <3>2. h[i - 1] = full
      BY <3>1, <1>3, <1>4
    <3> QED BY <3>2, <1>2, <1>4, <1>5, <2>2
  <2> QED BY <1>2, <2>1, <2>2
<1>8. h[0] = v
  <2>1. 0 \in 0 .. n
    BY <1>2
  <2> QED BY <2>1, <1>3, <1>4
<1>9. IsLedger(h, x, v, After(full, e), FALSE)
  BY <1>2, <1>4, <1>7, <1>8 DEF IsLedger
<1> QED BY <1>2, <1>4, <1>9 DEF HasLedger, x

(* What has been read is struck off. *)
LEMMA ReadingStrikesOff ==
  ASSUME NEW w \in Seq(Event), w # << >>, NEW v, NEW full, NEW told, HasLedger(w, v, full, told)
  PROVE  LET t == told \/ Head(w) = Completed("completed") IN
         HasLedger(Tail(w), After(v, Head(w)), full, t) /\ After(v, Head(w)) \in Views /\ (t => After(v, Head(w)) = full)
<1> DEFINE n == Len(w)  x == Tail(w)  e == Head(w)  t == told \/ e = Completed("completed")
<1>1. PICK g \in [0 .. n -> Views] : IsLedger(g, w, v, full, told)
  BY DEF HasLedger
<1> DEFINE h == [i \in 0 .. n - 1 |-> g[i + 1]]
<1>2. /\ n \in Nat \ {0} /\ e = w[1] /\ Len(x) = n - 1
      /\ \A i \in 1 .. n - 1 : x[i] = w[i + 1]
  OBVIOUS
<1>3. /\ g[0] = v /\ g[n] = full
      /\ \A i \in 1 .. n : g[i] = After(g[i - 1], w[i])
      /\ \A i \in 1 .. n : w[i] = Completed("completed") => \A j \in i .. n : g[j] = full
      /\ told => \A j \in 0 .. n : g[j] = full
  BY <1>1 DEF IsLedger
<1> HIDE DEF n, x, e
<1>4. \A i \in 0 .. n - 1 : i + 1 \in 1 .. n /\ i + 1 \in 0 .. n /\ h[i] = g[i + 1]
  BY <1>2
<1>5. h \in [0 .. n - 1 -> Views]
  BY <1>1, <1>4
<1> HIDE DEF h
<1>6. g[1] = After(v, e) /\ g[1] \in Views
  <2>1. 1 \in 1 .. n /\ 1 \in 0 .. n /\ 1 - 1 = 0
    BY <1>2
  <2> QED BY <2>1, <1>1, <1>2, <1>3
<1>7. t => \A j \in 1 .. n : g[j] = full
  <2>1. 1 \in 1 .. n /\ \A j \in 1 .. n : j \in 0 .. n
    BY <1>2
  <2> QED BY <2>1, <1>2, <1>3
<1>8. h[0] = After(v, e) /\ h[n - 1] = full
  <2>1. 0 \in 0 .. n - 1 /\ n - 1 \in 0 .. n - 1 /\ (n - 1) + 1 = n /\ 0 + 1 = 1
    BY <1>2
  <2> QED BY <2>1, <1>3, <1>4, <1>6
<1>9. ASSUME NEW i \in 1 .. n - 1 PROVE h[i] = After(h[i - 1], x[i])
  <2>1. i \in 0 .. n - 1 /\ i - 1 \in 0 .. n - 1 /\ (i - 1) + 1 = i /\ i + 1 \in 1 .. n /\ (i + 1) - 1 = i
    BY <1>2
  <2>2. h[i] = g[i + 1] /\ h[i - 1] = g[i] /\ x[i] = w[i + 1]
    BY <1>2, <1>4, <2>1
  <2>3. g[i + 1] = After(g[i], w[i + 1])
    BY <1>3, <2>1
  <2> QED BY <2>2, <2>3
<1>10. ASSUME NEW i \in 1 .. n - 1, x[i] = Completed("completed"), NEW j \in i .. n - 1
       PROVE  h[j] = full
  <2>1. i + 1 \in 1 .. n /\ j + 1 \in i + 1 .. n /\ j \in 0 .. n - 1
    BY <1>2
  <2>2. w[i + 1] = Completed("completed")
    BY <1>2, <1>10
  <2> QED BY <1>3, <1>4, <2>1, <2>2
<1>11. ASSUME t, NEW j \in 0 .. n - 1 PROVE h[j] = full
  BY <1>4, <1>7, <1>11
<1> HIDE DEF t
<1>12. IsLedger(h, x, After(v, e), full, t)
  BY <1>2, <1>8, <1>9, <1>10, <1>11 DEF IsLedger
<1>13. HasLedger(x, After(v, e), full, t)
  BY <1>2, <1>5, <1>12 DEF HasLedger
<1>14. t => After(v, e) = full
  <2>1. 1 \in 1 .. n
    BY <1>2
  <2> QED BY <2>1, <1>6, <1>7
<1> QED BY <1>6, <1>13, <1>14 DEF x, e, t

-----------------------------------------------------------------------------
(* One stream. *)

LEMMA EmptyLedger ==
  ASSUME NEW v \in Views, NEW told
  PROVE  HasLedger(<< >>, v, v, told)
<1> DEFINE g == [i \in 0 .. 0 |-> v]
<1>1. g \in [0 .. Len(<< >>) -> Views] /\ g[0] = v /\ \A i \in 0 .. Len(<< >>) : g[i] = v
  OBVIOUS
<1>2. IsLedger(g, << >>, v, v, told)
  BY <1>1 DEF IsLedger
<1> QED BY <1>1, <1>2 DEF HasLedger

LEMMA LedgerUntold ==
  ASSUME NEW w, NEW v, NEW full, NEW t, NEW u, u => t, HasLedger(w, v, full, t)
  PROVE  HasLedger(w, v, full, u)
BY DEF HasLedger, IsLedger

(* Nothing is told of a stream that is not over. *)
LEMMA NothingTold ==
  ASSUME NEW r \in Streams, StreamInv(r), ~Done(r)
  PROVE  ~Told(r) /\ \A i \in 1 .. Len(wire[r]) : wire[r][i] # Completed("completed")
BY DEF StreamInv, DoneIsTold, Told

(* What a step that sends events does to the wire of r. *)
Sends(r, events) == wire'[r] = IF r \in busy THEN wire[r] \o events ELSE wire[r]

LEMMA WriteSends ==
  ASSUME TypeOK, NEW r \in Streams, NEW events, Write(r, events)
  PROVE  Sends(r, events) /\ \A s \in Streams : s # r => wire'[s] = wire[s]
BY DEF TypeOK, Write, Sends

LEMMA Concatenation ==
  ASSUME NEW w \in Seq(Event), NEW events \in Seq(Event)
  PROVE  /\ Len(w \o events) = Len(w) + Len(events) /\ Len(w) \in Nat /\ Len(events) \in Nat
         /\ \A i \in 1 .. Len(w) : (w \o events)[i] = w[i]
         /\ \A i \in 1 .. Len(w) + Len(events) :
              i \in 1 .. Len(w) \/ (i - Len(w) \in 1 .. Len(events) /\ (w \o events)[i] = events[i - Len(w)])
OBVIOUS

(* Events other than chunks and outcomes: the start, a refusal, a broken connection. *)
LEMMA QuietEventsKeep ==
  ASSUME TypeOK, NEW r \in Streams, StreamInv(r), NEW events \in Seq(Event), Sends(r, events),
         \A i \in 1 .. Len(events) : ~IsChunk(events[i]),
         Full(r)' = Full(r), view'[r] = view[r], shown'[r] = shown[r], r \in busy' <=> r \in busy
  PROVE  Ledger(r)'
<1>1. Told(r)' = Told(r) /\ Views' = Views
  BY DEF Told, Views
<1>2. CASE r \in busy
  <2>1. wire[r] \in Seq(Event) /\ Full(r) \in Views /\ wire'[r] = wire[r] \o events
    BY <1>2, FullType DEF TypeOK, Sends
  <2>2. HasLedger(wire[r], view[r], Full(r), Told(r)) /\ view[r] \in Views
    BY <1>2 DEF StreamInv, Ledger
  <2>3. HasLedger(wire[r] \o events, view[r], Full(r), Told(r))
    BY <2>1, <2>2, QuietEventsExtend
  <2>4. HasLedger(wire'[r], view'[r], Full(r)', Told(r)')
    BY <2>1, <2>3, <1>1
  <2> QED BY <1>1, <1>2, <2>2, <2>4 DEF Ledger
<1>3. CASE r \notin busy
  BY <1>1, <1>3 DEF StreamInv, Ledger, Sends
<1> QED BY <1>2, <1>3

(* Nothing of r but its child, its timer and its place in the sets of requests. *)
PageStays(r) ==
  /\ written'[r] = written[r] /\ (r \in truncated' <=> r \in truncated)
  /\ wire'[r] = wire[r] /\ view'[r] = view[r] /\ shown'[r] = shown[r] /\ (r \in busy' <=> r \in busy)

LEMMA PageStaysLedger ==
  ASSUME NEW r \in Streams, Ledger(r), PageStays(r)
  PROVE  Ledger(r)' /\ Full(r)' = Full(r)
<1>1. Full(r)' = Full(r) /\ Told(r)' = Told(r) /\ Views' = Views
  BY FullStays DEF PageStays, Told, Views
<1> QED BY <1>1 DEF Ledger, PageStays, HasLedger, IsLedger

SameStream(r) ==
  /\ PageStays(r)
  /\ at'[r] = at[r] /\ child'[r] = child[r] /\ pipe'[r] = pipe[r] /\ timer'[r] = timer[r]
  /\ (r \in listening' <=> r \in listening) /\ (r \in closed' <=> r \in closed)
  /\ (r \in signalled' <=> r \in signalled) /\ (r \in late' <=> r \in late)

LEMMA SameStreamKeeps ==
  ASSUME NEW r \in Streams, StreamInv(r), SameStream(r)
  PROVE  StreamInv(r)'
<1>1. Ledger(r)' /\ Full(r)' = Full(r)
  BY PageStaysLedger DEF StreamInv, SameStream
<1>2. DoneIsTold(r)' /\ EndIsTold(r)'
  BY DEF StreamInv, SameStream, PageStays, DoneIsTold, EndIsTold, Done
<1> QED BY <1>1, <1>2 DEF StreamInv, SameStream, PageStays

-----------------------------------------------------------------------------
(* The steps of a stream. *)

LEMMA SubmitKeeps ==
  ASSUME TypeOK, NEW r \in Streams, StreamInv(r), Submit(r)
  PROVE  StreamInv(r)'
<1>1. /\ at'[r] = "checking" /\ shown'[r] = "running" /\ r \in busy'
      /\ child'[r] = "none" /\ wire'[r] = << >> /\ view'[r] = view[r] /\ view[r] = Full(r) /\ view[r] \in Views
      /\ UNCHANGED <<output, request>>
  BY DEF Submit, Goes, Shows, TypeOK, Runs, StreamInv, Ledger, process
<1>2. Full(r)' = Full(r) /\ Views' = Views /\ Told(r)' = FALSE
  BY <1>1, FullStays DEF output, Views, Told
<1>3. HasLedger(<< >>, view[r], view[r], FALSE)
  BY <1>1, EmptyLedger
<1>4. Ledger(r)'
  BY <1>1, <1>2, <1>3 DEF Ledger
<1>5. DoneIsTold(r)' /\ EndIsTold(r)'
  BY <1>1 DEF DoneIsTold, EndIsTold
<1> QED BY <1>1, <1>4, <1>5 DEF StreamInv, StreamStates, output

LEMMA RefuseKeeps ==
  ASSUME TypeOK, NEW r \in Streams, StreamInv(r), Refuse(r)
  PROVE  StreamInv(r)'
<1>1. /\ at[r] = "checking" /\ at'[r] = "refused"
      /\ UNCHANGED <<output, page, closed>>
  BY DEF Refuse, Goes, TypeOK, Runs, request
<1>2. PICK events \in Seq(Event) : /\ Sends(r, events)
                                   /\ \A i \in 1 .. Len(events) : events[i] \in {Started, Failure, End}
  <2>1. <<Failure, End>> \in Seq(Event) /\ <<Started, Failure, End>> \in Seq(Event)
    BY EventTypes
  <2>2. CASE Write(r, <<Failure, End>>)
    <3>1. \A i \in 1 .. Len(<<Failure, End>>) : <<Failure, End>>[i] \in {Started, Failure, End}
      OBVIOUS
    <3>2. Sends(r, <<Failure, End>>)
      BY <2>2, WriteSends
    <3> QED BY <2>1, <3>1, <3>2
  <2>3. CASE Write(r, <<Started, Failure, End>>)
    <3>1. \A i \in 1 .. Len(<<Started, Failure, End>>) : <<Started, Failure, End>>[i] \in {Started, Failure, End}
      OBVIOUS
    <3>2. Sends(r, <<Started, Failure, End>>)
      BY <2>3, WriteSends
    <3> QED BY <2>1, <3>1, <3>2
  <2> QED BY <2>2, <2>3 DEF Refuse
<1>3. \A e \in {Started, Failure, End} : ~IsChunk(e) /\ e # Completed("completed")
  BY DEF IsChunk, Started, Failure, End, Completed
<1>4. Full(r)' = Full(r)
  BY <1>1, FullStays DEF output
<1>5. Ledger(r)'
  BY <1>1, <1>2, <1>3, <1>4, QuietEventsKeep DEF page
<1>6. ~Told(r) /\ \A i \in 1 .. Len(wire[r]) : wire[r][i] # Completed("completed")
  BY <1>1, NothingTold DEF Done
<1>7. \A i \in 1 .. Len(wire'[r]) : wire'[r][i] # Completed("completed")
  <2>1. wire[r] \in Seq(Event)
    BY DEF TypeOK
  <2> QED BY <1>2, <1>3, <1>6, <2>1, Concatenation DEF Sends
<1>8. DoneIsTold(r)' /\ EndIsTold(r)'
  BY <1>1, <1>6, <1>7 DEF DoneIsTold, EndIsTold, Told, page
<1> QED BY <1>1, <1>5, <1>8 DEF StreamInv, StreamStates, output

LEMMA StartKeeps ==
  ASSUME TypeOK, NEW r \in Streams, StreamInv(r), Start(r)
  PROVE  StreamInv(r)'
<1>1. /\ at[r] = "checking" /\ at'[r] = "running"
      /\ UNCHANGED <<output, page, closed>>
      /\ r \in listening' \cup closed /\ (r \in closed => r \in late')
  BY DEF Start, Goes, TypeOK, Runs
<1>2. Sends(r, <<Started>>) /\ <<Started>> \in Seq(Event)
  BY WriteSends, EventTypes DEF Start
<1>3. \A i \in 1 .. Len(<<Started>>) : ~IsChunk(<<Started>>[i])
  BY DEF IsChunk, Started
<1>10. Started # Completed("completed") /\ Started # End
  BY DEF Started, Completed, End
<1>4. Full(r)' = Full(r)
  BY <1>1, FullStays DEF output
<1>5. Ledger(r)'
  BY <1>1, <1>2, <1>3, <1>4, QuietEventsKeep DEF page
<1>6. ~Told(r) /\ \A i \in 1 .. Len(wire[r]) : wire[r][i] # Completed("completed")
  BY <1>1, NothingTold DEF Done
<1>7. \A i \in 1 .. Len(wire'[r]) :
        \/ i \in 1 .. Len(wire[r]) /\ wire'[r][i] = wire[r][i] /\ \A j \in 1 .. i : wire'[r][j] = wire[r][j]
        \/ wire'[r][i] = Started
  <2>1. wire[r] \in Seq(Event)
    BY DEF TypeOK
  <2> QED BY <1>2, <2>1, Concatenation DEF Sends
<1>8. DoneIsTold(r)'
  BY <1>1, <1>10, <1>6, <1>7 DEF DoneIsTold, Told, page
<1>9. EndIsTold(r)'
  BY <1>1, <1>10, <1>7 DEF EndIsTold, StreamInv, page
<1> QED BY <1>1, <1>5, <1>8, <1>9 DEF StreamInv, StreamStates, output, page

LEMMA DataKeeps ==
  ASSUME TypeOK, NEW r \in Streams, StreamInv(r), NEW p \in Pipes, NEW n \in 1 .. MaxOutput, Data(r, p, n)
  PROVE  StreamInv(r)'
<1> DEFINE sum == written[r][p] + n
<1>1. /\ written[r][p] \in Nat /\ written[r][p] <= Limit /\ sum \in 0 .. MaxOutput
      /\ r \notin truncated /\ child[r] # "none" /\ ~Done(r)
      /\ UNCHANGED <<at, process, request, page>>
  BY DEF Data, StreamInv, TypeOK, Done
<1>2. written'[r] = [written[r] EXCEPT ![p] = sum]
  BY DEF Data, TypeOK
<1>3. PICK e \in Event : /\ Write(r, <<e>>) /\ IsChunk(e) /\ e.pipe = p
                         /\ \/ /\ sum > Limit /\ r \in truncated' /\ e.bytes = Limit - written[r][p] /\ e.cut
                            \/ /\ sum <= Limit /\ r \notin truncated' /\ e.bytes = n /\ ~e.cut
  <2>1. CASE sum > Limit
    <3>1. n - (sum - Limit) = Limit - written[r][p] /\ n - (sum - Limit) \in Nat
      BY <1>1, <2>1, LimitAssumption
    <3>2. Write(r, <<Chunk(p, n - (sum - Limit), TRUE)>>) /\ r \in truncated'
      BY <2>1 DEF Data
    <3> HIDE DEF sum
    <3>3. Chunk(p, n - (sum - Limit), TRUE) \in Event
      BY <3>1, EventTypes
    <3> QED BY <2>1, <3>1, <3>2, <3>3 DEF Chunk, IsChunk
  <2>2. CASE sum <= Limit
    <3>1. Write(r, <<Chunk(p, n, FALSE)>>) /\ r \notin truncated'
      BY <1>1, <2>2, LimitAssumption DEF Data
    <3>2. n \in Nat
      BY LimitAssumption
    <3>3. Chunk(p, n, FALSE) \in Event
      BY <3>2, EventTypes
    <3> HIDE DEF sum
    <3> QED BY <2>2, <3>1, <3>3 DEF Chunk, IsChunk
  <2> QED BY <1>1, <2>1, <2>2, LimitAssumption
<1>4. \A q \in Pipes : Expected(r, q)' = IF q = p THEN Expected(r, q) + e.bytes ELSE Expected(r, q)
  <2>1. ASSUME NEW q \in Pipes, q # p PROVE Expected(r, q)' = Expected(r, q)
    BY <1>2, <2>1 DEF Expected, TypeOK
  <2>2. Expected(r, p)' = Expected(r, p) + e.bytes
    <3>1. written'[r][p] = sum /\ Expected(r, p) = written[r][p]
      BY <1>1, <1>2, LimitAssumption DEF Expected, TypeOK
    <3> QED BY <1>1, <1>3, <3>1, LimitAssumption DEF Expected
  <2> QED BY <2>1, <2>2
<1>5. Full(r)' = After(Full(r), e)
  <2>1. Full(r).marks = 0 /\ Full(r)'.marks = (IF e.cut THEN 1 ELSE 0)
    BY <1>1, <1>3 DEF Full
  <2> DEFINE b == [q \in Pipes |-> Expected(r, q)]
             c == [b EXCEPT ![p] = @ + e.bytes]
  <2>2. Full(r)'.bytes = c
    BY <1>4 DEF Full
  <2>3. Full(r) = [bytes |-> b, marks |-> 0]
    BY <1>1 DEF Full
  <2>4. Full(r).bytes = b /\ Full(r).marks = 0
    BY <2>3
  <2>5. After(Full(r), e) = [bytes |-> c, marks |-> 0 + (IF e.cut THEN 1 ELSE 0)]
    BY <1>3, <2>4 DEF After, IsChunk
  <2>6. Full(r)' = [bytes |-> Full(r)'.bytes, marks |-> Full(r)'.marks]
    BY DEF Full
  <2> HIDE DEF b, c
  <2>7. 0 + (IF e.cut THEN 1 ELSE 0) = IF e.cut THEN 1 ELSE 0
    OBVIOUS
  <2> QED BY <2>1, <2>2, <2>5, <2>6, <2>7
<1>6. TypeOK' /\ Full(r)' \in Views
  <2>1. TypeOK'
    BY <1>1, DataTypes DEF Runs
  <2>2. (Full(r) \in Views)'
    <3>1. \A q \in Pipes : Expected(r, q)' \in 0 .. Limit
      BY <2>1, LimitAssumption DEF TypeOK, Expected
    <3> QED BY <3>1 DEF Full, Views
  <2> QED BY <2>1, <2>2 DEF Views
<1> HIDE DEF sum
<1>7. ~Told(r) /\ \A i \in 1 .. Len(wire[r]) : wire[r][i] # Completed("completed")
  BY <1>1, NothingTold
<1>8. Sends(r, <<e>>) /\ wire[r] \in Seq(Event) /\ <<e>> \in Seq(Event)
  BY <1>3, WriteSends DEF TypeOK
<1>9. Ledger(r)'
  <2>1. Views' = Views /\ Told(r)' = FALSE /\ view[r] \in Views /\ UNCHANGED <<busy, view, shown>>
    BY <1>1, <1>7 DEF Views, Told, page, StreamInv, Ledger
  <2>2. CASE r \in busy
    <3>1. HasLedger(wire[r], view[r], Full(r), FALSE)
      BY <1>7, <2>2, LedgerUntold DEF StreamInv, Ledger
    <3>2. After(Full(r), e) \in Views
      BY <1>5, <1>6
    <3>3. HasLedger(wire[r] \o <<e>>, view[r], After(Full(r), e), FALSE)
      BY <1>3, <1>7, <1>8, <3>1, <3>2, ChunkExtends
    <3>4. wire'[r] = wire[r] \o <<e>>
      BY <1>8, <2>2 DEF Sends
    <3>5. HasLedger(wire'[r], view'[r], Full(r)', Told(r)')
      BY <1>5, <2>1, <3>3, <3>4
    <3> QED BY <2>1, <2>2, <3>5 DEF Ledger
  <2>3. CASE r \notin busy
    BY <1>8, <2>1, <2>3 DEF StreamInv, Ledger, Sends
  <2> QED BY <2>2, <2>3
<1>10. \A i \in 1 .. Len(wire'[r]) :
         \/ i \in 1 .. Len(wire[r]) /\ wire'[r][i] = wire[r][i] /\ \A j \in 1 .. i : wire'[r][j] = wire[r][j]
         \/ wire'[r][i] = e
  BY <1>8, Concatenation DEF Sends
<1>11. e # End /\ e # Completed("completed")
  BY <1>3 DEF IsChunk, End, Completed
<1>12. DoneIsTold(r)'
  BY <1>1, <1>7, <1>10, <1>11 DEF DoneIsTold, Told, page
<1>13. EndIsTold(r)'
  BY <1>1, <1>10, <1>11 DEF EndIsTold, StreamInv, page
<1>14. r \notin truncated' => \A q \in Pipes : written'[r][q] <= Limit
  BY <1>1, <1>2, <1>3 DEF StreamInv, TypeOK, sum
<1>15. at[r] # "idle" /\ at[r] # "checking"
  BY <1>1 DEF StreamInv
<1> QED BY <1>1, <1>9, <1>12, <1>13, <1>14, <1>15 DEF StreamInv, process, request, page

LEMMA FinishKeeps ==
  ASSUME TypeOK, NEW r \in Streams, StreamInv(r), SpawnFails(r) \/ Close(r)
  PROVE  StreamInv(r)'
<1>1. PICK events \in Seq(Event) :
        /\ Finish(r, events) /\ Len(events) \in {2, 3}
        /\ \A i \in 1 .. Len(events) : events[i] \in {Failure, Completed("failed"), Completed(ExitStatus(r)), End}
        /\ \A i \in 1 .. Len(events) : events[i] = End => i > 1 /\ IsOutcome(events[i - 1])
        /\ ~Close(r) => \A i \in 1 .. Len(events) : events[i] # Completed("completed")
  <2>0. Completed(ExitStatus(r)).type = "completed" /\ Completed("failed").type = "completed"
    BY DEF Completed
  <2>1. CASE SpawnFails(r) /\ ~Close(r)
    <3> DEFINE events == <<Failure, Completed("failed"), End>>
    <3>1. events \in Seq(Event) /\ Len(events) = 3 /\ Finish(r, events)
      BY <2>1, EventTypes DEF SpawnFails
    <3>2. events[1] = Failure /\ events[2] = Completed("failed") /\ events[3] = End
      OBVIOUS
    <3>3. Failure # End /\ Completed("failed") # End /\ Completed("failed") # Completed("completed")
          /\ Failure # Completed("completed") /\ End # Completed("completed")
      BY DEF Failure, End, Completed
    <3> HIDE DEF events
    <3>4. \A i \in 1 .. Len(events) : i = 1 \/ i = 2 \/ i = 3
      BY <3>1
    <3> QED BY <2>0, <2>1, <3>1, <3>2, <3>3, <3>4 DEF IsOutcome
  <2>2. CASE Close(r)
    <3> DEFINE events == <<Completed(ExitStatus(r)), End>>
    <3>1. events \in Seq(Event) /\ Len(events) = 2 /\ Finish(r, events)
      BY <2>2, EventTypes, ExitStatusType DEF Close, Runs
    <3>2. events[1] = Completed(ExitStatus(r)) /\ events[2] = End
      OBVIOUS
    <3>3. Completed(ExitStatus(r)) # End
      BY DEF End, Completed
    <3> HIDE DEF events
    <3>4. \A i \in 1 .. Len(events) : i = 1 \/ i = 2
      BY <3>1
    <3> QED BY <2>0, <2>2, <3>1, <3>2, <3>3, <3>4 DEF IsOutcome
  <2> QED BY <2>1, <2>2
<1>2. /\ at[r] = "running" /\ at'[r] = "ended" /\ Sends(r, events)
      /\ timer'[r] = (IF timer[r] = "armed" THEN "off" ELSE timer[r])
      /\ UNCHANGED <<child, pipe, output, closed, page>>
  BY <1>1, WriteSends DEF Finish, Goes, Off, TypeOK, Runs, SpawnFails, Close
<1>3. \A i \in 1 .. Len(events) : ~IsChunk(events[i])
  BY <1>1 DEF IsChunk, Failure, Completed, End
<1>4. Full(r)' = Full(r)
  BY <1>2, FullStays DEF output
<1>5. Ledger(r)'
  BY <1>2, <1>3, <1>4, QuietEventsKeep DEF page
<1>6. ~Told(r) /\ \A i \in 1 .. Len(wire[r]) : wire[r][i] # Completed("completed")
  BY <1>2, NothingTold DEF Done
<1>7. ASSUME NEW i \in 1 .. Len(wire'[r]), i \notin 1 .. Len(wire[r])
      PROVE  /\ Sends(r, events) /\ r \in busy
             /\ i - Len(wire[r]) \in 1 .. Len(events) /\ wire'[r][i] = events[i - Len(wire[r])]
             /\ wire[r] \in Seq(Event) /\ Len(wire'[r]) = Len(wire[r]) + Len(events)
  <2>1. wire[r] \in Seq(Event)
    BY DEF TypeOK
  <2> QED BY <1>2, <1>7, <2>1, Concatenation DEF Sends
<1>8. \A i \in 1 .. Len(wire[r]) : wire'[r][i] = wire[r][i]
  <2>1. wire[r] \in Seq(Event)
    BY DEF TypeOK
  <2> QED BY <1>2, <2>1, Concatenation DEF Sends
<1>9. DoneIsTold(r)'
  <2>1. ASSUME NEW i \in 1 .. Len(wire'[r]), wire'[r][i] = Completed("completed") PROVE Done(r)'
    <3>1. i \notin 1 .. Len(wire[r])
      BY <1>6, <1>8, <2>1
    <3>2. Close(r) /\ ExitStatus(r) = "completed"
      <4>1. PICK j \in 1 .. Len(events) : events[j] = Completed("completed")
        BY <1>7, <2>1, <3>1
      <4>2. Completed("failed") # Completed("completed") /\ Failure # Completed("completed") /\ End # Completed("completed")
            /\ (Completed(ExitStatus(r)) = Completed("completed") => ExitStatus(r) = "completed")
        BY DEF Completed, Failure, End
      <4> QED BY <1>1, <4>1, <4>2
    <3> QED BY <1>2, <3>2 DEF Done, Close, ExitStatus
  <2> QED BY <1>2, <1>6, <2>1 DEF DoneIsTold, Told, page
<1>10. EndIsTold(r)'
  <2> SUFFICES ASSUME NEW i \in 1 .. Len(wire'[r]), wire'[r][i] = End, shown[r] = "running"
               PROVE  \E j \in 1 .. i : IsOutcome(wire'[r][j])
    BY <1>2 DEF EndIsTold, page
  <2>1. CASE i \in 1 .. Len(wire[r])
    <3>1. PICK j \in 1 .. i : IsOutcome(wire[r][j])
      BY <1>2, <1>8, <2>1 DEF StreamInv, EndIsTold
    <3> QED BY <1>8, <2>1, <3>1
  <2>2. CASE i \notin 1 .. Len(wire[r])
    <3> DEFINE n == Len(wire[r])
    <3>0. i - n \in 1 .. Len(events) /\ events[i - n] = End /\ wire[r] \in Seq(Event)
          /\ Len(wire'[r]) = n + Len(events)
      BY <1>7, <2>2
    <3>1. n \in Nat /\ i \in Nat /\ Len(wire'[r]) \in Nat /\ i - n \in 1 .. Len(events) /\ events[i - n] = End
      <4>1. n \in Nat /\ Len(events) \in Nat
        BY <3>0
      <4> QED BY <3>0, <4>1
    <3>2. i - n > 1 /\ IsOutcome(events[(i - n) - 1])
      BY <1>1, <3>1
    <3>3. i - 1 \in 1 .. i /\ i - 1 \in 1 .. Len(wire'[r]) /\ i - 1 \notin 1 .. n /\ (i - 1) - n = (i - n) - 1
      BY <3>1, <3>2
    <3>4. wire'[r][i - 1] = events[(i - n) - 1]
      BY <1>7, <3>3
    <3> QED BY <3>2, <3>3, <3>4
  <2> QED BY <2>1, <2>2
<1> QED BY <1>2, <1>5, <1>9, <1>10 DEF StreamInv, StreamStates, output, page

LEMMA ClosesKeeps ==
  ASSUME TypeOK, NEW r \in Streams, StreamInv(r), RequestCloses(r)
  PROVE  StreamInv(r)'
<1>1. /\ r \notin closed /\ r \in closed' /\ at[r] \in {"checking", "running"}
      /\ UNCHANGED <<at, timer, output, late, wire, page>> /\ ~Done(r)
  BY DEF RequestCloses, Done
<1>2. PageStays(r) /\ Ledger(r)'
  BY <1>1, PageStaysLedger DEF PageStays, output, page, StreamInv
<1>3. child[r] = "none" => child'[r] = "none"
  BY <1>1 DEF RequestCloses, Signal, Ends
<1>4. at[r] = "running" => r \in signalled'
  BY <1>1 DEF StreamInv, RequestCloses
<1>5. DoneIsTold(r)' /\ EndIsTold(r)'
  BY <1>1, NothingTold DEF DoneIsTold, EndIsTold, Told, StreamInv, page
<1> QED BY <1>1, <1>2, <1>3, <1>4, <1>5 DEF StreamInv, page, output

LEMMA ReadKeeps ==
  ASSUME TypeOK, NEW r \in Streams, StreamInv(r), Read(r)
  PROVE  StreamInv(r)'
<1> DEFINE e == Head(wire[r])  n == Len(wire[r])
<1>1. /\ r \in busy /\ wire[r] \in Seq(Event) /\ wire[r] # << >> /\ e \in Event
      /\ UNCHANGED <<at, process, output, request>>
      /\ view'[r] = After(view[r], e)
      /\ wire'[r] = IF r \in busy' THEN Tail(wire[r]) ELSE << >>
  BY DEF Read, TypeOK
<1>2. /\ n \in Nat \ {0} /\ e = wire[r][1] /\ Len(Tail(wire[r])) = n - 1
      /\ \A i \in 1 .. n - 1 : Tail(wire[r])[i] = wire[r][i + 1]
  BY <1>1
<1>3. \/ e.type = "completed" /\ shown'[r] = e.status /\ UNCHANGED busy /\ e.status \in {"completed", "failed"}
      \/ e.type = "broken" /\ shown'[r] = "failed" /\ busy' = {}
      \/ e.type = "end" /\ shown'[r] = shown[r] /\ busy' = {}
      \/ e.type \notin {"completed", "broken", "end"} /\ shown'[r] = shown[r] /\ UNCHANGED busy
  <2>1. e.type = "completed" => e.status \in {"completed", "failed"}
    BY <1>1 DEF Event
  <2> QED BY <1>1, <2>1 DEF Read, Shows, TypeOK, Runs
<1>4. /\ e.type = "end" => e = End
      /\ e.type = "completed" /\ e.status = "completed" => e = Completed("completed")
  BY <1>1 DEF Event, End, Completed
<1>5. \A i \in 1 .. Len(wire'[r]) :
        r \in busy' /\ i \in 1 .. n - 1 /\ i + 1 \in 1 .. n /\ wire'[r][i] = wire[r][i + 1]
  BY <1>1, <1>2
<1> HIDE DEF e, n
<1>6. Told(r)' => Told(r) \/ e = Completed("completed")
  BY <1>3, <1>4 DEF Told
<1>7. Ledger(r)'
  <2> DEFINE t == Told(r) \/ e = Completed("completed")
  <2>1. HasLedger(wire[r], view[r], Full(r), Told(r))
    BY <1>1 DEF StreamInv, Ledger
  <2>2. HasLedger(Tail(wire[r]), After(view[r], e), Full(r), t) /\ After(view[r], e) \in Views
        /\ (t => After(view[r], e) = Full(r))
    BY <1>1, <2>1, ReadingStrikesOff DEF e
  <2>3. HasLedger(Tail(wire[r]), After(view[r], e), Full(r), Told(r)')
    BY <1>6, <2>2, LedgerUntold
  <2>4. Full(r)' = Full(r) /\ Views' = Views
    BY <1>1, FullStays DEF output, Views
  <2> HIDE DEF t
  <2>5. CASE r \in busy'
    <3>1. HasLedger(wire'[r], view'[r], Full(r)', Told(r)')
      BY <1>1, <2>3, <2>4, <2>5
    <3> QED BY <1>1, <2>2, <2>4, <2>5, <3>1 DEF Ledger
  <2>6. CASE r \notin busy'
    BY <1>1, <1>6, <2>2, <2>4, <2>6 DEF Ledger, t
  <2> QED BY <2>5, <2>6
<1>8. DoneIsTold(r)'
  <2>1. Done(r)' = Done(r)
    BY <1>1 DEF Done, process
  <2>2. Told(r)' => Done(r)
    <3>1. 1 \in 1 .. n
      BY <1>2
    <3> QED BY <1>2, <1>6, <3>1 DEF StreamInv, DoneIsTold, Told, n
  <2>3. \A i \in 1 .. Len(wire'[r]) : wire'[r][i] = Completed("completed") => Done(r)
    BY <1>5 DEF StreamInv, DoneIsTold, n
  <2> QED BY <2>1, <2>2, <2>3 DEF DoneIsTold, Told
<1>9. shown[r] # "running" => shown'[r] # "running"
  BY <1>3
<1>10. EndIsTold(r)'
  <2> SUFFICES ASSUME NEW i \in 1 .. Len(wire'[r]), wire'[r][i] = End, at[r] # "refused", shown'[r] = "running"
               PROVE  \E j \in 1 .. i : IsOutcome(wire'[r][j])
    BY <1>1 DEF EndIsTold
  <2>1. i \in 1 .. n - 1 /\ i + 1 \in 1 .. n /\ wire[r][i + 1] = End
    BY <1>5
  <2>2. PICK k \in 1 .. i + 1 : IsOutcome(wire[r][k])
    BY <1>9, <2>1 DEF StreamInv, EndIsTold, n
  <2>3. k # 1
    BY <1>2, <1>3, <2>2 DEF IsOutcome
  <2>4. k - 1 \in 1 .. i /\ (k - 1) + 1 = k /\ k - 1 \in 1 .. Len(wire'[r])
    BY <1>2, <2>1, <2>2, <2>3
  <2>5. wire'[r][k - 1] = wire[r][k]
    BY <1>5, <2>4
  <2> QED BY <2>2, <2>4, <2>5
<1>11. r \notin busy' => shown'[r] # "running" \/ at'[r] = "refused"
  <2>1. CASE e.type = "broken"
    BY <1>3, <2>1
  <2>2. CASE e.type = "end"
    <3>1. 1 \in 1 .. n /\ \A j \in 1 .. 1 : j = 1
      BY <1>2
    <3>2. wire[r][1] = End /\ ~IsOutcome(wire[r][1])
      BY <1>2, <1>4, <2>2 DEF IsOutcome
    <3>3. at[r] = "refused" \/ shown[r] # "running"
      BY <3>1, <3>2 DEF StreamInv, EndIsTold, n
    <3> QED BY <1>1, <1>9, <3>3
  <2>3. CASE e.type \notin {"broken", "end"}
    BY <1>1, <1>3, <2>3
  <2> QED BY <2>1, <2>2, <2>3
<1>12. at[r] # "idle"
  BY <1>1 DEF StreamInv
<1> QED BY <1>1, <1>7, <1>8, <1>10, <1>11, <1>12 DEF StreamInv, process, output, request

LEMMA TerminateKeeps ==
  ASSUME TypeOK, NEW r \in Streams, StreamInv(r), Terminate(r)
  PROVE  StreamInv(r)'
<1>1. /\ r \in busy /\ busy' = {} /\ shown'[r] = "failed" /\ wire'[r] = << >>
      /\ UNCHANGED <<at, process, output, request, view>>
  BY DEF Terminate, Shows, TypeOK, Runs
<1>2. Ledger(r)'
  BY <1>1 DEF StreamInv, Ledger, Told, Views
<1>3. DoneIsTold(r)' /\ EndIsTold(r)'
  BY <1>1 DEF DoneIsTold, EndIsTold
<1> QED BY <1>1, <1>2, <1>3 DEF StreamInv, process, output, request

(* The shell of a stream exits, leaves its pipes, or is killed by its timer. *)
LEMMA ShellKeeps ==
  ASSUME TypeOK, NEW r \in Streams, StreamInv(r), Exit(r) \/ Release(r) \/ TimeOut(r)
  PROVE  StreamInv(r)'
<1>1. UNCHANGED <<at, output, request, wire, page>>
  BY DEF Exit, Release, TimeOut
<1>2. PageStays(r) /\ Ledger(r)' /\ Full(r)' = Full(r)
  BY <1>1, PageStaysLedger DEF PageStays, output, page, StreamInv
<1>3. /\ child[r] = "none" => child'[r] = "none"
      /\ child'[r] = "alive" => child[r] = "alive"
  BY DEF Exit, Release, TimeOut, Signal, Ends, TypeOK, Runs
<1>4. Done(r) => Done(r)'
  <2>1. Done(r) => Release(r)
    BY DEF Done, Exit, TimeOut, Ends
  <2>2. Release(r) => pipe'[r] = FALSE /\ UNCHANGED <<child, timer, at>>
    BY DEF Release, TypeOK, Runs
  <2> QED BY <2>1, <2>2 DEF Done
<1>5. DoneIsTold(r)' /\ EndIsTold(r)'
  BY <1>1, <1>4 DEF DoneIsTold, EndIsTold, StreamInv, page
<1> QED BY <1>1, <1>2, <1>3, <1>5 DEF StreamInv, page, output, request

LEMMA DiesKeepsStream ==
  ASSUME TypeOK, NEW r \in Streams, StreamInv(r), Dies
  PROVE  StreamInv(r)'
<1>1. /\ UNCHANGED <<child, pipe, output, closed, signalled, late, page>>
      /\ at'[r] = (IF at[r] \in {"idle", "ended", "refused", "unsaved"} THEN at[r] ELSE "dead")
      /\ timer'[r] = (IF timer[r] = "armed" THEN "off" ELSE timer[r])
      /\ wire'[r] = (IF r \in busy /\ at'[r] = "dead" THEN wire[r] \o <<Broken>> ELSE wire[r])
  BY DEF Dies, Resting, Runs
<1>2. Full(r)' = Full(r)
  BY <1>1, FullStays DEF output
<1>3. CASE wire'[r] = wire[r]
  <2>1. PageStays(r) /\ Ledger(r)'
    BY <1>1, <1>3, PageStaysLedger DEF PageStays, output, page, StreamInv
  <2>2. DoneIsTold(r)'
    BY <1>1, <1>3 DEF DoneIsTold, Done, StreamInv, page
  <2>3. EndIsTold(r)'
    BY <1>1, <1>3 DEF EndIsTold, StreamInv, page
  <2> QED BY <1>1, <1>2, <2>1, <2>2, <2>3 DEF StreamInv, StreamStates, page, output
<1>4. CASE r \in busy /\ at'[r] = "dead" /\ wire'[r] = wire[r] \o <<Broken>>
  <2>1. <<Broken>> \in Seq(Event) /\ wire[r] \in Seq(Event) /\ Sends(r, <<Broken>>)
    BY <1>4, EventTypes DEF TypeOK, Sends
  <2>2. \A i \in 1 .. Len(<<Broken>>) : ~IsChunk(<<Broken>>[i])
    BY DEF IsChunk, Broken
  <2>3. Ledger(r)'
    BY <1>1, <1>2, <2>1, <2>2, QuietEventsKeep DEF page
  <2>4. ~Done(r) \/ at[r] = "dead"
    BY <1>1, <1>4 DEF Done
  <2>5. ~Told(r) /\ \A i \in 1 .. Len(wire[r]) : wire[r][i] # Completed("completed")
    BY <2>4, NothingTold DEF Done
  <2>6. \A i \in 1 .. Len(wire'[r]) :
          \/ i \in 1 .. Len(wire[r]) /\ wire'[r][i] = wire[r][i] /\ \A j \in 1 .. i : wire'[r][j] = wire[r][j]
          \/ wire'[r][i] = Broken
    BY <1>4, <2>1, Concatenation
  <2>7. Broken # Completed("completed") /\ Broken # End
    BY DEF Broken, Completed, End
  <2>8. DoneIsTold(r)'
    BY <1>1, <2>5, <2>6, <2>7 DEF DoneIsTold, Told, page
  <2>9. at[r] # "refused"
    BY <1>1, <1>4
  <2>10. EndIsTold(r)'
    BY <1>1, <2>6, <2>7, <2>9 DEF EndIsTold, StreamInv, page
  <2> QED BY <1>1, <1>2, <1>4, <2>3, <2>8, <2>10 DEF StreamInv, StreamStates, page, output
<1> QED BY <1>1, <1>3, <1>4

-----------------------------------------------------------------------------
(* Records. *)

LEMMA RecordKeeps ==
  ASSUME TypeOK, NEW r \in Records, RecordInv(r),
         Create(r) \/ Ask(r) \/ Recorded(r) \/ Gather(r) \/ Exit(r) \/ Release(r) \/ TimeOut(r)
  PROVE  RecordInv(r)'
<1> USE DEF Runs
<1>1. CASE Create(r) \/ Ask(r) \/ Begin(r)
  BY <1>1 DEF Create, Ask, Begin, UpdateFails, Goes, Shows, TypeOK, RecordInv, RecordStates, page
<1>2. CASE Run(r)
  BY <1>2 DEF Run, Goes, TypeOK, RecordInv, RecordStates, page
<1>3. CASE Gather(r)
  BY <1>3 DEF Gather, Goes, TypeOK, RecordInv, RecordStates, page
<1>4. CASE Save(r)
  BY <1>4 DEF Save, UpdateFails, Goes, Shows, ExitStatus, TypeOK, RecordInv, RecordStates, process
<1>5. CASE Exit(r) \/ Release(r) \/ TimeOut(r)
  <2>1. UNCHANGED <<at, shown>>
    BY <1>5 DEF Exit, Release, TimeOut, page
  <2>2. at[r] = "ended" /\ child[r] = "zero" => UNCHANGED <<child, timer>>
    BY <1>5 DEF Exit, Release, TimeOut, Ends
  <2> QED BY <2>1, <2>2 DEF RecordInv
<1> QED BY <1>1, <1>2, <1>3, <1>4, <1>5 DEF Recorded

LEMMA DiesKeepsRecord ==
  ASSUME TypeOK, NEW r \in Records, RecordInv(r), Dies
  PROVE  RecordInv(r)'
BY DEF Dies, Resting, RecordInv, RecordStates, page, Runs

-----------------------------------------------------------------------------
(* All runs. *)

(* Nothing of run s: of its page neither, when it is a stream. *)
SameRun(s) ==
  /\ at'[s] = at[s] /\ child'[s] = child[s] /\ timer'[s] = timer[s] /\ shown'[s] = shown[s]
  /\ s \in Streams => SameStream(s)

LEMMA OneRunMoves ==
  ASSUME CInv, TypeOK', NEW r \in Runs, \A s \in Runs : s # r => SameRun(s),
         r \in Streams => StreamInv(r)', r \in Records => RecordInv(r)',
         \A a, b \in busy' : a = b
  PROVE  CInv'
<1>1. ASSUME NEW s \in Streams PROVE StreamInv(s)'
  <2>1. CASE s # r
    BY <2>1, SameStreamKeeps DEF CInv, SameRun, Runs
  <2> QED BY <2>1
<1>2. ASSUME NEW s \in Records PROVE RecordInv(s)'
  <2>1. CASE s # r
    BY <2>1 DEF CInv, SameRun, Runs, RecordInv
  <2> QED BY <2>1
<1> QED BY <1>1, <1>2 DEF CInv

LEMMA StreamStepKeeps ==
  ASSUME CInv, NEW r \in Streams,
         Submit(r) \/ Checked(r) \/ SpawnFails(r) \/ Close(r) \/ RequestCloses(r) \/ Read(r) \/ Terminate(r)
  PROVE  CInv'
<1>1. TypeOK /\ StreamInv(r) /\ r \in Runs /\ r \notin Records /\ \A a, b \in busy : a = b
  BY KindsAssumption DEF CInv, Runs
<1>2. TypeOK'
  BY <1>1, StreamTypes
<1>3. StreamInv(r)'
  BY <1>1, SubmitKeeps, RefuseKeeps, StartKeeps, FinishKeeps, ClosesKeeps, ReadKeeps, TerminateKeeps DEF Checked
<1>4. \A a, b \in busy' : a = b
  BY <1>1 DEF Submit, Checked, Refuse, Start, SpawnFails, Close, Finish, RequestCloses, Read, Terminate, page
<1>5. ASSUME NEW s \in Runs, s # r PROVE SameRun(s)
  <2> USE DEF SameRun, SameStream, PageStays, TypeOK
  <2>1. CASE Submit(r)
    BY <1>1, <1>5, <2>1 DEF Submit, Goes, Shows, process, output, request
  <2>2. CASE Refuse(r)
    BY <1>1, <1>5, <2>2 DEF Refuse, Goes, Write, process, output, request, page
  <2>3. CASE Start(r)
    BY <1>1, <1>5, <2>3 DEF Start, Goes, Write, Spawns, output, page
  <2>4. CASE SpawnFails(r) \/ Close(r)
    <3>1. PICK events : Finish(r, events)
      BY <2>4 DEF SpawnFails, Close
    <3> QED BY <1>1, <1>5, <3>1 DEF Finish, Goes, Off, Write, output, page
  <2>5. CASE RequestCloses(r)
    BY <1>1, <1>5, <2>5 DEF RequestCloses, Signal, Ends, output, page
  <2>6. CASE Read(r)
    <3>1. shown'[s] = shown[s]
      BY <1>1, <1>5, <2>6 DEF Read, Shows
    <3>2. s \in Streams => view'[s] = view[s] /\ wire'[s] = wire[s]
      BY <1>1, <1>5, <2>6 DEF Read
    <3>3. s \in busy' <=> s \in busy
      BY <1>1, <1>5, <2>6 DEF Read
    <3> QED BY <2>6, <3>1, <3>2, <3>3 DEF Read, process, output, request
  <2>7. CASE Terminate(r)
    BY <1>1, <1>5, <2>7 DEF Terminate, Shows, process, output, request
  <2> QED BY <2>1, <2>2, <2>3, <2>4, <2>5, <2>6, <2>7 DEF Checked
<1> QED BY <1>1, <1>2, <1>3, <1>4, <1>5, OneRunMoves

LEMMA DataStepKeeps ==
  ASSUME CInv, NEW r \in Streams, NEW p \in Pipes, NEW n \in 1 .. MaxOutput, Data(r, p, n)
  PROVE  CInv'
<1>1. TypeOK /\ StreamInv(r) /\ r \in Runs /\ r \notin Records /\ \A a, b \in busy : a = b
  BY KindsAssumption DEF CInv, Runs
<1>2. TypeOK'
  BY <1>1, DataTypes DEF StreamInv
<1>3. StreamInv(r)'
  BY <1>1, DataKeeps
<1>4. \A a, b \in busy' : a = b
  BY <1>1 DEF Data, page
<1>5. ASSUME NEW s \in Runs, s # r PROVE SameRun(s)
  BY <1>1, <1>5 DEF Data, Write, SameRun, SameStream, PageStays, TypeOK, process, request, page
<1> QED BY <1>1, <1>2, <1>3, <1>4, <1>5, OneRunMoves

LEMMA ShellStepKeeps ==
  ASSUME CInv, NEW r \in Runs, Exit(r) \/ Release(r) \/ TimeOut(r)
  PROVE  CInv'
<1>1. TypeOK /\ (r \in Streams => StreamInv(r)) /\ (r \in Records => RecordInv(r)) /\ \A a, b \in busy : a = b
  BY DEF CInv
<1>2. TypeOK'
  BY <1>1, RunTypes
<1>3. (r \in Streams => StreamInv(r)') /\ (r \in Records => RecordInv(r)')
  BY <1>1, ShellKeeps, RecordKeeps
<1>4. \A a, b \in busy' : a = b
  BY <1>1 DEF Exit, Release, TimeOut, page
<1>5. ASSUME NEW s \in Runs, s # r PROVE SameRun(s)
  BY <1>1, <1>5 DEF Exit, Release, TimeOut, Signal, Ends, SameRun, SameStream, PageStays, TypeOK, output, request, page
<1> QED BY <1>1, <1>2, <1>3, <1>4, <1>5, OneRunMoves

LEMMA RecordStepKeeps ==
  ASSUME CInv, NEW r \in Runs, Create(r) \/ Ask(r) \/ Recorded(r) \/ Gather(r)
  PROVE  CInv'
<1>1. r \in Records /\ r \notin Streams
  <2>1. r \in Streams => at[r] \in StreamStates
    BY DEF CInv, StreamInv
  <2> QED BY <2>1, KindsAssumption DEF Create, Ask, Recorded, Begin, UpdateFails, Run, Save, Gather, Runs, StreamStates
<1>2. TypeOK /\ RecordInv(r) /\ \A a, b \in busy : a = b
  BY <1>1 DEF CInv
<1>3. TypeOK' /\ RecordInv(r)'
  BY <1>1, <1>2, RunTypes, RecordKeeps
<1>4. \A a, b \in busy' : a = b
  BY <1>2 DEF Create, Ask, Recorded, Begin, UpdateFails, Run, Save, Gather, page
<1>5. ASSUME NEW s \in Runs, s # r PROVE SameRun(s)
  <2> USE DEF SameRun, SameStream, PageStays, TypeOK
  <2>1. CASE Create(r) \/ Ask(r) \/ Begin(r) \/ Save(r)
    BY <1>2, <1>5, <2>1 DEF Create, Ask, Begin, Save, UpdateFails, Goes, Shows, process, output, request, page
  <2>2. CASE Run(r)
    BY <1>2, <1>5, <2>2 DEF Run, Goes, Spawns, process, output, request, page
  <2>3. CASE Gather(r)
    BY <1>2, <1>5, <2>3 DEF Gather, Goes, Off, output, request, page
  <2> QED BY <2>1, <2>2, <2>3 DEF Recorded
<1> QED BY <1>1, <1>3, <1>4, <1>5, OneRunMoves

LEMMA DiesKeeps ==
  ASSUME CInv, Dies, crashes' \in 0 .. MaxCrashes, UNCHANGED failures
  PROVE  CInv'
<1>1. TypeOK /\ TypeOK' /\ UNCHANGED busy
  BY DiesTypes DEF CInv, Dies, page
<1> QED BY <1>1, DiesKeepsStream, DiesKeepsRecord DEF CInv

LEMMA InitHolds == Init => CInv
<1> SUFFICES ASSUME Init PROVE CInv
  OBVIOUS
<1>1. << >> \in Seq(Event)
  OBVIOUS
<1>2. TypeOK
  BY <1>1, LimitAssumption DEF Init, TypeOK, Blank
<1>3. ASSUME NEW r \in Streams PROVE StreamInv(r)
  <2>1. \A p \in Pipes : Expected(r, p) = 0
    BY <1>3, LimitAssumption DEF Init, Expected
  <2>2. Full(r) = Blank /\ view[r] = Blank
    BY <1>3, <2>1 DEF Init, Full, Blank
  <2>3. Blank \in Views
    BY LimitAssumption DEF Blank, Views
  <2>4. r \in Runs /\ wire[r] = << >> /\ shown[r] = "none" /\ at[r] = "idle" /\ child[r] = "none"
    BY <1>3 DEF Init, Runs
  <2>5. Ledger(r) /\ DoneIsTold(r) /\ EndIsTold(r)
    BY <2>2, <2>3, <2>4 DEF Init, Ledger, DoneIsTold, EndIsTold, Told
  <2> QED BY <1>3, <2>2, <2>4, <2>5, LimitAssumption DEF Init, StreamInv, StreamStates
<1>4. ASSUME NEW r \in Records PROVE RecordInv(r)
  BY <1>4 DEF Init, RecordInv, RecordStates, Runs
<1> QED BY <1>2, <1>3, <1>4 DEF CInv, Init

LEMMA StutterKeeps ==
  ASSUME CInv, UNCHANGED vars
  PROVE  CInv'
<1>1. TypeOK'
  BY DEF CInv, TypeOK, vars, process, output, request, page, faults
<1>2. \A r \in Streams : SameStream(r)
  BY DEF SameStream, PageStays, vars, process, output, request, page
<1>3. \A r \in Streams : StreamInv(r)'
  BY <1>2, SameStreamKeeps DEF CInv
<1> QED BY <1>1, <1>3 DEF CInv, RecordInv, vars, process, page

LEMMA StepKeeps == CInv /\ [Next]_vars => CInv'
<1> SUFFICES ASSUME CInv, [Next]_vars PROVE CInv'
  OBVIOUS
<1>1. TypeOK
  BY DEF CInv
<1>2. ASSUME NEW r \in Runs,
             Submit(r) \/ Checked(r) \/ SpawnFails(r) \/ Close(r) \/ RequestCloses(r) \/ Read(r) \/ Terminate(r)
      PROVE  CInv'
  <2>1. r \in Streams
    BY <1>1, <1>2 DEF Submit, Checked, Refuse, Start, SpawnFails, Close, RequestCloses, Read, Terminate, TypeOK
  <2> QED BY <1>2, <2>1, StreamStepKeeps
<1>3. ASSUME NEW r \in Runs, Create(r) \/ Ask(r) \/ Recorded(r) \/ Gather(r) PROVE CInv'
  BY <1>3, RecordStepKeeps
<1>4. ASSUME NEW r \in Runs, Exit(r) \/ Release(r) \/ TimeOut(r) PROVE CInv'
  BY <1>4, ShellStepKeeps
<1>5. ASSUME NEW r \in Streams, NEW p \in Pipes, NEW n \in 1 .. MaxOutput, Data(r, p, n) PROVE CInv'
  BY <1>5, DataStepKeeps
<1>6. CASE Crash \/ \E r \in Runs : SpawnErrorUnhandled(r)
  <2>1. Dies /\ crashes' \in 0 .. MaxCrashes /\ UNCHANGED failures
    BY <1>1, <1>6, LimitAssumption DEF Crash, SpawnErrorUnhandled, TypeOK, faults
  <2> QED BY <2>1, DiesKeeps
<1> QED BY <1>2, <1>3, <1>4, <1>5, <1>6, StutterKeeps DEF Next, Over

(* The invariant of Commands holds in every reachable state. *)
THEOREM Invariance == Spec => []CInv
BY InitHolds, StepKeeps, PTL DEF Spec

(* Every reachable state of Commands is well typed. *)
THEOREM TypeCorrect == Spec => []TypeOK
BY Invariance, PTL DEF CInv

(* What is shown as completed has run to its end in time and with code 0, and  *)
(* is shown in full up to the limit, in whatever pieces its output came.       *)
THEOREM Truthful == Spec => []ResultIsTrue
<1>1. ASSUME CInv PROVE ResultIsTrue
  <2>1. ASSUME NEW r \in Runs, shown[r] = "completed" PROVE child[r] = "zero" /\ timer[r] # "fired"
    BY <1>1, <2>1 DEF CInv, StreamInv, DoneIsTold, Done, RecordInv, Runs
  <2>2. ASSUME NEW r \in Streams PROVE view[r] \in Views /\ (Told(r) => view[r] = Full(r))
    <3>1. StreamInv(r)
      BY <1>1 DEF CInv
    <3>2. CASE r \in busy
      <4>1. PICK g \in [0 .. Len(wire[r]) -> Views] : IsLedger(g, wire[r], view[r], Full(r), Told(r))
        BY <3>1, <3>2 DEF StreamInv, Ledger, HasLedger
      <4>2. 0 \in 0 .. Len(wire[r])
        BY <1>1 DEF CInv, TypeOK
      <4> QED BY <3>1, <4>1, <4>2 DEF IsLedger, StreamInv, Ledger
    <3>3. CASE r \notin busy
      BY <3>1, <3>3 DEF StreamInv, Ledger
    <3> QED BY <3>2, <3>3
  <2>3. ASSUME NEW r \in Streams, NEW p \in Pipes
        PROVE  view[r].bytes[p] <= Limit /\ view[r].marks <= 1 /\ (Told(r) => view[r].bytes[p] = Expected(r, p))
    <3>1. view[r].bytes \in [Pipes -> 0 .. Limit] /\ view[r].marks \in 0 .. 1
      BY <2>2 DEF Views
    <3>2. view[r].bytes[p] \in 0 .. Limit
      BY <3>1, <2>3
    <3>3. Full(r).bytes[p] = Expected(r, p)
      BY <2>3 DEF Full
    <3> QED BY <2>2, <3>1, <3>2, <3>3, LimitAssumption
  <2> QED BY <2>1, <2>3 DEF ResultIsTrue, Told, Pipes
<1> QED BY <1>1, Invariance, PTL

(* No failure of a shell or a connection leaves a status behind that nobody    *)
(* will change; a death of the API, a refusal and an update that the database  *)
(* does not take leave that of a recorded execution, and nothing else does.    *)
THEOREM Minded == Spec => []RunningIsMinded
<1>1. CInv => RunningIsMinded
  BY DEF CInv, StreamInv, RecordInv, RunningIsMinded, Runs
<1> QED BY <1>1, Invariance, PTL

(* A request that closes ends its command, unless it closes before there is one. *)
THEOREM Left == Spec => []LeavingStopsCommands
<1>1. CInv => LeavingStopsCommands
  BY DEF CInv, TypeOK, StreamInv, LeavingStopsCommands
<1> QED BY <1>1, Invariance, PTL
=============================================================================
