--------------------------- MODULE SideBySideProofs ---------------------------
(***************************************************************************)
(* Proofs about the smaller components: the job queue of tool calls, and   *)
(* those of SideBySide but the store.  Each is proved for every value of   *)
(* its constants, from an inductive invariant of its own; a theorem about  *)
(* a component C of SideBySide is one about C!Spec, and the last two carry *)
(* them over to SideBySide: its behaviours are behaviours of them all.     *)
(***************************************************************************)
EXTENDS SideBySide, McpJobs, TLAPS

-----------------------------------------------------------------------------
(***************************************************************************)
(* McpJobs, for any number of jobs, attempts, places, kept results, stalls *)
(* and crashes.  The inductive invariant says, of each job, what its state *)
(* tells of the process that works on it, of the tries it has used up and  *)
(* of what its caller may have been told.                                  *)
(***************************************************************************)
(* The tries of a job: every run of its tool but the one that is going on,   *)
(* or was cut off, has cost it an attempt or a stall; none is left when the  *)
(* last was used up.                                                         *)
TriesCounted(j) ==
  /\ job[j] \notin Settled =>
       /\ made[j] < Attempts /\ stalls[j] <= MaxStalls
       /\ ran[j] <= made[j] + stalls[j] + (IF job[j] = "active" /\ work[j] # "child" THEN 1 ELSE 0)
  /\ job[j] \in Settled => ran[j] <= Attempts + MaxStalls

(* The process works on active jobs only, and has run the tool when it says so. *)
WorkIsActive(j) ==
  /\ work[j] # "none" => job[j] = "active"
  /\ work[j] = "ran" => ran[j] > 0
  /\ job[j] = "completed" => ran[j] > 0
  /\ worker = "down" => work[j] = "none"

(* What the caller knows of its job, whichever read it has it from. *)
CallerKnows(j) ==
  /\ caller[j] \in {"idle", "forbidden"} => job[j] = "none" /\ ran[j] = 0
  /\ seen[j] \/ caller[j] \in {"result", "empty"} => job[j] = "completed"
  /\ caller[j] = "error" => job[j] = "failed"
  /\ caller[j] = "lost" => j \in removed
  /\ j \in removed => job[j] \in Settled

JobsInv == TypeOK /\ \A j \in Jobs : TriesCounted(j) /\ WorkIsActive(j) /\ CallerKnows(j)

-----------------------------------------------------------------------------
(* The invariant is that of the initial state, and every step keeps it. *)
LEMMA JobsInitInv == Init => JobsInv
BY LimitsAssumption DEF Init, JobsInv, TypeOK, TriesCounted, WorkIsActive, CallerKnows, Settled, Answered, Busy

LEMMA ApiKeeps ==
  ASSUME JobsInv, NEW j \in Jobs, Api(j)
  PROVE  JobsInv'
<1> USE DEF JobsInv, TypeOK, Settled, Answered, Busy
<1>1. CASE Refuse(j)
  BY <1>1 DEF Refuse, Tell, queue, TriesCounted, WorkIsActive, CallerKnows
<1>2. CASE Submit(j)
  BY <1>2, LimitsAssumption DEF Submit, TriesCounted, WorkIsActive, CallerKnows
<1>3. CASE GetJob(j)
  <2>1. CASE j \in removed
    <3>1. Tell(j, "lost")
      BY <1>3, <2>1 DEF GetJob
    <3>2. caller[j] = "polling"
      BY <1>3 DEF GetJob
    <3> QED BY <2>1, <3>1, <3>2 DEF Tell, queue, TriesCounted, WorkIsActive, CallerKnows
  <2>2. CASE j \notin removed
    <3>1. /\ caller[j] = "polling" /\ caller' = [caller EXCEPT ![j] = "looking"]
          /\ seen' = [seen EXCEPT ![j] = job[j] = "completed"]
          /\ UNCHANGED <<job, removed, made, stalls, work, ran, worker, crashes>>
      BY <1>3, <2>2 DEF GetJob, queue
    <3>2. TypeOK'
      BY <3>1
    <3>3. \A k \in Jobs : (TriesCounted(k) /\ WorkIsActive(k))'
      BY <3>1 DEF TriesCounted, WorkIsActive
    <3>4. \A k \in Jobs : CallerKnows(k)'
      <4> SUFFICES ASSUME NEW k \in Jobs PROVE CallerKnows(k)'
        OBVIOUS
      <4>1. CASE k = j
        <5>1. seen'[k] = (job[j] = "completed") /\ caller'[k] = "looking" /\ CallerKnows(k)
          BY <3>1, <4>1
        <5> QED BY <3>1, <4>1, <5>1 DEF CallerKnows
      <4>2. CASE k # j
        BY <3>1, <4>2 DEF CallerKnows
      <4> QED BY <4>1, <4>2
    <3> QED BY <3>2, <3>3, <3>4
  <2> QED BY <2>1, <2>2
<1>4. CASE GetState(j)
  <2>1. PICK answer \in {"result", "empty", "error", "polling"} :
          /\ Tell(j, answer)
          /\ answer \in {"result", "empty"} => job[j] = "completed"
          /\ answer = "error" => job[j] = "failed"
    BY <1>4 DEF GetState
  <2> QED BY <1>4, <2>1 DEF GetState, Tell, queue, TriesCounted, WorkIsActive, CallerKnows
<1>5. CASE GiveUp(j)
  BY <1>5 DEF GiveUp, Tell, queue, TriesCounted, WorkIsActive, CallerKnows
<1> QED BY <1>1, <1>2, <1>3, <1>4, <1>5 DEF Api

(* Of the jobs that are kept one may go when a job is settled, but no other. *)
LEMMA SettleRemoves ==
  ASSUME JobsInv, NEW j \in Jobs, NEW state \in Settled, NEW limit, Settle(j, state, limit)
  PROVE  /\ job' = [job EXCEPT ![j] = state]
         /\ removed \subseteq removed' /\ removed' \subseteq Jobs
         /\ \A k \in removed' : job[k] \in Settled \/ k = j
BY DEF JobsInv, TypeOK, CallerKnows, Settle, Settled

LEMMA ProcessKeeps ==
  ASSUME JobsInv, NEW j \in Jobs, Process(j)
  PROVE  JobsInv'
<1> USE DEF JobsInv, TypeOK, Settled, Answered, Busy
<1>1. CASE RunTool(j)
  BY <1>1 DEF RunTool, api, queue, TriesCounted, WorkIsActive, CallerKnows
<1>2. CASE Complete(j)
  <2>1. /\ job' = [job EXCEPT ![j] = "completed"]
        /\ removed \subseteq removed' /\ removed' \subseteq Jobs
        /\ \A k \in removed' : job[k] \in Settled \/ k = j
    BY <1>2, SettleRemoves DEF Complete
  <2> QED BY <1>2, <2>1, LimitsAssumption DEF Complete, api, TriesCounted, WorkIsActive, CallerKnows
<1>3. CASE Fail(j)
  <2>1. CASE Settle(j, "failed", KeptFailed) /\ made[j] + 1 >= Attempts
    <3>1. /\ job' = [job EXCEPT ![j] = "failed"]
          /\ removed \subseteq removed' /\ removed' \subseteq Jobs
          /\ \A k \in removed' : job[k] \in Settled \/ k = j
      BY <2>1, SettleRemoves
    <3> QED BY <1>3, <2>1, <3>1, LimitsAssumption DEF Fail, api, TriesCounted, WorkIsActive, CallerKnows
  <2>2. CASE made[j] + 1 < Attempts /\ job' = [job EXCEPT ![j] = "delayed"] /\ UNCHANGED removed
    BY <1>3, <2>2, LimitsAssumption DEF Fail, api, TriesCounted, WorkIsActive, CallerKnows
  <2> QED BY <1>3, <2>1, <2>2, LimitsAssumption DEF Fail, Again
<1>4. CASE Hang(j)
  BY <1>4 DEF Hang, api, queue, TriesCounted, WorkIsActive, CallerKnows
<1> QED BY <1>1, <1>2, <1>3, <1>4 DEF Process

LEMMA QueueKeeps ==
  ASSUME JobsInv, NEW j \in Jobs, Moves(j)
  PROVE  JobsInv'
<1> USE DEF JobsInv, TypeOK, Settled, Answered, Busy
<1>1. CASE Take(j)
  BY <1>1 DEF Take, api, TriesCounted, WorkIsActive, CallerKnows
<1>2. CASE Backoff(j)
  BY <1>2 DEF Backoff, api, TriesCounted, WorkIsActive, CallerKnows
<1>3. CASE Stalled(j)
  <2>1. CASE Settle(j, "failed", KeptFailed) /\ stalls[j] >= MaxStalls
    <3>1. /\ job' = [job EXCEPT ![j] = "failed"]
          /\ removed \subseteq removed' /\ removed' \subseteq Jobs
          /\ \A k \in removed' : job[k] \in Settled \/ k = j
      BY <2>1, SettleRemoves
    <3> QED BY <1>3, <2>1, <3>1, LimitsAssumption DEF Stalled, api, TriesCounted, WorkIsActive, CallerKnows
  <2>2. CASE stalls[j] < MaxStalls /\ job' = [job EXCEPT ![j] = "waiting"] /\ UNCHANGED removed
    BY <1>3, <2>2, LimitsAssumption DEF Stalled, api, TriesCounted, WorkIsActive, CallerKnows
  <2> QED BY <1>3, <2>1, <2>2, LimitsAssumption DEF Stalled, Again
<1> QED BY <1>1, <1>2, <1>3 DEF Moves

LEMMA WorkerKeeps ==
  ASSUME JobsInv, Crash \/ Shutdown \/ ExitCleanly \/ Restart
  PROVE  JobsInv'
<1> USE DEF JobsInv, TypeOK, Settled, Answered, Busy
<1>1. CASE Crash
  BY <1>1, LimitsAssumption DEF Crash, api, queue, TriesCounted, WorkIsActive, CallerKnows
<1>2. CASE Shutdown
  BY <1>2 DEF Shutdown, api, queue, TriesCounted, WorkIsActive, CallerKnows
<1>3. CASE ExitCleanly
  BY <1>3 DEF ExitCleanly, api, queue, TriesCounted, WorkIsActive, CallerKnows
<1>4. CASE Restart
  BY <1>4 DEF Restart, api, queue, TriesCounted, WorkIsActive, CallerKnows
<1> QED BY <1>1, <1>2, <1>3, <1>4

LEMMA JobsStepInv == JobsInv /\ [Next]_vars => JobsInv'
<1> SUFFICES ASSUME JobsInv, [Next]_vars PROVE JobsInv'
  OBVIOUS
<1>1. CASE \E j \in Jobs : Api(j) \/ Process(j) \/ Moves(j)
  BY <1>1, ApiKeeps, ProcessKeeps, QueueKeeps
<1>2. CASE Crash \/ Shutdown \/ ExitCleanly \/ Restart
  BY <1>2, WorkerKeeps
<1>3. CASE UNCHANGED vars
  BY <1>3 DEF vars, api, queue, JobsInv, TypeOK, TriesCounted, WorkIsActive, CallerKnows, Settled, Answered, Busy
<1> QED BY <1>1, <1>2, <1>3 DEF Next

(* McpJobs: what holds of callers, jobs and the worker in every reachable state. *)
THEOREM JobsInvariance == Spec => []JobsInv
BY JobsInitInv, JobsStepInv, PTL DEF Spec

(* Every reachable state of McpJobs is well typed. *)
THEOREM JobsTypeCorrect == Spec => []TypeOK
BY JobsInvariance, PTL DEF JobsInv

(* Whatever fails, hangs, stalls or crashes, the worker runs the tool of a job *)
(* at most once for every attempt and every stall it is allowed.               *)
THEOREM JobsBounded == Spec => []RunsBounded
<1>1. JobsInv => RunsBounded
  <2> SUFFICES ASSUME JobsInv, NEW j \in Jobs PROVE ran[j] <= Attempts + MaxStalls
    BY DEF RunsBounded
  <2> USE LimitsAssumption DEF JobsInv, TypeOK, TriesCounted
  <2>1. CASE job[j] \in Settled
    BY <2>1
  <2>2. CASE job[j] \notin Settled
    BY <2>2
  <2> QED BY <2>1, <2>2
<1> QED BY <1>1, JobsInvariance, PTL

(* What waitForToolJobResult tells a caller is so, and stays so, though the job *)
(* and its state are read one after the other.                                  *)
THEOREM JobsAnswers == Spec => []AnswersAreTrue
<1>1. JobsInv => AnswersAreTrue
  BY DEF JobsInv, TypeOK, WorkIsActive, CallerKnows, AnswersAreTrue
<1> QED BY <1>1, JobsInvariance, PTL

-----------------------------------------------------------------------------
(***************************************************************************)
(* Personas, for any number of requests and failures.  As long as no two   *)
(* requests have written the row with one version and none has ended with  *)
(* an error, the writers form a chain: there is one of every version up to *)
(* the row's own, and each worked on what the one before it had written. A *)
(* request that would break the chain writes a version that is taken, and  *)
(* the index on the records lets only one of the two through.              *)
(***************************************************************************)
\* A request that has written the row, whatever has become of it since.
Wrote(r) == edit[r].kind # "delete" /\ edit[r].pc \in {"written", "done", "failed"}
Recorded(r) == Wrote(r) /\ Persona!At(r, "done")

\* A request that has read the persona and not written it.
Reads(r) == edit[r].pc \in {"read", "found"}

Clean ==
  /\ \A r \in Edits : ~Persona!At(r, "failed")
  /\ \A r, s \in Edits : Wrote(r) /\ Wrote(s) /\ edit[r].version = edit[s].version => r = s

RequestInv ==
  \A r \in Edits :
    /\ Reads(r) => edit[r].kind # "create" /\ edit[r].version >= 2
    /\ Persona!At(r, "found") => edit[r].kind = "rollback"
    /\ Persona!At(r, "written") => edit[r].kind # "delete"
    /\ Wrote(r) => edit[r].version >= 1
    /\ Wrote(r) /\ edit[r].kind # "create" => edit[r].version >= 2
    /\ ~Persona!Exists => edit[r].pc \in {"idle", "refused"}

\* The records are those of the requests that are done, one each.
RecordInv ==
  /\ \A r \in Edits : Recorded(r) =>
       edit[r].version \in DOMAIN record /\ record[edit[r].version] = edit[r].config
  /\ \A r, s \in Edits :
       Recorded(r) /\ Recorded(s) /\ edit[r].version = edit[s].version => r = s
  /\ \A v \in DOMAIN record : \E r \in Edits : Recorded(r) /\ edit[r].version = v

Chain ==
  /\ \A v \in 1..persona.version : \E r \in Edits : Wrote(r) /\ edit[r].version = v
  /\ \A r \in Edits : Wrote(r) =>
       /\ edit[r].version <= persona.version
       /\ edit[r].version = persona.version => edit[r].config = persona.config
  /\ \A r \in Edits : Reads(r) =>
       /\ edit[r].version <= persona.version + 1
       /\ edit[r].version = persona.version + 1 => edit[r].old = persona.config
  /\ \A r, s \in Edits :
       Wrote(r) /\ Wrote(s) /\ edit[r].kind # "create" /\ edit[r].version = edit[s].version + 1
       => edit[s].config = edit[r].old

ChainInv == Clean /\ Persona!Exists /\ ~persona.builtIn => Chain

PersonaInv == Persona!TypeOK /\ RequestInv /\ RecordInv /\ ChainInv

-----------------------------------------------------------------------------
LEMMA PersonaInitInv == Persona!Init => PersonaInv
<1> SUFFICES ASSUME Persona!Init PROVE PersonaInv
  OBVIOUS
<1>0. \/ persona = [version |-> 0, config |-> {}, builtIn |-> FALSE, deleted |-> FALSE]
      \/ persona = [version |-> 1, config |-> {}, builtIn |-> TRUE, deleted |-> FALSE]
  BY DEF Persona!Init, Persona!Absent
<1>1. Persona!TypeOK
  <2>1. persona \in [version : Nat, config : Persona!Configs, builtIn : BOOLEAN, deleted : BOOLEAN]
    <3>1. {} \in Persona!Configs
      BY DEF Persona!Configs
    <3>2. CASE persona = [version |-> 0, config |-> {}, builtIn |-> FALSE, deleted |-> FALSE]
      BY <3>1, <3>2
    <3>3. CASE persona = [version |-> 1, config |-> {}, builtIn |-> TRUE, deleted |-> FALSE]
      BY <3>1, <3>3
    <3> QED
      BY <1>0, <3>2, <3>3
  <2> USE DEF Persona!Init, Persona!Local
  <2>2. DOMAIN record \subseteq Nat \ {0} /\ record \in [DOMAIN record -> Persona!Configs]
    OBVIOUS
  <2>3. failures \in 0..MaxFailures
    BY SideAssumption
  <2>4. edit \in [Edits -> [kind : Persona!Kinds, pc : Persona!Places, version : Nat,
                              old : Persona!Configs, config : Persona!Configs]]
    BY DEF Persona!Configs, Persona!Kinds, Persona!Places
  <2> QED
    BY <2>1, <2>2, <2>3, <2>4 DEF Persona!TypeOK
<1>2. \A r \in Edits : ~Reads(r) /\ ~Wrote(r) /\ edit[r].pc = "idle"
  BY DEF Persona!Init, Persona!Local, Reads, Wrote
<1>3. RequestInv
  BY <1>2 DEF RequestInv, Persona!At
<1>4. RecordInv
  BY <1>2 DEF Persona!Init, RecordInv, Recorded
<1>5. ChainInv
  <2>1. persona.version = 0 \/ persona.builtIn
    BY <1>0
  <2> QED
    BY <2>1 DEF ChainInv, Persona!Exists
<1> QED
  BY <1>1, <1>3, <1>4, <1>5 DEF PersonaInv

-----------------------------------------------------------------------------
(* The steps *)

\* A step that neither writes the persona nor lets a request write it keeps the chain,
\* as long as requests read the persona as it is.
LEMMA ChainKept ==
  ASSUME ChainInv, Persona!Exists' /\ ~persona'.builtIn => Persona!Exists /\ ~persona.builtIn,
         Persona!Exists' => persona'.version = persona.version /\ persona'.config = persona.config,
         \A r \in Edits : Wrote(r)' <=> Wrote(r),
         \A r \in Edits : Wrote(r) =>
           /\ edit'[r].version = edit[r].version /\ edit'[r].config = edit[r].config
           /\ edit'[r].old = edit[r].old /\ edit'[r].kind = edit[r].kind,
         \A r \in Edits : Reads(r)' =>
           \/ Reads(r) /\ edit'[r].version = edit[r].version /\ edit'[r].old = edit[r].old
           \/ edit'[r].version = persona.version + 1 /\ edit'[r].old = persona.config,
         \A r \in Edits : Persona!At(r, "failed") => Persona!At(r, "failed")',
         Persona!TypeOK
  PROVE  ChainInv'
<1> SUFFICES ASSUME Clean', Persona!Exists', ~persona'.builtIn
             PROVE  Chain'
  BY DEF ChainInv
<1>1. Clean
  BY DEF Clean
<1>2. Chain
  BY <1>1 DEF ChainInv
<1> QED
  BY <1>2 DEF Chain, Persona!TypeOK

LEMMA StepCreate == ASSUME PersonaInv, NEW r \in Edits, Persona!Create(r) PROVE PersonaInv'
<1>1. /\ persona' = [version |-> 1, config |-> {r}, builtIn |-> FALSE, deleted |-> FALSE]
      /\ edit' = [edit EXCEPT ![r] = [kind |-> "create", pc |-> "written", version |-> 1,
                                    old |-> {}, config |-> {r}]]
      /\ UNCHANGED <<record, failures>>
  BY DEF Persona!Create, Persona!Local, Persona!Absent
<1>2. Persona!TypeOK'
  <2>1. {} \in Persona!Configs /\ {r} \in Persona!Configs
    BY DEF Persona!Configs
  <2>2. persona' \in [version : Nat, config : Persona!Configs, builtIn : BOOLEAN, deleted : BOOLEAN]
    BY <1>1, <2>1
  <2>3. edit' \in [Edits -> [kind : Persona!Kinds, pc : Persona!Places, version : Nat,
                               old : Persona!Configs, config : Persona!Configs]]
    BY <1>1, <2>1 DEF PersonaInv, Persona!TypeOK, Persona!Kinds, Persona!Places
  <2> QED
    BY <1>1, <2>2, <2>3 DEF PersonaInv, Persona!TypeOK
<1>3. \A s \in Edits : edit[s].pc \in {"idle", "refused"}
  BY DEF Persona!Create, PersonaInv, RequestInv
<1>4. \A s \in Edits : s # r => edit'[s] = edit[s]
  BY <1>1 DEF PersonaInv, Persona!TypeOK
<1>5. edit'[r] = [kind |-> "create", pc |-> "written", version |-> 1, old |-> {}, config |-> {r}]
  BY <1>1 DEF PersonaInv, Persona!TypeOK
<1>6. \A s \in Edits : (Wrote(s)' <=> s = r) /\ ~Reads(s)'
  BY <1>3, <1>4, <1>5 DEF Wrote, Reads
<1>7. \A s \in Edits : ~Recorded(s) /\ ~Recorded(s)'
  BY <1>3, <1>4, <1>5 DEF Recorded, Wrote, Persona!At
<1>8. RequestInv'
  BY <1>1, <1>3, <1>4, <1>5, <1>6 DEF RequestInv, Persona!Exists, Persona!At
<1>9. RecordInv'
  BY <1>1, <1>7 DEF PersonaInv, RecordInv
<1>10. ChainInv'
  BY <1>1, <1>5, <1>6 DEF ChainInv, Chain
<1> QED
  BY <1>2, <1>8, <1>9, <1>10 DEF PersonaInv

LEMMA StepRead ==
  ASSUME PersonaInv, NEW r \in Edits, NEW kind \in Persona!Kinds \ {"create"}, Persona!Read(r, kind) PROVE PersonaInv'
<1> USE DEF Persona!Read, Persona!At, Persona!Local, Persona!Goto
<1>1. Persona!TypeOK /\ Persona!TypeOK'
  <2>1. /\ edit \in [Edits -> [kind : Persona!Kinds, pc : Persona!Places, version : Nat,
                               old : Persona!Configs, config : Persona!Configs]]
        /\ persona.version \in Nat /\ persona.config \in SUBSET Edits
        /\ UNCHANGED <<persona, record, failures>>
    BY DEF PersonaInv, Persona!TypeOK, Persona!Configs
  <2>2. edit' \in [Edits -> [kind : Persona!Kinds, pc : Persona!Places, version : Nat,
                            old : Persona!Configs, config : Persona!Configs]]
    <3>1. CASE Persona!Exists /\ ~persona.deleted /\ ~persona.builtIn
      BY <3>1, <2>1 DEF Persona!Places, Persona!Configs
    <3>2. CASE ~(Persona!Exists /\ ~persona.deleted /\ ~persona.builtIn)
      BY <3>2, <2>1 DEF Persona!Places
    <3> QED
      BY <3>1, <3>2
  <2> QED
    BY <2>1, <2>2 DEF PersonaInv, Persona!TypeOK
<1>2. UNCHANGED <<persona, record, failures>>
  OBVIOUS
<1>3. \A s \in Edits : s # r => edit'[s] = edit[s]
  BY <1>1 DEF Persona!TypeOK
<1>4. edit[r].pc = "idle" /\ edit'[r].pc \in {"read", "refused"}
  BY <1>1 DEF Persona!TypeOK
<1>5. edit'[r].pc = "read" =>
        /\ Persona!Exists /\ edit'[r].kind = kind
        /\ edit'[r].version = persona.version + 1 /\ edit'[r].old = persona.config
  BY <1>1 DEF Persona!TypeOK
<1>6. \A s \in Edits : /\ Wrote(s)' <=> Wrote(s)
                       /\ Recorded(s)' <=> Recorded(s)
                       /\ Wrote(s) => s # r
                       /\ Reads(s)' => s = r \/ Reads(s)
  BY <1>3, <1>4 DEF Wrote, Recorded, Reads
<1>7. RequestInv'
  <2> SUFFICES ASSUME NEW s \in Edits PROVE RequestInv!(s)'
    BY DEF RequestInv
  <2>1. CASE s # r
    BY <2>1, <1>2, <1>3, <1>6 DEF PersonaInv, RequestInv, Persona!Exists, Reads, Wrote
  <2>2. CASE s = r
    <3>1. Persona!Exists <=> Persona!Exists'
      BY <1>2 DEF Persona!Exists
    <3>2. persona.version \in Nat /\ (Persona!Exists => persona.version >= 1)
      BY <1>1 DEF Persona!Exists, Persona!TypeOK
    <3> QED
      BY <2>2, <3>1, <3>2, <1>4, <1>5, <1>6 DEF Reads, Wrote
  <2> QED
    BY <2>1, <2>2
<1>8. RecordInv'
  BY <1>2, <1>3, <1>6 DEF PersonaInv, RecordInv, Recorded
<1>9. ChainInv'
  <2>1. \A s \in Edits : Wrote(s) => edit'[s] = edit[s]
    BY <1>3, <1>6
  <2>2. \A s \in Edits : Reads(s)' =>
           \/ Reads(s) /\ edit'[s].version = edit[s].version /\ edit'[s].old = edit[s].old
           \/ edit'[s].version = persona.version + 1 /\ edit'[s].old = persona.config
    BY <1>3, <1>4, <1>5, <1>6 DEF Reads
  <2>3. \A s \in Edits : Persona!At(s, "failed") => Persona!At(s, "failed")'
    BY <1>3, <1>4
  <2> QED
    BY <2>1, <2>2, <2>3, <1>1, <1>2, <1>6, ChainKept DEF PersonaInv, Persona!Exists
<1> QED
  BY <1>1, <1>7, <1>8, <1>9 DEF PersonaInv

\* A step after which a request that had read the persona is at another place, without
\* having written the persona.
LEMMA StepFind ==
  ASSUME PersonaInv, NEW r \in Edits, NEW v \in 1..persona.version + 1, Persona!FindVersion(r, v) PROVE PersonaInv'
<1> USE DEF Persona!FindVersion, Persona!At, Persona!Goto
<1>1. Persona!TypeOK /\ Persona!TypeOK'
  BY DEF PersonaInv, Persona!TypeOK, Persona!Configs, Persona!Kinds, Persona!Places
<1>2. UNCHANGED <<persona, record, failures>>
  OBVIOUS
<1>3. \A s \in Edits : s # r => edit'[s] = edit[s]
  BY <1>1 DEF Persona!TypeOK
<1>4. /\ edit[r].pc = "read" /\ edit[r].kind = "rollback" /\ edit'[r].pc \in {"found", "refused"}
      /\ edit'[r].kind = edit[r].kind /\ edit'[r].version = edit[r].version /\ edit'[r].old = edit[r].old
  BY <1>1 DEF Persona!TypeOK
<1>5. \A s \in Edits : /\ Wrote(s)' <=> Wrote(s)
                       /\ Recorded(s)' <=> Recorded(s)
                       /\ Wrote(s) => s # r
                       /\ Reads(s)' => Reads(s)
  BY <1>3, <1>4 DEF Wrote, Recorded, Reads
<1>6. RequestInv'
  BY <1>2, <1>3, <1>4, <1>5 DEF PersonaInv, RequestInv, Persona!Exists, Reads, Wrote
<1>7. RecordInv'
  BY <1>2, <1>3, <1>5 DEF PersonaInv, RecordInv, Recorded
<1>8. ChainInv'
  <2>1. \A s \in Edits : Wrote(s) => edit'[s] = edit[s]
    BY <1>3, <1>5
  <2>2. \A s \in Edits : Reads(s)' =>
           Reads(s) /\ edit'[s].version = edit[s].version /\ edit'[s].old = edit[s].old
    BY <1>3, <1>4, <1>5
  <2>3. \A s \in Edits : Persona!At(s, "failed") => Persona!At(s, "failed")'
    BY <1>3, <1>4
  <2> QED
    BY <2>1, <2>2, <2>3, <1>1, <1>2, <1>5, ChainKept DEF PersonaInv, Persona!Exists
<1> QED
  BY <1>1, <1>6, <1>7, <1>8 DEF PersonaInv

LEMMA StepDelete == ASSUME PersonaInv, NEW r \in Edits, Persona!Delete(r) PROVE PersonaInv'
<1> USE DEF Persona!Delete, Persona!At, Persona!Goto
<1>1. Persona!TypeOK /\ Persona!TypeOK'
  <2>1. persona' \in [version : Nat, config : Persona!Configs, builtIn : BOOLEAN, deleted : BOOLEAN]
    BY DEF PersonaInv, Persona!TypeOK
  <2> QED
    BY <2>1 DEF PersonaInv, Persona!TypeOK, Persona!Places
<1>2. /\ persona'.version = persona.version /\ persona'.config = persona.config /\ persona'.builtIn = persona.builtIn
      /\ UNCHANGED <<record, failures>>
  BY <1>1 DEF Persona!TypeOK
<1>3. \A s \in Edits : s # r => edit'[s] = edit[s]
  BY <1>1 DEF Persona!TypeOK
<1>4. edit[r].pc = "read" /\ edit'[r].kind = "delete" /\ edit[r].kind = "delete" /\ edit'[r].pc = "done"
  BY <1>1 DEF Persona!TypeOK
<1>5. \A s \in Edits : /\ Wrote(s)' <=> Wrote(s)
                       /\ Recorded(s)' <=> Recorded(s)
                       /\ Wrote(s) => s # r
                       /\ Reads(s)' => Reads(s) /\ s # r
  BY <1>3, <1>4 DEF Wrote, Recorded, Reads
<1>6. RequestInv'
  BY <1>2, <1>3, <1>4, <1>5 DEF PersonaInv, RequestInv, Persona!Exists, Reads, Wrote
<1>7. RecordInv'
  BY <1>2, <1>3, <1>5 DEF PersonaInv, RecordInv, Recorded
<1>8. ChainInv'
  <2>1. \A s \in Edits : Wrote(s) => edit'[s] = edit[s]
    BY <1>3, <1>5
  <2>2. \A s \in Edits : Reads(s)' =>
           Reads(s) /\ edit'[s].version = edit[s].version /\ edit'[s].old = edit[s].old
    BY <1>3, <1>5
  <2>3. \A s \in Edits : Persona!At(s, "failed") => Persona!At(s, "failed")'
    BY <1>3, <1>4
  <2> QED
    BY <2>1, <2>2, <2>3, <1>1, <1>2, <1>5, ChainKept DEF PersonaInv, Persona!Exists
<1> QED
  BY <1>1, <1>6, <1>7, <1>8 DEF PersonaInv

LEMMA StepBreak == ASSUME PersonaInv, NEW r \in Edits, Persona!Break(r) PROVE PersonaInv'
<1> USE DEF Persona!Break, Persona!At, Persona!Goto
<1>0. MaxFailures \in Nat
  BY SideAssumption
<1>1. Persona!TypeOK /\ Persona!TypeOK'
  BY <1>0 DEF PersonaInv, Persona!TypeOK, Persona!Configs, Persona!Kinds, Persona!Places
<1>2. UNCHANGED <<persona, record>>
  OBVIOUS
<1>3. \A s \in Edits : s # r => edit'[s] = edit[s]
  BY <1>1 DEF Persona!TypeOK
<1>4. /\ \/ edit[r].pc \in {"read", "found"} /\ edit'[r].pc = "refused"
         \/ edit[r].pc = "written" /\ edit'[r].pc = "failed"
      /\ edit'[r].kind = edit[r].kind /\ edit'[r].version = edit[r].version
      /\ edit'[r].old = edit[r].old /\ edit'[r].config = edit[r].config
  BY <1>1 DEF Persona!TypeOK
<1>5. \A s \in Edits : /\ Wrote(s)' <=> Wrote(s)
                       /\ Recorded(s)' <=> Recorded(s)
                       /\ Recorded(s) => s # r
                       /\ Reads(s)' => Reads(s) /\ s # r
  BY <1>3, <1>4 DEF Wrote, Recorded, Reads
<1>6. RequestInv'
  BY <1>2, <1>3, <1>4, <1>5 DEF PersonaInv, RequestInv, Persona!Exists, Reads, Wrote
<1>7. RecordInv'
  BY <1>2, <1>3, <1>5 DEF PersonaInv, RecordInv, Recorded
<1>8. ChainInv'
  <2>1. \A s \in Edits : Wrote(s) =>
           /\ edit'[s].version = edit[s].version /\ edit'[s].config = edit[s].config
           /\ edit'[s].old = edit[s].old /\ edit'[s].kind = edit[s].kind
    BY <1>3, <1>4
  <2>2. \A s \in Edits : Reads(s)' =>
           Reads(s) /\ edit'[s].version = edit[s].version /\ edit'[s].old = edit[s].old
    BY <1>3, <1>5
  <2>3. \A s \in Edits : Persona!At(s, "failed") => Persona!At(s, "failed")'
    BY <1>3, <1>4
  <2> QED
    BY <2>1, <2>2, <2>3, <1>1, <1>2, <1>5, ChainKept DEF PersonaInv, Persona!Exists
<1> QED
  BY <1>1, <1>6, <1>7, <1>8 DEF PersonaInv

LEMMA StepRecord == ASSUME PersonaInv, NEW r \in Edits, Persona!Record(r) PROVE PersonaInv'
<1> USE DEF Persona!Record, Persona!At, Persona!Goto
<1> DEFINE v == edit[r].version
           free == v \notin DOMAIN record
<1>1. Wrote(r) /\ edit[r].pc = "written" /\ v \in Nat \ {0}
  BY DEF PersonaInv, Persona!TypeOK, RequestInv, Wrote
<1>2. Persona!TypeOK /\ Persona!TypeOK'
  <2>1. CASE free
    <3>1. edit[r].config \in Persona!Configs
      BY DEF PersonaInv, Persona!TypeOK
    <3>2. DOMAIN record' \subseteq Nat \ {0} /\ record' \in [DOMAIN record' -> Persona!Configs]
      BY <2>1, <3>1, <1>1 DEF PersonaInv, Persona!TypeOK
    <3> QED
      BY <2>1, <3>2 DEF PersonaInv, Persona!TypeOK, Persona!Places
  <2>2. CASE ~free
    BY <2>2 DEF PersonaInv, Persona!TypeOK, Persona!Places
  <2> QED
    BY <2>1, <2>2
<1>3. \A s \in Edits : s # r => edit'[s] = edit[s]
  BY <1>2 DEF Persona!TypeOK
<1>4. /\ edit'[r].pc = IF free THEN "done" ELSE "failed"
      /\ edit'[r].kind = edit[r].kind /\ edit'[r].version = edit[r].version
      /\ edit'[r].old = edit[r].old /\ edit'[r].config = edit[r].config
  BY <1>2 DEF Persona!TypeOK
<1>5. \A s \in Edits : /\ Wrote(s)' <=> Wrote(s)
                       /\ Recorded(s) => s # r
                       /\ Recorded(s)' <=> Recorded(s) \/ (s = r /\ free)
                       /\ Reads(s)' => Reads(s) /\ s # r
  <2> HIDE DEF Persona!Record, free
  <2>1. CASE free
    BY <2>1, <1>1, <1>3, <1>4 DEF Wrote, Recorded, Reads
  <2>2. CASE ~free
    BY <2>2, <1>1, <1>3, <1>4 DEF Wrote, Recorded, Reads
  <2> QED
    BY <2>1, <2>2
<1>6. RequestInv'
  BY <1>1, <1>3, <1>4, <1>5 DEF PersonaInv, RequestInv, Persona!Exists, Reads, Wrote
<1>7. RecordInv'
  <2>1. CASE ~free
    BY <2>1, <1>3, <1>5 DEF PersonaInv, RecordInv, Recorded
  <2>2. CASE free
    <3>1. /\ DOMAIN record' = DOMAIN record \cup {v} /\ record'[v] = edit[r].config
          /\ \A w \in DOMAIN record : record'[w] = record[w]
      BY <2>2
    <3>2. \A s \in Edits : Recorded(s) => edit[s].version \in DOMAIN record /\ edit[s].version # v
      BY <2>2 DEF PersonaInv, RecordInv
    <3>3. \A s \in Edits : Recorded(s)' =>
             edit'[s].version \in DOMAIN record' /\ record'[edit'[s].version] = edit'[s].config
      BY <3>1, <3>2, <1>3, <1>4, <1>5 DEF PersonaInv, RecordInv
    <3>4. \A s, t \in Edits :
             Recorded(s)' /\ Recorded(t)' /\ edit'[s].version = edit'[t].version => s = t
      BY <3>2, <1>3, <1>4, <1>5 DEF PersonaInv, RecordInv
    <3>5. \A w \in DOMAIN record' : \E s \in Edits : Recorded(s)' /\ edit'[s].version = w
      BY <2>2, <3>1, <1>3, <1>4, <1>5 DEF PersonaInv, RecordInv
    <3> QED
      BY <3>3, <3>4, <3>5 DEF RecordInv
  <2> QED
    BY <2>1, <2>2
<1>8. ChainInv'
  <2>1. \A s \in Edits : Wrote(s) =>
           /\ edit'[s].version = edit[s].version /\ edit'[s].config = edit[s].config
           /\ edit'[s].old = edit[s].old /\ edit'[s].kind = edit[s].kind
    BY <1>3, <1>4
  <2>2. \A s \in Edits : Reads(s)' =>
           Reads(s) /\ edit'[s].version = edit[s].version /\ edit'[s].old = edit[s].old
    BY <1>3, <1>5
  <2>3. \A s \in Edits : Persona!At(s, "failed") => Persona!At(s, "failed")'
    BY <1>1, <1>3
  <2>4. UNCHANGED persona
    OBVIOUS
  <2> QED
    BY <2>1, <2>2, <2>3, <2>4, <1>2, <1>5, ChainKept DEF PersonaInv, Persona!Exists
<1> QED
  BY <1>2, <1>6, <1>7, <1>8 DEF PersonaInv

\* The version that is written is free only if it follows the persona's own, and then the
\* persona is still as the request has read it.
LEMMA StepWrite == ASSUME PersonaInv, NEW r \in Edits, Persona!Write(r) PROVE PersonaInv'
<1> USE DEF Persona!Write, Persona!At, Persona!Goto
<1>1. /\ Reads(r) /\ edit[r].kind \in {"update", "rollback"} /\ edit[r].version >= 2
      /\ edit[r].version \in Nat /\ Persona!Exists
  BY DEF PersonaInv, Persona!TypeOK, RequestInv, Reads
<1>2. Persona!TypeOK /\ Persona!TypeOK'
  <2>1. edit[r].version \in Nat /\ edit[r].config \in Persona!Configs
    BY DEF PersonaInv, Persona!TypeOK
  <2>2. persona' \in [version : Nat, config : Persona!Configs, builtIn : BOOLEAN, deleted : BOOLEAN]
    BY <2>1 DEF PersonaInv, Persona!TypeOK
  <2> QED
    BY <2>2 DEF PersonaInv, Persona!TypeOK, Persona!Places
<1>3. \A s \in Edits : s # r => edit'[s] = edit[s]
  BY <1>2 DEF Persona!TypeOK
<1>4. /\ edit'[r].pc = "written"
      /\ edit'[r].kind = edit[r].kind /\ edit'[r].version = edit[r].version
      /\ edit'[r].old = edit[r].old /\ edit'[r].config = edit[r].config
  BY <1>2 DEF Persona!TypeOK
<1>5. /\ persona'.version = edit[r].version /\ persona'.config = edit[r].config
      /\ persona'.builtIn = persona.builtIn /\ UNCHANGED record
  BY <1>2 DEF Persona!TypeOK
<1>6. ~Wrote(r) /\ ~Recorded(r)
  BY <1>1 DEF Wrote, Recorded, Reads
<1>7. \A s \in Edits : /\ Wrote(s)' <=> Wrote(s) \/ s = r
                       /\ Recorded(s)' <=> Recorded(s)
                       /\ Reads(s)' => Reads(s) /\ s # r
  BY <1>1, <1>3, <1>4, <1>6 DEF Wrote, Recorded, Reads
<1>8. RequestInv'
  BY <1>1, <1>3, <1>4, <1>5, <1>7 DEF PersonaInv, RequestInv, Persona!Exists, Reads, Wrote
<1>9. RecordInv'
  BY <1>3, <1>5, <1>6, <1>7 DEF PersonaInv, RecordInv, Recorded
<1>10. ChainInv'
  <2> SUFFICES ASSUME Clean', ~persona'.builtIn PROVE Chain'
    BY DEF ChainInv
  <2>1. Clean
    BY <1>1, <1>3, <1>6, <1>7 DEF Clean, Reads
  <2>2. Chain
    BY <2>1, <1>1, <1>5 DEF PersonaInv, ChainInv
  <2>3. \A s \in Edits : Wrote(s) => edit[s].version # edit[r].version
    BY <1>3, <1>4, <1>6, <1>7 DEF Clean
  <2>4. edit[r].version = persona.version + 1 /\ edit[r].old = persona.config
    <3>1. edit[r].version <= persona.version + 1 /\ persona.version \in Nat
      BY <2>2, <1>1, <1>2 DEF Chain, Persona!TypeOK
    <3>2. edit[r].version \notin 1..persona.version
      BY <2>2, <2>3 DEF Chain
    <3>3. edit[r].version = persona.version + 1
      BY <3>1, <3>2, <1>1
    <3> QED
      BY <3>3, <2>2, <1>1 DEF Chain
  <2>5. persona.version \in Nat /\ \A s \in Edits : edit[s].version \in Nat
    BY <1>2 DEF Persona!TypeOK
  <2>6. \A w \in 1..persona'.version : \E s \in Edits : Wrote(s)' /\ edit'[s].version = w
    <3> SUFFICES ASSUME NEW w \in 1..persona'.version
                 PROVE  \E s \in Edits : Wrote(s)' /\ edit'[s].version = w
      OBVIOUS
    <3>1. CASE w = edit[r].version
      BY <3>1, <1>4, <1>7
    <3>2. CASE w # edit[r].version
      <4>1. w \in 1..persona.version
        BY <3>2, <2>4, <2>5, <1>5
      <4>2. PICK s \in Edits : Wrote(s) /\ edit[s].version = w
        BY <4>1, <2>2 DEF Chain
      <4> QED
        BY <4>2, <1>3, <1>6, <1>7
    <3> QED
      BY <3>1, <3>2
  <2>7. \A s \in Edits : Wrote(s)' =>
           /\ edit'[s].version <= persona'.version
           /\ edit'[s].version = persona'.version => edit'[s].config = persona'.config
    BY <2>2, <2>4, <2>5, <1>3, <1>4, <1>5, <1>6, <1>7 DEF Chain
  <2>8. \A s \in Edits : Reads(s)' =>
           /\ edit'[s].version <= persona'.version + 1
           /\ edit'[s].version = persona'.version + 1 => edit'[s].old = persona'.config
    BY <2>2, <2>4, <2>5, <1>3, <1>5, <1>7 DEF Chain
  <2>9. \A s, t \in Edits :
           Wrote(s)' /\ Wrote(t)' /\ edit'[s].kind # "create" /\ edit'[s].version = edit'[t].version + 1
           => edit'[t].config = edit'[s].old
    <3> SUFFICES ASSUME NEW s \in Edits, NEW t \in Edits, Wrote(s)', Wrote(t)',
                        edit'[s].kind # "create", edit'[s].version = edit'[t].version + 1
                 PROVE  edit'[t].config = edit'[s].old
      OBVIOUS
    <3>1. CASE s = r
      <4>1. t # r /\ Wrote(t) /\ edit[t].version = persona.version
        BY <3>1, <2>4, <2>5, <1>3, <1>4, <1>7
      <4> QED
        BY <3>1, <4>1, <2>2, <2>4, <1>3, <1>4 DEF Chain
    <3>2. CASE s # r /\ t = r
      <4>1. Wrote(s) /\ edit[s].version = persona.version + 2
        BY <3>2, <2>4, <2>5, <1>3, <1>4, <1>7
      <4> QED
        BY <4>1, <2>2, <2>5 DEF Chain
    <3>3. CASE s # r /\ t # r
      BY <3>3, <2>2, <1>3, <1>7 DEF Chain
    <3> QED
      BY <3>1, <3>2, <3>3
  <2> QED
    BY <2>6, <2>7, <2>8, <2>9 DEF Chain
<1> QED
  BY <1>2, <1>8, <1>9, <1>10 DEF PersonaInv

LEMMA PersonaStepInv == PersonaInv /\ [Persona!Next]_(Persona!vars) => PersonaInv'
<1> SUFFICES ASSUME PersonaInv, [Persona!Next]_(Persona!vars) PROVE PersonaInv'
  OBVIOUS
<1>1. CASE Persona!Next
  BY <1>1, StepCreate, StepRead, StepFind, StepWrite, StepRecord, StepDelete, StepBreak DEF Persona!Next
<1>2. CASE UNCHANGED Persona!vars
  BY <1>2 DEF Persona!vars, PersonaInv, Persona!TypeOK, RequestInv, RecordInv, ChainInv, Chain, Clean, Recorded,
              Wrote, Reads, Persona!At, Persona!Exists
<1> QED
  BY <1>1, <1>2

-----------------------------------------------------------------------------
(* The theorems *)

\* The inductive invariant of Personas.
THEOREM PersonaInvariance == Persona!Spec => []PersonaInv
BY PersonaInitInv, PersonaStepInv, PTL DEF Persona!Spec

\* Every reachable state is well typed.
THEOREM PersonaTypeCorrect == Persona!Spec => []Persona!TypeOK
<1>1. PersonaInv => Persona!TypeOK
  BY DEF PersonaInv
<1> QED
  BY <1>1, PersonaInvariance, PTL

\* While no edit of a persona (personas.service.ts) has ended with an error after
\* writing the persona, the records are whole and no edit is lost, however many overlap.
THEOREM PersonaWhole == Persona!Spec => []HistoryIsWhole
<1>1. PersonaInv => HistoryIsWhole
  <2> SUFFICES ASSUME PersonaInv, Persona!Unbroken, Persona!Exists, ~persona.builtIn
               PROVE  /\ DOMAIN record = 1..persona.version
                      /\ record[persona.version] = persona.config
                      /\ \A r \in Edits : Persona!At(r, "done") /\ edit[r].kind \in {"update", "rollback"} =>
                           record[edit[r].version - 1] = edit[r].old
    BY DEF HistoryIsWhole, Persona!HistoryIsWhole
  <2>1. \A r \in Edits : Wrote(r) <=> Recorded(r)
    BY DEF Persona!Unbroken, Wrote, Recorded, Persona!At
  <2>2. Clean
    BY <2>1 DEF PersonaInv, RecordInv, Clean, Persona!Unbroken
  <2>3. Chain
    BY <2>2 DEF PersonaInv, ChainInv
  <2>4. persona.version \in Nat \ {0} /\ \A r \in Edits : edit[r].version \in Nat
    BY DEF PersonaInv, Persona!TypeOK, Persona!Exists
  <2>5. DOMAIN record = 1..persona.version
    <3>1. \A v \in 1..persona.version : v \in DOMAIN record
      BY <2>1, <2>3 DEF Chain, PersonaInv, RecordInv
    <3>2. \A v \in DOMAIN record : v \in 1..persona.version
      <4> SUFFICES ASSUME NEW v \in DOMAIN record PROVE v \in 1..persona.version
        OBVIOUS
      <4>1. PICK r \in Edits : Recorded(r) /\ edit[r].version = v
        BY DEF PersonaInv, RecordInv
      <4>2. v >= 1 /\ v <= persona.version
        BY <4>1, <2>1, <2>3 DEF Chain, PersonaInv, RequestInv
      <4> QED
        BY <4>1, <4>2, <2>4
    <3> QED
      BY <3>1, <3>2
  <2>6. \A v \in 1..persona.version : \E r \in Edits :
           Recorded(r) /\ edit[r].version = v /\ record[v] = edit[r].config
    BY <2>1, <2>3 DEF Chain, PersonaInv, RecordInv
  <2>7. record[persona.version] = persona.config
    BY <2>1, <2>3, <2>4, <2>6 DEF Chain
  <2>8. ASSUME NEW r \in Edits, Persona!At(r, "done"), edit[r].kind \in {"update", "rollback"}
        PROVE  record[edit[r].version - 1] = edit[r].old
    <3>1. Wrote(r) /\ edit[r].version >= 2 /\ edit[r].version <= persona.version
      BY <2>8, <2>3 DEF Wrote, Persona!At, Chain, PersonaInv, RequestInv
    <3>2. edit[r].version - 1 \in 1..persona.version
      BY <3>1, <2>4
    <3>3. PICK s \in Edits : /\ Recorded(s) /\ edit[s].version = edit[r].version - 1
                             /\ record[edit[r].version - 1] = edit[s].config
      BY <3>2, <2>6
    <3>4. Wrote(s) /\ edit[r].version = edit[s].version + 1
      BY <3>3, <2>4 DEF Recorded
    <3> QED
      BY <2>8, <3>1, <3>3, <3>4, <2>3 DEF Chain
  <2> QED
    BY <2>5, <2>7, <2>8
<1> QED
  BY <1>1, PersonaInvariance, PTL

-----------------------------------------------------------------------------
(***************************************************************************)
(* PicobotCommands, for any number of commands, presses and overviews.  A  *)
(* row that names a run never changes back; so a press that came after it  *)
(* finds the command in execution and does not get past Find.              *)
(***************************************************************************)

\* What the rows name are runs of their own commands.
RowsNameRuns ==
  \A c \in Commands :
    IF command[c].status = "executing"
    THEN command[c].run \in created /\ press[command[c].run].command = c
    ELSE command[c].run = None

\* A press that has been sent is of a command, and came after runs that rows named.
PressesComeAfter ==
  \A s \in Presses :
    /\ IF Picobot!At(s, "idle") THEN press[s].after = {} ELSE press[s].command \in Commands
    /\ \A r \in press[s].after :
         r \in created /\ command[press[r].command].status = "executing"

\* The API made no run for a press unless it had found the command to be pending.
PassedFind(s) == s \in created \/ press[s].pc \in {"found", "created", "done"}

PressesAreFirst ==
  \A s \in Presses :
    /\ s \in created => press[s].pc \in {"created", "done", "failed"}
    /\ press[s].pc \in {"created", "done"} => s \in created
    /\ PassedFind(s) => \A r \in press[s].after : press[r].command # press[s].command

PicobotInv == Picobot!TypeOK /\ RowsNameRuns /\ PressesComeAfter /\ PressesAreFirst


LEMMA PicobotInitInv == Picobot!Init => PicobotInv
BY DEF Picobot!Init, Picobot!Idle, Picobot!Unasked, Picobot!Hidden, Picobot!Listed, Picobot!Statuses,
       Picobot!At, PicobotInv, Picobot!TypeOK, RowsNameRuns, PressesComeAfter, PressesAreFirst, PassedFind

\* The overviews, and the answers that come to the page, touch neither rows nor runs.
LEMMA PageKeeps ==
  ASSUME PicobotInv, UNCHANGED <<command, created>>, Picobot!TypeOK',
         \A r \in Presses : /\ press'[r].command = press[r].command /\ press'[r].pc = press[r].pc
                            /\ press'[r].after = press[r].after
  PROVE  PicobotInv'
<1>1. RowsNameRuns'
  BY SideAssumption DEF PicobotInv, Picobot!TypeOK, RowsNameRuns
<1>2. PressesComeAfter'
  BY SideAssumption DEF PicobotInv, Picobot!TypeOK, PressesComeAfter, Picobot!At
<1>3. PressesAreFirst'
  BY DEF PicobotInv, Picobot!TypeOK, PressesAreFirst, PressesComeAfter, PassedFind
<1> QED
  BY <1>1, <1>2, <1>3 DEF PicobotInv

LEMMA OverviewKeeps ==
  ASSUME PicobotInv, NEW l \in Loads,
         Picobot!AskOverview(l) \/ Picobot!ReadOverview(l) \/ Picobot!ShowOverview(l)
  PROVE  PicobotInv'
<1> USE DEF PicobotInv, Picobot!TypeOK, Picobot!Listed, Picobot!Statuses, Picobot!Hidden
<1>1. UNCHANGED <<command, created, press>>
  BY DEF Picobot!AskOverview, Picobot!ReadOverview, Picobot!ShowOverview
<1>2. /\ load' \in [Loads -> [pc : {"idle", "asked", "read", "over"}, brings : Picobot!Listed]]
      /\ shown' \in Picobot!Listed /\ executing' = executing
  <2>1. CASE Picobot!AskOverview(l)
    BY <2>1 DEF Picobot!AskOverview
  <2>2. CASE Picobot!ReadOverview(l)
    <3>1. [c \in Commands |-> command[c].status] \in Picobot!Listed
      OBVIOUS
    <3> QED
      BY <2>2, <3>1 DEF Picobot!ReadOverview
  <2>3. CASE Picobot!ShowOverview(l)
    <3>1. [pc |-> "over", brings |-> Picobot!Hidden]
             \in [pc : {"idle", "asked", "read", "over"}, brings : Picobot!Listed]
      OBVIOUS
    <3> QED
      BY <2>3, <3>1 DEF Picobot!ShowOverview, Picobot!Unasked
  <2> QED
    BY <2>1, <2>2, <2>3
<1>3. Picobot!TypeOK'
  BY <1>1, <1>2
<1> QED
  BY <1>1, <1>3, PageKeeps

\* What ends to wait changes in nothing else.
LEMMA AnsweredKeeps ==
  ASSUME PicobotInv, NEW r \in Presses, Picobot!Answered(r) PROVE PicobotInv'
<1>1. load' \in [Loads -> [pc : {"idle", "asked", "read", "over"}, brings : Picobot!Listed]]
  BY DEF Picobot!Answered, PicobotInv, Picobot!TypeOK
<1>2. press' = [press EXCEPT ![r].waiting = FALSE] /\ executing' = None
      /\ UNCHANGED <<command, created, shown>>
  BY DEF Picobot!Answered
<1>3. /\ press' \in [Presses -> [command : Commands \cup {None}, waiting : BOOLEAN,
                               pc : {"idle", "sent", "found", "created", "done", "failed"},
                               after : SUBSET Presses]]
      /\ \A s \in Presses : /\ press'[s].command = press[s].command /\ press'[s].pc = press[s].pc
                            /\ press'[s].after = press[s].after
  <2> DEFINE C == Commands \cup {None}
             P == {"idle", "sent", "found", "created", "done", "failed"}
             A == SUBSET Presses
  <2>1. press \in [Presses -> [command : C, waiting : BOOLEAN, pc : P, after : A]]
    BY DEF PicobotInv, Picobot!TypeOK
  <2> HIDE DEF C, P, A
  <2>2. /\ press' \in [Presses -> [command : C, waiting : BOOLEAN, pc : P, after : A]]
        /\ \A s \in Presses : /\ press'[s].command = press[s].command /\ press'[s].pc = press[s].pc
                              /\ press'[s].after = press[s].after
    BY <1>2, <2>1
  <2> QED
    BY <2>2 DEF C, P, A
<1>4. Picobot!TypeOK'
  BY <1>1, <1>2, <1>3 DEF PicobotInv, Picobot!TypeOK
<1> QED
  BY <1>2, <1>3, <1>4, PageKeeps

\* A press is idle before, so that no row names it and no other press comes after it.
LEMMA PressKeeps ==
  ASSUME PicobotInv, NEW r \in Presses, NEW c \in Commands, Picobot!Press(r, c) PROVE PicobotInv'
<1> DEFINE named == {command[d].run : d \in Commands} \ {None}
<1>1. /\ press' = [press EXCEPT ![r] = [command |-> c, pc |-> "sent", waiting |-> TRUE, after |-> named]]
      /\ executing' = c /\ press[r].pc = "idle" /\ UNCHANGED <<command, created, load, shown>>
  BY DEF Picobot!Press, Picobot!At
<1>2. /\ press'[r].command = c /\ press'[r].pc = "sent" /\ press'[r].after = named
      /\ \A s \in Presses \ {r} : press'[s] = press[s]
  BY <1>1 DEF PicobotInv, Picobot!TypeOK
<1>3. \A s \in named : s \in created /\ command[press[s].command].status = "executing"
  BY DEF PicobotInv, RowsNameRuns
<1>4. r \notin created
  BY <1>1 DEF PicobotInv, PressesAreFirst
<1>5. Picobot!TypeOK'
  <2>1. named \in SUBSET Presses
    BY <1>3 DEF PicobotInv, Picobot!TypeOK
  <2>2. [command |-> c, pc |-> "sent", waiting |-> TRUE, after |-> named]
          \in [command : Commands \cup {None}, waiting : BOOLEAN,
               pc : {"idle", "sent", "found", "created", "done", "failed"}, after : SUBSET Presses]
    BY <2>1
  <2> HIDE DEF named
  <2> QED
    BY <1>1, <2>2 DEF PicobotInv, Picobot!TypeOK
<1>6. RowsNameRuns'
  BY <1>1, <1>2, <1>4 DEF PicobotInv, RowsNameRuns
<1>7. PressesComeAfter'
  BY <1>1, <1>2, <1>3, <1>4 DEF PicobotInv, PressesComeAfter, Picobot!At
<1>8. PressesAreFirst'
  BY <1>1, <1>2, <1>4 DEF PicobotInv, PressesAreFirst, PassedFind, PressesComeAfter
<1> QED
  BY <1>5, <1>6, <1>7, <1>8 DEF PicobotInv

LEMMA FindKeeps ==
  ASSUME PicobotInv, NEW r \in Presses, Picobot!Find(r) PROVE PicobotInv'
<1> DEFINE pc == IF command[press[r].command].status = "pending" /\ press[r].command \in Own
                 THEN "found" ELSE "failed"
<1>1. press' = [press EXCEPT ![r].pc = pc] /\ press[r].pc = "sent"
      /\ UNCHANGED <<command, created, load, shown, executing>>
  BY DEF Picobot!Find, Picobot!At, Picobot!Goto
<1>2. pc \in {"found", "failed"} /\ (pc = "found" => command[press[r].command].status = "pending")
  OBVIOUS
<1> HIDE DEF pc
<1>3. /\ press'[r].pc = pc /\ press'[r].command = press[r].command /\ press'[r].after = press[r].after
      /\ \A s \in Presses \ {r} : press'[s] = press[s]
  BY <1>1 DEF PicobotInv, Picobot!TypeOK
<1>4. Picobot!TypeOK'
  BY <1>1, <1>2 DEF PicobotInv, Picobot!TypeOK
<1>5. RowsNameRuns'
  BY <1>1, <1>3 DEF PicobotInv, RowsNameRuns
<1>6. PressesComeAfter'
  BY <1>1, <1>2, <1>3 DEF PicobotInv, PressesComeAfter, Picobot!At, Picobot!TypeOK
<1>7. PressesAreFirst'
  BY <1>1, <1>2, <1>3 DEF PicobotInv, PressesAreFirst, PassedFind, PressesComeAfter, Picobot!TypeOK
<1> QED
  BY <1>4, <1>5, <1>6, <1>7 DEF PicobotInv

LEMMA CreateRunKeeps ==
  ASSUME PicobotInv, NEW r \in Presses, Picobot!CreateRun(r) PROVE PicobotInv'
<1>1. PICK pc \in {"created", "failed"} : press' = [press EXCEPT ![r].pc = pc]
        /\ created' \in {created, created \cup {r}} /\ (pc = "created" => r \in created')
  BY DEF Picobot!CreateRun, Picobot!Goto
<1>2. press[r].pc = "found" /\ UNCHANGED <<command, load, shown, executing>>
  BY DEF Picobot!CreateRun, Picobot!At
<1>3. /\ press'[r].pc = pc /\ press'[r].command = press[r].command /\ press'[r].after = press[r].after
      /\ \A s \in Presses \ {r} : press'[s] = press[s]
  BY <1>1 DEF PicobotInv, Picobot!TypeOK
<1>4. Picobot!TypeOK'
  BY <1>1, <1>2 DEF PicobotInv, Picobot!TypeOK
<1>5. RowsNameRuns'
  BY <1>1, <1>2, <1>3 DEF PicobotInv, RowsNameRuns, Picobot!TypeOK
<1>6. PressesComeAfter'
  BY <1>1, <1>2, <1>3 DEF PicobotInv, PressesComeAfter, Picobot!At, Picobot!TypeOK
<1>7. PressesAreFirst'
  BY <1>1, <1>2, <1>3 DEF PicobotInv, PressesAreFirst, PassedFind, PressesComeAfter, Picobot!TypeOK
<1> QED
  BY <1>4, <1>5, <1>6, <1>7 DEF PicobotInv

LEMMA MarkRowKeeps ==
  ASSUME PicobotInv, NEW r \in Presses, Picobot!MarkRow(r) PROVE PicobotInv'
<1> DEFINE c == press[r].command
<1>1. PICK pc \in {"done", "failed"} : press' = [press EXCEPT ![r].pc = pc]
  BY DEF Picobot!MarkRow, Picobot!Goto
<1>2. /\ command' \in {command, [command EXCEPT ![c] = [status |-> "executing", run |-> r]]}
      /\ press[r].pc = "created" /\ UNCHANGED <<created, load, shown, executing>>
  BY DEF Picobot!MarkRow, Picobot!At
<1>3. c \in Commands /\ r \in created
  BY <1>2 DEF PicobotInv, PressesComeAfter, PressesAreFirst, Picobot!At
<1>4. /\ press'[r].pc = pc /\ press'[r].command = press[r].command /\ press'[r].after = press[r].after
      /\ \A s \in Presses \ {r} : press'[s] = press[s]
  BY <1>1 DEF PicobotInv, Picobot!TypeOK
<1> HIDE DEF c
<1>5. Picobot!TypeOK'
  <2>1. [status |-> "executing", run |-> r] \in [status : Picobot!Statuses, run : Presses \cup {None}]
    BY DEF Picobot!Statuses
  <2>2. command' \in [Commands -> [status : Picobot!Statuses, run : Presses \cup {None}]]
    <3>1. CASE command' = command
      BY <3>1 DEF PicobotInv, Picobot!TypeOK
    <3>2. CASE command' = [command EXCEPT ![c] = [status |-> "executing", run |-> r]]
      BY <3>2, <2>1 DEF PicobotInv, Picobot!TypeOK
    <3> QED
      BY <1>2, <3>1, <3>2
  <2>3. press' \in [Presses -> [command : Commands \cup {None}, waiting : BOOLEAN,
                               pc : {"idle", "sent", "found", "created", "done", "failed"},
                               after : SUBSET Presses]]
    <3>1. press \in [Presses -> [command : Commands \cup {None}, waiting : BOOLEAN,
                                pc : {"idle", "sent", "found", "created", "done", "failed"},
                                after : SUBSET Presses]]
      BY DEF PicobotInv, Picobot!TypeOK
    <3> QED
      BY <1>1, <3>1
  <2> QED
    BY <1>2, <2>2, <2>3 DEF PicobotInv, Picobot!TypeOK
<1>6. \A d \in Commands : command'[d] = command[d]
        \/ (d = c /\ command'[d].status = "executing" /\ command'[d].run = r)
  <2>1. CASE command' = command
    BY <2>1
  <2>2. CASE command' = [command EXCEPT ![c] = [status |-> "executing", run |-> r]]
    BY <2>2, <1>3 DEF PicobotInv, Picobot!TypeOK
  <2> QED
    BY <1>2, <2>1, <2>2
<1>7. RowsNameRuns'
  BY <1>2, <1>3, <1>4, <1>6 DEF PicobotInv, RowsNameRuns, Picobot!TypeOK, c
<1>8. PressesComeAfter'
  <2> SUFFICES ASSUME NEW s \in Presses PROVE PressesComeAfter!(s)'
    BY DEF PressesComeAfter
  <2>1. press'[s].after = press[s].after /\ press'[s].command = press[s].command
    BY <1>4
  <2>2. \A t \in press[s].after : t \in created /\ command[press[t].command].status = "executing"
                                  /\ press'[t].command = press[t].command
                                  /\ press[t].command \in Commands
    BY <1>4 DEF PicobotInv, PressesComeAfter, PressesAreFirst, Picobot!TypeOK, Picobot!At
  <2>3. \A t \in press[s].after : command'[press'[t].command].status = "executing"
    BY <2>2, <1>6
  <2>4. IF Picobot!At(s, "idle")' THEN press'[s].after = {} ELSE press'[s].command \in Commands
    BY <1>2, <1>4 DEF PicobotInv, PressesComeAfter, Picobot!At
  <2> QED
    BY <2>1, <2>2, <2>3, <2>4, <1>2
<1>9. PressesAreFirst'
  BY <1>2, <1>3, <1>4 DEF PicobotInv, PressesAreFirst, PassedFind, PressesComeAfter, Picobot!TypeOK
<1> QED
  BY <1>5, <1>7, <1>8, <1>9 DEF PicobotInv

LEMMA PicobotStepInv == PicobotInv /\ [Picobot!Next]_(Picobot!vars) => PicobotInv'
<1> SUFFICES ASSUME PicobotInv, [Picobot!Next]_(Picobot!vars) PROVE PicobotInv'
  OBVIOUS
<1>1. CASE Picobot!Next
  BY <1>1, OverviewKeeps, AnsweredKeeps, PressKeeps, FindKeeps, CreateRunKeeps, MarkRowKeeps
     DEF Picobot!Next
<1>2. CASE UNCHANGED Picobot!vars
  BY <1>2 DEF Picobot!vars, PicobotInv, Picobot!TypeOK, RowsNameRuns, PressesComeAfter,
              PressesAreFirst, PassedFind, Picobot!At
<1> QED
  BY <1>1, <1>2

\* The inductive invariant of PicobotCommands.
THEOREM PicobotInvariance == Picobot!Spec => []PicobotInv
BY PicobotInitInv, PicobotStepInv, PTL DEF Picobot!Spec

\* Once the row of a command names a run, executeCommand (picobot.service.ts) makes no
\* run of it for a press that comes after, whatever overviews show and however long the
\* answers take; and the run that a row names was made for that command.
THEOREM CommandsOnce == Picobot!Spec => []CommandsRunOnce
<1>1. PicobotInv => CommandsRunOnce
  <2> SUFFICES ASSUME PicobotInv PROVE CommandsRunOnce
    OBVIOUS
  <2>1. \A c \in Commands : command[c].status = "executing" =>
           command[c].run \in created /\ press[command[c].run].command = c
    BY DEF PicobotInv, RowsNameRuns
  <2>2. \A r, s \in created : press[r].command = press[s].command => r \notin press[s].after
    BY DEF PicobotInv, Picobot!TypeOK, PressesAreFirst, PassedFind
  <2> QED
    BY <2>1, <2>2 DEF CommandsRunOnce, Picobot!CommandsRunOnce
<1> QED
  BY <1>1, PicobotInvariance, PTL

-----------------------------------------------------------------------------
(***************************************************************************)
(* Connections, for any number of users, providers, links and calls.       *)
(* Whoever has standing has it now.  A link is signed for somebody who has *)
(* it, so that it is over LinkTtl after the last time that he had; a call  *)
(* that may still bring a token was begun in time.                         *)
(***************************************************************************)

StandingIsKnown ==
  \A u \in Users :
    /\ standing[u] # None => standing[u] <= today
    /\ Links!HasStanding(u) => standing[u] = today

LinksRunOut ==
  \A l \in links : standing[l.user] # None /\ l.exp <= standing[l.user] + LinkTtl

\* The call of r was begun while its user had standing, or in the life of a link.
InTime(r) ==
  /\ call[r].user \in Users /\ standing[call[r].user] # None
  /\ call[r].began <= standing[call[r].user] + (IF call[r].kind = "callback" THEN LinkTtl ELSE 0)

CallsAreInTime ==
  \A r \in Calls :
    /\ call[r].pc \in {"signing", "proving", "proved", "finding", "found"} =>
         call[r].user \in Users /\ call[r].provider \in Providers
    /\ call[r].pc \in {"proving", "proved"} => InTime(r)
    /\ call[r].pc = "found" => conn[call[r].provider].status # "none"

TokensAreInTime ==
  \A p \in Providers : conn[p].status # "none" =>
    /\ conn[p].token \in Calls /\ call[conn[p].token].pc = "over"
    /\ call[conn[p].token].provider = p /\ InTime(conn[p].token)

LinksInv == Links!TypeOK /\ StandingIsKnown /\ LinksRunOut /\ CallsAreInTime /\ TokensAreInTime

CallRecords == [kind : {"connect", "callback", "manual", "disconnect", None},
                user : Users \cup {None}, provider : Providers \cup {None},
                pc : {"idle", "signing", "proving", "proved", "finding", "found", "over"},
                began : 0..LinkTime]

LEMMA LinksConstants ==
  /\ LinkTtl \in Nat /\ LinkTime \in Nat
  /\ None \notin Users /\ None \notin Calls /\ None \notin Nat
BY SideAssumption

LEMMA LinksInitInv == Links!Init => LinksInv
BY LinksConstants DEF Links!Init, Links!Idle, Links!NoRow, LinksInv, Links!TypeOK, Links!Links,
   Links!HasStanding, StandingIsKnown, LinksRunOut, CallsAreInTime, TokensAreInTime, InTime

\* A call begins: it asks for a link on behalf of a member, or may bring a token and is
\* in time.
LEMMA BeginKeeps ==
  ASSUME LinksInv, NEW r \in Calls, NEW kind \in {"connect", "callback", "manual", "disconnect"},
         NEW u \in Users, NEW p \in Providers, NEW pc \in {"signing", "proving", "finding"},
         Links!Begin(r, kind, u, p, pc),
         pc = "signing" => u \in members,
         pc = "proving" => /\ standing[u] # None
                           /\ today <= standing[u] + (IF kind = "callback" THEN LinkTtl ELSE 0)
  PROVE  LinksInv'
<1> DEFINE new == [kind |-> kind, user |-> u, provider |-> p, pc |-> pc, began |-> today]
<1>1. /\ call' = [call EXCEPT ![r] = new] /\ call[r].pc = "idle"
      /\ UNCHANGED <<members, standing, today, links, conn>>
  BY DEF Links!Begin
<1>2. /\ new \in CallRecords
      /\ new.user = u /\ new.provider = p /\ new.kind = kind /\ new.pc = pc /\ new.began = today
  BY DEF LinksInv, Links!TypeOK, CallRecords
<1> HIDE DEF new
<1>3. call'[r] = new /\ \A s \in Calls \ {r} : call'[s] = call[s]
  BY <1>1 DEF LinksInv, Links!TypeOK
<1>4. \A s \in Calls \ {r} : InTime(s)' <=> InTime(s)
  BY <1>1, <1>3 DEF InTime
<1>5. Links!TypeOK'
  BY <1>1, <1>2 DEF LinksInv, Links!TypeOK, CallRecords
<1>6. StandingIsKnown'
  <2>1. \A v \in Users : Links!HasStanding(v)' => Links!HasStanding(v)
    BY <1>1, <1>2, <1>3 DEF Links!HasStanding
  <2> QED
    BY <1>1, <2>1 DEF LinksInv, StandingIsKnown
<1>7. CallsAreInTime'
  <2>1. pc = "proving" => InTime(r)'
    BY <1>1, <1>2, <1>3 DEF InTime
  <2> QED
    BY <1>1, <1>2, <1>3, <1>4, <2>1 DEF LinksInv, CallsAreInTime
<1>8. TokensAreInTime'
  BY <1>1, <1>3, <1>4 DEF LinksInv, TokensAreInTime
<1> QED
  BY <1>1, <1>5, <1>6, <1>7, <1>8 DEF LinksInv, LinksRunOut

\* A call that is not over goes on; no row names it yet.
LEMMA MoveKeeps ==
  ASSUME LinksInv, NEW r \in Calls, NEW pc \in {"proved", "found", "over"}, Links!Goto(r, pc),
         UNCHANGED <<members, standing, today, links>>,
         pc = "proved" => call[r].pc = "proving",
         pc = "found" => call[r].pc = "finding" /\ conn[call[r].provider].status # "none",
         call[r].pc # "over",
         \A q \in Providers : \/ conn'[q] = conn[q]
                              \/ /\ call[r].pc = "proved" /\ q = call[r].provider
                                 /\ conn'[q].token = r /\ pc = "over"
                              \/ conn[q].status # "none" /\ conn'[q].token = conn[q].token,
         \A q \in Providers : conn[q].status # "none" => conn'[q].status # "none",
         conn' \in [Providers -> [status : {"none", "connected", "disconnected"},
                                  token : Calls \cup {None}]]
  PROVE  LinksInv'
<1>1. call' = [call EXCEPT ![r].pc = pc]
  BY DEF Links!Goto
<1>2. /\ call'[r].pc = pc /\ call'[r].user = call[r].user /\ call'[r].provider = call[r].provider
      /\ call'[r].kind = call[r].kind /\ call'[r].began = call[r].began
      /\ \A s \in Calls \ {r} : call'[s] = call[s]
  BY <1>1 DEF LinksInv, Links!TypeOK
<1>3. \A s \in Calls : InTime(s)' <=> InTime(s)
  BY <1>2 DEF InTime
<1>4. Links!TypeOK'
  <2>1. call \in [Calls -> CallRecords]
    BY DEF LinksInv, Links!TypeOK, CallRecords
  <2>2. call' \in [Calls -> CallRecords]
    BY <1>1, <2>1 DEF CallRecords
  <2> QED
    BY <2>2 DEF LinksInv, Links!TypeOK, CallRecords
<1>5. StandingIsKnown'
  <2>1. \A v \in Users : Links!HasStanding(v)' => Links!HasStanding(v)
    BY <1>2 DEF Links!HasStanding
  <2> QED
    BY <2>1 DEF LinksInv, StandingIsKnown
<1>6. CallsAreInTime'
  BY <1>2, <1>3 DEF LinksInv, CallsAreInTime
<1>7. TokensAreInTime'
  <2> DEFINE Good(q) == /\ conn[q].token \in Calls /\ call[conn[q].token].pc = "over"
                        /\ call[conn[q].token].provider = q /\ InTime(conn[q].token)
  <2> SUFFICES ASSUME NEW q \in Providers, conn'[q].status # "none" PROVE Good(q)'
    BY DEF TokensAreInTime
  <2>1. CASE conn[q].status # "none" /\ conn'[q].token = conn[q].token
    <3>1. Good(q) /\ conn[q].token # r
      BY <2>1 DEF LinksInv, TokensAreInTime
    <3> QED
      BY <2>1, <3>1, <1>2, <1>3 DEF InTime
  <2>2. CASE call[r].pc = "proved" /\ q = call[r].provider /\ conn'[q].token = r /\ pc = "over"
    <3>1. InTime(r)'
      BY <2>2, <1>3 DEF LinksInv, CallsAreInTime
    <3> QED
      BY <2>2, <1>2, <3>1 DEF InTime
  <2> QED
    BY <2>1, <2>2
<1> QED
  BY <1>4, <1>5, <1>6, <1>7 DEF LinksInv, LinksRunOut

LEMMA RefuseKeeps ==
  ASSUME LinksInv, NEW r \in Calls, Links!Refuse(r) PROVE LinksInv'
<1>1. conn \in [Providers -> [status : {"none", "connected", "disconnected"}, token : Calls \cup {None}]]
  BY DEF LinksInv, Links!TypeOK
<1> QED
  BY <1>1, MoveKeeps DEF Links!Refuse

LEMMA EnterKeeps ==
  ASSUME LinksInv, NEW r \in Calls, NEW u \in Users, NEW p \in Providers,
         \/ Links!GetConnectUrl(r, u, p) \/ Links!BringToken(r, u, p) \/ Links!Disconnect(r, u, p)
  PROVE  LinksInv'
<1>1. u \in members => standing[u] = today /\ today # None /\ today \in Nat
  BY LinksConstants DEF LinksInv, Links!TypeOK, StandingIsKnown, Links!HasStanding
<1>2. CASE Links!Refuse(r)
  BY <1>2, RefuseKeeps
<1>3. ASSUME u \in members, NEW kind \in {"connect", "manual", "disconnect"},
             NEW pc \in {"signing", "proving", "finding"}, Links!Begin(r, kind, u, p, pc)
      PROVE  LinksInv'
  BY <1>1, <1>3, BeginKeeps
<1> QED
  BY <1>2, <1>3 DEF Links!GetConnectUrl, Links!BringToken, Links!Disconnect, Links!Enter

LEMMA CallbackKeeps ==
  ASSUME LinksInv, NEW r \in Calls, NEW p \in Providers, NEW l \in Links!Links,
         Links!Callback(r, l, p)
  PROVE  LinksInv'
<1>1. CASE Links!Refuse(r)
  BY <1>1, RefuseKeeps
<1>2. CASE l \in links /\ today <= l.exp /\ Links!Begin(r, "callback", l.user, p, "proving")
  <2>1. l.user \in Users /\ l.exp \in Int /\ today \in Int
    BY LinksConstants DEF LinksInv, Links!TypeOK, Links!Links
  <2>2. /\ standing[l.user] # None /\ standing[l.user] \in Int
        /\ l.exp <= standing[l.user] + LinkTtl
    BY <1>2, <2>1, LinksConstants DEF LinksInv, Links!TypeOK, LinksRunOut
  <2>3. today <= standing[l.user] + LinkTtl
    BY <1>2, <2>1, <2>2, LinksConstants
  <2> QED
    BY <1>2, <2>1, <2>2, <2>3, BeginKeeps
<1> QED
  BY <1>1, <1>2 DEF Links!Callback

LEMMA CallKeeps ==
  ASSUME LinksInv, NEW r \in Calls,
         Links!Prove(r) \/ Links!Upsert(r) \/ Links!FindRow(r) \/ Links!MarkDisconnected(r)
  PROVE  LinksInv'
<1>1. conn \in [Providers -> [status : {"none", "connected", "disconnected"}, token : Calls \cup {None}]]
  BY DEF LinksInv, Links!TypeOK
<1>2. CASE Links!Prove(r)
  BY <1>1, <1>2, MoveKeeps DEF Links!Prove
<1>3. CASE Links!Upsert(r)
  <2>1. call[r].provider \in Providers /\ call[r].pc = "proved"
    BY <1>3 DEF Links!Upsert, LinksInv, CallsAreInTime
  <2>2. CASE conn' = [conn EXCEPT ![call[r].provider] = [status |-> "connected", token |-> r]]
    BY <1>1, <1>3, <2>1, <2>2, MoveKeeps DEF Links!Upsert
  <2>3. CASE UNCHANGED conn
    BY <1>1, <1>3, <2>1, <2>3, MoveKeeps DEF Links!Upsert
  <2> QED
    BY <1>3, <2>2, <2>3 DEF Links!Upsert
<1>4. CASE Links!FindRow(r)
  <2>1. CASE conn[call[r].provider].status # "none"
    BY <1>1, <1>4, <2>1, MoveKeeps DEF Links!FindRow
  <2>2. CASE conn[call[r].provider].status = "none"
    BY <1>1, <1>4, <2>2, MoveKeeps DEF Links!FindRow
  <2> QED
    BY <2>1, <2>2
<1>5. CASE Links!MarkDisconnected(r)
  <2>1. call[r].provider \in Providers /\ call[r].pc = "found" /\ conn[call[r].provider].status # "none"
    BY <1>5 DEF Links!MarkDisconnected, LinksInv, CallsAreInTime
  <2>2. CASE conn' = [conn EXCEPT ![call[r].provider].status = "disconnected"]
    BY <1>1, <1>5, <2>1, <2>2, MoveKeeps DEF Links!MarkDisconnected
  <2>3. CASE UNCHANGED conn
    BY <1>1, <1>5, <2>1, <2>3, MoveKeeps DEF Links!MarkDisconnected
  <2> QED
    BY <1>5, <2>2, <2>3 DEF Links!MarkDisconnected
<1> QED
  BY <1>2, <1>3, <1>4, <1>5

\* The user of a link that is being signed has standing, though he may be removed.
LEMMA SignStateKeeps ==
  ASSUME LinksInv, NEW r \in Calls, Links!SignState(r) PROVE LinksInv'
<1> DEFINE u == call[r].user
           new == [user |-> u, provider |-> call[r].provider, exp |-> today + LinkTtl]
<1>1. /\ links' = links \cup {new} /\ call[r].pc = "signing" /\ Links!Goto(r, "over")
      /\ UNCHANGED <<members, standing, today, conn>>
  BY DEF Links!SignState
<1>2. u \in Users /\ call[r].provider \in Providers
  BY <1>1 DEF LinksInv, CallsAreInTime
<1>3. standing[u] = today /\ today \in Nat /\ today # None /\ today <= LinkTime
  BY <1>1, <1>2, LinksConstants DEF LinksInv, Links!TypeOK, StandingIsKnown, Links!HasStanding
<1>4. new \in Links!Links /\ new.user = u /\ new.exp = today + LinkTtl
  BY <1>2, <1>3, LinksConstants DEF Links!Links
<1> HIDE DEF new
<1>5. LinksRunOut'
  <2>1. today + LinkTtl \in Int /\ today + LinkTtl <= today + LinkTtl
    BY <1>3, LinksConstants
  <2>2. standing[new.user] # None /\ new.exp <= standing[new.user] + LinkTtl
    BY <1>3, <1>4, <2>1
  <2> QED
    BY <1>1, <2>2 DEF LinksInv, LinksRunOut
<1>6. call' = [call EXCEPT ![r].pc = "over"]
  BY <1>1 DEF Links!Goto
<1>7. /\ call'[r].pc = "over" /\ call[r].pc = "signing"
      /\ \A s \in Calls : /\ call'[s].user = call[s].user /\ call'[s].provider = call[s].provider
                          /\ call'[s].kind = call[s].kind /\ call'[s].began = call[s].began
                          /\ s # r => call'[s].pc = call[s].pc
  BY <1>1, <1>6 DEF LinksInv, Links!TypeOK
<1>8. \A s \in Calls : InTime(s)' <=> InTime(s)
  BY <1>1, <1>7 DEF InTime
<1>9. Links!TypeOK'
  <2>1. call' \in [Calls -> CallRecords]
    BY <1>6 DEF LinksInv, Links!TypeOK, CallRecords
  <2> QED
    BY <1>1, <1>4, <2>1 DEF LinksInv, Links!TypeOK, CallRecords
<1>10. StandingIsKnown'
  <2>1. \A v \in Users : Links!HasStanding(v)' => Links!HasStanding(v)
    BY <1>1, <1>7 DEF Links!HasStanding
  <2> QED
    BY <1>1, <2>1 DEF LinksInv, StandingIsKnown
<1>11. CallsAreInTime' /\ TokensAreInTime'
  BY <1>1, <1>7, <1>8 DEF LinksInv, CallsAreInTime, TokensAreInTime
<1> QED
  BY <1>5, <1>9, <1>10, <1>11 DEF LinksInv

\* The standing of nobody goes back: what was in time stays so.
LEMMA StandingGrows ==
  ASSUME LinksInv, Links!TypeOK', UNCHANGED <<links, conn, call>>,
         \A u \in Users : standing[u] # None => standing'[u] # None /\ standing[u] <= standing'[u]
  PROVE  LinksRunOut' /\ CallsAreInTime' /\ TokensAreInTime'
<1>1. \A u \in Users : /\ standing[u] # None => standing[u] \in Int
                       /\ standing'[u] # None => standing'[u] \in Int
  BY DEF LinksInv, Links!TypeOK
<1>2. LinksRunOut'
  <2>1. \A l \in links : l.user \in Users /\ l.exp \in Int
    BY LinksConstants DEF LinksInv, Links!TypeOK, Links!Links
  <2> QED
    BY <1>1, <2>1, LinksConstants DEF LinksInv, LinksRunOut
<1>3. ASSUME NEW r \in Calls, InTime(r) PROVE InTime(r)'
  <2>1. call[r].user \in Users /\ call[r].began \in Int
    BY <1>3 DEF InTime, LinksInv, Links!TypeOK
  <2> QED
    BY <1>1, <1>3, <2>1, LinksConstants DEF InTime
<1>4. CallsAreInTime' /\ TokensAreInTime'
  BY <1>3 DEF LinksInv, CallsAreInTime, TokensAreInTime
<1> QED
  BY <1>2, <1>4

LEMMA MembersKeep ==
  ASSUME LinksInv, NEW u \in Users, Links!AddMember(u) \/ Links!RemoveMember(u)
  PROVE  LinksInv'
<1>1. today \in Nat /\ today # None
  BY LinksConstants DEF LinksInv, Links!TypeOK
<1>2. CASE Links!AddMember(u)
  <2>1. /\ members' = members \cup {u} /\ standing' = [standing EXCEPT ![u] = today]
        /\ UNCHANGED <<today, links, conn, call>>
    BY <1>2 DEF Links!AddMember
  <2>2. standing'[u] = today /\ \A v \in Users \ {u} : standing'[v] = standing[v]
    BY <2>1 DEF LinksInv, Links!TypeOK
  <2>3. Links!TypeOK'
    BY <2>1 DEF LinksInv, Links!TypeOK
  <2>4. StandingIsKnown'
    BY <1>1, <2>1, <2>2 DEF LinksInv, StandingIsKnown, Links!HasStanding
  <2>5. \A v \in Users : standing[v] # None => standing'[v] # None /\ standing[v] <= standing'[v]
    BY <1>1, <2>2 DEF LinksInv, Links!TypeOK, StandingIsKnown
  <2> QED
    BY <2>1, <2>3, <2>4, <2>5, StandingGrows DEF LinksInv
<1>3. CASE Links!RemoveMember(u)
  <2>1. members' = members \ {u} /\ UNCHANGED <<standing, today, links, conn, call>>
    BY <1>3 DEF Links!RemoveMember
  <2>2. StandingIsKnown'
    BY <2>1 DEF LinksInv, StandingIsKnown, Links!HasStanding
  <2> QED
    BY <2>1, <2>2 DEF LinksInv, Links!TypeOK, LinksRunOut, CallsAreInTime, TokensAreInTime, InTime
<1> QED
  BY <1>2, <1>3

LEMMA LinksTickKeeps == ASSUME LinksInv, Links!Tick PROVE LinksInv'
<1>1. /\ today' = today + 1 /\ today' \in 0..LinkTime /\ today \in Nat /\ today + 1 # None
      /\ standing' = [u \in Users |-> IF Links!HasStanding(u) THEN today + 1 ELSE standing[u]]
      /\ UNCHANGED <<members, links, conn, call>>
  BY LinksConstants DEF Links!Tick, LinksInv, Links!TypeOK
<1>2. Links!TypeOK'
  BY <1>1 DEF LinksInv, Links!TypeOK
<1>3. \A u \in Users : Links!HasStanding(u)' <=> Links!HasStanding(u)
  BY <1>1 DEF Links!HasStanding
<1>4. StandingIsKnown'
  <2> SUFFICES ASSUME NEW u \in Users
               PROVE  /\ standing'[u] # None => standing'[u] <= today + 1
                      /\ Links!HasStanding(u) => standing'[u] = today + 1
    BY <1>1, <1>3 DEF StandingIsKnown
  <2>1. standing[u] # None => standing[u] \in Nat /\ standing[u] <= today
    BY DEF LinksInv, Links!TypeOK, StandingIsKnown
  <2> QED
    BY <1>1, <2>1
<1>5. \A u \in Users : standing[u] # None => standing'[u] # None /\ standing[u] <= standing'[u]
  BY <1>1 DEF LinksInv, Links!TypeOK, StandingIsKnown
<1> QED
  BY <1>1, <1>2, <1>4, <1>5, StandingGrows DEF LinksInv

LEMMA LinksStepInv == LinksInv /\ [Links!Next]_(Links!vars) => LinksInv'
<1> SUFFICES ASSUME LinksInv, [Links!Next]_(Links!vars) PROVE LinksInv'
  OBVIOUS
<1>1. CASE Links!Next
  BY <1>1, LinksTickKeeps, MembersKeep, EnterKeeps, CallKeeps, CallbackKeeps, SignStateKeeps
     DEF Links!Next
<1>2. CASE UNCHANGED Links!vars
  BY <1>2 DEF Links!vars, LinksInv, Links!TypeOK, StandingIsKnown, Links!HasStanding, LinksRunOut,
              CallsAreInTime, TokensAreInTime, InTime
<1> QED
  BY <1>1, <1>2

\* The inductive invariant of Connections.
THEOREM LinksInvariance == Links!Spec => []LinksInv
BY LinksInitInv, LinksStepInv, PTL DEF Links!Spec

\* The token of a connection (integrations.service.ts) was brought by somebody who
\* was a member of the workspace, or was still waiting for a link that he had asked
\* for as one, within the life of a link; however many links are signed, however
\* members come and go, and however long the provider takes to answer.
THEOREM TokensOfMembers == Links!Spec => []TokensAreOfMembers
<1>1. LinksInv => TokensAreOfMembers
  BY DEF LinksInv, TokensAreInTime, InTime, TokensAreOfMembers, Links!TokensAreOfMembers
<1> QED
  BY <1>1, LinksInvariance, PTL

-----------------------------------------------------------------------------
(***************************************************************************)
(* WorkflowCatalog, for any number of workflows, names, templates and      *)
(* requests.  A request that writes no new slug read the name it writes;   *)
(* as long as the version is the one it read, the row still has that name. *)
(***************************************************************************)

RowsAreNamed ==
  \A w \in Workflows :
    /\ w \in Catalog!Saved => flow[w].name \in Names /\ flow[w].slug \in Catalog!Slugs
    /\ w \in Catalog!Saved \ overlapped => Catalog!Suits(flow[w].name, flow[w].slug)

SlugsAreUnique ==
  \A v, w \in Catalog!Saved : flow[v].slug = flow[w].slug => v = w

\* The locals of a request at every place it can be at.
Fits(s) ==
  /\ s.pc = "idle" => s = Catalog!Idle
  /\ s.pc \in {"search", "write"} => s.name \in Names
  /\ s.pc = "search" => s.slug = None /\ s.place \in 1..MaxAttempts
  /\ s.pc \in {"search", "write"} /\ s.target # None =>
       s.target \in Catalog!Saved /\ s.version <= flow[s.target].version
  /\ s.pc = "write" /\ s.slug # None => s.slug.of = s.name
  /\ s.pc = "write" /\ s.slug = None =>
       /\ s.target # None
       /\ s.version = flow[s.target].version => s.name = flow[s.target].name
  /\ s.pc \in {"template", "add"} => s.target = None /\ s.place >= 1
  /\ s.pc = "add" => s.place <= Len(Templates)
  /\ s.pc = "refused" /\ s.target # None => s.slug # None

CatalogInv ==
  Catalog!TypeOK /\ RowsAreNamed /\ SlugsAreUnique /\ \A r \in Saves : Fits(save[r])

\* What the locals of a request are.
Locals == [pc : {"idle", "search", "write", "template", "add", "done", "refused"},
           target : Workflows \cup {None}, name : Names \cup {None},
           slug : Catalog!Slugs \cup {None}, place : Nat, version : Nat]

LEMMA CatalogConstants ==
  /\ MaxAttempts \in Nat \ {0} /\ Templates \in Seq(Catalog!Template)
  /\ None \notin Workflows /\ None \notin Catalog!Slugs
BY SideAssumption

LEMMA CatalogInitInv == Catalog!Init => CatalogInv
<1> SUFFICES ASSUME Catalog!Init PROVE CatalogInv
  OBVIOUS
<1>1. /\ flow = [w \in Workflows |-> [name |-> None, slug |-> None, version |-> 0]]
      /\ save = [r \in Saves |-> Catalog!Idle] /\ overlapped = {}
  BY DEF Catalog!Init, Catalog!NoRow
<1>2. Catalog!Idle \in Locals /\ Catalog!Idle.pc = "idle"
  BY DEF Catalog!Idle, Locals
<1>3. Catalog!TypeOK
  BY <1>1, <1>2 DEF Catalog!TypeOK, Locals
<1>4. Catalog!Saved = {}
  BY <1>1 DEF Catalog!Saved
<1>5. \A r \in Saves : Fits(save[r])
  BY <1>1, <1>2 DEF Fits
<1> QED
  BY <1>3, <1>4, <1>5 DEF CatalogInv, RowsAreNamed, SlugsAreUnique

\* The steps that only change the locals of a request.
LEMMA LocalsKeep ==
  ASSUME CatalogInv, UNCHANGED <<flow, overlapped>>, NEW r \in Saves,
         NEW s \in Locals, Fits(s), save' = [save EXCEPT ![r] = s]
  PROVE  CatalogInv'
<1>1. Catalog!TypeOK'
  BY DEF CatalogInv, Catalog!TypeOK, Locals
<1>2. Catalog!Saved' = Catalog!Saved
  BY DEF Catalog!Saved
<1>3. \A t \in Saves : Fits(save'[t])
  BY DEF CatalogInv, Catalog!TypeOK
<1>4. \A t \in Saves : Fits(save[t])'
  BY <1>2, <1>3 DEF Fits
<1> QED
  BY <1>1, <1>2, <1>4 DEF CatalogInv, RowsAreNamed, SlugsAreUnique

LEMMA CreateKeeps ==
  ASSUME CatalogInv, NEW r \in Saves, NEW name \in Names, Catalog!Create(r, name)
  PROVE  CatalogInv'
<1> DEFINE s == [pc |-> "search", target |-> None, name |-> name, slug |-> None,
                 place |-> 1, version |-> 0]
<1>1. save[r] = Catalog!Idle
  BY DEF Catalog!Create, Catalog!At, CatalogInv, Fits
<1>2. save' = [save EXCEPT ![r] = s]
  <2>1. save' = [save EXCEPT ![r] = [save[r] EXCEPT !.pc = "search", !.name = name]]
    BY DEF Catalog!Create, CatalogInv, Catalog!TypeOK
  <2> DEFINE first == [save[r] EXCEPT !.pc = "search"]
  <2>2. first = [pc |-> "search", target |-> None, name |-> None, slug |-> None,
                 place |-> 1, version |-> 0]
    BY <1>1 DEF Catalog!Idle
  <2>3. save' = [save EXCEPT ![r] = [first EXCEPT !.name = name]]
    BY <2>1
  <2> HIDE DEF first
  <2>4. [first EXCEPT !.name = name] = s
    BY <2>2
  <2> QED
    BY <2>3, <2>4
<1>3. s \in Locals /\ Fits(s)
  BY CatalogConstants DEF Locals, Fits
<1> QED
  BY <1>2, <1>3, LocalsKeep DEF Catalog!Create

LEMMA UpdateKeeps ==
  ASSUME CatalogInv, NEW r \in Saves, NEW w \in Workflows, NEW name \in Names,
         Catalog!Update(r, w, name)
  PROVE  CatalogInv'
<1> DEFINE s == [pc |-> IF name = flow[w].name THEN "write" ELSE "search", target |-> w,
                 name |-> name, slug |-> None, place |-> 1, version |-> flow[w].version]
<1>1. save' = [save EXCEPT ![r] = s]
  <2> DEFINE pc == IF name = flow[w].name THEN "write" ELSE "search"
             version == flow[w].version
             first == [Catalog!Idle EXCEPT !.pc = pc]
             second == [first EXCEPT !.target = w]
             third == [second EXCEPT !.name = name]
  <2>1. save' = [save EXCEPT ![r] = [third EXCEPT !.version = version]]
    BY DEF Catalog!Update
  <2> HIDE DEF pc, version
  <2>2. first = [pc |-> pc, target |-> None, name |-> None, slug |-> None, place |-> 1, version |-> 0]
    BY DEF Catalog!Idle
  <2> HIDE DEF first
  <2>3. second = [pc |-> pc, target |-> w, name |-> None, slug |-> None, place |-> 1, version |-> 0]
    BY <2>2
  <2> HIDE DEF second
  <2>4. third = [pc |-> pc, target |-> w, name |-> name, slug |-> None, place |-> 1, version |-> 0]
    BY <2>3
  <2> HIDE DEF third
  <2>5. [third EXCEPT !.version = version] = [pc |-> pc, target |-> w, name |-> name,
                                              slug |-> None, place |-> 1, version |-> version]
    BY <2>4
  <2> QED
    BY <2>1, <2>5 DEF pc, version
<1>2. w \in Catalog!Saved /\ flow[w].version \in Nat
  BY DEF Catalog!Update, CatalogInv, Catalog!TypeOK
<1>3. s \in Locals /\ Fits(s)
  BY <1>2, CatalogConstants DEF Locals, Fits
<1> QED
  BY <1>1, <1>3, LocalsKeep DEF Catalog!Update

\* A request with one of its locals changed.
LEMMA LocalsOf ==
  ASSUME CatalogInv, NEW r \in Saves
  PROVE  /\ save[r] \in Locals /\ Fits(save[r])
         /\ \A pc : save' = [save EXCEPT ![r].pc = pc] =>
              save' = [save EXCEPT ![r] = [pc |-> pc, target |-> save[r].target,
                name |-> save[r].name, slug |-> save[r].slug, place |-> save[r].place,
                version |-> save[r].version]]
<1>1. save[r] \in Locals /\ Fits(save[r])
  BY DEF CatalogInv, Catalog!TypeOK, Locals
<1>2. ASSUME NEW pc
      PROVE  [save[r] EXCEPT !.pc = pc] = [pc |-> pc, target |-> save[r].target,
                name |-> save[r].name, slug |-> save[r].slug, place |-> save[r].place,
                version |-> save[r].version]
  BY <1>1 DEF Locals
<1> QED
  BY <1>1, <1>2

LEMMA SearchSlugKeeps ==
  ASSUME CatalogInv, NEW r \in Saves, Catalog!SearchSlug(r) PROVE CatalogInv'
<1> DEFINE o == save[r]
           Found(slug) == [pc |-> "write", target |-> o.target, name |-> o.name, slug |-> slug,
                           place |-> o.place, version |-> o.version]
           next == [pc |-> "search", target |-> o.target, name |-> o.name, slug |-> o.slug,
                    place |-> o.place + 1, version |-> o.version]
           plain == Catalog!Slug(o.name, o.place)
           timed == Catalog!Slug(o.name, r)
<1>1. o \in Locals /\ Fits(o) /\ o.pc = "search"
  BY LocalsOf DEF Catalog!SearchSlug, Catalog!At
<1>2. o.name \in Names /\ o.slug = None /\ o.place \in 1..MaxAttempts
      /\ (o.target # None => o.target \in Catalog!Saved /\ o.version <= flow[o.target].version)
  BY <1>1 DEF Fits
<1>3. ASSUME NEW slug \in Catalog!Slugs, slug.of = o.name PROVE Found(slug) \in Locals /\ Fits(Found(slug))
  BY <1>1, <1>2, <1>3, CatalogConstants DEF Locals, Fits
<1>4. /\ plain \in Catalog!Slugs /\ plain.of = o.name
      /\ timed \in Catalog!Slugs /\ timed.of = o.name
  BY <1>2 DEF Catalog!Slug, Catalog!Slugs
<1>5. \/ save' = [save EXCEPT ![r].slug = plain, ![r].pc = "write"]
      \/ save' = [save EXCEPT ![r].place = @ + 1] /\ o.place < MaxAttempts
      \/ save' = [save EXCEPT ![r].slug = timed, ![r].pc = "write"]
  BY DEF Catalog!SearchSlug
<1>6. UNCHANGED <<flow, overlapped>>
  BY DEF Catalog!SearchSlug
<1>7. ASSUME NEW slug, save' = [save EXCEPT ![r].slug = slug, ![r].pc = "write"]
      PROVE  save' = [save EXCEPT ![r] = Found(slug)]
  <2> DEFINE first == [o EXCEPT !.slug = slug]
  <2>1. save' = [save EXCEPT ![r] = [first EXCEPT !.pc = "write"]]
    BY <1>7 DEF CatalogInv, Catalog!TypeOK
  <2>2. first = [pc |-> o.pc, target |-> o.target, name |-> o.name, slug |-> slug,
                 place |-> o.place, version |-> o.version]
    BY <1>1 DEF Locals
  <2> HIDE DEF first
  <2>3. [first EXCEPT !.pc = "write"] = Found(slug)
    BY <2>2
  <2> QED
    BY <2>1, <2>3
<1>8. CASE save' = [save EXCEPT ![r].place = @ + 1] /\ o.place < MaxAttempts
  <2>1. [o EXCEPT !.place = o.place + 1] = next
    BY <1>1 DEF Locals
  <2>2. next \in Locals /\ Fits(next)
    BY <1>1, <1>2, <1>8, CatalogConstants DEF Locals, Fits
  <2> QED
    BY <1>6, <1>8, <2>1, <2>2, LocalsKeep
<1> HIDE DEF Found, plain, timed
<1>9. CASE save' = [save EXCEPT ![r].slug = plain, ![r].pc = "write"]
  BY <1>3, <1>4, <1>6, <1>7, <1>9, LocalsKeep
<1>10. CASE save' = [save EXCEPT ![r].slug = timed, ![r].pc = "write"]
  BY <1>3, <1>4, <1>6, <1>7, <1>10, LocalsKeep
<1> QED
  BY <1>5, <1>8, <1>9, <1>10

LEMMA BootstrapKeeps ==
  ASSUME CatalogInv, NEW r \in Saves, Catalog!Bootstrap(r) PROVE CatalogInv'
<1> DEFINE s == [pc |-> "template", target |-> save[r].target, name |-> save[r].name,
                 slug |-> save[r].slug, place |-> save[r].place, version |-> save[r].version]
<1>1. save' = [save EXCEPT ![r] = s]
  BY LocalsOf DEF Catalog!Bootstrap, Catalog!Goto
<1>2. save[r] = Catalog!Idle
  BY DEF Catalog!Bootstrap, Catalog!At, CatalogInv, Fits
<1>3. s \in Locals /\ Fits(s)
  BY <1>2 DEF Catalog!Idle, Locals, Fits
<1> QED
  BY <1>1, <1>3, LocalsKeep DEF Catalog!Bootstrap

LEMMA FindTemplateKeeps ==
  ASSUME CatalogInv, NEW r \in Saves, Catalog!FindTemplate(r) PROVE CatalogInv'
<1> DEFINE o == save[r]
           At(pc, place) == [pc |-> pc, target |-> o.target, name |-> o.name, slug |-> o.slug,
                             place |-> place, version |-> o.version]
<1>1. o \in Locals /\ Fits(o) /\ o.pc = "template" /\ UNCHANGED <<flow, overlapped>>
  BY LocalsOf DEF Catalog!FindTemplate, Catalog!At
<1>2. o.target = None /\ o.place >= 1 /\ o.place \in Nat
  BY <1>1 DEF Fits, Locals
<1>3. \/ save' = [save EXCEPT ![r] = At("done", o.place)]
      \/ save' = [save EXCEPT ![r] = At("add", o.place)] /\ o.place <= Len(Templates)
      \/ save' = [save EXCEPT ![r] = At("template", o.place + 1)]
  <2>1. CASE Catalog!Goto(r, "done")
    BY <2>1, LocalsOf DEF Catalog!Goto
  <2>2. CASE Catalog!Goto(r, "add") /\ o.place <= Len(Templates)
    BY <2>2, LocalsOf DEF Catalog!Goto
  <2>3. CASE save' = [save EXCEPT ![r].place = @ + 1]
    <3>1. [o EXCEPT !.place = o.place + 1] = At("template", o.place + 1)
      BY <1>1 DEF Locals
    <3> QED
      BY <2>3, <3>1
  <2> QED
    BY <2>1, <2>2, <2>3 DEF Catalog!FindTemplate
<1>4. At("done", o.place) \in Locals /\ Fits(At("done", o.place))
  BY <1>1, <1>2 DEF Locals, Fits
<1>5. o.place <= Len(Templates) => At("add", o.place) \in Locals /\ Fits(At("add", o.place))
  BY <1>1, <1>2 DEF Locals, Fits
<1>6. At("template", o.place + 1) \in Locals /\ Fits(At("template", o.place + 1))
  BY <1>1, <1>2 DEF Locals, Fits
<1> HIDE DEF At
<1> QED
  BY <1>1, <1>3, <1>4, <1>5, <1>6, LocalsKeep

\* A row is written: under a slug that no other row has, made of its name unless the
\* write is an update that has overlapped. Nobody who read the row before has read
\* this version of it.
LEMMA RowKeeps ==
  ASSUME CatalogInv, NEW r \in Saves, NEW w \in Workflows, NEW name \in Names,
         NEW slug \in Catalog!Slugs, NEW version \in Nat, version = flow[w].version + 1,
         flow' = [flow EXCEPT ![w] = [name |-> name, slug |-> slug, version |-> version]],
         Catalog!TakenBy(slug) \subseteq {w},
         overlapped \subseteq overlapped', overlapped' \subseteq Workflows,
         w \notin overlapped' => Catalog!Suits(name, slug),
         NEW s \in Locals, s.pc \in {"done", "template"}, Fits(s),
         save' = [save EXCEPT ![r] = s]
  PROVE  CatalogInv'
<1>1. Catalog!TypeOK'
  <2>1. flow' \in [Workflows -> [name : Names \cup {None}, slug : Catalog!Slugs \cup {None},
                                 version : Nat]]
    BY DEF CatalogInv, Catalog!TypeOK
  <2>2. save' \in [Saves -> Locals]
    BY DEF CatalogInv, Catalog!TypeOK, Locals
  <2> QED
    BY <2>1, <2>2 DEF Catalog!TypeOK, Locals
<1>2. /\ flow'[w].name = name /\ flow'[w].slug = slug /\ flow'[w].version = version
      /\ \A v \in Workflows \ {w} : flow'[v] = flow[v]
  BY DEF CatalogInv, Catalog!TypeOK
<1>3. \A v \in Workflows : flow[v].version \in Nat
  BY DEF CatalogInv, Catalog!TypeOK
<1>4. Catalog!Saved' = Catalog!Saved \cup {w}
  BY <1>2, <1>3 DEF Catalog!Saved
<1>5. RowsAreNamed'
  BY <1>2, <1>4 DEF CatalogInv, RowsAreNamed, Catalog!Saved
<1>6. SlugsAreUnique'
  BY <1>2, <1>4 DEF CatalogInv, SlugsAreUnique, Catalog!TakenBy, Catalog!Saved
<1>7. Fits(s)'
  BY DEF Fits
<1>8. ASSUME NEW t \in Saves, t # r PROVE Fits(save[t])'
  <2>1. save'[t] = save[t] /\ save[t].version \in Nat /\ Fits(save[t])
    BY <1>8 DEF CatalogInv, Catalog!TypeOK
  <2>2. \A v \in Catalog!Saved : flow[v].version <= flow'[v].version
    BY <1>2, <1>3 DEF Catalog!Saved
  <2>3. save[t].pc \in {"search", "write"} /\ save[t].target # None =>
          save[t].target \in Catalog!Saved' /\ save[t].version <= flow'[save[t].target].version
    <3> SUFFICES ASSUME save[t].pc \in {"search", "write"}, save[t].target # None
                 PROVE  save[t].target \in Catalog!Saved' /\ save[t].version <= flow'[save[t].target].version
      OBVIOUS
    <3>1. save[t].target \in Catalog!Saved /\ save[t].version <= flow[save[t].target].version
      BY <2>1 DEF Fits
    <3>2. save[t].target \in Workflows
      BY <3>1 DEF Catalog!Saved
    <3>3. flow'[save[t].target].version \in Nat
      BY <3>2, <1>2, <1>3
    <3> QED
      BY <3>1, <3>2, <3>3, <2>1, <2>2, <1>3, <1>4
  <2>4. save[t].pc = "write" /\ save[t].slug = None /\ save[t].version = flow'[save[t].target].version =>
          save[t].name = flow'[save[t].target].name
    <3> SUFFICES ASSUME save[t].pc = "write", save[t].slug = None,
                        save[t].version = flow'[save[t].target].version
                 PROVE  save[t].name = flow'[save[t].target].name
      OBVIOUS
    <3>1. /\ save[t].target \in Catalog!Saved /\ save[t].version <= flow[save[t].target].version
          /\ save[t].version = flow[save[t].target].version => save[t].name = flow[save[t].target].name
      BY <2>1 DEF Fits
    <3>2. save[t].target \in Workflows
      BY <3>1 DEF Catalog!Saved
    <3>3. save[t].target # w
      BY <3>1, <3>2, <1>2, <1>3
    <3> QED
      BY <3>1, <3>2, <3>3, <1>2
  <2> QED
    BY <2>1, <2>3, <2>4 DEF Fits
<1>9. save'[r] = s /\ \A t \in Saves : Fits(save[t])'
  BY <1>7, <1>8 DEF CatalogInv, Catalog!TypeOK, Fits
<1> QED
  BY <1>1, <1>5, <1>6, <1>9 DEF CatalogInv

LEMMA WriteWorkflowKeeps ==
  ASSUME CatalogInv, NEW r \in Saves, Catalog!WriteWorkflow(r) PROVE CatalogInv'
<1> DEFINE o == save[r]
           w == o.target
           slug == IF o.slug = None THEN flow[w].slug ELSE o.slug
           Ends(pc) == [pc |-> pc, target |-> w, name |-> o.name, slug |-> o.slug,
                        place |-> o.place, version |-> o.version]
<1>1. o \in Locals /\ Fits(o) /\ o.pc = "write"
  BY LocalsOf DEF Catalog!WriteWorkflow, Catalog!At
<1>2. /\ o.name \in Names /\ o.version \in Nat /\ w \in Workflows \cup {None}
      /\ w # None => w \in Catalog!Saved /\ w \in Workflows
      /\ o.slug # None => o.slug.of = o.name /\ o.slug \in Catalog!Slugs
      /\ o.slug = None => w # None /\ (o.version = flow[w].version => o.name = flow[w].name)
  BY <1>1 DEF Fits, Locals
<1>3. /\ slug \in Catalog!Slugs
      /\ o.slug = None => slug = flow[w].slug
      /\ o.slug # None => slug = o.slug
  BY <1>2 DEF CatalogInv, RowsAreNamed
<1>4. \A pc : Catalog!Goto(r, pc) => save' = [save EXCEPT ![r] = Ends(pc)]
  BY LocalsOf DEF Catalog!Goto
<1>5. \/ Catalog!TakenBy(slug) \ {w} # {} /\ Catalog!Goto(r, "refused") /\ UNCHANGED <<flow, overlapped>>
      \/ /\ Catalog!TakenBy(slug) = {} /\ w = None /\ Catalog!Insert(o.name, slug)
         /\ Catalog!Goto(r, "done") /\ UNCHANGED overlapped
      \/ /\ Catalog!TakenBy(slug) \subseteq {w} /\ w # None
         /\ flow' = [flow EXCEPT ![w] = [name |-> o.name, slug |-> slug, version |-> @.version + 1]]
         /\ overlapped' = (IF flow[w].version = o.version THEN overlapped ELSE overlapped \cup {w})
         /\ Catalog!Goto(r, "done")
  BY DEF Catalog!WriteWorkflow
<1>6. Ends("done") \in Locals /\ Fits(Ends("done")) /\ Ends("done").pc = "done"
  BY <1>1 DEF Locals, Fits
<1>7. Ends("refused") \in Locals /\ (w # None => o.slug # None) => Fits(Ends("refused"))
  BY <1>1 DEF Locals, Fits
<1>8. Ends("refused") \in Locals
  BY <1>1 DEF Locals
<1> HIDE DEF slug, Ends
<1>9. CASE Catalog!TakenBy(slug) \ {w} # {} /\ Catalog!Goto(r, "refused") /\ UNCHANGED <<flow, overlapped>>
  <2>1. w # None => o.slug # None
    BY <1>2, <1>3, <1>9 DEF CatalogInv, SlugsAreUnique, Catalog!TakenBy
  <2> QED
    BY <2>1, <1>4, <1>7, <1>8, <1>9, LocalsKeep
<1>10. CASE /\ Catalog!TakenBy(slug) = {} /\ w = None /\ Catalog!Insert(o.name, slug)
            /\ Catalog!Goto(r, "done") /\ UNCHANGED overlapped
  <2>1. Catalog!Suits(o.name, slug)
    BY <1>2, <1>3, <1>10 DEF Catalog!Suits
  <2>2. PICK v \in Workflows \ Catalog!Saved :
          flow' = [flow EXCEPT ![v] = [name |-> o.name, slug |-> slug, version |-> 1]]
    BY <1>10 DEF Catalog!Insert
  <2>3. 1 = flow[v].version + 1
    BY DEF Catalog!Saved, CatalogInv, Catalog!TypeOK
  <2>4. overlapped \subseteq Workflows
    BY DEF CatalogInv, Catalog!TypeOK
  <2> QED
    BY <1>2, <1>3, <1>4, <1>6, <1>10, <2>1, <2>2, <2>3, <2>4, RowKeeps
<1>11. CASE /\ Catalog!TakenBy(slug) \subseteq {w} /\ w # None
            /\ flow' = [flow EXCEPT ![w] = [name |-> o.name, slug |-> slug, version |-> @.version + 1]]
            /\ overlapped' = (IF flow[w].version = o.version THEN overlapped ELSE overlapped \cup {w})
            /\ Catalog!Goto(r, "done")
  <2>1. w \in Catalog!Saved /\ w \in Workflows /\ flow[w].version + 1 \in Nat
    BY <1>2, <1>11 DEF CatalogInv, Catalog!TypeOK
  <2>2. overlapped \subseteq overlapped' /\ overlapped' \subseteq Workflows
    BY <1>11, <2>1 DEF CatalogInv, Catalog!TypeOK
  <2>3. w \notin overlapped' => Catalog!Suits(o.name, slug)
    <3>1. CASE o.slug # None
      BY <1>2, <1>3, <3>1 DEF Catalog!Suits
    <3>2. CASE o.slug = None
      BY <1>2, <1>3, <1>11, <2>1, <3>2 DEF CatalogInv, RowsAreNamed
    <3> QED
      BY <3>1, <3>2
  <2> DEFINE version == flow[w].version + 1
  <2>4. flow' = [flow EXCEPT ![w] = [name |-> o.name, slug |-> slug, version |-> version]]
    BY <1>11
  <2>5. save' = [save EXCEPT ![r] = Ends("done")]
    BY <1>4, <1>11
  <2>6. version \in Nat /\ version = flow[w].version + 1
    BY <2>1
  <2>7. w \in Workflows /\ o.name \in Names /\ Catalog!TakenBy(slug) \subseteq {w}
    BY <1>2, <1>11
  <2>8. Ends("done") \in Locals /\ Fits(Ends("done")) /\ Ends("done").pc \in {"done", "template"}
    BY <1>6
  <2>9. slug \in Catalog!Slugs
    BY <1>3
  <2> HIDE DEF version, w, o
  <2> QED
    BY <2>2, <2>3, <2>4, <2>5, <2>6, <2>7, <2>8, <2>9, RowKeeps
<1> QED
  BY <1>5, <1>9, <1>10, <1>11

LEMMA AddTemplateKeeps ==
  ASSUME CatalogInv, NEW r \in Saves, Catalog!AddTemplate(r) PROVE CatalogInv'
<1> DEFINE o == save[r]
           name == Templates[o.place].name
           slug == Templates[o.place].slug
           Goes(pc, place) == [pc |-> pc, target |-> o.target, name |-> o.name, slug |-> o.slug,
                               place |-> place, version |-> o.version]
<1>1. o \in Locals /\ Fits(o) /\ o.pc = "add" /\ UNCHANGED overlapped
  BY LocalsOf DEF Catalog!AddTemplate, Catalog!At
<1>2. o.target = None /\ o.place \in Nat /\ o.place \in 1..Len(Templates)
  BY <1>1, CatalogConstants DEF Fits, Locals
<1>3. Templates[o.place] \in Catalog!Template
  BY <1>2, CatalogConstants
<1>4. /\ name \in Names /\ slug \in Catalog!Slugs
      /\ Templates[o.place] = [name |-> name, slug |-> slug] /\ Catalog!Suits(name, slug)
  BY <1>2, <1>3, CatalogConstants DEF Catalog!Template, Catalog!Suits
<1>5. Goes("refused", o.place) \in Locals /\ Fits(Goes("refused", o.place))
  BY <1>1, <1>2 DEF Locals, Fits
<1>6. /\ Goes("template", o.place + 1) \in Locals /\ Fits(Goes("template", o.place + 1))
      /\ Goes("template", o.place + 1).pc = "template"
  BY <1>1, <1>2 DEF Locals, Fits
<1>7. [o EXCEPT !.pc = "template", !.place = o.place + 1] = Goes("template", o.place + 1)
  <2> DEFINE first == [o EXCEPT !.pc = "template"]
             place == o.place + 1
  <2>1. first = [pc |-> "template", target |-> o.target, name |-> o.name, slug |-> o.slug,
                 place |-> o.place, version |-> o.version]
    BY <1>1 DEF Locals
  <2>2. [o EXCEPT !.pc = "template", !.place = place] = [first EXCEPT !.place = place]
    OBVIOUS
  <2> HIDE DEF first, place
  <2>3. [first EXCEPT !.place = place] = Goes("template", place)
    BY <2>1
  <2> QED
    BY <2>2, <2>3 DEF place
<1>8. Catalog!Goto(r, "refused") => save' = [save EXCEPT ![r] = Goes("refused", o.place)]
  BY LocalsOf DEF Catalog!Goto
<1>9. \/ Catalog!TakenBy(slug) # {} /\ Catalog!Goto(r, "refused") /\ UNCHANGED flow
      \/ /\ Catalog!TakenBy(slug) = {} /\ Catalog!Insert(name, slug)
         /\ save' = [save EXCEPT ![r] = [o EXCEPT !.pc = "template", !.place = o.place + 1]]
  BY DEF Catalog!AddTemplate, CatalogInv, Catalog!TypeOK
<1> HIDE DEF name, slug, Goes
<1>10. CASE Catalog!TakenBy(slug) # {} /\ Catalog!Goto(r, "refused") /\ UNCHANGED flow
  BY <1>1, <1>5, <1>8, <1>10, LocalsKeep
<1>11. CASE /\ Catalog!TakenBy(slug) = {} /\ Catalog!Insert(name, slug)
            /\ save' = [save EXCEPT ![r] = [o EXCEPT !.pc = "template", !.place = o.place + 1]]
  <2>1. PICK v \in Workflows \ Catalog!Saved :
          flow' = [flow EXCEPT ![v] = [name |-> name, slug |-> slug, version |-> 1]]
    BY <1>11 DEF Catalog!Insert
  <2>2. 1 = flow[v].version + 1
    BY DEF Catalog!Saved, CatalogInv, Catalog!TypeOK
  <2>3. overlapped \subseteq Workflows
    BY DEF CatalogInv, Catalog!TypeOK
  <2> QED
    BY <1>1, <1>3, <1>4, <1>6, <1>7, <1>11, <2>1, <2>2, <2>3, RowKeeps
<1> QED
  BY <1>9, <1>10, <1>11

LEMMA CatalogStepInv == CatalogInv /\ [Catalog!Next]_(Catalog!vars) => CatalogInv'
<1> SUFFICES ASSUME CatalogInv, [Catalog!Next]_(Catalog!vars) PROVE CatalogInv'
  OBVIOUS
<1>1. CASE Catalog!Next
  BY <1>1, CreateKeeps, UpdateKeeps, BootstrapKeeps, SearchSlugKeeps, WriteWorkflowKeeps,
     FindTemplateKeeps, AddTemplateKeeps DEF Catalog!Next
<1>2. CASE UNCHANGED Catalog!vars
  BY <1>2 DEF Catalog!vars, CatalogInv, Catalog!TypeOK, RowsAreNamed, SlugsAreUnique, Fits, Catalog!Saved
<1> QED
  BY <1>1, <1>2

\* The inductive invariant of WorkflowCatalog.
THEOREM CatalogInvariance == Catalog!Spec => []CatalogInv
BY CatalogInitInv, CatalogStepInv, PTL DEF Catalog!Spec

\* However many requests create, update and bootstrap workflows (workflows.service.ts),
\* no two have the same slug, and each is made from the name of its workflow, or is
\* with it that of a template, unless two updates of it have overlapped.
THEOREM SlugsFollow == Catalog!Spec => []SlugsFollowNames
<1>1. CatalogInv => SlugsFollowNames
  <2> SUFFICES ASSUME CatalogInv PROVE SlugsFollowNames
    OBVIOUS
  <2>1. \A w \in Catalog!Saved \ overlapped : Catalog!Suits(flow[w].name, flow[w].slug)
    BY DEF CatalogInv, RowsAreNamed, Catalog!Saved
  <2>2. \A v, w \in Catalog!Saved : flow[v].slug = flow[w].slug => v = w
    BY DEF CatalogInv, SlugsAreUnique
  <2>3. \A r \in Saves : Catalog!At(r, "refused") /\ save[r].target # None => save[r].slug # None
    BY DEF CatalogInv, Fits, Catalog!At
  <2> QED
    BY <2>1, <2>2, <2>3 DEF SlugsFollowNames, Catalog!SlugsFollowNames
<1> QED
  BY <1>1, CatalogInvariance, PTL

-----------------------------------------------------------------------------
(***************************************************************************)
(* SideBySide: what moves is one component, and the others do not.         *)
(***************************************************************************)

LEMMA EachMoves ==
  [SideNext]_sideVars =>
    /\ [Persona!Next]_(Persona!vars) /\ [Picobot!Next]_(Picobot!vars)
    /\ [Links!Next]_(Links!vars) /\ [Catalog!Next]_(Catalog!vars) /\ [StoreNext]_storeVars
<1> USE DEF personaVars, picobotVars, linksVars, catalogVars, storeVars,
            Persona!vars, Picobot!vars, Links!vars, Catalog!vars
<1> SUFFICES ASSUME [SideNext]_sideVars
             PROVE  /\ [Persona!Next]_(Persona!vars) /\ [Picobot!Next]_(Picobot!vars)
                    /\ [Links!Next]_(Links!vars) /\ [Catalog!Next]_(Catalog!vars)
                    /\ [StoreNext]_storeVars
  OBVIOUS
<1>1. CASE PersonaStep
  BY <1>1 DEF PersonaStep
<1>2. CASE StoreStep
  BY <1>2 DEF StoreStep
<1>3. CASE PicobotStep
  BY <1>3 DEF PicobotStep
<1>4. CASE LinksStep
  BY <1>4 DEF LinksStep
<1>5. CASE CatalogStep
  BY <1>5 DEF CatalogStep
<1>6. CASE UNCHANGED sideVars
  BY <1>6 DEF sideVars
<1> QED
  BY <1>1, <1>2, <1>3, <1>4, <1>5, <1>6 DEF SideNext

\* Every behaviour of SideBySide is a behaviour of each of its components.
THEOREM SideImplementsEach ==
  SideSpec => Persona!Spec /\ Picobot!Spec /\ Links!Spec /\ Catalog!Spec /\ StoreSpec
<1>1. SideInit => Persona!Init /\ Picobot!Init /\ Links!Init /\ Catalog!Init /\ StoreInit
  BY DEF SideInit
<1> QED
  BY <1>1, EachMoves, PTL
     DEF SideSpec, Persona!Spec, Picobot!Spec, Links!Spec, Catalog!Spec, StoreSpec

\* So what is proved of the components is true of SideBySide.
THEOREM SideBySideIsSafe ==
  SideSpec => [](HistoryIsWhole /\ CommandsRunOnce /\ TokensAreOfMembers /\ SlugsFollowNames)
BY SideImplementsEach, PersonaWhole, CommandsOnce, TokensOfMembers, SlugsFollow, PTL
=============================================================================
