# A verification project for soothsayer

soothsayer is a workspace for delegating engineering work to AI agents: a NestJS
API (`apps/api`), a React client (`apps/web`), a BullMQ worker (`apps/worker`), and a
Python policy kernel that runs tools under governance (`workspace-mcp`). The work
itself is done elsewhere: by the DAX engine, by language-model providers and by the
tools of the kernel. This directory holds TLA+ models of the parts in which order,
failure and sharing matter, TLC configurations that check them on small instances,
and TLAPS proofs of what holds for every instance.

## 1. The system

| Part | State | Operations | Talks to | What is hard |
|---|---|---|---|---|
| MCP tool calls, `modules/mcp` | in-flight counter, queue of waiting calls, one child process per call; jobs in Redis | callAllowedTool, callAllowedToolSmart, the timers, output and exit of the child | kernel process (stdin/stdout), job queue | three ways to settle one promise, a queue with time-outs, a child that lies, hangs or dies, jobs that run again |
| Job worker, `apps/worker` | jobs, one child process per job | run a tool, retry, shut down | Redis, kernel process | work done twice after a stall, a shutdown between two steps |
| Workflow runs, `modules/workflows` | rows of workflows, runs and step runs | run (inline, minutes long), create, update, templates | DAX over HTTP, Postgres | failure and crash between any two writes, polling a remote state machine, shared counters, slugs looked up before they are written |
| DAX gateway, `modules/dax` | none | create, read, approve, stream runs | DAX | time-outs, a stream that breaks off |
| Run console, `useRunConsole` | snapshot, approvals, events, cursor | load, stream, reconnect, recover, approve | DAX through the API | answers out of order, replayed events, reconnection |
| Sessions, `modules/auth`, and tokens, `lib/api.ts` | session and user rows; tokens in local storage | login, refresh, logout, reset; send, retry, sign out | Postgres | look up, then rotate; several tabs with one pair of tokens; lost answers |
| Command execution, `modules/commands`, and the terminal page | one child process, output buffers, a row or a stream | execute, stream, abort | shell | time-out, limit, abort, error and close race |
| Chat, `modules/chat`, and the chat page | conversations, messages; what the page shows | sendMessage, load, retry, link to a run | providers, DAX | three parties with a record each, loads that are late, partial failure |
| Personas, `modules/personas` | a row, a record of its versions | create, clone, import, update, rollback, delete | Postgres | read, write and record without a transaction |
| Picobot commands, `modules/picobot`, and its page | command rows, what the page shows | overview, execute | DAX, Postgres | a button that comes back too early, a run that is made and not recorded |
| Integrations, `modules/integrations` | one row per provider, signed links | connect, call back, bring a token, disconnect | third parties | a link or a request that outlives a membership |
| Kernel: Governor, runs, bundles, `workspace-mcp` | four bounded stores | decide, log, start/end/summarise a run, bundle, report, explain | - | expiry and eviction between calls, ownership, figures kept apart from logs |
| Kernel: store | ordered entries with a time stamp | set, get, delete | - | eviction order |
| Kernel: tools on files, configuration | files | read, search, patch; load policy | file system | file input and output |
| Websocket gateway | sockets of each user, rooms | connect, disconnect, join, emit | Redis adapter | no client in the repository opens a socket |
| The rest (tools, projects, users, files, notifications, policies, analytics, ...) | single rows or none | reads and single writes | Postgres | little of it over time |

How they interact: the client calls the API over HTTP and reads server-sent events; the
API calls DAX over HTTP and polls it; the API and the worker each start a *new* kernel
process for every tool call, so that a kernel's stores live as long as one call when it is
reached this way, and as long as the session when an MCP client holds the kernel open.
Postgres, Redis and the local storage of the browser are all that survives a restart.
`PROJECT.json` lists the hazards at the lines where they bite, each with the properties
that are about it.

## 2. Modules

| Module | Models | Source |
|---|---|---|
| `McpCalls` | limiter, queue and child processes of tool calls | `modules/mcp/mcp.service.ts` |
| `McpJobs` | the same calls through the job queue, and the worker | `mcp.service.ts`, `apps/worker/src/main.ts` |
| `RunLifecycle` | what a reader of workflow-run rows may rely on (abstract) | |
| `WorkflowRuns` | `run`, `executeDaxRunStep`, `waitForDaxTerminal` | `modules/workflows/workflows.service.ts` |
| `WorkflowCatalog` | names and slugs of workflows, templates | the same file |
| `RunConsole` | the console of a run in the browser | `hooks/useRunConsole.ts`, `lib/dax-run.ts`, `lib/api.ts`, `modules/dax` |
| `SignIn` | sessions, and the tokens of the browser's tabs | `modules/auth/auth.service.ts`, `lib/api.ts`, `auth.store.ts` |
| `Commands` | streamed commands and recorded executions | `modules/commands`, `TerminalPage.tsx`, `lib/api.ts` |
| `Chat` | chat page, conversations and the runs of questions | `modules/chat`, `ChatPage.tsx` |
| `Personas` | a persona and the record of its versions | `modules/personas/personas.service.ts` |
| `PicobotCommands` | overview and execution of commands | `modules/picobot`, `PicobotPage.tsx` |
| `Connections` | links, tokens and connections of a workspace | `modules/integrations`, `modules/workspaces` |
| `BoundedStore`, `StoreHistory` | the store as operators on a sequence; one store under any calls, next to an ideal history | `workspace-mcp/.../store.py` |
| `WorkspaceKernel` | Governor, run lifecycle, bundles, explanations over four stores | `workspace-mcp/.../governor.py`, `tools/` |
| `SideBySide` | five components that share nothing, for one run | |
| `MC*` | the values of the constants for TLC | |
| `McpCallsProofs`, `WorkflowRunsProofs`, `RunConsoleProofs`, `SignInProofs`, `CommandsProofs`, `ChatProofs` | the proofs about the module of that name | |
| `WorkspaceKernelProofs` | the proofs about the store (`BoundedStore`, `StoreHistory`) and the kernel | |
| `SideBySideProofs` | the proofs about the components of `SideBySide` but the store, about `SideBySide` itself, and about `McpJobs` | |

In every module an action is one callback or one continuation of an `await` with
everything it does before the event loop turns, or one call of the single-threaded
kernel. Data is abstracted to what the properties tell apart; texts, logs, durations and
layout are left out.

**McpCalls.** `Settle` is `finishOk`/`finishError` *and* the `finally` of `startCall` *and*
the loop of `drainQueue`. `call[c]` is the caller's promise, `proc[c]` the child with the
locals `initialized`, `settled` (it is `call[c] # "running"`) and the timer; `queue`,
`inflight`, `counter` are the fields of the service. The child is external: it answers each
request rightly, with an error or with nothing useful, or exits with any code at any time.

**McpJobs.** `job[j]` is the job in Redis, `work[j]` what the worker's process does with it,
`caller[j]` what `waitForToolJobResult` has told. BullMQ is external and modelled by what the
code configures and relies on: attempts with back-off, stalled jobs, the last completed jobs and
the last failed ones kept (`removed` has the others; which one goes is a choice). The status of
a job is read in two steps, `GetJob` and `GetState`: what the first fetches carries the result that
there is by then (`seen`), and the state that the second asks for may be a later one.
`RunTool` abstracts `runMcpToolCall` to its outcomes, which `McpCalls` has in detail.

**WorkflowRuns.** `pc` names the call that a run makes next. `row`, `stepRow`, `recorded` (the
DAX run id on the step's row) and `linked` (the DAX runs in the run's metadata) are what
Postgres holds, `dax` what the engine holds. A write that fails is one that has not happened.
The statuses `created` and `queued` of DAX are not told apart from `running`, which the code
maps them to. `RunLifecycle` hides the engine, the polling and the counters; `Lifecycle` in
`WorkflowRuns` is the refinement mapping.

**RunConsole.** `log` is what has happened to the run in the engine; a read, when it is
answered, gives the state at some point between its request and its answer. `stream` is
where the loop of the hook is, `next` the event that the stream delivers next, `cursor` the
one it would resume at. A failed run is treated as a completed one.

**SignIn.** Tokens are numbers: pair `n` is the n-th that was issued, `pairs[n]` its session.
The tabs of a browser share its local storage; every call has a place in the interceptors of
the client or in the API, and of a call that is over remains which token it has exchanged for
which. `beside` remembers the calls of the same page that were refreshing the same token at the same
time. Upsets are queries and requests of a refresh that fail, lost answers, sessions that lapse,
logouts, the demo account of the login page, reloads and requests for a reset link. One user with an
active account; registration and the bypass for development are left out.

**Commands.** `at` is where the API is with each run, `child` its shell, `pipe` whether any
process still holds the ends the shell writes to, `wire` the events on their way to the page.
Output is counted in bytes. An execution has a row (`execute`, which `Create` begins) or none
(`executeTerminal`, `Ask`); an update of the row may fail (`UpdateFails`, at most `MaxFailures`
times), and the execution then throws. A crash of the API leaves its shells alone, and what becomes
of them then is not followed. The models show what the code makes of five things that are easily
missed: `close` waits for the pipes, so that the timer, which kills the shell alone, does not
bound a run whose descendants keep them (the exception in `RunsEnd`); a request that
closes before its listener is set is not noticed (`late`), be it because the page has left or, on
platforms that close a request once its body is read, in any case (`RequestCloses`); a spawn
error of an execution without a stream has no listener and ends the process
(`SpawnErrorUnhandled`); a refused command leaves `running` behind, on the page and in the row
(`at[r] = "refused"` in `RunningIsMinded`); and so does an update that fails (`"unsaved"`).

**Chat.** `rows` are the messages in Postgres, `shown` those on the page, `runs` those of the
engine, `loads` the loads of the page, which nothing calls off when the user moves on. What a
list of messages says is the set of its messages with their places, a message that is asked
again right after itself having the same place.
Whether a question reads as a greeting, as conversation or as work is a choice. Creating a
conversation, storing the question, finding a reply and storing it may each fail, and an
answer may be lost although the request took effect. A question that a direct provider did not
answer is asked again in DAX mode and is then stored again. `slip` is the last of the events
that set page and conversation apart, if one has happened since the last load that was up to date;
`PageShowsConversation` lists them. `RepliesFollowQuestions` makes no such exception.

**Personas.** `row` is the persona, `record` its versions, under their unique index. A
configuration is the set of requests whose fields it holds, so that a lost edit shows.

**PicobotCommands.** `row` is the command in Postgres, `made` the runs of the engine, `load` an
overview under way, `shown` and `executing` the state of the page. `after` remembers whose runs
the rows named when a button was pressed.

**Connections.** `links` are the states that were signed; the callback goes by them alone, as
it is served without a sign-in. Whoever calls back brings any content of a state, and only one that
was signed passes. A link is asked for and signed in two steps (`GetConnectUrl`, `SignState`), with
the await of the membership in between. Users are added and removed at any time; `standing`
remembers when a user was last a member, or waiting for a link asked for as one. A token is named by the request that
brought it. What the providers answer is a choice between a token and a failure.

**WorkflowCatalog.** A slug is the name it was made from and a number; a template has one of its own,
which need not be that of its name (`repo-intelligence` for Repository Intelligence). The editor saves the name
with everything else, so an update always carries one; the check for a free slug and the write are
two actions, and the unique index has the last word.

**BoundedStore, StoreHistory.** The `OrderedDict` is the sequence of its entries,
oldest first. `Pick` takes the entries at some places of a sequence, in their order, by a
definition without recursion, so that the store can be reasoned about. `StoreHistory` keeps beside the store the history of its use (`used`:
what the store would be without limits). Time is a counter that does not run back, which
`time.time()` does not promise.

**WorkspaceKernel.** The server handles one call at a time; time passes between calls. The
answer of the policy for a path or task is a choice. `ToolNames` are the names that a log may hold. The tools that ask the Governor, read or
run something and complete their log entry are one action `Call`; the duration in the entry is
left out, and with it the second write of the entry. Run ids are random, so a call names a run
that was started, an unknown one (0) or none. `reply` is the answer to the last call; only the
properties read it.

## 3. Runs

| Run | Instance | Shows |
|---|---|---|
| `McpCalls` | 4 calls, all allowed, 1 slot, 2 queue places; at most three get as far as a process | `SlotAccounting`, `QueueDiscipline`, `EffectsMatchOutcomes`, `ProcessesAreMinded`, `NoOvertaking`, `SettledForGood` |
| `McpCallsLive` | 3 calls, one of them of a tool that is not allowed, 1 slot, 1 queue place | `EveryCallAnswered` |
| `McpJobs` | 2 jobs, 1 place in the worker, 2 attempts, 1 stall, 2 crashes, 1 kept result, 1 kept failure | `RunsBounded`, `AnswersAreTrue`, `JobsSettle` |
| `WorkflowRuns` | 2 runs, 2 delegated steps, 1 database failure, 1 crash | `StepsInOrder`, `CompletedIsComplete`, `CountersMatchRows`, `RowsShowLastPoll`, `NoSilentDelegation` |
| `WorkflowRunsHealthy` | 1 run, steps delegated/local/delegated, 1 crash | `RunsSettle`, and that the rows implement `RunLifecycle` |
| `RunConsole` | 2 events, 2 background reads, 1 reconnection, requests fail | `EndIsTrue`, `EndIsNoticed` |
| `RunConsoleStale` | the same, but no request fails | `ApprovalsReachUser` does **not** hold |
| `SignIn` | 2 tabs, 3 calls, 2 uses of reset links, 1 upset | `SignedOutForAReason`, `EndedForGood`, `CallsSettle` |
| `Commands` | 1 streamed command, 1 recorded execution, limit 1, 2 bytes per pipe, 1 crash, 1 failing update | `ResultIsTrue`, `RunningIsMinded`, `LeavingStopsCommands`, `RunsEnd` |
| `Chat` | 2 conversations, 2 questions, 2 loads of 3 messages, 1 failure | `PageShowsConversation`, `RepliesFollowQuestions`, `RunsAreAccountedFor` |
| `Kernel` | 2 owners and nobody, 1 run, 3 calls, 1 diff, 1 explanation, stores of one entry, ttl 1, 2 ticks | `FiguresMatchLog`, `OnlyOwnersSucceed`, `EndedRunsAreFrozen`, `BundlesKeepTheirOwner` |
| `SideBySide` | one at a time: 4 requests on a persona with 1 failure; 3 keys, 2 values, 2 places, ttl 2, 4 ticks of a store; 2 Picobot commands, 3 presses, 2 overviews; 2 users, 2 providers, 2 calls, links that live 1 tick, 3 ticks; 3 workflows, 3 names, 2 templates, 3 requests, 2 attempts at a slug | `HistoryIsWhole`; `AgreesWithUse`, `Retained`, `ExpiredNeverServed`; `CommandsRunOnce`; `TokensAreOfMembers`; `SlugsFollowNames` |

`CHECK_DEADLOCK FALSE` is said everywhere because every model stops when its calls are used
up. The runs leave out the type invariants, which are all proved (section 5), and hold on the
same instances when they are added to the invariants of the run.
Every property of a passing run has a mutant of the code in `PROJECT.json` that breaks it; the
mutants stand in the modules, next to what they change, and are part of no specification.

`SideBySide` is not a composition. Its five components share no state, and each is small; the
initial state says which one a behaviour is about, the others keep their initial state, so
that the run has the states of the five one after the other. Each component is a module of
its own, and can be checked alone. `SideImplementsEach` proves that a behaviour of the sum is one of
each component, so nothing is checked here that is not a behaviour of the parts.

Why the bounds are enough.
*McpCalls*: with one slot and two queue places, three calls make the queue full and
reorderable, and the fourth is turned away or takes the place of one that timed out. A
fourth process would add states and no new situation: the slots do not tell calls apart. The
theorems cover every size.
*McpJobs*: two jobs compete for one place; each can fail once and be tried again, stall once
and be taken back, and the second crash hits a job that has already stalled. One kept result
makes the first one disappear when the second is there, and so does one kept failure. The two
safety facts are proved for every size.
*WorkflowRuns*: two runs share the counters, two delegated steps are needed for the metadata to
be replaced; one failure and one crash hit every await.
*RunConsole*: two events are an approval and its decision, or something and the end; two
reads can overtake each other and the stream; one reconnection is used up by the second break.
*SignIn*: three calls are a login and two that refresh at once or one after the other, from one tab
or two; one upset is enough for each of the reasons for which a user may be signed out.
*Commands*: one byte of limit and two to write is output that is not cut, cut at the limit, and
cut after it, on each of two pipes. Two streams of one page never run at a time.
*Chat*: two conversations are the one that was left and the one that was opened; two questions
with their retries make four requests; a load of three messages does not show the fourth; one
failure happens at each of the places where one can. The
runs of the engine move only while the API waits for them, which is when anybody looks.
*Kernel*: three calls start a run, use it and end it, or come back after it; one place per
store makes each new entry evict; two ticks are what an entry needs to expire.
*SideBySide*: four requests create a persona, edit it twice at once and once more; three presses
are two that race and one that comes later, two overviews one that is late; two calls are a link and
the callback that uses it, and three ticks let its user leave before it is signed and pass its
life; one template of two has the slug of a third name; three keys over two places evict, and four ticks let an entry expire twice; three
requests create a workflow and then update it twice at once.

What the models say about the code, beyond the properties:

* `ApprovalsReachUser`, the one finding with a run: `docs/DAX_RUN_CONSOLE_RUNTIME.md` says that
  approvals are those of DAX's records, but `refreshApprovals` keeps whichever answer comes
  last. A list that was asked for before an approval, and answered after it was shown, hides it
  until another event makes the console ask again.
* A failing step: `docs/NON_DEV_WORKFLOWS_EXPLAINED.md` (line 77) tells the user of a failed run
  to identify the failing step, but the catch block of `run` marks only the run. A step without
  input, a lost connection or the deadline leave its row at `running`.
* A failing counter update after a run has completed turns its row to `failed` (which is why
  `RowLifecycle` is checked without database failures).
* A child of a tool call that exits with code 0 before it has answered leaves its caller waiting
  and its slot, or its place in the worker, taken for ever (the exceptions in
  `EveryCallAnswered` and `JobsSettle`).
* `store.py` (line 22) calls the overflow FIFO; a `get` renews the place of an entry, so it is
  the least recently used one that goes.
* `workspace-mcp/README.md` (line 28) promises owner-scoped access; a call that names a run but no
  owner is blocked, and then counted in that run's tool sequence and blocked calls.
* `explain_policy_decision` says of every `error` decision that the action passed all policy
  checks; its texts for `RUN_NOT_FOUND` are never reached.
* The README (line 127) and `docs/USER_ADOPTION_GUIDE.md` (line 14) give an inline answer and a
  link to a run as the two outcomes of a chat; when the question reads as conversation and the run
  is not over in time, the answer is a fixed text and the run goes on unlinked (`kept` in
  `RunsAreAccountedFor`).
* `getToolJobStatus` fetches the job, asks for its state afterwards and gives the result of the job as
  fetched. A job that is completed in between is reported as completed with no result (`"empty"`, which
  `AnswersAreTrue` allows); TLC shows it in six steps when `caller[j] # "empty"` is added to the
  invariants of `McpJobs`. The test of the path mocks a job that is completed from the beginning.
* Two tabs sign their user out without any race: no tab tells the others of its new tokens, so the
  second to refresh presents a token that the first has exchanged, and its forced sign-out empties the
  local storage of both (`Exchanged` in `SignedOutForAReason`). Two refreshes of one page that
  overlap can leave the session with a token that the page does not hold: both find the session, the
  second rotation stands, and the store keeps the answer that arrives last. And any failure of a
  refresh, of the database or the network, signs the user out although the session lives on.
* A failing update leaves the row of an execution at `pending` or `running` for ever
  (`"unsaved"` in `RunningIsMinded`): `execute` has no catch, and nothing looks for such rows later.
* A load of a conversation that fails leaves the messages of the one that was open before on the
  page, and what is sent next goes to the other (`unloaded`).
* A load and a send overlap freely: the load of a conversation that was just created
  may take the question from the page, or show the reply that is then appended again (`stale`).
  A retry after a lost answer stores the question twice, and may have it answered twice (`lost`).
* A reply that cannot be stored takes the link to its run with it: the run goes on unlinked (the last
  exception in `RunsAreAccountedFor`).
* Two overlapping edits of a persona lose one of them and end the later recording with an error,
  after the row was written (`HistoryIsWhole` says that it takes such an error).
* The page of Picobot links to the run of a command if the overview has its `daxRunId`, but
  `getCommands` does not select that column: the link never shows.

## 4. Fairness

`McpCalls`: weak fairness of the two timers, of reading a line that is there and of the
close event, which are what the event loop delivers; none of the child or the callers.
`McpJobs`: weak fairness of what the worker and Redis do by themselves (settling a process that
ends or times out, ending a back-off, restarting, exiting when nothing is active), and strong
fairness of taking a job and of finding it stalled, which a crash can disable again and again; at
most `MaxCrashes` crashes. `WorkflowRuns`: weak fairness of the code of each run (every awaited
call is answered, a request to DAX by its time-out) and of the passing of the deadline; none of
the engine. `RunConsole`: weak fairness of the loop, of one answer or time-out after another for
the snapshots and for the approvals, and of the engine closing the stream of a run that has
ended; none of its events, of connections that break, or of the user. `SignIn`: weak fairness of
every call's steps in client and API, none of upsets, logins or pages. `Commands`: weak fairness
of the callbacks of each run, its timer and the page's reader; none of the shell, which may run
for ever or leave something behind. `Chat`, the kernel and the components of `SideBySide` have
safety properties only.

## 5. Proofs

All theorems are about the specification for every value of the constants, under the named
assumptions of the module: those on limits are what the code's configuration allows (limits are
natural numbers, stores and searches for a slug have at least one place to try, allowlists are
subsets of the tools), the others say that bounds of the model are natural numbers and that the
values for nobody, no run and none are not users, runs or times. Each follows from an inductive invariant, proved for the
initial states and for each action in a lemma of its own. The bounds of TLC (`MaxCrashes`,
`MaxFailures`, ...) are constants like the others: a theorem holds for all of them.

**McpCallsProofs**: `SlotsBounded`, `QueueCorrect`, `OutcomesFinal`, `FirstComeFirstServed` from

    IInv == TypeOK /\ SlotAccounting /\ QueueDiscipline /\ TicketOrder

`SlotAccounting` is not inductive alone: when a slot is released and the queue drained, the
count stays right only because the queue holds waiting calls, each once, and because a
call waits only when all slots are taken, so that one release starts at most one call.
`TicketOrder` (the queue is sorted by ticket) is what the order of starting follows from.
`NoFalseAnswers` and `NoStrayProcesses` come from a second invariant, `PInv`, about each call's
process, its timer and the lines that are still in its pipe: a result in the pipe is that of a
tool that has run. The library facts on finite sets are cited; what is needed about sequences
(splicing out, dropping the first, appending) is proved in the module.

**WorkflowRunsProofs**: `Order`, `Completeness`, `PollsAreShown`, `Delegation`, `Counters`, and, with
`MaxDbFailures = 0`, `Refinement`: the rows implement `RunLifecycle`. The invariant is

    IInv == TypeOK /\ \A r \in Runs : RunInv(r)
    RunInv(r) == LoopInv(r) /\ StepsInv(r) /\ SeenInv(r) /\ RowInv(r) /\ DelegationInv(r)

None of the properties is inductive alone: that a completed row has completed steps depends on
where the loop was at each await before. `RunInv` says it place by place. One lemma per action
shows that the run's own step keeps it, and `OthersSame` with `SameKeeps` that it keeps that of
the other runs. For `Refinement`, `OneMoreDone` shows that a step that completes a part adds one
to the number of completed steps, and `RunStepRefines` maps each action to one of `RunLifecycle`
or to a stutter; `CloseStep` is a stutter because `MirrorStep` has already written its status.

**RunConsoleProofs**: `EndTrue`. The end is the last event of a run; hence an answer or an event that
tells of it, however late, tells what the engine would say now. The rest of the invariant says
which reads can be there while the loop waits, so that at most one of them moves it on.

**SignInProofs**: `Ended` from `EInv` (sessions are numbered anew, so what has ended cannot come back
by a rotation, which needs its row), and `SignedOut` from

    SInv == BInv /\ ServerInv /\ (\A c \in Calls : RefMatches(c)) /\ SignedOutForAReason

`ServerInv` accounts for every pair of tokens that its session no longer accepts: a call that remembers
it has exchanged it, or a refresh that had found the session before has replaced it. `BInv` says
of a page that it has given up a token once it has stored a newer one, and that two of its
calls that refresh one token at a time remember each other (`beside`); a page with no other call beside
its refresh therefore presents a token that no call of its own has exchanged. The attempt to prove that a
user is signed out only when a session is over is what showed the two tabs of section 3.

**CommandsProofs**: `Truthful`, `Minded`, `Left`. What a page shows and what is still on the wire are
related by a *ledger*, a function that gives what the page will show after each event of the wire and
that ends at what the pipes have yielded. An event that is sent extends it and one that is read
moves it on, so that no sum over the wire is needed, and no induction over its length.

**ChatProofs**: three invariants. `Accounted` follows from `IInv`, which says, of every request, what has
become of its run by the time it is there, and of the page, which request it waits for.
`PageIsTrue` follows from `IInv` and

    ShowInv == ShownTyped /\ QuestionsArePosed /\ OnlyAwaited /\ AskedOnce /\ PageInv

`PageShowsConversation` speaks of a page at rest, and what it comes to rest with depends on the way
there. `OnlyAwaited`: as long as nothing has set page and conversation apart (`slip = "none"`),
the only request under way is the one the page waits for, and it belongs to the conversation that
is open. `AskedOnce` and `PageInv`: until its answer is there, page and rows differ by just what
that request has still to do, which is to store the question, or to show the reply; and a load may
have taken the question from the page (`With` puts it back), since the reply will bring it
again. `RepliesFollow` follows from `FollowInv`: the rows, what the loads have read and the page
are all lists in which a reply stands after its question and is one that a request has had. The
comparison `Alike` of two lists carries, next to what they say, the place and the content of their
last message: this is all that an append depends on, so no induction over the lists is needed.

**WorkspaceKernelProofs**, the store: `StoreRetains`, `StoreAgrees` and `StoreExpires` from `StoreInv`.
The lemmas on `Rank` and `Pick` say what is left, and in what order, when some of the entries of a
sequence are kept; those on the operations say what `get`, `set` and `delete` do to a store of any
size. The entries of the store are then among those of the history of its use, *in the same
order*: there is an increasing map of places (`Places`). Without the order the invariant is not
inductive, because the entry that is evicted has to be the one that the history used least
recently. `Kept` says when an entry of the history may be missing: it was deleted, is too old, or
has `MaxSize` younger ones.

The kernel: `OwnersOnly`, `FiguresTrue`, and the action properties `EndedFrozen` and `BundleOwners`,
for every size of the four stores, every time to live and any number of calls, from

    KernelInv == TypeOK /\ NoKeyTwice /\ LogIsOfCalls /\ FiguresMatchLog /\ OnlyOwnersSucceed

That the figures of a run agree with the log takes more than that both are written together: the
log is bounded, and tells all only while it has an entry for every call. That a log which is whole
after a call was whole before it follows from its having at most one entry per call
(`LogIsOfCalls`), and a run that is written must be the only one of its id (`NoKeyTwice`).

**SideBySideProofs**, one part per component.
`JobsBounded`, `JobsAnswers` (`McpJobs`): the invariant accounts for the tries. Every run
of a tool but the one going on has cost its job an attempt or a stall, and none is left when the
last was used up; and it says what a caller knows of its job, also between the two reads of a
status: a job that was fetched with its result is completed and stays so.
`PersonaWhole` (`Personas`): as long as no two requests have written the row with one version and none
has ended with an error, the writers form a chain: there is one of every version up to the row's
own, and each worked on what the one before it wrote. A request that writes a version that is free
therefore writes the next one, and the row is still as it has read it. That no two have written
one version follows at the end from the unique index on the records.
`CommandsOnce` (`PicobotCommands`): a row that names a run does not change any more, so a press that
came after that does not get past the look-up of a pending command.
`TokensOfMembers` (`Connections`): a link ends no later than its life after its user last had standing
(`LinksRunOut`), because a user who waits for one to be signed has standing; so a request that
brings a token began while its user was a member or, coming with a link, no later after that than
a link lives. This is kept for the requests under way and the tokens that are stored.
`SlugsFollow` (`WorkflowCatalog`): a request that writes no new slug has read the name that it writes,
and unless updates have overlapped the row still has it, with a slug that suits it: one made from the
name, or the template's own.
`SideImplementsEach`: every behaviour of `SideBySide` is one of each of its components, so that their
theorems hold of it (`SideBySideIsSafe`).

Type invariants are proved as well: `TypeCorrect` in the modules above, `JobsTypeCorrect`,
`PersonaTypeCorrect`, `StoreTypeCorrect`, `KernelTypeCorrect`; those of `PicobotCommands`,
`Connections` and `WorkflowCatalog` are conjuncts of the invariants of `PicobotInvariance`,
`LinksInvariance` and `CatalogInvariance`.

Model-checked only: the six liveness properties (`EveryCallAnswered`, `JobsSettle`, `RunsSettle`,
`EndIsNoticed`, `CallsSettle`, `RunsEnd`), which are out of the prover's reach. Every invariant and
action property of a passing run is also proved. What `ApprovalsReachUser` says is false, and
TLC shows it.

## 6. Not modelled

Most of the repository's lines are not behaviour over time: pages and components that render what
they are given (the largest part of `apps/web`), seed data, request and response shapes of the
connectors, queries that aggregate, modules that read and write single rows under an access check.
They are listed in `PROJECT.json` with their reasons, and this is why the share of lines that the
map covers stays low. In particular:

* the file tools and the policy loading of the kernel: file input and output, data without
  behaviour over time;
* the websocket gateway: `initializeSocket` has no caller in the client, and nothing emits to the
  rooms but the gateway itself, so what it promises to whom is not in the repository;
* the other queues of the worker, which have no producer, and the helpers of `packages/utils`
  without callers;
* in modules that are modelled in part: registration and the guard of single requests (auth);
  archiving and deleting of conversations and the greeting texts (chat); preferences, ratings,
  usage figures and recommendations of personas; the webhook, the linking of a Telegram user and
  the other figures of the overview (Picobot); the tests and the status of connections, which are
  reads; `updateStatus` and the average duration of workflows;
* everywhere: durations, texts, logs, a write whose answer is lost although it happened (except
  where a module says so), and a clock that is set back.

## 7. What could come next

1. An abstract pool of calls that `McpCalls` and the worker's part of `McpJobs` both implement.
2. A store that promises what `Retained` and `AgreesWithUse` say, as an abstract specification that
   `StoreHistory` implements, so that another kernel can be built over it.
3. Pure operators: the strip levels of a patch, path rules and back-off, against reference
   definitions.
4. The websocket gateway, as soon as a client uses it.
