-------------------------- MODULE WorkspaceKernel --------------------------
(***************************************************************************)
(* The governance kernel of workspace-mcp                                  *)
(* (workspace-mcp/src/workspace_mcp): the Governor, which decides on every *)
(* tool call and logs it, the run lifecycle, the change bundles and the    *)
(* explanation of decisions, over four bounded stores. The server handles  *)
(* one call at a time: an action is one call. Time passes between calls.   *)
(*                                                                         *)
(* A tool logs its call when it is decided on and completes the entry at   *)
(* its end (update_audit): the entry is the same but for its duration,     *)
(* which is left out, and so the two are one here. What the policy says of *)
(* a call's arguments (paths, task name) is a choice.                      *)
(***************************************************************************)
EXTENDS BoundedStore

CONSTANTS
  Owners,        \* owner ids
  Nobody,        \* a call without owner_id
  NoRun,         \* a call without run_id
  Tools,         \* the tools of the calls (self_check, read_file, run_task)
  Diffs,         \* the diffs that bundles are made of
  RunLimits, BundleLimits, AuditLimits,   \* [max, ttl] of the stores
  MaxRuns, MaxCalls, MaxExplained, MaxTime              \* bounds

ASSUME LimitsAssumption ==
  \A lim \in {RunLimits, BundleLimits, AuditLimits} :
    lim.max \in Nat \ {0} /\ lim.ttl \in Nat \ {0}

ASSUME CallersAssumption == Nobody \notin Owners /\ NoRun \notin Nat

ASSUME BoundsAssumption ==
  MaxRuns \in Nat /\ MaxCalls \in Nat /\ MaxExplained \in Nat /\ MaxTime \in Nat

VARIABLES
  guarded,                         \* the profile is ci or strict, until a restart
  runs, bundles, audits, events,   \* the stores
  now,
  issued,                          \* how many runs were started
  calls,                           \* how many calls were logged
  explained,                       \* how many explanations were asked for
  reply                            \* what the last call was and answered

vars == <<guarded, runs, bundles, audits, events, now, issued, calls, explained, reply>>

EventLimits == [max |-> AuditLimits.max * 2, ttl |-> AuditLimits.ttl]

RunIds == 1..issued
Callers == Owners \cup {Nobody}

\* The lifecycle tools are not counted in a run's own figures.
Uncounted == {"start_run", "end_run", "get_run_summary", "kernel_version", "self_check"}
Writes == {"run_task", "create_change_bundle"}   \* risk write or execute

Decisions == {"allowed", "blocked", "error"}
Violations == {"none", "OWNER_ID_REQUIRED", "RUN_NOT_FOUND", "RUN_ALREADY_ENDED",
               "RUN_ID_REQUIRED", "POLICY", "BUNDLE_NOT_FOUND", "AUDIT_NOT_FOUND"}

ToolNames == Tools \cup {"start_run", "end_run", "get_run_summary",
                        "create_change_bundle", "bundle_report"}

RunRecords == [owner : Owners, status : {"active", "ended"},
               tools : Seq(ToolNames), allowed : Nat, blocked : Nat]

\* The entries of the audit and event logs.
LogRecords == [tool : ToolNames, decision : Decisions, violation : Violations,
               run : Nat \cup {NoRun}, owner : Callers]

StoreOf(s, keys, values) == s \in Seq([key : keys, value : values, seen : 0..MaxTime])

TypeOK ==
  /\ StoreOf(runs, RunIds, RunRecords)
  /\ StoreOf(bundles, Diffs, Callers)
  /\ StoreOf(audits, 1..calls, LogRecords) /\ StoreOf(events, 1..calls, LogRecords)
  /\ now \in 0..MaxTime /\ issued \in 0..MaxRuns /\ calls \in 0..MaxCalls
  /\ explained \in 0..MaxExplained
  /\ reply.violation \in Violations /\ guarded \in BOOLEAN

Quiet == [call |-> "none", caller |-> Nobody, run |-> NoRun, subject |-> NoRun,
          ok |-> TRUE, violation |-> "none"]

Init ==
  /\ runs = <<>> /\ bundles = <<>> /\ audits = <<>> /\ events = <<>>
  /\ now = 0 /\ issued = 0 /\ calls = 0 /\ explained = 0
  /\ reply = Quiet /\ guarded \in BOOLEAN

-----------------------------------------------------------------------------
(* Governor *)

Log(tool, decision, violation, run, owner) ==
  [tool |-> tool, decision |-> decision, violation |-> violation, run |-> run,
   owner |-> owner]

\* An entry under a fresh audit id, in both logs.
Record(entry) ==
  /\ calls < MaxCalls
  /\ calls' = calls + 1
  /\ audits' = Put(audits, calls + 1, entry, now, AuditLimits)
  /\ events' = Put(events, calls + 1, entry, now, EventLimits)

\* The run as runs.get(id) finds it: the store is touched by the lookup.
Found(id) == Has(Live(runs, now, RunLimits), id)
RunOf(id) == ValueOf(runs, id)

\* Mutant: the owner of the run is not compared with the caller.
VerdictOwnerUnchecked(tool, id, who, policyHolds) ==
  IF id # NoRun /\ who = Nobody THEN <<"blocked", "OWNER_ID_REQUIRED">>
  ELSE IF id # NoRun /\ ~Found(id) THEN <<"error", "RUN_NOT_FOUND">>
  ELSE IF id # NoRun /\ RunOf(id).status = "ended" THEN <<"error", "RUN_ALREADY_ENDED">>
  ELSE IF id = NoRun /\ guarded /\ tool \in Writes THEN <<"blocked", "RUN_ID_REQUIRED">>
  ELSE IF policyHolds THEN <<"allowed", "none">> ELSE <<"blocked", "POLICY">>

\* The verdict of validate_action, policyHolds being what the policy says.
Verdict(tool, id, who, policyHolds) ==
  IF id # NoRun /\ who = Nobody THEN <<"blocked", "OWNER_ID_REQUIRED">>
  ELSE IF id # NoRun /\ ~Found(id) THEN <<"error", "RUN_NOT_FOUND">>
  ELSE IF id # NoRun /\ RunOf(id).status = "ended" THEN <<"error", "RUN_ALREADY_ENDED">>
  ELSE IF id # NoRun /\ RunOf(id).owner # who THEN <<"error", "RUN_NOT_FOUND">>
  ELSE IF id = NoRun /\ guarded /\ tool \in Writes THEN <<"blocked", "RUN_ID_REQUIRED">>
  ELSE IF policyHolds THEN <<"allowed", "none">> ELSE <<"blocked", "POLICY">>

\* _log_audit on an active run enters a tool's call in the figures of the run;
\* the entry of an uncounted tool it writes before it adds the owner to it.
Concerns(id, who) ==
  /\ id # NoRun /\ Found(id)
  /\ RunOf(id).status = "active" /\ who \in {Nobody, RunOf(id).owner}

LoggedOwner(tool, id, who) ==
  IF tool \in Uncounted /\ Concerns(id, who) THEN Nobody ELSE who

\* Mutant: every entry that names a run is counted, whoever's it is.
CountedForAnyone(tool, id, who, allowed) ==
  IF id # NoRun /\ Found(id) /\ tool \notin Uncounted
  THEN Put(runs, id, [RunOf(id) EXCEPT !.tools = Append(@, tool),
                                       !.allowed = IF allowed THEN @ + 1 ELSE @,
                                       !.blocked = IF allowed THEN @ ELSE @ + 1],
           now, RunLimits)
  ELSE runs

\* The run store after a call on run id was decided on and logged.
Counted(tool, id, who, allowed) ==
  IF id = NoRun THEN runs
  ELSE IF Concerns(id, who) /\ tool \notin Uncounted
       THEN Put(runs, id,
                [RunOf(id) EXCEPT !.tools = Append(@, tool),
                                  !.allowed = IF allowed THEN @ + 1 ELSE @,
                                  !.blocked = IF allowed THEN @ ELSE @ + 1],
                now, RunLimits)
       ELSE Touch(runs, id, now, RunLimits)

\* validate_action and its log entry, for a tool called by who.
Decide(tool, id, who, verdict) ==
  /\ runs' = Counted(tool, id, who, verdict[1] = "allowed")
  /\ Record(Log(tool, verdict[1], verdict[2], id, LoggedOwner(tool, id, who)))

Answer(tool, who, id, subject, violation) ==
  reply' = [call |-> tool, caller |-> who, run |-> id, subject |-> subject,
            ok |-> violation = "none", violation |-> violation]

\* A tool that only asks the Governor: self_check, read_file, run_task.
Call(tool, id, who) ==
  /\ \E policyHolds \in IF tool = "self_check" THEN {TRUE} ELSE BOOLEAN :
       LET verdict == Verdict(tool, id, who, policyHolds)
       IN /\ Decide(tool, id, who, verdict)
          /\ Answer(tool, who, id, NoRun, verdict[2])
  /\ UNCHANGED <<guarded, bundles, now, issued, explained>>

-----------------------------------------------------------------------------
(* Run lifecycle *)

NewRun(who) == [owner |-> who, status |-> "active", tools |-> <<>>,
                allowed |-> 0, blocked |-> 0]

StartRun(who) ==
  /\ \/ /\ who = Nobody
        /\ Record(Log("start_run", "blocked", "OWNER_ID_REQUIRED", NoRun, Nobody))
        /\ Answer("start_run", who, NoRun, NoRun, "OWNER_ID_REQUIRED")
        /\ UNCHANGED <<runs, issued>>
     \/ /\ who # Nobody
        /\ issued < MaxRuns
        /\ issued' = issued + 1
        /\ runs' = Put(runs, issued + 1, NewRun(who), now, RunLimits)
        /\ Record(Log("start_run", "allowed", "none", issued + 1, Nobody))
        /\ Answer("start_run", who, issued + 1, NoRun, "none")
  /\ UNCHANGED <<guarded, bundles, now, explained>>

\* What end_run and get_run_summary check themselves, without the Governor.
Refusal(id, who) ==
  IF who = Nobody THEN "OWNER_ID_REQUIRED"
  ELSE IF ~Found(id) \/ RunOf(id).owner # who THEN "RUN_NOT_FOUND" ELSE "none"

\* A refused call looks the run up (but not without an owner) and is logged
\* without naming the run.
Refuse(tool, id, who) ==
  /\ Refusal(id, who) # "none"
  /\ runs' = IF who = Nobody THEN runs ELSE Touch(runs, id, now, RunLimits)
  /\ Record(Log(tool, IF who = Nobody THEN "blocked" ELSE "error", Refusal(id, who),
                NoRun, who))
  /\ Answer(tool, who, id, NoRun, Refusal(id, who))

\* Mutant: a run that has ended can be ended, which restarts it.
EndRunToggles(id, who) ==
  /\ \/ Refuse("end_run", id, who)
     \/ /\ Refusal(id, who) = "none"
        /\ runs' = Put(runs, id,
             [RunOf(id) EXCEPT !.status = IF @ = "ended" THEN "active" ELSE "ended"],
             now, RunLimits)
        /\ Record(Log("end_run", "allowed", "none", id, who))
        /\ Answer("end_run", who, id, NoRun, "none")
  /\ UNCHANGED <<guarded, bundles, now, issued, explained>>

EndRun(id, who) ==
  /\ \/ Refuse("end_run", id, who)
     \/ /\ Refusal(id, who) = "none" /\ RunOf(id).status = "ended"
        /\ runs' = Touch(runs, id, now, RunLimits)
        /\ Record(Log("end_run", "error", "RUN_ALREADY_ENDED", id, who))
        /\ Answer("end_run", who, id, NoRun, "RUN_ALREADY_ENDED")
     \/ /\ Refusal(id, who) = "none" /\ RunOf(id).status = "active"
        /\ runs' = Put(runs, id, [RunOf(id) EXCEPT !.status = "ended"], now, RunLimits)
        /\ Record(Log("end_run", "allowed", "none", id, who))
        /\ Answer("end_run", who, id, NoRun, "none")
  /\ UNCHANGED <<guarded, bundles, now, issued, explained>>

GetRunSummary(id, who) ==
  /\ \/ Refuse("get_run_summary", id, who)
     \/ /\ Refusal(id, who) = "none"
        /\ runs' = Touch(runs, id, now, RunLimits)
        /\ Record(Log("get_run_summary", "allowed", "none", id,
                      LoggedOwner("get_run_summary", id, who)))
        /\ Answer("get_run_summary", who, id, NoRun, "none")
  /\ UNCHANGED <<guarded, bundles, now, issued, explained>>
-----------------------------------------------------------------------------
(* Change bundles: the bundle of a diff is found under the hash of it *)

\* Mutant: the bundle is written again, under the caller's name.
CreateBundleAgain(diff, id, who) ==
  /\ LET verdict == Verdict("create_change_bundle", id, who, TRUE)
     IN /\ Decide("create_change_bundle", id, who, verdict)
        /\ bundles' = IF verdict[1] = "allowed"
                      THEN Put(bundles, diff, who, now, BundleLimits) ELSE bundles
        /\ Answer("create_change_bundle", who, id, diff, verdict[2])
  /\ UNCHANGED <<guarded, now, issued, explained>>

\* The paths of the diff are checked once more (there is one, and validate_path)
\* after the Governor has logged its decision. A bundle that is there is returned.
CreateBundle(diff, id, who) ==
  /\ \E policyHolds, pathsSafe \in BOOLEAN :
       LET verdict == Verdict("create_change_bundle", id, who, policyHolds)
       IN /\ Decide("create_change_bundle", id, who, verdict)
          /\ \/ /\ verdict[1] = "allowed" /\ pathsSafe
                /\ bundles' = IF Has(Live(bundles, now, BundleLimits), diff)
                              THEN Touch(bundles, diff, now, BundleLimits)
                              ELSE Put(bundles, diff, who, now, BundleLimits)
                /\ Answer("create_change_bundle", who, id, diff, "none")
             \/ /\ verdict[1] = "allowed" /\ ~pathsSafe
                /\ Answer("create_change_bundle", who, id, diff, "POLICY")
                /\ UNCHANGED bundles
             \/ /\ verdict[1] # "allowed"
                /\ Answer("create_change_bundle", who, id, diff, verdict[2])
                /\ UNCHANGED bundles
  /\ UNCHANGED <<guarded, now, issued, explained>>

BundleReport(diff, id, who) ==
  /\ LET verdict == Verdict("bundle_report", id, who, TRUE)
         found == Has(Live(bundles, now, BundleLimits), diff)
         mine == who \in {Nobody, ValueOf(bundles, diff)}
     IN /\ Decide("bundle_report", id, who, verdict)
        /\ \/ /\ verdict[1] = "allowed"
              /\ bundles' = Touch(bundles, diff, now, BundleLimits)
              /\ Answer("bundle_report", who, id, diff,
                        IF found /\ mine THEN "none" ELSE "BUNDLE_NOT_FOUND")
           \/ /\ verdict[1] # "allowed"
              /\ Answer("bundle_report", who, id, diff, verdict[2])
              /\ UNCHANGED bundles
  /\ UNCHANGED <<guarded, now, issued, explained>>

-----------------------------------------------------------------------------
(* explain_policy_decision, which is not logged *)

\* Any entry that is not a block is explained as having passed the checks.
Explanation(entry) == IF entry.decision = "blocked" THEN "refused" ELSE "passed"

Explain(id, who) ==
  /\ explained < MaxExplained
  /\ explained' = explained + 1
  /\ audits' = Touch(audits, id, now, AuditLimits)
  /\ \/ /\ Has(audits', id)
        /\ who \in {Nobody, ValueOf(audits, id).owner}
        /\ Answer("explain_policy_decision", who, NoRun,
                  Explanation(ValueOf(audits, id)), "none")
     \/ /\ Has(audits', id) => who \notin {Nobody, ValueOf(audits, id).owner}
        /\ Answer("explain_policy_decision", who, NoRun, NoRun, "AUDIT_NOT_FOUND")
  /\ UNCHANGED <<guarded, runs, bundles, events, now, issued, calls>>

-----------------------------------------------------------------------------
Tick ==
  /\ now < MaxTime
  /\ now' = now + 1
  /\ reply' = Quiet
  /\ UNCHANGED <<guarded, runs, bundles, audits, events, issued, calls, explained>>

\* A call names a run that was started (ids are random UUIDs: none is known
\* before its start; one that has expired is as one that never was), or none.
AnyRun == RunIds \cup {NoRun}

Next ==
  \/ \E who \in Callers : StartRun(who)
  \/ \E who \in Callers, id \in RunIds : EndRun(id, who) \/ GetRunSummary(id, who)
  \/ \E who \in Callers, id \in AnyRun, tool \in Tools : Call(tool, id, who)
  \/ \E who \in Callers, id \in AnyRun, diff \in Diffs :
       CreateBundle(diff, id, who) \/ BundleReport(diff, id, who)
  \/ \E who \in Callers, id \in 0..calls : Explain(id, who)
  \/ Tick

Spec == Init /\ [][Next]_vars

-----------------------------------------------------------------------------
(* Properties *)

\* The figures of a run agree with its tool sequence and with the log: as long
\* as the event log has lost nothing, what it holds of the run's tools is what
\* the figures say (but for calls without an owner that were blocked after the
\* end of the run, which are logged and not counted).
Logged(id, decision) ==
  Cardinality({i \in DOMAIN events :
    /\ events[i].value.run = id /\ events[i].value.decision = decision
    /\ events[i].value.tool \notin Uncounted})

FiguresMatchLog ==
  \A i \in DOMAIN runs :
    LET run == runs[i].value
    IN /\ run.allowed + run.blocked = Len(run.tools)
       /\ Len(events) = calls =>
            /\ run.allowed = Logged(runs[i].key, "allowed")
            /\ run.blocked <= Logged(runs[i].key, "blocked")
            /\ run.status = "active" => run.blocked = Logged(runs[i].key, "blocked")

\* A run that has ended stays as it was at its end for as long as it is kept:
\* no call reopens it or adds to its figures.
EndedRunsAreFrozen ==
  [][\A id \in RunIds :
       Has(runs, id) /\ Has(runs', id) /\ ValueOf(runs, id).status = "ended"
       => ValueOf(runs', id) = ValueOf(runs, id)]_vars

\* A call that names a run succeeds only for the owner of that run, on a run
\* that is still kept; a tool's call moreover only before the end of the run.
OnlyOwnersSucceed ==
  reply.ok /\ reply.run # NoRun =>
    /\ Has(runs, reply.run) /\ ValueOf(runs, reply.run).owner = reply.caller
    /\ reply.call \notin {"end_run", "get_run_summary"} =>
         ValueOf(runs, reply.run).status = "active"

\* While a bundle is kept it belongs to the caller who made it first, however
\* often the same diff is bundled again.
BundlesKeepTheirOwner ==
  [][\A diff \in Diffs :
       Has(Live(bundles, now, BundleLimits), diff) /\ Has(bundles', diff)
       => ValueOf(bundles', diff) = ValueOf(bundles, diff)]_vars
=============================================================================
