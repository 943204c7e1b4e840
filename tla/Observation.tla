---------------------------- MODULE Observation ----------------------------
(***************************************************************************)
(* What rerun says about a run: the row of a target, the summaries of a    *)
(* single and of a repeated run (observation.rs), and the decisions cli.rs *)
(* takes on a row: whether tools may run, for which attempt, and which.    *)
(***************************************************************************)
EXTENDS Crashpack

Policies == {"never", "first-failure", "sampled", "always"}

(* resolve_repeat_escalation_policy; None is an error (of usage), and also *)
(* a policy that is not given.                                             *)
ResolvePolicy(repeat, nativeOnly, explicit) ==
  CASE repeat = 0 -> None
    [] repeat = 1 -> IF explicit = None THEN "always" ELSE None
    [] repeat > 1 /\ nativeOnly ->
         IF explicit \in {None, "never"} THEN "never" ELSE None
    [] OTHER -> IF explicit = None THEN "first-failure" ELSE explicit

(* The errors of a native run that the code takes for a missing setup.  An *)
(* agent that ends early says "Agent exited before ready", which is not    *)
(* among them; no error says "Agent exited prematurely".                   *)
FallbackPhrases ==
  {"Native mode is only supported on Linux",
   "Native mode requires CAP_BPF", "without a shared host PID namespace",
   "Could not find re-mini agent", "Could not find heap_tracker.bpf.o",
   "Could not find copy_checker.bpf.o", "Could not detect libc path",
   "Failed to start agent", "Agent exited prematurely",
   "Failed to resume target", "Target exited before post-exec stop"}

AllowsFallback(error) == error \in FallbackPhrases

HadError(status) == status \in {"Failed", "Timeout", "Skipped"}

----------------------------------------------------------------------------
(* The row of a target.                                                    *)

TargetFromNative(timedOut, pack) ==
  [status |-> CASE timedOut -> "Timeout"
                [] ~timedOut /\ pack.findings # <<>> -> "Findings"
                [] OTHER -> "Clean",
   error |-> IF timedOut THEN "target timed out" ELSE None,
   count |-> Len(pack.findings), classes |-> ClassCounts(pack.findings),
   groups |-> Cardinality(DOMAIN pack.groups), escalation |-> <<>>]

TargetFromError(error) ==
  [status |-> "Failed", error |-> error,
   count |-> 0, classes |-> ClassCounts(<<>>), groups |-> 0, escalation |-> <<>>]

(* observation_escalation_summary *)
ToolRow(result) ==
  [tool |-> result.tool, status |-> result.status, confirmed |-> result.confirmed,
   detected |-> result.detected]

ToolRows(results) == [i \in DOMAIN results |-> ToolRow(results[i])]

Evidence(results) ==
  \E r \in ToSet(results) : r.confirmed \/ r.detected # {}

(* The snapshot that a promotion gives back when it changed something.     *)
WithSnapshot(row, changed, pack) ==
  IF ~changed THEN row
  ELSE [row EXCEPT !.count = Len(pack.findings),
                   !.classes = ClassCounts(pack.findings),
                   !.groups = Cardinality(DOMAIN pack.groups)]

(* fallback_target_status *)
FallbackTargetStatus_TimeoutIsClean(row, results) ==         \* mutant
  IF row.count > 0 \/ Evidence(results) THEN "Findings" ELSE "Clean"
FallbackTargetStatus(row, results) ==
  LET all == {r.status : r \in ToSet(results)}
      ran == all \ {"Skipped"}
  IN CASE row.count > 0 \/ Evidence(results) -> "Findings"
       [] row.count = 0 /\ ~Evidence(results) ->
            IF "Clean" \in ran THEN "Clean"
            ELSE IF "Timeout" \in ran THEN "Timeout"
            ELSE IF "ToolUnavailable" \in ran THEN "ToolUnavailable"
            ELSE IF ran = {"NotApplicable"} THEN "NotApplicable"
            ELSE IF all = {"Skipped"} THEN "Skipped"
            ELSE IF all = {} THEN "NotApplicable"
            ELSE "Failed"

----------------------------------------------------------------------------
(* Which tools run.  A job is a finding or the whole binary.               *)

ToolForFinding(f) == IF f.class = "unclassified_crash" THEN "gdb" ELSE "valgrind"

Job(what, finding, tool) == [what |-> what, finding |-> finding, tool |-> tool]
Scan(tool) == Job("scan", None, tool)

SanitizerScans == <<Scan("asan"), Scan("lsan"), Scan("ubsan")>>

(* run_observe_escalation *)
EscalationJobs(row, findings, deep, built) ==
  LET first == CASE row.count > 0 ->
                      [i \in DOMAIN findings |->
                         Job("finding", findings[i].id, ToolForFinding(findings[i]))]
                 [] row.count = 0 /\ built # {} -> <<Job("skip", CleanRun, "valgrind")>>
                 [] OTHER -> <<Scan("valgrind")>>
  IN CASE row.count = 0 /\ ~deep -> <<>>
       [] row.count > 0 /\ ~deep -> first
       [] OTHER -> first \o SanitizerScans

(* run_observe_binary_scans *)
FallbackJobs(deep, built) ==
  IF ~deep THEN <<Scan("valgrind")>>
  ELSE <<IF built = {} THEN Scan("valgrind") ELSE Job("skip", ToolOnly, "valgrind")>>
         \o SanitizerScans

(* observe_escalation_skipped and observe_escalation_failure *)
ObserveSkipped(job) ==
  ResultFailure(job.finding, 0, job.tool, "Skipped", TRUE)
ObserveFailure(id, tool) ==
  ResultFailure(id, 0, tool, "Failed", TRUE)

----------------------------------------------------------------------------
(* Which attempts of a repeated run are escalated.                         *)

FailureLike(row) == row.count > 0 \/ row.status \in {"Findings", "Failed", "Skipped"}

CanRunEscalation(row, deep) ==
  \/ row.count > 0
  \/ row.status = "Failed" /\ AllowsFallback(row.error)
  \/ deep /\ ~HadError(row.status)

(* The slots of RepeatEscalationState that are taken. *)
Choice(reason, slots) == [reason |-> reason, slots |-> slots]

(* select_attempt, for the only target of an attempt. *)
SelectAttempt_SlotKept(slots, policy, attempt, row, deep) ==  \* mutant
  Choice(IF CanRunEscalation(row, deep) /\ FailureLike(row) /\ policy # "never"
         THEN "first_escalatable_failure" ELSE None, slots)
SelectAttempt(slots, policy, attempt, row, deep) ==
  LET candidate == CanRunEscalation(row, deep)
      failure == candidate /\ FailureLike(row)
      sampledFirst == /\ deep /\ attempt = 1 /\ candidate
                      /\ "sampled_first_attempt" \notin slots
  IN CASE policy = "always" /\ candidate -> Choice("policy_always", slots)
       [] policy = "first-failure" /\ failure /\ "first_failure" \notin slots ->
            Choice("first_escalatable_failure", slots \cup {"first_failure"})
       [] policy = "sampled" /\ sampledFirst ->
            Choice("sampled_first_attempt",
                   slots \cup {"sampled_first_attempt"}
                         \cup (IF failure THEN {"sampled_failure"} ELSE {}))
       [] /\ policy = "sampled" /\ ~sampledFirst
          /\ failure /\ "sampled_failure" \notin slots ->
            Choice("sampled_first_failure", slots \cup {"sampled_failure"})
       [] OTHER -> Choice(None, slots)

(* repeat_reason_selects_target *)
ReasonSelects(reason, row, deep) ==
  /\ CanRunEscalation(row, deep)
  /\ \/ reason \in {"first_escalatable_failure", "sampled_first_failure"} /\ FailureLike(row)
     \/ reason \in {"sampled_first_attempt", "policy_always"}

----------------------------------------------------------------------------
(* The summaries.                                                          *)

(* How often each value is in a sequence. *)
TotalOf(values) ==
  [v \in ToSet(values) |-> Cardinality({i \in DOMAIN values : values[i] = v})]

StatusTotals(rows) == TotalOf([i \in DOMAIN rows |-> rows[i].status])

FindingTotals(rows) ==
  [c \in UNION {DOMAIN rows[i].classes : i \in DOMAIN rows} |->
     MapThenSumSet(LAMBDA i : IF c \in DOMAIN rows[i].classes THEN rows[i].classes[c] ELSE 0,
                   DOMAIN rows)]

(* escalation_totals_by_tool *)
ToolTotals(rows) ==
  LET runs == FlattenSeq([i \in DOMAIN rows |-> rows[i].escalation])
  IN TotalOf([i \in DOMAIN runs |-> <<runs[i].tool, runs[i].status>>])

(* ObservationRunSummary::new *)
RunSummary(targets) ==
  [targets |-> targets, status_totals |-> StatusTotals(targets),
   finding_totals |-> FindingTotals(targets), tool_totals |-> ToolTotals(targets)]

RepeatOutcome(status) ==
  CASE status = "Clean" -> "pass"
    [] status = "Findings" -> "finding"
    [] status \in {"Failed", "Skipped"} -> "failure"
    [] status = "Timeout" -> "timeout"
    [] OTHER -> "inconclusive"

OutcomeIsFailureLike(outcome) == outcome \in {"finding", "failure", "timeout"}

(* RepeatAttemptSummary::from_target: the tool runs are not in it. *)
RepeatAttempt(attempt, row) ==
  [attempt |-> attempt, status |-> row.status, outcome |-> RepeatOutcome(row.status),
   error |-> row.error, count |-> row.count, classes |-> row.classes,
   groups |-> row.groups]

FirstOf(attempts) == IF attempts = <<>> THEN None ELSE attempts[1].attempt

BestEvidence(attempts) ==
  FirstKnown(FirstOf(SelectSeq(attempts, LAMBDA a : a.count > 0)),
    FirstKnown(FirstOf(SelectSeq(attempts, LAMBDA a : a.outcome = "timeout")),
               FirstOf(SelectSeq(attempts, LAMBDA a : a.outcome = "failure"))))

(* new_with_issue_groups_and_escalation *)
RepeatSummary(requested, attempts, inputs, policy, deep, selected) ==
  [requested |-> requested,
   completed |-> Cardinality({a.attempt : a \in ToSet(attempts)}),
   status_totals |-> StatusTotals(attempts),
   outcome_totals |-> TotalOf([i \in DOMAIN attempts |-> attempts[i].outcome]),
   finding_totals |-> FindingTotals(attempts),
   first_failure |-> FirstOf(SelectSeq(attempts, LAMBDA a : OutcomeIsFailureLike(a.outcome))),
   best_evidence |-> BestEvidence(attempts),
   policy |-> [policy |-> policy, deep |-> deep, selected |-> selected],
   issue_groups |-> RepeatGroups(inputs),
   attempts |-> attempts]

(* build_repeat_agent_summary: the repeat summary beside the run summary   *)
(* that is there, if any.                                                  *)
CountOf(totals, key) == IF key \in DOMAIN totals THEN totals[key] ELSE 0

RepeatAgentSummary(repeat, run) ==
  [requested |-> repeat.requested, completed |-> repeat.completed,
   pass |-> CountOf(repeat.outcome_totals, "pass"),
   non_pass |-> repeat.completed - CountOf(repeat.outcome_totals, "pass"),
   finding_totals |-> repeat.finding_totals,
   group_count |-> Cardinality(DOMAIN repeat.issue_groups),
   target_count |-> IF run = None THEN None ELSE Len(run.targets),
   tool_totals |-> IF run = None THEN ClassCounts(<<>>) ELSE run.tool_totals]

============================================================================
