------------------------------- MODULE Rerun -------------------------------
(***************************************************************************)
(* The commands of rerun on one output directory (cli.rs): an observe,     *)
(* once or repeated, whose native run is the environment here (NativeRun   *)
(* models it), the tools that follow it, the files of its crashpacks and   *)
(* summaries, and the commands that a user gives on the crashpack after    *)
(* it.  The directory may hold the files of an earlier observe, a write    *)
(* may fail, and rerun may be killed between two steps.                    *)
(***************************************************************************)
EXTENDS Observation

CONSTANTS
  MaxAttempts,    \* bound: of --repeat
  MaxCommands,    \* bound: commands after the observe
  AgentFindings,  \* what an agent may write: sequences of findings
  Errors,         \* the errors of a native run that are looked at
  Outputs,        \* what the tools may write: a set of outputs for each tool
  Ends,           \* and the other ends of a tool run that are looked at
  Builds,         \* the sets of sanitizers that a target may be built with
  OldFindings     \* the findings of an earlier observe in the directory

ASSUME Bounds == MaxAttempts \in Nat \ {0} /\ MaxCommands \in Nat

(* The absent value is none of the texts that are told from it. *)
ASSUME NoneIsNoText ==
  None \notin Tools \cup Policies
             \cup {"native tracing unavailable", "first_escalatable_failure",
                   "sampled_first_attempt", "sampled_first_failure", "policy_always"}

(* The errors of run_native_with_options, by what they say, without those  *)
(* of its reads and writes of files.                                       *)
NativeErrors ==
  {"Native mode is only supported on Linux",
   "Native mode requires CAP_BPF", "without a shared host PID namespace",
   "Binary not found", "Working directory not found", "Could not find re-mini agent",
   "Could not find heap_tracker.bpf.o", "Could not find copy_checker.bpf.o",
   "Could not detect libc path", "Failed to start agent",
   "Target exited before post-exec stop", "Agent exited before ready",
   "Failed to resume target", "Failed while waiting"}

ASSUME ErrorsAreNative == Errors \subseteq NativeErrors

ASSUME OutputsAreLines ==
  \A tool \in DOMAIN Outputs : \A output \in Outputs[tool] : output \in Seq(ToSet(output))

(* The agent writes findings without a tool's detection or a fingerprint;  *)
(* if it plans a tool, then one of rerun's.                                *)
ASSUME AgentsWriteFindings ==
  \A findings \in AgentFindings \cup {OldFindings} :
    /\ findings \in Seq(ToSet(findings))
    /\ \A f \in ToSet(findings) :
         /\ DOMAIN f = DOMAIN CrashFinding(f.id) /\ DOMAIN f.stacks = DOMAIN NoStacks
         /\ f.plan \in Tools \cup {None} /\ f.tool = None /\ f.fingerprint = None

(* An id of the agent is F-, the kind and the time in nanoseconds: one     *)
(* finding's among those of a run, and none that rerun gives.              *)
ASSUME AgentsTellApart ==
  \A findings \in AgentFindings \cup {OldFindings} :
    /\ \A j, k \in DOMAIN findings : findings[j].id = findings[k].id => j = k
    /\ \A f \in ToSet(findings) :
         Len(f.id) = 1 /\ f.id \notin {CleanRun, ToolOnly, <<"crash">>}

(* The findings of an earlier observe are told by their ids. *)
ASSUME OldIdsAreOld ==
  \A old \in ToSet(OldFindings) :
    \A findings \in AgentFindings : \A f \in ToSet(findings) : f.id # old.id

VARIABLES
  request,    \* [repeat, policy, deep, nativeOnly]
  built,      \* the sanitizers in the target
  present,    \* the target is at its path
  packs,      \* 0: of a single observe; 1..MaxAttempts: of the attempts
  summaries,  \* run-summary.json of the output directory (0) and the attempts
  repeated,   \* repeat-summary.json
  pc,
  attempt,
  row,        \* the row of the target under observation
  jobs,       \* tool runs that are still to come
  results,    \* and the results of those that have been
  fallback,   \* the tools run instead of the native tracing
  slots, reason,   \* the choice of attempts
  natives,    \* history: the rows as the native runs of the attempts left them
  rows,       \* the rows of the finished attempts
  inputs, selected,
  cooling,    \* the tools in cooldown, of the runner of an escalate command
  nextId,     \* ids of tool runs, also their process ids; 0: a result of none
  commands,   \* how many commands have been given after the observe
  outcome     \* of the last command: "ok", "error", "killed"

vars == <<request, built, present, packs, summaries, repeated, pc, attempt, row, jobs,
          results, fallback, slots, reason, natives, rows, inputs, selected, cooling, nextId,
          commands, outcome>>

files == <<packs, summaries, repeated>>
loop == <<attempt, slots, reason, natives, rows, inputs, selected>>
setting == <<request, built, present>>

Single == request.repeat = 1
Dir == IF Single THEN 0 ELSE attempt
Pack == packs[Dir]

NoPolicy == [repeat |-> 1, policy |-> None, deep |-> FALSE, nativeOnly |-> FALSE]

OldPack(findings) ==
  [Finalized([EmptyPack EXCEPT !.analysis = TRUE, !.console = TRUE,
                               !.findings = findings], <<>>)
     EXCEPT !.results = <<ResultFailure(CleanRun, 0, "valgrind", "Timeout", TRUE)>>]

OldRow(pack) == TargetFromNative(FALSE, pack)

(* The directory is new, or a repeated observe and after it a single one   *)
(* have left their files.                                                  *)
Init ==
  /\ request = NoPolicy
  /\ built \in Builds
  /\ present = TRUE
  /\ LET old == OldPack(OldFindings)
         none == [i \in 0..MaxAttempts |-> EmptyPack]
         no == [i \in 0..MaxAttempts |-> None]
         summary == RunSummary(<<OldRow(old)>>)
     IN \/ packs = none /\ summaries = no /\ repeated = None
        \/ /\ packs = [i \in 0..MaxAttempts |-> old]
           /\ summaries = [i \in 0..MaxAttempts |-> summary]
           /\ repeated = RepeatSummary(MaxAttempts,
                           [i \in 1..MaxAttempts |-> RepeatAttempt(i, OldRow(old))],
                           UNION {AttemptInputs(i, old.groups) : i \in 1..MaxAttempts},
                           "never", FALSE, <<>>)
  /\ pc = "start" /\ attempt = 0
  /\ row = None /\ jobs = <<>> /\ results = <<>> /\ fallback = FALSE
  /\ slots = {} /\ reason = None
  /\ natives = <<>> /\ rows = <<>> /\ inputs = {} /\ selected = <<>>
  /\ cooling = {} /\ nextId = 1 /\ commands = 0 /\ outcome = None

End(result) == pc' = "idle" /\ outcome' = result

----------------------------------------------------------------------------
(* handle_observe_command                                                  *)

Start(repeat, nativeOnly, deep, explicit) ==
  /\ pc = "start"
  /\ LET policy == ResolvePolicy(repeat, nativeOnly, explicit)
     IN IF policy = None
        THEN End("usage") /\ UNCHANGED <<request, attempt>>
        ELSE /\ request' = [repeat |-> repeat, policy |-> policy, deep |-> deep,
                            nativeOnly |-> nativeOnly]
             /\ attempt' = 1
             /\ pc' = IF repeat = 1 THEN "native" ELSE "clear"
             /\ UNCHANGED outcome
  /\ UNCHANGED <<built, present, files, row, jobs, results, fallback, slots, reason, natives,
                 rows, inputs, selected, cooling, nextId, commands>>

(* run_observe_repeated: the attempts of an earlier run go, its summaries  *)
(* stay until the end.                                                     *)
ClearAttempts ==
  /\ pc = "clear"
  /\ packs' = [i \in DOMAIN packs |-> IF i = 0 THEN packs[0] ELSE EmptyPack]
  /\ summaries' = [i \in DOMAIN summaries |-> IF i = 0 THEN summaries[0] ELSE None]
  /\ pc' = "native"
  /\ UNCHANGED <<setting, repeated, row, jobs, results, fallback, loop, cooling, nextId,
                 commands, outcome>>

----------------------------------------------------------------------------
(* run_native_with_options, as run_observe_once sees it.                   *)

(* How far the run has come when it gives up. *)
ErrorStage(error) ==
  CASE error \in {"Native mode is only supported on Linux",
                  "Native mode requires CAP_BPF", "without a shared host PID namespace"} ->
         "start"
    [] error \in {"Binary not found", "Working directory not found",
                  "Could not find re-mini agent", "Could not find heap_tracker.bpf.o",
                  "Could not find copy_checker.bpf.o", "Could not detect libc path"} ->
         "prepared"
    [] error \in {"Failed to start agent", "Target exited before post-exec stop"} ->
         "described"
    [] error \in {"Agent exited before ready", "Failed to resume target",
                  "Failed while waiting"} -> "agent"

Described(pack) == [Prepared(pack) EXCEPT !.analysis = TRUE]

Written(pack, findings) ==
  [Described(pack) EXCEPT !.findings = IF findings = <<>> THEN None ELSE findings]

Observed(pack, target) ==
  /\ packs' = [packs EXCEPT ![Dir] = pack]
  /\ row' = target
  /\ pc' = IF Single THEN "plan" ELSE "select"
  /\ UNCHANGED <<setting, summaries, repeated, jobs, results, fallback, loop, cooling,
                 nextId, commands, outcome>>

(* An error; with an agent, which may have reported another process of the *)
(* same program by then.                                                   *)
NativeFails(error, findings) ==
  /\ pc = "native"
  /\ findings = <<>> \/ ErrorStage(error) = "agent"
  /\ Observed(CASE ErrorStage(error) = "start" -> Pack
                [] ErrorStage(error) = "prepared" -> Prepared(Pack)
                [] ErrorStage(error) = "described" -> Described(Pack)
                [] ErrorStage(error) = "agent" -> Written(Pack, findings),
              TargetFromError(error))

(* The target ended or was killed at the timeout; the files are written,   *)
(* or one of the writes fails.                                             *)
NativeEnds(findings, end) ==
  /\ pc = "native"
  /\ \E f \in Finalizations([Written(Pack, findings) EXCEPT !.console = TRUE],
                            IF end = "signal" THEN <<CrashFinding(<<"crash">>)>> ELSE <<>>, TRUE) :
       Observed(f.pack,
                IF f.ok THEN TargetFromNative(end = "timeout", f.pack)
                ELSE TargetFromError("Failed to write"))

----------------------------------------------------------------------------
(* run_observe_repeated, after the native run of an attempt, which has     *)
(* left the run summary of the attempt.                                    *)

Select ==
  /\ pc = "select"
  /\ summaries' = [summaries EXCEPT ![attempt] = RunSummary(<<row>>)]
  /\ natives' = Append(natives, row)
  /\ LET choice == SelectAttempt(slots, request.policy, attempt, row, request.deep)
         chosen == ReasonSelects(choice.reason, row, request.deep)
     IN /\ slots' = choice.slots
        /\ reason' = IF chosen THEN choice.reason ELSE None
        /\ pc' = IF chosen THEN "plan" ELSE "record"
  /\ UNCHANGED <<setting, packs, repeated, attempt, row, jobs, results, fallback, rows,
                 inputs, selected, cooling, nextId, commands, outcome>>

----------------------------------------------------------------------------
(* apply_observe_escalation_to_target                                      *)

NeedsFallback == row.status = "Failed" /\ AllowsFallback(row.error)

PlanNothing ==
  /\ pc = "plan"
  /\ \/ request.nativeOnly
     \/ ~NeedsFallback /\ HadError(row.status)
     \/ ~HadError(row.status)
        /\ EscalationJobs(row, Pack.findings, request.deep, built) = <<>>
  /\ pc' = "record"
  /\ UNCHANGED <<setting, files, row, jobs, results, fallback, loop, cooling, nextId,
                 commands, outcome>>

(* prepare_tool_only_crashpack of run_observe_tool_only_fallback *)
PlanFallback ==
  /\ pc = "plan" /\ ~request.nativeOnly /\ NeedsFallback
  /\ \E f \in ToolOnlyPacks(Pack, present) :
       /\ packs' = [packs EXCEPT ![Dir] = f.pack]
       /\ IF f.ok
          THEN /\ row' = [row EXCEPT !.error = "native tracing unavailable"]
               /\ jobs' = FallbackJobs(request.deep, built)
               /\ fallback' = TRUE /\ pc' = "tools"
               /\ UNCHANGED outcome
          ELSE End("error") /\ UNCHANGED <<row, jobs, fallback>>
  /\ UNCHANGED <<setting, summaries, repeated, results, loop, cooling, nextId, commands>>

PlanEscalation ==
  /\ pc = "plan" /\ ~request.nativeOnly /\ ~HadError(row.status)
  /\ jobs' = EscalationJobs(row, Pack.findings, request.deep, built)
  /\ jobs' # <<>>
  /\ pc' = "tools"
  /\ UNCHANGED <<setting, files, row, results, fallback, loop, cooling, nextId, commands,
                 outcome>>

(* The outputs have the process id of the tool's run. *)
Stamped(output, pid) ==
  [i \in DOMAIN output |->
     [output[i] EXCEPT !.text.pid = IF @ = 0 THEN 0 ELSE pid]]

ToolRuns(tool) ==
  IF tool \notin DOMAIN Outputs THEN {}
  ELSE Executions({Stamped(o, nextId) : o \in Outputs[tool]}, Ends)

Exists == (IF Pack.bin THEN {"captured"} ELSE {})
            \cup (IF present THEN {"original"} ELSE {})

ToolResult(job, run) ==
  IF job.what = "finding"
  THEN Escalated(job.finding, nextId, job.tool, built, Exists, run)
  ELSE CleanChecked(nextId, job.tool, built, Exists, run)

(* A runner of its own for every run: no cooldown, and an error is a       *)
(* result.                                                                 *)
ObserveTool ==
  /\ pc = "tools" /\ jobs # <<>>
  /\ LET job == Head(jobs)
     IN \/ /\ job.what = "skip"
           /\ results' = Append(results, ObserveSkipped(job))
           /\ UNCHANGED nextId
        \/ /\ job.what # "skip"
           /\ \E run \in ToolRuns(job.tool) :
                results' = Append(results,
                  FirstKnown(ToolResult(job, run),
                             ObserveFailure(CASE job.what = "finding" -> job.finding
                                              [] job.what = "scan" ->
                                                   IF fallback THEN ToolOnly ELSE CleanRun,
                                            job.tool)))
           /\ nextId' = nextId + 1
  /\ jobs' = Tail(jobs)
  /\ UNCHANGED <<setting, files, pc, row, fallback, loop, cooling, commands, outcome>>

(* The status: of a fallback, or Clean until a tool has found something. *)
EscalatedRow_StaysClean(target, changed, pack) ==            \* mutant
  WithSnapshot([target EXCEPT !.escalation = ToolRows(results)], changed, pack)
EscalatedRow(target, changed, pack) ==
  LET seen == WithSnapshot([target EXCEPT !.escalation = ToolRows(results)], changed, pack)
  IN [seen EXCEPT !.status =
        CASE fallback -> FallbackTargetStatus(seen, results)
          [] ~fallback /\ @ = "Clean" /\ Evidence(results) -> "Findings"
          [] OTHER -> @]

(* write_escalation_results, promote_tool_findings_to_crashpack *)
FinishEscalation ==
  /\ pc = "tools" /\ jobs = <<>>
  /\ \E p \in Promotions([Pack EXCEPT !.results = results], results, present) :
       /\ packs' = [packs EXCEPT ![Dir] = p.pack]
       /\ IF p.ok
          THEN /\ row' = EscalatedRow(row, PromotionChanges(Pack.findings, results), p.pack)
               /\ pc' = "record"
               /\ UNCHANGED outcome
          ELSE End("error") /\ UNCHANGED row
  /\ UNCHANGED <<setting, summaries, repeated, jobs, results, fallback, loop, cooling,
                 nextId, commands>>

----------------------------------------------------------------------------
(* The summaries.                                                          *)

WriteSummary ==
  /\ pc = "record" /\ Single
  /\ summaries' = [summaries EXCEPT ![0] = RunSummary(<<row>>)]
  /\ rows' = <<row>>
  /\ End(IF HadError(row.status) THEN "error" ELSE "ok")
  /\ UNCHANGED <<setting, packs, repeated, attempt, row, jobs, results, fallback, slots,
                 reason, natives, inputs, selected, cooling, nextId, commands>>

(* load_repeat_issue_group_inputs *)
MissingGroups == Pack.groups = None /\ row.groups # 0

AttemptSummaries ==
  IF reason = None THEN summaries
  ELSE [summaries EXCEPT ![attempt] = RunSummary(<<row>>)]

(* An attempt's groups are added to those of the attempts before it.       *)
Collected_Replaced ==                                        \* mutant
  IF Pack.groups = None THEN inputs ELSE AttemptInputs(attempt, Pack.groups)
Collected ==
  inputs \cup (IF Pack.groups = None THEN {} ELSE AttemptInputs(attempt, Pack.groups))

RecordAttempt ==
  /\ pc = "record" /\ ~Single
  /\ summaries' = AttemptSummaries
  /\ IF MissingGroups
     THEN End("error") /\ UNCHANGED <<loop, row, results, fallback>>
     ELSE /\ inputs' = Collected
          /\ rows' = Append(rows, row)
          /\ selected' = IF reason = None THEN selected
                         ELSE Append(selected, [attempt |-> attempt, reason |-> reason])
          /\ attempt' = attempt + 1
          /\ row' = None /\ reason' = None /\ results' = <<>> /\ fallback' = FALSE
          /\ pc' = IF attempt = request.repeat THEN "publish" ELSE "native"
          /\ UNCHANGED <<slots, natives, outcome>>
  /\ UNCHANGED <<setting, packs, repeated, jobs, cooling, nextId, commands>>

PublishRepeat ==
  /\ pc = "publish"
  /\ repeated' = RepeatSummary(request.repeat,
                   [i \in DOMAIN rows |-> RepeatAttempt(i, rows[i])],
                   inputs, request.policy, request.deep, selected)
  /\ pc' = "publish run"
  /\ UNCHANGED <<setting, packs, summaries, row, jobs, results, fallback, loop, cooling,
                 nextId, commands, outcome>>

PublishRun ==
  /\ pc = "publish run"
  /\ summaries' = [summaries EXCEPT ![0] = RunSummary(rows)]
  /\ End(IF \E r \in ToSet(rows) : HadError(r.status) THEN "error" ELSE "ok")
  /\ UNCHANGED <<setting, packs, repeated, row, jobs, results, fallback, loop, cooling,
                 nextId, commands>>

(* rerun is killed: the files stay, what it had in memory is gone. *)
Killed ==
  /\ pc \notin {"start", "idle"}
  /\ End("killed")
  /\ attempt' = 1 /\ row' = None /\ jobs' = <<>> /\ results' = <<>>
  /\ fallback' = FALSE /\ slots' = {} /\ reason' = None /\ natives' = <<>>
  /\ rows' = <<>> /\ inputs' = {} /\ selected' = <<>> /\ cooling' = {}
  /\ UNCHANGED <<setting, files, nextId, commands>>

----------------------------------------------------------------------------
(* Commands on the crashpack of a single observe.                          *)

Command == pc = "idle" /\ Single /\ attempt # 0 /\ commands < MaxCommands

Begin == commands' = commands + 1 /\ results' = <<>> /\ fallback' = FALSE /\ cooling' = {}

(* escalate: the tool of the plan, or the one that is asked for.           *)
PlannedJobs(findings, tool) ==
  [i \in DOMAIN findings |->
     Job("finding", findings[i].id, IF tool = "all" THEN findings[i].plan ELSE tool)]

EscalateCommand(tool) ==
  /\ Command
  /\ Begin
  /\ IF packs[0].findings = None \/ ~packs[0].analysis
     THEN End("error") /\ UNCHANGED jobs
     ELSE IF packs[0].findings = <<>> THEN End("ok") /\ UNCHANGED jobs
     ELSE /\ jobs' = PlannedJobs(packs[0].findings, tool)
          /\ pc' = "command" /\ UNCHANGED outcome
  /\ UNCHANGED <<setting, files, row, loop, nextId>>

(* --scan-binary, and --check-clean when there is no finding *)
ScanCommand(tool, checkClean) ==
  /\ Command
  /\ checkClean => packs[0].findings \in {None, <<>>}
  /\ Begin
  /\ IF packs[0].findings = None \/ ~packs[0].analysis \/ tool = "all"
     THEN End("error") /\ UNCHANGED jobs
     ELSE jobs' = <<Scan(tool)>> /\ pc' = "command" /\ UNCHANGED outcome
  /\ UNCHANGED <<setting, files, row, loop, nextId>>

(* One runner for all findings: a tool in cooldown is an error, and an     *)
(* error ends the command without results.                                 *)
CommandResult(job, run) ==
  IF InCooldown(cooling, job.tool) THEN None ELSE ToolResult(job, run)

CommandStep_Skips(result) ==                       \* mutant
  results' = IF result = None THEN results ELSE Append(results, result)
CommandStep(result) == result # None /\ results' = Append(results, result)

CommandTool ==
  /\ pc = "command" /\ jobs # <<>> /\ Known(Head(jobs).tool)
  /\ \E run \in ToolRuns(Head(jobs).tool) :
       \/ /\ CommandStep(CommandResult(Head(jobs), run))
          /\ \E still \in SUBSET (cooling \ {Head(jobs).tool}) :
               cooling' = UpdateCooldown(still, Head(jobs).tool, 0)
          /\ jobs' = Tail(jobs) /\ UNCHANGED <<pc, outcome>>
       \/ /\ CommandResult(Head(jobs), run) = None
          /\ End("error") /\ UNCHANGED <<results, cooling, jobs>>
  /\ nextId' = nextId + 1
  /\ UNCHANGED <<setting, files, row, fallback, loop, commands>>

(* A finding without a plan. *)
SkipFinding ==
  /\ pc = "command" /\ jobs # <<>> /\ ~Known(Head(jobs).tool)
  /\ jobs' = Tail(jobs)
  /\ UNCHANGED <<setting, files, pc, row, results, fallback, loop, cooling, nextId, commands,
                 outcome>>

(* The run summary is not touched. *)
FinishCommand ==
  /\ pc = "command" /\ jobs = <<>>
  /\ \E p \in Promotions([packs[0] EXCEPT !.results = results], results, present) :
       /\ packs' = [packs EXCEPT ![0] = p.pack]
       /\ End(IF p.ok THEN "ok" ELSE "error")
  /\ UNCHANGED <<setting, summaries, repeated, row, jobs, results, fallback, loop, cooling,
                 nextId, commands>>

(* replay *)
ReplayCommand ==
  /\ Command /\ packs[0].analysis
  /\ \E runs \in BOOLEAN :
       packs' = [packs EXCEPT ![0].replay = ReplayResult(packs[0], present, runs)]
  /\ Begin /\ End("ok")
  /\ UNCHANGED <<setting, summaries, repeated, row, jobs, loop, nextId>>

(* The user removes the target, to build it again for instance. *)
RemoveTarget ==
  /\ Command /\ present
  /\ present' = FALSE
  /\ UNCHANGED <<request, built, files, pc, row, jobs, results, fallback, loop, cooling,
                 nextId, commands, outcome>>

----------------------------------------------------------------------------
Next ==
  \/ \E repeat \in 0..MaxAttempts, nativeOnly, deep \in BOOLEAN,
        explicit \in Policies \cup {None} : Start(repeat, nativeOnly, deep, explicit)
  \/ ClearAttempts
  \/ \E error \in Errors, findings \in AgentFindings : NativeFails(error, findings)
  \/ \E findings \in AgentFindings, end \in {"exit", "signal", "timeout"} :
       NativeEnds(findings, end)
  \/ Select \/ PlanNothing \/ PlanFallback \/ PlanEscalation
  \/ ObserveTool \/ FinishEscalation
  \/ WriteSummary \/ RecordAttempt \/ PublishRepeat \/ PublishRun
  \/ Killed
  \/ \E tool \in Tools \cup {"all"} : EscalateCommand(tool)
  \/ \E tool \in Tools \cup {"all"}, checkClean \in BOOLEAN : ScanCommand(tool, checkClean)
  \/ CommandTool \/ SkipFinding \/ FinishCommand \/ ReplayCommand \/ RemoveTarget

Spec == Init /\ [][Next]_vars

----------------------------------------------------------------------------
(* Properties.  Those that say "idle" lose nothing by it: Killed leads     *)
(* there with the files of every state.                                    *)

PcValues == {"start", "clear", "native", "select", "plan", "tools", "record", "publish",
             "publish run", "command", "idle"}

(* A result has found something exactly when its status says so.           *)
TypeOK ==
  /\ request.repeat \in 1..MaxAttempts /\ request.policy \in Policies \cup {None}
  /\ pc \in PcValues /\ outcome \in {None, "ok", "error", "usage", "killed"}
  /\ attempt \in 0..MaxAttempts + 1 /\ commands \in 0..MaxCommands
  /\ DOMAIN packs = 0..MaxAttempts /\ DOMAIN summaries = 0..MaxAttempts
  /\ cooling \subseteq Tools /\ nextId \in Nat \ {0}
  /\ slots \subseteq {"first_failure", "sampled_first_attempt", "sampled_failure"}
  /\ \A r \in ToSet(results) :
       /\ r.status \in Statuses /\ r.tool \in Tools
       /\ r.status = "Findings" <=> r.confirmed

(* The observe has come to its end and was not killed. *)
Published == pc \in {"idle", "command"} /\ outcome # "killed" /\ attempt # 0
             /\ Len(rows) = request.repeat

PackOf(i) == IF Single THEN packs[0] ELSE packs[i]

(* The targets that the observe has evidence of. *)
Witnessed == {i \in DOMAIN rows : rows[i].status # "Failed"}

(* README.md: a crashpack can be validated and replayed on its own, also   *)
(* when the target is gone.                                                *)
Usable(pack) == Valid(pack) /\ SelectReplayBinary(pack, present) = "captured"

(* observation-run.md: the counts and the status in a run summary are      *)
(* those of the findings in the crashpack, after the tools have added      *)
(* theirs (an escalate command later on does not touch the summary), and a *)
(* target that has not failed has a crashpack that can be used.            *)
SummaryTruthful ==
  Published =>
    \A i \in Witnessed :
      LET p == PackOf(i)
      IN /\ Usable(p)
         /\ commands = 0 =>
              /\ rows[i].count = Len(p.findings)
              /\ rows[i].classes = ClassCounts(p.findings)
              /\ rows[i].groups = Cardinality(DOMAIN p.groups)
              /\ rows[i].status = "Findings" => p.findings # <<>>
              /\ rows[i].status \notin {"Findings", "Timeout"} => p.findings = <<>>

(* prepare_output_dir: whatever an earlier observe left in the directory,  *)
(* the tool results there are those of this one, and so are the findings.  *)
ResultsOfThisRun ==
  Published /\ commands = 0 =>
    \A i \in Witnessed :
      LET p == PackOf(i)
      IN /\ rows[i].escalation = IF p.results = None THEN <<>> ELSE ToolRows(p.results)
         /\ \A f \in ToSet(p.findings), old \in ToSet(OldFindings) : f.id # old.id

(* observation-run.md:93: clean says that the target ran, natively or      *)
(* under a tool of the fallback, and that nothing was seen.                *)
CleanMeansRan ==
  Published => \A i \in DOMAIN rows :
    rows[i].status = "Clean" =>
      \/ rows[i].error = None
      \/ \E tool \in ToSet(rows[i].escalation) : tool.status = "Clean"

(* observation-run.md:81-87, read as a choice with hindsight: which        *)
(* attempts the policy escalates, of all the native runs.                  *)
EscalatedAttempts ==
  LET can == {i \in DOMAIN natives : CanRunEscalation(natives[i], request.deep)}
      failures == {i \in can : FailureLike(natives[i])}
      firstFailure == {i \in failures : \A j \in failures : i <= j}
  IN CASE request.policy = "never" -> {}
       [] request.policy = "always" -> can
       [] request.policy = "first-failure" -> firstFailure
       [] request.policy = "sampled" ->
            firstFailure \cup (IF request.deep THEN can \cap {1} ELSE {})

PolicyKept ==
  Published /\ ~Single => {s.attempt : s \in ToSet(selected)} = EscalatedAttempts

(* Every finding of an attempt that has not failed is in an issue group of *)
(* the repeat summary, the one of its fingerprint, and a group counts its  *)
(* findings and their attempts, each once.  So are the findings of a       *)
(* failed attempt when its issue groups could be written; those of one     *)
(* that ended between findings.json and the groups are in no group         *)
(* (load_repeat_issue_group_inputs finds no file and expects none).        *)
GroupsAccount ==
  LET grouped == {i \in DOMAIN rows : packs[i].groups # None}
      Occurrences(i, fp) ==
        Cardinality({k \in DOMAIN packs[i].findings : packs[i].findings[k].fingerprint = fp})
  IN /\ Witnessed \subseteq grouped
     /\ \A i \in grouped : \A f \in ToSet(packs[i].findings) :
          f.fingerprint \in DOMAIN repeated.issue_groups
     /\ \A fp \in DOMAIN repeated.issue_groups :
          LET group == repeated.issue_groups[fp]
          IN /\ group.occurrence_count = MapThenSumSet(LAMBDA i : Occurrences(i, fp), grouped)
             /\ group.attempt_count = Cardinality({i \in grouped : Occurrences(i, fp) > 0})

(* The summaries of the attempts, of all attempts and the repeat summary   *)
(* tell the same, its issue groups leave out no finding of an attempt that *)
(* has not failed, and summarize puts the summaries together.              *)
RepeatAgrees ==
  Published /\ ~Single =>
    /\ summaries[0].targets = rows
    /\ \A i \in DOMAIN rows :
         /\ summaries[i].targets = <<rows[i]>>
         /\ repeated.attempts[i].status = rows[i].status
         /\ repeated.attempts[i].count = rows[i].count
    /\ GroupsAccount
    /\ LET answer == RepeatAgentSummary(repeated, summaries[0])
       IN /\ answer.completed = answer.requested /\ answer.target_count = answer.requested
          /\ answer.finding_totals = summaries[0].finding_totals

AllFindings ==
  UNION {ToSet(packs[i].findings) : i \in {i \in DOMAIN packs : packs[i].findings # None}}

(* One defect that the agent gives all sizes of (HasNativeIdentity), seen  *)
(* in two attempts, is one issue group, whether or not its frames could be *)
(* placed (issue_groups.rs, the test                                       *)
(* native_fingerprints_ignore_optional_source_context...).  Of a finding   *)
(* without sizes, a leak for instance, the places are part of what it is.  *)
DefectOneGroup ==
  pc = "idle" => \A f, g \in {h \in AllFindings : h.fingerprint # None /\ HasNativeIdentity(h)} :
    /\ f.class = g.class /\ f.operation = g.operation /\ f.binary = g.binary
    /\ <<f.access, f.alloc, f.offset>> = <<g.access, g.alloc, g.offset>>
    => f.fingerprint = g.fingerprint

(* No detection of a tool is lost: it is a finding of its own or confirms  *)
(* the finding the tool was run for.                                       *)
Represented(d, result, findings) ==
  \E f \in ToSet(findings) :
    \/ Known(f.tool) /\ KeyOf(f) = Key(result.tool, d)
    \/ f.id = result.finding /\ f.class = d.class

NothingLost ==
  Published /\ outcome = "ok" /\ pc = "idle" =>
    \A i \in DOMAIN rows :
      PackOf(i).results # None =>
        \A r \in ToSet(PackOf(i).results) : Found(r) =>
          \A d \in ToSet(r.report) : Represented(d, r, PackOf(i).findings)

(* Tools run for several findings and by several commands; what they find  *)
(* again is not added again.                                               *)
ToolFindingsOnce(fs) ==
  \A j, k \in {n \in DOMAIN fs : Known(fs[n].tool)} : KeyOf(fs[j]) = KeyOf(fs[k]) => j = k

(* Findings, tool results and summaries are joined by the finding's id, so *)
(* it is no other finding's; no finding of a tool is there twice; and      *)
(* summarize says the same of a finding in both places where it says       *)
(* something.                                                              *)
JoinedById ==
  pc = "idle" => \A i \in DOMAIN packs : packs[i].findings # None =>
    LET fs == packs[i].findings
        answer == AgentSummary(packs[i])
    IN /\ \A j, k \in DOMAIN fs : fs[j].id = fs[k].id => j = k
       /\ ToolFindingsOnce(fs)
       /\ packs[i].evidence # None =>
            \A f \in ToSet(answer.findings) :
              f.result # None => answer.escalation.by_finding[f.finding.id] = f.result

----------------------------------------------------------------------------

Intact(pack) ==
  /\ pack.findings # None /\ pack.groups = IssueGroups(pack.findings)
  /\ pack.manifest = WriteManifest(pack.findings)
  /\ pack.evidence = EvidencePack(pack.findings, pack.groups)

DamageIsReported ==
  \A i \in {i \in DOMAIN packs : packs'[i] # packs[i]} :
    Intact(packs[i]) /\ ~Intact(packs'[i]) =>
      \/ pc' = "idle" /\ outcome' = "error"
      \/ pc = "native" /\ row'.status = "Failed"
      \/ pc = "clear"

(* The files of a crashpack describe the same findings; a step that leaves *)
(* them apart says so: the command is an error or the target has failed.   *)
IntactUnlessReported == [][DamageIsReported]_vars

SameFinding(f, g) ==
  /\ f.id = g.id /\ f.class = g.class /\ f.tool = g.tool /\ f.message = g.message
  /\ Known(f.fingerprint) => g.fingerprint = f.fingerprint

Kept(old, new) ==
  old # None =>
    /\ new # None /\ Len(old) <= Len(new)
    /\ \A k \in DOMAIN old : SameFinding(old[k], new[k])

ToolsKeepFindings ==
  \A i \in DOMAIN packs : pc \in {"tools", "command", "idle"} =>
    Kept(packs[i].findings, packs'[i].findings)

(* Tools add findings and evidence: no finding goes, or moves, or comes    *)
(* into another issue group because of what a tool found.                  *)
FindingsKept == [][ToolsKeepFindings]_vars

CommandIsComplete ==
  pc = "command" /\ pc' = "idle" /\ outcome' = "ok" =>
    \/ \E r \in ToSet(results) : r.finding = CleanRun
    \/ {f.id : f \in {f \in ToSet(packs[0].findings) : Known(f.plan)}}
         \subseteq {r.finding : r \in ToSet(results)}

(* An escalate command that ends well has a result for every finding that  *)
(* has a plan, although one error of a tool, or a tool in cooldown, ends   *)
(* the command.                                                            *)
EscalateComplete == [][CommandIsComplete]_vars

============================================================================
