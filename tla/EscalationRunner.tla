-------------------------- MODULE EscalationRunner --------------------------
(***************************************************************************)
(* The runner of re-escalate (runner.rs): what a tool run on a target      *)
(* comes to.  The tool and the target are the environment: an execution is *)
(* their output, a timeout, a program that is not there, or an I/O error.  *)
(*                                                                         *)
(* Every operator gives an EscalationResult, or None where the code        *)
(* returns an error.                                                       *)
(***************************************************************************)
EXTENDS ToolReports, FiniteSets

Tools == {"asan", "lsan", "ubsan", "valgrind", "gdb"}

(* An id is a tuple: <<tool, class, run, index>> of a finding that a tool   *)
(* has made, <<name>> otherwise.  A run without a finding has one of these *)
(* in its result's finding_id.                                             *)
CleanRun == <<"clean-run">>
ToolOnly == <<"tool-only-fallback">>

Statuses == {"Clean", "Findings", "Failed", "Timeout", "Skipped",
             "ToolUnavailable", "NotApplicable"}

(* The defaults, which rerun does not change: every tool is enabled, and   *)
(* the next run of a tool waits so many milliseconds.                      *)
DefaultConfig ==
  [enabled |-> Tools,
   cooldown |-> "asan" :> 5000 @@ "lsan" :> 5000 @@ "ubsan" :> 5000
             @@ "valgrind" :> 10000 @@ "gdb" :> 3000]

(* update_cooldown: what a plan asks for, or with 0 the default.           *)
EffectiveCooldown(tool, cooldown) ==
  IF cooldown = 0 THEN DefaultConfig.cooldown[tool] ELSE cooldown

UpdateCooldown(cooling, tool, cooldown) ==
  IF EffectiveCooldown(tool, cooldown) = 0 THEN cooling ELSE cooling \cup {tool}

InCooldown(cooling, tool) == tool \in cooling

Executions(outputs, ends) ==
  {[end |-> "output", output |-> o] : o \in outputs}
    \cup {[end |-> e, output |-> <<>>] : e \in ends \cap {"timeout", "missing", "error"}}

----------------------------------------------------------------------------
(* The results.  report is the file at report_path: the detections with    *)
(* the frames that are in the output files beside it, and gdb's stack.     *)

ResultFailure(finding, id, tool, status, available) ==
  [id |-> id, finding |-> finding, tool |-> tool, status |-> status,
   success |-> FALSE, available |-> available, confirmed |-> FALSE,
   detected |-> {}, report |-> <<>>, frames |-> <<>>]

TimeoutResult(finding, id, tool) ==
  ResultFailure(finding, id, tool, "Timeout", TRUE)

SuccessfulStatus_Clean(detected) == "Clean"        \* mutant
SuccessfulStatus(detected) == IF detected = {} THEN "Clean" ELSE "Findings"

Successful(finding, id, tool, report, output) ==
  LET detected == DetectedClasses(report)
  IN [id |-> id, finding |-> finding, tool |-> tool,
      status |-> SuccessfulStatus(detected),
      success |-> TRUE, available |-> TRUE, confirmed |-> report # <<>>,
      detected |-> detected,
      report |-> [k \in DOMAIN report |->
                    report[k] @@ AttachToolFrames(tool, output, report[k])],
      frames |-> [k \in DOMAIN Frames(output) |-> Frames(output)[k].at]]

(* The end of the executions that the tools have in common. *)
Executed(finding, id, tool, run, report) ==
  CASE run.end = "output" -> Successful(finding, id, tool, report, run.output)
    [] run.end = "timeout" -> TimeoutResult(finding, id, tool)
    [] OTHER -> None

NotApplicable(finding, id, tool) ==
  ResultFailure(finding, id, tool, "NotApplicable", TRUE)

(* built: the sanitizers whose runtime the bytes of the binary mention.    *)
RunAsanBinary(finding, id, built, run) ==
  IF "asan" \notin built THEN NotApplicable(finding, id, "asan")
  ELSE Executed(finding, id, "asan", run, ParseAsan(run.output))

RunLsanBinary(finding, id, built, run) ==
  IF "lsan" \notin built THEN NotApplicable(finding, id, "lsan")
  ELSE Executed(finding, id, "lsan", run, ParseLsan(run.output))

RunUbsanBinary(finding, id, built, run) ==
  IF "ubsan" \notin built THEN NotApplicable(finding, id, "ubsan")
  ELSE Executed(finding, id, "ubsan", run, ParseUbsan(run.output))

Unavailable(finding, id, tool) ==
  ResultFailure(finding, id, tool, "ToolUnavailable", FALSE)

RunValgrindBinary(finding, id, run) ==
  IF run.end = "missing" THEN Unavailable(finding, id, "valgrind")
  ELSE Executed(finding, id, "valgrind", run, ParseValgrind(run.output))

RunGdbBinary(finding, id, run) ==
  IF run.end = "missing" THEN Unavailable(finding, id, "gdb")
  ELSE Executed(finding, id, "gdb", run, ParseGdb(run.output))

RunBinary(finding, id, tool, built, run) ==
  CASE tool = "asan" -> RunAsanBinary(finding, id, built, run)
    [] tool = "lsan" -> RunLsanBinary(finding, id, built, run)
    [] tool = "ubsan" -> RunUbsanBinary(finding, id, built, run)
    [] tool = "valgrind" -> RunValgrindBinary(finding, id, run)
    [] tool = "gdb" -> RunGdbBinary(finding, id, run)

----------------------------------------------------------------------------
(* The two entries.  exists: the files that are there, of the captured     *)
(* binary and the original one.                                            *)

(* find_binary *)
FindBinary(exists) == exists # {}

(* escalate, for a finding, and the run_..._result of its tool.  The       *)
(* cooldown has been looked at before.                                     *)
Escalated(finding, id, tool, built, exists, run) ==
  IF tool \notin Tools \cap DefaultConfig.enabled
    THEN ResultFailure(finding, id, tool, "Failed", FALSE)
  ELSE IF ~FindBinary(exists) THEN None
  ELSE RunBinary(finding, id, tool, built, run)

(* check_clean_binary: no finding, the original binary, and never gdb. *)
CleanChecked(id, tool, built, exists, run) ==
  IF tool \notin (Tools \ {"gdb"}) \cap DefaultConfig.enabled
    THEN ResultFailure(CleanRun, id, tool, "Failed", FALSE)
  ELSE IF "original" \notin exists THEN None
  ELSE RunBinary(CleanRun, id, tool, built, run)

============================================================================
