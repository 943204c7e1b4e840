----------------------------- MODULE NativeRun -----------------------------
(***************************************************************************)
(* A native run (recompile/rerun/src/native.rs, run_native_with_options):  *)
(* rerun starts the target stopped, starts the agent beside it, resumes    *)
(* the target when the agent is ready, waits for it, lets the agent drain, *)
(* stops the agent and turns findings.json into the result.                *)
(*                                                                         *)
(* Agent is the other half of the composition: what it and the host do     *)
(* between any two steps of rerun is any step of that module.              *)
(***************************************************************************)
EXTENDS Agent

VARIABLES
  rpc,      \* where run_native_with_options is
  timeout,  \* options.timeout is given
  late,     \* that time has passed since the target was resumed
  stale,    \* the output directory holds the files of an earlier run
  proc,     \* the target process
  death,    \* how it ended
  result    \* the NativeRunResult

runVars == <<rpc, timeout, late, stale, proc, death, result>>
vars == <<agentVars, runVars>>

Stages == {"prepare", "fork", "spawn", "awaitReady", "resume", "wait", "reap",
           "grace", "terminate", "awaitAgent", "finalize", "ok", "failed"}
(* "named" is a death by one of the signals that observed_signal_name      *)
(* knows (SEGV, ABRT, BUS, FPE), "signal" one by another.                  *)
Deaths == {"success", "failure", "named", "signal"}

Results == [exit : Deaths \cup {"timeout"}, earlier : BOOLEAN,
            crash : BOOLEAN, count : Nat]

TypeOK ==
  /\ AgentTypeOK
  /\ rpc \in Stages
  /\ timeout \in BOOLEAN /\ late \in BOOLEAN /\ stale \in BOOLEAN
  /\ proc \in {"none", "stopped", "running", "zombie", "reaped"}
  /\ death \in Deaths \cup {None}
  /\ result \in Results \cup {None}

NativeInit ==
  /\ AgentInit
  /\ rpc = "prepare" /\ timeout \in BOOLEAN /\ late = FALSE
  /\ stale \in BOOLEAN
  /\ proc = "none" /\ death = None /\ result = None

----------------------------------------------------------------------------
(* Before the target runs.  Each step of rerun either does its work or ends*)
(* the run with an error; what was started by then is left as it is.       *)

Goes(stage) == rpc' = stage
Fail == Goes("failed")

(* prepare_output_dir *)
LeftOver_Kept == stale                             \* mutant
LeftOver == FALSE

PrepareOutput ==
  /\ rpc = "prepare"
  /\ \/ stale' = LeftOver /\ Goes("fork")
     \/ UNCHANGED stale /\ Fail
  /\ UNCHANGED <<agentVars, timeout, late, proc, death, result>>

(* start_target_paused: after an exec that fails the child is reaped. *)
StartTargetPaused ==
  /\ rpc = "fork"
  /\ \/ proc' = "stopped" /\ Goes("spawn") /\ UNCHANGED agentVars
     \/ proc' = "reaped" /\ Fail /\ TargetReaped
     \/ UNCHANGED <<proc, agentVars>> /\ Fail
  /\ UNCHANGED <<timeout, late, stale, death, result>>

StartAgent ==
  /\ rpc = "spawn"
  /\ \/ Start /\ Goes("awaitReady")
     \/ UNCHANGED agentVars /\ Fail
  /\ UNCHANGED <<timeout, late, stale, proc, death, result>>

(* wait_for_agent_ready: the agent must not have exited, and the debug log *)
(* must hold the line "ready", which a log left over would hold as well.   *)
ReadyLine == stale \/ apc \notin {"starting", "failed"}

WaitForAgentReady ==
  /\ rpc = "awaitReady"
  /\ \/ apc # "failed" /\ ReadyLine /\ Goes("resume")
     \/ apc = "failed" /\ Fail
     \/ ~ReadyLine /\ Fail                         \* ten seconds
  /\ UNCHANGED <<agentVars, timeout, late, stale, proc, death, result>>

ResumeTarget ==
  /\ rpc = "resume"
  /\ \/ proc' = "running" /\ Goes("wait")
     \/ UNCHANGED proc /\ Fail
  /\ UNCHANGED <<agentVars, timeout, late, stale, death, result>>

----------------------------------------------------------------------------
(* The target runs.                                                        *)

CanTimeOut == timeout /\ late

ReapTarget_NotWaited == UNCHANGED <<proc, agentVars>>   \* mutant
ReapTarget == proc' = "reaped" /\ TargetReaped

(* wait_for_exit_with_timeout: the poll looks for the exit first, then at  *)
(* the clock; the target may end in between.                               *)
WaitExit ==
  /\ rpc = "wait" /\ proc = "zombie"
  /\ ReapTarget
  /\ Goes("grace")
  /\ result' = [exit |-> death, earlier |-> FALSE, crash |-> FALSE, count |-> 0]
  /\ UNCHANGED <<timeout, late, stale, death>>

(* waitpid fails otherwise than by a signal to rerun.  (After the SIGKILL  *)
(* its error is ignored; the child it has just found running is still one.)*)
WaitFails ==
  /\ rpc = "wait"
  /\ Fail
  /\ UNCHANGED <<agentVars, timeout, late, stale, proc, death, result>>

(* waitpid has found the target running and the time has passed: SIGKILL,  *)
(* which does nothing to a target that has ended since.                    *)
TimeOut_Off == FALSE                               \* mutant
TimeOut == CanTimeOut

KillTarget ==
  /\ rpc = "wait" /\ TimeOut
  /\ proc' = "zombie"
  /\ death' = IF proc = "running" THEN "signal" ELSE death
  /\ Goes("reap")
  /\ UNCHANGED <<agentVars, timeout, late, stale, result>>

ReapKilled ==
  /\ rpc = "reap"
  /\ ReapTarget
  /\ Goes("grace")
  /\ result' = [exit |-> "timeout", earlier |-> FALSE, crash |-> FALSE, count |-> 0]
  /\ UNCHANGED <<timeout, late, stale, death>>

(* The outcome goes to console.log, which may fail; then one second, in    *)
(* which the agent drains.                                                 *)
Grace ==
  /\ rpc = "grace"
  /\ \/ Goes("terminate") /\ UNCHANGED result
     \/ Fail /\ result' = None
  /\ UNCHANGED <<agentVars, timeout, late, stale, proc, death>>

----------------------------------------------------------------------------
(* terminate_agent_gracefully *)

Ended == apc \in {"done", "killed", "failed"}

Sigterm == stop' = TRUE /\ UNCHANGED <<world, memory, apc, rb, target_exit_drain_started, scan>>
Sigkill == apc' = "killed" /\ UNCHANGED <<world, memory, rb, stop, target_exit_drain_started, scan>>

SignalAgent ==
  /\ rpc = "terminate"
  /\ IF Ended THEN UNCHANGED agentVars ELSE Sigterm
  /\ Goes("awaitAgent")
  /\ UNCHANGED <<timeout, late, stale, proc, death, result>>

(* It is given ten seconds to end, then killed and reaped. *)
AgentOver_Signalled == stop                        \* mutant
AgentOver == Ended

AwaitAgent ==
  /\ rpc = "awaitAgent"
  /\ IF AgentOver THEN UNCHANGED agentVars ELSE Sigkill
  /\ Goes("finalize")
  /\ UNCHANGED <<timeout, late, stale, proc, death, result>>

----------------------------------------------------------------------------
(* finalize_findings_with_crash: without any finding, a death by a signal  *)
(* it has a name for becomes one.                                          *)

CrashFinding_Never == FALSE                        \* mutant
CrashFinding == ~stale /\ findings = <<>> /\ result.exit = "named"

Finalize ==
  /\ rpc = "finalize"
  /\ \/ /\ result' = [result EXCEPT !.earlier = stale, !.crash = CrashFinding,
                                    !.count = Len(findings) + (IF CrashFinding THEN 1 ELSE 0)]
        /\ Goes("ok")
     \/ result' = None /\ Fail
  /\ UNCHANGED <<agentVars, timeout, late, stale, proc, death>>

Rerun ==
  \/ PrepareOutput \/ StartTargetPaused \/ StartAgent \/ WaitForAgentReady
  \/ ResumeTarget \/ WaitExit \/ KillTarget \/ ReapKilled \/ Grace
  \/ SignalAgent \/ AwaitAgent \/ Finalize

----------------------------------------------------------------------------
(* The rest of the world: the agent, the other processes, the target and   *)
(* the clock.                                                              *)

(* What a failed run leaves behind is not followed. *)
Session == rpc \notin {"ok", "failed"} /\ UNCHANGED runVars

AgentRuns == Session /\ (AgentStep \/ OthersStep)

TargetRuns == Session /\ proc = "running" /\ TargetWorks

TargetEnds ==
  /\ proc = "running"
  /\ proc' = "zombie" /\ death' \in Deaths
  /\ UNCHANGED <<agentVars, rpc, timeout, late, stale, result>>

Clock ==
  /\ rpc = "wait" /\ timeout /\ ~late
  /\ late' = TRUE
  /\ UNCHANGED <<agentVars, rpc, timeout, stale, proc, death, result>>

(* A target that is still stopped when rerun gives up runs on once its     *)
(* tracer is gone.                                                         *)
TracerGone ==
  /\ rpc = "failed" /\ proc = "stopped"
  /\ proc' = "running"
  /\ UNCHANGED <<agentVars, rpc, timeout, late, stale, death, result>>

NativeNext ==
  Rerun \/ WaitFails \/ AgentRuns \/ TargetRuns \/ TargetEnds \/ Clock \/ TracerGone

(* rerun's thread and the clock go on.  Nothing is asked of the agent or of*)
(* the target: either may be slow, or never end.  waitpid need not fail.   *)
NativeSpec == NativeInit /\ [][NativeNext]_vars /\ WF_vars(Rerun) /\ WF_vars(Clock)

----------------------------------------------------------------------------
(* Properties.                                                             *)

(* As long as rerun has not given up, the target never runs without an     *)
(* agent whose probes are attached: a ready line of an earlier run, or an  *)
(* agent that ends early, must not let it go.                              *)
UnderObservation == proc = "running" /\ rpc # "failed" => Probing /\ apc # "starting"

(* A result is given when target and agent are over.  It holds nothing of  *)
(* an earlier run, and tells how the target ended or that its time had     *)
(* passed.  Its findings are those of findings.json, to which only the     *)
(* crash itself is added, when there is nothing else: a result that tells  *)
(* of a death by SEGV, ABRT, BUS or FPE is never empty.  (One that tells of*)
(* the timeout may be, though the target died of such a signal at the last *)
(* moment: wait_for_exit_with_timeout throws away how it ended.)           *)
ResultTruthful ==
  rpc = "ok" =>
    /\ gone /\ Ended
    /\ ~result.earlier
    /\ result.exit = death \/ (result.exit = "timeout" /\ CanTimeOut)
    /\ result.exit = "named" => result.count > 0
    /\ result.crash => findings = <<>> /\ death = "named"
    /\ result.count = Len(findings) + (IF result.crash THEN 1 ELSE 0)

(* Nobody writes findings.json while rerun reads and rewrites it, or after.*)
FinalizeQuiet ==
  [][(rpc \in {"finalize", "ok"}) => UNCHANGED findings]_vars

(* The agent's view: it is asked to stop only when the target is no more,  *)
(* killed only after it was asked, and started once.                       *)
AgentEnvironment == AgentSpec

(* A run comes to an end, with a result or an error, whatever the agent    *)
(* does; without a timeout it may wait for a target that runs for ever.    *)
SessionEnds ==
  <>(rpc \in {"ok", "failed"}) \/ <>[](proc = "running" /\ ~timeout)

============================================================================
