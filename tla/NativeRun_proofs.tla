-------------------------- MODULE NativeRun_proofs --------------------------
(***************************************************************************)
(* A native run keeps the rules that Agent asks of its environment, and so *)
(* has all that Agent_proofs shows of the agent; the target runs under     *)
(* observation only, and a result is true.  For any processes, events and  *)
(* descriptors, with and without a timeout.                                *)
(***************************************************************************)
EXTENDS NativeRun, Agent_proofs

(* Where the target is at each stage of rerun. *)
TargetStages ==
  /\ rpc \in {"prepare", "fork"} => proc = "none"
  /\ rpc \in {"spawn", "awaitReady", "resume"} => proc = "stopped"
  /\ rpc = "wait" => proc \in {"running", "zombie"}
  /\ rpc = "reap" => proc = "zombie" /\ CanTimeOut
  /\ rpc \in {"grace", "terminate", "awaitAgent", "finalize", "ok"} => proc = "reaped"
  /\ proc = "reaped" <=> gone
  /\ proc = "zombie" => death \in Deaths

(* Where the agent is. *)
AgentStages ==
  /\ apc = "off" => rpc \in {"prepare", "fork", "spawn", "failed"}
  /\ rpc \in {"prepare", "fork", "spawn"} => apc = "off"
  /\ apc = "killed" => rpc \in {"finalize", "ok", "failed"}
  /\ rpc \in {"resume", "wait"} => apc \notin {"starting", "failed"}
  /\ rpc = "awaitAgent" => Ended \/ stop
  /\ rpc \in {"finalize", "ok"} => Ended

ResultRight ==
  /\ rpc \notin {"prepare", "failed"} => ~stale
  /\ rpc \in {"grace", "terminate", "awaitAgent", "finalize", "ok"} =>
       /\ result \in Results
       /\ result.exit = death \/ (result.exit = "timeout" /\ CanTimeOut)
  /\ rpc = "ok" =>
       /\ ~result.earlier
       /\ result.exit = "named" => result.count > 0
       /\ result.crash => findings = <<>> /\ result.exit = "named"
       /\ result.count = Len(findings) + (IF result.crash THEN 1 ELSE 0)

RunTypes ==
  /\ rpc \in Stages
  /\ timeout \in BOOLEAN /\ late \in BOOLEAN /\ stale \in BOOLEAN
  /\ proc \in {"none", "stopped", "running", "zombie", "reaped"}
  /\ death \in Deaths \cup {None}
  /\ result \in Results \cup {None}

RunInv ==
  /\ AgentInv
  /\ RunTypes
  /\ TargetStages
  /\ AgentStages
  /\ ResultRight

LEMMA RunInitInv == NativeInit => RunInv
<1> SUFFICES ASSUME NativeInit PROVE RunInv
  OBVIOUS
<1>1. AgentInv
  BY AgentInitInv DEF NativeInit
<1>2. RunTypes /\ TargetStages /\ AgentStages /\ ResultRight
  BY DEF NativeInit, AgentInit, RunTypes, Stages, TargetStages, AgentStages, ResultRight
<1>3. QED
  BY <1>1, <1>2 DEF RunInv

(* What the agent and the other processes do to the agent's place, its     *)
(* stop flag and the target.                                               *)
LEMMA AgentMoves ==
  ASSUME AgentStep \/ OthersStep
  PROVE  /\ gone' = gone
         /\ apc' = apc \/ (apc' = "failed" /\ apc = "starting")
              \/ (apc \notin {"off", "failed", "done", "killed"}
                    /\ apc' \notin {"off", "starting", "failed", "killed"})
         /\ stop => stop'
<1> USE DEF Goto
<1>1. CASE AgentStep
  <2>1. CASE Ready \/ LoopHead \/ Wake
    BY <2>1 DEF Ready, LoopHead, Wake, world
  <2>2. CASE AfterPoll
    BY <2>2 DEF AfterPoll, world
  <2>3. CASE Final \/ ScanEnd
    BY <2>3 DEF Final, FinalPoll, ScanEnd, world
  <2>4. CASE Process \/ FinalProcess
    BY <2>4 DEF Process, FinalProcess, Take
  <2>5. CASE \E d \in Descriptors : LeakScan(d)
    BY <2>5 DEF LeakScan, world
  <2>6. QED
    BY <1>1, <2>1, <2>2, <2>3, <2>4, <2>5 DEF AgentStep
<1>2. CASE OthersStep
  BY <1>2 DEF OthersStep, SubmitEvent, OpenDescriptor, CloseDescriptor, BinaryChanges,
              DrainDeadline, loop
<1>3. QED
  BY <1>1, <1>2

(* Every step of the session is a step that Agent allows, or none.         *)
LEMMA AgentView ==
  ASSUME RunInv, [NativeNext]_vars
  PROVE  AgentNext \/ UNCHANGED agentVars
<1>1. CASE StartTargetPaused
  BY <1>1 DEF StartTargetPaused, AgentNext
<1>2. CASE StartAgent
  BY <1>2 DEF StartAgent, AgentNext
<1>3. CASE WaitExit \/ ReapKilled
  BY <1>3 DEF WaitExit, ReapKilled, ReapTarget, AgentNext
<1>4. CASE SignalAgent
  <2>1. ~Ended => Probing
    BY <1>4 DEF SignalAgent, RunInv, AgentStages, Ended, Probing
  <2>2. gone
    BY <1>4 DEF SignalAgent, RunInv, TargetStages
  <2>3. QED
    BY <1>4, <2>1, <2>2 DEF SignalAgent, Sigterm, Terminate, AgentNext
<1>5. CASE AwaitAgent
  <2>1. ~Ended => Probing /\ stop
    BY <1>5 DEF AwaitAgent, RunInv, AgentStages, Ended, Probing
  <2>2. QED
    BY <1>5, <2>1 DEF AwaitAgent, AgentOver, Sigkill, Kill, Goto, AgentNext
<1>6. CASE AgentRuns \/ TargetRuns
  BY <1>6 DEF AgentRuns, TargetRuns, AgentNext
<1>7. CASE PrepareOutput \/ WaitForAgentReady \/ ResumeTarget \/ WaitFails \/ KillTarget \/ Grace
            \/ Finalize
  BY <1>7 DEF PrepareOutput, WaitForAgentReady, ResumeTarget, WaitFails, KillTarget, Grace, Finalize
<1>8. CASE TargetEnds \/ Clock \/ TracerGone \/ UNCHANGED vars
  BY <1>8 DEF TargetEnds, Clock, TracerGone, vars
<1>9. QED
  BY <1>1, <1>2, <1>3, <1>4, <1>5, <1>6, <1>7, <1>8 DEF NativeNext, Rerun

(* Once rerun finalizes, the agent is over and writes nothing.             *)
LEMMA QuietAfter ==
  ASSUME RunInv, [NativeNext]_vars, rpc \in {"finalize", "ok"}
  PROVE  UNCHANGED findings
<1>1. apc \in {"done", "killed", "failed"} /\ proc = "reaped"
  BY DEF RunInv, AgentStages, TargetStages, Ended
<1>2. CASE AgentRuns
  <2>1. ~AgentStep
    BY <1>1 DEF AgentStep, Ready, LoopHead, Wake, Process, AfterPoll, Final, FinalProcess,
                ScanEnd, LeakScan
  <2>2. QED
    BY <1>1, <1>2, <2>1 DEF AgentRuns, OthersStep, SubmitEvent, OpenDescriptor,
                            CloseDescriptor, BinaryChanges, DrainDeadline, Probing
<1>3. CASE Rerun \/ WaitFails
  BY <1>3 DEF Rerun, PrepareOutput, StartTargetPaused, StartAgent, WaitForAgentReady,
              ResumeTarget, WaitExit, WaitFails, KillTarget, ReapKilled, Grace, SignalAgent,
              AwaitAgent, Finalize, agentVars, memory, report
<1>4. CASE TargetRuns \/ TargetEnds \/ Clock \/ TracerGone \/ UNCHANGED vars
  BY <1>1, <1>4 DEF TargetRuns, TargetEnds, Clock, TracerGone, vars, agentVars, memory, report
<1>5. QED
  BY <1>2, <1>3, <1>4 DEF NativeNext

(* rerun's own steps and those of the target, the agent standing still     *)
(* except where the step is about it.                                      *)
LEMMA RunStepInv == RunInv /\ [NativeNext]_vars => RunInv'
<1> SUFFICES ASSUME RunInv, [NativeNext]_vars PROVE RunInv'
  OBVIOUS
<1>0. AgentInv'
  BY AgentView, AgentStepInv DEF RunInv
<1> USE DEF RunInv, RunTypes, TargetStages, AgentStages, ResultRight, Ended, CanTimeOut,
            Goes, Fail, Stages, Deaths, agentVars, world, loop
<1>a. rpc = "ok" => findings' = findings
  BY QuietAfter
<1>1. CASE PrepareOutput
  BY <1>0, <1>1 DEF PrepareOutput, LeftOver
<1>2. CASE StartTargetPaused
  BY <1>0, <1>2 DEF StartTargetPaused, TargetReaped
<1>3. CASE StartAgent
  BY <1>0, <1>3 DEF StartAgent, Start, Goto
<1>4. CASE WaitForAgentReady
  BY <1>0, <1>4 DEF WaitForAgentReady, ReadyLine
<1>5. CASE ResumeTarget
  BY <1>0, <1>5 DEF ResumeTarget
<1>6. CASE WaitExit
  <2>1. result' \in Results /\ result'.exit = death
    BY <1>6 DEF WaitExit, Results
  <2>2. QED
    BY <1>0, <1>6, <2>1 DEF WaitExit, ReapTarget, TargetReaped
<1>7. CASE WaitFails \/ KillTarget
  BY <1>0, <1>7 DEF WaitFails, KillTarget, TimeOut
<1>8. CASE ReapKilled
  <2>1. result' \in Results /\ result'.exit = "timeout"
    BY <1>8 DEF ReapKilled, Results
  <2>2. QED
    BY <1>0, <1>8, <2>1 DEF ReapKilled, ReapTarget, TargetReaped
<1>9. CASE Grace
  BY <1>0, <1>9 DEF Grace
<1>10. CASE SignalAgent
  BY <1>0, <1>10 DEF SignalAgent, Sigterm
<1>11. CASE AwaitAgent
  BY <1>0, <1>11 DEF AwaitAgent, AgentOver, Sigkill
<1>12. CASE Finalize
  <2>1. CASE Goes("ok")
    <3>1. /\ result \in Results /\ ~stale /\ Len(findings) \in Nat
          /\ findings # <<>> => Len(findings) > 0
          /\ findings' = findings
      BY <1>12 DEF Finalize, AgentInv, AgentTypeOK, memory, report
    <3>2. result' = [result EXCEPT !.earlier = stale, !.crash = CrashFinding,
                       !.count = Len(findings) + (IF CrashFinding THEN 1 ELSE 0)]
      BY <1>12, <2>1 DEF Finalize
    <3>3. CrashFinding \in BOOLEAN
      BY DEF CrashFinding
    <3> DEFINE count == Len(findings) + (IF CrashFinding THEN 1 ELSE 0)
    <3>4. count \in Nat
      BY <3>1
    <3>5. result' = [exit |-> result.exit, earlier |-> stale, crash |-> CrashFinding,
                     count |-> count]
      BY <3>1, <3>2 DEF Results
    <3>6. /\ result' \in Results /\ result'.exit = result.exit /\ ~result'.earlier
          /\ result'.count = count /\ result'.crash = CrashFinding
      BY <3>1, <3>3, <3>4, <3>5 DEF Results
    <3>7. /\ result'.exit = "named" => result'.count > 0
          /\ result'.crash => findings' = <<>> /\ result'.exit = "named"
          /\ result'.count = Len(findings') + (IF result'.crash THEN 1 ELSE 0)
      <4>1. CASE CrashFinding
        <5>1. findings = <<>> /\ result.exit = "named" /\ count = Len(findings) + 1
          BY <4>1 DEF CrashFinding
        <5>2. QED
          BY <3>1, <3>6, <4>1, <5>1
      <4>2. CASE ~CrashFinding
        <5>1. count = Len(findings) /\ (result.exit = "named" => findings # <<>>)
          BY <3>1, <4>2 DEF CrashFinding
        <5>2. QED
          BY <3>1, <3>6, <4>2, <5>1
      <4>3. QED
        BY <4>1, <4>2
    <3>8. QED
      BY <1>0, <1>12, <2>1, <3>6, <3>7 DEF Finalize
  <2>2. CASE result' = None /\ Fail
    BY <1>0, <1>12, <2>2 DEF Finalize
  <2>3. QED
    BY <1>12, <2>1, <2>2 DEF Finalize
<1>13. CASE AgentRuns
  <2>1. UNCHANGED runVars /\ rpc \notin {"ok", "failed"} /\ (AgentStep \/ OthersStep)
    BY <1>13 DEF AgentRuns, Session
  <2>2. RunTypes' /\ TargetStages' /\ ResultRight'
    BY <1>a, <2>1, AgentMoves DEF runVars
  <2>3. AgentStages'
    BY <2>1, AgentMoves DEF runVars
  <2>4. QED
    BY <1>0, <2>2, <2>3
<1>14. CASE TargetRuns
  <2>1. UNCHANGED runVars /\ UNCHANGED <<gone, apc, stop>>
    BY <1>14 DEF TargetRuns, Session, TargetWorks, SubmitEvent, OpenDescriptor, CloseDescriptor
  <2>2. QED
    BY <1>0, <1>a, <2>1 DEF runVars
<1>15. CASE TargetEnds
  BY <1>0, <1>a, <1>15 DEF TargetEnds
<1>16. CASE Clock
  BY <1>0, <1>a, <1>16 DEF Clock
<1>17. CASE TracerGone
  BY <1>0, <1>a, <1>17 DEF TracerGone
<1>18. CASE UNCHANGED vars
  BY <1>0, <1>a, <1>18 DEF vars, runVars
<1>19. QED
  BY <1>1, <1>2, <1>3, <1>4, <1>5, <1>6, <1>7, <1>8, <1>9, <1>10, <1>11, <1>12, <1>13,
     <1>14, <1>15, <1>16, <1>17, <1>18 DEF NativeNext, Rerun

LEMMA RunAlways == NativeSpec => []RunInv
<1>1. RunInv /\ [NativeNext]_vars => RunInv'
  BY RunStepInv
<1>2. QED
  BY RunInitInv, <1>1, PTL DEF NativeSpec

(* A session is an environment in which Agent_proofs holds.                *)
THEOREM SessionIsAgent == NativeSpec => AgentEnvironment
<1>1. NativeInit => AgentInit
  BY DEF NativeInit
<1>2. RunInv /\ [NativeNext]_vars => [AgentNext]_agentVars
  BY AgentView
<1>3. QED
  BY <1>1, <1>2, RunAlways, PTL DEF NativeSpec, AgentEnvironment, AgentSpec

(* Every variable of a session keeps its type.                             *)
THEOREM SessionTypes == NativeSpec => []TypeOK
<1>1. RunInv => TypeOK
  BY DEF RunInv, RunTypes, AgentInv, TypeOK
<1>2. QED
  BY <1>1, RunAlways, PTL

(* What Agent_proofs shows of the agent it shows of the agent of a session.*)
THEOREM SessionReportsRight ==
  NativeSpec => [](ReportedOnce /\ NoSecondCause /\ NoForeignFinding /\ AllJudged)
BY SessionIsAgent, EachReportedOnce, CausesOnly, OursOnly, NothingUnjudged, PTL
   DEF AgentEnvironment

(* Until rerun gives up, the target runs only while the probes are attached*)
(* and the agent is alive.                                                 *)
THEOREM TargetObserved == NativeSpec => []UnderObservation
<1>1. RunInv => UnderObservation
  BY DEF RunInv, RunTypes, Stages, TargetStages, AgentStages, AgentInv, Shutdown, AgentTypeOK,
         Where, UnderObservation, Probing
<1>2. QED
  BY <1>1, RunAlways, PTL

(* A result comes when target and agent are over, and tells the truth.     *)
THEOREM ResultsAreTrue == NativeSpec => []ResultTruthful
<1>1. RunInv => ResultTruthful
  BY DEF RunInv, RunTypes, TargetStages, AgentStages, ResultRight, ResultTruthful, Ended, CanTimeOut
<1>2. QED
  BY <1>1, RunAlways, PTL

(* No agent writes findings.json once rerun has begun to read it.          *)
THEOREM NobodyWrites == NativeSpec => FinalizeQuiet
<1>1. RunInv /\ [NativeNext]_vars => ((rpc \in {"finalize", "ok"}) => UNCHANGED findings)
  BY QuietAfter
<1>2. QED
  BY <1>1, RunAlways, PTL DEF NativeSpec, FinalizeQuiet
=============================================================================
