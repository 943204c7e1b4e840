------------------------------- MODULE Agent -------------------------------
(***************************************************************************)
(* The agent (recompile/runtime/agent/re-mini.c) as rerun starts it, with  *)
(* --heap, --pid and --binary: it attaches the probes, takes events from   *)
(* the ring, judges them, and reports the descriptors left open at the end.*)
(*                                                                         *)
(* The process table, the programs under the probes and rerun are the      *)
(* environment.  C++ probes and tracepoints are not bound to the target,   *)
(* so events and descriptors of other processes arrive as well.            *)
(***************************************************************************)
EXTENDS Naturals, Sequences, FiniteSets, Functions

CONSTANTS
  Target,          \* --pid
  Self,            \* the agent's own pid
  Others,          \* other processes on the host
  SameBinary,      \* those of them that run the target's binary at some time
  Events,          \* events the probes can submit
  Descriptors,     \* records that open_fds can get
  MaxTrackedPids,  \* MAX_TRACKED_PIDS
  MaxEmitted,      \* MAX_EMITTED_FINDINGS
  MaxEvents,       \* bound: events and open descriptors
  None

Pids == Others \cup {Target, Self}

(* What on_sentinel_event tells apart.  "benign" stands for every event it *)
(* drops at once: allocations, releases in order, writes that fit.         *)
(* "inDelete" is a double free that libstdc++'s delete raises with free.   *)
EventKinds == {"benign", "overflow", "double", "inDelete", "invalid",
               "mismatch", "doubleClose", "invalidClose"}
FindingKinds == (EventKinds \ {"benign", "inDelete"}) \cup {"leak"}

ASSUME ConstantsAssumption ==
  /\ IsFiniteSet(Others)
  /\ Target # Self /\ {Target, Self} \cap Others = {}
  /\ SameBinary \subseteq Others
  /\ \A e \in Events : e.pid \in Pids /\ e.kind \in EventKinds
  /\ \A d \in Descriptors : d.pid \in Pids
  /\ \A d \in Descriptors : None # <<d.pid, d.fd>>
  /\ MaxTrackedPids \in Nat \ {0} /\ MaxEmitted \in Nat \ {0}
  /\ MaxEvents \in Nat

VARIABLES
  (* the environment *)
  gone,             \* the target no longer exists (reaped)
  ours,             \* the others that run the target's binary now
  ring,             \* sentinel_events
  open_fds,         \* the map of open descriptors
  budget,           \* events and open descriptors still to come
  sent,             \* ghost: events that the target submitted
  expired,          \* the drain deadline has passed
  (* the agent *)
  apc,              \* where the agent is
  rb,               \* it has a ring to poll
  stop,
  target_exit_drain_started,
  tracked_pids,     \* table of the processes seen, verdicts included
  matched,          \* ghost: pids that ran the binary when one of their
                    \* events or descriptors was judged
  emitted_findings, \* the latest findings, by slot
  emitted_finding_next,
  scan,             \* the leak scan: the key it is at and those it has seen
  findings,         \* findings.json
  reported,         \* ghost: all findings reported, written or not
  lost              \* ghost: those of them that could not be written

world == <<gone, ours, ring, open_fds, budget, sent, expired>>
report == <<emitted_findings, emitted_finding_next, findings, reported, lost>>
memory == <<tracked_pids, matched, report>>
loop == <<apc, rb, stop, target_exit_drain_started, scan>>
agentVars == <<world, memory, loop>>

(* In "wait" the agent is in epoll_wait, in "process" it empties the ring. *)
Where == {"off", "starting", "loop", "wait", "process", "after",
          "final", "finalProcess", "leaks", "done", "failed", "killed"}

(* A finding has the fields of struct emitted_finding_key.  `site' stands  *)
(* for the stacks, lengths and offsets.                                    *)
FindingOf(e) ==
  [kind |-> IF e.kind = "inDelete" THEN "double" ELSE e.kind,
   pid |-> e.pid, addr |-> e.addr, site |-> e.site]
LeakOf(d) ==
  [kind |-> "leak", pid |-> d.pid, addr |-> d.fd, site |-> d.site]
Findings == {FindingOf(e) : e \in {x \in Events : x.kind # "benign"}}
              \cup {LeakOf(d) : d \in Descriptors}

DescriptorKeys == {<<d.pid, d.fd>> : d \in Descriptors}
PidEntry == [pid : Pids, allowed : BOOLEAN]

AgentTypeOK ==
  /\ gone \in BOOLEAN /\ ours \subseteq SameBinary
  /\ ring \in Seq(Events)
  /\ open_fds \subseteq Descriptors
  /\ budget \in 0..MaxEvents
  /\ sent \subseteq Events
  /\ expired \in BOOLEAN /\ stop \in BOOLEAN /\ target_exit_drain_started \in BOOLEAN
  /\ apc \in Where /\ rb \in BOOLEAN
  /\ tracked_pids \in Seq(PidEntry) /\ Len(tracked_pids) <= MaxTrackedPids
  /\ matched \subseteq SameBinary
  /\ emitted_findings \in Seq(Findings) /\ Len(emitted_findings) <= MaxEmitted
  /\ emitted_finding_next \in 0..(MaxEmitted - 1)
  /\ scan \in [prev : DescriptorKeys \cup {None}, seen : SUBSET DescriptorKeys]
  /\ findings \in Seq(Findings) /\ reported \in Seq(Findings)
  /\ lost \subseteq Findings

AgentInit ==
  /\ gone = FALSE /\ ours \in SUBSET SameBinary /\ ring = <<>> /\ open_fds = {}
  /\ budget = MaxEvents /\ sent = {} /\ expired = FALSE
  /\ apc = "off" /\ rb = FALSE /\ stop = FALSE /\ target_exit_drain_started = FALSE
  /\ tracked_pids = <<>> /\ matched = {}
  /\ emitted_findings = <<>> /\ emitted_finding_next = 0
  /\ scan = [prev |-> None, seen |-> {}]
  /\ findings = <<>> /\ reported = <<>> /\ lost = {}

----------------------------------------------------------------------------
(* Which processes are observed.                                           *)

SlotsOf(pid) == {i \in DOMAIN tracked_pids : tracked_pids[i].pid = pid}
WasAllowed(pid) == \E i \in SlotsOf(pid) : tracked_pids[i].allowed

(* get_pid_entry: no process leaves the table, and a full one admits none. *)
HasEntry(pid) == SlotsOf(pid) # {} \/ Len(tracked_pids) < MaxTrackedPids

(* /proc/PID/exe: what the pid runs now; a process that has ended has none.*)
exe_matches_binary(pid) == pid \in ours

(* ensure_pid_allowed.  A pid that was allowed is not looked at again,     *)
(* whatever it runs by now.                                                *)
Allowed_OnceSeen(pid) ==                           \* mutant
  HasEntry(pid) /\ pid # Self
    /\ (pid = Target \/ SlotsOf(pid) # {} \/ exe_matches_binary(pid))
Allowed(pid) ==
  /\ HasEntry(pid)
  /\ pid # Self
  /\ pid = Target \/ WasAllowed(pid) \/ exe_matches_binary(pid)

Remembered(pid) ==
  LET entry == [pid |-> pid, allowed |-> Allowed(pid)]
  IN IF SlotsOf(pid) # {}
       THEN [i \in DOMAIN tracked_pids |->
               IF i \in SlotsOf(pid) THEN entry ELSE tracked_pids[i]]
     ELSE IF HasEntry(pid) THEN Append(tracked_pids, entry)
     ELSE tracked_pids

----------------------------------------------------------------------------
(* Judging.                                                                *)

(* mark_finding_emitted: the oldest key makes room.                        *)
NextSlot_Stuck == emitted_finding_next             \* mutant
NextSlot_NoWrap == emitted_finding_next + 1        \* mutant
NextSlot == (emitted_finding_next + 1) % MaxEmitted

Marked(f) ==
  IF Len(emitted_findings) <= emitted_finding_next
    THEN Append(emitted_findings, f)
    ELSE [emitted_findings EXCEPT ![emitted_finding_next + 1] = f]

(* A finding whose key is remembered is dropped.  Another is remembered and*)
(* written to findings.json; that the file cannot be opened is only logged.*)
Emit(f) ==
  IF f \in Range(emitted_findings) THEN UNCHANGED report
    ELSE /\ emitted_findings' = Marked(f)
         /\ emitted_finding_next' = NextSlot
         /\ reported' = Append(reported, f)
         /\ \/ findings' = Append(findings, f) /\ UNCHANGED lost
            \/ lost' = lost \cup {f} /\ UNCHANGED findings

EmittedForAddr(kind, e) ==
  \E f \in Range(emitted_findings) :
    f.kind = kind /\ f.pid = e.pid /\ f.addr = e.addr

(* A release that follows from a finding about the same address.           *)
Secondary_Never(e) == FALSE                        \* mutant
Secondary(e) ==
  \/ e.kind = "invalid" /\ EmittedForAddr("overflow", e)
  \/ e.kind \in {"double", "inDelete"} /\ EmittedForAddr("mismatch", e)

Dropped(e) == e.kind \in {"benign", "inDelete"} \/ Secondary(e)

LookAt(pid) ==
  /\ tracked_pids' = Remembered(pid)
  /\ matched' = matched \cup ({pid} \cap ours)

on_sentinel_event(e) ==
  /\ LookAt(e.pid)
  /\ IF Allowed(e.pid) /\ ~Dropped(e) THEN Emit(FindingOf(e)) ELSE UNCHANGED report

----------------------------------------------------------------------------
(* main                                                                    *)

Goto(where) == apc' = where

(* The probes are attached, or the agent gives up.  Without a ring it goes *)
(* on all the same, and sleeps where it would poll.                        *)
Ready ==
  /\ apc = "starting"
  /\ \/ Goto("loop") /\ rb' \in BOOLEAN
     \/ Goto("failed") /\ UNCHANGED rb
  /\ UNCHANGED <<world, memory, stop, target_exit_drain_started, scan>>

(* The head of the loop.  A process is there until it has been reaped.     *)
LoopHead ==
  /\ apc = "loop"
  /\ IF stop THEN Goto("final") /\ UNCHANGED target_exit_drain_started
     ELSE /\ target_exit_drain_started' =
               (target_exit_drain_started \/ gone)
          /\ Goto("wait")
  /\ UNCHANGED <<world, memory, rb, stop, scan>>

(* ring_buffer__poll: wakes up for events, on a time-out, or because of the*)
(* signal; once it has begun it goes on until the ring is empty.           *)
Wake ==
  /\ apc = "wait"
  /\ \/ rb /\ ring # <<>> /\ Goto("process")
     \/ (~rb \/ ring = <<>> \/ stop) /\ Goto("after")
  /\ UNCHANGED <<world, memory, rb, stop, target_exit_drain_started, scan>>

Take(next) ==
  /\ IF ring # <<>>
       THEN /\ on_sentinel_event(Head(ring))
            /\ ring' = Tail(ring)
            /\ UNCHANGED apc
       ELSE Goto(next) /\ UNCHANGED <<memory, ring>>
  /\ UNCHANGED <<gone, ours, open_fds, budget, sent, expired, rb, stop,
                 target_exit_drain_started, scan>>

Process == apc = "process" /\ Take("after")

AfterPoll ==
  /\ apc = "after"
  /\ stop' = (stop \/ (target_exit_drain_started /\ expired))
  /\ Goto("loop")
  /\ UNCHANGED <<world, memory, rb, target_exit_drain_started, scan>>

(* The last poll, without waiting. *)
FinalPoll_Skipped == "leaks"                       \* mutant
FinalPoll == "finalProcess"

Final ==
  /\ apc = "final"
  /\ Goto(IF rb THEN FinalPoll ELSE "leaks")
  /\ UNCHANGED <<world, memory, rb, stop, target_exit_drain_started, scan>>

FinalProcess == apc = "finalProcess" /\ Take("leaks")

(* drain_fd_leaks: bpf_map_get_next_key starts again when the key it is    *)
(* given has been deleted.                                                 *)
Key(d) == <<d.pid, d.fd>>
OpenKeys == {Key(d) : d \in open_fds}
Seen == IF scan.prev = None \/ scan.prev \in OpenKeys THEN scan.seen ELSE {}

LeakScan(d) ==
  /\ apc = "leaks"
  /\ d \in open_fds /\ Key(d) \notin Seen
  /\ scan' = [prev |-> Key(d), seen |-> Seen \cup {Key(d)}]
  /\ LookAt(d.pid)
  /\ IF Allowed(d.pid) THEN Emit(LeakOf(d)) ELSE UNCHANGED report
  /\ UNCHANGED <<world, apc, rb, stop, target_exit_drain_started>>

ScanEnd ==
  /\ apc = "leaks"
  /\ OpenKeys \subseteq Seen
  /\ Goto("done")
  /\ UNCHANGED <<world, memory, rb, stop, target_exit_drain_started, scan>>

AgentStep ==
  \/ Ready \/ LoopHead \/ Wake \/ Process \/ AfterPoll
  \/ Final \/ FinalProcess \/ ScanEnd
  \/ \E d \in Descriptors : LeakScan(d)

----------------------------------------------------------------------------
(* The environment.                                                        *)

(* A pid of the others is always somebody's; the target's is not given away*)
(* again while the agent runs.                                             *)
Live(pid) == pid = Target => ~gone
Probing == apc \notin {"off", "failed", "killed", "done"}

(* A probe submits an event.  The target's are counted from then on. *)
SubmitEvent(e) ==
  /\ Probing /\ Live(e.pid) /\ budget > 0
  /\ ring' = Append(ring, e)
  /\ budget' = budget - 1
  /\ sent' = IF e.pid = Target THEN sent \cup {e} ELSE sent
  /\ UNCHANGED <<gone, ours, open_fds, expired, memory, loop>>

(* A key that is inserted during the scan may be behind it.                *)
OpenDescriptor(d) ==
  /\ Probing /\ Live(d.pid) /\ budget > 0
  /\ open_fds' = {x \in open_fds : Key(x) # Key(d)} \cup {d}
  /\ budget' = budget - 1
  /\ \/ UNCHANGED scan
     \/ apc = "leaks" /\ scan.prev # None
        /\ scan' = [scan EXCEPT !.seen = @ \cup {Key(d)}]
  /\ UNCHANGED <<gone, ours, ring, sent, expired, memory,
                 apc, rb, stop, target_exit_drain_started>>

CloseDescriptor(d) ==
  /\ Probing /\ Live(d.pid) /\ d \in open_fds
  /\ open_fds' = open_fds \ {d}
  /\ UNCHANGED <<gone, ours, ring, budget, sent, expired, memory, loop>>

(* An exec, an end, or a new process under the pid. *)
BinaryChanges(pid) ==
  /\ Probing
  /\ ours' = IF pid \in ours THEN ours \ {pid} ELSE ours \cup {pid}
  /\ UNCHANGED <<gone, ring, open_fds, budget, sent, expired, memory, loop>>

(* TARGET_EXIT_EVENT_DRAIN_MS have passed. *)
DrainDeadline ==
  /\ Probing /\ target_exit_drain_started /\ ~expired
  /\ expired' = TRUE
  /\ UNCHANGED <<gone, ours, ring, open_fds, budget, sent, memory, loop>>

(* What rerun does to the agent.  The signal comes when the target has been*)
(* reaped.                                                                 *)
Start ==
  /\ apc = "off" /\ Goto("starting")
  /\ UNCHANGED <<world, memory, rb, stop, target_exit_drain_started, scan>>

TargetReaped ==
  /\ Live(Target)
  /\ gone' = TRUE
  /\ UNCHANGED <<ours, ring, open_fds, budget, sent, expired, memory, loop>>

Terminate ==
  /\ Probing /\ gone
  /\ stop' = TRUE
  /\ UNCHANGED <<world, memory, apc, rb, target_exit_drain_started, scan>>

Kill ==
  /\ Probing /\ stop
  /\ Goto("killed")
  /\ UNCHANGED <<world, memory, rb, stop, target_exit_drain_started, scan>>

OthersStep ==
  \/ \E e \in Events : e.pid # Target /\ SubmitEvent(e)
  \/ \E d \in Descriptors : d.pid # Target /\ (OpenDescriptor(d) \/ CloseDescriptor(d))
  \/ \E pid \in SameBinary : BinaryChanges(pid)
  \/ DrainDeadline

TargetWorks ==
  \/ \E e \in Events : e.pid = Target /\ SubmitEvent(e)
  \/ \E d \in Descriptors : d.pid = Target /\ (OpenDescriptor(d) \/ CloseDescriptor(d))

AgentNext ==
  \/ AgentStep \/ OthersStep \/ TargetWorks
  \/ Start \/ TargetReaped \/ Terminate \/ Kill

AgentSpec == AgentInit /\ [][AgentNext]_agentVars

----------------------------------------------------------------------------
(* Properties.                                                             *)

Nearby(i, j) == i < j /\ j - i <= MaxEmitted

(* Of any MaxEmitted + 1 findings in a row no two are the same: a repeated *)
(* event is reported again only when that many others came in between      *)
(* (finding_already_emitted, mark_finding_emitted).                        *)
ReportedOnce ==
  \A i, j \in DOMAIN reported : Nearby(i, j) => reported[i] # reported[j]

(* After an overflow the invalid free of the address is not reported as a  *)
(* second cause, nor a double free after an allocator mismatch, until      *)
(* MaxEmitted other findings came in between (on_sentinel_event).          *)
NoSecondCause ==
  \A i, j \in DOMAIN reported :
    Nearby(i, j) /\ reported[i].pid = reported[j].pid
      /\ reported[i].addr = reported[j].addr
    => <<reported[i].kind, reported[j].kind>> \notin
         {<<"overflow", "invalid">>, <<"mismatch", "double">>}

(* Whatever order the events of the host come in, and whatever becomes of  *)
(* the processes meanwhile, no finding is about the agent itself, or about *)
(* a pid that has run another binary each time one of its events or        *)
(* descriptors was judged.  A pid found to run the target's binary once is *)
(* trusted from then on (ensure_pid_allowed).                              *)
NoForeignFinding ==
  \A i \in DOMAIN reported : reported[i].pid \in matched \cup {Target}

(* An agent that ends by itself has judged every event the target submitted*)
(* and every descriptor it left open: unless other processes filled the    *)
(* table first, or the agent has no ring to take events from, each that is *)
(* an error is in findings.json, or could not be written to it, or another *)
(* finding about the same address is in its place.                         *)
Explains(f, e) ==
  f.pid = e.pid /\ f.addr = e.addr
    /\ <<f.kind, e.kind>> \in {<<"overflow", "invalid">>, <<"mismatch", "double">>}

Crowded == SlotsOf(Target) = {} /\ Len(tracked_pids) = MaxTrackedPids

AllJudged ==
  apc = "done" /\ ~Crowded =>
    /\ rb => \A e \in sent : e.kind \notin {"benign", "inDelete"} =>
         \E f \in Range(findings) \cup lost : f = FindingOf(e) \/ Explains(f, e)
    /\ \A d \in open_fds : d.pid = Target => LeakOf(d) \in Range(findings) \cup lost

(* An event of the process that rerun gave with --pid is never turned      *)
(* away, as the comment in ensure_pid_allowed has it: the configured pid is*)
(* a fast path, checked before any other ground to reject an event.        *)
TargetHeard ==
  apc \in {"process", "finalProcess"} /\ ring # <<>> /\ Head(ring).pid = Target
    => Allowed(Target)

============================================================================
