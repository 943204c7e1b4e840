# A verification development of re:compile

re:compile observes a native Linux program and reports memory and descriptor
errors. This directory holds TLA+ models of the parts where the order of events
decides whether a report is right, TLC configurations that check them, and
TLAPS proofs. `PROJECT.json` lists the components, runs, hazards, theorems and
the source lines of every definition. Paths below are relative to
`src/recompile`.

## 1. Inventory

`rerun observe` starts the target stopped at `exec`, starts the agent, waits for
the agent's ready mark, resumes the target, waits for it, drains and stops the
agent, and turns the agent's lines into a crashpack. Then it may run
escalation tools on the crashpack, or repeat the whole observation.

```
 target process ---- uprobes, tracepoints ----> BPF programs (heap_tracker,
   ^  |                                          copy_checker, sentinel_extra)
   |  | exit status                                 | maps      | ring buffer
 rerun (native.rs) -- starts, SIGTERM --> re-mini <-+-----------+
   |                                        | re-findings.jsonl, findings.json
   +-- crashpack, issue groups, escalation (cli.rs, re-escalate), repeat runs
```

| Component | State | Operations | What is hard | What makes it right |
|---|---|---|---|---|
| Allocation tracker, `runtime/bpf/heap_tracker.bpf.c` | `allocs`, `freed`, `alloc_ranges` (LRU), per-thread `pending`, `realloc_old` | entry and return probes of malloc, calloc, realloc, new, strdup, free, delete | probes run before or after libc acts, addresses are reused in between, wrappers nest, ring full, eviction | a legal release is never an error; a block in use is known with its family; a wrong release is reported as what it is |
| Descriptor tracker, same file | `open_fds`, `closed_fds` (LRU), per-thread pending open, dup, close | hooks of open, dup, dup2, dup3, fcntl, close at libc and system-call level | the kernel reuses a number before the exit hooks run; any system call's exit takes what is pending | leaks at exit are the descriptors left open; close errors are classified |
| Event channel, `sentinel_*` in the BPF files | `sentinel_state` (seq, drops, armed), ring buffer | reserve, stamp, submit; poll | unsynchronised counters, full ring, an unsubmitted slot blocks the rest | every submitted event arrives; numbers and drop counts as `re_events.h` says |
| Copy checker, `copy_checker.bpf.c` | none (reads `allocs`, `alloc_ranges`) | memcpy, memmove, memset, strcpy, strncpy hooks | ranges of dead or reused blocks, 32 and 64 bit edges | a write inside its block is silent, one that leaves it is reported |
| Agent, `runtime/agent/re-mini.c` | pid table (32), dedupe ring (256), stop, drain deadline | on_sentinel_event, drain_fd_leaks, main loop | foreign pids, forgotten keys, suppression rules, exit against drain | each error reported once, secondary symptoms suppressed, the loop ends |
| Native session, `rerun/src/native.rs` | target pid, agent child, timeout | start, ready, resume, wait, drain, terminate, finalize | errors half way, timeout against exit, a slow agent | the target never runs unobserved, status is the target's, the run ends |
| Crashpack writing, `native.rs`, `dependencies.rs` | the files of an output directory | prepare, finalize, tool-only pack, promote | files of an earlier run, a write that fails after some files | the files describe the same findings or the command says that they do not |
| Observation, `rerun/src/cli.rs`, `observation.rs`, `summary.rs` | rows of targets, slots of the repeat selection, summaries | observe once and repeated, fallback, escalate, summarize, replay, validate | one of several steps fails, stale files, a kill | status, counts, selection and artifacts agree |
| Escalation runner, `re-escalate/src/runner.rs` | cooldown per tool | escalate, check_clean_binary | timeouts, missing tools, cooldowns between findings | every planned finding gets a result, clean means that a tool ran |
| Output parsers, `asan.rs`, `lsan.rs`, `ubsan.rs`, `valgrind.rs`, `gdb.rs` of `re-escalate/src` | none | tool output to detections, classes and frames | phrases that contain each other, windows of lines | a detection is attributed to its own lines |
| Issue groups, `rerun/src/issue_groups.rs` | none | fingerprint, annotate, group, aggregate over attempts | identity of a finding across runs | one defect is one group; groups account for all findings |
| Agent's symbolizer and attachment, `sentinel_extra`, crashpack library, rules, recc, LLVM pass | - | - | - | not modelled, see "Not modelled" |

The hazards of this code, each at its line, are under `hazards` in
`PROJECT.json`; the properties are aimed at them.

## 2. Modules

| # | Modules | Model | Proofs |
|---|---|---|---|
| 1 | `HeapTracker`, `MCHeapTracker` | allocation tracker with libc and threads | `HeapTracker_proofs` |
| 2 | `SizeArithmetic`, `CopyChecker` | the BPF programs' own arithmetic; what the copy checker and the agent make of a write, in every state of 1 | `SizeArithmetic_proofs`, `CopyChecker_proofs` |
| 3 | `EventStream`, `SentinelChannel` | the promise of `re_events.h`; the reserve, submit and poll that implement it | `SentinelChannel_proofs` |
| 4 | `FdTracker` | descriptor tracker with the kernel's table; leak drain | `FdTracker_proofs` |
| 5 | `Agent` | pid table, dedupe memory, suppression, drain window, stop, leak scan | `Agent_proofs` |
| 6 | `NativeRun`, `MCNativeRun` | session life cycle composed with 5 and the target, timeouts, error paths | `NativeRun_proofs` |
| 7 | `ToolReports`, `EscalationRunner`, `IssueGroups`, `Crashpack`, `Observation` | parsers, tool runs, fingerprints, files and rows as operators, each module on those before it | by `Rerun_proofs` |
| 8 | `Rerun`, `MCRerun` | the commands of rerun on one output directory, composed from 7 | `Rerun_proofs` |

`CopyChecker` EXTENDS `HeapTracker`, and `MCHeapTracker` EXTENDS both, so the
runs of 1 also check 2. `NativeRun` EXTENDS `Agent` and is shown to be one of
the environments `AgentSpec` allows; `Rerun` takes the outcome of a native run
from its environment, where `NativeRun` says what that can be.

Abstract specifications: `EventStream` for the channel; `AgentSpec`, the agent
in any environment that keeps its rules, for the session.

## 3. The models and the code

### HeapTracker

Variables `allocs`, `freed`, `alloc_ranges`, `pending`, `realloc_old`, `armed`
and `ring` are the BPF maps of one process; `heap` and `owned` are libc's
blocks and what the program holds; `pc` and `call` say where each thread is.

A call is several steps: the entry probe (`CallAlloc`, `CallRealloc`,
`CallRelease`), libc (`LibcAlloc`, `LibcRealloc`, `LibcFree`) and the return
probe (`MallocExit`, `WrapperExit`, `ReallocExit`). Other threads run in
between, which is where the errors are. A probe is one step except
`record_deallocation`: its two lookups are in `CallRelease` / `InnerFree` and
its reports and updates in `ReleaseProbe`. `InnerFree` is the `free` that
libstdc++ calls inside `operator delete`.

The ghost `truth` of a release says what it really was: legal, a double free,
invalid, or a mismatch. An illegal release leaves libc's heap alone.

An address is a byte number, and live blocks do not overlap (`Vacant`).
`alloc_ranges` is the index that the copy checker looks writes up in: for each
page a bucket of `RangeSlots` ranges (4 in the code), the first slot that is free
or the block's own, or else slot 0, whose range is lost (`store_range_slot`); of
a block the first `SpanMax` pages (64) are indexed. `PageSize` is small, so that
blocks share pages and span several.

Abstractions: calloc, aligned_alloc and posix_memalign have malloc's hooks with
another way to read the size or the result; `new[]` calling `new` is one level
of nesting, since the outer record replaces the inner one before the program
gets the block; stacks and time stamps are left out; the process has its state entry
(`SentinelChannel` shows the case that it has not). An allocation call that
fails leaves nothing behind. A throwing `operator new` does not run its return
probe.

### CopyChecker and SizeArithmetic

A hook of the copy checker reads the maps once and changes none, so a write is
no step: the properties ask about every write that the program could make into a
block it holds. `HeadJudged` is about writes from a block's first byte, which are
looked up by address, and holds whatever other threads are doing. `WriteJudged`
is about writes from any byte, which are looked up by containment in the slots of
a page. They must be silent inside the block however often the index has been
overrun, and reported when they leave it, if the page is one of the indexed ones
and never had more blocks than slots; `crowded` is the history variable for that,
and the reason for `CopySpec`, which is `Spec` with it. It speaks of states in
which no allocator call is under way, because between libc's realloc and its
return probe the index holds the old size.

`WriteEvent` is `record_heap_write` with its two lookups and the narrowing to 32
bits, `Overflows` the agent's comparison. `Lengths`, `U32Max` and `StringMax`
(what is read of a string) are small, so that lengths beyond them are among those tried.

`SizeArithmetic` has calloc's product by halves of a word and the saturation to
32 bits at any width; its theorem is about all of them.

### SentinelChannel and EventStream

`heap_tracker` and `copy_checker` contain the same reserve and submit code and
share the maps (`bpf_map__reuse_fd` in the agent). Each load and store of the
shared state is a step: `Probe` and `Create` are `sentinel_get_state`;
`Reserve`, `Drop`, `DropStore`, `StampSeq`, `StampDrops`, `StoreSeq`,
`ClearDrops` are `sentinel_event_reserve`; `Submit` and `Consume` are the two
ends of the ring, which keeps reservation order. `FillingIn` says which slot a
probe holds between reserving and submitting. The ghost `consumed` counts
what the agent has got.

`EventStream` says what the header promises: emit with the next number and the
drops since the last event, lose only when the ring is full, deliver in order.
`StreamSpec` is its specification under a refinement mapping in which an event
is emitted at its reservation, with the values the probe is about to read.

### FdTracker

`file` is the kernel's table (lowest free number first); `owned`, `acquired`
and `history` are the program's view (`acquired`: got from a tracked call and
not closed with success since; `history`: ever got from one); `open_fds`,
`closed_fds`, `pending_dup` and `pending_close` are the maps. A duplicate of a
record without an origin takes that record's own stack (`DupRecord`). A call
passes `Call...` (entry hooks), `Syscall` (the kernel), `SyscallExit` (raw_sys_exit and the other exit hooks)
and `LibcReturn`. Several hooks that see the same values at the same place are
one step: an entry hook rewrites the same pending record, and of the exit hooks
the first takes it and the rest find nothing. dup3 is dup2 and fcntl(F_DUPFD)
is dup. A program gives away the numbers a call works on: a thread that used
them meanwhile would be racing. The target of dup2 may be a closed number only
when the process has one thread.

`Exit` is the agent's `drain_fd_leaks` after the process is gone.

Left out: LRU eviction of descriptors; a full ring (a report may be lost, none
is added); system calls that a signal handler makes between a libc entry probe
and its own system call (they have the same effect as `SysGetFlags` below);
fork and inheritance across it.

### Agent

`tracked_pids`, `emitted_findings`, `emitted_finding_next`, `stop` and
`target_exit_drain_started` are the agent's own; `findings` is what it appends
to findings.json, `ring` and `open_fds` are the BPF maps, `gone` says that the
target has been reaped, `ours` which other pids run the target's binary now.
`apc` walks through `main`: `Ready`, then the loop (`LoopHead`, `Wake`, `Process`
event by event, `AfterPoll`), the last poll (`Final`, `FinalProcess`) and `drain_fd_leaks` key by key (`LeakScan`,
`ScanEnd`). Anything may happen between two of these: events, descriptors,
the signal, and another pid that execs, ends or is used again
(`BinaryChanges`). `rb` says that the agent has a ring: it announces ready
without one too, then sleeps where it would poll and judges no event. A finding
that cannot be written to findings.json is logged and counts as emitted (`Emit`).

Three ghosts look back: `reported`, what was reported whether written or not;
`lost`, what of it could not be written; `matched`, the pids that ran the binary
when an event or descriptor of theirs was judged. A pid that has been accepted is
never looked at again, so after an exec it goes on being reported;
`NoForeignFinding` says that at least it was looked at once, and matched.
`AllJudged` asks for every error of the target in findings.json, and has four
exceptions: a finding about the same address in its place, a write that failed, a
pid table that was full before the target's first event, and an agent without a
ring, of which it asks only the descriptors.

An event has a kind, a pid, an address and a site, which stands for stacks,
lengths and offsets. "benign" stands for all that is dropped at once. The ring
loses nothing here; loss is `SentinelChannel`'s subject. Every process of the
host can submit events, because C++ probes and the descriptor hooks are not
bound to the target.

### NativeRun

`rpc` walks through `run_native_with_options`, and each step may end the run
with an error as the code's `?` does. `proc` and `death` are the target process
as the kernel has it: a zombie is still there for the agent, `gone` only after
rerun has reaped it. A waitpid that fails ends the run with an error (`WaitFails`),
except after the SIGKILL of a timeout, where the code ignores its error and the
model has it succeed. `stale` says that the output directory holds an earlier
run's files: a ready line among them would be taken for the new agent's.
`timeout` is the option, `late` the clock. `result` becomes the
`NativeRunResult`. `ResultTruthful` asks that a result which tells of a death by
SEGV, ABRT, BUS or FPE is never empty; a target that dies of one just before the
deadline is told of as a timeout, with nothing found (`native.rs:1123`).

`AgentRuns` is any step of `Agent` or of the other processes; `Sigterm`,
`Sigkill`, `Start` and `TargetReaped` are what rerun does to them.
`AgentEnvironment` checks that all this stays within `AgentSpec`: SIGTERM only
after the target was reaped, SIGKILL only after SIGTERM.

Left out: a crash of the agent after it was ready, which rerun would not
notice; what a failed run leaves behind is not followed, except that a target
left stopped runs on when its tracer is gone (`TracerGone`), unobserved.

### The modules under Rerun

`ToolReports` is the parsers. A line of output is the phrase a parser looks for,
a text and a location; a text is what it says and the process id printed in
front of it, so that stripping and comparing are what the code does. Windows of
lines and the order of the tests are kept. `Pushed` is the loop of
`push_detection`, as a function of how many lines have been read.

`EscalationRunner` is `escalate` and `check_clean_binary`: an operator gives an
EscalationResult, or None where the code returns an error. The tool is the
environment: an output, a timeout, a missing program or an I/O error.

`IssueGroups` has a fingerprint as the tuple of the fields that are hashed, so
two findings have one fingerprint exactly when the code hashes the same input.

`Crashpack` is a record of files with None for one that is absent. Operations that
write several files may stop after some of them (`StopsAfter` bounds after
how many for finalize). `AfterDetections` and `AfterResults` are the two nested
loops of a promotion, as functions of the round.

`Observation` is the row of a target, the fallback and selection decisions and
the summaries; where the code decides by searching an error for phrases,
`FallbackPhrases` is the list it searches and `NativeErrors` the errors of
`run_native_with_options`, each with the stage it comes from.

### Rerun

`pc` walks through an observe: `Start` (policy and usage errors), for a repeated
one `ClearAttempts`; then for each attempt `NativeFails` or `NativeEnds`,
`Select`, `PlanNothing`, `PlanFallback` or `PlanEscalation`, `ObserveTool` job by
job, `FinishEscalation` (results, promotion, groups), and `RecordAttempt` with
its summaries; `WriteSummary`, or `PublishRepeat` and `PublishRun`, end it.
Writing the files of a crashpack may fail half way, and `Killed` may end rerun
between any two steps. Afterwards
come commands on the crashpack: `EscalateCommand`, `ScanCommand`, `CommandTool`,
`SkipFinding` (escalate passes over a finding without a plan), `FinishCommand`,
`ReplayCommand`; `RemoveTarget` takes the target's file away
(summarize and validate change nothing and are operators the properties use).

`ErrorStage` says how far a native run with a given error had come in
the output directory, and whether an agent may already have written findings.
The ids of tool runs are also the process ids in what a sanitizer prints. Ids
of findings are tuples. One observe has one target.

`natives` and `selected` are history: the rows as the native runs left them and
the choices, for the properties that look back.

## 4. The runs

Bounds are the constants of each `.cfg`. A state space is finite because the
sets are; the only extra bounds are `RingCap` (a small ring makes "full"
happen) and `MaxEvents`, the number of events probes try to send.

| Run | Instance | Shows |
|---|---|---|
| `heap_cxx` | 2 threads, 2 addresses, sizes 2 and 3, every call, realloc stays in place, wrong release functions allowed; writes of 1 to 6 bytes, numbers up to 5 in an event, strings read up to 3 | no right release is an error, no wrong one is missed, no block in use is forgotten, a write from a block's first byte is reported exactly when it leaves a block of known size |
| `heap_lossy` | 2 threads, 2 addresses, C calls, ring may be full, LRU eviction at any time | a legal release is at worst unknown, never put down to another one |
| `heap_c` | 1 thread, 3 addresses, sizes 0, 1, 2 and 7, pages of 4 bytes with 2 slots, 2 pages of a block indexed; C calls, realloc moves, fails, frees; frees again or frees what it never had; writes of 1 to 9 bytes at every offset | a write from anywhere in a block is judged rightly as far as the index can have its range; types; realloc retires the old block only; DOUBLE and INVALID as they should be; no false alarm |
| `heap_race` | 2 threads, realloc moves | **violated**: the return probe retires another thread's new block |
| `chan_stream` | 1 thread, no state entry at first, ring of 2, 6 events | the channel implements `EventStream`, fairness included |
| `chan_live` | 2 threads, ring of 2, 4 events | no slot is left unsubmitted (`NoAbandonedSlot`); every reserved event is delivered |
| `fd_one` | 1 thread, 3 numbers, one inherited, close may fail, closes what is not open, no dup2 system call | leaks at exit are exact and keep their origin over duplicates (`LeaksExact`); failed closes are classified (`CloseClassified`) |
| `fd_two` | 2 threads, 3 numbers, one inherited | no false leak when numbers are reused before the exit hooks run (`NoFalseLeak`) |
| `fd_selfdup` | 1 thread, no dup2 system call | **violated**: file flags recorded as a descriptor |
| `session` | target, agent with or without a ring, a process that runs the target's binary at one time and not at the next, and one that never does; findings.json may refuse a finding; two overflow-related errors, 3 events or descriptors, 2 pid slots, 2 dedupe keys | the target never runs unobserved (`UnderObservation`); its events are judged, once, and of others only those of a pid found to run the binary; the result is truthful; findings.json is quiet when rerun reads it (`FinalizeQuiet`); the run ends |
| `session_deaf` | the same, with benign events of the others | **violated**: the pid table is full when the target's first event comes |
| `rerun_session` | 1 or 2 attempts, any options, a new or used directory, a target with and without ASan; native runs with 3 sequences of findings or 4 errors, tools that find, time out or are missing, finalize failing after 2 files, a kill anywhere, then 1 command | summaries, crashpacks, tool results, issue groups and the choice of attempts agree; nothing a tool found is lost or doubled; a crashpack left torn is reported as such |

Two threads are enough for the interference here: every shared record is per
address or per number, a probe touches one of them, and the other threads act
as one that reuses it. Two addresses allow reuse of one while the other is
live, and a third lets realloc move twice without coming back. In `heap_c` three
blocks fit one page of two slots, so that a range is lost, and a block of 7 bytes
leaves its last page unindexed. Symmetry is on threads only, since addresses are
numbers. `heap_cxx` has two addresses: with three its states are too many.
`heap_c` and `fd_one` have one thread because their properties are only promised
there: two threads that free one pointer together both find it live, and a late
close hook can delete the record of the number's next owner (both are listed
hazards).

`heap_lossy` checks no more than `NeverBlamedOnAnother`: an evicted record of a
live block makes its release INVALID, and an evicted allocation record can
leave its byte range behind. A ring that drops a release leaves its record
behind as well, which then answers for writes at its address into the middle of a
later block; so `WriteJudged` needs `KeepsUp`.

In `session` three events are enough to fill and turn the dedupe memory of two,
two pids enough to crowd out the third; the error paths of rerun do not depend
on either number. `ReportedOnce` and `NoSecondCause` are stated for findings at
most `MaxEmitted` apart, which is all a memory of that size can promise.
A `mismatch` and its `double` are not among the events of this run, an `overflow`
and its `invalid` are; the theorem is about both. The crowded table that
`AllJudged` excepts is what `session_deaf` shows.

In `rerun_session` two attempts are the first and a later one, which is all the
selection distinguishes; one command after the observe meets every crashpack
that an observe can leave. The four errors are one before the output directory
is prepared, one after it, and two after the agent was started; one of the
first and one of the last allow the fallback to tools. The agent's findings are
the empty sequence, an overflow and a leak, and the same overflow without debug
information, so that two attempts can see one defect in two forms.

CHECK_DEADLOCK is off where the system may stop: the channel, whose probes are
bounded, the descriptor runs, whose process exits, the session, which ends, and
`rerun_session`, whose commands are bounded.

### Fairness

In `SentinelChannel` (and `EventStream`) a BPF program runs to its end once
started, so `Running(t)` is weakly fair for each thread; the agent's main loop
polls the ring every 250 ms until it stops, so `Consume` is weakly fair. Nothing
is assumed of the program: it need not call anything. The channel has no stop
of the agent; that is in `Agent`.

In `NativeRun` rerun's thread and the clock are weakly fair, except that waitpid
need not fail (`WaitFails`). Neither the agent
nor the target is: `SessionEnds` holds because each wait of rerun is bounded
(10 s for ready, the timeout, 10 s after SIGTERM and then SIGKILL), except the
wait for a target without a timeout, which the property allows.

### Findings

The three violated runs quote what the code's own texts say and are listed under
`findings`. `heap_race` can turn a legal program into a report of a double
free; `fd_selfdup` concerns kernels without a dup2 system call
(arm64); `session_deaf` needs 32 other processes that use C++ or open files
before the target's first event.

More departures are listed as hazards, with the reason why no run checks them
or how the properties are worded around them:

- A legal C++ delete whose event finds the ring full is followed by a mismatch
  for the free inside it (`heap_tracker.bpf.c:620`).
- With two threads `seq` is not monotonic and `drop_count` neither complete nor
  exact (`heap_tracker.bpf.c:235`, against `re_events.h:129` and `:120`);
  `StreamSpec` is therefore checked and proved with one thread.
- A write into the middle of a block goes unjudged when more than four blocks
  share its page, or beyond the first 64 pages of its block
  (`heap_tracker.bpf.c:398`).
- A pid that once ran the target's binary is reported for ever
  (`re-mini.c:1617`).
- An agent without a ring is ready, waits and ends like any other, and a finding
  that could not be written counts as emitted (`re-mini.c:2394`, `:349`).
- A target that dies at its deadline is a timeout with no finding
  (`native.rs:1123`).
- The fallback to tools empties the directory of what the agent had written
  before the native run failed, although `docs/observation-run.md:290-293` says
  that it writes an empty findings.json "if no native evidence exists"
  (`native.rs:703`). No property asks for one or the other.
- A write inside a block of 4 GiB or more can be reported: size and length
  saturate to the same number (`copy_checker.bpf.c:186`).
- A promotion that fails half way leaves a crashpack whose files differ. The
  command says so; given again it finds the detections known and changes
  nothing (`cli.rs:916`).
- Sanitizers print their process id, which is part of the key by which a
  detection is known: escalating twice adds the defect again (`cli.rs:904`).
- "Agent exited before ready" matches none of the phrases that allow the
  fallback (`cli.rs:1449`).
- An attempt that timed out with findings takes the first-failure slot and is
  then not escalated (`cli.rs:198`).
- A repeat-summary.json that an interrupted observe left behind is what
  summarize prefers (`cli.rs:475`).

## 5. Proofs

### Allocation tracker and copy checker

`HeapTracker_proofs`, for any sets of threads, addresses and sizes, any ring and
any mix of calls:

- `TypeCorrect`: `Spec => []TypeOK`, under no assumption but those of the
  constants.
- `NeverFalseAlarm`: `(Calm /\ ~Evicts) \/ Alone => (Spec => []NoFalseAlarm)`.
- `EveryBlockTracked`: `Calm /\ ~Evicts => (Spec => []OwnedTracked)`.
- `LossNeverBlames`: `Calm => (Spec => []NeverBlamedOnAnother)`, evictions and
  drops included.
- `EveryMismatchSeen`: `Calm /\ ~Evicts /\ KeepsUp => (Spec => MismatchSeen)`.
- `EveryMisuseClassified`: `Alone => (Spec => MisuseClassified)`.
- `ReallocTouchesOnlyIts`: `Calm \/ Alone => (Spec => ReallocRetiresOnlyOld)`.

and `CopyChecker_proofs`, from the same invariant:

- `HeadWritesJudgedRight`: `Calm /\ ~Evicts => (CopySpec => []HeadJudged)`, for
  any limits of the event's numbers and of what is read of a string.
- `WritesJudgedRight`: `Lossless /\ IsFiniteSet(Addrs) => (CopySpec =>
  []WriteJudged)`, for any size of pages, number of slots and pages of a block
  besides. `Lossless` is `Calm` without evictions or drops. Its invariant adds
  to `IInv` that live blocks are apart (`Apart`), that a record belongs to a
  block in use or in a thread's hands (`Accounted`), and what the index says
  (`IndexOK`): a range in it is that of a recorded block on that page, and a
  page that was never crowded has the ranges of all its blocks, since by
  counting there was a slot for each.

The two conditions on an execution:

- `Calm`: any number of threads, which release what they own with the right
  function or a wrong one, realloc never releases its argument, and either the
  agent keeps up or the program does not use C++ delete.
- `Alone`: one thread of a program without C++ delete, which may free again
  what it freed and what it never had, and whose reallocs move, fail and release
  as they like; nothing evicted, no full ring.

Each condition keeps out what does break the properties: realloc that releases
its argument while other threads run races its own return probe (`heap_race`), a
delete on a full ring leaves its record behind for the free inside it, two
threads that free one pointer together both find it live, and eviction loses the
record of a block in use, which is why some theorems ask for `~Evicts`
(`heap_lossy` shows what is left without it). `heap_cxx`, `heap_c` and
`heap_lossy` are instances of these conditions.

None of these properties is inductive: a probe reads a record another thread
could have changed. The inductive invariant under `Calm`, `IInv`, adds that

- an address has one holder at most: the program, or one thread whose call was
  given it or is about to return it (`Exclusive`);
- a thread's `pending`, `looked` and call fit the place it is in
  (`CallShape`);
- the maps say of the address in a thread's hands what its place implies: a
  block about to be released has its record, one between delete and its inner
  free has a release record of that delete, and so on (`CallRecords`), or, when
  records can be evicted, have no record there at all;
- the record and the range of a block in the program's hands have its size, or
  say that it is unknown.

The proof of preservation goes action by action. `ThreadStep` is the lemma all
thread actions share: a step that changes records only at the address its
thread holds cannot disturb another thread, because of `Exclusive`.

Under `Alone`, `Exclusive` is of no use: the program frees what it does not
hold, and a realloc holds two addresses. Its invariant, `AInv`, rests on nothing
running between the probes of a call: the maps say of every address what libc
has there, unborn, live or dead (`AtRest`), except at the addresses of the call
in progress, where libc may be ahead (`Flux`).

The action properties follow from the same invariants: what a release probe
submits is determined by the two records it looked up, and the invariant says
what those were.

`SizeArithmetic_proofs`: `CallocProductExact`, `mul_overflow_u64` says overflow
exactly when the product does not fit a word, and gives it otherwise, for a
word of any width.

### Event channel

`SentinelChannel_proofs`, for any number of threads, any ring and any number of
events: `ChannelTypes`, and `NothingAbandoned`, a slot that is not submitted
belongs to a probe that is still filling it in. The invariant behind it counts
slots: a thread between reserving and submitting holds exactly one slot, no two
threads the same, and every other slot has been submitted. With the fairness of
probes it is why a poll cannot wait for ever at the head of the ring.

`SoloIsStream`: with one thread every step of the channel is a step of
`EventStream` or a stutter, the safety part of `StreamSpec`. `SoloInv` says that
what the probe holds in its registers is what it read from the state entry,
which nobody else can have changed.

### Descriptor tracker

`FdTracker_proofs`:

- `DescriptorTypes`, for any threads, numbers and flags.
- `LeaksAreTrue`: where the kernel has dup2, no false leak, for any threads and
  whatever closes fail or hit numbers that are not open. The invariant is an
  owner for every record in `open_fds`: the number has been acquired, or is in
  the hands of a thread whose exit hook will retire the record or whose call
  will return it. Without dup2 the record of the file flags has no owner
  (`fd_selfdup`).
- `LeaksAreExact` and `ClosesClassified`, for one thread and flags that are not
  descriptor numbers: the maps are an exact ledger. A number is in `open_fds`
  exactly when it was acquired or is on its way back to the program, in
  `closed_fds` exactly when it once was acquired and is not now, with exceptions only
  between the kernel and the exit hooks.

### Agent and session

`Agent_proofs`, for any processes, table and memory size and any environment
that keeps the rules of `AgentSpec`: `AgentTypes`, `EachReportedOnce`,
`CausesOnly`, `OursOnly`, `NothingUnjudged`. The dedupe memory is a ring written
modulo its size; the invariant says which finding is in which slot, counted
from the last one written, and so which ones are remembered. For
`NothingUnjudged` it says what has been heard, drained and scanned at each point
of the way to the end, and which of it was lost.

`NativeRun_proofs`: `SessionIsAgent`, every session is an environment as
`AgentSpec` asks for, from an invariant that says for each stage of rerun what
the target and the agent can be doing. Hence `SessionReportsRight`, which takes
the theorems about the agent over to the session without a second proof. On
the same invariant rest `SessionTypes`, `TargetObserved`, `ResultsAreTrue` and
`NobodyWrites`. None of them needs fairness.

### Rerun

`Rerun_proofs`, for any number of attempts and commands, and any findings of the
agent, outputs and ends of tools, errors, builds and leftovers of an earlier
observe; a write that fails half way and a kill between any two steps included:

- `TypeCorrect`: the types, and that a tool result says Findings exactly when
  it detected something.
- `CleanIsARun`, `SummariesAreTrue`, `NothingOldIsPublished`: the published rows,
  their crashpacks and their summaries agree and are of this run
  (`CleanMeansRan`, `SummaryTruthful`, `ResultsOfThisRun`).
- `DetectionsAreFound`: every detection of every tool is a finding of its own
  or confirms the one that the tool was run for (`NothingLost`).
- `FindingsJoined`: in a crashpack no two findings have an id in common, no
  detection of a tool is a finding twice, and the first and the last result for
  an id, which `summarize` shows in different places, are one result, whatever
  commands were given (`JoinedById`).
- `OneGroupPerDefect`: two findings that the agent gives all sizes of and that
  agree in them have one fingerprint (`DefectOneGroup`). A leak has no sizes, and
  its fingerprint depends on its places.
- `PolicyFollowed`: the attempts that the code escalates, choosing one by one
  with the slots as its only memory, are those that the policy names with
  hindsight (`PolicyKept`).
- `RepeatsAgree`: the run summaries of the attempts, the one of all attempts and
  the repeat summary tell the same, every finding of an attempt that has not failed
  is in an issue group and counted once, and `summarize` puts them together
  (`RepeatAgrees`). The findings of a failed attempt are counted when its groups
  were written; one that ended between findings.json and its groups is in none.
- `DamageReported`, `FindingsAreKept`, `EscalateIsComplete`, about steps: damage
  to a crashpack is reported, promotion keeps every finding at its place, and an
  escalate command that ends well has a result for every finding with a plan
  (`IntactUnlessReported`, `FindingsKept`, `EscalateComplete`).

`Inductive` is the invariant they share, `IInv`, in six parts:

- `Control`: how far the observe is at each `pc`, and how many rows it has;
- `Typed`: the types, with the shape of results and jobs;
- `Packs`: a crashpack on disk with tool results has findings, and all that the
  tools found is represented among them; a finding's fingerprint is the one its
  identity gives, so writing the findings again changes none;
- `Rows`: each row, the one in progress included, tells of the crashpack of its
  attempt; the counts and groups hold until a command is given, the rest stays;
- `Covers`: in an escalate command every finding with a plan has a result or a
  job to come;
- `Policy`: the slots say exactly what the choice of later attempts depends on:
  whether an attempt so far could be escalated after a failure, and whether the
  first one could.

`NothingLost` and `SummaryTruthful` are about published rows; they hold because
the crashpack already represents the results when it is written, which is
`Packs`, and stays as the row says through what follows, which is `Rows`.

`FindingsJoined` needs a second invariant on top of `IInv`, `Ids`, because
`JoinedById` alone is not inductive: whether promotion adds a finding with a new
id depends on the results still to be written. `Ids` has two parts:

- `Joined`, of every crashpack: its ids are distinct and none is one of the two
  that stand for a run without a finding; those made by tools name a tool run
  before `nextId`; and of a finding there are not two results.
- `Underway`, between the choice of the jobs and the promotion of their results:
  jobs are for different findings, those with a result have no job left, and a
  result with a detection names a run that no finding is named for yet.

A finding that a tool made is named for the tool, the class, the run and the
place of the detection in the run, so ids of different runs cannot meet, and
the places tell those of one run apart. The ids of the agent are F-, the kind
and the time in nanoseconds; that these differ within one run is an assumption
of `Rerun` (`AgentsTellApart`).

`RepeatsAgree` has one too, `Grouping`: while a repeated observe goes on, the
groups collected are exactly those of the crashpacks of the finished attempts,
the summary of each finished attempt is its row, an attempt without a reason to
escalate keeps the summary of its native run, and the groups of a crashpack, if
it has any, are those of its findings as they are on disk (`Sound`). The last
part is not obvious where a write fails half way: it holds because the groups
are written after the findings (`GroupsComeLater`). What is left is a sum over
groups on one side and over findings on the other. `Total` takes such a sum
element by element, in any order (`SumsTakeAny`), and `OccurrencesAddUp` adds one
attempt at a time to both.

The loops of the code are recursive functions. The provers cannot use an
induction rule over data, so the induction is done with sets: of the rounds at
which a fact fails there would be a least one (`Least`), it is not round 0, and
the round before it gives the contradiction (`AllRounds`). That the functions
are defined at every round is shown the same way (`LoopExists`), and so is what
the sum of the community modules, a recursion over subsets, comes to
(`SumsExist`, `SumsAgree`).

The theorems have one hypothesis, `NoneIsNothing`: the absent value is neither a
tuple, nor a record, nor a sequence. In TLC None is a model value, which is
none of them; it is a hypothesis and no ASSUME because it quantifies over all
values. The assumptions on the constants (`Bounds`, `NoneIsNoText`,
`ErrorsAreNative`, `OutputsAreLines`, `AgentsWriteFindings`, `AgentsTellApart`,
`OldIdsAreOld`) are in `Rerun`, the one on the bound of failing writes
(`StopsAreBetween`) in `Crashpack`; TLC evaluates them in `rerun_session`.

### Only model-checked

- Liveness, and the fairness part of the refinement: `EveryEventDelivered`,
  `StreamSpec` with its fairness, `SessionEnds`. They and ENABLED are beyond the
  prover.

Every other property of a passing run is stated by a theorem.

No module uses RECURSIVE operators.

### Not modelled

- Two probes on two CPUs that store into one page bucket at the same time
  (`heap_tracker.bpf.c:380`, no lock): a probe is one step.
- The target's pid used again while the agent runs; any other pid may be.
- `sentinel_extra.bpf.c`: optional events no finding is made from, submitted by
  the code `SentinelChannel` models.
- The agent's symbolizer and its attachment of probes: formats and system calls,
  no protocol of their own. A crash of the agent after it was ready.
- The capability checks and the search for binaries at the start of a native
  run; ELF notes and headers, durations, command lines and wording in what is
  written.
- `crashpack`, the library: its own writer is sequential file output no
  command calls.
- `re-rules`: `ARCHITECTURE.md` places it outside the current pipeline, and
  neither rerun nor re-escalate uses it.
- `recc` and the LLVM pass: recc forwards arguments to a compiler, the pass is
  deferred by the project itself.

## 6. How to run

    tlc -config MCHeap_cxx.cfg MCHeapTracker
    tlc -config MCChannel_stream.cfg SentinelChannel
    tlc -config MCFd_two.cfg FdTracker
    tlc -config MCNative_session.cfg MCNativeRun
    tlc -config MCRerun_session.cfg MCRerun
    tlapm HeapTracker_proofs.tla          # and the other *_proofs.tla

Operators named `X_Suffix` and marked `mutant` are plausible bugs of `X`; with
`X` defined as one of them, the property that `PROJECT.json` names beside it is
violated. They are not part of the model.
