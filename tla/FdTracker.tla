----------------------------- MODULE FdTracker -----------------------------
(***************************************************************************)
(* The descriptor half of the BPF heap tracker                             *)
(* (recompile/runtime/bpf/heap_tracker.bpf.c) and drain_fd_leaks of the    *)
(* agent, for one observed process.                                        *)
(*                                                                         *)
(* A call to open, dup, dup2 or close passes probes at the entry of libc,  *)
(* at the entry and exit of the system call and at the return of libc.     *)
(* The kernel's descriptor table changes in the middle: between a close in *)
(* the kernel and its exit probes the number can already belong to another *)
(* thread.  fcntl(F_DUPFD) is dup here, dup3 is dup2.                      *)
(*                                                                         *)
(* Several hooks of one call (kprobe, tracepoint, raw tracepoint) see the  *)
(* same values at the same place; they are one step.  An entry hook writes *)
(* what the one before it wrote; the first exit hook takes the pending     *)
(* record and the others find none.                                        *)
(***************************************************************************)
EXTENDS Naturals, FiniteSets

CONSTANTS
  Threads,     \* threads of the observed process
  Fds,         \* descriptor numbers the kernel can hand out
  Inherited,   \* descriptors open before the process was observed
  Calls,       \* the calls the program makes
  HasDup2,     \* the kernel has a dup2 system call (x86; not arm64)
  Flags,       \* what fcntl(F_GETFL) can return
  CloseFails,  \* close may report an error although it released the number
  Misuse,      \* the program closes numbers that are not open
  None         \* absent map entry, failed call

AllCalls == {"open", "dup", "dup2", "close"}

VARIABLES
  (* the kernel and the program, external *)
  file,        \* descriptor table: what each number refers to
  owned,       \* numbers the program holds and no call is using
  acquired,    \* ghost: numbers got from a tracked call, not closed with success
  history,     \* ghost: numbers that a tracked call has ever returned
  pc,          \* where each thread is in its current call
  call,        \* that call
  alive,       \* the process has not exited
  (* the BPF maps and the agent *)
  pending_dup,
  pending_close,
  open_fds,
  closed_fds,
  reports      \* FD_CLOSE events and leaks, with the truth about the call

program == <<file, owned, acquired, history, call, alive>>
maps    == <<pending_dup, pending_close, open_fds, closed_fds>>
vars    == <<program, pc, maps, reports>>

(* Every number a record can be filed under. *)
Numbers == Fds \cup Flags
Stacks  == {"open", "dup"}   \* the call site of an acquisition
Record  == [open_stack : Stacks, origin_stack : Stacks]
Request == [old : Fds, requested : Fds \cup {None}]
Truths  == {"fine", "double", "invalid"}   \* what a failed close deserves
Report  == [fd : Numbers, status : {"DOUBLE", "INVALID", "LEAK"}, truth : Truths]
Call    == [op : AllCalls, fd : Fds \cup {None}, new : Fds \cup {None},
            ret : Numbers \cup {0, None}, truth : Truths]

ASSUME ConstantsAssumption ==
  /\ Fds \subseteq Nat /\ Flags \subseteq Nat
  /\ Inherited \subseteq Fds
  /\ Calls \subseteq AllCalls
  /\ {HasDup2, CloseFails, Misuse} \subseteq BOOLEAN
  /\ None \notin Nat \cup Stacks \cup Record \cup Request

TypeOK ==
  /\ file \in [Fds -> {"closed", "inherited", "opened"}]
  /\ owned \subseteq Fds /\ acquired \subseteq Fds /\ history \subseteq Fds
  /\ pc \in [Threads -> {"user", "kernel", "exit", "return"}]
  /\ call \in [Threads -> Call \cup {None}]
  /\ alive \in BOOLEAN
  /\ pending_dup \in [Threads -> Request \cup {None}]
  /\ pending_close \in [Threads -> Fds \cup {None}]
  /\ open_fds \in [Numbers -> Record \cup {None}]
  /\ closed_fds \in [Numbers -> Record \cup {None}]
  /\ reports \subseteq Report

Init ==
  /\ file = [f \in Fds |-> IF f \in Inherited THEN "inherited" ELSE "closed"]
  /\ owned = Inherited
  /\ acquired = {} /\ history = {}
  /\ pc = [t \in Threads |-> "user"]
  /\ call = [t \in Threads |-> None]
  /\ alive = TRUE
  /\ pending_dup = [t \in Threads |-> None]
  /\ pending_close = [t \in Threads |-> None]
  /\ open_fds = [f \in Numbers |-> None]
  /\ closed_fds = [f \in Numbers |-> None]
  /\ reports = {}

----------------------------------------------------------------------------
(* What the exit probes do with a result.                                  *)

(* record_fd_open_return_with_stack *)
record_fd_open(f) ==
  IF f = None THEN UNCHANGED <<open_fds, closed_fds>>
  ELSE /\ closed_fds' = [closed_fds EXCEPT ![f] = None]
       /\ open_fds' = [open_fds EXCEPT ![f] =
            [open_stack |-> "open", origin_stack |-> "open"]]

(* A duplicate has its own acquisition and the origin of its source; if    *)
(* that stack could not be taken, the source's acquisition.  (Here all     *)
(* stacks can be taken.)                                                   *)
DupRecord_Fresh(old) ==                            \* mutant
  [open_stack |-> "dup", origin_stack |-> "dup"]
DupRecord_NoOrigin(old) ==                         \* mutant
  [open_stack |-> "dup",
   origin_stack |-> IF open_fds[old] = None THEN None
                    ELSE open_fds[old].origin_stack]
DupRecord(old) ==
  IF open_fds[old] = None THEN [open_stack |-> "dup", origin_stack |-> "dup"]
  ELSE [open_stack |-> "dup",
        origin_stack |-> IF open_fds[old].origin_stack = None
                         THEN open_fds[old].open_stack ELSE open_fds[old].origin_stack]

(* dup2(old, old) leaves the maps alone. *)
NoOp(p, f) == p.requested = p.old /\ f = p.old

(* record_fd_dup_return *)
record_fd_dup(p, f) ==
  IF f = None \/ NoOp(p, f) THEN UNCHANGED <<open_fds, closed_fds>>
  ELSE /\ closed_fds' = [closed_fds EXCEPT ![f] = None]
       /\ open_fds' = [open_fds EXCEPT ![f] = DupRecord(p.old)]

(* record_fd_close_return.  A failed close of a number that is still       *)
(* recorded open says nothing; of another number it is reported.           *)
CloseStatus_NoHistory(f) == "INVALID"              \* mutant
CloseStatus(f) == IF closed_fds[f] # None THEN "DOUBLE" ELSE "INVALID"

Suspicious(f) == open_fds[f] = None

Retired_Kept(f) == open_fds                        \* mutant
Retired(f) == [open_fds EXCEPT ![f] = None]

record_fd_close(f, ret, truth) ==
  IF ret # None
    THEN /\ IF open_fds[f] = None THEN UNCHANGED <<open_fds, closed_fds>>
            ELSE /\ closed_fds' = [closed_fds EXCEPT ![f] = open_fds[f]]
                 /\ open_fds' = Retired(f)
         /\ UNCHANGED reports
    ELSE /\ reports' = IF Suspicious(f)
              THEN reports \cup {[fd |-> f, status |-> CloseStatus(f), truth |-> truth]}
              ELSE reports
         /\ UNCHANGED <<open_fds, closed_fds>>

----------------------------------------------------------------------------
(* The entry of libc.  The program gives away the numbers a call works on  *)
(* until the call is back: another thread that used them would be racing.  *)

Enter(t, op, f, new) ==
  /\ alive /\ pc[t] = "user"
  /\ op \in Calls
  /\ call' = [call EXCEPT ![t] =
       [op |-> op, fd |-> f, new |-> new, ret |-> None, truth |-> "fine"]]
  /\ owned' = owned \ {f, new}
  /\ pc' = [pc EXCEPT ![t] = "kernel"]
  /\ UNCHANGED <<file, acquired, history, alive, open_fds, closed_fds, reports>>

CallOpen(t) ==
  Enter(t, "open", None, None) /\ UNCHANGED <<pending_dup, pending_close>>

CallDup(t, f) ==
  /\ f \in owned
  /\ Enter(t, "dup", f, None)
  /\ pending_dup' = [pending_dup EXCEPT ![t] = [old |-> f, requested |-> None]]
  /\ UNCHANGED pending_close

(* The target of dup2 is the program's own number, or one that is closed   *)
(* and that no other thread can be about to get.                           *)
CallDup2(t, f, new) ==
  /\ f \in owned
  /\ new \in owned \/ (file[new] = "closed" /\ Threads = {t})
  /\ Enter(t, "dup2", f, new)
  /\ pending_dup' = [pending_dup EXCEPT ![t] = [old |-> f, requested |-> new]]
  /\ UNCHANGED pending_close

CallClose(t, f) ==
  /\ f \in owned \/ (Misuse /\ file[f] = "closed")
  /\ Enter(t, "close", f, None)
  /\ pending_close' = [pending_close EXCEPT ![t] = f]
  /\ UNCHANGED pending_dup

----------------------------------------------------------------------------
(* The system call.                                                        *)

Free == {f \in Fds : file[f] = "closed"}
IsLowest(f) == f \in Free /\ \A g \in Free : f <= g

(* Without a dup2 system call libc asks fcntl(F_GETFL) whether the number  *)
(* is open and returns it.  The entry hooks of fcntl ignore that command.  *)
AsksFlags(t) == call[t].op = "dup2" /\ call[t].fd = call[t].new /\ ~HasDup2

Result(t, ret) == call' = [call EXCEPT ![t].ret = ret]

SysOpen(t) ==
  /\ call[t].op = "open"
  /\ \/ \E f \in Fds : /\ IsLowest(f)
                       /\ file' = [file EXCEPT ![f] = "opened"]
                       /\ Result(t, f)
     \/ UNCHANGED <<file, call>>                   \* no such file

SysDup(t) ==
  /\ call[t].op = "dup"
  /\ \/ \E f \in Fds : /\ IsLowest(f)
                       /\ file' = [file EXCEPT ![f] = file[call[t].fd]]
                       /\ Result(t, f)
     \/ Free = {} /\ UNCHANGED <<file, call>>

SysDup2(t) ==
  /\ call[t].op = "dup2" /\ ~AsksFlags(t)
  /\ file' = [file EXCEPT ![call[t].new] = file[call[t].fd]]
  /\ Result(t, call[t].new)

SysGetFlags(t) ==
  /\ AsksFlags(t)
  /\ \E flags \in Flags : Result(t, flags)
  /\ UNCHANGED file

(* A close may release the number and still report an error (EIO, EINTR). *)
Verdict(f) ==
  IF f \in acquired THEN "fine" ELSE IF f \in history THEN "double" ELSE "invalid"

SysClose(t) ==
  LET f == call[t].fd
  IN /\ call[t].op = "close"
     /\ file' = [file EXCEPT ![f] = "closed"]
     /\ \/ file[f] # "closed" /\ Result(t, 0)
        \/ /\ file[f] = "closed" \/ CloseFails
           /\ call' = [call EXCEPT ![t].truth = Verdict(f)]

Syscall(t) ==
  /\ pc[t] = "kernel"
  /\ SysOpen(t) \/ SysDup(t) \/ SysDup2(t) \/ SysGetFlags(t) \/ SysClose(t)
  /\ acquired' = IF call[t].op = "close" /\ call'[t].ret # None
                   THEN acquired \ {call[t].fd} ELSE acquired
  /\ pc' = [pc EXCEPT ![t] = "exit"]
  /\ UNCHANGED <<owned, history, alive, maps, reports>>

(* The exit hooks of the system call.  raw_sys_exit hands the result to    *)
(* whatever is pending for the thread, not looking at which call it was.   *)
SyscallExit(t) ==
  LET ret == call[t].ret
  IN /\ pc[t] = "exit"
     /\ CASE call[t].op = "open" ->
               record_fd_open(ret) /\ UNCHANGED reports
          [] pending_dup[t] # None ->
               record_fd_dup(pending_dup[t], ret) /\ UNCHANGED reports
          [] pending_close[t] # None ->
               record_fd_close(pending_close[t], ret, call[t].truth)
     /\ pending_dup' = [pending_dup EXCEPT ![t] = None]
     /\ pending_close' = [pending_close EXCEPT ![t] = None]
     /\ pc' = [pc EXCEPT ![t] = "return"]
     /\ UNCHANGED program

(* The return of libc.  u_open_exit records the descriptor once more; for  *)
(* the other calls nothing is pending.                                     *)
LibcReturn(t) ==
  LET c == call[t]
      got == IF c.op = "close" THEN {}
             ELSE (IF AsksFlags(t) THEN {c.new} ELSE {c.ret}) \ {None}
      back == IF c.op = "close" THEN {} ELSE {c.fd} \ {None}
      new == IF AsksFlags(t) THEN {} ELSE got
  IN /\ pc[t] = "return"
     /\ IF c.op = "open" THEN record_fd_open(c.ret)
        ELSE UNCHANGED <<open_fds, closed_fds>>
     /\ owned' = owned \cup got \cup back
     /\ acquired' = IF c.op = "dup2" /\ c.fd = c.new THEN acquired
                    ELSE acquired \cup new
     /\ history' = IF c.op = "dup2" /\ c.fd = c.new THEN history
                   ELSE history \cup new
     /\ call' = [call EXCEPT ![t] = None]
     /\ pc' = [pc EXCEPT ![t] = "user"]
     /\ UNCHANGED <<file, alive, pending_dup, pending_close, reports>>

----------------------------------------------------------------------------
(* The process exits and, once the ring is drained, the agent reports every*)
(* record in open_fds (drain_fd_leaks).                                    *)
Leaks == {f \in Numbers : open_fds[f] # None}

Exit ==
  /\ alive /\ \A t \in Threads : pc[t] = "user"
  /\ alive' = FALSE
  /\ reports' = reports \cup
       {[fd |-> f, status |-> "LEAK", truth |-> "fine"] : f \in Leaks}
  /\ UNCHANGED <<file, owned, acquired, history, pc, call, maps>>

Next ==
  \/ \E t \in Threads :
       \/ CallOpen(t)
       \/ \E f \in Fds : CallDup(t, f) \/ CallClose(t, f)
       \/ \E f, new \in Fds : CallDup2(t, f, new)
       \/ Syscall(t) \/ SyscallExit(t) \/ LibcReturn(t)
  \/ Exit

Spec == Init /\ [][Next]_vars

----------------------------------------------------------------------------
(* Properties.                                                             *)

ReportedLeaks == {r.fd : r \in {s \in reports : s.status = "LEAK"}}

(* The leaks reported at exit are exactly the descriptors that a tracked   *)
(* call returned and no close released with success, replaced ones and     *)
(* duplicates included, each with the original acquisition as its origin   *)
(* through any chain of dup and dup2 (record_fd_dup_return).  File flags   *)
(* taken for a descriptor are not counted (SelfDupIsNoOp).                 *)
LeaksExact ==
  ~alive =>
    /\ ReportedLeaks \cap Fds = acquired
    /\ \A f \in acquired : file[f] = "opened" => open_fds[f].origin_stack = "open"

(* Whatever the threads interleave, no descriptor that was closed with     *)
(* success is reported as a leak.  (A real leak may be missed: a late exit *)
(* probe of close can delete the record of the number's next owner.)       *)
NoFalseLeak == ~alive => ReportedLeaks \subseteq acquired

(* A failed close is reported as a double close if a tracked call had once *)
(* returned the number, as an invalid close if none ever had, and not at   *)
(* all while the number has not been closed with success ("a descriptor we *)
(* still consider open", record_fd_close_return).  Nothing else is.        *)
ClosesJudged ==
  \A t \in Threads :
    pc[t] = "exit" /\ pc'[t] = "return" /\ call[t].op = "close" =>
      reports' = reports \cup
        (IF call[t].ret # None \/ call[t].truth = "fine" THEN {}
         ELSE {[fd |-> call[t].fd, truth |-> call[t].truth,
                status |-> IF call[t].truth = "double" THEN "DOUBLE"
                           ELSE "INVALID"]})
CloseClassified == [][ClosesJudged]_vars

(* dup2(old, old) creates no ownership record.                             *)
SelfDupIsNoOp ==
  [][\A t \in Threads :
       pc[t] = "exit" /\ pc'[t] = "return" /\ call[t].op = "dup2"
         /\ call[t].fd = call[t].new
       => UNCHANGED <<open_fds, closed_fds>>]_vars

=============================================================================
