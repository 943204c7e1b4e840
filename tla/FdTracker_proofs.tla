-------------------------- MODULE FdTracker_proofs --------------------------
(***************************************************************************)
(* The descriptor tracker for any threads and numbers: its types; that no  *)
(* leak it reports is false, whatever the threads interleave; and for one  *)
(* thread, that the leaks are exact and a failed close is called what it   *)
(* is.                                                                     *)
(***************************************************************************)
EXTENDS FdTracker, TLAPS

(* The call of a thread and what is pending for it fit the thread's place. *)
ShapeOf(t) ==
  /\ pc[t] # "user" =>
       /\ call[t] \in Call
       /\ call[t].op \in {"dup", "dup2", "close"} => call[t].fd \in Fds
       /\ call[t].op = "open" => call[t].fd = None /\ call[t].new = None
       /\ call[t].op = "dup" => call[t].new = None
       /\ call[t].op = "dup2" => call[t].new \in Fds
  /\ pc[t] \in {"user", "return"} => pending_dup[t] = None /\ pending_close[t] = None
  /\ pc[t] \in {"kernel", "exit"} =>
       /\ pending_dup[t] = IF call[t].op \in {"dup", "dup2"}
                             THEN [old |-> call[t].fd, requested |-> call[t].new]
                             ELSE None
       /\ pending_close[t] = IF call[t].op = "close" THEN call[t].fd ELSE None
  /\ pc[t] = "kernel" => call[t].ret = None /\ call[t].truth = "fine"
  /\ pc[t] \in {"exit", "return"} =>
       /\ call[t].op \in {"open", "dup"} => call[t].ret \in Fds \cup {None}
       /\ call[t].op = "close" => call[t].ret \in {0, None}
       /\ call[t].op = "dup2" =>
            IF AsksFlags(t) THEN call[t].ret \in Flags ELSE call[t].ret = call[t].new

Shape == \A t \in Threads : ShapeOf(t)

FdInv == TypeOK /\ Shape

LEMMA FdInitInv == Init => FdInv
BY ConstantsAssumption DEF Init, FdInv, TypeOK, Shape, ShapeOf, Numbers

(* Absent is neither a number nor a record nor a request. *)
LEMMA NoneApart ==
  /\ None \notin Fds /\ None \notin Flags /\ None \notin Numbers /\ None # 0
  /\ \A r \in Record : r # None
  /\ \A r \in Request : r # None
<1>1. None \notin Nat /\ None \notin Record /\ None \notin Request
  BY ConstantsAssumption
<1>2. Fds \subseteq Nat /\ Flags \subseteq Nat /\ 0 \in Nat
  BY ConstantsAssumption
<1>3. QED
  BY <1>1, <1>2 DEF Numbers

(* A step of one thread keeps the shape of the others. *)
LEMMA OneThreadShape ==
  ASSUME FdInv, NEW t \in Threads, TypeOK', ShapeOf(t)',
         \A u \in Threads \ {t} :
           /\ pc'[u] = pc[u] /\ call'[u] = call[u]
           /\ pending_dup'[u] = pending_dup[u] /\ pending_close'[u] = pending_close[u]
  PROVE  FdInv'
<1>1. ASSUME NEW u \in Threads, u # t
      PROVE  ShapeOf(u)'
  <2>1. ShapeOf(u) /\ u \in Threads \ {t}
    BY <1>1 DEF FdInv, Shape
  <2>2. QED
    BY <2>1 DEF ShapeOf, AsksFlags
<1>2. QED
  BY <1>1 DEF FdInv, Shape

LEMMA EnterInv ==
  ASSUME FdInv, NEW t \in Threads, NEW f \in Fds \cup {None}, NEW new \in Fds \cup {None},
         NEW op \in AllCalls, Enter(t, op, f, new),
         op = "open" => f = None /\ new = None,
         op = "dup" => new = None,
         op = "dup2" => new \in Fds,
         op \in {"dup", "dup2", "close"} => f \in Fds,
         pending_dup' = IF op \in {"dup", "dup2"}
                          THEN [pending_dup EXCEPT ![t] = [old |-> f, requested |-> new]]
                          ELSE pending_dup,
         pending_close' = IF op = "close" THEN [pending_close EXCEPT ![t] = f]
                          ELSE pending_close
  PROVE  FdInv'
<1> DEFINE c == [op |-> op, fd |-> f, new |-> new, ret |-> None, truth |-> "fine"]
<1>1. c \in Call
  BY DEF Call, Truths
<1>2. /\ TypeOK /\ pc[t] = "user" /\ pending_dup[t] = None /\ pending_close[t] = None
      /\ call' = [call EXCEPT ![t] = c] /\ pc' = [pc EXCEPT ![t] = "kernel"]
      /\ owned' = owned \ {f, new}
      /\ UNCHANGED <<file, acquired, history, alive, open_fds, closed_fds, reports>>
  BY DEF FdInv, Shape, ShapeOf, Enter
<1>3. call' \in [Threads -> Call \cup {None}] /\ call'[t] = c
  BY <1>1, <1>2 DEF TypeOK
<1>4. /\ pending_dup' \in [Threads -> Request \cup {None}]
      /\ pending_dup'[t] = IF op \in {"dup", "dup2"} THEN [old |-> f, requested |-> new] ELSE None
  BY <1>2 DEF TypeOK, Request
<1>5. /\ pending_close' \in [Threads -> Fds \cup {None}]
      /\ pending_close'[t] = IF op = "close" THEN f ELSE None
  BY <1>2 DEF TypeOK
<1>6. pc' \in [Threads -> {"user", "kernel", "exit", "return"}] /\ pc'[t] = "kernel"
  BY <1>2 DEF TypeOK
<1>7. TypeOK'
  BY <1>2, <1>3, <1>4, <1>5, <1>6 DEF TypeOK
<1>8. ShapeOf(t)'
  BY <1>1, <1>3, <1>4, <1>5, <1>6 DEF ShapeOf
<1>9. \A u \in Threads \ {t} :
        /\ pc'[u] = pc[u] /\ call'[u] = call[u]
        /\ pending_dup'[u] = pending_dup[u] /\ pending_close'[u] = pending_close[u]
  BY <1>2 DEF TypeOK
<1>10. QED
  BY <1>7, <1>8, <1>9, OneThreadShape

Begin(t) ==
  \/ CallOpen(t)
  \/ \E f \in Fds : CallDup(t, f) \/ CallClose(t, f)
  \/ \E f, new \in Fds : CallDup2(t, f, new)

LEMMA BeginInv ==
  ASSUME FdInv, NEW t \in Threads, Begin(t)
  PROVE  FdInv'
<1>1. CASE CallOpen(t)
  BY <1>1, EnterInv DEF CallOpen, AllCalls
<1>2. ASSUME NEW f \in Fds, CallDup(t, f)
      PROVE  FdInv'
  BY <1>2, EnterInv DEF CallDup, AllCalls
<1>3. ASSUME NEW f \in Fds, CallClose(t, f)
      PROVE  FdInv'
  BY <1>3, EnterInv DEF CallClose, AllCalls
<1>4. ASSUME NEW f \in Fds, NEW new \in Fds, CallDup2(t, f, new)
      PROVE  FdInv'
  BY <1>4, EnterInv DEF CallDup2, AllCalls
<1>5. QED
  BY <1>1, <1>2, <1>3, <1>4 DEF Begin

(* The kernel's part: what it returns, and what it does to its table.      *)
Returned(t, ret, truth) ==
  call' = [call EXCEPT ![t] = [op |-> call[t].op, fd |-> call[t].fd, new |-> call[t].new,
                               ret |-> ret, truth |-> truth]]

LEMMA CallIsRecord ==
  ASSUME NEW c \in Call, NEW ret, NEW truth
  PROVE  /\ c.op \in AllCalls /\ c.fd \in Fds \cup {None} /\ c.new \in Fds \cup {None}
         /\ c.ret \in Numbers \cup {0, None} /\ c.truth \in Truths
         /\ c = [op |-> c.op, fd |-> c.fd, new |-> c.new, ret |-> c.ret, truth |-> c.truth]
         /\ [c EXCEPT !.ret = ret] = [op |-> c.op, fd |-> c.fd, new |-> c.new, ret |-> ret,
                                      truth |-> c.truth]
         /\ [c EXCEPT !.truth = truth] = [op |-> c.op, fd |-> c.fd, new |-> c.new,
                                          ret |-> c.ret, truth |-> truth]
BY DEF Call

Outcome(t, ret, truth) ==
  /\ ret \in Numbers \cup {0, None} /\ truth \in Truths
  /\ Returned(t, ret, truth)
  /\ file' \in [Fds -> {"closed", "inherited", "opened"}]
  /\ \A f \in Fds : f # ret => file'[f] = file[f] \/ file'[f] = "closed"
  /\ call[t].op # "close" => truth = "fine"
  /\ CASE call[t].op = "open" -> ret = None \/ (ret \in Fds /\ file'[ret] = "opened")
       [] call[t].op = "dup"  -> ret = None \/ (ret \in Fds /\ file'[ret] = file[call[t].fd])
       [] call[t].op = "dup2" -> IF AsksFlags(t) THEN ret \in Flags /\ UNCHANGED file
                                 ELSE ret = call[t].new /\ file'[ret] = file[call[t].fd]
       [] call[t].op = "close" ->
            /\ ret \in {0, None} /\ file' = [file EXCEPT ![call[t].fd] = "closed"]
            /\ truth = IF ret = None THEN Verdict(call[t].fd) ELSE "fine"

LEMMA SyscallEffect ==
  ASSUME FdInv, NEW t \in Threads, Syscall(t)
  PROVE  \E ret, truth : Outcome(t, ret, truth)
<1>0. /\ pc[t] = "kernel" /\ TypeOK /\ ShapeOf(t) /\ call[t] \in Call
      /\ call[t].ret = None /\ call[t].truth = "fine"
      /\ call \in [Threads -> Call \cup {None}]
      /\ file \in [Fds -> {"closed", "inherited", "opened"}]
  BY DEF FdInv, Shape, ShapeOf, Syscall, TypeOK
<1>1. /\ call[t] = [op |-> call[t].op, fd |-> call[t].fd, new |-> call[t].new,
                    ret |-> None, truth |-> "fine"]
      /\ \A ret : Result(t, ret) => Returned(t, ret, "fine")
      /\ call' = call => Returned(t, None, "fine")
      /\ \A truth : call' = [call EXCEPT ![t].truth = truth] => Returned(t, None, truth)
  <2>1. call[t] = [op |-> call[t].op, fd |-> call[t].fd, new |-> call[t].new,
                   ret |-> None, truth |-> "fine"]
    BY <1>0, CallIsRecord
  <2>2. ASSUME NEW ret, Result(t, ret)
        PROVE  Returned(t, ret, "fine")
    <3>1. call' = [call EXCEPT ![t] = [call[t] EXCEPT !.ret = ret]]
      BY <2>2 DEF Result
    <3>2. [call[t] EXCEPT !.ret = ret] = [op |-> call[t].op, fd |-> call[t].fd,
                                          new |-> call[t].new, ret |-> ret, truth |-> "fine"]
      BY <1>0 DEF Call
    <3>3. QED
      BY <3>1, <3>2 DEF Returned
  <2>3. call = [call EXCEPT ![t] = call[t]]
    BY <1>0
  <2>4. ASSUME NEW truth, call' = [call EXCEPT ![t].truth = truth]
        PROVE  Returned(t, None, truth)
    <3>1. call' = [call EXCEPT ![t] = [call[t] EXCEPT !.truth = truth]]
      BY <2>4
    <3>2. QED
      BY <1>0, <3>1, CallIsRecord DEF Returned
  <2>5. QED
    BY <2>1, <2>2, <2>3, <2>4 DEF Returned
<1>2. /\ Fds \subseteq Numbers /\ Flags \subseteq Numbers /\ Truths = {"fine", "double", "invalid"}
      /\ AllCalls = {"open", "dup", "dup2", "close"}
  BY DEF Numbers, Truths, AllCalls
<1>3. CASE SysOpen(t)
  <2>1. call[t].op = "open"
    BY <1>3 DEF SysOpen
  <2>2. CASE UNCHANGED <<file, call>>
    <3>1. Outcome(t, None, "fine")
      BY <1>0, <1>1, <1>2, <2>1, <2>2 DEF Outcome
    <3>2. QED
      BY <3>1
  <2>3. ASSUME NEW f \in Fds, file' = [file EXCEPT ![f] = "opened"], Result(t, f)
        PROVE  \E ret, truth : Outcome(t, ret, truth)
    <3>1. Outcome(t, f, "fine")
      BY <1>0, <1>1, <1>2, <2>1, <2>3 DEF Outcome
    <3>2. QED
      BY <3>1
  <2>4. QED
    BY <1>3, <2>2, <2>3 DEF SysOpen
<1>4. CASE SysDup(t)
  <2>1. call[t].op = "dup" /\ call[t].fd \in Fds
    BY <1>0, <1>4 DEF SysDup, ShapeOf
  <2>2. CASE UNCHANGED <<file, call>>
    <3>1. Outcome(t, None, "fine")
      BY <1>0, <1>1, <1>2, <2>1, <2>2 DEF Outcome
    <3>2. QED
      BY <3>1
  <2>3. ASSUME NEW f \in Fds, file' = [file EXCEPT ![f] = file[call[t].fd]], Result(t, f)
        PROVE  \E ret, truth : Outcome(t, ret, truth)
    <3>1. Outcome(t, f, "fine")
      BY <1>0, <1>1, <1>2, <2>1, <2>3 DEF Outcome
    <3>2. QED
      BY <3>1
  <2>4. QED
    BY <1>4, <2>2, <2>3 DEF SysDup
<1>5. CASE SysDup2(t)
  <2>1. call[t].op = "dup2" /\ call[t].fd \in Fds /\ call[t].new \in Fds /\ ~AsksFlags(t)
    BY <1>0, <1>5 DEF SysDup2, ShapeOf
  <2>2. file' = [file EXCEPT ![call[t].new] = file[call[t].fd]] /\ Result(t, call[t].new)
    BY <1>5 DEF SysDup2
  <2>3. Outcome(t, call[t].new, "fine")
    BY <1>0, <1>1, <1>2, <2>1, <2>2 DEF Outcome
  <2>4. QED
    BY <2>3
<1>6. CASE SysGetFlags(t)
  <2>1. PICK flags \in Flags : Result(t, flags)
    BY <1>6 DEF SysGetFlags
  <2>2. call[t].op = "dup2" /\ AsksFlags(t) /\ UNCHANGED file
    BY <1>6 DEF SysGetFlags, AsksFlags
  <2>3. Outcome(t, flags, "fine")
    BY <1>0, <1>1, <1>2, <2>1, <2>2 DEF Outcome
  <2>4. QED
    BY <2>3
<1>7. CASE SysClose(t)
  <2>1. /\ call[t].op = "close" /\ call[t].fd \in Fds
        /\ file' = [file EXCEPT ![call[t].fd] = "closed"]
        /\ Verdict(call[t].fd) \in Truths
    BY <1>0, <1>2, <1>7 DEF SysClose, ShapeOf, Verdict
  <2>2. CASE Result(t, 0)
    <3>1. Outcome(t, 0, "fine")
      BY <1>0, <1>1, <1>2, <2>1, <2>2, NoneApart DEF Outcome
    <3>2. QED
      BY <3>1
  <2>3. CASE call' = [call EXCEPT ![t].truth = Verdict(call[t].fd)]
    <3>1. Outcome(t, None, Verdict(call[t].fd))
      BY <1>0, <1>1, <1>2, <2>1, <2>3 DEF Outcome
    <3>2. QED
      BY <3>1
  <2>4. QED
    BY <1>7, <2>2, <2>3 DEF SysClose
<1>8. QED
  BY <1>3, <1>4, <1>5, <1>6, <1>7 DEF Syscall

LEMMA SyscallInv ==
  ASSUME FdInv, NEW t \in Threads, Syscall(t)
  PROVE  FdInv'
<1>0. TypeOK /\ ShapeOf(t) /\ pc[t] = "kernel" /\ call[t] \in Call
  BY DEF FdInv, Shape, ShapeOf, Syscall
<1>1. PICK ret, truth : Outcome(t, ret, truth)
  BY SyscallEffect
<1> DEFINE c == [op |-> call[t].op, fd |-> call[t].fd, new |-> call[t].new,
                 ret |-> ret, truth |-> truth]
<1>2. c \in Call
  BY <1>0, <1>1, CallIsRecord DEF Call, Outcome
<1>3. call' = [call EXCEPT ![t] = c] /\ call' \in [Threads -> Call \cup {None}] /\ call'[t] = c
  BY <1>0, <1>1, <1>2 DEF TypeOK, Returned, Outcome
<1>4. /\ pc' = [pc EXCEPT ![t] = "exit"]
      /\ pc' \in [Threads -> {"user", "kernel", "exit", "return"}] /\ pc'[t] = "exit"
  BY <1>0 DEF TypeOK, Syscall
<1>5. UNCHANGED <<owned, history, alive, maps, reports>> /\ acquired' \subseteq Fds
  BY <1>0 DEF Syscall, TypeOK
<1>6. TypeOK'
  BY <1>0, <1>1, <1>3, <1>4, <1>5 DEF TypeOK, maps, Outcome
<1>7. ShapeOf(t)'
  <2>1. UNCHANGED <<pending_dup, pending_close>>
    BY <1>5 DEF maps
  <2>2. c.op = call[t].op /\ c.fd = call[t].fd /\ c.new = call[t].new /\ c.ret = ret
    OBVIOUS
  <2>3. AsksFlags(t)' <=> AsksFlags(t)
    BY <1>3, <2>2 DEF AsksFlags
  <2>4. /\ c.op \in {"open", "dup"} => c.ret \in Fds \cup {None}
        /\ c.op = "close" => c.ret \in {0, None}
        /\ c.op = "dup2" => IF AsksFlags(t) THEN c.ret \in Flags ELSE c.ret = c.new
    BY <1>1, <2>2 DEF Outcome
  <2>5. QED
    BY <1>0, <1>2, <1>3, <1>4, <2>1, <2>2, <2>3, <2>4 DEF ShapeOf
<1>8. \A u \in Threads \ {t} :
        /\ pc'[u] = pc[u] /\ call'[u] = call[u]
        /\ pending_dup'[u] = pending_dup[u] /\ pending_close'[u] = pending_close[u]
  BY <1>0, <1>3, <1>4, <1>5 DEF TypeOK, maps
<1>9. QED
  BY <1>6, <1>7, <1>8, OneThreadShape

(* The exit hooks, case by case: what they do to the maps and the reports. *)
LEMMA ExitTypes ==
  ASSUME TypeOK, NEW f \in Fds, NEW p \in Request
  PROVE  /\ open_fds[f] \in Record \cup {None} /\ closed_fds[f] \in Record \cup {None}
         /\ DupRecord(p.old) \in Record
         /\ CloseStatus(f) \in {"DOUBLE", "INVALID"}
         /\ f \in Numbers
<1>1. f \in Numbers /\ p.old \in Numbers
  BY DEF Numbers, Request
<1>2. /\ open_fds[f] \in Record \cup {None} /\ closed_fds[f] \in Record \cup {None}
      /\ open_fds[p.old] \in Record \cup {None}
  BY <1>1 DEF TypeOK
<1>3. DupRecord(p.old) \in Record
  BY <1>2 DEF DupRecord, Record, Stacks
<1>4. QED
  BY <1>1, <1>2, <1>3 DEF CloseStatus

LEMMA ExitEffect ==
  ASSUME FdInv, NEW t \in Threads, SyscallExit(t)
  PROVE  \/ /\ call[t].op = "open" /\ call[t].ret \in Fds \cup {None}
            /\ record_fd_open(call[t].ret) /\ UNCHANGED reports
         \/ /\ call[t].op \in {"dup", "dup2"} /\ call[t].ret \in Numbers \cup {None}
            /\ call[t].fd \in Fds /\ call[t].new \in Fds \cup {None}
            /\ record_fd_dup([old |-> call[t].fd, requested |-> call[t].new], call[t].ret)
            /\ UNCHANGED reports
         \/ /\ call[t].op = "close" /\ call[t].ret \in {0, None} /\ call[t].fd \in Fds
            /\ record_fd_close(call[t].fd, call[t].ret, call[t].truth)
<1>0. /\ ShapeOf(t) /\ pc[t] = "exit" /\ call[t] \in Call /\ call[t].op \in AllCalls
      /\ call[t].new \in Fds \cup {None}
  BY CallIsRecord DEF FdInv, Shape, ShapeOf, SyscallExit
<1>1. CASE call[t].op = "open"
  BY <1>0, <1>1 DEF SyscallExit, ShapeOf
<1>2. CASE call[t].op \in {"dup", "dup2"}
  <2>0. PICK p : p = [old |-> call[t].fd, requested |-> call[t].new]
    OBVIOUS
  <2>1. /\ call[t].fd \in Fds /\ pending_dup[t] = p /\ p \in Request
        /\ pending_close[t] = None
    BY <1>0, <1>2, <2>0 DEF ShapeOf, Request
  <2>2. pending_dup[t] # None /\ call[t].op # "open"
    BY <1>2, <2>1, NoneApart
  <2>3. record_fd_dup(p, call[t].ret) /\ UNCHANGED reports
    BY <2>1, <2>2 DEF SyscallExit
  <2>4. call[t].ret \in Numbers \cup {None}
    BY <1>0, <1>2 DEF ShapeOf, Numbers
  <2>5. QED
    BY <1>0, <1>2, <2>0, <2>1, <2>3, <2>4
<1>3. CASE call[t].op = "close"
  <2>1. /\ call[t].fd \in Fds /\ pending_close[t] = call[t].fd /\ pending_dup[t] = None
        /\ call[t].ret \in {0, None} /\ call[t].fd # None
    BY <1>0, <1>3, NoneApart DEF ShapeOf
  <2>2. record_fd_close(call[t].fd, call[t].ret, call[t].truth)
    BY <1>3, <2>1 DEF SyscallExit
  <2>3. QED
    BY <1>3, <2>1, <2>2
<1>4. QED
  BY <1>0, <1>1, <1>2, <1>3 DEF AllCalls

LEMMA SyscallExitInv ==
  ASSUME FdInv, NEW t \in Threads, SyscallExit(t)
  PROVE  FdInv'
<1>0. /\ TypeOK /\ ShapeOf(t) /\ pc[t] = "exit" /\ call[t] \in Call
      /\ UNCHANGED program
  BY DEF FdInv, Shape, ShapeOf, SyscallExit
<1>1. /\ pc' = [pc EXCEPT ![t] = "return"]
      /\ pending_dup' = [pending_dup EXCEPT ![t] = None]
      /\ pending_close' = [pending_close EXCEPT ![t] = None]
  BY DEF SyscallExit
<1>2. /\ pc' \in [Threads -> {"user", "kernel", "exit", "return"}] /\ pc'[t] = "return"
      /\ pending_dup' \in [Threads -> Request \cup {None}] /\ pending_dup'[t] = None
      /\ pending_close' \in [Threads -> Fds \cup {None}] /\ pending_close'[t] = None
  BY <1>0, <1>1 DEF TypeOK
<1>3. /\ open_fds' \in [Numbers -> Record \cup {None}]
      /\ closed_fds' \in [Numbers -> Record \cup {None}]
      /\ reports' \subseteq Report
  <2>0. /\ open_fds \in [Numbers -> Record \cup {None}]
        /\ closed_fds \in [Numbers -> Record \cup {None}] /\ reports \subseteq Report
        /\ call[t].truth \in Truths
    BY <1>0, CallIsRecord DEF TypeOK
  <2>1. CASE record_fd_open(call[t].ret) /\ call[t].ret \in Fds \cup {None} /\ UNCHANGED reports
    BY <2>0, <2>1 DEF record_fd_open, Record, Stacks
  <2>2. CASE /\ call[t].ret \in Numbers \cup {None}
             /\ call[t].fd \in Fds /\ call[t].new \in Fds \cup {None}
             /\ record_fd_dup([old |-> call[t].fd, requested |-> call[t].new], call[t].ret)
             /\ UNCHANGED reports
    <3>1. PICK p : p = [old |-> call[t].fd, requested |-> call[t].new]
      OBVIOUS
    <3>2. p \in Request
      BY <2>2, <3>1 DEF Request
    <3>3. DupRecord(p.old) \in Record
      BY <1>0, <2>2, <3>2, ExitTypes
    <3>4. record_fd_dup(p, call[t].ret)
      BY <2>2, <3>1
    <3>5. QED
      BY <2>0, <2>2, <3>3, <3>4 DEF record_fd_dup
  <2>3. CASE call[t].fd \in Fds /\ record_fd_close(call[t].fd, call[t].ret, call[t].truth)
    <3>1. /\ CloseStatus(call[t].fd) \in {"DOUBLE", "INVALID"} /\ call[t].fd \in Numbers
          /\ open_fds[call[t].fd] \in Record \cup {None}
      BY <2>0, <2>3 DEF CloseStatus, Numbers
    <3>2. [fd |-> call[t].fd, status |-> CloseStatus(call[t].fd), truth |-> call[t].truth] \in Report
      BY <2>0, <3>1 DEF Report
    <3>3. QED
      BY <2>0, <2>3, <3>1, <3>2 DEF record_fd_close, Retired
  <2>4. QED
    BY <2>1, <2>2, <2>3, ExitEffect
<1>4. TypeOK'
  BY <1>0, <1>2, <1>3 DEF TypeOK, program
<1>5. ShapeOf(t)'
  BY <1>0, <1>2 DEF ShapeOf, AsksFlags, program
<1>6. \A u \in Threads \ {t} :
        /\ pc'[u] = pc[u] /\ call'[u] = call[u]
        /\ pending_dup'[u] = pending_dup[u] /\ pending_close'[u] = pending_close[u]
  BY <1>0, <1>1 DEF TypeOK, program
<1>7. QED
  BY <1>4, <1>5, <1>6, OneThreadShape

LEMMA LibcReturnInv ==
  ASSUME FdInv, NEW t \in Threads, LibcReturn(t)
  PROVE  FdInv'
<1>0. /\ TypeOK /\ ShapeOf(t) /\ pc[t] = "return" /\ call[t] \in Call
      /\ call[t].fd \in Fds \cup {None} /\ call[t].new \in Fds \cup {None}
      /\ call[t].op \in {"open", "dup", "dup2", "close"}
  BY CallIsRecord DEF FdInv, Shape, ShapeOf, LibcReturn, AllCalls
<1>1. /\ pc' = [pc EXCEPT ![t] = "user"] /\ call' = [call EXCEPT ![t] = None]
      /\ UNCHANGED <<file, alive, pending_dup, pending_close, reports>>
  BY DEF LibcReturn
<1>2. /\ pc' \in [Threads -> {"user", "kernel", "exit", "return"}] /\ pc'[t] = "user"
      /\ call' \in [Threads -> Call \cup {None}] /\ call'[t] = None
  BY <1>0, <1>1 DEF TypeOK
<1>3. call[t].op # "close" /\ ~AsksFlags(t) => call[t].ret \in Fds \cup {None}
  BY <1>0 DEF ShapeOf
<1>4. owned' \subseteq Fds /\ acquired' \subseteq Fds /\ history' \subseteq Fds
  BY <1>0, <1>3 DEF LibcReturn, TypeOK, AsksFlags
<1>5. /\ open_fds' \in [Numbers -> Record \cup {None}]
      /\ closed_fds' \in [Numbers -> Record \cup {None}]
  <2>1. /\ open_fds \in [Numbers -> Record \cup {None}]
        /\ closed_fds \in [Numbers -> Record \cup {None}]
    BY <1>0 DEF TypeOK
  <2>2. QED
    BY <2>1 DEF LibcReturn, record_fd_open, Record, Stacks
<1>6. TypeOK'
  BY <1>0, <1>1, <1>2, <1>4, <1>5 DEF TypeOK
<1>7. ShapeOf(t)'
  BY <1>0, <1>1, <1>2 DEF ShapeOf
<1>8. \A u \in Threads \ {t} :
        /\ pc'[u] = pc[u] /\ call'[u] = call[u]
        /\ pending_dup'[u] = pending_dup[u] /\ pending_close'[u] = pending_close[u]
  BY <1>0, <1>1 DEF TypeOK
<1>9. QED
  BY <1>6, <1>7, <1>8, OneThreadShape

LEMMA ExitInv ==
  ASSUME FdInv, Exit
  PROVE  FdInv'
<1>1. reports' \subseteq Report
  <2>1. \A f \in Leaks : [fd |-> f, status |-> "LEAK", truth |-> "fine"] \in Report
    BY DEF Leaks, Report, Truths
  <2>2. QED
    BY <2>1 DEF Exit, FdInv, TypeOK
<1>2. UNCHANGED <<file, owned, acquired, history, pc, call, maps>> /\ alive' = FALSE
  BY DEF Exit
<1>3. TypeOK'
  BY <1>1, <1>2 DEF FdInv, TypeOK, maps
<1>4. \A t \in Threads : ShapeOf(t)'
  BY <1>2 DEF FdInv, Shape, ShapeOf, AsksFlags, maps
<1>5. QED
  BY <1>3, <1>4 DEF FdInv, Shape

LEMMA NextCases ==
  ASSUME Next
  PROVE  \/ Exit
         \/ \E t \in Threads : Begin(t) \/ Syscall(t) \/ SyscallExit(t) \/ LibcReturn(t)
BY DEF Next, Begin

LEMMA FdStepInv == FdInv /\ [Next]_vars => FdInv'
<1> SUFFICES ASSUME FdInv, [Next]_vars PROVE FdInv'
  OBVIOUS
<1>1. CASE UNCHANGED vars
  BY <1>1 DEF vars, program, maps, FdInv, TypeOK, Shape, ShapeOf, AsksFlags
<1>2. CASE Next
  BY <1>2, NextCases, BeginInv, SyscallInv, SyscallExitInv, LibcReturnInv, ExitInv
<1>3. QED
  BY <1>1, <1>2

LEMMA FdAlways == Spec => []FdInv
BY FdInitInv, FdStepInv, PTL DEF Spec

(* The maps hold records under the numbers a descriptor or file flags can  *)
(* have, and the reports are reports, for any threads and numbers.         *)
THEOREM DescriptorTypes == Spec => []TypeOK
<1>1. FdInv => TypeOK
  BY DEF FdInv
<1>2. QED
  BY <1>1, FdAlways, PTL

----------------------------------------------------------------------------
(* No false leak.  Whatever is recorded open has been acquired, or is in   *)
(* the hands of a thread that will retire the record or acquire it.        *)

SelfDup(t) == call[t].op = "dup2" /\ call[t].fd = call[t].new

Owning(t, f) ==
  \/ pc[t] = "exit" /\ call[t].op = "close" /\ call[t].fd = f /\ call[t].ret # None
  \/ /\ pc[t] \in {"exit", "return"} /\ call[t].op \in {"open", "dup", "dup2"}
     /\ call[t].ret = f /\ ~SelfDup(t)

Owner(f) == f \in acquired \/ \E t \in Threads : Owning(t, f)

LeakInv ==
  /\ \A f \in Numbers : open_fds[f] # None => Owner(f)
  /\ alive => ReportedLeaks = {}
  /\ ~alive => ReportedLeaks \subseteq acquired /\ \A t \in Threads : pc[t] = "user"

(* A step of one thread leaves what the others own. *)
LEMMA OwnersKept ==
  ASSUME NEW t \in Threads, NEW f,
         \A u \in Threads \ {t} : pc'[u] = pc[u] /\ call'[u] = call[u]
  PROVE  \A u \in Threads \ {t} : Owning(u, f)' <=> Owning(u, f)
BY DEF Owning, SelfDup

LEMMA Bystanders ==
  ASSUME FdInv, NEW t \in Threads,
         Begin(t) \/ Syscall(t) \/ SyscallExit(t) \/ LibcReturn(t)
  PROVE  /\ \A u \in Threads \ {t} : pc'[u] = pc[u] /\ call'[u] = call[u]
         /\ UNCHANGED alive
<1>1. TypeOK
  BY DEF FdInv
<1>2. CASE Begin(t)
  BY <1>1, <1>2 DEF Begin, CallOpen, CallDup, CallDup2, CallClose, Enter, TypeOK
<1>3. CASE Syscall(t)
  <2>1. PICK ret, truth : Returned(t, ret, truth)
    BY <1>3, SyscallEffect DEF Outcome
  <2>2. QED
    BY <1>1, <1>3, <2>1 DEF Syscall, Returned, TypeOK
<1>4. CASE SyscallExit(t)
  BY <1>1, <1>4 DEF SyscallExit, TypeOK, program
<1>5. CASE LibcReturn(t)
  BY <1>1, <1>5 DEF LibcReturn, TypeOK
<1>6. QED
  BY <1>2, <1>3, <1>4, <1>5

LEMMA BeginLeak ==
  ASSUME FdInv, LeakInv, NEW t \in Threads, Begin(t)
  PROVE  LeakInv'
<1>1. alive /\ pc[t] = "user" /\ UNCHANGED <<acquired, open_fds, reports, alive>>
  BY DEF Begin, CallOpen, CallDup, CallDup2, CallClose, Enter
<1>2. \A f : \A u \in Threads \ {t} : Owning(u, f)' <=> Owning(u, f)
  BY Bystanders, OwnersKept
<1>3. \A f : ~Owning(t, f)
  BY <1>1 DEF Owning
<1>4. QED
  BY <1>1, <1>2, <1>3 DEF LeakInv, Owner, ReportedLeaks

LEMMA SyscallLeak ==
  ASSUME FdInv, LeakInv, NEW t \in Threads, Syscall(t)
  PROVE  LeakInv'
<1>1. /\ pc[t] = "kernel" /\ pc'[t] = "exit" /\ alive
      /\ UNCHANGED <<open_fds, reports, alive>>
      /\ acquired' = IF call[t].op = "close" /\ call'[t].ret # None
                       THEN acquired \ {call[t].fd} ELSE acquired
  BY DEF Syscall, FdInv, TypeOK, LeakInv, maps
<1>2. \A f : \A u \in Threads \ {t} : Owning(u, f)' <=> Owning(u, f)
  BY Bystanders, OwnersKept
<1>3. \A f : ~Owning(t, f)
  BY <1>1 DEF Owning
<1>4. call'[t].op = call[t].op /\ call'[t].fd = call[t].fd
  <2>1. PICK ret, truth : Returned(t, ret, truth)
    BY SyscallEffect DEF Outcome
  <2>2. QED
    BY <2>1 DEF Returned, FdInv, TypeOK
<1>5. \A f \in acquired : f \in acquired' \/ Owning(t, f)'
  BY <1>1, <1>4 DEF Owning
<1>6. QED
  BY <1>1, <1>2, <1>3, <1>5 DEF LeakInv, Owner, ReportedLeaks

LEMMA SyscallExitLeak ==
  ASSUME HasDup2, FdInv, LeakInv, NEW t \in Threads, SyscallExit(t)
  PROVE  LeakInv'
<1>1. /\ pc[t] = "exit" /\ pc'[t] = "return" /\ alive
      /\ UNCHANGED <<acquired, call, alive>>
  BY DEF SyscallExit, FdInv, TypeOK, LeakInv, program
<1>2. \A f : \A u \in Threads \ {t} : Owning(u, f)' <=> Owning(u, f)
  BY Bystanders, OwnersKept
<1>3. open_fds \in [Numbers -> Record \cup {None}]
  BY DEF FdInv, TypeOK
<1>4. ASSUME NEW f \in Numbers, open_fds'[f] # None
      PROVE  Owning(t, f)' \/ (open_fds[f] # None /\ ~Owning(t, f))
  <2>1. CASE call[t].op = "open"
    <3>1. record_fd_open(call[t].ret)
      BY <2>1, ExitEffect
    <3>2. Owning(t, f) => Owning(t, f)'
      BY <1>1, <2>1 DEF Owning, SelfDup
    <3>3. CASE f = call[t].ret
      BY <1>1, <2>1, <3>3 DEF Owning, SelfDup
    <3>4. CASE f # call[t].ret
      BY <1>3, <1>4, <3>1, <3>2, <3>4 DEF record_fd_open
    <3>5. QED
      BY <3>3, <3>4
  <2>2. CASE call[t].op \in {"dup", "dup2"}
    <3>0. PICK p : p = [old |-> call[t].fd, requested |-> call[t].new]
      OBVIOUS
    <3>1. record_fd_dup(p, call[t].ret)
      BY <2>2, <3>0, ExitEffect
    <3>2. Owning(t, f) => Owning(t, f)'
      BY <1>1, <2>2 DEF Owning, SelfDup
    <3>3. CASE f = call[t].ret /\ ~SelfDup(t)
      BY <1>1, <2>2, <3>3 DEF Owning, SelfDup
    <3>4. CASE f # call[t].ret \/ SelfDup(t)
      <4>1. SelfDup(t) => NoOp(p, call[t].ret)
        <5>1. ShapeOf(t) /\ ~AsksFlags(t)
          BY DEF FdInv, Shape, AsksFlags
        <5>2. QED
          BY <1>1, <3>0, <5>1 DEF SelfDup, NoOp, ShapeOf
      <4>2. open_fds'[f] = open_fds[f]
        BY <1>3, <3>1, <3>4, <4>1 DEF record_fd_dup
      <4>3. QED
        BY <1>4, <3>2, <4>2
    <3>5. QED
      BY <3>3, <3>4
  <2>3. CASE call[t].op = "close"
    <3>1. record_fd_close(call[t].fd, call[t].ret, call[t].truth)
      BY <2>3, ExitEffect
    <3>2. open_fds'[f] = open_fds[f]
      BY <1>3, <1>4, <3>1 DEF record_fd_close, Retired
    <3>3. ~Owning(t, f)
      <4>1. CASE call[t].ret # None
        BY <1>3, <1>4, <2>3, <3>1, <3>2, <4>1 DEF record_fd_close, Retired, Owning
      <4>2. CASE call[t].ret = None
        BY <2>3, <4>2 DEF Owning
      <4>3. QED
        BY <4>1, <4>2
    <3>4. QED
      BY <1>4, <3>2, <3>3
  <2>4. QED
    BY <2>1, <2>2, <2>3, ExitEffect
<1>5. ReportedLeaks' = ReportedLeaks
  <2>1. \/ reports' = reports
        \/ \E r : reports' = reports \cup {r} /\ r.status # "LEAK"
    <3>1. PICK r : r = [fd |-> call[t].fd, status |-> CloseStatus(call[t].fd),
                        truth |-> call[t].truth]
      OBVIOUS
    <3>2. r.status # "LEAK"
      BY <3>1 DEF CloseStatus
    <3>3. \/ reports' = reports
          \/ record_fd_close(call[t].fd, call[t].ret, call[t].truth)
      BY ExitEffect
    <3>4. reports' = reports \/ reports' = reports \cup {r}
      BY <3>1, <3>3 DEF record_fd_close
    <3>5. QED
      BY <3>2, <3>4
  <2>2. QED
    BY <2>1 DEF ReportedLeaks
<1>6. QED
  BY <1>1, <1>2, <1>4, <1>5 DEF LeakInv, Owner

LEMMA LibcReturnLeak ==
  ASSUME HasDup2, FdInv, LeakInv, NEW t \in Threads, LibcReturn(t)
  PROVE  LeakInv'
<1>0. ~AsksFlags(t)
  BY DEF AsksFlags
<1>1. pc[t] = "return" /\ alive /\ UNCHANGED <<alive, reports>>
  BY DEF LibcReturn, LeakInv
<1>2. \A f : \A u \in Threads \ {t} : Owning(u, f)' <=> Owning(u, f)
  BY Bystanders, OwnersKept
<1>3. acquired \subseteq acquired'
  BY DEF LibcReturn
<1>4. ASSUME NEW f \in Numbers, open_fds'[f] # None
      PROVE  f \in acquired' \/ (open_fds[f] # None /\ ~Owning(t, f))
  <2>1. f \in Numbers /\ f # None
    BY NoneApart
  <2>2. Owning(t, f) => f \in acquired'
    BY <1>0, <1>1, <2>1 DEF Owning, SelfDup, LibcReturn
  <2>3. open_fds'[f] = open_fds[f] \/ (call[t].op = "open" /\ f = call[t].ret)
    BY DEF LibcReturn, record_fd_open, FdInv, TypeOK
  <2>4. call[t].op = "open" /\ f = call[t].ret => Owning(t, f)
    BY <1>1 DEF Owning, SelfDup
  <2>5. QED
    BY <1>4, <2>2, <2>3, <2>4
<1>5. QED
  BY <1>1, <1>2, <1>3, <1>4 DEF LeakInv, Owner, ReportedLeaks

LEMMA ExitLeak ==
  ASSUME FdInv, LeakInv, Exit
  PROVE  LeakInv'
<1>1. /\ alive /\ alive' = FALSE /\ \A t \in Threads : pc[t] = "user"
      /\ UNCHANGED <<acquired, pc, call, open_fds>>
      /\ reports' = reports \cup {[fd |-> f, status |-> "LEAK", truth |-> "fine"] : f \in Leaks}
  BY DEF Exit, maps
<1>2. \A f : \A t \in Threads : ~Owning(t, f) /\ ~Owning(t, f)'
  BY <1>1 DEF Owning
<1>3. Leaks \subseteq acquired
  BY <1>2 DEF Leaks, LeakInv, Owner
<1>4. ReportedLeaks' \subseteq Leaks
  BY <1>1 DEF ReportedLeaks, LeakInv
<1>5. QED
  BY <1>1, <1>2, <1>3, <1>4 DEF LeakInv, Owner

LEMMA LeakStep == HasDup2 /\ FdInv /\ LeakInv /\ [Next]_vars => LeakInv'
<1> SUFFICES ASSUME HasDup2, FdInv, LeakInv, [Next]_vars PROVE LeakInv'
  OBVIOUS
<1>1. CASE UNCHANGED vars
  BY <1>1 DEF vars, program, maps, LeakInv, Owner, Owning, SelfDup, ReportedLeaks
<1>2. CASE Next
  BY <1>2, NextCases, BeginLeak, SyscallLeak, SyscallExitLeak, LibcReturnLeak, ExitLeak
<1>3. QED
  BY <1>1, <1>2

(* On a kernel with a dup2 system call no descriptor that was closed with  *)
(* success is reported as a leak, however threads reuse each other's       *)
(* numbers between the kernel and the exit hooks, closes fail, or close    *)
(* what they do not own.                                                   *)
THEOREM LeaksAreTrue == HasDup2 => (Spec => []NoFalseLeak)
<1> SUFFICES ASSUME HasDup2 PROVE Spec => []NoFalseLeak
  OBVIOUS
<1>1. Init => LeakInv
  BY DEF Init, LeakInv, ReportedLeaks
<1>2. FdInv /\ LeakInv /\ [Next]_vars => LeakInv'
  BY LeakStep
<1>3. LeakInv => NoFalseLeak
  BY DEF LeakInv, NoFalseLeak
<1>4. QED
  BY <1>1, <1>2, <1>3, FdAlways, PTL DEF Spec

----------------------------------------------------------------------------
(* One thread, file flags that are no descriptor numbers: the maps are the *)
(* exact ledger of what has been acquired and closed.                      *)

Sequential == Flags \cap Fds = {} /\ \E t : Threads = {t}

Recorded(f) == open_fds[f] # None
Past(f)     == closed_fds[f] # None
FromOpen(f) == Recorded(f) /\ open_fds[f].origin_stack = "open"

Makes(t) == call[t].op \in {"open", "dup", "dup2"} /\ ~SelfDup(t)

(* The number a call has made and recorded, but not yet returned.          *)
Gained(t, f)   == pc[t] = "return" /\ Makes(t) /\ call[t].ret = f
(* The number a call has made in the kernel only.                          *)
Arriving(t, f) == pc[t] = "exit" /\ Makes(t) /\ call[t].ret = f
(* The number that has been closed in the kernel only.                     *)
Retiring(t, f) == pc[t] = "exit" /\ call[t].op = "close" /\ call[t].ret # None
                    /\ call[t].fd = f

Had(t, f) == f \in acquired \/ Gained(t, f)

Ledger(t) ==
  \A f \in Fds :
    IF Retiring(t, f)
      THEN /\ f \notin acquired /\ file[f] = "closed"
           /\ IF Recorded(f) THEN f \in history ELSE Past(f) <=> f \in history
      ELSE /\ Recorded(f) <=> Had(t, f)
           /\ Past(f) <=> f \in history /\ ~Had(t, f)

Origins(t) ==
  /\ \A f \in Fds : file[f] = "opened" => FromOpen(f) \/ Arriving(t, f)
  /\ \A f \in Fds : Arriving(t, f) /\ call[t].op # "open" /\ file[f] = "opened"
       => FromOpen(call[t].fd)

Judged(t) ==
  pc[t] = "exit" /\ call[t].op = "close" /\ call[t].ret = None
    => call[t].truth = Verdict(call[t].fd)

Exact(t) ==
  /\ acquired \subseteq history
  /\ Ledger(t) /\ Origins(t) /\ Judged(t)
  /\ alive => ReportedLeaks = {}
  /\ ~alive => pc[t] = "user" /\ ReportedLeaks \cap Fds = acquired

LEMMA InitExact ==
  ASSUME NEW t, Threads = {t}, Init
  PROVE  Exact(t)
<1>1. /\ pc[t] = "user" /\ acquired = {} /\ history = {} /\ alive /\ reports = {}
      /\ \A f \in Fds : ~Recorded(f) /\ ~Past(f) /\ file[f] # "opened"
  BY DEF Init, Recorded, Past, Numbers
<1>2. QED
  BY <1>1 DEF Exact, Ledger, Origins, Judged, Retiring, Had, Gained, Arriving, ReportedLeaks

LEMMA BeginExact ==
  ASSUME FdInv, NEW t \in Threads, Exact(t), Begin(t)
  PROVE  Exact(t)'
<1>1. /\ pc[t] = "user" /\ pc'[t] = "kernel" /\ alive
      /\ UNCHANGED <<file, acquired, history, alive, open_fds, closed_fds, reports>>
  BY DEF Begin, CallOpen, CallDup, CallDup2, CallClose, Enter, FdInv, TypeOK
<1>2. \A f : /\ ~Retiring(t, f) /\ ~Retiring(t, f)' /\ Had(t, f)' = Had(t, f)
             /\ ~Arriving(t, f) /\ ~Arriving(t, f)'
  BY <1>1 DEF Retiring, Had, Gained, Arriving
<1>3. Ledger(t)'
  BY <1>1, <1>2 DEF Exact, Ledger, Recorded, Past
<1>4. Origins(t)'
  BY <1>1, <1>2 DEF Exact, Origins, FromOpen, Recorded
<1>5. QED
  BY <1>1, <1>3, <1>4 DEF Exact, Judged, ReportedLeaks

LEMMA SyscallExact ==
  ASSUME Flags \cap Fds = {}, FdInv, NEW t \in Threads, Exact(t), Syscall(t)
  PROVE  Exact(t)'
<1>1. /\ pc[t] = "kernel" /\ pc'[t] = "exit" /\ alive /\ ShapeOf(t) /\ call[t] \in Call
      /\ UNCHANGED <<history, open_fds, closed_fds, reports, alive>>
      /\ acquired' = IF call[t].op = "close" /\ call'[t].ret # None
                       THEN acquired \ {call[t].fd} ELSE acquired
      /\ file \in [Fds -> {"closed", "inherited", "opened"}]
  BY DEF Syscall, FdInv, TypeOK, Exact, maps, Shape, ShapeOf
<1>2. PICK ret, truth : Outcome(t, ret, truth)
  BY SyscallEffect
<1>3. /\ call'[t].op = call[t].op /\ call'[t].fd = call[t].fd /\ call'[t].new = call[t].new
      /\ call'[t].ret = ret /\ call'[t].truth = truth
  BY <1>2 DEF Outcome, Returned, FdInv, TypeOK
<1>4. \A f \in Fds : /\ Recorded(f) <=> f \in acquired
                     /\ Past(f) <=> f \in history /\ f \notin acquired
                     /\ file[f] = "opened" => FromOpen(f)
                     /\ Recorded(f)' <=> Recorded(f)
                     /\ Past(f)' <=> Past(f)
                     /\ FromOpen(f)' <=> FromOpen(f)
  BY <1>1 DEF Exact, Ledger, Origins, Retiring, Had, Gained, Arriving, Recorded, Past, FromOpen
<1>5. Ledger(t)'
  <2>1. \A f \in Fds : Retiring(t, f)' <=> call[t].op = "close" /\ ret # None /\ call[t].fd = f
    BY <1>1, <1>3 DEF Retiring
  <2>2. \A f \in Fds : Had(t, f)' <=> f \in acquired'
    BY <1>1 DEF Had, Gained
  <2>3. call[t].op = "close" => file'[call[t].fd] = "closed"
    BY <1>1, <1>2 DEF Outcome, ShapeOf
  <2>4. \A f \in Fds : f \in acquired' <=>
          f \in acquired /\ ~(call[t].op = "close" /\ ret # None /\ call[t].fd = f)
    BY <1>1, <1>3
  <2>5. \A f \in acquired : f \in history
    BY DEF Exact
  <2>6. QED
    BY <1>1, <1>4, <2>1, <2>2, <2>3, <2>4, <2>5 DEF Ledger
<1>6. Judged(t)'
  <2>1. ASSUME call[t].op = "close", ret = None
        PROVE  truth = Verdict(call[t].fd) /\ acquired' = acquired
    BY <1>1, <1>2, <1>3, <2>1 DEF Outcome
  <2>2. QED
    BY <1>1, <1>3, <2>1 DEF Judged, Verdict
<1>7. Origins(t)'
  <2>1. \A f \in Fds : Arriving(t, f)' <=>
          call[t].op \in {"open", "dup", "dup2"} /\ ~SelfDup(t) /\ ret = f
    BY <1>1, <1>3 DEF Arriving, Makes, SelfDup
  <2>2. ASSUME NEW f \in Fds, file'[f] = "opened", file[f] # "opened"
        PROVE  Arriving(t, f)' /\ (call[t].op # "open" => FromOpen(call[t].fd))
    <3>1. f = ret
      BY <1>2, <2>2 DEF Outcome
    <3>2. CASE call[t].op = "open"
      BY <2>1, <3>1, <3>2 DEF SelfDup
    <3>3. CASE call[t].op = "dup"
      <4>1. file[call[t].fd] = "opened" /\ call[t].fd \in Fds
        BY <1>1, <1>2, <2>2, <3>1, <3>3, NoneApart DEF Outcome, ShapeOf
      <4>2. QED
        BY <1>4, <2>1, <3>1, <3>3, <4>1 DEF SelfDup
    <3>4. CASE call[t].op = "dup2"
      <4>1. ~AsksFlags(t) /\ ret = call[t].new /\ file'[ret] = file[call[t].fd]
        BY <1>2, <2>2, <3>4 DEF Outcome
      <4>2. file[call[t].fd] = "opened" /\ call[t].fd \in Fds /\ ~SelfDup(t)
        BY <1>1, <2>2, <3>1, <3>4, <4>1 DEF SelfDup, ShapeOf
      <4>3. QED
        BY <1>4, <2>1, <3>1, <3>4, <4>2
    <3>5. CASE call[t].op = "close"
      BY <1>1, <1>2, <2>2, <3>5 DEF Outcome
    <3>6. QED
      BY <1>1, <3>2, <3>3, <3>4, <3>5 DEF Call, AllCalls
  <2>3. ASSUME NEW f \in Fds, Arriving(t, f)', call[t].op # "open", file'[f] = "opened"
        PROVE  FromOpen(call[t].fd)
    <3>1. f = ret /\ call[t].op \in {"dup", "dup2"} /\ ~SelfDup(t) /\ ~AsksFlags(t)
      BY <2>1, <2>3 DEF SelfDup, AsksFlags
    <3>2. file[call[t].fd] = "opened" /\ call[t].fd \in Fds
      BY <1>1, <1>2, <2>3, <3>1, NoneApart DEF Outcome, ShapeOf
    <3>3. QED
      BY <1>4, <3>2
  <2>0. PICK old : old = call[t].fd
    OBVIOUS
  <2>4. old \in Fds => (FromOpen(old)' <=> FromOpen(old))
    BY <1>4
  <2>5. \A f \in Fds : file'[f] = "opened" => FromOpen(f)' \/ Arriving(t, f)'
    <3>1. \A f \in Fds : file[f] = "opened" => FromOpen(f)'
      BY <1>4
    <3>2. QED
      BY <2>2, <3>1
  <2>6. \A f \in Fds : Arriving(t, f)' /\ call[t].op # "open" /\ file'[f] = "opened"
          => FromOpen(old)'
    <3>1. call[t].op \in {"dup", "dup2"} => old \in Fds
      BY <1>1, <2>0 DEF ShapeOf
    <3>2. QED
      BY <2>0, <2>1, <2>3, <2>4, <3>1
  <2>7. QED
    <3>1. \A f \in Fds : Arriving(t, f)' /\ call'[t].op # "open" /\ file'[f] = "opened"
            => FromOpen(call[t].fd)'
      BY <1>3, <2>0, <2>6 DEF FromOpen, Recorded
    <3>2. QED
      BY <2>5, <3>1 DEF Origins
<1>8. QED
  BY <1>1, <1>5, <1>6, <1>7 DEF Exact, ReportedLeaks

LEMMA SyscallExitExact ==
  ASSUME Flags \cap Fds = {}, FdInv, NEW t \in Threads, Exact(t), SyscallExit(t)
  PROVE  Exact(t)'
<1>1. /\ pc[t] = "exit" /\ pc'[t] = "return" /\ alive /\ ShapeOf(t)
      /\ UNCHANGED <<file, acquired, history, call, alive>>
      /\ open_fds \in [Numbers -> Record \cup {None}]
      /\ closed_fds \in [Numbers -> Record \cup {None}]
      /\ Fds \subseteq Numbers
  BY DEF SyscallExit, FdInv, TypeOK, Exact, program, Shape, Numbers
<1>2. \A f : /\ ~Retiring(t, f)' /\ ~Arriving(t, f)' /\ ~Gained(t, f)
             /\ (Gained(t, f)' <=> Arriving(t, f))
  BY <1>1 DEF Retiring, Arriving, Gained, Makes, SelfDup
<1>3. ASSUME ~Makes(t), call[t].op # "close"
      PROVE  \A f \in Fds : open_fds'[f] = open_fds[f] /\ closed_fds'[f] = closed_fds[f]
  <2>1. call[t].op = "dup2" /\ SelfDup(t) /\ call[t].fd \in Fds
    BY <1>1, <1>3, ExitEffect DEF Makes, SelfDup
  <2>2. PICK p : p = [old |-> call[t].fd, requested |-> call[t].new]
    OBVIOUS
  <2>3. record_fd_dup(p, call[t].ret)
    BY <2>1, <2>2, ExitEffect
  <2>4. NoOp(p, call[t].ret) \/ call[t].ret \notin Fds
    BY <1>1, <2>1, <2>2 DEF NoOp, ShapeOf, SelfDup, AsksFlags
  <2>5. QED
    BY <1>1, <2>3, <2>4 DEF record_fd_dup
<1>4. ASSUME Makes(t)
      PROVE  \A f \in Fds :
               IF f = call[t].ret
                 THEN /\ Recorded(f)' /\ ~Past(f)'
                      /\ call[t].op = "open" \/ FromOpen(call[t].fd) => FromOpen(f)'
                 ELSE open_fds'[f] = open_fds[f] /\ closed_fds'[f] = closed_fds[f]
  <2>1. CASE call[t].op = "open"
    <3>1. record_fd_open(call[t].ret)
      BY <2>1, ExitEffect
    <3>2. PICK r : r = [open_stack |-> "open", origin_stack |-> "open"]
      OBVIOUS
    <3>3. r # None /\ r.origin_stack = "open"
      BY <3>2, NoneApart DEF Record, Stacks
    <3>4. QED
      BY <1>1, <3>1, <3>2, <3>3, NoneApart DEF record_fd_open, Recorded, Past, FromOpen
  <2>2. CASE call[t].op \in {"dup", "dup2"}
    <3>1. PICK p : p = [old |-> call[t].fd, requested |-> call[t].new]
      OBVIOUS
    <3>2. record_fd_dup(p, call[t].ret) /\ p \in Request /\ p.old = call[t].fd /\ call[t].fd \in Fds
      BY <2>2, <3>1, ExitEffect DEF Request
    <3>3. ~NoOp(p, call[t].ret)
      BY <1>1, <1>4, <2>2, <3>1, NoneApart DEF NoOp, Makes, SelfDup, ShapeOf
    <3>4. PICK r : r = DupRecord(p.old)
      OBVIOUS
    <3>5. r # None /\ (FromOpen(call[t].fd) => r.origin_stack = "open")
      <4>1. r \in Record
        BY <3>2, <3>4, ExitTypes DEF FdInv
      <4>2. FromOpen(call[t].fd) => r.origin_stack = "open"
        BY <1>1, <3>2, <3>4, ConstantsAssumption DEF FromOpen, Recorded, DupRecord, Record, Stacks
      <4>3. QED
        BY <4>1, <4>2, NoneApart
    <3>6. \/ call[t].ret = None
          \/ /\ closed_fds' = [closed_fds EXCEPT ![call[t].ret] = None]
             /\ open_fds' = [open_fds EXCEPT ![call[t].ret] = r]
      BY <3>2, <3>3, <3>4 DEF record_fd_dup
    <3>7. CASE call[t].ret = None
      <4>1. UNCHANGED <<open_fds, closed_fds>>
        BY <3>2, <3>7 DEF record_fd_dup
      <4>2. QED
        BY <3>7, <4>1, NoneApart
    <3>8. CASE call[t].ret # None
      <4>1. PICK ret : ret = call[t].ret
        OBVIOUS
      <4>2. ret \in Numbers
        BY <2>2, <3>8, <4>1, ExitEffect
      <4>3. /\ closed_fds' = [closed_fds EXCEPT ![ret] = None]
            /\ open_fds' = [open_fds EXCEPT ![ret] = r]
        BY <3>6, <3>8, <4>1
      <4>4. open_fds'[ret] = r /\ closed_fds'[ret] = None
        BY <1>1, <4>2, <4>3
      <4>5. \A f \in Fds : f # ret =>
              open_fds'[f] = open_fds[f] /\ closed_fds'[f] = closed_fds[f]
        BY <1>1, <4>3
      <4>6. QED
        BY <2>2, <3>5, <4>1, <4>4, <4>5 DEF Recorded, Past, FromOpen
    <3>9. QED
      BY <3>7, <3>8
  <2>3. QED
    BY <1>4, <2>1, <2>2 DEF Makes
<1>5. ASSUME call[t].op = "close"
      PROVE  \A f \in Fds :
               IF Retiring(t, f) /\ Recorded(f)
                 THEN ~Recorded(f)' /\ Past(f)'
                 ELSE open_fds'[f] = open_fds[f] /\ closed_fds'[f] = closed_fds[f]
  <2>1. record_fd_close(call[t].fd, call[t].ret, call[t].truth) /\ call[t].fd \in Fds
    BY <1>5, ExitEffect
  <2>2. QED
    BY <1>1, <1>5, <2>1 DEF record_fd_close, Retired, Retiring, Recorded, Past
<1>6. ReportedLeaks' = {}
  <2>1. PICK r : r = [fd |-> call[t].fd, status |-> CloseStatus(call[t].fd),
                      truth |-> call[t].truth]
    OBVIOUS
  <2>2. r.status # "LEAK"
    BY <2>1 DEF CloseStatus
  <2>3. reports' = reports \/ reports' = reports \cup {r}
    <3>1. reports' = reports \/ record_fd_close(call[t].fd, call[t].ret, call[t].truth)
      BY ExitEffect
    <3>2. QED
      BY <2>1, <3>1 DEF record_fd_close
  <2>4. QED
    BY <1>1, <2>2, <2>3 DEF Exact, ReportedLeaks
<1>7. Ledger(t)'
  <2> SUFFICES ASSUME NEW f \in Fds
               PROVE  /\ Recorded(f)' <=> Had(t, f)'
                      /\ Past(f)' <=> f \in history /\ ~Had(t, f)'
    BY <1>1, <1>2 DEF Ledger
  <2>1. Had(t, f)' <=> f \in acquired \/ Arriving(t, f)
    BY <1>1, <1>2 DEF Had
  <2>2. Had(t, f) <=> f \in acquired
    BY <1>2 DEF Had
  <2>3. IF Retiring(t, f)
          THEN /\ f \notin acquired
               /\ IF Recorded(f) THEN f \in history ELSE Past(f) <=> f \in history
          ELSE /\ Recorded(f) <=> f \in acquired
               /\ Past(f) <=> f \in history /\ f \notin acquired
    BY <2>2 DEF Exact, Ledger
  <2>4. open_fds'[f] = open_fds[f] /\ closed_fds'[f] = closed_fds[f]
          => (Recorded(f)' <=> Recorded(f)) /\ (Past(f)' <=> Past(f))
    BY DEF Recorded, Past
  <2>5. CASE Makes(t)
    <3>1. ~Retiring(t, f) /\ (Arriving(t, f) <=> f = call[t].ret)
      BY <1>1, <2>5 DEF Retiring, Arriving, Makes
    <3>2. QED
      BY <1>4, <2>1, <2>3, <2>4, <2>5, <3>1
  <2>6. CASE ~Makes(t)
    <3>1. ~Arriving(t, f) /\ (Retiring(t, f) => call[t].op = "close")
      BY <2>6 DEF Retiring, Arriving
    <3>2. CASE call[t].op = "close"
      BY <1>5, <2>1, <2>3, <2>4, <3>1, <3>2
    <3>3. CASE call[t].op # "close"
      BY <1>3, <2>1, <2>3, <2>4, <2>6, <3>1, <3>3
    <3>4. QED
      BY <3>2, <3>3
  <2>7. QED
    BY <2>5, <2>6
<1>8. Origins(t)'
  <2> SUFFICES ASSUME NEW f \in Fds, file[f] = "opened"
               PROVE  FromOpen(f)'
    BY <1>1, <1>2 DEF Origins
  <2>1. FromOpen(f) \/ Arriving(t, f)
    BY DEF Exact, Origins
  <2>2. open_fds'[f] = open_fds[f] => (FromOpen(f)' <=> FromOpen(f))
    BY DEF FromOpen, Recorded
  <2>3. CASE Makes(t) /\ f = call[t].ret
    <3>1. Arriving(t, f)
      BY <1>1, <2>3 DEF Arriving
    <3>2. call[t].op = "open" \/ FromOpen(call[t].fd)
      BY <3>1 DEF Exact, Origins
    <3>3. QED
      BY <1>4, <2>3, <3>2
  <2>4. CASE Makes(t) /\ f # call[t].ret
    BY <1>4, <2>1, <2>2, <2>4 DEF Arriving
  <2>5. CASE ~Makes(t) /\ call[t].op # "close"
    BY <1>3, <2>1, <2>2, <2>5 DEF Arriving
  <2>6. CASE call[t].op = "close"
    <3>1. ~Retiring(t, f)
      BY DEF Exact, Ledger
    <3>2. QED
      BY <1>5, <2>1, <2>2, <2>6, <3>1 DEF Arriving, Makes
  <2>7. QED
    BY <2>3, <2>4, <2>5, <2>6
<1>9. Judged(t)'
  BY <1>1 DEF Judged
<1>10. QED
  BY <1>1, <1>6, <1>7, <1>8, <1>9 DEF Exact

LEMMA LibcReturnExact ==
  ASSUME Flags \cap Fds = {}, FdInv, NEW t \in Threads, Exact(t), LibcReturn(t)
  PROVE  Exact(t)'
<1>1. /\ pc[t] = "return" /\ pc'[t] = "user" /\ alive /\ ShapeOf(t)
      /\ UNCHANGED <<file, alive, reports>>
      /\ open_fds \in [Numbers -> Record \cup {None}]
      /\ closed_fds \in [Numbers -> Record \cup {None}]
      /\ Fds \subseteq Numbers
      /\ call[t].op \in {"open", "dup", "dup2", "close"}
  BY CallIsRecord DEF LibcReturn, FdInv, TypeOK, Exact, Shape, ShapeOf, Numbers, AllCalls
<1>2. \A f : /\ ~Retiring(t, f) /\ ~Retiring(t, f)' /\ ~Arriving(t, f) /\ ~Arriving(t, f)'
             /\ (Had(t, f)' <=> f \in acquired')
  BY <1>1 DEF Retiring, Arriving, Had, Gained
<1>3. /\ \A f \in Fds : f \in acquired' <=> Had(t, f)
      /\ \A f \in Fds : f \in history' <=> f \in history \/ Gained(t, f)
      /\ acquired' \subseteq history'
  <2>1. AsksFlags(t) => SelfDup(t) /\ call[t].ret \notin Fds
    BY <1>1 DEF AsksFlags, SelfDup, ShapeOf
  <2>2. \A f \in Fds : f # None
    BY NoneApart
  <2>3. acquired \subseteq Fds /\ history \subseteq Fds /\ acquired \subseteq history
    BY DEF FdInv, TypeOK, Exact
  <2>4. CASE Makes(t)
    <3>1. /\ acquired' = acquired \cup ({call[t].ret} \ {None})
          /\ history' = history \cup ({call[t].ret} \ {None})
      BY <2>1, <2>4 DEF LibcReturn, Makes, SelfDup
    <3>2. \A f \in Fds : Gained(t, f) <=> f = call[t].ret
      BY <1>1, <2>4 DEF Gained
    <3>3. QED
      BY <2>2, <2>3, <3>1, <3>2 DEF Had
  <2>5. CASE ~Makes(t)
    <3>1. acquired' = acquired /\ history' = history
      BY <1>1, <2>1, <2>5 DEF LibcReturn, Makes, SelfDup
    <3>2. \A f \in Fds : ~Gained(t, f)
      BY <2>5 DEF Gained
    <3>3. QED
      BY <2>3, <3>1, <3>2 DEF Had
  <2>6. QED
    BY <2>4, <2>5
<1>4. \A f \in Fds : /\ Recorded(f) <=> Had(t, f)
                     /\ Past(f) <=> f \in history /\ ~Had(t, f)
                     /\ file[f] = "opened" => FromOpen(f)
  BY <1>2 DEF Exact, Ledger, Origins
<1>5. \A f \in Fds : /\ Recorded(f)' <=> Recorded(f)
                     /\ Past(f)' <=> Past(f)
                     /\ FromOpen(f) => FromOpen(f)'
  <2>1. CASE call[t].op # "open" \/ call[t].ret = None
    BY <2>1 DEF LibcReturn, record_fd_open, Recorded, Past, FromOpen
  <2>2. CASE call[t].op = "open" /\ call[t].ret # None
    <3>1. PICK r : r = [open_stack |-> "open", origin_stack |-> "open"]
      OBVIOUS
    <3>2. r # None /\ r.origin_stack = "open"
      BY <3>1, NoneApart DEF Record, Stacks
    <3>3. /\ closed_fds' = [closed_fds EXCEPT ![call[t].ret] = None]
          /\ open_fds' = [open_fds EXCEPT ![call[t].ret] = r]
      BY <2>2, <3>1 DEF LibcReturn, record_fd_open
    <3>4. call[t].ret \in Fds /\ Gained(t, call[t].ret)
      BY <1>1, <2>2 DEF Gained, Makes, SelfDup, ShapeOf
    <3>5. Recorded(call[t].ret) /\ ~Past(call[t].ret)
      BY <1>4, <3>4 DEF Had
    <3>6. QED
      BY <1>1, <3>2, <3>3, <3>4, <3>5 DEF Recorded, Past, FromOpen
  <2>3. QED
    BY <2>1, <2>2
<1>6. Ledger(t)'
  BY <1>2, <1>3, <1>4, <1>5 DEF Ledger, Had
<1>7. Origins(t)'
  BY <1>1, <1>2, <1>4, <1>5 DEF Origins
<1>8. QED
  BY <1>1, <1>3, <1>6, <1>7 DEF Exact, Judged, ReportedLeaks

LEMMA ExitExact ==
  ASSUME FdInv, NEW t, Threads = {t}, Exact(t), Exit
  PROVE  Exact(t)'
<1>1. /\ alive /\ alive' = FALSE /\ pc[t] = "user"
      /\ UNCHANGED <<file, acquired, history, pc, call, open_fds, closed_fds>>
      /\ reports' = reports \cup {[fd |-> f, status |-> "LEAK", truth |-> "fine"] : f \in Leaks}
  BY DEF Exit, maps
<1>2. \A f : /\ ~Retiring(t, f) /\ ~Retiring(t, f)' /\ (Had(t, f)' <=> Had(t, f))
             /\ ~Arriving(t, f) /\ ~Arriving(t, f)' /\ (Had(t, f) <=> f \in acquired)
  BY <1>1 DEF Retiring, Had, Gained, Arriving
<1>3. Leaks \cap Fds = acquired
  <2>1. \A f \in Fds : f \in Leaks <=> Recorded(f)
    BY DEF Leaks, Recorded, Numbers
  <2>2. \A f \in Fds : Recorded(f) <=> f \in acquired
    BY <1>2 DEF Exact, Ledger
  <2>3. acquired \subseteq Fds
    BY DEF FdInv, TypeOK
  <2>4. QED
    BY <2>1, <2>2, <2>3
<1>4. ReportedLeaks' = Leaks
  <2>1. \A r \in reports : r.status # "LEAK"
    BY <1>1 DEF Exact, ReportedLeaks
  <2>2. ASSUME NEW f \in ReportedLeaks' PROVE f \in Leaks
    <3>1. PICK r \in reports' : r.status = "LEAK" /\ f = r.fd
      BY <2>2 DEF ReportedLeaks
    <3>2. QED
      BY <1>1, <2>1, <3>1
  <2>3. ASSUME NEW f \in Leaks PROVE f \in ReportedLeaks'
    <3>1. PICK r : r = [fd |-> f, status |-> "LEAK", truth |-> "fine"]
      OBVIOUS
    <3>2. r \in reports' /\ r.status = "LEAK" /\ r.fd = f
      BY <1>1, <3>1
    <3>3. QED
      BY <3>2 DEF ReportedLeaks
  <2>4. QED
    BY <2>2, <2>3
<1>5. Ledger(t)' /\ Origins(t)' /\ Judged(t)'
  BY <1>1, <1>2 DEF Exact, Ledger, Origins, Judged, Recorded, Past, FromOpen
<1>6. QED
  BY <1>1, <1>3, <1>4, <1>5 DEF Exact

LEMMA ExactStep ==
  ASSUME NEW t, Threads = {t}, Flags \cap Fds = {}
  PROVE  FdInv /\ Exact(t) /\ [Next]_vars => Exact(t)'
<1> SUFFICES ASSUME FdInv, Exact(t), [Next]_vars PROVE Exact(t)'
  OBVIOUS
<1>1. CASE UNCHANGED vars
  BY <1>1 DEF vars, program, maps, Exact, Ledger, Origins, Judged, Recorded, Past, FromOpen,
              Retiring, Arriving, Had, Gained, Makes, SelfDup, ReportedLeaks, Verdict
<1>2. CASE Next
  BY <1>2, NextCases, BeginExact, SyscallExact, SyscallExitExact, LibcReturnExact, ExitExact
<1>3. QED
  BY <1>1, <1>2

(* With one thread the leaks reported are exactly the descriptors acquired *)
(* and not closed with success, each with the origin it was opened at,     *)
(* through any calls, failing closes and closes of what is not open.       *)
THEOREM LeaksAreExact == Sequential => (Spec => []LeaksExact)
<1> SUFFICES ASSUME NEW t, Threads = {t}, Flags \cap Fds = {}
             PROVE  Spec => []LeaksExact
  BY DEF Sequential
<1>1. Init => Exact(t)
  BY InitExact
<1>2. FdInv /\ Exact(t) /\ [Next]_vars => Exact(t)'
  BY ExactStep
<1>3. FdInv /\ Exact(t) => LeaksExact
  <2> SUFFICES ASSUME FdInv, Exact(t), ~alive PROVE
        /\ ReportedLeaks \cap Fds = acquired
        /\ \A f \in acquired : file[f] = "opened" => open_fds[f].origin_stack = "open"
    BY DEF LeaksExact
  <2>1. pc[t] = "user" /\ ReportedLeaks \cap Fds = acquired /\ acquired \subseteq Fds
    BY DEF Exact, FdInv, TypeOK
  <2>2. QED
    BY <2>1 DEF Exact, Origins, Arriving, FromOpen
<1>4. QED
  BY <1>1, <1>2, <1>3, FdAlways, PTL DEF Spec

LEMMA StepClassified ==
  ASSUME NEW t, Threads = {t}, FdInv, Exact(t), [Next]_vars
  PROVE  ClosesJudged
<1> SUFFICES ASSUME NEW u \in Threads, pc[u] = "exit", pc'[u] = "return", call[u].op = "close"
             PROVE  reports' = reports \cup
                      (IF call[u].ret # None \/ call[u].truth = "fine" THEN {}
                       ELSE {[fd |-> call[u].fd, truth |-> call[u].truth,
                              status |-> IF call[u].truth = "double" THEN "DOUBLE"
                                         ELSE "INVALID"]})
  BY DEF ClosesJudged
<1>1. u = t
  OBVIOUS
<1>2. SyscallExit(t)
  <2>1. pc[t] = "exit" /\ pc'[t] # pc[t] /\ pc \in [Threads -> {"user", "kernel", "exit", "return"}]
    BY <1>1 DEF FdInv, TypeOK
  <2>2. Next /\ ~Exit
    BY <2>1 DEF vars, Exit
  <2>3. Begin(t) \/ Syscall(t) \/ SyscallExit(t) \/ LibcReturn(t)
    BY <2>2, NextCases
  <2>4. ~Begin(t)
    BY <2>1 DEF Begin, CallOpen, CallDup, CallDup2, CallClose, Enter
  <2>5. ~Syscall(t) /\ ~LibcReturn(t)
    BY <2>1 DEF Syscall, LibcReturn
  <2>6. QED
    BY <2>3, <2>4, <2>5
<1>3. /\ record_fd_close(call[t].fd, call[t].ret, call[t].truth)
      /\ call[t].fd \in Fds /\ call[t].ret \in {0, None}
  BY <1>1, <1>2, ExitEffect
<1>4. CASE call[t].ret # None
  BY <1>1, <1>3, <1>4 DEF record_fd_close
<1>5. CASE call[t].ret = None
  <2>1. call[t].truth = Verdict(call[t].fd)
    BY <1>1, <1>5 DEF Exact, Judged
  <2>2. ~Retiring(t, call[t].fd) /\ (Had(t, call[t].fd) <=> call[t].fd \in acquired)
    BY <1>1, <1>5 DEF Retiring, Had, Gained
  <2>3. /\ Recorded(call[t].fd) <=> call[t].fd \in acquired
        /\ Past(call[t].fd) <=> call[t].fd \in history /\ call[t].fd \notin acquired
    BY <1>3, <2>2 DEF Exact, Ledger
  <2>4. CASE call[t].fd \in acquired
    <3>1. call[t].truth = "fine"
      BY <2>1, <2>4 DEF Verdict
    <3>2. ~Suspicious(call[t].fd)
      BY <2>3, <2>4 DEF Suspicious, Recorded
    <3>3. QED
      BY <1>1, <1>3, <1>5, <3>1, <3>2 DEF record_fd_close
  <2>5. CASE call[t].fd \notin acquired /\ call[t].fd \in history
    BY <1>1, <1>3, <1>5, <2>1, <2>3, <2>5
       DEF record_fd_close, Verdict, Suspicious, Recorded, CloseStatus, Past
  <2>6. CASE call[t].fd \notin acquired /\ call[t].fd \notin history
    BY <1>1, <1>3, <1>5, <2>1, <2>3, <2>6
       DEF record_fd_close, Verdict, Suspicious, Recorded, CloseStatus, Past
  <2>7. QED
    BY <2>4, <2>5, <2>6
<1>6. QED
  BY <1>1, <1>4, <1>5

(* And a close that fails is called what it is: double when the number was *)
(* acquired and closed before, invalid when it never was, nothing while it *)
(* is still recorded open.                                                 *)
THEOREM ClosesClassified == Sequential => (Spec => CloseClassified)
<1> SUFFICES ASSUME NEW t, Threads = {t}, Flags \cap Fds = {}
             PROVE  Spec => CloseClassified
  BY DEF Sequential
<1>1. Init => Exact(t)
  BY InitExact
<1>2. FdInv /\ Exact(t) /\ [Next]_vars => Exact(t)'
  BY ExactStep
<1>3. FdInv /\ Exact(t) /\ [Next]_vars => [ClosesJudged]_vars
  BY StepClassified
<1>4. QED
  BY <1>1, <1>2, <1>3, FdAlways, PTL DEF Spec, CloseClassified
=============================================================================
