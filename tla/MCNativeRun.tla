---------------------------- MODULE MCNativeRun ----------------------------
(* Small instances of NativeRun: one other process that may run the        *)
(* target's binary, one that never does.                                   *)
EXTENDS NativeRun, TLC

CONSTANTS t, self, sibling, stranger, a, s1, s2

Event(pid, kind, site) == [pid |-> pid, kind |-> kind, addr |-> a, site |-> site]

(* An overflow and the free it spoils, and an error and a descriptor of a  *)
(* process that runs the same binary at one time and another at the next.  *)
SessionEvents ==
  {Event(t, "overflow", s1), Event(t, "invalid", s2), Event(sibling, "doubleClose", s1)}

SessionDescriptors ==
  {[pid |-> t, fd |-> 3, site |-> s1], [pid |-> sibling, fd |-> 3, site |-> s1]}

(* What crowds the table. *)
DeafEvents ==
  {Event(t, "overflow", s1), Event(sibling, "benign", s1), Event(stranger, "benign", s1)}

OtherProcesses == {sibling, stranger}
Siblings == {sibling}

============================================================================
