---------------------------- MODULE EventStream ----------------------------
(***************************************************************************)
(* What re_events.h promises about the events of one process: they reach   *)
(* the agent in the order of their sequence numbers, the numbers count up  *)
(* one by one, and each event says how many were dropped since the one     *)
(* before.  An event is dropped only when the ring is full.                *)
(***************************************************************************)
EXTENDS Naturals, Sequences

CONSTANT RingCap     \* events the ring can hold

VARIABLES
  seq,        \* number of the newest event
  lost,       \* events dropped since then
  queue,      \* emitted, not yet delivered
  out         \* the newest event the agent has seen

vars == <<seq, lost, queue, out>>

Init == seq = 0 /\ lost = 0 /\ queue = <<>> /\ out = [seq |-> 0, drop_count |-> 0]

Emit ==
  /\ Len(queue) < RingCap
  /\ seq' = seq + 1
  /\ queue' = Append(queue, [seq |-> seq + 1, drop_count |-> lost])
  /\ lost' = 0
  /\ UNCHANGED out

Lose ==
  /\ Len(queue) = RingCap
  /\ lost' = lost + 1
  /\ UNCHANGED <<seq, queue, out>>

Deliver ==
  /\ queue # <<>>
  /\ out' = Head(queue)
  /\ queue' = Tail(queue)
  /\ UNCHANGED <<seq, lost>>

Next == Emit \/ Lose \/ Deliver

Spec == Init /\ [][Next]_vars /\ WF_vars(Deliver)

=============================================================================
