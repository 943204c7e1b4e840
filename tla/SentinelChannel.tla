-------------------------- MODULE SentinelChannel --------------------------
(***************************************************************************)
(* How a probe gets an event into the ring buffer: sentinel_get_state,     *)
(* sentinel_event_reserve and sentinel_event_submit, which heap_tracker    *)
(* and copy_checker share through the maps the agent hands over            *)
(* (bpf_map__reuse_fd), and the agent at the other end.                    *)
(*                                                                         *)
(* Probes of two threads run at the same time on two CPUs.  The state of   *)
(* the process is read and written with plain loads and stores, so each of *)
(* them is a step of its own.                                              *)
(***************************************************************************)
EXTENDS Naturals, Sequences, FiniteSets

CONSTANTS
  Threads,     \* threads of the observed process
  RingCap,     \* events the ring buffer can hold
  MaxEvents,   \* bound: events the probes try to send
  Prearmed     \* prearm_target_state created the state entry

ASSUME ConstantsAssumption ==
  /\ IsFiniteSet(Threads)
  /\ RingCap \in Nat \ {0}
  /\ MaxEvents \in Nat
  /\ Prearmed \in BOOLEAN

VARIABLES
  exists,      \* the process has an entry in sentinel_state
  st,          \* that entry: seq and drops
  ring,        \* sentinel_events, oldest reservation first
  pc,          \* where each thread's probe is
  local,       \* the register that holds what a probe has read
  tried,       \* events the probes tried to send
  consumed,    \* ghost: events the agent consumed
  out          \* the newest event the agent consumed

vars == <<exists, st, ring, pc, local, tried, consumed, out>>

Where == {"idle", "create", "reserve", "drop", "dropStore",
          "seq", "dropCount", "seqStore", "dropClear", "submit"}

Slot == [tid : Threads, seq : Nat, drop_count : Nat, submitted : BOOLEAN]

TypeOK ==
  /\ exists \in BOOLEAN
  /\ st \in [seq : Nat, drops : Nat]
  /\ ring \in Seq(Slot) /\ Len(ring) <= RingCap
  /\ pc \in [Threads -> Where]
  /\ local \in [Threads -> Nat]
  /\ tried \in 0..MaxEvents
  /\ consumed \in Nat
  /\ out \in [seq : Nat, drop_count : Nat]

Init ==
  /\ exists = Prearmed
  /\ st = [seq |-> 0, drops |-> 0]
  /\ ring = <<>>
  /\ pc = [t \in Threads |-> "idle"]
  /\ local = [t \in Threads |-> 0]
  /\ tried = 0
  /\ consumed = 0
  /\ out = [seq |-> 0, drop_count |-> 0]

Goto(t, where) == pc' = [pc EXCEPT ![t] = where]

----------------------------------------------------------------------------
(* sentinel_get_state: look the entry up, else create it with NOEXIST.  A  *)
(* probe that loses the race to create it gets no entry and gives up.      *)

Probe(t) ==
  /\ pc[t] = "idle"
  /\ tried < MaxEvents
  /\ tried' = tried + 1
  /\ Goto(t, IF exists THEN "reserve" ELSE "create")
  /\ UNCHANGED <<exists, st, ring, local, consumed, out>>

Create(t) ==
  /\ pc[t] = "create"
  /\ Goto(t, IF exists THEN "idle" ELSE "reserve")
  /\ exists' = TRUE
  /\ UNCHANGED <<st, ring, local, tried, consumed, out>>

----------------------------------------------------------------------------
(* sentinel_event_reserve.                                                 *)

HasRoom == Len(ring) < RingCap

(* Reservations are ordered under the ring's lock; an event keeps its place*)
(* however late it is filled in.                                           *)
Reserve(t) ==
  /\ pc[t] = "reserve"
  /\ IF HasRoom
       THEN /\ ring' = Append(ring, [tid |-> t, seq |-> 0, drop_count |-> 0,
                                     submitted |-> FALSE])
            /\ Goto(t, "seq")
       ELSE Goto(t, "drop") /\ UNCHANGED ring
  /\ UNCHANGED <<exists, st, local, tried, consumed, out>>

(* st->drops += 1 *)
Drop(t) ==
  /\ pc[t] = "drop"
  /\ local' = [local EXCEPT ![t] = st.drops + 1]
  /\ Goto(t, "dropStore")
  /\ UNCHANGED <<exists, st, ring, tried, consumed, out>>

DropStore(t) ==
  /\ pc[t] = "dropStore"
  /\ st' = [st EXCEPT !.drops = local[t]]
  /\ Goto(t, "idle")
  /\ UNCHANGED <<exists, ring, local, tried, consumed, out>>

(* The slot a probe is filling in. *)
Mine(t) == CHOOSE i \in 1..Len(ring) : ring[i].tid = t /\ ~ring[i].submitted

(* seq = st->seq + 1; evt->seq = seq *)
StampSeq(t) ==
  /\ pc[t] = "seq"
  /\ local' = [local EXCEPT ![t] = st.seq + 1]
  /\ ring' = [ring EXCEPT ![Mine(t)].seq = st.seq + 1]
  /\ Goto(t, "dropCount")
  /\ UNCHANGED <<exists, st, tried, consumed, out>>

(* evt->drop_count = st->drops *)
StampDrops(t) ==
  /\ pc[t] = "dropCount"
  /\ ring' = [ring EXCEPT ![Mine(t)].drop_count = st.drops]
  /\ Goto(t, "seqStore")
  /\ UNCHANGED <<exists, st, local, tried, consumed, out>>

(* st->seq = seq *)
StoreSeq(t) ==
  /\ pc[t] = "seqStore"
  /\ st' = [st EXCEPT !.seq = local[t]]
  /\ Goto(t, "dropClear")
  /\ UNCHANGED <<exists, ring, local, tried, consumed, out>>

(* st->drops = 0 *)
Cleared_Not == st                                  \* mutant
Cleared == [st EXCEPT !.drops = 0]

ClearDrops(t) ==
  /\ pc[t] = "dropClear"
  /\ st' = Cleared
  /\ Goto(t, "submit")
  /\ UNCHANGED <<exists, ring, local, tried, consumed, out>>

(* sentinel_event_submit *)
Filled_Forgotten(t) == ring                        \* mutant
Filled(t) == [ring EXCEPT ![Mine(t)].submitted = TRUE]

Submit(t) ==
  /\ pc[t] = "submit"
  /\ ring' = Filled(t)
  /\ Goto(t, "idle")
  /\ UNCHANGED <<exists, st, local, tried, consumed, out>>

----------------------------------------------------------------------------
(* ring_buffer__poll hands the oldest event to on_sentinel_event once it   *)
(* has been submitted; a reserved one holds up those behind it.            *)
Consume ==
  /\ ring # <<>> /\ ring[1].submitted
  /\ out' = [seq |-> ring[1].seq, drop_count |-> ring[1].drop_count]
  /\ ring' = Tail(ring)
  /\ consumed' = consumed + 1
  /\ UNCHANGED <<exists, st, pc, local, tried>>

(* The steps of a probe that has started: a BPF program runs to its end.   *)
Running(t) ==
  \/ Create(t) \/ Reserve(t) \/ Drop(t) \/ DropStore(t)
  \/ StampSeq(t) \/ StampDrops(t) \/ StoreSeq(t) \/ ClearDrops(t)
  \/ Submit(t)

Next ==
  \/ \E t \in Threads : Probe(t) \/ Running(t)
  \/ Consume

(* Probes finish and the agent's main loop keeps polling; nothing makes the*)
(* program start another probe.                                            *)
Fairness == WF_vars(Consume) /\ \A t \in Threads : WF_vars(Running(t))

Spec == Init /\ [][Next]_vars /\ Fairness

----------------------------------------------------------------------------
(* Properties.                                                             *)

(* A reserved event is consumed in the end, whatever the probes that hold  *)
(* the slots before it are doing: no probe returns without submitting.     *)
EveryEventDelivered ==
  \A n \in 1..MaxEvents : consumed + Len(ring) >= n ~> consumed >= n

(* An event that is not submitted holds up all behind it: none is left in  *)
(* the ring by a probe that has returned, however the probes of the threads*)
(* interleave (sentinel_event_reserve returns it, each caller submits it). *)
FillingIn == {"seq", "dropCount", "seqStore", "dropClear", "submit"}

NoAbandonedSlot ==
  \A i \in DOMAIN ring : ring[i].submitted \/ pc[ring[i].tid] \in FillingIn

----------------------------------------------------------------------------
(* With one thread the channel is the event stream of re_events.h: an      *)
(* event is emitted when its slot is reserved, stamped with what the probe *)
(* will read.                                                              *)
Solo == CHOOSE t \in Threads : TRUE
Filling == pc[Solo] \in FillingIn

Promised(slot) ==
  [seq |-> IF slot.submitted \/ pc[slot.tid] # "seq" THEN slot.seq
           ELSE st.seq + 1,
   drop_count |-> IF slot.submitted \/ pc[slot.tid] \notin {"seq", "dropCount"}
                    THEN slot.drop_count ELSE st.drops]

StreamSeq ==
  IF pc[Solo] \in {"seq", "dropCount", "seqStore"} THEN st.seq + 1 ELSE st.seq

StreamLost ==
  IF Filling THEN 0
  ELSE IF pc[Solo] \in {"drop", "dropStore"} THEN st.drops + 1 ELSE st.drops

StreamQueue == [i \in DOMAIN ring |-> Promised(ring[i])]

Stream == INSTANCE EventStream WITH
  seq <- StreamSeq, lost <- StreamLost, queue <- StreamQueue

(* The stream's own specification, its fairness included.                  *)
StreamSpec == Stream!Spec

=============================================================================
