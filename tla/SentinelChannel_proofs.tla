----------------------- MODULE SentinelChannel_proofs -----------------------
(***************************************************************************)
(* The ring of the event channel for any number of threads and any size:   *)
(* no slot is abandoned.  And for one thread, that every step of a probe   *)
(* is a step of EventStream, or none.                                      *)
(***************************************************************************)
EXTENDS SentinelChannel, Integers, SequenceTheorems, TLAPS

Holds(t, i) == ring[i].tid = t /\ ~ring[i].submitted

(* A thread that fills in a slot has exactly one, any other thread none.   *)
Slots ==
  /\ \A t \in Threads : pc[t] \in FillingIn => \E i \in DOMAIN ring : Holds(t, i)
  /\ \A t \in Threads : \A i \in DOMAIN ring : Holds(t, i) => pc[t] \in FillingIn
  /\ \A t \in Threads : \A i, j \in DOMAIN ring : Holds(t, i) /\ Holds(t, j) => i = j

ChannelInv == TypeOK /\ Slots

(* The ring as a function: an appended slot is the last one, a consumed one*)
(* the first.                                                              *)
LEMMA RingDomain ==
  ASSUME TypeOK
  PROVE  /\ Len(ring) \in Nat /\ DOMAIN ring = 1..Len(ring)
         /\ \A i \in DOMAIN ring : ring[i] \in Slot
BY DEF TypeOK

LEMMA ChannelInitInv == Init => ChannelInv
<1> SUFFICES ASSUME Init PROVE ChannelInv
  OBVIOUS
<1>1. DOMAIN ring = {} /\ Len(ring) = 0 /\ ring \in Seq(Slot)
  BY DEF Init
<1>2. TypeOK
  BY <1>1, ConstantsAssumption DEF Init, TypeOK, Where
<1>3. Slots
  BY <1>1 DEF Init, Slots, FillingIn
<1>4. QED
  BY <1>2, <1>3 DEF ChannelInv

(* The slot a probe fills in. *)
LEMMA MineIsHeld ==
  ASSUME ChannelInv, NEW t \in Threads, pc[t] \in FillingIn
  PROVE  /\ Mine(t) \in DOMAIN ring /\ Holds(t, Mine(t))
         /\ \A i \in DOMAIN ring : Holds(t, i) => i = Mine(t)
<1>1. DOMAIN ring = 1..Len(ring)
  BY RingDomain DEF ChannelInv
<1>2. PICK i \in 1..Len(ring) : ring[i].tid = t /\ ~ring[i].submitted
  BY <1>1 DEF ChannelInv, Slots, Holds
<1>3. Mine(t) \in 1..Len(ring) /\ ring[Mine(t)].tid = t /\ ~ring[Mine(t)].submitted
  BY <1>2 DEF Mine
<1>4. QED
  BY <1>1, <1>3 DEF ChannelInv, Slots, Holds

(* A step that only moves a thread within or outside the filling of a slot *)
(* and may write into a slot, neither adding nor submitting one.           *)
LEMMA StampInv ==
  ASSUME ChannelInv, TypeOK', NEW t \in Threads, NEW where \in Where, Goto(t, where),
         pc[t] \in FillingIn <=> where \in FillingIn,
         DOMAIN ring' = DOMAIN ring,
         \A i \in DOMAIN ring :
           ring'[i].tid = ring[i].tid /\ ring'[i].submitted = ring[i].submitted
  PROVE  ChannelInv'
<1>1. \A u \in Threads : pc'[u] \in FillingIn <=> pc[u] \in FillingIn
  BY DEF ChannelInv, TypeOK, Goto
<1>2. \A u \in Threads : \A i \in DOMAIN ring : Holds(u, i)' <=> Holds(u, i)
  BY DEF Holds
<1>3. Slots'
  BY <1>1, <1>2 DEF ChannelInv, Slots
<1>4. QED
  BY <1>3 DEF ChannelInv

LEMMA ProbeInv ==
  ASSUME ChannelInv, NEW t \in Threads, Probe(t) \/ Create(t) \/ Drop(t) \/ DropStore(t)
  PROVE  ChannelInv'
<1>1. UNCHANGED ring
  BY DEF Probe, Create, Drop, DropStore
<1>2. PICK where \in Where : Goto(t, where) /\ where \notin FillingIn /\ pc[t] \notin FillingIn
  BY DEF Probe, Create, Drop, DropStore, Where, FillingIn
<1>3. TypeOK'
  <2>1. ring \in Seq(Slot) /\ Len(ring) <= RingCap /\ pc' \in [Threads -> Where]
    BY <1>2 DEF ChannelInv, TypeOK, Goto
  <2>2. /\ st.drops \in Nat /\ st.seq \in Nat /\ local[t] \in Nat /\ tried \in Nat /\ MaxEvents \in Nat
        /\ st = [seq |-> st.seq, drops |-> st.drops]
    BY ConstantsAssumption DEF ChannelInv, TypeOK
  <2>3. exists' \in BOOLEAN /\ consumed' \in Nat /\ out' \in [seq : Nat, drop_count : Nat]
    BY DEF ChannelInv, TypeOK, Probe, Create, Drop, DropStore
  <2>7. tried' \in 0..MaxEvents
    <3>1. tried \in 0..MaxEvents
      BY DEF ChannelInv, TypeOK
    <3>2. tried' = tried \/ (tried' = tried + 1 /\ tried < MaxEvents)
      BY DEF Probe, Create, Drop, DropStore
    <3>3. QED
      BY <2>2, <3>1, <3>2
  <2>4. st' \in [seq : Nat, drops : Nat]
    BY <2>2 DEF ChannelInv, TypeOK, Probe, Create, Drop, DropStore
  <2>5. local' \in [Threads -> Nat]
    BY <2>2 DEF ChannelInv, TypeOK, Probe, Create, Drop, DropStore
  <2>6. QED
    BY <1>1, <2>1, <2>3, <2>4, <2>5, <2>7 DEF TypeOK
<1>4. QED
  BY <1>1, <1>2, <1>3, StampInv

LEMMA ReserveInv ==
  ASSUME ChannelInv, NEW t \in Threads, Reserve(t)
  PROVE  ChannelInv'
<1>0. /\ TypeOK /\ pc[t] = "reserve" /\ pc[t] \notin FillingIn /\ Len(ring) \in Nat
      /\ DOMAIN ring = 1..Len(ring) /\ RingCap \in Nat
  BY RingDomain, ConstantsAssumption DEF ChannelInv, Reserve, FillingIn
<1>1. CASE HasRoom
  <2> DEFINE slot == [tid |-> t, seq |-> 0, drop_count |-> 0, submitted |-> FALSE]
  <2>0. PICK n \in Nat : n = Len(ring) + 1
    BY <1>0
  <2>1. ring' = Append(ring, slot) /\ Goto(t, "seq")
    BY <1>1 DEF Reserve
  <2>2. slot \in Slot /\ ring \in Seq(Slot)
    BY <1>0 DEF Slot, TypeOK
  <2>3. ring' \in Seq(Slot) /\ Len(ring') = n /\ DOMAIN ring' = 1..n
    BY <2>0, <2>1, <2>2
  <2>4. ring'[n] = slot /\ \A i \in DOMAIN ring : ring'[i] = ring[i]
    BY <2>0, <2>1, <2>2, <1>0
  <2>5. n \in Nat /\ 1..n = 1..Len(ring) \cup {n} /\ n \notin 1..Len(ring) /\ n <= RingCap
    BY <2>0, <1>0, <1>1 DEF HasRoom
  <2>6. TypeOK'
    BY <2>1, <2>3, <2>5 DEF ChannelInv, TypeOK, Goto, Where, Reserve
  <2>7. /\ \A u \in Threads : \A i \in DOMAIN ring : Holds(u, i)' <=> Holds(u, i)
        /\ \A u \in Threads : Holds(u, n)' <=> t = u
    BY <2>4 DEF Holds
  <2>8. \A i \in DOMAIN ring : ~Holds(t, i)
    BY <1>0 DEF ChannelInv, Slots
  <2>9. \A u \in Threads : pc'[u] = IF u = t THEN "seq" ELSE pc[u]
    BY <2>1, <1>0 DEF Goto, TypeOK
  <2>10. Slots'
    <3>1. /\ DOMAIN ring' = DOMAIN ring \cup {n} /\ n \notin DOMAIN ring
          /\ \A u \in Threads : pc'[u] \in FillingIn <=> (u = t \/ pc[u] \in FillingIn)
      BY <1>0, <2>3, <2>5, <2>9 DEF FillingIn
    <3>2. \A u \in Threads : pc'[u] \in FillingIn => \E i \in DOMAIN ring' : Holds(u, i)'
      BY <2>7, <3>1 DEF ChannelInv, Slots
    <3>3. \A u \in Threads : \A i \in DOMAIN ring' : Holds(u, i)' => pc'[u] \in FillingIn
      BY <2>7, <3>1 DEF ChannelInv, Slots
    <3>4. \A u \in Threads : \A i, j \in DOMAIN ring' : Holds(u, i)' /\ Holds(u, j)' => i = j
      BY <2>7, <2>8, <3>1 DEF ChannelInv, Slots
    <3>5. QED
      BY <3>2, <3>3, <3>4 DEF Slots
  <2>11. QED
    BY <2>6, <2>10 DEF ChannelInv
<1>2. CASE ~HasRoom
  <2>1. UNCHANGED ring /\ Goto(t, "drop")
    BY <1>2 DEF Reserve
  <2>2. TypeOK'
    BY <2>1 DEF ChannelInv, TypeOK, Goto, Where, Reserve
  <2>3. QED
    BY <1>0, <2>1, <2>2, StampInv DEF Where, FillingIn
<1>3. QED
  BY <1>1, <1>2

LEMMA FillInv ==
  ASSUME ChannelInv, NEW t \in Threads,
         StampSeq(t) \/ StampDrops(t) \/ StoreSeq(t) \/ ClearDrops(t)
  PROVE  ChannelInv'
<1>0. TypeOK /\ pc[t] \in FillingIn
  BY DEF ChannelInv, StampSeq, StampDrops, StoreSeq, ClearDrops, FillingIn
<1>1. /\ st.drops \in Nat /\ st.seq \in Nat /\ st.seq + 1 \in Nat /\ local[t] \in Nat
      /\ st = [seq |-> st.seq, drops |-> st.drops]
  BY <1>0 DEF TypeOK
<1>2. Mine(t) \in DOMAIN ring /\ ring \in Seq(Slot) /\ ring[Mine(t)] \in Slot
  BY <1>0, MineIsHeld, RingDomain DEF TypeOK
<1>3. PICK where \in FillingIn : Goto(t, where)
  BY DEF StampSeq, StampDrops, StoreSeq, ClearDrops, FillingIn
<1>4. PICK slot \in Slot : ring' = [ring EXCEPT ![Mine(t)] = slot]
             /\ slot.tid = ring[Mine(t)].tid /\ slot.submitted = ring[Mine(t)].submitted
  <2>1. CASE StampSeq(t)
    <3>1. ring' = [ring EXCEPT ![Mine(t)] = [ring[Mine(t)] EXCEPT !.seq = st.seq + 1]]
      BY <2>1 DEF StampSeq
    <3>2. PICK old : old = ring[Mine(t)] /\ old \in Slot
      BY <1>2
    <3>3. [old EXCEPT !.seq = st.seq + 1] \in Slot
      BY <1>1, <3>2 DEF Slot
    <3>4. /\ [old EXCEPT !.seq = st.seq + 1].tid = old.tid
          /\ [old EXCEPT !.seq = st.seq + 1].submitted = old.submitted
      BY <3>2 DEF Slot
    <3>5. QED
      BY <3>1, <3>2, <3>3, <3>4
  <2>2. CASE StampDrops(t)
    <3>1. ring' = [ring EXCEPT ![Mine(t)] = [ring[Mine(t)] EXCEPT !.drop_count = st.drops]]
      BY <2>2 DEF StampDrops
    <3>2. PICK old : old = ring[Mine(t)] /\ old \in Slot
      BY <1>2
    <3>3. [old EXCEPT !.drop_count = st.drops] \in Slot
      BY <1>1, <3>2 DEF Slot
    <3>4. /\ [old EXCEPT !.drop_count = st.drops].tid = old.tid
          /\ [old EXCEPT !.drop_count = st.drops].submitted = old.submitted
      BY <3>2 DEF Slot
    <3>5. QED
      BY <3>1, <3>2, <3>3, <3>4
  <2>3. CASE StoreSeq(t) \/ ClearDrops(t)
    <3>1. ring' = ring /\ ring = [ring EXCEPT ![Mine(t)] = ring[Mine(t)]]
      BY <1>2, <2>3 DEF StoreSeq, ClearDrops
    <3>2. QED
      BY <1>2, <3>1
  <2>4. QED
    BY <2>1, <2>2, <2>3
<1>5. /\ DOMAIN ring' = DOMAIN ring /\ ring' \in Seq(Slot) /\ Len(ring') = Len(ring)
      /\ \A i \in DOMAIN ring : ring'[i] = IF i = Mine(t) THEN slot ELSE ring[i]
  BY <1>2, <1>4
<1>6. TypeOK'
  <2>1. pc' \in [Threads -> Where]
    BY <1>0, <1>3 DEF TypeOK, Goto, Where, FillingIn
  <2>2. st' \in [seq : Nat, drops : Nat]
    BY <1>0, <1>1 DEF StampSeq, StampDrops, StoreSeq, ClearDrops, Cleared, TypeOK
  <2>3. local' \in [Threads -> Nat]
    BY <1>0, <1>1 DEF StampSeq, StampDrops, StoreSeq, ClearDrops, TypeOK
  <2>4. QED
    BY <1>0, <1>5, <2>1, <2>2, <2>3 DEF TypeOK, StampSeq, StampDrops, StoreSeq, ClearDrops
<1>7. QED
  BY <1>0, <1>3, <1>4, <1>5, <1>6, StampInv DEF Where, FillingIn

LEMMA SubmitInv ==
  ASSUME ChannelInv, NEW t \in Threads, Submit(t)
  PROVE  ChannelInv'
<1>0. TypeOK /\ pc[t] \in FillingIn
  BY DEF ChannelInv, Submit, FillingIn
<1> DEFINE m == Mine(t)
           slot == [ring[m] EXCEPT !.submitted = TRUE]
<1>1. m \in DOMAIN ring /\ Holds(t, m) /\ ring \in Seq(Slot) /\ ring[m] \in Slot
  BY <1>0, MineIsHeld, RingDomain DEF TypeOK
<1>2. slot \in Slot /\ slot.tid = ring[m].tid /\ slot.submitted = TRUE
  BY <1>1 DEF Slot
<1>3. ring' = [ring EXCEPT ![m] = slot]
  BY DEF Submit, Filled
<1>4. /\ DOMAIN ring' = DOMAIN ring /\ ring' \in Seq(Slot) /\ Len(ring') = Len(ring)
      /\ \A i \in DOMAIN ring : ring'[i] = IF i = m THEN slot ELSE ring[i]
  BY <1>1, <1>2, <1>3
<1>5. \A u \in Threads : pc'[u] = IF u = t THEN "idle" ELSE pc[u]
  BY <1>0 DEF TypeOK, Submit, Goto
<1>6. TypeOK'
  <2>1. pc' \in [Threads -> Where]
    BY <1>0 DEF TypeOK, Submit, Goto, Where
  <2>2. QED
    BY <1>0, <1>4, <2>1 DEF TypeOK, Submit
<1>7. \A u \in Threads : \A i \in DOMAIN ring : Holds(u, i)' <=> Holds(u, i) /\ i # m
  BY <1>2, <1>4 DEF Holds
<1>8. /\ \A i \in DOMAIN ring : Holds(t, i) => i = m
      /\ \A u \in Threads : Holds(u, m) => u = t
  BY <1>0, <1>1, MineIsHeld DEF Holds
<1>9. Slots'
  <2>1. \A u \in Threads : pc'[u] \in FillingIn => u # t /\ pc[u] \in FillingIn
    BY <1>5 DEF FillingIn
  <2>2. \A u \in Threads : pc'[u] \in FillingIn => \E i \in DOMAIN ring' : Holds(u, i)'
    BY <1>4, <1>7, <1>8, <2>1 DEF ChannelInv, Slots
  <2>3. \A u \in Threads : \A i \in DOMAIN ring' : Holds(u, i)' => pc'[u] \in FillingIn
    BY <1>4, <1>5, <1>7, <1>8 DEF ChannelInv, Slots
  <2>4. \A u \in Threads : \A i, j \in DOMAIN ring' : Holds(u, i)' /\ Holds(u, j)' => i = j
    BY <1>4, <1>7 DEF ChannelInv, Slots
  <2>5. QED
    BY <2>2, <2>3, <2>4 DEF Slots
<1>10. QED
  BY <1>6, <1>9 DEF ChannelInv

LEMMA ConsumeInv ==
  ASSUME ChannelInv, Consume
  PROVE  ChannelInv'
<1>0. /\ TypeOK /\ ring \in Seq(Slot) /\ ring # <<>> /\ Len(ring) \in Nat \ {0}
      /\ DOMAIN ring = 1..Len(ring) /\ ring' = Tail(ring) /\ ring[1].submitted
      /\ RingCap \in Nat /\ Len(ring) <= RingCap
  BY ConstantsAssumption DEF ChannelInv, Consume, TypeOK
<1>1. /\ ring' \in Seq(Slot) /\ Len(ring') = Len(ring) - 1 /\ DOMAIN ring' = 1..(Len(ring) - 1)
      /\ \A i \in DOMAIN ring' : i + 1 \in DOMAIN ring /\ ring'[i] = ring[i + 1]
  BY <1>0
<1>2. ring[1] \in Slot /\ 1 \in DOMAIN ring
  BY <1>0
<1>3. TypeOK'
  BY <1>0, <1>1, <1>2 DEF TypeOK, Consume, Slot
<1>4. \A u \in Threads : \A i \in DOMAIN ring' : Holds(u, i)' <=> Holds(u, i + 1)
  BY <1>1 DEF Holds
<1>5. ASSUME NEW u \in Threads, NEW i \in DOMAIN ring, Holds(u, i)
      PROVE  i - 1 \in DOMAIN ring' /\ (i - 1) + 1 = i
  <2>1. i # 1
    BY <1>0, <1>5 DEF Holds
  <2>2. i \in 1..Len(ring) /\ Len(ring) \in Nat /\ DOMAIN ring' = 1..(Len(ring) - 1)
    BY <1>0, <1>1
  <2>3. QED
    BY <2>1, <2>2
<1>6. UNCHANGED pc
  BY DEF Consume
<1>7. Slots'
  <2>1. \A u \in Threads : pc'[u] \in FillingIn => \E i \in DOMAIN ring' : Holds(u, i)'
    <3> SUFFICES ASSUME NEW u \in Threads, pc[u] \in FillingIn
                 PROVE  \E i \in DOMAIN ring' : Holds(u, i)'
      BY <1>6
    <3>1. PICK i \in DOMAIN ring : Holds(u, i)
      BY DEF ChannelInv, Slots
    <3>2. i - 1 \in DOMAIN ring' /\ Holds(u, (i - 1) + 1)
      BY <1>5, <3>1
    <3>3. QED
      BY <1>4, <3>2
  <2>2. \A u \in Threads : \A i \in DOMAIN ring' : Holds(u, i)' => pc'[u] \in FillingIn
    BY <1>1, <1>4, <1>6 DEF ChannelInv, Slots
  <2>3. \A u \in Threads : \A i, j \in DOMAIN ring' : Holds(u, i)' /\ Holds(u, j)' => i = j
    <3> SUFFICES ASSUME NEW u \in Threads, NEW i \in DOMAIN ring', NEW j \in DOMAIN ring',
                        Holds(u, i)', Holds(u, j)'
                 PROVE  i = j
      OBVIOUS
    <3>1. i + 1 = j + 1
      BY <1>1, <1>4 DEF ChannelInv, Slots
    <3>2. i \in Int /\ j \in Int
      BY <1>1
    <3>3. QED
      BY <3>1, <3>2
  <2>4. QED
    BY <2>1, <2>2, <2>3 DEF Slots
<1>8. QED
  BY <1>3, <1>7 DEF ChannelInv

LEMMA ChannelStepInv == ChannelInv /\ [Next]_vars => ChannelInv'
<1> SUFFICES ASSUME ChannelInv, [Next]_vars PROVE ChannelInv'
  OBVIOUS
<1>1. CASE UNCHANGED vars
  BY <1>1 DEF vars, ChannelInv, TypeOK, Slots, Holds
<1>2. CASE Consume
  BY <1>2, ConsumeInv
<1>3. ASSUME NEW t \in Threads, Probe(t) \/ Running(t)
      PROVE  ChannelInv'
  BY <1>3, ProbeInv, ReserveInv, FillInv, SubmitInv DEF Running
<1>4. QED
  BY <1>1, <1>2, <1>3 DEF Next

LEMMA ChannelAlways == Spec => []ChannelInv
<1>1. QED
  BY ChannelInitInv, ChannelStepInv, PTL DEF Spec

(* Numbers, drops and slots keep their types and the ring its capacity.    *)
THEOREM ChannelTypes == Spec => []TypeOK
<1>1. ChannelInv => TypeOK
  BY DEF ChannelInv
<1>2. QED
  BY <1>1, ChannelAlways, PTL

(* No probe returns without submitting the slot it has reserved.           *)
THEOREM NothingAbandoned == Spec => []NoAbandonedSlot
<1>1. ChannelInv => NoAbandonedSlot
  BY RingDomain DEF ChannelInv, Slots, Holds, NoAbandonedSlot, Slot
<1>2. QED
  BY <1>1, ChannelAlways, PTL

----------------------------------------------------------------------------
(* One thread: every step of its probe and of the agent maps to a step of  *)
(* the stream or to none.  What the probe has read is what it will write.  *)

SoloInv ==
  /\ pc[Solo] \in {"dropCount", "seqStore"} => local[Solo] = st.seq + 1
  /\ pc[Solo] = "dropStore" => local[Solo] = st.drops + 1
  /\ pc[Solo] = "submit" => st.drops = 0

OneThread == Threads = {Solo}

Emitted == [seq : Nat, drop_count : Nat]

QueueRight ==
  /\ StreamQueue \in Seq(Emitted) /\ Len(StreamQueue) = Len(ring)
  /\ \A i \in 1..Len(ring) : StreamQueue[i] = Promised(ring[i])

LEMMA QueueIsSeq == ChannelInv => QueueRight
<1> SUFFICES ASSUME ChannelInv PROVE QueueRight
  OBVIOUS
<1>1. /\ DOMAIN ring = 1..Len(ring) /\ Len(ring) \in Nat
      /\ \A i \in 1..Len(ring) : ring[i] \in Slot
  BY RingDomain DEF ChannelInv
<1>2. st.seq \in Nat /\ st.seq + 1 \in Nat /\ st.drops \in Nat
  BY DEF ChannelInv, TypeOK
<1>3. \A slot \in Slot : Promised(slot) \in Emitted
  BY <1>2 DEF Promised, Emitted, Slot
<1>4. StreamQueue \in [1..Len(ring) -> Emitted]
  BY <1>1, <1>3 DEF StreamQueue
<1>5. StreamQueue \in Seq(Emitted)
  BY <1>1, <1>4, SeqDef
<1>6. Len(StreamQueue) = Len(ring)
  BY <1>1, <1>4, <1>5
<1>7. QED
  BY <1>1, <1>5, <1>6 DEF StreamQueue, QueueRight

LEMMA QueueStaysSeq == ChannelInv' => QueueRight'
BY QueueIsSeq, PTL

LEMMA QueueKept ==
  ASSUME ChannelInv, ChannelInv', Len(ring') = Len(ring),
         \A i \in 1..Len(ring) : Promised(ring[i])' = Promised(ring[i])
  PROVE  StreamQueue' = StreamQueue
<1>1. DOMAIN ring = 1..Len(ring)
  BY RingDomain DEF ChannelInv
<1>2. DOMAIN ring' = 1..Len(ring')
  BY DEF ChannelInv, TypeOK
<1>3. QED
  BY <1>1, <1>2 DEF StreamQueue

(* A slot that has been submitted, or is filled in by nobody who moves, is *)
(* promised what it holds.                                                 *)
LEMMA SoloFacts ==
  ASSUME ChannelInv, OneThread
  PROVE  /\ pc \in [Threads -> Where] /\ Solo \in Threads
         /\ st.seq \in Nat /\ st.drops \in Nat /\ st = [seq |-> st.seq, drops |-> st.drops]
         /\ \A t \in Threads : t = Solo
         /\ \A i \in 1..Len(ring) : ring[i].tid = Solo /\ ring[i].submitted \in BOOLEAN
         /\ pc[Solo] \notin FillingIn => \A i \in 1..Len(ring) : ring[i].submitted
<1>1. TypeOK /\ Solo \in Threads /\ DOMAIN ring = 1..Len(ring)
  BY RingDomain DEF ChannelInv, OneThread
<1>2. st.seq \in Nat /\ st.drops \in Nat /\ st = [seq |-> st.seq, drops |-> st.drops]
  BY <1>1 DEF TypeOK
<1>3. \A i \in 1..Len(ring) : ring[i].tid = Solo /\ ring[i].submitted \in BOOLEAN
  BY <1>1, RingDomain DEF ChannelInv, OneThread, Slot
<1>4. pc[Solo] \notin FillingIn => \A i \in 1..Len(ring) : ring[i].submitted
  BY <1>1, <1>3 DEF ChannelInv, Slots, Holds
<1>5. QED
  BY <1>1, <1>2, <1>3, <1>4 DEF TypeOK, OneThread

LEMMA ReserveMaps ==
  ASSUME ChannelInv, ChannelInv', OneThread, SoloInv, Reserve(Solo)
  PROVE  SoloInv' /\ (Stream!Emit \/ Stream!Lose)
<1>1. /\ pc[Solo] = "reserve" /\ \A i \in 1..Len(ring) : ring[i].submitted
      /\ UNCHANGED <<st, out>>
  BY SoloFacts DEF Reserve, FillingIn
<1>2. CASE HasRoom
  <2> DEFINE slot == [tid |-> Solo, seq |-> 0, drop_count |-> 0, submitted |-> FALSE]
             event == [seq |-> st.seq + 1, drop_count |-> st.drops]
  <2>1. ring' = Append(ring, slot) /\ pc'[Solo] = "seq"
    BY <1>2, SoloFacts DEF Reserve, Goto
  <2>2. ring \in Seq(Slot) /\ slot \in Slot /\ Len(ring) \in Nat
    BY SoloFacts, RingDomain DEF ChannelInv, TypeOK, Slot
  <2>3. /\ Len(ring') = Len(ring) + 1 /\ ring'[Len(ring) + 1] = slot
        /\ \A i \in 1..Len(ring) : ring'[i] = ring[i]
    BY <2>1, <2>2
  <2>4. \A i \in 1..Len(ring) : Promised(ring[i])' = Promised(ring[i])
    BY <1>1, <2>3 DEF Promised
  <2>5. StreamQueue' = Append(StreamQueue, event)
    <3>1. StreamQueue \in Seq(Emitted) /\ event \in Emitted
      BY QueueIsSeq, SoloFacts DEF Emitted, QueueRight
    <3>2. StreamQueue' \in Seq(Emitted) /\ Len(StreamQueue') = Len(ring')
          /\ \A i \in 1..Len(ring') : StreamQueue'[i] = Promised(ring[i])'
      BY QueueStaysSeq DEF QueueRight
    <3>3. /\ Len(ring') = Len(StreamQueue) + 1 /\ Len(StreamQueue) = Len(ring)
          /\ \A i \in 1..Len(ring) : StreamQueue'[i] = StreamQueue[i]
          /\ StreamQueue'[Len(ring) + 1] = event
      <4>1. \A i \in 1..Len(ring) : i \in 1..Len(ring')
        BY <2>2, <2>3
      <4>2. Len(ring) + 1 \in 1..Len(ring')
        BY <2>2, <2>3
      <4>0. PICK n : n = Len(ring) + 1
        OBVIOUS
      <4>3. StreamQueue'[n] = Promised(ring[n])'
        BY <3>2, <4>0, <4>2
      <4>7. ring'[n] = slot /\ UNCHANGED st /\ pc'[Solo] = "seq"
        BY <1>1, <2>1, <2>3, <4>0
      <4>8. Promised(ring[n])' = event
        BY <4>7 DEF Promised
      <4>4. StreamQueue'[Len(ring) + 1] = event
        BY <4>0, <4>3, <4>8
      <4>5. \A i \in 1..Len(ring) : StreamQueue'[i] = StreamQueue[i]
        BY <2>4, <3>2, <4>1, QueueIsSeq DEF QueueRight
      <4>6. QED
        BY <2>3, <4>4, <4>5, QueueIsSeq DEF QueueRight
    <3>4. QED
      <4>1. PICK q : q = Append(StreamQueue, event)
        OBVIOUS
      <4>2. /\ q \in Seq(Emitted) /\ Len(q) = Len(ring) + 1
            /\ \A i \in 1..Len(ring) : q[i] = StreamQueue[i]
            /\ q[Len(ring) + 1] = event
        BY <3>1, <3>3, <4>1
      <4>3. \A i \in 1..Len(q) : i \in 1..Len(ring) \/ i = Len(ring) + 1
        BY <2>2, <4>2
      <4>4. \A i \in 1..Len(q) : q[i] = StreamQueue'[i]
        BY <3>3, <4>2, <4>3
      <4>5. Len(q) = Len(StreamQueue')
        BY <2>3, <3>2, <4>2
      <4>6. QED
        BY <3>2, <4>1, <4>2, <4>4, <4>5, SeqEqual
  <2>6. Stream!Emit
    BY <1>1, <1>2, <2>1, <2>5, QueueIsSeq DEF QueueRight, Stream!Emit, StreamSeq, StreamLost, HasRoom,
       Filling, FillingIn
  <2>7. QED
    BY <2>1, <2>6 DEF SoloInv
<1>3. CASE ~HasRoom
  <2>1. UNCHANGED ring /\ pc'[Solo] = "drop"
    BY <1>3, SoloFacts DEF Reserve, Goto
  <2>2. StreamQueue' = StreamQueue
    BY <1>1, <2>1, QueueKept DEF Promised
  <2>3. Len(StreamQueue) = RingCap
    <3>1. Len(ring) \in Nat /\ RingCap \in Nat /\ Len(ring) <= RingCap
      BY RingDomain, ConstantsAssumption DEF ChannelInv, TypeOK
    <3>2. Len(ring) = RingCap
      BY <1>3, <3>1 DEF HasRoom
    <3>3. QED
      BY <3>2, QueueIsSeq DEF QueueRight
  <2>4. QED
    BY <1>1, <2>1, <2>2, <2>3 DEF Stream!Lose, StreamSeq, StreamLost, Filling, FillingIn, SoloInv
<1>4. QED
  BY <1>2, <1>3

(* What a probe does besides reserving is no step of the stream.           *)
LEMMA QuietMaps ==
  ASSUME ChannelInv, ChannelInv', OneThread, SoloInv,
         Probe(Solo) \/ Create(Solo) \/ Drop(Solo) \/ DropStore(Solo)
  PROVE  SoloInv' /\ UNCHANGED Stream!vars
<1>1. UNCHANGED <<ring, out>> /\ \A i \in 1..Len(ring) : ring[i].submitted
  BY SoloFacts DEF Probe, Create, Drop, DropStore, FillingIn
<1>2. UNCHANGED StreamQueue
  BY <1>1, QueueKept DEF Promised
<1>3. CASE Probe(Solo) \/ Create(Solo)
  <2>1. /\ UNCHANGED st /\ pc[Solo] \in {"idle", "create"}
        /\ pc'[Solo] \in {"idle", "create", "reserve"}
    BY <1>3, SoloFacts DEF Probe, Create, Goto
  <2>2. QED
    BY <1>1, <1>2, <2>1 DEF Stream!vars, StreamSeq, StreamLost, Filling, FillingIn, SoloInv
<1>4. CASE Drop(Solo)
  <2>1. UNCHANGED st /\ pc[Solo] = "drop" /\ pc'[Solo] = "dropStore"
    BY <1>4, SoloFacts DEF Drop, Goto
  <2>2. local'[Solo] = st.drops + 1
    BY <1>4, SoloFacts DEF Drop, ChannelInv, TypeOK
  <2>3. QED
    BY <1>1, <1>2, <2>1, <2>2 DEF Stream!vars, StreamSeq, StreamLost, Filling, FillingIn, SoloInv
<1>5. CASE DropStore(Solo)
  <2>1. pc[Solo] = "dropStore" /\ pc'[Solo] = "idle"
    BY <1>5, SoloFacts DEF DropStore, Goto
  <2>2. st'.seq = st.seq /\ st'.drops = st.drops + 1
    BY <1>5, <2>1, SoloFacts DEF DropStore, SoloInv, ChannelInv, TypeOK
  <2>3. QED
    BY <1>1, <1>2, <2>1, <2>2 DEF Stream!vars, StreamSeq, StreamLost, Filling, FillingIn, SoloInv
<1>6. QED
  BY <1>3, <1>4, <1>5

(* Nor is what it does to fill its slot in: the event was promised so.     *)
LEMMA FillMaps ==
  ASSUME ChannelInv, ChannelInv', OneThread, SoloInv,
         \/ StampSeq(Solo) \/ StampDrops(Solo) \/ StoreSeq(Solo)
         \/ ClearDrops(Solo) \/ Submit(Solo)
  PROVE  SoloInv' /\ UNCHANGED Stream!vars
<1>0. /\ pc[Solo] \in FillingIn /\ UNCHANGED out
      /\ Solo \in Threads /\ ring \in Seq(Slot) /\ DOMAIN ring = 1..Len(ring)
      /\ \A i \in DOMAIN ring : ring[i] \in Slot
  BY SoloFacts, RingDomain
     DEF StampSeq, StampDrops, StoreSeq, ClearDrops, Submit, FillingIn, ChannelInv, TypeOK
<1>1. PICK m \in DOMAIN ring : m = Mine(Solo) /\ Holds(Solo, m)
  BY <1>0, MineIsHeld
<1>2. \A i \in 1..Len(ring) : i # m => ring[i].submitted
  BY <1>0, <1>1, MineIsHeld, SoloFacts DEF Holds
<1>3. PICK old : old = ring[m] /\ old \in Slot /\ ~old.submitted /\ old.tid = Solo
  BY <1>0, <1>1 DEF Holds
<1>4. ASSUME NEW new, ring' = [ring EXCEPT ![m] = new], Promised(new)' = Promised(old)
      PROVE  UNCHANGED StreamQueue
  <2>1. /\ Len(ring') = Len(ring)
        /\ \A i \in 1..Len(ring) : ring'[i] = IF i = m THEN new ELSE ring[i]
    BY <1>0, <1>4
  <2>2. \A i \in 1..Len(ring) : i # m => Promised(ring[i])' = Promised(ring[i])
    BY <1>2, <2>1 DEF Promised
  <2>3. \A i \in 1..Len(ring) : i = m => Promised(ring[i])' = Promised(ring[i])
    BY <1>3, <1>4, <2>1 DEF Promised
  <2>4. QED
    BY <2>1, <2>2, <2>3, QueueKept
<1>5. CASE StampSeq(Solo)
  <2>0. PICK new : new = [old EXCEPT !.seq = st.seq + 1]
    OBVIOUS
  <2>1. UNCHANGED st /\ pc[Solo] = "seq" /\ pc'[Solo] = "dropCount" /\ local'[Solo] = st.seq + 1
    BY <1>0, <1>5, SoloFacts DEF StampSeq, Goto, ChannelInv, TypeOK
  <2>2. ring' = [ring EXCEPT ![m] = new]
    BY <1>1, <1>3, <1>5, <2>0 DEF StampSeq
  <2>3. new.seq = st.seq + 1 /\ new.tid = Solo /\ ~new.submitted
    BY <1>3, <2>0 DEF Slot
  <2>4. Promised(new)' = Promised(old)
    BY <1>3, <2>1, <2>3 DEF Promised
  <2>5. UNCHANGED StreamQueue
    BY <1>4, <2>2, <2>4
  <2>6. QED
    BY <1>0, <2>1, <2>5 DEF Stream!vars, StreamSeq, StreamLost, Filling, FillingIn, SoloInv
<1>6. CASE StampDrops(Solo)
  <2>0. PICK new : new = [old EXCEPT !.drop_count = st.drops]
    OBVIOUS
  <2>1. UNCHANGED <<st, local>> /\ pc[Solo] = "dropCount" /\ pc'[Solo] = "seqStore"
    BY <1>0, <1>6, SoloFacts DEF StampDrops, Goto
  <2>2. ring' = [ring EXCEPT ![m] = new]
    BY <1>1, <1>3, <1>6, <2>0 DEF StampDrops
  <2>3. new.seq = old.seq /\ new.drop_count = st.drops /\ new.tid = Solo /\ ~new.submitted
    BY <1>3, <2>0 DEF Slot
  <2>4. Promised(new)' = Promised(old)
    BY <1>3, <2>1, <2>3 DEF Promised
  <2>5. UNCHANGED StreamQueue
    BY <1>4, <2>2, <2>4
  <2>6. QED
    BY <1>0, <2>1, <2>5 DEF Stream!vars, StreamSeq, StreamLost, Filling, FillingIn, SoloInv
<1>7. ring = [ring EXCEPT ![m] = old]
  BY <1>0, <1>3
<1>8. CASE StoreSeq(Solo)
  <2>1. /\ pc[Solo] = "seqStore" /\ pc'[Solo] = "dropClear"
        /\ st'.seq = st.seq + 1 /\ st'.drops = st.drops
    BY <1>0, <1>8, SoloFacts DEF StoreSeq, Goto, SoloInv, ChannelInv, TypeOK
  <2>2. UNCHANGED ring /\ Promised(old)' = Promised(old)
    BY <1>3, <1>8, <2>1 DEF Promised, StoreSeq
  <2>3. UNCHANGED StreamQueue
    BY <1>4, <1>7, <2>2
  <2>4. QED
    BY <1>0, <2>1, <2>3 DEF Stream!vars, StreamSeq, StreamLost, Filling, FillingIn, SoloInv
<1>9. CASE ClearDrops(Solo)
  <2>1. /\ pc[Solo] = "dropClear" /\ pc'[Solo] = "submit"
        /\ st'.seq = st.seq /\ st'.drops = 0
    BY <1>0, <1>9, SoloFacts DEF ClearDrops, Cleared, Goto, ChannelInv, TypeOK
  <2>2. UNCHANGED ring /\ Promised(old)' = Promised(old)
    BY <1>3, <1>9, <2>1 DEF Promised, ClearDrops
  <2>3. UNCHANGED StreamQueue
    BY <1>4, <1>7, <2>2
  <2>4. QED
    BY <1>0, <2>1, <2>3 DEF Stream!vars, StreamSeq, StreamLost, Filling, FillingIn, SoloInv
<1>10. CASE Submit(Solo)
  <2>0. PICK new : new = [old EXCEPT !.submitted = TRUE]
    OBVIOUS
  <2>1. UNCHANGED <<st, local>> /\ pc[Solo] = "submit" /\ pc'[Solo] = "idle"
    BY <1>0, <1>10, SoloFacts DEF Submit, Goto
  <2>2. ring' = [ring EXCEPT ![m] = new]
    BY <1>1, <1>3, <1>10, <2>0 DEF Submit, Filled
  <2>3. /\ new.seq = old.seq /\ new.drop_count = old.drop_count /\ new.tid = Solo
        /\ new.submitted
    BY <1>3, <2>0 DEF Slot
  <2>4. Promised(new)' = Promised(old)
    BY <1>3, <2>1, <2>3 DEF Promised
  <2>5. UNCHANGED StreamQueue
    BY <1>4, <2>2, <2>4
  <2>6. QED
    BY <1>0, <2>1, <2>5 DEF Stream!vars, StreamSeq, StreamLost, Filling, FillingIn, SoloInv
<1>11. QED
  BY <1>5, <1>6, <1>8, <1>9, <1>10

(* The agent takes the oldest event of the stream, as it was promised.     *)
LEMMA ConsumeMaps ==
  ASSUME ChannelInv, ChannelInv', OneThread, SoloInv, Consume
  PROVE  SoloInv' /\ Stream!Deliver
<1>0. /\ UNCHANGED <<st, local, pc>> /\ ring \in Seq(Slot) /\ ring # <<>>
      /\ ring[1].submitted /\ ring' = Tail(ring)
      /\ out' = [seq |-> ring[1].seq, drop_count |-> ring[1].drop_count]
  BY DEF Consume, ChannelInv, TypeOK
<1>1. /\ Len(ring) \in Nat \ {0} /\ Len(ring') = Len(ring) - 1
      /\ \A i \in 1..Len(ring') : ring'[i] = ring[i + 1] /\ i + 1 \in 1..Len(ring)
      /\ 1 \in 1..Len(ring)
  BY <1>0
<1>2. /\ StreamQueue \in Seq(Emitted) /\ Len(StreamQueue) = Len(ring)
      /\ \A i \in 1..Len(ring) : StreamQueue[i] = Promised(ring[i])
  BY QueueIsSeq DEF QueueRight
<1>3. /\ StreamQueue' \in Seq(Emitted) /\ Len(StreamQueue') = Len(ring')
      /\ \A i \in 1..Len(ring') : StreamQueue'[i] = Promised(ring[i])'
  BY QueueStaysSeq DEF QueueRight
<1>4. StreamQueue # <<>>
  BY <1>1, <1>2
<1>5. PICK q : q = Tail(StreamQueue)
  OBVIOUS
<1>6. /\ q \in Seq(Emitted) /\ Len(q) = Len(ring')
      /\ \A i \in 1..Len(ring') : q[i] = StreamQueue[i + 1]
  BY <1>1, <1>2, <1>4, <1>5
<1>7. \A i \in 1..Len(ring') : Promised(ring[i])' = Promised(ring[i + 1])
  BY <1>0, <1>1 DEF Promised
<1>8. \A i \in 1..Len(q) : q[i] = StreamQueue'[i]
  BY <1>1, <1>2, <1>3, <1>6, <1>7
<1>9. StreamQueue' = Tail(StreamQueue)
  BY <1>3, <1>5, <1>6, <1>8, SeqEqual
<1>10. Head(StreamQueue) = Promised(ring[1])
  BY <1>1, <1>2, <1>4
<1>11. out' = Head(StreamQueue)
  BY <1>0, <1>10 DEF Promised
<1>12. QED
  BY <1>0, <1>4, <1>9, <1>11 DEF Stream!Deliver, StreamSeq, StreamLost, Filling, FillingIn,
                                 SoloInv

LEMMA SoloStep ==
  OneThread /\ ChannelInv /\ ChannelInv' /\ SoloInv /\ [Next]_vars
    => SoloInv' /\ [Stream!Next]_(Stream!vars)
<1> SUFFICES ASSUME OneThread, ChannelInv, ChannelInv', SoloInv, [Next]_vars
             PROVE  SoloInv' /\ [Stream!Next]_(Stream!vars)
  OBVIOUS
<1>1. CASE UNCHANGED vars
  BY <1>1 DEF vars, SoloInv, Stream!vars, StreamSeq, StreamLost, StreamQueue, Promised,
              Filling
<1>2. CASE Consume
  BY <1>2, ConsumeMaps DEF Stream!Next
<1>3. ASSUME NEW t \in Threads, Probe(t) \/ Running(t)
      PROVE  SoloInv' /\ [Stream!Next]_(Stream!vars)
  <2>1. t = Solo
    BY DEF OneThread
  <2>2. QED
    BY <1>3, <2>1, QuietMaps, ReserveMaps, FillMaps DEF Running, Stream!Next
<1>4. QED
  BY <1>1, <1>2, <1>3 DEF Next

(* With one thread the steps of the channel are those of EventStream: the  *)
(* safety part of StreamSpec, for any ring and any number of events.       *)
THEOREM SoloIsStream ==
  OneThread => (Spec => Stream!Init /\ [][Stream!Next]_(Stream!vars))
<1> SUFFICES ASSUME OneThread
             PROVE  Spec => Stream!Init /\ [][Stream!Next]_(Stream!vars)
  OBVIOUS
<1>1. Init => SoloInv /\ Stream!Init
  <2> SUFFICES ASSUME Init PROVE SoloInv /\ Stream!Init
    OBVIOUS
  <2>1. pc[Solo] = "idle"
    BY DEF Init, OneThread
  <2>2. StreamQueue = <<>>
    BY ChannelInitInv, QueueIsSeq DEF Init, QueueRight
  <2>3. QED
    BY <2>1, <2>2 DEF Init, SoloInv, Stream!Init, StreamSeq, StreamLost, Filling, FillingIn
<1>2. ChannelInv /\ ChannelInv' /\ SoloInv /\ [Next]_vars
        => SoloInv' /\ [Stream!Next]_(Stream!vars)
  BY SoloStep
<1>3. QED
  BY <1>1, <1>2, ChannelAlways, PTL DEF Spec
=============================================================================
