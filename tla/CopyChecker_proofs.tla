------------------------- MODULE CopyChecker_proofs -------------------------
(***************************************************************************)
(* That writes into live blocks are judged rightly.  Writes from the first *)
(* byte, for any number of threads, follow from what HeapTracker_proofs    *)
(* shows of the records: a block in the program's hands is recorded with   *)
(* its size or with none.  Writes from the middle also need the range      *)
(* index: every range in it is that of a recorded block (so an overrun     *)
(* index forgets, but does not mislead), and the range of a recorded block *)
(* is on each of its indexed pages that was never crowded.                 *)
(***************************************************************************)
EXTENDS CopyChecker, HeapTracker_proofs, FiniteSetTheorems

LEMMA SeenLengthBounds ==
  ASSUME NEW api \in Apis, NEW n \in Lengths
  PROVE  SeenLength(api, n) \in Nat /\ SeenLength(api, n) <= n
BY CopyAssumption DEF SeenLength

LEMMA NarrowedBounds ==
  ASSUME NEW n \in Nat
  PROVE  /\ Narrowed(n) \in Nat /\ Narrowed(n) <= n
         /\ n <= U32Max => Narrowed(n) = n
         /\ n > U32Max => Narrowed(n) = U32Max
BY CopyAssumption DEF Narrowed, saturate_u32

(* What the records say of a block the program holds.                      *)
LEMMA OwnedBlock ==
  ASSUME IInv, ~Evicts, NEW a \in owned
  PROVE  /\ a \in Addrs /\ a \in Nat /\ a # 0 /\ heap[a].size \in Nat /\ armed
         /\ heap[a].size \in Sizes \cup {0} /\ Live(a)
         /\ allocs[a] # None /\ allocs[a].size \in {0, heap[a].size}
<1>1. a \in Addrs /\ Live(a)
  BY DEF IInv, TypeInv, TypeOK, Exclusive
<1>2. heap[a] \in Cell
  BY <1>1 DEF IInv, TypeInv, TypeOK
<1>3. heap[a].size \in Sizes \cup {0} /\ heap[a].size \in Nat
  BY <1>2, ConstantsAssumption DEF Cell
<1>4. a \in Nat /\ a # 0
  BY <1>1, ConstantsAssumption
<1>5. Recorded(a)
  BY DEF IInv
<1>6. armed
  BY <1>1, <1>5 DEF IInv, Recorded
<1>7. QED
  BY <1>1, <1>3, <1>4, <1>5, <1>6 DEF Recorded

(* If the hook takes for the destination the block or nothing, a write in  *)
(* the block is not reported, and one that leaves a block found is.        *)
LEMMA JudgedIf ==
  ASSUME NEW a \in Nat, heap[a].size \in Nat, Fits(a), armed,
         NEW off \in 0..heap[a].size, NEW n \in Lengths, NEW api \in Apis,
         Destination(a + off).size \in Nat /\ Destination(a + off).offset \in Nat,
         off < heap[a].size /\ Destination(a + off).size # 0 =>
           /\ Destination(a + off).size = heap[a].size
           /\ Destination(a + off).offset = off
  PROVE  LET len == SeenLength(api, n)
         IN /\ off + n <= heap[a].size => ~Reported(a + off, len)
            /\ off < heap[a].size /\ off + len > heap[a].size
                 /\ Destination(a + off).size # 0 => Reported(a + off, len)
<1> DEFINE len == SeenLength(api, n)
           size == heap[a].size
           d == Destination(a + off)
           e == WriteEvent(a + off, len)
<1>1. /\ size \in Nat /\ U32Max \in Nat /\ size < U32Max
      /\ off \in Nat /\ off <= size
      /\ n \in Nat /\ len \in Nat /\ len <= n
  BY SeenLengthBounds, CopyAssumption DEF Fits
<1>2. /\ e.len = Narrowed(len) /\ e.alloc_size = Narrowed(d.size)
      /\ e.alloc_offset = Narrowed(d.offset)
  BY DEF WriteEvent
<1>3. /\ e.len \in Nat /\ e.len <= len
      /\ e.len = len \/ e.len = U32Max
      /\ e.alloc_size \in Nat /\ e.alloc_offset \in Nat
      /\ d.size = 0 => e.alloc_size = 0
  BY <1>1, <1>2, NarrowedBounds
<1>4. CASE d.size = 0
  <2>1. e.alloc_size = 0
    BY <1>3, <1>4
  <2>2. ~Overflows(e)
    BY <2>1 DEF Overflows
  <2>3. QED
    BY <1>4, <2>2 DEF Reported
<1>5. CASE d.size # 0 /\ off < size
  <2>1. d.size = size /\ d.offset = off
    BY <1>5
  <2>2. e.alloc_size = size /\ e.alloc_offset = off
    BY <1>1, <1>2, <2>1, NarrowedBounds
  <2>3. off + n <= size => ~Overflows(e)
    BY <1>1, <1>3, <2>2 DEF Overflows
  <2>4. off + len > size => Overflows(e)
    BY <1>1, <1>3, <1>5, <2>2 DEF Overflows
  <2>5. QED
    BY <2>3, <2>4 DEF Reported
<1>6. CASE ~(off < size)
  <2>1. off + n <= size => e.len = 0
    BY <1>1, <1>3, <1>6
  <2>2. off + n <= size => ~Overflows(e)
    BY <1>3, <2>1 DEF Overflows
  <2>3. QED
    BY <1>6, <2>2 DEF Reported
<1>7. QED
  BY <1>4, <1>5, <1>6

(* The records alone decide about a write from the first byte.             *)
LEMMA HeadRight == IInv /\ ~Evicts => HeadJudged
<1> SUFFICES ASSUME IInv, ~Evicts, NEW a \in owned, Fits(a),
                    NEW n \in Lengths, NEW api \in Apis
             PROVE  Judged(a, 0, n, api, SizeKnown(a))
  BY DEF HeadJudged
<1>1. /\ a \in Addrs /\ a \in Nat /\ heap[a].size \in Nat /\ armed
      /\ allocs[a] # None /\ allocs[a].size \in {0, heap[a].size}
  BY OwnedBlock
<1>2. a + 0 = a /\ 0 \in 0..heap[a].size
  BY <1>1
<1>3. Destination(a + 0) = [size |-> allocs[a].size, offset |-> 0]
  BY <1>1, <1>2 DEF Destination
<1>4. /\ Destination(a + 0).size = allocs[a].size
      /\ Destination(a + 0).offset = 0
  BY <1>3
<1>5. QED
  BY <1>1, <1>2, <1>4, JudgedIf DEF SizeKnown, Judged

LEMMA CopySpecIsSpec == CopySpec => Spec
<1>1. CopyInit => Init
  BY DEF CopyInit
<1>2. [CopyNext]_<<vars, crowded>> => [Next]_vars
  BY DEF CopyNext
<1>3. QED
  BY <1>1, <1>2, PTL DEF CopySpec, Spec

(* In a calm execution without evictions, on any number of threads, the    *)
(* copy checker and the agent report a write from the first byte of a live *)
(* block exactly when it leaves the block, if the block's size is known    *)
(* and fits an event, and never otherwise.                                 *)
THEOREM HeadWritesJudgedRight == Calm /\ ~Evicts => (CopySpec => []HeadJudged)
<1> SUFFICES ASSUME Calm, ~Evicts PROVE CopySpec => []HeadJudged
  OBVIOUS
<1>1. IInv => HeadJudged
  BY HeadRight
<1>2. QED
  BY <1>1, CopySpecIsSpec, CalmCorrect, PTL

----------------------------------------------------------------------------
(* The range index.                                                        *)

(* Every range in it is that of a recorded block; no two slots of a page   *)
(* hold the same block; and a page that was never crowded has the range of *)
(* every block recorded on it.                                             *)
RangesSound(records, ranges) ==
  \A p \in Pages, i \in Slots : ranges[p][i].base # 0 =>
    /\ records[ranges[p][i].base] # None
    /\ records[ranges[p][i].base].size = ranges[p][i].size
    /\ p \in PagesOf(ranges[p][i].base, ranges[p][i].size)

RangesDistinct(ranges) ==
  \A p \in Pages, i, j \in Slots :
    ranges[p][i].base = ranges[p][j].base /\ ranges[p][i].base # 0 => i = j

RangesComplete(records, ranges, overrun) ==
  \A a \in Addrs : records[a] # None =>
    \A p \in Pages \ overrun : p \in PagesOf(a, records[a].size) =>
      \E i \in Slots : ranges[p][i] = [base |-> a, size |-> records[a].size]

IndexOK(records, ranges, overrun) ==
  /\ records \in [Addrs -> Block \cup {None}]
  /\ ranges \in [Pages -> [Slots -> ByteRange]]
  /\ RangesSound(records, ranges)
  /\ RangesDistinct(ranges)
  /\ RangesComplete(records, ranges, overrun)

LEMMA LeastSlot ==
  ASSUME NEW S \in SUBSET Slots, S # {}
  PROVE  (CHOOSE i \in S : \A j \in S : i <= j) \in S
<1>1. S \subseteq Nat
  BY DEF Slots
<1> DEFINE less == {r \in Nat \X Nat : r[1] < r[2]}
<1>2. OpToRel(<, Nat) = less
  BY Zenon DEF OpToRel
<1>3. IsWellFoundedOn(less, Nat)
  BY <1>2, NatLessThanWellFounded, Zenon
<1> HIDE DEF less
<1>4. PICK i \in S : \A j \in S : <<j, i>> \notin less
  BY <1>1, <1>3, WFMin, Zenon
<1>5. ASSUME NEW j \in S PROVE i <= j
  <2>1. i \in Nat /\ j \in Nat
    BY <1>1
  <2>2. j < i => <<j, i>> \in less
    BY <2>1 DEF less
  <2>3. ~(j < i)
    BY <1>4, <2>2
  <2>4. QED
    BY <2>1, <2>3
<1>6. QED
  BY <1>5

LEMMA ZeroIsNoAddress == 0 \notin Addrs /\ 0 \in Slots
<1>1. RangeSlots \in Nat /\ RangeSlots # 0
  BY ConstantsAssumption
<1>2. QED
  BY <1>1, ConstantsAssumption DEF Slots

LEMMA SlotCount == Cardinality(Slots) = RangeSlots
<1>1. RangeSlots \in Nat /\ RangeSlots # 0
  BY ConstantsAssumption
<1>2. 0 \in Int /\ RangeSlots - 1 \in Int
  BY <1>1
<1>3. Cardinality(0..(RangeSlots - 1)) =
        IF 0 > RangeSlots - 1 THEN 0 ELSE (RangeSlots - 1) - 0 + 1
  BY <1>2, FS_Interval
<1>4. QED
  BY <1>1, <1>3 DEF Slots

(* Clearing a block's ranges when its record goes.                         *)
LEMMA IndexClears ==
  ASSUME NEW records, NEW ranges, NEW overrun, NEW a \in Addrs,
         IndexOK(records, ranges, overrun)
  PROVE  IndexOK([records EXCEPT ![a] = None],
                 RangeWithout(ranges, a, records[a]), overrun)
<1> DEFINE R == [records EXCEPT ![a] = None]
           G == RangeWithout(ranges, a, records[a])
<1>1. R \in [Addrs -> Block \cup {None}] /\ G \in [Pages -> [Slots -> ByteRange]]
  BY RangesType DEF IndexOK
<1>2. R[a] = None /\ \A b \in Addrs : b # a => R[b] = records[b]
  BY DEF IndexOK
<1>3. ASSUME NEW p \in Pages, NEW i \in Slots
      PROVE  G[p][i] = IF ranges[p][i].base = a THEN NoRange ELSE ranges[p][i]
  <2>1. CASE records[a] = None
    <3>1. G = ranges
      BY <2>1 DEF RangeWithout
    <3>2. ranges[p][i].base # a
      BY <2>1, ZeroIsNoAddress DEF IndexOK, RangesSound
    <3>3. QED
      BY <3>1, <3>2
  <2>2. CASE records[a] # None /\ p \in PagesOf(a, records[a].size)
    BY <2>2 DEF RangeWithout, remove_allocation_range, clear_range_slot
  <2>3. CASE records[a] # None /\ p \notin PagesOf(a, records[a].size)
    <3>1. G[p] = ranges[p]
      BY <2>3 DEF RangeWithout, remove_allocation_range
    <3>2. ranges[p][i].base # a
      BY <2>3, ZeroIsNoAddress DEF IndexOK, RangesSound
    <3>3. QED
      BY <3>1, <3>2
  <2>4. QED
    BY <2>1, <2>2, <2>3
<1>4. NoRange.base = 0
  BY DEF NoRange
<1>5. \A p \in Pages, i \in Slots :
        ranges[p][i].base \in Addrs \cup {0} /\ G[p][i].base \in Addrs \cup {0}
  BY <1>1 DEF IndexOK, ByteRange
<1>6. RangesSound(R, G)
  BY <1>2, <1>3, <1>4, <1>5 DEF IndexOK, RangesSound
<1>7. RangesDistinct(G)
  BY <1>3, <1>4 DEF IndexOK, RangesDistinct
<1>8. RangesComplete(R, G, overrun)
  <2> SUFFICES ASSUME NEW b \in Addrs, R[b] # None, NEW p \in Pages \ overrun,
                      p \in PagesOf(b, R[b].size)
               PROVE  \E i \in Slots : G[p][i] = [base |-> b, size |-> R[b].size]
    BY DEF RangesComplete
  <2>1. b # a /\ R[b] = records[b]
    BY <1>2
  <2>2. PICK i \in Slots : ranges[p][i] = [base |-> b, size |-> R[b].size]
    BY <2>1 DEF IndexOK, RangesComplete
  <2>3. G[p][i] = ranges[p][i]
    BY <1>3, <2>1, <2>2
  <2>4. QED
    BY <2>2, <2>3
<1>9. QED
  BY <1>1, <1>6, <1>7, <1>8 DEF IndexOK

(* Storing a block's range when its record comes.  It takes a free slot,   *)
(* or that of another block of the page, which is then crowded.            *)
LEMMA IndexStores ==
  ASSUME IsFiniteSet(Addrs), NEW records, NEW ranges, NEW overrun,
         NEW a \in Addrs, NEW info \in Block, records[a] = None,
         IndexOK(records, ranges, overrun),
         NEW R, R = [records EXCEPT ![a] = info]
  PROVE  IndexOK(R, index_allocation_range(ranges, a, info.size),
                 overrun \cup {p \in Pages : Cardinality(OnPage(R, p)) > RangeSlots})
<1> DEFINE G == index_allocation_range(ranges, a, info.size)
           crowd == {p \in Pages : Cardinality(OnPage(R, p)) > RangeSlots}
           range == [base |-> a, size |-> info.size]
           slot(p) == SlotFor(ranges[p], a)
           usable(p) == {i \in Slots : ranges[p][i].base \in {a, 0}}
<1>0. info # None /\ info.size \in Sizes \cup {0}
  BY NoneAssumption DEF Block
<1>1. R \in [Addrs -> Block \cup {None}] /\ G \in [Pages -> [Slots -> ByteRange]]
  BY <1>0, RangesType DEF IndexOK
<1>2. R[a] = info /\ \A b \in Addrs : b # a => R[b] = records[b]
  BY DEF IndexOK
<1>3. \A p \in Pages, i \in Slots :
        ranges[p][i].base \in Addrs \cup {0} /\ ranges[p][i].base # a
  BY ZeroIsNoAddress DEF IndexOK, RangesSound, ByteRange
<1>4. ASSUME NEW p \in Pages
      PROVE  /\ slot(p) \in Slots
             /\ usable(p) # {} => ranges[p][slot(p)].base = 0
  <2>1. CASE usable(p) = {}
    BY <2>1, ZeroIsNoAddress DEF SlotFor
  <2>2. CASE usable(p) # {}
    <3>1. usable(p) \in SUBSET Slots
      OBVIOUS
    <3>2. slot(p) = CHOOSE i \in usable(p) : \A j \in usable(p) : i <= j
      BY <2>2 DEF SlotFor
    <3>3. slot(p) \in usable(p)
      BY <2>2, <3>1, <3>2, LeastSlot
    <3>4. QED
      BY <1>3, <3>3
  <2>3. QED
    BY <2>1, <2>2
<1>5. ASSUME NEW p \in Pages, NEW i \in Slots
      PROVE  G[p][i] = IF p \in PagesOf(a, info.size) /\ i = slot(p)
                         THEN range ELSE ranges[p][i]
  BY <1>4 DEF index_allocation_range, store_range_slot, IndexOK
<1>6. range.base = a /\ range.size = info.size /\ a # 0
  BY ZeroIsNoAddress
<1>7. RangesSound(R, G)
  <2> SUFFICES ASSUME NEW p \in Pages, NEW i \in Slots, G[p][i].base # 0
               PROVE  /\ R[G[p][i].base] # None
                      /\ R[G[p][i].base].size = G[p][i].size
                      /\ p \in PagesOf(G[p][i].base, G[p][i].size)
    BY DEF RangesSound
  <2>1. CASE p \in PagesOf(a, info.size) /\ i = slot(p)
    BY <1>0, <1>2, <1>5, <1>6, <2>1
  <2>2. CASE ~(p \in PagesOf(a, info.size) /\ i = slot(p))
    <3>1. G[p][i] = ranges[p][i]
      BY <1>5, <2>2
    <3>2. ranges[p][i].base \in Addrs /\ ranges[p][i].base # a
      BY <1>3, <3>1
    <3>3. QED
      BY <1>2, <3>1, <3>2 DEF IndexOK, RangesSound
  <2>3. QED
    BY <2>1, <2>2
<1>8. RangesDistinct(G)
  BY <1>3, <1>5, <1>6 DEF IndexOK, RangesDistinct
<1>9. ASSUME NEW p \in Pages, p \in PagesOf(a, info.size), usable(p) = {}
      PROVE  p \in crowd
  <2> DEFINE f == [i \in Slots |-> ranges[p][i].base]
             T == OnPage(R, p)
  <2>1. \A i \in Slots : ranges[p][i].base \in Addrs \ {a}
    BY <1>3, <1>9
  <2>2. \A i \in Slots : f[i] \in T \ {a}
    <3> SUFFICES ASSUME NEW i \in Slots PROVE f[i] \in T \ {a}
      OBVIOUS
    <3>1. ranges[p][i].base \in Addrs \ {a} /\ ranges[p][i].base # 0
      BY <2>1, ZeroIsNoAddress
    <3>2. /\ records[ranges[p][i].base] # None
          /\ p \in PagesOf(ranges[p][i].base, records[ranges[p][i].base].size)
      BY <3>1 DEF IndexOK, RangesSound
    <3>3. QED
      BY <1>2, <3>1, <3>2 DEF OnPage
  <2>3. f \in Injection(Slots, T \ {a})
    <3>1. f \in [Slots -> T \ {a}]
      BY <2>2
    <3>2. ASSUME NEW i \in Slots, NEW j \in Slots, f[i] = f[j] PROVE i = j
      BY <2>1, <3>2, ZeroIsNoAddress DEF IndexOK, RangesDistinct
    <3>3. QED
      BY <3>1, <3>2 DEF Injection, IsInjective
  <2>4. T \in SUBSET Addrs /\ a \in T
    BY <1>0, <1>2, <1>9 DEF OnPage
  <2>5. IsFiniteSet(T) /\ Cardinality(T) \in Nat
    BY <2>4, FS_Subset, FS_CardinalityType
  <2>6. /\ IsFiniteSet(T \ {a})
        /\ Cardinality(T \ {a}) = Cardinality(T) - 1
    BY <2>4, <2>5, FS_RemoveElement
  <2>7. Cardinality(Slots) <= Cardinality(T \ {a})
    BY <2>3, <2>6, FS_Injection
  <2>8. RangeSlots \in Nat /\ RangeSlots >= 1
    BY ConstantsAssumption
  <2>9. Cardinality(Slots) = RangeSlots
    BY SlotCount
  <2>10. QED
    BY <2>5, <2>6, <2>7, <2>8, <2>9
<1>10. RangesComplete(R, G, overrun \cup crowd)
  <2> SUFFICES ASSUME NEW b \in Addrs, R[b] # None,
                      NEW p \in Pages \ (overrun \cup crowd),
                      p \in PagesOf(b, R[b].size)
               PROVE  \E i \in Slots : G[p][i] = [base |-> b, size |-> R[b].size]
    BY DEF RangesComplete
  <2>1. CASE b = a
    BY <1>2, <1>4, <1>5, <2>1
  <2>2. CASE b # a
    <3>1. R[b] = records[b]
      BY <1>2, <2>2
    <3>2. PICK i \in Slots : ranges[p][i] = [base |-> b, size |-> R[b].size]
      BY <3>1 DEF IndexOK, RangesComplete
    <3>3. ~(p \in PagesOf(a, info.size) /\ i = slot(p))
      <4>1. SUFFICES ASSUME p \in PagesOf(a, info.size), i = slot(p) PROVE FALSE
        OBVIOUS
      <4>2. usable(p) # {}
        BY <1>9, <4>1
      <4>3. ranges[p][i].base = 0
        BY <1>4, <4>1, <4>2
      <4>4. QED
        BY <3>2, <4>3, ZeroIsNoAddress
    <3>4. QED
      BY <1>5, <3>2, <3>3
  <2>3. QED
    BY <2>1, <2>2
<1>11. QED
  BY <1>1, <1>7, <1>8, <1>10 DEF IndexOK

----------------------------------------------------------------------------
(* Which blocks are recorded, and where they lie.                          *)

(* The addresses that the program or a call has.                           *)
Reach == owned \cup UNION {Held(t) : t \in Threads}

(* Only such an address is recorded, and none of which the probe has seen  *)
(* the release.                                                            *)
Accounted ==
  /\ \A a \in Addrs : allocs[a] # None => a \in Reach
  /\ \A t \in Threads : pc[t] = "release" => allocs[call[t].ptr] = None

(* libc's blocks do not overlap.                                           *)
Apart ==
  \A a, b \in Addrs : a # b /\ Live(a) /\ Live(b) =>
    a + Extent(heap[a].size) <= b \/ b + Extent(heap[b].size) <= a

CInv ==
  /\ IInv
  /\ Accounted
  /\ Apart
  /\ IndexOK(allocs, alloc_ranges, crowded)

(* The executions in which no record or event is lost.                     *)
Lossless == Calm /\ ~Evicts /\ KeepsUp

Records(t, a, info) ==
  /\ pc[t] # "release" /\ a \in Held(t) /\ a \in Reach'
  /\ allocs' = [allocs EXCEPT ![a] = info]
  /\ alloc_ranges' = index_allocation_range(
       RangeWithout(alloc_ranges, a, allocs[a]), a, info.size)

Forgets(t) ==
  /\ allocs' = [allocs EXCEPT ![call[t].ptr] = None]
  /\ alloc_ranges' = RangeWithout(alloc_ranges, call[t].ptr, allocs[call[t].ptr])

KeepsMaps == allocs' = allocs /\ alloc_ranges' = alloc_ranges

(* What a return probe does to the maps.                                   *)
LEMMA ReturnRecords ==
  ASSUME NEW t \in Threads, NEW a \in Addrs \cup {None},
         NEW size \in Sizes \cup {None}, NEW family \in AllocFamilies,
         pc[t] # "release", a # None => a \in Held(t) /\ a \in Reach',
         record_allocation_return(Maps, a, size, family)
  PROVE  KeepsMaps \/ \E info \in Block, b \in Addrs : Records(t, b, info)
<1> DEFINE info == [size |-> IF size = None THEN 0 ELSE size, family |-> family]
<1>1. info \in Block
  BY DEF Block
<1>2. CASE Tracked(a, size, family)
  <2>1. a \in Addrs
    BY <1>2 DEF Tracked
  <2>2. Records(t, a, info)
    BY <1>2, <2>1, NoneIsNoAddress DEF record_allocation_return, Maps, Records
  <2>3. QED
    BY <1>1, <2>1, <2>2
<1>3. CASE ~Tracked(a, size, family)
  BY <1>3 DEF record_allocation_return, Maps, KeepsMaps
<1>4. QED
  BY <1>2, <1>3

(* What a release probe does to them.                                      *)
LEMMA ProbeForgets ==
  ASSUME Lossless, IInv, NEW t \in Threads, ReleaseProbe(t)
  PROVE  (KeepsMaps \/ Forgets(t)) /\ allocs'[call[t].ptr] = None
<1> DEFINE l == looked[t]
           p == call[t].ptr
<1>1. /\ pc[t] = "dealloc" /\ p \in Addrs /\ allocs[p] = l.info
      /\ allocs \in [Addrs -> Block \cup {None}]
  BY DEF ReleaseProbe, IInv, CallRecords, TypeInv, TypeOK, Lossless
<1>2. CASE l.info = None
  BY <1>1, <1>2 DEF ReleaseProbe, SkipAfterDelete, ReportRelease, KeepsMaps, tracking
<1>3. CASE l.info # None
  <2>1. ~Swallowed(l.info, l.prev) /\ armed /\ ~Dropped
    BY <1>1, <1>3 DEF Swallowed, IInv, Dropped, Lossless
  <2>2. /\ allocs' = [allocs EXCEPT ![p] = None]
        /\ alloc_ranges' = RangeWithout(alloc_ranges, p, l.info)
    BY <1>3, <2>1 DEF ReleaseProbe, SkipAfterDelete, ReportRelease
  <2>3. QED
    BY <1>1, <2>2 DEF Forgets
<1>4. QED
  BY <1>2, <1>3

(* What a step does to the records, and to the addresses that somebody has.*)
MapsMove ==
  \/ KeepsMaps
  \/ \E t \in Threads, info \in Block, a \in Addrs : Records(t, a, info)
  \/ \E t \in Threads : pc[t] = "dealloc" /\ Forgets(t)

ReachMoves ==
  /\ \A a \in Reach : a \in Reach' \/ allocs'[a] = None
  /\ \A t \in Threads : pc'[t] = "release" =>
       \/ pc[t] = "release" /\ call'[t] = call[t]
       \/ allocs'[call'[t].ptr] = None

LEMMA OneMoves ==
  ASSUME NEW t \in Threads,
         \A u \in Threads \ {t} : pc'[u] = pc[u] /\ call'[u] = call[u],
         \A a \in owned \cup Held(t) :
           a \in owned' \/ a \in Held(t)' \/ allocs'[a] = None,
         pc'[t] = "release" => allocs'[call'[t].ptr] = None
  PROVE  ReachMoves
<1>1. \A u \in Threads \ {t} : Held(u)' = Held(u)
  BY DEF Held
<1>2. ASSUME NEW a \in Reach PROVE a \in Reach' \/ allocs'[a] = None
  <2>1. CASE a \in owned \cup Held(t)
    BY <2>1 DEF Reach
  <2>2. CASE a \notin owned \cup Held(t)
    <3>1. PICK u \in Threads \ {t} : a \in Held(u)
      BY <2>2 DEF Reach
    <3>2. a \in Held(u)'
      BY <1>1, <3>1
    <3>3. QED
      BY <3>2 DEF Reach
  <2>3. QED
    BY <2>1, <2>2
<1>3. QED
  BY <1>2 DEF ReachMoves

LEMMA MovesStep ==
  ASSUME Lossless, IInv, Accounted, [Next]_vars
  PROVE  MapsMove /\ ReachMoves
<1>a. /\ TypeInv /\ TypeOK /\ Exclusive
      /\ \A t \in Threads : CallShape(t) /\ CallRecords(t)
  BY DEF IInv, TypeInv
<1>b. pc \in [Threads -> Where] /\ call \in [Threads -> Call \cup {None}]
  BY <1>a DEF TypeOK
<1>1. ASSUME NEW t \in Threads, NEW op \in AllocCalls, NEW n \in Sizes,
             CallAlloc(t, op, n)
      PROVE  MapsMove /\ ReachMoves
  <2>1. MapsMove
    BY <1>1 DEF CallAlloc, MapsMove, KeepsMaps, tracking
  <2>2. pc[t] = "user" /\ pc'[t] = "malloc" /\ owned' = owned
        /\ \A u \in Threads \ {t} : pc'[u] = pc[u] /\ call'[u] = call[u]
    BY <1>1, <1>b DEF CallAlloc
  <2>3. Held(t) = {}
    BY <2>2 DEF Held
  <2>4. QED
    BY <2>1, <2>2, <2>3, OneMoves
<1>2. ASSUME NEW t \in Threads, NEW p \in Addrs \cup {None}, NEW n \in Sizes,
             CallRealloc(t, p, n)
      PROVE  MapsMove /\ ReachMoves
  <2>1. MapsMove
    BY <1>2 DEF CallRealloc, MapsMove, KeepsMaps, tracking
  <2>2. pc[t] = "user" /\ pc'[t] = "realloc" /\ owned' = owned \ {p}
        /\ call'[t].ptr = p
        /\ \A u \in Threads \ {t} : pc'[u] = pc[u] /\ call'[u] = call[u]
    BY <1>2, <1>b DEF CallRealloc
  <2>3. Held(t) = {} /\ Held(t)' = {p} \ {None} /\ owned \subseteq Addrs
    BY <1>a, <2>2 DEF Held, TypeOK
  <2>4. \A a \in owned : a \in owned' \/ a \in Held(t)'
    BY <2>2, <2>3, NoneIsNoAddress
  <2>5. QED
    BY <2>1, <2>2, <2>3, <2>4, OneMoves
<1>3. ASSUME NEW t \in Threads, NEW op \in ReleaseCalls, NEW p \in Addrs,
             CallRelease(t, op, p)
      PROVE  MapsMove /\ ReachMoves
  <2>1. MapsMove
    BY <1>3 DEF CallRelease, MapsMove, KeepsMaps, tracking
  <2>2. pc[t] = "user" /\ pc'[t] = "dealloc" /\ owned' = owned \ {p}
        /\ call'[t].ptr = p
        /\ \A u \in Threads \ {t} : pc'[u] = pc[u] /\ call'[u] = call[u]
    BY <1>3, <1>b DEF CallRelease
  <2>3. Held(t) = {} /\ Held(t)' = {p}
    BY <2>2 DEF Held
  <2>4. QED
    BY <2>1, <2>2, <2>3, OneMoves
<1>4. ASSUME NEW t \in Threads, LibcAlloc(t) PROVE MapsMove /\ ReachMoves
  <2>1. MapsMove
    BY <1>4 DEF LibcAlloc, MapsMove, KeepsMaps, tracking
  <2>2. pc[t] = "malloc" /\ pc'[t] = "mallocRet" /\ owned' = owned
        /\ \A u \in Threads \ {t} : pc'[u] = pc[u] /\ call'[u] = call[u]
    BY <1>4, <1>b DEF LibcAlloc
  <2>3. Held(t) = {}
    BY <2>2 DEF Held
  <2>4. QED
    BY <2>1, <2>2, <2>3, OneMoves
<1>5. ASSUME NEW t \in Threads, MallocExit(t) PROVE MapsMove /\ ReachMoves
  <2> DEFINE r == call[t].ret
  <2>1. /\ pc[t] = "mallocRet" /\ Held(t) = {r} \ {None}
        /\ r \in Addrs \cup {None} /\ pending[t] \in Sizes \cup {None}
    BY <1>5, <1>a DEF MallocExit, Held, TypeOK, Call, TypeInv
  <2>2. /\ \A u \in Threads \ {t} : pc'[u] = pc[u] /\ call'[u] = call[u]
        /\ pc'[t] # "release"
        /\ \A a \in owned \cup Held(t) : a \in owned' \/ a \in Held(t)'
    <3>1. CASE HandOver(t)
      BY <1>b, <2>1, <3>1 DEF HandOver, Return
    <3>2. CASE /\ pc' = [pc EXCEPT ![t] = "wrapRet"]
               /\ UNCHANGED <<heap, owned, call>>
      BY <1>b, <2>1, <3>2 DEF Held
    <3>3. QED
      BY <1>5, <3>1, <3>2 DEF MallocExit
  <2>3. r # None => r \in Held(t) /\ r \in Reach'
    BY <2>1, <2>2 DEF Reach
  <2>4. MapsMove
    BY <1>5, <2>1, <2>3, ReturnRecords DEF MallocExit, MapsMove, AllocFamilies
  <2>5. QED
    BY <2>2, <2>4, OneMoves
<1>6. ASSUME NEW t \in Threads, WrapperExit(t) PROVE MapsMove /\ ReachMoves
  <2> DEFINE r == call[t].ret
  <2>1. /\ pc[t] = "wrapRet" /\ Held(t) = {r} \ {None}
        /\ r \in Addrs \cup {None} /\ pending[t] \in Sizes \cup {None}
    BY <1>6, <1>a DEF WrapperExit, Held, TypeOK, Call, TypeInv
  <2>2. /\ \A u \in Threads \ {t} : pc'[u] = pc[u] /\ call'[u] = call[u]
        /\ pc'[t] # "release"
        /\ \A a \in owned \cup Held(t) : a \in owned'
    BY <1>6, <1>b, <2>1 DEF WrapperExit, HandOver, Return
  <2>3. r # None => r \in Held(t) /\ r \in Reach'
    BY <2>1, <2>2 DEF Reach
  <2>4. FamilyOf(call[t].op) \in AllocFamilies
    BY DEF FamilyOf, AllocFamilies
  <2>5. MapsMove
    BY <1>6, <2>1, <2>3, <2>4, ReturnRecords DEF WrapperExit, MapsMove
  <2>6. QED
    BY <2>2, <2>5, OneMoves
<1>7. ASSUME NEW t \in Threads, LibcRealloc(t) PROVE MapsMove /\ ReachMoves
  <2>1. MapsMove
    BY <1>7 DEF LibcRealloc, MapsMove, KeepsMaps, tracking
  <2>2. /\ pc[t] = "realloc" /\ pc'[t] = "reallocRet" /\ owned' = owned
        /\ \A u \in Threads \ {t} : pc'[u] = pc[u] /\ call'[u] = call[u]
        /\ call[t] \in Call /\ call'[t].ptr = call[t].ptr
    <3>1. call[t] \in Call
      BY <1>7, <1>a DEF LibcRealloc, TypeInv, TypeOK
    <3>2. UNCHANGED call \/ \E a \in Addrs : call' = [call EXCEPT ![t].ret = a]
      BY <1>7, <1>a, <3>1 DEF LibcRealloc, Call
    <3>3. /\ \A u \in Threads \ {t} : call'[u] = call[u]
          /\ call'[t].ptr = call[t].ptr
      BY <1>b, <3>1, <3>2 DEF Call
    <3>4. QED
      BY <1>7, <1>b, <3>1, <3>3 DEF LibcRealloc
  <2>3. \A a \in Held(t) : a \in Held(t)'
    BY <2>2 DEF Held
  <2>4. QED
    BY <2>1, <2>2, <2>3, OneMoves
<1>8. ASSUME NEW t \in Threads, ReallocExit(t) PROVE MapsMove /\ ReachMoves
  <2> DEFINE p == call[t].ptr
             r == call[t].ret
  <2>1. /\ pc[t] = "reallocRet" /\ Held(t) = {p, r} \ {None}
        /\ p \in Addrs \cup {None} /\ r \in Addrs \cup {None}
        /\ pending[t] \in Sizes \cup {None} /\ call[t] \in Call
    BY <1>8, <1>a DEF ReallocExit, Held, TypeOK, Call, TypeInv
  <2>2. /\ pending[t] = call[t].size /\ realloc_old[t] = p
        /\ p # None => call[t].size # 0 /\ r \in {p, None}
    BY <1>a, <2>1 DEF CallShape
  <2>3. /\ \A u \in Threads \ {t} : pc'[u] = pc[u] /\ call'[u] = call[u]
        /\ pc'[t] = "user"
        /\ owned' = owned \cup
             ((IF r = None /\ call[t].size # 0 THEN {p} ELSE {r}) \ {None})
    BY <1>8, <1>b DEF ReallocExit, Return
  <2>4. \A a \in owned \cup Held(t) : a \in owned'
    BY <2>1, <2>2, <2>3
  <2>5. ReallocMarks(t) = None
    BY <2>2 DEF ReallocMarks
  <2>6. record_allocation_return(Maps, r, pending[t], "MALLOC")
    BY <1>8, <2>5 DEF ReallocExit, mark_allocation_freed
  <2>7. r # None => r \in Held(t) /\ r \in Reach'
    BY <2>1, <2>4 DEF Reach
  <2>8. MapsMove
    BY <2>1, <2>6, <2>7, ReturnRecords DEF MapsMove, AllocFamilies
  <2>9. QED
    BY <2>3, <2>4, <2>8, OneMoves
<1>9. ASSUME NEW t \in Threads, InnerFree(t) PROVE MapsMove /\ ReachMoves
  <2>1. MapsMove
    BY <1>9 DEF InnerFree, MapsMove, KeepsMaps, tracking
  <2>2. /\ pc[t] = "inner" /\ pc'[t] = "dealloc" /\ owned' = owned
        /\ \A u \in Threads \ {t} : pc'[u] = pc[u] /\ call'[u] = call[u]
        /\ call'[t].ptr = call[t].ptr
    <3>1. call[t] \in Call
      BY <1>9, <1>a DEF InnerFree, TypeInv, TypeOK
    <3>2. QED
      BY <1>9, <1>b, <3>1 DEF InnerFree, Call
  <2>3. Held(t)' = Held(t)
    BY <2>2 DEF Held
  <2>4. QED
    BY <2>1, <2>2, <2>3, OneMoves
<1>10. ASSUME NEW t \in Threads, ReleaseProbe(t) PROVE MapsMove /\ ReachMoves
  <2>1. (KeepsMaps \/ Forgets(t)) /\ allocs'[call[t].ptr] = None
    BY <1>10, ProbeForgets
  <2>2. /\ pc[t] = "dealloc" /\ pc'[t] \in {"inner", "release"} /\ owned' = owned
        /\ \A u \in Threads \ {t} : pc'[u] = pc[u]
        /\ call' = call
    BY <1>10, <1>b DEF ReleaseProbe
  <2>3. Held(t)' = Held(t)
    BY <2>2 DEF Held
  <2>4. MapsMove
    BY <2>1, <2>2 DEF MapsMove
  <2>5. QED
    BY <2>1, <2>2, <2>3, <2>4, OneMoves
<1>11. ASSUME NEW t \in Threads, LibcFree(t) PROVE MapsMove /\ ReachMoves
  <2>1. MapsMove /\ allocs' = allocs
    BY <1>11 DEF LibcFree, MapsMove, KeepsMaps, tracking
  <2>2. /\ pc[t] = "release" /\ pc'[t] = "user" /\ owned' = owned
        /\ \A u \in Threads \ {t} : pc'[u] = pc[u] /\ call'[u] = call[u]
    BY <1>11, <1>b DEF LibcFree, Return
  <2>3. \A a \in Held(t) : allocs'[a] = None
    BY <2>1, <2>2 DEF Held, Accounted
  <2>4. QED
    BY <2>1, <2>2, <2>3, OneMoves
<1>12. ASSUME Consume \/ UNCHANGED vars PROVE MapsMove /\ ReachMoves
  <2>1. KeepsMaps /\ owned' = owned /\ pc' = pc /\ call' = call
    BY <1>12 DEF Consume, vars, program, tracking, KeepsMaps
  <2>2. \A t \in Threads : Held(t)' = Held(t)
    BY <2>1 DEF Held
  <2>3. Reach' = Reach
    BY <2>1, <2>2 DEF Reach
  <2>4. QED
    BY <2>1, <2>3 DEF MapsMove, ReachMoves
<1>13. ASSUME \/ \E a \in Addrs : EvictAlloc(a) \/ EvictFreed(a)
              \/ \E p \in Pages : EvictRange(p)
       PROVE  FALSE
  BY <1>13 DEF Lossless, EvictAlloc, EvictRange, EvictFreed
<1>14. QED
  BY <1>1, <1>2, <1>3, <1>4, <1>5, <1>6, <1>7, <1>8, <1>9, <1>10, <1>11,
     <1>12, <1>13 DEF Next

(* The blocks that libc hands out stay apart.                              *)
LEMMA ApartStep ==
  ASSUME Lossless, IInv, Apart, [Next]_vars
  PROVE  Apart'
<1>a. TypeInv /\ heap \in [Addrs -> Cell] /\ \A t \in Threads : CallShape(t)
  BY DEF IInv, TypeInv, TypeOK
<1>1. ASSUME \A a \in Addrs : heap'[a] = heap[a] \/ ~Live(a)' PROVE Apart'
  BY <1>1 DEF Apart, Live
<1>2. ASSUME NEW t \in Threads, NEW a \in Addrs, NEW n, NEW family,
             Vacant(a, n, Addrs \ {a}), heap' = [heap EXCEPT ![a] = LiveCell(n, family)]
      PROVE  Apart'
  <2>1. heap'[a].size = n /\ \A b \in Addrs \ {a} : heap'[b] = heap[b]
    BY <1>a, <1>2 DEF LiveCell
  <2>2. QED
    BY <1>2, <2>1 DEF Apart, Vacant, Live
<1>3. ASSUME NEW t \in Threads, LibcAlloc(t) PROVE Apart'
  <2>1. CASE heap' = heap
    BY <1>1, <2>1
  <2>2. CASE heap' # heap
    <3>1. PICK a \in Addrs :
            /\ Vacant(a, call[t].size, Addrs)
            /\ heap' = [heap EXCEPT ![a] =
                 LiveCell(call[t].size, FamilyOf(call[t].op))]
      BY <1>3, <2>2 DEF LibcAlloc
    <3>2. Vacant(a, call[t].size, Addrs \ {a})
      BY <3>1 DEF Vacant
    <3>3. QED
      BY <1>2, <3>1, <3>2
  <2>3. QED
    BY <2>1, <2>2
<1>4. ASSUME NEW t \in Threads, LibcRealloc(t) PROVE Apart'
  <2> DEFINE p == call[t].ptr
  <2>1. ~ReallocReleases /\ p \in Addrs \cup {None}
        /\ (p # None => call[t].size # 0)
    BY <1>4, <1>a DEF LibcRealloc, Lossless, Calm, CallShape, TypeInv, TypeOK, Call
  <2>2. \/ heap' = heap
        \/ /\ p # None
           /\ Vacant(p, call[t].size, Addrs \ {p})
           /\ heap' = [heap EXCEPT ![p] = LiveCell(call[t].size, "MALLOC")]
        \/ \E a \in Addrs :
             /\ Vacant(a, call[t].size, Addrs)
             /\ heap' = [heap EXCEPT ![a] = LiveCell(call[t].size, "MALLOC")]
    BY <1>4, <2>1, Zenon DEF LibcRealloc
  <2>3. CASE heap' = heap
    BY <1>1, <2>3
  <2>4. ASSUME p # None, Vacant(p, call[t].size, Addrs \ {p}),
               heap' = [heap EXCEPT ![p] = LiveCell(call[t].size, "MALLOC")]
        PROVE  Apart'
    BY <1>2, <2>1, <2>4
  <2>5. ASSUME NEW a \in Addrs, Vacant(a, call[t].size, Addrs),
               heap' = [heap EXCEPT ![a] = LiveCell(call[t].size, "MALLOC")]
        PROVE  Apart'
    <3>1. Vacant(a, call[t].size, Addrs \ {a})
      BY <2>5 DEF Vacant
    <3>2. QED
      BY <1>2, <2>5, <3>1
  <2>6. QED
    BY <2>2, <2>3, <2>4, <2>5
<1>5. ASSUME NEW t \in Threads, LibcFree(t) PROVE Apart'
  <2>1. \A a \in Addrs : heap'[a] \in {heap[a], Empty("dead")}
    BY <1>5, <1>a DEF LibcFree
  <2>2. \A a \in Addrs : heap'[a] = heap[a] \/ ~Live(a)'
    BY <2>1 DEF Live, Empty
  <2>3. QED
    BY <1>1, <2>2
<1>6. ASSUME NEW t \in Threads,
             \/ \E op \in AllocCalls, n \in Sizes : CallAlloc(t, op, n)
             \/ \E p \in Addrs \cup {None}, n \in Sizes : CallRealloc(t, p, n)
             \/ \E op \in ReleaseCalls, p \in Addrs : CallRelease(t, op, p)
             \/ MallocExit(t) \/ WrapperExit(t) \/ ReallocExit(t)
             \/ InnerFree(t) \/ ReleaseProbe(t)
      PROVE  Apart'
  <2>1. heap' = heap
    BY <1>6 DEF CallAlloc, CallRealloc, CallRelease, MallocExit, WrapperExit,
                ReallocExit, InnerFree, ReleaseProbe, HandOver
  <2>2. QED
    BY <1>1, <2>1
<1>7. ASSUME Consume \/ UNCHANGED vars PROVE Apart'
  <2>1. heap' = heap
    BY <1>7 DEF Consume, vars, program
  <2>2. QED
    BY <1>1, <2>1
<1>8. ASSUME \/ \E a \in Addrs : EvictAlloc(a) \/ EvictFreed(a)
             \/ \E p \in Pages : EvictRange(p)
      PROVE  FALSE
  BY <1>8 DEF Lossless, EvictAlloc, EvictRange, EvictFreed
<1>9. QED
  BY <1>3, <1>4, <1>5, <1>6, <1>7, <1>8 DEF Next

LEMMA AccountedStep ==
  ASSUME IInv, Accounted, MapsMove, ReachMoves
  PROVE  Accounted'
<1>a. allocs \in [Addrs -> Block \cup {None}] /\ Exclusive /\ TypeInv
      /\ \A t \in Threads : pc[t] \in {"dealloc", "release"} => call[t].ptr \in Addrs
  BY DEF IInv, TypeInv, TypeOK
<1>1. ASSUME NEW a \in Addrs, allocs'[a] # None PROVE a \in Reach'
  <2>1. CASE allocs[a] # None
    BY <1>1, <2>1 DEF Accounted, ReachMoves
  <2>2. CASE allocs[a] = None
    <3>1. PICK t \in Threads, info \in Block, b \in Addrs : Records(t, b, info)
      BY <1>1, <1>a, <2>2 DEF MapsMove, KeepsMaps, Forgets
    <3>2. a = b
      BY <1>1, <1>a, <2>2, <3>1 DEF Records
    <3>3. QED
      BY <3>1, <3>2 DEF Records
  <2>3. QED
    BY <2>1, <2>2
<1>2. ASSUME NEW t \in Threads, pc'[t] = "release" PROVE allocs'[call'[t].ptr] = None
  <2>1. SUFFICES ASSUME pc[t] = "release", call'[t] = call[t],
                        allocs'[call[t].ptr] # None
                 PROVE  FALSE
    BY <1>2 DEF ReachMoves
  <2>2. allocs[call[t].ptr] = None /\ call[t].ptr \in Addrs
    BY <1>a, <2>1 DEF Accounted
  <2>3. PICK u \in Threads, info \in Block, b \in Addrs : Records(u, b, info)
    BY <1>a, <2>1, <2>2 DEF MapsMove, KeepsMaps, Forgets
  <2>4. b = call[t].ptr
    BY <1>a, <2>1, <2>2, <2>3 DEF Records
  <2>5. u # t /\ b \in Held(u) /\ b \in Held(t)
    BY <2>1, <2>3, <2>4 DEF Records, Held
  <2>6. QED
    BY <1>a, <2>5 DEF Exclusive
<1>3. QED
  BY <1>1, <1>2 DEF Accounted

LEMMA IndexStep ==
  ASSUME IsFiniteSet(Addrs), IInv, IndexOK(allocs, alloc_ranges, crowded),
         MapsMove,
         crowded' = crowded \cup
           {p \in Pages : Cardinality(OnPage(allocs', p)) > RangeSlots}
  PROVE  IndexOK(allocs, alloc_ranges, crowded)'
<1>1. ASSUME NEW records, NEW ranges, NEW overrun, NEW more,
             IndexOK(records, ranges, overrun)
      PROVE  IndexOK(records, ranges, overrun \cup more)
  BY <1>1 DEF IndexOK, RangesComplete
<1>2. CASE KeepsMaps
  BY <1>1, <1>2 DEF KeepsMaps
<1>3. ASSUME NEW t \in Threads, NEW info \in Block, NEW a \in Addrs,
             Records(t, a, info)
      PROVE  IndexOK(allocs, alloc_ranges, crowded)'
  <2> DEFINE cleared == [allocs EXCEPT ![a] = None]
             ranges == RangeWithout(alloc_ranges, a, allocs[a])
  <2>1. IndexOK(cleared, ranges, crowded)
    BY IndexClears
  <2>2. cleared[a] = None /\ [cleared EXCEPT ![a] = info] = allocs'
    BY <1>3 DEF Records, IInv, TypeInv, TypeOK
  <2> HIDE DEF cleared, ranges
  <2>3. IndexOK(allocs', index_allocation_range(ranges, a, info.size),
                crowded \cup {p \in Pages :
                  Cardinality(OnPage(allocs', p)) > RangeSlots})
    BY <2>1, <2>2, IndexStores
  <2>4. alloc_ranges' = index_allocation_range(ranges, a, info.size)
    BY <1>3 DEF Records, ranges
  <2>5. QED
    BY <2>2, <2>3, <2>4
<1>4. ASSUME NEW t \in Threads, pc[t] = "dealloc", Forgets(t)
      PROVE  IndexOK(allocs, alloc_ranges, crowded)'
  <2>1. call[t].ptr \in Addrs
    BY <1>4 DEF IInv, TypeInv
  <2>2. IndexOK(allocs', alloc_ranges', crowded)
    BY <1>4, <2>1, IndexClears DEF Forgets
  <2>3. QED
    BY <1>1, <2>2
<1>5. QED
  BY <1>2, <1>3, <1>4 DEF MapsMove

LEMMA IndexInit == CopyInit => Accounted /\ Apart /\ IndexOK(allocs, alloc_ranges, crowded)
<1> SUFFICES ASSUME CopyInit
             PROVE  Accounted /\ Apart /\ IndexOK(allocs, alloc_ranges, crowded)
  OBVIOUS
<1>1. /\ \A a \in Addrs : allocs[a] = None /\ ~Live(a)
      /\ \A t \in Threads : pc[t] = "user"
      /\ allocs \in [Addrs -> Block \cup {None}]
  BY DEF CopyInit, Init, Live, Empty
<1>2. Accounted /\ Apart
  BY <1>1 DEF Accounted, Apart
<1>3. /\ alloc_ranges \in [Pages -> [Slots -> ByteRange]]
      /\ \A p \in Pages, i \in Slots : alloc_ranges[p][i].base = 0
  BY EmptyType DEF CopyInit, Init, EmptyBucket, NoRange
<1>4. IndexOK(allocs, alloc_ranges, crowded)
  BY <1>1, <1>3 DEF IndexOK, RangesSound, RangesDistinct, RangesComplete
<1>5. QED
  BY <1>2, <1>4

LEMMA CopyStep ==
  ASSUME Lossless, IsFiniteSet(Addrs), CInv, [CopyNext]_<<vars, crowded>>
  PROVE  CInv'
<1>1. [Next]_vars /\ IInv'
  BY CalmStep DEF CInv, CopyNext, Lossless
<1>2. Accounted' /\ Apart' /\ MapsMove
  BY <1>1, MovesStep, AccountedStep, ApartStep DEF CInv
<1>3. CASE CopyNext
  BY <1>1, <1>2, <1>3, IndexStep DEF CInv, CopyNext
<1>4. CASE UNCHANGED <<vars, crowded>>
  <2>1. allocs' = allocs /\ alloc_ranges' = alloc_ranges /\ crowded' = crowded
    BY <1>4 DEF vars, tracking
  <2>2. QED
    BY <1>1, <1>2, <2>1 DEF CInv
<1>5. QED
  BY <1>3, <1>4

----------------------------------------------------------------------------
(* What the copy checker finds for a byte of a block in use.               *)
LEMMA DestinationRight ==
  ASSUME CInv, ~Evicts, \A t \in Threads : pc[t] = "user",
         NEW a \in owned, NEW off \in 0..heap[a].size
  PROVE  LET d == Destination(a + off)
         IN /\ d.size \in Nat /\ d.offset \in Nat
            /\ off < heap[a].size /\ d.size # 0 =>
                 d.size = heap[a].size /\ d.offset = off
            /\ off < heap[a].size /\ SizeKnown(a) /\ (off = 0 \/ Indexed(a, off))
                 => d.size # 0
<1> DEFINE dst == a + off
           size == heap[a].size
           d == Destination(dst)
           page == dst \div PageSize
           found == Containing(dst)
           i == CHOOSE k \in found : \A j \in found : k <= j
           range == lookup_alloc_range(dst)
<1>1. /\ a \in Addrs /\ a \in Nat /\ size \in Nat /\ size \in Sizes \cup {0} /\ Live(a)
      /\ allocs[a] # None /\ allocs[a].size \in {0, size}
  BY OwnedBlock DEF CInv
<1>2. off \in Nat /\ off <= size /\ dst \in Nat
  BY <1>1
<1>3. \A b \in Addrs : allocs[b] # None => b \in owned
  BY DEF CInv, Accounted, Reach, Held
<1>4. ASSUME NEW b \in Addrs, allocs[b] # None
      PROVE  /\ b \in Nat /\ heap[b].size \in Nat /\ Live(b)
             /\ allocs[b].size \in {0, heap[b].size}
             /\ b # a => a + Extent(size) <= b \/ b + Extent(heap[b].size) <= a
  <2>1. b \in owned
    BY <1>3, <1>4
  <2>2. /\ b \in Nat /\ heap[b].size \in Nat /\ Live(b)
        /\ allocs[b].size \in {0, heap[b].size}
    BY <2>1, OwnedBlock DEF CInv
  <2>3. QED
    BY <1>1, <2>2 DEF CInv, Apart
<1>5. CASE dst \in Addrs /\ allocs[dst] # None
  <2>1. d = [size |-> allocs[dst].size, offset |-> 0]
    BY <1>5 DEF Destination
  <2>2. d.size = allocs[dst].size /\ d.offset = 0 /\ d.size \in Nat
    BY <1>4, <1>5, <2>1
  <2>3. CASE off = 0
    <3>1. dst = a
      BY <1>1, <2>3
    <3>2. QED
      BY <1>1, <2>2, <2>3, <3>1 DEF SizeKnown
  <2>4. CASE off # 0
    <3>1. dst # a /\ dst > a
      BY <1>1, <1>2, <2>4
    <3>2. a + Extent(size) <= dst \/ dst + Extent(heap[dst].size) <= a
      BY <1>4, <1>5, <3>1
    <3>3. Extent(size) \in Nat /\ Extent(size) >= size /\ Extent(heap[dst].size) \in Nat
      BY <1>1, <1>4, <1>5 DEF Extent
    <3>4. ~(off < size)
      BY <1>1, <1>2, <3>1, <3>2, <3>3
    <3>5. QED
      BY <2>2, <3>4
  <2>5. QED
    BY <2>3, <2>4
<1>6. CASE ~(dst \in Addrs /\ allocs[dst] # None)
  <2>1. d = [size |-> range.size,
             offset |-> IF range = NoRange THEN 0 ELSE dst - range.base]
    BY <1>6 DEF Destination
  <2>2. off # 0
    BY <1>1, <1>6
  <2>3. CASE found = {}
    <3>1. range = NoRange
      BY <2>3 DEF lookup_alloc_range
    <3>2. d.size = 0 /\ d.offset = 0
      BY <2>1, <3>1 DEF NoRange
    <3>3. ~(SizeKnown(a) /\ off < size /\ Indexed(a, off))
      <4>1. SUFFICES ASSUME SizeKnown(a), off < size, Indexed(a, off) PROVE FALSE
        OBVIOUS
      <4>2. allocs[a].size = size /\ size \in Sizes
        BY <1>1, <4>1 DEF SizeKnown
      <4>3. page \in PagesOf(a, size) /\ page \in Pages \ crowded
        BY <1>1, <4>1, <4>2 DEF Indexed, Pages
      <4>4. PICK k \in Slots : alloc_ranges[page][k] = [base |-> a, size |-> size]
        BY <1>1, <4>2, <4>3 DEF CInv, IndexOK, RangesComplete
      <4>5. a # 0 /\ a <= dst /\ dst - a < size
        BY <1>1, <1>2, <4>1, ZeroIsNoAddress
      <4>6. k \in found
        BY <4>3, <4>4, <4>5 DEF Containing
      <4>7. QED
        BY <2>3, <4>6
    <3>4. QED
      BY <2>2, <3>2, <3>3
  <2>4. CASE found # {}
    <3>1. found \in SUBSET Slots
      BY DEF Containing
    <3>2. i \in found
      BY <2>4, <3>1, LeastSlot
    <3>3. range = alloc_ranges[page][i]
      BY <2>4 DEF lookup_alloc_range
    <3> HIDE DEF i
    <3>4. /\ page \in Pages /\ i \in Slots /\ range.base # 0
          /\ range.base <= dst /\ dst - range.base < range.size
      BY <3>2, <3>3 DEF Containing
    <3>5. range \in ByteRange /\ range # NoRange
      <4>1. range \in ByteRange
        BY <3>3, <3>4 DEF CInv, IndexOK
      <4>2. QED
        BY <3>4, <4>1 DEF NoRange
    <3>6. range.base \in Addrs /\ range.size \in Nat
      <4>1. Sizes \cup {0} \subseteq Nat
        BY ConstantsAssumption
      <4>2. range.base \in Addrs \cup {0} /\ range.size \in Sizes \cup {0}
        BY <3>5 DEF ByteRange
      <4>3. QED
        BY <3>4, <4>1, <4>2
    <3>7. allocs[range.base] # None /\ allocs[range.base].size = range.size
      BY <3>3, <3>4 DEF CInv, IndexOK, RangesSound
    <3>8. range.base \in Nat /\ range.size # 0 /\ range.size = heap[range.base].size
      <4>1. range.base \in Nat /\ allocs[range.base].size \in {0, heap[range.base].size}
        BY <1>4, <3>6, <3>7
      <4>2. range.size # 0
        BY <1>2, <3>4, <3>6, <4>1
      <4>3. QED
        BY <3>7, <4>1, <4>2
    <3>9. d.size = range.size /\ d.offset = dst - range.base /\ d.offset \in Nat
      BY <1>2, <2>1, <3>4, <3>5, <3>8
    <3>10. CASE range.base = a
      BY <1>1, <1>2, <3>6, <3>8, <3>9, <3>10
    <3>11. CASE range.base # a
      <4>1. \/ a + Extent(size) <= range.base
            \/ range.base + Extent(heap[range.base].size) <= a
        BY <1>4, <3>6, <3>7, <3>11
      <4>2. Extent(size) \in Nat /\ Extent(size) >= size
            /\ Extent(heap[range.base].size) = range.size
        BY <1>1, <3>8 DEF Extent
      <4>3. ~(off < size)
        BY <1>1, <1>2, <3>4, <3>6, <3>8, <4>1, <4>2
      <4>4. QED
        BY <3>6, <3>9, <4>3
    <3>12. QED
      BY <3>10, <3>11
  <2>5. QED
    BY <2>3, <2>4
<1>7. QED
  BY <1>5, <1>6

LEMMA AllRight == CInv /\ ~Evicts => WriteJudged
<1> SUFFICES ASSUME CInv, ~Evicts, \A t \in Threads : pc[t] = "user",
                    NEW a \in owned, Fits(a), NEW off \in 0..heap[a].size,
                    NEW n \in Lengths, NEW api \in Apis
             PROVE  Judged(a, off, n, api, SizeKnown(a) /\ (off = 0 \/ Indexed(a, off)))
  BY DEF WriteJudged
<1>1. a \in Nat /\ heap[a].size \in Nat /\ armed
  BY OwnedBlock DEF CInv
<1>2. LET d == Destination(a + off)
      IN /\ d.size \in Nat /\ d.offset \in Nat
         /\ off < heap[a].size /\ d.size # 0 =>
              d.size = heap[a].size /\ d.offset = off
         /\ off < heap[a].size /\ SizeKnown(a) /\ (off = 0 \/ Indexed(a, off))
              => d.size # 0
  BY DestinationRight
<1>3. LET len == SeenLength(api, n)
      IN /\ off + n <= heap[a].size => ~Reported(a + off, len)
         /\ off < heap[a].size /\ off + len > heap[a].size
              /\ Destination(a + off).size # 0 => Reported(a + off, len)
  BY <1>1, <1>2, JudgedIf
<1>4. QED
  BY <1>2, <1>3 DEF Judged

(* As long as no record or event is lost, and while no call of the         *)
(* allocator is under way on any thread, a write from any byte of a live   *)
(* block is reported exactly when it leaves the block, if the block's size *)
(* is known and fits an event and the range index can have its range; and  *)
(* a write within the block is never reported, also when the index has     *)
(* been overrun.                                                           *)
THEOREM WritesJudgedRight ==
  Lossless /\ IsFiniteSet(Addrs) => (CopySpec => []WriteJudged)
<1> SUFFICES ASSUME Lossless, IsFiniteSet(Addrs) PROVE CopySpec => []WriteJudged
  OBVIOUS
<1>1. CopyInit => CInv
  BY CalmInit, IndexInit DEF CInv, CopyInit
<1>2. CInv /\ [CopyNext]_<<vars, crowded>> => CInv'
  BY CopyStep
<1>3. CInv => WriteJudged
  BY AllRight DEF Lossless
<1>4. QED
  BY <1>1, <1>2, <1>3, PTL DEF CopySpec
=============================================================================
