------------------------- MODULE HeapTracker_proofs -------------------------
(***************************************************************************)
(* What the heap tracker says, for any number of threads, addresses and    *)
(* sizes and any ring capacity: no legal release is mistaken for an error, *)
(* no block in use is forgotten, and a wrong release is answered with the  *)
(* event that says what is wrong.                                          *)
(*                                                                         *)
(* There are two sets of conditions under which the code keeps that        *)
(* promise, with an inductive invariant for each.  Calm (IInv): any number *)
(* of threads, release functions called for the wrong family included,     *)
(* while realloc releases no memory and no operator delete meets a full    *)
(* ring; records may be evicted, and what is lost with them is left out    *)
(* under ~Evicts.  Alone (AInv): one thread of a C program, which may free *)
(* twice or what it never had, and whose reallocs move and release blocks. *)
(* The violation runs show that the promise is not kept when realloc       *)
(* releases memory under the feet of another thread, or when a C++ delete  *)
(* meets a full ring.                                                      *)
(***************************************************************************)
EXTENDS HeapTracker, TLAPS

(* The program releases only what it owns, with the right function or the  *)
(* wrong one, realloc resizes in place or fails, and the ring has room or  *)
(* the program does not use operator delete.  The LRU maps may lose        *)
(* records; what the invariant loses with them is stated under ~Evicts.    *)
Calm ==
  /\ Misuse \subseteq {"wrongCall"}
  /\ ~ReallocReleases
  /\ KeepsUp \/ Calls \cap {"delete", "delete[]"} = {}

----------------------------------------------------------------------------
(* Type correctness, for every value of the constants.  The types alone    *)
(* are not inductive: a thread outside the program has a call, and one in a*)
(* release probe has a pointer.                                            *)

TypeInv ==
  /\ TypeOK
  /\ \A t \in Threads : pc[t] = "user" <=> call[t] = None
  /\ \A t \in Threads :
       pc[t] \in {"dealloc", "inner", "release"} => call[t].ptr \in Addrs

LEMMA RingType ==
  ASSUME TypeOK, NEW e \in Event, Submit(e) \/ Dropped \/ UNCHANGED ring
  PROVE  /\ ring' \in Seq(Event)
         /\ Len(ring') <= RingCap
<1>1. ring \in Seq(Event) /\ Len(ring) <= RingCap /\ RingCap \in Nat
  BY ConstantsAssumption DEF TypeOK
<1>2. CASE Submit(e)
  <2>1. Append(ring, e) \in Seq(Event) /\ Len(Append(ring, e)) = Len(ring) + 1
    BY <1>1
  <2>2. QED
    BY <1>1, <1>2, <2>1 DEF Submit, HasRoom
<1>3. CASE Dropped \/ UNCHANGED ring
  BY <1>1, <1>3 DEF Dropped
<1>4. QED
  BY <1>2, <1>3

LEMMA NoneIsNoAddress == None \notin Addrs
BY ConstantsAssumption

LEMMA EmptyType == EmptyBucket \in [Slots -> ByteRange]
BY DEF EmptyBucket, NoRange, ByteRange

(* The range index stays one whatever is stored or cleared.                *)
LEMMA RangesType ==
  ASSUME NEW ranges \in [Pages -> [Slots -> ByteRange]], NEW a \in Addrs
  PROVE  /\ \A old \in Block \cup {None} :
              RangeWithout(ranges, a, old) \in [Pages -> [Slots -> ByteRange]]
         /\ \A n \in Sizes \cup {0} :
              index_allocation_range(ranges, a, n) \in [Pages -> [Slots -> ByteRange]]
<1>1. NoRange \in ByteRange
  BY DEF NoRange, ByteRange
<1>2. ASSUME NEW n \in Sizes \cup {0}, NEW bucket \in [Slots -> ByteRange]
      PROVE  /\ clear_range_slot(bucket, a) \in [Slots -> ByteRange]
             /\ store_range_slot(bucket, a, n) \in [Slots -> ByteRange]
  <2>1. [base |-> a, size |-> n] \in ByteRange
    BY DEF ByteRange
  <2>2. QED
    BY <1>1, <2>1 DEF clear_range_slot, store_range_slot
<1>3. \A n \in Sizes \cup {0} :
        /\ remove_allocation_range(ranges, a, n) \in [Pages -> [Slots -> ByteRange]]
        /\ index_allocation_range(ranges, a, n) \in [Pages -> [Slots -> ByteRange]]
  BY <1>2 DEF remove_allocation_range, index_allocation_range
<1>4. QED
  BY <1>3 DEF RangeWithout, Block

LEMMA MapsType ==
  ASSUME TypeOK, NEW a \in Addrs \cup {None}
  PROVE  /\ mark_allocation_freed(a).allocs \in [Addrs -> Block \cup {None}]
         /\ mark_allocation_freed(a).ranges \in [Pages -> [Slots -> ByteRange]]
         /\ mark_allocation_freed(a).freed \in [Addrs -> FreedBlock \cup {None}]
<1>1. CASE a = None
  BY <1>1 DEF TypeOK, mark_allocation_freed, Maps
<1>2. CASE a \in Addrs /\ allocs[a] = None
  BY <1>2 DEF TypeOK, mark_allocation_freed, Maps
<1>3. CASE a \in Addrs /\ allocs[a] # None /\ a # None
  <2>1. allocs[a] \in Block
    BY <1>3 DEF TypeOK
  <2>2. [family |-> allocs[a].family, dealloc |-> "FREE"] \in FreedBlock
    BY <2>1 DEF Block, FreedBlock, DeallocFamilies
  <2>3. RangeWithout(alloc_ranges, a, allocs[a]) \in [Pages -> [Slots -> ByteRange]]
    BY <1>3, <2>1, RangesType DEF TypeOK
  <2>4. QED
    BY <1>3, <2>2, <2>3 DEF TypeOK, mark_allocation_freed
<1>4. QED
  BY <1>1, <1>2, <1>3

LEMMA ReturnType ==
  ASSUME TypeOK, NEW maps,
         maps.allocs \in [Addrs -> Block \cup {None}],
         maps.ranges \in [Pages -> [Slots -> ByteRange]],
         maps.freed \in [Addrs -> FreedBlock \cup {None}],
         NEW ret \in Addrs \cup {None}, NEW size \in Sizes \cup {None},
         NEW family \in AllocFamilies,
         record_allocation_return(maps, ret, size, family)
  PROVE  /\ allocs' \in [Addrs -> Block \cup {None}]
         /\ alloc_ranges' \in [Pages -> [Slots -> ByteRange]]
         /\ freed' \in [Addrs -> FreedBlock \cup {None}]
         /\ armed' \in BOOLEAN
         /\ ring' \in Seq(Event)
         /\ Len(ring') <= RingCap
<1> DEFINE info == [size |-> IF size = None THEN 0 ELSE size, family |-> family]
<1>1. info \in Block
  BY DEF Block
<1>2. ret # None =>
        index_allocation_range(RangeWithout(maps.ranges, ret, maps.allocs[ret]),
                               ret, info.size)
          \in [Pages -> [Slots -> ByteRange]]
  <2>1. ret # None =>
          RangeWithout(maps.ranges, ret, maps.allocs[ret])
            \in [Pages -> [Slots -> ByteRange]]
    BY RangesType
  <2>2. info.size \in Sizes \cup {0}
    OBVIOUS
  <2>3. QED
    BY <2>1, <2>2, RangesType
<1>3. /\ allocs' \in [Addrs -> Block \cup {None}]
      /\ alloc_ranges' \in [Pages -> [Slots -> ByteRange]]
      /\ freed' \in [Addrs -> FreedBlock \cup {None}]
      /\ armed' \in BOOLEAN
  <2>1. CASE ret # None /\ (size # None \/ family # "MALLOC")
    <3>1. /\ armed' = TRUE
          /\ freed' = [maps.freed EXCEPT ![ret] = None]
          /\ allocs' = [maps.allocs EXCEPT ![ret] = info]
          /\ alloc_ranges' =
               index_allocation_range(
                 RangeWithout(maps.ranges, ret, maps.allocs[ret]), ret, info.size)
      BY <2>1 DEF record_allocation_return, Tracked, Revived
    <3>2. QED
      BY <1>1, <1>2, <2>1, <3>1
  <2>2. CASE ~(ret # None /\ (size # None \/ family # "MALLOC"))
    BY <2>2 DEF TypeOK, record_allocation_return, Tracked
  <2>3. QED
    BY <2>1, <2>2
<1>4. [type |-> "MALLOC"] \in Event
  BY DEF Event
<1>5. ring' \in Seq(Event) /\ Len(ring') <= RingCap
  BY <1>4, RingType DEF record_allocation_return
<1>6. QED
  BY <1>3, <1>5

LEMMA TypeInit == Init => TypeInv
<1>1. ASSUME Init PROVE TypeOK
  <2>1. Empty("unborn") \in Cell
    BY DEF Empty, Cell, AllocFamilies
  <2>2. ring \in Seq(Event) /\ Len(ring) <= RingCap
    BY <1>1, ConstantsAssumption DEF Init
  <2>3. alloc_ranges \in [Pages -> [Slots -> ByteRange]]
    BY <1>1, EmptyType DEF Init
  <2>4. QED
    BY <1>1, <2>1, <2>2, <2>3 DEF Init, TypeOK, Where, Nothing
<1>2. QED
  BY <1>1 DEF Init, TypeInv

(* One step per action of Next.                                            *)
LEMMA TypeStep == TypeInv /\ [Next]_vars => TypeInv'
<1> SUFFICES ASSUME TypeInv, [Next]_vars PROVE TypeInv'
  OBVIOUS
<1> USE DEF TypeInv
<1>1. ASSUME NEW t \in Threads, NEW op \in AllocCalls, NEW n \in Sizes,
             CallAlloc(t, op, n)
      PROVE  TypeInv'
  <2>1. [op |-> op, ptr |-> None, ret |-> None, size |-> n,
         dealloc |-> "FREE", truth |-> "legal"] \in Call
    BY DEF Call, DeallocFamilies, Truths
  <2>2. QED
    BY <1>1, <2>1, NoneAssumption DEF CallAlloc, TypeOK, Where, tracking
<1>2. ASSUME NEW t \in Threads, NEW n \in Sizes, NEW p \in Addrs \cup {None},
             CallRealloc(t, p, n)
      PROVE  TypeInv'
  <2>1. [op |-> "realloc", ptr |-> p, ret |-> None, size |-> n,
         dealloc |-> "FREE", truth |-> "legal"] \in Call
    BY DEF Call, DeallocFamilies, Truths
  <2>2. QED
    BY <1>2, <2>1, NoneAssumption DEF CallRealloc, TypeOK, Where, tracking
<1>3. ASSUME NEW t \in Threads, NEW op \in ReleaseCalls, NEW p \in Addrs,
             CallRelease(t, op, p)
      PROVE  TypeInv'
  <2>1. [op |-> op, ptr |-> p, ret |-> None, size |-> 0,
         dealloc |-> DeallocOf(op), truth |-> Truth(op, p)] \in Call
    BY DEF Call, DeallocFamilies, Truths, DeallocOf, Truth
  <2>2. [info |-> allocs[p], prev |-> freed[p]]
          \in [info : Block \cup {None}, prev : FreedBlock \cup {None}]
    BY DEF TypeOK
  <2>3. QED
    BY <1>3, <2>1, <2>2, NoneAssumption
       DEF CallRelease, TypeOK, Where, scratch, tracking
<1>4. ASSUME NEW t \in Threads, LibcAlloc(t) PROVE TypeInv'
  <2>1. call[t] \in Call
    BY <1>4 DEF LibcAlloc, TypeOK
  <2>2. /\ LiveCell(call[t].size, FamilyOf(call[t].op)) \in Cell
        /\ \A a \in Addrs : [call[t] EXCEPT !.ret = a] \in Call
    BY <2>1 DEF Call, Cell, LiveCell, FamilyOf, AllocFamilies
  <2>3. /\ heap' \in [Addrs -> Cell]
        /\ call' \in [Threads -> Call \cup {None}]
        /\ \A u \in Threads : call'[u] = None <=> call[u] = None
    <3>1. CASE UNCHANGED <<heap, call>>
      BY <3>1 DEF TypeOK
    <3>2. CASE \E a \in Addrs :
                 /\ heap' = [heap EXCEPT ![a] =
                      LiveCell(call[t].size, FamilyOf(call[t].op))]
                 /\ call' = [call EXCEPT ![t].ret = a]
      BY <2>1, <2>2, <3>2, NoneAssumption DEF TypeOK
    <3>3. QED
      BY <1>4, <3>1, <3>2 DEF LibcAlloc
  <2>4. QED
    BY <1>4, <2>1, <2>3 DEF LibcAlloc, TypeOK, Where, scratch, tracking
<1>5. ASSUME NEW t \in Threads, MallocExit(t) PROVE TypeInv'
  <2>1. call[t] \in Call /\ call[t].ret \in Addrs \cup {None}
    BY <1>5 DEF MallocExit, TypeOK, Call
  <2>2. /\ Maps.allocs \in [Addrs -> Block \cup {None}]
        /\ Maps.ranges \in [Pages -> [Slots -> ByteRange]]
        /\ Maps.freed \in [Addrs -> FreedBlock \cup {None}]
    BY DEF Maps, TypeOK
  <2>3. pending[t] \in Sizes \cup {None} /\ "MALLOC" \in AllocFamilies
    BY DEF TypeOK, AllocFamilies
  <2>4. /\ allocs' \in [Addrs -> Block \cup {None}]
        /\ alloc_ranges' \in [Pages -> [Slots -> ByteRange]]
        /\ freed' \in [Addrs -> FreedBlock \cup {None}]
        /\ armed' \in BOOLEAN
        /\ ring' \in Seq(Event)
        /\ Len(ring') <= RingCap
    BY <1>5, <2>1, <2>2, <2>3, ReturnType DEF MallocExit
  <2>5. QED
    <3>1. CASE HandOver(t)
      BY <1>5, <2>1, <2>4, <3>1 DEF MallocExit, HandOver, Return, TypeOK, Where
    <3>2. CASE /\ pc' = [pc EXCEPT ![t] = "wrapRet"]
               /\ UNCHANGED <<heap, owned, call>>
      BY <1>5, <2>1, <2>4, <3>2 DEF MallocExit, TypeOK, Where
    <3>3. QED
      BY <1>5, <3>1, <3>2 DEF MallocExit
<1>6. ASSUME NEW t \in Threads, WrapperExit(t) PROVE TypeInv'
  <2>1. call[t] \in Call /\ call[t].ret \in Addrs \cup {None}
    BY <1>6 DEF WrapperExit, TypeOK, Call
  <2>2. /\ Maps.allocs \in [Addrs -> Block \cup {None}]
        /\ Maps.ranges \in [Pages -> [Slots -> ByteRange]]
        /\ Maps.freed \in [Addrs -> FreedBlock \cup {None}]
    BY DEF Maps, TypeOK
  <2>3. pending[t] \in Sizes \cup {None} /\ FamilyOf(call[t].op) \in AllocFamilies
    BY DEF TypeOK, AllocFamilies, FamilyOf
  <2>4. /\ allocs' \in [Addrs -> Block \cup {None}]
        /\ alloc_ranges' \in [Pages -> [Slots -> ByteRange]]
        /\ freed' \in [Addrs -> FreedBlock \cup {None}]
        /\ armed' \in BOOLEAN
        /\ ring' \in Seq(Event)
        /\ Len(ring') <= RingCap
    BY <1>6, <2>1, <2>2, <2>3, ReturnType DEF WrapperExit
  <2>5. QED
    BY <1>6, <2>1, <2>4 DEF WrapperExit, HandOver, Return, TypeOK, Where
<1>7. ASSUME NEW t \in Threads, LibcRealloc(t) PROVE TypeInv'
  <2>1. call[t] \in Call /\ call[t].ptr \in Addrs \cup {None}
    BY <1>7 DEF LibcRealloc, TypeOK, Call
  <2>2. /\ LiveCell(call[t].size, "MALLOC") \in Cell
        /\ Empty("dead") \in Cell
        /\ \A a \in Addrs : [call[t] EXCEPT !.ret = a] \in Call
    BY <2>1 DEF Call, Cell, LiveCell, Empty, AllocFamilies
  <2>3. /\ heap' \in [Addrs -> Cell]
        /\ call' \in [Threads -> Call \cup {None}]
        /\ \A u \in Threads : call'[u] = None <=> call[u] = None
    <3> DEFINE p == call[t].ptr
               new == LiveCell(call[t].size, "MALLOC")
               released == IF p = None THEN heap ELSE [heap EXCEPT ![p] = Empty("dead")]
    <3>1. heap \in [Addrs -> Cell] /\ released \in [Addrs -> Cell]
      BY <2>1, <2>2 DEF TypeOK
    <3>2. ASSUME UNCHANGED call
          PROVE  /\ call' \in [Threads -> Call \cup {None}]
                 /\ \A u \in Threads : call'[u] = None <=> call[u] = None
      BY <3>2 DEF TypeOK
    <3>3. ASSUME NEW a \in Addrs, call' = [call EXCEPT ![t].ret = a]
          PROVE  /\ call' \in [Threads -> Call \cup {None}]
                 /\ \A u \in Threads : call'[u] = None <=> call[u] = None
      <4>1. [call[t] EXCEPT !.ret = a] \in Call /\ [call[t] EXCEPT !.ret = a] # None
        BY <2>2, NoneAssumption
      <4>2. call' = [call EXCEPT ![t] = [call[t] EXCEPT !.ret = a]] /\ call[t] # None
        BY <2>1, <3>3, NoneAssumption
      <4>3. QED
        BY <4>1, <4>2 DEF TypeOK
    <3>4. ASSUME NEW a \in Addrs, NEW old \in [Addrs -> Cell], heap' = [old EXCEPT ![a] = new]
          PROVE  heap' \in [Addrs -> Cell]
      BY <2>2, <3>4
    <3> HIDE DEF new, released
    <3>5. \/ /\ p # None
             /\ heap' = [heap EXCEPT ![p] = new] /\ call' = [call EXCEPT ![t].ret = p]
          \/ \E a \in Addrs : /\ heap' = [released EXCEPT ![a] = new]
                             /\ call' = [call EXCEPT ![t].ret = a]
          \/ heap' = released /\ UNCHANGED call
          \/ UNCHANGED <<heap, call>>
      BY <1>7, Zenon DEF LibcRealloc, released, new
    <3>6. p # None => p \in Addrs
      BY <2>1
    <3> HIDE DEF p
    <3>7. QED
      BY <3>1, <3>2, <3>3, <3>4, <3>5, <3>6
  <2>4. QED
    <3>1. /\ pc[t] = "realloc" /\ pc' = [pc EXCEPT ![t] = "reallocRet"]
          /\ UNCHANGED <<owned, scratch, tracking, looked, ring>>
      BY <1>7 DEF LibcRealloc
    <3>2. /\ pc' \in [Threads -> Where] /\ "reallocRet" \notin {"user", "dealloc", "inner", "release"}
          /\ \A u \in Threads : pc'[u] = IF u = t THEN "reallocRet" ELSE pc[u]
      BY <3>1 DEF TypeOK, Where
    <3>3. \A u \in Threads : pc[u] \in {"dealloc", "inner", "release"} => u # t /\ call'[u] = call[u]
      BY <1>7, <3>1 DEF LibcRealloc, TypeOK
    <3>4. TypeOK'
      BY <2>3, <3>1, <3>2 DEF TypeOK, scratch, tracking
    <3>5. QED
      BY <2>3, <3>1, <3>2, <3>3, <3>4
<1>8. ASSUME NEW t \in Threads, ReallocExit(t) PROVE TypeInv'
  <2>1. /\ call[t] \in Call
        /\ call[t].ret \in Addrs \cup {None}
        /\ call[t].ptr \in Addrs \cup {None}
    BY <1>8 DEF ReallocExit, TypeOK, Call
  <2>2. ReallocMarks(t) \in Addrs \cup {None}
    BY DEF ReallocMarks, TypeOK
  <2>3. pending[t] \in Sizes \cup {None} /\ "MALLOC" \in AllocFamilies
    BY DEF TypeOK, AllocFamilies
  <2>4. /\ allocs' \in [Addrs -> Block \cup {None}]
        /\ alloc_ranges' \in [Pages -> [Slots -> ByteRange]]
        /\ freed' \in [Addrs -> FreedBlock \cup {None}]
        /\ armed' \in BOOLEAN
        /\ ring' \in Seq(Event)
        /\ Len(ring') <= RingCap
    BY <1>8, <2>1, <2>2, <2>3, MapsType, ReturnType DEF ReallocExit
  <2>5. QED
    BY <1>8, <2>1, <2>4 DEF ReallocExit, TakeReallocOld, Return, TypeOK, Where
<1>9. ASSUME NEW t \in Threads, InnerFree(t) PROVE TypeInv'
  <2>1. call[t] \in Call /\ call[t].ptr \in Addrs
    BY <1>9 DEF InnerFree, TypeOK
  <2>2. /\ [call[t] EXCEPT !.dealloc = "FREE"] \in Call
        /\ [call[t] EXCEPT !.dealloc = "FREE"].ptr = call[t].ptr
    BY <2>1 DEF Call, DeallocFamilies
  <2>3. [info |-> allocs[call[t].ptr], prev |-> freed[call[t].ptr]]
          \in [info : Block \cup {None}, prev : FreedBlock \cup {None}]
    BY <2>1 DEF TypeOK
  <2>4. QED
    BY <1>9, <2>1, <2>2, <2>3, NoneAssumption
       DEF InnerFree, TypeOK, Where, scratch, tracking
<1>10. ASSUME NEW t \in Threads, ReleaseProbe(t) PROVE TypeInv'
  <2> DEFINE l == looked[t]
             d == call[t].dealloc
  <2>1. /\ call[t] \in Call /\ call[t].ptr \in Addrs
        /\ d \in DeallocFamilies /\ call[t].truth \in Truths
        /\ l.info \in Block \cup {None} /\ l.prev \in FreedBlock \cup {None}
    BY <1>10 DEF ReleaseProbe, TypeOK, Call
  <2>2. [type |-> "FREE", status |-> FreeStatus(l.info, l.prev, d),
         truth |-> call[t].truth, family |-> FreeFamily(l.info, l.prev),
         dealloc |-> d] \in Event
    <3>1. FreeFamily(l.info, l.prev) \in AllocFamilies \cup {"UNKNOWN"}
      BY <2>1 DEF FreeFamily, Block, FreedBlock
    <3>2. FreeStatus(l.info, l.prev, d) \in Statuses
      BY DEF FreeStatus, Statuses
    <3>3. QED
      BY <2>1, <3>1, <3>2 DEF Event
  <2>3. /\ ring' \in Seq(Event) /\ Len(ring') <= RingCap
        /\ allocs' \in [Addrs -> Block \cup {None}]
        /\ alloc_ranges' \in [Pages -> [Slots -> ByteRange]]
        /\ freed' \in [Addrs -> FreedBlock \cup {None}]
        /\ armed' \in BOOLEAN
    <3>1. CASE SkipAfterDelete(t)
      BY <2>1, <3>1 DEF SkipAfterDelete, TypeOK
    <3>2. CASE ReportRelease(t)
      <4>1. ring' \in Seq(Event) /\ Len(ring') <= RingCap
        BY <2>2, <3>2, RingType DEF ReportRelease
      <4>2. l.info # None =>
              [family |-> l.info.family, dealloc |-> d] \in FreedBlock
        BY <2>1 DEF Block, FreedBlock
      <4>3. RangeWithout(alloc_ranges, call[t].ptr, l.info)
              \in [Pages -> [Slots -> ByteRange]]
        BY <2>1, RangesType DEF TypeOK
      <4>4. QED
        BY <2>1, <3>2, <4>1, <4>2, <4>3 DEF ReportRelease, TypeOK, tracking
    <3>3. QED
      BY <1>10, <3>1, <3>2 DEF ReleaseProbe
  <2>4. Nothing \in [info : Block \cup {None}, prev : FreedBlock \cup {None}]
    BY DEF Nothing
  <2>5. QED
    BY <1>10, <2>1, <2>3, <2>4 DEF ReleaseProbe, TypeOK, Where, scratch
<1>11. ASSUME NEW t \in Threads, LibcFree(t) PROVE TypeInv'
  <2>1. Empty("dead") \in Cell
    BY DEF Empty, Cell, AllocFamilies
  <2>2. QED
    BY <1>11, <2>1 DEF LibcFree, Return, TypeOK, Where, scratch, tracking
<1>12. ASSUME \/ \E a \in Addrs : EvictAlloc(a) \/ EvictFreed(a)
              \/ \E p \in Pages : EvictRange(p)
       PROVE  TypeInv'
  BY <1>12, EmptyType DEF EvictAlloc, EvictRange, EvictFreed, TypeOK, program, scratch
<1>13. ASSUME Consume PROVE TypeInv'
  <2>1. Tail(ring) \in Seq(Event) /\ Len(Tail(ring)) <= RingCap
    BY <1>13, ConstantsAssumption DEF Consume, TypeOK
  <2>2. QED
    BY <1>13, <2>1 DEF Consume, TypeOK, program, scratch, tracking
<1>14. CASE UNCHANGED vars
  BY <1>14 DEF TypeOK, vars, program, scratch, tracking
<1>15. QED
  BY <1>1, <1>2, <1>3, <1>4, <1>5, <1>6, <1>7, <1>8, <1>9, <1>10, <1>11,
     <1>12, <1>13, <1>14 DEF Next

(* Every variable keeps its type, whatever the program, libc, the agent    *)
(* and the LRU maps do.                                                    *)
THEOREM TypeCorrect == Spec => []TypeOK
<1>1. TypeInv => TypeOK
  BY DEF TypeInv
<1>2. QED
  BY <1>1, TypeInit, TypeStep, PTL DEF Spec

----------------------------------------------------------------------------
(* The inductive invariant of a calm execution.                            *)

Busy(t) == pc[t] # "user"
Outer(t) == call[t].dealloc = DeallocOf(call[t].op)
IsDelete(t) == call[t].op \in {"delete", "delete[]"}

(* The addresses a call in progress keeps alive: nobody else has them.     *)
Held(t) ==
  CASE pc[t] \in {"mallocRet", "wrapRet"} -> {call[t].ret} \ {None}
    [] pc[t] = "realloc" -> {call[t].ptr} \ {None}
    [] pc[t] = "reallocRet" -> {call[t].ptr, call[t].ret} \ {None}
    [] pc[t] \in {"dealloc", "inner", "release"} -> {call[t].ptr}
    [] OTHER -> {}

(* Where a thread is and what its call is, and the scratch slots the       *)
(* entry probes filled.                                                    *)
CallShape(t) ==
  /\ Busy(t) => call[t].truth \in {"legal", "mismatch"}
  /\ pc[t] \in {"malloc", "mallocRet"} =>
       /\ call[t].op \in AllocCalls
       /\ pending[t] = call[t].size
  /\ pc[t] = "wrapRet" =>
       /\ call[t].op \in AllocCalls \ {"malloc"}
       /\ call[t].ret # None
       /\ pending[t] = None
  /\ pc[t] \in {"realloc", "reallocRet"} =>
       /\ call[t].op = "realloc"
       /\ pending[t] = call[t].size
       /\ realloc_old[t] = call[t].ptr
       /\ call[t].ptr # None => call[t].size # 0
  /\ pc[t] \notin {"realloc", "reallocRet"} => realloc_old[t] = None
  /\ pc[t] \in {"user", "malloc", "realloc", "dealloc", "inner", "release"} =>
       call[t] = None \/ call[t].ret = None
  /\ pc[t] = "reallocRet" /\ call[t].ptr # None =>
       call[t].ret \in {call[t].ptr, None}
  /\ pc[t] \in {"dealloc", "inner", "release"} =>
       /\ call[t].op \in Calls \cap ReleaseCalls
       /\ Outer(t) \/ (IsDelete(t) /\ call[t].dealloc = "FREE")
  /\ pc[t] = "inner" => IsDelete(t) /\ Outer(t)

(* A live address is the program's or exactly one call's.                  *)
Exclusive ==
  /\ \A a \in owned : Live(a)
  /\ \A t \in Threads : \A a \in Held(t) : a \in Addrs /\ Live(a) /\ a \notin owned
  /\ \A s, t \in Threads : s # t => Held(s) \cap Held(t) = {}

(* a is recorded, under the family libc has it in and with its size, if    *)
(* with any, and no earlier release of the address is.                     *)
Recorded(a) ==
  /\ allocs[a] = None => Evicts
  /\ allocs[a] # None =>
       /\ allocs[a].family = heap[a].family
       /\ allocs[a].size \in {0, heap[a].size}
  /\ freed[a] = None

(* What free's probe finds inside operator delete: the delete's record, or *)
(* nothing.                                                                *)
AfterDelete(info, prev) ==
  /\ info = None
  /\ prev = None => Evicts
  /\ prev # None => prev.dealloc \in {"DELETE", "DELETE_ARRAY"}

(* What the maps say of the address a call is working on.                  *)
CallRecords(t) ==
  /\ pc[t] \in {"mallocRet", "wrapRet"} /\ call[t].ret # None =>
       /\ heap[call[t].ret].family = FamilyOf(call[t].op)
       /\ heap[call[t].ret].size = call[t].size
  /\ pc[t] = "wrapRet" /\ call[t].op = "strdup" => Recorded(call[t].ret)
  /\ pc[t] \in {"realloc", "reallocRet"} /\ call[t].ptr # None =>
       /\ heap[call[t].ptr].family = "MALLOC"
       /\ pc[t] = "realloc" \/ call[t].ret = None => Recorded(call[t].ptr)
  /\ pc[t] = "reallocRet" /\ call[t].ret # None =>
       /\ heap[call[t].ret].family = "MALLOC"
       /\ heap[call[t].ret].size = call[t].size
  /\ pc[t] = "dealloc" /\ Outer(t) =>
       /\ looked[t].info = None => Evicts
       /\ looked[t].info # None =>
            /\ armed
            /\ call[t].truth = "legal" <=>
                 alloc_family_matches_dealloc(looked[t].info.family, call[t].dealloc)
       /\ looked[t].prev = None
  /\ pc[t] = "dealloc" /\ ~Outer(t) => AfterDelete(looked[t].info, looked[t].prev)
  /\ pc[t] = "dealloc" =>
       allocs[call[t].ptr] = looked[t].info \/ (Evicts /\ allocs[call[t].ptr] = None)
  /\ pc[t] = "dealloc" =>
       freed[call[t].ptr] = looked[t].prev \/ (Evicts /\ freed[call[t].ptr] = None)
  /\ pc[t] = "inner" => AfterDelete(allocs[call[t].ptr], freed[call[t].ptr])

RightStatus(truth, status) ==
  truth = "legal" => status = "OK" \/ (Evicts /\ status = "INVALID")

RingLegal ==
  \A i \in 1..Len(ring) : ring[i].type = "FREE" =>
    RightStatus(ring[i].truth, ring[i].status)

IInv ==
  /\ TypeInv
  /\ \A t \in Threads : CallShape(t)
  /\ Exclusive
  /\ \A a \in owned : Recorded(a)
  /\ \A t \in Threads : CallRecords(t)
  /\ \A a \in Addrs : allocs[a] # None => armed
  /\ RingLegal

(* A thread that does not move keeps its part of the invariant as long as  *)
(* nobody touches the addresses its call holds.                            *)
LEMMA OtherThread ==
  ASSUME TypeInv, NEW u \in Threads, CallShape(u), CallRecords(u),
         pc'[u] = pc[u], call'[u] = call[u], looked'[u] = looked[u],
         pending'[u] = pending[u], realloc_old'[u] = realloc_old[u],
         armed => armed',
         \A a \in Held(u) :
           heap'[a] = heap[a] /\ allocs'[a] = allocs[a] /\ freed'[a] = freed[a]
  PROVE  /\ CallShape(u)'
         /\ CallRecords(u)'
         /\ Held(u)' = Held(u)
<1>1. CallShape(u)'
  BY DEF CallShape, Busy, Outer, IsDelete
<1>2. Held(u)' = Held(u)
  BY DEF Held
<1>3. CallRecords(u)'
  <2>1. /\ pc[u] \in {"mallocRet", "wrapRet"} /\ call[u].ret # None
             => call[u].ret \in Held(u)
        /\ pc[u] = "wrapRet" => call[u].ret \in Held(u)
        /\ pc[u] \in {"realloc", "reallocRet"} /\ call[u].ptr # None
             => call[u].ptr \in Held(u)
        /\ pc[u] = "reallocRet" /\ call[u].ret # None => call[u].ret \in Held(u)
        /\ pc[u] \in {"dealloc", "inner"} => call[u].ptr \in Held(u)
    BY DEF Held, CallShape
  <2>2. (/\ pc[u] \in {"mallocRet", "wrapRet"} /\ call[u].ret # None =>
              /\ heap[call[u].ret].family = FamilyOf(call[u].op)
              /\ heap[call[u].ret].size = call[u].size
         /\ pc[u] = "wrapRet" /\ call[u].op = "strdup" => Recorded(call[u].ret))'
    BY <2>1 DEF CallRecords, Recorded
  <2>3. (/\ pc[u] \in {"realloc", "reallocRet"} /\ call[u].ptr # None =>
              /\ heap[call[u].ptr].family = "MALLOC"
              /\ pc[u] = "realloc" \/ call[u].ret = None => Recorded(call[u].ptr)
         /\ pc[u] = "reallocRet" /\ call[u].ret # None =>
              /\ heap[call[u].ret].family = "MALLOC"
              /\ heap[call[u].ret].size = call[u].size)'
    BY <2>1 DEF CallRecords, Recorded
  <2>4. (/\ pc[u] = "dealloc" /\ Outer(u) =>
              /\ looked[u].info = None => Evicts
              /\ looked[u].info # None =>
                   /\ armed
                   /\ call[u].truth = "legal" <=>
                        alloc_family_matches_dealloc(looked[u].info.family,
                                                     call[u].dealloc)
              /\ looked[u].prev = None
         /\ pc[u] = "dealloc" /\ ~Outer(u) =>
              AfterDelete(looked[u].info, looked[u].prev))'
    BY DEF CallRecords, Outer, AfterDelete
  <2>5. (/\ pc[u] = "dealloc" =>
              \/ allocs[call[u].ptr] = looked[u].info
              \/ Evicts /\ allocs[call[u].ptr] = None
         /\ pc[u] = "dealloc" =>
              \/ freed[call[u].ptr] = looked[u].prev
              \/ Evicts /\ freed[call[u].ptr] = None
         /\ pc[u] = "inner" => AfterDelete(allocs[call[u].ptr], freed[call[u].ptr]))'
    BY <2>1 DEF CallRecords, AfterDelete
  <2>6. QED
    BY <2>2, <2>3, <2>4, <2>5 DEF CallRecords
<1>4. QED
  BY <1>1, <1>2, <1>3

(* A step of thread t that works on the addresses S.  No other call holds  *)
(* one of them;                                                            *)
Footprint(t, S) ==
  /\ Held(t) \subseteq S /\ Held(t)' \subseteq S
  /\ \A u \in Threads \ {t} : S \cap Held(u) = {}

(* nothing but t and S changes;                                            *)
Untouched(t, S) ==
  /\ \A u \in Threads \ {t} :
       /\ pc'[u] = pc[u] /\ call'[u] = call[u] /\ looked'[u] = looked[u]
       /\ pending'[u] = pending[u] /\ realloc_old'[u] = realloc_old[u]
  /\ \A a \in Addrs \ S :
       /\ heap'[a] = heap[a] /\ allocs'[a] = allocs[a] /\ freed'[a] = freed[a]
       /\ a \in owned' <=> a \in owned
  /\ armed => armed'

(* and t leaves S as the invariant wants it.                               *)
Settled(t, S) ==
  /\ \A a \in S :
       /\ a \in owned' => Live(a)' /\ Recorded(a)' /\ a \notin Held(t)'
       /\ a \in Held(t)' => Live(a)'
       /\ allocs'[a] # None => armed'
  /\ CallShape(t)' /\ CallRecords(t)' /\ RingLegal'

LEMMA ThreadStep ==
  ASSUME IInv, TypeInv', NEW t \in Threads, NEW S \in SUBSET Addrs,
         Footprint(t, S), Untouched(t, S), Settled(t, S)
  PROVE  IInv'
<1> USE DEF Footprint, Untouched, Settled
<1>1. ASSUME NEW u \in Threads, u # t
      PROVE  CallShape(u)' /\ CallRecords(u)' /\ Held(u)' = Held(u)
  <2>1. Held(u) \subseteq Addrs \ S
    BY <1>1 DEF IInv, Exclusive
  <2>2. QED
    BY <1>1, <2>1, OtherThread DEF IInv
<1>2. Exclusive'
  <2>1. \A a \in owned' : Live(a)'
    BY DEF IInv, Exclusive, TypeInv, TypeOK, Live
  <2>2. ASSUME NEW u \in Threads, NEW a \in Held(u)'
        PROVE  a \in Addrs /\ Live(a)' /\ a \notin owned'
    <3>1. CASE u = t
      BY <2>2, <3>1
    <3>2. CASE u # t
      <4>1. a \in Held(u)
        BY <1>1, <2>2, <3>2
      <4>2. a \in Addrs \ S /\ Live(a) /\ a \notin owned
        BY <3>2, <4>1 DEF IInv, Exclusive
      <4>3. QED
        BY <4>2 DEF Live
    <3>3. QED
      BY <3>1, <3>2
  <2>3. ASSUME NEW u \in Threads, NEW v \in Threads, u # v
        PROVE  Held(u)' \cap Held(v)' = {}
    <3>1. CASE u = t
      BY <1>1, <2>3, <3>1
    <3>2. CASE v = t
      BY <1>1, <2>3, <3>2
    <3>3. CASE u # t /\ v # t
      BY <1>1, <2>3, <3>3 DEF IInv, Exclusive
    <3>4. QED
      BY <3>1, <3>2, <3>3
  <2>4. QED
    BY <2>1, <2>2, <2>3 DEF Exclusive
<1>3. \A a \in owned' : Recorded(a)'
  BY DEF IInv, TypeInv, TypeOK, Recorded
<1>4. \A a \in Addrs : allocs'[a] # None => armed'
  BY DEF IInv
<1>5. QED
  BY <1>1, <1>2, <1>3, <1>4 DEF IInv

LEMMA NoneIsNoSize == \A n \in Sizes \cup {0} : n # None
<1>1. 0 # None /\ \A n \in Nat : n # None
  BY ConstantsAssumption
<1>2. QED
  BY <1>1, ConstantsAssumption

LEMMA RingStaysLegal ==
  ASSUME TypeOK, RingLegal, NEW e \in Event,
         e.type = "FREE" => RightStatus(e.truth, e.status),
         Submit(e) \/ Dropped \/ UNCHANGED ring
  PROVE  RingLegal'
<1>1. ring \in Seq(Event)
  BY DEF TypeOK
<1>2. CASE Submit(e)
  <2>1. ring' = Append(ring, e)
    BY <1>2 DEF Submit
  <2>2. /\ Len(ring') = Len(ring) + 1
        /\ \A i \in 1..Len(ring) : ring'[i] = ring[i]
        /\ ring'[Len(ring) + 1] = e
    BY <1>1, <2>1
  <2>3. QED
    BY <1>1, <2>2 DEF RingLegal
<1>3. CASE Dropped \/ UNCHANGED ring
  BY <1>3 DEF Dropped, RingLegal
<1>4. QED
  BY <1>2, <1>3

LEMMA CalmInit == Init => IInv
<1> SUFFICES ASSUME Init PROVE IInv
  OBVIOUS
<1>1. TypeInv
  BY TypeInit
<1>2. \A t \in Threads : CallShape(t) /\ CallRecords(t) /\ Held(t) = {}
  BY DEF Init, CallShape, CallRecords, Held, Busy
<1>3. Exclusive
  BY <1>2 DEF Exclusive, Init
<1>4. RingLegal
  BY DEF RingLegal, Init
<1>5. QED
  BY <1>1, <1>2, <1>3, <1>4 DEF IInv, Init

LEMMA ReturnEffect ==
  ASSUME TypeOK, RingLegal,
         NEW ret \in Addrs \cup {None}, NEW size \in Sizes \cup {None},
         NEW family \in AllocFamilies,
         record_allocation_return(Maps, ret, size, family)
  PROVE  /\ \A a \in Addrs : a # ret =>
              allocs'[a] = allocs[a] /\ freed'[a] = freed[a]
         /\ ret # None /\ (size # None \/ family # "MALLOC") =>
              /\ allocs'[ret] # None /\ allocs'[ret].family = family
              /\ allocs'[ret].size = IF size = None THEN 0 ELSE size
              /\ freed'[ret] = None
              /\ armed'
         /\ ~(ret # None /\ (size # None \/ family # "MALLOC")) =>
              allocs' = allocs /\ freed' = freed
         /\ armed => armed'
         /\ RingLegal'
<1> DEFINE info == [size |-> IF size = None THEN 0 ELSE size, family |-> family]
<1>1. info \in Block /\ info # None
  BY NoneAssumption DEF Block
<1>2. RingLegal'
  <2>1. [type |-> "MALLOC"] \in Event
    BY DEF Event
  <2>2. Submit([type |-> "MALLOC"]) \/ Dropped \/ UNCHANGED ring
    BY DEF record_allocation_return
  <2>3. QED
    BY <2>1, <2>2, RingStaysLegal
<1>3. CASE ret # None /\ (size # None \/ family # "MALLOC")
  <2>1. /\ armed' = TRUE
        /\ freed' = [freed EXCEPT ![ret] = None]
        /\ allocs' = [allocs EXCEPT ![ret] = info]
    BY <1>3 DEF record_allocation_return, Maps, Tracked, Revived
  <2>2. allocs'[ret] = info /\ \A a \in Addrs : a # ret => allocs'[a] = allocs[a]
    BY <1>3, <2>1 DEF TypeOK
  <2>3. QED
    BY <1>1, <1>2, <1>3, <2>1, <2>2 DEF TypeOK
<1>4. CASE ~(ret # None /\ (size # None \/ family # "MALLOC"))
  <2>1. armed' = armed /\ freed' = freed /\ allocs' = allocs
    BY <1>4 DEF record_allocation_return, Maps, Tracked, Revived
  <2>2. QED
    BY <1>2, <1>4, <2>1
<1>5. QED
  BY <1>3, <1>4

(* What an LRU map loses, the invariant does not promise.                  *)
LEMMA EvictStep ==
  ASSUME IInv, TypeInv', Evicts,
         UNCHANGED <<program, scratch, armed, looked, ring>>,
         \A a \in Addrs :
           allocs'[a] \in {allocs[a], None} /\ freed'[a] \in {freed[a], None}
  PROVE  IInv'
<1>1. /\ heap' = heap /\ owned' = owned /\ pc' = pc /\ call' = call
      /\ pending' = pending /\ realloc_old' = realloc_old
      /\ armed' = armed /\ looked' = looked /\ ring' = ring
  BY DEF program, scratch
<1>2. \A a \in Addrs : Recorded(a) => Recorded(a)'
  BY <1>1 DEF Recorded
<1>3. ASSUME NEW u \in Threads
      PROVE  CallShape(u)' /\ CallRecords(u)' /\ Held(u)' = Held(u)
  <2>1. CallShape(u) /\ CallRecords(u)
        /\ \A a \in Held(u) : a \in Addrs
    BY DEF IInv, Exclusive
  <2>2. CallShape(u)' /\ Held(u)' = Held(u)
    BY <1>1, <2>1 DEF CallShape, Held, Busy, Outer, IsDelete
  <2>3. /\ pc[u] = "wrapRet" => call[u].ret \in Addrs
        /\ pc[u] \in {"realloc", "reallocRet"} /\ call[u].ptr # None
             => call[u].ptr \in Addrs
        /\ pc[u] \in {"dealloc", "inner"} => call[u].ptr \in Addrs
    BY <2>1 DEF Held, CallShape
  <2>4. CallRecords(u)'
    BY <1>1, <1>2, <2>1, <2>3 DEF CallRecords, Outer, AfterDelete
  <2>5. QED
    BY <2>2, <2>4
<1>4. Exclusive'
  BY <1>1, <1>3 DEF IInv, Exclusive, Live
<1>5. \A a \in owned' : Recorded(a)'
  BY <1>1, <1>2 DEF IInv, TypeInv, TypeOK
<1>6. \A a \in Addrs : allocs'[a] # None => armed'
  BY <1>1 DEF IInv
<1>7. RingLegal'
  BY <1>1 DEF IInv, RingLegal
<1>8. QED
  BY <1>3, <1>4, <1>5, <1>6, <1>7 DEF IInv

(* One step per action; each has to justify only its own thread.           *)
LEMMA CalmStep == Calm /\ IInv /\ [Next]_vars => IInv'
<1> SUFFICES ASSUME Calm, IInv, [Next]_vars PROVE IInv'
  OBVIOUS
<1>0. TypeInv'
  BY TypeStep DEF IInv
<1>a. TypeInv /\ TypeOK /\ RingLegal
  BY DEF IInv, TypeInv
<1>b. ASSUME UNCHANGED ring PROVE RingLegal'
  BY <1>a, <1>b DEF RingLegal
<1>1. ASSUME NEW t \in Threads, NEW op \in AllocCalls, NEW n \in Sizes,
             CallAlloc(t, op, n)
      PROVE  IInv'
  <2>1. Held(t) = {} /\ Held(t)' = {}
    BY <1>1, <1>a DEF CallAlloc, Held, TypeOK
  <2>2. CallShape(t) /\ CallRecords(t)
    BY DEF IInv
  <2>3. /\ pc'[t] = "malloc" /\ pending'[t] = n
        /\ call'[t] = [op |-> op, ptr |-> None, ret |-> None, size |-> n,
                       dealloc |-> "FREE", truth |-> "legal"]
        /\ realloc_old'[t] = None
    BY <1>1, <1>a, <2>2 DEF CallAlloc, TypeOK, CallShape
  <2>4. CallShape(t)' /\ CallRecords(t)'
    BY <2>3, <1>1 DEF CallShape, CallRecords, Busy
  <2>5. RingLegal'
    BY <1>1, <1>b DEF CallAlloc
  <2>6. Footprint(t, {}) /\ Settled(t, {})
    BY <2>1, <2>4, <2>5 DEF Footprint, Settled
  <2>7. Untouched(t, {})
    BY <1>1, <1>a DEF CallAlloc, TypeOK, Untouched, tracking
  <2>8. QED
    BY <1>0, <2>6, <2>7, ThreadStep
<1>4. ASSUME NEW t \in Threads, LibcAlloc(t) PROVE IInv'
  <2>1. CallShape(t) /\ CallRecords(t) /\ call[t] \in Call
    BY <1>4, <1>a DEF IInv, LibcAlloc, TypeOK, TypeInv
  <2>2. Held(t) = {}
    BY <1>4 DEF LibcAlloc, Held
  <2>3. RingLegal'
    BY <1>4, <1>b DEF LibcAlloc
  <2>4. CASE UNCHANGED <<heap, call>>
    <3>0. /\ pc'[t] = "mallocRet" /\ call'[t] = call[t]
          /\ pending'[t] = pending[t] /\ realloc_old'[t] = realloc_old[t]
          /\ call[t].ret = None
      BY <1>4, <1>a, <2>1, <2>4, NoneAssumption
         DEF LibcAlloc, CallShape, TypeOK, scratch
    <3>1. CallShape(t)' /\ CallRecords(t)' /\ Held(t)' = {}
      BY <1>4, <2>1, <3>0 DEF LibcAlloc, CallShape, CallRecords, Held, Busy
    <3>2. Footprint(t, {}) /\ Settled(t, {})
      BY <2>2, <2>3, <3>1 DEF Footprint, Settled
    <3>3. Untouched(t, {})
      BY <1>4, <1>a, <2>4 DEF LibcAlloc, TypeOK, Untouched, scratch, tracking
    <3>4. QED
      BY <1>0, <3>2, <3>3, ThreadStep
  <2>5. ASSUME NEW a \in Addrs, ~Live(a),
               heap' = [heap EXCEPT ![a] =
                 LiveCell(call[t].size, FamilyOf(call[t].op))],
               call' = [call EXCEPT ![t].ret = a]
        PROVE  IInv'
    <3>1. /\ pc'[t] = "mallocRet" /\ pending'[t] = pending[t]
          /\ realloc_old'[t] = realloc_old[t]
          /\ call'[t] = [call[t] EXCEPT !.ret = a]
          /\ heap'[a] = LiveCell(call[t].size, FamilyOf(call[t].op))
      BY <1>4, <1>a, <2>1, <2>5, NoneAssumption DEF LibcAlloc, TypeOK, scratch
    <3>2. /\ call'[t].op = call[t].op /\ call'[t].ret = a
          /\ call'[t].size = call[t].size /\ call'[t].truth = call[t].truth
      BY <2>1, <3>1 DEF Call
    <3>3. CallShape(t)'
      BY <1>4, <2>1, <3>1, <3>2 DEF LibcAlloc, CallShape, Busy
    <3>4. CallRecords(t)'
      BY <3>1, <3>2 DEF CallRecords, LiveCell
    <3>5. Held(t)' = {a}
      BY <3>1, <3>2, ConstantsAssumption DEF Held
    <3>6. \A u \in Threads \ {t} : {a} \cap Held(u) = {}
      BY <2>5 DEF IInv, Exclusive
    <3>7. a \notin owned
      BY <2>5 DEF IInv, Exclusive
    <3>8. Live(a)'
      BY <3>1 DEF Live, LiveCell
    <3>9. Footprint(t, {a})
      BY <2>2, <3>5, <3>6 DEF Footprint
    <3>10. Settled(t, {a})
      BY <1>4, <1>a, <2>3, <3>3, <3>4, <3>7, <3>8 DEF LibcAlloc, Settled, tracking, IInv
    <3>11. Untouched(t, {a})
      BY <1>4, <1>a, <2>5 DEF LibcAlloc, TypeOK, Untouched, scratch, tracking
    <3>12. QED
      BY <1>0, <3>9, <3>10, <3>11, ThreadStep
  <2>6. QED
    BY <1>4, <2>4, <2>5 DEF LibcAlloc
<1>2. ASSUME NEW t \in Threads, NEW p \in Addrs \cup {None}, NEW n \in Sizes,
             CallRealloc(t, p, n)
      PROVE  IInv'
  <2> DEFINE S == {p} \ {None}
  <2>1. CallShape(t) /\ Held(t) = {}
    BY <1>2 DEF IInv, CallRealloc, Held
  <2>2. /\ pc'[t] = "realloc" /\ pending'[t] = n
        /\ call'[t] = [op |-> "realloc", ptr |-> p, ret |-> None, size |-> n,
                       dealloc |-> "FREE", truth |-> "legal"]
        /\ realloc_old'[t] = p
        /\ p # None => n # 0
    BY <1>2, <1>a, <2>1 DEF CallRealloc, TypeOK, CallShape, Calm
  <2>3. p # None => /\ p \in Addrs /\ p \in owned /\ p \notin owned'
                    /\ Live(p) /\ Recorded(p) /\ heap[p].family = "MALLOC"
    BY <1>2 DEF CallRealloc, IInv, Exclusive
  <2>4. heap' = heap /\ allocs' = allocs /\ freed' = freed /\ armed' = armed
        /\ ring' = ring
    BY <1>2 DEF CallRealloc, tracking
  <2>5. CallShape(t)'
    BY <2>2 DEF CallShape, Busy
  <2>6. CallRecords(t)'
    BY <2>2, <2>3, <2>4 DEF CallRecords, Recorded
  <2>7. Held(t)' = S
    BY <2>2 DEF Held
  <2>8. \A u \in Threads \ {t} : S \cap Held(u) = {}
    BY <2>3 DEF IInv, Exclusive
  <2>9. S \in SUBSET Addrs /\ Footprint(t, S)
    BY <2>1, <2>3, <2>7, <2>8 DEF Footprint
  <2>10. Settled(t, S)
    BY <1>a, <1>b, <2>3, <2>4, <2>5, <2>6 DEF Settled, Live, IInv
  <2>11. Untouched(t, S)
    BY <1>2, <1>a, <2>4, ConstantsAssumption DEF CallRealloc, TypeOK, Untouched
  <2>12. QED
    BY <1>0, <2>9, <2>10, <2>11, ThreadStep
<1>3. ASSUME NEW t \in Threads, NEW op \in ReleaseCalls, NEW p \in Addrs,
             CallRelease(t, op, p)
      PROVE  IInv'
  <2>1. CallShape(t) /\ Held(t) = {}
    BY <1>3 DEF IInv, CallRelease, Held
  <2>2. /\ p \in owned /\ Truth(op, p) \in {"legal", "mismatch"}
        /\ Truth(op, p) = "legal" <=>
             alloc_family_matches_dealloc(heap[p].family, DeallocOf(op))
    <3>1. p \in owned
      BY <1>3 DEF CallRelease, MayRelease, Truth, Calm
    <3>2. ~(heap[p].state = "unborn")
      BY <3>1 DEF IInv, Exclusive, Live
    <3>3. QED
      BY <3>1, <3>2, Zenon DEF Truth
  <2>3. p \notin owned' /\ Live(p) /\ Recorded(p) /\ (allocs[p] # None => armed)
    BY <1>3, <2>2 DEF CallRelease, IInv, Exclusive
  <2>4. /\ pc'[t] = "dealloc" /\ realloc_old'[t] = None
        /\ call'[t] = [op |-> op, ptr |-> p, ret |-> None, size |-> 0,
                       dealloc |-> DeallocOf(op), truth |-> Truth(op, p)]
        /\ looked'[t] = [info |-> allocs[p], prev |-> freed[p]]
    BY <1>3, <1>a, <2>1, <2>2 DEF CallRelease, TypeOK, CallShape, scratch
  <2>5. heap' = heap /\ allocs' = allocs /\ freed' = freed /\ armed' = armed
        /\ ring' = ring
    BY <1>3 DEF CallRelease, tracking
  <2>6. CallShape(t)'
    BY <1>3, <2>2, <2>4 DEF CallRelease, CallShape, Busy, Outer, IsDelete
  <2>7. CallRecords(t)'
    BY <2>2, <2>3, <2>4, <2>5 DEF CallRecords, Recorded, Outer
  <2>8. Held(t)' = {p}
    BY <2>4 DEF Held
  <2>9. Footprint(t, {p})
    BY <2>1, <2>2, <2>8 DEF Footprint, IInv, Exclusive
  <2>10. Settled(t, {p})
    BY <1>a, <1>b, <2>3, <2>5, <2>6, <2>7 DEF Settled, Live, IInv
  <2>11. Untouched(t, {p})
    BY <1>3, <1>a, <2>5 DEF CallRelease, TypeOK, Untouched, scratch
  <2>12. QED
    BY <1>0, <2>9, <2>10, <2>11, ThreadStep
<1>5. ASSUME NEW t \in Threads, MallocExit(t) PROVE IInv'
  <2> DEFINE a == call[t].ret
             S == {a} \ {None}
  <2>1. CallShape(t) /\ CallRecords(t) /\ call[t] \in Call /\ call[t] # None
        /\ pc[t] = "mallocRet"
    BY <1>5, <1>a DEF IInv, MallocExit, TypeOK, TypeInv
  <2>2. a \in Addrs \cup {None} /\ Held(t) = S /\ call[t].op \in AllocCalls
        /\ pending[t] = call[t].size /\ pending[t] # None
        /\ pending[t] \in Sizes \cup {None} /\ realloc_old[t] = None
    <3>1. call[t].size # None
      <4>1. call[t].size \in Sizes \cup {0}
        BY <2>1 DEF Call
      <4>2. QED
        BY <4>1, NoneIsNoSize
    <3>2. QED
      BY <1>a, <2>1, <3>1 DEF Held, CallShape, Call, TypeOK
  <2>3. \A b \in S : b \in Addrs /\ Live(b) /\ b \notin owned
                     /\ heap[b].family = FamilyOf(call[t].op)
                     /\ heap[b].size = call[t].size
    BY <2>1, <2>2 DEF IInv, Exclusive, CallRecords
  <2>4. /\ \A b \in Addrs : b # a =>
             /\ allocs'[b] = allocs[b] /\ freed'[b] = freed[b]
        /\ a # None => /\ allocs'[a] # None /\ allocs'[a].family = "MALLOC"
                       /\ allocs'[a].size = call[t].size
                       /\ freed'[a] = None
                       /\ armed'
        /\ armed => armed'
        /\ RingLegal'
    BY <1>5, <1>a, <2>2, ReturnEffect DEF MallocExit, AllocFamilies
  <2>5. heap' = heap
    BY <1>5 DEF MallocExit, HandOver
  <2>6. /\ \A b \in S : b \in owned' => Recorded(b)' /\ b \notin Held(t)'
        /\ Held(t)' \subseteq S
        /\ CallShape(t)' /\ CallRecords(t)'
        /\ \A u \in Threads \ {t} : pc'[u] = pc[u] /\ call'[u] = call[u]
        /\ \A b \in Addrs \ S : b \in owned' <=> b \in owned
    <3>1. CASE HandOver(t)
      <4>1. pc'[t] = "user" /\ call'[t] = None /\ owned' = owned \cup S
            /\ realloc_old'[t] = None
        BY <1>5, <1>a, <2>2, <3>1 DEF HandOver, Return, MallocExit, TypeOK
      <4>2. a # None => FamilyOf(call[t].op) = "MALLOC"
        <5>1. CASE call[t].op = "malloc"
          BY <5>1 DEF FamilyOf
        <5>2. CASE a # None /\ call[t].op # "malloc"
          BY <1>5, <1>a, <2>1, <3>1, <4>1, <5>2 DEF MallocExit, TypeOK
        <5>3. QED
          BY <5>1, <5>2
      <4>3. CallShape(t)' /\ CallRecords(t)' /\ Held(t)' = {}
        BY <4>1 DEF CallShape, CallRecords, Held, Busy
      <4>4. \A b \in S : Recorded(b)'
        BY <2>3, <2>4, <2>5, <4>2 DEF Recorded
      <4>5. QED
        BY <1>a, <3>1, <4>1, <4>3, <4>4 DEF HandOver, Return, TypeOK
    <3>2. CASE /\ call[t].op # "malloc" /\ a # None
               /\ pc' = [pc EXCEPT ![t] = "wrapRet"]
               /\ UNCHANGED <<heap, owned, call>>
      <4>1. /\ pc'[t] = "wrapRet" /\ call'[t] = call[t]
            /\ pending'[t] = None /\ realloc_old'[t] = None
        BY <1>5, <1>a, <2>2, <3>2 DEF MallocExit, TypeOK
      <4>2. CallShape(t)'
        BY <2>1, <2>2, <3>2, <4>1 DEF CallShape, Busy
      <4>3. call[t].op = "strdup" => FamilyOf(call[t].op) = "MALLOC"
        BY DEF FamilyOf
      <4>4. CallRecords(t)'
        BY <2>2, <2>3, <2>4, <2>5, <3>2, <4>1, <4>3 DEF CallRecords, Recorded
      <4>5. Held(t)' = S
        BY <4>1 DEF Held
      <4>6. QED
        BY <1>a, <2>3, <3>2, <4>2, <4>4, <4>5 DEF TypeOK
    <3>3. QED
      BY <1>5, <3>1, <3>2 DEF MallocExit
  <2>7. S \in SUBSET Addrs /\ Footprint(t, S)
    <3>1. \A u \in Threads \ {t} : S \cap Held(u) = {}
      BY <2>2 DEF IInv, Exclusive
    <3>2. QED
      BY <2>2, <2>6, <3>1 DEF Footprint
  <2>8. Settled(t, S)
    BY <2>3, <2>4, <2>5, <2>6 DEF Settled, Live
  <2>9. Untouched(t, S)
    BY <1>5, <1>a, <2>2, <2>4, <2>5, <2>6, ConstantsAssumption
       DEF MallocExit, TypeOK, Untouched
  <2>10. QED
    BY <1>0, <2>7, <2>8, <2>9, ThreadStep
<1>6. ASSUME NEW t \in Threads, WrapperExit(t) PROVE IInv'
  <2> DEFINE a == call[t].ret
  <2>1. CallShape(t) /\ CallRecords(t) /\ call[t] \in Call /\ pc[t] = "wrapRet"
    BY <1>6, <1>a DEF IInv, WrapperExit, TypeOK, TypeInv
  <2>2. /\ a \in Addrs /\ a # None /\ Held(t) = {a}
        /\ pending[t] = None /\ realloc_old[t] = None
    BY <2>1 DEF Held, CallShape, Call
  <2>3. /\ Live(a) /\ heap[a].family = FamilyOf(call[t].op)
        /\ call[t].op = "strdup" => Recorded(a)
        /\ \A u \in Threads \ {t} : {a} \cap Held(u) = {}
    BY <2>1, <2>2 DEF IInv, Exclusive, CallRecords
  <2>4. FamilyOf(call[t].op) \in AllocFamilies
        /\ (FamilyOf(call[t].op) = "MALLOC" => call[t].op = "strdup")
    BY <2>1 DEF FamilyOf, AllocFamilies, CallShape, AllocCalls
  <2>5. record_allocation_return(Maps, a, None, FamilyOf(call[t].op))
    BY <1>6, <2>2 DEF WrapperExit
  <2>6. /\ \A b \in Addrs : b # a =>
             /\ allocs'[b] = allocs[b] /\ freed'[b] = freed[b]
        /\ FamilyOf(call[t].op) # "MALLOC" =>
             /\ allocs'[a] # None /\ allocs'[a].family = FamilyOf(call[t].op)
             /\ allocs'[a].size = 0 /\ freed'[a] = None
             /\ armed'
        /\ FamilyOf(call[t].op) = "MALLOC" => allocs' = allocs /\ freed' = freed
        /\ armed => armed'
        /\ RingLegal'
    <3>1. a \in Addrs \cup {None} /\ None \in Sizes \cup {None}
      BY <2>2
    <3>2. /\ \A b \in Addrs : b # a =>
                allocs'[b] = allocs[b] /\ freed'[b] = freed[b]
          /\ a # None /\ (None # None \/ FamilyOf(call[t].op) # "MALLOC") =>
                /\ allocs'[a] # None /\ allocs'[a].family = FamilyOf(call[t].op)
                /\ allocs'[a].size = IF None = None THEN 0 ELSE None
                /\ freed'[a] = None
                /\ armed'
          /\ ~(a # None /\ (None # None \/ FamilyOf(call[t].op) # "MALLOC")) =>
                allocs' = allocs /\ freed' = freed
          /\ armed => armed'
          /\ RingLegal'
      BY <1>a, <2>4, <2>5, <3>1, ReturnEffect, Zenon
    <3>3. QED
      BY <2>2, <3>2
  <2>7. /\ heap' = heap /\ owned' = owned \cup {a}
        /\ pc'[t] = "user" /\ call'[t] = None /\ realloc_old'[t] = None
    BY <1>6, <1>a, <2>2 DEF WrapperExit, HandOver, Return, TypeOK
  <2>8. CallShape(t)' /\ CallRecords(t)' /\ Held(t)' = {}
    BY <2>7 DEF CallShape, CallRecords, Held, Busy
  <2>9. \A b \in {a} : Recorded(b)' /\ Live(b)'
    BY <2>3, <2>4, <2>6, <2>7 DEF Recorded, Live
  <2>10. Footprint(t, {a})
    BY <2>2, <2>3, <2>8 DEF Footprint
  <2>11. Settled(t, {a})
    BY <2>2, <2>4, <2>6, <2>8, <2>9 DEF Settled, IInv
  <2>12. Untouched(t, {a})
    BY <1>6, <1>a, <2>6, <2>7 DEF WrapperExit, HandOver, Return, TypeOK, Untouched
  <2>13. QED
    BY <1>0, <2>2, <2>10, <2>11, <2>12, ThreadStep
<1>7. ASSUME NEW t \in Threads, LibcRealloc(t) PROVE IInv'
  <2> DEFINE p == call[t].ptr
  <2>1. CallShape(t) /\ CallRecords(t) /\ call[t] \in Call /\ call[t] # None
        /\ pc[t] = "realloc"
    BY <1>7, <1>a DEF IInv, LibcRealloc, TypeOK, TypeInv
  <2>2. /\ p \in Addrs \cup {None} /\ Held(t) = {p} \ {None}
        /\ call[t].op = "realloc" /\ call[t].ret = None
        /\ call[t].truth \in {"legal", "mismatch"}
        /\ p # None => /\ call[t].size # 0 /\ Live(p) /\ p \notin owned
                       /\ Recorded(p) /\ heap[p].family = "MALLOC"
    BY <2>1 DEF Held, CallShape, Call, IInv, Exclusive, CallRecords, Busy
  <2>3. RingLegal'
    BY <1>7, <1>b DEF LibcRealloc
  <2>4. /\ pc'[t] = "reallocRet" /\ pending'[t] = pending[t]
        /\ realloc_old'[t] = realloc_old[t]
        /\ owned' = owned /\ allocs' = allocs /\ freed' = freed /\ armed' = armed
    BY <1>7, <1>a DEF LibcRealloc, TypeOK, scratch, tracking
  <2>5. ASSUME UNCHANGED <<heap, call>> PROVE IInv'
    <3>1. Held(t)' = {p} \ {None}
      BY <2>2, <2>4, <2>5 DEF Held
    <3>2. CallShape(t)' /\ CallRecords(t)'
      BY <2>1, <2>2, <2>4, <2>5 DEF CallShape, CallRecords, Recorded, Busy
    <3>3. {p} \ {None} \in SUBSET Addrs /\ Footprint(t, {p} \ {None})
      BY <2>2, <3>1 DEF Footprint, IInv, Exclusive
    <3>4. Settled(t, {p} \ {None})
      BY <1>a, <2>2, <2>3, <2>4, <2>5, <3>2 DEF Settled, Live, IInv
    <3>5. Untouched(t, {p} \ {None})
      BY <1>7, <1>a, <2>4, <2>5 DEF LibcRealloc, TypeOK, Untouched, scratch
    <3>6. QED
      BY <1>0, <3>3, <3>4, <3>5, ThreadStep
  <2>6. ASSUME NEW a \in Addrs,
               a = p \/ (p = None /\ ~Live(a)),
               heap' = [heap EXCEPT ![a] = LiveCell(call[t].size, "MALLOC")],
               call' = [call EXCEPT ![t].ret = a]
        PROVE  IInv'
    <3>1. /\ call'[t] = [call[t] EXCEPT !.ret = a]
          /\ heap'[a] = LiveCell(call[t].size, "MALLOC")
      BY <1>a, <2>6 DEF TypeOK
    <3>2. /\ call'[t].op = "realloc" /\ call'[t].ret = a /\ call'[t].ptr = p
          /\ call'[t].size = call[t].size /\ call'[t].truth = call[t].truth
      BY <2>1, <2>2, <3>1 DEF Call
    <3>3. /\ heap'[a].family = "MALLOC" /\ heap'[a].size = call[t].size
          /\ Live(a)' /\ a # None
      BY <3>1, ConstantsAssumption DEF LiveCell, Live
    <3>4. CallShape(t)'
      BY <2>1, <2>2, <2>4, <2>6, <3>2 DEF CallShape, Busy
    <3>5. CallRecords(t)'
      BY <2>2, <2>4, <2>6, <3>2, <3>3 DEF CallRecords, Recorded
    <3>6. Held(t)' = {a}
      BY <2>4, <2>6, <3>2, <3>3 DEF Held
    <3>7. a \notin owned /\ \A u \in Threads \ {t} : {a} \cap Held(u) = {}
      BY <2>2, <2>6, <3>3 DEF IInv, Exclusive
    <3>8. Footprint(t, {a})
      BY <2>2, <2>6, <3>6, <3>7 DEF Footprint
    <3>9. Settled(t, {a})
      BY <1>a, <2>3, <2>4, <3>3, <3>4, <3>5, <3>7 DEF Settled, IInv
    <3>10. Untouched(t, {a})
      BY <1>7, <1>a, <2>4, <2>6 DEF LibcRealloc, TypeOK, Untouched, scratch
    <3>11. QED
      BY <1>0, <3>8, <3>9, <3>10, ThreadStep
  <2>7. QED
    BY <1>7, <2>2, <2>5, <2>6 DEF LibcRealloc, Calm
<1>8. ASSUME NEW t \in Threads, ReallocExit(t) PROVE IInv'
  <2> DEFINE a == call[t].ret
             p == call[t].ptr
             S == {p, a} \ {None}
  <2>1. CallShape(t) /\ CallRecords(t) /\ call[t] \in Call /\ pc[t] = "reallocRet"
    BY <1>8, <1>a DEF IInv, ReallocExit, TypeOK, TypeInv
  <2>2. /\ a \in Addrs \cup {None} /\ p \in Addrs \cup {None} /\ Held(t) = S
        /\ pending[t] = call[t].size /\ realloc_old[t] = p
        /\ p # None => call[t].size # 0 /\ a \in {p, None}
    BY <2>1 DEF Held, CallShape, Call
  <2>3. pending[t] # None /\ pending[t] \in Sizes \cup {None}
    <3>1. call[t].size \in Sizes \cup {0}
      BY <2>1 DEF Call
    <3>2. QED
      BY <1>a, <2>2, <3>1, NoneIsNoSize DEF TypeOK
  <2>4. /\ \A b \in S : b \in Addrs /\ Live(b) /\ b \notin owned
                        /\ heap[b].family = "MALLOC"
        /\ p # None /\ a = None => Recorded(p)
        /\ a # None => heap[a].size = call[t].size
    BY <2>1, <2>2 DEF IInv, Exclusive, CallRecords
  <2>5. record_allocation_return(Maps, a, pending[t], "MALLOC")
    <3>1. ReallocMarks(t) = None
      BY <2>2 DEF ReallocMarks
    <3>2. QED
      BY <1>8, <3>1 DEF ReallocExit, mark_allocation_freed
  <2>6. /\ \A b \in Addrs : b # a =>
             /\ allocs'[b] = allocs[b] /\ freed'[b] = freed[b]
        /\ a # None => /\ allocs'[a] # None /\ allocs'[a].family = "MALLOC"
                       /\ allocs'[a].size = call[t].size
                       /\ freed'[a] = None
                       /\ armed'
        /\ armed => armed'
        /\ RingLegal'
    BY <1>a, <2>2, <2>3, <2>5, ReturnEffect DEF AllocFamilies
  <2>7. /\ heap' = heap /\ pc'[t] = "user" /\ call'[t] = None
        /\ realloc_old'[t] = None
        /\ \A b \in Addrs \ S : b \in owned' <=> b \in owned
    BY <1>8, <1>a DEF ReallocExit, TakeReallocOld, Return, TypeOK
  <2>8. CallShape(t)' /\ CallRecords(t)' /\ Held(t)' = {}
    BY <2>7 DEF CallShape, CallRecords, Held, Busy
  <2>9. \A b \in S : Recorded(b)' /\ Live(b)'
    <3>1. \A b \in S : b = a => Recorded(b)'
      BY <2>2, <2>4, <2>6, <2>7 DEF Recorded
    <3>2. \A b \in S : b # a => Recorded(b)'
      BY <2>2, <2>4, <2>6, <2>7 DEF Recorded
    <3>3. QED
      BY <2>4, <2>7, <3>1, <3>2 DEF Live
  <2>10. S \in SUBSET Addrs /\ Footprint(t, S)
    BY <2>2, <2>8 DEF Footprint, IInv, Exclusive
  <2>11. Settled(t, S)
    BY <1>a, <2>2, <2>6, <2>8, <2>9 DEF Settled, IInv
  <2>12. Untouched(t, S)
    BY <1>8, <1>a, <2>2, <2>6, <2>7, ConstantsAssumption
       DEF ReallocExit, TakeReallocOld, Return, TypeOK, Untouched
  <2>13. QED
    BY <1>0, <2>10, <2>11, <2>12, ThreadStep
<1>9. ASSUME NEW t \in Threads, InnerFree(t) PROVE IInv'
  <2> DEFINE p == call[t].ptr
  <2>1. CallShape(t) /\ CallRecords(t) /\ call[t] \in Call /\ call[t] # None
        /\ pc[t] = "inner"
    BY <1>9, <1>a DEF IInv, InnerFree, TypeOK, TypeInv
  <2>2. p \in Addrs /\ Held(t) = {p} /\ Live(p) /\ p \notin owned
    BY <2>1 DEF Held, IInv, Exclusive
  <2>3. /\ pc'[t] = "dealloc" /\ realloc_old'[t] = realloc_old[t]
        /\ call'[t] = [call[t] EXCEPT !.dealloc = "FREE"]
        /\ looked'[t] = [info |-> allocs[p], prev |-> freed[p]]
        /\ heap' = heap /\ owned' = owned /\ armed' = armed
        /\ allocs' = allocs /\ freed' = freed /\ ring' = ring
    BY <1>9, <1>a DEF InnerFree, TypeOK, scratch, tracking
  <2>4. /\ call'[t].dealloc = "FREE" /\ call'[t].op = call[t].op
        /\ call'[t].ptr = p /\ call'[t].ret = call[t].ret
        /\ call'[t].truth = call[t].truth
    BY <2>1, <2>3 DEF Call
  <2>5. CallShape(t)'
    BY <2>1, <2>3, <2>4 DEF CallShape, Busy, Outer, IsDelete
  <2>6. CallRecords(t)'
    <3>1. AfterDelete(allocs[p], freed[p]) /\ ~(Outer(t)')
      BY <2>1, <2>4 DEF CallRecords, CallShape, Outer, IsDelete, DeallocOf
    <3>2. QED
      BY <2>3, <3>1 DEF CallRecords
  <2>7. Held(t)' = {p}
    BY <2>3, <2>4 DEF Held
  <2>8. Footprint(t, {p})
    BY <2>2, <2>7 DEF Footprint, IInv, Exclusive
  <2>9. Settled(t, {p})
    BY <1>a, <1>b, <2>2, <2>3, <2>5, <2>6 DEF Settled, Live, IInv
  <2>10. Untouched(t, {p})
    BY <1>9, <1>a, <2>3 DEF InnerFree, TypeOK, Untouched, scratch
  <2>11. QED
    BY <1>0, <2>2, <2>8, <2>9, <2>10, ThreadStep
<1>10. ASSUME NEW t \in Threads, ReleaseProbe(t) PROVE IInv'
  <2> DEFINE p == call[t].ptr
             d == call[t].dealloc
             l == looked[t]
  <2>1. CallShape(t) /\ CallRecords(t) /\ call[t] \in Call /\ call[t] # None
        /\ pc[t] = "dealloc"
    BY <1>10, <1>a DEF IInv, ReleaseProbe, TypeOK, TypeInv
  <2>2. /\ p \in Addrs /\ Held(t) = {p} /\ Live(p) /\ p \notin owned
        /\ \A u \in Threads \ {t} : {p} \cap Held(u) = {}
        /\ l.info \in Block \cup {None} /\ d \in DeallocFamilies
        /\ call[t].op \in Calls \cap ReleaseCalls
        /\ call[t].truth \in {"legal", "mismatch"}
        /\ Outer(t) \/ (IsDelete(t) /\ d = "FREE")
        /\ d \in {"DELETE", "DELETE_ARRAY"} => IsDelete(t) /\ Outer(t)
    <3>1. p \in Addrs /\ Held(t) = {p} /\ Live(p) /\ p \notin owned
          /\ \A u \in Threads \ {t} : {p} \cap Held(u) = {}
      BY <2>1 DEF Held, IInv, Exclusive
    <3>2. /\ call[t].op \in Calls \cap ReleaseCalls
          /\ call[t].truth \in {"legal", "mismatch"}
          /\ Outer(t) \/ (IsDelete(t) /\ d = "FREE")
      BY <2>1 DEF CallShape, Busy
    <3>3. d \in {"DELETE", "DELETE_ARRAY"} => IsDelete(t) /\ Outer(t)
      BY <3>2 DEF Outer, IsDelete, DeallocOf
    <3>4. l.info \in Block \cup {None} /\ d \in DeallocFamilies
      BY <1>a, <2>1 DEF TypeOK, Call
    <3>5. QED
      BY <3>1, <3>2, <3>3, <3>4
  <2>3. /\ heap' = heap /\ owned' = owned /\ call' = call
        /\ realloc_old' = realloc_old
        /\ pc'[t] = (IF d = "FREE" THEN "release" ELSE "inner")
    BY <1>10, <1>a DEF ReleaseProbe, TypeOK, scratch
  <2>4. CallShape(t)'
    BY <2>1, <2>2, <2>3 DEF CallShape, Busy, Outer, IsDelete, DeallocFamilies
  <2>5. Held(t)' = {p}
    BY <2>3 DEF Held
  <2>6. /\ \A b \in Addrs \ {p} :
             /\ allocs'[b] = allocs[b] /\ freed'[b] = freed[b]
        /\ allocs'[p] # None => allocs[p] # None
        /\ armed' = armed
        /\ RingLegal'
        /\ d # "FREE" => AfterDelete(allocs'[p], freed'[p])
    <3> DEFINE status == FreeStatus(l.info, l.prev, d)
               e == [type |-> "FREE", status |-> status, truth |-> call[t].truth,
                     family |-> FreeFamily(l.info, l.prev), dealloc |-> d]
    <3>1. /\ allocs[p] = l.info \/ (Evicts /\ allocs[p] = None)
          /\ freed[p] = l.prev \/ (Evicts /\ freed[p] = None)
      BY <2>1 DEF CallRecords
    <3>2. e \in Event
      <4>1. l.prev \in FreedBlock \cup {None}
        BY <1>a DEF TypeOK
      <4>2. FreeFamily(l.info, l.prev) \in AllocFamilies \cup {"UNKNOWN"}
        BY <2>2, <4>1 DEF FreeFamily, Block, FreedBlock
      <4>3. status \in Statuses /\ call[t].truth \in Truths
        BY <2>2 DEF FreeStatus, Statuses, Truths
      <4>4. QED
        BY <2>2, <4>2, <4>3 DEF Event
    <3>3. CASE /\ UNCHANGED tracking /\ RingLegal'
               /\ d # "FREE" => AfterDelete(allocs[p], freed[p])
      BY <1>a, <2>2, <3>3 DEF tracking
    <3>4. CASE Outer(t)
      <4>1. /\ l.prev = None
            /\ l.info = None => Evicts
            /\ l.info # None =>
                 /\ armed
                 /\ call[t].truth = "legal" <=>
                      alloc_family_matches_dealloc(l.info.family, d)
        BY <2>1, <3>4 DEF CallRecords
      <4>2. /\ RightStatus(call[t].truth, status)
            /\ status = "OK" => armed
            /\ ReportRelease(t)
        BY <1>10, <4>1 DEF RightStatus, FreeStatus, Swallowed, ReleaseProbe,
                           SkipAfterDelete
      <4>3. CASE Dropped /\ UNCHANGED tracking
        <5>1. ~KeepsUp /\ ring' = ring
          BY <4>3 DEF Dropped
        <5>2. d = "FREE"
          BY <2>2, <5>1 DEF Calm, IsDelete, DeallocFamilies
        <5>3. QED
          BY <1>b, <3>3, <4>3, <5>1, <5>2
      <4>4. CASE Submit(e) /\ l.info = None /\ UNCHANGED tracking
        <5>1. RingLegal'
          BY <1>a, <3>2, <4>2, <4>4, RingStaysLegal
        <5>2. AfterDelete(allocs[p], freed[p])
          BY <3>1, <4>1, <4>4 DEF AfterDelete
        <5>3. QED
          BY <3>3, <4>4, <5>1, <5>2
      <4>5. CASE /\ Submit(e) /\ l.info # None
                 /\ allocs' = [allocs EXCEPT ![p] = None]
                 /\ alloc_ranges' = RangeWithout(alloc_ranges, p, l.info)
                 /\ freed' = [freed EXCEPT ![p] =
                       [family |-> l.info.family, dealloc |-> d]]
                 /\ UNCHANGED armed
        <5>1. RingLegal'
          BY <1>a, <3>2, <4>2, <4>5, RingStaysLegal
        <5>2. [family |-> l.info.family, dealloc |-> d] # None
          BY <2>2, <4>5, NoneAssumption DEF FreedBlock, Block
        <5>3. allocs'[p] = None
              /\ freed'[p] = [family |-> l.info.family, dealloc |-> d]
          BY <1>a, <2>2, <4>5 DEF TypeOK
        <5>4. d # "FREE" => AfterDelete(allocs'[p], freed'[p])
          BY <2>2, <5>2, <5>3 DEF AfterDelete, DeallocFamilies
        <5>5. QED
          BY <1>a, <2>2, <3>1, <4>5, <5>1, <5>3, <5>4 DEF TypeOK
      <4>6. QED
        BY <4>2, <4>3, <4>4, <4>5 DEF ReportRelease
    <3>5. CASE ~Outer(t)
      <4>1. AfterDelete(l.info, l.prev) /\ d = "FREE" /\ allocs[p] = None
        BY <2>1, <2>2, <3>1, <3>5 DEF CallRecords, AfterDelete
      <4>2. CASE SkipAfterDelete(t)
        BY <1>a, <1>b, <2>2, <4>1, <4>2 DEF SkipAfterDelete, TypeOK
      <4>3. CASE ReportRelease(t)
        <5>1. status = "INVALID" /\ Evicts
          BY <4>1, <4>3 DEF AfterDelete, FreeStatus, ReportRelease, Swallowed
        <5>2. UNCHANGED tracking /\ (Submit(e) \/ Dropped)
          BY <4>1, <4>3, <5>1 DEF ReportRelease, AfterDelete
        <5>3. RingLegal'
          BY <1>a, <3>2, <5>1, <5>2, RingStaysLegal DEF RightStatus
        <5>4. QED
          BY <3>3, <4>1, <5>2, <5>3
      <4>4. QED
        BY <1>10, <4>2, <4>3 DEF ReleaseProbe
    <3>6. QED
      BY <3>4, <3>5
  <2>7. CallRecords(t)'
    BY <2>3, <2>6 DEF CallRecords
  <2>8. Footprint(t, {p})
    BY <2>2, <2>5 DEF Footprint
  <2>9. Settled(t, {p})
    BY <2>2, <2>3, <2>4, <2>6, <2>7 DEF Settled, Live, IInv
  <2>10. Untouched(t, {p})
    BY <1>10, <1>a, <2>3, <2>6 DEF ReleaseProbe, TypeOK, Untouched, scratch
  <2>11. QED
    BY <1>0, <2>2, <2>8, <2>9, <2>10, ThreadStep
<1>11. ASSUME NEW t \in Threads, LibcFree(t) PROVE IInv'
  <2> DEFINE p == call[t].ptr
  <2>1. CallShape(t) /\ pc[t] = "release" /\ p \in Addrs
    BY <1>11, <1>a DEF IInv, LibcFree, TypeInv
  <2>2. Held(t) = {p} /\ p \notin owned
        /\ \A u \in Threads \ {t} : {p} \cap Held(u) = {}
    BY <2>1 DEF Held, IInv, Exclusive
  <2>3. /\ pc'[t] = "user" /\ call'[t] = None /\ realloc_old'[t] = None
        /\ owned' = owned /\ allocs' = allocs /\ freed' = freed /\ armed' = armed
        /\ ring' = ring
    BY <1>11, <1>a, <2>1 DEF LibcFree, Return, TypeOK, scratch, tracking, CallShape
  <2>4. CallShape(t)' /\ CallRecords(t)' /\ Held(t)' = {}
    BY <2>3 DEF CallShape, CallRecords, Held, Busy
  <2>5. Footprint(t, {p})
    BY <2>2, <2>4 DEF Footprint
  <2>6. Settled(t, {p})
    BY <1>a, <1>b, <2>1, <2>2, <2>3, <2>4 DEF Settled, IInv
  <2>7. Untouched(t, {p})
    BY <1>11, <1>a, <2>3 DEF LibcFree, Return, TypeOK, Untouched, scratch
  <2>8. QED
    BY <1>0, <2>1, <2>5, <2>6, <2>7, ThreadStep
<1>12. ASSUME RingLegal', UNCHANGED <<program, scratch, tracking, looked>>
       PROVE  IInv'
  <2>1. /\ heap' = heap /\ owned' = owned /\ pc' = pc /\ call' = call
        /\ pending' = pending /\ realloc_old' = realloc_old
        /\ allocs' = allocs /\ freed' = freed /\ armed' = armed
        /\ looked' = looked
    BY <1>12 DEF program, scratch, tracking
  <2>2. \A u \in Threads : CallShape(u)' /\ CallRecords(u)' /\ Held(u)' = Held(u)
    BY <1>a, <2>1, OtherThread DEF IInv
  <2>3. Exclusive'
    BY <2>1, <2>2 DEF IInv, Exclusive, Live
  <2>4. \A a \in owned' : Recorded(a)'
    BY <2>1 DEF IInv, Recorded
  <2>5. QED
    BY <1>0, <1>a, <1>12, <2>1, <2>2, <2>3, <2>4 DEF IInv
<1>13. ASSUME Consume PROVE IInv'
  <2>1. ring \in Seq(Event) /\ ring # <<>> /\ ring' = Tail(ring)
    BY <1>13, <1>a DEF Consume, TypeOK
  <2>2. /\ Len(ring') = Len(ring) - 1
        /\ \A i \in 1..Len(ring') : i + 1 \in 1..Len(ring) /\ ring'[i] = ring[i + 1]
    BY <2>1
  <2>3. RingLegal'
    BY <1>a, <2>2 DEF RingLegal
  <2>4. QED
    BY <1>12, <1>13, <2>3 DEF Consume
<1>14. ASSUME UNCHANGED vars PROVE IInv'
  BY <1>12, <1>14, <1>b DEF vars
<1>15. ASSUME \/ \E a \in Addrs : EvictAlloc(a) \/ EvictFreed(a)
              \/ \E p \in Pages : EvictRange(p)
       PROVE  IInv'
  <2>1. /\ Evicts /\ UNCHANGED <<program, scratch, armed, looked, ring>>
        /\ \A b \in Addrs : /\ allocs'[b] \in {allocs[b], None}
                            /\ freed'[b] \in {freed[b], None}
    BY <1>15, <1>a DEF EvictAlloc, EvictRange, EvictFreed, TypeOK
  <2>2. QED
    BY <1>0, <2>1, EvictStep
<1>16. QED
  BY <1>1, <1>2, <1>3, <1>4, <1>5, <1>6, <1>7, <1>8, <1>9, <1>10, <1>11,
     <1>13, <1>14, <1>15 DEF Next

LEMMA CalmCorrect == Calm => (Spec => []IInv)
<1> SUFFICES ASSUME Calm PROVE Spec => []IInv
  OBVIOUS
<1>1. IInv /\ [Next]_vars => IInv'
  BY CalmStep
<1>2. QED
  BY <1>1, CalmInit, PTL DEF Spec

(* Every block in the program's hands has a record of its own family.      *)
THEOREM EveryBlockTracked == Calm /\ ~Evicts => (Spec => []OwnedTracked)
<1> SUFFICES ASSUME Calm, ~Evicts PROVE Spec => []OwnedTracked
  OBVIOUS
<1>1. IInv => OwnedTracked
  BY DEF IInv, Recorded, OwnedTracked
<1>2. QED
  BY <1>1, CalmCorrect, PTL

(* Even when the ring drops events and the maps evict records, a legal     *)
(* release is at worst unknown: no record of an earlier owner of its       *)
(* address is left for it to be confused with.                             *)
THEOREM LossNeverBlames == Calm => (Spec => []NeverBlamedOnAnother)
<1> SUFFICES ASSUME Calm PROVE Spec => []NeverBlamedOnAnother
  OBVIOUS
<1>1. IInv => NeverBlamedOnAnother
  BY DEF IInv, RingLegal, RightStatus, NeverBlamedOnAnother, FreeEvents
<1>2. QED
  BY <1>1, CalmCorrect, PTL

----------------------------------------------------------------------------
(* Steps, one at a time: what a single probe does.                         *)

(* A thread leaves a probe by that probe's own step only.                  *)
LEMMA OwnProbe ==
  ASSUME TypeInv, [Next]_vars, NEW t \in Threads
  PROVE  /\ pc[t] = "dealloc" /\ pc'[t] # "dealloc" => ReleaseProbe(t)
         /\ pc[t] = "reallocRet" /\ pc'[t] # "reallocRet" => ReallocExit(t)
<1> USE DEF TypeInv, TypeOK
<1>1. ASSUME NEW u \in Threads, NEW op \in AllocCalls, NEW n \in Sizes,
             CallAlloc(u, op, n)
      PROVE  pc'[t] = pc[t] \/ pc[t] = "user"
  BY <1>1 DEF CallAlloc
<1>2. ASSUME NEW u \in Threads, NEW p \in Addrs \cup {None}, NEW n \in Sizes,
             CallRealloc(u, p, n)
      PROVE  pc'[t] = pc[t] \/ pc[t] = "user"
  BY <1>2 DEF CallRealloc
<1>3. ASSUME NEW u \in Threads, NEW op \in ReleaseCalls, NEW p \in Addrs,
             CallRelease(u, op, p)
      PROVE  pc'[t] = pc[t] \/ pc[t] = "user"
  BY <1>3 DEF CallRelease
<1>4. ASSUME NEW u \in Threads,
             LibcAlloc(u) \/ MallocExit(u) \/ WrapperExit(u) \/ LibcRealloc(u)
               \/ InnerFree(u) \/ LibcFree(u)
      PROVE  pc'[t] = pc[t] \/ pc[t] \notin {"dealloc", "reallocRet"}
  BY <1>4 DEF LibcAlloc, MallocExit, WrapperExit, LibcRealloc, InnerFree, LibcFree,
              HandOver, Return
<1>5. ASSUME NEW u \in Threads, ReallocExit(u)
      PROVE  pc'[t] = pc[t] \/ (u = t /\ pc[t] = "reallocRet")
  BY <1>5 DEF ReallocExit, Return
<1>6. ASSUME NEW u \in Threads, ReleaseProbe(u)
      PROVE  pc'[t] = pc[t] \/ (u = t /\ pc[t] = "dealloc")
  BY <1>6 DEF ReleaseProbe
<1>7. ASSUME \/ Consume
             \/ UNCHANGED vars
             \/ \E a \in Addrs : EvictAlloc(a) \/ EvictFreed(a)
             \/ \E p \in Pages : EvictRange(p)
      PROVE  pc'[t] = pc[t]
  BY <1>7 DEF Consume, vars, program, EvictAlloc, EvictRange, EvictFreed
<1>8. QED
  BY <1>1, <1>2, <1>3, <1>4, <1>5, <1>6, <1>7 DEF Next

(* A probe that finds a status other than OK submits an event with it.     *)
LEMMA ProbeAnswers ==
  ASSUME TypeInv, KeepsUp, NEW t \in Threads, ReleaseProbe(t), NEW status,
         FreeStatus(looked[t].info, looked[t].prev, call[t].dealloc) = status,
         status # "OK", ~Swallowed(looked[t].info, looked[t].prev)
  PROVE  ring' # ring /\ ring'[Len(ring')].status = status
<1> DEFINE e == [type |-> "FREE", status |-> status, truth |-> call[t].truth,
                 family |-> FreeFamily(looked[t].info, looked[t].prev),
                 dealloc |-> call[t].dealloc]
<1>1. ReportRelease(t)
  BY DEF ReleaseProbe, SkipAfterDelete
<1>2. Submit(e)
  BY <1>1 DEF ReportRelease, Dropped
<1>3. ring \in Seq(Event) /\ ring' = Append(ring, e)
  BY <1>2 DEF Submit, TypeInv, TypeOK
<1>4. Len(ring') = Len(ring) + 1 /\ ring'[Len(ring) + 1] = e /\ Len(ring) \in Nat
  BY <1>3
<1>5. QED
  BY <1>4

LEMMA MismatchStep ==
  ASSUME Calm, ~Evicts, KeepsUp, IInv, [Next]_vars
  PROVE  MismatchAnswered
<1> SUFFICES ASSUME NEW t \in Threads, pc[t] = "dealloc", pc'[t] # "dealloc",
                    call[t].truth = "mismatch",
                    call[t].dealloc = DeallocOf(call[t].op)
             PROVE  ring' # ring /\ ring'[Len(ring')].status = "MISMATCH"
  BY DEF MismatchAnswered, Answers
<1>1. ReleaseProbe(t) /\ TypeInv /\ CallRecords(t)
  BY OwnProbe DEF IInv
<1>2. /\ looked[t].info # None
      /\ ~alloc_family_matches_dealloc(looked[t].info.family, call[t].dealloc)
  BY <1>1 DEF CallRecords, Outer
<1>3. FreeStatus(looked[t].info, looked[t].prev, call[t].dealloc) = "MISMATCH"
      /\ ~Swallowed(looked[t].info, looked[t].prev)
  BY <1>2 DEF FreeStatus, Swallowed
<1>4. QED
  BY <1>1, <1>3, ProbeAnswers

(* Every release with the wrong function is answered with a MISMATCH event,*)
(* on any number of threads, while the agent keeps up and the maps evict   *)
(* nothing.                                                                *)
THEOREM EveryMismatchSeen ==
  Calm /\ ~Evicts /\ KeepsUp => (Spec => MismatchSeen)
<1> SUFFICES ASSUME Calm, ~Evicts, KeepsUp PROVE Spec => MismatchSeen
  OBVIOUS
<1>1. IInv /\ [Next]_vars => [MismatchAnswered]_vars
  BY MismatchStep
<1>2. QED
  BY <1>1, CalmCorrect, PTL DEF Spec, MismatchSeen

LEMMA RetireStep ==
  ASSUME Calm, IInv, [Next]_vars
  PROVE  RetiresOnlyOld
<1> SUFFICES ASSUME NEW t \in Threads, pc[t] = "reallocRet", pc'[t] = "user",
                    NEW a \in owned
             PROVE  allocs'[a] = allocs[a]
  BY DEF RetiresOnlyOld
<1>1. ReallocExit(t) /\ TypeInv /\ CallShape(t) /\ a \in Addrs
      /\ call[t] \in Call
  BY OwnProbe DEF IInv, TypeInv, TypeOK
<1>2. /\ realloc_old[t] = call[t].ptr
      /\ call[t].ptr # None => call[t].size # 0 /\ call[t].ret \in {call[t].ptr, None}
      /\ pending[t] = call[t].size
  BY <1>1 DEF CallShape
<1>3. record_allocation_return(Maps, call[t].ret, pending[t], "MALLOC")
  <2>1. ReallocMarks(t) = None
    BY <1>2 DEF ReallocMarks
  <2>2. QED
    BY <1>1, <2>1 DEF ReallocExit, mark_allocation_freed
<1>4. call[t].ret # None => call[t].ret \in Held(t)
  BY DEF Held
<1>5. a # call[t].ret
  BY <1>1, <1>4, ConstantsAssumption DEF IInv, Exclusive
<1>6. QED
  BY <1>1, <1>3, <1>5 DEF record_allocation_return, Maps, TypeInv, TypeOK

----------------------------------------------------------------------------
(* One thread that also releases what it does not own, and whose realloc   *)
(* moves and releases blocks.  Nothing runs between the probes of a call,  *)
(* so the maps lag behind libc only at the addresses of that call.         *)

Alone ==
  /\ \A s, t \in Threads : s = t
  /\ ~Evicts
  /\ KeepsUp
  /\ Calls \cap {"delete", "delete[]"} = {}

Dead(a) == heap[a].state = "dead"

(* The maps say of a what libc has there: nothing yet, a block of this     *)
(* family, or a block that was released by free or realloc.                *)
AtRest(a) ==
  /\ heap[a].state = "unborn" => allocs[a] = None /\ freed[a] = None
  /\ Live(a) => allocs[a] # None /\ allocs[a].family = heap[a].family
  /\ Dead(a) => allocs[a] = None /\ freed[a] # None /\ freed[a].dealloc = "FREE"

(* The addresses where the call in progress is ahead of the maps.          *)
Flux(t) ==
  IF pc[t] \in {"mallocRet", "wrapRet"} THEN {call[t].ret} \ {None}
  ELSE IF pc[t] = "realloc" THEN {call[t].ptr} \ {None}
  ELSE IF pc[t] = "reallocRet" THEN {call[t].ptr, call[t].ret} \ {None}
  ELSE IF pc[t] \in {"dealloc", "release"} /\ call[t].truth \in {"legal", "mismatch"}
         THEN {call[t].ptr}
  ELSE {}

AllocCall(t) ==
  /\ pc[t] \in {"malloc", "mallocRet"} =>
       call[t].op \in AllocCalls /\ pending[t] = call[t].size
  /\ pc[t] = "malloc" => call[t].ret = None
  /\ pc[t] \in {"mallocRet", "wrapRet"} /\ call[t].ret # None =>
       Live(call[t].ret) /\ heap[call[t].ret].family = FamilyOf(call[t].op)
  /\ pc[t] = "wrapRet" =>
       /\ call[t].ret # None
       /\ call[t].op \in AllocCalls \ {"malloc"} /\ pending[t] = None
       /\ allocs[call[t].ret] # None /\ allocs[call[t].ret].family = "MALLOC"

ReallocCall(t) ==
  /\ pc[t] \notin {"realloc", "reallocRet"} => realloc_old[t] = None
  /\ pc[t] \in {"realloc", "reallocRet"} =>
       /\ call[t].op = "realloc"
       /\ realloc_old[t] = call[t].ptr /\ pending[t] = call[t].size
       /\ call[t].ptr # None => allocs[call[t].ptr] # None \/ call[t].ret = call[t].ptr
  /\ pc[t] = "realloc" =>
       /\ call[t].ret = None
       /\ call[t].ptr # None =>
            /\ Live(call[t].ptr) /\ AtRest(call[t].ptr)
            /\ heap[call[t].ptr].family = "MALLOC"
  /\ pc[t] = "reallocRet" =>
       /\ call[t].ret # None =>
            Live(call[t].ret) /\ heap[call[t].ret].family = "MALLOC"
       /\ call[t].ptr # None /\ call[t].ret = None /\ call[t].size # 0 =>
            Live(call[t].ptr) /\ AtRest(call[t].ptr)
       /\ call[t].ptr # None /\ call[t].ret = None /\ call[t].size = 0 =>
            Dead(call[t].ptr)
       /\ call[t].ptr # None /\ call[t].ret \notin {None, call[t].ptr} =>
            Dead(call[t].ptr)

ReleaseCall(t) ==
  /\ pc[t] # "inner"
  /\ pc[t] \in {"dealloc", "release"} => call[t].op = "free" /\ call[t].dealloc = "FREE"
  /\ pc[t] = "dealloc" =>
       /\ looked[t].info = allocs[call[t].ptr] /\ looked[t].prev = freed[call[t].ptr]
       /\ AtRest(call[t].ptr)
       /\ call[t].truth \in {"legal", "mismatch"} => Live(call[t].ptr)
       /\ call[t].truth = "legal" => heap[call[t].ptr].family = "MALLOC"
       /\ call[t].truth = "double" => Dead(call[t].ptr)
       /\ call[t].truth = "invalid" => heap[call[t].ptr].state = "unborn"
  /\ pc[t] = "release" /\ call[t].truth \in {"legal", "mismatch"} =>
       /\ allocs[call[t].ptr] = None /\ freed[call[t].ptr] # None
       /\ freed[call[t].ptr].dealloc = "FREE"

(* Everywhere else the maps are right, and what lives is the program's.    *)
RestOfHeap(t) ==
  /\ Flux(t) \subseteq Addrs /\ Flux(t) \cap owned = {}
  /\ \A a \in Addrs \ Flux(t) : AtRest(a) /\ (Live(a) <=> a \in owned)

AInv ==
  /\ TypeInv
  /\ \A t \in Threads :
       AllocCall(t) /\ ReallocCall(t) /\ ReleaseCall(t) /\ RestOfHeap(t)
  /\ \A a \in Addrs : allocs[a] # None => armed
  /\ RingLegal

LEMMA AloneInit == Init => AInv
<1> SUFFICES ASSUME Init PROVE AInv
  OBVIOUS
<1>1. TypeInv
  BY TypeInit
<1>2. ASSUME NEW t \in Threads
      PROVE  AllocCall(t) /\ ReallocCall(t) /\ ReleaseCall(t) /\ Flux(t) = {}
  BY DEF Init, AllocCall, ReallocCall, ReleaseCall, Flux
<1>3. \A a \in Addrs : AtRest(a) /\ (Live(a) <=> a \in owned)
  BY DEF Init, AtRest, Live, Dead, Empty
<1>4. \A t \in Threads : RestOfHeap(t)
  BY <1>2, <1>3 DEF RestOfHeap
<1>5. RingLegal
  BY DEF RingLegal, Init
<1>6. QED
  BY <1>1, <1>2, <1>4, <1>5 DEF AInv, Init

(* What record_allocation_return leaves, whichever maps it starts from.    *)
LEMMA ReturnLeaves ==
  ASSUME TypeOK, RingLegal, NEW maps,
         maps.allocs \in [Addrs -> Block \cup {None}],
         maps.freed \in [Addrs -> FreedBlock \cup {None}],
         NEW ret \in Addrs \cup {None}, NEW size \in Sizes \cup {None},
         NEW family \in AllocFamilies,
         record_allocation_return(maps, ret, size, family)
  PROVE  /\ ret # None /\ (size # None \/ family # "MALLOC") =>
              /\ allocs'[ret] # None /\ allocs'[ret].family = family
              /\ armed'
         /\ \A a \in Addrs :
              a # ret \/ ~(size # None \/ family # "MALLOC") =>
                allocs'[a] = maps.allocs[a] /\ freed'[a] = maps.freed[a]
         /\ ~(ret # None /\ (size # None \/ family # "MALLOC")) => armed' = armed
         /\ RingLegal'
<1> DEFINE info == [size |-> IF size = None THEN 0 ELSE size, family |-> family]
<1>1. info # None /\ info.family = family
  BY NoneAssumption DEF Block
<1>2. RingLegal'
  <2>1. [type |-> "MALLOC"] \in Event
    BY DEF Event
  <2>2. Submit([type |-> "MALLOC"]) \/ Dropped \/ UNCHANGED ring
    BY DEF record_allocation_return
  <2>3. QED
    BY <2>1, <2>2, RingStaysLegal
<1>3. CASE ret # None /\ (size # None \/ family # "MALLOC")
  <2>1. /\ armed' = TRUE
        /\ freed' = [maps.freed EXCEPT ![ret] = None]
        /\ allocs' = [maps.allocs EXCEPT ![ret] = info]
    BY <1>3 DEF record_allocation_return, Tracked, Revived
  <2>2. QED
    BY <1>1, <1>2, <1>3, <2>1
<1>4. CASE ~(ret # None /\ (size # None \/ family # "MALLOC"))
  <2>1. allocs' = maps.allocs /\ freed' = maps.freed /\ armed' = armed
    BY <1>4 DEF record_allocation_return, Tracked
  <2>2. QED
    BY <1>2, <1>4, <2>1
<1>5. QED
  BY <1>3, <1>4

LEMMA MapsReturn ==
  ASSUME TypeOK, RingLegal,
         NEW ret \in Addrs \cup {None}, NEW size \in Sizes \cup {None},
         NEW family \in AllocFamilies,
         record_allocation_return(Maps, ret, size, family)
  PROVE  /\ ret # None /\ (size # None \/ family # "MALLOC") =>
              /\ allocs'[ret] # None /\ allocs'[ret].family = family
              /\ armed'
         /\ \A a \in Addrs :
              a # ret \/ ~(size # None \/ family # "MALLOC") =>
                allocs'[a] = allocs[a] /\ freed'[a] = freed[a]
         /\ ~(ret # None /\ (size # None \/ family # "MALLOC")) => armed' = armed
         /\ RingLegal'
<1>1. Maps.allocs = allocs /\ Maps.freed = freed
  BY DEF Maps
<1>2. /\ Maps.allocs \in [Addrs -> Block \cup {None}]
      /\ Maps.freed \in [Addrs -> FreedBlock \cup {None}]
  BY <1>1 DEF TypeOK
<1>3. /\ ret # None /\ (size # None \/ family # "MALLOC") =>
           /\ allocs'[ret] # None /\ allocs'[ret].family = family
           /\ armed'
      /\ \A a \in Addrs :
           a # ret \/ ~(size # None \/ family # "MALLOC") =>
             allocs'[a] = Maps.allocs[a] /\ freed'[a] = Maps.freed[a]
      /\ ~(ret # None /\ (size # None \/ family # "MALLOC")) => armed' = armed
      /\ RingLegal'
  BY <1>2, ReturnLeaves, Zenon
<1>4. QED
  BY <1>1, <1>3

(* The same for the probe of a wrapper, which does not know the size.      *)
LEMMA WrapperReturn ==
  ASSUME TypeOK, RingLegal, NEW ret \in Addrs, ret # None, NEW family \in AllocFamilies,
         record_allocation_return(Maps, ret, None, family)
  PROVE  /\ family # "MALLOC" =>
              /\ allocs'[ret] # None /\ allocs'[ret].family = family
              /\ armed'
         /\ \A a \in Addrs :
              a # ret \/ family = "MALLOC" => allocs'[a] = allocs[a] /\ freed'[a] = freed[a]
         /\ family = "MALLOC" => armed' = armed
         /\ RingLegal'
<1>1. ret \in Addrs \cup {None} /\ None \in Sizes \cup {None}
  OBVIOUS
<1>2. /\ ret # None /\ (None # None \/ family # "MALLOC") =>
           /\ allocs'[ret] # None /\ allocs'[ret].family = family
           /\ armed'
      /\ \A a \in Addrs :
           a # ret \/ ~(None # None \/ family # "MALLOC") =>
             allocs'[a] = allocs[a] /\ freed'[a] = freed[a]
      /\ ~(ret # None /\ (None # None \/ family # "MALLOC")) => armed' = armed
      /\ RingLegal'
  BY <1>1, MapsReturn, Zenon
<1>3. QED
  BY <1>2

(* The same after realloc has retired old: free has released it, too.      *)
LEMMA RetiringReturn ==
  ASSUME TypeOK, RingLegal, NEW old \in Addrs, allocs[old] # None,
         NEW ret \in Addrs \cup {None}, ret # old, NEW size \in Sizes,
         record_allocation_return(mark_allocation_freed(old), ret, size, "MALLOC")
  PROVE  /\ ret # None =>
              allocs'[ret] # None /\ allocs'[ret].family = "MALLOC" /\ armed'
         /\ allocs'[old] = None /\ freed'[old] # None /\ freed'[old].dealloc = "FREE"
         /\ \A a \in Addrs \ {old, ret} :
              allocs'[a] = allocs[a] /\ freed'[a] = freed[a]
         /\ ret = None => armed' = armed
         /\ RingLegal'
<1> DEFINE maps == mark_allocation_freed(old)
           record == [family |-> allocs[old].family, dealloc |-> "FREE"]
<1>1. old # None /\ size # None
  BY NoneIsNoSize, ConstantsAssumption
<1>2. /\ maps.allocs = [allocs EXCEPT ![old] = None]
      /\ maps.freed = [freed EXCEPT ![old] = record]
  BY <1>1 DEF mark_allocation_freed
<1>3. record \in FreedBlock /\ record # None
  <2>1. allocs[old] \in Block
    BY DEF TypeOK
  <2>2. record \in FreedBlock
    BY <2>1 DEF Block, FreedBlock, DeallocFamilies
  <2>3. QED
    BY <2>2, NoneAssumption
<1>4. /\ maps.allocs \in [Addrs -> Block \cup {None}]
      /\ maps.freed \in [Addrs -> FreedBlock \cup {None}]
  BY <1>2, <1>3 DEF TypeOK
<1>5. /\ maps.allocs[old] = None /\ maps.freed[old] = record
      /\ \A a \in Addrs \ {old} :
           maps.allocs[a] = allocs[a] /\ maps.freed[a] = freed[a]
  BY <1>2 DEF TypeOK
<1>6. ret # None =>
        allocs'[ret] # None /\ allocs'[ret].family = "MALLOC" /\ armed'
  BY <1>1, <1>4, ReturnLeaves DEF AllocFamilies
<1>7. \A a \in Addrs : a # ret =>
        allocs'[a] = maps.allocs[a] /\ freed'[a] = maps.freed[a]
  BY <1>1, <1>4, ReturnLeaves DEF AllocFamilies
<1>8. (ret = None => armed' = armed) /\ RingLegal'
  BY <1>1, <1>4, ReturnLeaves DEF AllocFamilies
<1>9. QED
  BY <1>3, <1>5, <1>6, <1>7, <1>8

(* One step per action; the thread that moves is the only one.             *)
LEMMA AloneStep == Alone /\ AInv /\ [Next]_vars => AInv'
<1> SUFFICES ASSUME Alone, AInv, [Next]_vars PROVE AInv'
  OBVIOUS
<1>0. TypeInv' /\ TypeInv /\ TypeOK /\ TypeOK' /\ RingLegal
  BY TypeStep DEF AInv, TypeInv
<1>a. ASSUME NEW t \in Threads,
             AllocCall(t)', ReallocCall(t)', ReleaseCall(t)', RestOfHeap(t)',
             \A a \in Addrs : allocs'[a] # None => armed', RingLegal'
      PROVE  AInv'
  <2>1. \A u \in Threads : u = t
    BY DEF Alone
  <2>2. QED
    BY <1>0, <1>a, <2>1 DEF AInv
<1>b. ASSUME UNCHANGED ring PROVE RingLegal'
  BY <1>0, <1>b DEF RingLegal
<1>c. ASSUME NEW t \in Threads
      PROVE  AllocCall(t) /\ ReallocCall(t) /\ ReleaseCall(t) /\ RestOfHeap(t)
  BY DEF AInv
<1>d. ASSUME NEW t \in Threads, pc[t] # "user" PROVE call[t] \in Call
  BY <1>0, <1>d DEF TypeInv, TypeOK
<1>e. \A a \in Addrs : allocs[a] # None => armed
  BY DEF AInv
<1>1. ASSUME NEW t \in Threads, NEW op \in AllocCalls, NEW n \in Sizes,
             CallAlloc(t, op, n)
      PROVE  AInv'
  <2>1. /\ pc'[t] = "malloc" /\ pending'[t] = n /\ realloc_old'[t] = None
        /\ call'[t] = [op |-> op, ptr |-> None, ret |-> None, size |-> n,
                       dealloc |-> "FREE", truth |-> "legal"]
        /\ UNCHANGED <<heap, owned, allocs, freed, armed, ring>>
    BY <1>0, <1>1, <1>c DEF CallAlloc, TypeOK, ReallocCall, tracking
  <2>2. Flux(t) = {} /\ Flux(t)' = {}
    BY <1>1, <2>1 DEF Flux, CallAlloc
  <2>3. AllocCall(t)' /\ ReallocCall(t)' /\ ReleaseCall(t)'
    BY <2>1 DEF AllocCall, ReallocCall, ReleaseCall
  <2>4. RestOfHeap(t)'
    BY <1>c, <2>1, <2>2 DEF RestOfHeap, AtRest, Live, Dead
  <2>5. QED
    BY <1>a, <1>b, <1>e, <2>1, <2>3, <2>4
<1>2. ASSUME NEW t \in Threads, NEW p \in Addrs \cup {None}, NEW n \in Sizes,
             CallRealloc(t, p, n)
      PROVE  AInv'
  <2>1. /\ pc[t] = "user" /\ pc'[t] = "realloc" /\ pending'[t] = n
        /\ realloc_old'[t] = p
        /\ call'[t] = [op |-> "realloc", ptr |-> p, ret |-> None, size |-> n,
                       dealloc |-> "FREE", truth |-> "legal"]
        /\ owned' = owned \ {p} /\ p \in owned \cup {None}
        /\ p # None => heap[p].family = "MALLOC"
        /\ UNCHANGED <<heap, allocs, freed, armed, ring>>
    BY <1>0, <1>2, <1>c DEF CallRealloc, TypeOK, ReallocCall, tracking
  <2>2. Flux(t) = {} /\ Flux(t)' = {p} \ {None}
    BY <2>1 DEF Flux
  <2>3. \A a \in Addrs : AtRest(a) /\ (Live(a) <=> a \in owned)
    BY <1>c, <2>2 DEF RestOfHeap
  <2>4. p # None => p \in Addrs /\ Live(p) /\ AtRest(p) /\ allocs[p] # None
    BY <2>1, <2>3 DEF AtRest
  <2>5. \A a \in Addrs : AtRest(a)' = AtRest(a) /\ Live(a)' = Live(a)
    BY <2>1 DEF AtRest, Live, Dead
  <2>6. AllocCall(t)' /\ ReallocCall(t)' /\ ReleaseCall(t)'
    <3>1. AllocCall(t)' /\ ReleaseCall(t)'
      BY <2>1 DEF AllocCall, ReleaseCall
    <3>2. p # None => Live(p)' /\ AtRest(p)'
      BY <2>4, <2>5
    <3>3. ReallocCall(t)'
      BY <2>1, <2>4, <3>2 DEF ReallocCall
    <3>4. QED
      BY <3>1, <3>3
  <2>7. RestOfHeap(t)'
    BY <2>1, <2>2, <2>3, <2>4, <2>5, ConstantsAssumption DEF RestOfHeap
  <2>8. QED
    BY <1>a, <1>b, <1>e, <2>1, <2>6, <2>7
<1>3. ASSUME NEW t \in Threads, NEW op \in ReleaseCalls, NEW p \in Addrs,
             CallRelease(t, op, p)
      PROVE  AInv'
  <2>1. /\ pc[t] = "user" /\ pc'[t] = "dealloc" /\ realloc_old'[t] = None
        /\ call'[t] = [op |-> op, ptr |-> p, ret |-> None, size |-> 0,
                       dealloc |-> DeallocOf(op), truth |-> Truth(op, p)]
        /\ looked'[t] = [info |-> allocs[p], prev |-> freed[p]]
        /\ owned' = owned \ {p} /\ MayRelease(op, p)
        /\ UNCHANGED <<heap, allocs, freed, armed, ring>>
    BY <1>0, <1>3, <1>c DEF CallRelease, TypeOK, ReallocCall, tracking, scratch
  <2>2. op = "free" /\ DeallocOf(op) = "FREE"
    BY <1>3 DEF Alone, CallRelease, ReleaseCalls, DeallocOf
  <2>3. Flux(t) = {}
    BY <2>1 DEF Flux
  <2>4. \A a \in Addrs : AtRest(a) /\ (Live(a) <=> a \in owned)
    BY <1>c, <2>3 DEF RestOfHeap
  <2>5. \A a \in Addrs : AtRest(a)' = AtRest(a) /\ Live(a)' = Live(a)
    BY <2>1 DEF AtRest, Live, Dead
  <2>6. heap[p] \in Cell
    BY <1>0 DEF TypeOK
  <2>7. CASE p \in owned
    <3>1. Live(p) /\ heap[p].state # "unborn"
      BY <2>4, <2>7 DEF Live
    <3>2. /\ Truth(op, p) \in {"legal", "mismatch"}
          /\ Truth(op, p) = "legal" => heap[p].family = "MALLOC"
      <4>1. Truth(op, p) = IF alloc_family_matches_dealloc(heap[p].family, "FREE")
                             THEN "legal" ELSE "mismatch"
        BY <2>2, <2>7, <3>1, Zenon DEF Truth
      <4>2. alloc_family_matches_dealloc(heap[p].family, "FREE")
              => heap[p].family = "MALLOC"
        BY <2>6 DEF alloc_family_matches_dealloc, Cell, AllocFamilies
      <4>3. QED
        BY <4>1, <4>2
    <3>3. Flux(t)' = {p}
      BY <2>1, <3>2 DEF Flux
    <3>4. Live(p)' /\ AtRest(p)'
      BY <2>4, <2>5, <3>1
    <3>5. AllocCall(t)' /\ ReallocCall(t)'
      BY <2>1 DEF AllocCall, ReallocCall
    <3>6. ReleaseCall(t)'
      BY <2>1, <2>2, <3>2, <3>4 DEF ReleaseCall
    <3>7. RestOfHeap(t)'
      BY <2>1, <2>4, <2>5, <3>3 DEF RestOfHeap
    <3>8. QED
      BY <1>a, <1>b, <1>e, <2>1, <3>5, <3>6, <3>7
  <2>8. CASE p \notin owned
    <3>1. ~Live(p)
      BY <2>4, <2>8
    <3>2. /\ Truth(op, p) \in {"double", "invalid"}
          /\ Truth(op, p) = "double" => Dead(p)
          /\ Truth(op, p) = "invalid" => heap[p].state = "unborn"
      BY <2>6, <2>8, <3>1 DEF Truth, Dead, Live, Cell
    <3>3. Flux(t)' = {}
      BY <2>1, <3>2 DEF Flux
    <3>4. AtRest(p)' /\ (Truth(op, p) = "double" => Dead(p)')
      BY <2>1, <2>4, <2>5, <3>2 DEF Dead
    <3>5. AllocCall(t)' /\ ReallocCall(t)'
      BY <2>1 DEF AllocCall, ReallocCall
    <3>6. ReleaseCall(t)'
      BY <2>1, <2>2, <3>2, <3>4 DEF ReleaseCall
    <3>7. RestOfHeap(t)'
      BY <2>1, <2>4, <2>5, <2>8, <3>3 DEF RestOfHeap
    <3>8. QED
      BY <1>a, <1>b, <1>e, <2>1, <3>5, <3>6, <3>7
  <2>9. QED
    BY <2>7, <2>8
<1>4. ASSUME NEW t \in Threads, LibcAlloc(t) PROVE AInv'
  <2>1. /\ pc[t] = "malloc" /\ call[t] \in Call /\ call[t].ret = None
        /\ call[t].op \in AllocCalls /\ pending[t] = call[t].size
        /\ realloc_old[t] = None /\ Flux(t) = {}
    BY <1>4, <1>c, <1>d DEF LibcAlloc, AllocCall, ReallocCall, Flux
  <2>2. /\ pc'[t] = "mallocRet" /\ pending'[t] = pending[t]
        /\ realloc_old'[t] = realloc_old[t]
        /\ UNCHANGED <<owned, allocs, freed, armed, ring>>
    BY <1>0, <1>4 DEF LibcAlloc, TypeOK, scratch, tracking
  <2>3. \A b \in Addrs : AtRest(b) /\ (Live(b) <=> b \in owned)
    BY <1>c, <2>1 DEF RestOfHeap
  <2>4. CASE UNCHANGED <<heap, call>>
    <3>1. Flux(t)' = {}
      BY <2>1, <2>2, <2>4 DEF Flux
    <3>2. AllocCall(t)' /\ ReallocCall(t)' /\ ReleaseCall(t)'
      BY <2>1, <2>2, <2>4 DEF AllocCall, ReallocCall, ReleaseCall
    <3>3. RestOfHeap(t)'
      BY <2>2, <2>3, <2>4, <3>1 DEF RestOfHeap, AtRest, Live, Dead
    <3>4. QED
      BY <1>a, <1>b, <1>e, <2>2, <3>2, <3>3
  <2>5. ASSUME NEW a \in Addrs, ~Live(a),
               heap' = [heap EXCEPT ![a] =
                 LiveCell(call[t].size, FamilyOf(call[t].op))],
               call' = [call EXCEPT ![t].ret = a]
        PROVE  AInv'
    <3>1. /\ call'[t] = [call[t] EXCEPT !.ret = a]
          /\ heap'[a] = LiveCell(call[t].size, FamilyOf(call[t].op))
          /\ \A b \in Addrs \ {a} : heap'[b] = heap[b]
          /\ a # None
      BY <1>0, <2>5, ConstantsAssumption DEF TypeOK
    <3>2. call'[t].op = call[t].op /\ call'[t].ret = a /\ call'[t].size = call[t].size
      BY <2>1, <3>1 DEF Call
    <3>3. Flux(t)' = {a} /\ Live(a)' /\ heap'[a].family = FamilyOf(call[t].op)
      BY <2>2, <3>1, <3>2 DEF Flux, Live, LiveCell
    <3>4. AllocCall(t)' /\ ReallocCall(t)' /\ ReleaseCall(t)'
      BY <2>1, <2>2, <3>1, <3>2, <3>3 DEF AllocCall, ReallocCall, ReleaseCall
    <3>5. RestOfHeap(t)'
      BY <2>2, <2>3, <2>5, <3>1, <3>3 DEF RestOfHeap, AtRest, Live, Dead
    <3>6. QED
      BY <1>a, <1>b, <1>e, <2>2, <3>4, <3>5
  <2>6. QED
    BY <1>4, <2>4, <2>5 DEF LibcAlloc
<1>5. ASSUME NEW t \in Threads, MallocExit(t) PROVE AInv'
  <2> DEFINE a == call[t].ret
  <2>1. /\ pc[t] = "mallocRet" /\ call[t] \in Call /\ call[t].op \in AllocCalls
        /\ a \in Addrs \cup {None} /\ Flux(t) = {a} \ {None}
        /\ pending[t] = call[t].size /\ pending[t] \in Sizes \cup {None}
        /\ realloc_old[t] = None
    BY <1>0, <1>5, <1>c, <1>d DEF MallocExit, AllocCall, ReallocCall, Flux, TypeOK, Call
  <2>2. pending[t] # None
    <3>1. call[t].size \in Sizes \cup {0}
      BY <2>1 DEF Call
    <3>2. QED
      BY <2>1, <3>1, NoneIsNoSize
  <2>3. /\ a # None => /\ Live(a) /\ heap[a].family = FamilyOf(call[t].op)
                       /\ a \notin owned
        /\ \A b \in Addrs \ ({a} \ {None}) : AtRest(b) /\ (Live(b) <=> b \in owned)
    BY <1>c, <2>1 DEF AllocCall, RestOfHeap
  <2>4. /\ a # None => /\ allocs'[a] # None /\ allocs'[a].family = "MALLOC" /\ armed'
                       /\ \A b \in Addrs : b # a =>
                            allocs'[b] = allocs[b] /\ freed'[b] = freed[b]
        /\ a = None => /\ armed' = armed
                       /\ \A b \in Addrs :
                            allocs'[b] = allocs[b] /\ freed'[b] = freed[b]
        /\ RingLegal'
    <3>1. record_allocation_return(Maps, a, pending[t], "MALLOC")
      BY <1>5 DEF MallocExit
    <3>2. a # None => allocs'[a] # None /\ allocs'[a].family = "MALLOC" /\ armed'
      BY <1>0, <2>1, <2>2, <3>1, MapsReturn DEF AllocFamilies
    <3>3. \A b \in Addrs : b # a => allocs'[b] = allocs[b] /\ freed'[b] = freed[b]
      BY <1>0, <2>1, <2>2, <3>1, MapsReturn DEF AllocFamilies
    <3>4. (a = None => armed' = armed) /\ RingLegal'
      BY <1>0, <2>1, <2>2, <3>1, MapsReturn DEF AllocFamilies
    <3>5. QED
      BY <3>2, <3>3, <3>4, ConstantsAssumption
  <2>5. heap' = heap /\ realloc_old'[t] = None
    BY <1>5, <2>1 DEF MallocExit, HandOver
  <2>6. \A b \in Addrs \ ({a} \ {None}) : AtRest(b)' /\ (Live(b)' <=> b \in owned)
    BY <2>3, <2>4, <2>5 DEF AtRest, Live, Dead
  <2>7. \A b \in Addrs : allocs'[b] # None => armed'
    BY <1>e, <2>1, <2>4
  <2>8. CASE HandOver(t)
    <3>1. pc'[t] = "user" /\ call'[t] = None /\ owned' = owned \cup ({a} \ {None})
      BY <1>0, <2>8 DEF HandOver, Return, TypeOK
    <3>2. Flux(t)' = {}
      BY <3>1 DEF Flux
    <3>3. AllocCall(t)' /\ ReallocCall(t)' /\ ReleaseCall(t)'
      BY <2>5, <3>1 DEF AllocCall, ReallocCall, ReleaseCall
    <3>4. a # None => call[t].op = "malloc"
      BY <1>0, <1>5, <2>1, <3>1 DEF MallocExit, TypeOK
    <3>5. \A b \in {a} \ {None} : AtRest(b)' /\ Live(b)'
      BY <2>3, <2>4, <2>5, <3>4 DEF AtRest, Live, Dead, FamilyOf
    <3>6. RestOfHeap(t)'
      BY <2>1, <2>6, <3>1, <3>2, <3>5 DEF RestOfHeap
    <3>7. QED
      BY <1>a, <2>4, <2>7, <3>3, <3>6
  <2>9. CASE /\ call[t].op # "malloc" /\ a # None
             /\ pc' = [pc EXCEPT ![t] = "wrapRet"]
             /\ UNCHANGED <<heap, owned, call>>
    <3>1. pc'[t] = "wrapRet" /\ call'[t] = call[t] /\ pending'[t] = None
      BY <1>0, <1>5, <2>9 DEF MallocExit, TypeOK
    <3>2. Flux(t)' = {a}
      BY <2>9, <3>1 DEF Flux
    <3>3. AllocCall(t)' /\ ReallocCall(t)' /\ ReleaseCall(t)'
      BY <2>1, <2>3, <2>4, <2>5, <2>9, <3>1 DEF AllocCall, ReallocCall, ReleaseCall, Live
    <3>4. RestOfHeap(t)'
      BY <2>1, <2>3, <2>6, <2>9, <3>2 DEF RestOfHeap
    <3>5. QED
      BY <1>a, <2>4, <2>7, <3>3, <3>4
  <2>10. QED
    BY <1>5, <2>8, <2>9 DEF MallocExit
<1>6. ASSUME NEW t \in Threads, WrapperExit(t) PROVE AInv'
  <2> DEFINE a == call[t].ret
             family == FamilyOf(call[t].op)
  <2>1. /\ pc[t] = "wrapRet" /\ call[t] \in Call /\ a \in Addrs /\ a # None
        /\ call[t].op \in AllocCalls \ {"malloc"} /\ Flux(t) = {a}
        /\ pending[t] = None /\ realloc_old[t] = None
    BY <1>0, <1>6, <1>c, <1>d DEF WrapperExit, AllocCall, ReallocCall, Flux, Call
  <2>2. /\ Live(a) /\ heap[a].family = family /\ a \notin owned
        /\ allocs[a] # None /\ allocs[a].family = "MALLOC"
        /\ \A b \in Addrs \ {a} : AtRest(b) /\ (Live(b) <=> b \in owned)
    BY <1>c, <2>1 DEF AllocCall, RestOfHeap
  <2>3. family \in AllocFamilies
    BY DEF FamilyOf, AllocFamilies
  <2>4. /\ allocs'[a] # None /\ allocs'[a].family = family
        /\ armed'
        /\ \A b \in Addrs : b # a => allocs'[b] = allocs[b] /\ freed'[b] = freed[b]
        /\ RingLegal'
    <3>1. record_allocation_return(Maps, a, None, family)
      BY <1>6, <2>1 DEF WrapperExit
    <3>2. TypeOK /\ RingLegal
      BY <1>0 DEF TypeInv
    <3> HIDE DEF a, family
    <3>3. /\ family # "MALLOC" =>
               /\ allocs'[a] # None /\ allocs'[a].family = family
               /\ armed'
          /\ \A b \in Addrs :
               b # a \/ family = "MALLOC" => allocs'[b] = allocs[b] /\ freed'[b] = freed[b]
          /\ family = "MALLOC" => armed' = armed
          /\ RingLegal'
      BY <2>1, <2>3, <3>1, <3>2, WrapperReturn, Zenon
    <3>4. QED
      BY <1>e, <2>1, <2>2, <3>3
  <2>5. /\ heap' = heap /\ realloc_old'[t] = None /\ pc'[t] = "user"
        /\ call'[t] = None /\ owned' = owned \cup {a}
    BY <1>0, <1>6, <2>1 DEF WrapperExit, HandOver, Return, TypeOK
  <2>6. \A b \in Addrs \ {a} : AtRest(b)' /\ (Live(b)' <=> b \in owned)
    BY <2>2, <2>4, <2>5 DEF AtRest, Live, Dead
  <2>7. Flux(t)' = {} /\ AllocCall(t)' /\ ReallocCall(t)' /\ ReleaseCall(t)'
    BY <2>5 DEF Flux, AllocCall, ReallocCall, ReleaseCall
  <2>8. \A b \in {a} : AtRest(b)' /\ Live(b)'
    BY <2>2, <2>4, <2>5 DEF AtRest, Live, Dead
  <2>9. RestOfHeap(t)'
    BY <2>5, <2>6, <2>7, <2>8 DEF RestOfHeap
  <2>10. QED
    BY <1>a, <1>e, <2>4, <2>7, <2>9
<1>7. ASSUME NEW t \in Threads, LibcRealloc(t) PROVE AInv'
  <2> DEFINE p == call[t].ptr
             n == call[t].size
  <2>1. /\ pc[t] = "realloc" /\ call[t] \in Call /\ call[t].op = "realloc"
        /\ call[t].ret = None /\ p \in Addrs \cup {None} /\ Flux(t) = {p} \ {None}
        /\ pending[t] = n /\ realloc_old[t] = p
        /\ p # None => /\ Live(p) /\ AtRest(p) /\ heap[p].family = "MALLOC"
                       /\ allocs[p] # None /\ p \notin owned
        /\ \A b \in Addrs \ {p} : AtRest(b) /\ (Live(b) <=> b \in owned)
    <3>1. pc[t] = "realloc" /\ call[t] \in Call
      BY <1>7, <1>d DEF LibcRealloc
    <3>2. /\ call[t].op = "realloc" /\ call[t].ret = None
          /\ p \in Addrs \cup {None} /\ Flux(t) = {p} \ {None}
          /\ pending[t] = n /\ realloc_old[t] = p
          /\ p # None => /\ Live(p) /\ AtRest(p) /\ heap[p].family = "MALLOC"
      BY <1>c, <3>1 DEF ReallocCall, Flux, Call
    <3>3. p # None => allocs[p] # None
      BY <3>2 DEF AtRest
    <3>4. QED
      BY <1>c, <3>1, <3>2, <3>3 DEF RestOfHeap
  <2>2. /\ pc'[t] = "reallocRet" /\ pending'[t] = pending[t]
        /\ realloc_old'[t] = realloc_old[t]
        /\ UNCHANGED <<owned, allocs, freed, armed, ring>>
    BY <1>0, <1>7 DEF LibcRealloc, TypeOK, scratch, tracking
  <2>3. heap \in [Addrs -> Cell] /\ call \in [Threads -> Call \cup {None}]
    BY <1>0 DEF TypeOK
  <2>4. ASSUME NEW q, NEW a, q = p, a \in Addrs \cup {None},
               call'[t].op = "realloc", call'[t].ptr = q, call'[t].ret = a,
               call'[t].size = n,
               a # None => Live(a)' /\ heap'[a].family = "MALLOC" /\ (a = q \/ ~Live(a)),
               q # None /\ a = None /\ n # 0 => heap'[q] = heap[q],
               q # None /\ a = None /\ n = 0 => Dead(q)',
               q # None /\ a \notin {None, q} => Dead(q)',
               \A b \in Addrs \ {q, a} : heap'[b] = heap[b]
        PROVE  AInv'
    <3>1. Flux(t)' = {q, a} \ {None}
      BY <2>2, <2>4 DEF Flux
    <3>2. q # None /\ a = None /\ n # 0 => Live(q)' /\ AtRest(q)'
      BY <2>1, <2>2, <2>4 DEF AtRest, Live, Dead
    <3>3. AllocCall(t)' /\ ReleaseCall(t)'
      BY <2>2 DEF AllocCall, ReleaseCall
    <3>4. ReallocCall(t)'
      BY <2>1, <2>2, <2>4, <3>2 DEF ReallocCall
    <3>5. a # None => a \notin owned
      BY <2>1, <2>4
    <3>6. \A b \in Addrs \ {q, a} :
            AtRest(b)' /\ (Live(b)' <=> b \in owned)
      BY <2>1, <2>2, <2>4 DEF AtRest, Live, Dead
    <3>7. RestOfHeap(t)'
      BY <2>1, <2>2, <2>4, <3>1, <3>5, <3>6, NoneIsNoAddress DEF RestOfHeap
    <3>8. QED
      BY <1>a, <1>b, <1>e, <2>2, <3>3, <3>4, <3>7
  <2>5. CASE UNCHANGED <<heap, call>> /\ (p = None \/ n # 0)
    BY <2>1, <2>4, <2>5
  <2>6. CASE /\ p # None /\ n = 0 /\ UNCHANGED call
             /\ heap' = [heap EXCEPT ![p] = Empty("dead")]
    <3>1. /\ heap'[p] = Empty("dead")
          /\ \A b \in Addrs \ {p} : heap'[b] = heap[b]
      BY <2>1, <2>3, <2>6
    <3>2. PICK q : q = p
      OBVIOUS
    <3>3. Dead(q)'
      BY <3>1, <3>2 DEF Dead, Empty
    <3>4. QED
      BY <2>1, <2>4, <2>6, <3>1, <3>2, <3>3
  <2>7. ASSUME NEW a \in Addrs, a # None, a = p \/ ~Live(a),
               call' = [call EXCEPT ![t].ret = a],
               heap'[a] = LiveCell(n, "MALLOC"),
               p # None /\ a # p => heap'[p] = Empty("dead"),
               \A b \in Addrs \ {p, a} : heap'[b] = heap[b]
        PROVE  AInv'
    <3>1. call'[t] = [call[t] EXCEPT !.ret = a]
      BY <2>3, <2>7
    <3>2. /\ call'[t].op = "realloc" /\ call'[t].ret = a /\ call'[t].ptr = p
          /\ call'[t].size = n
      BY <2>1, <3>1 DEF Call
    <3>3. Live(a)' /\ heap'[a].family = "MALLOC"
      BY <2>7 DEF Live, LiveCell
    <3>4. PICK q : q = p
      OBVIOUS
    <3>5. q # None /\ a # q => Dead(q)'
      BY <2>7, <3>4 DEF Dead, Empty
    <3>6. QED
      BY <2>4, <2>7, <3>2, <3>3, <3>4, <3>5
  <2>8. ASSUME p # None, heap' = [heap EXCEPT ![p] = LiveCell(n, "MALLOC")],
               call' = [call EXCEPT ![t].ret = p]
        PROVE  AInv'
    <3>1. /\ heap'[p] = LiveCell(n, "MALLOC")
          /\ \A b \in Addrs \ {p} : heap'[b] = heap[b]
      BY <2>1, <2>3, <2>8
    <3>2. QED
      BY <2>1, <2>7, <2>8, <3>1
  <2>9. ASSUME NEW a \in Addrs, ~Live(a),
               heap' = [(IF p = None THEN heap ELSE [heap EXCEPT ![p] = Empty("dead")])
                          EXCEPT ![a] = LiveCell(n, "MALLOC")],
               call' = [call EXCEPT ![t].ret = a]
        PROVE  AInv'
    <3>1. a # None /\ a # p
      BY <2>1, <2>9, ConstantsAssumption
    <3>2. /\ heap'[a] = LiveCell(n, "MALLOC")
          /\ p # None => heap'[p] = Empty("dead")
          /\ \A b \in Addrs \ {p, a} : heap'[b] = heap[b]
      BY <2>1, <2>3, <2>9, <3>1
    <3>3. QED
      BY <2>7, <2>9, <3>1, <3>2
  <2>10. QED
    BY <1>7, <2>5, <2>6, <2>8, <2>9 DEF LibcRealloc
<1>8. ASSUME NEW t \in Threads, ReallocExit(t) PROVE AInv'
  <2> DEFINE p == call[t].ptr
             a == call[t].ret
             n == call[t].size
             S == {p, a} \ {None}
  <2>1. /\ pc[t] = "reallocRet" /\ call[t] \in Call
        /\ p \in Addrs \cup {None} /\ a \in Addrs \cup {None} /\ Flux(t) = S
        /\ pending[t] = n /\ pending[t] \in Sizes /\ n # None
        /\ realloc_old[t] = p
    <3>1. pc[t] = "reallocRet" /\ call[t] \in Call
      BY <1>8, <1>d DEF ReallocExit
    <3>2. n # None
      BY <3>1, NoneIsNoSize DEF Call
    <3>3. pending[t] = n /\ realloc_old[t] = p
      BY <1>c, <3>1 DEF ReallocCall
    <3>4. QED
      BY <1>0, <3>1, <3>2, <3>3 DEF Flux, Call, TypeOK
  <2>2. /\ a # None => Live(a) /\ heap[a].family = "MALLOC"
        /\ p # None => allocs[p] # None \/ a = p
        /\ p # None /\ a = None /\ n # 0 => Live(p) /\ AtRest(p)
        /\ p # None /\ a = None /\ n = 0 => Dead(p)
        /\ p # None /\ a \notin {None, p} => Dead(p)
    BY <1>c, <2>1 DEF ReallocCall
  <2>3. /\ S \subseteq Addrs /\ S \cap owned = {}
        /\ \A b \in Addrs \ S : AtRest(b) /\ (Live(b) <=> b \in owned)
    BY <1>c, <2>1 DEF RestOfHeap
  <2>4. /\ heap' = heap /\ pc'[t] = "user" /\ call'[t] = None /\ realloc_old'[t] = None
        /\ owned' = owned \cup
             ((IF a = None /\ n # 0 THEN {p} ELSE {a}) \ {None})
    BY <1>0, <1>8 DEF ReallocExit, TakeReallocOld, Return, TypeOK
  <2>5. Flux(t)' = {} /\ AllocCall(t)' /\ ReallocCall(t)' /\ ReleaseCall(t)'
    BY <2>4 DEF Flux, AllocCall, ReallocCall, ReleaseCall
  <2>6. ASSUME NEW q \in S, ReallocMarks(t) = q, q = p, a # q,
               (a = None) => n = 0
        PROVE  AInv'
    <3>1. record_allocation_return(mark_allocation_freed(q), a, pending[t], "MALLOC")
      BY <1>8, <2>6 DEF ReallocExit
    <3>2. allocs[q] # None /\ q \in Addrs /\ Dead(q)
      BY <2>2, <2>3, <2>6
    <3>3. a # None => allocs'[a] # None /\ allocs'[a].family = "MALLOC" /\ armed'
      BY <1>0, <2>1, <2>6, <3>1, <3>2, RetiringReturn
    <3>4. allocs'[q] = None /\ freed'[q] # None /\ freed'[q].dealloc = "FREE"
      BY <1>0, <2>1, <2>6, <3>1, <3>2, RetiringReturn
    <3>5. \A b \in Addrs \ {q, a} : allocs'[b] = allocs[b] /\ freed'[b] = freed[b]
      BY <1>0, <2>1, <2>6, <3>1, <3>2, RetiringReturn
    <3>6. (a = None => armed' = armed) /\ RingLegal'
      BY <1>0, <2>1, <2>6, <3>1, <3>2, RetiringReturn
    <3>7. AtRest(q)' /\ ~Live(q)'
      BY <2>4, <3>2, <3>4 DEF AtRest, Live, Dead
    <3>8. \A b \in {a} \ {None} : AtRest(b)' /\ Live(b)'
      BY <2>2, <2>4, <3>3 DEF AtRest, Live, Dead
    <3>9. \A b \in Addrs \ {q, a} : AtRest(b)' /\ (Live(b)' <=> b \in owned)
      BY <2>3, <2>4, <2>6, <3>5 DEF AtRest, Live, Dead
    <3>10. owned' = owned \cup ({a} \ {None}) /\ q \notin owned
      BY <2>3, <2>4, <2>6
    <3>11. RestOfHeap(t)'
      BY <2>5, <2>6, <3>7, <3>8, <3>9, <3>10, ConstantsAssumption DEF RestOfHeap
    <3>12. \A b \in Addrs : allocs'[b] # None => armed'
      <4>1. CASE a # None
        BY <3>3, <4>1
      <4>2. CASE a = None
        BY <1>e, <3>4, <3>5, <3>6, <4>2, ConstantsAssumption
      <4>3. QED
        BY <4>1, <4>2
    <3>13. QED
      BY <1>a, <2>5, <3>6, <3>11, <3>12
  <2>7. ASSUME ReallocMarks(t) = None,
               p # None => a = p \/ (a = None /\ n # 0)
        PROVE  AInv'
    <3>1. record_allocation_return(Maps, a, pending[t], "MALLOC")
      BY <1>8, <2>7 DEF ReallocExit, mark_allocation_freed
    <3>2. pending[t] # None /\ pending[t] \in Sizes \cup {None} /\ "MALLOC" \in AllocFamilies
      BY <2>1 DEF AllocFamilies
    <3>3. a # None => allocs'[a] # None /\ allocs'[a].family = "MALLOC" /\ armed'
      BY <1>0, <2>1, <3>1, <3>2, MapsReturn
    <3>4. \A b \in Addrs : b # a => allocs'[b] = allocs[b] /\ freed'[b] = freed[b]
      BY <1>0, <2>1, <3>1, <3>2, MapsReturn
    <3>5. (a = None => armed' = armed) /\ RingLegal'
      BY <1>0, <2>1, <3>1, <3>2, MapsReturn
    <3>6. \A b \in {a} \ {None} : AtRest(b)' /\ Live(b)'
      BY <2>2, <2>4, <3>3 DEF AtRest, Live, Dead
    <3>7. a = None => \A b \in {p} \ {None} : AtRest(b)' /\ Live(b)'
      <4>1. ASSUME a = None, p # None PROVE p \in Addrs /\ p # a /\ AtRest(p) /\ Live(p)
        BY <2>1, <2>2, <2>7, <4>1
      <4>2. QED
        BY <2>4, <3>4, <4>1 DEF AtRest, Live, Dead
    <3>8. \A b \in Addrs \ S : AtRest(b)' /\ (Live(b)' <=> b \in owned)
      BY <2>3, <2>4, <3>4, ConstantsAssumption DEF AtRest, Live, Dead
    <3>9. owned' = owned \cup S
      BY <2>1, <2>4, <2>7
    <3>10. RestOfHeap(t)'
      <4>1. \A b \in S : AtRest(b)' /\ Live(b)'
        BY <2>7, <3>6, <3>7
      <4>2. QED
        BY <2>5, <3>8, <3>9, <4>1 DEF RestOfHeap
    <3>11. \A b \in Addrs : allocs'[b] # None => armed'
      BY <1>e, <2>1, <3>3, <3>4, <3>5, ConstantsAssumption
    <3>12. QED
      BY <1>a, <2>5, <3>5, <3>10, <3>11
  <2>8. ReallocMarks(t) = IF a = None THEN IF n = 0 THEN p ELSE None
                          ELSE IF p # a THEN p ELSE None
    BY <2>1 DEF ReallocMarks
  <2>9. CASE p # None /\ a # p /\ (a = None => n = 0)
    BY <2>6, <2>8, <2>9
  <2>10. CASE ~(p # None /\ a # p /\ (a = None => n = 0))
    BY <2>7, <2>8, <2>10
  <2>11. QED
    BY <2>9, <2>10
<1>9. ASSUME NEW t \in Threads, InnerFree(t) PROVE FALSE
  BY <1>9, <1>c DEF InnerFree, ReleaseCall
<1>10. ASSUME NEW t \in Threads, ReleaseProbe(t) PROVE AInv'
  <2> DEFINE l == looked[t]
             status == FreeStatus(l.info, l.prev, "FREE")
             e == [type |-> "FREE", status |-> status, truth |-> call[t].truth,
                   family |-> FreeFamily(l.info, l.prev), dealloc |-> "FREE"]
  <2>1. PICK p \in Addrs : p = call[t].ptr
    BY <1>0, <1>10 DEF ReleaseProbe, TypeInv
  <2>2. /\ pc[t] = "dealloc" /\ call[t] \in Call /\ realloc_old[t] = None
        /\ call[t].dealloc = "FREE" /\ call[t].op = "free"
        /\ l.info = allocs[p] /\ l.prev = freed[p] /\ AtRest(p)
        /\ call[t].truth \in {"legal", "mismatch"} => Live(p)
        /\ call[t].truth = "legal" => heap[p].family = "MALLOC"
        /\ call[t].truth = "double" => Dead(p)
        /\ call[t].truth = "invalid" => heap[p].state = "unborn"
    <3>1. pc[t] = "dealloc" /\ call[t] \in Call
      BY <1>10, <1>d DEF ReleaseProbe
    <3>2. QED
      BY <1>c, <2>1, <3>1 DEF ReleaseCall, ReallocCall
  <2>3. /\ pc'[t] = "release" /\ UNCHANGED <<heap, owned, call>>
        /\ realloc_old'[t] = None
    BY <1>0, <1>10, <2>2 DEF ReleaseProbe, TypeOK, scratch
  <2>4. l.info \in Block \cup {None} /\ l.prev \in FreedBlock \cup {None}
    BY <1>0 DEF TypeOK
  <2>5. e \in Event
    <3>1. FreeFamily(l.info, l.prev) \in AllocFamilies \cup {"UNKNOWN"}
      BY <2>4 DEF FreeFamily, Block, FreedBlock
    <3>2. status \in Statuses /\ call[t].truth \in Truths
      BY <2>2 DEF FreeStatus, Statuses, Call
    <3>3. QED
      BY <3>1, <3>2 DEF Event, DeallocFamilies
  <2>6. ~Swallowed(l.info, l.prev)
    <3>1. CASE Live(p)
      BY <2>2, <3>1 DEF AtRest, Swallowed
    <3>2. CASE heap[p].state = "unborn"
      BY <2>2, <3>2 DEF AtRest, Swallowed
    <3>3. CASE Dead(p)
      BY <2>2, <3>3 DEF AtRest, Swallowed
    <3>4. heap[p] \in Cell
      BY <1>0 DEF TypeOK
    <3>5. QED
      BY <3>1, <3>2, <3>3, <3>4 DEF Cell, Live, Dead
  <2>7. RightStatus(call[t].truth, status)
    <3>1. ASSUME call[t].truth = "legal" PROVE status = "OK"
      <4>1. l.info # None /\ l.info.family = "MALLOC"
        BY <2>2, <3>1 DEF AtRest
      <4>2. QED
        BY <4>1 DEF FreeStatus, alloc_family_matches_dealloc
    <3>2. QED
      BY <3>1 DEF RightStatus
  <2>8. Submit(e) /\ armed' = armed
        /\ IF l.info = None THEN allocs' = allocs /\ freed' = freed
           ELSE /\ allocs' = [allocs EXCEPT ![p] = None]
                /\ freed' = [freed EXCEPT ![p] =
                     [family |-> l.info.family, dealloc |-> "FREE"]]
    <3>1. ReportRelease(t)
      BY <1>10, <2>6 DEF ReleaseProbe, SkipAfterDelete
    <3>2. status = "OK" => armed
      BY <1>e, <2>2 DEF FreeStatus
    <3>3. ~Dropped
      BY DEF Dropped, Alone
    <3>4. QED
      BY <2>1, <2>2, <3>1, <3>2, <3>3 DEF ReportRelease, tracking
  <2>9. RingLegal'
    BY <1>0, <2>5, <2>7, <2>8, RingStaysLegal
  <2>10. \A b \in Addrs \ {p} : allocs'[b] = allocs[b] /\ freed'[b] = freed[b]
    BY <1>0, <2>8 DEF TypeOK
  <2>11. /\ allocs'[p] = None
         /\ l.info # None => freed'[p] # None /\ freed'[p].dealloc = "FREE"
         /\ l.info = None => allocs'[p] = allocs[p] /\ freed'[p] = freed[p]
    <3>1. CASE l.info = None
      BY <2>2, <2>8, <3>1
    <3>2. CASE l.info # None
      <4>1. [family |-> l.info.family, dealloc |-> "FREE"] # None
        BY <2>4, <3>2, NoneAssumption DEF Block, FreedBlock, DeallocFamilies
      <4>2. QED
        BY <1>0, <2>8, <3>2, <4>1 DEF TypeOK
    <3>3. QED
      BY <3>1, <3>2
  <2>12. AllocCall(t)' /\ ReallocCall(t)'
    BY <2>3 DEF AllocCall, ReallocCall
  <2>13. \A b \in Addrs : allocs'[b] # None => armed'
    BY <1>e, <2>8, <2>10, <2>11
  <2>14. CASE call[t].truth \in {"legal", "mismatch"}
    <3>1. l.info # None
      BY <2>2, <2>14 DEF AtRest
    <3>2. ReleaseCall(t)'
      BY <2>1, <2>2, <2>3, <2>11, <3>1 DEF ReleaseCall
    <3>3. Flux(t) = {p} /\ Flux(t)' = {p}
      BY <2>1, <2>2, <2>3, <2>14 DEF Flux
    <3>4. \A b \in Addrs \ {p} : AtRest(b)' /\ (Live(b)' <=> b \in owned)
      BY <1>c, <2>3, <2>10, <3>3 DEF RestOfHeap, AtRest, Live, Dead
    <3>5. RestOfHeap(t)'
      BY <1>c, <2>3, <3>3, <3>4 DEF RestOfHeap
    <3>6. QED
      BY <1>a, <2>9, <2>12, <2>13, <3>2, <3>5
  <2>15. CASE call[t].truth \notin {"legal", "mismatch"}
    <3>1. call[t].truth \in {"double", "invalid"}
      BY <2>2, <2>15 DEF Call, Truths
    <3>2. l.info = None
      BY <2>2, <3>1 DEF AtRest
    <3>3. ReleaseCall(t)'
      BY <2>2, <2>3, <2>15 DEF ReleaseCall
    <3>4. Flux(t) = {} /\ Flux(t)' = {}
      BY <2>2, <2>3, <2>15 DEF Flux
    <3>5. \A b \in Addrs : allocs'[b] = allocs[b] /\ freed'[b] = freed[b]
      BY <2>10, <2>11, <3>2
    <3>6. RestOfHeap(t)'
      BY <1>c, <2>3, <3>4, <3>5 DEF RestOfHeap, AtRest, Live, Dead
    <3>7. QED
      BY <1>a, <2>9, <2>12, <2>13, <3>3, <3>6
  <2>16. QED
    BY <2>14, <2>15
<1>11. ASSUME NEW t \in Threads, LibcFree(t) PROVE AInv'
  <2>1. PICK p \in Addrs : p = call[t].ptr
    BY <1>0, <1>11 DEF LibcFree, TypeInv
  <2>2. /\ pc[t] = "release" /\ pc'[t] = "user" /\ call'[t] = None
        /\ realloc_old'[t] = None
        /\ UNCHANGED <<owned, allocs, freed, armed, ring>>
    BY <1>0, <1>11, <1>c DEF LibcFree, Return, TypeOK, scratch, tracking, ReallocCall
  <2>3. Flux(t)' = {} /\ AllocCall(t)' /\ ReallocCall(t)' /\ ReleaseCall(t)'
    BY <2>2 DEF Flux, AllocCall, ReallocCall, ReleaseCall
  <2>4. CASE call[t].truth \in {"legal", "mismatch"}
    <3>1. Flux(t) = {p} /\ allocs[p] = None /\ freed[p] # None
          /\ freed[p].dealloc = "FREE" /\ p \notin owned
      BY <1>c, <2>1, <2>2, <2>4 DEF Flux, ReleaseCall, RestOfHeap
    <3>2. heap' = [heap EXCEPT ![p] = Empty("dead")]
      BY <1>11, <2>1, <2>4 DEF LibcFree
    <3>3. heap'[p] = Empty("dead") /\ \A b \in Addrs \ {p} : heap'[b] = heap[b]
      BY <1>0, <3>2 DEF TypeOK
    <3>4. AtRest(p)' /\ ~Live(p)'
      BY <2>2, <3>1, <3>3 DEF AtRest, Live, Dead, Empty
    <3>5. \A b \in Addrs \ {p} : AtRest(b)' /\ (Live(b)' <=> b \in owned)
      BY <1>c, <2>2, <3>1, <3>3 DEF RestOfHeap, AtRest, Live, Dead
    <3>6. RestOfHeap(t)'
      BY <2>2, <2>3, <3>1, <3>4, <3>5 DEF RestOfHeap
    <3>7. QED
      BY <1>a, <1>b, <1>e, <2>2, <2>3, <3>6
  <2>5. CASE call[t].truth \notin {"legal", "mismatch"}
    <3>1. Flux(t) = {} /\ heap' = heap
      BY <1>11, <2>2, <2>5 DEF Flux, LibcFree
    <3>2. RestOfHeap(t)'
      BY <1>c, <2>2, <2>3, <3>1 DEF RestOfHeap, AtRest, Live, Dead
    <3>3. QED
      BY <1>a, <1>b, <1>e, <2>2, <2>3, <3>2
  <2>6. QED
    BY <2>4, <2>5
<1>12. ASSUME RingLegal', UNCHANGED <<program, scratch, tracking, looked>>
       PROVE  AInv'
  <2>1. /\ heap' = heap /\ owned' = owned /\ pc' = pc /\ call' = call
        /\ pending' = pending /\ realloc_old' = realloc_old
        /\ allocs' = allocs /\ freed' = freed /\ armed' = armed /\ looked' = looked
    BY <1>12 DEF program, scratch, tracking
  <2>2. ASSUME NEW t \in Threads
        PROVE  AllocCall(t)' /\ ReallocCall(t)' /\ ReleaseCall(t)' /\ RestOfHeap(t)'
    <3>1. AllocCall(t)' /\ Flux(t)' = Flux(t)
      BY <1>c, <2>1 DEF AllocCall, Live, Flux
    <3>2. \A b \in Addrs : (AtRest(b) => AtRest(b)') /\ Live(b)' = Live(b) /\ Dead(b)' = Dead(b)
      BY <2>1 DEF AtRest, Live, Dead
    <3>3. ReallocCall(t)'
      BY <1>c, <2>1 DEF ReallocCall, AtRest, Live, Dead
    <3>4. ReleaseCall(t)'
      BY <1>c, <2>1 DEF ReleaseCall, AtRest, Live, Dead
    <3>5. RestOfHeap(t)'
      BY <1>c, <2>1, <3>1, <3>2 DEF RestOfHeap
    <3>6. QED
      BY <3>1, <3>3, <3>4, <3>5
  <2>3. QED
    BY <1>0, <1>12, <1>e, <2>1, <2>2 DEF AInv
<1>13. ASSUME Consume PROVE AInv'
  <2>1. ring \in Seq(Event) /\ ring # <<>> /\ ring' = Tail(ring)
    BY <1>13, <1>0 DEF Consume, TypeOK
  <2>2. /\ Len(ring') = Len(ring) - 1
        /\ \A i \in 1..Len(ring') : i + 1 \in 1..Len(ring) /\ ring'[i] = ring[i + 1]
    BY <2>1
  <2>3. RingLegal'
    BY <1>0, <2>2 DEF RingLegal
  <2>4. QED
    BY <1>12, <1>13, <2>3 DEF Consume
<1>14. ASSUME UNCHANGED vars PROVE AInv'
  BY <1>12, <1>14, <1>b DEF vars
<1>15. ASSUME \/ \E a \in Addrs : EvictAlloc(a) \/ EvictFreed(a)
              \/ \E p \in Pages : EvictRange(p)
       PROVE  FALSE
  BY <1>15 DEF Alone, EvictAlloc, EvictRange, EvictFreed
<1>16. QED
  BY <1>1, <1>2, <1>3, <1>4, <1>5, <1>6, <1>7, <1>8, <1>9, <1>10, <1>11,
     <1>13, <1>14, <1>15 DEF Next

LEMMA AloneCorrect == Alone => (Spec => []AInv)
<1> SUFFICES ASSUME Alone PROVE Spec => []AInv
  OBVIOUS
<1>1. AInv /\ [Next]_vars => AInv'
  BY AloneStep
<1>2. QED
  BY <1>1, AloneInit, PTL DEF Spec

(* No legal release is ever submitted as a double, invalid or mismatched   *)
(* free, whatever the interleaving of the probes of any number of threads  *)
(* in a calm execution, and whatever else one thread alone releases.       *)
THEOREM NeverFalseAlarm ==
  (Calm /\ ~Evicts) \/ Alone => (Spec => []NoFalseAlarm)
<1>1. ASSUME Calm, ~Evicts PROVE Spec => []NoFalseAlarm
  <2>1. IInv => NoFalseAlarm
    BY <1>1 DEF IInv, RingLegal, RightStatus, NoFalseAlarm, FreeEvents
  <2>2. QED
    BY <1>1, <2>1, CalmCorrect, PTL
<1>2. ASSUME Alone PROVE Spec => []NoFalseAlarm
  <2>1. AInv => NoFalseAlarm
    BY <1>2 DEF AInv, Alone, RingLegal, RightStatus, NoFalseAlarm, FreeEvents
  <2>2. QED
    BY <1>2, <2>1, AloneCorrect, PTL
<1>3. QED
  BY <1>1, <1>2

LEMMA MisuseStep ==
  ASSUME Alone, AInv, [Next]_vars
  PROVE  MisuseAnswered
<1> SUFFICES ASSUME NEW t \in Threads, pc[t] = "dealloc", pc'[t] # "dealloc",
                    call[t].truth \in {"double", "invalid"}
             PROVE  /\ ring' # ring
                    /\ call[t].truth = "double" => ring'[Len(ring')].status = "DOUBLE"
                    /\ call[t].truth = "invalid" => ring'[Len(ring')].status = "INVALID"
  BY DEF MisuseAnswered, Answers
<1>1. ReleaseProbe(t) /\ TypeInv /\ ReleaseCall(t) /\ KeepsUp
  BY OwnProbe DEF AInv, Alone
<1> DEFINE status == FreeStatus(looked[t].info, looked[t].prev, call[t].dealloc)
<1>2. CASE call[t].truth = "double"
  <2>1. status = "DOUBLE" /\ ~Swallowed(looked[t].info, looked[t].prev)
    BY <1>1, <1>2 DEF ReleaseCall, AtRest, FreeStatus, Swallowed
  <2>2. QED
    BY <1>1, <1>2, <2>1, ProbeAnswers
<1>3. CASE call[t].truth = "invalid"
  <2>1. status = "INVALID" /\ ~Swallowed(looked[t].info, looked[t].prev)
    BY <1>1, <1>3 DEF ReleaseCall, AtRest, FreeStatus, Swallowed
  <2>2. QED
    BY <1>1, <1>3, <2>1, ProbeAnswers
<1>4. QED
  BY <1>2, <1>3

(* One thread of a C program gets an event for every pointer it frees      *)
(* again and for every pointer it never had, and the event tells the two   *)
(* apart, though realloc may have moved or released blocks before.         *)
THEOREM EveryMisuseClassified == Alone => (Spec => MisuseClassified)
<1> SUFFICES ASSUME Alone PROVE Spec => MisuseClassified
  OBVIOUS
<1>1. AInv /\ [Next]_vars => [MisuseAnswered]_vars
  BY MisuseStep
<1>2. QED
  BY <1>1, AloneCorrect, PTL DEF Spec, MisuseClassified

LEMMA RetireAloneStep ==
  ASSUME Alone, AInv, [Next]_vars
  PROVE  RetiresOnlyOld
<1> SUFFICES ASSUME NEW t \in Threads, pc[t] = "reallocRet", pc'[t] = "user",
                    NEW b \in owned
             PROVE  allocs'[b] = allocs[b]
  BY DEF RetiresOnlyOld
<1> DEFINE p == call[t].ptr
           a == call[t].ret
<1>1. ReallocExit(t) /\ TypeOK /\ TypeInv /\ RingLegal /\ b \in Addrs
      /\ call[t] \in Call
  BY OwnProbe DEF AInv, TypeInv, TypeOK
<1>2. /\ pending[t] = call[t].size /\ realloc_old[t] = p
      /\ b \notin {p, a} \ {None}
      /\ p \in Addrs \cup {None} /\ a \in Addrs \cup {None}
  BY <1>1 DEF AInv, ReallocCall, RestOfHeap, Flux, Call
<1>3. b # p /\ b # a
  BY <1>1, <1>2, ConstantsAssumption
<1>4. record_allocation_return(mark_allocation_freed(ReallocMarks(t)), a,
                               pending[t], "MALLOC")
  BY <1>1 DEF ReallocExit
<1>5. ReallocMarks(t) \in {p, None}
  BY <1>2 DEF ReallocMarks
<1>6. mark_allocation_freed(ReallocMarks(t)).allocs \in [Addrs -> Block \cup {None}]
      /\ mark_allocation_freed(ReallocMarks(t)).allocs[b] = allocs[b]
  <2>1. CASE ReallocMarks(t) = None \/ allocs[ReallocMarks(t)] = None
    BY <1>1, <2>1 DEF mark_allocation_freed, Maps, TypeOK
  <2>2. CASE ~(ReallocMarks(t) = None \/ allocs[ReallocMarks(t)] = None)
    <3>1. mark_allocation_freed(ReallocMarks(t)).allocs
            = [allocs EXCEPT ![ReallocMarks(t)] = None]
      BY <2>2 DEF mark_allocation_freed
    <3>2. QED
      BY <1>1, <1>3, <1>5, <2>2, <3>1 DEF TypeOK
  <2>3. QED
    BY <2>1, <2>2
<1>7. QED
  BY <1>1, <1>3, <1>4, <1>6 DEF record_allocation_return

(* The return probe of realloc touches no record of a block that the       *)
(* program owns: for any number of threads, with evictions and drops too,  *)
(* while realloc releases nothing, and for one thread alone also when it   *)
(* moves and releases blocks.                                              *)
THEOREM ReallocTouchesOnlyIts ==
  Calm \/ Alone => (Spec => ReallocRetiresOnlyOld)
<1>1. ASSUME Calm PROVE Spec => ReallocRetiresOnlyOld
  <2>1. IInv /\ [Next]_vars => [RetiresOnlyOld]_vars
    BY <1>1, RetireStep
  <2>2. QED
    BY <1>1, <2>1, CalmCorrect, PTL DEF Spec, ReallocRetiresOnlyOld
<1>2. ASSUME Alone PROVE Spec => ReallocRetiresOnlyOld
  <2>1. AInv /\ [Next]_vars => [RetiresOnlyOld]_vars
    BY <1>2, RetireAloneStep
  <2>2. QED
    BY <1>2, <2>1, AloneCorrect, PTL DEF Spec, ReallocRetiresOnlyOld
<1>3. QED
  BY <1>1, <1>2
=============================================================================
