---------------------------- MODULE HeapTracker ----------------------------
(***************************************************************************)
(* The allocation half of the BPF heap tracker                             *)
(* (recompile/runtime/bpf/heap_tracker.bpf.c) for one observed process.    *)
(*                                                                         *)
(* Threads of the process call the allocator.  Probes fire at the entry of *)
(* free/delete and at the entry and the return of every allocation         *)
(* function; they keep three maps (allocs, alloc_ranges, freed) and push   *)
(* events into a ring buffer that the agent drains.  libc itself is        *)
(* external: it decides which block a call gets and when a block can be    *)
(* handed out again.  The maps only know what the probes saw, so every     *)
(* interesting error is a gap between `heap' (what libc did) and the maps. *)
(*                                                                         *)
(* One probe is one step, except record_deallocation, whose lookups and    *)
(* whose updates are two steps (two threads may release one address at the *)
(* same time).  Another thread may run between the probes of one call.     *)
(***************************************************************************)
EXTENDS Naturals, Sequences

CONSTANTS
  Threads,        \* threads of the observed process
  Addrs,          \* addresses the allocator can hand out: byte numbers
  Sizes,          \* byte sizes the program asks for
  PageSize,       \* bytes of a page of the range index
  RangeSlots,     \* RE_ALLOC_RANGE_SLOTS: ranges the index holds of one page
  SpanMax,        \* RE_ALLOC_PAGE_SPAN_MAX: pages of one block it indexes
  Calls,          \* the allocator functions the program calls
  RingCap,        \* events the ring buffer can hold
  None,           \* absent map entry, NULL pointer
  Misuse,         \* wrong releases the program makes: "again", "wrongCall"
  ReallocReleases,\* TRUE: realloc may release its argument (move, size 0)
  Evicts,         \* TRUE: the LRU maps may evict an entry
  KeepsUp         \* TRUE: the agent drains before the ring is ever full

AllocCalls  == {"malloc", "new", "new[]", "strdup"}
ReleaseCalls == {"free", "delete", "delete[]"}

ASSUME ConstantsAssumption ==
  /\ Addrs \subseteq Nat \ {0} /\ Sizes \subseteq Nat
  /\ {PageSize, RangeSlots, SpanMax} \subseteq Nat \ {0}
  /\ Calls \subseteq AllocCalls \cup ReleaseCalls \cup {"realloc"}
  /\ RingCap \in Nat \ {0}
  /\ None \notin Nat
  /\ Misuse \subseteq {"again", "wrongCall"}
  /\ {ReallocReleases, Evicts, KeepsUp} \subseteq BOOLEAN

AllocFamilies   == {"MALLOC", "NEW", "NEW_ARRAY"}
DeallocFamilies == {"FREE", "DELETE", "DELETE_ARRAY"}

(* The family of memory an allocation call returns, and the family of the  *)
(* release function it must be given back with.                            *)
FamilyOf(op) ==
  CASE op = "new"   -> "NEW"
    [] op = "new[]" -> "NEW_ARRAY"
    [] OTHER        -> "MALLOC"

DeallocOf(op) ==
  CASE op = "delete"   -> "DELETE"
    [] op = "delete[]" -> "DELETE_ARRAY"
    [] OTHER           -> "FREE"

alloc_family_matches_dealloc(family, dealloc) ==
  CASE family = "MALLOC"    -> dealloc = "FREE"
    [] family = "NEW"       -> dealloc = "DELETE"
    [] family = "NEW_ARRAY" -> dealloc = "DELETE_ARRAY"

VARIABLES
  (* libc and the program, external *)
  heap,         \* what is at each address: nothing yet, a block, a dead one
  owned,        \* addresses the program holds and no call has been given
  pc,           \* where each thread is in its current allocator call
  call,         \* the arguments and the result of that call
  (* the BPF maps *)
  pending,      \* tid -> size remembered at entry, for the return probe
  realloc_old,  \* tid -> realloc's pointer argument
  allocs,       \* address -> live allocation record
  alloc_ranges, \* page -> byte ranges of blocks on it, for the copy checker
  freed,        \* address -> record of a released allocation
  armed,        \* RE_SENTINEL_STATE_ARMED of the process
  looked,       \* what record_deallocation's two lookups returned
  ring          \* sentinel_events: submitted, not yet consumed

program  == <<heap, owned, pc, call>>
scratch  == <<pending, realloc_old>>
tracking == <<allocs, alloc_ranges, freed, armed>>
vars == <<program, scratch, tracking, looked, ring>>

----------------------------------------------------------------------------
(* Types.  `truth' is a ghost: what the release call really was.           *)

(* A live block or an allocation record; what libc has at an address. *)
Block      == [size : Sizes \cup {0}, family : AllocFamilies]
Cell       == [state : {"unborn", "live", "dead"},
               size : Sizes \cup {0}, family : AllocFamilies]
FreedBlock == [family : AllocFamilies, dealloc : DeallocFamilies]

(* The pages on which a block is indexed, and a page's bucket of ranges.   *)
PagesOf(a, size) ==
  LET last == (a + size - 1) \div PageSize
  IN IF size = 0 THEN {}
     ELSE {p \in a \div PageSize .. last : p < a \div PageSize + SpanMax}

Pages       == UNION {PagesOf(a, n) : a \in Addrs, n \in Sizes}
Slots       == 0..RangeSlots - 1
ByteRange   == [base : Addrs \cup {0}, size : Sizes \cup {0}]
NoRange     == [base |-> 0, size |-> 0]
EmptyBucket == [i \in Slots |-> NoRange]

Statuses   == {"OK", "DOUBLE", "INVALID", "MISMATCH"}
Truths     == {"legal", "double", "invalid", "mismatch"}
Event      == [type : {"MALLOC"}] \cup
              [type : {"FREE"}, status : Statuses, truth : Truths,
               family : AllocFamilies \cup {"UNKNOWN"},
               dealloc : DeallocFamilies]

Where == {"user", "malloc", "mallocRet", "wrapRet", "realloc", "reallocRet",
          "dealloc", "inner", "release"}

(* ptr: the pointer given, ret: the pointer libc returns, dealloc: the     *)
(* family of the release probe that is running.                            *)
Call == [op : AllocCalls \cup ReleaseCalls \cup {"realloc"},
         ptr : Addrs \cup {None}, ret : Addrs \cup {None},
         size : Sizes \cup {0}, dealloc : DeallocFamilies,
         truth : Truths]

(* None is no record, whatever value a configuration gives it. *)
ASSUME NoneAssumption == None \notin Block \cup FreedBlock \cup Call

TypeOK ==
  /\ heap \in [Addrs -> Cell]
  /\ owned \in SUBSET Addrs
  /\ pc \in [Threads -> Where]
  /\ call \in [Threads -> Call \cup {None}]
  /\ pending \in [Threads -> Sizes \cup {None}]
  /\ realloc_old \in [Threads -> Addrs \cup {None}]
  /\ allocs \in [Addrs -> Block \cup {None}]
  /\ alloc_ranges \in [Pages -> [Slots -> ByteRange]]
  /\ freed \in [Addrs -> FreedBlock \cup {None}]
  /\ armed \in BOOLEAN
  /\ looked \in [Threads -> [info : Block \cup {None},
                             prev : FreedBlock \cup {None}]]
  /\ ring \in Seq(Event)
  /\ Len(ring) <= RingCap

Nothing == [info |-> None, prev |-> None]
Empty(state) == [state |-> state, size |-> 0, family |-> "MALLOC"]
LiveCell(n, family) == [state |-> "live", size |-> n, family |-> family]

Init ==
  /\ heap = [a \in Addrs |-> Empty("unborn")]
  /\ owned = {}
  /\ pc = [t \in Threads |-> "user"]
  /\ call = [t \in Threads |-> None]
  /\ pending = [t \in Threads |-> None]
  /\ realloc_old = [t \in Threads |-> None]
  /\ allocs = [a \in Addrs |-> None]
  /\ alloc_ranges = [p \in Pages |-> EmptyBucket]
  /\ freed = [a \in Addrs |-> None]
  /\ armed \in BOOLEAN        \* prearm_target_state can fail
  /\ looked = [t \in Threads |-> Nothing]
  /\ ring = <<>>

----------------------------------------------------------------------------
(* The ring buffer: sentinel_event_reserve fails on a full ring and the    *)
(* probe goes on, or gives up, without the event.                          *)

HasRoom_OffByOne == Len(ring) <= RingCap     \* mutant
HasRoom == Len(ring) < RingCap
Submit(e) == HasRoom /\ ring' = Append(ring, e)
Dropped == ~HasRoom /\ ~KeepsUp /\ UNCHANGED ring

(* The agent's ring_buffer__poll takes the oldest event.                   *)
Consume ==
  /\ ring # <<>>
  /\ ring' = Tail(ring)
  /\ UNCHANGED <<program, scratch, tracking, looked>>

----------------------------------------------------------------------------
(* Allocation.                                                             *)

Live(a) == heap[a].state = "live"

(* n bytes from a on touch none of the blocks at B; malloc(0) takes room.  *)
Extent(n) == IF n = 0 THEN 1 ELSE n
Vacant(a, n, B) ==
  \A b \in B : Live(b) => a + Extent(n) <= b \/ b + Extent(heap[b].size) <= a

Return(t) == pc' = [pc EXCEPT ![t] = "user"]

(* clear_range_slot and store_range_slot: the first slot that is free or   *)
(* the block's own, or else slot 0, whosever it is.                        *)
clear_range_slot(bucket, a) ==
  [i \in Slots |-> IF bucket[i].base = a THEN NoRange ELSE bucket[i]]

SlotFor(bucket, a) ==
  LET usable == {i \in Slots : bucket[i].base \in {a, 0}}
  IN IF usable = {} THEN 0 ELSE CHOOSE i \in usable : \A j \in usable : i <= j

store_range_slot(bucket, a, size) ==
  [bucket EXCEPT ![SlotFor(bucket, a)] = [base |-> a, size |-> size]]

(* Both leave the index alone for an allocation of unknown (0) size.       *)
remove_allocation_range_Head(ranges, a, size) ==    \* mutant
  [p \in Pages |-> IF p \in PagesOf(a, size) /\ p = a \div PageSize
     THEN clear_range_slot(ranges[p], a) ELSE ranges[p]]
remove_allocation_range(ranges, a, size) ==
  [p \in Pages |-> IF p \in PagesOf(a, size)
     THEN clear_range_slot(ranges[p], a) ELSE ranges[p]]

index_allocation_range(ranges, a, size) ==
  [p \in Pages |-> IF p \in PagesOf(a, size)
     THEN store_range_slot(ranges[p], a, size) ELSE ranges[p]]

RangeWithout(ranges, a, old) ==
  IF old = None THEN ranges ELSE remove_allocation_range(ranges, a, old.size)

(* Without a remembered size only the C++ families are tracked, with size  *)
(* 0.  The new owner of an address starts without a release record.        *)
Tracked_SizedOnly(ret, size, family) ==      \* mutant
  ret # None /\ size # None
Tracked(ret, size, family) ==
  ret # None /\ (size # None \/ family # "MALLOC")

Revived_Stale(records, ret) == records       \* mutant
Revived(records, ret) == [records EXCEPT ![ret] = None]

(* record_allocation_return: `maps' are allocs, alloc_ranges and freed as  *)
(* the probe found them.                                                   *)
record_allocation_return(maps, ret, size, family) ==
  LET info == [size |-> IF size = None THEN 0 ELSE size, family |-> family]
  IN /\ IF Tracked(ret, size, family)
          THEN /\ armed' = TRUE
               /\ freed' = Revived(maps.freed, ret)
               /\ allocs' = [maps.allocs EXCEPT ![ret] = info]
               /\ alloc_ranges' =
                    index_allocation_range(
                      RangeWithout(maps.ranges, ret, maps.allocs[ret]),
                      ret, info.size)
          ELSE /\ armed' = armed
               /\ freed' = maps.freed
               /\ allocs' = maps.allocs
               /\ alloc_ranges' = maps.ranges
     /\ IF ret = None THEN UNCHANGED ring
        ELSE Submit([type |-> "MALLOC"]) \/ Dropped

Maps == [allocs |-> allocs, ranges |-> alloc_ranges, freed |-> freed]

(* malloc and its wrappers.  A wrapper (operator new, strdup) calls malloc *)
(* itself: both entry probes remember the size under the same tid, and     *)
(* nothing but this thread touches that slot.  new[] calls new, whose      *)
(* record new[]'s own return probe replaces before the program gets the    *)
(* block; the nesting is one level here.  calloc, aligned_alloc and        *)
(* posix_memalign have hooks that do what malloc's do and are malloc here. *)
CallAlloc(t, op, n) ==
  /\ pc[t] = "user"
  /\ op \in Calls \cap AllocCalls
  /\ call' = [call EXCEPT ![t] = [op |-> op, ptr |-> None, ret |-> None,
                size |-> n, dealloc |-> "FREE", truth |-> "legal"]]
  /\ pending' = [pending EXCEPT ![t] = n]
  /\ pc' = [pc EXCEPT ![t] = "malloc"]
  /\ UNCHANGED <<heap, owned, realloc_old, tracking, looked, ring>>

(* libc picks a block, or fails. *)
LibcAlloc(t) ==
  /\ pc[t] = "malloc"
  /\ \/ \E a \in Addrs :
          /\ ~Live(a) /\ Vacant(a, call[t].size, Addrs)
          /\ heap' = [heap EXCEPT ![a] =
               LiveCell(call[t].size, FamilyOf(call[t].op))]
          /\ call' = [call EXCEPT ![t].ret = a]
     \/ UNCHANGED <<heap, call>>
  /\ pc' = [pc EXCEPT ![t] = "mallocRet"]
  /\ UNCHANGED <<owned, scratch, tracking, looked, ring>>

(* The program gets the result.                                            *)
HandOver(t) ==
  /\ owned' = owned \cup ({call[t].ret} \ {None})
  /\ call' = [call EXCEPT ![t] = None]
  /\ Return(t)
  /\ UNCHANGED heap

(* u_malloc_exit: takes the remembered size.  A failed malloc makes        *)
(* operator new throw, so its return probe does not run; strdup's does,    *)
(* and does nothing for NULL.                                              *)
MallocExit(t) ==
  /\ pc[t] = "mallocRet"
  /\ pending' = [pending EXCEPT ![t] = None]
  /\ record_allocation_return(Maps, call[t].ret, pending[t], "MALLOC")
  /\ IF call[t].op = "malloc" \/ call[t].ret = None
       THEN HandOver(t)
       ELSE /\ pc' = [pc EXCEPT ![t] = "wrapRet"]
            /\ UNCHANGED <<heap, owned, call>>
  /\ UNCHANGED <<realloc_old, looked>>

(* u_cxx_new_exit, u_cxx_new_array_exit, u_strdup_exit: malloc's return    *)
(* probe has already taken the size.                                       *)
WrapperExit(t) ==
  /\ pc[t] = "wrapRet"
  /\ pending' = [pending EXCEPT ![t] = None]
  /\ record_allocation_return(Maps, call[t].ret, pending[t],
                              FamilyOf(call[t].op))
  /\ HandOver(t)
  /\ UNCHANGED <<realloc_old, looked>>

----------------------------------------------------------------------------
(* realloc.                                                                *)

(* u_realloc_enter: a non-NULL argument is remembered beside the size. The *)
(* program gives its pointer away for the duration of the call.            *)
CallRealloc(t, p, n) ==
  /\ pc[t] = "user"
  /\ "realloc" \in Calls
  /\ p \in owned \cup {None}
  /\ p # None => heap[p].family = "MALLOC" /\ (n = 0 => ReallocReleases)
  /\ call' = [call EXCEPT ![t] = [op |-> "realloc", ptr |-> p, ret |-> None,
                size |-> n, dealloc |-> "FREE", truth |-> "legal"]]
  /\ owned' = owned \ {p}
  /\ realloc_old' = [realloc_old EXCEPT ![t] = IF p = None THEN @ ELSE p]
  /\ pending' = [pending EXCEPT ![t] = n]
  /\ pc' = [pc EXCEPT ![t] = "realloc"]
  /\ UNCHANGED <<heap, tracking, looked, ring>>

(* libc resizes in place, moves the block, allocates a first block, frees  *)
(* on size 0, or fails.  From here on a released block can be handed out   *)
(* to another thread, although the return probe has not run.               *)
LibcRealloc(t) ==
  LET p == call[t].ptr
      new == LiveCell(call[t].size, "MALLOC")
      released == IF p = None THEN heap ELSE [heap EXCEPT ![p] = Empty("dead")]
      Result(a) == call' = [call EXCEPT ![t].ret = a]
  IN /\ pc[t] = "realloc"
     /\ \/ /\ p # None /\ call[t].size # 0       \* in place
           /\ Vacant(p, call[t].size, Addrs \ {p})
           /\ heap' = [heap EXCEPT ![p] = new]
           /\ Result(p)
        \/ \E a \in Addrs :                      \* moved, or a first block
             /\ ~Live(a) /\ Vacant(a, call[t].size, Addrs)
             /\ p = None \/ (ReallocReleases /\ call[t].size # 0)
             /\ heap' = [released EXCEPT ![a] = new]
             /\ Result(a)
        \/ /\ p # None /\ call[t].size = 0 /\ ReallocReleases
           /\ heap' = released                   \* realloc(p, 0)
           /\ UNCHANGED call
        \/ /\ p = None \/ call[t].size # 0       \* out of memory
           /\ UNCHANGED <<heap, call>>
     /\ pc' = [pc EXCEPT ![t] = "reallocRet"]
     /\ UNCHANGED <<owned, scratch, tracking, looked, ring>>

(* mark_allocation_freed: the record of a, if there is one, goes from      *)
(* allocs to freed as if free had released it.                             *)
mark_allocation_freed(a) ==
  IF a = None \/ allocs[a] = None THEN Maps
  ELSE [allocs |-> [allocs EXCEPT ![a] = None],
        ranges |-> RangeWithout(alloc_ranges, a, allocs[a]),
        freed  |-> [freed EXCEPT ![a] =
                     [family |-> allocs[a].family, dealloc |-> "FREE"]]]

(* What u_realloc_exit marks: the old pointer after a move, or after a     *)
(* NULL return for size 0.                                                 *)
ReallocMarks_Failed(t) ==                    \* mutant
  IF call[t].ret # realloc_old[t] THEN realloc_old[t] ELSE None
ReallocMarks(t) ==
  LET old == realloc_old[t]
      ret == call[t].ret
  IN IF ret = None THEN IF pending[t] = 0 THEN old ELSE None
     ELSE IF old # ret THEN old ELSE None

(* The return probe empties the slot, so that the next realloc(NULL, n) of *)
(* the thread does not find it.                                            *)
TakeReallocOld_Kept(t) == UNCHANGED realloc_old    \* mutant
TakeReallocOld(t) == realloc_old' = [realloc_old EXCEPT ![t] = None]

(* u_realloc_exit.  After a failed resize the program still holds the old  *)
(* pointer.                                                                *)
ReallocExit(t) ==
  /\ pc[t] = "reallocRet"
  /\ pending' = [pending EXCEPT ![t] = None]
  /\ TakeReallocOld(t)
  /\ record_allocation_return(mark_allocation_freed(ReallocMarks(t)),
                              call[t].ret, pending[t], "MALLOC")
  /\ owned' = owned \cup
       ((IF call[t].ret = None /\ call[t].size # 0 THEN {call[t].ptr}
         ELSE {call[t].ret}) \ {None})
  /\ call' = [call EXCEPT ![t] = None]
  /\ Return(t)
  /\ UNCHANGED <<heap, looked>>

----------------------------------------------------------------------------
(* Release.                                                                *)

(* What a release of p by op would be.                                     *)
Truth(op, p) ==
  CASE p \in owned ->
         IF alloc_family_matches_dealloc(heap[p].family, DeallocOf(op))
           THEN "legal" ELSE "mismatch"
    [] heap[p].state = "unborn" -> "invalid"
    [] OTHER -> "double"

(* The program releases what it owns; under Misuse also with the wrong     *)
(* function, or a pointer that is dead, was never handed out, or is in the *)
(* middle of another release.                                              *)
BeingReleased(p) ==
  \E t \in Threads : pc[t] \in {"dealloc", "inner", "release"} /\ call[t].ptr = p

MayRelease(op, p) ==
  \/ Truth(op, p) = "legal"
  \/ Truth(op, p) = "mismatch" /\ "wrongCall" \in Misuse
  \/ Truth(op, p) \in {"double", "invalid"} /\ "again" \in Misuse
       /\ (~Live(p) \/ BeingReleased(p))

(* The entry of free/delete: the program gives p away and the two lookups  *)
(* of record_deallocation run.                                             *)
CallRelease(t, op, p) ==
  /\ pc[t] = "user"
  /\ op \in Calls \cap ReleaseCalls
  /\ MayRelease(op, p)
  /\ call' = [call EXCEPT ![t] = [op |-> op, ptr |-> p, ret |-> None,
                size |-> 0, dealloc |-> DeallocOf(op), truth |-> Truth(op, p)]]
  /\ owned' = owned \ {p}
  /\ looked' = [looked EXCEPT ![t] = [info |-> allocs[p], prev |-> freed[p]]]
  /\ pc' = [pc EXCEPT ![t] = "dealloc"]
  /\ UNCHANGED <<heap, scratch, tracking, ring>>

(* libstdc++'s operator delete releases the storage with free: free's      *)
(* entry probe runs inside the call.  delete[] and the sized delete call   *)
(* delete first; when the outer probe has taken the record that one is     *)
(* swallowed and changes nothing, and when the outer probe's event was     *)
(* dropped it does what free's does here.  The nesting is one level here.  *)
InnerFree(t) ==
  /\ pc[t] = "inner"
  /\ call' = [call EXCEPT ![t].dealloc = "FREE"]
  /\ looked' = [looked EXCEPT ![t] =
       [info |-> allocs[call[t].ptr], prev |-> freed[call[t].ptr]]]
  /\ pc' = [pc EXCEPT ![t] = "dealloc"]
  /\ UNCHANGED <<heap, owned, scratch, tracking, ring>>

(* record_deallocation after its lookups.                                  *)
FreeStatus_NoHistory(info, prev, dealloc) == \* mutant
  IF info = None THEN "INVALID"
  ELSE IF alloc_family_matches_dealloc(info.family, dealloc) THEN "OK"
       ELSE "MISMATCH"
FreeStatus_NoFamily(info, prev, dealloc) ==  \* mutant
  IF info # None THEN "OK" ELSE IF prev = None THEN "INVALID" ELSE "DOUBLE"
FreeStatus(info, prev, dealloc) ==
  IF info = None
    THEN IF prev = None THEN "INVALID" ELSE "DOUBLE"
    ELSE IF alloc_family_matches_dealloc(info.family, dealloc) THEN "OK"
         ELSE "MISMATCH"

FreeFamily(info, prev) ==
  IF info # None THEN info.family
  ELSE IF prev # None THEN prev.family ELSE "UNKNOWN"

(* An address that a C++ delete released is skipped; free's own probe also *)
(* forgets it.                                                             *)
Swallowed_Never(info, prev) == FALSE         \* mutant
Swallowed(info, prev) ==
  info = None /\ prev # None /\ prev.dealloc \in {"DELETE", "DELETE_ARRAY"}

SkipAfterDelete(t) ==
  /\ Swallowed(looked[t].info, looked[t].prev)
  /\ freed' = IF call[t].dealloc = "FREE"
                THEN [freed EXCEPT ![call[t].ptr] = None] ELSE freed
  /\ UNCHANGED <<allocs, alloc_ranges, armed, ring>>

(* The arming gate stops benign frees only.  The event is reserved before  *)
(* the maps change: on a full ring the probe returns and the record stays  *)
(* live.                                                                   *)
ReportRelease(t) ==
  LET l == looked[t]
      p == call[t].ptr
      d == call[t].dealloc
      status == FreeStatus(l.info, l.prev, d)
  IN /\ ~Swallowed(l.info, l.prev)
     /\ IF ~armed /\ status = "OK" THEN UNCHANGED <<tracking, ring>>
        ELSE \/ /\ Dropped
                /\ UNCHANGED tracking
             \/ /\ Submit([type |-> "FREE", status |-> status,
                           truth |-> call[t].truth,
                           family |-> FreeFamily(l.info, l.prev),
                           dealloc |-> d])
                /\ IF l.info = None THEN UNCHANGED tracking
                   ELSE /\ allocs' = [allocs EXCEPT ![p] = None]
                        /\ alloc_ranges' = RangeWithout(alloc_ranges, p, l.info)
                        /\ freed' = [freed EXCEPT ![p] =
                             [family |-> l.info.family, dealloc |-> d]]
                        /\ UNCHANGED armed

(* The probe ends; delete goes on to free, everything else to libc.        *)
ReleaseProbe(t) ==
  /\ pc[t] = "dealloc"
  /\ SkipAfterDelete(t) \/ ReportRelease(t)
  /\ pc' = [pc EXCEPT ![t] =
       IF call[t].dealloc = "FREE" THEN "release" ELSE "inner"]
  /\ looked' = [looked EXCEPT ![t] = Nothing]
  /\ UNCHANGED <<heap, owned, call, scratch>>

(* libc takes the block back.  An illegal release has no effect on libc's  *)
(* own heap here (glibc usually aborts the process).                       *)
LibcFree(t) ==
  /\ pc[t] = "release"
  /\ heap' = IF call[t].truth \in {"legal", "mismatch"}
               THEN [heap EXCEPT ![call[t].ptr] = Empty("dead")] ELSE heap
  /\ call' = [call EXCEPT ![t] = None]
  /\ Return(t)
  /\ UNCHANGED <<owned, scratch, tracking, looked, ring>>

----------------------------------------------------------------------------
(* A full BPF LRU map evicts a record to make room for another process or  *)
(* for this one.                                                           *)
EvictAlloc(a) ==
  /\ Evicts /\ allocs[a] # None
  /\ allocs' = [allocs EXCEPT ![a] = None]
  /\ UNCHANGED <<program, scratch, alloc_ranges, freed, armed, looked, ring>>

EvictRange(p) ==
  /\ Evicts /\ alloc_ranges[p] # EmptyBucket
  /\ alloc_ranges' = [alloc_ranges EXCEPT ![p] = EmptyBucket]
  /\ UNCHANGED <<program, scratch, allocs, freed, armed, looked, ring>>

EvictFreed(a) ==
  /\ Evicts /\ freed[a] # None
  /\ freed' = [freed EXCEPT ![a] = None]
  /\ UNCHANGED <<program, scratch, allocs, alloc_ranges, armed, looked, ring>>

Next ==
  \/ \E t \in Threads :
       \/ \E op \in AllocCalls, n \in Sizes : CallAlloc(t, op, n)
       \/ \E p \in Addrs \cup {None}, n \in Sizes : CallRealloc(t, p, n)
       \/ \E op \in ReleaseCalls, p \in Addrs : CallRelease(t, op, p)
       \/ LibcAlloc(t) \/ MallocExit(t) \/ WrapperExit(t)
       \/ LibcRealloc(t) \/ ReallocExit(t)
       \/ InnerFree(t) \/ ReleaseProbe(t) \/ LibcFree(t)
  \/ \E a \in Addrs : EvictAlloc(a) \/ EvictFreed(a)
  \/ \E p \in Pages : EvictRange(p)
  \/ Consume

Spec == Init /\ [][Next]_vars

----------------------------------------------------------------------------
(* Properties.                                                             *)

FreeEvents == {ring[i] : i \in {j \in 1..Len(ring) : ring[j].type = "FREE"}}

(* No release that the program was entitled to make is submitted as a      *)
(* double, invalid or mismatched free; free inside operator delete counts  *)
(* as part of the delete (record_deallocation).                            *)
NoFalseAlarm == \A e \in FreeEvents : e.truth = "legal" => e.status = "OK"

(* Even when the LRU maps lose records, a legal release is at worst        *)
(* unknown: it is never put down to another release or another allocator.  *)
NeverBlamedOnAnother ==
  \A e \in FreeEvents : e.truth = "legal" => e.status \notin {"DOUBLE", "MISMATCH"}

(* A block in the program's hands has a record of its own family: the maps *)
(* have neither lost it nor taken it for an earlier block at its address,  *)
(* whatever other threads' probes did in the meantime.                     *)
OwnedTracked ==
  \A a \in owned : allocs[a] # None /\ allocs[a].family = heap[a].family

(* The release probe of a wrong release submits an event saying what is    *)
(* wrong; the probe is the one of the function the program called, not of  *)
(* the free inside delete.                                                 *)
Answers(t, truth, status) ==
  pc[t] = "dealloc" /\ pc'[t] # "dealloc" /\ call[t].truth = truth
    /\ call[t].dealloc = DeallocOf(call[t].op)
    => ring' # ring /\ ring'[Len(ring')].status = status

MisuseAnswered ==
  \A t \in Threads :
    Answers(t, "double", "DOUBLE") /\ Answers(t, "invalid", "INVALID")
MismatchAnswered == \A t \in Threads : Answers(t, "mismatch", "MISMATCH")

(* A C program that frees a pointer again, or one it never had, gets an    *)
(* event for it, DOUBLE for the first and INVALID for the second.          *)
MisuseClassified == [][MisuseAnswered]_vars

(* A block given to the wrong release function gets a MISMATCH event, on   *)
(* any thread, whatever the other threads release meanwhile.               *)
MismatchSeen == [][MismatchAnswered]_vars

RetiresOnlyOld ==
  \A t \in Threads : pc[t] = "reallocRet" /\ pc'[t] = "user" =>
    \A a \in owned : allocs'[a] = allocs[a]

(* The return probe of realloc retires the pointer realloc was given and   *)
(* no block that the program owns (u_realloc_exit).                        *)
ReallocRetiresOnlyOld == [][RetiresOnlyOld]_vars

=============================================================================
