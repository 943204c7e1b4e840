---------------------------- MODULE CopyChecker ----------------------------
(***************************************************************************)
(* The copy checker (recompile/runtime/bpf/copy_checker.bpf.c) beside the  *)
(* allocation tracker whose maps it reads: what it makes of a memcpy,      *)
(* memmove, memset, strcpy or strncpy, and what the agent makes of that.   *)
(*                                                                         *)
(* The hook runs at the entry of the call, reads the maps once and changes *)
(* none, so a write is no step: the properties ask, in every state, about  *)
(* every write that the program could make into a block it holds.          *)
(*                                                                         *)
(* A write that does not start at the first byte of a block is looked up   *)
(* in the range index, which has few slots per page and few pages per      *)
(* block: a range that no longer fits is lost while its block lives on.    *)
(***************************************************************************)
EXTENDS HeapTracker, SizeArithmetic, FiniteSets

CONSTANTS
  U32Max,     \* the largest number an event can hold
  StringMax,  \* RE_STRING_COPY_MAX: what is read of the source of a strcpy
  Lengths     \* how many bytes the program writes

ASSUME CopyAssumption ==
  U32Max \in Nat /\ StringMax \in Nat /\ Lengths \subseteq Nat

VARIABLE
  crowded     \* history: pages that once had more blocks to index than slots

(* The blocks whose range belongs on page p.                               *)
OnPage(records, p) ==
  {a \in Addrs : records[a] # None /\ p \in PagesOf(a, records[a].size)}

CopyInit == Init /\ crowded = {}
CopyNext ==
  /\ Next
  /\ crowded' = crowded \cup
       {p \in Pages : Cardinality(OnPage(allocs', p)) > RangeSlots}
CopySpec == CopyInit /\ [][CopyNext]_<<vars, crowded>>

----------------------------------------------------------------------------
Apis == {"mem", "strcpy"}    \* strncpy pads, so it writes like memset

(* on_memcpy and its siblings: of a string no more than the buffer is seen.*)
SeenLength(api, n) == IF api = "strcpy" /\ n > StringMax THEN StringMax ELSE n

(* lookup_alloc_range: the first range of dst's page that contains dst.    *)
Containing(dst) ==
  LET page == dst \div PageSize
  IN {i \in Slots : /\ page \in Pages
                    /\ alloc_ranges[page][i].base # 0
                    /\ alloc_ranges[page][i].base <= dst
                    /\ dst - alloc_ranges[page][i].base < alloc_ranges[page][i].size}

lookup_alloc_range(dst) ==
  LET found == Containing(dst)
  IN IF found = {} THEN NoRange
     ELSE alloc_ranges[dst \div PageSize][CHOOSE i \in found : \A j \in found : i <= j]

(* record_heap_write: a record at the destination comes first, also when   *)
(* its size is unknown; the ranges are for destinations inside a block.    *)
Destination(dst) ==
  IF dst \in Addrs /\ allocs[dst] # None
    THEN [size |-> allocs[dst].size, offset |-> 0]
    ELSE LET range == lookup_alloc_range(dst)
         IN [size |-> range.size,
             offset |-> IF range = NoRange THEN 0 ELSE dst - range.base]

Narrowed_Truncated(n) == n % (U32Max + 1)    \* mutant
Narrowed(n) == saturate_u32(n, U32Max)

WriteEvent(dst, len) ==
  LET d == Destination(dst)
  IN [len |-> Narrowed(len), alloc_size |-> Narrowed(d.size),
      alloc_offset |-> Narrowed(d.offset)]

(* on_sentinel_event *)
Overflows(e) ==
  /\ e.alloc_size # 0
  /\ e.alloc_offset < e.alloc_size
  /\ e.len > e.alloc_size - e.alloc_offset

Reported(dst, len) == armed /\ Overflows(WriteEvent(dst, len))

----------------------------------------------------------------------------
(* A write of n bytes at offset off of the block at a is judged rightly:   *)
(* not reported if it stays in the block, and reported if it leaves it and *)
(* the tracker can know (of strings only what is seen counts).             *)
Judged(a, off, n, api, knowable) ==
  LET len == SeenLength(api, n)
      size == heap[a].size
  IN /\ off + n <= size => ~Reported(a + off, len)
     /\ off < size /\ off + len > size /\ knowable => Reported(a + off, len)

(* A block of 4 GiB or more does not fit the event; a block that operator  *)
(* new returned is recorded without a size.                                *)
Fits(a) == heap[a].size < U32Max
SizeKnown(a) == allocs[a] # None /\ allocs[a].size # 0

(* A write from the first byte of a block in use, while other threads run  *)
(* in the allocator: it is reported if it leaves the block and the block's *)
(* size is known, and not if it stays inside, whatever earlier blocks at   *)
(* the address have left in the maps.                                      *)
HeadJudged ==
  \A a \in owned : Fits(a) =>
    \A n \in Lengths, api \in Apis : Judged(a, 0, n, api, SizeKnown(a))

(* The index has the range of the block at a for its byte at a + off: the  *)
(* page is among the SpanMax first ones of the block, and never had more   *)
(* blocks than slots.                                                      *)
Indexed(a, off) ==
  LET page == (a + off) \div PageSize
  IN page \in PagesOf(a, heap[a].size) /\ page \notin crowded

(* A write from any byte of a block in use, while no call of the allocator *)
(* is under way: never reported if it stays in the block, however the index*)
(* has been overrun, and reported if it leaves the block, its size is      *)
(* known and the index can have its range.                                 *)
WriteJudged ==
  (\A t \in Threads : pc[t] = "user") =>
    \A a \in owned : Fits(a) =>
      \A off \in 0..heap[a].size, n \in Lengths, api \in Apis :
        Judged(a, off, n, api, SizeKnown(a) /\ (off = 0 \/ Indexed(a, off)))
=============================================================================
