--------------------------- MODULE MCHeapTracker ---------------------------
(* Instances of HeapTracker and CopyChecker for TLC: call mixes, symmetry. *)
EXTENDS CopyChecker, TLC

CCalls   == {"malloc", "strdup", "realloc", "free"}
CxxCalls == {"malloc", "new", "free", "delete"}
AllCalls == AllocCalls \cup ReleaseCalls \cup {"realloc"}

Symmetry == Permutations(Threads)
=============================================================================
