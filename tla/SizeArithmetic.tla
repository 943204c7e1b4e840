--------------------------- MODULE SizeArithmetic ---------------------------
(***************************************************************************)
(* The arithmetic on byte sizes that the BPF programs do for themselves,   *)
(* at any width: a half word has `half' values, a word half * half.        *)
(***************************************************************************)
EXTENDS Naturals

(* A word as its upper and its lower half. *)
Halves(half) == [hi : 0..half - 1, lo : 0..half - 1]
Value(w, half) == w.hi * half + w.lo

(* Addition in a word: the sum wraps around once at most. *)
WrappingAdd(x, y, half) ==
  IF x + y >= half * half THEN x + y - half * half ELSE x + y

(* mul_overflow_u64: the product by halves, since eBPF has no 128-bit      *)
(* product to look at.  out is written only when the product fits.         *)
mul_overflow_u64(a, b, half) ==
  LET mid == a.hi * b.lo + b.hi * a.lo
      low == a.lo * b.lo
      res == WrappingAdd(mid * half, low, half)
  IN IF (a.hi # 0 /\ b.hi # 0) \/ mid >= half \/ res < low
       THEN [overflow |-> TRUE, out |-> 0]
       ELSE [overflow |-> FALSE, out |-> res]

(* The size that calloc's entry probe remembers: 0, an unknown size, for a *)
(* product that calloc refuses.                                            *)
CallocSize(nmemb, size, half) == mul_overflow_u64(nmemb, size, half).out

(* The event has 32 bits for what may be a 64-bit number. *)
saturate_u32(n, max) == IF n > max THEN max ELSE n
=============================================================================
