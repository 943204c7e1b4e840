------------------------ MODULE SizeArithmetic_proofs ------------------------
(* That the product by halves is the product, at every width.              *)
EXTENDS SizeArithmetic, TLAPS

LEMMA ProductMonotone ==
  ASSUME NEW a \in Nat, NEW b \in Nat, NEW c \in Nat, a <= b
  PROVE  a * c <= b * c
OBVIOUS

(* The product in terms of the halves.                                     *)
LEMMA ProductByHalves ==
  ASSUME NEW half \in Nat \ {0}, NEW a \in Halves(half), NEW b \in Halves(half)
  PROVE  Value(a, half) * Value(b, half) =
           (a.hi * b.hi) * (half * half)
             + (a.hi * b.lo + b.hi * a.lo) * half + a.lo * b.lo
BY DEF Halves, Value

(* mul_overflow_u64 says "overflow" exactly when the product does not fit  *)
(* a word, and gives the product otherwise: calloc's block is recorded with*)
(* its size, whatever the operands (heap_tracker.bpf.c).                   *)
THEOREM CallocProductExact ==
  ASSUME NEW half \in Nat \ {0}, NEW a \in Halves(half), NEW b \in Halves(half)
  PROVE  LET product == Value(a, half) * Value(b, half)
             r == mul_overflow_u64(a, b, half)
         IN /\ r.overflow <=> product >= half * half
            /\ ~r.overflow => r.out = product
<1> DEFINE mid == a.hi * b.lo + b.hi * a.lo
           low == a.lo * b.lo
           word == half * half
           product == Value(a, half) * Value(b, half)
           res == WrappingAdd(mid * half, low, half)
<1>1. /\ a.hi \in Nat /\ a.lo \in Nat /\ b.hi \in Nat /\ b.lo \in Nat
      /\ a.lo <= half - 1 /\ b.lo <= half - 1
  BY DEF Halves
<1>2. mid \in Nat /\ low \in Nat /\ word \in Nat /\ mid * half \in Nat
  BY <1>1
<1>3. product = (a.hi * b.hi) * word + mid * half + low
  BY ProductByHalves
<1>4. low < word
  <2>1. low <= half * b.lo
    BY <1>1, ProductMonotone
  <2>2. b.lo * half <= (half - 1) * half
    BY <1>1, ProductMonotone
  <2>3. QED
    BY <1>1, <1>2, <2>1, <2>2
<1>5. CASE a.hi # 0 /\ b.hi # 0
  <2>1. a.hi * b.hi \in Nat /\ a.hi * b.hi >= 1
    BY <1>1, <1>5
  <2>2. (a.hi * b.hi) * word >= word
    BY <1>2, <2>1, ProductMonotone
  <2>3. product >= word
    BY <1>2, <1>3, <2>1, <2>2
  <2>4. QED
    BY <1>5, <2>3 DEF mul_overflow_u64
<1>6. CASE ~(a.hi # 0 /\ b.hi # 0)
  <2>1. product = mid * half + low
    <3>1. a.hi * b.hi = 0
      BY <1>1, <1>6
    <3>2. QED
      BY <1>2, <1>3, <3>1
  <2>2. CASE mid >= half
    <3>1. mid * half >= word
      BY <1>2, <2>2, ProductMonotone
    <3>2. QED
      BY <1>2, <2>1, <2>2, <3>1 DEF mul_overflow_u64
  <2>3. CASE mid < half
    <3>1. mid * half <= (half - 1) * half
      BY <1>2, <2>3, ProductMonotone
    <3>2. mid * half < word
      BY <1>2, <3>1
    <3>3. res < low <=> product >= word
      BY <1>2, <1>4, <2>1, <3>2 DEF WrappingAdd
    <3>4. res >= low => res = product
      BY <1>2, <1>4, <2>1, <3>2 DEF WrappingAdd
    <3>5. res \in Nat
      BY <1>2 DEF WrappingAdd
    <3>6. QED
      BY <1>2, <1>6, <2>3, <3>3, <3>4, <3>5 DEF mul_overflow_u64
  <2>4. QED
    BY <1>2, <2>2, <2>3
<1>7. QED
  BY <1>5, <1>6
=============================================================================
