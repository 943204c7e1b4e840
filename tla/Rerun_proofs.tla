---------------------------- MODULE Rerun_proofs ----------------------------
(***************************************************************************)
(* The theorems of Rerun: for any bounds, findings of the agent, outputs   *)
(* and ends of the tools, errors, builds and leftovers of an earlier       *)
(* observe, what TLC checks on one small instance.  IInv is the inductive  *)
(* invariant: control, the shape of the tool results, the crashpacks with  *)
(* what was found by tools in them, the rows with the crashpacks they tell *)
(* of, what a command still has to run, and the attempts chosen so far;    *)
(* Ids is a second one on top of it: whose the ids of findings and results *)
(* are.                                                                    *)
(* The provers have no induction over data, so loops of the code (over     *)
(* lines, detections, results) are recursive functions here, and what they *)
(* preserve is shown by the least round at which it would fail.            *)
(***************************************************************************)
EXTENDS Rerun, FiniteSetTheorems, WellFoundedInduction, TLAPS

----------------------------------------------------------------------------
(* Induction along a loop, said with sets: the provers have no rule for    *)
(* it, but every set of naturals has a least element.                      *)

(* A set of naturals that is not empty has a least element.                *)
LEMMA Least ==
  ASSUME NEW T \in SUBSET Nat, NEW n \in T
  PROVE  \E m \in T : \A k \in Nat : k < m => k \notin T
<1>1. \E x \in T : \A y \in T : ~(<<y, x>> \in OpToRel(<, Nat))
  BY NatLessThanWellFounded, WFMin
<1> QED BY <1>1 DEF OpToRel

(* What holds before a loop, and after a round when it held before, holds  *)
(* after every round.                                                      *)
LEMMA AllRounds ==
  ASSUME NEW n \in Nat, NEW P, 0 \in P, \A k \in 1..n : k - 1 \in P => k \in P
  PROVE  \A k \in 0..n : k \in P
<1> DEFINE Bad == {k \in 0..n : k \notin P}
<1>1. SUFFICES ASSUME NEW b \in Bad PROVE FALSE
  OBVIOUS
<1>2. Bad \in SUBSET Nat
  OBVIOUS
<1> HIDE DEF Bad
<1>3. PICK m \in Bad : \A k \in Nat : k < m => k \notin Bad
  BY <1>1, <1>2, Least, Zenon
<1> USE DEF Bad
<1>4. m \in 1..n /\ m - 1 \in 0..n /\ m - 1 < m /\ m - 1 \in Nat
  OBVIOUS
<1>5. m - 1 \in P
  BY <1>3, <1>4
<1> QED BY <1>4, <1>5

(* A loop over values of V whose round k is step[<<v, k>>] is well-defined.*)
HasLoop(V, n, start, step) ==
  \E a \in [0..n -> V] : a[0] = start /\ \A k \in 1..n : a[k] = step[<<a[k - 1], k>>]

(* A loop whose rounds stay in V has all its values.                       *)
LEMMA LoopExists ==
  ASSUME NEW V, NEW n \in Nat, NEW start \in V, NEW step \in [V \X (1..n) -> V]
  PROVE  HasLoop(V, n, start, step)
<1> DEFINE Is(a, m) ==
      /\ a \in [0..m -> V]
      /\ a = [k \in 0..m |-> IF k = 0 THEN start ELSE step[<<a[k - 1], k>>]]
<1> DEFINE P == {m \in 0..n : \E a : Is(a, m)}
<1>1. 0 \in P
  <2>1. Is([k \in 0..0 |-> start], 0)
    OBVIOUS
  <2> HIDE DEF Is
  <2>2. \E a : Is(a, 0)
    BY <2>1
  <2> QED BY <2>2
<1>2. ASSUME NEW m \in 1..n, m - 1 \in P
      PROVE  m \in P
  <2>1. PICK a : Is(a, m - 1)
    BY <1>2
  <2> DEFINE b == [k \in 0..m |-> IF k = m THEN step[<<a[m - 1], m>>] ELSE a[k]]
  <2>2. a[m - 1] \in V /\ m - 1 \in 0..(m - 1)
    BY <2>1
  <2>3. step[<<a[m - 1], m>>] \in V
    BY <2>2
  <2>4. \A k \in 0..(m - 1) : a[k] = IF k = 0 THEN start ELSE step[<<a[k - 1], k>>]
    BY <2>1
  <2>5. b \in [0..m -> V]
    BY <2>1, <2>3
  <2>6. \A k \in 0..m : b[k] = IF k = 0 THEN start ELSE step[<<b[k - 1], k>>]
    <3> TAKE k \in 0..m
    <3>1. CASE k = m
      <4>1. m # 0 /\ m \in 0..m /\ m - 1 \in 0..m /\ m - 1 # m
        BY <2>2
      <4>2. b[m] = step[<<a[m - 1], m>>] /\ b[m - 1] = a[m - 1]
        BY <4>1
      <4> QED BY <3>1, <4>1, <4>2
    <3>2. CASE k # m
      <4>1. k \in 0..(m - 1) /\ b[k] = a[k]
        BY <3>2
      <4>2. k # 0 => b[k - 1] = a[k - 1]
        BY <3>2
      <4> QED BY <4>1, <4>2, <2>4
    <3> QED BY <3>1, <3>2
  <2>7. Is(b, m)
    BY <2>5, <2>6
  <2> HIDE DEF Is, b
  <2>8. \E c : Is(c, m)
    BY <2>7
  <2> QED BY <2>8
<1> HIDE DEF P
<1>3. \A k \in 0..n : k \in P
  BY <1>1, <1>2, AllRounds
<1>4. n \in P
  BY <1>3
<1>5. PICK a : Is(a, n)
  BY <1>4 DEF P
<1>6. a[0] = start
  BY <1>5
<1>7. \A k \in 1..n : a[k] = step[<<a[k - 1], k>>]
  <2> TAKE k \in 1..n
  <2>1. k \in 0..n /\ k # 0
    OBVIOUS
  <2> QED BY <1>5, <2>1
<1> QED BY <1>5, <1>6, <1>7 DEF HasLoop

----------------------------------------------------------------------------
(* Sequences.                                                              *)

IsSeq(s) == s \in Seq(ToSet(s))

(* A sequence over any set is one over the set of its elements.            *)
LEMMA SeqIsSeq ==
  ASSUME NEW S, NEW s \in Seq(S)
  PROVE  IsSeq(s)
BY DEF IsSeq, ToSet

(* The length and the domain of a sequence.                                *)
LEMMA SeqFacts ==
  ASSUME NEW s, IsSeq(s)
  PROVE  /\ Len(s) \in Nat /\ DOMAIN s = 1..Len(s)
         /\ s = <<>> <=> Len(s) = 0
BY DEF IsSeq

(* Append keeps the elements and adds one at the end.                      *)
LEMMA AppendSeq ==
  ASSUME NEW s, IsSeq(s), NEW e
  PROVE  /\ IsSeq(Append(s, e)) /\ Len(Append(s, e)) = Len(s) + 1
         /\ \A k \in DOMAIN s : Append(s, e)[k] = s[k]
         /\ Append(s, e)[Len(s) + 1] = e
         /\ ToSet(Append(s, e)) = ToSet(s) \cup {e}
<1> DEFINE S == ToSet(s) \cup {e}
<1>1. s \in Seq(S) /\ e \in S
  BY DEF IsSeq
<1> HIDE DEF S
<1>2. Append(s, e) \in Seq(S) /\ Len(Append(s, e)) = Len(s) + 1
  BY <1>1
<1>3. IsSeq(Append(s, e))
  BY <1>2, SeqIsSeq
<1>4. \A k \in DOMAIN s : Append(s, e)[k] = s[k]
  BY <1>1
<1>5. Append(s, e)[Len(s) + 1] = e
  BY <1>1
<1>6. DOMAIN s = 1..Len(s) /\ DOMAIN Append(s, e) = 1..(Len(s) + 1) /\ Len(s) \in Nat
  BY <1>1, <1>2
<1>7. ToSet(Append(s, e)) = ToSet(s) \cup {e}
  BY <1>4, <1>5, <1>6 DEF ToSet
<1> QED BY <1>2, <1>3, <1>4, <1>5, <1>7

(* The elements of a sequence are its head and those of its tail.          *)
LEMMA TailSeq ==
  ASSUME NEW s, IsSeq(s), s # <<>>
  PROVE  /\ IsSeq(Tail(s)) /\ Head(s) \in ToSet(s)
         /\ ToSet(s) = {Head(s)} \cup ToSet(Tail(s))
<1> DEFINE S == ToSet(s)
<1>1. s \in Seq(S) /\ Len(s) \in Nat /\ Len(s) # 0
  BY DEF IsSeq
<1>2. DOMAIN s = 1..Len(s) /\ Head(s) = s[1] /\ Head(s) \in S
  BY <1>1 DEF ToSet
<1> HIDE DEF S
<1>3. Tail(s) \in Seq(S) /\ Len(Tail(s)) = Len(s) - 1
  BY <1>1
<1>4. DOMAIN Tail(s) = 1..(Len(s) - 1) /\ \A k \in 1..(Len(s) - 1) : Tail(s)[k] = s[k + 1]
  BY <1>1, <1>3
<1>5. \A k \in DOMAIN s : k = 1 \/ (k - 1 \in DOMAIN Tail(s) /\ Tail(s)[k - 1] = s[k])
  BY <1>1, <1>2, <1>4
<1>6. \A k \in DOMAIN Tail(s) : k + 1 \in DOMAIN s /\ Tail(s)[k] = s[k + 1]
  BY <1>1, <1>2, <1>4
<1>7. ToSet(s) = {Head(s)} \cup ToSet(Tail(s))
  <2>1. ASSUME NEW e \in ToSet(s) PROVE e \in {Head(s)} \cup ToSet(Tail(s))
    <3>1. PICK k \in DOMAIN s : e = s[k]
      BY <2>1 DEF ToSet
    <3> QED BY <1>2, <1>5, <3>1 DEF ToSet
  <2>2. ASSUME NEW e \in ToSet(Tail(s)) PROVE e \in ToSet(s)
    <3>1. PICK k \in DOMAIN Tail(s) : e = Tail(s)[k]
      BY <2>2 DEF ToSet
    <3> QED BY <1>6, <3>1 DEF ToSet
  <2> QED BY <1>2, <2>1, <2>2 DEF S
<1>8. IsSeq(Tail(s))
  BY <1>3, SeqIsSeq
<1> QED BY <1>2, <1>7, <1>8 DEF S

(* A function on the domain of a sequence. *)
LEMMA MapSeq ==
  ASSUME NEW s, IsSeq(s), NEW t, t = [k \in DOMAIN s |-> t[k]]
  PROVE  IsSeq(t) /\ Len(t) = Len(s) /\ DOMAIN t = DOMAIN s
<1> DEFINE T == {t[k] : k \in DOMAIN s}
<1>1. Len(s) \in Nat /\ DOMAIN s = 1..Len(s)
  BY SeqFacts
<1>2. t \in Seq(T) /\ Len(t) = Len(s)
  BY <1>1
<1>3. IsSeq(t)
  BY <1>2, SeqIsSeq
<1> QED BY <1>2, <1>3

----------------------------------------------------------------------------
(* The loops of the model.                                                 *)

(* What a parser detects is a sequence.                                    *)
LEMMA DetectionsSeq ==
  ASSUME NEW output, NEW classes, Len(output) \in Nat
  PROVE  IsSeq(Detections(output, classes))
<1> DEFINE n == Len(output)
           d(i) == [class |-> classes[i], line |-> i, summary |-> output[i].text]
           D == {d(i) : i \in 1..n}
           Step(v, i) == IF classes[i] = None THEN v ELSE Append(v, d(i))
           V == Seq(D)
           step == [p \in V \X (1..n) |-> Step(p[1], p[2])]
           Is(a) == a = [i \in 0..n |-> IF i = 0 THEN <<>> ELSE Step(a[i - 1], i)]
           P(a) == {i \in 0..n : a[i] \in V}
<1>0. n \in Nat
  OBVIOUS
<1> HIDE DEF n
<1>a. \A v \in V, i \in 1..n : Step(v, i) \in V
  <2> TAKE v \in V, i \in 1..n
  <2>1. d(i) \in D
    OBVIOUS
  <2> HIDE DEF d, D
  <2> QED BY <2>1
<1> HIDE DEF Step, D
<1>1. step \in [V \X (1..n) -> V]
  BY <1>a
<1>2. <<>> \in V
  OBVIOUS
<1>3. PICK a \in [0..n -> V] : a[0] = <<>> /\ \A i \in 1..n : a[i] = step[<<a[i - 1], i>>]
  <2> HIDE DEF step, V
  <2>1. HasLoop(V, n, <<>>, step)
    BY <1>0, <1>1, <1>2, LoopExists, Zenon
  <2> QED BY <2>1 DEF HasLoop
<1>4. \A i \in 1..n : step[<<a[i - 1], i>>] = Step(a[i - 1], i)
  <2> TAKE i \in 1..n
  <2>1. a[i - 1] \in V
    BY <1>0
  <2> QED BY <2>1
<1>5. Is(a)
  <2> HIDE DEF step, V
  <2>1. \A i \in 0..n : a[i] = IF i = 0 THEN <<>> ELSE Step(a[i - 1], i)
    <3> TAKE i \in 0..n
    <3>1. i # 0 => i \in 1..n
      BY <1>0
    <3> QED BY <1>3, <1>4, <3>1
  <2> QED BY <1>3, <2>1
<1>6. Pushed(output, classes) = CHOOSE b : Is(b)
  BY DEF Pushed, Step, n
<1>7. PICK b : b = Pushed(output, classes) /\ Is(b)
  <2> HIDE DEF Is
  <2> QED BY <1>5, <1>6
<1>8. b[0] \in V /\ \A i \in 1..n : b[i - 1] \in V => b[i] \in V
  <2>1. \A i \in 0..n : b[i] = IF i = 0 THEN <<>> ELSE Step(b[i - 1], i)
    BY <1>7
  <2>2. 0 \in 0..n /\ \A i \in 1..n : i \in 0..n /\ i # 0
    BY <1>0
  <2>3. b[0] = <<>> /\ \A i \in 1..n : b[i] = Step(b[i - 1], i)
    BY <2>1, <2>2
  <2> HIDE DEF V
  <2>4. b[0] \in V
    BY <2>3, <1>2
  <2>5. \A i \in 1..n : b[i - 1] \in V => b[i] \in V
    <3> TAKE i \in 1..n
    <3> HAVE b[i - 1] \in V
    <3>1. Step(b[i - 1], i) \in V
      BY <1>a
    <3> QED BY <2>3, <3>1
  <2> QED BY <2>4, <2>5
<1>9. \A i \in 0..n : i \in P(b)
  <2>1. 0 \in P(b) /\ \A i \in 1..n : i - 1 \in P(b) => i \in P(b)
    <3> HIDE DEF V
    <3> QED BY <1>8, <1>0
  <2> HIDE DEF P
  <2> QED BY <2>1, <1>0, AllRounds
<1>10. b[n] \in V
  <2> HIDE DEF V
  <2> QED BY <1>9, <1>0
<1> QED BY <1>7, <1>10, SeqIsSeq DEF Detections, n

(* The loop over the detections of a result.                               *)
LEMMA AfterDetectionsIs ==
  ASSUME NEW findings, IsSeq(findings), NEW result, IsSeq(result.report)
  PROVE  /\ AfterDetections(findings, result)[0] = findings
         /\ \A k \in 1..Len(result.report) :
              AfterDetections(findings, result)[k] = AddDetection(AfterDetections(findings, result)[k - 1], result, k)
<1> DEFINE n == Len(result.report)
           D == ToSet(findings) \cup {ToolBackedFinding(result, result.report[k], k) : k \in 1..n}
           Step(v, k) == AddDetection(v, result, k)
           V == Seq(D)
           step == [p \in V \X (1..n) |-> Step(p[1], p[2])]
           Is(a) == a = [k \in 0..n |-> IF k = 0 THEN findings ELSE Step(a[k - 1], k)]
<1>0. n \in Nat /\ DOMAIN result.report = 1..n
  BY SeqFacts
<1> HIDE DEF n
<1>1. findings \in V
  BY DEF IsSeq
<1>2. \A v \in V, k \in 1..n : Step(v, k) \in V
  <2> TAKE v \in V, k \in 1..n
  <2>1. ToolBackedFinding(result, result.report[k], k) \in D
    OBVIOUS
  <2> HIDE DEF D
  <2>2. Append(v, ToolBackedFinding(result, result.report[k], k)) \in V
    BY <2>1
  <2> QED BY <2>2 DEF AddDetection
<1> HIDE DEF Step, D
<1>3. step \in [V \X (1..n) -> V]
  BY <1>2
<1>4. PICK a \in [0..n -> V] :
        a[0] = findings /\ \A k \in 1..n : a[k] = step[<<a[k - 1], k>>]
  <2> HIDE DEF step, V
  <2>1. HasLoop(V, n, findings, step)
    BY <1>0, <1>1, <1>3, LoopExists, Zenon
  <2> QED BY <2>1 DEF HasLoop
<1>5. \A k \in 1..n : step[<<a[k - 1], k>>] = Step(a[k - 1], k)
  <2> TAKE k \in 1..n
  <2>1. a[k - 1] \in V
    BY <1>0
  <2> QED BY <2>1
<1>6. Is(a)
  <2> HIDE DEF step, V
  <2>1. \A k \in 0..n : a[k] = IF k = 0 THEN findings ELSE Step(a[k - 1], k)
    <3> TAKE k \in 0..n
    <3>1. k # 0 => k \in 1..n
      BY <1>0
    <3> QED BY <1>4, <1>5, <3>1
  <2> QED BY <1>4, <2>1
<1>7. AfterDetections(findings, result) = CHOOSE b : Is(b)
  BY DEF AfterDetections, Step, n
<1>8. PICK b : b = AfterDetections(findings, result) /\ Is(b)
  <2> HIDE DEF Is
  <2> QED BY <1>6, <1>7
<1>9. \A k \in 0..n : b[k] = IF k = 0 THEN findings ELSE Step(b[k - 1], k)
  BY <1>8
<1>10. 0 \in 0..n /\ \A k \in 1..n : k \in 0..n /\ k # 0
  BY <1>0
<1>11. b[0] = findings /\ \A k \in 1..n : b[k] = Step(b[k - 1], k)
  BY <1>9, <1>10
<1> QED BY <1>8, <1>11 DEF Step, n

----------------------------------------------------------------------------
(* What the tools add to the findings.                                     *)

(* None, which stands for an absent field or file, is no function: no      *)
(* tuple, no sequence and no record.                                       *)
NoneIsNothing == \A f : f = [x \in DOMAIN f |-> f[x]] => f # None

IsToolFinding(f) == \E result, d, index : f = ToolBackedFinding(result, d, index)

Extends(old, new) ==
  /\ IsSeq(new) /\ Len(old) <= Len(new)
  /\ \A k \in DOMAIN old : new[k] = old[k]
  /\ \A k \in DOMAIN new : k \in DOMAIN old \/ IsToolFinding(new[k])

(* A sequence extends itself.                                              *)
LEMMA ExtendsSelf ==
  ASSUME NEW s, IsSeq(s)
  PROVE  Extends(s, s)
BY SeqFacts DEF Extends

(* Extending again extends.                                                *)
LEMMA ExtendsTransitive ==
  ASSUME NEW a, NEW b, NEW c, IsSeq(a), Extends(a, b), Extends(b, c)
  PROVE  Extends(a, c)
<1>1. IsSeq(b) /\ IsSeq(c)
  BY DEF Extends
<1>2. /\ Len(a) \in Nat /\ Len(b) \in Nat /\ Len(c) \in Nat
      /\ DOMAIN a = 1..Len(a) /\ DOMAIN b = 1..Len(b) /\ DOMAIN c = 1..Len(c)
  BY <1>1, SeqFacts
<1>3. Len(a) <= Len(b) /\ Len(b) <= Len(c)
  BY DEF Extends
<1>4. \A k \in DOMAIN a : k \in DOMAIN b
  BY <1>2, <1>3
<1>5. \A k \in DOMAIN a : c[k] = a[k]
  BY <1>4 DEF Extends
<1>6. \A k \in DOMAIN c : k \in DOMAIN a \/ IsToolFinding(c[k])
  <2> TAKE k \in DOMAIN c
  <2>1. k \in DOMAIN b \/ IsToolFinding(c[k])
    BY DEF Extends
  <2>2. k \in DOMAIN b => c[k] = b[k] /\ (k \in DOMAIN a \/ IsToolFinding(b[k]))
    BY DEF Extends
  <2> QED BY <2>1, <2>2
<1> QED BY <1>1, <1>2, <1>3, <1>5, <1>6 DEF Extends

(* What is represented stays so.                                           *)
LEMMA StaysRepresented ==
  ASSUME NEW d, NEW result, NEW old, NEW new, IsSeq(old), Extends(old, new),
         Represented(d, result, old)
  PROVE  Represented(d, result, new)
<1>1. ToSet(old) \subseteq ToSet(new)
  <2> SUFFICES ASSUME NEW k \in DOMAIN old PROVE old[k] \in ToSet(new)
    BY DEF ToSet
  <2>1. IsSeq(new) /\ Len(old) <= Len(new) /\ new[k] = old[k]
    BY DEF Extends
  <2>2. /\ DOMAIN old = 1..Len(old) /\ DOMAIN new = 1..Len(new)
        /\ Len(old) \in Nat /\ Len(new) \in Nat
    BY <2>1, SeqFacts
  <2>3. k \in DOMAIN new
    BY <2>1, <2>2
  <2> QED BY <2>1, <2>3 DEF ToSet
<1> QED BY <1>1 DEF Represented

(* One detection: it is represented and nothing else changes.              *)
LEMMA AddDetectionStep ==
  ASSUME NoneIsNothing, NEW findings, IsSeq(findings), NEW result, NEW index
  PROVE  /\ Extends(findings, AddDetection(findings, result, index))
         /\ Represented(result.report[index], result, AddDetection(findings, result, index))
<1> DEFINE d == result.report[index]
           f == ToolBackedFinding(result, d, index)
           new == AddDetection(findings, result, index)
<1>1. CASE Confirms(findings, result, d)
  <2>1. new = findings
    BY <1>1 DEF AddDetection
  <2>2. Represented(d, result, findings)
    BY <1>1 DEF Confirms, Represented
  <2> QED BY <2>1, <2>2, ExtendsSelf
<1>2. CASE Key(result.tool, d) \in ExistingKeys(findings)
  <2>1. new = findings
    BY <1>2 DEF AddDetection
  <2>2. Represented(d, result, findings)
    BY <1>2 DEF ExistingKeys, Represented
  <2> QED BY <2>1, <2>2, ExtendsSelf
<1>3. CASE ~Confirms(findings, result, d) /\ Key(result.tool, d) \notin ExistingKeys(findings)
  <2>1. new = Append(findings, f)
    BY <1>3 DEF AddDetection
  <2>2. /\ IsSeq(new) /\ Len(new) = Len(findings) + 1
        /\ \A k \in DOMAIN findings : new[k] = findings[k]
        /\ new[Len(findings) + 1] = f /\ ToSet(new) = ToSet(findings) \cup {f}
    <3> HIDE DEF f, new
    <3> QED BY <2>1, AppendSeq
  <2>3. /\ Len(findings) \in Nat /\ DOMAIN findings = 1..Len(findings)
        /\ DOMAIN new = 1..(Len(findings) + 1)
    <3> HIDE DEF new
    <3>1. DOMAIN new = 1..Len(new) /\ Len(findings) \in Nat /\ DOMAIN findings = 1..Len(findings)
      BY <2>2, SeqFacts
    <3> QED BY <2>2, <3>1
  <2>4. IsToolFinding(f)
    BY DEF IsToolFinding
  <2>5. Extends(findings, new)
    <3> HIDE DEF f, new
    <3>1. \A k \in DOMAIN new : k \in DOMAIN findings \/ IsToolFinding(new[k])
      BY <2>2, <2>3, <2>4
    <3> QED BY <2>2, <2>3, <3>1 DEF Extends
  <2>6. f.tool # None
    BY DEF ToolBackedFinding, NoneIsNothing
  <2>7. KeyOf(f) = Key(result.tool, d)
    BY DEF ToolBackedFinding, KeyOf, Key
  <2>8. f \in ToSet(new) /\ Known(f.tool)
    BY <2>2, <2>6 DEF Known
  <2>9. Represented(d, result, new)
    <3> HIDE DEF f, new, d
    <3> QED BY <2>7, <2>8 DEF Represented
  <2> QED BY <2>5, <2>9
<1> QED BY <1>1, <1>2, <1>3

Detected(result) == Found(result) => IsSeq(result.report)

(* All detections of a result.                                             *)
LEMMA AddResultStep ==
  ASSUME NoneIsNothing, NEW findings, IsSeq(findings), NEW result, Detected(result)
  PROVE  /\ Extends(findings, AddResult(findings, result))
         /\ Found(result) => \A d \in ToSet(result.report) :
                               Represented(d, result, AddResult(findings, result))
<1>1. CASE ~Found(result)
  BY <1>1, ExtendsSelf DEF AddResult
<1>2. CASE Found(result)
  <2> DEFINE n == Len(result.report)
             a == AfterDetections(findings, result)
             P == {k \in 0..n : /\ Extends(findings, a[k])
                                /\ \A j \in 1..k : Represented(result.report[j], result, a[k])}
  <2>1. IsSeq(result.report)
    BY <1>2 DEF Detected
  <2>2. n \in Nat /\ DOMAIN result.report = 1..n
    BY <2>1, SeqFacts
  <2>3. /\ a[0] = findings
        /\ \A k \in 1..n : a[k] = AddDetection(a[k - 1], result, k)
    BY <2>1, AfterDetectionsIs
  <2>4. 0 \in P
    BY <2>2, <2>3, ExtendsSelf
  <2>5. ASSUME NEW k \in 1..n, k - 1 \in P
        PROVE  k \in P
    <3> HIDE DEF n, a
    <3>1. Extends(findings, a[k - 1]) /\ IsSeq(a[k - 1])
      BY <2>5 DEF Extends
    <3>2. /\ Extends(a[k - 1], a[k])
          /\ Represented(result.report[k], result, a[k])
      BY <2>3, <3>1, AddDetectionStep
    <3>3. Extends(findings, a[k])
      BY <3>1, <3>2, ExtendsTransitive
    <3>4. ASSUME NEW j \in 1..k
          PROVE  Represented(result.report[j], result, a[k])
      <4>1. CASE j = k
        BY <4>1, <3>2
      <4>2. CASE j # k
        <5>1. j \in 1..(k - 1)
          BY <4>2, <2>2
        <5>2. Represented(result.report[j], result, a[k - 1])
          BY <5>1, <2>5
        <5> QED BY <5>2, <3>1, <3>2, StaysRepresented
      <4> QED BY <4>1, <4>2
    <3> QED BY <2>2, <3>3, <3>4
  <2>6. n \in P
    <3> HIDE DEF P, n
    <3>1. \A k \in 0..n : k \in P
      BY <2>2, <2>4, <2>5, AllRounds
    <3> QED BY <2>2, <3>1
  <2>7. AddResult(findings, result) = a[n]
    BY <1>2 DEF AddResult
  <2> HIDE DEF n, a
  <2>8. \A d \in ToSet(result.report) : \E j \in 1..n : d = result.report[j]
    BY <2>2 DEF ToSet
  <2> QED BY <2>6, <2>7, <2>8
<1> QED BY <1>1, <1>2

ToolFindingsOf(result) ==
  {ToolBackedFinding(result, result.report[j], j) : j \in 1..Len(result.report)}

(* A result adds no other findings than those of its detections.           *)
LEMMA AddResultBounded ==
  ASSUME NEW findings, IsSeq(findings), NEW result, Detected(result)
  PROVE  /\ IsSeq(AddResult(findings, result))
         /\ Found(result) => ToSet(AddResult(findings, result))
                               \subseteq ToSet(findings) \cup ToolFindingsOf(result)
         /\ ~Found(result) => AddResult(findings, result) = findings
<1>1. CASE ~Found(result)
  BY <1>1 DEF AddResult
<1>2. CASE Found(result)
  <2> DEFINE n == Len(result.report)
             a == AfterDetections(findings, result)
             D == ToSet(findings) \cup ToolFindingsOf(result)
             P == {k \in 0..n : IsSeq(a[k]) /\ ToSet(a[k]) \subseteq D}
  <2>1. IsSeq(result.report)
    BY <1>2 DEF Detected
  <2>2. n \in Nat
    BY <2>1, SeqFacts
  <2>3. /\ a[0] = findings
        /\ \A k \in 1..n : a[k] = AddDetection(a[k - 1], result, k)
    BY <2>1, AfterDetectionsIs
  <2>4. 0 \in P
    BY <2>2, <2>3
  <2>5. ASSUME NEW k \in 1..n, k - 1 \in P
        PROVE  k \in P
    <3> DEFINE f == ToolBackedFinding(result, result.report[k], k)
    <3>1. f \in D
      BY DEF ToolFindingsOf
    <3> HIDE DEF n, a, f, D
    <3>2. a[k] = a[k - 1] \/ a[k] = Append(a[k - 1], f)
      BY <2>3 DEF AddDetection, f
    <3>3. IsSeq(a[k - 1]) /\ ToSet(a[k - 1]) \subseteq D
      BY <2>5
    <3>4. /\ IsSeq(Append(a[k - 1], f))
          /\ ToSet(Append(a[k - 1], f)) = ToSet(a[k - 1]) \cup {f}
      BY <3>3, AppendSeq
    <3>5. IsSeq(a[k]) /\ ToSet(a[k]) \subseteq D
      BY <3>1, <3>2, <3>3, <3>4
    <3> QED BY <2>2, <3>5
  <2>6. n \in P
    <3> HIDE DEF P, n
    <3>1. \A k \in 0..n : k \in P
      BY <2>2, <2>4, <2>5, AllRounds
    <3> QED BY <2>2, <3>1
  <2>7. AddResult(findings, result) = a[n]
    BY <1>2 DEF AddResult
  <2> QED BY <1>2, <2>6, <2>7
<1> QED BY <1>1, <1>2

(* The loop over the results.                                              *)
LEMMA AfterResultsIs ==
  ASSUME NEW findings, IsSeq(findings), NEW rs, IsSeq(rs),
         \A r \in ToSet(rs) : Detected(r)
  PROVE  /\ AfterResults(findings, rs)[0] = findings
         /\ \A k \in 1..Len(rs) :
              AfterResults(findings, rs)[k] = AddResult(AfterResults(findings, rs)[k - 1], rs[k])
<1> DEFINE n == Len(rs)
           D == ToSet(findings) \cup UNION {ToolFindingsOf(rs[k]) : k \in 1..n}
           Step(v, k) == AddResult(v, rs[k])
           V == Seq(D)
           step == [p \in V \X (1..n) |-> Step(p[1], p[2])]
           Is(a) == a = [k \in 0..n |-> IF k = 0 THEN findings ELSE Step(a[k - 1], k)]
<1>0. n \in Nat /\ DOMAIN rs = 1..n
  BY SeqFacts
<1> HIDE DEF n
<1>1. findings \in V
  BY DEF IsSeq
<1>2. \A v \in V, k \in 1..n : Step(v, k) \in V
  <2> TAKE v \in V, k \in 1..n
  <2>1. Detected(rs[k]) /\ ToolFindingsOf(rs[k]) \subseteq D
    BY <1>0 DEF ToSet
  <2>2. IsSeq(v) /\ ToSet(v) \subseteq D
    <3> HIDE DEF D
    <3> QED BY SeqIsSeq DEF ToSet
  <2> HIDE DEF D, V
  <2>3. IsSeq(AddResult(v, rs[k])) /\ ToSet(AddResult(v, rs[k])) \subseteq D
    BY <2>1, <2>2, AddResultBounded
  <2>4. AddResult(v, rs[k]) \in V
    BY <2>3 DEF IsSeq, V
  <2> QED BY <2>4
<1> HIDE DEF Step, D
<1>3. step \in [V \X (1..n) -> V]
  BY <1>2
<1>4. PICK a \in [0..n -> V] :
        a[0] = findings /\ \A k \in 1..n : a[k] = step[<<a[k - 1], k>>]
  <2> HIDE DEF step, V
  <2>1. HasLoop(V, n, findings, step)
    BY <1>0, <1>1, <1>3, LoopExists, Zenon
  <2> QED BY <2>1 DEF HasLoop
<1>5. \A k \in 1..n : step[<<a[k - 1], k>>] = Step(a[k - 1], k)
  <2> TAKE k \in 1..n
  <2>1. a[k - 1] \in V
    BY <1>0
  <2> QED BY <2>1
<1>6. Is(a)
  <2> HIDE DEF step, V
  <2>1. \A k \in 0..n : a[k] = IF k = 0 THEN findings ELSE Step(a[k - 1], k)
    <3> TAKE k \in 0..n
    <3>1. k # 0 => k \in 1..n
      BY <1>0
    <3> QED BY <1>4, <1>5, <3>1
  <2> QED BY <1>4, <2>1
<1>7. AfterResults(findings, rs) = CHOOSE b : Is(b)
  BY DEF AfterResults, Step, n
<1>8. PICK b : b = AfterResults(findings, rs) /\ Is(b)
  <2> HIDE DEF Is
  <2> QED BY <1>6, <1>7
<1>9. \A k \in 0..n : b[k] = IF k = 0 THEN findings ELSE Step(b[k - 1], k)
  BY <1>8
<1>10. 0 \in 0..n /\ \A k \in 1..n : k \in 0..n /\ k # 0
  BY <1>0
<1>11. b[0] = findings /\ \A k \in 1..n : b[k] = Step(b[k - 1], k)
  BY <1>9, <1>10
<1> QED BY <1>8, <1>11 DEF Step, n

(* The tools' findings come behind the others, whose stacks gdb may have   *)
(* completed; every detection is represented; and without a result that    *)
(* found something there is nothing new.                                   *)
LEMMA WithToolFindingsIs ==
  ASSUME NoneIsNothing, NEW findings, IsSeq(findings), NEW rs, IsSeq(rs),
         \A r \in ToSet(rs) : Detected(r)
  PROVE  LET new == WithToolFindings(findings, rs)
         IN /\ Extends(EnrichGdb(findings, rs), new)
            /\ \A r \in ToSet(rs) : Found(r) =>
                 \A d \in ToSet(r.report) : Represented(d, r, new)
            /\ (\A r \in ToSet(rs) : ~Found(r)) => new = EnrichGdb(findings, rs)
<1> DEFINE rich == EnrichGdb(findings, rs)
           n == Len(rs)
           a == AfterResults(rich, rs)
           Shown(r, fs) == Found(r) => \A d \in ToSet(r.report) : Represented(d, r, fs)
           P == {k \in 0..n : /\ Extends(rich, a[k])
                              /\ \A j \in 1..k : Shown(rs[j], a[k])
                              /\ (\A r \in ToSet(rs) : ~Found(r)) => a[k] = rich}
<1>1. IsSeq(rich)
  <2> DEFINE t == EnrichGdb(findings, rs)
  <2>1. t = [k \in DOMAIN findings |-> t[k]]
    BY DEF EnrichGdb
  <2> HIDE DEF t
  <2>2. IsSeq(t)
    BY <2>1, MapSeq
  <2> QED BY <2>2 DEF t
<1>2. n \in Nat /\ DOMAIN rs = 1..n
  BY SeqFacts
<1> HIDE DEF rich
<1>3. /\ a[0] = rich
      /\ \A k \in 1..n : a[k] = AddResult(a[k - 1], rs[k])
  BY <1>1, AfterResultsIs
<1>4. 0 \in P
  BY <1>1, <1>2, <1>3, ExtendsSelf
<1>5. ASSUME NEW k \in 1..n, k - 1 \in P
      PROVE  k \in P
  <2>0. rs[k] \in ToSet(rs)
    BY <1>2 DEF ToSet
  <2> HIDE DEF n, a, Shown
  <2>1. Extends(rich, a[k - 1]) /\ IsSeq(a[k - 1])
    BY <1>5 DEF Extends
  <2>2. Detected(rs[k])
    BY <2>0
  <2>3. Extends(a[k - 1], a[k]) /\ Shown(rs[k], a[k])
    BY <1>3, <2>1, <2>2, AddResultStep DEF Shown
  <2>4. Extends(rich, a[k])
    BY <1>1, <2>1, <2>3, ExtendsTransitive
  <2>5. ASSUME NEW j \in 1..k
        PROVE  Shown(rs[j], a[k])
    <3>1. CASE j = k
      BY <3>1, <2>3
    <3>2. CASE j # k
      <4>1. j \in 1..(k - 1)
        BY <3>2, <1>2
      <4>2. Shown(rs[j], a[k - 1])
        BY <4>1, <1>5
      <4> QED BY <4>2, <2>1, <2>3, StaysRepresented DEF Shown
    <3> QED BY <3>1, <3>2
  <2>6. ASSUME \A r \in ToSet(rs) : ~Found(r)
        PROVE  a[k] = rich
    <3>1. a[k - 1] = rich /\ ~Found(rs[k])
      BY <1>5, <2>0, <2>6
    <3> QED BY <1>3, <3>1 DEF AddResult
  <2> QED BY <1>2, <2>4, <2>5, <2>6
<1>6. n \in P
  <2> HIDE DEF P, n
  <2>1. \A k \in 0..n : k \in P
    BY <1>2, <1>4, <1>5, AllRounds
  <2> QED BY <1>2, <2>1
<1>7. WithToolFindings(findings, rs) = a[n]
  BY DEF WithToolFindings, rich
<1>8. \A r \in ToSet(rs) : Shown(r, a[n])
  <2> HIDE DEF n, a, Shown
  <2>1. \A j \in 1..n : Shown(rs[j], a[n])
    BY <1>6
  <2> QED BY <1>2, <2>1 DEF ToSet
<1> HIDE DEF n, a
<1> QED BY <1>6, <1>7, <1>8 DEF rich

----------------------------------------------------------------------------
(* The invariant: control.                                                 *)

Observing == {"clear", "native", "select", "plan", "tools", "record"}

(* A result says Findings exactly when it detected something.              *)
IsResult(r) ==
  /\ r.status \in Statuses /\ r.tool \in Tools /\ IsSeq(r.report)
  /\ r.status = "Findings" <=> r.confirmed
  /\ r.confirmed <=> r.detected # {}
  /\ r.confirmed => r.success /\ r.report # <<>>

AreResults(rs) == IsSeq(rs) /\ \A r \in ToSet(rs) : IsResult(r)

IsJob(j) == j.what \in {"finding", "scan", "skip"} /\ j.tool \in Tools \cup {None}

(* How far the observe has come, and the rows it has; commands are only    *)
(* given after a single observe.                                           *)
Control ==
  /\ request.repeat \in 1..MaxAttempts /\ request.deep \in BOOLEAN
  /\ present \in BOOLEAN /\ fallback \in BOOLEAN
  /\ attempt \in 0..MaxAttempts + 1
  /\ IsSeq(rows)
  /\ pc = "start" => request = NoPolicy /\ attempt = 0
  /\ attempt = 0 => pc \in {"start", "idle"} /\ rows = <<>>
  /\ pc \in Observing => attempt \in 1..request.repeat /\ Len(rows) = attempt - 1
  /\ pc \in {"clear", "select"} => ~Single
  /\ pc = "clear" => attempt = 1
  /\ pc \in {"start", "clear", "native", "select", "plan"} => results = <<>> /\ fallback = FALSE
  /\ pc \in {"publish", "publish run"} =>
       ~Single /\ attempt = request.repeat + 1 /\ Len(rows) = request.repeat
  /\ pc = "command" => Single
  /\ Len(rows) <= request.repeat

Typed ==
  /\ TypeOK
  /\ AreResults(results)
  /\ IsSeq(jobs) /\ \A j \in ToSet(jobs) : IsJob(j)
  /\ pc = "tools" => \A j \in ToSet(jobs) : Known(j.tool)
  /\ pc = "command" => \A j \in ToSet(jobs) : j.what # "skip"

----------------------------------------------------------------------------
(* The invariant: crashpacks.                                              *)

HasFields(f) == DOMAIN f = DOMAIN CrashFinding(f.id) /\ DOMAIN f.stacks = DOMAIN NoStacks

(* A fingerprint is the one that the finding's identity gives, before and  *)
(* after its provenance is attached: another finalize does not change it.  *)
IsFinding(f) ==
  /\ HasFields(f)
  /\ f.plan \in Tools \cup {None}
  /\ Known(f.fingerprint) =>
       f.fingerprint = Fingerprint(f) /\ f.fingerprint = Fingerprint(AttachProvenance(f))

AreFindings(fs) == IsSeq(fs) /\ \A f \in ToSet(fs) : IsFinding(f)

AllRepresented(found, findings) ==
  \A r \in ToSet(found) : Found(r) =>
    \A d \in ToSet(r.report) : Represented(d, r, findings)

HasFiles(p) == DOMAIN p = DOMAIN EmptyPack

(* Where there are tool results there are findings, and what the tools     *)
(* found is among them.                                                    *)
IsPack(p) ==
  /\ HasFiles(p)
  /\ Known(p.findings) => AreFindings(p.findings)
  /\ Known(p.results) => Known(p.findings) /\ AllRepresented(p.results, p.findings)

Packs ==
  /\ DOMAIN packs = 0..MaxAttempts
  /\ \A i \in 0..MaxAttempts : IsPack(packs[i])

----------------------------------------------------------------------------
(* The invariant: rows.                                                    *)

CanBeUsed(p) == p.bin /\ p.console /\ Known(p.manifest) /\ Known(p.findings)

OfThisRun(findings) == \A f \in ToSet(findings), old \in ToSet(OldFindings) : f.id # old.id

Counted(r, p) ==
  /\ r.count = Len(p.findings) /\ r.classes = ClassCounts(p.findings)
  /\ r.groups = Cardinality(DOMAIN p.groups)

(* The crashpack of a native run that ended, with its row: nothing of an   *)
(* earlier observe is in it.                                               *)
Ready(r, p) ==
  /\ CanBeUsed(p) /\ p.analysis /\ p.results = None /\ Counted(r, p)
  /\ r.escalation = <<>> /\ OfThisRun(p.findings)

StatusIs(r, p) ==
  /\ r.status = "Findings" => p.findings # <<>>
  /\ r.status \notin {"Findings", "Timeout"} => p.findings = <<>>

IsRow(r) == DOMAIN r = DOMAIN TargetFromError(None)

AfterNative(r, p) ==
  /\ IsRow(r)
  /\ r.error # "native tracing unavailable"
  /\ r.status \in {"Failed", "Timeout", "Findings", "Clean"}
  /\ r.status \in {"Findings", "Clean"} => r.error = None
  /\ r.status = "Failed" => r.count = 0 /\ r.classes = ClassCounts(<<>>) /\ r.groups = 0 /\ r.escalation = <<>>
  /\ r.status # "Failed" => Ready(r, p) /\ StatusIs(r, p)

(* While tools run.  gdb only runs for a finding.                          *)
UnderTools(r, p) ==
  /\ IsRow(r) /\ Ready(r, p)
  /\ fallback => /\ r.status = "Failed" /\ r.error = "native tracing unavailable"
                 /\ p.findings = <<>>
  /\ ~fallback => r.status \in {"Findings", "Clean"} /\ r.error = None /\ StatusIs(r, p)
  /\ p.findings = <<>> => /\ \A j \in ToSet(jobs) : j.tool # "gdb"
                          /\ \A q \in ToSet(results) : q.tool # "gdb"

(* What stays true of a row whatever commands follow, and what is true     *)
(* until the first of them.                                                *)
RowStands(r, p) ==
  /\ r.status = "Clean" => r.error = None \/ \E t \in ToSet(r.escalation) : t.status = "Clean"
  /\ r.error = "native tracing unavailable" => Known(p.findings)
  /\ r.status # "Failed" => CanBeUsed(p)

RowFresh(r, p) ==
  r.status # "Failed" =>
    /\ Counted(r, p) /\ StatusIs(r, p) /\ OfThisRun(p.findings)
    /\ r.escalation = IF p.results = None THEN <<>> ELSE ToolRows(p.results)

RowFine(r, p) == RowStands(r, p) /\ (commands = 0 => RowFresh(r, p))

RowsDone == \A i \in DOMAIN rows : RowFine(rows[i], PackOf(i))

Rows ==
  /\ RowsDone
  /\ pc \in {"select", "plan"} => AfterNative(row, Pack)
  /\ pc = "tools" => UnderTools(row, Pack)
  /\ pc = "record" => RowFine(row, Pack)
  /\ pc = "command" => packs[0].analysis /\ Known(packs[0].findings) /\ commands # 0

----------------------------------------------------------------------------
(* The invariant: a command.                                               *)

(* A finding has a result or a tool run to come; a command has one for     *)
(* every finding with a plan, unless it is a scan.                         *)
Covered(f) ==
  \/ \E r \in ToSet(results) : r.finding = f.id
  \/ \E j \in ToSet(jobs) : j.what = "finding" /\ j.finding = f.id /\ Known(j.tool)

Covers ==
  pc = "command" =>
    \/ \E j \in ToSet(jobs) : j.what = "scan" /\ Known(j.tool)
    \/ \E r \in ToSet(results) : r.finding = CleanRun
    \/ \A f \in ToSet(packs[0].findings) : Known(f.plan) => Covered(f)

----------------------------------------------------------------------------
(* The invariant: which attempts are escalated.                            *)

(* The attempts so far that can be escalated, those of them that failed,   *)
(* and those chosen, the one under way included.                           *)
Can == {i \in DOMAIN natives : CanRunEscalation(natives[i], request.deep)}
Failures == {i \in Can : FailureLike(natives[i])}

Chosen == {selected[k].attempt : k \in DOMAIN selected} \cup (IF reason = None THEN {} ELSE {attempt})

Choosing ==
  /\ ~Single
  /\ \/ pc \in Observing \cup {"publish", "publish run"}
     \/ pc = "idle" /\ Len(rows) = request.repeat

(* The slots remember what the choice depends on: whether there has been a *)
(* failure, and whether the first attempt could be escalated.              *)
PolicySoFar ==
  /\ request.policy \in Policies /\ IsSeq(natives) /\ IsSeq(selected)
  /\ Chosen = EscalatedAttempts
  /\ request.policy = "first-failure" => ("first_failure" \in slots <=> Failures # {})
  /\ request.policy = "sampled" =>
       /\ "sampled_failure" \in slots <=> Failures # {}
       /\ "sampled_first_attempt" \in slots <=> request.deep /\ 1 \in Can

Policy ==
  /\ pc = "start" => natives = <<>> /\ selected = <<>> /\ reason = None /\ slots = {}
  /\ Choosing =>
       /\ PolicySoFar
       /\ pc \in {"clear", "native", "select"} => Len(natives) = attempt - 1 /\ reason = None
       /\ pc \in {"plan", "tools", "record"} => Len(natives) = attempt
       /\ pc \in {"publish", "publish run", "idle"} => reason = None

----------------------------------------------------------------------------
(* What a tool run comes to.                                               *)

(* What a result says: what it is about, which tool, and nothing found     *)
(* that it does not tell.                                                  *)
Comes(r, finding, tool) == r # None => IsResult(r) /\ r.finding = finding /\ r.tool = tool

(* The result of a tool that failed confirms nothing and has found         *)
(* nothing.                                                                *)
LEMMA FailureIs ==
  ASSUME NEW finding, NEW id, NEW tool \in Tools, NEW available,
         NEW status \in Statuses \ {"Findings"}
  PROVE  /\ IsResult(ResultFailure(finding, id, tool, status, available))
         /\ ~Found(ResultFailure(finding, id, tool, status, available))
<1>1. IsSeq(<<>>)
  BY DEF IsSeq
<1> QED BY <1>1 DEF ResultFailure, IsResult, Found

(* A failure is a result for the finding the tool was run for.             *)
LEMMA FailureComes ==
  ASSUME NEW finding, NEW id, NEW tool \in Tools, NEW available,
         NEW status \in Statuses \ {"Findings"}
  PROVE  Comes(ResultFailure(finding, id, tool, status, available), finding, tool)
<1>1. IsResult(ResultFailure(finding, id, tool, status, available))
  BY FailureIs
<1> QED BY <1>1 DEF Comes, ResultFailure

(* A successful result says Findings exactly when it detected something.   *)
LEMMA SuccessIs ==
  ASSUME NEW finding, NEW id, NEW tool \in Tools, NEW report, IsSeq(report), NEW output
  PROVE  LET r == Successful(finding, id, tool, report, output)
         IN IsResult(r) /\ r.finding = finding /\ r.tool = tool
<1> DEFINE r == Successful(finding, id, tool, report, output)
           full == [k \in DOMAIN report |-> report[k] @@ AttachToolFrames(tool, output, report[k])]
           classes == DetectedClasses(report)
<1>1. IsSeq(full) /\ (report # <<>> => full # <<>>)
  <2>1. full = [k \in DOMAIN report |-> full[k]]
    OBVIOUS
  <2> HIDE DEF full
  <2>2. IsSeq(full) /\ Len(full) = Len(report)
    BY <2>1, MapSeq
  <2> QED BY <2>2, SeqFacts
<1>2. report # <<>> <=> classes # {}
  <2>1. Len(report) \in Nat /\ DOMAIN report = 1..Len(report) /\ (report = <<>> <=> Len(report) = 0)
    BY SeqFacts
  <2>2. report # <<>> => 1 \in DOMAIN report
    BY <2>1
  <2>3. report = <<>> => DOMAIN report = {}
    BY <2>1
  <2> QED BY <2>2, <2>3 DEF DetectedClasses
<1>3. /\ r.status = SuccessfulStatus(classes) /\ r.tool = tool /\ r.finding = finding
      /\ r.success = TRUE /\ r.confirmed = (report # <<>>) /\ r.detected = classes
      /\ r.report = full
  BY DEF Successful
<1> HIDE DEF r, full, classes
<1>4. r.status \in Statuses
  BY <1>3 DEF SuccessfulStatus, Statuses
<1>5. r.status = "Findings" <=> classes # {}
  BY <1>3 DEF SuccessfulStatus
<1>6. IsResult(r)
  BY <1>1, <1>2, <1>3, <1>4, <1>5 DEF IsResult
<1> QED BY <1>3, <1>6 DEF r

(* The detections of every parser are a sequence.                          *)
LEMMA ParsersSeq ==
  ASSUME NEW output, IsSeq(output)
  PROVE  /\ IsSeq(ParseAsan(output)) /\ IsSeq(ParseLsan(output)) /\ IsSeq(ParseUbsan(output))
         /\ IsSeq(ParseValgrind(output)) /\ IsSeq(ParseGdb(output))
<1>1. Len(output) \in Nat
  BY SeqFacts
<1>2. IsSeq(ParseAsan(output)) /\ IsSeq(ParseLsan(output)) /\ IsSeq(ParseUbsan(output))
  BY <1>1, DetectionsSeq DEF ParseAsan, ParseLsan, ParseUbsan
<1>3. IsSeq(ParseValgrind(output))
  <2> DEFINE plain == [i \in DOMAIN output |-> [output[i] EXCEPT !.text = StripPrefix(@)]]
  <2>1. plain = [i \in DOMAIN output |-> plain[i]]
    OBVIOUS
  <2>2. Len(plain) \in Nat
    <3> HIDE DEF plain
    <3> QED BY <1>1, <2>1, MapSeq
  <2> QED BY <2>2, DetectionsSeq DEF ParseValgrind
<1>4. IsSeq(ParseGdb(output))
  <2>1. ParseGdb(output) = <<>> \/ \E d : ParseGdb(output) = <<d>>
    BY DEF ParseGdb
  <2>2. IsSeq(<<>>) /\ \A d : IsSeq(<<d>>)
    BY DEF IsSeq, ToSet
  <2> QED BY <2>1, <2>2
<1> QED BY <1>2, <1>3, <1>4

(* What the execution of a tool comes to: a result for its finding, or     *)
(* none.                                                                   *)
LEMMA ExecutedComes ==
  ASSUME NEW finding, NEW id, NEW tool \in Tools, NEW run, NEW report, IsSeq(report)
  PROVE  Comes(Executed(finding, id, tool, run, report), finding, tool)
<1>1. CASE run.end = "output"
  BY <1>1, SuccessIs DEF Executed, Comes
<1>2. CASE run.end = "timeout"
  <2>1. Executed(finding, id, tool, run, report) = ResultFailure(finding, id, tool, "Timeout", TRUE)
    BY <1>2 DEF Executed, TimeoutResult
  <2>2. "Timeout" \in Statuses \ {"Findings"}
    BY DEF Statuses
  <2> QED BY <2>1, <2>2, FailureComes
<1>3. CASE run.end \notin {"output", "timeout"}
  <2>1. Executed(finding, id, tool, run, report) = None
    BY <1>3 DEF Executed
  <2> QED BY <2>1 DEF Comes
<1> QED BY <1>1, <1>2, <1>3

(* What a run of a tool on a binary comes to, the failures to run it       *)
(* included.                                                               *)
LEMMA RunBinaryComes ==
  ASSUME NEW finding, NEW id, NEW tool \in Tools, NEW linked, NEW run, IsSeq(run.output)
  PROVE  Comes(RunBinary(finding, id, tool, linked, run), finding, tool)
<1>0. /\ "asan" \in Tools /\ "lsan" \in Tools /\ "ubsan" \in Tools
      /\ "valgrind" \in Tools /\ "gdb" \in Tools
      /\ {"NotApplicable", "ToolUnavailable"} \subseteq Statuses \ {"Findings"}
  BY DEF Tools, Statuses
<1>1. \A t \in Tools : Comes(NotApplicable(finding, id, t), finding, t)
  BY <1>0, FailureComes DEF NotApplicable
<1>2. \A t \in Tools : Comes(Unavailable(finding, id, t), finding, t)
  BY <1>0, FailureComes DEF Unavailable
<1>3. CASE tool = "asan"
  <2>1. Comes(Executed(finding, id, "asan", run, ParseAsan(run.output)), finding, "asan")
    BY <1>0, ParsersSeq, ExecutedComes
  <2>2. RunBinary(finding, id, tool, linked, run) = RunAsanBinary(finding, id, linked, run)
    BY <1>3 DEF RunBinary
  <2> QED BY <1>0, <1>1, <1>3, <2>1, <2>2 DEF RunAsanBinary
<1>4. CASE tool = "lsan"
  <2>1. Comes(Executed(finding, id, "lsan", run, ParseLsan(run.output)), finding, "lsan")
    BY <1>0, ParsersSeq, ExecutedComes
  <2>2. RunBinary(finding, id, tool, linked, run) = RunLsanBinary(finding, id, linked, run)
    BY <1>4 DEF RunBinary
  <2> QED BY <1>0, <1>1, <1>4, <2>1, <2>2 DEF RunLsanBinary
<1>5. CASE tool = "ubsan"
  <2>1. Comes(Executed(finding, id, "ubsan", run, ParseUbsan(run.output)), finding, "ubsan")
    BY <1>0, ParsersSeq, ExecutedComes
  <2>2. RunBinary(finding, id, tool, linked, run) = RunUbsanBinary(finding, id, linked, run)
    BY <1>5 DEF RunBinary
  <2> QED BY <1>0, <1>1, <1>5, <2>1, <2>2 DEF RunUbsanBinary
<1>6. CASE tool = "valgrind"
  <2>1. Comes(Executed(finding, id, "valgrind", run, ParseValgrind(run.output)), finding, "valgrind")
    BY <1>0, ParsersSeq, ExecutedComes
  <2>2. RunBinary(finding, id, tool, linked, run) = RunValgrindBinary(finding, id, run)
    BY <1>6 DEF RunBinary
  <2> QED BY <1>0, <1>2, <1>6, <2>1, <2>2 DEF RunValgrindBinary
<1>7. CASE tool = "gdb"
  <2>1. Comes(Executed(finding, id, "gdb", run, ParseGdb(run.output)), finding, "gdb")
    BY <1>0, ParsersSeq, ExecutedComes
  <2>2. RunBinary(finding, id, tool, linked, run) = RunGdbBinary(finding, id, run)
    BY <1>7 DEF RunBinary
  <2> QED BY <1>0, <1>2, <1>7, <2>1, <2>2 DEF RunGdbBinary
<1> QED BY <1>3, <1>4, <1>5, <1>6, <1>7 DEF Tools

(* The result of a job is about the job's finding, or about the binary.    *)
JobFinding(job) == IF job.what = "finding" THEN job.finding ELSE CleanRun

(* A tool run for a job gives a result for that job's finding, or none.    *)
LEMMA ToolResultComes ==
  ASSUME NEW job, job.tool \in Tools, NEW run, IsSeq(run.output)
  PROVE  Comes(ToolResult(job, run), JobFinding(job), job.tool)
<1>0. "Failed" \in Statuses \ {"Findings"} /\ DefaultConfig.enabled = Tools
  BY DEF Statuses, DefaultConfig
<1>1. CASE job.what = "finding"
  <2>1. ToolResult(job, run) = IF ~FindBinary(Exists) THEN None
                               ELSE RunBinary(job.finding, nextId, job.tool, built, run)
    BY <1>0, <1>1 DEF ToolResult, Escalated
  <2> QED BY <1>1, <2>1, RunBinaryComes DEF Comes, JobFinding
<1>2. CASE job.what # "finding"
  <2>1. \/ ToolResult(job, run) = ResultFailure(CleanRun, nextId, job.tool, "Failed", FALSE)
        \/ ToolResult(job, run) = None
        \/ ToolResult(job, run) = RunBinary(CleanRun, nextId, job.tool, built, run)
    BY <1>2 DEF ToolResult, CleanChecked
  <2>2. Comes(ToolResult(job, run), CleanRun, job.tool)
    <3>1. Comes(None, CleanRun, job.tool)
      BY DEF Comes
    <3> QED BY <1>0, <2>1, <3>1, RunBinaryComes, FailureComes
  <2> QED BY <1>2, <2>2 DEF JobFinding
<1> QED BY <1>1, <1>2

(* The output of a run is lines.                                           *)
LEMMA RunsHaveLines ==
  ASSUME NEW tool, NEW run \in ToolRuns(tool)
  PROVE  IsSeq(run.output)
<1>0. IsSeq(<<>>)
  BY DEF IsSeq
<1>1. tool \in DOMAIN Outputs
  BY DEF ToolRuns
<1>2. run \in Executions({Stamped(o, nextId) : o \in Outputs[tool]}, Ends)
  BY <1>1 DEF ToolRuns
<1>3. \/ \E o \in Outputs[tool] : run.output = Stamped(o, nextId)
      \/ run.output = <<>>
  BY <1>2 DEF Executions
<1>4. \A o \in Outputs[tool] : IsSeq(Stamped(o, nextId))
  <2> TAKE o \in Outputs[tool]
  <2>1. IsSeq(o)
    BY <1>1, OutputsAreLines DEF IsSeq
  <2> DEFINE t == Stamped(o, nextId)
  <2>2. t = [i \in DOMAIN o |-> t[i]]
    BY DEF Stamped
  <2> HIDE DEF t
  <2>3. IsSeq(t)
    BY <2>1, <2>2, MapSeq
  <2> QED BY <2>3 DEF t
<1> QED BY <1>0, <1>3, <1>4

----------------------------------------------------------------------------
(* Findings.                                                               *)

(* What a fingerprint is made of. *)
SameIdentity(f, g) ==
  /\ f.class = g.class /\ f.operation = g.operation /\ f.origin = g.origin
  /\ f.access = g.access /\ f.alloc = g.alloc /\ f.offset = g.offset
  /\ f.alloc_site = g.alloc_site /\ f.tool = g.tool /\ f.message = g.message
  /\ f.binary = g.binary /\ f.source = g.source
  /\ f.stacks.call = g.stacks.call /\ f.stacks.alloc = g.stacks.alloc
  /\ f.stacks.free = g.stacks.free

(* A fingerprint is made of the identity of a finding and of nothing       *)
(* else: the evidence, the plan and the id do not enter.                   *)
LEMMA SameFingerprint ==
  ASSUME NEW f, NEW g, SameIdentity(f, g)
  PROVE  Fingerprint(f) = Fingerprint(g)
<1>1. ToolName(f) = ToolName(g)
  BY DEF SameIdentity, ToolName
<1>2. /\ ToolFrame(f, "call") = ToolFrame(g, "call") /\ ToolFrame(f, "alloc") = ToolFrame(g, "alloc")
      /\ ToolFrame(f, "free") = ToolFrame(g, "free")
  BY DEF SameIdentity, ToolFrame
<1>3. /\ FindingCallSite(f) = FindingCallSite(g) /\ FindingAllocSite(f) = FindingAllocSite(g)
      /\ FindingFreeSite(f) = FindingFreeSite(g)
  BY <1>2 DEF SameIdentity, FindingCallSite, FindingAllocSite, FindingFreeSite
<1>4. FingerprintCallSite(f) = FingerprintCallSite(g)
  BY <1>1, <1>3 DEF SameIdentity, FingerprintCallSite
<1>5. HasNativeIdentity(f) = HasNativeIdentity(g)
  BY <1>1 DEF SameIdentity, HasNativeIdentity
<1>6. BinaryIdentity(f) = BinaryIdentity(g)
  BY <1>1, <1>3, <1>4, <1>5 DEF SameIdentity, BinaryIdentity
<1>7. Sites(f) = Sites(g)
  BY <1>3, <1>4 DEF SameIdentity, Sites
<1>8. ToolSummary(f) = ToolSummary(g)
  BY DEF SameIdentity, ToolSummary
<1>9. f.class = g.class /\ f.operation = g.operation /\ f.access = g.access
      /\ f.alloc = g.alloc /\ f.offset = g.offset
  BY DEF SameIdentity
<1> QED BY <1>1, <1>5, <1>6, <1>7, <1>8, <1>9 DEF Fingerprint

(* The source path is taken from the allocation site and two stacks        *)
(* alone.                                                                  *)
LEMMA SameSource ==
  ASSUME NEW f, NEW g, f.alloc_site = g.alloc_site, f.stacks.call = g.stacks.call,
         f.stacks.alloc = g.stacks.alloc
  PROVE  ExtractSourcePath(f) = ExtractSourcePath(g)
BY DEF ExtractSourcePath

(* attach_finding_provenance does not touch what it does not name, and     *)
(* doing it again changes nothing that a fingerprint is made of.           *)
LEMMA AttachIs ==
  ASSUME NEW f, HasFields(f)
  PROVE  /\ HasFields(AttachProvenance(f))
         /\ AttachProvenance(f).id = f.id /\ AttachProvenance(f).plan = f.plan
         /\ AttachProvenance(f).fingerprint = f.fingerprint
         /\ AttachProvenance(f).class = f.class /\ AttachProvenance(f).operation = f.operation
         /\ AttachProvenance(f).origin = f.origin /\ AttachProvenance(f).access = f.access
         /\ AttachProvenance(f).alloc = f.alloc /\ AttachProvenance(f).offset = f.offset
         /\ AttachProvenance(f).alloc_site = f.alloc_site /\ AttachProvenance(f).tool = f.tool
         /\ AttachProvenance(f).message = f.message /\ AttachProvenance(f).stacks = f.stacks
         /\ AttachProvenance(f).binary = FirstKnown(f.binary, Binary)
         /\ AttachProvenance(f).source = FirstKnown(f.source, ExtractSourcePath(f))
BY DEF AttachProvenance, HasFields, CrashFinding, NoStacks

(* Attaching the provenance again changes nothing of the identity.         *)
LEMMA AttachAgain ==
  ASSUME NEW f, HasFields(f)
  PROVE  SameIdentity(AttachProvenance(AttachProvenance(f)), AttachProvenance(f))
<1> DEFINE g == AttachProvenance(f)
<1>1. HasFields(g) /\ g.stacks = f.stacks /\ g.alloc_site = f.alloc_site
      /\ g.binary = FirstKnown(f.binary, Binary)
      /\ g.source = FirstKnown(f.source, ExtractSourcePath(f))
  BY AttachIs
<1>2. ExtractSourcePath(g) = ExtractSourcePath(f)
  BY <1>1, SameSource
<1> HIDE DEF g
<1>3. FirstKnown(g.binary, Binary) = g.binary /\ FirstKnown(g.source, ExtractSourcePath(g)) = g.source
  BY <1>1, <1>2 DEF FirstKnown, Known
<1>4. SameIdentity(AttachProvenance(g), g)
  BY <1>1, <1>3, AttachIs DEF SameIdentity
<1> QED BY <1>4 DEF g

(* The same identity gives the same fingerprint after provenance is        *)
(* attached.                                                               *)
LEMMA SameAttached ==
  ASSUME NEW f, NEW g, HasFields(f), HasFields(g), SameIdentity(f, g)
  PROVE  Fingerprint(AttachProvenance(f)) = Fingerprint(AttachProvenance(g))
<1>1. ExtractSourcePath(f) = ExtractSourcePath(g)
  BY SameSource DEF SameIdentity
<1>2. SameIdentity(AttachProvenance(f), AttachProvenance(g))
  BY <1>1, AttachIs DEF SameIdentity
<1> QED BY <1>2, SameFingerprint

(* What a finalize makes of a finding. *)
Finished(f) == [AttachProvenance(f) EXCEPT !.fingerprint = Fingerprint(AttachProvenance(f))]

(* A finalize keeps a finding, and its fingerprint if it had one; doing it *)
(* again changes no fingerprint.                                           *)
LEMMA FinishedFinding ==
  ASSUME NEW f, HasFields(f), f.plan \in Tools \cup {None},
         Known(f.fingerprint) => f.fingerprint = Fingerprint(AttachProvenance(f))
  PROVE  IsFinding(Finished(f)) /\ SameFinding(f, Finished(f))
<1> DEFINE g == AttachProvenance(f)
           h == Finished(f)
<1>1. /\ HasFields(g) /\ g.id = f.id /\ g.plan = f.plan /\ g.fingerprint = f.fingerprint
      /\ g.class = f.class /\ g.tool = f.tool /\ g.message = f.message
  BY AttachIs
<1>2. h = [g EXCEPT !.fingerprint = Fingerprint(g)]
  BY DEF Finished
<1>3. SameIdentity(AttachProvenance(g), g)
  BY AttachAgain
<1> HIDE DEF g, h
<1>4. /\ HasFields(h) /\ SameIdentity(g, h) /\ h.fingerprint = Fingerprint(g)
      /\ h.id = g.id /\ h.plan = g.plan
  BY <1>1, <1>2 DEF HasFields, CrashFinding, SameIdentity
<1>5. Fingerprint(h) = Fingerprint(g)
  BY <1>4, SameFingerprint
<1>6. Fingerprint(AttachProvenance(h)) = Fingerprint(AttachProvenance(g))
  BY <1>1, <1>4, SameAttached
<1>7. Fingerprint(AttachProvenance(g)) = Fingerprint(g)
  BY <1>3, SameFingerprint
<1>8. h.class = f.class /\ h.tool = f.tool /\ h.message = f.message
  BY <1>1, <1>4 DEF SameIdentity
<1>9. IsFinding(h)
  BY <1>1, <1>4, <1>5, <1>6, <1>7 DEF IsFinding, HasFields
<1>10. Known(f.fingerprint) => h.fingerprint = f.fingerprint
  BY <1>4 DEF g
<1> QED BY <1>1, <1>4, <1>8, <1>9, <1>10 DEF SameFinding, h

(* A stack of gdb is not what a finding is told by.                        *)
LEMMA EnrichedFinding ==
  ASSUME NEW f, IsFinding(f), NEW result
  PROVE  IsFinding(EnrichedBy(f, result)) /\ SameFinding(f, EnrichedBy(f, result))
<1> DEFINE g == EnrichedBy(f, result)
<1>1. HasFields(f)
  BY DEF IsFinding, HasFields
<1>2. /\ HasFields(g) /\ g.id = f.id /\ g.plan = f.plan /\ g.fingerprint = f.fingerprint
      /\ SameIdentity(f, g)
  BY <1>1 DEF EnrichedBy, HasFields, CrashFinding, NoStacks, SameIdentity
<1>3. Fingerprint(f) = Fingerprint(g) /\ Fingerprint(AttachProvenance(f)) = Fingerprint(AttachProvenance(g))
  BY <1>1, <1>2, SameFingerprint, SameAttached
<1> HIDE DEF g
<1>4. IsFinding(g)
  BY <1>2, <1>3 DEF IsFinding, HasFields
<1>5. SameFinding(f, g)
  BY <1>2 DEF SameFinding, SameIdentity
<1> QED BY <1>4, <1>5 DEF g

OfTool(f) == Known(f.tool) /\ \A old \in ToSet(OldFindings) : f.id # old.id

(* A tool's finding has an id that no old finding has.                     *)
LEMMA ToolFindingIs ==
  ASSUME NoneIsNothing, NEW f, IsToolFinding(f)
  PROVE  IsFinding(f) /\ OfTool(f)
<1>1. PICK result, d, index : f = ToolBackedFinding(result, d, index)
  BY DEF IsToolFinding
<1>2. Known(f.tool)
  BY <1>1 DEF ToolBackedFinding, NoneIsNothing, Known
<1>3. f.id = <<result.tool, d.class, result.id, index>>
  BY <1>1 DEF ToolBackedFinding, ToolFindingId
<1>4. \A old \in ToSet(OldFindings) : f.id # old.id
  BY <1>3, AgentsTellApart
<1>5. DOMAIN f = DOMAIN CrashFinding(f.id) /\ f.plan = None /\ f.fingerprint = None
  BY <1>1 DEF ToolBackedFinding, CrashFinding
<1>6. DOMAIN f.stacks = DOMAIN NoStacks
  BY <1>1 DEF ToolBackedFinding, NoStacks
<1> QED BY <1>2, <1>4, <1>5, <1>6 DEF IsFinding, HasFields, OfTool, Known

(* The finding that a signal adds, with and without its fingerprint.       *)
LEMMA CrashIs ==
  /\ HasFields(CrashFinding(<<"crash">>)) /\ IsFinding(CrashFinding(<<"crash">>))
  /\ IsFinding([CrashFinding(<<"crash">>) EXCEPT !.fingerprint = Fingerprint(CrashFinding(<<"crash">>))])
<1> DEFINE c == CrashFinding(<<"crash">>)
           f == [c EXCEPT !.fingerprint = Fingerprint(c)]
<1>1. /\ HasFields(c) /\ c.plan \in Tools \cup {None} /\ c.fingerprint = None
      /\ c.stacks = NoStacks /\ c.alloc_site = None /\ c.binary = Binary /\ c.source = None
  BY DEF HasFields, CrashFinding, Tools
<1>2. ExtractSourcePath(c) = None
  <2> DEFINE frames == NoStacks.call \o NoStacks.alloc
  <2>1. DOMAIN frames = {}
    BY DEF NoStacks
  <2>2. \A s : DOMAIN s = {} => FirstSource(s) = None
    BY DEF FirstSource
  <2> HIDE DEF frames
  <2>3. FirstSource([i \in DOMAIN frames |-> FrameSource(frames[i])]) = None
    BY <2>1, <2>2
  <2>4. FirstSource([i \in DOMAIN frames |-> IF frames[i].says = Offset THEN Symbolized ELSE None]) = None
    BY <2>1, <2>2
  <2>5. c.stacks.call \o c.stacks.alloc = frames
    BY <1>1 DEF frames
  <2> QED BY <1>1, <2>3, <2>4, <2>5 DEF ExtractSourcePath, FirstKnown, Known
<1> HIDE DEF c
<1>3. SameIdentity(AttachProvenance(c), c)
  <2>1. FirstKnown(c.binary, Binary) = c.binary /\ FirstKnown(c.source, ExtractSourcePath(c)) = c.source
    BY <1>1, <1>2 DEF FirstKnown
  <2> QED BY <1>1, <2>1, AttachIs DEF SameIdentity
<1>4. Fingerprint(AttachProvenance(c)) = Fingerprint(c)
  BY <1>3, SameFingerprint
<1>5. HasFields(f) /\ SameIdentity(c, f) /\ f.plan = c.plan /\ f.fingerprint = Fingerprint(c)
  BY <1>1 DEF HasFields, CrashFinding, SameIdentity
<1> HIDE DEF f
<1>6. Fingerprint(f) = Fingerprint(c) /\ Fingerprint(AttachProvenance(f)) = Fingerprint(c)
  BY <1>1, <1>4, <1>5, SameFingerprint, SameAttached
<1>7. IsFinding(c)
  BY <1>1 DEF IsFinding, HasFields, Known
<1>8. IsFinding(f)
  BY <1>1, <1>5, <1>6 DEF IsFinding, HasFields
<1> QED BY <1>1, <1>7, <1>8 DEF c, f

----------------------------------------------------------------------------
(* Sequences of findings.                                                  *)

(* No finding goes or moves, and only tools add some. *)
Improves(old, new) ==
  /\ Len(old) <= Len(new) /\ \A k \in DOMAIN old : SameFinding(old[k], new[k])
  /\ \A k \in DOMAIN new : k \in DOMAIN old \/ OfTool(new[k])

(* Improving again improves.                                               *)
LEMMA ImprovesTransitive ==
  ASSUME NEW a, NEW b, NEW c, IsSeq(a), IsSeq(b), IsSeq(c), Improves(a, b), Improves(b, c)
  PROVE  Improves(a, c)
<1>1. /\ Len(a) \in Nat /\ Len(b) \in Nat /\ Len(c) \in Nat
      /\ DOMAIN a = 1..Len(a) /\ DOMAIN b = 1..Len(b) /\ DOMAIN c = 1..Len(c)
  BY SeqFacts
<1>2. Len(a) <= Len(b) /\ Len(b) <= Len(c)
  BY DEF Improves
<1>3. ASSUME NEW k \in DOMAIN a PROVE SameFinding(a[k], c[k])
  <2>1. k \in DOMAIN b
    BY <1>1, <1>2
  <2>2. SameFinding(a[k], b[k]) /\ SameFinding(b[k], c[k])
    BY <2>1 DEF Improves
  <2> QED BY <2>2 DEF SameFinding, Known
<1>4. ASSUME NEW k \in DOMAIN c PROVE k \in DOMAIN a \/ OfTool(c[k])
  <2>1. CASE k \in DOMAIN b
    <3>1. SameFinding(b[k], c[k]) /\ (k \in DOMAIN a \/ OfTool(b[k]))
      BY <2>1 DEF Improves
    <3> QED BY <3>1 DEF SameFinding, OfTool
  <2>2. CASE k \notin DOMAIN b
    BY <2>2 DEF Improves
  <2> QED BY <2>1, <2>2
<1> QED BY <1>1, <1>2, <1>3, <1>4 DEF Improves

(* Findings improve on themselves.                                         *)
LEMMA ImprovesSelf ==
  ASSUME NEW a, IsSeq(a)
  PROVE  Improves(a, a)
BY SeqFacts DEF Improves, SameFinding

(* What is represented in some findings is so in better ones.              *)
LEMMA ImprovesRepresented ==
  ASSUME NEW a, NEW b, IsSeq(a), IsSeq(b), Improves(a, b), NEW d, NEW result,
         Represented(d, result, a)
  PROVE  Represented(d, result, b)
<1>1. PICK f \in ToSet(a) : \/ Known(f.tool) /\ KeyOf(f) = Key(result.tool, d)
                            \/ f.id = result.finding /\ f.class = d.class
  BY DEF Represented
<1>2. PICK k \in DOMAIN a : f = a[k]
  BY DEF ToSet
<1>3. k \in DOMAIN b /\ SameFinding(a[k], b[k])
  <2>1. /\ Len(a) \in Nat /\ Len(b) \in Nat /\ DOMAIN a = 1..Len(a) /\ DOMAIN b = 1..Len(b)
    BY SeqFacts
  <2> QED BY <2>1 DEF Improves
<1>4. b[k] \in ToSet(b)
  BY <1>3 DEF ToSet
<1>5. KeyOf(b[k]) = KeyOf(a[k]) /\ b[k].tool = a[k].tool /\ b[k].id = a[k].id /\ b[k].class = a[k].class
  BY <1>3 DEF SameFinding, KeyOf
<1> QED BY <1>1, <1>2, <1>4, <1>5 DEF Represented

(* What is true of all old findings and of tools' findings. *)
LEMMA ImprovesOfThisRun ==
  ASSUME NEW a, NEW b, Improves(a, b)
  PROVE  OfThisRun(a) => OfThisRun(b)
<1>1. ASSUME NEW f \in ToSet(b)
      PROVE  OfTool(f) \/ \E g \in ToSet(a) : g.id = f.id /\ g.tool = f.tool
  <2>1. PICK k \in DOMAIN b : f = b[k]
    BY DEF ToSet
  <2>2. CASE k \in DOMAIN a
    BY <2>1, <2>2 DEF Improves, SameFinding, ToSet
  <2>3. CASE k \notin DOMAIN a
    BY <2>1, <2>3 DEF Improves
  <2> QED BY <2>2, <2>3
<1> QED BY <1>1 DEF OfThisRun, OfTool

(* The stacks of gdb enter the findings they belong to, and nothing else   *)
(* changes.                                                                *)
LEMMA EnrichGdbIs ==
  ASSUME NEW fs, AreFindings(fs), NEW found
  PROVE  /\ AreFindings(EnrichGdb(fs, found)) /\ Improves(fs, EnrichGdb(fs, found))
         /\ Len(EnrichGdb(fs, found)) = Len(fs)
         /\ (\A r \in ToSet(found), f \in ToSet(fs) : ~Enriches(r, f)) => EnrichGdb(fs, found) = fs
<1> DEFINE rich == EnrichGdb(fs, found)
<1>1. IsSeq(fs) /\ \A k \in DOMAIN fs : IsFinding(fs[k])
  BY DEF AreFindings, ToSet
<1>2. rich = [k \in DOMAIN fs |-> rich[k]]
  BY DEF EnrichGdb
<1>3. \A k \in DOMAIN fs : rich[k] = fs[k] \/ \E r : rich[k] = EnrichedBy(fs[k], r)
  BY DEF EnrichGdb
<1>4. ASSUME \A r \in ToSet(found), f \in ToSet(fs) : ~Enriches(r, f)
      PROVE  rich = fs
  <2>1. \A k \in DOMAIN fs : rich[k] = fs[k]
    <3> TAKE k \in DOMAIN fs
    <3>1. fs[k] \in ToSet(fs) /\ \A j \in DOMAIN found : found[j] \in ToSet(found)
      BY DEF ToSet
    <3>2. {j \in DOMAIN found : Enriches(found[j], fs[k])} = {}
      BY <1>4, <3>1
    <3> QED BY <3>2 DEF EnrichGdb
  <2> HIDE DEF rich
  <2>2. fs = [k \in DOMAIN fs |-> fs[k]]
    BY <1>1 DEF IsSeq
  <2> QED BY <1>2, <2>1, <2>2
<1> HIDE DEF rich
<1>5. IsSeq(rich) /\ Len(rich) = Len(fs) /\ DOMAIN rich = DOMAIN fs
  BY <1>1, <1>2, MapSeq
<1>6. \A k \in DOMAIN fs : IsFinding(rich[k]) /\ SameFinding(fs[k], rich[k])
  <2> TAKE k \in DOMAIN fs
  <2>1. IsFinding(fs[k])
    BY <1>1
  <2>2. CASE rich[k] = fs[k]
    BY <2>1, <2>2 DEF SameFinding
  <2>3. CASE \E r : rich[k] = EnrichedBy(fs[k], r)
    BY <2>1, <2>3, EnrichedFinding
  <2> QED BY <1>3, <2>2, <2>3
<1>7. AreFindings(rich)
  BY <1>5, <1>6 DEF AreFindings, ToSet
<1>8. Improves(fs, rich)
  <2>1. Len(fs) \in Nat
    BY <1>1, SeqFacts
  <2> QED BY <1>5, <1>6, <2>1 DEF Improves
<1> QED BY <1>4, <1>5, <1>7, <1>8 DEF rich

(* What the tools add, once more.                                          *)
LEMMA WithToolsIs ==
  ASSUME NoneIsNothing, NEW fs, AreFindings(fs), NEW found, IsSeq(found),
         \A r \in ToSet(found) : Detected(r)
  PROVE  /\ AreFindings(WithToolFindings(fs, found)) /\ Improves(fs, WithToolFindings(fs, found))
         /\ AllRepresented(found, WithToolFindings(fs, found))
         /\ (\A r \in ToSet(found) : ~Found(r)) => Len(WithToolFindings(fs, found)) = Len(fs)
<1> DEFINE rich == EnrichGdb(fs, found)
           new == WithToolFindings(fs, found)
<1>1. /\ AreFindings(rich) /\ IsSeq(fs) /\ IsSeq(rich) /\ Len(rich) = Len(fs)
      /\ Improves(fs, rich)
  BY EnrichGdbIs DEF AreFindings
<1>2. /\ Extends(rich, new)
      /\ \A r \in ToSet(found) : Found(r) => \A d \in ToSet(r.report) : Represented(d, r, new)
      /\ (\A r \in ToSet(found) : ~Found(r)) => new = rich
  BY <1>1, WithToolFindingsIs
<1> HIDE DEF rich, new
<1>3. IsSeq(new)
  BY <1>2 DEF Extends
<1>4. \A k \in DOMAIN new : IsFinding(new[k]) /\ (k \in DOMAIN rich \/ OfTool(new[k]))
  <2> TAKE k \in DOMAIN new
  <2>1. CASE k \in DOMAIN rich
    <3>1. new[k] = rich[k] /\ rich[k] \in ToSet(rich)
      BY <1>2, <2>1 DEF Extends, ToSet
    <3> QED BY <1>1, <2>1, <3>1 DEF AreFindings
  <2>2. CASE IsToolFinding(new[k])
    BY <2>2, ToolFindingIs
  <2> QED BY <1>2, <2>1, <2>2 DEF Extends
<1>5. AreFindings(new)
  BY <1>3, <1>4 DEF AreFindings, ToSet
<1>6. Improves(rich, new)
  BY <1>2, <1>4 DEF Extends, Improves, SameFinding
<1>7. Improves(fs, new)
  BY <1>1, <1>3, <1>6, ImprovesTransitive
<1> QED BY <1>1, <1>2, <1>5, <1>7 DEF AllRepresented, new

(* The findings that a finalize writes: those of the pack, each with its   *)
(* fingerprint, and the crash; a pack without a file of findings gets      *)
(* one.                                                                    *)
LEMMA FinalFindingsIs ==
  ASSUME NoneIsNothing, NEW pack, pack.findings # None => AreFindings(pack.findings),
         NEW crash \in {<<>>, <<CrashFinding(<<"crash">>)>>}
  PROVE  /\ AreFindings(FinalFindings(pack, crash))
         /\ pack.findings # None /\ crash = <<>> =>
              /\ Improves(pack.findings, FinalFindings(pack, crash))
              /\ Len(FinalFindings(pack, crash)) = Len(pack.findings)
         /\ pack.findings # None /\ pack.findings # <<>> =>
              /\ Improves(pack.findings, FinalFindings(pack, crash))
              /\ Len(FinalFindings(pack, crash)) = Len(pack.findings)
         /\ pack.findings = None /\ crash = <<>> => FinalFindings(pack, crash) = <<>>
         /\ pack.findings \in {None, <<>>} =>
              \/ FinalFindings(pack, crash) = <<>>
              \/ \E f : FinalFindings(pack, crash) = <<f>> /\ f.id = <<"crash">>
         /\ (pack.findings # None => OfThisRun(pack.findings)) => OfThisRun(FinalFindings(pack, crash))
<1> DEFINE new == FinalFindings(pack, crash)
<1>1. CASE pack.findings # None /\ pack.findings # <<>>
  <2> DEFINE fs == pack.findings
             kept == [i \in DOMAIN fs |-> AttachProvenance(fs[i])]
  <2>1. IsSeq(fs) /\ \A k \in DOMAIN fs : IsFinding(fs[k])
    BY <1>1 DEF AreFindings, ToSet
  <2>2. Len(fs) \in Nat /\ DOMAIN fs = 1..Len(fs) /\ Len(fs) # 0
    BY <1>1, <2>1, SeqFacts
  <2>3. kept # <<>>
    <3>1. 1 \in DOMAIN kept
      BY <2>2
    <3> HIDE DEF kept
    <3> QED BY <3>1
  <2>4. new = Annotated(kept)
    BY <1>1, <2>3 DEF FinalFindings
  <2>5. new = [k \in DOMAIN fs |-> new[k]]
    BY <2>4 DEF Annotated
  <2>6. \A k \in DOMAIN fs : new[k] = Finished(fs[k])
    BY <2>4 DEF Annotated, Finished
  <2> HIDE DEF new, fs
  <2>7. IsSeq(new) /\ Len(new) = Len(fs) /\ DOMAIN new = DOMAIN fs
    BY <2>1, <2>5, MapSeq
  <2>8. \A k \in DOMAIN fs : IsFinding(new[k]) /\ SameFinding(fs[k], new[k])
    BY <2>1, <2>6, FinishedFinding DEF IsFinding, HasFields
  <2>9. AreFindings(new)
    BY <2>7, <2>8 DEF AreFindings, ToSet
  <2>10. Improves(fs, new)
    BY <2>2, <2>7, <2>8 DEF Improves
  <2>11. OfThisRun(fs) => OfThisRun(new)
    BY <2>10, ImprovesOfThisRun
  <2> QED BY <1>1, <2>7, <2>9, <2>10, <2>11 DEF new, fs
<1>2. CASE pack.findings = None \/ pack.findings = <<>>
  <2>1. new = Annotated(crash)
    <3>1. pack.findings = <<>> => [i \in DOMAIN pack.findings |-> AttachProvenance(pack.findings[i])] = <<>>
      OBVIOUS
    <3> QED BY <1>2, <3>1 DEF FinalFindings
  <2>2. CASE crash = <<>>
    <3>1. new = <<>>
      BY <2>1, <2>2 DEF Annotated
    <3>2. AreFindings(<<>>) /\ Improves(<<>>, <<>>) /\ OfThisRun(<<>>)
      BY DEF AreFindings, Improves, OfThisRun, IsSeq, ToSet
    <3> QED BY <1>2, <2>2, <3>1, <3>2
  <2>3. CASE crash = <<CrashFinding(<<"crash">>)>>
    <3> DEFINE c == CrashFinding(<<"crash">>)
               f == [c EXCEPT !.fingerprint = Fingerprint(c)]
    <3>1. new = <<f>>
      <4> HIDE DEF c
      <4> QED BY <2>1, <2>3 DEF Annotated, c
    <3>2. IsFinding(f)
      BY CrashIs
    <3>3. f.id = <<"crash">>
      BY DEF CrashFinding
    <3>4. crash # <<>>
      BY <2>3
    <3> HIDE DEF f, c
    <3>5. IsSeq(<<f>>) /\ ToSet(<<f>>) = {f}
      BY DEF IsSeq, ToSet
    <3>6. AreFindings(<<f>>)
      BY <3>2, <3>5 DEF AreFindings
    <3>7. OfThisRun(<<f>>)
      BY <3>3, <3>5, AgentsTellApart DEF OfThisRun
    <3>8. \E h : new = <<h>> /\ h.id = <<"crash">>
      <4>1. f.id = <<"crash">>
        BY <3>3
      <4> QED BY <3>1, <4>1
    <3> QED BY <1>2, <3>1, <3>4, <3>6, <3>7, <3>8
  <2> QED BY <2>2, <2>3
<1> QED BY <1>1, <1>2

----------------------------------------------------------------------------
(* Crashpacks.                                                             *)

(* A sequence is not the absent file.                                      *)
LEMMA SeqIsSomething ==
  ASSUME NoneIsNothing, NEW s, IsSeq(s)
  PROVE  s # None
<1>1. s = [x \in DOMAIN s |-> s[x]]
  BY DEF IsSeq
<1> QED BY <1>1 DEF NoneIsNothing

(* All that tools found stays represented in better findings.              *)
LEMMA ImprovesAll ==
  ASSUME NEW a, NEW b, IsSeq(a), IsSeq(b), Improves(a, b), NEW found, AllRepresented(found, a)
  PROVE  AllRepresented(found, b)
BY ImprovesRepresented DEF AllRepresented

(* A finalize leaves the files of the crashpack in agreement and touches   *)
(* neither the tool results nor the replay.                                *)
LEMMA FinalizedIs ==
  ASSUME NoneIsNothing, NEW pack, HasFiles(pack), NEW crash \in {<<>>, <<CrashFinding(<<"crash">>)>>},
         pack.findings # None => AreFindings(pack.findings)
  PROVE  LET p == Finalized(pack, crash)
         IN /\ HasFiles(p) /\ Intact(p) /\ p.findings = FinalFindings(pack, crash)
            /\ p.bin /\ Known(p.manifest) /\ p.analysis = pack.analysis
            /\ p.console = pack.console /\ p.results = pack.results
            /\ p.replay = pack.replay
<1> DEFINE p == Finalized(pack, crash)
           fs == FinalFindings(pack, crash)
<1>1. IsSeq(fs)
  BY FinalFindingsIs DEF AreFindings
<1>2. fs # None
  <2> HIDE DEF fs
  <2> QED BY <1>1, SeqIsSomething
<1> HIDE DEF fs
<1>3. /\ HasFiles(p) /\ p.bin /\ p.findings = fs /\ p.groups = IssueGroups(fs)
      /\ p.manifest = WriteManifest(fs) /\ p.evidence = EvidencePack(fs, IssueGroups(fs))
      /\ p.analysis = pack.analysis /\ p.console = pack.console /\ p.results = pack.results
      /\ p.replay = pack.replay
  BY DEF Finalized, HasFiles, EmptyPack, fs
<1> HIDE DEF p
<1>4. Known(p.manifest)
  BY <1>3 DEF WriteManifest, NoneIsNothing, Known
<1>5. Intact(p)
  BY <1>2, <1>3 DEF Intact
<1> QED BY <1>3, <1>4, <1>5 DEF fs, p

(* What a finalize leaves, whether or not it came to its end.              *)
LEMMA FinalizationsAre ==
  ASSUME NoneIsNothing, NEW pack, HasFiles(pack), NEW crash \in {<<>>, <<CrashFinding(<<"crash">>)>>},
         pack.findings # None => AreFindings(pack.findings), NEW here,
         NEW f \in Finalizations(pack, crash, here)
  PROVE  /\ HasFiles(f.pack) /\ f.pack.analysis = pack.analysis
         /\ f.pack.console = pack.console /\ f.pack.results = pack.results
         /\ pack.bin => f.pack.bin
         /\ Known(pack.manifest) => Known(f.pack.manifest)
         /\ f.pack.findings \in {pack.findings, FinalFindings(pack, crash)}
         /\ f.ok \in BOOLEAN
         /\ f.ok => here /\ f.pack = Finalized(pack, crash)
<1> DEFINE final == Finalized(pack, crash)
<1>1. /\ HasFiles(final) /\ final.findings = FinalFindings(pack, crash)
      /\ final.bin /\ Known(final.manifest) /\ final.analysis = pack.analysis
      /\ final.console = pack.console /\ final.results = pack.results
  BY FinalizedIs
<1>2. CASE f = Done(final) /\ here
  BY <1>1, <1>2 DEF Done
<1>3. CASE \E k : f = Broken(WrittenSoFar(pack, final, k))
  <2>1. PICK k : f = Broken(WrittenSoFar(pack, final, k))
    BY <1>3
  <2> DEFINE p == WrittenSoFar(pack, final, k)
  <2>2. DOMAIN p = DOMAIN pack
    BY DEF WrittenSoFar
  <2>3. \A file \in DOMAIN pack : p[file] \in {pack[file], final[file]}
    BY DEF WrittenSoFar
  <2>4. f.pack = p /\ f.ok = FALSE
    BY <2>1 DEF Broken
  <2> HIDE DEF p, final
  <2>5. {"analysis", "console", "results", "bin", "manifest", "findings"} \subseteq DOMAIN pack
    BY DEF HasFiles, EmptyPack
  <2>6. /\ p.analysis = pack.analysis /\ p.console = pack.console /\ p.results = pack.results
        /\ pack.bin => p.bin
        /\ Known(pack.manifest) => Known(p.manifest)
        /\ p.findings \in {pack.findings, FinalFindings(pack, crash)}
    BY <1>1, <2>3, <2>5
  <2> QED BY <2>2, <2>4, <2>6 DEF HasFiles
<1>4. \/ f = Done(final) /\ here
      \/ \E k : f = Broken(WrittenSoFar(pack, final, k))
  BY DEF Finalizations
<1> QED BY <1>2, <1>3, <1>4

Findings(rs) == \A r \in ToSet(rs) : Detected(r)

(* What a promotion leaves.                                                *)
LEMMA PromotionsAre ==
  ASSUME NoneIsNothing, NEW pack, HasFiles(pack), AreFindings(pack.findings), pack.analysis,
         NEW found, IsSeq(found), Findings(found), NEW here,
         NEW f \in Promotions(pack, found, here)
  PROVE  /\ HasFiles(f.pack) /\ f.pack.analysis
         /\ f.pack.console = pack.console /\ f.pack.results = pack.results
         /\ pack.bin => f.pack.bin
         /\ Known(pack.manifest) => Known(f.pack.manifest)
         /\ AreFindings(f.pack.findings) /\ Improves(pack.findings, f.pack.findings)
         /\ AllRepresented(found, f.pack.findings)
         /\ (\A r \in ToSet(found) : ~Found(r)) => Len(f.pack.findings) = Len(pack.findings)
         /\ f.ok \in BOOLEAN
         /\ f.ok /\ PromotionChanges(pack.findings, found) => Intact(f.pack)
         /\ f.ok /\ ~PromotionChanges(pack.findings, found) => f.pack = pack
<1> DEFINE fs == pack.findings
           new == WithToolFindings(fs, found)
           wide == [pack EXCEPT !.findings = new]
<1>1. /\ AreFindings(new) /\ Improves(fs, new) /\ AllRepresented(found, new)
      /\ (\A r \in ToSet(found) : ~Found(r)) => Len(new) = Len(fs)
  BY WithToolsIs DEF Findings
<1>2. IsSeq(fs) /\ IsSeq(new) /\ fs # None
  BY <1>1, SeqIsSomething DEF AreFindings
<1>3. CASE ~PromotionChanges(fs, found) /\ f = Done(pack)
  <2>1. new = EnrichGdb(fs, found) /\ \A r \in ToSet(found), g \in ToSet(fs) : ~Enriches(r, g)
    BY <1>3 DEF PromotionChanges
  <2>2. new = fs
    BY <2>1, EnrichGdbIs
  <2>3. f.pack = pack /\ f.ok = TRUE
    BY <1>3 DEF Done
  <2> HIDE DEF new
  <2> QED BY <1>1, <1>3, <2>2, <2>3
<1>4. CASE PromotionChanges(fs, found) /\ f \in Finalizations(wide, <<>>, here)
  <2> HIDE DEF new
  <2>1. /\ HasFiles(wide) /\ wide.findings = new /\ wide.analysis = pack.analysis
        /\ wide.console = pack.console /\ wide.results = pack.results
        /\ wide.bin = pack.bin /\ wide.manifest = pack.manifest
    BY DEF HasFiles, EmptyPack
  <2> HIDE DEF wide
  <2>2. new # None
    BY <1>2, SeqIsSomething
  <2> DEFINE last == FinalFindings(wide, <<>>)
  <2>3. AreFindings(last) /\ Improves(new, last) /\ Len(last) = Len(new)
    BY <1>1, <2>1, <2>2, FinalFindingsIs
  <2>4. /\ HasFiles(f.pack) /\ f.pack.analysis = wide.analysis
        /\ f.pack.console = wide.console /\ f.pack.results = wide.results
        /\ wide.bin => f.pack.bin
        /\ Known(wide.manifest) => Known(f.pack.manifest)
        /\ f.pack.findings \in {wide.findings, last}
        /\ f.ok \in BOOLEAN
        /\ f.ok => f.pack = Finalized(wide, <<>>)
    <3> HIDE DEF last
    <3> QED BY <1>1, <1>4, <2>1, FinalizationsAre DEF last
  <2>5. Intact(Finalized(wide, <<>>))
    BY <1>1, <2>1, FinalizedIs
  <2> HIDE DEF last
  <2>6. IsSeq(last) /\ Improves(fs, last) /\ AllRepresented(found, last)
    BY <1>1, <1>2, <2>3, ImprovesTransitive, ImprovesAll DEF AreFindings
  <2>7. f.pack.findings \in {new, last}
    BY <2>1, <2>4
  <2>8. /\ AreFindings(f.pack.findings) /\ Improves(fs, f.pack.findings)
        /\ AllRepresented(found, f.pack.findings)
        /\ (\A r \in ToSet(found) : ~Found(r)) => Len(f.pack.findings) = Len(fs)
    BY <1>1, <2>3, <2>6, <2>7
  <2> QED BY <1>4, <2>1, <2>4, <2>5, <2>8
<1>5. \/ ~PromotionChanges(fs, found) /\ f = Done(pack)
      \/ PromotionChanges(fs, found) /\ f \in Finalizations(wide, <<>>, here)
  BY <1>2 DEF Promotions
<1> QED BY <1>3, <1>4, <1>5

----------------------------------------------------------------------------
(* Control.                                                                *)

(* A usage that is accepted has a count and a policy.                      *)
LEMMA PolicyIs ==
  ASSUME NoneIsNothing, NEW repeat \in Nat, NEW nativeOnly \in BOOLEAN, NEW explicit \in Policies \cup {None},
         ResolvePolicy(repeat, nativeOnly, explicit) # None
  PROVE  repeat # 0 /\ ResolvePolicy(repeat, nativeOnly, explicit) \in Policies
<1>1. "never" \in Policies /\ "always" \in Policies /\ "first-failure" \in Policies
  BY DEF Policies
<1>2. CASE repeat = 0
  BY <1>2 DEF ResolvePolicy
<1>3. CASE repeat = 1
  BY <1>1, <1>3 DEF ResolvePolicy
<1>4. CASE repeat > 1 /\ nativeOnly
  BY <1>1, <1>4 DEF ResolvePolicy
<1>5. CASE repeat > 1 /\ ~nativeOnly
  BY <1>1, <1>5 DEF ResolvePolicy
<1> QED BY <1>2, <1>3, <1>4, <1>5

(* Control holds at the start.                                             *)
LEMMA ControlInit ==
  ASSUME Init
  PROVE  Control
<1>1. IsSeq(rows) /\ Len(rows) = 0
  BY DEF Init, IsSeq
<1>2. request.repeat = 1
  BY DEF Init, NoPolicy
<1>3. /\ request.deep \in BOOLEAN /\ present \in BOOLEAN /\ fallback \in BOOLEAN
      /\ request = NoPolicy /\ pc = "start" /\ attempt = 0 /\ rows = <<>>
      /\ results = <<>> /\ fallback = FALSE
  BY DEF Init, NoPolicy
<1>4. 1 \in 1..MaxAttempts /\ 0 \in 0..MaxAttempts + 1
  BY Bounds
<1> QED BY <1>1, <1>2, <1>3, <1>4 DEF Control, Observing

(* Every step keeps Control.                                               *)
LEMMA ControlKept ==
  ASSUME NoneIsNothing, Control, [Next]_vars
  PROVE  Control'
<1>0. /\ MaxAttempts \in Nat /\ MaxAttempts > 0
      /\ Len(rows) \in Nat /\ request.repeat \in Nat /\ attempt \in Nat
      /\ request.repeat >= 1 /\ request.repeat <= MaxAttempts /\ attempt <= MaxAttempts + 1
  <2>1. IsSeq(rows) /\ request.repeat \in 1..MaxAttempts /\ attempt \in 0..MaxAttempts + 1
    BY DEF Control
  <2>2. Len(rows) \in Nat
    BY <2>1, SeqFacts
  <2> QED BY <2>1, <2>2, Bounds
<1> USE DEF files, loop, setting, Observing, Single
<1>1. ASSUME NEW repeat \in 0..MaxAttempts, NEW nativeOnly \in BOOLEAN, NEW deep \in BOOLEAN,
             NEW explicit \in Policies \cup {None}, Start(repeat, nativeOnly, deep, explicit)
      PROVE  Control'
  <2>1. CASE ResolvePolicy(repeat, nativeOnly, explicit) = None
    BY <1>1, <2>1 DEF Start, End, Control
  <2>2. CASE ResolvePolicy(repeat, nativeOnly, explicit) # None
    <3>1. repeat # 0 /\ repeat \in Nat
      BY <2>2, PolicyIs, Bounds
    <3>2. request'.repeat = repeat /\ attempt' = 1 /\ rows' = rows
          /\ pc' = IF repeat = 1 THEN "native" ELSE "clear"
      BY <1>1, <2>2 DEF Start
    <3>3. rows = <<>> /\ Len(rows) = 0
      BY <1>0, <1>1, SeqFacts DEF Start, Control
    <3> QED BY <1>0, <1>1, <3>1, <3>2, <3>3 DEF Start, Control
  <2> QED BY <2>1, <2>2
<1>2. CASE ClearAttempts
  BY <1>2 DEF ClearAttempts, Control
<1>3. ASSUME NEW pack, NEW target, pc = "native", Observed(pack, target)
      PROVE  Control'
  BY <1>3 DEF Observed, Control
<1>4. ASSUME NEW error \in Errors, NEW findings \in AgentFindings, NativeFails(error, findings)
      PROVE  Control'
  BY <1>3, <1>4 DEF NativeFails
<1>5. ASSUME NEW findings \in AgentFindings, NEW end \in {"exit", "signal", "timeout"},
             NativeEnds(findings, end)
      PROVE  Control'
  BY <1>3, <1>5 DEF NativeEnds
<1>6. CASE Select
  BY <1>6 DEF Select, Control
<1>7. CASE PlanNothing
  BY <1>7 DEF PlanNothing, Control
<1>8. CASE PlanFallback
  BY <1>0, <1>8 DEF PlanFallback, End, Control
<1>9. CASE PlanEscalation
  BY <1>9 DEF PlanEscalation, Control
<1>10. CASE ObserveTool
  BY <1>10 DEF ObserveTool, Control
<1>11. CASE FinishEscalation
  BY <1>0, <1>11 DEF FinishEscalation, End, Control
<1>12. CASE WriteSummary
  <2>1. IsSeq(<<row>>) /\ Len(<<row>>) = 1
    BY DEF IsSeq, ToSet
  <2> QED BY <1>0, <1>12, <2>1 DEF WriteSummary, End, Control
<1>13. CASE RecordAttempt
  <2>1. CASE MissingGroups
    BY <1>0, <1>13, <2>1 DEF RecordAttempt, End, Control
  <2>2. CASE ~MissingGroups
    <3>1. IsSeq(Append(rows, row)) /\ Len(Append(rows, row)) = Len(rows) + 1
      BY AppendSeq DEF Control
    <3>2. /\ rows' = Append(rows, row) /\ attempt' = attempt + 1
          /\ request' = request /\ present' = present /\ results' = <<>> /\ fallback' = FALSE
          /\ pc' = IF attempt = request.repeat THEN "publish" ELSE "native"
      BY <1>13, <2>2 DEF RecordAttempt
    <3>3. attempt \in 1..request.repeat /\ Len(rows) = attempt - 1 /\ ~Single
      BY <1>13 DEF RecordAttempt, Control
    <3>4. /\ Len(rows') = attempt /\ attempt' = attempt + 1 /\ attempt' # 0
          /\ attempt' \in 0..MaxAttempts + 1 /\ attempt <= request.repeat
      BY <1>0, <3>1, <3>2, <3>3
    <3>5. request.repeat \in 1..MaxAttempts
      BY <1>0
    <3>6. CASE attempt = request.repeat
      <4>1. pc' = "publish" /\ IsSeq(rows') /\ request' = request /\ present' = present
            /\ Len(rows') = request.repeat
        BY <3>1, <3>2, <3>4, <3>6
      <4>2. attempt' = request.repeat + 1 /\ Len(rows') <= request.repeat
        BY <1>0, <3>2, <3>6, <4>1
      <4> QED BY <3>2, <3>3, <3>4, <3>5, <4>1, <4>2 DEF Control
    <3>7. CASE attempt # request.repeat
      <4>1. attempt' \in 1..request.repeat /\ Len(rows') = attempt' - 1 /\ Len(rows') <= request.repeat
        BY <1>0, <3>3, <3>4, <3>7
      <4>2. pc' = "native" /\ IsSeq(rows') /\ request' = request /\ present' = present
        BY <3>1, <3>2, <3>7
      <4> QED BY <3>2, <3>4, <3>5, <4>1, <4>2 DEF Control
    <3> QED BY <3>6, <3>7
  <2> QED BY <2>1, <2>2
<1>14. CASE PublishRepeat
  BY <1>14 DEF PublishRepeat, Control
<1>15. CASE PublishRun
  BY <1>0, <1>15 DEF PublishRun, End, Control, files
<1>16. CASE Killed
  <2>1. IsSeq(<<>>) /\ Len(<<>>) = 0
    BY DEF IsSeq
  <2>2. rows' = <<>> /\ attempt' = 1 /\ pc' = "idle" /\ request' = request /\ present' = present
        /\ fallback' = FALSE
    BY <1>16 DEF Killed, End
  <2>3. attempt' \in 0..MaxAttempts + 1 /\ attempt' # 0 /\ request.repeat \in 1..MaxAttempts
        /\ 0 <= request.repeat
    BY <1>0, <2>2
  <2> QED BY <2>1, <2>2, <2>3 DEF Control
<1>17. ASSUME NEW tool, EscalateCommand(tool)
       PROVE  Control'
  BY <1>17 DEF EscalateCommand, Command, Begin, End, Control
<1>18. ASSUME NEW tool, NEW checkClean, ScanCommand(tool, checkClean)
       PROVE  Control'
  BY <1>18 DEF ScanCommand, Command, Begin, End, Control
<1>19. CASE CommandTool
  BY <1>19 DEF CommandTool, End, Control
<1>20. CASE SkipFinding
  BY <1>20 DEF SkipFinding, Control
<1>21. CASE FinishCommand
  BY <1>21 DEF FinishCommand, End, Control
<1>22. CASE ReplayCommand
  BY <1>22 DEF ReplayCommand, Command, Begin, End, Control
<1>23. CASE RemoveTarget
  BY <1>23 DEF RemoveTarget, Command, Control
<1>24. CASE UNCHANGED vars
  BY <1>24 DEF vars, Control
<1> QED BY <1>1, <1>2, <1>4, <1>5, <1>6, <1>7, <1>8, <1>9, <1>10, <1>11, <1>12, <1>13, <1>14,
           <1>15, <1>16, <1>17, <1>18, <1>19, <1>20, <1>21, <1>22, <1>23, <1>24 DEF Next

----------------------------------------------------------------------------
(* Jobs.                                                                   *)

(* The elements of a concatenation.                                        *)
LEMMA ConcatSeq ==
  ASSUME NEW s, IsSeq(s), NEW t, IsSeq(t)
  PROVE  IsSeq(s \o t) /\ ToSet(s \o t) \subseteq ToSet(s) \cup ToSet(t)
<1> DEFINE S == ToSet(s) \cup ToSet(t)
<1>1. s \in Seq(S) /\ t \in Seq(S)
  BY DEF IsSeq
<1> HIDE DEF S
<1>2. s \o t \in Seq(S)
  BY <1>1
<1>3. IsSeq(s \o t)
  BY <1>2, SeqIsSeq
<1>4. ToSet(s \o t) \subseteq S
  BY <1>2 DEF ToSet
<1> QED BY <1>3, <1>4 DEF S

(* Jobs that are to run: each has a tool, and gdb only for a finding.      *)
AreJobs(js) == IsSeq(js) /\ \A j \in ToSet(js) : IsJob(j) /\ Known(j.tool)
NeverGdb(js) == \A j \in ToSet(js) : j.tool # "gdb"

(* No tool is the absent value.                                            *)
LEMMA ToolsAreText ==
  \A tool \in Tools : tool # None
BY NoneIsNoText

(* The scans and the skips are jobs of known tools; none is gdb's.         *)
LEMMA ScansAre ==
  ASSUME NoneIsNothing
  PROVE  /\ \A tool \in Tools : AreJobs(<<Scan(tool)>>)
         /\ AreJobs(<<Scan("valgrind")>>) /\ NeverGdb(<<Scan("valgrind")>>)
         /\ AreJobs(SanitizerScans) /\ NeverGdb(SanitizerScans)
         /\ \A id : AreJobs(<<Job("skip", id, "valgrind")>>) /\ NeverGdb(<<Job("skip", id, "valgrind")>>)
<1>1. \A tool \in Tools : tool # None
  BY ToolsAreText
<1>2. \A j : IsSeq(<<j>>) /\ ToSet(<<j>>) = {j}
  BY DEF IsSeq, ToSet
<1>3. \A tool \in Tools : IsJob(Scan(tool)) /\ Known(Scan(tool).tool) /\ Scan(tool).tool = tool
  BY <1>1 DEF Scan, Job, IsJob, Known
<1>4. \A id : /\ IsJob(Job("skip", id, "valgrind")) /\ Known(Job("skip", id, "valgrind").tool)
              /\ Job("skip", id, "valgrind").tool = "valgrind"
  BY <1>1 DEF Job, IsJob, Known, Tools
<1>5. IsSeq(SanitizerScans) /\ ToSet(SanitizerScans) = {Scan("asan"), Scan("lsan"), Scan("ubsan")}
  <2> DEFINE a == Scan("asan")
             l == Scan("lsan")
             u == Scan("ubsan")
  <2> HIDE DEF a, l, u
  <2>1. <<a, l, u>> \in Seq({a, l, u})
    OBVIOUS
  <2>2. ToSet(<<a, l, u>>) = {a, l, u}
    BY DEF ToSet
  <2> QED BY <2>1, <2>2 DEF IsSeq, SanitizerScans, a, l, u
<1>6. {"asan", "lsan", "ubsan", "valgrind"} \subseteq Tools
  BY DEF Tools
<1> QED BY <1>2, <1>3, <1>4, <1>5, <1>6 DEF AreJobs, NeverGdb

(* Jobs after jobs are jobs.                                               *)
LEMMA ConcatJobs ==
  ASSUME NEW s, AreJobs(s), NEW t, AreJobs(t)
  PROVE  AreJobs(s \o t) /\ (NeverGdb(s) /\ NeverGdb(t) => NeverGdb(s \o t))
<1>1. IsSeq(s \o t) /\ ToSet(s \o t) \subseteq ToSet(s) \cup ToSet(t)
  BY ConcatSeq DEF AreJobs
<1> QED BY <1>1 DEF AreJobs, NeverGdb

(* One job for every finding. *)
LEMMA FindingJobs ==
  ASSUME NoneIsNothing, NEW fs, IsSeq(fs), NEW js,
         js = [i \in DOMAIN fs |-> js[i]], \A i \in DOMAIN fs : js[i].what = "finding" /\ js[i].tool \in Tools
  PROVE  AreJobs(js) /\ (fs = <<>> => NeverGdb(js))
<1>1. IsSeq(js) /\ DOMAIN js = DOMAIN fs
  BY MapSeq
<1>2. \A tool \in Tools : tool # None
  BY ToolsAreText
<1>3. \A i \in DOMAIN js : IsJob(js[i]) /\ Known(js[i].tool)
  BY <1>1, <1>2 DEF IsJob, Known
<1>4. fs = <<>> => DOMAIN js = {}
  BY <1>1
<1> QED BY <1>1, <1>3, <1>4 DEF AreJobs, NeverGdb, ToSet

(* The jobs of an escalation: for the findings or the binary, and then the *)
(* sanitizers.                                                             *)
LEMMA EscalationJobsAmong ==
  ASSUME NEW target, NEW fs, NEW deep, NEW sanitizers
  PROVE  \E first \in {[i \in DOMAIN fs |-> Job("finding", fs[i].id, ToolForFinding(fs[i]))],
                       <<Job("skip", CleanRun, "valgrind")>>, <<Scan("valgrind")>>} :
           EscalationJobs(target, fs, deep, sanitizers) \in {<<>>, first, first \o SanitizerScans}
<1> DEFINE all == [i \in DOMAIN fs |-> Job("finding", fs[i].id, ToolForFinding(fs[i]))]
           js == EscalationJobs(target, fs, deep, sanitizers)
           first == CASE target.count > 0 -> all
                      [] target.count = 0 /\ sanitizers # {} -> <<Job("skip", CleanRun, "valgrind")>>
                      [] OTHER -> <<Scan("valgrind")>>
<1>0. ~(target.count > 0 /\ target.count = 0)
  OBVIOUS
<1>1. first \in {all, <<Job("skip", CleanRun, "valgrind")>>, <<Scan("valgrind")>>}
  BY <1>0
<1>2. js = CASE target.count = 0 /\ ~deep -> <<>>
             [] target.count > 0 /\ ~deep -> first
             [] OTHER -> first \o SanitizerScans
  BY DEF EscalationJobs, all
<1> HIDE DEF first, js
<1>3. js \in {<<>>, first, first \o SanitizerScans}
  BY <1>0, <1>2
<1> QED BY <1>1, <1>3 DEF js

(* The jobs of an escalation; gdb runs only for a finding.                 *)
LEMMA EscalationJobsAre ==
  ASSUME NoneIsNothing, NEW target, NEW fs, IsSeq(fs), NEW deep, NEW sanitizers
  PROVE  /\ AreJobs(EscalationJobs(target, fs, deep, sanitizers))
         /\ fs = <<>> => NeverGdb(EscalationJobs(target, fs, deep, sanitizers))
<1> DEFINE all == [i \in DOMAIN fs |-> Job("finding", fs[i].id, ToolForFinding(fs[i]))]
           js == EscalationJobs(target, fs, deep, sanitizers)
<1>1. AreJobs(all) /\ (fs = <<>> => NeverGdb(all))
  <2>1. all = [i \in DOMAIN fs |-> all[i]]
    OBVIOUS
  <2>2. \A i \in DOMAIN fs : all[i].what = "finding" /\ all[i].tool \in Tools
    BY DEF Job, ToolForFinding, Tools
  <2> HIDE DEF all
  <2> QED BY <2>1, <2>2, FindingJobs
<1>2. PICK first \in {all, <<Job("skip", CleanRun, "valgrind")>>, <<Scan("valgrind")>>} :
        js \in {<<>>, first, first \o SanitizerScans}
  BY EscalationJobsAmong
<1> HIDE DEF all
<1> HIDE DEF js
<1>3. AreJobs(first) /\ (fs = <<>> => NeverGdb(first))
  BY <1>1, <1>2, ScansAre
<1>4. AreJobs(<<>>) /\ NeverGdb(<<>>)
  BY DEF AreJobs, NeverGdb, IsSeq, ToSet
<1>5. AreJobs(first \o SanitizerScans) /\ (fs = <<>> => NeverGdb(first \o SanitizerScans))
  BY <1>3, ScansAre, ConcatJobs
<1> QED BY <1>2, <1>3, <1>4, <1>5 DEF js

(* The jobs of the fallback; gdb is not among them.                        *)
LEMMA FallbackJobsAre ==
  ASSUME NoneIsNothing, NEW deep, NEW sanitizers
  PROVE  AreJobs(FallbackJobs(deep, sanitizers)) /\ NeverGdb(FallbackJobs(deep, sanitizers))
<1> DEFINE js == FallbackJobs(deep, sanitizers)
<1>1. PICK first \in {<<Scan("valgrind")>>, <<Job("skip", ToolOnly, "valgrind")>>} :
        js \in {first, first \o SanitizerScans}
  BY DEF FallbackJobs
<1> HIDE DEF js
<1>2. AreJobs(first) /\ NeverGdb(first)
  BY <1>1, ScansAre
<1>3. AreJobs(first \o SanitizerScans) /\ NeverGdb(first \o SanitizerScans)
  BY <1>2, ScansAre, ConcatJobs
<1> QED BY <1>1, <1>2, <1>3 DEF js

(* The jobs of an escalate command: one for every finding, which is        *)
(* skipped when it has no tool.                                            *)
LEMMA PlannedJobsAre ==
  ASSUME NEW fs, AreFindings(fs), NEW tool \in Tools \cup {"all"}
  PROVE  /\ IsSeq(PlannedJobs(fs, tool))
         /\ \A j \in ToSet(PlannedJobs(fs, tool)) : IsJob(j) /\ j.what = "finding"
         /\ \A f \in ToSet(fs) : \E j \in ToSet(PlannedJobs(fs, tool)) :
              j.what = "finding" /\ j.finding = f.id /\ j.tool = IF tool = "all" THEN f.plan ELSE tool
<1> DEFINE js == PlannedJobs(fs, tool)
<1>1. js = [i \in DOMAIN fs |-> js[i]]
  BY DEF PlannedJobs
<1>2. \A i \in DOMAIN fs : /\ js[i].what = "finding" /\ js[i].finding = fs[i].id
                           /\ js[i].tool = IF tool = "all" THEN fs[i].plan ELSE tool
  BY DEF PlannedJobs, Job
<1> HIDE DEF js
<1>3. IsSeq(js) /\ DOMAIN js = DOMAIN fs
  BY <1>1, MapSeq DEF AreFindings
<1>4. \A i \in DOMAIN fs : fs[i].plan \in Tools \cup {None}
  BY DEF AreFindings, IsFinding, ToSet
<1>5. \A j \in ToSet(js) : IsJob(j) /\ j.what = "finding"
  BY <1>2, <1>3, <1>4 DEF IsJob, ToSet
<1>6. \A f \in ToSet(fs) : \E j \in ToSet(js) :
        j.what = "finding" /\ j.finding = f.id /\ j.tool = IF tool = "all" THEN f.plan ELSE tool
  <2> TAKE f \in ToSet(fs)
  <2>1. PICK i \in DOMAIN fs : f = fs[i]
    BY DEF ToSet
  <2>2. js[i] \in ToSet(js)
    BY <1>3 DEF ToSet
  <2> QED BY <1>2, <2>1, <2>2
<1> QED BY <1>3, <1>5, <1>6 DEF js

----------------------------------------------------------------------------
(* Types.                                                                  *)

(* The empty sequence has no element.                                      *)
LEMMA NoJobsNoResults == IsSeq(<<>>) /\ ToSet(<<>>) = {}
BY DEF IsSeq, ToSet

(* One more result.                                                        *)
LEMMA MoreResults ==
  ASSUME NEW rs, AreResults(rs), NEW r, IsResult(r)
  PROVE  AreResults(Append(rs, r))
BY AppendSeq DEF AreResults

(* One job less.                                                           *)
LEMMA FewerJobs ==
  ASSUME NEW js, IsSeq(js), js # <<>>
  PROVE  IsSeq(Tail(js)) /\ Head(js) \in ToSet(js) /\ ToSet(Tail(js)) \subseteq ToSet(js)
BY TailSeq

(* The result of the job that an observe runs: what the tool comes to, or  *)
(* a failure in its place.                                                 *)
LEMMA ObservedResult ==
  ASSUME NEW job, IsJob(job), Known(job.tool), NEW run, IsSeq(run.output), NEW id
  PROVE  /\ IsResult(FirstKnown(ToolResult(job, run), ObserveFailure(id, job.tool)))
         /\ FirstKnown(ToolResult(job, run), ObserveFailure(id, job.tool)).tool = job.tool
<1>1. job.tool \in Tools
  BY DEF IsJob, Known
<1>2. Comes(ToolResult(job, run), JobFinding(job), job.tool)
  BY <1>1, ToolResultComes
<1>3. IsResult(ObserveFailure(id, job.tool)) /\ ObserveFailure(id, job.tool).tool = job.tool
  <2>1. "Failed" \in Statuses \ {"Findings"}
    BY DEF Statuses
  <2>2. IsResult(ResultFailure(id, 0, job.tool, "Failed", TRUE))
    BY <1>1, <2>1, FailureIs
  <2> QED BY <2>2 DEF ObserveFailure, ResultFailure
<1> QED BY <1>2, <1>3 DEF FirstKnown, Known, Comes

(* A skipped job has a result that found nothing.                          *)
LEMMA SkippedResult ==
  ASSUME NEW job, IsJob(job), Known(job.tool)
  PROVE  /\ IsResult(ObserveSkipped(job)) /\ ~Found(ObserveSkipped(job))
         /\ ObserveSkipped(job).tool = job.tool
<1>1. job.tool \in Tools /\ "Skipped" \in Statuses \ {"Findings"}
  BY DEF IsJob, Known, Statuses
<1>2. IsResult(ResultFailure(job.finding, 0, job.tool, "Skipped", TRUE))
      /\ ~Found(ResultFailure(job.finding, 0, job.tool, "Skipped", TRUE))
  BY <1>1, FailureIs
<1> QED BY <1>2 DEF ObserveSkipped, ResultFailure

(* What a step does to the results and the jobs. *)
LEMMA ResultsOfObserveTool ==
  ASSUME Typed, ObserveTool
  PROVE  /\ AreResults(results') /\ IsSeq(jobs')
         /\ ToSet(jobs') \subseteq ToSet(jobs) /\ Head(jobs) \in ToSet(jobs)
         /\ \E r : results' = Append(results, r) /\ r.tool = Head(jobs).tool
<1> DEFINE job == Head(jobs)
<1>1. IsSeq(jobs) /\ jobs # <<>> /\ pc = "tools" /\ jobs' = Tail(jobs)
  BY DEF ObserveTool, Typed
<1>2. IsSeq(Tail(jobs)) /\ job \in ToSet(jobs) /\ ToSet(Tail(jobs)) \subseteq ToSet(jobs)
  BY <1>1, FewerJobs
<1>3. IsJob(job) /\ Known(job.tool)
  BY <1>1, <1>2 DEF Typed
<1> HIDE DEF job
<1>4. \E r : results' = Append(results, r) /\ IsResult(r) /\ r.tool = job.tool
  <2>1. CASE results' = Append(results, ObserveSkipped(job))
    BY <1>3, <2>1, SkippedResult
  <2>2. ASSUME NEW run \in ToolRuns(job.tool), NEW id,
               results' = Append(results, FirstKnown(ToolResult(job, run), ObserveFailure(id, job.tool)))
        PROVE  \E r : results' = Append(results, r) /\ IsResult(r) /\ r.tool = job.tool
    <3>1. IsSeq(run.output)
      BY RunsHaveLines
    <3> QED BY <1>3, <2>2, <3>1, ObservedResult
  <2>3. \/ results' = Append(results, ObserveSkipped(job))
        \/ \E run \in ToolRuns(job.tool) : \E id :
             results' = Append(results, FirstKnown(ToolResult(job, run), ObserveFailure(id, job.tool)))
    BY DEF ObserveTool, job
  <2> QED BY <2>1, <2>2, <2>3
<1>5. AreResults(results)
  BY DEF Typed, AreResults
<1>6. AreResults(results')
  BY <1>4, <1>5, MoreResults
<1> QED BY <1>1, <1>2, <1>4, <1>6 DEF job

(* An escalate command goes on with a result of its job, or ends.          *)
LEMMA ResultsOfCommandTool ==
  ASSUME Typed, CommandTool
  PROVE  /\ Head(jobs) \in ToSet(jobs) /\ Head(jobs).tool \in Tools /\ cooling' \subseteq Tools
         /\ \/ /\ \E r : results' = Append(results, r) /\ r.finding = JobFinding(Head(jobs))
               /\ AreResults(results') /\ jobs' = Tail(jobs) /\ IsSeq(jobs')
               /\ ToSet(jobs') \subseteq ToSet(jobs) /\ pc' = pc /\ outcome' = outcome
            \/ End("error") /\ results' = results /\ jobs' = jobs
<1> DEFINE job == Head(jobs)
<1>1. IsSeq(jobs) /\ jobs # <<>> /\ Known(job.tool)
  BY DEF CommandTool, Typed
<1>2. IsSeq(Tail(jobs)) /\ job \in ToSet(jobs) /\ ToSet(Tail(jobs)) \subseteq ToSet(jobs)
  BY <1>1, FewerJobs
<1>3. job.tool \in Tools
  BY <1>1, <1>2 DEF Typed, IsJob, Known
<1>4. cooling \subseteq Tools /\ AreResults(results)
  BY DEF Typed, TypeOK, AreResults
<1> HIDE DEF job
<1>5. PICK run \in ToolRuns(job.tool) :
        \/ /\ CommandStep(CommandResult(job, run))
           /\ \E still \in SUBSET (cooling \ {job.tool}) :
                cooling' = UpdateCooldown(still, job.tool, 0)
           /\ jobs' = Tail(jobs) /\ UNCHANGED <<pc, outcome>>
        \/ /\ CommandResult(job, run) = None
           /\ End("error") /\ UNCHANGED <<results, cooling, jobs>>
  BY DEF CommandTool, job
<1>6. CASE /\ CommandStep(CommandResult(job, run))
           /\ \E still \in SUBSET (cooling \ {job.tool}) :
                cooling' = UpdateCooldown(still, job.tool, 0)
           /\ jobs' = Tail(jobs) /\ UNCHANGED <<pc, outcome>>
  <2>1. cooling' \subseteq Tools
    BY <1>3, <1>4, <1>6 DEF UpdateCooldown
  <2>2. ToolResult(job, run) # None /\ results' = Append(results, ToolResult(job, run))
    BY <1>6 DEF CommandStep, CommandResult
  <2>3. IsSeq(run.output)
    BY RunsHaveLines
  <2>4. Comes(ToolResult(job, run), JobFinding(job), job.tool)
    BY <1>3, <2>3, ToolResultComes
  <2>5. IsResult(ToolResult(job, run)) /\ ToolResult(job, run).finding = JobFinding(job)
    BY <2>2, <2>4 DEF Comes
  <2>6. AreResults(results')
    BY <1>4, <2>2, <2>5, MoreResults
  <2> QED BY <1>2, <1>3, <1>6, <2>1, <2>2, <2>5, <2>6 DEF job
<1>7. CASE /\ CommandResult(job, run) = None
           /\ End("error") /\ UNCHANGED <<results, cooling, jobs>>
  BY <1>2, <1>3, <1>4, <1>7 DEF job
<1> QED BY <1>5, <1>6, <1>7

(* Typed holds at the start.                                               *)
LEMMA TypedInit ==
  ASSUME Init
  PROVE  Typed
<1>1. /\ request.repeat = 1 /\ request.policy = None /\ attempt = 0 /\ commands = 0
      /\ pc = "start" /\ outcome = None /\ cooling = {} /\ nextId = 1 /\ slots = {}
      /\ results = <<>> /\ jobs = <<>>
  BY DEF Init, NoPolicy
<1>2. DOMAIN packs = 0..MaxAttempts /\ DOMAIN summaries = 0..MaxAttempts
  BY DEF Init
<1>3. AreResults(results) /\ IsSeq(jobs) /\ ToSet(jobs) = {} /\ ToSet(results) = {}
  BY <1>1, NoJobsNoResults DEF AreResults
<1>4. 1 \in 1..MaxAttempts /\ 0 \in 0..MaxAttempts + 1 /\ 0 \in 0..MaxCommands
  BY Bounds
<1>5. TypeOK
  BY <1>1, <1>2, <1>3, <1>4 DEF TypeOK, PcValues
<1> QED BY <1>1, <1>3, <1>5 DEF Typed

(* select_attempt, one policy at a time.                                   *)
LEMMA ChoiceCases ==
  ASSUME NEW policy, NEW candidate, NEW failure, NEW first, NEW later, NEW choice,
         NEW all, NEW one, NEW two, NEW three, NEW none,
         choice = CASE policy = "always" /\ candidate -> all
                    [] policy = "first-failure" /\ failure -> one
                    [] policy = "sampled" /\ first -> two
                    [] policy = "sampled" /\ ~first /\ later -> three
                    [] OTHER -> none
  PROVE  /\ policy = "always" => choice = IF candidate THEN all ELSE none
         /\ policy = "first-failure" => choice = IF failure THEN one ELSE none
         /\ policy = "sampled" => choice = IF first THEN two ELSE IF later THEN three ELSE none
         /\ policy \notin {"always", "first-failure", "sampled"} => choice = none
<1>1. policy = "always" => choice = IF candidate THEN all ELSE none
  OBVIOUS
<1>2. policy = "first-failure" => choice = IF failure THEN one ELSE none
  OBVIOUS
<1>3. policy = "sampled" => choice = IF first THEN two ELSE IF later THEN three ELSE none
  OBVIOUS
<1>4. policy \notin {"always", "first-failure", "sampled"} => choice = none
  OBVIOUS
<1> QED BY <1>1, <1>2, <1>3, <1>4

(* The first attempt of a sampled run, and the failures. *)
FirstSampled(taken, n, target, deep) ==
  deep /\ n = 1 /\ CanRunEscalation(target, deep) /\ "sampled_first_attempt" \notin taken
Fails(target, deep) == CanRunEscalation(target, deep) /\ FailureLike(target)
Sampled(taken, target, deep) ==
  Choice("sampled_first_attempt",
         taken \cup {"sampled_first_attempt"}
               \cup (IF Fails(target, deep) THEN {"sampled_failure"} ELSE {}))

IsChoice(choice, taken, policy, n, target, deep) ==
  /\ policy = "always" =>
       choice = IF CanRunEscalation(target, deep) THEN Choice("policy_always", taken)
                ELSE Choice(None, taken)
  /\ policy = "first-failure" =>
       choice = IF Fails(target, deep) /\ "first_failure" \notin taken
                THEN Choice("first_escalatable_failure", taken \cup {"first_failure"})
                ELSE Choice(None, taken)
  /\ policy = "sampled" =>
       choice = IF FirstSampled(taken, n, target, deep) THEN Sampled(taken, target, deep)
                ELSE IF Fails(target, deep) /\ "sampled_failure" \notin taken
                THEN Choice("sampled_first_failure", taken \cup {"sampled_failure"})
                ELSE Choice(None, taken)
  /\ policy \notin {"always", "first-failure", "sampled"} => choice = Choice(None, taken)

(* select_repeat_escalation_attempt, said of each policy.                  *)
LEMMA SelectAttemptIs ==
  ASSUME NEW taken, NEW policy, NEW n, NEW target, NEW deep
  PROVE  IsChoice(SelectAttempt(taken, policy, n, target, deep), taken, policy, n, target, deep)
<1> DEFINE choice == SelectAttempt(taken, policy, n, target, deep)
           candidate == CanRunEscalation(target, deep)
           failure == Fails(target, deep) /\ "first_failure" \notin taken
           first == FirstSampled(taken, n, target, deep)
           later == Fails(target, deep) /\ "sampled_failure" \notin taken
           all == Choice("policy_always", taken)
           one == Choice("first_escalatable_failure", taken \cup {"first_failure"})
           two == Sampled(taken, target, deep)
           three == Choice("sampled_first_failure", taken \cup {"sampled_failure"})
           none == Choice(None, taken)
<1>1. choice = CASE policy = "always" /\ candidate -> all
                 [] policy = "first-failure" /\ failure -> one
                 [] policy = "sampled" /\ first -> two
                 [] policy = "sampled" /\ ~first /\ later -> three
                 [] OTHER -> none
  BY DEF SelectAttempt, Fails, FirstSampled, Sampled
<1> HIDE DEF choice, candidate, failure, first, later, all, one, two, three, none
<1>2. /\ policy = "always" => choice = IF candidate THEN all ELSE none
      /\ policy = "first-failure" => choice = IF failure THEN one ELSE none
      /\ policy = "sampled" => choice = IF first THEN two ELSE IF later THEN three ELSE none
      /\ policy \notin {"always", "first-failure", "sampled"} => choice = none
  BY <1>1, ChoiceCases
<1> QED BY <1>2 DEF IsChoice, choice, candidate, failure, first, later, all, one, two, three, none

(* The slots that a choice takes are those of the policies.                *)
LEMMA SlotsOfChoice ==
  ASSUME NEW policy, NEW n, NEW target, NEW deep,
         slots \subseteq {"first_failure", "sampled_first_attempt", "sampled_failure"}
  PROVE  SelectAttempt(slots, policy, n, target, deep).slots
           \subseteq {"first_failure", "sampled_first_attempt", "sampled_failure"}
<1> DEFINE c == SelectAttempt(slots, policy, n, target, deep)
           known == {"first_failure", "sampled_first_attempt", "sampled_failure"}
           Within(choice) == choice.slots \subseteq known
<1>1. \A why : \A new \in SUBSET known : Within(Choice(why, slots \cup new)) /\ Within(Choice(why, slots))
  BY DEF Choice
<1>2. Within(Sampled(slots, target, deep))
  <2>1. Sampled(slots, target, deep).slots =
          slots \cup {"sampled_first_attempt"}
                \cup (IF Fails(target, deep) THEN {"sampled_failure"} ELSE {})
    BY DEF Sampled, Choice
  <2> QED BY <2>1
<1> HIDE DEF c, Within
<1>3. \/ c \in {Choice("policy_always", slots), Choice(None, slots),
               Choice("first_escalatable_failure", slots \cup {"first_failure"}),
               Choice("sampled_first_failure", slots \cup {"sampled_failure"})}
      \/ c = Sampled(slots, target, deep)
  <2>1. /\ policy = "always" => c \in {Choice("policy_always", slots), Choice(None, slots)}
        /\ policy = "first-failure" =>
             c \in {Choice("first_escalatable_failure", slots \cup {"first_failure"}), Choice(None, slots)}
        /\ policy = "sampled" =>
             c \in {Sampled(slots, target, deep), Choice(None, slots),
                   Choice("sampled_first_failure", slots \cup {"sampled_failure"})}
        /\ policy \notin {"always", "first-failure", "sampled"} => c = Choice(None, slots)
    <3>1. IsChoice(c, slots, policy, n, target, deep)
      BY SelectAttemptIs DEF c
    <3> QED BY <3>1 DEF IsChoice
  <2> QED BY <2>1
<1>4. Within(c)
  BY <1>1, <1>2, <1>3
<1> QED BY <1>4 DEF c, Within

(* The crashpack that an observe is about.                                 *)
LEMMA PackIsPack ==
  ASSUME Control, Packs, pc \in Observing
  PROVE  Dir \in 0..MaxAttempts /\ IsPack(Pack)
<1>1. Dir \in 0..MaxAttempts
  <2>1. /\ MaxAttempts \in Nat /\ request.repeat \in 1..MaxAttempts
        /\ attempt \in 1..request.repeat
    BY Bounds DEF Control
  <2>2. attempt \in 0..MaxAttempts /\ 0 \in 0..MaxAttempts
    BY <2>1
  <2> QED BY <2>2 DEF Dir
<1> QED BY <1>1 DEF Packs, Pack

(* Every step keeps Typed.                                                 *)
LEMMA TypedKept ==
  ASSUME NoneIsNothing, Control, Control', Typed, Packs, Rows, [Next]_vars
  PROVE  Typed'
<1> USE DEF files, loop, setting
<1>0. /\ request'.repeat \in 1..MaxAttempts /\ attempt' \in 0..MaxAttempts + 1
      /\ MaxAttempts \in Nat /\ MaxCommands \in Nat
  BY Bounds DEF Control
<1>a. /\ request.policy \in Policies \cup {None} /\ pc \in PcValues
      /\ outcome \in {None, "ok", "error", "usage", "killed"} /\ commands \in 0..MaxCommands
      /\ DOMAIN packs = 0..MaxAttempts /\ DOMAIN summaries = 0..MaxAttempts
      /\ cooling \subseteq Tools /\ nextId \in Nat \ {0}
      /\ slots \subseteq {"first_failure", "sampled_first_attempt", "sampled_failure"}
      /\ AreResults(results) /\ IsSeq(jobs) /\ \A j \in ToSet(jobs) : IsJob(j)
      /\ pc = "tools" => \A j \in ToSet(jobs) : Known(j.tool)
      /\ pc = "command" => \A j \in ToSet(jobs) : j.what # "skip"
  BY DEF Typed, TypeOK
<1>b. ASSUME /\ request'.policy \in Policies \cup {None} /\ pc' \in PcValues
             /\ outcome' \in {None, "ok", "error", "usage", "killed"} /\ commands' \in 0..MaxCommands
             /\ DOMAIN packs' = 0..MaxAttempts /\ DOMAIN summaries' = 0..MaxAttempts
             /\ cooling' \subseteq Tools /\ nextId' \in Nat \ {0}
             /\ slots' \subseteq {"first_failure", "sampled_first_attempt", "sampled_failure"}
             /\ AreResults(results') /\ IsSeq(jobs') /\ \A j \in ToSet(jobs') : IsJob(j)
             /\ pc' = "tools" => \A j \in ToSet(jobs') : Known(j.tool)
             /\ pc' = "command" => \A j \in ToSet(jobs') : j.what # "skip"
      PROVE  Typed'
  BY <1>0, <1>b DEF Typed, TypeOK, AreResults, IsResult
<1>c. {"start", "clear", "native", "select", "plan", "tools", "record", "publish",
       "publish run", "command", "idle"} = PcValues
  BY DEF PcValues
<1>1. ASSUME NEW repeat \in 0..MaxAttempts, NEW nativeOnly \in BOOLEAN, NEW deep \in BOOLEAN,
             NEW explicit \in Policies \cup {None}, Start(repeat, nativeOnly, deep, explicit)
      PROVE  Typed'
  <2>1. CASE ResolvePolicy(repeat, nativeOnly, explicit) = None
    BY <1>1, <1>a, <1>b, <1>c, <2>1 DEF Start, End
  <2>2. CASE ResolvePolicy(repeat, nativeOnly, explicit) # None
    <3>1. ResolvePolicy(repeat, nativeOnly, explicit) \in Policies
      BY <1>0, <2>2, PolicyIs
    <3>2. request'.policy \in Policies /\ pc' \in {"native", "clear"}
      BY <1>1, <2>2, <3>1 DEF Start
    <3> QED BY <1>1, <1>a, <1>b, <1>c, <2>2, <3>2 DEF Start
  <2> QED BY <2>1, <2>2
<1>2. CASE ClearAttempts
  <2>1. DOMAIN packs' = DOMAIN packs /\ DOMAIN summaries' = DOMAIN summaries
    BY <1>2 DEF ClearAttempts
  <2> QED BY <1>2, <1>a, <1>b, <1>c, <2>1 DEF ClearAttempts
<1>3. ASSUME NEW pack, NEW target, pc = "native", Observed(pack, target)
      PROVE  Typed'
  BY <1>3, <1>a, <1>b, <1>c DEF Observed
<1>4. ASSUME NEW error \in Errors, NEW findings \in AgentFindings, NativeFails(error, findings)
      PROVE  Typed'
  BY <1>3, <1>4 DEF NativeFails
<1>5. ASSUME NEW findings \in AgentFindings, NEW end \in {"exit", "signal", "timeout"},
             NativeEnds(findings, end)
      PROVE  Typed'
  BY <1>3, <1>5 DEF NativeEnds
<1>6. CASE Select
  <2>1. slots' \subseteq {"first_failure", "sampled_first_attempt", "sampled_failure"}
    BY <1>6, <1>a, SlotsOfChoice DEF Select
  <2>2. DOMAIN summaries' = DOMAIN summaries /\ pc' \in {"plan", "record"}
    BY <1>6 DEF Select
  <2> QED BY <1>6, <1>a, <1>b, <1>c, <2>1, <2>2 DEF Select
<1>7. CASE PlanNothing
  BY <1>7, <1>a, <1>b, <1>c DEF PlanNothing
<1>8. CASE PlanFallback
  <2>1. DOMAIN packs' = DOMAIN packs
    BY <1>8 DEF PlanFallback
  <2>2. AreJobs(FallbackJobs(request.deep, built))
    BY FallbackJobsAre
  <2>3. \/ jobs' = FallbackJobs(request.deep, built) /\ pc' = "tools" /\ outcome' = outcome
        \/ jobs' = jobs /\ pc' = "idle" /\ outcome' = "error"
    BY <1>8 DEF PlanFallback, End
  <2>4. UNCHANGED <<request, summaries, results, slots, cooling, nextId, commands>>
    BY <1>8 DEF PlanFallback
  <2> QED BY <1>a, <1>b, <1>c, <2>1, <2>2, <2>3, <2>4 DEF AreJobs
<1>9. CASE PlanEscalation
  <2>1. ~HadError(row.status) /\ pc = "plan"
    BY <1>9 DEF PlanEscalation
  <2>2. IsSeq(Pack.findings)
    <3>1. IsPack(Pack) /\ AfterNative(row, Pack)
      BY <2>1, PackIsPack DEF Observing, Rows
    <3>2. row.status # "Failed"
      BY <2>1 DEF HadError
    <3>3. Known(Pack.findings)
      BY <3>1, <3>2 DEF AfterNative, Ready, CanBeUsed
    <3> QED BY <3>1, <3>3 DEF IsPack, AreFindings
  <2>3. AreJobs(jobs')
    BY <1>9, <2>2, EscalationJobsAre DEF PlanEscalation
  <2> QED BY <1>9, <1>a, <1>b, <1>c, <2>3 DEF PlanEscalation, AreJobs
<1>10. CASE ObserveTool
  <2>1. AreResults(results') /\ IsSeq(jobs') /\ ToSet(jobs') \subseteq ToSet(jobs)
    BY <1>10, ResultsOfObserveTool
  <2>2. nextId' \in Nat \ {0}
    BY <1>10, <1>a DEF ObserveTool
  <2> QED BY <1>10, <1>a, <1>b, <1>c, <2>1, <2>2 DEF ObserveTool
<1>11. CASE FinishEscalation
  <2>1. DOMAIN packs' = DOMAIN packs /\ pc' \in {"record", "idle"} /\ outcome' \in {outcome, "error"}
    BY <1>11 DEF FinishEscalation, End
  <2> QED BY <1>11, <1>a, <1>b, <1>c, <2>1 DEF FinishEscalation
<1>12. CASE WriteSummary
  <2>1. DOMAIN summaries' = DOMAIN summaries /\ pc' = "idle" /\ outcome' \in {"error", "ok"}
    BY <1>12 DEF WriteSummary, End
  <2> QED BY <1>12, <1>a, <1>b, <1>c, <2>1 DEF WriteSummary
<1>13. CASE RecordAttempt
  <2>1. DOMAIN summaries' = DOMAIN summaries
    BY <1>13 DEF RecordAttempt, AttemptSummaries
  <2>2. /\ pc' \in {"publish", "native", "idle"} /\ outcome' \in {"error", outcome}
        /\ slots' = slots /\ results' \in {results, <<>>}
    BY <1>13 DEF RecordAttempt, End
  <2>3. AreResults(results')
    BY <1>a, <2>2, NoJobsNoResults DEF AreResults
  <2> QED BY <1>13, <1>a, <1>b, <1>c, <2>1, <2>2, <2>3 DEF RecordAttempt
<1>14. CASE PublishRepeat
  BY <1>14, <1>a, <1>b, <1>c DEF PublishRepeat
<1>15. CASE PublishRun
  <2>1. DOMAIN summaries' = DOMAIN summaries /\ pc' = "idle" /\ outcome' \in {"error", "ok"}
    BY <1>15 DEF PublishRun, End
  <2> QED BY <1>15, <1>a, <1>b, <1>c, <2>1 DEF PublishRun
<1>16. CASE Killed
  <2>1. AreResults(results') /\ IsSeq(jobs') /\ ToSet(jobs') = {}
    BY <1>16, NoJobsNoResults DEF Killed, AreResults
  <2> QED BY <1>16, <1>a, <1>b, <1>c, <2>1 DEF Killed, End
<1>d. ASSUME Command, Begin
      PROVE  /\ commands' \in 0..MaxCommands /\ cooling' = {} /\ AreResults(results')
             /\ pc = "idle"
  <2>1. commands' = commands + 1 /\ commands < MaxCommands /\ results' = <<>> /\ cooling' = {}
    BY <1>d DEF Command, Begin
  <2>2. AreResults(results')
    BY <2>1, NoJobsNoResults DEF AreResults
  <2>3. commands' \in 0..MaxCommands
    BY <1>0, <1>a, <2>1
  <2> QED BY <1>d, <2>1, <2>2, <2>3 DEF Command
<1>17. ASSUME NEW tool \in Tools \cup {"all"}, EscalateCommand(tool)
       PROVE  Typed'
  <2>1. /\ commands' \in 0..MaxCommands /\ cooling' = {} /\ AreResults(results') /\ pc = "idle"
    BY <1>17, <1>d DEF EscalateCommand
  <2>2. CASE pc' = "idle" /\ jobs' = jobs /\ outcome' \in {"error", "ok"}
    BY <1>17, <1>a, <1>b, <1>c, <2>1, <2>2 DEF EscalateCommand
  <2>3. CASE /\ packs[0].findings # None
             /\ jobs' = PlannedJobs(packs[0].findings, tool) /\ pc' = "command" /\ outcome' = outcome
    <3>1. AreFindings(packs[0].findings)
      BY <1>0, <2>3 DEF Packs, IsPack, Known
    <3>2. IsSeq(jobs') /\ \A j \in ToSet(jobs') : IsJob(j) /\ j.what = "finding"
      BY <2>3, <3>1, PlannedJobsAre
    <3> QED BY <1>17, <1>a, <1>b, <1>c, <2>1, <2>3, <3>2 DEF EscalateCommand
  <2> QED BY <1>17, <2>2, <2>3 DEF EscalateCommand, End
<1>18. ASSUME NEW tool \in Tools \cup {"all"}, NEW checkClean, ScanCommand(tool, checkClean)
       PROVE  Typed'
  <2>1. /\ commands' \in 0..MaxCommands /\ cooling' = {} /\ AreResults(results') /\ pc = "idle"
    BY <1>18, <1>d DEF ScanCommand
  <2>2. CASE pc' = "idle" /\ jobs' = jobs /\ outcome' = "error"
    BY <1>18, <1>a, <1>b, <1>c, <2>1, <2>2 DEF ScanCommand
  <2>3. CASE tool # "all" /\ jobs' = <<Scan(tool)>> /\ pc' = "command" /\ outcome' = outcome
    <3>1. AreJobs(jobs')
      BY <2>3, ScansAre
    <3>2. \A j \in ToSet(jobs') : j.what # "skip"
      BY <2>3 DEF ToSet, Scan, Job
    <3> QED BY <1>18, <1>a, <1>b, <1>c, <2>1, <2>3, <3>1, <3>2 DEF ScanCommand, AreJobs
  <2> QED BY <1>18, <2>2, <2>3 DEF ScanCommand, End
<1>19. CASE CommandTool
  <2>1. nextId' \in Nat \ {0} /\ pc = "command"
    BY <1>19, <1>a DEF CommandTool
  <2>2. /\ cooling' \subseteq Tools /\ AreResults(results') /\ IsSeq(jobs')
        /\ ToSet(jobs') \subseteq ToSet(jobs)
        /\ pc' \in {pc, "idle"} /\ outcome' \in {outcome, "error"}
    BY <1>19, <1>a, ResultsOfCommandTool DEF End
  <2> QED BY <1>19, <1>a, <1>b, <1>c, <2>1, <2>2 DEF CommandTool
<1>20. CASE SkipFinding
  <2>1. IsSeq(jobs') /\ ToSet(jobs') \subseteq ToSet(jobs)
    BY <1>20, <1>a, FewerJobs DEF SkipFinding
  <2> QED BY <1>20, <1>a, <1>b, <1>c, <2>1 DEF SkipFinding
<1>21. CASE FinishCommand
  <2>1. DOMAIN packs' = DOMAIN packs /\ pc' = "idle" /\ outcome' \in {"ok", "error"}
    BY <1>21 DEF FinishCommand, End
  <2> QED BY <1>21, <1>a, <1>b, <1>c, <2>1 DEF FinishCommand
<1>22. CASE ReplayCommand
  <2>1. /\ commands' \in 0..MaxCommands /\ cooling' = {} /\ AreResults(results') /\ pc = "idle"
    BY <1>22, <1>d DEF ReplayCommand
  <2>2. DOMAIN packs' = DOMAIN packs /\ pc' = "idle" /\ outcome' = "ok"
    BY <1>22 DEF ReplayCommand, End
  <2> QED BY <1>22, <1>a, <1>b, <1>c, <2>1, <2>2 DEF ReplayCommand
<1>23. CASE RemoveTarget
  BY <1>23, <1>a, <1>b, <1>c DEF RemoveTarget
<1>24. CASE UNCHANGED vars
  BY <1>24, <1>a, <1>b, <1>c DEF vars
<1> QED BY <1>1, <1>2, <1>4, <1>5, <1>6, <1>7, <1>8, <1>9, <1>10, <1>11, <1>12, <1>13, <1>14,
           <1>15, <1>16, <1>17, <1>18, <1>19, <1>20, <1>21, <1>22, <1>23, <1>24 DEF Next

----------------------------------------------------------------------------
(* The crashpacks of every step.                                           *)

(* A result that has found something says what.                            *)
LEMMA ResultsDetected ==
  ASSUME NEW rs, AreResults(rs)
  PROVE  IsSeq(rs) /\ Findings(rs)
BY DEF AreResults, IsResult, Findings, Detected

(* What an agent writes are findings.                                      *)
LEMMA WrittenFindings ==
  ASSUME NoneIsNothing, NEW findings \in AgentFindings \cup {OldFindings}
  PROVE  AreFindings(findings) /\ findings # None
<1>1. IsSeq(findings)
  BY AgentsWriteFindings DEF IsSeq
<1>2. \A f \in ToSet(findings) : IsFinding(f)
  BY AgentsWriteFindings DEF IsFinding, HasFields, Known
<1> QED BY <1>1, <1>2, SeqIsSomething DEF AreFindings

(* The crashpack without a file.                                           *)
LEMMA EmptyIs ==
  /\ HasFiles(EmptyPack) /\ EmptyPack.findings = None /\ EmptyPack.results = None
  /\ IsPack(EmptyPack)
BY DEF HasFiles, EmptyPack, IsPack, Known

(* prepare_output_dir leaves no file, whatever was there.                  *)
LEMMA PreparedIs ==
  ASSUME NEW pack, HasFiles(pack)
  PROVE  Prepared(pack) = EmptyPack
<1> DEFINE p == Prepared(pack)
<1>1. DOMAIN p = DOMAIN EmptyPack /\ \A file \in DOMAIN EmptyPack : p[file] = EmptyPack[file]
  BY DEF Prepared, HasFiles, Generated
<1>2. p = [file \in DOMAIN p |-> p[file]]
  BY DEF Prepared
<1>3. EmptyPack = [file \in DOMAIN EmptyPack |-> EmptyPack[file]]
  BY DEF EmptyPack
<1> HIDE DEF p
<1>4. p = EmptyPack
  BY <1>1, <1>2, <1>3
<1> QED BY <1>4 DEF p

(* The pack that an agent has written, if anything.                        *)
LEMMA WrittenIs ==
  ASSUME NoneIsNothing, NEW pack, HasFiles(pack), NEW findings \in AgentFindings
  PROVE  /\ HasFiles(Written(pack, findings)) /\ Written(pack, findings).results = None
         /\ Written(pack, findings).analysis
         /\ Written(pack, findings).findings = IF findings = <<>> THEN None ELSE findings
         /\ Written(pack, findings).findings # None =>
              AreFindings(Written(pack, findings).findings) /\ OfThisRun(Written(pack, findings).findings)
         /\ IsPack(Written(pack, findings))
<1> DEFINE w == Written(pack, findings)
<1>1. w = [[EmptyPack EXCEPT !.analysis = TRUE] EXCEPT !.findings = IF findings = <<>> THEN None ELSE findings]
  BY PreparedIs DEF Written, Described
<1>2. /\ HasFiles(w) /\ w.results = None /\ w.analysis
      /\ w.findings = IF findings = <<>> THEN None ELSE findings
  BY <1>1 DEF HasFiles, EmptyPack
<1>3. AreFindings(findings) /\ OfThisRun(findings)
  BY WrittenFindings, OldIdsAreOld DEF OfThisRun
<1> HIDE DEF w
<1>4. w.findings # None => AreFindings(w.findings) /\ OfThisRun(w.findings)
  BY <1>2, <1>3
<1>5. IsPack(w)
  BY <1>2, <1>4 DEF IsPack, Known
<1> QED BY <1>2, <1>4, <1>5 DEF w

(* The crashpack that an earlier observe left.                             *)
LEMMA OldPackIs ==
  ASSUME NoneIsNothing
  PROVE  IsPack(OldPack(OldFindings))
<1> DEFINE e == [EmptyPack EXCEPT !.analysis = TRUE, !.console = TRUE, !.findings = OldFindings]
           p == Finalized(e, <<>>)
           r == ResultFailure(CleanRun, 0, "valgrind", "Timeout", TRUE)
           o == OldPack(OldFindings)
<1>1. HasFiles(e) /\ e.findings = OldFindings
  BY DEF HasFiles, EmptyPack
<1>2. AreFindings(OldFindings)
  BY WrittenFindings
<1> HIDE DEF e
<1>3. HasFiles(p) /\ p.findings = FinalFindings(e, <<>>)
  BY <1>1, <1>2, FinalizedIs
<1>4. AreFindings(FinalFindings(e, <<>>))
  BY <1>1, <1>2, FinalFindingsIs
<1> HIDE DEF p
<1>5. o = [p EXCEPT !.results = <<r>>]
  BY DEF OldPack, p, e
<1>6. ~Found(r)
  BY DEF ResultFailure, Found
<1> HIDE DEF r, o
<1>7. HasFiles(o) /\ o.findings = p.findings /\ o.results = <<r>>
  BY <1>3, <1>5 DEF HasFiles, EmptyPack
<1>8. ToSet(<<r>>) = {r}
  BY DEF ToSet
<1>9. Known(o.findings)
  BY <1>3, <1>4, <1>7, SeqIsSomething DEF AreFindings, Known
<1>10. AllRepresented(<<r>>, o.findings)
  BY <1>6, <1>8 DEF AllRepresented
<1>11. IsPack(o)
  BY <1>3, <1>4, <1>7, <1>9, <1>10 DEF IsPack
<1> QED BY <1>11 DEF o

(* Packs holds at the start, in a new directory or in a used one.          *)
LEMMA PacksInit ==
  ASSUME NoneIsNothing, Init
  PROVE  Packs
<1>1. \/ packs = [i \in 0..MaxAttempts |-> EmptyPack]
      \/ packs = [i \in 0..MaxAttempts |-> OldPack(OldFindings)]
  BY DEF Init
<1> QED BY <1>1, EmptyIs, OldPackIs DEF Packs

(* The packs that the steps leave. *)

(* Every error of a native run comes at one of the stages.                 *)
LEMMA StageOf ==
  ASSUME NEW error \in Errors
  PROVE  ErrorStage(error) \in {"start", "prepared", "described", "agent"}
<1>1. error \in NativeErrors
  BY ErrorsAreNative
<1> QED BY <1>1 DEF NativeErrors, ErrorStage

(* The crashpack that a failed native run leaves.                          *)
LEMMA FailedPack ==
  ASSUME NoneIsNothing, NEW error \in Errors, NEW findings \in AgentFindings, IsPack(Pack),
         NEW p, p = CASE ErrorStage(error) = "start" -> Pack
                      [] ErrorStage(error) = "prepared" -> Prepared(Pack)
                      [] ErrorStage(error) = "described" -> Described(Pack)
                      [] ErrorStage(error) = "agent" -> Written(Pack, findings)
  PROVE  IsPack(p)
<1>1. HasFiles(Pack)
  BY DEF IsPack
<1>2. IsPack(Prepared(Pack)) /\ IsPack(Described(Pack)) /\ IsPack(Written(Pack, findings))
  <2>1. Prepared(Pack) = EmptyPack
    BY <1>1, PreparedIs
  <2>2. IsPack(Described(Pack))
    BY <2>1 DEF Described, IsPack, HasFiles, EmptyPack, Known
  <2> QED BY <1>1, <2>1, <2>2, EmptyIs, WrittenIs
<1>3. p \in {Pack, Prepared(Pack), Described(Pack), Written(Pack, findings)}
  BY StageOf
<1> QED BY <1>2, <1>3

(* After a native run that came to its end.                                *)
FreshPack(f) ==
  /\ IsPack(f.pack)
  /\ f.ok => /\ CanBeUsed(f.pack) /\ f.pack.analysis /\ f.pack.results = None
             /\ OfThisRun(f.pack.findings) /\ Intact(f.pack)

(* A finalize that came to its end leaves a crashpack of this observe      *)
(* alone.                                                                  *)
LEMMA FinalizedFresh ==
  ASSUME NoneIsNothing, NEW w, HasFiles(w), w.console, w.analysis, w.results = None,
         w.findings # None => AreFindings(w.findings) /\ OfThisRun(w.findings),
         NEW crash \in {<<>>, <<CrashFinding(<<"crash">>)>>}, NEW here,
         NEW f \in Finalizations(w, crash, here)
  PROVE  FreshPack(f)
<1> DEFINE final == Finalized(w, crash)
           fs == FinalFindings(w, crash)
<1>1. /\ HasFiles(final) /\ Intact(final) /\ final.findings = fs
      /\ final.bin /\ Known(final.manifest) /\ final.analysis = w.analysis
      /\ final.console = w.console /\ final.results = w.results
  BY FinalizedIs
<1>2. AreFindings(fs) /\ OfThisRun(fs)
  BY FinalFindingsIs
<1>3. /\ HasFiles(f.pack) /\ f.pack.results = w.results /\ f.pack.findings \in {w.findings, fs}
      /\ f.ok => f.pack = final
  BY FinalizationsAre
<1> HIDE DEF final, fs
<1>4. f.pack.findings # None => AreFindings(f.pack.findings)
  BY <1>2, <1>3
<1>5. IsPack(f.pack)
  BY <1>3, <1>4 DEF IsPack, Known
<1>6. fs # None
  BY <1>2, SeqIsSomething DEF AreFindings
<1> QED BY <1>1, <1>2, <1>3, <1>5, <1>6 DEF FreshPack, CanBeUsed, Known

(* So does the end of a native run.                                        *)
LEMMA EndedPack ==
  ASSUME NoneIsNothing, NEW findings \in AgentFindings, NEW end, IsPack(Pack),
         NEW f \in Finalizations([Written(Pack, findings) EXCEPT !.console = TRUE],
                     IF end = "signal" THEN <<CrashFinding(<<"crash">>)>> ELSE <<>>, TRUE)
  PROVE  FreshPack(f)
<1> DEFINE w == [Written(Pack, findings) EXCEPT !.console = TRUE]
           crash == IF end = "signal" THEN <<CrashFinding(<<"crash">>)>> ELSE <<>>
<1>1. HasFiles(Pack)
  BY DEF IsPack
<1>2. /\ HasFiles(w) /\ w.console /\ w.results = None /\ w.analysis
      /\ w.findings = Written(Pack, findings).findings
      /\ w.findings # None => AreFindings(w.findings) /\ OfThisRun(w.findings)
  BY <1>1, WrittenIs DEF HasFiles, EmptyPack
<1>3. crash \in {<<>>, <<CrashFinding(<<"crash">>)>>}
  OBVIOUS
<1>4. PICK here : f \in Finalizations(w, crash, here)
  OBVIOUS
<1> HIDE DEF w, crash
<1> QED BY <1>2, <1>3, <1>4, FinalizedFresh

(* The crashpack for tools alone is written from nothing.                  *)
LEMMA FallbackPack ==
  ASSUME NoneIsNothing, NEW pack, HasFiles(pack), NEW here \in BOOLEAN, NEW f \in ToolOnlyPacks(pack, here)
  PROVE  /\ IsPack(f.pack)
         /\ f.ok => /\ CanBeUsed(f.pack) /\ f.pack.analysis /\ f.pack.results = None
                    /\ f.pack.findings = <<>> /\ Intact(f.pack)
<1> DEFINE start == [Prepared(pack) EXCEPT !.analysis = here]
           final == Finalized(start, <<>>)
<1>1. HasFiles(start) /\ start.findings = None /\ start.results = None /\ start.analysis = here
  <2>1. Prepared(pack) = EmptyPack
    BY PreparedIs
  <2> QED BY <2>1 DEF HasFiles, EmptyPack
<1>2. PICK g \in Finalizations(start, <<>>, here) :
        f = IF g.ok THEN Done([g.pack EXCEPT !.console = TRUE]) ELSE g
  BY DEF ToolOnlyPacks
<1> HIDE DEF start
<1>3. /\ HasFiles(final) /\ Intact(final) /\ final.findings = FinalFindings(start, <<>>)
      /\ final.bin /\ Known(final.manifest) /\ final.analysis = start.analysis
      /\ final.results = start.results
  BY <1>1, FinalizedIs
<1>4. FinalFindings(start, <<>>) = <<>>
  BY <1>1, FinalFindingsIs
<1>5. /\ HasFiles(g.pack) /\ g.pack.results = None
      /\ g.pack.findings \in {None, <<>>} /\ g.ok \in BOOLEAN
      /\ g.ok => here /\ g.pack = final
  <2> HIDE DEF final
  <2> QED BY <1>1, <1>2, <1>4, FinalizationsAre DEF final
<1> HIDE DEF final
<1>6. AreFindings(<<>>) /\ <<>> # None
  BY NoJobsNoResults, SeqIsSomething DEF AreFindings
<1>7. CASE g.ok
  <2> DEFINE p == [final EXCEPT !.console = TRUE]
  <2>1. /\ HasFiles(p) /\ p.console /\ p.findings = <<>> /\ p.results = None /\ p.bin
        /\ Known(p.manifest) /\ p.analysis = here /\ p.groups = final.groups
        /\ p.manifest = final.manifest /\ p.evidence = final.evidence
    BY <1>1, <1>3, <1>4 DEF HasFiles, EmptyPack
  <2>2. f = Done(p) /\ here
    BY <1>2, <1>5, <1>7
  <2> HIDE DEF p
  <2>3. f.pack = p
    BY <2>2 DEF Done
  <2>4. Intact(p)
    BY <1>3, <1>4, <2>1 DEF Intact
  <2>5. IsPack(p)
    BY <1>6, <2>1 DEF IsPack, Known
  <2> QED BY <1>6, <2>1, <2>2, <2>3, <2>4, <2>5 DEF CanBeUsed, Known
<1>8. CASE ~g.ok
  <2>1. IsPack(g.pack)
    BY <1>5, <1>6 DEF IsPack, Known
  <2> QED BY <1>2, <1>8, <2>1
<1> QED BY <1>5, <1>7, <1>8

(* The results are written before they are promoted.                       *)
LEMMA PromotedPack ==
  ASSUME NoneIsNothing, NEW pack, HasFiles(pack), AreFindings(pack.findings), pack.analysis,
         NEW rs, AreResults(rs), NEW here,
         NEW f \in Promotions([pack EXCEPT !.results = rs], rs, here)
  PROVE  /\ IsPack(f.pack) /\ f.pack.analysis /\ f.pack.console = pack.console
         /\ f.pack.results = rs /\ Known(f.pack.findings)
         /\ pack.bin => f.pack.bin
         /\ Known(pack.manifest) => Known(f.pack.manifest)
         /\ AreFindings(f.pack.findings) /\ Improves(pack.findings, f.pack.findings)
         /\ (\A r \in ToSet(rs) : ~Found(r)) => Len(f.pack.findings) = Len(pack.findings)
         /\ f.ok \in BOOLEAN
         /\ f.ok /\ PromotionChanges(pack.findings, rs) => Intact(f.pack)
         /\ f.ok /\ ~PromotionChanges(pack.findings, rs) => f.pack = [pack EXCEPT !.results = rs]
<1> DEFINE wide == [pack EXCEPT !.results = rs]
<1>1. /\ HasFiles(wide) /\ wide.findings = pack.findings /\ wide.analysis
      /\ wide.console = pack.console /\ wide.results = rs /\ wide.bin = pack.bin
      /\ wide.manifest = pack.manifest
  BY DEF HasFiles, EmptyPack
<1>2. f \in Promotions(wide, rs, here) /\ IsSeq(rs) /\ Findings(rs)
  BY ResultsDetected
<1> HIDE DEF wide
<1>3. /\ HasFiles(f.pack) /\ f.pack.analysis
      /\ f.pack.console = wide.console /\ f.pack.results = wide.results
      /\ wide.bin => f.pack.bin
      /\ Known(wide.manifest) => Known(f.pack.manifest)
      /\ AreFindings(f.pack.findings) /\ Improves(wide.findings, f.pack.findings)
      /\ AllRepresented(rs, f.pack.findings)
      /\ (\A r \in ToSet(rs) : ~Found(r)) => Len(f.pack.findings) = Len(wide.findings)
      /\ f.ok \in BOOLEAN
      /\ f.ok /\ PromotionChanges(wide.findings, rs) => Intact(f.pack)
      /\ f.ok /\ ~PromotionChanges(wide.findings, rs) => f.pack = wide
  BY <1>1, <1>2, PromotionsAre
<1>4. Known(f.pack.findings)
  BY <1>3, SeqIsSomething DEF AreFindings, Known
<1>5. IsPack(f.pack)
  BY <1>1, <1>3, <1>4 DEF IsPack
<1> QED BY <1>1, <1>3, <1>4, <1>5 DEF wide

(* The tools' results are written, then what they found is promoted.       *)
LEMMA PacksKept ==
  ASSUME NoneIsNothing, Control, Typed, Packs, Rows, [Next]_vars
  PROVE  Packs'
<1> USE DEF files, loop, setting
<1>a. ASSUME packs' = packs
      PROVE  Packs'
  BY <1>a DEF Packs
<1>b. ASSUME NEW i, NEW pack, IsPack(pack), packs' = [packs EXCEPT ![i] = pack]
      PROVE  Packs'
  BY <1>b DEF Packs
<1>c. 0 \in 0..MaxAttempts /\ IsPack(packs[0])
  BY Bounds DEF Packs
<1>d. AreResults(results) /\ present \in BOOLEAN
  BY DEF Typed, Control
<1>1. ASSUME NEW repeat \in 0..MaxAttempts, NEW nativeOnly \in BOOLEAN, NEW deep \in BOOLEAN,
             NEW explicit \in Policies \cup {None}, Start(repeat, nativeOnly, deep, explicit)
      PROVE  Packs'
  BY <1>1, <1>a DEF Start
<1>2. CASE ClearAttempts
  <2>1. DOMAIN packs' = DOMAIN packs /\ \A i \in DOMAIN packs : packs'[i] \in {packs[i], EmptyPack}
    BY <1>2 DEF ClearAttempts
  <2> QED BY <2>1, EmptyIs DEF Packs
<1>3. ASSUME NEW error \in Errors, NEW findings \in AgentFindings, NativeFails(error, findings)
      PROVE  Packs'
  <2>1. IsPack(Pack)
    BY <1>3, PackIsPack DEF NativeFails, Observing
  <2>2. PICK p : /\ p = CASE ErrorStage(error) = "start" -> Pack
                          [] ErrorStage(error) = "prepared" -> Prepared(Pack)
                          [] ErrorStage(error) = "described" -> Described(Pack)
                          [] ErrorStage(error) = "agent" -> Written(Pack, findings)
                 /\ Observed(p, TargetFromError(error))
    BY <1>3 DEF NativeFails
  <2>3. IsPack(p)
    BY <2>1, <2>2, FailedPack
  <2> QED BY <2>2, <2>3, <1>b DEF Observed
<1>4. ASSUME NEW findings \in AgentFindings, NEW end \in {"exit", "signal", "timeout"},
             NativeEnds(findings, end)
      PROVE  Packs'
  <2>1. IsPack(Pack)
    BY <1>4, PackIsPack DEF NativeEnds, Observing
  <2>2. PICK f \in Finalizations([Written(Pack, findings) EXCEPT !.console = TRUE],
                     IF end = "signal" THEN <<CrashFinding(<<"crash">>)>> ELSE <<>>, TRUE) :
             \E target : Observed(f.pack, target)
    BY <1>4 DEF NativeEnds
  <2>3. FreshPack(f)
    BY <2>1, EndedPack
  <2> QED BY <2>2, <2>3, <1>b DEF Observed, FreshPack
<1>5. CASE PlanFallback
  <2>1. HasFiles(Pack)
    BY <1>5, PackIsPack DEF PlanFallback, Observing, IsPack
  <2>2. PICK f \in ToolOnlyPacks(Pack, present) : packs' = [packs EXCEPT ![Dir] = f.pack]
    BY <1>5 DEF PlanFallback
  <2>3. IsPack(f.pack)
    BY <1>d, <2>1, FallbackPack
  <2> QED BY <2>2, <2>3, <1>b
<1>6. CASE FinishEscalation
  <2>2. PICK f \in Promotions([Pack EXCEPT !.results = results], results, present) :
             packs' = [packs EXCEPT ![Dir] = f.pack]
    BY <1>6 DEF FinishEscalation
  <2>3. Pack.analysis /\ Known(Pack.findings)
    BY <1>6 DEF FinishEscalation, Rows, UnderTools, Ready, CanBeUsed
  <2>4. IsPack(Pack)
    BY <1>6, PackIsPack DEF FinishEscalation, Observing
  <2>5. HasFiles(Pack) /\ AreFindings(Pack.findings)
    BY <2>3, <2>4 DEF IsPack
  <2>6. IsPack(f.pack)
    BY <1>d, <2>3, <2>5, PromotedPack
  <2> QED BY <2>2, <2>6, <1>b
<1>7. CASE FinishCommand
  <2>1. PICK f \in Promotions([packs[0] EXCEPT !.results = results], results, present) :
             packs' = [packs EXCEPT ![0] = f.pack]
    BY <1>7 DEF FinishCommand
  <2>2. packs[0].analysis /\ Known(packs[0].findings)
    BY <1>7 DEF FinishCommand, Rows
  <2>3. HasFiles(packs[0]) /\ AreFindings(packs[0].findings)
    BY <1>c, <2>2 DEF IsPack
  <2>4. IsPack(f.pack)
    BY <1>d, <2>2, <2>3, PromotedPack
  <2> QED BY <2>1, <2>4, <1>b
<1>8. CASE ReplayCommand
  <2>1. PICK replay : packs' = [packs EXCEPT ![0].replay = replay]
    BY <1>8 DEF ReplayCommand
  <2> DEFINE p == [packs[0] EXCEPT !.replay = replay]
  <2>2. packs' = [packs EXCEPT ![0] = p]
    BY <1>c, <2>1
  <2>3. HasFiles(packs[0])
    BY <1>c DEF IsPack
  <2>4. HasFiles(p) /\ p.findings = packs[0].findings /\ p.results = packs[0].results
    BY <2>3 DEF HasFiles, EmptyPack
  <2> HIDE DEF p
  <2>5. IsPack(p)
    BY <1>c, <2>4 DEF IsPack
  <2> QED BY <2>2, <2>5, <1>b
<1>9. CASE Select \/ PlanNothing \/ PlanEscalation \/ ObserveTool \/ WriteSummary \/ RecordAttempt
           \/ PublishRepeat \/ PublishRun \/ Killed \/ CommandTool \/ SkipFinding \/ RemoveTarget
           \/ UNCHANGED vars
  <2>1. packs' = packs
    BY <1>9 DEF Select, PlanNothing, PlanEscalation, ObserveTool, WriteSummary, RecordAttempt,
         PublishRepeat, PublishRun, Killed, CommandTool, SkipFinding, RemoveTarget, vars
  <2> QED BY <2>1, <1>a
<1>10. ASSUME NEW tool, NEW checkClean, EscalateCommand(tool) \/ ScanCommand(tool, checkClean)
       PROVE  Packs'
  BY <1>10, <1>a DEF EscalateCommand, ScanCommand
<1> QED BY <1>1, <1>2, <1>3, <1>4, <1>5, <1>6, <1>7, <1>8, <1>9, <1>10 DEF Next

----------------------------------------------------------------------------
(* The rows of every step.                                                 *)

(* The counts of no findings.                                              *)
LEMMA NothingGrouped ==
  /\ Len(<<>>) = 0 /\ Cardinality(DOMAIN IssueGroups(<<>>)) = 0
  /\ ToSet(<<>>) = {}
<1>1. ToSet(<<>>) = {} /\ DOMAIN <<>> = {}
  BY DEF ToSet
<1>2. DOMAIN IssueGroups(<<>>) = {}
  BY <1>1 DEF IssueGroups
<1> QED BY <1>1, <1>2, FS_EmptySet

(* A result that confirms something, if it is not gdb's, has found it; its *)
(* findings are in the crashpack then.                                     *)
LEMMA EvidenceIsFound ==
  ASSUME AreResults(results), \A r \in ToSet(results) : r.tool # "gdb"
  PROVE  /\ Evidence(results) <=> \E r \in ToSet(results) : Found(r)
         /\ \A r \in ToSet(results) : Found(r) => \E d : d \in ToSet(r.report)
<1>1. \A r \in ToSet(results) :
         /\ r.confirmed <=> r.detected # {}
         /\ r.confirmed => r.success /\ r.report # <<>>
         /\ IsSeq(r.report)
  BY DEF AreResults, IsResult
<1>2. Evidence(results) <=> \E r \in ToSet(results) : Found(r)
  BY <1>1 DEF Evidence, Found
<1>3. \A r \in ToSet(results) : Found(r) => \E d : d \in ToSet(r.report)
  <2> TAKE r \in ToSet(results)
  <2> HAVE Found(r)
  <2>1. r.report # <<>> /\ IsSeq(r.report)
    BY <1>1 DEF Found
  <2>2. 1 \in DOMAIN r.report
    BY <2>1, SeqFacts
  <2> QED BY <2>2 DEF ToSet
<1> QED BY <1>2, <1>3

(* The snapshot of a promotion.                                            *)
LEMMA SnapshotIs ==
  ASSUME NEW target, IsRow(target), NEW changed \in BOOLEAN, NEW pack
  PROVE  LET q == WithSnapshot(target, changed, pack)
         IN /\ IsRow(q) /\ q.status = target.status /\ q.error = target.error
            /\ q.escalation = target.escalation
            /\ changed => Counted(q, pack)
            /\ ~changed => q = target
BY DEF WithSnapshot, IsRow, TargetFromError, Counted

(* The statuses of a fallback.                                             *)
LEMMA FallbackStatusIs ==
  ASSUME NEW target, target.count \in Nat, NEW rs,
         NEW status, status = FallbackTargetStatus(target, rs)
  PROVE  /\ status = "Findings" <=> target.count > 0 \/ Evidence(rs)
         /\ status = "Clean" => \E r \in ToSet(rs) : r.status = "Clean"
<1>1. CASE target.count > 0 \/ Evidence(rs)
  <2>1. status = "Findings"
    BY <1>1 DEF FallbackTargetStatus
  <2> QED BY <1>1, <2>1
<1>2. CASE ~(target.count > 0 \/ Evidence(rs)) /\ target.count = 0
  <2> DEFINE all == {r.status : r \in ToSet(rs)}
             ran == all \ {"Skipped"}
  <2>1. status = IF "Clean" \in ran THEN "Clean"
                 ELSE IF "Timeout" \in ran THEN "Timeout"
                 ELSE IF "ToolUnavailable" \in ran THEN "ToolUnavailable"
                 ELSE IF ran = {"NotApplicable"} THEN "NotApplicable"
                 ELSE IF all = {"Skipped"} THEN "Skipped"
                 ELSE IF all = {} THEN "NotApplicable"
                 ELSE "Failed"
    BY <1>2 DEF FallbackTargetStatus
  <2>2. status # "Findings" /\ (status = "Clean" => "Clean" \in all)
    <3> HIDE DEF all
    <3> QED BY <2>1
  <2> QED BY <1>2, <2>2
<1>3. target.count = 0 \/ target.count > 0
  OBVIOUS
<1> QED BY <1>1, <1>2, <1>3

(* A row after the tools.                                                  *)
IsEscalated(q, seen, target, changed, pack) ==
  /\ IsRow(q) /\ q.error = target.error /\ q.escalation = ToolRows(results)
  /\ q.count = seen.count /\ q.classes = seen.classes /\ q.groups = seen.groups
  /\ changed => Counted(seen, pack)
  /\ ~changed => /\ seen.count = target.count /\ seen.classes = target.classes
                 /\ seen.groups = target.groups
  /\ fallback => q.status = FallbackTargetStatus(seen, results)
  /\ ~fallback /\ target.status = "Clean" /\ Evidence(results) => q.status = "Findings"
  /\ ~fallback /\ ~(target.status = "Clean" /\ Evidence(results)) => q.status = target.status

(* The fields of the row after the tools.                                  *)
LEMMA EscalatedRowIs ==
  ASSUME NEW target, IsRow(target), NEW changed \in BOOLEAN, NEW pack, NEW seen,
         seen = WithSnapshot([target EXCEPT !.escalation = ToolRows(results)], changed, pack),
         fallback \in BOOLEAN
  PROVE  IsEscalated(EscalatedRow(target, changed, pack), seen, target, changed, pack)
<1> DEFINE base == [target EXCEPT !.escalation = ToolRows(results)]
           status == CASE fallback -> FallbackTargetStatus(seen, results)
                       [] ~fallback /\ seen.status = "Clean" /\ Evidence(results) -> "Findings"
                       [] OTHER -> seen.status
           q == EscalatedRow(target, changed, pack)
<1>1. /\ IsRow(base) /\ base.escalation = ToolRows(results) /\ base.error = target.error
      /\ base.status = target.status /\ base.count = target.count
      /\ base.classes = target.classes /\ base.groups = target.groups
  BY DEF IsRow, TargetFromError
<1>2. seen = WithSnapshot(base, changed, pack)
  OBVIOUS
<1>3. q = [seen EXCEPT !.status = status]
  BY DEF EscalatedRow
<1> HIDE DEF base
<1>4. /\ IsRow(seen) /\ seen.status = base.status /\ seen.error = base.error
      /\ seen.escalation = base.escalation
      /\ changed => Counted(seen, pack)
      /\ ~changed => seen = base
  BY <1>1, <1>2, SnapshotIs
<1> HIDE DEF q
<1>5. /\ fallback => status = FallbackTargetStatus(seen, results)
      /\ ~fallback /\ seen.status = "Clean" /\ Evidence(results) => status = "Findings"
      /\ ~fallback /\ ~(seen.status = "Clean" /\ Evidence(results)) => status = seen.status
  <2>1. CASE fallback
    BY <2>1
  <2>2. CASE ~fallback /\ seen.status = "Clean" /\ Evidence(results)
    BY <2>2
  <2>3. CASE ~fallback /\ ~(seen.status = "Clean" /\ Evidence(results))
    BY <2>3
  <2> QED BY <2>1, <2>2, <2>3
<1> HIDE DEF status
<1>6. /\ IsRow(q) /\ q.status = status /\ q.error = seen.error /\ q.escalation = seen.escalation
      /\ q.count = seen.count /\ q.classes = seen.classes /\ q.groups = seen.groups
  BY <1>3, <1>4 DEF IsRow, TargetFromError
<1> QED BY <1>1, <1>4, <1>5, <1>6 DEF q, IsEscalated

(* The row after the tools tells of the crashpack after the tools: the     *)
(* counts are taken again if findings changed, and the status follows.     *)
LEMMA EscalatedRowFine ==
  ASSUME NoneIsNothing, NEW pack, IsPack(pack), UnderTools(row, pack), AreResults(results),
         fallback \in BOOLEAN, NEW here,
         NEW f \in Promotions([pack EXCEPT !.results = results], results, here), f.ok
  PROVE  RowFine(EscalatedRow(row, PromotionChanges(pack.findings, results), f.pack), f.pack)
<1> DEFINE changed == PromotionChanges(pack.findings, results)
           seen == WithSnapshot([row EXCEPT !.escalation = ToolRows(results)], changed, f.pack)
           q == EscalatedRow(row, changed, f.pack)
<1>1. /\ IsRow(row) /\ CanBeUsed(pack) /\ pack.analysis /\ Counted(row, pack) /\ OfThisRun(pack.findings)
      /\ pack.findings = <<>> => \A r \in ToSet(results) : r.tool # "gdb"
      /\ fallback => row.error = "native tracing unavailable" /\ pack.findings = <<>>
      /\ ~fallback => row.status \in {"Findings", "Clean"} /\ row.error = None /\ StatusIs(row, pack)
  BY DEF UnderTools, Ready
<1>2. HasFiles(pack) /\ AreFindings(pack.findings) /\ Known(pack.findings) /\ pack.bin
      /\ pack.console /\ Known(pack.manifest)
  BY <1>1 DEF IsPack, CanBeUsed
<1>3. /\ IsPack(f.pack) /\ f.pack.analysis /\ f.pack.console = pack.console
      /\ f.pack.results = results /\ Known(f.pack.findings)
      /\ pack.bin => f.pack.bin
      /\ Known(pack.manifest) => Known(f.pack.manifest)
      /\ AreFindings(f.pack.findings) /\ Improves(pack.findings, f.pack.findings)
      /\ (\A r \in ToSet(results) : ~Found(r)) => Len(f.pack.findings) = Len(pack.findings)
      /\ f.ok /\ changed => Intact(f.pack)
      /\ f.ok /\ ~changed => f.pack = [pack EXCEPT !.results = results]
  <2> HIDE DEF seen, q
  <2>1. HasFiles(pack) /\ AreFindings(pack.findings) /\ pack.analysis
    BY <1>1, <1>2
  <2> QED BY <2>1, PromotedPack
<1>4. results # None
  BY SeqIsSomething DEF AreResults
<1>5. changed \in BOOLEAN
  BY DEF PromotionChanges
<1> HIDE DEF changed
<1>6. /\ q.error = row.error /\ q.escalation = ToolRows(results)
      /\ q.count = seen.count /\ q.classes = seen.classes /\ q.groups = seen.groups
      /\ changed => Counted(seen, f.pack)
      /\ ~changed => seen.count = row.count /\ seen.classes = row.classes /\ seen.groups = row.groups
      /\ fallback => q.status = FallbackTargetStatus(seen, results)
      /\ ~fallback /\ row.status = "Clean" /\ Evidence(results) => q.status = "Findings"
      /\ ~fallback /\ ~(row.status = "Clean" /\ Evidence(results)) => q.status = row.status
  <2>1. PICK s : s = seen
    OBVIOUS
  <2>2. s = WithSnapshot([row EXCEPT !.escalation = ToolRows(results)], changed, f.pack)
    BY <2>1
  <2> HIDE DEF seen
  <2>3. IsEscalated(EscalatedRow(row, changed, f.pack), s, row, changed, f.pack)
    BY <1>1, <1>5, <2>2, EscalatedRowIs
  <2>4. IsEscalated(q, seen, row, changed, f.pack)
    BY <2>1, <2>3
  <2> HIDE DEF q
  <2> QED BY <2>4 DEF IsEscalated
<1> HIDE DEF seen, q
<1>7. Counted(q, f.pack)
  <2>1. CASE changed
    BY <1>6, <2>1 DEF Counted
  <2>2. CASE ~changed
    <3>1. f.pack.findings = pack.findings /\ f.pack.groups = pack.groups
      BY <1>2, <1>3, <2>2 DEF HasFiles, EmptyPack
    <3> QED BY <1>1, <1>6, <2>2, <3>1 DEF Counted
  <2> QED BY <1>5, <2>1, <2>2
<1>8. /\ Len(f.pack.findings) \in Nat /\ (f.pack.findings = <<>> <=> Len(f.pack.findings) = 0)
      /\ Len(pack.findings) \in Nat /\ (pack.findings = <<>> <=> Len(pack.findings) = 0)
  BY <1>2, <1>3, SeqFacts DEF AreFindings
<1>9. pack.findings # <<>> => f.pack.findings # <<>>
  BY <1>3, <1>8 DEF Improves
<1>10. ASSUME pack.findings = <<>>
       PROVE  Evidence(results) <=> f.pack.findings # <<>>
  <2>1. \A r \in ToSet(results) : r.tool # "gdb"
    BY <1>1, <1>10
  <2>2. /\ Evidence(results) <=> \E r \in ToSet(results) : Found(r)
        /\ \A r \in ToSet(results) : Found(r) => \E d : d \in ToSet(r.report)
    BY <2>1, EvidenceIsFound
  <2>3. CASE Evidence(results)
    <3>1. PICK r \in ToSet(results) : Found(r)
      BY <2>2, <2>3
    <3>2. PICK d : d \in ToSet(r.report)
      BY <2>2, <3>1
    <3>3. Represented(d, r, f.pack.findings)
      BY <1>3, <1>4, <3>1, <3>2 DEF IsPack, AllRepresented, Known
    <3>4. ToSet(f.pack.findings) # {}
      BY <3>3 DEF Represented
    <3> QED BY <2>3, <3>4, NothingGrouped
  <2>4. CASE ~Evidence(results)
    BY <1>3, <1>8, <1>10, <2>2, <2>4
  <2> QED BY <2>3, <2>4
<1>11. StatusIs(q, f.pack) /\ (q.status = "Clean" /\ fallback => \E t \in ToSet(q.escalation) : t.status = "Clean")
  <2>1. CASE fallback
    <3>1. pack.findings = <<>> /\ q.count = Len(f.pack.findings) /\ seen.count \in Nat
      BY <1>1, <1>6, <1>7, <1>8, <2>1 DEF Counted
    <3>2. /\ q.status = "Findings" <=> seen.count > 0 \/ Evidence(results)
          /\ q.status = "Clean" => \E r \in ToSet(results) : r.status = "Clean"
      BY <1>6, <2>1, <3>1, FallbackStatusIs
    <3>3. seen.count > 0 <=> f.pack.findings # <<>>
      BY <1>6, <1>8, <3>1
    <3>4. q.status = "Findings" <=> f.pack.findings # <<>>
      BY <1>10, <3>1, <3>2, <3>3
    <3>5. ASSUME NEW r \in ToSet(results), r.status = "Clean"
          PROVE  \E t \in ToSet(q.escalation) : t.status = "Clean"
      <4>1. PICK k \in DOMAIN results : r = results[k]
        BY DEF ToSet
      <4>2. k \in DOMAIN q.escalation /\ q.escalation[k].status = "Clean"
        BY <1>6, <3>5, <4>1 DEF ToolRows, ToolRow
      <4> QED BY <4>2 DEF ToSet
    <3> QED BY <3>2, <3>4, <3>5 DEF StatusIs
  <2>2. CASE ~fallback /\ row.status = "Findings"
    BY <1>1, <1>6, <1>9, <2>2 DEF StatusIs
  <2>3. CASE ~fallback /\ row.status = "Clean"
    <3>1. pack.findings = <<>>
      BY <1>1, <2>3 DEF StatusIs
    <3> QED BY <1>6, <1>10, <2>3, <3>1 DEF StatusIs
  <2> QED BY <1>1, <2>1, <2>2, <2>3
<1>12. OfThisRun(f.pack.findings)
  BY <1>1, <1>3, ImprovesOfThisRun
<1>13. RowStands(q, f.pack)
  <2>1. q.status = "Clean" => q.error = None \/ \E t \in ToSet(q.escalation) : t.status = "Clean"
    BY <1>1, <1>6, <1>11
  <2>2. CanBeUsed(f.pack)
    BY <1>2, <1>3 DEF CanBeUsed
  <2> QED BY <2>1, <2>2 DEF RowStands, CanBeUsed
<1>14. RowFresh(q, f.pack)
  BY <1>3, <1>4, <1>6, <1>7, <1>11, <1>12 DEF RowFresh
<1> QED BY <1>13, <1>14 DEF RowFine, q, changed

(* The row that a native run leaves.                                       *)
LEMMA RowOfError ==
  ASSUME NEW error \in Errors \cup {"Failed to write"}, NEW pack
  PROVE  AfterNative(TargetFromError(error), pack)
<1>1. error # "native tracing unavailable"
  BY ErrorsAreNative DEF NativeErrors
<1>2. DOMAIN TargetFromError(error) = DOMAIN TargetFromError(None)
  BY DEF TargetFromError
<1> QED BY <1>1, <1>2 DEF TargetFromError, AfterNative, IsRow

(* The row of a native run that ended tells of its crashpack.              *)
LEMMA RowOfNative ==
  ASSUME NEW timedOut \in BOOLEAN, NEW f, FreshPack(f), f.ok
  PROVE  AfterNative(TargetFromNative(timedOut, f.pack), f.pack)
<1> DEFINE r == TargetFromNative(timedOut, f.pack)
           status == CASE timedOut -> "Timeout"
                       [] ~timedOut /\ f.pack.findings # <<>> -> "Findings"
                       [] OTHER -> "Clean"
<1>1. /\ CanBeUsed(f.pack) /\ f.pack.analysis /\ f.pack.results = None
      /\ OfThisRun(f.pack.findings)
  BY DEF FreshPack
<1>2. /\ timedOut => status = "Timeout"
      /\ ~timedOut => status = IF f.pack.findings # <<>> THEN "Findings" ELSE "Clean"
  <2>1. CASE timedOut
    BY <2>1
  <2>2. CASE ~timedOut /\ f.pack.findings # <<>>
    BY <2>2
  <2>3. CASE ~timedOut /\ f.pack.findings = <<>>
    BY <2>3
  <2> QED BY <2>1, <2>2, <2>3
<1>3. /\ DOMAIN r = DOMAIN TargetFromError(None) /\ r.status = status
      /\ r.error = IF timedOut THEN "target timed out" ELSE None
      /\ r.count = Len(f.pack.findings) /\ r.classes = ClassCounts(f.pack.findings)
      /\ r.groups = Cardinality(DOMAIN f.pack.groups) /\ r.escalation = <<>>
  BY DEF TargetFromNative, TargetFromError
<1> HIDE DEF r, status
<1>4. StatusIs(r, f.pack) /\ Counted(r, f.pack)
  BY <1>2, <1>3 DEF StatusIs, Counted
<1> QED BY <1>1, <1>2, <1>3, <1>4, NoneIsNoText DEF AfterNative, IsRow, Ready, r

(* A native row that is not given to tools.                                *)
LEMMA NativeRowFine ==
  ASSUME NEW r, NEW pack, AfterNative(r, pack)
  PROVE  RowFine(r, pack)
<1>1. RowStands(r, pack)
  BY DEF AfterNative, Ready, RowStands
<1>2. RowFresh(r, pack)
  BY DEF AfterNative, Ready, RowFresh
<1> QED BY <1>1, <1>2 DEF RowFine

(* A pack that is only added to.                                           *)
LEMMA RowStillStands ==
  ASSUME NEW r, NEW old, NEW new, RowStands(r, old), Known(old.findings) => Known(new.findings),
         old.bin => new.bin, old.console => new.console, Known(old.manifest) => Known(new.manifest)
  PROVE  RowStands(r, new)
BY DEF RowStands, CanBeUsed

(* Rows holds at the start.                                                *)
LEMMA RowsInit ==
  ASSUME Init
  PROVE  Rows
<1>1. pc = "start" /\ DOMAIN rows = {}
  BY DEF Init
<1> QED BY <1>1 DEF Rows, RowsDone

(* Every step keeps Rows.                                                  *)
LEMMA RowsKept ==
  ASSUME NoneIsNothing, Control, Typed, Packs, Rows, [Next]_vars
  PROVE  Rows'
<1> USE DEF files, loop, setting
<1>0. /\ IsSeq(rows) /\ Len(rows) \in Nat /\ DOMAIN rows = 1..Len(rows)
      /\ attempt \in Nat /\ request.repeat \in Nat
      /\ attempt = 0 => rows = <<>>
      /\ pc = "start" => rows = <<>>
      /\ pc \in Observing => attempt \in 1..request.repeat /\ Len(rows) = attempt - 1
      /\ pc = "clear" => rows = <<>>
  <2>1. IsSeq(rows) /\ attempt \in 0..MaxAttempts + 1 /\ request.repeat \in 1..MaxAttempts
        /\ MaxAttempts \in Nat
    BY Bounds DEF Control
  <2>2. Len(rows) \in Nat /\ DOMAIN rows = 1..Len(rows) /\ (rows = <<>> <=> Len(rows) = 0)
    BY <2>1, SeqFacts
  <2>3. /\ attempt = 0 => rows = <<>>
        /\ pc = "start" => attempt = 0
        /\ pc \in Observing => attempt \in 1..request.repeat /\ Len(rows) = attempt - 1
        /\ pc = "clear" => attempt = 1 /\ pc \in Observing
    BY DEF Control, Observing
  <2> QED BY <2>1, <2>2, <2>3
<1>1. 0 \in DOMAIN packs /\ commands \in Nat /\ AreResults(results) /\ present \in BOOLEAN
  <2>1. commands \in 0..MaxCommands /\ MaxCommands \in Nat /\ MaxAttempts \in Nat
    BY Bounds DEF Typed, TypeOK
  <2>2. AreResults(results) /\ present \in BOOLEAN
    BY DEF Typed, Control
  <2>3. 0 \in DOMAIN packs
    BY <2>1 DEF Packs
  <2> QED BY <2>1, <2>2, <2>3
<1>a. ASSUME rows' = rows, packs' = packs, request' = request, commands' = commands
      PROVE  RowsDone'
  BY <1>a DEF Rows, RowsDone, RowFine, PackOf, Single
<1>b. ASSUME pc \in Observing, NEW p, packs' = [packs EXCEPT ![Dir] = p], rows' = rows,
             request' = request, attempt' = attempt, commands' = commands
      PROVE  RowsDone' /\ Pack' = p
  <2>1. Dir \in DOMAIN packs /\ Dir' = Dir
    BY <1>b, PackIsPack DEF Packs, Dir, Single
  <2>2. ASSUME NEW i \in DOMAIN rows
        PROVE  PackOf(i)' = PackOf(i)
    <3>1. i \in 1..(attempt - 1) /\ attempt <= request.repeat
      BY <1>0, <1>b
    <3>2. ~Single /\ i # attempt
      BY <1>0, <3>1 DEF Single
    <3> QED BY <1>b, <3>2 DEF PackOf, Dir, Single
  <2>3. RowsDone'
    BY <1>b, <2>2 DEF Rows, RowsDone, RowFine
  <2> QED BY <1>b, <2>1, <2>3 DEF Pack
<1>c. ASSUME rows' = <<>>
      PROVE  RowsDone'
  BY <1>c DEF RowsDone
<1>d. ASSUME RowsDone', pc' \notin {"select", "plan", "tools", "record", "command"}
      PROVE  Rows'
  BY <1>d DEF Rows
<1>2. ASSUME NEW repeat \in 0..MaxAttempts, NEW nativeOnly \in BOOLEAN, NEW deep \in BOOLEAN,
             NEW explicit \in Policies \cup {None}, Start(repeat, nativeOnly, deep, explicit)
      PROVE  Rows'
  <2>1. rows' = <<>> /\ pc' \in {"idle", "native", "clear"}
    BY <1>0, <1>2 DEF Start, End
  <2> QED BY <2>1, <1>c, <1>d
<1>3. CASE ClearAttempts
  BY <1>0, <1>3, <1>c, <1>d DEF ClearAttempts
<1>4. ASSUME NEW pack, NEW target, pc = "native", Observed(pack, target), AfterNative(target, pack)
      PROVE  Rows'
  <2>1. RowsDone' /\ Pack' = pack
    BY <1>4, <1>b DEF Observed, Observing
  <2>2. row' = target /\ pc' \in {"select", "plan"}
    BY <1>4 DEF Observed
  <2> QED BY <1>4, <2>1, <2>2 DEF Rows
<1>5. ASSUME NEW error \in Errors, NEW findings \in AgentFindings, NativeFails(error, findings)
      PROVE  Rows'
  <2>1. PICK p : Observed(p, TargetFromError(error))
    BY <1>5 DEF NativeFails
  <2> QED BY <1>4, <1>5, <2>1, RowOfError DEF NativeFails
<1>6. ASSUME NEW findings \in AgentFindings, NEW end \in {"exit", "signal", "timeout"},
             NativeEnds(findings, end)
      PROVE  Rows'
  <2>1. pc = "native" /\ IsPack(Pack)
    BY <1>6, PackIsPack DEF NativeEnds, Observing
  <2>2. PICK f \in Finalizations([Written(Pack, findings) EXCEPT !.console = TRUE],
                     IF end = "signal" THEN <<CrashFinding(<<"crash">>)>> ELSE <<>>, TRUE) :
             Observed(f.pack, IF f.ok THEN TargetFromNative(end = "timeout", f.pack)
                              ELSE TargetFromError("Failed to write"))
    BY <1>6 DEF NativeEnds
  <2>3. FreshPack(f)
    BY <2>1, EndedPack
  <2>4. CASE f.ok
    BY <2>1, <2>2, <2>3, <2>4, <1>4, RowOfNative
  <2>5. CASE ~f.ok
    BY <2>1, <2>2, <2>5, <1>4, RowOfError
  <2> QED BY <2>4, <2>5
<1>7. CASE Select
  <2>1. RowsDone' /\ Pack' = Pack /\ row' = row /\ pc' \in {"plan", "record"}
    BY <1>7, <1>a DEF Select, Pack, Dir, Single
  <2>2. AfterNative(row, Pack) /\ commands' = commands
    BY <1>7 DEF Select, Rows
  <2>3. RowFine(row, Pack)
    BY <2>2, NativeRowFine
  <2> QED BY <2>1, <2>2, <2>3 DEF Rows, RowFine
<1>8. CASE PlanNothing
  <2>1. RowsDone' /\ Pack' = Pack /\ row' = row /\ pc' = "record"
    BY <1>8, <1>a DEF PlanNothing, Pack, Dir, Single
  <2>2. AfterNative(row, Pack) /\ commands' = commands
    BY <1>8 DEF PlanNothing, Rows
  <2>3. RowFine(row, Pack)
    BY <2>2, NativeRowFine
  <2> QED BY <2>1, <2>2, <2>3 DEF Rows, RowFine
<1>9. CASE PlanFallback
  <2>1. PICK f \in ToolOnlyPacks(Pack, present) :
             /\ packs' = [packs EXCEPT ![Dir] = f.pack]
             /\ IF f.ok
                THEN /\ row' = [row EXCEPT !.error = "native tracing unavailable"]
                     /\ jobs' = FallbackJobs(request.deep, built)
                     /\ fallback' = TRUE /\ pc' = "tools"
                ELSE pc' = "idle"
    BY <1>9 DEF PlanFallback, End
  <2>2. /\ pc = "plan" /\ rows' = rows /\ request' = request /\ attempt' = attempt
        /\ commands' = commands /\ results' = results /\ row.status = "Failed"
    BY <1>9 DEF PlanFallback, NeedsFallback
  <2>3. RowsDone' /\ Pack' = f.pack
    BY <1>b, <2>1, <2>2 DEF Observing
  <2>4. HasFiles(Pack) /\ results = <<>> /\ AfterNative(row, Pack)
    BY <2>2, PackIsPack DEF Observing, IsPack, Control, Rows
  <2>5. /\ IsPack(f.pack)
        /\ f.ok => /\ CanBeUsed(f.pack) /\ f.pack.analysis /\ f.pack.results = None
                   /\ f.pack.findings = <<>> /\ Intact(f.pack)
    BY <1>1, <2>4, FallbackPack
  <2>6. CASE f.ok
    <3>1. row' = [row EXCEPT !.error = "native tracing unavailable"] /\ jobs' = FallbackJobs(request.deep, built)
          /\ fallback' = TRUE /\ pc' = "tools"
      BY <2>1, <2>6
    <3>2. /\ IsRow(row') /\ row'.error = "native tracing unavailable" /\ row'.status = "Failed"
          /\ row'.count = 0 /\ row'.classes = ClassCounts(<<>>) /\ row'.groups = 0
          /\ row'.escalation = <<>>
      BY <2>2, <2>4, <3>1 DEF AfterNative, IsRow, TargetFromError
    <3>3. Counted(row', f.pack)
      BY <2>5, <2>6, <3>2, NothingGrouped DEF Counted, Intact
    <3>4. Ready(row', f.pack)
      BY <2>5, <2>6, <3>2, <3>3, NothingGrouped DEF Ready, OfThisRun
    <3>5. NeverGdb(jobs')
      BY <3>1, FallbackJobsAre
    <3>6. \A q \in ToSet(results') : q.tool # "gdb"
      BY <2>2, <2>4, NothingGrouped
    <3>7. UnderTools(row, f.pack)'
      BY <2>5, <2>6, <3>1, <3>2, <3>4, <3>5, <3>6 DEF UnderTools, NeverGdb
    <3>8. UnderTools(row, Pack)'
      BY <2>3, <3>7 DEF UnderTools
    <3> QED BY <2>3, <3>1, <3>8 DEF Rows
  <2>7. CASE ~f.ok
    BY <1>d, <2>1, <2>3, <2>7
  <2> QED BY <2>6, <2>7
<1>10. CASE PlanEscalation
  <2>1. /\ pc = "plan" /\ pc' = "tools" /\ row' = row /\ results' = results /\ fallback' = fallback
        /\ jobs' = EscalationJobs(row, Pack.findings, request.deep, built)
        /\ ~HadError(row.status)
    BY <1>10 DEF PlanEscalation
  <2>2. RowsDone' /\ Pack' = Pack
    BY <1>10, <1>a DEF PlanEscalation, Pack, Dir, Single
  <2>3. AfterNative(row, Pack) /\ results = <<>> /\ fallback = FALSE
    BY <2>1 DEF Rows, Control
  <2>4. /\ row.status \in {"Findings", "Clean"} /\ row.error = None
        /\ Ready(row, Pack) /\ StatusIs(row, Pack) /\ IsRow(row)
    BY <2>1, <2>3 DEF AfterNative, HadError
  <2>5. IsPack(Pack)
    BY <2>1, PackIsPack DEF Observing
  <2>6. IsSeq(Pack.findings)
    BY <2>4, <2>5 DEF IsPack, Ready, CanBeUsed, AreFindings
  <2>7. Pack.findings = <<>> => NeverGdb(jobs')
    BY <2>1, <2>6, EscalationJobsAre
  <2>8. \A q \in ToSet(results') : q.tool # "gdb"
    BY <2>1, <2>3, NothingGrouped
  <2>9. UnderTools(row, Pack)'
    BY <2>1, <2>2, <2>3, <2>4, <2>7, <2>8 DEF UnderTools, NeverGdb
  <2> QED BY <2>1, <2>2, <2>9 DEF Rows
<1>11. CASE ObserveTool
  <2>1. /\ pc = "tools" /\ pc' = "tools" /\ row' = row /\ fallback' = fallback
    BY <1>11 DEF ObserveTool
  <2>2. RowsDone' /\ Pack' = Pack
    BY <1>11, <1>a DEF ObserveTool, Pack, Dir, Single
  <2>3. UnderTools(row, Pack)
    BY <2>1 DEF Rows
  <2>4. PICK r : results' = Append(results, r) /\ r.tool = Head(jobs).tool
    BY <1>11, ResultsOfObserveTool
  <2>5. ToSet(jobs') \subseteq ToSet(jobs) /\ Head(jobs) \in ToSet(jobs)
    BY <1>11, ResultsOfObserveTool
  <2>6. ToSet(results') = ToSet(results) \cup {r}
    BY <1>1, <2>4, AppendSeq DEF AreResults
  <2>7. UnderTools(row, Pack)'
    BY <2>1, <2>2, <2>3, <2>4, <2>5, <2>6 DEF UnderTools
  <2> QED BY <2>1, <2>2, <2>7 DEF Rows
<1>12. CASE FinishEscalation
  <2>1. PICK f \in Promotions([Pack EXCEPT !.results = results], results, present) :
             /\ packs' = [packs EXCEPT ![Dir] = f.pack]
             /\ IF f.ok
                THEN /\ row' = EscalatedRow(row, PromotionChanges(Pack.findings, results), f.pack)
                     /\ pc' = "record"
                ELSE pc' = "idle"
    BY <1>12 DEF FinishEscalation, End
  <2>2. /\ pc = "tools" /\ rows' = rows /\ request' = request /\ attempt' = attempt
        /\ commands' = commands
    BY <1>12 DEF FinishEscalation
  <2>3. RowsDone' /\ Pack' = f.pack
    BY <1>b, <2>1, <2>2 DEF Observing
  <2>4. IsPack(Pack) /\ UnderTools(row, Pack)
    BY <2>2, PackIsPack DEF Observing, Rows
  <2>5. CASE f.ok
    <3>1. row' = EscalatedRow(row, PromotionChanges(Pack.findings, results), f.pack) /\ pc' = "record"
      BY <2>1, <2>5
    <3>2. RowFine(EscalatedRow(row, PromotionChanges(Pack.findings, results), f.pack), f.pack)
      BY <1>1, <2>4, <2>5, EscalatedRowFine DEF Control
    <3>3. RowFine(row, Pack)'
      BY <2>2, <2>3, <3>1, <3>2 DEF RowFine
    <3> QED BY <2>3, <3>1, <3>3 DEF Rows
  <2>6. CASE ~f.ok
    BY <1>d, <2>1, <2>3, <2>6
  <2> QED BY <2>5, <2>6
<1>13. CASE WriteSummary
  <2>1. /\ pc = "record" /\ Single /\ rows' = <<row>> /\ packs' = packs /\ request' = request
        /\ commands' = commands /\ pc' = "idle"
    BY <1>13 DEF WriteSummary, End
  <2>2. RowFine(row, packs[0])
    BY <2>1 DEF Rows, Pack, Dir
  <2>3. DOMAIN rows' = {1} /\ rows'[1] = row /\ PackOf(1)' = packs[0]
    BY <2>1 DEF PackOf, Single
  <2>4. RowsDone'
    BY <2>1, <2>2, <2>3 DEF RowsDone, RowFine
  <2> QED BY <1>d, <2>1, <2>4
<1>14. CASE RecordAttempt
  <2>1. CASE MissingGroups
    BY <1>14, <1>a, <1>d, <2>1 DEF RecordAttempt, End
  <2>2. CASE ~MissingGroups
    <3>1. /\ pc = "record" /\ ~Single /\ rows' = Append(rows, row) /\ packs' = packs
          /\ request' = request /\ commands' = commands /\ pc' \in {"publish", "native"}
      BY <1>14, <2>2 DEF RecordAttempt
    <3>2. RowFine(row, packs[attempt]) /\ Len(rows) = attempt - 1
      BY <1>0, <3>1 DEF Rows, Pack, Dir, Observing
    <3>3. /\ DOMAIN rows' = 1..attempt /\ rows'[attempt] = row
          /\ \A i \in DOMAIN rows : rows'[i] = rows[i]
      BY <1>0, <3>1, <3>2
    <3>4. ASSUME NEW i \in DOMAIN rows'
          PROVE  RowFine(rows[i], PackOf(i))'
      <4>1. CASE i = attempt
        BY <3>1, <3>2, <3>3, <4>1 DEF RowFine, PackOf, Single
      <4>2. CASE i # attempt
        <5>1. i \in DOMAIN rows
          BY <1>0, <3>2, <3>3, <4>2
        <5>2. RowFine(rows[i], PackOf(i)) /\ PackOf(i)' = PackOf(i) /\ rows'[i] = rows[i]
          BY <3>1, <3>3, <5>1 DEF Rows, RowsDone, PackOf, Single
        <5> QED BY <3>1, <5>2 DEF RowFine
      <4> QED BY <4>1, <4>2
    <3>5. RowsDone'
      BY <3>4 DEF RowsDone
    <3> QED BY <1>d, <3>1, <3>5
  <2> QED BY <2>1, <2>2
<1>15. CASE PublishRepeat \/ PublishRun
  BY <1>15, <1>a, <1>d DEF PublishRepeat, PublishRun, End
<1>16. CASE Killed
  BY <1>16, <1>c, <1>d DEF Killed, End
<1>e. ASSUME Command \/ pc = "command", commands' # 0, NEW p, packs' = [packs EXCEPT ![0] = p],
             rows' = rows, request' = request,
             /\ Known(packs[0].findings) => Known(p.findings)
             /\ packs[0].bin => p.bin
             /\ packs[0].console => p.console
             /\ Known(packs[0].manifest) => Known(p.manifest)
      PROVE  RowsDone' /\ packs'[0] = p
  <2>1. Single /\ packs'[0] = p
    BY <1>1, <1>e DEF Command, Control
  <2>2. ASSUME NEW i \in DOMAIN rows
        PROVE  RowFine(rows[i], PackOf(i))'
    <3>1. RowStands(rows[i], packs[0]) /\ PackOf(i)' = p
      BY <1>e, <2>1 DEF Rows, RowsDone, RowFine, PackOf, Single
    <3>2. RowStands(rows[i], p)
      BY <1>e, <3>1, RowStillStands
    <3> QED BY <1>e, <3>1, <3>2 DEF RowFine
  <2>3. RowsDone'
    BY <1>e, <2>2 DEF RowsDone
  <2> QED BY <2>1, <2>3
<1>f. ASSUME Command, commands' = commands + 1, packs' = packs, rows' = rows, request' = request
      PROVE  RowsDone' /\ commands' # 0
  <2>1. commands' # 0
    BY <1>1, <1>f
  <2>2. RowsDone'
    BY <1>f, <2>1 DEF Rows, RowsDone, RowFine, PackOf, Single
  <2> QED BY <2>1, <2>2
<1>17. ASSUME NEW tool, EscalateCommand(tool)
       PROVE  Rows'
  <2>1. /\ Command /\ commands' = commands + 1 /\ packs' = packs /\ rows' = rows
        /\ request' = request /\ pc' \in {"idle", "command"}
        /\ pc' = "command" => packs[0].analysis /\ packs[0].findings # None
    BY <1>17 DEF EscalateCommand, Command, Begin, End
  <2>2. RowsDone' /\ commands' # 0
    BY <1>f, <2>1
  <2> QED BY <2>1, <2>2 DEF Rows, Known
<1>18. ASSUME NEW tool, NEW checkClean, ScanCommand(tool, checkClean)
       PROVE  Rows'
  <2>1. /\ Command /\ commands' = commands + 1 /\ packs' = packs /\ rows' = rows
        /\ request' = request /\ pc' \in {"idle", "command"}
        /\ pc' = "command" => packs[0].analysis /\ packs[0].findings # None
    BY <1>18 DEF ScanCommand, Command, Begin, End
  <2>2. RowsDone' /\ commands' # 0
    BY <1>f, <2>1
  <2> QED BY <2>1, <2>2 DEF Rows, Known
<1>19. CASE CommandTool \/ SkipFinding
  <2>1. /\ pc = "command" /\ packs' = packs /\ rows' = rows /\ request' = request
        /\ commands' = commands /\ pc' \in {"idle", "command"}
    BY <1>19 DEF CommandTool, SkipFinding, End
  <2>2. RowsDone'
    BY <1>a, <2>1
  <2> QED BY <2>1, <2>2 DEF Rows
<1>20. CASE FinishCommand
  <2>1. PICK f \in Promotions([packs[0] EXCEPT !.results = results], results, present) :
             packs' = [packs EXCEPT ![0] = f.pack]
    BY <1>20 DEF FinishCommand
  <2>2. /\ pc = "command" /\ pc' = "idle" /\ rows' = rows /\ request' = request
        /\ commands' = commands
    BY <1>20 DEF FinishCommand, End
  <2>3. packs[0].analysis /\ Known(packs[0].findings) /\ commands # 0 /\ IsPack(packs[0])
    BY <1>1, <2>2 DEF Rows, Packs
  <2>4. HasFiles(packs[0]) /\ AreFindings(packs[0].findings)
    BY <2>3 DEF IsPack
  <2>5. /\ f.pack.console = packs[0].console /\ Known(f.pack.findings)
        /\ packs[0].bin => f.pack.bin
        /\ Known(packs[0].manifest) => Known(f.pack.manifest)
        /\ Improves(packs[0].findings, f.pack.findings)
    BY <1>1, <2>3, <2>4, PromotedPack
  <2>6. RowsDone'
    BY <1>e, <2>1, <2>2, <2>3, <2>5
  <2> QED BY <1>d, <2>2, <2>6
<1>21. CASE ReplayCommand
  <2>1. PICK replay : packs' = [packs EXCEPT ![0].replay = replay]
    BY <1>21 DEF ReplayCommand
  <2> DEFINE p == [packs[0] EXCEPT !.replay = replay]
  <2>2. packs' = [packs EXCEPT ![0] = p]
    BY <1>1, <2>1
  <2>3. HasFiles(packs[0])
    BY <1>1 DEF Packs, IsPack
  <2>4. /\ p.findings = packs[0].findings /\ p.bin = packs[0].bin
        /\ p.console = packs[0].console /\ p.manifest = packs[0].manifest
    BY <2>3 DEF HasFiles, EmptyPack
  <2> HIDE DEF p
  <2>5. /\ Command /\ commands' # 0 /\ rows' = rows /\ request' = request /\ pc' = "idle"
    BY <1>1, <1>21 DEF ReplayCommand, Begin, End
  <2>6. RowsDone'
    BY <1>e, <2>2, <2>4, <2>5
  <2> QED BY <1>d, <2>5, <2>6
<1>22. CASE RemoveTarget
  BY <1>22, <1>a, <1>d DEF RemoveTarget, Command
<1>23. CASE UNCHANGED vars
  <2>1. RowsDone'
    BY <1>23, <1>a DEF vars
  <2>2. /\ Pack' = Pack /\ (AfterNative(row, Pack) => AfterNative(row, Pack)')
        /\ (UnderTools(row, Pack) => UnderTools(row, Pack)')
        /\ (RowFine(row, Pack) => RowFine(row, Pack)')
    BY <1>23 DEF vars, Pack, Dir, Single, UnderTools, RowFine
  <2> QED BY <1>23, <2>1, <2>2 DEF vars, Rows
<1> QED BY <1>2, <1>3, <1>5, <1>6, <1>7, <1>8, <1>9, <1>10, <1>11, <1>12, <1>13, <1>14, <1>15,
           <1>16, <1>17, <1>18, <1>19, <1>20, <1>21, <1>22, <1>23 DEF Next

----------------------------------------------------------------------------
(* A command has something to say on every finding with a plan.            *)

(* Every step keeps Covers.                                                *)
LEMMA CoversKept ==
  ASSUME Typed, Rows, Packs, Covers, [Next]_vars
  PROVE  Covers'
<1> USE DEF files, loop, setting
<1>a. ASSUME pc' # "command"
      PROVE  Covers'
  BY <1>a DEF Covers
<1>b. ASSUME pc = "command", IsSeq(jobs), jobs # <<>>, packs' = packs, jobs' = Tail(jobs),
             ToSet(results) \subseteq ToSet(results'),
             Known(Head(jobs).tool) => \E r \in ToSet(results') : r.finding = JobFinding(Head(jobs))
      PROVE  Covers'
  <2>1. \A j \in ToSet(jobs) : j = Head(jobs) \/ j \in ToSet(jobs')
    BY <1>b, TailSeq
  <2>2. CASE \E j \in ToSet(jobs) : j.what = "scan" /\ Known(j.tool)
    <3>1. PICK j \in ToSet(jobs) : j.what = "scan" /\ Known(j.tool)
      BY <2>2
    <3>2. CASE j = Head(jobs)
      BY <1>b, <3>1, <3>2 DEF JobFinding, Covers
    <3>3. CASE j \in ToSet(jobs')
      BY <3>1, <3>3 DEF Covers
    <3> QED BY <2>1, <3>2, <3>3
  <2>3. CASE \E r \in ToSet(results) : r.finding = CleanRun
    BY <1>b, <2>3 DEF Covers
  <2>4. CASE \A f \in ToSet(packs[0].findings) : Known(f.plan) => Covered(f)
    <3>1. ASSUME NEW f \in ToSet(packs[0].findings), Known(f.plan)
          PROVE  Covered(f)'
      <4>1. CASE \E r \in ToSet(results) : r.finding = f.id
        BY <1>b, <4>1 DEF Covered
      <4>2. CASE \E j \in ToSet(jobs) : j.what = "finding" /\ j.finding = f.id /\ Known(j.tool)
        <5>1. PICK j \in ToSet(jobs) : j.what = "finding" /\ j.finding = f.id /\ Known(j.tool)
          BY <4>2
        <5>2. CASE j = Head(jobs)
          BY <1>b, <5>1, <5>2 DEF JobFinding, Covered
        <5>3. CASE j \in ToSet(jobs')
          BY <5>1, <5>3 DEF Covered
        <5> QED BY <2>1, <5>2, <5>3
      <4> QED BY <2>4, <3>1, <4>1, <4>2 DEF Covered
    <3> QED BY <1>b, <3>1 DEF Covers
  <2> QED BY <1>b, <2>2, <2>3, <2>4 DEF Covers
<1>1. ASSUME NEW tool \in Tools \cup {"all"}, EscalateCommand(tool)
      PROVE  Covers'
  <2>1. CASE pc' = "command"
    <3>1. /\ jobs' = PlannedJobs(packs[0].findings, tool) /\ packs' = packs
          /\ packs[0].findings # None
      BY <1>1, <2>1 DEF EscalateCommand, Command, Begin, End
    <3>2. IsPack(packs[0])
      BY Bounds DEF Packs
    <3>3. AreFindings(packs[0].findings)
      BY <3>1, <3>2 DEF IsPack, Known
    <3>4. ASSUME NEW f \in ToSet(packs[0].findings), Known(f.plan)
          PROVE  Covered(f)'
      <4>1. PICK j \in ToSet(jobs') :
              j.what = "finding" /\ j.finding = f.id /\ j.tool = IF tool = "all" THEN f.plan ELSE tool
        BY <3>1, <3>3, PlannedJobsAre
      <4>2. Known(j.tool)
        BY <3>4, <4>1, ToolsAreText DEF Known
      <4> QED BY <4>1, <4>2 DEF Covered
    <3> QED BY <3>1, <3>4 DEF Covers
  <2> QED BY <2>1, <1>a
<1>2. ASSUME NEW tool \in Tools \cup {"all"}, NEW checkClean, ScanCommand(tool, checkClean)
      PROVE  Covers'
  <2>1. CASE pc' = "command"
    <3>1. jobs' = <<Scan(tool)>> /\ tool # "all"
      BY <1>2, <2>1 DEF ScanCommand, Command, Begin, End
    <3>2. Scan(tool) \in ToSet(jobs') /\ Scan(tool).what = "scan" /\ Known(Scan(tool).tool)
      BY <3>1, ToolsAreText DEF ToSet, Scan, Job, Known
    <3> QED BY <3>2 DEF Covers
  <2> QED BY <2>1, <1>a
<1>3. CASE CommandTool
  <2>1. IsSeq(jobs) /\ jobs # <<>> /\ pc = "command" /\ packs' = packs /\ AreResults(results)
    BY <1>3 DEF CommandTool, Typed
  <2>2. \/ /\ \E r : results' = Append(results, r) /\ r.finding = JobFinding(Head(jobs))
           /\ jobs' = Tail(jobs)
        \/ End("error")
    BY <1>3, ResultsOfCommandTool
  <2>3. ASSUME NEW r, results' = Append(results, r), r.finding = JobFinding(Head(jobs)),
               jobs' = Tail(jobs)
        PROVE  Covers'
    <3>1. ToSet(results') = ToSet(results) \cup {r}
      BY <2>1, <2>3, AppendSeq DEF AreResults
    <3> QED BY <2>1, <2>3, <3>1, <1>b
  <2> QED BY <2>2, <2>3, <1>a DEF End
<1>4. CASE SkipFinding
  <2>1. /\ IsSeq(jobs) /\ jobs # <<>> /\ pc = "command" /\ packs' = packs /\ jobs' = Tail(jobs)
        /\ results' = results /\ ~Known(Head(jobs).tool)
    BY <1>4 DEF SkipFinding, Typed
  <2> QED BY <2>1, <1>b
<1>5. CASE UNCHANGED vars
  BY <1>5 DEF vars, Covers, Covered
<1>6. ASSUME NEW repeat, NEW nativeOnly, NEW deep, NEW explicit, Start(repeat, nativeOnly, deep, explicit)
      PROVE  pc' # "command"
  BY <1>6 DEF Start, End
<1>7. ASSUME NEW error, NEW findings, NativeFails(error, findings)
      PROVE  pc' # "command"
  BY <1>7 DEF NativeFails, Observed
<1>8. ASSUME NEW findings, NEW end, NativeEnds(findings, end)
      PROVE  pc' # "command"
  BY <1>8 DEF NativeEnds, Observed
<1>9. CASE ClearAttempts \/ Select \/ PlanNothing \/ PlanFallback \/ PlanEscalation \/ ObserveTool
           \/ FinishEscalation \/ WriteSummary \/ RecordAttempt \/ PublishRepeat \/ PublishRun
           \/ Killed \/ FinishCommand \/ ReplayCommand \/ RemoveTarget
  <2>1. pc' # "command"
    BY <1>9 DEF ClearAttempts, Select, PlanNothing, PlanFallback, PlanEscalation, ObserveTool,
         FinishEscalation, WriteSummary, RecordAttempt, PublishRepeat, PublishRun, Killed,
         FinishCommand, ReplayCommand, RemoveTarget, Command, End
  <2> QED BY <2>1, <1>a
<1> QED BY <1>a, <1>1, <1>2, <1>3, <1>4, <1>5, <1>6, <1>7, <1>8, <1>9 DEF Next

----------------------------------------------------------------------------
(* Which attempts are escalated.                                           *)

(* One more native run.                                                    *)
LEMMA OneMoreNative ==
  ASSUME NEW n \in Nat, IsSeq(natives), n = Len(natives) + 1, NEW target,
         natives' = Append(natives, target), request' = request
  PROVE  /\ IsSeq(natives') /\ Len(natives') = n
         /\ Can \subseteq 1..(n - 1) /\ Failures \subseteq Can
         /\ Can' = Can \cup (IF CanRunEscalation(target, request.deep) THEN {n} ELSE {})
         /\ Failures' = Failures \cup (IF Fails(target, request.deep) THEN {n} ELSE {})
<1>1. /\ IsSeq(natives') /\ Len(natives') = n /\ Len(natives) \in Nat
      /\ DOMAIN natives = 1..(n - 1) /\ DOMAIN natives' = 1..n
      /\ natives'[n] = target /\ \A k \in DOMAIN natives : natives'[k] = natives[k]
  <2>1. Len(natives) \in Nat /\ DOMAIN natives = 1..Len(natives)
    BY SeqFacts
  <2>2. IsSeq(natives') /\ Len(natives') = Len(natives) + 1 /\ natives'[Len(natives) + 1] = target
        /\ \A k \in DOMAIN natives : natives'[k] = natives[k]
    BY AppendSeq
  <2>3. DOMAIN natives' = 1..Len(natives')
    BY <2>2, SeqFacts
  <2> QED BY <2>1, <2>2, <2>3
<1>2. DOMAIN natives' = DOMAIN natives \cup {n} /\ n \notin DOMAIN natives
  BY <1>1
<1>3. Can' = Can \cup (IF CanRunEscalation(target, request.deep) THEN {n} ELSE {})
  BY <1>1, <1>2 DEF Can
<1>4. Can \subseteq 1..(n - 1) /\ Failures \subseteq Can
  BY <1>1 DEF Can, Failures
<1>5. Failures' = Failures \cup (IF Fails(target, request.deep) THEN {n} ELSE {})
  BY <1>1, <1>2, <1>3, <1>4 DEF Can, Failures, Fails
<1> QED BY <1>1, <1>3, <1>4, <1>5

(* The first failure stays the first.                                      *)
First(failures) == {i \in failures : \A j \in failures : i <= j}

(* A later failure does not become the first.                              *)
LEMMA FirstStays ==
  ASSUME NEW n \in Nat, NEW old, old \subseteq 1..(n - 1), NEW more \in {{}, {n}}
  PROVE  First(old \cup more) = IF old = {} THEN more ELSE First(old)
<1>1. \A i \in old : i \in Nat /\ i < n
  BY DEF First
<1>2. CASE old = {}
  BY <1>2 DEF First
<1>3. CASE old # {}
  <2>1. PICK k \in old : TRUE
    BY <1>3
  <2>2. ASSUME NEW i \in old \cup more, \A j \in old \cup more : i <= j
        PROVE  i \in old
    <3>1. i <= k /\ k < n
      BY <1>1, <2>1, <2>2
    <3> QED BY <1>1, <2>2, <3>1
  <2>3. \A i \in old, j \in more : i <= j
    BY <1>1
  <2> QED BY <1>3, <2>2, <2>3 DEF First
<1> QED BY <1>2, <1>3

(* What the policy escalates, said of each policy.                          *)
EscalatedBy(policy, deep, attempts, can, failures) ==
  /\ policy = "never" => attempts = {}
  /\ policy = "always" => attempts = can
  /\ policy = "first-failure" => attempts = First(failures)
  /\ policy = "sampled" => attempts = First(failures) \cup (IF deep THEN can \cap {1} ELSE {})

(* The property's choice with hindsight, policy by policy.                 *)
LEMMA EscalatedIs ==
  ASSUME request.policy \in Policies
  PROVE  EscalatedBy(request.policy, request.deep, EscalatedAttempts, Can, Failures)
<1>1. CASE request.policy = "never"
  BY <1>1 DEF EscalatedAttempts, EscalatedBy
<1>2. CASE request.policy = "always"
  BY <1>2 DEF EscalatedAttempts, Can, EscalatedBy
<1>3. CASE request.policy = "first-failure"
  BY <1>3 DEF EscalatedAttempts, Can, Failures, First, EscalatedBy
<1>4. CASE request.policy = "sampled"
  BY <1>4 DEF EscalatedAttempts, Can, Failures, First, EscalatedBy
<1> QED BY <1>1, <1>2, <1>3, <1>4 DEF Policies

(* The same of the next state.                                              *)
LEMMA EscalatedIsThen ==
  ASSUME request'.policy \in Policies
  PROVE  EscalatedBy(request'.policy, request'.deep, EscalatedAttempts', Can', Failures')
<1>1. CASE request'.policy = "never"
  BY <1>1 DEF EscalatedAttempts, EscalatedBy
<1>2. CASE request'.policy = "always"
  BY <1>2 DEF EscalatedAttempts, Can, EscalatedBy
<1>3. CASE request'.policy = "first-failure"
  BY <1>3 DEF EscalatedAttempts, Can, Failures, First, EscalatedBy
<1>4. CASE request'.policy = "sampled"
  BY <1>4 DEF EscalatedAttempts, Can, Failures, First, EscalatedBy
<1> QED BY <1>1, <1>2, <1>3, <1>4 DEF Policies

(* Why an attempt is chosen.                                               *)
LEMMA ReasonIs ==
  ASSUME NEW target, NEW deep
  PROVE  /\ ~ReasonSelects(None, target, deep)
         /\ ReasonSelects("policy_always", target, deep) <=> CanRunEscalation(target, deep)
         /\ ReasonSelects("first_escalatable_failure", target, deep) <=> Fails(target, deep)
         /\ ReasonSelects("sampled_first_failure", target, deep) <=> Fails(target, deep)
         /\ ReasonSelects("sampled_first_attempt", target, deep) <=> CanRunEscalation(target, deep)
BY NoneIsNoText DEF ReasonSelects, Fails

(* The choice that is made as the attempts come is the one that is made    *)
(* with hindsight.                                                         *)
LEMMA PolicyAfterSelect ==
  ASSUME Control, Policy, Select
  PROVE  PolicySoFar'
<1> DEFINE choice == SelectAttempt(slots, request.policy, attempt, row, request.deep)
           can == CanRunEscalation(row, request.deep)
           fails == Fails(row, request.deep)
<1>0. /\ pc = "select" /\ ~Single /\ attempt \in Nat /\ attempt >= 1
  <2>1. /\ pc = "select" /\ pc \in Observing
    BY DEF Select, Observing
  <2>2. ~Single /\ attempt \in 1..request.repeat /\ request.repeat \in 1..MaxAttempts
    BY <2>1 DEF Control
  <2> QED BY <2>1, <2>2, Bounds
<1>1. PolicySoFar /\ Len(natives) = attempt - 1 /\ reason = None
  BY <1>0 DEF Policy, Choosing, Observing
<1>2. IsSeq(natives) /\ IsSeq(selected) /\ request.policy \in Policies /\ Len(natives) \in Nat
      /\ attempt = Len(natives) + 1
  BY <1>0, <1>1, SeqFacts DEF PolicySoFar
<1>3. /\ natives' = Append(natives, row) /\ request' = request /\ selected' = selected
      /\ attempt' = attempt /\ slots' = choice.slots
      /\ reason' = IF ReasonSelects(choice.reason, row, request.deep) THEN choice.reason ELSE None
  BY DEF Select, setting
<1>4. /\ IsSeq(natives') /\ Len(natives') = attempt
      /\ Can \subseteq 1..(attempt - 1) /\ Failures \subseteq Can
      /\ Can' = Can \cup (IF can THEN {attempt} ELSE {})
      /\ Failures' = Failures \cup (IF fails THEN {attempt} ELSE {})
  BY <1>0, <1>2, <1>3, OneMoreNative
<1>5. IsChoice(choice, slots, request.policy, attempt, row, request.deep)
  BY SelectAttemptIs
<1>6. fails => can
  BY DEF Fails
<1> DEFINE done == {selected[k].attempt : k \in DOMAIN selected}
<1>7. Chosen = done /\ Chosen' = done \cup (IF reason' = None THEN {} ELSE {attempt})
  BY <1>1, <1>3 DEF Chosen
<1>8. \A why : \A taken : Choice(why, taken).reason = why /\ Choice(why, taken).slots = taken
  BY DEF Choice
<1>9. First(Failures') = IF Failures = {} THEN (IF fails THEN {attempt} ELSE {}) ELSE First(Failures)
  <2> HIDE DEF fails
  <2>0. (IF fails THEN {attempt} ELSE {}) \in {{}, {attempt}}
    OBVIOUS
  <2>1. PICK more \in {{}, {attempt}} : more = IF fails THEN {attempt} ELSE {}
    BY <2>0
  <2>2. Failures' = Failures \cup more /\ Failures \subseteq 1..(attempt - 1)
    BY <1>4, <2>1
  <2>3. First(Failures \cup more) = IF Failures = {} THEN more ELSE First(Failures)
    <3>1. attempt \in Nat /\ Failures \subseteq 1..(attempt - 1)
      BY <1>0, <2>2
    <3> QED BY <2>1, <3>1, FirstStays
  <2>4. First(Failures') = First(Failures \cup more)
    BY <2>2 DEF First
  <2> QED BY <2>1, <2>3, <2>4
<1>10. /\ request.policy = "never" => EscalatedAttempts = {} /\ EscalatedAttempts' = {}
       /\ request.policy = "always" => EscalatedAttempts = Can /\ EscalatedAttempts' = Can'
       /\ request.policy = "first-failure" =>
            EscalatedAttempts = First(Failures) /\ EscalatedAttempts' = First(Failures')
       /\ request.policy = "sampled" =>
            /\ EscalatedAttempts = First(Failures) \cup (IF request.deep THEN Can \cap {1} ELSE {})
            /\ EscalatedAttempts' = First(Failures') \cup (IF request.deep THEN Can' \cap {1} ELSE {})
  <2>1. request.policy \in Policies /\ request'.policy \in Policies
        /\ request'.policy = request.policy /\ request'.deep = request.deep
    BY <1>2, <1>3
  <2>2. EscalatedBy(request.policy, request.deep, EscalatedAttempts, Can, Failures)
    BY <2>1, EscalatedIs
  <2>3. EscalatedBy(request'.policy, request'.deep, EscalatedAttempts', Can', Failures')
    BY <2>1, EscalatedIsThen
  <2> QED BY <2>1, <2>2, <2>3 DEF EscalatedBy
<1>11. First({}) = {}
  BY DEF First
<1>12. done = EscalatedAttempts
  BY <1>1, <1>7 DEF PolicySoFar
<1>13. /\ ~ReasonSelects(None, row, request.deep)
       /\ ReasonSelects("policy_always", row, request.deep) <=> can
       /\ ReasonSelects("first_escalatable_failure", row, request.deep) <=> fails
       /\ ReasonSelects("sampled_first_failure", row, request.deep) <=> fails
       /\ ReasonSelects("sampled_first_attempt", row, request.deep) <=> can
       /\ None \notin {"policy_always", "first_escalatable_failure", "sampled_first_failure",
                       "sampled_first_attempt"}
  BY ReasonIs, NoneIsNoText
<1> HIDE DEF choice, can, fails, done
<1>14. CASE request.policy = "never"
  <2>1. choice = Choice(None, slots)
    BY <1>5, <1>14 DEF IsChoice
  <2>2. Chosen' = EscalatedAttempts'
    BY <1>3, <1>7, <1>8, <1>10, <1>12, <1>13, <1>14, <2>1
  <2> QED BY <1>2, <1>3, <1>4, <1>14, <2>2 DEF PolicySoFar
<1>15. CASE request.policy = "always"
  <2>1. choice = IF can THEN Choice("policy_always", slots) ELSE Choice(None, slots)
    BY <1>5, <1>15 DEF IsChoice, can
  <2>2. Chosen' = EscalatedAttempts'
    BY <1>3, <1>4, <1>7, <1>8, <1>10, <1>12, <1>13, <1>15, <2>1
  <2> QED BY <1>2, <1>3, <1>4, <1>15, <2>2 DEF PolicySoFar
<1>16. CASE request.policy = "first-failure"
  <2>1. choice = IF fails /\ "first_failure" \notin slots
                 THEN Choice("first_escalatable_failure", slots \cup {"first_failure"})
                 ELSE Choice(None, slots)
    BY <1>5, <1>16 DEF IsChoice, fails
  <2>2. "first_failure" \in slots <=> Failures # {}
    BY <1>1, <1>16 DEF PolicySoFar
  <2>3. Chosen' = EscalatedAttempts' /\ ("first_failure" \in slots' <=> Failures' # {})
    <3>1. CASE fails /\ Failures = {}
      <4>1. choice = Choice("first_escalatable_failure", slots \cup {"first_failure"})
        BY <2>1, <2>2, <3>1
      <4>2. slots' = slots \cup {"first_failure"} /\ reason' # None
        BY <1>3, <1>8, <1>13, <3>1, <4>1
      <4>3. Chosen' = EscalatedAttempts'
        BY <1>7, <1>9, <1>10, <1>11, <1>12, <1>16, <3>1, <4>2
      <4> QED BY <1>4, <3>1, <4>2, <4>3
    <3>2. CASE ~(fails /\ Failures = {})
      <4>1. choice = Choice(None, slots)
        BY <2>1, <2>2, <3>2
      <4>2. slots' = slots /\ reason' = None
        BY <1>3, <1>8, <1>13, <4>1
      <4> QED BY <1>4, <1>7, <1>9, <1>10, <1>11, <1>12, <1>16, <2>2, <3>2, <4>2
    <3> QED BY <3>1, <3>2
  <2> QED BY <1>2, <1>3, <1>4, <1>16, <2>3 DEF PolicySoFar
<1>17. CASE request.policy = "sampled"
  <2> DEFINE first == FirstSampled(slots, attempt, row, request.deep)
  <2>1. choice = IF first THEN Sampled(slots, row, request.deep)
                 ELSE IF fails /\ "sampled_failure" \notin slots
                 THEN Choice("sampled_first_failure", slots \cup {"sampled_failure"})
                 ELSE Choice(None, slots)
    BY <1>5, <1>17 DEF IsChoice, fails
  <2>2. /\ "sampled_failure" \in slots <=> Failures # {}
        /\ "sampled_first_attempt" \in slots <=> request.deep /\ 1 \in Can
    BY <1>1, <1>17 DEF PolicySoFar
  <2>3. attempt = 1 => Can = {} /\ Failures = {}
    BY <1>4
  <2>4. first <=> request.deep /\ attempt = 1 /\ can
    BY <2>2, <2>3 DEF FirstSampled, can
  <2> HIDE DEF first
  <2>5. /\ Chosen' = EscalatedAttempts'
        /\ "sampled_failure" \in slots' <=> Failures' # {}
        /\ "sampled_first_attempt" \in slots' <=> request.deep /\ 1 \in Can'
    <3>1. CASE first
      <4>1. choice.reason = "sampled_first_attempt"
            /\ choice.slots = slots \cup {"sampled_first_attempt"}
                                    \cup (IF fails THEN {"sampled_failure"} ELSE {})
        BY <1>8, <2>1, <3>1 DEF Sampled, fails
      <4>2. reason' = "sampled_first_attempt" /\ reason' # None
        BY <1>3, <1>13, <2>4, <3>1, <4>1
      <4>3. Can = {} /\ Failures = {} /\ Can' = {1} /\ request.deep /\ attempt = 1
        BY <1>4, <2>3, <2>4, <3>1
      <4>4. EscalatedAttempts = {} /\ EscalatedAttempts' = {1}
        BY <1>9, <1>10, <1>11, <1>17, <4>3
      <4>5. Chosen' = EscalatedAttempts'
        BY <1>7, <1>12, <4>2, <4>3, <4>4
      <4>6. "sampled_failure" \in slots' <=> Failures' # {}
        BY <1>3, <1>4, <2>2, <4>1, <4>3
      <4> QED BY <1>3, <4>1, <4>3, <4>5, <4>6
    <3>2. CASE ~first
      <4>1. request.deep => Can' \cap {1} = Can \cap {1}
        BY <1>4, <2>4, <3>2
      <4>2. CASE fails /\ Failures = {}
        <5>1. choice = Choice("sampled_first_failure", slots \cup {"sampled_failure"})
          BY <2>1, <2>2, <3>2, <4>2
        <5>2. slots' = slots \cup {"sampled_failure"} /\ reason' # None
          BY <1>3, <1>8, <1>13, <4>2, <5>1
        <5>3. Chosen' = EscalatedAttempts'
          BY <1>7, <1>9, <1>10, <1>11, <1>12, <1>17, <4>1, <4>2, <5>2
        <5> QED BY <1>4, <2>2, <4>1, <4>2, <5>2, <5>3
      <4>3. CASE ~(fails /\ Failures = {})
        <5>1. choice = Choice(None, slots)
          BY <2>1, <2>2, <3>2, <4>3
        <5>2. slots' = slots /\ reason' = None
          BY <1>3, <1>8, <1>13, <5>1
        <5>3. Chosen' = EscalatedAttempts'
          BY <1>7, <1>9, <1>10, <1>11, <1>12, <1>17, <4>1, <4>3, <5>2
        <5> QED BY <1>4, <2>2, <4>1, <4>3, <5>2, <5>3
      <4> QED BY <4>2, <4>3
    <3> QED BY <3>1, <3>2
  <2> QED BY <1>2, <1>3, <1>4, <1>17, <2>5 DEF PolicySoFar
<1> QED BY <1>2, <1>14, <1>15, <1>16, <1>17 DEF Policies

(* Policy holds at the start.                                              *)
LEMMA PolicyInit ==
  ASSUME Init
  PROVE  Policy
BY DEF Init, Policy, Choosing, Observing

(* Every step keeps the choice that of the policy.                         *)
LEMMA PolicyStays ==
  ASSUME NoneIsNothing, Control, Policy, [Next]_vars
  PROVE  Policy'
<1>a. ASSUME request' = request, natives' = natives, selected' = selected, reason' = reason,
             attempt' = attempt, slots' = slots, PolicySoFar
      PROVE  PolicySoFar'
  BY <1>a DEF PolicySoFar, Chosen, EscalatedAttempts, Can, Failures
<1>b. ASSUME ~Choosing', pc' # "start"
      PROVE  Policy'
  BY <1>b DEF Policy
<1>c. ASSUME request' = request, natives' = natives, selected' = selected, reason' = reason,
             attempt' = attempt, slots' = slots,
             ~Single,
             \/ pc \in {"clear", "native"} /\ pc' \in {"native", "select"}
             \/ pc \in {"plan", "tools"} /\ pc' \in {"tools", "record"}
             \/ pc \in {"publish", "publish run"} /\ pc' \in {"publish run", "idle"}
      PROVE  Policy'
  <2>1. Choosing
    BY <1>c DEF Choosing, Observing
  <2>2. PolicySoFar'
    BY <1>a, <1>c, <2>1 DEF Policy
  <2> QED BY <1>c, <2>1, <2>2 DEF Policy
<1>d. ASSUME Single'
      PROVE  ~Choosing'
  BY <1>d DEF Choosing
<1>e. ASSUME pc \in Observing, rows' = rows \/ rows' = <<>>, request' = request, pc' = "idle"
      PROVE  ~Choosing'
  <2>1. Len(rows) = attempt - 1 /\ attempt \in 1..request.repeat /\ request.repeat \in 1..MaxAttempts
    BY <1>e DEF Control
  <2>2. Len(rows) < request.repeat /\ 0 < request.repeat /\ Len(<<>>) = 0
    BY <2>1, Bounds
  <2>3. Len(rows') # request'.repeat
    BY <1>e, <2>1, <2>2, Bounds
  <2> QED BY <1>e, <2>3 DEF Choosing, Observing
<1>f. /\ Single <=> request.repeat = 1
      /\ request' = request => (Single' <=> Single)
  BY DEF Single
<1>g. pc \in {"clear", "native", "select", "plan", "tools", "record"} => pc \in Observing
  BY DEF Observing
<1>1. ASSUME NEW repeat \in 0..MaxAttempts, NEW nativeOnly \in BOOLEAN, NEW deep \in BOOLEAN,
             NEW explicit \in Policies \cup {None}, Start(repeat, nativeOnly, deep, explicit)
      PROVE  Policy'
  <2>1. /\ natives' = <<>> /\ selected' = <<>> /\ reason' = None /\ slots' = {}
        /\ request = NoPolicy /\ NoPolicy.repeat = 1
    BY <1>1 DEF Start, Policy, Control, NoPolicy, loop
  <2>2. CASE ResolvePolicy(repeat, nativeOnly, explicit) = None
    <3>1. request' = request /\ pc' = "idle"
      BY <1>1, <2>2 DEF Start, End
    <3> QED BY <2>1, <3>1, <1>b, <1>d, <1>f
  <2>3. CASE ResolvePolicy(repeat, nativeOnly, explicit) # None
    <3>1. /\ request' = [repeat |-> repeat, policy |-> ResolvePolicy(repeat, nativeOnly, explicit),
                         deep |-> deep, nativeOnly |-> nativeOnly]
          /\ attempt' = 1 /\ pc' = IF repeat = 1 THEN "native" ELSE "clear"
      BY <1>1, <2>3 DEF Start
    <3>2. request'.policy \in Policies /\ request'.repeat = repeat
      BY <1>1, <2>3, <3>1, PolicyIs, Bounds
    <3>3. CASE repeat = 1
      <4>1. Single' /\ pc' = "native"
        BY <3>1, <3>3 DEF Single
      <4> QED BY <4>1, <1>b, <1>d
    <3>4. CASE repeat # 1
      <4>1. pc' = "clear"
        BY <3>1, <3>4
      <4>2. IsSeq(<<>>) /\ Len(<<>>) = 0 /\ DOMAIN <<>> = {}
        BY NoJobsNoResults
      <4>3. Can' = {} /\ Failures' = {} /\ Chosen' = {}
        BY <2>1, <4>2 DEF Can, Failures, Chosen
      <4>4. EscalatedBy(request'.policy, request'.deep, EscalatedAttempts', Can', Failures')
        BY <3>2, EscalatedIsThen
      <4>5. First({}) = {}
        BY DEF First
      <4>6. EscalatedAttempts' = {}
        BY <3>2, <4>3, <4>4, <4>5 DEF EscalatedBy, Policies
      <4>7. PolicySoFar'
        BY <2>1, <3>2, <4>2, <4>3, <4>6 DEF PolicySoFar
      <4>8. Len(natives') = attempt' - 1
        BY <2>1, <3>1, <4>2
      <4> QED BY <2>1, <4>1, <4>7, <4>8 DEF Policy
    <3> QED BY <3>3, <3>4
  <2> QED BY <2>2, <2>3
<1>2. CASE ClearAttempts
  BY <1>2, <1>c DEF ClearAttempts, loop, setting, Control
<1>3. ASSUME NEW pack, NEW target, pc = "native", Observed(pack, target)
      PROVE  Policy'
  <2>1. CASE Single
    <3>1. Single' /\ pc' # "start"
      BY <1>3, <2>1, <1>f DEF Observed, setting
    <3> QED BY <3>1, <1>b, <1>d
  <2>2. CASE ~Single
    BY <1>3, <2>2, <1>c DEF Observed, setting, loop
  <2> QED BY <2>1, <2>2
<1>4. ASSUME NEW error, NEW findings, NativeFails(error, findings)
      PROVE  Policy'
  BY <1>4, <1>3 DEF NativeFails
<1>5. ASSUME NEW findings, NEW end, NativeEnds(findings, end)
      PROVE  Policy'
  <2>1. PICK pack, target : pc = "native" /\ Observed(pack, target)
    BY <1>5 DEF NativeEnds
  <2> QED BY <2>1, <1>3
<1>6. CASE Select
  <2>1. PolicySoFar'
    BY <1>6, PolicyAfterSelect
  <2>2. pc' \in {"plan", "record"} /\ natives' = Append(natives, row) /\ attempt' = attempt /\ pc = "select"
    BY <1>6 DEF Select
  <2>3. Choosing
    BY <2>2 DEF Choosing, Observing, Control
  <2>4. IsSeq(natives) /\ Len(natives) = attempt - 1 /\ attempt \in Nat
    <3>1. attempt \in 1..request.repeat /\ request.repeat \in 1..MaxAttempts
      BY <1>g, <2>2 DEF Control
    <3> QED BY <2>2, <2>3, <3>1, Bounds DEF Policy, PolicySoFar
  <2>5. Len(natives') = attempt
    BY <2>2, <2>4, AppendSeq
  <2> QED BY <2>1, <2>2, <2>5 DEF Policy
<1>7. ASSUME pc \in {"plan", "tools"}, pc' \in {"tools", "record"}, UNCHANGED <<setting, loop>>
      PROVE  Policy'
  <2>1. CASE Single
    BY <1>7, <2>1, <1>b, <1>d, <1>f DEF setting
  <2>2. CASE ~Single
    BY <1>7, <2>2, <1>c DEF setting, loop
  <2> QED BY <2>1, <2>2
<1>8. CASE PlanNothing \/ PlanEscalation \/ ObserveTool
  <2>1. /\ pc \in {"plan", "tools"} /\ pc' \in {"tools", "record"} /\ UNCHANGED <<setting, loop>>
    BY <1>8 DEF PlanNothing, PlanEscalation, ObserveTool
  <2> QED BY <2>1, <1>7
<1>9. CASE PlanFallback \/ FinishEscalation
  <2>1. /\ pc \in {"plan", "tools"} /\ UNCHANGED <<setting, loop>>
        /\ pc' \in {"tools", "record"} \/ pc' = "idle"
    BY <1>9 DEF PlanFallback, FinishEscalation, End
  <2>2. CASE pc' = "idle"
    BY <2>1, <2>2, <1>b, <1>e, <1>g DEF setting, loop
  <2> QED BY <2>1, <2>2, <1>7
<1>10. CASE WriteSummary
  <2>1. Single' /\ pc' = "idle"
    BY <1>10, <1>f DEF WriteSummary, End, setting
  <2> QED BY <2>1, <1>b, <1>d
<1>11. CASE RecordAttempt
  <2>0. pc = "record" /\ ~Single /\ request' = request
    BY <1>11 DEF RecordAttempt, setting
  <2>1. CASE MissingGroups
    <3>1. pc' = "idle" /\ rows' = rows
      BY <1>11, <2>1 DEF RecordAttempt, End, loop
    <3> QED BY <2>0, <3>1, <1>b, <1>e, <1>g
  <2>2. CASE ~MissingGroups
    <3>1. /\ selected' = IF reason = None THEN selected
                         ELSE Append(selected, [attempt |-> attempt, reason |-> reason])
          /\ attempt' = attempt + 1 /\ reason' = None /\ slots' = slots /\ natives' = natives
          /\ pc' = IF attempt = request.repeat THEN "publish" ELSE "native"
      BY <1>11, <2>2 DEF RecordAttempt
    <3>2. PolicySoFar /\ Len(natives) = attempt
      BY <2>0 DEF Policy, Choosing, Observing
    <3>3. IsSeq(selected)
      BY <3>2 DEF PolicySoFar
    <3>4. Chosen' = Chosen /\ IsSeq(selected')
      <4>1. CASE reason = None
        BY <3>1, <3>3, <4>1 DEF Chosen
      <4>2. CASE reason # None
        <5> DEFINE new == [attempt |-> attempt, reason |-> reason]
        <5>1. selected' = Append(selected, new) /\ new.attempt = attempt
          BY <3>1, <4>2
        <5> HIDE DEF new
        <5>2. /\ IsSeq(selected') /\ Len(selected') = Len(selected) + 1 /\ Len(selected) \in Nat
              /\ DOMAIN selected = 1..Len(selected)
              /\ \A k \in DOMAIN selected : selected'[k] = selected[k]
              /\ selected'[Len(selected) + 1] = new
          BY <3>3, <5>1, AppendSeq, SeqFacts
        <5>3. DOMAIN selected' = 1..(Len(selected) + 1)
          BY <5>2, SeqFacts
        <5>4. DOMAIN selected' = DOMAIN selected \cup {Len(selected) + 1}
          BY <5>2, <5>3
        <5> QED BY <3>1, <4>2, <5>1, <5>2, <5>4 DEF Chosen
      <4> QED BY <4>1, <4>2
    <3>5. PolicySoFar'
      BY <2>0, <3>1, <3>2, <3>4 DEF PolicySoFar, EscalatedAttempts, Can, Failures
    <3>6. attempt \in Nat
      <4>1. attempt \in 1..request.repeat /\ request.repeat \in 1..MaxAttempts
        BY <2>0, <1>g DEF Control
      <4> QED BY <4>1, Bounds
    <3>7. Len(natives') = attempt' - 1
      BY <3>1, <3>2, <3>6
    <3> QED BY <3>1, <3>5, <3>7 DEF Policy
  <2> QED BY <2>1, <2>2
<1>12. CASE PublishRepeat \/ PublishRun
  <2>1. /\ pc \in {"publish", "publish run"} /\ pc' \in {"publish run", "idle"} /\ UNCHANGED <<setting, loop>>
    BY <1>12 DEF PublishRepeat, PublishRun, End
  <2>2. ~Single
    BY <2>1 DEF Control
  <2> QED BY <2>1, <2>2, <1>c DEF setting, loop
<1>13. CASE Killed
  <2>1. pc' = "idle" /\ rows' = <<>> /\ request' = request
    BY <1>13 DEF Killed, End, setting
  <2>2. Len(rows') = 0 /\ request.repeat \in 1..MaxAttempts
    BY <2>1 DEF Control
  <2>3. Len(rows') # request'.repeat
    BY <2>1, <2>2, Bounds
  <2>4. ~Choosing'
    BY <2>1, <2>3 DEF Choosing, Observing
  <2> QED BY <2>1, <2>4, <1>b
<1>14. ASSUME Single, request' = request, pc' # "start"
       PROVE  Policy'
  BY <1>14, <1>b, <1>d, <1>f
<1>15. ASSUME NEW tool, EscalateCommand(tool)
       PROVE  Policy'
  BY <1>15, <1>14 DEF EscalateCommand, Command, End, setting
<1>16. ASSUME NEW tool, NEW checkClean, ScanCommand(tool, checkClean)
       PROVE  Policy'
  BY <1>16, <1>14 DEF ScanCommand, Command, End, setting
<1>17. CASE CommandTool \/ SkipFinding \/ FinishCommand
  <2>1. pc = "command" /\ request' = request /\ pc' # "start"
    BY <1>17 DEF CommandTool, SkipFinding, FinishCommand, End, setting
  <2> QED BY <2>1, <1>14 DEF Control
<1>18. CASE ReplayCommand \/ RemoveTarget
  <2>1. Single /\ request' = request /\ pc' # "start"
    BY <1>18 DEF ReplayCommand, RemoveTarget, Command, End, setting
  <2> QED BY <2>1, <1>14
<1>19. CASE UNCHANGED vars
  <2>1. /\ pc' = pc /\ request' = request /\ natives' = natives /\ selected' = selected
        /\ reason' = reason /\ attempt' = attempt /\ slots' = slots /\ rows' = rows
    BY <1>19 DEF vars
  <2>2. Choosing' => Choosing
    BY <2>1 DEF Choosing, Single
  <2> QED BY <2>1, <2>2, <1>a DEF Policy
<1> QED BY <1>1, <1>2, <1>4, <1>5, <1>6, <1>8, <1>9, <1>10, <1>11, <1>12, <1>13, <1>15, <1>16,
         <1>17, <1>18, <1>19 DEF Next
----------------------------------------------------------------------------
(* The invariant.                                                          *)

IInv == Control /\ Typed /\ Packs /\ Rows /\ Covers /\ Policy

(* The invariant holds at the start.                                       *)
LEMMA InitInv ==
  ASSUME NoneIsNothing, Init
  PROVE  IInv
<1>1. Covers
  BY DEF Init, Covers
<1> QED BY <1>1, ControlInit, TypedInit, PacksInit, RowsInit, PolicyInit DEF IInv

(* Every step keeps the invariant.                                         *)
LEMMA NextInv ==
  ASSUME NoneIsNothing, IInv, [Next]_vars
  PROVE  IInv'
<1>1. Control /\ Typed /\ Packs /\ Rows /\ Covers /\ Policy
  BY DEF IInv
<1>2. Control'
  BY <1>1, ControlKept
<1>3. Typed'
  BY <1>1, <1>2, TypedKept
<1>4. Packs'
  BY <1>1, PacksKept
<1>5. Rows'
  BY <1>1, RowsKept
<1>6. Covers'
  BY <1>1, CoversKept
<1>7. Policy'
  BY <1>1, PolicyStays
<1> QED BY <1>2, <1>3, <1>4, <1>5, <1>6, <1>7 DEF IInv

(* What the steps on a crashpack need of it.                               *)
LEMMA InvParts ==
  ASSUME IInv
  PROVE  /\ Control /\ Packs /\ Rows /\ AreResults(results) /\ present \in BOOLEAN
         /\ 0 \in 0..MaxAttempts /\ IsPack(packs[0]) /\ DOMAIN packs = 0..MaxAttempts
         /\ \A i \in DOMAIN packs : IsPack(packs[i])
<1>1. Control /\ Typed /\ Packs /\ Rows
  BY DEF IInv
<1>2. 0 \in 0..MaxAttempts
  BY Bounds
<1>3. AreResults(results)
  BY <1>1 DEF Typed
<1>4. present \in BOOLEAN
  BY <1>1 DEF Control
<1> QED BY <1>1, <1>2, <1>3, <1>4 DEF Packs

(* The invariant holds in every state.                                     *)
THEOREM Inductive ==
  ASSUME NoneIsNothing
  PROVE  Spec => []IInv
<1>1. Init => IInv
  BY InitInv
<1>2. IInv /\ [Next]_vars => IInv'
  BY NextInv
<1> QED BY <1>1, <1>2, PTL DEF Spec

(* The values of the variables; a result has found something exactly when  *)
(* its status says so.                                                     *)
THEOREM TypeCorrect ==
  ASSUME NoneIsNothing
  PROVE  Spec => []TypeOK
<1>1. IInv => TypeOK
  BY DEF IInv, Typed
<1> QED BY <1>1, Inductive, PTL

----------------------------------------------------------------------------
(* What is published.                                                      *)

(* The rows of a state, each with its crashpack.                           *)
LEMMA RowsOfPublished ==
  ASSUME IInv
  PROVE  /\ RowsDone /\ IsSeq(rows) /\ Len(rows) \in Nat /\ DOMAIN rows = 1..Len(rows)
         /\ Len(rows) <= request.repeat
         /\ \A i \in DOMAIN rows : PackOf(i) \in {packs[k] : k \in 0..MaxAttempts} /\ IsPack(PackOf(i))
<1>1. /\ RowsDone /\ IsSeq(rows) /\ Len(rows) <= request.repeat
      /\ request.repeat \in 1..MaxAttempts /\ MaxAttempts \in Nat /\ Packs
  BY Bounds DEF IInv, Control, Rows
<1>2. Len(rows) \in Nat /\ DOMAIN rows = 1..Len(rows)
  BY <1>1, SeqFacts
<1>3. ASSUME NEW i \in DOMAIN rows
      PROVE  PackOf(i) \in {packs[k] : k \in 0..MaxAttempts} /\ IsPack(PackOf(i))
  <2>1. i \in 0..MaxAttempts /\ 0 \in 0..MaxAttempts
    BY <1>1, <1>2
  <2>2. PackOf(i) \in {packs[0], packs[i]}
    BY DEF PackOf
  <2> QED BY <1>1, <2>1, <2>2 DEF Packs
<1> QED BY <1>1, <1>2, <1>3

(* Clean says that the target ran: natively or under a tool.               *)
THEOREM CleanIsARun ==
  ASSUME NoneIsNothing
  PROVE  Spec => []CleanMeansRan
<1>1. IInv => CleanMeansRan
  BY RowsOfPublished DEF CleanMeansRan, RowsDone, RowFine, RowStands
<1> QED BY <1>1, Inductive, PTL

(* The counts and the status of a published row are those of its           *)
(* crashpack, which can be validated and replayed on its own.              *)
THEOREM SummariesAreTrue ==
  ASSUME NoneIsNothing
  PROVE  Spec => []SummaryTruthful
<1>1. ASSUME IInv, Published, NEW i \in Witnessed
      PROVE  LET p == PackOf(i)
             IN /\ Usable(p)
                /\ commands = 0 =>
                     /\ rows[i].count = Len(p.findings)
                     /\ rows[i].classes = ClassCounts(p.findings)
                     /\ rows[i].groups = Cardinality(DOMAIN p.groups)
                     /\ rows[i].status = "Findings" => p.findings # <<>>
                     /\ rows[i].status \notin {"Findings", "Timeout"} => p.findings = <<>>
  <2>1. i \in DOMAIN rows /\ rows[i].status # "Failed"
    BY DEF Witnessed
  <2>2. RowFine(rows[i], PackOf(i))
    BY <1>1, <2>1, RowsOfPublished DEF RowsDone
  <2>3. CanBeUsed(PackOf(i))
    BY <2>1, <2>2 DEF RowFine, RowStands
  <2>4. Usable(PackOf(i))
    BY <2>3 DEF Usable, Valid, SelectReplayBinary, CanBeUsed, Known
  <2>5. commands = 0 => Counted(rows[i], PackOf(i)) /\ StatusIs(rows[i], PackOf(i))
    BY <2>1, <2>2 DEF RowFine, RowFresh
  <2> QED BY <2>4, <2>5 DEF Counted, StatusIs
<1>2. IInv => SummaryTruthful
  BY <1>1 DEF SummaryTruthful
<1> QED BY <1>2, Inductive, PTL

(* The tool results and the findings in the directory are of this observe. *)
THEOREM NothingOldIsPublished ==
  ASSUME NoneIsNothing
  PROVE  Spec => []ResultsOfThisRun
<1>1. ASSUME IInv, Published, commands = 0, NEW i \in Witnessed
      PROVE  LET p == PackOf(i)
             IN /\ rows[i].escalation = IF p.results = None THEN <<>> ELSE ToolRows(p.results)
                /\ \A f \in ToSet(p.findings), old \in ToSet(OldFindings) : f.id # old.id
  <2>1. i \in DOMAIN rows /\ rows[i].status # "Failed"
    BY DEF Witnessed
  <2>2. RowFresh(rows[i], PackOf(i))
    BY <1>1, <2>1, RowsOfPublished DEF RowsDone, RowFine
  <2> QED BY <2>1, <2>2 DEF RowFresh, OfThisRun
<1>2. IInv => ResultsOfThisRun
  BY <1>1 DEF ResultsOfThisRun
<1> QED BY <1>2, Inductive, PTL

(* No detection of a tool is lost.                                         *)
THEOREM DetectionsAreFound ==
  ASSUME NoneIsNothing
  PROVE  Spec => []NothingLost
<1>1. IInv => NothingLost
  BY RowsOfPublished DEF NothingLost, IsPack, AllRepresented, Known
<1> QED BY <1>1, Inductive, PTL

(* The attempts that are escalated are those of the policy.                *)
THEOREM PolicyFollowed ==
  ASSUME NoneIsNothing
  PROVE  Spec => []PolicyKept
<1>1. ASSUME IInv, Published, ~Single
      PROVE  {s.attempt : s \in ToSet(selected)} = EscalatedAttempts
  <2>1. pc = "idle"
    BY <1>1 DEF Published, IInv, Control
  <2>2. Choosing
    BY <1>1, <2>1 DEF Choosing, Published
  <2>3. Chosen = EscalatedAttempts /\ reason = None
    BY <1>1, <2>1, <2>2 DEF IInv, Policy, PolicySoFar
  <2>4. {s.attempt : s \in ToSet(selected)} = {selected[k].attempt : k \in DOMAIN selected}
    BY DEF ToSet
  <2> QED BY <2>3, <2>4 DEF Chosen
<1>2. IInv => PolicyKept
  BY <1>1 DEF PolicyKept
<1> QED BY <1>2, Inductive, PTL

(* One defect is one issue group, in whatever attempt the agent saw it.    *)
THEOREM OneGroupPerDefect ==
  ASSUME NoneIsNothing
  PROVE  Spec => []DefectOneGroup
<1>1. ASSUME IInv, NEW f \in AllFindings, f.fingerprint # None
      PROVE  f.fingerprint = Fingerprint(f)
  <2>1. PICK i \in DOMAIN packs : packs[i].findings # None /\ f \in ToSet(packs[i].findings)
    BY DEF AllFindings
  <2>2. IsPack(packs[i])
    BY <1>1, <2>1 DEF IInv, Packs
  <2>3. IsFinding(f)
    BY <2>1, <2>2 DEF IsPack, AreFindings, Known
  <2> QED BY <1>1, <2>3 DEF IsFinding, Known
<1>2. ASSUME NEW f, NEW g, HasNativeIdentity(f), HasNativeIdentity(g),
             f.class = g.class, f.operation = g.operation, f.binary = g.binary,
             f.access = g.access, f.alloc = g.alloc, f.offset = g.offset
      PROVE  Fingerprint(f) = Fingerprint(g)
  <2>1. ToolName(f) = None /\ ToolName(g) = None
    BY <1>2 DEF HasNativeIdentity, Known
  <2>2. BinaryIdentity(f) = BinaryIdentity(g)
    BY <1>2 DEF BinaryIdentity
  <2>3. (HasNativeIdentity(f) <=> TRUE) /\ (HasNativeIdentity(g) <=> TRUE)
    BY <1>2
  <2>4. HasNativeIdentity(f) = HasNativeIdentity(g)
    BY <2>3 DEF HasNativeIdentity
  <2> QED BY <1>2, <2>1, <2>2, <2>4 DEF Fingerprint, Known
<1>3. ASSUME IInv, NEW f \in {h \in AllFindings : h.fingerprint # None /\ HasNativeIdentity(h)},
             NEW g \in {h \in AllFindings : h.fingerprint # None /\ HasNativeIdentity(h)},
             f.class = g.class, f.operation = g.operation, f.binary = g.binary,
             <<f.access, f.alloc, f.offset>> = <<g.access, g.alloc, g.offset>>
      PROVE  f.fingerprint = g.fingerprint
  <2>1. f.access = g.access /\ f.alloc = g.alloc /\ f.offset = g.offset
    BY <1>3
  <2>2. Fingerprint(f) = Fingerprint(g)
    BY <1>2, <1>3, <2>1
  <2> QED BY <1>1, <1>3, <2>2
<1>4. IInv => DefectOneGroup
  BY <1>3 DEF DefectOneGroup
<1> QED BY <1>4, Inductive, PTL
----------------------------------------------------------------------------
(* What a step may never do.                                               *)

(* An escalate command that ends well has a result for every finding that  *)
(* has a plan.                                                             *)
THEOREM EscalateIsComplete ==
  ASSUME NoneIsNothing
  PROVE  Spec => EscalateComplete
<1>1. ASSUME IInv, [Next]_vars, pc = "command", pc' = "idle", outcome' = "ok"
      PROVE  \/ \E r \in ToSet(results) : r.finding = CleanRun
             \/ {f.id : f \in {f \in ToSet(packs[0].findings) : Known(f.plan)}}
                  \subseteq {r.finding : r \in ToSet(results)}
  <2>1. jobs = <<>>
    <3>1. CASE FinishCommand
      BY <3>1 DEF FinishCommand
    <3>2. CASE Killed
      BY <1>1, <3>2 DEF Killed, End
    <3>3. CASE CommandTool
      BY <1>1, <3>3 DEF CommandTool, End
    <3>4. CASE SkipFinding
      BY <1>1, <3>4 DEF SkipFinding
    <3>5. CASE UNCHANGED vars
      BY <1>1, <3>5 DEF vars
    <3>6. ASSUME NEW repeat, NEW nativeOnly, NEW deep, NEW explicit,
                 Start(repeat, nativeOnly, deep, explicit)
          PROVE  FALSE
      BY <1>1, <3>6 DEF Start
    <3>7. ASSUME NEW error, NEW findings, NativeFails(error, findings)
          PROVE  FALSE
      BY <1>1, <3>7 DEF NativeFails
    <3>8. ASSUME NEW findings, NEW end, NativeEnds(findings, end)
          PROVE  FALSE
      BY <1>1, <3>8 DEF NativeEnds
    <3>9. CASE ClearAttempts \/ Select \/ PlanNothing \/ PlanFallback \/ PlanEscalation
               \/ ObserveTool \/ FinishEscalation \/ WriteSummary \/ RecordAttempt
               \/ PublishRepeat \/ PublishRun \/ ReplayCommand \/ RemoveTarget
      BY <1>1, <3>9 DEF ClearAttempts, Select, PlanNothing, PlanFallback, PlanEscalation,
           ObserveTool, FinishEscalation, WriteSummary, RecordAttempt, PublishRepeat, PublishRun,
           ReplayCommand, RemoveTarget, Command
    <3>10. ASSUME NEW tool, NEW checkClean, EscalateCommand(tool) \/ ScanCommand(tool, checkClean)
           PROVE  FALSE
      BY <1>1, <3>10 DEF EscalateCommand, ScanCommand, Command
    <3> QED BY <1>1, <3>1, <3>2, <3>3, <3>4, <3>5, <3>6, <3>7, <3>8, <3>9, <3>10 DEF Next
  <2>2. ToSet(jobs) = {}
    BY <2>1, NoJobsNoResults
  <2>3. Covers
    BY <1>1 DEF IInv
  <2> QED BY <1>1, <2>2, <2>3 DEF Covers, Covered
<1>2. IInv /\ [Next]_vars => CommandIsComplete
  BY <1>1 DEF CommandIsComplete
<1> QED BY <1>2, Inductive, PTL DEF Spec, EscalateComplete

(* A step that writes one crashpack.                                       *)
LEMMA OnlyThatPack ==
  ASSUME NEW k, NEW p, packs' = [packs EXCEPT ![k] = p],
         k \in DOMAIN packs /\ Intact(packs[k]) /\ ~Intact(p) =>
           \/ pc' = "idle" /\ outcome' = "error"
           \/ pc = "native" /\ row'.status = "Failed"
  PROVE  DamageIsReported
<1>1. \A i \in DOMAIN packs : packs'[i] = IF i = k THEN p ELSE packs[i]
  OBVIOUS
<1> QED BY <1>1 DEF DamageIsReported

(* A step that leaves the files of a crashpack apart says so, by its       *)
(* outcome or by the row of the target (also when one of several writes    *)
(* fails).                                                                 *)
THEOREM DamageReported ==
  ASSUME NoneIsNothing
  PROVE  Spec => IntactUnlessReported
<1>a. ASSUME packs' = packs
      PROVE  DamageIsReported
  BY <1>a DEF DamageIsReported
<1>b. ASSUME IInv
      PROVE  /\ Control /\ Packs /\ Rows /\ AreResults(results) /\ present \in BOOLEAN
             /\ 0 \in 0..MaxAttempts /\ IsPack(packs[0])
  BY <1>b, InvParts
<1>1. ASSUME IInv, NEW error \in Errors, NEW findings \in AgentFindings, NativeFails(error, findings)
      PROVE  DamageIsReported
  <2>1. PICK p : Observed(p, TargetFromError(error)) /\ pc = "native"
    BY <1>1 DEF NativeFails
  <2>2. row'.status = "Failed" /\ packs' = [packs EXCEPT ![Dir] = p]
    BY <2>1 DEF Observed, TargetFromError
  <2> QED BY <2>1, <2>2, OnlyThatPack
<1>2. ASSUME IInv, NEW findings \in AgentFindings, NEW end \in {"exit", "signal", "timeout"},
             NativeEnds(findings, end)
      PROVE  DamageIsReported
  <2>1. IsPack(Pack)
    BY <1>b, <1>2, PackIsPack DEF NativeEnds, Observing
  <2>2. PICK f \in Finalizations([Written(Pack, findings) EXCEPT !.console = TRUE],
                     IF end = "signal" THEN <<CrashFinding(<<"crash">>)>> ELSE <<>>, TRUE) :
             Observed(f.pack, IF f.ok THEN TargetFromNative(end = "timeout", f.pack)
                              ELSE TargetFromError("Failed to write"))
    BY <1>2 DEF NativeEnds
  <2>3. FreshPack(f)
    BY <2>1, <2>2, EndedPack
  <2>4. f.ok => Intact(f.pack)
    BY <2>3 DEF FreshPack
  <2>5. ~f.ok => row'.status = "Failed"
    BY <2>2 DEF Observed, TargetFromError
  <2>6. pc = "native" /\ packs' = [packs EXCEPT ![Dir] = f.pack]
    BY <1>2, <2>2 DEF NativeEnds, Observed
  <2> QED BY <2>4, <2>5, <2>6, OnlyThatPack
<1>3. ASSUME IInv, PlanFallback
      PROVE  DamageIsReported
  <2>1. HasFiles(Pack)
    BY <1>b, <1>3, PackIsPack DEF PlanFallback, Observing, IsPack
  <2>2. PICK f \in ToolOnlyPacks(Pack, present) :
             packs' = [packs EXCEPT ![Dir] = f.pack] /\ (~f.ok => End("error"))
    BY <1>3 DEF PlanFallback
  <2>3. f.ok => Intact(f.pack)
    BY <1>b, <1>3, <2>1, <2>2, FallbackPack
  <2> QED BY <2>2, <2>3, OnlyThatPack DEF End
<1>4. ASSUME IInv, NEW k \in 0..MaxAttempts, AreFindings(packs[k].findings), packs[k].analysis,
             NEW f \in Promotions([packs[k] EXCEPT !.results = results], results, present),
             packs' = [packs EXCEPT ![k] = f.pack], ~f.ok => End("error")
      PROVE  DamageIsReported
  <2>1. HasFiles(packs[k])
    BY <1>b, <1>4 DEF Packs, IsPack
  <2> DEFINE wide == [packs[k] EXCEPT !.results = results]
  <2>2. /\ f.ok /\ PromotionChanges(packs[k].findings, results) => Intact(f.pack)
        /\ f.ok /\ ~PromotionChanges(packs[k].findings, results) => f.pack = wide
    BY <1>b, <1>4, <2>1, PromotedPack
  <2>3. Intact(packs[k]) => Intact(wide)
    BY <2>1 DEF Intact, HasFiles, EmptyPack
  <2> HIDE DEF wide
  <2>4. Intact(packs[k]) /\ f.ok => Intact(f.pack)
    BY <2>2, <2>3
  <2> QED BY <1>4, <2>4, OnlyThatPack DEF End
<1>5. ASSUME IInv, FinishEscalation
      PROVE  DamageIsReported
  <2>1. PICK f \in Promotions([Pack EXCEPT !.results = results], results, present) :
             packs' = [packs EXCEPT ![Dir] = f.pack] /\ (~f.ok => End("error"))
    BY <1>5 DEF FinishEscalation
  <2>2. Pack.analysis /\ Known(Pack.findings) /\ IsPack(Pack)
    BY <1>b, <1>5, PackIsPack DEF FinishEscalation, Observing, Rows, UnderTools, Ready, CanBeUsed
  <2>3. Dir \in 0..MaxAttempts
    <3>1. attempt \in 1..request.repeat /\ request.repeat \in 1..MaxAttempts
      BY <1>b, <1>5 DEF FinishEscalation, Observing, Control
    <3> QED BY <3>1, Bounds DEF Dir
  <2> QED BY <1>4, <1>5, <2>1, <2>2, <2>3 DEF Pack, IsPack
<1>6. ASSUME IInv, FinishCommand
      PROVE  DamageIsReported
  <2>1. PICK f \in Promotions([packs[0] EXCEPT !.results = results], results, present) :
             packs' = [packs EXCEPT ![0] = f.pack] /\ (~f.ok => End("error"))
    BY <1>6 DEF FinishCommand
  <2>2. packs[0].analysis /\ Known(packs[0].findings)
    BY <1>b, <1>6 DEF FinishCommand, Rows
  <2> QED BY <1>b, <1>4, <1>6, <2>1, <2>2 DEF IsPack
<1>7. ASSUME IInv, ReplayCommand
      PROVE  DamageIsReported
  <2>1. PICK replay : packs' = [packs EXCEPT ![0].replay = replay]
    BY <1>7 DEF ReplayCommand
  <2> DEFINE p == [packs[0] EXCEPT !.replay = replay]
  <2>2. packs' = [packs EXCEPT ![0] = p]
    BY <1>b, <1>7, <2>1 DEF Packs
  <2>3. Intact(packs[0]) => Intact(p)
    BY <1>b, <1>7 DEF Intact, IsPack, HasFiles, EmptyPack
  <2> HIDE DEF p
  <2> QED BY <2>2, <2>3, OnlyThatPack
<1>8. ASSUME ClearAttempts
      PROVE  DamageIsReported
  BY <1>8 DEF ClearAttempts, DamageIsReported
<1>9. ASSUME NEW repeat, NEW nativeOnly, NEW deep, NEW explicit, Start(repeat, nativeOnly, deep, explicit)
      PROVE  DamageIsReported
  BY <1>9, <1>a DEF Start, files
<1>10. ASSUME \/ Select \/ PlanNothing \/ PlanEscalation \/ ObserveTool \/ WriteSummary
              \/ RecordAttempt \/ PublishRepeat \/ PublishRun \/ Killed \/ CommandTool
              \/ SkipFinding \/ RemoveTarget \/ UNCHANGED vars
       PROVE  DamageIsReported
  <2>1. packs' = packs
    BY <1>10 DEF Select, PlanNothing, PlanEscalation, ObserveTool, WriteSummary, RecordAttempt,
         PublishRepeat, PublishRun, Killed, CommandTool, SkipFinding, RemoveTarget, vars, files
  <2> QED BY <2>1, <1>a
<1>11. ASSUME NEW tool, NEW checkClean, EscalateCommand(tool) \/ ScanCommand(tool, checkClean)
       PROVE  DamageIsReported
  BY <1>11, <1>a DEF EscalateCommand, ScanCommand, files
<1>12. IInv /\ [Next]_vars => DamageIsReported
  BY <1>1, <1>2, <1>3, <1>5, <1>6, <1>7, <1>8, <1>9, <1>10, <1>11 DEF Next
<1> QED BY <1>12, Inductive, PTL DEF Spec, IntactUnlessReported

(* Findings that do not change are kept.                                   *)
LEMMA SameAreKept ==
  ASSUME NEW fs, Known(fs) => IsSeq(fs)
  PROVE  Kept(fs, fs)
BY SeqFacts DEF Kept, SameFinding, Known

(* Better findings keep the old ones.                                      *)
LEMMA ImprovedAreKept ==
  ASSUME NoneIsNothing, NEW old, NEW new, AreFindings(new), Improves(old, new)
  PROVE  Kept(old, new)
BY SeqIsSomething DEF Kept, Improves, AreFindings

(* No finding goes, moves or comes into another issue group because of     *)
(* what a tool found.                                                      *)
THEOREM FindingsAreKept ==
  ASSUME NoneIsNothing
  PROVE  Spec => FindingsKept
<1>b. ASSUME IInv
      PROVE  /\ Control /\ Packs /\ Rows /\ AreResults(results) /\ present \in BOOLEAN
             /\ 0 \in 0..MaxAttempts /\ IsPack(packs[0]) /\ DOMAIN packs = 0..MaxAttempts
             /\ \A i \in DOMAIN packs : Kept(packs[i].findings, packs[i].findings)
  <2>1. /\ Control /\ Packs /\ Rows /\ AreResults(results) /\ present \in BOOLEAN
        /\ 0 \in 0..MaxAttempts /\ DOMAIN packs = 0..MaxAttempts
        /\ \A i \in DOMAIN packs : IsPack(packs[i])
    BY <1>b, InvParts
  <2>2. \A i \in DOMAIN packs : Kept(packs[i].findings, packs[i].findings)
    BY <2>1, SameAreKept DEF IsPack, AreFindings
  <2> QED BY <2>1, <2>2
<1>a. ASSUME IInv, packs' = packs
      PROVE  ToolsKeepFindings
  BY <1>a, <1>b DEF ToolsKeepFindings
<1>c. ASSUME IInv, NEW k \in 0..MaxAttempts, NEW p, packs' = [packs EXCEPT ![k] = p],
             Kept(packs[k].findings, p.findings)
      PROVE  ToolsKeepFindings
  <2>1. \A i \in DOMAIN packs : packs'[i] = IF i = k THEN p ELSE packs[i]
    BY <1>c
  <2> QED BY <1>b, <1>c, <2>1 DEF ToolsKeepFindings
<1>d. ASSUME pc \notin {"tools", "command", "idle"}
      PROVE  ToolsKeepFindings
  BY <1>d DEF ToolsKeepFindings
<1>4. ASSUME IInv, NEW k \in 0..MaxAttempts, AreFindings(packs[k].findings), packs[k].analysis,
             NEW f \in Promotions([packs[k] EXCEPT !.results = results], results, present),
             packs' = [packs EXCEPT ![k] = f.pack]
      PROVE  ToolsKeepFindings
  <2>1. HasFiles(packs[k])
    BY <1>b, <1>4 DEF Packs, IsPack
  <2>2. AreFindings(f.pack.findings) /\ Improves(packs[k].findings, f.pack.findings)
    BY <1>b, <1>4, <2>1, PromotedPack
  <2> QED BY <1>4, <1>c, <2>2, ImprovedAreKept
<1>5. ASSUME IInv, FinishEscalation
      PROVE  ToolsKeepFindings
  <2>1. PICK f \in Promotions([Pack EXCEPT !.results = results], results, present) :
             packs' = [packs EXCEPT ![Dir] = f.pack]
    BY <1>5 DEF FinishEscalation
  <2>2. Pack.analysis /\ Known(Pack.findings) /\ IsPack(Pack)
    BY <1>b, <1>5, PackIsPack DEF FinishEscalation, Observing, Rows, UnderTools, Ready, CanBeUsed
  <2>3. Dir \in 0..MaxAttempts
    <3>1. attempt \in 1..request.repeat /\ request.repeat \in 1..MaxAttempts
      BY <1>b, <1>5 DEF FinishEscalation, Observing, Control
    <3> QED BY <3>1, Bounds DEF Dir
  <2> QED BY <1>4, <1>5, <2>1, <2>2, <2>3 DEF Pack, IsPack
<1>6. ASSUME IInv, FinishCommand
      PROVE  ToolsKeepFindings
  <2>1. PICK f \in Promotions([packs[0] EXCEPT !.results = results], results, present) :
             packs' = [packs EXCEPT ![0] = f.pack]
    BY <1>6 DEF FinishCommand
  <2>2. packs[0].analysis /\ Known(packs[0].findings)
    BY <1>b, <1>6 DEF FinishCommand, Rows
  <2> QED BY <1>b, <1>4, <1>6, <2>1, <2>2 DEF IsPack
<1>7. ASSUME IInv, ReplayCommand
      PROVE  ToolsKeepFindings
  <2>1. PICK replay : packs' = [packs EXCEPT ![0].replay = replay]
    BY <1>7 DEF ReplayCommand
  <2> DEFINE p == [packs[0] EXCEPT !.replay = replay]
  <2>2. packs' = [packs EXCEPT ![0] = p] /\ p.findings = packs[0].findings
    BY <1>b, <1>7, <2>1 DEF Packs, IsPack, HasFiles, EmptyPack
  <2> HIDE DEF p
  <2>3. Kept(packs[0].findings, p.findings)
    BY <1>b, <1>7, <2>2
  <2> QED BY <1>b, <1>7, <2>2, <2>3, <1>c
<1>8. ASSUME ClearAttempts \/ PlanFallback
      PROVE  ToolsKeepFindings
  BY <1>8, <1>d DEF ClearAttempts, PlanFallback
<1>9. ASSUME IInv, NEW repeat, NEW nativeOnly, NEW deep, NEW explicit,
             Start(repeat, nativeOnly, deep, explicit)
      PROVE  ToolsKeepFindings
  BY <1>9, <1>a DEF Start, files
<1>10. ASSUME IInv, Select \/ PlanNothing \/ PlanEscalation \/ ObserveTool \/ WriteSummary
           \/ RecordAttempt \/ PublishRepeat \/ PublishRun \/ Killed \/ CommandTool \/ SkipFinding
           \/ RemoveTarget \/ UNCHANGED vars
       PROVE  ToolsKeepFindings
  <2>1. packs' = packs
    BY <1>10 DEF Select, PlanNothing, PlanEscalation, ObserveTool, WriteSummary, RecordAttempt,
         PublishRepeat, PublishRun, Killed, CommandTool, SkipFinding, RemoveTarget, vars, files
  <2> QED BY <1>10, <2>1, <1>a
<1>11. ASSUME IInv, NEW tool, NEW checkClean, EscalateCommand(tool) \/ ScanCommand(tool, checkClean)
       PROVE  ToolsKeepFindings
  BY <1>11, <1>a DEF EscalateCommand, ScanCommand, files
<1>12. ASSUME NEW error, NEW findings, NativeFails(error, findings)
       PROVE  ToolsKeepFindings
  BY <1>12, <1>d DEF NativeFails
<1>13. ASSUME NEW findings, NEW end, NativeEnds(findings, end)
       PROVE  ToolsKeepFindings
  BY <1>13, <1>d DEF NativeEnds
<1>14. IInv /\ [Next]_vars => ToolsKeepFindings
  BY <1>5, <1>6, <1>7, <1>8, <1>9, <1>10, <1>11, <1>12, <1>13 DEF Next
<1> QED BY <1>14, Inductive, PTL DEF Spec, FindingsKept

----------------------------------------------------------------------------
(* Ids.                                                                    *)

Reserved == {CleanRun, ToolOnly}

(* No two findings have an id in common, or what a tool detected; and none *)
(* is confused with a run of a tool for no finding.                        *)
Apart(fs) ==
  /\ \A j, k \in DOMAIN fs : fs[j].id = fs[k].id => j = k
  /\ ToolFindingsOnce(fs)
  /\ \A k \in DOMAIN fs : fs[k].id \notin Reserved

(* The findings that tools made are named for the tool's run, and in it    *)
(* for the place of the detection.                                         *)
Named4(fs) == {k \in DOMAIN fs : Len(fs[k].id) = 4}
RunsOf(fs) == {fs[k].id[3] : k \in Named4(fs)}

(* Those of a run are named for the first detections.                      *)
NamedUpTo(fs, run, last) == \A k \in Named4(fs) : fs[k].id[3] = run => fs[k].id[4] \in 1..last

(* A better version of the same findings: the same ids.                    *)
LEMMA SameApart ==
  ASSUME NEW a, NEW b, IsSeq(a), IsSeq(b), Improves(a, b), Len(a) = Len(b), Apart(a)
  PROVE  Apart(b) /\ RunsOf(b) = RunsOf(a)
<1>1. DOMAIN a = DOMAIN b
  BY SeqFacts
<1>2. \A k \in DOMAIN a : /\ b[k].id = a[k].id /\ b[k].tool = a[k].tool
                          /\ b[k].class = a[k].class /\ b[k].message = a[k].message
  BY DEF Improves, SameFinding
<1>3. \A k \in DOMAIN a : KeyOf(b[k]) = KeyOf(a[k])
  BY <1>2 DEF KeyOf
<1>4. ToolFindingsOnce(b)
  BY <1>1, <1>2, <1>3 DEF Apart, ToolFindingsOnce
<1>5. RunsOf(b) = RunsOf(a)
  BY <1>1, <1>2 DEF RunsOf, Named4
<1> QED BY <1>1, <1>2, <1>4, <1>5 DEF Apart

(* One detection: its finding is told from the others by its place in the  *)
(* run and by what was detected.                                           *)
LEMMA AddDetectionApart ==
  ASSUME NEW fs, IsSeq(fs), Apart(fs), NEW result, NEW index \in Nat \ {0},
         NamedUpTo(fs, result.id, index - 1)
  PROVE  LET new == AddDetection(fs, result, index)
         IN /\ IsSeq(new) /\ Apart(new) /\ NamedUpTo(new, result.id, index)
            /\ RunsOf(new) \subseteq RunsOf(fs) \cup {result.id}
<1> DEFINE d == result.report[index]
           f == ToolBackedFinding(result, d, index)
           new == AddDetection(fs, result, index)
<1>0. NamedUpTo(fs, result.id, index)
  BY DEF NamedUpTo
<1>1. CASE new = fs
  BY <1>0, <1>1
<1>2. CASE new = Append(fs, f) /\ Key(result.tool, d) \notin ExistingKeys(fs)
  <2>1. /\ f.id = <<result.tool, d.class, result.id, index>>
        /\ KeyOf(f) = Key(result.tool, d)
    BY DEF ToolBackedFinding, ToolFindingId, KeyOf, Key
  <2>2. Len(f.id) = 4 /\ f.id[3] = result.id /\ f.id[4] = index /\ f.id \notin Reserved
    BY <2>1 DEF Reserved, CleanRun, ToolOnly
  <2>3. \A g \in ToSet(fs) : Known(g.tool) => KeyOf(g) # KeyOf(f)
    BY <1>2, <2>1 DEF ExistingKeys
  <2> HIDE DEF f, d, new
  <2>4. /\ IsSeq(new) /\ Len(new) = Len(fs) + 1 /\ \A k \in DOMAIN fs : new[k] = fs[k]
        /\ new[Len(fs) + 1] = f
    BY <1>2, AppendSeq
  <2>5. Len(fs) \in Nat /\ DOMAIN fs = 1..Len(fs) /\ DOMAIN new = 1..(Len(fs) + 1)
    BY <2>4, SeqFacts
  <2>6. \A k \in DOMAIN new :
          \/ k \in DOMAIN fs /\ new[k] = fs[k]
          \/ k = Len(fs) + 1 /\ new[k] = f /\ k \notin DOMAIN fs
    <3> TAKE k \in DOMAIN new
    <3>1. k \in 1..(Len(fs) + 1)
      BY <2>5
    <3>2. CASE k = Len(fs) + 1
      BY <2>4, <2>5, <3>2
    <3>3. CASE k # Len(fs) + 1
      <4>1. k \in DOMAIN fs
        BY <2>5, <3>1, <3>3
      <4> QED BY <2>4, <4>1
    <3> QED BY <3>2, <3>3
  <2>7. \A k \in DOMAIN fs : fs[k].id # f.id
    <3> SUFFICES ASSUME NEW k \in DOMAIN fs, fs[k].id = f.id PROVE FALSE
      OBVIOUS
    <3>1. k \in Named4(fs) /\ fs[k].id[3] = result.id /\ fs[k].id[4] = index
      BY <2>2 DEF Named4
    <3> QED BY <3>1 DEF NamedUpTo
  <2>8. \A k \in DOMAIN fs : Known(fs[k].tool) => KeyOf(fs[k]) # KeyOf(f)
    BY <2>3 DEF ToSet
  <2>9. ToolFindingsOnce(new)
    BY <2>6, <2>8 DEF Apart, ToolFindingsOnce
  <2>10. Apart(new)
    BY <2>2, <2>6, <2>7, <2>9 DEF Apart
  <2>11. NamedUpTo(new, result.id, index)
    <3> SUFFICES ASSUME NEW k \in Named4(new), new[k].id[3] = result.id
                 PROVE  new[k].id[4] \in 1..index
      BY DEF NamedUpTo
    <3>1. k \in DOMAIN new
      BY DEF Named4
    <3>2. CASE new[k] = f
      BY <2>2, <3>2
    <3>3. CASE k \in DOMAIN fs /\ new[k] = fs[k]
      BY <1>0, <3>3 DEF NamedUpTo, Named4
    <3> QED BY <2>6, <3>1, <3>2, <3>3
  <2>12. RunsOf(new) \subseteq RunsOf(fs) \cup {result.id}
    BY <2>2, <2>6 DEF RunsOf, Named4
  <2> QED BY <2>4, <2>10, <2>11, <2>12 DEF new
<1> QED BY <1>1, <1>2 DEF AddDetection

(* All detections of a run that no finding is named for.                   *)
LEMMA AddResultApart ==
  ASSUME NEW fs, IsSeq(fs), Apart(fs), NEW result, Detected(result),
         Found(result) => result.id \notin RunsOf(fs)
  PROVE  LET new == AddResult(fs, result)
         IN /\ IsSeq(new) /\ Apart(new)
            /\ RunsOf(new) \subseteq RunsOf(fs) \cup (IF Found(result) THEN {result.id} ELSE {})
<1>1. CASE ~Found(result)
  BY <1>1 DEF AddResult
<1>2. CASE Found(result)
  <2> DEFINE n == Len(result.report)
             a == AfterDetections(fs, result)
             P == {k \in 0..n : /\ IsSeq(a[k]) /\ Apart(a[k]) /\ NamedUpTo(a[k], result.id, k)
                                /\ RunsOf(a[k]) \subseteq RunsOf(fs) \cup {result.id}}
  <2>1. IsSeq(result.report)
    BY <1>2 DEF Detected
  <2>2. n \in Nat
    BY <2>1, SeqFacts
  <2>3. /\ a[0] = fs
        /\ \A k \in 1..n : a[k] = AddDetection(a[k - 1], result, k)
    BY <2>1, AfterDetectionsIs
  <2>4. 0 \in P
    <3>1. NamedUpTo(fs, result.id, 0)
      BY <1>2 DEF NamedUpTo, RunsOf
    <3> HIDE DEF a, n
    <3> QED BY <2>2, <2>3, <3>1
  <2>5. ASSUME NEW k \in 1..n, k - 1 \in P
        PROVE  k \in P
    <3> HIDE DEF a, n
    <3>1. /\ IsSeq(a[k - 1]) /\ Apart(a[k - 1]) /\ NamedUpTo(a[k - 1], result.id, k - 1)
          /\ RunsOf(a[k - 1]) \subseteq RunsOf(fs) \cup {result.id}
      BY <2>5
    <3>2. k \in Nat \ {0} /\ k \in 0..n
      BY <2>2
    <3>3. LET new == AddDetection(a[k - 1], result, k)
          IN /\ IsSeq(new) /\ Apart(new) /\ NamedUpTo(new, result.id, k)
             /\ RunsOf(new) \subseteq RunsOf(a[k - 1]) \cup {result.id}
      BY <3>1, <3>2, AddDetectionApart
    <3>4. a[k] = AddDetection(a[k - 1], result, k)
      BY <2>3
    <3> QED BY <3>1, <3>2, <3>3, <3>4
  <2>6. n \in P
    <3> HIDE DEF P, n
    <3>1. \A k \in 0..n : k \in P
      BY <2>2, <2>4, <2>5, AllRounds
    <3> QED BY <2>2, <3>1
  <2>7. AddResult(fs, result) = a[n]
    BY <1>2 DEF AddResult
  <2> QED BY <1>2, <2>6, <2>7
<1> QED BY <1>1, <1>2

(* The results that found something are of different runs, before next,    *)
(* and no finding is named for one of these yet.                           *)
NewRuns(rs, fs, next) ==
  \A k \in DOMAIN rs : Found(rs[k]) =>
    /\ rs[k].id \in 0..(next - 1) /\ rs[k].id \notin RunsOf(fs)
    /\ \A j \in DOMAIN rs : Found(rs[j]) /\ rs[j].id = rs[k].id => j = k

(* What tools found is added apart.                                        *)
LEMMA WithToolsApart ==
  ASSUME NEW fs, AreFindings(fs), Apart(fs), NEW rs, IsSeq(rs),
         \A r \in ToSet(rs) : Detected(r),
         NEW next, NewRuns(rs, fs, next), RunsOf(fs) \subseteq 0..(next - 1)
  PROVE  LET new == WithToolFindings(fs, rs)
         IN Apart(new) /\ RunsOf(new) \subseteq 0..(next - 1)
<1> DEFINE rich == EnrichGdb(fs, rs)
           n == Len(rs)
           a == AfterResults(rich, rs)
           Before(k) == {rs[j].id : j \in {i \in 1..k : Found(rs[i])}}
           P == {k \in 0..n : /\ IsSeq(a[k]) /\ Apart(a[k])
                              /\ RunsOf(a[k]) \subseteq RunsOf(fs) \cup Before(k)}
<1>1. IsSeq(fs) /\ IsSeq(rich) /\ Apart(rich) /\ RunsOf(rich) = RunsOf(fs)
  <2>1. IsSeq(fs) /\ AreFindings(rich) /\ Improves(fs, rich) /\ Len(rich) = Len(fs)
    BY EnrichGdbIs DEF AreFindings
  <2> HIDE DEF rich
  <2>2. IsSeq(rich)
    BY <2>1 DEF AreFindings
  <2> QED BY <2>1, <2>2, SameApart
<1> HIDE DEF rich
<1>2. n \in Nat /\ DOMAIN rs = 1..n
  BY SeqFacts
<1>3. a[0] = rich /\ \A k \in 1..n : a[k] = AddResult(a[k - 1], rs[k])
  BY <1>1, AfterResultsIs
<1>4. 0 \in P
  <2> HIDE DEF a, n
  <2> QED BY <1>1, <1>2, <1>3
<1>5. ASSUME NEW k \in 1..n, k - 1 \in P
      PROVE  k \in P
  <2> HIDE DEF a, n
  <2>1. IsSeq(a[k - 1]) /\ Apart(a[k - 1]) /\ RunsOf(a[k - 1]) \subseteq RunsOf(fs) \cup Before(k - 1)
    BY <1>5
  <2>2. k \in 0..n /\ k \in DOMAIN rs /\ rs[k] \in ToSet(rs)
    BY <1>2 DEF ToSet
  <2>3. Detected(rs[k])
    BY <2>2
  <2>4. Found(rs[k]) => rs[k].id \notin RunsOf(a[k - 1])
    <3>1. \A j \in 1..(k - 1) : j \in DOMAIN rs /\ j # k
      BY <1>2
    <3>2. Found(rs[k]) => rs[k].id \notin Before(k - 1) /\ rs[k].id \notin RunsOf(fs)
      BY <2>2, <3>1 DEF NewRuns
    <3> QED BY <2>1, <3>2
  <2>5. LET new == AddResult(a[k - 1], rs[k])
        IN /\ IsSeq(new) /\ Apart(new)
           /\ RunsOf(new) \subseteq RunsOf(a[k - 1]) \cup (IF Found(rs[k]) THEN {rs[k].id} ELSE {})
    BY <2>1, <2>3, <2>4, AddResultApart
  <2>6. Before(k - 1) \cup (IF Found(rs[k]) THEN {rs[k].id} ELSE {}) \subseteq Before(k)
    <3>1. k \in 1..k /\ \A j \in 1..(k - 1) : j \in 1..k
      BY <1>2
    <3> QED BY <3>1
  <2>7. a[k] = AddResult(a[k - 1], rs[k])
    BY <1>3
  <2> HIDE DEF Before
  <2> QED BY <2>1, <2>2, <2>5, <2>6, <2>7
<1>6. n \in P
  <2> HIDE DEF P, n
  <2>1. \A k \in 0..n : k \in P
    BY <1>2, <1>4, <1>5, AllRounds
  <2> QED BY <1>2, <2>1
<1>7. WithToolFindings(fs, rs) = a[n]
  BY DEF WithToolFindings, rich
<1>8. Before(n) \subseteq 0..(next - 1)
  BY <1>2 DEF NewRuns
<1> HIDE DEF a, n
<1> QED BY <1>6, <1>7, <1>8

----------------------------------------------------------------------------
(* The ids in a crashpack.                                                 *)

OneEach(rs) ==
  \A j, k \in DOMAIN rs :
    rs[j].finding = rs[k].finding /\ rs[j].finding \notin Reserved => j = k

(* The findings are apart and named for runs that have been, the evidence  *)
(* names no run without a finding, and of no finding there are two results.*)
Joined(p, next) ==
  /\ p.findings # None => Apart(p.findings) /\ RunsOf(p.findings) \subseteq 0..(next - 1)
  /\ p.evidence # None =>
       \A i \in DOMAIN p.evidence.findings : p.evidence.findings[i].id \notin Reserved
  /\ p.results # None => IsSeq(p.results) /\ OneEach(p.results)

(* More runs.                                                              *)
LEMMA JoinedLater ==
  ASSUME NEW p, NEW n \in Nat, NEW m \in Nat, n <= m, Joined(p, n)
  PROVE  Joined(p, m)
BY DEF Joined

(* The empty crashpack.                                                    *)
LEMMA EmptyJoined ==
  ASSUME NEW next
  PROVE  Joined(EmptyPack, next)
BY DEF Joined, EmptyPack

(* What an agent has written.                                              *)
LEMMA AgentsApart ==
  ASSUME NEW fs \in AgentFindings \cup {OldFindings}
  PROVE  Apart(fs) /\ RunsOf(fs) = {}
<1>1. \A f \in ToSet(fs) : Len(f.id) = 1 /\ f.id \notin Reserved /\ f.tool = None
  <2>1. \A f \in ToSet(fs) : Len(f.id) = 1 /\ f.id \notin {CleanRun, ToolOnly, <<"crash">>}
    BY AgentsTellApart, Zenon
  <2>2. \A f \in ToSet(fs) : f.tool = None
    BY AgentsWriteFindings, Zenon
  <2> QED BY <2>1, <2>2 DEF Reserved
<1>2. \A k \in DOMAIN fs : /\ Len(fs[k].id) = 1 /\ fs[k].id \notin Reserved
                           /\ fs[k].tool = None
  BY <1>1 DEF ToSet
<1>3. \A j, k \in DOMAIN fs : fs[j].id = fs[k].id => j = k
  BY AgentsTellApart
<1>4. ToolFindingsOnce(fs)
  BY <1>2 DEF ToolFindingsOnce, Known
<1>5. RunsOf(fs) = {}
  BY <1>2 DEF RunsOf, Named4
<1> QED BY <1>2, <1>3, <1>4, <1>5 DEF Apart

(* The findings that a finalize writes.                                    *)
LEMMA FinalApart ==
  ASSUME NoneIsNothing, NEW pack, NEW crash \in {<<>>, <<CrashFinding(<<"crash">>)>>},
         pack.findings # None => AreFindings(pack.findings), NEW next, Joined(pack, next)
  PROVE  /\ Apart(FinalFindings(pack, crash))
         /\ RunsOf(FinalFindings(pack, crash)) \subseteq 0..(next - 1)
<1> DEFINE fs == FinalFindings(pack, crash)
<1>1. /\ AreFindings(fs)
      /\ pack.findings # None /\ pack.findings # <<>> =>
           Improves(pack.findings, fs) /\ Len(fs) = Len(pack.findings)
      /\ pack.findings \in {None, <<>>} => fs = <<>> \/ \E f : fs = <<f>> /\ f.id = <<"crash">>
  BY FinalFindingsIs
<1> HIDE DEF fs
<1>2. CASE pack.findings # None /\ pack.findings # <<>>
  <2>1. /\ IsSeq(pack.findings) /\ IsSeq(fs) /\ Apart(pack.findings)
        /\ RunsOf(pack.findings) \subseteq 0..(next - 1)
    BY <1>1, <1>2 DEF AreFindings, Joined
  <2>2. Apart(fs) /\ RunsOf(fs) = RunsOf(pack.findings)
    BY <1>1, <1>2, <2>1, SameApart
  <2> QED BY <2>1, <2>2 DEF fs
<1>3. CASE fs = <<>>
  <2>1. DOMAIN fs = {}
    BY <1>3
  <2>2. Apart(fs) /\ RunsOf(fs) = {}
    BY <2>1 DEF Apart, ToolFindingsOnce, RunsOf, Named4
  <2> QED BY <2>2 DEF fs
<1>4. ASSUME NEW f, fs = <<f>>, f.id = <<"crash">>
      PROVE  Apart(fs) /\ RunsOf(fs) = {}
  <2>1. DOMAIN fs = {1} /\ fs[1] = f
    BY <1>4
  <2>2. Len(f.id) = 1 /\ f.id \notin Reserved
    BY <1>4 DEF Reserved, CleanRun, ToolOnly
  <2> QED BY <2>1, <2>2 DEF Apart, ToolFindingsOnce, RunsOf, Named4
<1> QED BY <1>1, <1>2, <1>3, <1>4 DEF fs

(* What a finalize leaves, whether or not it came to its end: the evidence *)
(* may be that of the findings before it.                                  *)
LEMMA FinalizationsJoined ==
  ASSUME NoneIsNothing, NEW pack, HasFiles(pack), NEW crash \in {<<>>, <<CrashFinding(<<"crash">>)>>},
         pack.findings # None => AreFindings(pack.findings), NEW next, Joined(pack, next)
  PROVE  /\ Joined(Finalized(pack, crash), next)
         /\ \A here : \A f \in Finalizations(pack, crash, here) : Joined(f.pack, next)
<1> DEFINE final == Finalized(pack, crash)
           fs == FinalFindings(pack, crash)
<1>1. /\ HasFiles(final) /\ Intact(final) /\ final.findings = fs
      /\ final.results = pack.results
  BY FinalizedIs
<1>2. Apart(fs) /\ RunsOf(fs) \subseteq 0..(next - 1)
  BY FinalApart
<1> HIDE DEF fs
<1>3. final.evidence.findings = [i \in DOMAIN fs |->
        [id |-> fs[i].id, fingerprint |-> fs[i].fingerprint, class |-> fs[i].class]]
  <2> HIDE DEF final
  <2>1. final.evidence = EvidencePack(fs, final.groups)
    BY <1>1 DEF Intact
  <2> QED BY <2>1 DEF EvidencePack
<1>4. \A i \in DOMAIN final.evidence.findings : final.evidence.findings[i].id \notin Reserved
  <2>1. \A i \in DOMAIN fs : fs[i].id \notin Reserved
    BY <1>2 DEF Apart
  <2> HIDE DEF final
  <2> QED BY <1>3, <2>1
<1> HIDE DEF final
<1>5. Joined(final, next)
  BY <1>1, <1>2, <1>4 DEF Joined
<1>6. ASSUME NEW p, p.findings \in {pack.findings, final.findings},
             p.evidence \in {pack.evidence, final.evidence}, p.results = pack.results
      PROVE  Joined(p, next)
  BY <1>1, <1>5, <1>6 DEF Joined
<1>7. ASSUME NEW here, NEW f \in Finalizations(pack, crash, here)
      PROVE  Joined(f.pack, next)
  <2>1. CASE f = Done(final)
    BY <1>5, <2>1 DEF Done
  <2>2. ASSUME NEW k, f = Broken(WrittenSoFar(pack, final, k))
        PROVE  Joined(f.pack, next)
    <3> DEFINE p == WrittenSoFar(pack, final, k)
    <3>1. \A file \in DOMAIN pack : p[file] \in {pack[file], final[file]}
      BY DEF WrittenSoFar
    <3>2. f.pack = p
      BY <2>2 DEF Broken
    <3> HIDE DEF p
    <3>3. {"findings", "evidence", "results"} \subseteq DOMAIN pack
      BY DEF HasFiles, EmptyPack
    <3>4. /\ p.findings \in {pack.findings, final.findings}
          /\ p.evidence \in {pack.evidence, final.evidence}
          /\ p.results = pack.results
      BY <1>1, <3>1, <3>3
    <3> QED BY <1>6, <3>2, <3>4
  <2>3. \/ f = Done(final)
        \/ \E k : f = Broken(WrittenSoFar(pack, final, k))
    BY <1>7 DEF Finalizations, final
  <2> QED BY <2>1, <2>2, <2>3
<1> QED BY <1>5, <1>7 DEF final

(* The packs of a native run that goes wrong.                              *)
LEMMA WrittenJoined ==
  ASSUME NEW pack, HasFiles(pack), NEW findings \in AgentFindings, NEW next
  PROVE  /\ Joined(Written(pack, findings), next) /\ Joined(Described(pack), next)
         /\ Joined(Prepared(pack), next)
<1>1. Prepared(pack) = EmptyPack
  BY PreparedIs
<1>2. Apart(findings) /\ RunsOf(findings) \subseteq 0..(next - 1)
  BY AgentsApart
<1>3. LET w == Written(pack, findings)
      IN w.findings \in {None, findings} /\ w.evidence = None /\ w.results = None
  BY <1>1 DEF Written, Described, EmptyPack
<1>4. LET d == Described(pack)
      IN d.findings = None /\ d.evidence = None /\ d.results = None
  BY <1>1 DEF Described, EmptyPack
<1> QED BY <1>1, <1>2, <1>3, <1>4, EmptyJoined DEF Joined

(* The crashpack of a native run that ended.                               *)
LEMMA EndedJoined ==
  ASSUME NoneIsNothing, NEW findings \in AgentFindings, NEW end, HasFiles(Pack), NEW next,
         NEW f \in Finalizations([Written(Pack, findings) EXCEPT !.console = TRUE],
                     IF end = "signal" THEN <<CrashFinding(<<"crash">>)>> ELSE <<>>, TRUE)
  PROVE  Joined(f.pack, next)
<1> DEFINE w == [Written(Pack, findings) EXCEPT !.console = TRUE]
           crash == IF end = "signal" THEN <<CrashFinding(<<"crash">>)>> ELSE <<>>
<1>1. /\ HasFiles(w) /\ w.findings = Written(Pack, findings).findings
      /\ w.evidence = Written(Pack, findings).evidence
      /\ w.results = Written(Pack, findings).results
      /\ w.findings # None => AreFindings(w.findings)
  BY WrittenIs DEF HasFiles, EmptyPack
<1>2. Joined(w, next)
  BY <1>1, WrittenJoined DEF Joined
<1>3. crash \in {<<>>, <<CrashFinding(<<"crash">>)>>}
  OBVIOUS
<1>4. f \in Finalizations(w, crash, TRUE)
  OBVIOUS
<1> HIDE DEF w, crash
<1> QED BY <1>1, <1>2, <1>3, <1>4, FinalizationsJoined

(* The crashpack for tools alone.                                          *)
LEMMA FallbackJoined ==
  ASSUME NoneIsNothing, NEW pack, HasFiles(pack), NEW here, NEW f \in ToolOnlyPacks(pack, here), NEW next
  PROVE  Joined(f.pack, next)
<1> DEFINE start == [Prepared(pack) EXCEPT !.analysis = here]
<1>1. HasFiles(start) /\ start.findings = None /\ start.results = None /\ start.evidence = None
  <2>1. Prepared(pack) = EmptyPack
    BY PreparedIs
  <2> QED BY <2>1 DEF HasFiles, EmptyPack
<1>2. PICK g \in Finalizations(start, <<>>, here) :
        f = IF g.ok THEN Done([g.pack EXCEPT !.console = TRUE]) ELSE g
  BY DEF ToolOnlyPacks
<1> HIDE DEF start
<1>3. Joined(start, next)
  BY <1>1 DEF Joined
<1>4. Joined(g.pack, next) /\ HasFiles(g.pack)
  BY <1>1, <1>2, <1>3, FinalizationsJoined, FinalizationsAre
<1>5. LET p == [g.pack EXCEPT !.console = TRUE]
      IN /\ p.findings = g.pack.findings /\ p.evidence = g.pack.evidence
         /\ p.results = g.pack.results
  BY <1>4 DEF HasFiles, EmptyPack
<1>6. Joined([g.pack EXCEPT !.console = TRUE], next)
  BY <1>4, <1>5 DEF Joined
<1> QED BY <1>2, <1>4, <1>6 DEF Done

(* What tools found is written and promoted.                               *)
LEMMA PromotedJoined ==
  ASSUME NoneIsNothing, NEW pack, HasFiles(pack), AreFindings(pack.findings),
         NEW rs, AreResults(rs), OneEach(rs), NEW next, Joined(pack, next),
         NewRuns(rs, pack.findings, next), NEW here,
         NEW f \in Promotions([pack EXCEPT !.results = rs], rs, here)
  PROVE  Joined(f.pack, next)
<1> DEFINE wide == [pack EXCEPT !.results = rs]
           new == WithToolFindings(pack.findings, rs)
           full == [wide EXCEPT !.findings = new]
<1>1. /\ HasFiles(wide) /\ wide.findings = pack.findings /\ wide.evidence = pack.evidence
      /\ wide.results = rs
  BY DEF HasFiles, EmptyPack
<1>2. /\ HasFiles(full) /\ full.findings = new /\ full.evidence = pack.evidence
      /\ full.results = rs
  BY DEF HasFiles, EmptyPack
<1>3. IsSeq(rs) /\ \A r \in ToSet(rs) : Detected(r)
  BY ResultsDetected DEF AreResults, Findings
<1>4. pack.findings # None
  BY SeqIsSomething DEF AreFindings
<1>5. Apart(pack.findings) /\ RunsOf(pack.findings) \subseteq 0..(next - 1)
  BY <1>4 DEF Joined
<1>6. Apart(new) /\ RunsOf(new) \subseteq 0..(next - 1) /\ AreFindings(new)
  BY <1>3, <1>5, WithToolsApart, WithToolsIs
<1>7. f = Done(wide) \/ f = Broken(wide) \/ f \in Finalizations(full, <<>>, here)
  BY <1>1 DEF Promotions
<1> HIDE DEF wide, new, full
<1>8. Joined(wide, next)
  BY <1>1, <1>3 DEF Joined
<1>9. Joined(full, next)
  BY <1>2, <1>3, <1>6 DEF Joined
<1>10. f \in Finalizations(full, <<>>, here) => Joined(f.pack, next)
  BY <1>2, <1>6, <1>9, FinalizationsJoined
<1> QED BY <1>7, <1>8, <1>10 DEF Done, Broken

----------------------------------------------------------------------------
(* The ids of results and jobs.                                            *)

(* The result of a tool has the id of its run.                             *)
LEMMA RunBinaryId ==
  ASSUME NEW finding, NEW id, NEW tool \in Tools, NEW linked, NEW run
  PROVE  RunBinary(finding, id, tool, linked, run) # None => RunBinary(finding, id, tool, linked, run).id = id
<1> DEFINE HasId(r) == r # None => r.id = id
<1>1. \A t, report : HasId(Executed(finding, id, t, run, report))
  <2> TAKE t, report
  <2>1. Successful(finding, id, t, report, run.output).id = id
    BY DEF Successful
  <2>2. TimeoutResult(finding, id, t).id = id
    BY DEF TimeoutResult, ResultFailure
  <2> QED BY <2>1, <2>2 DEF Executed
<1>2. \A t : HasId(NotApplicable(finding, id, t)) /\ HasId(Unavailable(finding, id, t))
  BY DEF NotApplicable, Unavailable, ResultFailure
<1> HIDE DEF HasId
<1>3. /\ HasId(RunAsanBinary(finding, id, linked, run)) /\ HasId(RunLsanBinary(finding, id, linked, run))
      /\ HasId(RunUbsanBinary(finding, id, linked, run)) /\ HasId(RunValgrindBinary(finding, id, run))
      /\ HasId(RunGdbBinary(finding, id, run))
  BY <1>1, <1>2 DEF RunAsanBinary, RunLsanBinary, RunUbsanBinary, RunValgrindBinary, RunGdbBinary
<1>4. HasId(RunBinary(finding, id, tool, linked, run))
  BY <1>3 DEF RunBinary, Tools
<1> QED BY <1>4 DEF HasId

(* The result that a job may bring: for the job's finding, or the binary;  *)
(* if it found something, then with the id of the run.                     *)
JobsResult(job, r) ==
  /\ job.what = "finding" => r.finding = job.finding
  /\ job.what # "finding" => r.finding \in Reserved
  /\ Found(r) => r.id = nextId

(* A tool run for a job brings such a result, or none.                     *)
LEMMA ToolResultOfJob ==
  ASSUME NEW job, job.tool \in Tools, NEW run, IsSeq(run.output), ToolResult(job, run) # None
  PROVE  JobsResult(job, ToolResult(job, run))
<1>1. ToolResult(job, run).finding = JobFinding(job)
  BY ToolResultComes DEF Comes
<1>2. ToolResult(job, run).id = nextId
  <2>1. CASE job.what = "finding"
    <3>1. \/ ToolResult(job, run) = ResultFailure(job.finding, nextId, job.tool, "Failed", FALSE)
          \/ ToolResult(job, run) = RunBinary(job.finding, nextId, job.tool, built, run)
      BY <2>1 DEF ToolResult, Escalated
    <3>2. ResultFailure(job.finding, nextId, job.tool, "Failed", FALSE).id = nextId
      BY DEF ResultFailure
    <3>3. RunBinary(job.finding, nextId, job.tool, built, run) # None =>
            RunBinary(job.finding, nextId, job.tool, built, run).id = nextId
      BY RunBinaryId, Zenon
    <3> QED BY <3>1, <3>2, <3>3
  <2>2. CASE job.what # "finding"
    <3>1. \/ ToolResult(job, run) = ResultFailure(CleanRun, nextId, job.tool, "Failed", FALSE)
          \/ ToolResult(job, run) = RunBinary(CleanRun, nextId, job.tool, built, run)
      BY <2>2 DEF ToolResult, CleanChecked
    <3>2. ResultFailure(CleanRun, nextId, job.tool, "Failed", FALSE).id = nextId
      BY DEF ResultFailure
    <3>3. RunBinary(CleanRun, nextId, job.tool, built, run) # None =>
            RunBinary(CleanRun, nextId, job.tool, built, run).id = nextId
      BY RunBinaryId, Zenon
    <3> QED BY <3>1, <3>2, <3>3
  <2> QED BY <2>1, <2>2
<1> QED BY <1>1, <1>2 DEF JobsResult, JobFinding, Reserved

(* Of no finding two jobs are to run; and a job for no finding is not      *)
(* taken for one.                                                          *)
JobsApart(js) ==
  /\ \A j, k \in DOMAIN js :
       js[j].what = "finding" /\ js[k].what = "finding" /\ js[j].finding = js[k].finding => j = k
  /\ \A k \in DOMAIN js : /\ js[k].what = "finding" => js[k].finding \notin Reserved
                          /\ js[k].what = "skip" => js[k].finding \in Reserved

(* Jobs for findings that are apart are apart, with and without scans of   *)
(* the binary behind them.                                                 *)
LEMMA JobsOfFindings ==
  ASSUME NEW fs, Apart(fs), NEW js, DOMAIN js = DOMAIN fs,
         \A k \in DOMAIN fs : js[k].what = "finding" /\ js[k].finding = fs[k].id
  PROVE  JobsApart(js)
BY DEF JobsApart, Apart

(* The places of a concatenation.                                          *)
LEMMA ConcatAt ==
  ASSUME NEW S, NEW s \in Seq(S), NEW t \in Seq(S)
  PROVE  /\ DOMAIN (s \o t) = 1..(Len(s) + Len(t))
         /\ \A k \in 1..(Len(s) + Len(t)) :
              (s \o t)[k] = IF k <= Len(s) THEN s[k] ELSE t[k - Len(s)]
<1>1. Len(s \o t) = Len(s) + Len(t)
  OBVIOUS
<1>2. s \o t \in Seq(S)
  OBVIOUS
<1>3. DOMAIN (s \o t) = 1..(Len(s) + Len(t))
  BY <1>1, <1>2
<1> QED BY <1>3

(* Scans behind jobs.                                                      *)
LEMMA ScansApart ==
  ASSUME NEW js, IsSeq(js), JobsApart(js)
  PROVE  JobsApart(js \o SanitizerScans)
<1> DEFINE n == Len(js)
           all == js \o SanitizerScans
           s == SanitizerScans
<1>1. n \in Nat /\ DOMAIN js = 1..n
  BY SeqFacts
<1>2. Len(s) = 3 /\ \A k \in 1..3 : s[k].what = "scan"
  BY DEF SanitizerScans, Scan, Job
<1>3. DOMAIN all = 1..(n + 3) /\ \A k \in DOMAIN all : all[k] = IF k \in 1..n THEN js[k] ELSE s[k - n]
  <2> DEFINE S == ToSet(js) \cup {s[1], s[2], s[3]}
  <2>1. js \in Seq(S)
    BY DEF IsSeq
  <2>2. s \in Seq(S)
    BY DEF SanitizerScans
  <2> HIDE DEF S, s
  <2>3. /\ DOMAIN (js \o s) = 1..(Len(js) + Len(s))
        /\ \A k \in 1..(Len(js) + Len(s)) :
             (js \o s)[k] = IF k <= Len(js) THEN js[k] ELSE s[k - Len(js)]
    BY <2>1, <2>2, ConcatAt
  <2> QED BY <1>1, <1>2, <2>3 DEF s
<1> HIDE DEF all, s, n
<1>4. \A k \in DOMAIN all : \/ k \in DOMAIN js /\ all[k] = js[k]
                            \/ all[k].what = "scan"
  <2> TAKE k \in DOMAIN all
  <2>1. CASE k \in 1..n
    BY <1>1, <1>3, <2>1
  <2>2. CASE k \notin 1..n
    <3>1. k - n \in 1..3 /\ all[k] = s[k - n]
      BY <1>1, <1>3, <2>2
    <3> QED BY <1>2, <3>1
  <2> QED BY <2>1, <2>2
<1>5. JobsApart(all)
  BY <1>4 DEF JobsApart
<1> QED BY <1>5 DEF all

(* Jobs of which none is for a finding.                                    *)
LEMMA JobForBinary ==
  ASSUME NEW j, j.what = "scan" \/ (j.what = "skip" /\ j.finding \in Reserved)
  PROVE  IsSeq(<<j>>) /\ JobsApart(<<j>>)
<1>1. DOMAIN <<j>> = {1} /\ <<j>>[1] = j
  OBVIOUS
<1>2. IsSeq(<<j>>)
  BY DEF IsSeq, ToSet
<1> QED BY <1>1, <1>2 DEF JobsApart

(* No job at all.                                                          *)
LEMMA NoJobApart == IsSeq(<<>>) /\ JobsApart(<<>>)
<1>1. DOMAIN <<>> = {}
  OBVIOUS
<1> QED BY <1>1, NoJobsNoResults DEF JobsApart

(* The jobs that a step plans.                                             *)
LEMMA PlansApart ==
  /\ \A fs, target, deep, linked : IsSeq(fs) /\ Apart(fs) =>
       JobsApart(EscalationJobs(target, fs, deep, linked))
  /\ \A deep, linked : JobsApart(FallbackJobs(deep, linked))
  /\ \A fs, tool : IsSeq(fs) /\ Apart(fs) => JobsApart(PlannedJobs(fs, tool))
  /\ \A tool : JobsApart(<<Scan(tool)>>)
<1>1. \A tool : Scan(tool).what = "scan"
  BY DEF Scan, Job
<1>2. \A id \in Reserved : /\ Job("skip", id, "valgrind").what = "skip"
                           /\ Job("skip", id, "valgrind").finding \in Reserved
  BY DEF Job
<1>3. \A tool : IsSeq(<<Scan(tool)>>) /\ JobsApart(<<Scan(tool)>>)
  BY <1>1, JobForBinary, Zenon
<1>4. \A id \in Reserved : IsSeq(<<Job("skip", id, "valgrind")>>) /\ JobsApart(<<Job("skip", id, "valgrind")>>)
  BY <1>2, JobForBinary
<1>5. ASSUME NEW fs, IsSeq(fs), Apart(fs), NEW target, NEW deep, NEW linked
      PROVE  JobsApart(EscalationJobs(target, fs, deep, linked))
  <2> DEFINE all == [i \in DOMAIN fs |-> Job("finding", fs[i].id, ToolForFinding(fs[i]))]
  <2>1. IsSeq(all) /\ JobsApart(all)
    <3>1. all = [i \in DOMAIN fs |-> all[i]]
      OBVIOUS
    <3>2. \A i \in DOMAIN fs : all[i].what = "finding" /\ all[i].finding = fs[i].id
      BY DEF Job
    <3> HIDE DEF all
    <3>3. IsSeq(all) /\ DOMAIN all = DOMAIN fs
      BY <1>5, <3>1, MapSeq
    <3> QED BY <1>5, <3>2, <3>3, JobsOfFindings
  <2>2. PICK first \in {all, <<Job("skip", CleanRun, "valgrind")>>, <<Scan("valgrind")>>} :
          EscalationJobs(target, fs, deep, linked) \in {<<>>, first, first \o SanitizerScans}
    BY EscalationJobsAmong
  <2> HIDE DEF all
  <2>3. CleanRun \in Reserved
    BY DEF Reserved
  <2>4. IsSeq(first) /\ JobsApart(first)
    BY <1>3, <1>4, <2>1, <2>2, <2>3
  <2> QED BY <2>2, <2>4, NoJobApart, ScansApart
<1>6. ASSUME NEW deep, NEW linked
      PROVE  JobsApart(FallbackJobs(deep, linked))
  <2>1. PICK first \in {<<Scan("valgrind")>>, <<Job("skip", ToolOnly, "valgrind")>>} :
          FallbackJobs(deep, linked) \in {first, first \o SanitizerScans}
    BY DEF FallbackJobs
  <2>2. ToolOnly \in Reserved
    BY DEF Reserved
  <2>3. IsSeq(first) /\ JobsApart(first)
    BY <1>3, <1>4, <2>1, <2>2
  <2> QED BY <2>1, <2>3, ScansApart
<1>7. ASSUME NEW fs, IsSeq(fs), Apart(fs), NEW tool
      PROVE  JobsApart(PlannedJobs(fs, tool))
  <2> DEFINE js == PlannedJobs(fs, tool)
  <2>1. DOMAIN js = DOMAIN fs /\ \A k \in DOMAIN fs : js[k].what = "finding" /\ js[k].finding = fs[k].id
    BY DEF PlannedJobs, Job
  <2> HIDE DEF js
  <2>2. JobsApart(js)
    BY <1>7, <2>1, JobsOfFindings
  <2> QED BY <2>2 DEF js
<1> QED BY <1>3, <1>5, <1>6, <1>7

(* The jobs but for the first.                                             *)
LEMMA TailApart ==
  ASSUME NEW js, IsSeq(js), js # <<>>, JobsApart(js)
  PROVE  /\ JobsApart(Tail(js)) /\ Head(js) = js[1] /\ 1 \in DOMAIN js
         /\ \A k \in DOMAIN Tail(js) : k + 1 \in DOMAIN js /\ k + 1 # 1 /\ Tail(js)[k] = js[k + 1]
<1>1. js \in Seq(ToSet(js)) /\ Len(js) \in Nat /\ Len(js) # 0 /\ DOMAIN js = 1..Len(js)
  BY SeqFacts DEF IsSeq
<1>2. DOMAIN Tail(js) = 1..(Len(js) - 1) /\ \A k \in 1..(Len(js) - 1) : Tail(js)[k] = js[k + 1]
  BY <1>1
<1>3. Head(js) = js[1] /\ 1 \in DOMAIN js
  BY <1>1
<1>4. \A k \in DOMAIN Tail(js) : k \in Nat /\ k + 1 \in DOMAIN js /\ k + 1 # 1 /\ Tail(js)[k] = js[k + 1]
  BY <1>1, <1>2
<1>5. \A j, k \in DOMAIN Tail(js) : j + 1 = k + 1 => j = k
  BY <1>4
<1>6. JobsApart(Tail(js))
  BY <1>4, <1>5 DEF JobsApart
<1> QED BY <1>3, <1>4, <1>6

----------------------------------------------------------------------------
(* The invariant of the ids.                                               *)

(* While tools run: their results are of different findings and runs, and  *)
(* of none that is still to come.                                          *)
Underway ==
  /\ OneEach(results) /\ JobsApart(jobs)
  /\ \A j \in DOMAIN jobs, k \in DOMAIN results :
       jobs[j].what = "finding" => results[k].finding # jobs[j].finding
  /\ NewRuns(results, Pack.findings, nextId)

Ids ==
  /\ \A i \in DOMAIN packs : Joined(packs[i], nextId)
  /\ pc \in {"tools", "command"} => Underway

(* Nothing has been run.                                                   *)
LEMMA UnderwayStarts ==
  ASSUME results' = <<>>, JobsApart(jobs')
  PROVE  Underway'
<1>1. DOMAIN results' = {}
  OBVIOUS
<1> QED BY <1>1 DEF Underway, OneEach, NewRuns

(* The job at the head has brought a result; its run, if it found          *)
(* something, is one that was not there before.                            *)
LEMMA UnderwayGoesOn ==
  ASSUME Underway, IsSeq(jobs), jobs # <<>>, IsSeq(results), nextId \in Nat,
         NEW r, JobsResult(Head(jobs), r), results' = Append(results, r), jobs' = Tail(jobs),
         nextId' \in {nextId, nextId + 1}, Found(r) => nextId' = nextId + 1,
         RunsOf(Pack.findings) \subseteq 0..(nextId - 1), Pack' = Pack
  PROVE  Underway'
<1> DEFINE job == Head(jobs)
           n == Len(results)
<1>1. /\ JobsApart(jobs') /\ job = jobs[1] /\ 1 \in DOMAIN jobs
      /\ \A k \in DOMAIN jobs' : k + 1 \in DOMAIN jobs /\ k + 1 # 1 /\ jobs'[k] = jobs[k + 1]
  BY TailApart DEF Underway
<1>2. /\ IsSeq(results') /\ Len(results') = n + 1
      /\ \A k \in DOMAIN results : results'[k] = results[k]
      /\ results'[n + 1] = r
  BY AppendSeq
<1>3. n \in Nat /\ DOMAIN results = 1..n /\ DOMAIN results' = 1..(n + 1)
  BY <1>2, SeqFacts
<1> HIDE DEF n, job
<1>4. \A k \in DOMAIN results' :
        \/ k \in DOMAIN results /\ results'[k] = results[k]
        \/ k = n + 1 /\ results'[k] = r /\ k \notin DOMAIN results
  <2> TAKE k \in DOMAIN results'
  <2>1. k \in 1..(n + 1)
    BY <1>3
  <2>2. CASE k = n + 1
    BY <1>2, <1>3, <2>2
  <2>3. CASE k # n + 1
    <3>1. k \in DOMAIN results
      BY <1>3, <2>1, <2>3
    <3> QED BY <1>2, <3>1
  <2> QED BY <2>2, <2>3
<1>5. JobsResult(job, r)
  BY DEF job
<1>6. \A k \in DOMAIN results : results[k].finding = r.finding => r.finding \in Reserved
  <2> SUFFICES ASSUME NEW k \in DOMAIN results, results[k].finding = r.finding, r.finding \notin Reserved
               PROVE  FALSE
    OBVIOUS
  <2>1. job.what = "finding" /\ r.finding = job.finding
    BY <1>5 DEF JobsResult
  <2> QED BY <1>1, <2>1 DEF Underway
<1>7. OneEach(results')
  <2>1. OneEach(results)
    BY DEF Underway
  <2> QED BY <1>4, <1>6, <2>1 DEF OneEach
<1>8. ASSUME NEW j \in DOMAIN jobs', NEW k \in DOMAIN results', jobs'[j].what = "finding"
      PROVE  results'[k].finding # jobs'[j].finding
  <2>1. j + 1 \in DOMAIN jobs /\ j + 1 # 1 /\ jobs[j + 1] = jobs'[j] /\ jobs[j + 1].what = "finding"
    BY <1>1, <1>8
  <2>2. CASE k \in DOMAIN results /\ results'[k] = results[k]
    BY <2>1, <2>2 DEF Underway
  <2>3. CASE results'[k] = r
    <3>1. CASE job.what = "finding"
      <4>1. r.finding = jobs[1].finding /\ jobs[1].what = "finding"
        BY <1>1, <1>5, <3>1 DEF JobsResult
      <4> QED BY <1>1, <2>1, <2>3, <4>1 DEF Underway, JobsApart
    <3>2. CASE job.what # "finding"
      <4>1. r.finding \in Reserved
        BY <1>5, <3>2 DEF JobsResult
      <4> QED BY <2>1, <2>3, <4>1 DEF Underway, JobsApart
    <3> QED BY <3>1, <3>2
  <2> QED BY <1>4, <2>2, <2>3
<1>9. NewRuns(results', Pack.findings, nextId')
  <2>1. NewRuns(results, Pack.findings, nextId)
    BY DEF Underway
  <2>2. Found(r) => r.id = nextId /\ nextId' = nextId + 1
    BY <1>5 DEF JobsResult
  <2>3. \A k \in DOMAIN results : Found(results[k]) =>
          /\ results[k].id \in 0..(nextId - 1) /\ results[k].id # nextId
          /\ results[k].id \in 0..(nextId' - 1)
    BY <2>1 DEF NewRuns
  <2>4. nextId \notin RunsOf(Pack.findings)
    OBVIOUS
  <2>5. Found(r) => nextId \in 0..(nextId' - 1)
    BY <2>2
  <2> SUFFICES ASSUME NEW k \in DOMAIN results', Found(results'[k])
               PROVE  /\ results'[k].id \in 0..(nextId' - 1)
                      /\ results'[k].id \notin RunsOf(Pack.findings)
                      /\ \A j \in DOMAIN results' :
                           Found(results'[j]) /\ results'[j].id = results'[k].id => j = k
    BY DEF NewRuns
  <2>6. CASE k \in DOMAIN results /\ results'[k] = results[k]
    <3>1. \A j \in DOMAIN results' :
            Found(results'[j]) /\ results'[j].id = results'[k].id => j = k
      <4> TAKE j \in DOMAIN results'
      <4>1. CASE j \in DOMAIN results /\ results'[j] = results[j]
        BY <2>1, <2>6, <4>1 DEF NewRuns
      <4>2. CASE results'[j] = r
        BY <2>2, <2>3, <2>6, <4>2
      <4> QED BY <1>4, <4>1, <4>2
    <3> QED BY <2>1, <2>3, <2>6, <3>1 DEF NewRuns
  <2>7. CASE k = n + 1 /\ results'[k] = r /\ k \notin DOMAIN results
    <3>1. \A j \in DOMAIN results' :
            Found(results'[j]) /\ results'[j].id = results'[k].id => j = k
      <4> TAKE j \in DOMAIN results'
      <4>1. CASE j \in DOMAIN results /\ results'[j] = results[j]
        BY <2>2, <2>3, <2>7, <4>1
      <4>2. CASE j = n + 1
        BY <2>7, <4>2
      <4> QED BY <1>4, <4>1, <4>2
    <3> QED BY <2>2, <2>4, <2>5, <2>7, <3>1
  <2> QED BY <1>4, <2>6, <2>7
<1> QED BY <1>1, <1>7, <1>8, <1>9 DEF Underway

(* A job without a tool is passed over.                                    *)
LEMMA UnderwaySkips ==
  ASSUME Underway, IsSeq(jobs), jobs # <<>>, results' = results, jobs' = Tail(jobs),
         nextId' = nextId, Pack' = Pack
  PROVE  Underway'
<1>1. /\ JobsApart(jobs')
      /\ \A k \in DOMAIN jobs' : k + 1 \in DOMAIN jobs /\ jobs'[k] = jobs[k + 1]
  BY TailApart DEF Underway
<1> QED BY <1>1 DEF Underway

(* The ids of the crashpack that an earlier observe left.                  *)
LEMMA IdsInit ==
  ASSUME NoneIsNothing, Init
  PROVE  Ids
<1> DEFINE e == [EmptyPack EXCEPT !.analysis = TRUE, !.console = TRUE, !.findings = OldFindings]
           p == Finalized(e, <<>>)
           r == ResultFailure(CleanRun, 0, "valgrind", "Timeout", TRUE)
           o == OldPack(OldFindings)
<1>1. HasFiles(e) /\ e.findings = OldFindings /\ e.evidence = None /\ e.results = None
  BY DEF HasFiles, EmptyPack
<1>2. AreFindings(OldFindings) /\ Apart(OldFindings) /\ RunsOf(OldFindings) = {}
  BY WrittenFindings, AgentsApart
<1> HIDE DEF e
<1>3. Joined(e, nextId)
  BY <1>1, <1>2 DEF Joined
<1>4. Joined(p, nextId) /\ HasFiles(p)
  BY <1>1, <1>2, <1>3, FinalizationsJoined, FinalizedIs
<1> HIDE DEF p
<1>5. o = [p EXCEPT !.results = <<r>>]
  BY DEF OldPack, p, e
<1> HIDE DEF r, o
<1>6. o.findings = p.findings /\ o.evidence = p.evidence /\ o.results = <<r>>
  BY <1>4, <1>5 DEF HasFiles, EmptyPack
<1>7. IsSeq(<<r>>) /\ DOMAIN <<r>> = {1}
  BY DEF IsSeq, ToSet
<1>8. Joined(o, nextId)
  BY <1>4, <1>6, <1>7 DEF Joined, OneEach
<1>9. Joined(EmptyPack, nextId)
  BY EmptyJoined
<1>10. \/ packs = [i \in 0..MaxAttempts |-> EmptyPack]
       \/ packs = [i \in 0..MaxAttempts |-> o]
  BY DEF Init, o
<1>11. pc = "start"
  BY DEF Init
<1> QED BY <1>8, <1>9, <1>10, <1>11 DEF Ids

(* The job that an observe runs brings a result of its own.                *)
LEMMA ObservedJob ==
  ASSUME Typed, JobsApart(jobs), ObserveTool
  PROVE  \E r : /\ JobsResult(Head(jobs), r) /\ results' = Append(results, r)
                /\ nextId' \in {nextId, nextId + 1} /\ (Found(r) => nextId' = nextId + 1)
<1> DEFINE job == Head(jobs)
<1>1. IsSeq(jobs) /\ jobs # <<>> /\ pc = "tools"
  BY DEF ObserveTool, Typed
<1>2. job \in ToSet(jobs) /\ job = jobs[1] /\ 1 \in DOMAIN jobs
  BY <1>1, FewerJobs, TailApart
<1>3. IsJob(job) /\ Known(job.tool)
  BY <1>1, <1>2 DEF Typed
<1>4. job.tool \in Tools /\ job.what \in {"finding", "scan", "skip"}
  BY <1>3 DEF IsJob, Known
<1>5. job.what = "skip" => job.finding \in Reserved
  BY <1>2 DEF JobsApart
<1>6. \/ /\ job.what = "skip"
         /\ results' = Append(results, ObserveSkipped(job))
         /\ nextId' = nextId
      \/ /\ job.what # "skip" /\ nextId' = nextId + 1
         /\ \E run \in ToolRuns(job.tool) :
              results' = Append(results,
                FirstKnown(ToolResult(job, run),
                           ObserveFailure(CASE job.what = "finding" -> job.finding
                                            [] job.what = "scan" ->
                                                 IF fallback THEN ToolOnly ELSE CleanRun,
                                          job.tool)))
  BY DEF ObserveTool
<1> HIDE DEF job
<1>7. CASE /\ job.what = "skip"
           /\ results' = Append(results, ObserveSkipped(job))
           /\ nextId' = nextId
  <2>1. ~Found(ObserveSkipped(job))
    BY <1>3, SkippedResult
  <2>2. ObserveSkipped(job).finding = job.finding
    BY DEF ObserveSkipped, ResultFailure
  <2>3. JobsResult(job, ObserveSkipped(job))
    BY <1>5, <1>7, <2>1, <2>2 DEF JobsResult
  <2> QED BY <1>7, <2>1, <2>3 DEF job
<1>8. CASE /\ job.what # "skip" /\ nextId' = nextId + 1
           /\ \E run \in ToolRuns(job.tool) :
                results' = Append(results,
                  FirstKnown(ToolResult(job, run),
                             ObserveFailure(CASE job.what = "finding" -> job.finding
                                              [] job.what = "scan" ->
                                                   IF fallback THEN ToolOnly ELSE CleanRun,
                                            job.tool)))
  <2> DEFINE id == CASE job.what = "finding" -> job.finding
                     [] job.what = "scan" -> IF fallback THEN ToolOnly ELSE CleanRun
             fail == ObserveFailure(id, job.tool)
  <2>1. PICK run \in ToolRuns(job.tool) : results' = Append(results, FirstKnown(ToolResult(job, run), fail))
    BY <1>8
  <2>2. /\ job.what = "finding" => id = job.finding
        /\ job.what # "finding" => id \in Reserved
    BY <1>4, <1>8 DEF Reserved
  <2> HIDE DEF id
  <2>3. fail.finding = id /\ ~Found(fail)
    BY DEF ObserveFailure, ResultFailure, Found
  <2> HIDE DEF fail
  <2>4. JobsResult(job, fail)
    BY <2>2, <2>3 DEF JobsResult
  <2>5. IsSeq(run.output)
    BY RunsHaveLines
  <2>6. ToolResult(job, run) # None => JobsResult(job, ToolResult(job, run))
    BY <1>4, <2>5, ToolResultOfJob
  <2>7. JobsResult(job, FirstKnown(ToolResult(job, run), fail))
    BY <2>4, <2>6 DEF FirstKnown, Known
  <2> QED BY <1>8, <2>1, <2>7 DEF job
<1> QED BY <1>6, <1>7, <1>8

(* So does the job of a command that goes on.                              *)
LEMMA CommandedJob ==
  ASSUME Typed, CommandTool, pc' = "command"
  PROVE  \E r : /\ JobsResult(Head(jobs), r) /\ results' = Append(results, r)
                /\ jobs' = Tail(jobs)
<1> DEFINE job == Head(jobs)
<1>1. job.tool \in Tools
  BY ResultsOfCommandTool
<1>2. PICK run \in ToolRuns(job.tool) :
        CommandStep(CommandResult(job, run)) /\ jobs' = Tail(jobs)
  BY DEF CommandTool, End
<1> HIDE DEF job
<1>3. ToolResult(job, run) # None /\ results' = Append(results, ToolResult(job, run))
  BY <1>2 DEF CommandStep, CommandResult
<1>4. IsSeq(run.output)
  BY RunsHaveLines
<1>5. JobsResult(job, ToolResult(job, run))
  BY <1>1, <1>3, <1>4, ToolResultOfJob
<1> QED BY <1>2, <1>3, <1>5 DEF job

(* Every step keeps the ids apart.                                         *)
LEMMA IdsKept ==
  ASSUME NoneIsNothing, IInv, Ids, [Next]_vars
  PROVE  Ids'
<1> USE DEF files, loop, setting
<1>0. /\ Control /\ Typed /\ Packs /\ Rows /\ AreResults(results)
      /\ DOMAIN packs = 0..MaxAttempts /\ 0 \in DOMAIN packs /\ nextId \in Nat
  BY InvParts DEF IInv, Typed, TypeOK
<1>a. ASSUME packs' = packs, nextId' \in {nextId, nextId + 1},
             pc' \in {"tools", "command"} => Underway'
      PROVE  Ids'
  <2>1. nextId' \in Nat /\ nextId <= nextId'
    BY <1>0, <1>a
  <2>2. \A i \in DOMAIN packs : Joined(packs[i], nextId')
    BY <1>0, <2>1, JoinedLater DEF Ids
  <2> QED BY <1>a, <2>2 DEF Ids
<1>b. ASSUME NEW i, NEW pack, Joined(pack, nextId), packs' = [packs EXCEPT ![i] = pack],
             nextId' = nextId, pc' \in {"tools", "command"} => Underway'
      PROVE  Ids'
  BY <1>b DEF Ids
<1>c. ASSUME pc \in Observing
      PROVE  Dir \in DOMAIN packs /\ HasFiles(Pack) /\ Joined(Pack, nextId) /\ IsPack(Pack)
  <2>1. Dir \in 0..MaxAttempts /\ IsPack(Pack)
    BY <1>0, <1>c, PackIsPack
  <2>2. Dir \in DOMAIN packs
    BY <1>0, <2>1
  <2>3. Joined(Pack, nextId)
    BY <2>2 DEF Ids, Pack
  <2> QED BY <2>1, <2>2, <2>3 DEF IsPack
<1>d. ASSUME pc \in {"tools", "command"}
      PROVE  /\ Known(Pack.findings) /\ IsPack(Pack) /\ HasFiles(Pack) /\ Joined(Pack, nextId)
             /\ AreFindings(Pack.findings) /\ IsSeq(jobs) /\ Underway
             /\ RunsOf(Pack.findings) \subseteq 0..(nextId - 1)
             /\ pc = "command" => Pack = packs[0]
  <2>1. CASE pc = "tools"
    <3>1. Known(Pack.findings)
      BY <1>0, <2>1 DEF Rows, UnderTools, Ready, CanBeUsed
    <3> QED BY <1>0, <1>c, <2>1, <3>1 DEF Observing, IsPack, Joined, Known, Ids, Typed
  <2>2. CASE pc = "command"
    <3>1. Pack = packs[0]
      BY <1>0, <2>2 DEF Control, Pack, Dir
    <3>2. Known(packs[0].findings)
      BY <1>0, <2>2 DEF Rows
    <3>3. IsPack(packs[0]) /\ Joined(packs[0], nextId)
      BY <1>0 DEF Packs, Ids
    <3> QED BY <1>0, <2>2, <3>1, <3>2, <3>3 DEF IsPack, Joined, Known, Ids, Typed
  <2> QED BY <1>d, <2>1, <2>2
<1>1. ASSUME NEW repeat, NEW nativeOnly, NEW deep, NEW explicit, Start(repeat, nativeOnly, deep, explicit)
      PROVE  Ids'
  <2>1. packs' = packs /\ nextId' = nextId /\ pc' \notin {"tools", "command"}
    BY <1>1 DEF Start, End
  <2> QED BY <2>1, <1>a
<1>2. CASE ClearAttempts
  <2>1. /\ DOMAIN packs' = DOMAIN packs /\ nextId' = nextId /\ pc' = "native"
        /\ \A i \in DOMAIN packs : packs'[i] \in {packs[i], EmptyPack}
    BY <1>2 DEF ClearAttempts
  <2> QED BY <2>1, EmptyJoined DEF Ids
<1>3. ASSUME NEW error \in Errors, NEW findings \in AgentFindings, NativeFails(error, findings)
      PROVE  Ids'
  <2>1. HasFiles(Pack) /\ Joined(Pack, nextId)
    BY <1>3, <1>c DEF NativeFails, Observing
  <2>2. PICK p : /\ p = CASE ErrorStage(error) = "start" -> Pack
                          [] ErrorStage(error) = "prepared" -> Prepared(Pack)
                          [] ErrorStage(error) = "described" -> Described(Pack)
                          [] ErrorStage(error) = "agent" -> Written(Pack, findings)
                 /\ Observed(p, TargetFromError(error))
    BY <1>3 DEF NativeFails
  <2>3. p \in {Pack, Prepared(Pack), Described(Pack), Written(Pack, findings)}
    BY <2>2, StageOf
  <2>4. Joined(p, nextId)
    BY <2>1, <2>3, WrittenJoined
  <2>5. packs' = [packs EXCEPT ![Dir] = p] /\ nextId' = nextId /\ pc' \notin {"tools", "command"}
    BY <2>2 DEF Observed
  <2> QED BY <2>4, <2>5, <1>b
<1>4. ASSUME NEW findings \in AgentFindings, NEW end \in {"exit", "signal", "timeout"},
             NativeEnds(findings, end)
      PROVE  Ids'
  <2>1. HasFiles(Pack)
    BY <1>4, <1>c DEF NativeEnds, Observing
  <2>2. PICK f \in Finalizations([Written(Pack, findings) EXCEPT !.console = TRUE],
                     IF end = "signal" THEN <<CrashFinding(<<"crash">>)>> ELSE <<>>, TRUE) :
             \E target : Observed(f.pack, target)
    BY <1>4 DEF NativeEnds
  <2>3. Joined(f.pack, nextId)
    BY <2>1, <2>2, EndedJoined
  <2>4. packs' = [packs EXCEPT ![Dir] = f.pack] /\ nextId' = nextId /\ pc' \notin {"tools", "command"}
    BY <2>2 DEF Observed
  <2> QED BY <2>3, <2>4, <1>b
<1>5. CASE PlanFallback
  <2>1. HasFiles(Pack) /\ results = <<>>
    BY <1>0, <1>5, <1>c DEF PlanFallback, Observing, Control
  <2>2. PICK f \in ToolOnlyPacks(Pack, present) :
          /\ packs' = [packs EXCEPT ![Dir] = f.pack] /\ results' = results /\ nextId' = nextId
          /\ \/ jobs' = FallbackJobs(request.deep, built) /\ pc' = "tools"
             \/ pc' = "idle"
    BY <1>5 DEF PlanFallback, End
  <2>3. Joined(f.pack, nextId)
    BY <2>1, FallbackJoined
  <2>4. pc' \in {"tools", "command"} => Underway'
    <3>1. JobsApart(FallbackJobs(request.deep, built))
      BY PlansApart, Zenon
    <3> QED BY <2>1, <2>2, <3>1, UnderwayStarts
  <2> QED BY <2>2, <2>3, <2>4, <1>b
<1>6. CASE PlanEscalation
  <2>1. /\ packs' = packs /\ nextId' = nextId /\ results' = results /\ pc = "plan"
        /\ jobs' = EscalationJobs(row, Pack.findings, request.deep, built)
        /\ ~HadError(row.status)
    BY <1>6 DEF PlanEscalation
  <2>2. results = <<>> /\ Known(Pack.findings)
    <3>1. AfterNative(row, Pack) /\ results = <<>>
      BY <1>0, <2>1 DEF Rows, Control
    <3>2. row.status # "Failed"
      BY <2>1 DEF HadError
    <3> QED BY <3>1, <3>2 DEF AfterNative, Ready, CanBeUsed
  <2>3. IsSeq(Pack.findings) /\ Apart(Pack.findings)
    <3>1. IsPack(Pack) /\ Joined(Pack, nextId)
      BY <1>c, <2>1 DEF Observing
    <3> QED BY <2>2, <3>1 DEF IsPack, AreFindings, Joined, Known
  <2>4. JobsApart(jobs')
    BY <2>1, <2>3, PlansApart
  <2> QED BY <2>1, <2>2, <2>4, <1>a, UnderwayStarts
<1>7. CASE ObserveTool
  <2>1. pc = "tools" /\ jobs # <<>> /\ packs' = packs /\ jobs' = Tail(jobs) /\ pc' = pc
    BY <1>7 DEF ObserveTool
  <2>2. Underway /\ IsSeq(jobs) /\ RunsOf(Pack.findings) \subseteq 0..(nextId - 1)
    BY <1>d, <2>1
  <2>3. PICK r : /\ JobsResult(Head(jobs), r) /\ results' = Append(results, r)
                 /\ nextId' \in {nextId, nextId + 1} /\ (Found(r) => nextId' = nextId + 1)
    BY <1>0, <1>7, <2>2, ObservedJob DEF Underway
  <2>4. Pack' = Pack
    BY <1>7 DEF ObserveTool, Pack, Dir, Single
  <2>5. Underway'
    BY <1>0, <2>1, <2>2, <2>3, <2>4, UnderwayGoesOn DEF AreResults
  <2> QED BY <2>1, <2>3, <2>5, <1>a
<1>8. CASE FinishEscalation
  <2>1. PICK f \in Promotions([Pack EXCEPT !.results = results], results, present) :
             packs' = [packs EXCEPT ![Dir] = f.pack]
    BY <1>8 DEF FinishEscalation
  <2>2. pc = "tools" /\ nextId' = nextId /\ pc' \notin {"tools", "command"}
    BY <1>8 DEF FinishEscalation, End
  <2>3. HasFiles(Pack) /\ AreFindings(Pack.findings) /\ Joined(Pack, nextId) /\ Underway
    BY <1>d, <2>2
  <2>4. Joined(f.pack, nextId)
    BY <1>0, <2>1, <2>3, PromotedJoined DEF Underway
  <2> QED BY <2>1, <2>2, <2>4, <1>b
<1>9. ASSUME NEW tool, EscalateCommand(tool)
      PROVE  Ids'
  <2>1. /\ packs' = packs /\ nextId' = nextId /\ results' = <<>>
        /\ \/ pc' \notin {"tools", "command"}
           \/ jobs' = PlannedJobs(packs[0].findings, tool) /\ packs[0].findings # None
    BY <1>9 DEF EscalateCommand, Command, Begin, End
  <2>2. packs[0].findings # None => IsSeq(packs[0].findings) /\ Apart(packs[0].findings)
    BY <1>0 DEF Packs, Ids, IsPack, AreFindings, Joined, Known
  <2>3. packs[0].findings # None => JobsApart(PlannedJobs(packs[0].findings, tool))
    BY <2>2, PlansApart
  <2> QED BY <2>1, <2>3, <1>a, UnderwayStarts
<1>10. ASSUME NEW tool, NEW checkClean, ScanCommand(tool, checkClean)
       PROVE  Ids'
  <2>1. /\ packs' = packs /\ nextId' = nextId /\ results' = <<>>
        /\ pc' \notin {"tools", "command"} \/ jobs' = <<Scan(tool)>>
    BY <1>10 DEF ScanCommand, Command, Begin, End
  <2>2. JobsApart(<<Scan(tool)>>)
    BY PlansApart
  <2> QED BY <2>1, <2>2, <1>a, UnderwayStarts
<1>11. CASE CommandTool
  <2>1. pc = "command" /\ jobs # <<>> /\ packs' = packs /\ nextId' = nextId + 1
    BY <1>11 DEF CommandTool
  <2>2. Underway /\ IsSeq(jobs) /\ RunsOf(Pack.findings) \subseteq 0..(nextId - 1)
    BY <1>d, <2>1
  <2>3. pc' \in {"command", "idle"}
    BY <1>0, <1>11, <2>1, ResultsOfCommandTool DEF End
  <2>4. Pack' = Pack
    BY <1>11 DEF CommandTool, Pack, Dir, Single
  <2>5. CASE pc' = "command"
    <3>1. PICK r : /\ JobsResult(Head(jobs), r) /\ results' = Append(results, r)
                   /\ jobs' = Tail(jobs)
      BY <1>0, <1>11, <2>5, CommandedJob
    <3>2. Underway'
      BY <1>0, <2>1, <2>2, <2>4, <3>1, UnderwayGoesOn DEF AreResults
    <3> QED BY <2>1, <3>2, <1>a
  <2>6. CASE pc' = "idle"
    BY <2>1, <2>6, <1>a
  <2> QED BY <2>3, <2>5, <2>6
<1>12. CASE SkipFinding
  <2>1. /\ pc = "command" /\ jobs # <<>> /\ packs' = packs /\ nextId' = nextId
        /\ results' = results /\ jobs' = Tail(jobs)
    BY <1>12 DEF SkipFinding
  <2>2. Underway /\ IsSeq(jobs)
    BY <1>d, <2>1
  <2>3. Pack' = Pack
    BY <1>12 DEF SkipFinding, Pack, Dir, Single
  <2> QED BY <2>1, <2>2, <2>3, <1>a, UnderwaySkips
<1>13. CASE FinishCommand
  <2>1. PICK f \in Promotions([packs[0] EXCEPT !.results = results], results, present) :
             packs' = [packs EXCEPT ![0] = f.pack]
    BY <1>13 DEF FinishCommand
  <2>2. pc = "command" /\ nextId' = nextId /\ pc' \notin {"tools", "command"}
    BY <1>13 DEF FinishCommand, End
  <2>3. /\ HasFiles(packs[0]) /\ AreFindings(packs[0].findings) /\ Joined(packs[0], nextId)
        /\ OneEach(results) /\ NewRuns(results, packs[0].findings, nextId)
    BY <1>d, <2>2 DEF Underway
  <2>4. Joined(f.pack, nextId)
    BY <1>0, <2>1, <2>3, PromotedJoined
  <2> QED BY <2>1, <2>2, <2>4, <1>b
<1>14. CASE ReplayCommand
  <2>1. PICK replay : packs' = [packs EXCEPT ![0].replay = replay]
    BY <1>14 DEF ReplayCommand
  <2> DEFINE p == [packs[0] EXCEPT !.replay = replay]
  <2>2. /\ packs' = [packs EXCEPT ![0] = p] /\ nextId' = nextId
        /\ pc' \notin {"tools", "command"}
    BY <1>0, <1>14, <2>1 DEF ReplayCommand, End
  <2>3. HasFiles(packs[0]) /\ Joined(packs[0], nextId)
    BY <1>0 DEF Packs, IsPack, Ids
  <2>4. /\ p.findings = packs[0].findings /\ p.evidence = packs[0].evidence
        /\ p.results = packs[0].results
    BY <2>3 DEF HasFiles, EmptyPack
  <2> HIDE DEF p
  <2>5. Joined(p, nextId)
    BY <2>3, <2>4 DEF Joined
  <2> QED BY <2>2, <2>5, <1>b
<1>15. CASE Select \/ PlanNothing \/ WriteSummary \/ RecordAttempt \/ PublishRepeat \/ PublishRun
            \/ Killed \/ RemoveTarget
  <2>1. packs' = packs /\ nextId' = nextId /\ pc' \notin {"tools", "command"}
    BY <1>15 DEF Select, PlanNothing, WriteSummary, RecordAttempt, PublishRepeat, PublishRun,
         Killed, RemoveTarget, Command, End
  <2> QED BY <2>1, <1>a
<1>16. CASE UNCHANGED vars
  <2>1. /\ packs' = packs /\ nextId' = nextId /\ pc' = pc /\ jobs' = jobs
        /\ results' = results /\ request' = request /\ attempt' = attempt
    BY <1>16 DEF vars
  <2>2. Pack' = Pack
    BY <2>1 DEF Pack, Dir, Single
  <2>3. Underway => Underway'
    BY <2>1, <2>2 DEF Underway
  <2> QED BY <2>1, <2>3, <1>a DEF Ids
<1> QED BY <1>1, <1>2, <1>3, <1>4, <1>5, <1>6, <1>7, <1>8, <1>9, <1>10, <1>11, <1>12, <1>13, <1>14,
         <1>15, <1>16 DEF Next

(* Whatever summarize says of a finding, it says of one result: the only   *)
(* one for its id.                                                         *)
LEMMA LinkedIsMapped ==
  ASSUME NEW rs, IsSeq(rs), OneEach(rs), NEW id, id \notin Reserved,
         LinkedResult(rs, id) # None
  PROVE  EscalationSummary(rs).by_finding[id] = LinkedResult(rs, id)
<1>1. PICK k \in DOMAIN rs : rs[k].finding = id
  BY DEF LinkedResult, ResultsFor
<1>2. ResultsFor(rs, id) = {k}
  BY <1>1 DEF ResultsFor, OneEach
<1>3. k \in Nat
  BY <1>1, SeqFacts
<1>4. Min({k}) = k /\ Max({k}) = k
  BY <1>3 DEF Min, Max
<1>5. id \in {r.finding : r \in ToSet(rs)}
  BY <1>1 DEF ToSet
<1>6. EscalationSummary(rs).by_finding[id] = CompactResult(rs[k])
  BY <1>2, <1>4, <1>5 DEF EscalationSummary
<1>7. LinkedResult(rs, id) = CompactResult(rs[k])
  BY <1>2, <1>4 DEF LinkedResult
<1> QED BY <1>6, <1>7

(* Findings, results and summaries are joined by ids that tell the         *)
(* findings apart (JoinedById), when the ids of the agent do.              *)
THEOREM FindingsJoined ==
  ASSUME NoneIsNothing
  PROVE  Spec => []JoinedById
<1>1. ASSUME Ids, NEW i \in DOMAIN packs, packs[i].findings # None
      PROVE  LET fs == packs[i].findings
                 answer == AgentSummary(packs[i])
             IN /\ \A j, k \in DOMAIN fs : fs[j].id = fs[k].id => j = k
                /\ ToolFindingsOnce(fs)
                /\ packs[i].evidence # None =>
                     \A f \in ToSet(answer.findings) :
                       f.result # None => answer.escalation.by_finding[f.finding.id] = f.result
  <2> DEFINE p == packs[i]
             answer == AgentSummary(p)
             rs == IF p.results = None THEN <<>> ELSE p.results
  <2>1. Joined(p, nextId)
    BY <1>1 DEF Ids
  <2>2. Apart(p.findings)
    BY <1>1, <2>1 DEF Joined
  <2>3. ASSUME p.evidence # None, NEW f \in ToSet(answer.findings), f.result # None
        PROVE  answer.escalation.by_finding[f.finding.id] = f.result
    <3>1. answer.findings =
            [k \in DOMAIN p.evidence.findings |->
               [finding |-> p.evidence.findings[k],
                result |-> LinkedResult(rs, p.evidence.findings[k].id)]]
      BY DEF AgentSummary
    <3>2. answer.escalation = EscalationSummary(rs)
      BY DEF AgentSummary
    <3> HIDE DEF answer, rs
    <3>3. PICK k \in DOMAIN p.evidence.findings :
            /\ f.finding = p.evidence.findings[k]
            /\ f.result = LinkedResult(rs, p.evidence.findings[k].id)
      BY <2>3, <3>1 DEF ToSet
    <3>4. f.finding.id \notin Reserved
      BY <2>1, <2>3, <3>3 DEF Joined
    <3>5. IsSeq(rs) /\ OneEach(rs)
      BY <2>1 DEF rs, Joined, OneEach, IsSeq, ToSet
    <3> QED BY <2>3, <3>2, <3>3, <3>4, <3>5, LinkedIsMapped
  <2> QED BY <2>2, <2>3 DEF Apart
<1>2. Ids => JoinedById
  BY <1>1 DEF JoinedById
<1>3. Init => IInv /\ Ids
  BY InitInv, IdsInit
<1>4. IInv /\ Ids /\ [Next]_vars => IInv' /\ Ids'
  BY NextInv, IdsKept
<1> QED BY <1>2, <1>3, <1>4, PTL DEF Spec

----------------------------------------------------------------------------
(* Sums over finite sets: MapThenSumSet is a recursion over subsets, taken *)
(* element by element.                                                     *)

Pick(s) == CHOOSE x \in s : TRUE

(* The recursion, with the summands in a function. *)
Sums(h, g, S) ==
  h = [s \in SUBSET S |-> IF s = {} THEN 0 ELSE g[Pick(s)] + h[s \ {Pick(s)}]]

Total(g, S) == (CHOOSE h : Sums(h, g, S))[S]

(* A set that is not empty has an element to pick, and one element less    *)
(* without it.                                                             *)
LEMMA PickOne ==
  ASSUME NEW s, IsFiniteSet(s), s # {}
  PROVE  /\ Pick(s) \in s /\ IsFiniteSet(s \ {Pick(s)})
         /\ Cardinality(s) \in Nat \ {0}
         /\ Cardinality(s \ {Pick(s)}) = Cardinality(s) - 1
<1>1. Pick(s) \in s
  BY DEF Pick
<1> QED BY <1>1, FS_RemoveElement, FS_CardinalityType, FS_EmptySet

(* Subsets of a finite set with at most so many elements. *)
UpTo(S, m) == {s \in SUBSET S : Cardinality(s) <= m}

(* There is such a recursion.                                              *)
LEMMA SumsExist ==
  ASSUME NEW S, IsFiniteSet(S), NEW g
  PROVE  \E h : Sums(h, g, S)
<1> DEFINE n == Cardinality(S)
           Value(h, s) == IF s = {} THEN 0 ELSE g[Pick(s)] + h[s \ {Pick(s)}]
           Is(h, m) == h = [s \in UpTo(S, m) |-> Value(h, s)]
           P == {m \in 0..n : \E h : Is(h, m)}
<1>1. n \in Nat /\ \A s \in SUBSET S : IsFiniteSet(s) /\ Cardinality(s) \in Nat /\ Cardinality(s) <= n
  BY FS_CardinalityType, FS_Subset
<1>2. 0 \in P
  <2> DEFINE h == [s \in UpTo(S, 0) |-> 0]
  <2>1. \A s \in UpTo(S, 0) : s = {}
    BY <1>1, FS_EmptySet DEF UpTo
  <2>2. Is(h, 0)
    BY <2>1
  <2>3. \E k : Is(k, 0)
    BY <2>2
  <2> HIDE DEF Is
  <2> QED BY <1>1, <2>3
<1>3. ASSUME NEW m \in 1..n, m - 1 \in P
      PROVE  m \in P
  <2>1. PICK a : Is(a, m - 1)
    BY <1>3
  <2> DEFINE h == [s \in UpTo(S, m) |-> Value(a, s)]
  <2>2. \A s \in UpTo(S, m) : s # {} => s \ {Pick(s)} \in UpTo(S, m - 1)
    BY <1>1, PickOne DEF UpTo
  <2>3. \A s \in UpTo(S, m - 1) : s \in UpTo(S, m)
    BY <1>1 DEF UpTo
  <2>4. \A s \in UpTo(S, m - 1) : h[s] = a[s]
    BY <2>1, <2>3
  <2>5. \A s \in UpTo(S, m) : Value(a, s) = Value(h, s)
    <3> HIDE DEF h
    <3> QED BY <2>2, <2>4
  <2>6. Is(h, m)
    <3> HIDE DEF Value
    <3>1. h = [s \in UpTo(S, m) |-> h[s]]
      OBVIOUS
    <3>2. \A s \in UpTo(S, m) : h[s] = Value(h, s)
      BY <2>5
    <3> HIDE DEF h
    <3> QED BY <3>1, <3>2
  <2> HIDE DEF Is
  <2> QED BY <2>6
<1> HIDE DEF P
<1>4. \A m \in 0..n : m \in P
  BY <1>1, <1>2, <1>3, AllRounds
<1>5. n \in P
  BY <1>1, <1>4
<1>6. PICK h : Is(h, n)
  BY <1>5 DEF P
<1>7. UpTo(S, n) = SUBSET S
  BY <1>1 DEF UpTo
<1>8. Sums(h, g, S)
  BY <1>6, <1>7 DEF Sums
<1> QED BY <1>8

(* And only one, on the subsets of any two sets.                           *)
LEMMA SumsAgree ==
  ASSUME NEW S, IsFiniteSet(S), NEW T, IsFiniteSet(T), NEW g, NEW h, Sums(h, g, S),
         NEW f, NEW k, Sums(k, f, T), \A x \in S \cap T : g[x] = f[x]
  PROVE  \A s \in SUBSET (S \cap T) : h[s] = k[s]
<1> DEFINE U == S \cap T
           n == Cardinality(U)
           P == {m \in 0..n : \A s \in UpTo(U, m) : h[s] = k[s]}
<1>0. IsFiniteSet(U)
  BY FS_Subset
<1>1. n \in Nat /\ \A s \in SUBSET U : IsFiniteSet(s) /\ Cardinality(s) \in Nat /\ Cardinality(s) <= n
  BY <1>0, FS_CardinalityType, FS_Subset
<1>2. \A s \in SUBSET U :
        /\ h[s] = IF s = {} THEN 0 ELSE g[Pick(s)] + h[s \ {Pick(s)}]
        /\ k[s] = IF s = {} THEN 0 ELSE f[Pick(s)] + k[s \ {Pick(s)}]
  <2> TAKE s \in SUBSET U
  <2>1. s \in SUBSET S /\ s \in SUBSET T
    OBVIOUS
  <2> QED BY <2>1 DEF Sums
<1>3. 0 \in P
  <2>1. \A s \in UpTo(U, 0) : s = {}
    BY <1>1, FS_EmptySet DEF UpTo
  <2>2. \A s \in UpTo(U, 0) : h[s] = k[s]
    BY <1>2, <2>1
  <2> QED BY <1>1, <2>2
<1>4. ASSUME NEW m \in 1..n, m - 1 \in P
      PROVE  m \in P
  <2>1. ASSUME NEW s \in UpTo(U, m), s # {}
        PROVE  h[s] = k[s]
    <3>1. s \in SUBSET U /\ IsFiniteSet(s)
      BY <1>1 DEF UpTo
    <3>2. Pick(s) \in U /\ s \ {Pick(s)} \in UpTo(U, m - 1)
      BY <1>1, <2>1, <3>1, PickOne DEF UpTo
    <3>3. h[s \ {Pick(s)}] = k[s \ {Pick(s)}] /\ g[Pick(s)] = f[Pick(s)]
      BY <1>4, <3>2
    <3> QED BY <1>2, <2>1, <3>1, <3>3
  <2>2. \A s \in UpTo(U, m) : h[s] = k[s]
    <3> TAKE s \in UpTo(U, m)
    <3>1. CASE s = {}
      BY <1>2, <3>1
    <3> QED BY <2>1, <3>1
  <2> QED BY <1>1, <2>2
<1> HIDE DEF P
<1>5. \A m \in 0..n : m \in P
  BY <1>1, <1>3, <1>4, AllRounds
<1>6. n \in P
  BY <1>1, <1>5
<1> QED BY <1>1, <1>6 DEF P, UpTo

(* Whatever recursion gives the sum of a set, it is this one.              *)
LEMMA TotalIs ==
  ASSUME NEW S, IsFiniteSet(S), NEW g, NEW h, Sums(h, g, S), NEW T \in SUBSET S
  PROVE  h[T] = Total(g, T)
<1>1. IsFiniteSet(T) /\ S \cap T = T
  BY FS_Subset
<1>2. PICK k : Sums(k, g, T)
  BY <1>1, SumsExist
<1>3. Sums(CHOOSE k1 : Sums(k1, g, T), g, T)
  BY <1>2
<1> DEFINE k2 == CHOOSE k1 : Sums(k1, g, T)
<1> HIDE DEF k2
<1>4. h[T] = k2[T]
  BY <1>1, <1>3, SumsAgree DEF k2
<1> QED BY <1>4 DEF Total, k2

(* The sum of the library. *)
LEMMA SumOfCounts ==
  ASSUME NEW S, IsFiniteSet(S)
  PROVE  OccurrenceCount(S) = Total([i \in S |-> i.count], S)
<1> DEFINE g == [i \in S |-> i.count]
           Is(h) == h = [s \in SUBSET S |->
                           IF s = {} THEN 0
                           ELSE (CHOOSE x \in s : TRUE).count + h[s \ {CHOOSE x \in s : TRUE}]]
<1>1. \A h : Is(h) <=> Sums(h, g, S)
  BY DEF Sums, Pick
<1> HIDE DEF g
<1>2. PICK h : Sums(h, g, S)
  BY SumsExist
<1>3. OccurrenceCount(S) = (CHOOSE k : Is(k))[S]
  BY DEF OccurrenceCount, MapThenSumSet, MapThenFoldSet
<1> HIDE DEF Is
<1>4. Is(CHOOSE k : Is(k))
  BY <1>1, <1>2
<1>5. Sums(CHOOSE k : Is(k), g, S)
  BY <1>1, <1>4
<1> QED BY <1>3, <1>5, TotalIs DEF g

(* Any element can be taken first.                                         *)
LEMMA SumsTakeAny ==
  ASSUME NEW S, IsFiniteSet(S), NEW g, \A x \in S : g[x] \in Nat, NEW h, Sums(h, g, S)
  PROVE  \A s \in SUBSET S : h[s] \in Nat /\ \A x \in s : h[s] = g[x] + h[s \ {x}]
<1> DEFINE n == Cardinality(S)
           Fine(s) == h[s] \in Nat /\ \A x \in s : h[s] = g[x] + h[s \ {x}]
           P == {m \in 0..n : \A s \in UpTo(S, m) : Fine(s)}
<1>1. n \in Nat /\ \A s \in SUBSET S : IsFiniteSet(s) /\ Cardinality(s) \in Nat /\ Cardinality(s) <= n
  BY FS_CardinalityType, FS_Subset
<1>2. \A s \in SUBSET S : h[s] = IF s = {} THEN 0 ELSE g[Pick(s)] + h[s \ {Pick(s)}]
  BY DEF Sums
<1>3. 0 \in P
  <2>1. \A s \in UpTo(S, 0) : s = {}
    BY <1>1, FS_EmptySet DEF UpTo
  <2>2. h[{}] = 0
    BY <1>2
  <2>3. \A s \in UpTo(S, 0) : Fine(s)
    <3> TAKE s \in UpTo(S, 0)
    <3>1. s = {}
      BY <2>1
    <3>2. h[s] \in Nat
      BY <2>2, <3>1
    <3> QED BY <3>1, <3>2
  <2> QED BY <1>1, <2>3
<1>4. ASSUME NEW m \in 1..n, m - 1 \in P
      PROVE  m \in P
  <2>1. ASSUME NEW s \in UpTo(S, m), s # {}
        PROVE  Fine(s)
    <3> DEFINE p == Pick(s)
    <3>1. s \in SUBSET S /\ IsFiniteSet(s)
      BY <1>1 DEF UpTo
    <3>2. p \in s /\ s \ {p} \in UpTo(S, m - 1)
      BY <1>1, <2>1, <3>1, PickOne DEF UpTo
    <3>3. Fine(s \ {p}) /\ g[p] \in Nat /\ h[s] = g[p] + h[s \ {p}]
      BY <1>2, <1>4, <2>1, <3>1, <3>2
    <3> HIDE DEF p
    <3>4. ASSUME NEW x \in s, x # p
          PROVE  h[s] = g[x] + h[s \ {x}]
      <4> DEFINE r == s \ {x}
                 q == s \ {p}
                 b == q \ {x}
      <4>1. x \in q /\ p \in r /\ r \ {p} = b
        BY <3>2, <3>4
      <4>2. h[q] = g[x] + h[b]
        BY <3>3, <4>1
      <4>3. r \in UpTo(S, m - 1)
        <5>1. Cardinality(r) = Cardinality(s) - 1
          BY <3>1, FS_RemoveElement
        <5> QED BY <1>1, <3>1, <5>1 DEF UpTo
      <4>4. h[r] = g[p] + h[b]
        BY <1>4, <4>1, <4>3
      <4>5. b \in UpTo(S, m - 1)
        <5>1. b \in SUBSET S /\ b \in SUBSET r /\ IsFiniteSet(r)
          BY <1>1, <4>3 DEF UpTo
        <5>2. Cardinality(b) <= Cardinality(r)
          BY <5>1, FS_Subset
        <5> QED BY <1>1, <4>3, <5>1, <5>2 DEF UpTo
      <4>6. h[b] \in Nat /\ g[x] \in Nat
        BY <1>4, <3>1, <4>5
      <4> HIDE DEF b, q, r
      <4>7. h[s] = g[p] + h[q]
        BY <3>3 DEF q
      <4>8. h[s] = g[x] + h[r]
        BY <3>3, <4>2, <4>4, <4>6, <4>7
      <4> QED BY <4>8 DEF r
    <3>5. h[s \ {p}] \in Nat
      BY <3>3
    <3>6. h[s] \in Nat /\ h[s] = g[p] + h[s \ {p}]
      BY <3>3, <3>5
    <3>7. \A x \in s : h[s] = g[x] + h[s \ {x}]
      BY <3>4, <3>6
    <3> QED BY <3>6, <3>7
  <2>2. h[{}] = 0
    BY <1>2
  <2>3. \A s \in UpTo(S, m) : Fine(s)
    <3> TAKE s \in UpTo(S, m)
    <3>1. CASE s = {}
      BY <2>2, <3>1
    <3> QED BY <2>1, <3>1
  <2> QED BY <1>1, <2>3
<1> HIDE DEF P
<1>5. \A m \in 0..n : m \in P
  BY <1>1, <1>3, <1>4, AllRounds
<1>6. n \in P
  BY <1>1, <1>5
<1> QED BY <1>1, <1>6 DEF P, UpTo

(* From a set, its own element.                                            *)
LEMMA SumsTakeOne ==
  ASSUME NEW S, IsFiniteSet(S), NEW g, \A x \in S : g[x] \in Nat, NEW h, Sums(h, g, S),
         NEW x \in S
  PROVE  h[S] \in Nat /\ h[S] = g[x] + h[S \ {x}]
<1>1. S \in SUBSET S
  OBVIOUS
<1>2. h[S] \in Nat /\ \A y \in S : h[S] = g[y] + h[S \ {y}]
  BY <1>1, SumsTakeAny
<1> QED BY <1>2

(* One more element: its summand more.                                     *)
LEMMA TotalAdd ==
  ASSUME NEW S, IsFiniteSet(S), NEW x, x \notin S, NEW g, \A y \in S \cup {x} : g[y] \in Nat
  PROVE  Total(g, S \cup {x}) = g[x] + Total(g, S)
<1> DEFINE T == S \cup {x}
<1>1. IsFiniteSet(T) /\ T \ {x} = S /\ T \in SUBSET T /\ S \in SUBSET T /\ x \in T
  BY FS_AddElement
<1> HIDE DEF T
<1>2. PICK h : Sums(h, g, T)
  BY <1>1, SumsExist
<1>3. h[T] = g[x] + h[S]
  <2>1. \A y \in T : g[y] \in Nat
    BY DEF T
  <2>2. h[T] = g[x] + h[T \ {x}]
    BY <1>1, <1>2, <2>1, SumsTakeOne
  <2> QED BY <1>1, <2>2
<1> QED BY <1>1, <1>2, <1>3, TotalIs DEF T

(* A sum of naturals is one.                                               *)
LEMMA TotalNat ==
  ASSUME NEW S, IsFiniteSet(S), NEW g, \A x \in S : g[x] \in Nat
  PROVE  Total(g, S) \in Nat
<1>1. PICK h : Sums(h, g, S)
  BY SumsExist
<1>2. h[S] \in Nat
  BY <1>1, SumsTakeAny
<1> QED BY <1>1, <1>2, TotalIs

(* Nothing adds up to zero.                                                *)
LEMMA TotalEmpty ==
  ASSUME NEW g
  PROVE  Total(g, {}) = 0
<1>1. IsFiniteSet({})
  BY FS_EmptySet
<1>2. PICK h : Sums(h, g, {})
  BY <1>1, SumsExist
<1>3. h[{}] = 0
  BY <1>2 DEF Sums
<1> QED BY <1>1, <1>2, <1>3, TotalIs

(* The same summands, the same sum.                                        *)
LEMMA TotalSame ==
  ASSUME NEW S, IsFiniteSet(S), NEW f, NEW g, \A x \in S : f[x] = g[x]
  PROVE  Total(f, S) = Total(g, S)
<1>1. PICK h : Sums(h, f, S)
  BY SumsExist
<1>2. PICK k : Sums(k, g, S)
  BY SumsExist
<1>3. h[S] = k[S]
  BY <1>1, <1>2, SumsAgree
<1> QED BY <1>1, <1>2, <1>3, TotalIs

(* How often a class has been found in an attempt. *)
InRow(rs, c) == [i \in DOMAIN rs |-> IF c \in DOMAIN rs[i].classes THEN rs[i].classes[c] ELSE 0]

(* The sums of the summaries.                                              *)
LEMMA SumOfClasses ==
  ASSUME NEW rs, IsFiniteSet(DOMAIN rs)
  PROVE  FindingTotals(rs) = [c \in UNION {DOMAIN rs[i].classes : i \in DOMAIN rs} |->
                                Total(InRow(rs, c), DOMAIN rs)]
<1> SUFFICES ASSUME NEW c \in UNION {DOMAIN rs[i].classes : i \in DOMAIN rs}
             PROVE  FindingTotals(rs)[c] = Total(InRow(rs, c), DOMAIN rs)
  BY DEF FindingTotals
<1> DEFINE S == DOMAIN rs
           g == InRow(rs, c)
           At(i) == IF c \in DOMAIN rs[i].classes THEN rs[i].classes[c] ELSE 0
           Is(h) == h = [s \in SUBSET S |->
                           IF s = {} THEN 0
                           ELSE At(CHOOSE x \in s : TRUE) + h[s \ {CHOOSE x \in s : TRUE}]]
<1>1. ASSUME NEW h
      PROVE  Is(h) <=> Sums(h, g, S)
  <2>1. \A s \in SUBSET S : s # {} => Pick(s) \in S
    BY DEF Pick
  <2>2. \A x \in S : g[x] = At(x)
    BY DEF InRow
  <2> DEFINE Left(s) == IF s = {} THEN 0 ELSE At(Pick(s)) + h[s \ {Pick(s)}]
             Right(s) == IF s = {} THEN 0 ELSE g[Pick(s)] + h[s \ {Pick(s)}]
  <2> HIDE DEF At, g, S
  <2>3. \A s \in SUBSET S : Left(s) = Right(s)
    BY <2>1, <2>2
  <2>4. Is(h) <=> h = [s \in SUBSET S |-> Left(s)]
    BY DEF Pick
  <2>5. Sums(h, g, S) <=> h = [s \in SUBSET S |-> Right(s)]
    BY DEF Sums
  <2> HIDE DEF Left, Right, Is
  <2> QED BY <2>3, <2>4, <2>5
<1>3. FindingTotals(rs)[c] = (CHOOSE k : Is(k))[S]
  BY DEF FindingTotals, MapThenSumSet, MapThenFoldSet
<1> HIDE DEF g, S
<1>2. PICK h : Sums(h, g, S)
  BY SumsExist DEF S
<1> HIDE DEF Is
<1>4. Is(CHOOSE k : Is(k))
  BY <1>1, <1>2
<1>5. Sums(CHOOSE k : Is(k), g, S)
  BY <1>1, <1>4
<1> QED BY <1>3, <1>5, TotalIs DEF g, S

(* The rows of the repeat summary have the counts of the rows they are of. *)
LEMMA SameFindingTotals ==
  ASSUME NEW rs, NEW as, DOMAIN as = DOMAIN rs, IsFiniteSet(DOMAIN rs),
         \A i \in DOMAIN rs : as[i].classes = rs[i].classes
  PROVE  FindingTotals(as) = FindingTotals(rs)
<1>1. UNION {DOMAIN as[i].classes : i \in DOMAIN as} = UNION {DOMAIN rs[i].classes : i \in DOMAIN rs}
  OBVIOUS
<1>2. \A c : Total(InRow(as, c), DOMAIN as) = Total(InRow(rs, c), DOMAIN rs)
  BY DEF InRow
<1> QED BY <1>1, <1>2, SumOfClasses

----------------------------------------------------------------------------
(* The issue groups of a repeated observe.                                 *)

(* The groups of a crashpack, if it has any, are those of its findings,    *)
(* and each of these has its fingerprint; one with a manifest has groups.  *)
Sound(p) ==
  /\ p.groups # None =>
       /\ p.findings # None /\ p.groups = IssueGroups(p.findings)
       /\ \A f \in ToSet(p.findings) : f.fingerprint = Fingerprint(f)
  /\ p.manifest # None => p.groups # None

(* How many findings of a crashpack have a fingerprint. *)
Of(fs, fp) == {k \in DOMAIN fs : fs[k].fingerprint = fp}

(* In a crashpack with groups these are counted in the group, and without  *)
(* a group there are none.                                                 *)
LEMMA GroupCounts ==
  ASSUME NEW p, IsPack(p), Sound(p), p.groups # None, NEW fp
  PROVE  /\ Cardinality(Of(p.findings, fp)) \in Nat
         /\ fp \in DOMAIN p.groups <=> Cardinality(Of(p.findings, fp)) > 0
         /\ fp \in DOMAIN p.groups =>
              FindingCount(p.groups[fp]) = Cardinality(Of(p.findings, fp))
<1> DEFINE fs == p.findings
<1>1. IsSeq(fs)
  BY DEF Sound, IsPack, AreFindings, Known
<1>2. Len(fs) \in Nat /\ DOMAIN fs = 1..Len(fs)
  BY <1>1, SeqFacts
<1>3. IsFiniteSet(DOMAIN fs)
  BY <1>2, FS_Interval
<1>4. Of(fs, fp) \subseteq DOMAIN fs /\ IsFiniteSet(Of(fs, fp))
  BY <1>3, FS_Subset DEF Of
<1>5. /\ Cardinality(Of(fs, fp)) \in Nat
      /\ Cardinality(Of(fs, fp)) = 0 <=> Of(fs, fp) = {}
  BY <1>4, FS_CardinalityType, FS_EmptySet
<1>6. \A k \in DOMAIN fs : fs[k].fingerprint = Fingerprint(fs[k])
  BY DEF Sound, ToSet
<1>7. IndicesOf(fs, fp) = Of(fs, fp)
  BY <1>6 DEF IndicesOf, Of
<1>8. p.groups = IssueGroups(fs)
  BY DEF Sound
<1>9. DOMAIN p.groups = {Fingerprint(fs[k]) : k \in DOMAIN fs}
  BY <1>8 DEF IssueGroups
<1>10. fp \in DOMAIN p.groups <=> Of(fs, fp) # {}
  BY <1>6, <1>9 DEF Of
<1>11. fp \in DOMAIN p.groups => p.groups[fp].indices = IndicesOf(fs, fp)
  BY <1>8, <1>9 DEF IssueGroups
<1> HIDE DEF fs
<1>12. fp \in DOMAIN p.groups => FindingCount(p.groups[fp]) = Cardinality(Of(fs, fp))
  BY <1>7, <1>11 DEF FindingCount
<1> QED BY <1>5, <1>10, <1>12 DEF fs

(* The attempts among the first k that have issue groups, and all of these *)
(* groups.                                                                 *)
Grouped(k) == {i \in 1..k : packs[i].groups # None}
InputsUpTo(k) == UNION {AttemptInputs(i, packs[i].groups) : i \in Grouped(k)}

Seen(k, fp) == {j \in InputsUpTo(k) : j.fingerprint = fp}
Occurrence(fp) == [i \in DOMAIN packs |-> Cardinality(Of(packs[i].findings, fp))]

(* The group of one more attempt.                                          *)
LEMMA OneMoreAttempt ==
  ASSUME Packs, NEW k \in 1..MaxAttempts, Sound(packs[k]), NEW fp
  PROVE  \/ /\ k \in Grouped(k) /\ Grouped(k) = Grouped(k - 1) \cup {k}
            /\ Occurrence(fp)[k] \in Nat \ {0}
            /\ \E j : /\ Seen(k, fp) = Seen(k - 1, fp) \cup {j}
                      /\ j.attempt = k /\ j.count = Occurrence(fp)[k]
         \/ /\ k \in Grouped(k) /\ Grouped(k) = Grouped(k - 1) \cup {k}
            /\ Occurrence(fp)[k] = 0 /\ Seen(k, fp) = Seen(k - 1, fp)
         \/ Grouped(k) = Grouped(k - 1) /\ Seen(k, fp) = Seen(k - 1, fp)
<1> DEFINE p == packs[k]
           new == AttemptInputs(k, p.groups)
<1>0. /\ MaxAttempts \in Nat /\ k \in DOMAIN packs /\ IsPack(p)
      /\ 1..k = 1..(k - 1) \cup {k} /\ k \notin 1..(k - 1)
  BY Bounds DEF Packs
<1>1. CASE p.groups = None
  <2>1. Grouped(k) = Grouped(k - 1)
    BY <1>0, <1>1 DEF Grouped
  <2> QED BY <2>1 DEF Seen, InputsUpTo
<1>2. CASE p.groups # None
  <2>1. k \in Grouped(k) /\ Grouped(k) = Grouped(k - 1) \cup {k}
    BY <1>0, <1>2 DEF Grouped
  <2>2. InputsUpTo(k) = InputsUpTo(k - 1) \cup new
    BY <2>1 DEF InputsUpTo
  <2>3. Seen(k, fp) = Seen(k - 1, fp) \cup {j \in new : j.fingerprint = fp}
    BY <2>2 DEF Seen
  <2>4. Occurrence(fp)[k] = Cardinality(Of(p.findings, fp))
    BY <1>0 DEF Occurrence
  <2> HIDE DEF p
  <2>5. /\ Cardinality(Of(p.findings, fp)) \in Nat
        /\ fp \in DOMAIN p.groups <=> Cardinality(Of(p.findings, fp)) > 0
        /\ fp \in DOMAIN p.groups =>
             FindingCount(p.groups[fp]) = Cardinality(Of(p.findings, fp))
    BY <1>0, <1>2, GroupCounts DEF p
  <2>6. CASE fp \notin DOMAIN p.groups
    <3>1. {j \in new : j.fingerprint = fp} = {}
      BY <2>6 DEF AttemptInputs
    <3>2. Occurrence(fp)[k] = 0
      BY <2>4, <2>5, <2>6
    <3> QED BY <2>1, <2>3, <3>1, <3>2
  <2>7. CASE fp \in DOMAIN p.groups
    <3> DEFINE j == [fingerprint |-> fp, class |-> p.groups[fp].class, attempt |-> k,
                     count |-> FindingCount(p.groups[fp])]
    <3>1. {i \in new : i.fingerprint = fp} = {j}
      BY <2>7 DEF AttemptInputs
    <3>2. j.attempt = k /\ j.count = Occurrence(fp)[k]
      BY <2>4, <2>5, <2>7
    <3>3. Occurrence(fp)[k] \in Nat \ {0}
      BY <2>4, <2>5, <2>7
    <3> HIDE DEF j
    <3> QED BY <2>1, <2>3, <3>1, <3>2, <3>3
  <2> QED BY <2>6, <2>7
<1> QED BY <1>1, <1>2

(* An input is of an attempt of the first k.                               *)
LEMMA InputsAreOf ==
  ASSUME NEW k \in Nat, NEW fp, NEW j \in Seen(k, fp)
  PROVE  j.attempt \in 1..k
BY DEF Seen, InputsUpTo, Grouped, AttemptInputs

(* Counted in groups or in findings, it is the same number of occurrences, *)
(* and the same attempts.                                                  *)
LEMMA OccurrencesAddUp ==
  ASSUME Packs, NEW n \in 0..MaxAttempts, \A i \in 1..n : Sound(packs[i]), NEW fp
  PROVE  /\ IsFiniteSet(Seen(n, fp)) /\ IsFiniteSet(Grouped(n))
         /\ Total([j \in Seen(n, fp) |-> j.count], Seen(n, fp)) = Total(Occurrence(fp), Grouped(n))
         /\ {j.attempt : j \in Seen(n, fp)} = {i \in Grouped(n) : Occurrence(fp)[i] > 0}
<1> DEFINE occ == Occurrence(fp)
           S(k) == Seen(k, fp)
           cnt == [j \in S(n) |-> j.count]
           Right(k) == /\ IsFiniteSet(S(k)) /\ IsFiniteSet(Grouped(k)) /\ S(k) \subseteq S(n)
                       /\ \A j \in S(k) : cnt[j] \in Nat
                       /\ \A i \in Grouped(k) : occ[i] \in Nat
                       /\ Total(cnt, S(k)) = Total(occ, Grouped(k))
                       /\ {j.attempt : j \in S(k)} = {i \in Grouped(k) : occ[i] > 0}
           P == {k \in 0..n : Right(k)}
<1>0. n \in Nat /\ n <= MaxAttempts /\ MaxAttempts \in Nat
  BY Bounds
<1>1. \A k \in 0..n : Grouped(k) \subseteq Grouped(n) /\ S(k) \subseteq S(n)
  <2> TAKE k \in 0..n
  <2>1. 1..k \subseteq 1..n
    BY <1>0
  <2>2. Grouped(k) \subseteq Grouped(n)
    BY <2>1 DEF Grouped
  <2> QED BY <2>2 DEF Seen, InputsUpTo
<1>2. 0 \in P
  <2>1. Grouped(0) = {}
    BY DEF Grouped
  <2>2. S(0) = {}
    BY <2>1 DEF Seen, InputsUpTo
  <2>3. IsFiniteSet({})
    BY FS_EmptySet
  <2> HIDE DEF S, cnt, occ
  <2>4. Right(0)
    BY <2>1, <2>2, <2>3, TotalEmpty
  <2> QED BY <1>0, <2>4
<1>3. ASSUME NEW k \in 1..n, k - 1 \in P
      PROVE  k \in P
  <2>0. k \in 0..n /\ k - 1 \in 0..n /\ k - 1 \in Nat /\ k \in 1..MaxAttempts /\ Sound(packs[k])
    BY <1>0
  <2>1. Right(k - 1)
    BY <1>3
  <2>2. k \notin Grouped(k - 1) /\ \A j \in S(k - 1) : j.attempt # k
    <3>1. k \notin 1..(k - 1)
      BY <2>0
    <3> QED BY <2>0, <3>1, InputsAreOf DEF Grouped
  <2>3. S(k) \subseteq S(n) /\ \A j \in S(k) : cnt[j] = j.count
    BY <1>1, <2>0
  <2>4. \/ /\ k \in Grouped(k) /\ Grouped(k) = Grouped(k - 1) \cup {k}
           /\ occ[k] \in Nat \ {0}
           /\ \E j : S(k) = S(k - 1) \cup {j} /\ j.attempt = k /\ j.count = occ[k]
        \/ /\ k \in Grouped(k) /\ Grouped(k) = Grouped(k - 1) \cup {k}
           /\ occ[k] = 0 /\ S(k) = S(k - 1)
        \/ Grouped(k) = Grouped(k - 1) /\ S(k) = S(k - 1)
    BY <2>0, OneMoreAttempt
  <2> HIDE DEF S, cnt, occ
  <2>5. CASE /\ Grouped(k) = Grouped(k - 1) \cup {k} /\ occ[k] \in Nat \ {0}
             /\ \E j : S(k) = S(k - 1) \cup {j} /\ j.attempt = k /\ j.count = occ[k]
    <3>1. PICK j : S(k) = S(k - 1) \cup {j} /\ j.attempt = k /\ j.count = occ[k]
      BY <2>5
    <3>2. j \notin S(k - 1) /\ cnt[j] = occ[k]
      BY <2>2, <2>3, <3>1
    <3>3. Total(cnt, S(k)) = cnt[j] + Total(cnt, S(k - 1))
      BY <2>1, <2>5, <3>1, <3>2, TotalAdd
    <3>4. Total(occ, Grouped(k)) = occ[k] + Total(occ, Grouped(k - 1))
      BY <2>1, <2>2, <2>5, TotalAdd
    <3>5. IsFiniteSet(S(k)) /\ IsFiniteSet(Grouped(k))
      BY <2>1, <2>5, <3>1, FS_AddElement
    <3>6. {i.attempt : i \in S(k)} = {i.attempt : i \in S(k - 1)} \cup {k}
      BY <3>1
    <3>7. {i \in Grouped(k) : occ[i] > 0} = {i \in Grouped(k - 1) : occ[i] > 0} \cup {k}
      BY <2>5
    <3>8. Right(k)
      BY <2>1, <2>3, <2>5, <3>1, <3>2, <3>3, <3>4, <3>5, <3>6, <3>7
    <3> QED BY <2>0, <3>8
  <2>6. CASE /\ Grouped(k) = Grouped(k - 1) \cup {k} /\ occ[k] = 0 /\ S(k) = S(k - 1)
    <3>1. Total(occ, Grouped(k)) = occ[k] + Total(occ, Grouped(k - 1))
      BY <2>1, <2>2, <2>6, TotalAdd
    <3>2. IsFiniteSet(Grouped(k))
      BY <2>1, <2>6, FS_AddElement
    <3>3. Total(occ, Grouped(k - 1)) \in Nat
      BY <2>1, TotalNat
    <3>4. {i \in Grouped(k) : occ[i] > 0} = {i \in Grouped(k - 1) : occ[i] > 0}
      BY <2>6
    <3>5. Right(k)
      BY <2>1, <2>6, <3>1, <3>2, <3>3, <3>4
    <3> QED BY <2>0, <3>5
  <2>7. CASE Grouped(k) = Grouped(k - 1) /\ S(k) = S(k - 1)
    <3>1. Right(k)
      BY <2>1, <2>7
    <3> QED BY <2>0, <3>1
  <2> QED BY <2>4, <2>5, <2>6, <2>7
<1>4. n \in P
  <2> HIDE DEF P
  <2>1. \A k \in 0..n : k \in P
    BY <1>0, <1>2, <1>3, AllRounds
  <2> QED BY <1>0, <2>1
<1> QED BY <1>4

(* A finalize gives every finding its fingerprint.                         *)
LEMMA FinalNamed ==
  ASSUME NoneIsNothing, NEW pack, pack.findings # None => AreFindings(pack.findings),
         NEW crash \in {<<>>, <<CrashFinding(<<"crash">>)>>}
  PROVE  \A f \in ToSet(FinalFindings(pack, crash)) : f.fingerprint = Fingerprint(f)
<1> DEFINE new == FinalFindings(pack, crash)
<1>1. PICK x : new = Annotated(x)
  BY DEF FinalFindings
<1>2. AreFindings(new)
  BY FinalFindingsIs
<1> HIDE DEF new
<1>3. ASSUME NEW k \in DOMAIN new
      PROVE  new[k].fingerprint = Fingerprint(new[k])
  <2>1. IsFinding(new[k])
    BY <1>2 DEF AreFindings, ToSet
  <2>2. k \in DOMAIN x /\ new[k] = [x[k] EXCEPT !.fingerprint = Fingerprint(x[k])]
    BY <1>1 DEF Annotated
  <2>3. "fingerprint" \in DOMAIN x[k]
    BY <2>1, <2>2 DEF IsFinding, HasFields, CrashFinding
  <2>4. new[k].fingerprint = Fingerprint(x[k])
    BY <2>2, <2>3
  <2>5. Fingerprint(x[k]) # None
    BY DEF Fingerprint, NoneIsNothing
  <2> QED BY <2>1, <2>4, <2>5 DEF IsFinding, Known
<1> QED BY <1>3 DEF ToSet, new

(* A finalize that comes to its end leaves a sound crashpack.              *)
LEMMA FinalizedSound ==
  ASSUME NoneIsNothing, NEW pack, HasFiles(pack), NEW crash \in {<<>>, <<CrashFinding(<<"crash">>)>>},
         pack.findings # None => AreFindings(pack.findings)
  PROVE  Sound(Finalized(pack, crash))
<1> DEFINE p == Finalized(pack, crash)
<1>1. Intact(p) /\ p.findings = FinalFindings(pack, crash)
  BY FinalizedIs
<1>2. \A f \in ToSet(FinalFindings(pack, crash)) : f.fingerprint = Fingerprint(f)
  BY FinalNamed
<1> HIDE DEF p
<1>3. IssueGroups(p.findings) # None
  <2>1. IssueGroups(p.findings)
          = [fp \in DOMAIN IssueGroups(p.findings) |-> IssueGroups(p.findings)[fp]]
    BY DEF IssueGroups
  <2> QED BY <2>1 DEF NoneIsNothing
<1>4. Sound(p)
  BY <1>1, <1>2, <1>3 DEF Sound, Intact
<1> QED BY <1>4 DEF p

(* What a sequence begins with.                                            *)
LEMMA Beginning ==
  ASSUME NEW S, NEW s \in Seq(S), NEW k \in 0..Len(s)
  PROVE  /\ DOMAIN SubSeq(s, 1, k) = 1..k
         /\ \A i \in 1..k : SubSeq(s, 1, k)[i] = s[i]
<1>1. SubSeq(s, 1, k) \in Seq(S) /\ Len(SubSeq(s, 1, k)) = k
  OBVIOUS
<1>2. DOMAIN SubSeq(s, 1, k) = 1..k
  BY <1>1
<1>3. \A i \in 1..k : SubSeq(s, 1, k)[i] = s[i]
  OBVIOUS
<1> QED BY <1>2, <1>3

(* The groups are written after the findings that they are of, and before  *)
(* the manifest.                                                           *)
LEMMA GroupsComeLater ==
  ASSUME NEW k \in 0..Len(FinalizeOrder)
  PROVE  LET written == ToSet(SubSeq(FinalizeOrder, 1, k))
         IN ("groups" \in written => "findings" \in written)
            /\ ("manifest" \in written => "groups" \in written)
<1>1. FinalizeOrder \in Seq({"bin", "findings", "groups", "manifest", "deps", "libs", "evidence"})
  BY DEF FinalizeOrder
<1>2. /\ Len(FinalizeOrder) = 7
      /\ FinalizeOrder[2] = "findings" /\ FinalizeOrder[3] = "groups"
      /\ FinalizeOrder[1] \notin {"groups", "manifest"}
      /\ FinalizeOrder[2] # "manifest" /\ FinalizeOrder[3] # "manifest"
  BY DEF FinalizeOrder
<1> DEFINE s == SubSeq(FinalizeOrder, 1, k)
<1>3. DOMAIN s = 1..k /\ \A i \in 1..k : s[i] = FinalizeOrder[i]
  BY <1>1, Beginning
<1> HIDE DEF s
<1>4. ASSUME "groups" \in ToSet(s)
      PROVE  "findings" \in ToSet(s)
  <2>1. PICK i \in DOMAIN s : s[i] = "groups"
    BY <1>4 DEF ToSet
  <2>2. i \in 1..k /\ i # 1 /\ k \in Nat
    BY <1>2, <1>3, <2>1
  <2>3. 2 \in DOMAIN s /\ s[2] = "findings"
    BY <1>2, <1>3, <2>2
  <2> QED BY <2>3 DEF ToSet
<1>5. ASSUME "manifest" \in ToSet(s)
      PROVE  "groups" \in ToSet(s)
  <2>1. PICK i \in DOMAIN s : s[i] = "manifest"
    BY <1>5 DEF ToSet
  <2>2. i \in 1..k /\ i # 1 /\ i # 2 /\ k \in Nat
    BY <1>2, <1>3, <2>1
  <2>3. 3 \in DOMAIN s /\ s[3] = "groups"
    BY <1>2, <1>3, <2>2
  <2> QED BY <2>3 DEF ToSet
<1> QED BY <1>4, <1>5 DEF s

(* Nor does one that is broken off leave groups of other findings.         *)
LEMMA FinalizationsSound ==
  ASSUME NoneIsNothing, NEW pack, HasFiles(pack), NEW crash \in {<<>>, <<CrashFinding(<<"crash">>)>>},
         pack.findings # None => AreFindings(pack.findings),
         pack.groups = None, pack.manifest = None,
         NEW here, NEW f \in Finalizations(pack, crash, here)
  PROVE  Sound(f.pack)
<1> DEFINE final == Finalized(pack, crash)
<1>1. Sound(final) /\ HasFiles(final)
  BY FinalizedSound, FinalizedIs
<1>2. CASE f = Done(final)
  BY <1>1, <1>2 DEF Done
<1>3. CASE \E k \in 0..Len(FinalizeOrder) : f = Broken(WrittenSoFar(pack, final, k))
  <2>1. PICK k \in 0..Len(FinalizeOrder) : f = Broken(WrittenSoFar(pack, final, k))
    BY <1>3
  <2> DEFINE p == WrittenSoFar(pack, final, k)
             written == ToSet(SubSeq(FinalizeOrder, 1, k))
  <2>2. \A file \in DOMAIN pack : p[file] = IF file \in written THEN final[file] ELSE pack[file]
    BY DEF WrittenSoFar
  <2>3. ("groups" \in written => "findings" \in written)
        /\ ("manifest" \in written => "groups" \in written)
    BY GroupsComeLater
  <2>4. f.pack = p
    BY <2>1 DEF Broken
  <2>5. {"groups", "findings", "manifest"} \subseteq DOMAIN pack
    BY DEF HasFiles, EmptyPack
  <2> HIDE DEF p, final, written
  <2>6. /\ p.groups = IF "groups" \in written THEN final.groups ELSE None
        /\ p.findings = IF "findings" \in written THEN final.findings ELSE pack.findings
        /\ p.manifest = IF "manifest" \in written THEN final.manifest ELSE None
    BY <2>2, <2>5
  <2>7. /\ p.groups # None => p.groups = final.groups /\ p.findings = final.findings
        /\ p.manifest # None => p.groups = final.groups /\ p.manifest = final.manifest
    BY <2>3, <2>6
  <2> QED BY <1>1, <2>4, <2>7 DEF Sound
<1>4. \/ f = Done(final)
      \/ \E k \in 0..Len(FinalizeOrder) : f = Broken(WrittenSoFar(pack, final, k))
  <2>1. 0 \in 0..Len(FinalizeOrder)
    BY DEF FinalizeOrder
  <2> QED BY <2>1, StopsAreBetween DEF Finalizations
<1> QED BY <1>2, <1>3, <1>4

(* The crashpacks that an attempt can leave.                               *)
LEMMA EmptySound == Sound(EmptyPack)
BY DEF Sound, EmptyPack

LEMMA WrittenSound ==
  ASSUME NoneIsNothing, NEW pack, HasFiles(pack), NEW findings,
         NEW p \in {Prepared(pack), Described(pack), Written(pack, findings)}
  PROVE  Sound(p)
<1>1. Prepared(pack) = EmptyPack
  BY PreparedIs
<1>2. /\ EmptyPack.groups = None /\ Described(pack).groups = None
      /\ Written(pack, findings).groups = None
      /\ EmptyPack.manifest = None /\ Described(pack).manifest = None
      /\ Written(pack, findings).manifest = None
  BY <1>1 DEF Described, Written, EmptyPack
<1> QED BY <1>1, <1>2 DEF Sound

LEMMA EndedSound ==
  ASSUME NoneIsNothing, NEW pack, HasFiles(pack), NEW findings \in AgentFindings, NEW end,
         NEW f \in Finalizations([Written(pack, findings) EXCEPT !.console = TRUE],
                     IF end = "signal" THEN <<CrashFinding(<<"crash">>)>> ELSE <<>>, TRUE)
  PROVE  Sound(f.pack)
<1> DEFINE w == [Written(pack, findings) EXCEPT !.console = TRUE]
           crash == IF end = "signal" THEN <<CrashFinding(<<"crash">>)>> ELSE <<>>
<1>1. Written(pack, findings).groups = None /\ Written(pack, findings).manifest = None
  BY PreparedIs DEF Written, Described, EmptyPack
<1>2. /\ HasFiles(w) /\ w.groups = None /\ w.manifest = None
      /\ (w.findings # None => AreFindings(w.findings))
  BY <1>1, WrittenIs DEF HasFiles, EmptyPack
<1>3. crash \in {<<>>, <<CrashFinding(<<"crash">>)>>}
  OBVIOUS
<1>4. w.findings # None => AreFindings(w.findings)
  BY <1>2
<1>5. f \in Finalizations(w, crash, TRUE)
  OBVIOUS
<1> HIDE DEF w, crash
<1> QED BY <1>2, <1>3, <1>4, <1>5, FinalizationsSound

LEMMA FallbackSound ==
  ASSUME NoneIsNothing, NEW pack, HasFiles(pack), NEW here \in BOOLEAN, NEW f \in ToolOnlyPacks(pack, here)
  PROVE  Sound(f.pack)
<1> DEFINE start == [Prepared(pack) EXCEPT !.analysis = here]
<1>1. HasFiles(start) /\ start.findings = None /\ start.groups = None /\ start.manifest = None
  <2>1. Prepared(pack) = EmptyPack
    BY PreparedIs
  <2> QED BY <2>1 DEF HasFiles, EmptyPack
<1>2. PICK g \in Finalizations(start, <<>>, here) :
        f = IF g.ok THEN Done([g.pack EXCEPT !.console = TRUE]) ELSE g
  BY DEF ToolOnlyPacks
<1> HIDE DEF start
<1>3. Sound(g.pack) /\ HasFiles(g.pack)
  BY <1>1, <1>2, FinalizationsSound, FinalizationsAre
<1> DEFINE p == [g.pack EXCEPT !.console = TRUE]
<1>4. p.groups = g.pack.groups /\ p.findings = g.pack.findings /\ p.manifest = g.pack.manifest
  BY <1>3 DEF HasFiles, EmptyPack
<1>5. f.pack \in {p, g.pack}
  BY <1>2 DEF Done
<1> HIDE DEF p
<1> QED BY <1>3, <1>4, <1>5 DEF Sound

LEMMA PromotedSound ==
  ASSUME NoneIsNothing, NEW pack, HasFiles(pack), AreFindings(pack.findings), Sound(pack),
         NEW rs, AreResults(rs), NEW here,
         NEW f \in Promotions([pack EXCEPT !.results = rs], rs, here), f.ok
  PROVE  Sound(f.pack)
<1> DEFINE wide == [pack EXCEPT !.results = rs]
           new == WithToolFindings(wide.findings, rs)
           w == [wide EXCEPT !.findings = new]
<1>1. HasFiles(wide) /\ wide.findings = pack.findings /\ wide.groups = pack.groups
      /\ wide.manifest = pack.manifest
  BY DEF HasFiles, EmptyPack
<1>2. Sound(wide)
  <2> HIDE DEF wide
  <2> QED BY <1>1 DEF Sound
<1>3. AreFindings(new)
  <2> HIDE DEF wide
  <2> QED BY <1>1, ResultsDetected, WithToolsIs DEF Findings
<1>4. \/ f = Done(wide) \/ f = Broken(wide) \/ \E h : f \in Finalizations(w, <<>>, h)
  BY DEF Promotions
<1> HIDE DEF wide, new
<1>5. HasFiles(w) /\ w.findings = new
  BY <1>1 DEF HasFiles, EmptyPack
<1>6. Sound(Finalized(w, <<>>))
  BY <1>3, <1>5, FinalizedSound
<1> HIDE DEF w
<1>7. CASE \E h : f \in Finalizations(w, <<>>, h)
  <2>1. f.pack = Finalized(w, <<>>)
    BY <1>3, <1>5, <1>7, FinalizationsAre
  <2> QED BY <1>6, <2>1
<1> QED BY <1>2, <1>4, <1>7 DEF Done, Broken

----------------------------------------------------------------------------
(* The invariant: what the summaries of a repeated observe are made of.    *)

SoFar ==
  /\ pc # "clear" => \A i \in 1..MaxAttempts : Sound(packs[i])
  /\ inputs = InputsUpTo(Len(rows))
  /\ \A i \in DOMAIN rows : summaries[i].targets = <<rows[i]>>

RepeatWritten ==
  repeated = RepeatSummary(request.repeat, [i \in DOMAIN rows |-> RepeatAttempt(i, rows[i])],
                           inputs, request.policy, request.deep, selected)

(* An attempt without a reason keeps the summary of its native run.        *)
Grouping ==
  /\ pc = "start" => inputs = {}
  /\ Choosing =>
       /\ SoFar
       /\ pc \in {"plan", "tools"} => reason # None
       /\ pc = "record" /\ reason = None => summaries[attempt].targets = <<row>>
       /\ pc \in {"publish run", "idle"} => RepeatWritten
       /\ pc = "idle" => summaries[0] = RunSummary(rows)

(* A step that changes nothing of the finished attempts keeps what has     *)
(* been made of them.                                                      *)
LEMMA SoFarStays ==
  ASSUME Control, SoFar, inputs' = inputs, rows' = rows,
         \A i \in DOMAIN rows : summaries'[i] = summaries[i] /\ packs'[i] = packs[i],
         pc' # "clear" => \A i \in 1..MaxAttempts : Sound(packs'[i])
  PROVE  SoFar'
<1>1. DOMAIN rows = 1..Len(rows)
  BY SeqFacts DEF Control
<1>2. Grouped(Len(rows))' = Grouped(Len(rows))
  BY <1>1 DEF Grouped
<1>3. InputsUpTo(Len(rows))' = InputsUpTo(Len(rows))
  <2>1. \A i \in Grouped(Len(rows)) : packs'[i] = packs[i]
    BY <1>1 DEF Grouped
  <2> QED BY <1>2, <2>1 DEF InputsUpTo
<1>4. (\A i \in 1..MaxAttempts : Sound(packs[i]))' <=> \A i \in 1..MaxAttempts : Sound(packs'[i])
  BY DEF Sound
<1> QED BY <1>3, <1>4 DEF SoFar

(* An attempt that is under way changes its own crashpack.                 *)
LEMMA SoFarObserved ==
  ASSUME Control, Packs, SoFar, ~Single, pc \in Observing, pc # "clear", inputs' = inputs, rows' = rows,
         summaries' = summaries, NEW p, Sound(p), packs' = [packs EXCEPT ![Dir] = p]
  PROVE  SoFar'
<1>1. Dir = attempt /\ attempt \in 1..request.repeat /\ Len(rows) = attempt - 1
      /\ request.repeat \in 1..MaxAttempts
  BY DEF Control, Dir
<1>2. DOMAIN rows = 1..Len(rows)
  BY SeqFacts DEF Control
<1>3. attempt \notin DOMAIN rows /\ DOMAIN rows \subseteq DOMAIN packs
  BY <1>1, <1>2, Bounds DEF Packs
<1>4. \A i \in DOMAIN rows : packs'[i] = packs[i]
  BY <1>1, <1>3
<1>5. \A i \in 1..MaxAttempts : Sound(packs[i])
  BY DEF SoFar
<1>6. \A i \in 1..MaxAttempts : packs'[i] = p \/ packs'[i] = packs[i]
  BY <1>1, Bounds DEF Packs
<1>7. \A i \in 1..MaxAttempts : Sound(packs'[i])
  BY <1>5, <1>6
<1> QED BY <1>4, <1>7, SoFarStays

(* An attempt that is recorded: its groups and its row are with the others.*)
LEMMA SoFarRecorded ==
  ASSUME Control, Typed, Packs, ~Single, RecordAttempt, ~MissingGroups, SoFar,
         reason = None => summaries[attempt].targets = <<row>>
  PROVE  SoFar'
<1>0. /\ pc = "record" /\ packs' = packs /\ summaries' = AttemptSummaries
      /\ rows' = Append(rows, row)
      /\ inputs' = inputs \cup (IF Pack.groups = None THEN {}
                                ELSE AttemptInputs(attempt, Pack.groups))
  BY DEF RecordAttempt, Collected
<1>1. Pack = packs[attempt]
  BY DEF Pack, Dir
<1>2. attempt \in 1..request.repeat /\ Len(rows) = attempt - 1
      /\ request.repeat \in 1..MaxAttempts /\ IsSeq(rows)
  BY <1>0 DEF Control, Observing
<1>3. /\ attempt \in 1..MaxAttempts /\ attempt \in DOMAIN summaries
      /\ 1..attempt = 1..(attempt - 1) \cup {attempt} /\ attempt \notin 1..(attempt - 1)
  BY <1>2, Bounds DEF Typed, TypeOK
<1>4. DOMAIN rows = 1..(attempt - 1) /\ Len(rows') = attempt /\ DOMAIN rows' = 1..attempt
      /\ rows'[attempt] = row /\ \A i \in DOMAIN rows : rows'[i] = rows[i]
  <2>1. /\ IsSeq(rows') /\ Len(rows') = Len(rows) + 1
        /\ \A i \in DOMAIN rows : rows'[i] = rows[i]
        /\ rows'[Len(rows) + 1] = row
    BY <1>0, <1>2, AppendSeq
  <2>2. Len(rows) + 1 = attempt
    BY <1>2, <1>3, Bounds
  <2> QED BY <1>2, <2>1, <2>2, SeqFacts
<1>5. inputs' = InputsUpTo(attempt)
  <2>1. inputs = InputsUpTo(attempt - 1)
    BY <1>2 DEF SoFar
  <2>2. Grouped(attempt) = Grouped(attempt - 1) \cup (IF packs[attempt].groups = None THEN {} ELSE {attempt})
    BY <1>3 DEF Grouped
  <2> QED BY <1>0, <1>1, <2>1, <2>2 DEF InputsUpTo
<1>6. InputsUpTo(Len(rows))' = inputs'
  BY <1>0, <1>4, <1>5 DEF InputsUpTo, Grouped
<1>7. \A i \in DOMAIN rows' : summaries'[i].targets = <<rows'[i]>>
  <2>1. RunSummary(<<row>>).targets = <<row>>
    BY DEF RunSummary
  <2>2. summaries'[attempt].targets = <<row>>
    BY <1>0, <1>3, <2>1 DEF AttemptSummaries
  <2>3. \A i \in DOMAIN rows : i # attempt
    BY <1>3, <1>4
  <2>4. \A i \in DOMAIN rows : summaries'[i] = summaries[i]
    BY <1>0, <2>3 DEF AttemptSummaries
  <2>5. \A i \in DOMAIN rows : summaries'[i].targets = <<rows'[i]>>
    BY <1>4, <2>4 DEF SoFar
  <2> QED BY <1>3, <1>4, <2>2, <2>5
<1>8. (\A i \in 1..MaxAttempts : Sound(packs[i]))'
  BY <1>0 DEF SoFar, Sound
<1> QED BY <1>6, <1>7, <1>8 DEF SoFar

(* Grouping holds at the start.                                            *)
LEMMA GroupingInit ==
  ASSUME Init
  PROVE  Grouping
BY DEF Init, Grouping, Choosing, Observing

(* Every step keeps it.                                                    *)
LEMMA GroupingKept ==
  ASSUME NoneIsNothing, Control, Typed, Packs, Rows, Grouping, [Next]_vars
  PROVE  Grouping'
<1>b. ASSUME ~Choosing', pc' # "start"
      PROVE  Grouping'
  BY <1>b DEF Grouping
<1>d. ASSUME Single'
      PROVE  ~Choosing'
  BY <1>d DEF Choosing
<1>e. ASSUME pc \in Observing, rows' = rows, request' = request, pc' = "idle"
      PROVE  ~Choosing'
  <2>1. Len(rows) = attempt - 1 /\ attempt \in 1..request.repeat /\ request.repeat \in 1..MaxAttempts
    BY <1>e DEF Control
  <2>2. Len(rows) < request.repeat
    BY <2>1, Bounds
  <2>3. Len(rows') # request'.repeat
    BY <1>e, <2>1, <2>2, Bounds
  <2> QED BY <1>e, <2>3 DEF Choosing, Observing
<1>f. /\ Single <=> request.repeat = 1
      /\ request' = request => (Single' <=> Single)
  BY DEF Single
<1>g. /\ pc \in {"clear", "native", "select", "plan", "tools", "record"} => pc \in Observing
      /\ pc \in Observing /\ ~Single => Choosing /\ SoFar /\ (pc \in {"plan", "tools"} => reason # None)
  BY DEF Observing, Choosing, Grouping
<1>h. ASSUME Single, request' = request, pc' # "start"
      PROVE  Grouping'
  BY <1>h, <1>b, <1>d, <1>f
<1>i. ASSUME pc \in Observing, pc # "clear", request' = request, rows' = rows, inputs' = inputs,
             summaries' = summaries, reason' = reason,
             pc' \in {"select", "plan", "tools", "record", "idle"},
             pc' \in {"plan", "tools", "record"} => Single \/ pc \in {"plan", "tools"},
             packs' = packs \/ \E p : Sound(p) /\ packs' = [packs EXCEPT ![Dir] = p]
      PROVE  Grouping'
  <2>1. CASE Single
    BY <1>h, <1>i, <2>1
  <2>2. CASE pc' = "idle"
    BY <1>b, <1>e, <1>i, <2>2
  <2>3. CASE ~Single /\ pc' # "idle"
    <3>1. SoFar /\ (pc \in {"plan", "tools"} => reason # None)
      BY <1>g, <1>i, <2>3
    <3>2. SoFar'
      <4>1. CASE packs' = packs
        <5>1. \A i \in 1..MaxAttempts : Sound(packs'[i])
          BY <1>i, <3>1, <4>1 DEF SoFar
        <5> QED BY <1>i, <3>1, <4>1, <5>1, SoFarStays
      <4>2. CASE \E p : Sound(p) /\ packs' = [packs EXCEPT ![Dir] = p]
        BY <1>i, <2>3, <3>1, <4>2, SoFarObserved
      <4> QED BY <1>i, <4>1, <4>2
    <3> QED BY <1>i, <2>3, <3>1, <3>2 DEF Grouping
  <2> QED BY <2>1, <2>2, <2>3
<1>1. ASSUME NEW repeat \in 0..MaxAttempts, NEW nativeOnly \in BOOLEAN, NEW deep \in BOOLEAN,
             NEW explicit \in Policies \cup {None}, Start(repeat, nativeOnly, deep, explicit)
      PROVE  Grouping'
  <2>1. /\ rows' = <<>> /\ inputs' = {} /\ request = NoPolicy /\ NoPolicy.repeat = 1
    BY <1>1 DEF Start, Grouping, Control, NoPolicy, loop
  <2>2. CASE ResolvePolicy(repeat, nativeOnly, explicit) = None
    <3>1. request' = request /\ pc' = "idle"
      BY <1>1, <2>2 DEF Start, End
    <3> QED BY <2>1, <3>1, <1>h, <1>f
  <2>3. CASE ResolvePolicy(repeat, nativeOnly, explicit) # None
    <3>1. request'.repeat = repeat /\ pc' = IF repeat = 1 THEN "native" ELSE "clear"
      BY <1>1, <2>3 DEF Start
    <3>2. CASE repeat = 1
      <4>1. Single' /\ pc' = "native"
        BY <3>1, <3>2 DEF Single
      <4> QED BY <4>1, <1>b, <1>d
    <3>3. CASE repeat # 1
      <4>1. pc' = "clear"
        BY <3>1, <3>3
      <4>2. Len(<<>>) = 0 /\ DOMAIN <<>> = {} /\ InputsUpTo(0)' = {}
        BY DEF InputsUpTo, Grouped
      <4>3. SoFar'
        BY <2>1, <4>1, <4>2 DEF SoFar
      <4> QED BY <4>1, <4>3 DEF Grouping
    <3> QED BY <3>2, <3>3
  <2> QED BY <2>2, <2>3
<1>2. CASE ClearAttempts
  <2>1. /\ pc = "clear" /\ pc' = "native" /\ request' = request /\ rows' = rows /\ inputs' = inputs
        /\ packs' = [i \in DOMAIN packs |-> IF i = 0 THEN packs[0] ELSE EmptyPack]
    BY <1>2 DEF ClearAttempts, setting, loop
  <2>2. attempt = 1 /\ Len(rows) = attempt - 1 /\ ~Single
    BY <2>1, <1>g DEF Control
  <2>3. DOMAIN rows = {}
    <3>1. DOMAIN rows = 1..Len(rows)
      BY SeqFacts DEF Control
    <3>2. Len(rows) = 0
      BY <2>2
    <3> QED BY <3>1, <3>2
  <2>4. SoFar
    BY <1>g, <2>1, <2>2
  <2>5. \A i \in 1..MaxAttempts : packs'[i] = EmptyPack
    BY <2>1, Bounds DEF Packs
  <2>6. \A i \in 1..MaxAttempts : Sound(packs'[i])
    BY <2>5, EmptySound
  <2>7. SoFar'
    BY <2>1, <2>3, <2>4, <2>6, SoFarStays
  <2> QED BY <2>1, <2>7 DEF Grouping
<1>3. ASSUME NEW p, NEW target, pc = "native", Observed(p, target), Single \/ Sound(p)
      PROVE  Grouping'
  <2>1. CASE Single
    BY <1>3, <1>h, <2>1 DEF Observed, setting
  <2>2. CASE ~Single
    BY <1>3, <1>g, <1>i, <2>2 DEF Observed, setting, loop
  <2> QED BY <2>1, <2>2
<1>4. ASSUME NEW error \in Errors, NEW findings \in AgentFindings, NativeFails(error, findings)
      PROVE  Grouping'
  <2>1. pc = "native" /\ IsPack(Pack)
    BY <1>4, PackIsPack DEF NativeFails, Observing
  <2>2. PICK p : /\ p = CASE ErrorStage(error) = "start" -> Pack
                          [] ErrorStage(error) = "prepared" -> Prepared(Pack)
                          [] ErrorStage(error) = "described" -> Described(Pack)
                          [] ErrorStage(error) = "agent" -> Written(Pack, findings)
                 /\ Observed(p, TargetFromError(error))
    BY <1>4 DEF NativeFails
  <2>3. p \in {Pack, Prepared(Pack), Described(Pack), Written(Pack, findings)}
    BY <2>2, StageOf
  <2>4. Single \/ Sound(Pack)
    <3>1. ~Single => Pack = packs[attempt] /\ SoFar
      BY <1>g, <2>1 DEF Pack, Dir
    <3>2. attempt \in 1..MaxAttempts
      BY <1>g, <2>1, Bounds DEF Control
    <3> QED BY <2>1, <3>1, <3>2 DEF SoFar
  <2>5. Single \/ Sound(p)
    BY <2>1, <2>3, <2>4, WrittenSound DEF IsPack
  <2> QED BY <1>3, <2>1, <2>2, <2>5
<1>5. ASSUME NEW findings \in AgentFindings, NEW end \in {"exit", "signal", "timeout"},
             NativeEnds(findings, end)
      PROVE  Grouping'
  <2>1. pc = "native" /\ HasFiles(Pack)
    BY <1>5, PackIsPack DEF NativeEnds, Observing, IsPack
  <2>2. PICK f \in Finalizations([Written(Pack, findings) EXCEPT !.console = TRUE],
                     IF end = "signal" THEN <<CrashFinding(<<"crash">>)>> ELSE <<>>, TRUE) :
             \E target : Observed(f.pack, target)
    BY <1>5 DEF NativeEnds
  <2>3. Sound(f.pack)
    BY <2>1, EndedSound
  <2> QED BY <1>3, <2>1, <2>2, <2>3
<1>6. CASE Select
  <2>1. /\ pc = "select" /\ ~Single /\ SoFar /\ request' = request /\ packs' = packs
        /\ rows' = rows /\ inputs' = inputs /\ row' = row /\ attempt' = attempt
        /\ summaries' = [summaries EXCEPT ![attempt] = RunSummary(<<row>>)]
    <3>1. pc = "select" /\ ~Single
      BY <1>6 DEF Select, Control
    <3> QED BY <1>6, <1>g, <3>1 DEF Select, setting
  <2>2. /\ attempt \in DOMAIN summaries /\ attempt \notin DOMAIN rows
    <3>1. /\ attempt \in 1..request.repeat /\ request.repeat \in 1..MaxAttempts
          /\ Len(rows) = attempt - 1 /\ DOMAIN rows = 1..Len(rows)
      BY <1>g, <2>1, SeqFacts DEF Control
    <3> QED BY <3>1, Bounds DEF Typed, TypeOK
  <2>3. SoFar'
    <3>1. \A i \in DOMAIN rows : summaries'[i] = summaries[i]
      BY <2>1, <2>2
    <3>2. \A i \in 1..MaxAttempts : Sound(packs'[i])
      BY <2>1 DEF SoFar
    <3> QED BY <2>1, <3>1, <3>2, SoFarStays
  <2>4. /\ pc' \in {"plan", "record"}
        /\ pc' = "plan" => reason' # None
    <3> DEFINE choice == SelectAttempt(slots, request.policy, attempt, row, request.deep)
               chosen == ReasonSelects(choice.reason, row, request.deep)
    <3>1. /\ reason' = IF chosen THEN choice.reason ELSE None
          /\ pc' = IF chosen THEN "plan" ELSE "record"
      BY <1>6 DEF Select
    <3>2. chosen => choice.reason # None
      BY ReasonIs
    <3> QED BY <3>1, <3>2
  <2>5. summaries'[attempt'].targets = <<row'>>
    BY <2>1, <2>2 DEF RunSummary
  <2> QED BY <2>3, <2>4, <2>5 DEF Grouping
<1>7. CASE PlanNothing \/ PlanEscalation \/ ObserveTool
  <2>1. /\ pc \in {"plan", "tools"} /\ pc' \in {"tools", "record"} /\ UNCHANGED <<setting, files, loop>>
    BY <1>7 DEF PlanNothing, PlanEscalation, ObserveTool
  <2> QED BY <1>g, <1>i, <2>1 DEF setting, files, loop
<1>8. CASE PlanFallback
  <2>1. /\ pc = "plan" /\ UNCHANGED <<setting, summaries, repeated, loop>> /\ pc' \in {"tools", "idle"}
        /\ present \in BOOLEAN
    BY <1>8 DEF PlanFallback, End, Control
  <2>2. HasFiles(Pack)
    BY <2>1, PackIsPack DEF Observing, IsPack
  <2>3. PICK f \in ToolOnlyPacks(Pack, present) : packs' = [packs EXCEPT ![Dir] = f.pack]
    BY <1>8 DEF PlanFallback
  <2>4. Sound(f.pack)
    BY <2>1, <2>2, FallbackSound
  <2> QED BY <1>g, <1>i, <2>1, <2>3, <2>4 DEF setting, loop
<1>9. CASE FinishEscalation
  <2>1. /\ pc = "tools" /\ UNCHANGED <<setting, summaries, repeated, loop>> /\ pc' \in {"record", "idle"}
    BY <1>9 DEF FinishEscalation, End
  <2>2. PICK f \in Promotions([Pack EXCEPT !.results = results], results, present) :
          /\ packs' = [packs EXCEPT ![Dir] = f.pack]
          /\ pc' = IF f.ok THEN "record" ELSE "idle"
    BY <1>9 DEF FinishEscalation, End
  <2>3. CASE Single
    BY <1>h, <2>1, <2>3 DEF setting
  <2>4. CASE ~f.ok
    BY <1>b, <1>e, <1>g, <2>1, <2>2, <2>4 DEF setting, loop
  <2>5. CASE ~Single /\ f.ok
    <3>1. Known(Pack.findings)
      BY <2>1 DEF Rows, UnderTools, Ready, CanBeUsed
    <3>2. HasFiles(Pack) /\ AreFindings(Pack.findings)
      BY <2>1, <3>1, PackIsPack DEF Observing, IsPack
    <3>3. Sound(Pack)
      <4>1. Pack = packs[attempt] /\ SoFar
        BY <1>g, <2>1, <2>5 DEF Pack, Dir
      <4>2. attempt \in 1..MaxAttempts
        BY <1>g, <2>1, Bounds DEF Control
      <4> QED BY <2>1, <4>1, <4>2 DEF SoFar
    <3>4. AreResults(results)
      BY DEF Typed
    <3>5. Sound(f.pack)
      BY <2>2, <2>5, <3>2, <3>3, <3>4, PromotedSound
    <3> QED BY <1>g, <1>i, <2>1, <2>2, <3>5 DEF setting, loop
  <2> QED BY <2>3, <2>4, <2>5
<1>10. CASE WriteSummary
  <2>1. Single' /\ pc' = "idle"
    BY <1>10, <1>f DEF WriteSummary, End, setting
  <2> QED BY <2>1, <1>b, <1>d
<1>11. CASE RecordAttempt
  <2>0. pc = "record" /\ ~Single /\ request' = request
    BY <1>11 DEF RecordAttempt, setting
  <2>1. CASE MissingGroups
    <3>1. pc' = "idle" /\ rows' = rows
      BY <1>11, <2>1 DEF RecordAttempt, End, loop
    <3> QED BY <2>0, <3>1, <1>b, <1>e, <1>g
  <2>2. CASE ~MissingGroups
    <3>1. SoFar /\ (reason = None => summaries[attempt].targets = <<row>>)
      BY <1>g, <2>0 DEF Grouping
    <3>2. SoFar'
      BY <1>11, <2>0, <2>2, <3>1, SoFarRecorded
    <3>3. pc' \in {"publish", "native"}
      BY <1>11, <2>2 DEF RecordAttempt
    <3> QED BY <3>2, <3>3 DEF Grouping
  <2> QED BY <2>1, <2>2
<1>12. CASE PublishRepeat \/ PublishRun
  <2>1. /\ pc \in {"publish", "publish run"} /\ packs' = packs /\ UNCHANGED <<setting, loop>>
        /\ pc' = IF pc = "publish" THEN "publish run" ELSE "idle"
    BY <1>12 DEF PublishRepeat, PublishRun, End
  <2>2. Choosing /\ SoFar
    BY <2>1 DEF Grouping, Choosing, Control
  <2>3. DOMAIN rows = 1..Len(rows) /\ Len(rows) \in Nat
    BY SeqFacts DEF Control
  <2>4. \A i \in DOMAIN rows : summaries'[i] = summaries[i]
    <3>1. \A i \in DOMAIN rows : i # 0 /\ i \in DOMAIN summaries
      <4>1. Len(rows) <= request.repeat /\ request.repeat \in 1..MaxAttempts
        BY DEF Control
      <4>2. DOMAIN summaries = 0..MaxAttempts
        BY DEF Typed, TypeOK
      <4> QED BY <2>3, <4>1, <4>2, Bounds
    <3>2. summaries' = summaries \/ summaries' = [summaries EXCEPT ![0] = RunSummary(rows)]
      BY <1>12 DEF PublishRepeat, PublishRun
    <3> QED BY <3>1, <3>2
  <2>5. SoFar'
    <3>1. \A i \in 1..MaxAttempts : Sound(packs'[i])
      BY <2>1, <2>2 DEF SoFar
    <3>2. rows' = rows /\ inputs' = inputs
      BY <2>1 DEF loop
    <3> QED BY <2>1, <2>2, <2>4, <3>1, <3>2, SoFarStays
  <2>6. RepeatWritten'
    <3>1. pc = "publish" => repeated' = RepeatSummary(request.repeat,
                   [i \in DOMAIN rows |-> RepeatAttempt(i, rows[i])],
                   inputs, request.policy, request.deep, selected)
      BY <1>12 DEF PublishRepeat, PublishRun
    <3>2. pc = "publish run" => RepeatWritten /\ repeated' = repeated
      BY <1>12, <2>2 DEF PublishRepeat, PublishRun, Grouping
    <3> QED BY <2>1, <3>1, <3>2 DEF RepeatWritten, setting, loop
  <2>7. pc' = "idle" => summaries'[0] = RunSummary(rows')
    <3>1. 0 \in DOMAIN summaries
      BY Bounds DEF Typed, TypeOK
    <3> QED BY <1>12, <2>1, <3>1 DEF PublishRepeat, PublishRun, loop
  <2> QED BY <2>1, <2>5, <2>6, <2>7 DEF Grouping
<1>13. CASE Killed
  <2>1. pc' = "idle" /\ rows' = <<>> /\ request' = request
    BY <1>13 DEF Killed, End, setting
  <2>2. Len(rows') = 0 /\ request.repeat \in 1..MaxAttempts
    BY <2>1 DEF Control
  <2>3. Len(rows') # request'.repeat
    BY <2>1, <2>2, Bounds
  <2>4. ~Choosing'
    BY <2>1, <2>3 DEF Choosing, Observing
  <2> QED BY <2>1, <2>4, <1>b
<1>14. ASSUME NEW tool, EscalateCommand(tool)
       PROVE  Grouping'
  BY <1>14, <1>h DEF EscalateCommand, Command, End, setting
<1>15. ASSUME NEW tool, NEW checkClean, ScanCommand(tool, checkClean)
       PROVE  Grouping'
  BY <1>15, <1>h DEF ScanCommand, Command, End, setting
<1>16. CASE CommandTool \/ SkipFinding \/ FinishCommand
  <2>1. pc = "command" /\ request' = request /\ pc' # "start"
    BY <1>16 DEF CommandTool, SkipFinding, FinishCommand, End, setting
  <2> QED BY <2>1, <1>h DEF Control
<1>17. CASE ReplayCommand \/ RemoveTarget
  <2>1. Single /\ request' = request /\ pc' # "start"
    BY <1>17 DEF ReplayCommand, RemoveTarget, Command, End, setting
  <2> QED BY <2>1, <1>h
<1>18. CASE UNCHANGED vars
  BY <1>18 DEF vars, Grouping, Choosing, Single, SoFar, Sound, InputsUpTo, Grouped, RepeatWritten
<1> QED BY <1>1, <1>2, <1>4, <1>5, <1>6, <1>7, <1>8, <1>9, <1>10, <1>11, <1>12, <1>13, <1>14, <1>15,
         <1>16, <1>17, <1>18 DEF Next

(* The sum in the property, taken element by element.                      *)
LEMMA SumOfOccurrences ==
  ASSUME NEW S, IsFiniteSet(S), S \subseteq DOMAIN packs, NEW fp
  PROVE  MapThenSumSet(LAMBDA i : Cardinality(Of(packs[i].findings, fp)), S) = Total(Occurrence(fp), S)
<1> DEFINE g == Occurrence(fp)
           At(i) == Cardinality(Of(packs[i].findings, fp))
           Is(h) == h = [s \in SUBSET S |->
                           IF s = {} THEN 0
                           ELSE At(CHOOSE x \in s : TRUE) + h[s \ {CHOOSE x \in s : TRUE}]]
<1>1. ASSUME NEW h
      PROVE  Is(h) <=> Sums(h, g, S)
  <2>1. \A s \in SUBSET S : s # {} => Pick(s) \in S
    BY DEF Pick
  <2>2. \A x \in S : g[x] = At(x)
    BY DEF Occurrence
  <2> DEFINE Left(s) == IF s = {} THEN 0 ELSE At(Pick(s)) + h[s \ {Pick(s)}]
             Right(s) == IF s = {} THEN 0 ELSE g[Pick(s)] + h[s \ {Pick(s)}]
  <2> HIDE DEF At, g
  <2>3. \A s \in SUBSET S : Left(s) = Right(s)
    BY <2>1, <2>2
  <2>4. Is(h) <=> h = [s \in SUBSET S |-> Left(s)]
    BY DEF Pick
  <2>5. Sums(h, g, S) <=> h = [s \in SUBSET S |-> Right(s)]
    BY DEF Sums
  <2> HIDE DEF Left, Right, Is
  <2> QED BY <2>3, <2>4, <2>5
<1>3. MapThenSumSet(LAMBDA i : Cardinality(Of(packs[i].findings, fp)), S) = (CHOOSE k : Is(k))[S]
  BY DEF MapThenSumSet, MapThenFoldSet
<1> HIDE DEF g
<1>2. PICK h : Sums(h, g, S)
  BY SumsExist
<1> HIDE DEF Is
<1>4. Is(CHOOSE k : Is(k))
  BY <1>1, <1>2
<1>5. Sums(CHOOSE k : Is(k), g, S)
  BY <1>1, <1>4
<1> QED BY <1>3, <1>5, TotalIs DEF g

(* A finding of an attempt with groups is in a group of the repeat summary.*)
LEMMA FindingsAreIn ==
  ASSUME Packs, NEW n \in 0..MaxAttempts, NEW i \in Grouped(n), Sound(packs[i]),
         NEW f \in ToSet(packs[i].findings)
  PROVE  f.fingerprint \in DOMAIN RepeatGroups(InputsUpTo(n))
<1> DEFINE p == packs[i]
           fp == f.fingerprint
<1>1. p.groups # None /\ p.groups = IssueGroups(p.findings) /\ fp = Fingerprint(f)
  BY DEF Grouped, Sound
<1>2. PICK k \in DOMAIN p.findings : f = p.findings[k]
  BY DEF ToSet
<1>3. fp \in DOMAIN p.groups
  BY <1>1, <1>2 DEF IssueGroups
<1> HIDE DEF p, fp
<1>4. \E j \in AttemptInputs(i, p.groups) : j.fingerprint = fp
  <2> DEFINE j == [fingerprint |-> fp, class |-> p.groups[fp].class, attempt |-> i,
                   count |-> FindingCount(p.groups[fp])]
  <2>1. j.fingerprint = fp
    OBVIOUS
  <2>2. j \in AttemptInputs(i, p.groups)
    BY <1>3 DEF AttemptInputs
  <2> HIDE DEF j
  <2> QED BY <2>1, <2>2
<1>5. \E j \in InputsUpTo(n) : j.fingerprint = fp
  BY <1>4 DEF InputsUpTo, p
<1> QED BY <1>5 DEF RepeatGroups, fp

(* The groups of the repeat summary leave out no attempt that has not      *)
(* failed and no finding of an attempt with groups, and count them.        *)
LEMMA GroupsAreAccounted ==
  ASSUME Control, Packs, RowsDone, ~Single, SoFar, pc # "clear",
         repeated.issue_groups = RepeatGroups(inputs)
  PROVE  GroupsAccount
<1> DEFINE n == Len(rows)
           grouped == {i \in DOMAIN rows : packs[i].groups # None}
<1>1. /\ n \in 0..MaxAttempts /\ DOMAIN rows = 1..n /\ inputs = InputsUpTo(n)
      /\ \A i \in 1..MaxAttempts : Sound(packs[i])
  <2>1. n \in Nat /\ DOMAIN rows = 1..n /\ n <= request.repeat /\ request.repeat \in 1..MaxAttempts
    BY SeqFacts DEF Control
  <2> QED BY <2>1, Bounds DEF SoFar
<1>2. grouped = Grouped(n)
  BY <1>1 DEF Grouped
<1>3. Grouped(n) \subseteq DOMAIN packs
  BY <1>1, Bounds DEF Grouped, Packs
<1>5. Witnessed \subseteq grouped
  <2> SUFFICES ASSUME NEW i \in Witnessed
               PROVE  packs[i].groups # None /\ i \in DOMAIN rows
    OBVIOUS
  <2>1. i \in DOMAIN rows /\ rows[i].status # "Failed" /\ i \in 1..MaxAttempts
    BY <1>1, Bounds DEF Witnessed
  <2>2. CanBeUsed(packs[i])
    BY <2>1 DEF RowsDone, RowFine, RowStands, PackOf
  <2> QED BY <1>1, <2>1, <2>2 DEF CanBeUsed, Sound, Known
<1> HIDE DEF n, grouped
<1>6. \A i \in grouped : \A f \in ToSet(packs[i].findings) :
        f.fingerprint \in DOMAIN repeated.issue_groups
  <2>1. \A i \in Grouped(n) : i \in 1..MaxAttempts
    BY <1>1, Bounds DEF Grouped
  <2> QED BY <1>1, <1>2, <2>1, FindingsAreIn
<1>4. ASSUME NEW fp \in DOMAIN repeated.issue_groups
      PROVE  /\ repeated.issue_groups[fp].occurrence_count
                  = MapThenSumSet(LAMBDA i : Cardinality(Of(packs[i].findings, fp)), grouped)
             /\ repeated.issue_groups[fp].attempt_count
                  = Cardinality({i \in grouped : Cardinality(Of(packs[i].findings, fp)) > 0})
  <2> DEFINE seen == Seen(n, fp)
  <2>1. fp \in {i.fingerprint : i \in inputs} /\ seen = {i \in inputs : i.fingerprint = fp}
    BY <1>1, <1>4 DEF RepeatGroups, Seen
  <2>2. /\ repeated.issue_groups[fp].occurrence_count = OccurrenceCount(seen)
        /\ repeated.issue_groups[fp].attempt_count = Cardinality({i.attempt : i \in seen})
    BY <2>1 DEF RepeatGroups
  <2>3. \A i \in 1..n : Sound(packs[i])
    BY <1>1, Bounds
  <2>4. /\ IsFiniteSet(seen) /\ IsFiniteSet(Grouped(n))
        /\ Total([j \in seen |-> j.count], seen) = Total(Occurrence(fp), Grouped(n))
        /\ {j.attempt : j \in seen} = {i \in Grouped(n) : Occurrence(fp)[i] > 0}
    BY <1>1, <2>3, OccurrencesAddUp
  <2> HIDE DEF seen
  <2>5. OccurrenceCount(seen) = Total(Occurrence(fp), Grouped(n))
    BY <2>4, SumOfCounts
  <2>6. MapThenSumSet(LAMBDA i : Cardinality(Of(packs[i].findings, fp)), grouped)
          = Total(Occurrence(fp), grouped)
    BY <1>2, <1>3, <2>4, SumOfOccurrences
  <2>7. {i \in Grouped(n) : Occurrence(fp)[i] > 0}
          = {i \in grouped : Cardinality(Of(packs[i].findings, fp)) > 0}
    BY <1>2, <1>3 DEF Occurrence
  <2> QED BY <1>2, <2>2, <2>4, <2>5, <2>6, <2>7
<1> QED BY <1>4, <1>5, <1>6 DEF GroupsAccount, Of, grouped

(* The rows of a repeated observe have an attempt each.                    *)
LEMMA AttemptsAreComplete ==
  ASSUME IsSeq(rows)
  PROVE  LET attempts == [i \in DOMAIN rows |-> RepeatAttempt(i, rows[i])]
         IN /\ Cardinality({a.attempt : a \in ToSet(attempts)}) = Len(rows)
            /\ FindingTotals(attempts) = FindingTotals(rows)
<1> DEFINE attempts == [i \in DOMAIN rows |-> RepeatAttempt(i, rows[i])]
<1>1. Len(rows) \in Nat /\ DOMAIN rows = 1..Len(rows)
  BY SeqFacts
<1>2. IsFiniteSet(DOMAIN rows) /\ Cardinality(DOMAIN rows) = Len(rows)
  <2>1. /\ IsFiniteSet(1..Len(rows))
        /\ Cardinality(1..Len(rows)) = IF 1 > Len(rows) THEN 0 ELSE Len(rows) - 1 + 1
    BY <1>1, FS_Interval
  <2>2. Cardinality(1..Len(rows)) = Len(rows)
    BY <1>1, <2>1
  <2> QED BY <1>1, <2>1, <2>2
<1>3. DOMAIN attempts = DOMAIN rows
      /\ \A i \in DOMAIN rows : attempts[i].attempt = i /\ attempts[i].classes = rows[i].classes
  BY DEF RepeatAttempt
<1> HIDE DEF attempts
<1>4. {a.attempt : a \in ToSet(attempts)} = DOMAIN rows
  <2>1. \A i \in DOMAIN rows : attempts[i] \in ToSet(attempts) /\ attempts[i].attempt = i
    BY <1>3 DEF ToSet
  <2>2. \A a \in ToSet(attempts) : a.attempt \in DOMAIN rows
    BY <1>3 DEF ToSet
  <2> QED BY <2>1, <2>2
<1>5. FindingTotals(attempts) = FindingTotals(rows)
  BY <1>2, <1>3, SameFindingTotals
<1> QED BY <1>2, <1>4, <1>5 DEF attempts

(* The summaries of the attempts, of all attempts and the repeat summary   *)
(* tell the same, and its issue groups leave out no finding of an attempt  *)
(* that has not failed and count each finding once (RepeatAgrees).         *)
THEOREM RepeatsAgree ==
  ASSUME NoneIsNothing
  PROVE  Spec => []RepeatAgrees
<1>1. ASSUME IInv, Grouping, Published, ~Single
      PROVE  /\ summaries[0].targets = rows
             /\ \A i \in DOMAIN rows :
                  /\ summaries[i].targets = <<rows[i]>>
                  /\ repeated.attempts[i].status = rows[i].status
                  /\ repeated.attempts[i].count = rows[i].count
             /\ GroupsAccount
             /\ LET answer == RepeatAgentSummary(repeated, summaries[0])
                IN /\ answer.completed = answer.requested /\ answer.target_count = answer.requested
                   /\ answer.finding_totals = summaries[0].finding_totals
  <2> DEFINE attempts == [i \in DOMAIN rows |-> RepeatAttempt(i, rows[i])]
             run == RunSummary(rows)
  <2>1. pc = "idle" /\ Len(rows) = request.repeat /\ Control /\ Packs /\ IsSeq(rows)
    BY <1>1 DEF Published, IInv, Control
  <2>2. SoFar /\ RepeatWritten /\ summaries[0] = run
    BY <1>1, <2>1 DEF Grouping, Choosing
  <2>3. /\ repeated.requested = request.repeat
        /\ repeated.completed = Cardinality({a.attempt : a \in ToSet(attempts)})
        /\ repeated.finding_totals = FindingTotals(attempts)
        /\ repeated.issue_groups = RepeatGroups(inputs)
        /\ repeated.attempts = attempts
    BY <2>2 DEF RepeatWritten, RepeatSummary
  <2>4. run.targets = rows /\ run.finding_totals = FindingTotals(rows) /\ run # None
    BY DEF RunSummary, NoneIsNothing
  <2>5. GroupsAccount
    BY <1>1, <2>1, <2>2, <2>3, GroupsAreAccounted DEF IInv, Rows
  <2>6. /\ Cardinality({a.attempt : a \in ToSet(attempts)}) = Len(rows)
        /\ FindingTotals(attempts) = FindingTotals(rows)
    BY <2>1, AttemptsAreComplete
  <2>7. \A i \in DOMAIN rows : attempts[i].status = rows[i].status /\ attempts[i].count = rows[i].count
    BY DEF RepeatAttempt
  <2> HIDE DEF attempts, run
  <2>8. LET answer == RepeatAgentSummary(repeated, summaries[0])
        IN /\ answer.completed = answer.requested /\ answer.target_count = answer.requested
           /\ answer.finding_totals = summaries[0].finding_totals
    BY <2>1, <2>2, <2>3, <2>4, <2>6 DEF RepeatAgentSummary
  <2> QED BY <2>2, <2>3, <2>4, <2>5, <2>7, <2>8 DEF SoFar
<1>2. IInv /\ Grouping => RepeatAgrees
  BY <1>1 DEF RepeatAgrees
<1>3. Init => IInv /\ Grouping
  BY InitInv, GroupingInit
<1>4. IInv /\ Grouping /\ [Next]_vars => IInv' /\ Grouping'
  BY NextInv, GroupingKept DEF IInv
<1> QED BY <1>2, <1>3, <1>4, PTL DEF Spec

=============================================================================
