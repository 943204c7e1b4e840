---------------------------- MODULE Agent_proofs ----------------------------
(***************************************************************************)
(* What the agent reports, for any processes, events and descriptors, any  *)
(* size of its pid table and of its dedupe memory: each finding once, no   *)
(* consequence beside its cause, nothing of foreign processes, and, when   *)
(* it ends by itself, everything the target did wrong.                     *)
(***************************************************************************)
EXTENDS Agent, TLAPS

LEMMA PidsAreSet == Target \in Pids /\ Self \in Pids
BY DEF Pids

(* Sequences as sets of their elements.                                    *)
LEMMA RangeAppend ==
  ASSUME NEW S, NEW s \in Seq(S), NEW x \in S
  PROVE  Range(Append(s, x)) = Range(s) \cup {x}
<1>1. /\ DOMAIN Append(s, x) = 1..Len(s) + 1 /\ DOMAIN s = 1..Len(s)
      /\ Append(s, x)[Len(s) + 1] = x
      /\ \A i \in 1..Len(s) : Append(s, x)[i] = s[i]
  OBVIOUS
<1>2. QED
  BY <1>1 DEF Range

LEMMA RangeHeadTail ==
  ASSUME NEW S, NEW s \in Seq(S), s # <<>>
  PROVE  /\ Head(s) \in S /\ Tail(s) \in Seq(S)
         /\ \A x \in Range(s) : x = Head(s) \/ x \in Range(Tail(s))
         /\ Range(Tail(s)) \subseteq Range(s)
<1>1. /\ Len(s) \in Nat \ {0} /\ DOMAIN s = 1..Len(s) /\ Head(s) = s[1]
      /\ DOMAIN Tail(s) = 1..Len(s) - 1
      /\ \A i \in 1..Len(s) - 1 : Tail(s)[i] = s[i + 1]
  OBVIOUS
<1>2. ASSUME NEW i \in DOMAIN s, i # 1
      PROVE  i - 1 \in DOMAIN Tail(s) /\ Tail(s)[i - 1] = s[i]
  BY <1>1, <1>2
<1>3. \A x \in Range(s) : x = Head(s) \/ x \in Range(Tail(s))
  BY <1>1, <1>2 DEF Range
<1>4. Range(Tail(s)) \subseteq Range(s)
  BY <1>1 DEF Range
<1>5. QED
  BY <1>3, <1>4

----------------------------------------------------------------------------
(* The dedupe memory: the latest MaxEmitted findings, each in its slot.    *)

SlotOf(k) ==
  IF Len(reported) - k < emitted_finding_next
  THEN emitted_finding_next - (Len(reported) - k)
  ELSE emitted_finding_next - (Len(reported) - k) + MaxEmitted

Memory ==
  /\ Len(emitted_findings) =
       IF Len(reported) < MaxEmitted THEN Len(reported) ELSE MaxEmitted
  /\ Len(reported) < MaxEmitted => emitted_finding_next = Len(reported)
  /\ \A k \in DOMAIN reported : Len(reported) - k < MaxEmitted =>
       emitted_findings[SlotOf(k)] = reported[k]
  /\ Range(emitted_findings) \subseteq Range(reported)

LEMMA SlotRange ==
  ASSUME AgentTypeOK, Memory, NEW k \in DOMAIN reported,
         Len(reported) - k < MaxEmitted
  PROVE  SlotOf(k) \in DOMAIN emitted_findings
<1>1. /\ Len(reported) \in Nat /\ MaxEmitted \in Nat \ {0}
      /\ emitted_finding_next \in 0..(MaxEmitted - 1)
      /\ k \in 1..Len(reported) /\ Len(emitted_findings) \in Nat
      /\ DOMAIN emitted_findings = 1..Len(emitted_findings)
  BY ConstantsAssumption DEF AgentTypeOK
<1>2. QED
  BY <1>1 DEF Memory, SlotOf

(* Of the latest findings each is remembered. *)
LEMMA Remembers ==
  ASSUME AgentTypeOK, Memory, NEW k \in DOMAIN reported,
         Len(reported) - k < MaxEmitted
  PROVE  reported[k] \in Range(emitted_findings)
BY SlotRange DEF Memory, Range

LEMMA NextSlotValue ==
  ASSUME AgentTypeOK
  PROVE  NextSlot = IF emitted_finding_next + 1 = MaxEmitted THEN 0
                    ELSE emitted_finding_next + 1
<1>1. MaxEmitted \in Nat \ {0} /\ emitted_finding_next \in 0..(MaxEmitted - 1)
  BY ConstantsAssumption DEF AgentTypeOK
<1>2. \A x \in 0..(MaxEmitted - 1) : x % MaxEmitted = x
  BY <1>1
<1>3. MaxEmitted % MaxEmitted = 0
  BY <1>1
<1>4. QED
  BY <1>1, <1>2, <1>3 DEF NextSlot

(* A finding that was reported was written, or could not be.               *)
Written == Range(reported) \subseteq Range(findings) \cup lost

(* What Emit does: the memory stays right; a finding it reports is none of *)
(* the latest MaxEmitted, one it drops was reported before.                *)
LEMMA Emission ==
  ASSUME AgentTypeOK, Memory, Written, NEW f \in Findings, Emit(f)
  PROVE  /\ reported' \in Seq(Findings)
         /\ findings' \in Seq(Findings) /\ lost' \subseteq Findings /\ Written'
         /\ emitted_findings' \in Seq(Findings) /\ Len(emitted_findings') <= MaxEmitted
         /\ emitted_finding_next' \in 0..(MaxEmitted - 1)
         /\ Memory'
         /\ f \in Range(reported') /\ Range(reported) \subseteq Range(reported')
         /\ \/ reported' = reported
            \/ reported' = Append(reported, f) /\ f \notin Range(emitted_findings)
<1>1. /\ reported \in Seq(Findings) /\ emitted_findings \in Seq(Findings)
      /\ Len(reported) \in Nat /\ MaxEmitted \in Nat \ {0}
      /\ emitted_finding_next \in 0..(MaxEmitted - 1)
      /\ Len(emitted_findings) \in Nat /\ Len(emitted_findings) <= MaxEmitted
      /\ DOMAIN emitted_findings = 1..Len(emitted_findings)
      /\ DOMAIN reported = 1..Len(reported)
  BY ConstantsAssumption DEF AgentTypeOK
<1>2. CASE f \in Range(emitted_findings)
  <2>1. UNCHANGED <<emitted_findings, emitted_finding_next, reported, findings, lost>>
    BY <1>2 DEF Emit, report
  <2>2. Memory' /\ f \in Range(reported')
    BY <1>2, <2>1 DEF Memory, SlotOf
  <2>3. Written' /\ findings' \in Seq(Findings) /\ lost' \subseteq Findings
    BY <2>1 DEF Written, AgentTypeOK
  <2>4. QED
    BY <1>1, <2>1, <2>2, <2>3
<1>3. CASE f \notin Range(emitted_findings)
  <2> DEFINE next == emitted_finding_next
             n == Len(reported)
  <2>1. /\ reported' = Append(reported, f)
        /\ emitted_findings' = Marked(f)
        /\ next' = IF next + 1 = MaxEmitted THEN 0 ELSE next + 1
    BY <1>3, NextSlotValue DEF Emit
  <2>2. /\ Len(reported') = n + 1 /\ reported'[n + 1] = f
        /\ \A k \in 1..n : reported'[k] = reported[k]
        /\ reported' \in Seq(Findings) /\ DOMAIN reported' = 1..n + 1
    BY <1>1, <2>1
  <2>3. Range(reported') = Range(reported) \cup {f}
    BY <1>1, <2>1, RangeAppend
  <2>4. next' \in 0..(MaxEmitted - 1)
    BY <1>1, <2>1
  <2>5. /\ emitted_findings' \in Seq(Findings)
        /\ Len(emitted_findings') = IF n + 1 < MaxEmitted THEN n + 1 ELSE MaxEmitted
        /\ next + 1 \in DOMAIN emitted_findings' /\ emitted_findings'[next + 1] = f
        /\ \A s \in DOMAIN emitted_findings : s # next + 1 =>
             s \in DOMAIN emitted_findings' /\ emitted_findings'[s] = emitted_findings[s]
        /\ Range(emitted_findings') \subseteq Range(emitted_findings) \cup {f}
    <3>1. CASE n < MaxEmitted
      <4>1. Len(emitted_findings) = n /\ next = n
        BY <3>1 DEF Memory
      <4>2. emitted_findings' = Append(emitted_findings, f)
        BY <1>1, <2>1, <4>1 DEF Marked
      <4>3. Range(emitted_findings') = Range(emitted_findings) \cup {f}
        BY <1>1, <4>2, RangeAppend
      <4>4. /\ emitted_findings' \in Seq(Findings) /\ Len(emitted_findings') = n + 1
            /\ DOMAIN emitted_findings' = 1..n + 1 /\ emitted_findings'[n + 1] = f
            /\ \A s \in 1..n : emitted_findings'[s] = emitted_findings[s]
        BY <1>1, <4>1, <4>2
      <4>5. QED
        BY <1>1, <3>1, <4>1, <4>3, <4>4
    <3>2. CASE ~(n < MaxEmitted)
      <4>1. Len(emitted_findings) = MaxEmitted
        BY <3>2 DEF Memory
      <4>2. emitted_findings' = [emitted_findings EXCEPT ![next + 1] = f]
        BY <1>1, <2>1, <4>1 DEF Marked
      <4>3. next + 1 \in DOMAIN emitted_findings
        BY <1>1, <4>1
      <4>4. /\ emitted_findings' \in Seq(Findings) /\ Len(emitted_findings') = MaxEmitted
            /\ DOMAIN emitted_findings' = DOMAIN emitted_findings
            /\ emitted_findings'[next + 1] = f
            /\ \A s \in DOMAIN emitted_findings : s # next + 1 =>
                 emitted_findings'[s] = emitted_findings[s]
        BY <1>1, <4>1, <4>2, <4>3
      <4>5. Range(emitted_findings') \subseteq Range(emitted_findings) \cup {f}
        BY <4>4 DEF Range
      <4>6. QED
        BY <1>1, <3>2, <4>1, <4>3, <4>4, <4>5
    <3>3. QED
      BY <3>1, <3>2
  <2>6. n + 1 < MaxEmitted => next' = n + 1
    <3>1. n < MaxEmitted => next = n
      BY DEF Memory
    <3>2. next' = IF next + 1 = MaxEmitted THEN 0 ELSE next + 1
      BY <2>1
    <3>3. n \in Nat /\ MaxEmitted \in Nat /\ next \in Nat
      BY <1>1
    <3>4. QED
      BY <3>1, <3>2, <3>3
  <2>7. ASSUME NEW k \in DOMAIN reported', Len(reported') - k < MaxEmitted
        PROVE  emitted_findings'[SlotOf(k)'] = reported'[k]
    <3>1. CASE k = n + 1
      <4>1. SlotOf(k)' = next + 1
        BY <1>1, <2>1, <2>2, <3>1 DEF SlotOf
      <4>2. QED
        BY <2>2, <2>5, <3>1, <4>1
    <3>2. CASE k # n + 1
      <4>1. k \in DOMAIN reported /\ n - k < MaxEmitted /\ (n + 1) - k < MaxEmitted
        BY <1>1, <2>2, <2>7, <3>2
      <4>2. SlotOf(k)' = SlotOf(k) /\ SlotOf(k) # next + 1
        <5>1. PICK age : age = n - k
          OBVIOUS
        <5>2. /\ age \in Nat /\ age + 1 < MaxEmitted /\ n - k = age /\ (n + 1) - k = age + 1
              /\ next \in 0..(MaxEmitted - 1) /\ MaxEmitted \in Nat
          BY <1>1, <4>1, <5>1
        <5>3. SlotOf(k) = IF age < next THEN next - age ELSE next - age + MaxEmitted
          BY <5>2 DEF SlotOf
        <5>4. SlotOf(k)' = IF age + 1 < next' THEN next' - (age + 1)
                           ELSE next' - (age + 1) + MaxEmitted
          BY <2>2, <5>2 DEF SlotOf
        <5>5. next' = IF next + 1 = MaxEmitted THEN 0 ELSE next + 1
          BY <2>1
        <5>6. CASE next + 1 = MaxEmitted
          BY <5>2, <5>3, <5>4, <5>5, <5>6
        <5>7. CASE next + 1 # MaxEmitted
          BY <5>2, <5>3, <5>4, <5>5, <5>7
        <5>8. QED
          BY <5>6, <5>7
      <4>3. SlotOf(k) \in DOMAIN emitted_findings
        BY <4>1, SlotRange
      <4>4. emitted_findings[SlotOf(k)] = reported[k]
        BY <4>1 DEF Memory
      <4>5. emitted_findings'[SlotOf(k)] = emitted_findings[SlotOf(k)]
        BY <2>5, <4>2, <4>3
      <4>6. reported'[k] = reported[k]
        BY <1>1, <2>2, <4>1
      <4>7. QED
        BY <4>2, <4>4, <4>5, <4>6
    <3>3. QED
      BY <3>1, <3>2
  <2>8. Memory'
    BY <2>2, <2>3, <2>5, <2>6, <2>7 DEF Memory
  <2>9. Len(emitted_findings') <= MaxEmitted
    BY <1>1, <2>5
  <2>10. f \in Range(reported') /\ Range(reported) \subseteq Range(reported')
    BY <2>3
  <2>11. /\ findings' \in Seq(Findings) /\ lost' \subseteq Findings
         /\ Range(findings') \cup lost' = Range(findings) \cup lost \cup {f}
    <3>1. CASE findings' = Append(findings, f) /\ lost' = lost
      BY <3>1, RangeAppend DEF AgentTypeOK
    <3>2. CASE lost' = lost \cup {f} /\ findings' = findings
      BY <3>2 DEF AgentTypeOK
    <3>3. QED
      BY <1>3, <3>1, <3>2 DEF Emit
  <2>12. Written'
    BY <2>3, <2>11 DEF Written
  <2>13. QED
    BY <1>3, <2>1, <2>2, <2>4, <2>5, <2>8, <2>9, <2>10, <2>11, <2>12
<1>4. QED
  BY <1>2, <1>3

----------------------------------------------------------------------------
(* The table of processes: a pid that is allowed was matched at some time, *)
(* and the target, once shut out by a full table, stays out.               *)

TableRight ==
  \A i \in DOMAIN tracked_pids :
    tracked_pids[i].allowed => tracked_pids[i].pid \in matched \cup {Target}

LEMMA AllowedIsOurs ==
  ASSUME TableRight, NEW pid, Allowed(pid), LookAt(pid)
  PROVE  pid \in matched' \cup {Target}
BY DEF TableRight, Allowed, WasAllowed, SlotsOf, exe_matches_binary, LookAt

LEMMA TableStep ==
  ASSUME AgentTypeOK, TableRight, NEW pid \in Pids, LookAt(pid)
  PROVE  /\ tracked_pids' \in Seq(PidEntry) /\ Len(tracked_pids') <= MaxTrackedPids
         /\ matched' \subseteq SameBinary /\ matched \subseteq matched'
         /\ TableRight'
         /\ Crowded => Crowded'
         /\ pid = Target /\ ~Allowed(pid) => Crowded'
<1> DEFINE entry == [pid |-> pid, allowed |-> Allowed(pid)]
           n == Len(tracked_pids)
<1>1. /\ tracked_pids \in Seq(PidEntry) /\ n \in Nat /\ n <= MaxTrackedPids
      /\ MaxTrackedPids \in Nat /\ DOMAIN tracked_pids = 1..n
  BY ConstantsAssumption DEF AgentTypeOK
<1>0. /\ matched' \subseteq SameBinary /\ matched \subseteq matched'
      /\ tracked_pids' = Remembered(pid)
  BY DEF LookAt, AgentTypeOK
<1> n \in Nat /\ MaxTrackedPids \in Nat /\ n <= MaxTrackedPids
  BY <1>1
<1>2. Allowed(pid) \in BOOLEAN
  BY DEF Allowed, HasEntry
<1>3. entry \in PidEntry
  BY <1>2 DEF PidEntry
<1>4. entry.allowed => entry.pid \in matched' \cup {Target}
  BY AllowedIsOurs
<1>5. CASE SlotsOf(pid) # {}
  <2>1. tracked_pids' = [i \in DOMAIN tracked_pids |->
                           IF i \in SlotsOf(pid) THEN entry ELSE tracked_pids[i]]
    BY <1>0, <1>5 DEF Remembered
  <2>2. /\ tracked_pids' \in Seq(PidEntry) /\ Len(tracked_pids') = n
        /\ DOMAIN tracked_pids' = 1..n
    BY <1>1, <1>3, <2>1
  <2>3. \A i \in 1..n : tracked_pids'[i].pid = tracked_pids[i].pid
    BY <1>1, <2>1 DEF SlotsOf
  <2>4. TableRight'
    BY <1>0, <1>1, <1>4, <2>1, <2>2 DEF TableRight
  <2>5. Crowded => Crowded'
    BY <1>1, <2>2, <2>3 DEF Crowded, SlotsOf
  <2>6. ~(pid = Target /\ ~Allowed(pid))
    BY <1>5, PidsAreSet, ConstantsAssumption DEF Allowed, HasEntry
  <2>7. QED
    BY <1>0, <1>1, <2>2, <2>4, <2>5, <2>6
<1>6. CASE SlotsOf(pid) = {} /\ n < MaxTrackedPids
  <2>1. tracked_pids' = Append(tracked_pids, entry)
    BY <1>0, <1>6 DEF Remembered, HasEntry
  <2>2. /\ tracked_pids' \in Seq(PidEntry) /\ Len(tracked_pids') = n + 1
        /\ DOMAIN tracked_pids' = 1..n + 1 /\ tracked_pids'[n + 1] = entry
        /\ \A i \in 1..n : tracked_pids'[i] = tracked_pids[i]
    BY <1>1, <1>3, <2>1
  <2>3. TableRight'
    BY <1>0, <1>1, <1>4, <2>2 DEF TableRight
  <2>4. ~Crowded
    <3>1. Len(tracked_pids) # MaxTrackedPids
      BY <1>6
    <3>2. QED
      BY <3>1 DEF Crowded
  <2>5. pid = Target => Allowed(pid)
    BY <1>6, ConstantsAssumption DEF Allowed, HasEntry
  <2>6. QED
    BY <1>0, <1>1, <1>6, <2>2, <2>3, <2>4, <2>5
<1>7. CASE SlotsOf(pid) = {} /\ ~(n < MaxTrackedPids)
  <2>1. tracked_pids' = tracked_pids
    BY <1>0, <1>7 DEF Remembered, HasEntry
  <2>2. TableRight' /\ (Crowded => Crowded')
    BY <1>0, <2>1 DEF TableRight, Crowded, SlotsOf
  <2>3. pid = Target => Crowded'
    <3>1. Len(tracked_pids) = MaxTrackedPids
      BY <1>7
    <3>2. QED
      BY <1>7, <2>1, <3>1 DEF Crowded, SlotsOf
  <2>4. QED
    BY <1>0, <1>1, <2>1, <2>2, <2>3
<1>8. QED
  BY <1>5, <1>6, <1>7

----------------------------------------------------------------------------
(* What is written to findings.json.                                       *)

Secondaries == {<<"overflow", "invalid">>, <<"mismatch", "double">>}

(* g takes away the ground for f. *)
Spoils(g, f) == g.pid = f.pid /\ g.addr = f.addr /\ <<g.kind, f.kind>> \in Secondaries

FindingsRight ==
  /\ Memory
  /\ Written
  /\ ReportedOnce
  /\ NoSecondCause
  /\ NoForeignFinding

LEMMA FindingsStep ==
  ASSUME AgentTypeOK, TableRight, FindingsRight, NEW f \in Findings,
         Allowed(f.pid), LookAt(f.pid), Emit(f),
         \A g \in Range(emitted_findings) : ~Spoils(g, f)
  PROVE  FindingsRight'
<1> DEFINE n == Len(reported)
<1>1. /\ reported \in Seq(Findings) /\ n \in Nat /\ MaxEmitted \in Nat
      /\ DOMAIN reported = 1..n
  BY ConstantsAssumption DEF AgentTypeOK
<1>2. Memory /\ Memory' /\ Written' /\ matched \subseteq matched'
  BY Emission DEF FindingsRight, LookAt
<1>3. CASE reported' = reported
  BY <1>2, <1>3 DEF FindingsRight, ReportedOnce, NoSecondCause, NoForeignFinding
<1>4. CASE reported' = Append(reported, f) /\ f \notin Range(emitted_findings)
  <2>1. /\ DOMAIN reported' = 1..n + 1 /\ reported'[n + 1] = f
        /\ \A k \in 1..n : reported'[k] = reported[k]
    BY <1>1, <1>4
  <2>2. ASSUME NEW k \in 1..n, Nearby(k, n + 1)
        PROVE  reported[k] \in Range(emitted_findings)
    <3>1. k \in DOMAIN reported /\ Len(reported) - k < MaxEmitted
      BY <1>1, <2>2 DEF Nearby
    <3>2. QED
      BY <1>2, <3>1, Remembers
  <2>3. ASSUME NEW i \in DOMAIN reported', NEW j \in DOMAIN reported', Nearby(i, j)
        PROVE  reported'[i] # reported'[j] /\ ~Spoils(reported'[i], reported'[j])
    <3>1. CASE j = n + 1
      <4>1. i \in 1..n
        BY <1>1, <2>1, <2>3, <3>1 DEF Nearby
      <4>2. reported'[i] \in Range(emitted_findings) /\ reported'[j] = f
        BY <2>1, <2>2, <2>3, <3>1, <4>1
      <4>3. QED
        BY <1>4, <4>2
    <3>2. CASE j # n + 1
      <4>1. i \in 1..n /\ j \in 1..n
        BY <1>1, <2>1, <2>3, <3>2 DEF Nearby
      <4>2. reported[i] # reported[j] /\ ~Spoils(reported[i], reported[j])
        BY <1>1, <2>3, <4>1 DEF FindingsRight, ReportedOnce, NoSecondCause, Spoils, Secondaries
      <4>3. QED
        BY <2>1, <4>1, <4>2
    <3>3. QED
      BY <3>1, <3>2
  <2>4. ReportedOnce' /\ NoSecondCause'
    BY <2>3 DEF ReportedOnce, NoSecondCause, Spoils, Secondaries, Nearby
  <2>5. f.pid \in matched' \cup {Target}
    BY AllowedIsOurs
  <2>6. NoForeignFinding'
    BY <1>1, <1>2, <2>1, <2>5 DEF FindingsRight, NoForeignFinding
  <2>7. QED
    BY <1>2, <2>4, <2>6 DEF FindingsRight
<1>5. QED
  BY <1>3, <1>4, Emission DEF FindingsRight

(* A look that reports nothing.                                            *)
LEMMA SilentLook ==
  ASSUME FindingsRight, matched \subseteq matched', UNCHANGED report
  PROVE  FindingsRight'
BY DEF report, FindingsRight, Memory, SlotOf, Written, ReportedOnce, NoSecondCause,
       NoForeignFinding

----------------------------------------------------------------------------
(* What must still come of the target's events and descriptors.            *)

Harmful(e) == e.kind \notin {"benign", "inDelete"}
Judged(e) == \E f \in Range(reported) : f = FindingOf(e) \/ Explains(f, e)
Reported(d) == LeakOf(d) \in Range(reported)

(* The agent stops of itself or by a signal only when the target is gone;  *)
(* from then on no event and no descriptor of the target is added.         *)
Shutdown ==
  /\ stop \/ target_exit_drain_started => gone
  /\ apc \in {"final", "finalProcess", "leaks", "done"} => stop

Heard ==
  \A e \in sent : e.pid = Target /\ (Harmful(e) => Crowded \/ e \in Range(ring) \/ Judged(e))

Drained == apc \in {"leaks", "done"} /\ rb => \A e \in Range(ring) : e.pid # Target

Scanned ==
  /\ \A c, d \in open_fds : Key(c) = Key(d) => c = d
  /\ apc \notin {"leaks", "done", "killed"} => scan.seen = {}
  /\ \A d \in open_fds :
       d.pid = Target /\ (Key(d) \in scan.seen \/ apc = "done") => Crowded \/ Reported(d)

AgentInv ==
  /\ AgentTypeOK
  /\ TableRight
  /\ FindingsRight
  /\ Shutdown
  /\ Heard
  /\ Drained
  /\ Scanned

LEMMA AgentInitInv == AgentInit => AgentInv
<1> SUFFICES ASSUME AgentInit PROVE AgentInv
  OBVIOUS
<1>1. MaxEmitted \in Nat \ {0} /\ MaxTrackedPids \in Nat \ {0} /\ MaxEvents \in Nat
  BY ConstantsAssumption
<1>2. AgentTypeOK
  <2>1. /\ ring \in Seq(Events) /\ tracked_pids \in Seq(PidEntry)
        /\ emitted_findings \in Seq(Findings) /\ reported \in Seq(Findings)
        /\ findings \in Seq(Findings)
        /\ Len(tracked_pids) <= MaxTrackedPids /\ Len(emitted_findings) <= MaxEmitted
    BY <1>1 DEF AgentInit
  <2>2. budget \in 0..MaxEvents /\ emitted_finding_next \in 0..(MaxEmitted - 1)
    BY <1>1 DEF AgentInit
  <2>3. QED
    BY <2>1, <2>2 DEF AgentInit, AgentTypeOK, Where
<1>3. Memory /\ Written
  BY <1>1 DEF AgentInit, Memory, Range, Written
<1>4. TableRight /\ ReportedOnce /\ NoSecondCause /\ NoForeignFinding
  BY DEF AgentInit, TableRight, ReportedOnce, NoSecondCause, NoForeignFinding
<1>5. Shutdown /\ Heard /\ Drained /\ Scanned
  BY DEF AgentInit, Shutdown, Heard, Drained, Scanned
<1>6. QED
  BY <1>2, <1>3, <1>4, <1>5 DEF AgentInv, FindingsRight

(* A step that leaves the agent's memory alone.                            *)
LEMMA MemoryKept ==
  ASSUME AgentInv, UNCHANGED memory
  PROVE  /\ TableRight' /\ FindingsRight'
         /\ Crowded' = Crowded
         /\ Range(reported') = Range(reported)
BY DEF AgentInv, memory, report, TableRight, FindingsRight, Memory, SlotOf, Written, ReportedOnce,
       NoSecondCause, NoForeignFinding, Crowded, SlotsOf

(* Judging the event e.                                                    *)
LEMMA EventStep ==
  ASSUME AgentInv, NEW e \in Events, on_sentinel_event(e)
  PROVE  /\ reported' \in Seq(Findings) /\ findings' \in Seq(Findings)
         /\ lost' \subseteq Findings /\ matched' \subseteq SameBinary
         /\ emitted_findings' \in Seq(Findings) /\ Len(emitted_findings') <= MaxEmitted
         /\ emitted_finding_next' \in 0..(MaxEmitted - 1)
         /\ tracked_pids' \in Seq(PidEntry) /\ Len(tracked_pids') <= MaxTrackedPids
         /\ TableRight' /\ FindingsRight'
         /\ Crowded => Crowded'
         /\ Range(reported) \subseteq Range(reported')
         /\ e.pid = Target /\ Harmful(e) => Crowded' \/ Judged(e)'
<1>1. e.pid \in Pids /\ LookAt(e.pid)
  BY ConstantsAssumption DEF on_sentinel_event
<1>2. /\ tracked_pids' \in Seq(PidEntry) /\ Len(tracked_pids') <= MaxTrackedPids
      /\ TableRight' /\ (Crowded => Crowded')
      /\ matched' \subseteq SameBinary /\ matched \subseteq matched'
      /\ e.pid = Target /\ ~Allowed(e.pid) => Crowded'
  BY <1>1, TableStep DEF AgentInv
<1>3. CASE Allowed(e.pid) /\ ~Dropped(e)
  <2> DEFINE f == FindingOf(e)
  <2>1. Emit(f) /\ f \in Findings /\ f.pid = e.pid /\ f.addr = e.addr /\ f.kind = e.kind
    BY <1>3 DEF on_sentinel_event, Dropped, Findings, FindingOf
  <2>2. \A g \in Range(emitted_findings) : ~Spoils(g, f)
    BY <1>3, <2>1 DEF Dropped, Secondary, EmittedForAddr, Spoils, Secondaries
  <2>3. FindingsRight'
    BY <1>1, <1>3, <2>1, <2>2, FindingsStep DEF AgentInv
  <2>4. /\ reported' \in Seq(Findings) /\ findings' \in Seq(Findings)
        /\ lost' \subseteq Findings
        /\ emitted_findings' \in Seq(Findings) /\ Len(emitted_findings') <= MaxEmitted
        /\ emitted_finding_next' \in 0..(MaxEmitted - 1)
        /\ f \in Range(reported') /\ Range(reported) \subseteq Range(reported')
    BY <2>1, Emission DEF AgentInv, FindingsRight
  <2>5. Judged(e)'
    BY <2>4 DEF Judged
  <2>6. QED
    BY <1>2, <2>3, <2>4, <2>5
<1>4. CASE ~(Allowed(e.pid) /\ ~Dropped(e))
  <2>1. UNCHANGED report /\ UNCHANGED <<emitted_findings, emitted_finding_next, reported>>
    BY <1>4 DEF on_sentinel_event, report
  <2>2. FindingsRight'
    BY <1>2, <2>1, SilentLook DEF AgentInv
  <2>3. ASSUME e.pid = Target, Harmful(e)
        PROVE  Crowded' \/ Judged(e)'
    <3>1. CASE ~Allowed(e.pid)
      BY <1>2, <2>3, <3>1
    <3>2. CASE Dropped(e)
      <4>1. Secondary(e)
        BY <2>3, <3>2 DEF Dropped, Harmful
      <4>2. PICK g \in Range(emitted_findings) : Explains(g, e)
        BY <2>3, <4>1 DEF Secondary, EmittedForAddr, Explains, Harmful
      <4>3. g \in Range(reported')
        BY <2>1 DEF AgentInv, FindingsRight, Memory
      <4>4. QED
        BY <4>2, <4>3 DEF Judged, Explains
    <3>3. QED
      BY <1>4, <3>1, <3>2
  <2>4. QED
    BY <1>2, <2>1, <2>2, <2>3 DEF AgentInv, AgentTypeOK, report
<1>5. QED
  BY <1>3, <1>4

(* Taking the next event from the ring, or finding it empty, in the loop   *)
(* and in the last poll.                                                   *)
LEMMA TakeStep ==
  ASSUME AgentInv,
         \/ apc = "process" /\ Take("after")
         \/ apc = "finalProcess" /\ Take("leaks")
  PROVE  AgentInv'
<1>1. /\ UNCHANGED <<gone, ours, open_fds, budget, sent, expired, rb, stop,
                     target_exit_drain_started, scan>>
      /\ apc \in {"process", "finalProcess"}
  BY DEF Take
<1>2. CASE ring # <<>>
  <2>0. PICK e \in Events : e = Head(ring)
    BY <1>2, RangeHeadTail DEF AgentInv, AgentTypeOK
  <2>1. on_sentinel_event(e) /\ ring' = Tail(ring) /\ UNCHANGED apc
    BY <1>2, <2>0 DEF Take
  <2>2. /\ e \in Events /\ ring' \in Seq(Events)
        /\ \A x \in Range(ring) : x = e \/ x \in Range(ring')
    BY <1>2, <2>0, <2>1, RangeHeadTail DEF AgentInv, AgentTypeOK
  <2>3. /\ reported' \in Seq(Findings) /\ findings' \in Seq(Findings)
        /\ lost' \subseteq Findings /\ matched' \subseteq SameBinary
        /\ emitted_findings' \in Seq(Findings) /\ Len(emitted_findings') <= MaxEmitted
        /\ emitted_finding_next' \in 0..(MaxEmitted - 1)
        /\ tracked_pids' \in Seq(PidEntry) /\ Len(tracked_pids') <= MaxTrackedPids
        /\ TableRight' /\ FindingsRight'
        /\ Crowded => Crowded'
        /\ Range(reported) \subseteq Range(reported')
        /\ e.pid = Target /\ Harmful(e) => Crowded' \/ Judged(e)'
    BY <2>1, <2>2, EventStep
  <2>4. AgentTypeOK'
    BY <1>1, <2>1, <2>2, <2>3 DEF AgentInv, AgentTypeOK
  <2>5. Heard'
    <3>1. ASSUME NEW x \in sent, Harmful(x)
          PROVE  Crowded' \/ x \in Range(ring') \/ Judged(x)'
      <4>1. x.pid = Target /\ (Crowded \/ x \in Range(ring) \/ Judged(x))
        BY <3>1 DEF AgentInv, Heard
      <4>2. Judged(x) => Judged(x)'
        BY <2>3 DEF Judged
      <4>3. QED
        BY <2>2, <2>3, <3>1, <4>1, <4>2
    <3>2. QED
      BY <1>1, <3>1 DEF AgentInv, Heard, Harmful
  <2>6. Shutdown' /\ Drained'
    BY <1>1, <2>1 DEF AgentInv, Shutdown, Drained
  <2>7. Scanned'
    BY <1>1, <2>1, <2>3 DEF AgentInv, Scanned, Reported
  <2>8. QED
    BY <2>3, <2>4, <2>5, <2>6, <2>7 DEF AgentInv
<1>3. CASE ring = <<>>
  <2>1. UNCHANGED <<memory, ring>> /\ apc' \in {"after", "leaks"}
        /\ (apc' = "leaks" => apc = "finalProcess")
    BY <1>3 DEF Take, Goto
  <2>2. /\ TableRight' /\ FindingsRight' /\ Crowded' = Crowded
        /\ Range(reported') = Range(reported)
    BY <2>1, MemoryKept
  <2>3. AgentTypeOK'
    BY <1>1, <2>1 DEF AgentInv, AgentTypeOK, memory, report, Where
  <2>4. Heard'
    BY <1>1, <2>1, <2>2 DEF AgentInv, Heard, Judged, memory
  <2>5. Shutdown'
    BY <1>1, <2>1 DEF AgentInv, Shutdown
  <2>6. Drained'
    BY <1>3, <2>1 DEF Drained, Range
  <2>7. Scanned'
    BY <1>1, <2>1, <2>2 DEF AgentInv, Scanned, Reported
  <2>8. QED
    BY <2>2, <2>3, <2>4, <2>5, <2>6, <2>7 DEF AgentInv
<1>4. QED
  BY <1>2, <1>3

(* One key of the leak scan.                                               *)
LEMMA LeakScanStep ==
  ASSUME AgentInv, NEW d \in Descriptors, LeakScan(d)
  PROVE  AgentInv'
<1>1. /\ apc = "leaks" /\ d \in open_fds
      /\ UNCHANGED <<world, apc, rb, stop, target_exit_drain_started>>
      /\ scan' = [prev |-> Key(d), seen |-> Seen \cup {Key(d)}]
      /\ LookAt(d.pid)
  BY DEF LeakScan
<1>2. d.pid \in Pids /\ Key(d) \in DescriptorKeys /\ Seen \subseteq scan.seen
  BY ConstantsAssumption DEF Key, DescriptorKeys, Seen
<1>3. /\ tracked_pids' \in Seq(PidEntry) /\ Len(tracked_pids') <= MaxTrackedPids
      /\ TableRight' /\ (Crowded => Crowded')
      /\ matched' \subseteq SameBinary /\ matched \subseteq matched'
      /\ d.pid = Target /\ ~Allowed(d.pid) => Crowded'
  BY <1>1, <1>2, TableStep DEF AgentInv
<1>4. /\ reported' \in Seq(Findings) /\ findings' \in Seq(Findings)
      /\ lost' \subseteq Findings
      /\ emitted_findings' \in Seq(Findings) /\ Len(emitted_findings') <= MaxEmitted
      /\ emitted_finding_next' \in 0..(MaxEmitted - 1)
      /\ FindingsRight'
      /\ Range(reported) \subseteq Range(reported')
      /\ Allowed(d.pid) => Reported(d)'
  <2>1. CASE Allowed(d.pid)
    <3> DEFINE f == LeakOf(d)
    <3>1. Emit(f) /\ f \in Findings /\ f.pid = d.pid /\ f.kind = "leak"
      BY <2>1 DEF LeakScan, Findings, LeakOf
    <3>2. \A g \in Range(emitted_findings) : ~Spoils(g, f)
      BY <3>1 DEF Spoils, Secondaries
    <3>3. FindingsRight'
      BY <1>1, <2>1, <3>1, <3>2, FindingsStep DEF AgentInv
    <3>4. QED
      BY <3>1, <3>3, Emission DEF AgentInv, FindingsRight, Reported
  <2>2. CASE ~Allowed(d.pid)
    <3>1. UNCHANGED report
      BY <2>2 DEF LeakScan
    <3>2. FindingsRight'
      BY <1>3, <3>1, SilentLook DEF AgentInv
    <3>3. QED
      BY <2>2, <3>1, <3>2 DEF AgentInv, AgentTypeOK, report
  <2>3. QED
    BY <2>1, <2>2
<1>5. AgentTypeOK'
  BY <1>1, <1>2, <1>3, <1>4 DEF AgentInv, AgentTypeOK, world
<1>6. Heard'
  BY <1>1, <1>3, <1>4 DEF AgentInv, Heard, Judged, world
<1>7. Shutdown' /\ Drained'
  BY <1>1 DEF AgentInv, Shutdown, Drained, world
<1>8. Scanned'
  <2>1. ASSUME NEW c \in open_fds, c.pid = Target, Key(c) \in scan'.seen
        PROVE  Crowded' \/ Reported(c)'
    <3>1. CASE Key(c) \in scan.seen
      <4>1. Crowded \/ Reported(c)
        BY <2>1, <3>1 DEF AgentInv, Scanned
      <4>2. QED
        BY <1>3, <1>4, <4>1 DEF Reported
    <3>2. CASE Key(c) \notin scan.seen
      <4>1. c = d
        BY <1>1, <1>2, <2>1, <3>2 DEF AgentInv, Scanned
      <4>2. QED
        BY <1>3, <1>4, <2>1, <4>1
    <3>3. QED
      BY <3>1, <3>2
  <2>2. QED
    BY <1>1, <2>1 DEF AgentInv, Scanned, world
<1>9. QED
  BY <1>3, <1>4, <1>5, <1>6, <1>7, <1>8 DEF AgentInv

(* Steps that leave the agent's memory, its ring, the events sent and the  *)
(* open descriptors alone, and may move the agent.                         *)
LEMMA QuietStep ==
  ASSUME AgentInv, UNCHANGED <<memory, ring, sent, open_fds, budget, scan>>,
         gone' \in BOOLEAN, ours' \subseteq SameBinary, rb' \in BOOLEAN, expired' \in BOOLEAN,
         stop' \in BOOLEAN, target_exit_drain_started' \in BOOLEAN, apc' \in Where,
         Shutdown',
         rb' = rb \/ apc = "starting",
         \/ apc' \in {apc, "killed"}
         \/ apc \notin {"leaks", "done", "killed"}
              /\ (apc' \notin {"leaks", "done"} \/ (apc' = "leaks" /\ ~rb'))
         \/ apc = "leaks" /\ apc' = "done" /\ \A d \in open_fds : Key(d) \in scan.seen
  PROVE  AgentInv'
<1>1. TableRight' /\ FindingsRight' /\ Crowded' = Crowded /\ Range(reported') = Range(reported)
  BY MemoryKept
<1>2. AgentTypeOK'
  BY DEF AgentInv, AgentTypeOK, memory, report
<1>3. Heard' /\ Drained'
  BY <1>1 DEF AgentInv, Heard, Drained, Judged
<1>4. Scanned'
  BY <1>1 DEF AgentInv, Scanned, Reported
<1>5. QED
  BY <1>1, <1>2, <1>3, <1>4 DEF AgentInv

LEMMA AgentStepInv == AgentInv /\ [AgentNext]_agentVars => AgentInv'
<1> SUFFICES ASSUME AgentInv, [AgentNext]_agentVars PROVE AgentInv'
  OBVIOUS
<1> USE DEF Goto, Where
<1>0. /\ gone \in BOOLEAN /\ ours \subseteq SameBinary /\ rb \in BOOLEAN /\ expired \in BOOLEAN /\ stop \in BOOLEAN
      /\ target_exit_drain_started \in BOOLEAN /\ apc \in Where /\ Shutdown
  BY DEF AgentInv, AgentTypeOK
<1>1. CASE Ready
  BY <1>0, <1>1, QuietStep DEF Ready, world, Shutdown
<1>2. CASE LoopHead
  BY <1>0, <1>2, QuietStep DEF LoopHead, world, Shutdown
<1>3. CASE Wake
  BY <1>0, <1>3, QuietStep DEF Wake, world, Shutdown
<1>4. CASE Process
  BY <1>4, TakeStep DEF Process
<1>5. CASE AfterPoll
  BY <1>0, <1>5, QuietStep DEF AfterPoll, world, Shutdown
<1>6. CASE Final
  BY <1>0, <1>6, QuietStep DEF Final, FinalPoll, world, Shutdown
<1>7. CASE FinalProcess
  BY <1>7, TakeStep DEF FinalProcess
<1>8. CASE ScanEnd
  <2>1. \A d \in open_fds : Key(d) \in scan.seen
    BY <1>8 DEF ScanEnd, OpenKeys, Seen
  <2>2. QED
    BY <1>0, <1>8, <2>1, QuietStep DEF ScanEnd, world, Shutdown
<1>9. ASSUME NEW d \in Descriptors, LeakScan(d) PROVE AgentInv'
  BY <1>9, LeakScanStep
<1>10. ASSUME NEW e \in Events, SubmitEvent(e) PROVE AgentInv'
  <2>1. /\ Probing /\ (e.pid = Target => ~gone) /\ ring' = Append(ring, e) /\ budget' = budget - 1
        /\ budget > 0
        /\ sent' = IF e.pid = Target THEN sent \cup {e} ELSE sent
        /\ UNCHANGED <<gone, ours, open_fds, expired, memory, loop>>
    BY <1>10 DEF SubmitEvent, Live
  <2>2. ring \in Seq(Events) /\ ring' \in Seq(Events) /\ Range(ring') = Range(ring) \cup {e}
    BY <2>1, RangeAppend DEF AgentInv, AgentTypeOK
  <2>3. budget' \in 0..MaxEvents
    BY <2>1, ConstantsAssumption DEF AgentInv, AgentTypeOK
  <2>4. /\ TableRight' /\ FindingsRight' /\ Crowded' = Crowded
        /\ Range(reported') = Range(reported)
    BY <2>1, MemoryKept
  <2>5. AgentTypeOK'
    BY <2>1, <2>2, <2>3 DEF AgentInv, AgentTypeOK, memory, report, loop
  <2>6. Heard'
    BY <2>1, <2>2, <2>4 DEF AgentInv, Heard, Judged
  <2>7. Shutdown' /\ Drained' /\ Scanned'
    BY <2>1, <2>2, <2>4 DEF AgentInv, Shutdown, Drained, Scanned, Reported, loop
  <2>8. QED
    BY <2>4, <2>5, <2>6, <2>7 DEF AgentInv
<1>11. ASSUME NEW d \in Descriptors, OpenDescriptor(d) PROVE AgentInv'
  <2>1. /\ Probing /\ (d.pid = Target => ~gone)
        /\ open_fds' = {x \in open_fds : Key(x) # Key(d)} \cup {d}
        /\ budget' = budget - 1 /\ budget > 0
        /\ \/ scan' = scan
           \/ apc = "leaks" /\ scan' = [scan EXCEPT !.seen = @ \cup {Key(d)}]
        /\ UNCHANGED <<gone, ours, ring, sent, expired, memory, apc, rb, stop,
                       target_exit_drain_started>>
    BY <1>11 DEF OpenDescriptor, Live
  <2>2. /\ budget' \in 0..MaxEvents /\ Key(d) \in DescriptorKeys
        /\ scan \in [prev : DescriptorKeys \cup {None}, seen : SUBSET DescriptorKeys]
    BY <2>1, ConstantsAssumption DEF AgentInv, AgentTypeOK, Key, DescriptorKeys
  <2>3. /\ TableRight' /\ FindingsRight' /\ Crowded' = Crowded
        /\ Range(reported') = Range(reported)
    BY <2>1, MemoryKept
  <2>4. scan' \in [prev : DescriptorKeys \cup {None}, seen : SUBSET DescriptorKeys]
    BY <2>1, <2>2
  <2>5. AgentTypeOK'
    BY <2>1, <2>2, <2>4 DEF AgentInv, AgentTypeOK, memory, report
  <2>6. Heard' /\ Shutdown' /\ Drained'
    BY <2>1, <2>3 DEF AgentInv, Heard, Judged, Shutdown, Drained
  <2>7. apc \in {"leaks", "done", "killed"} => d.pid # Target \/ apc = "killed"
    BY <2>1 DEF AgentInv, Shutdown
  <2>8. Scanned'
    <3>1. \A c \in open_fds' : c = d \/ (c \in open_fds /\ Key(c) # Key(d))
      BY <2>1
    <3>2. \A k : k \in scan'.seen => k \in scan.seen \/ (k = Key(d) /\ apc = "leaks")
      BY <2>1, <2>2
    <3>3. apc # "killed" /\ apc # "done"
      BY <2>1 DEF Probing
    <3>4. QED
      BY <2>1, <2>3, <2>7, <3>1, <3>2, <3>3 DEF AgentInv, Scanned, Reported
  <2>9. QED
    BY <2>3, <2>5, <2>6, <2>8 DEF AgentInv
<1>12. ASSUME NEW d \in Descriptors, CloseDescriptor(d) PROVE AgentInv'
  <2>1. /\ open_fds' \subseteq open_fds
        /\ UNCHANGED <<gone, ours, ring, budget, sent, expired, memory, loop>>
    BY <1>12 DEF CloseDescriptor
  <2>2. /\ TableRight' /\ FindingsRight' /\ Crowded' = Crowded
        /\ Range(reported') = Range(reported)
    BY <2>1, MemoryKept
  <2>3. AgentTypeOK'
    BY <2>1 DEF AgentInv, AgentTypeOK, memory, report, loop
  <2>4. Heard' /\ Shutdown' /\ Drained' /\ Scanned'
    BY <2>1, <2>2 DEF AgentInv, Heard, Judged, Shutdown, Drained, Scanned, Reported, loop
  <2>5. QED
    BY <2>2, <2>3, <2>4 DEF AgentInv
<1>13. ASSUME NEW pid \in SameBinary, BinaryChanges(pid) PROVE AgentInv'
  BY <1>0, <1>13, QuietStep DEF BinaryChanges, loop, Shutdown
<1>14. CASE DrainDeadline
  BY <1>0, <1>14, QuietStep DEF DrainDeadline, loop, Shutdown
<1>15. CASE Start
  BY <1>0, <1>15, QuietStep DEF Start, world, Shutdown
<1>16. CASE TargetReaped
  BY <1>0, <1>16, PidsAreSet, QuietStep DEF TargetReaped, loop, Shutdown
<1>17. CASE Terminate
  BY <1>0, <1>17, QuietStep DEF Terminate, world, Shutdown, Probing
<1>18. CASE Kill
  BY <1>0, <1>18, QuietStep DEF Kill, world, Shutdown, Probing
<1>19. CASE UNCHANGED agentVars
  BY <1>0, <1>19, QuietStep DEF agentVars, world, loop, Shutdown
<1>20. QED
  BY <1>1, <1>2, <1>3, <1>4, <1>5, <1>6, <1>7, <1>8, <1>9, <1>10, <1>11, <1>12, <1>13,
     <1>14, <1>15, <1>16, <1>17, <1>18, <1>19
     DEF AgentNext, AgentStep, OthersStep, TargetWorks

LEMMA AgentAlways == AgentSpec => []AgentInv
BY AgentInitInv, AgentStepInv, PTL DEF AgentSpec

LEMMA AllJudgedInv == AgentInv => AllJudged
<1> SUFFICES ASSUME AgentInv, apc = "done", ~Crowded
             PROVE  /\ rb => \A e \in sent : Harmful(e) =>
                         \E f \in Range(findings) \cup lost : f = FindingOf(e) \/ Explains(f, e)
                    /\ \A d \in open_fds : d.pid = Target =>
                         LeakOf(d) \in Range(findings) \cup lost
  BY DEF AllJudged, Harmful
<1>1. ASSUME rb, NEW e \in sent, Harmful(e) PROVE Judged(e)
  <2>1. e.pid = Target /\ (e \in Range(ring) \/ Judged(e))
    BY <1>1 DEF AgentInv, Heard
  <2>2. e \notin Range(ring)
    BY <1>1, <2>1 DEF AgentInv, Drained
  <2>3. QED
    BY <2>1, <2>2
<1>2. \A d \in open_fds : d.pid = Target => Reported(d)
  BY DEF AgentInv, Scanned
<1>3. \A f \in Range(reported) : f \in Range(findings) \cup lost
  BY DEF AgentInv, FindingsRight, Written
<1>4. QED
  BY <1>1, <1>2, <1>3 DEF Judged, Reported

(* The agent's table, memory and ring keep their types and limits, however *)
(* many processes and reported come.                                       *)
THEOREM AgentTypes == AgentSpec => []AgentTypeOK
<1>1. AgentInv => AgentTypeOK
  BY DEF AgentInv
<1>2. QED
  BY <1>1, AgentAlways, PTL

(* A finding is not reported again until MaxEmitted others came in between.*)
THEOREM EachReportedOnce == AgentSpec => []ReportedOnce
<1>1. AgentInv => ReportedOnce
  BY DEF AgentInv, FindingsRight
<1>2. QED
  BY <1>1, AgentAlways, PTL

(* No consequence is reported as a cause of its own while its cause is     *)
(* remembered.                                                             *)
THEOREM CausesOnly == AgentSpec => []NoSecondCause
<1>1. AgentInv => NoSecondCause
  BY DEF AgentInv, FindingsRight
<1>2. QED
  BY <1>1, AgentAlways, PTL

(* Only the target is reported, and pids that ran its binary once when an  *)
(* event or descriptor of theirs was judged.                               *)
THEOREM OursOnly == AgentSpec => []NoForeignFinding
<1>1. AgentInv => NoForeignFinding
  BY DEF AgentInv, FindingsRight
<1>2. QED
  BY <1>1, AgentAlways, PTL

(* An agent with a ring that ends by itself has written, failed to write   *)
(* or explained by another finding whatever the target did wrong, unless   *)
(* its table was full when the target's first event came.                  *)
THEOREM NothingUnjudged == AgentSpec => []AllJudged
BY AllJudgedInv, AgentAlways, PTL
=============================================================================
