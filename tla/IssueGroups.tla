---------------------------- MODULE IssueGroups ----------------------------
(***************************************************************************)
(* Fingerprints and groups of findings (recompile/rerun/src/issue_groups.rs*)
(* and, for the groups of a repeated run, observation.rs).                 *)
(*                                                                         *)
(* A finding is a record of the JSON fields that are read here:            *)
(*   id, origin, class, message, high (the confidence), plan (escalation)  *)
(*   operation, access, alloc, offset   evidence.memory, evidence.api      *)
(*   alloc_site, stacks                 evidence                           *)
(*   tool       evidence.tool: name, line, call, alloc, free; gdb          *)
(*   binary, source, status             provenance                         *)
(*   fingerprint                        what annotate has written          *)
(* A field that is absent is None.  Texts are those of ToolReports.        *)
(*                                                                         *)
(* A fingerprint is the tuple of the hashed fields: equal hashes of        *)
(* different tuples are left out.                                          *)
(***************************************************************************)
EXTENDS ToolReports, FiniteSets

CONSTANT Offset   \* says of a frame "binary+0x...": nothing stable

Known(field) == field # None

FirstKnown(a, b) == IF Known(a) THEN a ELSE b

(* normalize_stack_site: the location in a frame, or the text without the  *)
(* process ids and addresses that change from run to run.                  *)
StackSite(frame) ==
  IF frame = None THEN None
  ELSE IF frame.says = Offset THEN None ELSE frame.says

FirstStackSite(frames) ==
  LET stable == {i \in DOMAIN frames : Known(StackSite(frames[i]))}
  IN IF stable = {} THEN None
     ELSE StackSite(frames[CHOOSE i \in stable : \A j \in stable : i <= j])

ToolName(f) ==
  IF Known(f.tool) THEN f.tool.name
  ELSE IF f.origin \notin {None, "ebpf"} THEN f.origin
  ELSE None

ToolFrame(f, which) == IF Known(f.tool) THEN StackSite(f.tool[which]) ELSE None

(* Without the process id.  A tool's summary is also its message. *)
ToolSummary(f) == IF Known(f.message) THEN f.message.says ELSE None

FindingCallSite(f) == FirstKnown(ToolFrame(f, "call"), FirstStackSite(f.stacks.call))

FindingAllocSite(f) ==
  FirstKnown(f.alloc_site,
             FirstKnown(ToolFrame(f, "alloc"), FirstStackSite(f.stacks.alloc)))

FindingFreeSite(f) == FirstKnown(ToolFrame(f, "free"), FirstStackSite(f.stacks.free))

(* An agent's finding whose source and allocation are known needs no call  *)
(* site.                                                                   *)
FingerprintCallSite(f) ==
  IF /\ ~Known(ToolName(f))
     /\ Known(f.source) /\ Known(FindingAllocSite(f))
     /\ Known(f.access) \/ Known(f.alloc) \/ Known(f.offset)
  THEN None ELSE FindingCallSite(f)

(* An agent's finding with all sizes is told by them and the binary alone, *)
(* whatever could be symbolized.                                           *)
HasNativeIdentity(f) ==
  /\ ~Known(ToolName(f))
  /\ f.class # "unknown" /\ f.operation # "unknown"
  /\ Known(f.access) /\ Known(f.alloc) /\ Known(f.offset)

BinaryIdentity(f) ==
  IF \/ HasNativeIdentity(f)
     \/ /\ Known(ToolName(f))
        /\ ~Known(f.source) /\ ~Known(FingerprintCallSite(f))
        /\ ~Known(FindingAllocSite(f)) /\ ~Known(FindingFreeSite(f))
  THEN f.binary ELSE None

NoSites == <<None, None, None, None>>
Sites(f) == <<f.source, FingerprintCallSite(f), FindingAllocSite(f), FindingFreeSite(f)>>

(* issue_fingerprint of fingerprint_inputs *)
Fingerprint_BySite(f) ==                           \* mutant
  [what |-> <<f.class, f.operation>>, sites |-> Sites(f),
   sizes |-> <<f.access, f.alloc, f.offset>>,
   native |-> HasNativeIdentity(f), tool |-> ToolName(f),
   summary |-> IF Known(ToolName(f)) THEN ToolSummary(f) ELSE None,
   binary |-> BinaryIdentity(f)]
Fingerprint(f) ==
  [what |-> <<f.class, f.operation>>,
   sites |-> IF HasNativeIdentity(f) THEN NoSites ELSE Sites(f),
   sizes |-> <<f.access, f.alloc, f.offset>>,
   native |-> HasNativeIdentity(f), tool |-> ToolName(f),
   summary |-> IF Known(ToolName(f)) THEN ToolSummary(f) ELSE None,
   binary |-> BinaryIdentity(f)]

----------------------------------------------------------------------------
(* annotate_findings_with_issue_groups                                     *)

Annotated(findings) ==
  [i \in DOMAIN findings |->
     [findings[i] EXCEPT !.fingerprint = Fingerprint(findings[i])]]

IndicesOf(findings, fp) == {i \in DOMAIN findings : Fingerprint(findings[i]) = fp}

(* The groups by fingerprint; the first finding gives the rest. *)
IssueGroups(findings) ==
  [fp \in {Fingerprint(findings[i]) : i \in DOMAIN findings} |->
     LET first == findings[Min(IndicesOf(findings, fp))]
     IN [class |-> first.class, status |-> first.status,
         indices |-> IndicesOf(findings, fp),
         ids |-> {findings[i].id : i \in IndicesOf(findings, fp)}]]

FindingCount(group) == Cardinality(group.indices)

----------------------------------------------------------------------------
(* aggregate_repeat_issue_groups: the groups of all attempts.  An input is *)
(* a group of one attempt: fingerprint, class, attempt, count.             *)

AttemptInputs(attempt, groups) ==
  {[fingerprint |-> fp, class |-> groups[fp].class, attempt |-> attempt,
    count |-> FindingCount(groups[fp])] : fp \in DOMAIN groups}

OccurrenceCount(seen) == MapThenSumSet(LAMBDA i : i.count, seen)

RepeatGroups(inputs) ==
  [fp \in {i.fingerprint : i \in inputs} |->
     LET seen == {i \in inputs : i.fingerprint = fp}
         attempts == {i.attempt : i \in seen}
     IN [class |-> (CHOOSE i \in seen : i.attempt = Min(attempts)).class,
         attempt_count |-> Cardinality(attempts),
         occurrence_count |-> OccurrenceCount(seen),
         first_attempt |-> Min(attempts), last_attempt |-> Max(attempts),
         representative |-> CHOOSE i \in seen : i.attempt = Min(attempts)]]

============================================================================
