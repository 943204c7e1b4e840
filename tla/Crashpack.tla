----------------------------- MODULE Crashpack -----------------------------
(***************************************************************************)
(* The files of a crashpack and what rerun does to them: native.rs writes  *)
(* them at the end of a run, cli.rs adds what the tools found.             *)
(*                                                                         *)
(* A pack is a record of its files; a file that is not there is None.  An  *)
(* operation that writes several files can fail after any of them.         *)
(***************************************************************************)
EXTENDS EscalationRunner, IssueGroups

CONSTANTS
  Binary,       \* the file name of the target
  SourceFile,   \* the source file of a location
  Symbolized,   \* what the symbolizer says of an Offset frame: a file or None
  Ldd,          \* what ldd says: a sequence of lines [kind, name, system]
  StopsAfter    \* bound: after how many files a finalize may fail

EmptyPack ==
  [analysis |-> FALSE, console |-> FALSE, bin |-> FALSE, findings |-> None,
   groups |-> None, manifest |-> None, deps |-> None, libs |-> {},
   evidence |-> None, results |-> None, replay |-> None]

(* GENERATED_OUTPUT_FILES and GENERATED_OUTPUT_DIRS: bin and libs are in   *)
(* bins/, results in escalations/.                                         *)
Generated_NoEscalations == DOMAIN EmptyPack \ {"results"}    \* mutant
Generated == DOMAIN EmptyPack

(* prepare_output_dir *)
Prepared(pack) ==
  [file \in DOMAIN pack |-> IF file \in Generated THEN EmptyPack[file] ELSE pack[file]]

----------------------------------------------------------------------------
(* Findings.                                                               *)

FrameSource(frame) == IF frame.named THEN SourceFile[frame.says] ELSE None

(* extract_source_path: the allocation site, else the first frame with a   *)
(* location behind a name, else the first frame the symbolizer can place.  *)
FirstSource(sources) ==
  LET placed == {i \in DOMAIN sources : Known(sources[i])}
  IN IF placed = {} THEN None ELSE sources[Min(placed)]

ExtractSourcePath(f) ==
  LET frames == f.stacks.call \o f.stacks.alloc
  IN FirstKnown(f.alloc_site,
       FirstKnown(FirstSource([i \in DOMAIN frames |-> FrameSource(frames[i])]),
         FirstSource([i \in DOMAIN frames |->
           IF frames[i].says = Offset THEN Symbolized ELSE None])))

(* attach_finding_provenance: what is there stays, but a source makes the  *)
(* status "resolved".                                                      *)
AttachProvenance(f) ==
  LET source == ExtractSourcePath(f)
  IN [f EXCEPT !.binary = FirstKnown(@, Binary),
               !.source = FirstKnown(@, source),
               !.status = IF Known(source) THEN "resolved"
                          ELSE FirstKnown(@, "unresolved")]

NoStacks == [call |-> <<>>, alloc |-> <<>>, free |-> <<>>, crash |-> <<>>]

(* crash_observation_finding, for a signal that observed_signal_name knows.*)
CrashFinding(id) ==
  [id |-> id, origin |-> "runtime", class |-> "unclassified_crash",
   message |-> Text("terminated with signal", 0), high |-> FALSE, plan |-> "gdb",
   operation |-> "crash_observed", access |-> None, alloc |-> None, offset |-> None,
   alloc_site |-> None, stacks |-> NoStacks, tool |-> None, gdb |-> None,
   binary |-> Binary, source |-> None, status |-> "unresolved", fingerprint |-> None]

ClassCounts(findings) ==
  [c \in {findings[i].class : i \in DOMAIN findings} |->
     Cardinality({i \in DOMAIN findings : findings[i].class = c})]

----------------------------------------------------------------------------
(* finalize_findings_with_crash                                            *)

WriteManifest(findings) ==
  [total |-> Len(findings),
   high |-> Cardinality({i \in DOMAIN findings : findings[i].high}),
   tools |-> {findings[i].plan : i \in DOMAIN findings} \ {None}]

(* parse_ldd_line *)
LddStatus ==
     "not found" :> "Missing" @@ "=> path" :> "Resolved" @@ "=>" :> "Unknown"
  @@ "/path" :> "Loader" @@ "name" :> "Unknown"

DependencyMetadata ==
  {[name |-> l.name, status |-> LddStatus[l.kind], system |-> l.system] :
     l \in {l \in ToSet(Ldd) : l.kind \in DOMAIN LddStatus}}

(* copy_local_dynamic_dependencies: not those of the system's directories. *)
LocalLibraries(deps) == {d.name : d \in {d \in deps : d.status = "Resolved" /\ ~d.system}}

(* build_agent_evidence_pack *)
EvidencePack(findings, groups) ==
  [captured |-> TRUE, total |-> Len(findings), class_counts |-> ClassCounts(findings),
   resolved |-> Cardinality({i \in DOMAIN findings : findings[i].status = "resolved"}),
   unresolved |-> Cardinality({i \in DOMAIN findings : findings[i].status = "unresolved"}),
   issue_groups |-> groups,
   findings |-> [i \in DOMAIN findings |->
      [id |-> findings[i].id, fingerprint |-> findings[i].fingerprint,
       class |-> findings[i].class]]]

(* crash is a sequence of at most one crash finding: it counts when there  *)
(* is no other finding.                                                    *)
FinalFindings(pack, crash) ==
  LET kept == IF pack.findings = None THEN <<>>
              ELSE [i \in DOMAIN pack.findings |-> AttachProvenance(pack.findings[i])]
  IN Annotated(IF kept = <<>> THEN crash ELSE kept)

Finalized(pack, crash) ==
  LET findings == FinalFindings(pack, crash)
      groups == IssueGroups(findings)
  IN [pack EXCEPT !.bin = TRUE, !.findings = findings, !.groups = groups,
                  !.manifest = WriteManifest(findings), !.deps = DependencyMetadata,
                  !.libs = @ \cup LocalLibraries(DependencyMetadata),
                  !.evidence = EvidencePack(findings, groups)]

(* The files in the order they are written. *)
FinalizeOrder == <<"bin", "findings", "groups", "manifest", "deps", "libs", "evidence">>

ASSUME StopsAreBetween == StopsAfter \subseteq 0..Len(FinalizeOrder)

WrittenSoFar(old, new, count) ==
  [file \in DOMAIN old |->
     IF file \in ToSet(SubSeq(FinalizeOrder, 1, count)) THEN new[file] ELSE old[file]]

Done(pack) == [ok |-> TRUE, pack |-> pack]
Broken(pack) == [ok |-> FALSE, pack |-> pack]

(* present: the original binary can be read; without it nothing is written.*)
Finalizations(pack, crash, present) ==
  LET final == Finalized(pack, crash)
  IN {Broken(WrittenSoFar(pack, final, k)) : k \in IF present THEN StopsAfter ELSE {0}}
       \cup (IF present THEN {Done(final)} ELSE {})

(* prepare_tool_only_crashpack: it begins with prepare_output_dir, so what *)
(* an agent wrote before the native run failed is gone                     *)
(* (observation-run.md:290-293 speaks of an empty findings.json "if no     *)
(* native evidence exists").                                               *)
ToolOnlyPacks(pack, present) ==
  LET start == [Prepared(pack) EXCEPT !.analysis = present]
  IN {IF f.ok THEN Done([f.pack EXCEPT !.console = TRUE]) ELSE f :
        f \in Finalizations(start, <<>>, present)}

----------------------------------------------------------------------------
(* promote_tool_findings_to_crashpack                                      *)

(* tool_detection_key *)
Key(tool, d) == <<tool, d.class, d.summary, d.line, d.call, d.alloc, d.free>>
KeyOf(f) == <<f.tool.name, f.class, f.message, f.tool.line,
              f.tool.call, f.tool.alloc, f.tool.free>>

ExistingKeys(findings) == {KeyOf(f) : f \in {f \in ToSet(findings) : Known(f.tool)}}

(* confirms_existing_finding *)
Confirms(findings, result, d) ==
  /\ result.finding \notin {CleanRun, ToolOnly}
  /\ \E f \in ToSet(findings) : f.id = result.finding /\ f.class = d.class

One(frame) == IF Known(frame) THEN <<frame>> ELSE <<>>

ToolFindingId_NoIndex(result, d, index) == <<result.tool, d.class, result.id>>  \* mutant
ToolFindingId(result, d, index) == <<result.tool, d.class, result.id, index>>

ToolBackedFinding(result, d, index) ==
  [id |-> ToolFindingId(result, d, index), origin |-> result.tool,
   class |-> d.class, message |-> d.summary, high |-> FALSE, plan |-> None,
   operation |-> result.tool, access |-> None, alloc |-> None, offset |-> None,
   alloc_site |-> None,
   stacks |-> [NoStacks EXCEPT !.call = Append(One(d.call), d.summary),
                               !.alloc = One(d.alloc), !.free = One(d.free)],
   tool |-> [name |-> result.tool, line |-> d.line,
             call |-> d.call, alloc |-> d.alloc, free |-> d.free],
   gdb |-> None, binary |-> Binary, source |-> None, status |-> "unresolved",
   fingerprint |-> None]

(* enrich_gdb_crash_findings *)
HasStack(result) ==
  result.tool = "gdb" /\ result.success /\ result.confirmed /\ result.frames # <<>>

Enriches(result, f) ==
  HasStack(result) /\ f.class = "unclassified_crash" /\ f.id = result.finding

EnrichedBy_CallStack(f, result) ==                 \* mutant
  [f EXCEPT !.stacks.call = result.frames, !.gdb = result.id]
EnrichedBy(f, result) == [f EXCEPT !.stacks.crash = result.frames, !.gdb = result.id]

(* Every stack replaces the one before it. *)
EnrichGdb(findings, results) ==
  [i \in DOMAIN findings |->
     LET stacks == {k \in DOMAIN results : Enriches(results[k], findings[i])}
     IN IF stacks = {} THEN findings[i] ELSE EnrichedBy(findings[i], results[Max(stacks)])]

(* The detections of the results that ran and found something. *)
Found(result) ==
  result.tool # "gdb" /\ result.success /\ result.confirmed /\ result.detected # {}

AddDetection_ByClass(findings, result, index) ==             \* mutant
  LET d == result.report[index]
  IN IF \E f \in ToSet(findings) : Known(f.tool) /\ f.class = d.class THEN findings
     ELSE Append(findings, ToolBackedFinding(result, d, index))
AddDetection(findings, result, index) ==
  LET d == result.report[index]
  IN IF \/ Confirms(findings, result, d)
        \/ Key(result.tool, d) \in ExistingKeys(findings)
     THEN findings
     ELSE Append(findings, ToolBackedFinding(result, d, index))

(* The two loops: the findings after the first k detections of a result,   *)
(* and after the first k results.                                          *)
AfterDetections(findings, result) ==
  LET after[k \in 0..Len(result.report)] ==
        IF k = 0 THEN findings ELSE AddDetection(after[k - 1], result, k)
  IN after

AddResult(findings, result) ==
  IF ~Found(result) THEN findings
  ELSE AfterDetections(findings, result)[Len(result.report)]

AfterResults(findings, results) ==
  LET after[k \in 0..Len(results)] ==
        IF k = 0 THEN findings ELSE AddResult(after[k - 1], results[k])
  IN after

WithToolFindings(findings, results) ==
  AfterResults(EnrichGdb(findings, results), results)[Len(results)]

(* Enriching counts as a change even when it writes what is there. *)
PromotionChanges(findings, results) ==
  \/ WithToolFindings(findings, results) # EnrichGdb(findings, results)
  \/ \E r \in ToSet(results), f \in ToSet(findings) : Enriches(r, f)

(* findings.json is rewritten before it is finalized. *)
Promotions_NotFinalized(pack, results, present) ==           \* mutant
  {Done([pack EXCEPT !.findings = WithToolFindings(@, results)])}
Promotions(pack, results, present) ==
  IF pack.findings = None THEN {Done(pack)}
  ELSE IF ~pack.analysis THEN {Broken(pack)}
  ELSE IF ~PromotionChanges(pack.findings, results) THEN {Done(pack)}
  ELSE Finalizations([pack EXCEPT !.findings = WithToolFindings(@, results)], <<>>, present)

----------------------------------------------------------------------------
(* The commands that read a pack.                                          *)

(* validate_crashpack: its warnings are left out. *)
Valid(pack) == pack.manifest # None /\ pack.findings # None /\ pack.console

(* select_replay_binary: the path in the evidence pack is the one in bins/.*)
SelectReplayBinary(pack, present) ==
  CASE pack.bin -> "captured"
    [] ~pack.bin /\ present -> "original"
    [] OTHER -> None

ReplayResult(pack, present, runs) ==
  LET binary == SelectReplayBinary(pack, present)
  IN [binary |-> binary, ran |-> binary # None /\ runs]

(* build_agent_summary: every finding with the first result for it, and    *)
(* the last result for every finding id.                                   *)
ResultsFor(results, id) == {k \in DOMAIN results : results[k].finding = id}

CompactResult(result) ==
  [id |-> result.id, finding |-> result.finding, tool |-> result.tool,
   success |-> result.success, confirmed |-> result.confirmed,
   detected |-> result.detected]

LinkedResult(results, id) ==
  LET linked == ResultsFor(results, id)
  IN IF linked = {} THEN None ELSE CompactResult(results[Min(linked)])

EscalationSummary(results) ==
  [total_runs |-> Len(results),
   confirmed_runs |-> Len(SelectSeq(results, LAMBDA r : r.confirmed)),
   tools |-> {r.tool : r \in ToSet(results)},
   detected_classes |-> UNION {r.detected : r \in ToSet(results)},
   by_finding |-> [id \in {r.finding : r \in ToSet(results)} |->
                     CompactResult(results[Max(ResultsFor(results, id))])]]

AgentSummary(pack) ==
  LET results == IF pack.results = None THEN <<>> ELSE pack.results
  IN [total |-> pack.evidence.total, class_counts |-> pack.evidence.class_counts,
      group_count |-> Cardinality(DOMAIN pack.evidence.issue_groups),
      findings |-> [i \in DOMAIN pack.evidence.findings |->
                      [finding |-> pack.evidence.findings[i],
                       result |-> LinkedResult(results, pack.evidence.findings[i].id)]],
      escalation |-> EscalationSummary(results)]

============================================================================
