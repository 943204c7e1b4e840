---------------------------- MODULE ToolReports ----------------------------
(***************************************************************************)
(* What rerun reads out of the tools' output: the detections that the      *)
(* parsers of re-escalate find (asan.rs, lsan.rs, ubsan.rs, valgrind.rs,   *)
(* gdb.rs) and the frames that cli.rs looks up beside each of them.        *)
(*                                                                         *)
(* A text is the phrase a parser tests for, or a source location, with the *)
(* two parts that matter later: the process id it contains (0 if none) and *)
(* whether the location is in parentheses behind a function's name.        *)
(***************************************************************************)
EXTENDS Naturals, Sequences, SequencesExt, TLC

CONSTANT None

Text(says, pid) == [says |-> says, pid |-> pid, named |-> FALSE]
Named(location) == [says |-> location, pid |-> 0, named |-> TRUE]

(* A line of output: its kind, its text, and the frame on it, if any. *)
Line(kind, text, at) == [kind |-> kind, text |-> text, at |-> at]

----------------------------------------------------------------------------
(* The parsers.                                                            *)

(* push_detection for every line that has a class: what has been pushed    *)
(* after so many lines.                                                    *)
Pushed(output, classes) ==
  LET pushed[i \in 0..Len(output)] ==
        IF i = 0 THEN <<>>
        ELSE IF classes[i] = None THEN pushed[i - 1]
        ELSE Append(pushed[i - 1],
                    [class |-> classes[i], line |-> i, summary |-> output[i].text])
  IN pushed

Detections(output, classes) == Pushed(output, classes)[Len(output)]

(* detected_classes, as a set: nothing depends on their order. *)
DetectedClasses(detected) == {detected[k].class : k \in DOMAIN detected}

ClassIn(table, kind) == IF kind \in DOMAIN table THEN table[kind] ELSE None

AsanErrorClass ==
     "ERROR heap-buffer-overflow" :> "heap_overflow"
  @@ "ERROR heap-use-after-free" :> "use_after_free"
  @@ "ERROR attempting double-free" :> "double_free"
  @@ "ERROR attempting free not malloced" :> "invalid_free"
  @@ "ERROR detected memory leaks" :> "memory_leak"

ParseAsan(output) ==
  Detections(output, [i \in DOMAIN output |-> ClassIn(AsanErrorClass, output[i].kind)])

ParseLsan(output) ==
  Detections(output,
             [i \in DOMAIN output |->
                IF output[i].kind = "ERROR detected memory leaks" THEN "memory_leak" ELSE None])

(* Only lines with "runtime error:" reach the table.                       *)
UbsanErrorClass ==
     "runtime error: signed integer overflow" :> "signed_integer_overflow"
  @@ "runtime error: shift" :> "shift_out_of_bounds"
  @@ "runtime error: null pointer" :> "null_pointer_use"
  @@ "runtime error: misaligned address" :> "misaligned_pointer"
  @@ "runtime error: index out of bounds" :> "bounds"
  @@ "runtime error: other" :> "undefined_behavior"

ParseUbsan(output) ==
  Detections(output, [i \in DOMAIN output |-> ClassIn(UbsanErrorClass, output[i].kind)])

(* What stands between == and == in front of a line is taken off.          *)
StripPrefix(text) == [text EXCEPT !.pid = 0]

Freed(line) == line.kind = "free'd"
Window(output, first, count) ==
  SubSeq(output, first, IF first + count - 1 > Len(output) THEN Len(output)
                        ELSE first + count - 1)
FreedWithin(output, first, count) ==
  \E l \in ToSet(Window(output, first, count)) : Freed(l)

(* "lost 0 bytes" is a line about leaks that contains "0 bytes".           *)
ValgrindClass(output, i) ==
  LET kind == output[i].kind
  IN CASE kind = "Invalid access" ->
            IF FreedWithin(output, i, 8) THEN "use_after_free" ELSE "heap_overflow"
       [] kind = "Invalid free()" ->
            IF FreedWithin(output, i, 10) THEN "double_free" ELSE "invalid_free"
       [] kind = "Mismatched free()" -> "allocator_mismatch"
       [] kind = "definitely lost" -> "memory_leak"
       [] kind = "Open file descriptor" -> "fd_leak"
       [] OTHER -> None

ParseValgrind(output) ==
  Detections([i \in DOMAIN output |-> [output[i] EXCEPT !.text = StripPrefix(@)]],
             [i \in DOMAIN output |-> ValgrindClass(output, i)])

(* A signal or a stack is a crash; its only detection is not used further. *)
Frames(output) == SelectSeq(output, LAMBDA l : l.kind = "#frame")

ParseGdb(output) ==
  LET signals == SelectSeq(output, LAMBDA l : l.kind = "Program received signal")
      confirmed == signals # <<>> \/ Frames(output) # <<>>
  IN IF ~confirmed THEN <<>>
     ELSE <<[class |-> "unclassified_crash", line |-> None,
             summary |-> IF signals = <<>> THEN Text("gdb captured crash stack", 0)
                         ELSE signals[1].text]>>

----------------------------------------------------------------------------
(* The frames of a detection: from its line on, 24 lines of the output.    *)

NoFrames == [call |-> None, alloc |-> None, free |-> None]

FirstFrame(lines, kinds) ==
  LET i == SelectInSeq(lines, LAMBDA l : l.kind \in kinds /\ l.at # None)
  IN IF i = 0 THEN None ELSE lines[i].at

From(lines, kinds) ==
  LET i == SelectInSeq(lines, LAMBDA l : l.kind \in kinds)
  IN IF i = 0 THEN <<>> ELSE SubSeq(lines, i, Len(lines))

(* Frames of Valgrind's own replacements of malloc and free do not count:  *)
(* such a line is no "at".                                                 *)
AttachValgrindFrames(lines) ==
  [call |-> FirstFrame(lines, {"at"}),
   free |-> FirstFrame(From(lines, {"free'd"}), {"at"}),
   alloc |-> FirstFrame(From(lines, {"alloc'd"}), {"at"})]

AttachAsanFrames(lines) ==
  [NoFrames EXCEPT
     !.call = FirstFrame(lines, {"SUMMARY", "#frame"}),
     !.free = FirstFrame(From(lines, {"freed by", "previously allocated by"}), {"#frame"})]

AttachLsanFrames(lines) ==
  [NoFrames EXCEPT
     !.call = FirstFrame(lines, {"SUMMARY", "#frame"}),
     !.alloc = FirstFrame(From(lines, {"allocated from"}), {"#frame"})]

AttachUbsanFrames(lines) ==
  [NoFrames EXCEPT !.call = FirstFrame(lines, DOMAIN UbsanErrorClass \cup {"#frame"})]

AttachToolFrames(tool, output, detection) ==
  LET lines == Window(output, detection.line, 24)
  IN CASE tool = "valgrind" -> AttachValgrindFrames(lines)
       [] tool = "asan" -> AttachAsanFrames(lines)
       [] tool = "lsan" -> AttachLsanFrames(lines)
       [] tool = "ubsan" -> AttachUbsanFrames(lines)
       [] OTHER -> NoFrames

============================================================================
