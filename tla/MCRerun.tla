------------------------------ MODULE MCRerun ------------------------------
(* Instances of Rerun for TLC: findings, outputs and a target. *)
EXTENDS Rerun

MCSourceFile == "app.c:10" :> "app.c" @@ "app.c:20" :> "app.c" @@ "lib.c:5" :> "lib.c"

MCLdd == <<[kind |-> "=> path", name |-> "libc.so.6", system |-> TRUE],
           [kind |-> "=> path", name |-> "libapp.so", system |-> FALSE],
           [kind |-> "statically linked", name |-> None, system |-> FALSE],
           [kind |-> "not found", name |-> "libgone.so", system |-> FALSE]>>

Frame(location) == Named(location)
Unplaced == Text(Offset, 0)

(* The agent's findings: an overflow by memcpy of a block of 16 bytes,     *)
(* with and without debug information, and a descriptor that is left open. *)
Agents(id, class) ==
  [id |-> id, origin |-> None, class |-> class, message |-> None, high |-> TRUE,
   plan |-> None, operation |-> "unknown", access |-> None, alloc |-> None,
   offset |-> None, alloc_site |-> None, stacks |-> NoStacks, tool |-> None,
   gdb |-> None, binary |-> None, source |-> None, status |-> None, fingerprint |-> None]

Overflow(call) ==
  [Agents(<<"overflow">>, "heap_overflow")
     EXCEPT !.plan = "asan", !.operation = "memcpy", !.access = 64, !.alloc = 16,
            !.offset = 0, !.stacks.call = <<call>>]
Leak == [Agents(<<"leak">>, "fd_leak") EXCEPT !.plan = "valgrind", !.stacks.call = <<Unplaced>>]

MCAgentFindings == {<<>>, <<Overflow(Frame("app.c:10")), Leak>>, <<Overflow(Unplaced)>>}
MCOldFindings == <<[Agents(<<"old">>, "double_free") EXCEPT !.plan = "valgrind"]>>

Kind(kind) == Line(kind, Text(kind, 0), None)
At(kind, location) == Line(kind, Text(kind, 0), Frame(location))

(* An invalid write behind a block, and behind it one into a freed block.  *)
ValgrindFinds ==
  <<Kind("Invalid access"), At("at", "app.c:10"), Kind("alloc'd"), At("at", "lib.c:5"),
    Kind("Invalid access"), At("at", "app.c:20"), Kind("other"), Kind("other"), Kind("other"),
    Kind("other"), Kind("other"), Kind("other"),
    Kind("Invalid access"), At("at", "app.c:20"), Kind("free'd"), At("at", "lib.c:5")>>
AsanFinds ==
  <<Line("ERROR heap-buffer-overflow", Text("heap-buffer-overflow", 1), None),
    At("#frame", "app.c:10"), At("SUMMARY", "app.c:10")>>
LsanFinds ==
  <<Line("ERROR detected memory leaks", Text("detected memory leaks", 1), None),
    Kind("allocated from"), At("#frame", "lib.c:5")>>
UbsanFinds == <<At("runtime error: shift", "lib.c:5")>>
GdbFinds == <<Kind("Program received signal"), At("#frame", "app.c:20")>>

MCOutputs ==
  "valgrind" :> {<<>>, ValgrindFinds} @@ "asan" :> {<<>>, AsanFinds}
    @@ "lsan" :> {LsanFinds} @@ "ubsan" :> {UbsanFinds} @@ "gdb" :> {GdbFinds}

MCErrors == {"Native mode requires CAP_BPF", "Binary not found",
             "Agent exited before ready", "Failed to resume target"}

MCBuilds == {{}, {"asan"}}
=============================================================================
