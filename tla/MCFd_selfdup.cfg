\* dup2(old, old) on a kernel without dup2.
CONSTANTS
  Threads = {t1}
  Fds = {0, 1}
  Inherited = {}
  Calls = {"open", "dup", "dup2", "close"}
  HasDup2 = FALSE
  Flags = {9}
  CloseFails = FALSE
  Misuse = FALSE
  None = None
SPECIFICATION Spec
PROPERTY SelfDupIsNoOp
\* The process exits.
CHECK_DEADLOCK FALSE
