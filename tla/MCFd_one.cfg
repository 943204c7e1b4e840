\* One thread that also closes what is not open; close may fail; no dup2 system call.
CONSTANTS
  Threads = {t1}
  Fds = {0, 1, 2}
  Inherited = {0}
  Calls = {"open", "dup", "dup2", "close"}
  HasDup2 = FALSE
  Flags = {9}
  CloseFails = TRUE
  Misuse = TRUE
  None = None
SPECIFICATION Spec
INVARIANTS TypeOK LeaksExact
PROPERTY CloseClassified
\* The process exits.
CHECK_DEADLOCK FALSE
