\* Two threads that reuse each other's numbers.
CONSTANTS
  Threads = {t1, t2}
  Fds = {0, 1, 2}
  Inherited = {0}
  Calls = {"open", "dup", "dup2", "close"}
  HasDup2 = TRUE
  Flags = {}
  CloseFails = FALSE
  Misuse = FALSE
  None = None
SPECIFICATION Spec
INVARIANT NoFalseLeak
\* The process exits.
CHECK_DEADLOCK FALSE
