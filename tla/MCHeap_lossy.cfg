\* The ring drops events and the LRU maps evict records of a C program.
CONSTANTS
  Threads = {t1, t2}
  Addrs = {4, 8}
  Sizes = {0, 1}
  PageSize = 4
  RangeSlots = 1
  SpanMax = 1
  Calls <- CCalls
  RingCap = 1
  None = None
  Misuse = {}
  ReallocReleases = FALSE
  Evicts = TRUE
  KeepsUp = FALSE
  U32Max = 4
  StringMax = 3
  Lengths = {1, 2, 3, 4, 5, 6}
SPECIFICATION CopySpec
SYMMETRY Symmetry
INVARIANT NeverBlamedOnAnother
