\* realloc moves a block on one of two threads.
CONSTANTS
  Threads = {t1, t2}
  Addrs = {4, 8}
  Sizes = {1}
  PageSize = 4
  RangeSlots = 1
  SpanMax = 1
  Calls <- CCalls
  RingCap = 1
  None = None
  Misuse = {}
  ReallocReleases = TRUE
  Evicts = FALSE
  KeepsUp = TRUE
  U32Max = 4
  StringMax = 3
  Lengths = {1, 2, 3, 4, 5, 6}
SPECIFICATION CopySpec
PROPERTY ReallocRetiresOnlyOld
