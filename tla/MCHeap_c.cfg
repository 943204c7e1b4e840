\* One thread of a C program that frees what it does not own; realloc moves.
CONSTANTS
  Threads = {t1}
  Addrs = {4, 6, 7}
  Sizes = {0, 1, 2, 7}
  PageSize = 4
  RangeSlots = 2
  SpanMax = 2
  Calls <- CCalls
  RingCap = 2
  None = None
  Misuse = {"again"}
  ReallocReleases = TRUE
  Evicts = FALSE
  KeepsUp = TRUE
  U32Max = 8
  StringMax = 3
  Lengths = {1, 2, 3, 7, 8, 9}
SPECIFICATION CopySpec
INVARIANTS TypeOK NoFalseAlarm WriteJudged
PROPERTIES ReallocRetiresOnlyOld MisuseClassified
