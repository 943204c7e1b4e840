\* Two threads of a C++ program that may use the wrong release function.
CONSTANTS
  Threads = {t1, t2}
  Addrs = {4, 6}
  Sizes = {2, 3}
  PageSize = 2
  RangeSlots = 2
  SpanMax = 2
  Calls <- AllCalls
  RingCap = 1
  None = None
  Misuse = {"wrongCall"}
  ReallocReleases = FALSE
  Evicts = FALSE
  KeepsUp = TRUE
  U32Max = 5
  StringMax = 3
  Lengths = {1, 2, 3, 5, 6}
SPECIFICATION CopySpec
SYMMETRY Symmetry
INVARIANTS NoFalseAlarm OwnedTracked HeadJudged
PROPERTY MismatchSeen
