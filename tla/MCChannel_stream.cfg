\* One thread, no state entry to begin with: the promise of re_events.h.
CONSTANTS
  Threads = {t1}
  RingCap = 2
  MaxEvents = 6
  Prearmed = FALSE
SPECIFICATION Spec
PROPERTY StreamSpec
\* The observed program may stop calling at any time.
CHECK_DEADLOCK FALSE
