\* Two threads on two CPUs: every reserved event reaches the agent.
CONSTANTS
  Threads = {t1, t2}
  RingCap = 2
  MaxEvents = 4
  Prearmed = FALSE
SPECIFICATION Spec
INVARIANT NoAbandonedSlot
PROPERTY EveryEventDelivered
\* The observed program may stop calling at any time.
CHECK_DEADLOCK FALSE
