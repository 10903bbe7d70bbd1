SPECIFICATION FairSpec
CONSTANTS
  Sessions = {s1, s2}
  Timers = {t1, t2}
  None = None
INVARIANTS TimerMemorySafe OnlyOwnStatement
PROPERTIES TimeoutDelivered KillTakesEffect
CHECK_DEADLOCK FALSE
