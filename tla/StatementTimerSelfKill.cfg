SPECIFICATION FairSpec
CONSTANTS
  Sessions = {s1}
  Timers = {t1}
  None = None
PROPERTY EveryKillTakesEffect
CHECK_DEADLOCK FALSE
