SPECIFICATION FairSpec
CONSTANTS
  Sessions = {c1, c2}
  Slaves = {s1, s2}
  MaxPos = 2
  MaxConnects = 3
  MaxToggles = 2
INVARIANTS Consistent YesOnSlave AckAsked
PROPERTIES CommitReturns
CHECK_DEADLOCK FALSE
