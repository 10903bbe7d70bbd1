SPECIFICATION FindSpec
CONSTANTS
  Nodes = {n1, n2, n3, n4}
  Start = n1
  MaxDepth = 6
INVARIANTS FoundIffDeadlocked NoLoopLeft
CHECK_DEADLOCK FALSE
