SPECIFICATION Spec
CONSTANTS
  c1 = c1  c2 = c2  c3 = c3  c4 = c4  t1 = t1  t2 = t2  g = g  None = None
  Contexts = {c1, c2, c3}
  GlobalKeys = {}
  ScopedKeys = {g}
  ObjectKeys = {t1}
  KeyRank <- Rank
  Requests <- LockRequests
  Batches = {}
  Calls = {"acquire", "upgrade", "downgrade"}
  Interrupts = {}
  MaxTickets = 2
  MaxWriteLockCount = None
  MaxSearchDepth = 8
SYMMETRY ContextSymmetry
INVARIANTS TypeOK GrantedCompatible NoMissedGrant OneUpgrader NoUndetectedDeadlock
PROPERTIES VictimIsWaiting
