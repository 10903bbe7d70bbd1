SPECIFICATION Spec
CONSTANTS
  c1 = c1  c2 = c2  c3 = c3  c4 = c4  t1 = t1  t2 = t2  g = g  None = None
  Contexts = {c1, c2}
  GlobalKeys = {}
  ScopedKeys = {}
  ObjectKeys = {t1}
  KeyRank <- Rank
  Requests <- ListRequests
  Batches <- ListBatches
  Calls = {"acquire", "try", "release_lock", "release_name", "release_statement", "savepoint", "set_duration", "lock_tables"}
  Interrupts = {}
  MaxTickets = 2
  MaxWriteLockCount = None
  MaxSearchDepth = 8
SYMMETRY ContextSymmetry
INVARIANTS NoOrphan SavepointValid
PROPERTIES AllOrNothing
