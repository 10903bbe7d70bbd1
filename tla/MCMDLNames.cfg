SPECIFICATION FairSpec
CONSTANTS
  c1 = c1  c2 = c2  c3 = c3  c4 = c4  t1 = t1  t2 = t2  g = g  None = None
  Contexts = {c1, c2, c3}
  GlobalKeys = {}
  ScopedKeys = {}
  ObjectKeys = {t1}
  KeyRank <- Rank
  Requests <- NameRequests
  Batches = {}
  Calls = {"acquire"}
  Interrupts = {"TIMEOUT"}
  MaxTickets = 1
  MaxWriteLockCount = 1
  MaxSearchDepth = 8
INVARIANTS AnswerAgrees
PROPERTIES WeakServed
