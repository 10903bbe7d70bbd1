SPECIFICATION FairSpec
CONSTANTS
  Trx = {x1, x2}
  Other = other
  Nobody = nobody
  MaxSize = 2
  MaxOther = 2
  MaxCrashes = 2
INVARIANTS Agreement InLastFile CommittedPrefix
PROPERTIES ImplementsAtomicCommit CommitEnds
CHECK_DEADLOCK FALSE
