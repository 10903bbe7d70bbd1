CONSTANTS
  Threads = {t1, t2, t3}
  Objects = {o1, o2}
  TableKeys = {k1, k2}
  SchemaKeys = {db}
  PreKeys = {global}
  CacheSize = 1
  UintMod = 4
  MaxVersion = 1
  None = None
SPECIFICATION FairSpec
INVARIANTS MemorySafe RightObject NoLeak
PROPERTIES EventuallyFreed
CHECK_DEADLOCK FALSE
