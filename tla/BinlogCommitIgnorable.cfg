SPECIFICATION IgnorableSpec
CONSTANTS
  Trx = {x1, x2}
  Other = other
  Nobody = nobody
  MaxSize = 2
  MaxOther = 1
  MaxCrashes = 1
INVARIANT InLastFile
CHECK_DEADLOCK FALSE
