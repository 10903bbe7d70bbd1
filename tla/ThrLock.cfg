SPECIFICATION Spec
CONSTANTS
  s1 = s1  s2 = s2  s3 = s3  d1 = d1
  Sessions = {s1, s2, s3}
  Handlers = {d1}
  Locks = {1, 2}
  CheckStatus = {1}
  Requests <- MixedRequests
  DelayedLock = 1
  max_write_lock_count = 1
  thr_upgraded_concurrent_insert_lock = "TL_WRITE"
SYMMETRY Symmetry
INVARIANTS Consistent GrantedCompatible NoDeadlock AllOrNothing ReadersLetIn
