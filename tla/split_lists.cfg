SPECIFICATION FairSpec
CONSTANTS
  u = u
  v = v
  a1 = a1
  a2 = a2
  a3 = a3
  a4 = a4
  junk = junk
  Var = {u, v}
  Addr = {a1, a2, a3, a4}
  Seps = {0, 2, 4, 11}
  LIST_LOCAL_MAX = 3
  LIST_POOL_MAX = 3
  MaxCalls = 2
  MaxFailures = 1
  MaxCells = 24
  NULL = NULL
  FREE = FREE
  Junk = junk
CHECK_DEADLOCK FALSE
INVARIANTS TypeOK NoFault NothingLost NothingShared
PROPERTIES KeepsPromise CallsReturn
