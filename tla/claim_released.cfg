SPECIFICATION Spec
CONSTANTS
  u = u
  v = v
  a1 = a1
  a2 = a2
  a3 = a3
  a4 = a4
  junk = junk
  Var = {v}
  Addr = {a1, a2}
  Seps = {0, 7}
  LIST_LOCAL_MAX = 3
  LIST_POOL_MAX = 4
  MaxCalls = 1
  MaxFailures = 0
  MaxCells = 16
  NULL = NULL
  FREE = FREE
  Junk = junk
CHECK_DEADLOCK FALSE
INVARIANT ListsReleased
