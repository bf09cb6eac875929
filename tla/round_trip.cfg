SPECIFICATION Spec
CONSTANTS
  x = x
  bar = bar
  nul = nul
  Byte = {x, bar, nul}
  Inputs <- AllInputs
  Libs = {"stx", "sds"}
  LIST_LOCAL_MAX = 3
  LIST_POOL_MAX = 4
  MaxFailures = 1
  NUL = nul
  Junk = Junk
  NULL = NULL
INVARIANTS TypeOK NoFault PartsRight RoundTrip Released
PROPERTY Finishes
