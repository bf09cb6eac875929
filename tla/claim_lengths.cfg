SPECIFICATION Spec
CONSTANTS
  x = x
  bar = bar
  nul = nul
  Byte = {x, bar, nul}
  Inputs <- CutInputs
  Libs = {"stx"}
  LIST_LOCAL_MAX = 3
  LIST_POOL_MAX = 4
  MaxFailures = 0
  NUL = nul
  Junk = Junk
  NULL = NULL
INVARIANT ArbitraryLengths
