SPECIFICATION Spec
CONSTANTS
  s = s
  t = t
  a1 = a1
  a2 = a2
  a3 = a3
  nul = nul
  zero = zero
  one = one
  minus = minus
  junk = junk
  Var = {s, t}
  Addr = {a1, a2, a3}
  Byte <- SdsBytes
  NUL = nul
  Texts <- Words
  Sizes = {0, 2}
  Offsets <- Places
  UserBytes <- Writes
  Maps <- Swaps
  Formats <- SomeFormats
  CharSets <- Trims
  Lower <- ToLower
  Upper <- ToUpper
  Numbers <- LongLongs
  Base = 2
  Digit <- BinDigit
  Minus = minus
  ULLONG_MAX = 3
  Limit <- Limits
  SDS_MAX_PREALLOC = 2
  STATIC_BUF = 4
  FMT_FACTOR = 0
  HeapSize = 5
  NULL = NULL
  FREE = FREE
  Junk = junk
SYMMETRY Symmetry
VIEW View
CHECK_DEADLOCK FALSE
INVARIANTS TypeOK HeadTruth Terminated OneOwner
PROPERTY KeepsPromise
