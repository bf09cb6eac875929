SPECIFICATION Spec
CONSTANTS
  s = s
  t = t
  a1 = a1
  a2 = a2
  a3 = a3
  nul = nul
  sp = sp
  x = x
  junk = junk
  Var = {s}
  Addr = {a1, a2}
  Byte <- Bytes
  NUL = nul
  Space = {}
  Texts <- LongTexts
  UserBytes = {}
  Caps = {}
  SMALL_MAX = 7
  MaxCap = 28
  CustomAlloc = FALSE
  NULL = NULL
  FREE = FREE
  Junk = junk
SYMMETRY Symmetry
PROPERTIES KeepsPromise
