SPECIFICATION Spec
CONSTANTS
  s = s
  t = t
  a1 = a1
  a2 = a2
  a3 = a3
  nul = nul
  sp = sp
  x = x
  junk = junk
  Var = {s, t}
  Addr = {a1, a2, a3}
  Byte <- Bytes
  NUL = nul
  Space <- Spaces
  Texts <- BlankTexts
  UserBytes = {nul}
  Caps = {0, 1, 2}
  SMALL_MAX = 1
  MaxCap = 4
  CustomAlloc = FALSE
  NULL = NULL
  FREE = FREE
  Junk = junk
SYMMETRY Symmetry
VIEW View
INVARIANTS HeadTruth OneOwner
PROPERTIES NoInterference KeepsPromise
