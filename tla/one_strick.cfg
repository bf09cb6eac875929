SPECIFICATION Spec
CONSTANTS
  s = s
  t = t
  a1 = a1
  a2 = a2
  a3 = a3
  nul = nul
  sp = sp
  x = x
  junk = junk
  Var = {s}
  Addr = {a1, a2}
  Byte <- Bytes
  NUL = nul
  Space <- Spaces
  Texts <- MixedTexts
  UserBytes <- Chars
  Caps = {0, 1, 2, 3, 5}
  SMALL_MAX = 2
  MaxCap = 6
  CustomAlloc = FALSE
  NULL = NULL
  FREE = FREE
  Junk = junk
SYMMETRY Symmetry
VIEW View
INVARIANTS TypeOK Sentinel TextInitialised NoFault
PROPERTIES FailureChangesNothing RetryFits
