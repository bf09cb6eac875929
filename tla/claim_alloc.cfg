SPECIFICATION Spec
CONSTANTS
  s = s
  t = t
  a1 = a1
  a2 = a2
  a3 = a3
  nul = nul
  sp = sp
  x = x
  junk = junk
  Var = {s}
  Addr = {a1, a2}
  Byte <- Bytes
  NUL = nul
  Space <- Spaces
  Texts <- MixedTexts
  UserBytes <- Chars
  Caps = {0, 1, 2, 3}
  SMALL_MAX = 2
  MaxCap = 4
  CustomAlloc = TRUE
  NULL = NULL
  FREE = FREE
  Junk = junk
INVARIANTS AllocatorsRespected
