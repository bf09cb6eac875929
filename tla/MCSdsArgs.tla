------------------------------ MODULE MCSdsArgs ------------------------------
(* Values for model-checking SdsArgs: every kind of byte that writing or       *)
(* reading tells apart, alone and beside every other.                          *)
EXTENDS SdsArgs

\* NUL, backspace, newline, vertical tab, space, " and ', 0, \, b, n, x, and two
\* bytes that need \x.
SomeBytes == {0, 8, 10, 11, 32, 34, 39, 48, 92, 98, 110, 120, 176, 187}
UpTo(S, n) == UNION {[1..k -> S] : k \in 0..n}

SomeArgs ==
  {<<>>} \cup {<<a>> : a \in UpTo(SomeBytes, 2) \cup UpTo({0, 32, 34, 39, 92, 98, 120}, 3)}
  \cup {<<a, b>> : a, b \in UpTo(SomeBytes \ {8, 187}, 1)}

SomeLines == UpTo({11, 32, 34, 39, 92, 120, 48, 98}, 5)
=============================================================================
