----------------------------- MODULE MCSplitJoin -----------------------------
(* Values for model-checking SplitJoin: every short buffer over a letter, the  *)
(* separator's char and NUL, and the texts that the tests and the benchmark    *)
(* make, with separators of up to two chars, one that overlaps itself.         *)
EXTENDS SplitJoin

CONSTANTS x, bar, nul

UpTo(S, n) == UNION {[1..k -> S] : k \in 0..n}
Seps == {<<>>, <<bar>>, <<bar, bar>>, <<bar, x>>}

Buffers == {[src |-> s, len |-> Len(s), sep |-> t] : s \in UpTo({x, bar, nul}, 5), t \in Seps}
Strings == {stx_split(s, t) : s \in UpTo({x, bar}, 6), t \in Seps}
Patterns ==
  {stx_split(Pattern(w, t, n), t) :
     w \in {<<>>, <<x>>, str_nchar(x, 2)}, t \in Seps, n \in {3, 4, 5, 8, 9, 10, 15}}

\* Lengths that end before the text does.
CutInputs == {[i EXCEPT !.len = @ \div 2] : i \in Strings}

AllInputs == Buffers \cup Strings \cup Patterns \cup CutInputs
=============================================================================
