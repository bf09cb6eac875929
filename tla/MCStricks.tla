------------------------------ MODULE MCStricks ------------------------------
(* Values for model-checking Stricks.                                        *)
EXTENDS StricksImplement, StricksClaims, TLC

CONSTANTS s, t, a1, a2, a3, nul, sp, x, junk

Bytes  == {nul, sp, x}
Spaces == {sp}

\* Nothing, a word, a word between spaces, a binary text.
MixedTexts == {<<>>, <<x>>, <<x, sp>>, <<sp, x>>, <<x, nul>>}
Chars  == {nul, x}

\* Nothing, and a word that stx_trim has to move.
BlankTexts == {<<>>, <<sp, x>>}

\* Long enough for the two ranges of grow's memcpy to overlap.
LongTexts == {<<x, sp, x, x, x, x, sp>>}

Symmetry == Permutations(Addr)

\* The last call matters to the next step only after a strict append that refused.
View == <<heap, ptr, faults, IF ret.rc < 0 THEN ret ELSE NULL>>
=============================================================================
