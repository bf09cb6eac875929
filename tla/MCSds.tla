-------------------------------- MODULE MCSds --------------------------------
(* Values for model-checking Sds: binary numerals of 2 bits, one type for each *)
(* length or two.                                                              *)
EXTENDS SdsImplement, TLC

CONSTANTS s, t, a1, a2, a3, nul, zero, one, minus, junk

SdsBytes == {nul, zero, one, minus}
BinDigit == 0 :> zero @@ 1 :> one
Limits == 5 :> 1 @@ 8 :> 2 @@ 16 :> 3 @@ 32 :> 4
Words == {<<one, nul>>}
SomeFormats ==
  { << [fmt |-> 1, arg |-> FALSE, text |-> <<zero>>],
     [fmt |-> 2, arg |-> TRUE, text |-> sdsll2str(-1)] >> }
Trims == { {zero, minus} }
ToLower == [c \in SdsBytes |-> IF c = zero THEN one ELSE c]
ToUpper == [c \in SdsBytes |-> IF c = one THEN zero ELSE c]
LongLongs == {-2, 0}
Swaps == {[from |-> <<zero, nul, zero>>, to |-> <<one, one, nul>>]}
Writes == {nul}
Places == {-3, 1}

Symmetry == Permutations(Addr)

\* Only a step's new value of ret matters, and whether the program has crashed.
View == <<heap, ptr, ret.res>>
=============================================================================
