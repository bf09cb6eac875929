------------------------------- MODULE MCPager -------------------------------
(* Values for model-checking Pager: files of up to five rows, with posts from  *)
(* a quarter of a page to more than one.                                         *)
EXTENDS Pager

Posts == {[cols |-> 3, size |-> n] : n \in {1, 2, 4, 5}}
BadRow == [cols |-> 2, size |-> 1]
SomeFiles == UNION {[1..n -> Posts \cup {Empty}] : n \in 1..5}
             \cup [1..3 -> {BadRow, [cols |-> 3, size |-> 2], Empty}]
=============================================================================
