---------------------------- MODULE SplitImplement ----------------------------
(* SplitList implements SplitPromise: the arrays, and the list's way through   *)
(* them, are nobody's business; and what the README says of the lists and the  *)
(* code does not do.                                                           *)
EXTENDS SplitList

ASSUME AskedAssumption == NULL \notin [v : Var, n : Nat]

\* How many parts the running call will have made when it returns.
AskedOf == IF call = NULL THEN NULL
           ELSE [v |-> call.v,
                 n |-> call.cnt + call.left + (IF call.pc = "return" THEN 0 ELSE 1)]

GapsOf == IF call = NULL THEN {}
          ELSE {i \in 1..call.cnt : store[call.list][i - 1] = NULL}

\* A list as its count says, and the cell after it.
ListsOf == [v \in Var |-> IF v \in Holding
                          THEN [i \in 1..(held[v].cnt + 1) |-> ListOf(v)[i - 1]]
                          ELSE <<>>]

Promise == INSTANCE SplitPromise WITH asked <- AskedOf, gaps <- GapsOf, lists <- ListsOf

\* Every part is delivered at its place, through every array the list lived in;
\* nothing a call does changes a list delivered before; and an answer is short
\* of a part, or missing, only for an allocation that failed during the call.
KeepsPromise == Promise!Spec

\* README, stx_list_free: "Releases a list of parts generated by stx_split": when
\* all went well and every list is freed, there is nothing left.
ListsReleased ==
  failures = 0 /\ call = NULL /\ Holding = {} => parts = {} /\ Unused = Addr
===============================================================================
