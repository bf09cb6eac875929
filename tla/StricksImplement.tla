--------------------------- MODULE StricksImplement ---------------------------
(* Stricks implements StringPromise: read each variable's block as the string *)
(* and capacity its header gives.                                             *)
EXTENDS Stricks

ASSUME StringAssumption == NULL \notin Seq(Byte)

StrOf == [v \in Var |-> IF v \in Holding THEN Text(Strick(v)) ELSE NULL]
CapOf == [v \in Var |-> IF v \in Holding THEN Strick(v).cap ELSE 0]
LooseOf == {v \in Holding : ~Terminated(Strick(v))}

Promise == INSTANCE StringPromise WITH str <- StrOf, cap <- CapOf, loose <- LooseOf

\* Every call does to the string what it promises and nothing else: the block,
\* its type, its address and the bytes past the length are nobody's business.
KeepsPromise == Promise!Spec
=============================================================================
