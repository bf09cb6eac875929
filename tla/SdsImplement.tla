---------------------------- MODULE SdsImplement ----------------------------
(* Sds implements SdsPromise: read each variable's block as its string and the *)
(* free space its header records.                                              *)
EXTENDS Sds

StrOf == [v \in Var |-> IF v \in Holding THEN Text(Sds(v)) ELSE NULL]
SpareOf == [v \in Var |-> IF v \in Holding THEN sdsavail(Sds(v)) ELSE 0]

Promise == INSTANCE SdsPromise WITH str <- StrOf, spare <- SpareOf

\* Every call does to the string what it promises and nothing else, whatever
\* layout the string is in, comes from or goes to; a call that returns NULL has
\* changed nothing, and one that needs no memory does not fail.
KeepsPromise == Promise!Spec
=============================================================================
