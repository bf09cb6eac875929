-------------------------------- MODULE MCSplit --------------------------------
(* Values for model-checking SplitList.                                         *)
EXTENDS SplitImplement

CONSTANTS u, v, a1, a2, a3, a4, junk

================================================================================
