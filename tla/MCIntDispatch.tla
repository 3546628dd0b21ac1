--------------------------- MODULE MCIntDispatch ---------------------------
(* IntDispatch on its own.  A line of level 1, which EXCM masks, and one   *)
(* of level 4, which it does not.                                          *)
EXTENDS IntDispatch

Levels == [i \in {"low", "high"} |-> IF i = "low" THEN 1 ELSE 4]

IntSpec == IntInit /\ [][IntNext]_intVars
=============================================================================
