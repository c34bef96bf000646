---------------------------- MODULE ExecutionMC -----------------------------
(* Two commands; the runs decide whether they belong to one trade or two.   *)
EXTENDS ExecutionProperties, TLC

CONSTANTS c1, c2, t1, t2, SameTrade

MCTradeOf == (c1 :> t1) @@ (c2 :> IF SameTrade THEN t1 ELSE t2)
=============================================================================
