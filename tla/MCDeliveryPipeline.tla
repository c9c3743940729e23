------------------------- MODULE MCDeliveryPipeline -------------------------
(***************************************************************************)
(* Instances of DeliveryPipeline for TLC: x1 and x2 are the same finding   *)
(* of one setup, made twice at nearly the same price; y is another symbol. *)
(***************************************************************************)
EXTENDS DeliveryPipeline, TLC

CONSTANTS x1, x2, y, c1, c2

SetupOf(s) == "breakout"
SymbolOf(s) == IF s = y THEN "ETH" ELSE "BTC"
DirectionOf(s) == "long"
ContentOf(s) == IF s \in {x1, x2} THEN "breakout" ELSE s
ReadOrder == <<"outcome_sl", "setup">>

Alike == Permutations({c1, c2}) \union Permutations({x1, x2})
=============================================================================
