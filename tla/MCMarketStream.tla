--------------------------- MODULE MCMarketStream ---------------------------
(***************************************************************************)
(* Instances of MarketStream for TLC.                                      *)
(***************************************************************************)
EXTENDS MarketStream

CONSTANTS x, y, c1, c2

Alike == Permutations(Callers)
=============================================================================
