---------------------------- MODULE MCHuntLevels ----------------------------
(***************************************************************************)
(* Instances of HuntLevels for TLC: prices in whole units, entry zone 6..10.*)
(***************************************************************************)
EXTENDS HuntLevels, FiniteSetsExt

\* The candle running at registration may show a wick of before.
WithWick == {At(OpenPrice), [hi |-> OpenPrice, lo |-> Min(Prices)]}
NoWick == {At(OpenPrice)}
=============================================================================
