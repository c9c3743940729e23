-------------------------- MODULE MCTrackedReview --------------------------
(***************************************************************************)
(* Instances of TrackedReview for TLC.  Prices are even, so that half      *)
(* ticks are exact until a stop has trailed twice.                         *)
(***************************************************************************)
EXTENDS TrackedReview

Long(market, profile, tp2) ==
    [direction |-> "long", stop |-> 2, lo |-> 4, hi |-> 6, tp1 |-> 8, tp2 |-> tp2,
     single |-> tp2 = 8, market |-> market, profile |-> profile]
Short(market, profile) ==
    [direction |-> "short", stop |-> 10, lo |-> 6, hi |-> 8, tp1 |-> 4, tp2 |-> 2,
     single |-> FALSE, market |-> market, profile |-> profile]

LimitLong == Long(FALSE, TrendFollow, 10)
Default == [breakEven |-> TRUE, persist |-> TRUE]
NoBreakEven == [breakEven |-> FALSE, persist |-> TRUE]
NotPersisted == [breakEven |-> TRUE, persist |-> FALSE]
Case(p, s, f) == [plan |-> p, setting |-> s, feed |-> f]

\* One case per branch of the code: limit, market and reversal entries, one target
\* and two, both directions, the settings, the windows one by one
Separately ==
    {Case(LimitLong, Default, {"trades"}),
     Case(LimitLong, Default, {"candles"}),
     Case(LimitLong, NoBreakEven, {"candles"}),
     Case(Short(FALSE, "breakout_acceptance"), NotPersisted, {"candles"}),
     Case(Short(FALSE, "breakout_acceptance"), Default, {"trades", "mark"}),
     Case(Long(TRUE, TrendFollow, 8), Default, {"trades", "gap", "none"}),
     Case(Long(TRUE, TrendFollow, 10), Default, {"trades", "mark"}),
     Case(Long(FALSE, Reversal, 8), Default, {"candles", "none"}),
     Case(Short(TRUE, Reversal), Default, {"candles"})}
TradesThenCandles == {Case(LimitLong, Default, {"trades", "candles"})}
ReversalByTrades == {Case(Long(FALSE, Reversal, 10), Default, {"trades"})}
=============================================================================
