--------------------------- MODULE TrackedReview ---------------------------
(***************************************************************************)
(* How prices decide the fate of one journal row: TPSLReviewMixin of       *)
(* bot/persistence/_tracking_review.py with the helpers it calls in        *)
(* tracking.py, tracked.py, activation_gate.py and                         *)
(* engine/domain/limit_entry.py.                                           *)
(*                                                                         *)
(* The market prints trades; minutes close.  The bot looks at the prices   *)
(* through several windows: trade by trade (aggTrade stream, or a complete *)
(* page of aggregate trades from REST), by closed one-minute candles when  *)
(* the trades are not to be had, or not at all (time fallback).  Each      *)
(* window advances last_checked_at, and what lies before it is not looked  *)
(* at again: "tape" and "done" hold the trades and the closed candle that  *)
(* lie after it.  The symbol lock makes every review atomic here; its      *)
(* interleavings are in SignalTracker.                                     *)
(***************************************************************************)
EXTENDS Integers, Sequences, FiniteSets

CONSTANTS
    Prices,     \* the prices the market prints
    Marks,      \* the mark prices that may be fresh, beside the trade price
    Cases,      \* records [plan, setting, feed]: a published plan, the two options of
                \* [tracking] that matter here, the windows that work in a behaviour
    Gates,      \* verdicts of the activation gate: subset of "ok", "wait", "close"
    MaxPrints   \* bound: prints of the market in a behaviour

Windows == {"trades", "mark", "gap", "candles", "none"}
TrendFollow == "trend_follow"
Reversal == "reversal"
Profiles == {TrendFollow, Reversal, "breakout_acceptance"}

Plan == [direction : {"long", "short"}, lo : Nat \ {0}, hi : Nat \ {0}, stop : Nat \ {0},
         tp1 : Nat \ {0}, tp2 : Nat \ {0}, single : BOOLEAN, market : BOOLEAN,
         profile : Profiles]
Setting == [breakEven : BOOLEAN, persist : BOOLEAN]

ASSUME ConstantsAssumption ==
    /\ Prices \subseteq Nat \ {0} /\ Marks \subseteq Prices
    /\ Cases \subseteq [plan : Plan, setting : Setting, feed : SUBSET Windows]
    /\ \A k \in Cases :
         /\ k.plan.lo <= k.plan.hi
         /\ IF k.plan.direction = "long"
              THEN k.plan.stop < k.plan.lo /\ k.plan.hi < k.plan.tp1 /\ k.plan.tp1 <= k.plan.tp2
              ELSE k.plan.stop > k.plan.hi /\ k.plan.lo > k.plan.tp1 /\ k.plan.tp1 >= k.plan.tp2
    /\ Gates \subseteq {"ok", "wait", "close"}
    /\ MaxPrints \in Nat

Reasons == {"expired", "unactivated_close", "stop_loss", "breakeven_stop", "tp1_hit",
            "tp2_hit", "ambiguous_exit", "emergency_exit"}
NoBar == [o |-> 0]

VARIABLES
    given,      \* the case of this behaviour, never changed
    row,        \* the row; mem is its entry in _trailing_stops, lost by a restart
    late,       \* pending_expires_at has passed
    minute,     \* the candle that is forming
    done,       \* the closed candle after last_checked_at, or NoBar
    tape,       \* the trades after last_checked_at
    prints,     \* how often the market has printed (bound)
    seen        \* history: prices since the fill and since the stop in force was set;
                \* apart from them (bar, wick) those of the candle that filled the row,
                \* which may be older than the fill; and whether a closed candle has
                \* confirmed a pending reversal

unseen == <<minute, done, tape, prints>>
vars == <<given, row, late, minute, done, tape, prints, seen>>

plan == given.plan
setting == given.setting
feed == given.feed

-----------------------------------------------------------------------------
(* Levels.  For a short everything is mirrored.                            *)

Reaches(p, target) == IF plan.direction = "long" THEN p >= target ELSE p <= target
Breaches(p, stop) == Reaches(stop, p)
Favourable(b) == IF plan.direction = "long" THEN b.h ELSE b.l
Adverse(b) == IF plan.direction = "long" THEN b.l ELSE b.h
InZone(p) == plan.lo <= p /\ p <= plan.hi
EntryMid == (plan.lo + plan.hi) \div 2

EffectiveStop(r) == IF r.trail # 0 THEN r.trail ELSE IF r.mem # 0 THEN r.mem ELSE r.stop

\* _active_signals: every review loads the row and refreshes the stop kept in memory
Loaded(r) ==
    IF r.st # "active" THEN r
    ELSE [r EXCEPT !.mem = IF r.trail # 0 THEN r.trail ELSE IF @ = 0 THEN r.stop ELSE @]

\* Mutant: the moved stop stays in memory
ApplyTrailingStop_InMemory(r, s) == IF ~Reaches(s, r.stop) THEN r ELSE [r EXCEPT !.mem = s]

ApplyTrailingStop(r, s) ==
    IF ~Reaches(s, r.stop) THEN r
    ELSE IF setting.persist THEN [r EXCEPT !.mem = s, !.trail = s, !.stop = s]
    ELSE [r EXCEPT !.mem = s]

MarkTp1(r) ==
    IF r.tp1 THEN r
    ELSE LET hit == [r EXCEPT !.tp1 = TRUE]
         IN  IF setting.breakEven THEN ApplyTrailingStop(hit, r.entry) ELSE hit

\* Mutant: break-even is the middle of the zone
StopCloseReason_EntryMid(r) ==
    IF r.tp1 /\ r.stop = EntryMid THEN "breakeven_stop" ELSE "stop_loss"

StopCloseReason(r) == IF r.tp1 /\ r.stop = r.entry THEN "breakeven_stop" ELSE "stop_loss"

Close(r, reason) ==
    LET why == IF reason = "breakeven_stop" /\ r.tp1 THEN "tp1_hit" ELSE reason
    IN  [r EXCEPT !.st = "closed", !.why = why, !.tp1 = @ \/ why = "tp1_hit"]

Activate(r, p) == [r EXCEPT !.st = "active", !.entry = p]

Expire(r, lapsed) == IF r.st = "pending" /\ lapsed THEN Close(r, "expired") ELSE r

-----------------------------------------------------------------------------
(* One trade, or the fresh mark price in its place (_apply_price_tick).    *)

\* Mutant: the stop has to be crossed
PriceTick_StopCrossed(r, p) ==
    IF p # EffectiveStop(r) /\ Breaches(p, EffectiveStop(r)) THEN Close(r, StopCloseReason(r))
    ELSE IF plan.single /\ Reaches(p, plan.tp1) THEN Close(r, "tp1_hit")
    ELSE IF Reaches(p, plan.tp2) THEN Close(MarkTp1(r), "tp2_hit")
    ELSE IF Reaches(p, plan.tp1) THEN MarkTp1(r)
    ELSE r

PriceTick(r, p) ==
    IF Breaches(p, EffectiveStop(r)) THEN Close(r, StopCloseReason(r))
    ELSE IF plan.single /\ Reaches(p, plan.tp1) THEN Close(r, "tp1_hit")
    ELSE IF Reaches(p, plan.tp2) THEN Close(MarkTp1(r), "tp2_hit")
    ELSE IF Reaches(p, plan.tp1) THEN MarkTp1(r)
    ELSE r

\* The activation gate: a price beyond the stop closes the plan, the other tests
\* (staleness, score, confluence, regime) give the verdict g
Admit(r, at, price, g) ==
    IF Breaches(at, plan.stop) \/ g = "close" THEN Close(r, "unactivated_close")
    ELSE IF g = "ok" THEN Activate(r, price)
    ELSE r

TradePending(r, trade, g) ==
    IF trade.late THEN Close(r, "expired")
    ELSE IF plan.profile = Reversal \/ ~(plan.market \/ InZone(trade.p)) THEN r
    ELSE Admit(r, trade.p, trade.p, g)

ApplyTrade(r, trade, g, review) ==
    LET filled == IF r.st = "pending" THEN TradePending(r, trade, g) ELSE r
    IN  IF filled.st = "active" THEN PriceTick(filled, review) ELSE filled

-----------------------------------------------------------------------------
(* One closed candle (_apply_candle_rows).                                 *)

ZoneTouched(b) == b.l <= plan.hi /\ b.h >= plan.lo

ReversalConfirmed(b) ==
    ZoneTouched(b) /\ InZone(b.c) /\ b.c # b.o /\ Reaches(b.c, b.o)

LimitEntryFilled(b) ==
    CASE plan.profile = Reversal -> ReversalConfirmed(b)
      [] plan.profile = TrendFollow -> ZoneTouched(b) /\ InZone(b.c)
      [] OTHER -> ZoneTouched(b)

CandlePending(r, b, g) ==
    IF b.late THEN Close(r, "expired")
    ELSE IF ~(plan.market \/ LimitEntryFilled(b)) THEN r
    ELSE IF /\ plan.profile = Reversal /\ ~ReversalConfirmed(b)
            /\ ~Breaches(b.c, plan.stop) /\ g # "close" THEN r
    ELSE Admit(r, b.c, IF ~plan.market /\ InZone(b.c) THEN b.c ELSE EntryMid, g)

\* 1.5 R behind the best price, where R is taken from the stop as it is now;
\* half ticks are rounded down
UpdateTrailing(r, best) ==
    LET risk == IF r.entry > r.stop THEN r.entry - r.stop ELSE r.stop - r.entry
        room == (3 * risk) \div 2
        level == IF plan.direction = "long" THEN best - room ELSE best + room
    IN  IF /\ r.tp1 /\ risk > 0
           /\ level # r.entry /\ Reaches(level, r.entry)
           /\ level # EffectiveStop(r) /\ Reaches(level, EffectiveStop(r))
          THEN ApplyTrailingStop(r, level)
          ELSE r

\* Mutant: an open row is compared with the stop as the candle itself has moved it
ApplyCandle_TrailedFirst(r, b, g) ==
    LET open == UpdateTrailing(r, Favourable(b))
        stopTouched == Breaches(Adverse(b), EffectiveStop(open))
    IN  IF r.st # "active" THEN CandlePending(r, b, g)
        ELSE IF stopTouched THEN Close(open, StopCloseReason(open))
        ELSE IF Reaches(Favourable(b), plan.tp2) THEN Close(MarkTp1(open), "tp2_hit")
        ELSE IF Reaches(Favourable(b), plan.tp1) THEN MarkTp1(open)
        ELSE open

ApplyCandle(r, b, g) ==
    LET tp1Touched == Reaches(Favourable(b), plan.tp1)
        tp2Touched == Reaches(Favourable(b), plan.tp2)
        stopTouched == Breaches(Adverse(b), EffectiveStop(r))
        filled == IF r.st = "pending" THEN CandlePending(r, b, g) ELSE r
        open == UpdateTrailing(filled, Favourable(b))
    IN  IF filled.st # "active" THEN filled
        ELSE IF stopTouched /\ (tp2Touched \/ (tp1Touched /\ ~open.tp1))
          THEN Close(open, "ambiguous_exit")
        ELSE IF plan.single /\ tp1Touched THEN Close(open, "tp1_hit")
        ELSE IF tp2Touched THEN Close(MarkTp1(open), "tp2_hit")
        ELSE IF stopTouched THEN Close(open, StopCloseReason(open))
        ELSE IF tp1Touched THEN MarkTp1(open)
        ELSE open

-----------------------------------------------------------------------------
(* History, for the properties only.                                       *)

PricesOf(trades) == {trades[i].p : i \in DOMAIN trades}

\* The row goes from r to n on a review of "noted", before the trades "later".  The
\* prices "old" of a candle that fills the row may come before the fill.
Witness(r, n, noted, old, later) ==
    LET waiting == n.st = "pending"
        moved == n.st = "active" /\ EffectiveStop(n) # EffectiveStop(r)
        Known(since) == (IF r.st = "active" THEN since ELSE later) \cup noted
        Doubtful(since) == IF r.st = "active" THEN since ELSE old
    IN  seen' = [seen EXCEPT
            !.fill = IF waiting THEN {} ELSE Known(@),
            !.bar = IF waiting THEN {} ELSE Doubtful(@),
            !.stop = IF waiting THEN {} ELSE IF moved THEN later ELSE Known(@),
            !.wick = IF waiting \/ moved THEN {} ELSE Doubtful(@)]

\* All prices that may have come since the fill, and since the stop was set
SinceFill == seen.fill \cup seen.bar
SinceStop == seen.stop \cup seen.wick

-----------------------------------------------------------------------------
(* The market and the clock.                                               *)

Extend(b, p) ==
    IF b = NoBar THEN [o |-> p, h |-> p, l |-> p, c |-> p]
    ELSE [b EXCEPT !.h = IF p > @ THEN p ELSE @, !.l = IF p < @ THEN p ELSE @, !.c = p]

MarketPrints(p) ==
    /\ row.st # "closed" /\ prints < MaxPrints
    /\ prints' = prints + 1
    /\ tape' = Append(tape, [p |-> p, late |-> late])
    /\ minute' = Extend(minute, p)
    /\ seen' = IF row.st # "active" THEN seen
               ELSE [seen EXCEPT !.fill = @ \cup {p}, !.stop = @ \cup {p}]
    /\ UNCHANGED <<given, row, late, done>>

\* Bound: at most one closed candle waits for a review
CloseMinute ==
    /\ row.st # "closed" /\ minute # NoBar /\ done = NoBar
    /\ done' = [o |-> minute.o, h |-> minute.h, l |-> minute.l, c |-> minute.c,
                late |-> late, before |-> Len(tape)]
    /\ minute' = NoBar
    /\ seen' = [seen EXCEPT !.confirmed =
                   @ \/ (row.st = "pending" /\ ~late /\ plan.profile = Reversal
                         /\ ReversalConfirmed(minute))]
    /\ UNCHANGED <<given, row, late, tape, prints>>

Lapse ==
    /\ row.st = "pending" /\ ~late
    /\ late' = TRUE
    /\ UNCHANGED <<given, row, unseen, seen>>

-----------------------------------------------------------------------------
(* The reviews.                                                            *)

\* The mark price replaces the trade price while it is fresh and the row is active
ReviewPrices(p) == IF "mark" \in feed THEN Marks \cup {p} ELSE {p}

\* One trade of the stream, or of a complete page of aggregate trades
ReviewTrade(g, m) ==
    LET trade == Head(tape)
        next == ApplyTrade(Loaded(row), trade, g, m)
    IN  /\ "trades" \in feed /\ row.st # "closed" /\ tape # <<>>
        /\ m \in ReviewPrices(trade.p)
        /\ row' = next
        /\ tape' = Tail(tape)
        /\ done' = IF done = NoBar \/ done.before = 0 THEN NoBar
                   ELSE [done EXCEPT !.before = @ - 1]
        /\ Witness(row, next, {trade.p, m}, {}, PricesOf(Tail(tape)))
        /\ UNCHANGED <<given, late, minute, prints>>

\* The end of a complete page: everything up to now counts as checked
EndOfTrades ==
    LET next == Expire(Loaded(row), late)
    IN  /\ "trades" \in feed /\ row.st # "closed" /\ tape = <<>>
        /\ row' = next
        /\ done' = NoBar
        /\ UNCHANGED <<given, late, minute, tape, prints, seen>>

\* After a gap of the stream the next trade moves last_checked_at past the gap
TradeAfterGap(g, m) ==
    LET trade == tape[Len(tape)]
        next == ApplyTrade(Loaded(row), trade, g, m)
    IN  /\ "gap" \in feed /\ row.st # "closed" /\ Len(tape) > 1
        /\ m \in ReviewPrices(trade.p)
        /\ row' = next
        /\ tape' = <<>> /\ done' = NoBar
        /\ Witness(row, next, {trade.p, m}, {}, {})
        /\ UNCHANGED <<given, late, minute, prints>>

\* Mutant: last_checked_at is not moved past the candle
ReviewCandles_NotChecked(g) ==
    LET next == Expire(ApplyCandle(Loaded(row), done, g), late)
    IN  /\ "candles" \in feed /\ row.st # "closed" /\ done # NoBar
        /\ row' = next
        /\ Witness(row, next, {}, {}, PricesOf(SubSeq(tape, done.before + 1, Len(tape))))
        /\ UNCHANGED <<given, late, minute, done, tape, prints>>

\* No complete page of trades: the closed candles after last_checked_at.  Without
\* one, now counts as checked
ReviewCandles(g) ==
    LET after == SubSeq(tape, done.before + 1, Len(tape))
        next == Expire(ApplyCandle(Loaded(row), done, g), late)
    IN  /\ "candles" \in feed /\ row.st # "closed" /\ done # NoBar
        /\ row' = next
        /\ tape' = after /\ done' = NoBar
        /\ Witness(row, next, IF row.st = "pending" THEN {done.c} ELSE {},
                   {done.o, done.h, done.l}, PricesOf(after))
        /\ UNCHANGED <<given, late, minute, prints>>

\* No candle after last_checked_at (window "candles") or no market data at all (time
\* fallback, window "none"): only the expiry is checked, and now counts as checked
ReviewTime ==
    /\ \/ "candles" \in feed /\ done = NoBar
       \/ "none" \in feed
    /\ row.st # "closed"
    /\ row' = Expire(Loaded(row), late)
    /\ tape' = <<>> /\ done' = NoBar
    /\ UNCHANGED <<given, late, minute, prints, seen>>

\* A fall of 4 % in five minutes closes the active rows, whatever their direction
AdverseEvent ==
    /\ "candles" \in feed /\ row.st = "active"
    /\ row' = Close(Loaded(row), "emergency_exit")
    /\ UNCHANGED <<given, late, unseen, seen>>

Restart ==
    /\ row.st = "active" /\ row.mem # 0
    /\ row' = [row EXCEPT !.mem = 0]
    /\ UNCHANGED <<given, late, unseen, seen>>

-----------------------------------------------------------------------------
Init ==
    /\ given \in Cases
    /\ row = [st |-> "pending", entry |-> 0, stop |-> plan.stop, trail |-> 0, mem |-> 0,
              tp1 |-> FALSE, why |-> "open"]
    /\ late = FALSE
    /\ minute = NoBar /\ done = NoBar /\ tape = <<>> /\ prints = 0
    /\ seen = [fill |-> {}, bar |-> {}, stop |-> {}, wick |-> {}, confirmed |-> FALSE]

Next ==
    \/ \E p \in Prices : MarketPrints(p)
    \/ CloseMinute
    \/ Lapse
    \/ \E g \in Gates, m \in Prices : ReviewTrade(g, m)
    \/ EndOfTrades
    \/ \E g \in Gates, m \in Prices : TradeAfterGap(g, m)
    \/ \E g \in Gates : ReviewCandles(g)
    \/ ReviewTime
    \/ AdverseEvent
    \/ Restart

Spec == Init /\ [][Next]_vars

-----------------------------------------------------------------------------
(* Properties.                                                             *)

Row == [st : {"pending", "active", "closed"}, entry : Nat, stop : Nat \ {0}, trail : Nat,
        mem : Nat, tp1 : BOOLEAN, why : Reasons \cup {"open"}]
Bar == [o : Prices, h : Prices, l : Prices, c : Prices]
ClosedBar == [o : Prices, h : Prices, l : Prices, c : Prices, late : BOOLEAN, before : Nat]

\* Type invariant; a stop that has been moved never drops to zero, which the code
\* reads as "no stop"
TypeOK ==
    /\ given \in Cases
    /\ row \in Row
    /\ row.st = "active" => row.entry > 0
    /\ late \in BOOLEAN
    /\ minute \in Bar \cup {NoBar}
    /\ done \in ClosedBar \cup {NoBar}
    /\ tape \in Seq([p : Prices, late : BOOLEAN])
    /\ prints \in 0..MaxPrints
    /\ SinceFill \subseteq Nat \ {0} /\ SinceStop \subseteq Nat \ {0}
    /\ seen.confirmed \in BOOLEAN

\* A row is closed at a level only if a price reached the level while the level was
\* in force, the target after the fill, the stop after the fill and after the stop
\* was last moved; or, where a candle filled the row, if one of that candle's own
\* prices reached it, which may be older than the fill.  Rows that trades fill have
\* no such excuse, nor has any later candle.  It may fail when candles and trades
\* review the same minute.
ExitJustified ==
    LET Target(level) == \E p \in seen.fill \cup seen.bar : Reaches(p, level)
        Stopped == \E p \in seen.stop \cup seen.wick : Breaches(p, EffectiveStop(row))
    IN  /\ row.why = "tp2_hit" => Target(plan.tp2)
        /\ row.why = "stop_loss" => Stopped
        /\ row.why = "tp1_hit" => Target(plan.tp1) /\ (plan.single \/ Stopped)

\* What limit_entry.py promises: exits by prices after the fill only.  A candle that
\* prints TP2 and then comes back into the zone fills the row and books TP2.
ExitAfterFill ==
    LET Target(level) == \E p \in seen.fill : Reaches(p, level)
        Stopped == \E p \in seen.stop : Breaches(p, EffectiveStop(row))
    IN  /\ row.why = "tp2_hit" => Target(plan.tp2)
        /\ row.why = "stop_loss" => Stopped
        /\ row.why = "tp1_hit" => Target(plan.tp1) /\ (plan.single \/ Stopped)

\* With one window that works, a row that is still open once everything has been
\* reviewed has touched neither its stop nor its last target since the fill, nor in
\* the candle that filled it.
NoMissedExit ==
    LET reviewed == \/ feed = {"trades"} /\ tape = <<>>
                    \/ feed = {"candles"} /\ minute = NoBar /\ done = NoBar
    IN  row.st = "active" /\ reviewed =>
          /\ \A p \in SinceStop : ~Breaches(p, EffectiveStop(row))
          /\ \A p \in SinceFill : ~Reaches(p, plan.tp2)

\* The verdict on a candle is one that its four prices, taken as trades in one of
\* the two possible orders, would have given.  Three exceptions: a candle that
\* touches stop and target is ambiguous; a candle that reaches TP1 leaves the
\* row open although the price may have come back to the new stop within it; and
\* a market plan filled beyond its last target, the mark price lagging behind the
\* trade, has its break-even there.
CandleAgreesWithTrades ==
    LET Then(r, p) == IF r.st = "active" THEN PriceTick(r, p) ELSE r
        r0 == Loaded(row)
        HighFirst == Then(Then(Then(Then(r0, done.o), done.h), done.l), done.c)
        LowFirst == Then(Then(Then(Then(r0, done.o), done.l), done.h), done.c)
        verdict == ApplyCandle(r0, done, "ok")
    IN  row.st = "active" /\ done # NoBar =>
          \/ verdict.why = "ambiguous_exit"
          \/ verdict.why \in {HighFirst.why, LowFirst.why}
          \/ verdict.st = "active" /\ verdict.tp1 /\ ~row.tp1
          \/ Reaches(row.entry, plan.tp2)

\* With the trailing stop persisted, no review and no restart moves the stop of an
\* active row away from the price.
StopNeverWidens ==
    [][row.st = "active" /\ row'.st = "active" /\ setting.persist
         => Reaches(EffectiveStop(row)', EffectiveStop(row))]_vars

\* With break-even on TP1 and a persisted stop, a row that has reached TP1 is not
\* booked as a loss.
Tp1IsNoLoss ==
    setting.breakEven /\ setting.persist /\ row.tp1 => row.why # "stop_loss"

\* A reversal plan whose zone was touched by a candle that confirmed it is active
\* once that candle lies before last_checked_at (the gate permitting).
ConfirmedReversalFills ==
    seen.confirmed /\ done = NoBar /\ Gates = {"ok"} => row.st # "pending"
=============================================================================
