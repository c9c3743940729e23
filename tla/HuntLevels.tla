----------------------------- MODULE HuntLevels -----------------------------
(***************************************************************************)
(* When a leg of the hunt journal closes: evaluate_levels and its callers, *)
(* evaluate_followups (a poll of the tick), reconcile_signal (klines or    *)
(* tickers of a symbol outside the batch) and auto_resolve_active_signals  *)
(* (the end of the tick), on one leg and one moving price.                 *)
(*                                                                         *)
(* Prices are whole units in the leg's favour: for a short the axis is     *)
(* turned round, which the code does with a second branch of every test.   *)
(* Percentages become distances.  Messages and their cooldown are left     *)
(* out; they gate the armed-to-triggered step only.                        *)
(***************************************************************************)
EXTENDS Integers

CONSTANTS
    Prices,             \* the prices the market visits
    OpenPrice,          \* price at registration
    FirstBars,          \* candles that may be running at registration
    EntryLo, EntryHi,   \* the entry zone
    InitialStop, TP1, TP2,
    MinTrail,           \* min_trail_mfe_pct
    TrailDists,         \* distances of the trailing stop: ATR, squeeze or risk
    RiskDist,           \* the one of them that needs no row
    MinRatchet,         \* least move of the trailing stop
    EarlyFrom, EarlyBuf,    \* early_breakeven_mfe_pct, early_breakeven_buffer_pct
    Tp1Bufs,            \* breakeven buffers after TP1
    StallMfe,           \* mfe_stall_min_pct
    HoldMfe,            \* sniper_hold_min_mfe_pct
    Tiers,              \* delivery tiers: "armed", "triggered"
    Structural,         \* whether the setup had a structural trigger
    Reversal            \* entry_type manipulation_reversal: no trailing

Phases == {"armed", "triggered", "tp1_managed", "closed"}
Reasons == {"orphan_expired", "time_stall", "timeout", "trailing_stop_profit",
            "stop_hit", "tp2", "lifecycle_stale", "bounce_invalidate",
            "trend_exhaustion", "structure_lost", "bias_flip", "tp1_hit",
            "stop_loss"}
NotClosed == "none"    \* the leg has no close_reason
Span == [hi : Int, lo : Int]

ASSUME LevelsAssumption ==
    /\ Prices \subseteq Int /\ OpenPrice \in Prices
    /\ FirstBars \subseteq Span
    /\ \A r \in FirstBars : r.lo <= OpenPrice /\ OpenPrice <= r.hi
    /\ {EntryLo, EntryHi, InitialStop, TP1, TP2} \subseteq Int
    /\ InitialStop < EntryLo /\ EntryLo <= EntryHi /\ EntryHi <= TP1 /\ TP1 <= TP2
    /\ Tp1Bufs \subseteq 0 .. (TP1 - EntryLo)
    /\ TrailDists \subseteq Nat \ {0} /\ RiskDist \in Nat \ {0} /\ EarlyBuf \in Nat \ {0}
    /\ {MinTrail, MinRatchet, EarlyFrom, StallMfe, HoldMfe} \subseteq Int
    /\ Tiers \subseteq {"armed", "triggered"}

Mid == (EntryLo + EntryHi) \div 2

VARIABLES
    leg,        \* the entry of the journal
    price,      \* last price
    bar,        \* range of the prices the candles of a row still show
    age,        \* 0 in the grace period, 1, 2 past mfe_stall_hours, 3 timed out
    orphan,     \* no reconcile for longer than orphan_ttl_hours
    seen        \* range of all prices since the candle of the registration

legVars == <<leg, price, bar, age, orphan, seen>>

Higher(a, b) == IF a >= b THEN a ELSE b
Lower(a, b) == IF a <= b THEN a ELSE b

Join(r, q) == [hi |-> Higher(r.hi, q.hi), lo |-> Lower(r.lo, q.lo)]
At(p) == [hi |-> p, lo |-> p]
Extend(r, p) == Join(r, At(p))

Open == leg.reason = NotClosed

\* register_signal_open.
LegInit ==
    /\ price = OpenPrice
    /\ \E t \in Tiers :
         leg = [tier |-> t, phase |-> t, stop |-> InitialStop, ext |-> At(price),
                tp1_hit |-> FALSE, tp1_managed |-> FALSE, be |-> FALSE,
                trailing |-> FALSE, reason |-> NotClosed, exit |-> 0]
    /\ bar \in FirstBars
    /\ age = 0 /\ orphan = FALSE
    /\ seen = bar

-----------------------------------------------------------------------------
(* Operations on the leg                                                   *)

Mfe(l) == Higher(0, l.ext.hi - EntryLo)

ClosedAt(l, reason, exit) ==
    [l EXCEPT !.phase = "closed", !.reason = reason, !.exit = exit]

\* _transition: an armed leg does not become tp1_managed.
Transition(l, to) ==
    IF l.phase = CASE to = "triggered" -> "armed" [] to = "tp1_managed" -> "triggered"
    THEN [l EXCEPT !.phase = to] ELSE l

\* _apply_early_breakeven_lock.
EarlyBreakeven(l) ==
    IF /\ ~l.trailing /\ ~l.be
       /\ l.tp1_hit \/ Structural
       /\ Mfe(l) >= EarlyFrom
       /\ EntryLo + EarlyBuf > l.stop
    THEN [l EXCEPT !.stop = EntryLo + EarlyBuf, !.be = TRUE]
    ELSE l

\* _update_trailing_stop with trail distance d.
Trailed_Ahead(l, d) ==          \* mutant: the distance is put on the wrong side
    IF ~Reversal /\ Mfe(l) > MinTrail
    THEN [l EXCEPT !.stop = l.ext.hi + d, !.trailing = TRUE, !.be = TRUE]
    ELSE l

Trailed(l, d) ==
    IF /\ ~Reversal
       /\ Mfe(l) > MinTrail
       /\ l.ext.hi - d > EntryLo
       /\ l.ext.hi - d >= l.stop + Higher(MinRatchet, 1)
    THEN [l EXCEPT !.stop = l.ext.hi - d, !.trailing = TRUE, !.be = TRUE]
    ELSE l

\* apply_tp1_management and apply_tp1_breakeven_trail with buffer b: half of the
\* way to TP1 is locked, or the buffer, or the stop as it is, whichever is best.
Tp1Lock(b) == Higher((TP1 - EntryLo) \div 2, b)

ManageTp1_EntryNoise(l, b) ==   \* mutant: the stop on the far side of the entry
    Transition([l EXCEPT !.stop = Higher(@, EntryLo - b), !.be = TRUE,
                         !.tp1_hit = TRUE, !.tp1_managed = TRUE], "tp1_managed")

ManageTp1_Reset(l, b) ==        \* mutant: a trailed stop is overwritten
    Transition([l EXCEPT !.stop = EntryLo + Tp1Lock(b),
                         !.be = TRUE, !.tp1_hit = TRUE, !.tp1_managed = TRUE],
               "tp1_managed")

ManageTp1(l, b) ==
    Transition([l EXCEPT !.stop = Higher(@, EntryLo + Tp1Lock(b)),
                         !.be = TRUE, !.tp1_hit = TRUE, !.tp1_managed = TRUE],
               "tp1_managed")

StopReason(l) ==
    IF l.trailing /\ l.stop > Mid THEN "trailing_stop_profit" ELSE "stop_hit"

\* evaluate_levels at price p with the range r of its caller: expiries, then
\* the stop is moved, then it is tested first, then TP2, then TP1.
EvaluateLevels(l, p, r, d, b) ==
    LET moved == Trailed(EarlyBreakeven(l), d)
        ratcheted == moved.stop # EarlyBreakeven(l).stop
    IN  CASE orphan -> ClosedAt(l, "orphan_expired", p)
          [] ~orphan /\ age = 2 /\ ~l.tp1_hit /\ Mfe(l) < StallMfe ->
                ClosedAt(l, "time_stall", p)
          [] ~orphan /\ age = 3 -> ClosedAt(l, "timeout", p)
          [] OTHER ->
                CASE r.lo <= moved.stop /\ ~(ratcheted /\ moved.stop > EntryLo) ->
                        ClosedAt(moved, StopReason(moved), moved.stop)
                  [] r.lo > moved.stop \/ ratcheted ->
                        IF r.hi >= TP2
                        THEN ClosedAt([moved EXCEPT !.tp1_hit = TRUE], "tp2", TP2)
                        ELSE IF r.hi >= TP1 /\ ~moved.tp1_hit
                        THEN ManageTp1(moved, b)
                        ELSE moved

\* What a row may say of the thesis of the leg, besides its price.
News == {"none", "stale", "bounce", "exhaustion", "broken", "flip"}

\* evaluate_followups after the levels: the leg is still open.  A bounce is news
\* of a short, exhaustion of a long; the 0.2 % in which a stop counts as in play
\* for a bias flip is no distance here.
Invalidated_NoStop(l, p, news) ==   \* mutant: the latched stop is not looked at
    CASE news = "broken" -> ClosedAt(l, "structure_lost", p)
      [] OTHER -> l

Invalidated(l, p, news) ==
    LET stale == news = "stale" /\ ~l.tp1_hit /\ ~l.be /\ ~l.trailing /\ Mfe(l) < HoldMfe
        bounced == news = "bounce" /\ age > 0 /\ p < EntryLo
        spent == news = "exhaustion"
    IN
    CASE stale -> ClosedAt(l, "lifecycle_stale", p)
      [] bounced -> ClosedAt(l, "bounce_invalidate", p)
      [] spent -> ClosedAt(l, "trend_exhaustion", p)
      [] p <= l.stop /\ ~stale /\ ~bounced /\ ~spent -> ClosedAt(l, "stop_hit", p)
      [] p > l.stop /\ news = "broken" -> ClosedAt(l, "structure_lost", p)
      [] p > l.stop /\ news = "flip" /\ age > 0 /\ p >= Mid /\ ~l.be ->
            ClosedAt(l, "bias_flip", p)
      [] OTHER -> l

\* _maybe_armed_to_triggered; told is whether the message is not on cooldown.
Triggered(l, p, told) ==
    IF l.tier = "armed" /\ p \in EntryLo .. EntryHi /\ told
    THEN Transition([l EXCEPT !.tier = "triggered"], "triggered")
    ELSE l

-----------------------------------------------------------------------------
(* Steps                                                                   *)

\* evaluate_followups: the range is the live price and the candles of the row,
\* if the row has any, joined with all the leg has been shown before.
Poll(d, b, news) ==
    /\ Open
    /\ \E told \in BOOLEAN, candles \in {bar, At(price)} :
         LET ext == Join(Extend(leg.ext, price), candles)
             l == EvaluateLevels([leg EXCEPT !.ext = ext], price, ext, d, b)
         IN  leg' = IF l.reason # NotClosed THEN l
                   ELSE Invalidated(Triggered(l, price, told), price, news)
    /\ orphan' = FALSE
    /\ UNCHANGED <<price, bar, age, seen>>

\* _reconcile_inwatch_active and _reconcile_orphan_signals: the range is that of
\* the klines; the leg keeps the joined one.
KlineReconcile(b) ==
    /\ Open
    /\ leg' = EvaluateLevels([leg EXCEPT !.ext = Join(@, bar)], price, bar, RiskDist, b)
    /\ orphan' = FALSE
    /\ UNCHANGED <<price, bar, age, seen>>

\* reconcile_active_from_ticker: all the leg has been shown, and the price.
TickerReconcile(b) ==
    /\ Open
    /\ LET ext == Extend(leg.ext, price)
       IN  leg' = EvaluateLevels([leg EXCEPT !.ext = ext], price, ext, RiskDist, b)
    /\ orphan' = FALSE
    /\ UNCHANGED <<price, bar, age, seen>>

\* auto_resolve_active_signals, after the grace period.
AutoResolveLeg ==
    /\ Open /\ age > 0
    /\ \/ age = 3 /\ leg' = ClosedAt(leg, "timeout", price)
       \/ age < 3 /\ price >= TP1 /\ leg' = ClosedAt(leg, "tp1_hit", price)
       \/ age < 3 /\ price < TP1 /\ price <= leg.stop
            /\ leg' = ClosedAt(leg, "stop_loss", price)
    /\ UNCHANGED <<price, bar, age, orphan, seen>>

\* The market.
Move(p) ==
    /\ Open /\ p # price
    /\ price' = p
    /\ bar' = Extend(bar, p)
    /\ seen' = Extend(seen, p)
    /\ UNCHANGED <<leg, age, orphan>>

NewBar ==
    /\ Open
    /\ bar' = At(price)
    /\ UNCHANGED <<leg, price, age, orphan, seen>>

GetOlder ==
    /\ Open /\ age < 3
    /\ age' = age + 1
    /\ UNCHANGED <<leg, price, bar, orphan, seen>>

OrphanTtl ==
    /\ Open /\ age > 1
    /\ orphan' = TRUE
    /\ UNCHANGED <<leg, price, bar, age, seen>>

AnyPoll == \E d \in TrailDists, b \in Tp1Bufs, news \in News : Poll(d, b, news)

LegNext ==
    \/ AnyPoll
    \/ \E b \in Tp1Bufs : KlineReconcile(b) \/ TickerReconcile(b)
    \/ AutoResolveLeg
    \/ \E p \in Prices : Move(p)
    \/ NewBar
    \/ GetOlder
    \/ OrphanTtl

LegSpec == LegInit /\ [][LegNext]_legVars

-----------------------------------------------------------------------------
(* Properties                                                              *)

Leg == [tier : {"armed", "triggered"}, phase : Phases, stop : Int, ext : Span,
        tp1_hit : BOOLEAN, tp1_managed : BOOLEAN, be : BOOLEAN, trailing : BOOLEAN,
        reason : Reasons \union {NotClosed}, exit : Int]

LegTypeOK ==
    /\ leg \in Leg
    /\ price \in Prices
    /\ bar \in Span /\ seen \in Span
    /\ age \in 0 .. 3
    /\ orphan \in BOOLEAN
    /\ leg.phase = "closed" <=> leg.reason # NotClosed

\* Early breakeven, trailing and TP1 management move the stop in turn, in the
\* same poll too, and none gives back what another has locked.
StopNeverLoosens == [][leg'.stop >= leg.stop]_legVars

\* "The post-TP1 stop must NEVER sit in the loss zone" (apply_tp1_management):
\* measured where the journal measures profit, from the middle of the zone.
RunnerNeverLoses == LegTypeOK /\ (Open /\ leg.tp1_managed => leg.stop >= Mid)

\* A poll leaves no leg open whose live price is at its stop or beyond, also
\* when the poll itself has moved the stop.
PollEndsBeyondStop == [][leg'.reason = NotClosed /\ price <= leg'.stop => ~AnyPoll]_legVars

\* The exit price a level writes into the journal is one the market was at, in
\* the leg's life or the candle it was opened in.
LevelExitWasTraded ==
    leg.reason \in {"stop_hit", "trailing_stop_profit", "tp2"}
        => seen.lo <= leg.exit /\ leg.exit <= seen.hi
=============================================================================
