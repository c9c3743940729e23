------------------------ MODULE TrackedReviewProofs ------------------------
(***************************************************************************)
(* Proofs about TrackedReview for any prices, plans, settings, gates and   *)
(* number of prints: what the levels of an open row are, what the windows  *)
(* know of the market, and from that the verdicts of the reviews.          *)
(***************************************************************************)
EXTENDS TrackedReview, SequenceTheorems, TLAPS

-----------------------------------------------------------------------------
(* Levels and stops.                                                       *)

\* What is taken from the plan of a case.
LEMMA PlanFacts ==
    ASSUME given \in Cases
    PROVE  /\ plan \in Plan /\ setting \in Setting
           /\ {plan.lo, plan.hi, plan.stop, plan.tp1, plan.tp2} \subseteq Nat \ {0}
           /\ plan.direction \in {"long", "short"}
           /\ plan.lo <= plan.hi
           /\ plan.direction = "long" =>
                plan.stop < plan.lo /\ plan.hi < plan.tp1 /\ plan.tp1 <= plan.tp2
           /\ plan.direction = "short" =>
                plan.stop > plan.hi /\ plan.lo > plan.tp1 /\ plan.tp1 >= plan.tp2
           /\ plan.single \in BOOLEAN /\ setting.persist \in BOOLEAN
           /\ setting.breakEven \in BOOLEAN
<1>1. given \in [plan : Plan, setting : Setting, feed : SUBSET Windows]
    BY ConstantsAssumption
<1>2. plan \in Plan /\ setting \in Setting
    BY <1>1 DEF plan, setting
<1>3. /\ plan.lo <= plan.hi
      /\ IF plan.direction = "long"
           THEN plan.stop < plan.lo /\ plan.hi < plan.tp1 /\ plan.tp1 <= plan.tp2
           ELSE plan.stop > plan.hi /\ plan.lo > plan.tp1 /\ plan.tp1 >= plan.tp2
    BY ConstantsAssumption DEF plan
<1>. QED BY <1>2, <1>3 DEF Plan, Setting

\* The middle of the zone is in the zone.
LEMMA MidInZone ==
    ASSUME given \in Cases
    PROVE  EntryMid \in Nat \ {0} /\ InZone(EntryMid)
<1>1. plan.lo \in Nat \ {0} /\ plan.hi \in Nat \ {0} /\ plan.lo <= plan.hi
    BY PlanFacts
<1>2. /\ (plan.lo + plan.hi) \div 2 \in Int
      /\ 2 * ((plan.lo + plan.hi) \div 2) <= plan.lo + plan.hi
      /\ plan.lo + plan.hi - 1 <= 2 * ((plan.lo + plan.hi) \div 2)
    BY <1>1
<1>. QED BY <1>1, <1>2 DEF EntryMid, InZone

\* A price in the zone is beyond the stop.
LEMMA ZoneBeyondStop ==
    ASSUME given \in Cases, NEW p \in Nat, InZone(p)
    PROVE  Reaches(p, plan.stop) /\ p # plan.stop /\ p > 0
    BY PlanFacts DEF InZone, Reaches

\* Reaching is a total order of the prices, and breaching its converse.
LEMMA ReachesOrder ==
    ASSUME given \in Cases, NEW p \in Nat, NEW q \in Nat, NEW s \in Nat
    PROVE  /\ Reaches(p, p)
           /\ Reaches(p, q) \/ Reaches(q, p)
           /\ Reaches(p, q) /\ Reaches(q, p) => p = q
           /\ Reaches(p, q) /\ Reaches(q, s) => Reaches(p, s)
           /\ Breaches(p, q) <=> Reaches(q, p)
    BY DEF Reaches, Breaches

\* The last target is not before the first.
LEMMA Tp2ReachesTp1 ==
    ASSUME given \in Cases, NEW p \in Nat, Reaches(p, plan.tp2)
    PROVE  Reaches(p, plan.tp1)
    BY PlanFacts DEF Reaches

-----------------------------------------------------------------------------
(* The levels of a row.                                                    *)

\* A row nobody has filled.
Untouched(r) ==
    /\ r.entry = 0 /\ r.stop = plan.stop /\ r.trail = 0 /\ r.mem = 0
    /\ ~r.tp1 /\ r.why = "open"

\* The row's stop has moved only if it is persisted; the one in memory is the row's
\* or nearer to the price.
Stops(r) ==
    /\ r.trail = 0 => r.stop = plan.stop
    /\ r.trail # 0 => setting.persist /\ r.stop = r.trail
    /\ r.mem # 0 => Reaches(r.mem, r.stop)
    /\ setting.persist /\ r.mem # 0 => r.mem = r.stop

\* With break-even, TP1 puts a persisted stop at the entry, from where it does not trail.
AtEntry(r) ==
    setting.persist /\ setting.breakEven => r.stop = IF r.tp1 THEN r.entry ELSE plan.stop

Filled(r) ==
    /\ r.why = "open" /\ r.entry > 0
    /\ r.entry # plan.stop /\ Reaches(r.entry, plan.stop)
    /\ plan.single => ~r.tp1

NoLoss(r) == setting.breakEven /\ setting.persist /\ r.tp1 => r.why # "stop_loss"

Pending(r) == r \in Row /\ r.st = "pending" /\ Untouched(r)
Active(r) == r \in Row /\ r.st = "active" /\ Filled(r) /\ Stops(r) /\ AtEntry(r)
Closed(r) == r \in Row /\ r.st = "closed" /\ NoLoss(r)
Sound(r) == Pending(r) \/ Active(r) \/ Closed(r)

\* The stop in force is the row's when it is persisted, and never behind it.
LEMMA EffectiveStopOf ==
    ASSUME given \in Cases, NEW r \in Row, Stops(r)
    PROVE  /\ EffectiveStop(r) \in Nat \ {0}
           /\ Reaches(EffectiveStop(r), r.stop)
           /\ setting.persist => EffectiveStop(r) = r.stop
<1>1. r.stop \in Nat \ {0} /\ r.trail \in Nat /\ r.mem \in Nat
    BY DEF Row
<1>2. Reaches(r.stop, r.stop)
    BY <1>1, ReachesOrder
<1>. QED BY <1>1, <1>2 DEF EffectiveStop, Stops

\* A restart forgets a stop, the next load brings the row's back.
LEMMA LoadedKeeps ==
    ASSUME given \in Cases, NEW r, Active(r)
    PROVE  /\ Active(Loaded(r)) /\ EffectiveStop(Loaded(r)) = EffectiveStop(r)
           /\ \A f \in {"entry", "stop", "trail", "tp1", "why"} : Loaded(r)[f] = r[f]
<1>1. r.stop \in Nat \ {0} /\ r.trail \in Nat /\ r.mem \in Nat /\ r \in Row
    BY DEF Row, Active
<1> DEFINE mem == IF r.trail # 0 THEN r.trail ELSE IF r.mem = 0 THEN r.stop ELSE r.mem
<1>2. mem \in Nat /\ mem # 0
    BY <1>1
<1>3. Loaded(r) = [r EXCEPT !.mem = mem]
    BY <1>1 DEF Loaded, Active, Row
<1>4. Reaches(r.stop, r.stop)
    BY <1>1, ReachesOrder
<1>5. /\ Reaches(mem, r.stop) /\ (setting.persist => mem = r.stop)
      /\ EffectiveStop(r) = IF r.trail # 0 THEN r.trail ELSE mem
    BY <1>1, <1>4 DEF Active, Stops, EffectiveStop
<1> HIDE DEF mem
<1> DEFINE n == [r EXCEPT !.mem = mem]
<1>6. /\ n \in Row /\ n.mem = mem /\ n.st = r.st
      /\ \A f \in {"entry", "stop", "trail", "tp1", "why"} : n[f] = r[f]
    BY <1>1, <1>2 DEF Row
<1>7. EffectiveStop(n) = EffectiveStop(r)
    BY <1>2, <1>5, <1>6 DEF EffectiveStop
<1>8. Active(n)
    BY <1>5, <1>6 DEF Active, Filled, Stops, AtEntry
<1>. QED BY <1>3, <1>6, <1>7, <1>8

\* What moving the stop of row r to s does: towards the price or not at all.
Moved(r, s, m) ==
    /\ m \in Row /\ Stops(m)
    /\ m.st = r.st /\ m.entry = r.entry /\ m.tp1 = r.tp1 /\ m.why = r.why
    /\ Reaches(m.stop, r.stop)
    /\ setting.persist => m.stop = IF Reaches(s, r.stop) THEN s ELSE r.stop
    /\ ~setting.persist => m.stop = r.stop
    /\ EffectiveStop(m) = s \/ m = r
    /\ Reaches(s, EffectiveStop(r)) => EffectiveStop(m) = s

LEMMA ApplyTrailingStopMoves ==
    ASSUME given \in Cases, NEW r \in Row, Stops(r), NEW s \in Nat \ {0}
    PROVE  Moved(r, s, ApplyTrailingStop(r, s))
<1> DEFINE m == ApplyTrailingStop(r, s)
<1>1. /\ r.stop \in Nat \ {0} /\ r.trail \in Nat /\ r.mem \in Nat
      /\ Reaches(r.stop, r.stop) /\ Reaches(s, s)
      /\ EffectiveStop(r) \in Nat /\ Reaches(EffectiveStop(r), r.stop)
    BY ReachesOrder, EffectiveStopOf DEF Row
<1>2. CASE ~Reaches(s, r.stop)
  <2>1. m = r
    BY <1>2 DEF ApplyTrailingStop
  <2>2. ~Reaches(s, EffectiveStop(r))
    BY <1>1, <1>2, ReachesOrder
  <2>. QED BY <1>1, <1>2, <2>1, <2>2 DEF Moved
<1>3. CASE Reaches(s, r.stop) /\ setting.persist
  <2> DEFINE n == [r EXCEPT !.mem = s, !.trail = s, !.stop = s]
  <2>1. m = n
    BY <1>3 DEF ApplyTrailingStop
  <2>2. /\ n \in Row /\ n.mem = s /\ n.trail = s /\ n.stop = s
        /\ n.st = r.st /\ n.entry = r.entry /\ n.tp1 = r.tp1 /\ n.why = r.why
    BY DEF Row
  <2> HIDE DEF m, n
  <2>3. Moved(r, s, n)
    BY <1>1, <1>3, <2>2 DEF Moved, Stops, EffectiveStop
  <2>. QED BY <2>1, <2>3 DEF m
<1>4. CASE Reaches(s, r.stop) /\ ~setting.persist
  <2> DEFINE n == [r EXCEPT !.mem = s]
  <2>1. m = n
    BY <1>4 DEF ApplyTrailingStop
  <2>2. /\ n \in Row /\ n.mem = s /\ n.trail = r.trail /\ n.stop = r.stop
        /\ n.st = r.st /\ n.entry = r.entry /\ n.tp1 = r.tp1 /\ n.why = r.why
    BY DEF Row
  <2> HIDE DEF m, n
  <2>3. Moved(r, s, n)
    BY <1>1, <1>4, <2>2 DEF Moved, Stops, EffectiveStop
  <2>. QED BY <2>1, <2>3 DEF m
<1>. QED BY <1>2, <1>3, <1>4

\* What marking TP1 makes of an active row.
Marked(r, m) ==
    /\ m \in Row /\ Stops(m) /\ AtEntry(m)
    /\ m.st = r.st /\ m.entry = r.entry /\ m.why = r.why /\ m.tp1
    /\ Reaches(m.stop, r.stop)
    /\ EffectiveStop(m) \in {EffectiveStop(r), r.entry}
    /\ r.tp1 => m = r

\* _mark_tp1: the persisted stop goes to the entry, which is beyond it.
LEMMA MarkTp1Keeps ==
    ASSUME given \in Cases, NEW r, Active(r)
    PROVE  Marked(r, MarkTp1(r))
<1> DEFINE m == MarkTp1(r)
           hit == [r EXCEPT !.tp1 = TRUE]
<1>1. /\ r \in Row /\ Stops(r) /\ AtEntry(r) /\ r.entry \in Nat \ {0} /\ r.stop \in Nat \ {0}
      /\ r.entry # plan.stop /\ Reaches(r.entry, plan.stop) /\ Reaches(r.stop, r.stop)
    BY ReachesOrder DEF Active, Filled, Row
<1>2. CASE r.tp1
  <2>1. m = r
    BY <1>2 DEF MarkTp1
  <2>. QED BY <1>1, <1>2, <2>1 DEF Marked
<1>3. CASE ~r.tp1
  <2>1. /\ hit \in Row /\ hit.tp1
        /\ hit.st = r.st /\ hit.entry = r.entry /\ hit.why = r.why
        /\ hit.stop = r.stop /\ hit.trail = r.trail /\ hit.mem = r.mem
    BY <1>1 DEF Row
  <2>2. m = IF setting.breakEven THEN ApplyTrailingStop(hit, r.entry) ELSE hit
    BY <1>3, <2>1 DEF MarkTp1
  <2> HIDE DEF m, hit
  <2>3. Stops(hit) /\ EffectiveStop(hit) = EffectiveStop(r)
    BY <1>1, <2>1 DEF Stops, EffectiveStop
  <2>4. CASE setting.breakEven
    <3>1. Moved(hit, r.entry, m)
      BY <1>1, <2>1, <2>2, <2>3, <2>4, ApplyTrailingStopMoves
    <3>2. setting.persist => r.stop = plan.stop
      BY <1>1, <1>3, <2>4 DEF AtEntry
    <3>3. setting.persist => m.stop = r.entry
      BY <1>1, <2>1, <3>1, <3>2 DEF Moved
    <3>4. m.tp1 /\ m.entry = r.entry
      BY <2>1, <3>1 DEF Moved
    <3>5. EffectiveStop(m) \in {EffectiveStop(r), r.entry}
      BY <2>3, <3>1 DEF Moved
    <3>6. Marked(r, m)
      BY <1>3, <2>1, <3>1, <3>3, <3>4, <3>5 DEF Moved, Marked, AtEntry
    <3>. QED BY <3>6 DEF m
  <2>5. CASE ~setting.breakEven
    <3>1. Marked(r, m)
      BY <1>1, <1>3, <2>1, <2>2, <2>3, <2>5 DEF Marked, AtEntry
    <3>. QED BY <3>1 DEF m
  <2>. QED BY <2>4, <2>5
<1>. QED BY <1>2, <1>3

\* What trailing behind the best price makes of an active row.
TrailedTo(r, m) ==
    /\ Active(m)
    /\ m.entry = r.entry /\ m.tp1 = r.tp1
    /\ Reaches(m.stop, r.stop) /\ Reaches(EffectiveStop(m), EffectiveStop(r))
    /\ m.stop = m.entry <=> r.stop = r.entry
    /\ ~r.tp1 => m = r

\* _update_trailing_post_tp1: nearer to the price, and beyond the entry.
LEMMA UpdateTrailingKeeps ==
    ASSUME given \in Cases, NEW r, Active(r), NEW best \in Nat \ {0}
    PROVE  TrailedTo(r, UpdateTrailing(r, best))
<1> DEFINE risk == IF r.entry > r.stop THEN r.entry - r.stop ELSE r.stop - r.entry
           room == (3 * risk) \div 2
           level == IF plan.direction = "long" THEN best - room ELSE best + room
           m == UpdateTrailing(r, best)
<1>1. /\ r \in Row /\ Stops(r) /\ AtEntry(r) /\ Filled(r) /\ r.st = "active"
      /\ r.entry \in Nat \ {0} /\ r.stop \in Nat \ {0}
    BY DEF Active, Filled, Row
<1>2. EffectiveStop(r) \in Nat \ {0} /\ Reaches(EffectiveStop(r), r.stop)
    BY <1>1, EffectiveStopOf
<1>3. /\ risk \in Nat /\ (risk > 0 => r.stop # r.entry)
      /\ room \in Nat /\ level \in Int
  <2>1. risk \in Nat /\ (risk > 0 => r.stop # r.entry)
    BY <1>1
  <2> HIDE DEF risk
  <2>2. room \in Nat
    BY <2>1
  <2> HIDE DEF room
  <2>. QED BY <2>1, <2>2
<1> DEFINE trails == /\ r.tp1 /\ risk > 0
                     /\ level # r.entry /\ Reaches(level, r.entry)
                     /\ level # EffectiveStop(r) /\ Reaches(level, EffectiveStop(r))
<1>4. m = IF trails THEN ApplyTrailingStop(r, level) ELSE r
    BY DEF UpdateTrailing
<1>5. CASE ~trails
  <2>1. m = r
    BY <1>4, <1>5
  <2> HIDE DEF m
  <2>2. Reaches(r.stop, r.stop) /\ Reaches(EffectiveStop(r), EffectiveStop(r))
    BY <1>1, <1>2, ReachesOrder
  <2>3. TrailedTo(r, m)
    BY <2>1, <2>2 DEF TrailedTo
  <2>. QED BY <2>3 DEF m
<1>6. CASE trails
  <2>1. level \in Nat \ {0}
    <3>1. plan.direction # "long" => level = best + room
      OBVIOUS
    <3>2. plan.direction = "long" => level >= r.entry
      BY <1>6 DEF Reaches
    <3> HIDE DEF level, room
    <3>. QED BY <1>1, <1>3, <3>1, <3>2
  <2>2. r.tp1 /\ r.stop # r.entry /\ level # r.entry /\ Reaches(level, EffectiveStop(r))
    BY <1>3, <1>6
  <2>3. m = ApplyTrailingStop(r, level)
    BY <1>4, <1>6
  <2> HIDE DEF m, level
  <2>4. Moved(r, level, m)
    BY <1>1, <2>1, <2>3, ApplyTrailingStopMoves
  <2>5. ~(setting.persist /\ setting.breakEven)
    BY <1>1, <2>2 DEF AtEntry
  <2>6. Reaches(level, r.stop)
    BY <1>1, <1>2, <2>1, <2>2, ReachesOrder
  <2>7. EffectiveStop(m) = level
    BY <2>2, <2>4 DEF Moved
  <2>8. m.stop \in {level, r.stop} /\ m.entry = r.entry
    BY <2>4, <2>6, PlanFacts DEF Moved
  <2>9. Active(m)
    BY <1>1, <2>4, <2>5 DEF Active, Filled, AtEntry, Moved
  <2>10. TrailedTo(r, m)
    BY <2>2, <2>4, <2>7, <2>8, <2>9 DEF TrailedTo, Moved
  <2>. QED BY <2>10 DEF m
<1>. QED BY <1>5, <1>6

-----------------------------------------------------------------------------
(* Closing a row.                                                          *)

\* What closing row r for the reason given to _close_signal writes.
Ended(r, reason, m) ==
    /\ m \in Row /\ m.st = "closed"
    /\ m.entry = r.entry /\ m.stop = r.stop /\ EffectiveStop(m) = EffectiveStop(r)
    /\ m.why = IF reason = "breakeven_stop" /\ r.tp1 THEN "tp1_hit" ELSE reason
    /\ m.tp1 <=> r.tp1 \/ m.why = "tp1_hit"

LEMMA CloseEnds ==
    ASSUME NEW r \in Row, NEW reason \in Reasons
    PROVE  Ended(r, reason, Close(r, reason))
<1> DEFINE why == IF reason = "breakeven_stop" /\ r.tp1 THEN "tp1_hit" ELSE reason
           m == [r EXCEPT !.st = "closed", !.why = why, !.tp1 = @ \/ why = "tp1_hit"]
<1>1. Close(r, reason) = m
    BY DEF Close
<1>2. why \in Reasons
    BY DEF Reasons
<1> HIDE DEF why
<1>3. /\ m \in Row /\ m.st = "closed" /\ m.why = why
      /\ m.entry = r.entry /\ m.stop = r.stop /\ m.trail = r.trail /\ m.mem = r.mem
      /\ m.tp1 = (r.tp1 \/ why = "tp1_hit")
    BY <1>2 DEF Row
<1> HIDE DEF m
<1>4. EffectiveStop(m) = EffectiveStop(r)
    BY <1>3 DEF EffectiveStop
<1>5. m.why = IF reason = "breakeven_stop" /\ r.tp1 THEN "tp1_hit" ELSE reason
    BY <1>3 DEF why
<1>. QED BY <1>1, <1>3, <1>4, <1>5 DEF Ended

\* What the prices F since the fill and S since the last move of the stop must show
\* of a row: the evidence ExitJustified asks for, and that of TP1 while it is open.
Justified(m, F, S) ==
    LET Target(level) == \E p \in F : Reaches(p, level)
        Stopped == \E p \in S : Breaches(p, EffectiveStop(m))
    IN  /\ m.why = "tp2_hit" => Target(plan.tp2)
        /\ m.why = "stop_loss" => Stopped
        /\ m.why = "tp1_hit" => Target(plan.tp1) /\ (plan.single \/ Stopped)
        /\ m.st = "active" /\ m.tp1 => Target(plan.tp1)

\* The reason a stop is booked under.
LEMMA StopReasonIs ==
    ASSUME NEW r, Active(r)
    PROVE  LET m == Close(r, StopCloseReason(r)) IN
           /\ Closed(m) /\ EffectiveStop(m) = EffectiveStop(r)
           /\ m.why = IF r.tp1 /\ r.stop = r.entry THEN "tp1_hit" ELSE "stop_loss"
<1> DEFINE m == Close(r, StopCloseReason(r))
<1>1. StopCloseReason(r) \in Reasons /\ r \in Row
    BY DEF StopCloseReason, Reasons, Active
<1>2. Ended(r, StopCloseReason(r), m)
    BY <1>1, CloseEnds
<1> HIDE DEF m
<1>3. m.why = IF r.tp1 /\ r.stop = r.entry THEN "tp1_hit" ELSE "stop_loss"
    BY <1>2 DEF Ended, StopCloseReason
<1>4. NoLoss(m)
    BY <1>2, <1>3 DEF Ended, NoLoss, Active, AtEntry
<1>5. Closed(m) /\ EffectiveStop(m) = EffectiveStop(r)
    BY <1>2, <1>4 DEF Ended, Closed
<1>. QED BY <1>3, <1>5 DEF m

LEMMA StopIsJustified ==
    ASSUME NEW r, Active(r), NEW F, NEW S, Justified(r, F, S),
           NEW p \in S, Breaches(p, EffectiveStop(r))
    PROVE  Justified(Close(r, StopCloseReason(r)), F, S)
<1> DEFINE m == Close(r, StopCloseReason(r))
<1>1. /\ m.st = "closed" /\ EffectiveStop(m) = EffectiveStop(r)
      /\ m.why = IF r.tp1 /\ r.stop = r.entry THEN "tp1_hit" ELSE "stop_loss"
    BY StopReasonIs DEF Closed
<1> HIDE DEF m
<1>2. r.tp1 => \E q \in F : Reaches(q, plan.tp1)
    BY DEF Justified, Active
<1>3. Justified(m, F, S)
    BY <1>1, <1>2 DEF Justified
<1>. QED BY <1>3 DEF m

\* A row closed at a target, with or without TP1 marked on the way.
LEMMA TargetCloses ==
    ASSUME NEW r \in Row, NEW reason \in {"tp1_hit", "tp2_hit"}, NEW F, NEW S, NEW p \in F,
           reason = "tp1_hit" => plan.single /\ Reaches(p, plan.tp1),
           reason = "tp2_hit" => Reaches(p, plan.tp2)
    PROVE  Closed(Close(r, reason)) /\ Justified(Close(r, reason), F, S)
<1> DEFINE m == Close(r, reason)
<1>1. Ended(r, reason, m)
    BY CloseEnds DEF Reasons
<1> HIDE DEF m
<1>2. Closed(m) /\ Justified(m, F, S)
    BY <1>1 DEF Ended, Closed, NoLoss, Justified
<1>. QED BY <1>2 DEF m

\* Every other reason needs no price.
LEMMA OtherReasonsClose ==
    ASSUME NEW r \in Row, NEW F, NEW S,
           NEW reason \in {"expired", "unactivated_close", "ambiguous_exit", "emergency_exit"}
    PROVE  /\ Closed(Close(r, reason)) /\ Justified(Close(r, reason), F, S)
           /\ Close(r, reason).why = reason
<1> DEFINE m == Close(r, reason)
<1>1. Ended(r, reason, m)
    BY CloseEnds DEF Reasons
<1> HIDE DEF m
<1>2. Closed(m) /\ Justified(m, F, S) /\ m.why = reason
    BY <1>1 DEF Ended, Closed, NoLoss, Justified
<1>. QED BY <1>2 DEF m

-----------------------------------------------------------------------------
(* One trade.                                                              *)

\* A review that has shown the prices best and worst to an active row r leaves it
\* closed with the evidence it needs, or open because neither reached a level.
Reviewed(r, m, best, worst) ==
    /\ Active(m) \/ Closed(m)
    /\ Active(m) => /\ ~Breaches(worst, EffectiveStop(r)) /\ ~Reaches(best, plan.tp2)
                    /\ Reaches(m.stop, r.stop)

LEMMA PriceTickReviews ==
    ASSUME given \in Cases, NEW r, Active(r), NEW p \in Nat \ {0},
           NEW F, NEW S, p \in F, p \in S, Justified(r, F, S)
    PROVE  Reviewed(r, PriceTick(r, p), p, p) /\ Justified(PriceTick(r, p), F, S)
<1> DEFINE m == PriceTick(r, p)
<1>1. r \in Row /\ r.st = "active" /\ r.why = "open" /\ r.stop \in Nat \ {0}
    BY DEF Active, Filled, Row
<1>2. Marked(r, MarkTp1(r))
    BY MarkTp1Keeps
<1>3. \A x : Closed(x) => ~Active(x)
    BY DEF Closed, Active
<1>4. CASE Breaches(p, EffectiveStop(r))
  <2>1. m = Close(r, StopCloseReason(r))
    BY <1>4 DEF PriceTick
  <2>2. Closed(m) /\ Justified(m, F, S)
    BY <1>4, <2>1, StopReasonIs, StopIsJustified
  <2>. QED BY <1>3, <2>2 DEF Reviewed
<1>5. CASE ~Breaches(p, EffectiveStop(r)) /\ plan.single /\ Reaches(p, plan.tp1)
  <2>1. m = Close(r, "tp1_hit")
    BY <1>5 DEF PriceTick
  <2>2. Closed(m) /\ Justified(m, F, S)
    BY <1>1, <1>5, <2>1, TargetCloses
  <2>. QED BY <1>3, <2>2 DEF Reviewed
<1>6. CASE /\ ~Breaches(p, EffectiveStop(r)) /\ ~(plan.single /\ Reaches(p, plan.tp1))
           /\ Reaches(p, plan.tp2)
  <2>1. m = Close(MarkTp1(r), "tp2_hit") /\ MarkTp1(r) \in Row
    BY <1>2, <1>6 DEF PriceTick, Marked
  <2>2. Closed(m) /\ Justified(m, F, S)
    BY <1>6, <2>1, TargetCloses
  <2>. QED BY <1>3, <2>2 DEF Reviewed
<1>7. CASE /\ ~Breaches(p, EffectiveStop(r)) /\ ~Reaches(p, plan.tp2)
           /\ Reaches(p, plan.tp1) /\ ~plan.single
  <2>1. m = MarkTp1(r)
    BY <1>7 DEF PriceTick
  <2> HIDE DEF m
  <2>2. Active(m) /\ Reaches(m.stop, r.stop) /\ m.why = "open"
    BY <1>1, <1>2, <1>7, <2>1 DEF Marked, Active, Filled
  <2>3. Justified(m, F, S)
    BY <1>7, <2>2 DEF Justified
  <2>4. Reviewed(r, m, p, p)
    BY <1>7, <2>2 DEF Reviewed
  <2>. QED BY <2>3, <2>4 DEF m
<1>8. CASE /\ ~Breaches(p, EffectiveStop(r)) /\ ~Reaches(p, plan.tp2)
           /\ ~Reaches(p, plan.tp1)
  <2>1. m = r /\ Reaches(r.stop, r.stop)
    BY <1>1, <1>8, ReachesOrder DEF PriceTick
  <2>. QED BY <1>8, <2>1 DEF Reviewed
<1>9. plan.single \in BOOLEAN
    BY PlanFacts
<1>. QED BY <1>4, <1>5, <1>6, <1>7, <1>8, <1>9

-----------------------------------------------------------------------------
(* Filling a row, and one trade or candle on any open row.                 *)

\* A row that no level has touched needs no evidence.
LEMMA UntouchedIsJustified ==
    ASSUME NEW m, NEW F, NEW S, ~m.tp1 \/ m.st = "closed",
           m.why \in {"open", "expired", "unactivated_close", "ambiguous_exit"}
    PROVE  Justified(m, F, S)
    BY DEF Justified

\* A fill leaves the levels of the plan.
Opened(r, n) ==
    Active(n) /\ n.stop = r.stop /\ EffectiveStop(n) = EffectiveStop(r) /\ ~n.tp1

LEMMA ActivateOpens ==
    ASSUME given \in Cases, NEW r, Pending(r), NEW p \in Nat \ {0},
           Reaches(p, plan.stop), p # plan.stop
    PROVE  Opened(r, Activate(r, p))
<1> DEFINE n == [r EXCEPT !.st = "active", !.entry = p]
<1>1. Activate(r, p) = n
    BY DEF Activate
<1>2. /\ n \in Row /\ n.st = "active" /\ n.entry = p /\ n.stop = r.stop /\ n.trail = r.trail
      /\ n.mem = r.mem /\ n.tp1 = r.tp1 /\ n.why = r.why
    BY DEF Row, Pending
<1> HIDE DEF n
<1>3. EffectiveStop(n) = EffectiveStop(r)
    BY <1>2 DEF EffectiveStop
<1>4. Active(n)
    BY <1>2 DEF Active, Filled, Stops, AtEntry, Pending, Untouched
<1>. QED BY <1>1, <1>2, <1>3, <1>4 DEF Opened, Pending, Untouched

\* What may become of a pending row.
Answer(r, n) ==
    \/ n = r
    \/ Closed(n) /\ n.why \in {"expired", "unactivated_close"}
    \/ Opened(r, n)

LEMMA AdmitAnswers ==
    ASSUME given \in Cases, NEW r, Pending(r), NEW at \in Nat \ {0}, NEW price \in Nat \ {0},
           price = at \/ InZone(price), NEW g
    PROVE  Answer(r, Admit(r, at, price, g))
<1>1. r \in Row /\ plan.stop \in Nat \ {0}
    BY PlanFacts DEF Pending
<1>2. CASE Breaches(at, plan.stop) \/ g = "close"
    BY <1>1, <1>2, OtherReasonsClose DEF Admit, Answer
<1>3. CASE ~Breaches(at, plan.stop) /\ g = "ok" /\ g # "close"
  <2>1. Admit(r, at, price, g) = Activate(r, price)
    BY <1>3 DEF Admit
  <2>2. Reaches(at, plan.stop) /\ at # plan.stop
    BY <1>1, <1>3, ReachesOrder
  <2>3. Reaches(price, plan.stop) /\ price # plan.stop
    BY <2>2, ZoneBeyondStop
  <2>. QED BY <2>1, <2>3, ActivateOpens DEF Answer
<1>4. CASE ~Breaches(at, plan.stop) /\ g # "ok" /\ g # "close"
    BY <1>4 DEF Admit, Answer
<1>. QED BY <1>2, <1>3, <1>4

LEMMA TradePendingAnswers ==
    ASSUME given \in Cases, NEW r, Pending(r), NEW trade \in [p : Prices, late : BOOLEAN], NEW g
    PROVE  Answer(r, TradePending(r, trade, g))
<1>1. r \in Row /\ trade.p \in Nat \ {0}
    BY ConstantsAssumption DEF Pending
<1>2. Answer(r, Close(r, "expired"))
    BY <1>1, OtherReasonsClose DEF Answer
<1>3. Answer(r, Admit(r, trade.p, trade.p, g))
    BY <1>1, AdmitAnswers
<1>. QED BY <1>2, <1>3 DEF TradePending, Answer

LEMMA CandlePendingAnswers ==
    ASSUME given \in Cases, NEW r, Pending(r), NEW b \in ClosedBar, NEW g
    PROVE  Answer(r, CandlePending(r, b, g))
<1> DEFINE price == IF ~plan.market /\ InZone(b.c) THEN b.c ELSE EntryMid
<1>1. r \in Row /\ b.c \in Nat \ {0}
    BY ConstantsAssumption DEF Pending, ClosedBar
<1>2. price \in Nat \ {0} /\ InZone(price)
    BY <1>1, MidInZone
<1>3. Answer(r, Close(r, "expired")) /\ Answer(r, r)
    BY <1>1, OtherReasonsClose DEF Answer
<1> HIDE DEF price
<1>4. Answer(r, Admit(r, b.c, price, g))
    BY <1>1, <1>2, AdmitAnswers
<1>5. CandlePending(r, b, g) \in {r, Close(r, "expired"), Admit(r, b.c, price, g)}
    BY DEF CandlePending, price
<1>. QED BY <1>3, <1>4, <1>5

\* A review of the prices best and worst turns the open row r into n.
Applied(r, n, best, worst) ==
    /\ Sound(n)
    /\ Pending(n) => n = r
    /\ Active(n) => /\ ~Breaches(worst, EffectiveStop(r)) /\ ~Reaches(best, plan.tp2)
                    /\ Reaches(n.stop, r.stop)

\* A row is in one of three states.
LEMMA OneState ==
    \A r : /\ Pending(r) => ~Active(r) /\ ~Closed(r) /\ r.st = "pending" /\ r \in Row
           /\ Active(r) => ~Closed(r) /\ r.st = "active" /\ r \in Row
           /\ Closed(r) => r.st = "closed" /\ r \in Row
    BY DEF Pending, Active, Closed

LEMMA PendingIsJustified ==
    ASSUME NEW r, Pending(r), NEW F, NEW S
    PROVE  Justified(r, F, S)
    BY DEF Pending, Untouched, Justified

\* What a fill or a refusal means for the evidence.
LEMMA AnswerIsJustified ==
    ASSUME NEW r, Pending(r), NEW n, Answer(r, n), NEW F, NEW S
    PROVE  Justified(n, F, S)
<1>1. CASE n = r
    BY <1>1, PendingIsJustified
<1>2. CASE Closed(n) /\ n.why \in {"expired", "unactivated_close"}
    BY <1>2, UntouchedIsJustified DEF Closed
<1>3. CASE Opened(r, n)
    BY <1>3, UntouchedIsJustified DEF Opened, Active, Filled
<1>. QED BY <1>1, <1>2, <1>3 DEF Answer

LEMMA ApplyTradeReviews ==
    ASSUME given \in Cases, NEW r, Pending(r) \/ Active(r),
           NEW trade \in [p : Prices, late : BOOLEAN], NEW g, NEW p \in Nat \ {0},
           NEW F, NEW S, p \in F, p \in S, Justified(r, F, S)
    PROVE  /\ Applied(r, ApplyTrade(r, trade, g, p), p, p)
           /\ Justified(ApplyTrade(r, trade, g, p), F, S)
<1> DEFINE n == ApplyTrade(r, trade, g, p)
           q == TradePending(r, trade, g)
<1>1. CASE Active(r)
  <2>1. n = PriceTick(r, p)
    BY <1>1, OneState DEF ApplyTrade
  <2>2. Reviewed(r, n, p, p) /\ Justified(n, F, S)
    BY <1>1, <2>1, PriceTickReviews
  <2>. QED BY <2>2, OneState DEF Reviewed, Applied, Sound
<1>2. CASE Pending(r)
  <2>1. Answer(r, q) /\ Justified(q, F, S)
    BY <1>2, TradePendingAnswers, AnswerIsJustified
  <2>2. n = IF q.st = "active" THEN PriceTick(q, p) ELSE q
    BY <1>2, OneState DEF ApplyTrade
  <2> HIDE DEF n, q
  <2>3. CASE Opened(r, q)
    <3>1. Active(q) /\ n = PriceTick(q, p)
      BY <2>2, <2>3, OneState DEF Opened
    <3>2. Reviewed(q, n, p, p) /\ Justified(n, F, S)
      BY <2>1, <3>1, PriceTickReviews
    <3>3. Applied(r, n, p, p)
      BY <2>3, <3>2, OneState DEF Reviewed, Applied, Sound, Opened
    <3>. QED BY <3>2, <3>3 DEF n
  <2>4. CASE q = r \/ Closed(q)
    <3>1. n = q
      BY <1>2, <2>2, <2>4, OneState
    <3>2. Applied(r, n, p, p)
      BY <1>2, <2>4, <3>1, OneState DEF Applied, Sound
    <3>. QED BY <2>1, <3>1, <3>2 DEF n
  <2>. QED BY <2>1, <2>3, <2>4 DEF Answer
<1>. QED BY <1>1, <1>2

\* Trailing needs no evidence of its own.
LEMMA TrailedIsJustified ==
    ASSUME NEW r, Active(r), NEW m, TrailedTo(r, m), NEW F, NEW S, Justified(r, F, S)
    PROVE  Justified(m, F, S)
    BY DEF Justified, TrailedTo, Active, Filled

\* The extremes of a candle are prices.
LEMMA ExtremesAre ==
    ASSUME NEW b \in ClosedBar
    PROVE  /\ Favourable(b) \in Nat \ {0} /\ Adverse(b) \in Nat \ {0}
           /\ {Favourable(b), Adverse(b)} = {b.h, b.l}
    BY ConstantsAssumption DEF Favourable, Adverse, ClosedBar

LEMMA ApplyCandleReviews ==
    ASSUME given \in Cases, NEW r, Pending(r) \/ Active(r), NEW b \in ClosedBar, NEW g,
           NEW F, NEW S, {b.h, b.l} \subseteq F, {b.h, b.l} \subseteq S, Justified(r, F, S)
    PROVE  /\ Applied(r, ApplyCandle(r, b, g), Favourable(b), Adverse(b))
           /\ Justified(ApplyCandle(r, b, g), F, S)
<1> DEFINE best == Favourable(b)
           worst == Adverse(b)
           stopTouched == Breaches(worst, EffectiveStop(r))
           tp1Touched == Reaches(best, plan.tp1)
           tp2Touched == Reaches(best, plan.tp2)
           filled == IF r.st = "pending" THEN CandlePending(r, b, g) ELSE r
           open == UpdateTrailing(filled, best)
           n == ApplyCandle(r, b, g)
<1>1. n = IF filled.st # "active" THEN filled
          ELSE IF stopTouched /\ (tp2Touched \/ (tp1Touched /\ ~open.tp1))
            THEN Close(open, "ambiguous_exit")
          ELSE IF plan.single /\ tp1Touched THEN Close(open, "tp1_hit")
          ELSE IF tp2Touched THEN Close(MarkTp1(open), "tp2_hit")
          ELSE IF stopTouched THEN Close(open, StopCloseReason(open))
          ELSE IF tp1Touched THEN MarkTp1(open)
          ELSE open
    BY DEF ApplyCandle
<1>2. best \in Nat \ {0} /\ worst \in Nat \ {0} /\ best \in F /\ worst \in S
    BY ExtremesAre
<1>3. /\ Pending(r) => Answer(r, filled)
      /\ Active(r) => filled = r
      /\ Justified(filled, F, S)
    BY CandlePendingAnswers, AnswerIsJustified, OneState
<1>4. plan.single \in BOOLEAN /\ r \in Row
    BY PlanFacts, OneState
<1> HIDE DEF best, worst, filled, n
<1>5. CASE ~Active(filled)
  <2>1. Pending(r) /\ (filled = r \/ Closed(filled))
    BY <1>3, <1>5, OneState DEF Answer, Opened
  <2>2. n = filled
    BY <1>1, <2>1, OneState
  <2>3. Applied(r, n, best, worst)
    BY <2>1, <2>2, OneState DEF Applied, Sound
  <2>. QED BY <1>3, <2>2, <2>3 DEF n, best, worst
<1>6. CASE Active(filled)
  <2>1. filled.stop = r.stop /\ EffectiveStop(filled) = EffectiveStop(r)
    BY <1>3, <1>6, OneState DEF Answer, Opened
  <2>2. TrailedTo(filled, open) /\ Justified(open, F, S)
    BY <1>2, <1>3, <1>6, UpdateTrailingKeeps, TrailedIsJustified
  <2> HIDE DEF open
  <2>3. Active(open) /\ open \in Row /\ Marked(open, MarkTp1(open)) /\ MarkTp1(open) \in Row
    BY <2>2, MarkTp1Keeps DEF TrailedTo, Active, Marked
  <2>4. /\ EffectiveStop(filled) \in Nat /\ EffectiveStop(open) \in Nat
        /\ open.stop \in Nat /\ filled.stop \in Nat /\ MarkTp1(open).stop \in Nat
    BY <1>6, <2>3, EffectiveStopOf DEF Active, Row
  <2>5. stopTouched => Breaches(worst, EffectiveStop(open))
    BY <1>2, <2>1, <2>2, <2>4, ReachesOrder DEF TrailedTo
  <2>6. filled.st = "active"
    BY <1>6, OneState
  <2>7. ASSUME Closed(n), Justified(n, F, S)
        PROVE  Applied(r, n, best, worst) /\ Justified(n, F, S)
    BY <2>7, OneState DEF Applied, Sound
  <2>8. CASE stopTouched /\ (tp2Touched \/ (tp1Touched /\ ~open.tp1))
    <3>1. n = Close(open, "ambiguous_exit")
      BY <1>1, <2>6, <2>8
    <3>. QED BY <2>3, <2>7, <3>1, OtherReasonsClose DEF n, best, worst
  <2>9. CASE /\ ~(stopTouched /\ (tp2Touched \/ (tp1Touched /\ ~open.tp1)))
             /\ plan.single /\ tp1Touched
    <3>1. n = Close(open, "tp1_hit")
      BY <1>1, <2>6, <2>9
    <3>2. Closed(n) /\ Justified(n, F, S)
      BY <1>2, <2>3, <2>9, <3>1, TargetCloses
    <3>. QED BY <2>7, <3>2 DEF n, best, worst
  <2>10. CASE /\ ~stopTouched /\ tp2Touched /\ ~(plan.single /\ tp1Touched)
    <3>1. n = Close(MarkTp1(open), "tp2_hit")
      BY <1>1, <2>6, <2>10
    <3>2. Closed(n) /\ Justified(n, F, S)
      BY <1>2, <2>3, <2>10, <3>1, TargetCloses
    <3>. QED BY <2>7, <3>2 DEF n, best, worst
  <2>11. CASE /\ stopTouched /\ ~tp2Touched /\ ~(plan.single /\ tp1Touched)
              /\ ~(tp1Touched /\ ~open.tp1)
    <3>1. n = Close(open, StopCloseReason(open))
      BY <1>1, <2>6, <2>11
    <3>2. Closed(n) /\ Justified(n, F, S)
      BY <1>2, <2>2, <2>3, <2>5, <2>11, <3>1, StopReasonIs, StopIsJustified
    <3>. QED BY <2>7, <3>2 DEF n, best, worst
  <2>12. CASE ~stopTouched /\ ~tp2Touched /\ tp1Touched /\ ~plan.single
    <3>1. n = MarkTp1(open)
      BY <1>1, <2>6, <2>12
    <3>2. Active(n) /\ n.why = "open"
      BY <2>3, <2>12, <3>1 DEF Marked, Active, Filled
    <3>3. Justified(n, F, S)
      BY <1>2, <2>12, <3>2 DEF Justified
    <3>4. Reaches(n.stop, r.stop)
      BY <2>1, <2>2, <2>3, <2>4, <3>1, ReachesOrder DEF TrailedTo, Marked
    <3>5. Applied(r, n, best, worst)
      BY <2>12, <3>2, <3>4, OneState DEF Applied, Sound
    <3>. QED BY <3>3, <3>5 DEF n, best, worst
  <2>13. CASE ~stopTouched /\ ~tp2Touched /\ ~tp1Touched
    <3>1. n = open
      BY <1>1, <2>6, <2>13
    <3>2. Reaches(n.stop, r.stop)
      BY <2>1, <2>2, <3>1 DEF TrailedTo
    <3>3. Applied(r, n, best, worst)
      BY <2>3, <2>13, <3>1, <3>2, OneState DEF Applied, Sound
    <3>. QED BY <2>2, <3>1, <3>3 DEF n, best, worst
  <2>14. tp2Touched => tp1Touched
    BY <1>2, Tp2ReachesTp1
  <2>. QED BY <1>4, <2>8, <2>9, <2>10, <2>11, <2>12, <2>13
<1>. QED BY <1>5, <1>6

-----------------------------------------------------------------------------
(* The trades after last_checked_at.                                       *)

Trade == [p : Prices, late : BOOLEAN]

LEMMA PricesOfAppend ==
    ASSUME NEW s \in Seq(Trade), NEW x \in Trade
    PROVE  /\ Append(s, x) \in Seq(Trade) /\ Len(Append(s, x)) = Len(s) + 1
           /\ PricesOf(Append(s, x)) = PricesOf(s) \cup {x.p}
<1> DEFINE t == Append(s, x)
<1>1. /\ t \in Seq(Trade) /\ Len(t) = Len(s) + 1 /\ Len(s) \in Nat
      /\ DOMAIN s = 1 .. Len(s) /\ DOMAIN t = 1 .. (Len(s) + 1)
      /\ \A i \in 1 .. Len(s) : t[i] = s[i]
      /\ t[Len(s) + 1] = x
    BY AppendProperties, LenProperties
<1> HIDE DEF t
<1>2. 1 .. (Len(s) + 1) = (1 .. Len(s)) \cup {Len(s) + 1}
    BY <1>1
<1>3. PricesOf(t) = PricesOf(s) \cup {x.p}
    BY <1>1, <1>2 DEF PricesOf
<1>. QED BY <1>1, <1>3 DEF t

\* The trades that are left once the first k are reviewed.
LEMMA RestIs ==
    ASSUME NEW s \in Seq(Trade), NEW k \in 0 .. Len(s)
    PROVE  /\ SubSeq(s, k + 1, Len(s)) \in Seq(Trade)
           /\ PricesOf(SubSeq(s, k + 1, Len(s))) = {s[i].p : i \in (k + 1) .. Len(s)}
           /\ PricesOf(SubSeq(s, k + 1, Len(s))) \subseteq Prices
<1> DEFINE t == SubSeq(s, k + 1, Len(s))
<1>1. /\ Len(s) \in Nat /\ k \in Nat /\ k <= Len(s) /\ DOMAIN s = 1 .. Len(s)
      /\ \A i \in 1 .. Len(s) : s[i] \in Trade
    BY LenProperties
<1>2. k + 1 \in 1 .. Len(s) + 1 /\ Len(s) \in (k + 1) - 1 .. Len(s)
    BY <1>1
<1>3. /\ t \in Seq(Trade) /\ DOMAIN t = 1 .. (Len(s) - k)
      /\ \A i \in 1 .. (Len(s) - k) : t[i] = s[k + i]
    BY <1>1, <1>2, SMTT(30) DEF Trade
<1> HIDE DEF t
<1>4. ASSUME NEW j \in (k + 1) .. Len(s) PROVE \E i \in 1 .. (Len(s) - k) : t[i] = s[j]
  <2>1. j - k \in 1 .. (Len(s) - k) /\ k + (j - k) = j
    BY <1>1
  <2>. QED BY <1>3, <2>1
<1>5. ASSUME NEW i \in 1 .. (Len(s) - k) PROVE \E j \in (k + 1) .. Len(s) : t[i] = s[j]
  <2>1. k + i \in (k + 1) .. Len(s)
    BY <1>1
  <2>. QED BY <1>3, <2>1
<1>6. PricesOf(t) = {s[i].p : i \in (k + 1) .. Len(s)}
  <2>1. ASSUME NEW v \in PricesOf(t) PROVE v \in {s[i].p : i \in (k + 1) .. Len(s)}
    <3>1. PICK i \in 1 .. (Len(s) - k) : v = t[i].p
      BY <1>3 DEF PricesOf
    <3>2. PICK j \in (k + 1) .. Len(s) : t[i] = s[j]
      BY <1>5
    <3>. QED BY <3>1, <3>2
  <2>2. ASSUME NEW j \in (k + 1) .. Len(s) PROVE s[j].p \in PricesOf(t)
    <3>1. PICK i \in 1 .. (Len(s) - k) : t[i] = s[j]
      BY <1>4
    <3>. QED BY <1>3, <3>1 DEF PricesOf
  <2>. QED BY <2>1, <2>2
<1>7. \A i \in (k + 1) .. Len(s) : s[i].p \in Prices
    BY <1>1 DEF Trade
<1>. QED BY <1>3, <1>6, <1>7 DEF t

LEMMA RestOfAppend ==
    ASSUME NEW s \in Seq(Trade), NEW x \in Trade, NEW k \in 0 .. Len(s)
    PROVE  PricesOf(SubSeq(Append(s, x), k + 1, Len(Append(s, x))))
             = PricesOf(SubSeq(s, k + 1, Len(s))) \cup {x.p}
<1> DEFINE t == Append(s, x)
<1>1. /\ t \in Seq(Trade) /\ Len(t) = Len(s) + 1 /\ Len(s) \in Nat
      /\ \A i \in 1 .. Len(s) : t[i] = s[i]
      /\ t[Len(s) + 1] = x
    BY AppendProperties, LenProperties
<1> HIDE DEF t
<1>2. k \in 0 .. Len(t) /\ (k + 1) .. (Len(s) + 1) = ((k + 1) .. Len(s)) \cup {Len(s) + 1}
    BY <1>1
<1>3. PricesOf(SubSeq(t, k + 1, Len(t))) = {t[i].p : i \in (k + 1) .. Len(t)}
    BY <1>1, <1>2, RestIs
<1>4. PricesOf(SubSeq(s, k + 1, Len(s))) = {s[i].p : i \in (k + 1) .. Len(s)}
    BY RestIs
<1>5. \A i \in (k + 1) .. Len(s) : t[i] = s[i]
    BY <1>1
<1>6. {t[i].p : i \in (k + 1) .. (Len(s) + 1)} = {s[i].p : i \in (k + 1) .. Len(s)} \cup {x.p}
    BY <1>1, <1>2, <1>5
<1>. QED BY <1>1, <1>3, <1>4, <1>6 DEF t

\* Nothing lies after the last trade.
LEMMA NoRest ==
    ASSUME NEW s \in Seq(Trade)
    PROVE  PricesOf(SubSeq(s, Len(s) + 1, Len(s))) = {}
<1>1. Len(s) \in 0 .. Len(s) /\ (Len(s) + 1) .. Len(s) = {}
    BY LenProperties
<1>2. PricesOf(SubSeq(s, Len(s) + 1, Len(s))) = {s[i].p : i \in (Len(s) + 1) .. Len(s)}
    BY <1>1, RestIs
<1>. QED BY <1>1, <1>2

LEMMA PricesOfTail ==
    ASSUME NEW s \in Seq(Trade), s # <<>>
    PROVE  /\ Head(s) \in Trade /\ Tail(s) \in Seq(Trade) /\ Len(Tail(s)) = Len(s) - 1
           /\ Len(s) \in Nat \ {0}
           /\ PricesOf(s) = {Head(s).p} \cup PricesOf(Tail(s))
<1> DEFINE t == Tail(s)
<1>1. /\ Head(s) \in Trade /\ t \in Seq(Trade) /\ Len(t) = Len(s) - 1 /\ Len(s) \in Nat \ {0}
      /\ Head(s) = s[1] /\ DOMAIN s = 1 .. Len(s) /\ DOMAIN t = 1 .. (Len(s) - 1)
      /\ \A i \in 1 .. (Len(s) - 1) : t[i] = s[i + 1]
    BY HeadTailProperties, EmptySeq, LenProperties
<1> HIDE DEF t
<1>2. ASSUME NEW j \in 1 .. Len(s) PROVE j = 1 \/ \E i \in 1 .. (Len(s) - 1) : t[i] = s[j]
  <2>1. j # 1 => j - 1 \in 1 .. (Len(s) - 1) /\ (j - 1) + 1 = j
    BY <1>1
  <2>. QED BY <1>1, <2>1
<1>3. ASSUME NEW i \in 1 .. (Len(s) - 1) PROVE i + 1 \in 1 .. Len(s) /\ t[i] = s[i + 1]
    BY <1>1
<1>4. 1 \in 1 .. Len(s)
    BY <1>1
<1>5. PricesOf(s) = {s[1].p} \cup PricesOf(t)
  <2>1. ASSUME NEW v \in PricesOf(s) PROVE v \in {s[1].p} \cup PricesOf(t)
    <3>1. PICK j \in 1 .. Len(s) : v = s[j].p
      BY <1>1 DEF PricesOf
    <3>. QED BY <1>1, <1>2, <3>1 DEF PricesOf
  <2>2. ASSUME NEW i \in 1 .. (Len(s) - 1) PROVE t[i].p \in PricesOf(s)
    BY <1>3 DEF PricesOf
  <2>3. s[1].p \in PricesOf(s)
    BY <1>1, <1>4 DEF PricesOf
  <2>4. ASSUME NEW v \in PricesOf(t) PROVE v \in PricesOf(s)
    <3>1. PICK i \in 1 .. (Len(s) - 1) : v = t[i].p
      BY <1>1 DEF PricesOf
    <3>. QED BY <2>2, <3>1
  <2>. QED BY <2>1, <2>3, <2>4
<1>. QED BY <1>1, <1>5 DEF t

LEMMA PricesOfType ==
    ASSUME NEW s \in Seq(Trade)
    PROVE  PricesOf(s) \subseteq Prices
<1>1. DOMAIN s = 1 .. Len(s) /\ \A i \in 1 .. Len(s) : s[i] \in Trade
    BY LenProperties
<1>. QED BY <1>1 DEF PricesOf, Trade

-----------------------------------------------------------------------------
(* Every step keeps the row sound and the candles in order.                *)

History == [fill : SUBSET (Nat \ {0}), bar : SUBSET (Nat \ {0}), stop : SUBSET (Nat \ {0}),
            wick : SUBSET (Nat \ {0}), confirmed : BOOLEAN]

Ordered(b) == b.l <= b.o /\ b.o <= b.h /\ b.l <= b.c /\ b.c <= b.h
Four(b) == {b.o, b.h, b.l, b.c}

MarketOK ==
    /\ late \in BOOLEAN
    /\ minute \in Bar \cup {NoBar} /\ done \in ClosedBar \cup {NoBar}
    /\ tape \in Seq(Trade) /\ prints \in 0 .. MaxPrints
    /\ minute # NoBar => Ordered(minute)
    /\ done # NoBar => Ordered(done) /\ done.before \in 0 .. Len(tape)

\* The inductive invariant: candles in order, the row sound.
ReviewInv == given \in Cases /\ MarketOK /\ seen \in History /\ Sound(row)

LEMMA PricesArePositive == Prices \subseteq Nat \ {0}
    BY ConstantsAssumption

\* The candle that forms takes in a price.
LEMMA ExtendTakesIn ==
    ASSUME NEW b \in Bar \cup {NoBar}, b # NoBar => Ordered(b), NEW p \in Prices
    PROVE  LET e == Extend(b, p) IN
           /\ e \in Bar /\ e # NoBar /\ Ordered(e)
           /\ e.l <= p /\ p <= e.h
           /\ b # NoBar => e.l <= b.l /\ b.h <= e.h /\ Four(e) \subseteq Four(b) \cup {p}
           /\ b = NoBar => Four(e) = {p}
<1> DEFINE e == Extend(b, p)
<1>1. p \in Nat \ {0}
    BY PricesArePositive
<1>2. ASSUME NEW x \in Bar PROVE x # NoBar
    BY <1>2, PricesArePositive DEF Bar, NoBar
<1>3. CASE b = NoBar
  <2> DEFINE x == [o |-> p, h |-> p, l |-> p, c |-> p]
  <2>1. e = x
    BY <1>3 DEF Extend
  <2>2. x \in Bar /\ Ordered(x) /\ x.l <= p /\ p <= x.h /\ Four(x) = {p}
    BY <1>1 DEF Bar, Ordered, Four
  <2> HIDE DEF e, x
  <2>3. x # NoBar
    BY <1>2, <2>2
  <2>. QED BY <1>3, <2>1, <2>2, <2>3 DEF e
<1>4. CASE b # NoBar
  <2> DEFINE hi == IF p > b.h THEN p ELSE b.h
             lo == IF p < b.l THEN p ELSE b.l
             x == [b EXCEPT !.h = hi, !.l = lo, !.c = p]
  <2>1. /\ b \in Bar /\ b.o \in Nat /\ b.h \in Nat /\ b.l \in Nat /\ b.c \in Nat
        /\ b.o \in Prices /\ b.h \in Prices /\ b.l \in Prices
    BY <1>4, PricesArePositive DEF Bar
  <2>2. e = x
    BY <1>4, <2>1 DEF Extend, Bar
  <2>3. /\ hi \in {p, b.h} /\ lo \in {p, b.l} /\ hi >= p /\ hi >= b.h /\ lo <= p /\ lo <= b.l
    BY <1>1, <2>1
  <2> HIDE DEF hi, lo
  <2>4. x \in Bar /\ x.o = b.o /\ x.h = hi /\ x.l = lo /\ x.c = p
    BY <2>1, <2>3 DEF Bar
  <2> HIDE DEF e, x
  <2>5. Ordered(x) /\ Four(x) \subseteq Four(b) \cup {p}
    BY <1>1, <1>4, <2>1, <2>3, <2>4 DEF Ordered, Four
  <2>6. x # NoBar
    BY <1>2, <2>4
  <2>. QED BY <1>4, <2>2, <2>3, <2>4, <2>5, <2>6 DEF e
<1>. QED BY <1>3, <1>4

\* What the history says after the row went from r to n on the prices "noted".
Widened(r, n, noted, later) ==
    /\ seen' \in History
    /\ SinceFill' = IF n.st = "pending" THEN {}
                    ELSE (IF r.st = "active" THEN SinceFill ELSE later) \cup noted
    /\ SinceStop' = IF n.st = "pending" THEN {}
                    ELSE IF n.st = "active" /\ EffectiveStop(n) # EffectiveStop(r) THEN later
                    ELSE (IF r.st = "active" THEN SinceStop ELSE later) \cup noted

\* What Witness writes.
LEMMA WitnessIs ==
    ASSUME seen \in History, NEW r, NEW n, NEW noted \in SUBSET (Nat \ {0}),
           NEW old \in SUBSET (Nat \ {0}), NEW later \in SUBSET (Nat \ {0}),
           Witness(r, n, noted, old, later)
    PROVE  Widened(r, n, noted \cup (IF r.st = "active" THEN {} ELSE old), later)
<1> DEFINE fill == IF n.st = "pending" THEN {}
                   ELSE (IF r.st = "active" THEN seen.fill ELSE later) \cup noted
           bar == IF n.st = "pending" THEN {} ELSE IF r.st = "active" THEN seen.bar ELSE old
           moved == n.st = "active" /\ EffectiveStop(n) # EffectiveStop(r)
           stop == IF n.st = "pending" THEN {} ELSE IF moved THEN later
                   ELSE (IF r.st = "active" THEN seen.stop ELSE later) \cup noted
           wick == IF n.st = "pending" \/ moved THEN {}
                   ELSE IF r.st = "active" THEN seen.wick ELSE old
<1>1. seen' = [seen EXCEPT !.fill = fill, !.bar = bar, !.stop = stop, !.wick = wick]
    BY DEF Witness
<1>2. /\ fill \in SUBSET (Nat \ {0}) /\ bar \in SUBSET (Nat \ {0})
      /\ stop \in SUBSET (Nat \ {0}) /\ wick \in SUBSET (Nat \ {0})
    BY DEF History
<1> HIDE DEF fill, bar, stop, wick
<1>3. /\ seen' \in History /\ seen'.fill = fill /\ seen'.bar = bar
      /\ seen'.stop = stop /\ seen'.wick = wick
    BY <1>1, <1>2 DEF History
<1>4. SinceFill' = fill \cup bar /\ SinceStop' = stop \cup wick
    BY <1>3 DEF SinceFill, SinceStop
<1> USE DEF fill, bar, stop, wick
<1>5. fill \cup bar = IF n.st = "pending" THEN {}
                      ELSE (IF r.st = "active" THEN SinceFill ELSE later)
                             \cup (noted \cup (IF r.st = "active" THEN {} ELSE old))
    BY DEF SinceFill
<1>6. stop \cup wick = IF n.st = "pending" THEN {} ELSE IF moved THEN later
                      ELSE (IF r.st = "active" THEN SinceStop ELSE later)
                             \cup (noted \cup (IF r.st = "active" THEN {} ELSE old))
    BY DEF SinceStop
<1>. QED BY <1>3, <1>4, <1>5, <1>6 DEF Widened

\* A row as a review finds it.
LEMMA LoadedRow ==
    ASSUME given \in Cases, Sound(row), row.st # "closed"
    PROVE  \/ /\ Pending(row)
              /\ Loaded(row) = row
           \/ /\ Active(row) /\ Active(Loaded(row))
              /\ EffectiveStop(Loaded(row)) = EffectiveStop(row)
              /\ Loaded(row).stop = row.stop /\ Loaded(row).tp1 = row.tp1
              /\ Loaded(row).why = row.why
<1>1. CASE Pending(row)
    BY <1>1, OneState DEF Loaded
<1>2. CASE Active(row)
    BY <1>2, LoadedKeeps
<1>. QED BY <1>1, <1>2, OneState DEF Sound

\* The evidence of an active row is that of TP1, and grows.
LEMMA ActiveIsJustified ==
    ASSUME NEW r, Active(r), NEW F, NEW S, Justified(r, F, S), NEW n, Active(n),
           n.tp1 => r.tp1, NEW G, F \subseteq G, NEW T
    PROVE  Justified(n, G, T)
    BY DEF Justified, Active, Filled

LEMMA TradeReview ==
    ASSUME given \in Cases, Sound(row), row.st # "closed", NEW trade \in Trade, NEW g,
           NEW p \in Nat \ {0}, NEW F, NEW S, p \in F, p \in S,
           Active(row) => Justified(row, F, S)
    PROVE  LET n == ApplyTrade(Loaded(row), trade, g, p) IN
           Applied(row, n, p, p) /\ Justified(n, F, S)
<1> DEFINE r == Loaded(row)
           n == ApplyTrade(Loaded(row), trade, g, p)
<1>1. Pending(r) \/ Active(r)
    BY LoadedRow
<1>2. Justified(r, F, S)
    BY LoadedRow, PendingIsJustified, ActiveIsJustified
<1>3. Applied(r, n, p, p) /\ Justified(n, F, S)
    BY <1>1, <1>2, ApplyTradeReviews DEF Trade
<1> HIDE DEF n
<1>4. Applied(row, n, p, p)
    BY <1>3, LoadedRow, OneState DEF Applied
<1>. QED BY <1>3, <1>4 DEF n

\* _review_symbol ends with the expiry of what is still pending.
LEMMA ExpireEnds ==
    ASSUME NEW n, Sound(n), NEW lapsed \in BOOLEAN, NEW F, NEW S, Justified(n, F, S)
    PROVE  LET x == Expire(n, lapsed) IN
           /\ x = n \/ (Pending(n) /\ Closed(x))
           /\ Justified(x, F, S)
<1> DEFINE x == Expire(n, lapsed)
           c == Close(n, "expired")
<1>1. Pending(n) => Closed(c) /\ Justified(c, F, S)
    BY OtherReasonsClose DEF Pending
<1>2. x = n \/ (n.st = "pending" /\ x = c)
    BY DEF Expire
<1>3. n.st = "pending" => Pending(n)
    BY OneState DEF Sound
<1> HIDE DEF x, c
<1>4. x = n \/ (Pending(n) /\ x = c)
    BY <1>2, <1>3
<1>. QED BY <1>1, <1>4 DEF x

LEMMA CandleReview ==
    ASSUME given \in Cases, Sound(row), row.st # "closed", NEW b \in ClosedBar, NEW g,
           late \in BOOLEAN, NEW F, NEW S, {b.h, b.l} \subseteq F, {b.h, b.l} \subseteq S,
           Active(row) => Justified(row, F, S)
    PROVE  LET n == Expire(ApplyCandle(Loaded(row), b, g), late) IN
           Applied(row, n, Favourable(b), Adverse(b)) /\ Justified(n, F, S)
<1> DEFINE r == Loaded(row)
           m == ApplyCandle(Loaded(row), b, g)
           n == Expire(m, late)
<1>1. Pending(r) \/ Active(r)
    BY LoadedRow
<1>2. Justified(r, F, S)
    BY LoadedRow, PendingIsJustified, ActiveIsJustified
<1>3. Applied(r, m, Favourable(b), Adverse(b)) /\ Justified(m, F, S)
    BY <1>1, <1>2, ApplyCandleReviews
<1> HIDE DEF m
<1>4. Applied(row, m, Favourable(b), Adverse(b))
    BY <1>3, LoadedRow, OneState DEF Applied
<1>5. (n = m \/ (Pending(m) /\ Closed(n))) /\ Justified(n, F, S)
    BY <1>3, <1>4, ExpireEnds DEF Applied
<1> HIDE DEF n
<1>6. Applied(row, n, Favourable(b), Adverse(b))
    BY <1>4, <1>5, OneState DEF Applied, Sound
<1>. QED BY <1>5, <1>6 DEF n, m

\* A review without a price changes a pending row only, by its expiry.
LEMMA TimeReview ==
    ASSUME given \in Cases, Sound(row), row.st # "closed", late \in BOOLEAN, NEW F, NEW S,
           Active(row) => Justified(row, F, S)
    PROVE  LET n == Expire(Loaded(row), late) IN
           /\ Sound(n) /\ Justified(n, F, S)
           /\ Active(n) => /\ Active(row) /\ n.stop = row.stop
                           /\ EffectiveStop(n) = EffectiveStop(row)
           /\ Pending(n) => n = row
<1> DEFINE r == Loaded(row)
           n == Expire(Loaded(row), late)
<1>1. Sound(r)
    BY LoadedRow DEF Sound
<1>2. Justified(r, F, S)
    BY LoadedRow, PendingIsJustified, ActiveIsJustified
<1>3. (n = r \/ (Pending(r) /\ Closed(n))) /\ Justified(n, F, S)
    BY <1>1, <1>2, ExpireEnds
<1> HIDE DEF n
<1>4. /\ Sound(n)
      /\ Active(n) => Active(row) /\ n.stop = row.stop /\ EffectiveStop(n) = EffectiveStop(row)
      /\ Pending(n) => n = row
    BY <1>1, <1>3, LoadedRow, OneState DEF Sound
<1>. QED BY <1>3, <1>4 DEF n

-----------------------------------------------------------------------------
(* What the steps do to the market as the windows see it.                  *)

\* The prices after the closed candle that waits.
After == PricesOf(SubSeq(tape, done.before + 1, Len(tape)))

Within(p, b) == b # NoBar /\ b.l <= p /\ p <= b.h

LEMMA BarsAreNot ==
    /\ \A b \in Bar : b # NoBar
    /\ \A b \in ClosedBar : b # NoBar
<1>1. \A x : x = NoBar => x.o = 0
    BY DEF NoBar
<1>2. \A b \in Bar : b.o # 0
    BY PricesArePositive DEF Bar
<1>3. \A b \in ClosedBar : b.o # 0
    BY PricesArePositive DEF ClosedBar
<1>. QED BY <1>1, <1>2, <1>3

\* The prices of a candle lie between its extremes.
LEMMA FourWithin ==
    ASSUME NEW b \in Bar \cup ClosedBar, Ordered(b), NEW p \in Four(b)
    PROVE  Within(p, b)
<1>1. b # NoBar /\ b.o \in Nat /\ b.h \in Nat /\ b.l \in Nat /\ b.c \in Nat
    BY BarsAreNot, PricesArePositive DEF Bar, ClosedBar
<1>. QED BY <1>1 DEF Within, Four, Ordered

Printed(p) ==
    /\ MarketOK' /\ given' = given /\ row' = row /\ done' = done
    /\ seen' \in History
    /\ SinceFill' = IF row.st = "active" THEN SinceFill \cup {p} ELSE SinceFill
    /\ SinceStop' = IF row.st = "active" THEN SinceStop \cup {p} ELSE SinceStop
    /\ Within(p, minute')
    /\ \A q \in Nat : Within(q, minute) => Within(q, minute')
    /\ Four(minute') \subseteq {p} \cup (IF minute = NoBar THEN {} ELSE Four(minute))
    /\ PricesOf(tape') = PricesOf(tape) \cup {p}
    /\ done # NoBar => After' = After \cup {p}

LEMMA PrintsStep ==
    ASSUME ReviewInv, NEW p \in Prices, MarketPrints(p)
    PROVE  Printed(p)
<1> DEFINE x == [p |-> p, late |-> late]
           e == Extend(minute, p)
<1>1. /\ given' = given /\ row' = row /\ done' = done /\ late' = late
      /\ prints' = prints + 1 /\ prints < MaxPrints
      /\ tape' = Append(tape, x) /\ minute' = e
      /\ seen' = IF row.st # "active" THEN seen
                 ELSE [seen EXCEPT !.fill = @ \cup {p}, !.stop = @ \cup {p}]
    BY DEF MarketPrints
<1>2. x \in Trade /\ x.p = p /\ tape \in Seq(Trade) /\ p \in Nat \ {0}
    BY PricesArePositive DEF Trade, ReviewInv, MarketOK
<1>3. /\ tape' \in Seq(Trade) /\ Len(tape') = Len(tape) + 1 /\ Len(tape) \in Nat
      /\ PricesOf(tape') = PricesOf(tape) \cup {p}
    BY <1>1, <1>2, PricesOfAppend, LenProperties
<1>4. /\ e \in Bar /\ e # NoBar /\ Ordered(e) /\ e.l <= p /\ p <= e.h
      /\ minute # NoBar => e.l <= minute.l /\ minute.h <= e.h /\ Four(e) \subseteq Four(minute) \cup {p}
      /\ minute = NoBar => Four(e) = {p}
    BY ExtendTakesIn DEF ReviewInv, MarketOK
<1>5. ASSUME done # NoBar PROVE After' = After \cup {p} /\ done.before \in 0 .. Len(tape')
  <2>1. done.before \in 0 .. Len(tape)
    BY <1>5 DEF ReviewInv, MarketOK
  <2>2. /\ After' = PricesOf(SubSeq(tape', done'.before + 1, Len(tape')))
        /\ After = PricesOf(SubSeq(tape, done.before + 1, Len(tape)))
    BY DEF After
  <2>3. PricesOf(SubSeq(Append(tape, x), done.before + 1, Len(Append(tape, x))))
          = PricesOf(SubSeq(tape, done.before + 1, Len(tape))) \cup {x.p}
    BY <1>2, <2>1, RestOfAppend
  <2> HIDE DEF x
  <2>. QED BY <1>1, <1>2, <1>3, <2>1, <2>2, <2>3
<1> HIDE DEF x, e
<1>6. MarketOK'
  <2>1. prints' \in 0 .. MaxPrints
    BY <1>1, ConstantsAssumption DEF ReviewInv, MarketOK
  <2>2. minute' # NoBar /\ Ordered(minute') /\ minute' \in Bar
    BY <1>1, <1>4
  <2>3. done' \in ClosedBar \cup {NoBar} /\ (done' # NoBar => Ordered(done'))
    BY <1>1 DEF ReviewInv, MarketOK
  <2>4. done' # NoBar => done'.before \in 0 .. Len(tape')
    BY <1>1, <1>5
  <2>5. late' \in BOOLEAN
    BY <1>1 DEF ReviewInv, MarketOK
  <2>. QED BY <1>3, <2>1, <2>2, <2>3, <2>4, <2>5 DEF MarketOK, Ordered
<1>7. /\ seen' \in History
      /\ SinceFill' = IF row.st = "active" THEN SinceFill \cup {p} ELSE SinceFill
      /\ SinceStop' = IF row.st = "active" THEN SinceStop \cup {p} ELSE SinceStop
    BY <1>1, <1>2 DEF History, ReviewInv, SinceFill, SinceStop
<1>8. Within(p, minute')
    BY <1>1, <1>4 DEF Within
<1>9. ASSUME NEW q \in Nat, Within(q, minute) PROVE Within(q, minute')
  <2>1. minute \in Bar /\ minute # NoBar /\ minute.l <= q /\ q <= minute.h
    BY <1>9 DEF Within, ReviewInv, MarketOK
  <2>2. minute.l \in Nat /\ minute.h \in Nat /\ e.l \in Nat /\ e.h \in Nat
    BY <1>4, <2>1, PricesArePositive DEF Bar
  <2>. QED BY <1>1, <1>4, <2>1, <2>2 DEF Within
<1>10. Four(minute') \subseteq {p} \cup (IF minute = NoBar THEN {} ELSE Four(minute))
    BY <1>1, <1>4
<1>. QED BY <1>1, <1>3, <1>5, <1>6, <1>7, <1>8, <1>9, <1>10 DEF Printed

LEMMA CloseStep ==
    ASSUME ReviewInv, CloseMinute
    PROVE  /\ MarketOK' /\ given' = given /\ row' = row /\ tape' = tape
           /\ seen' \in History /\ SinceFill' = SinceFill /\ SinceStop' = SinceStop
           /\ minute # NoBar /\ minute' = NoBar /\ done = NoBar
           /\ Four(done') = Four(minute)
           /\ \A q : Within(q, minute) => Within(q, done')
           /\ After' = {}
<1> DEFINE b == [o |-> minute.o, h |-> minute.h, l |-> minute.l, c |-> minute.c,
                 late |-> late, before |-> Len(tape)]
           sure == seen.confirmed \/ (row.st = "pending" /\ ~late /\ plan.profile = Reversal
                                      /\ ReversalConfirmed(minute))
<1>1. /\ given' = given /\ row' = row /\ tape' = tape /\ late' = late /\ prints' = prints
      /\ minute # NoBar /\ done = NoBar /\ minute' = NoBar /\ done' = b
      /\ seen' = [seen EXCEPT !.confirmed = sure]
    BY DEF CloseMinute
<1>2. /\ tape \in Seq(Trade) /\ Len(tape) \in Nat /\ late \in BOOLEAN
      /\ minute \in Bar /\ Ordered(minute) /\ prints \in 0 .. MaxPrints
    BY <1>1, LenProperties DEF ReviewInv, MarketOK
<1>3. sure \in BOOLEAN
    BY DEF ReviewInv, History
<1> HIDE DEF sure
<1>4. seen' \in History /\ SinceFill' = SinceFill /\ SinceStop' = SinceStop
    BY <1>1, <1>3 DEF ReviewInv, History, SinceFill, SinceStop
<1>5. /\ b \in ClosedBar /\ b.o = minute.o /\ b.h = minute.h /\ b.l = minute.l /\ b.c = minute.c
      /\ b.before = Len(tape)
    BY <1>2 DEF Bar, ClosedBar
<1> HIDE DEF b
<1>6. b # NoBar
    BY <1>5, BarsAreNot
<1>7. /\ Ordered(b) /\ Four(b) = Four(minute)
      /\ \A q : Within(q, minute) => Within(q, b)
    BY <1>2, <1>5, <1>6 DEF Ordered, Four, Within
<1>8. MarketOK'
  <2>1. /\ late' \in BOOLEAN /\ minute' = NoBar /\ done' \in ClosedBar /\ Ordered(done')
        /\ done'.before \in 0 .. Len(tape') /\ tape' \in Seq(Trade)
        /\ prints' \in 0 .. MaxPrints
    BY <1>1, <1>2, <1>5, <1>7
  <2>. QED BY <2>1 DEF MarketOK, Ordered
<1>9. After' = PricesOf(SubSeq(tape', done'.before + 1, Len(tape')))
    BY DEF After
<1>10. After' = {}
    BY <1>1, <1>2, <1>5, <1>9, NoRest
<1>. QED BY <1>1, <1>4, <1>7, <1>8, <1>10

\* A review of trades: all it notes has come after the fill.
LEMMA QuietWitness ==
    ASSUME ReviewInv, NEW noted \in SUBSET Prices, NEW later \in SUBSET Prices,
           Witness(row, row', noted, {}, later)
    PROVE  Widened(row, row', noted, later)
<1>1. /\ noted \in SUBSET (Nat \ {0}) /\ later \in SUBSET (Nat \ {0})
      /\ {} \in SUBSET (Nat \ {0}) /\ seen \in History
    BY PricesArePositive DEF ReviewInv
<1>2. Widened(row, row', noted \cup (IF row.st = "active" THEN {} ELSE {}), later)
    BY <1>1, WitnessIs
<1>. QED BY <1>2

\* What the reviews leave of the windows.
LEMMA TradeStep ==
    ASSUME ReviewInv, NEW g, NEW v \in Prices, ReviewTrade(g, v)
    PROVE  /\ MarketOK' /\ given' = given /\ minute' = minute /\ row.st # "closed"
           /\ "trades" \in feed
           /\ tape # <<>> /\ Head(tape) \in Trade /\ v \in ReviewPrices(Head(tape).p)
           /\ PricesOf(tape) = {Head(tape).p} \cup PricesOf(tape')
           /\ PricesOf(tape') \subseteq Prices
           /\ row' = ApplyTrade(Loaded(row), Head(tape), g, v)
           /\ Widened(row, row', {Head(tape).p, v}, PricesOf(tape'))
<1>1. /\ given' = given /\ minute' = minute /\ late' = late /\ prints' = prints
      /\ row.st # "closed" /\ "trades" \in feed /\ tape # <<>> /\ tape' = Tail(tape)
      /\ v \in ReviewPrices(Head(tape).p)
      /\ row' = ApplyTrade(Loaded(row), Head(tape), g, v)
      /\ done' = IF done = NoBar \/ done.before = 0 THEN NoBar
                 ELSE [done EXCEPT !.before = @ - 1]
      /\ Witness(row, row', {Head(tape).p, v}, {}, PricesOf(tape'))
    BY DEF ReviewTrade
<1>2. /\ tape \in Seq(Trade) /\ late \in BOOLEAN
      /\ minute \in Bar \cup {NoBar} /\ (minute # NoBar => Ordered(minute))
      /\ prints \in 0 .. MaxPrints
    BY DEF ReviewInv, MarketOK
<1>3. /\ Head(tape) \in Trade /\ tape' \in Seq(Trade) /\ Len(tape') = Len(tape) - 1
      /\ Len(tape) \in Nat \ {0}
      /\ PricesOf(tape) = {Head(tape).p} \cup PricesOf(tape')
    BY <1>1, <1>2, PricesOfTail
<1>4. PricesOf(tape') \subseteq Prices
    BY <1>3, PricesOfType
<1>5. ASSUME done' # NoBar
      PROVE  done' \in ClosedBar /\ Ordered(done') /\ done'.before \in 0 .. Len(tape')
  <2>1. /\ done \in ClosedBar /\ Ordered(done) /\ done.before \in 0 .. Len(tape)
        /\ done.before # 0 /\ done' = [done EXCEPT !.before = @ - 1]
    BY <1>1, <1>5 DEF ReviewInv, MarketOK
  <2>2. done.before - 1 \in Nat /\ done.before - 1 \in 0 .. Len(tape')
    BY <1>3, <2>1
  <2>3. /\ done' \in ClosedBar /\ done'.before = done.before - 1
        /\ done'.o = done.o /\ done'.h = done.h /\ done'.l = done.l /\ done'.c = done.c
    BY <2>1, <2>2 DEF ClosedBar
  <2>. QED BY <2>1, <2>2, <2>3 DEF Ordered
<1>6. MarketOK'
    BY <1>1, <1>2, <1>3, <1>5 DEF MarketOK, Ordered
<1>7. Widened(row, row', {Head(tape).p, v}, PricesOf(tape'))
    BY <1>1, <1>3, <1>4, QuietWitness DEF Trade
<1>. QED BY <1>1, <1>3, <1>4, <1>6, <1>7

LEMMA GapStep ==
    ASSUME ReviewInv, NEW g, NEW v \in Prices, TradeAfterGap(g, v)
    PROVE  /\ MarketOK' /\ given' = given /\ row.st # "closed" /\ "gap" \in feed
           /\ \E trade \in Trade :
                /\ row' = ApplyTrade(Loaded(row), trade, g, v)
                /\ Widened(row, row', {trade.p, v}, {})
<1> DEFINE trade == tape[Len(tape)]
<1>1. /\ given' = given /\ minute' = minute /\ late' = late /\ prints' = prints
      /\ row.st # "closed" /\ "gap" \in feed /\ Len(tape) > 1
      /\ row' = ApplyTrade(Loaded(row), trade, g, v)
      /\ tape' = <<>> /\ done' = NoBar
      /\ Witness(row, row', {trade.p, v}, {}, {})
    BY DEF TradeAfterGap
<1>2. trade \in Trade
    BY <1>1, LenProperties DEF ReviewInv, MarketOK
<1>3. MarketOK'
  <2>1. tape' \in Seq(Trade)
    BY <1>1
  <2>2. late' \in BOOLEAN /\ minute' \in Bar \cup {NoBar} /\ prints' \in 0 .. MaxPrints
    BY <1>1 DEF ReviewInv, MarketOK
  <2>3. minute' # NoBar => Ordered(minute')
    BY <1>1 DEF ReviewInv, MarketOK
  <2>. QED BY <1>1, <2>1, <2>2, <2>3 DEF MarketOK, Ordered
<1> HIDE DEF trade
<1>4. Widened(row, row', {trade.p, v}, {})
    BY <1>1, <1>2, QuietWitness DEF Trade
<1>. QED BY <1>1, <1>2, <1>3, <1>4

LEMMA CandleStep ==
    ASSUME ReviewInv, NEW g, ReviewCandles(g)
    PROVE  /\ MarketOK' /\ given' = given /\ minute' = minute /\ row.st # "closed"
           /\ "candles" \in feed
           /\ done \in ClosedBar /\ Ordered(done) /\ done # NoBar /\ done' = NoBar
           /\ After \subseteq Prices
           /\ row' = Expire(ApplyCandle(Loaded(row), done, g), late)
           /\ Widened(row, row', IF row.st = "pending" THEN Four(done) ELSE {}, After)
<1> DEFINE after == SubSeq(tape, done.before + 1, Len(tape))
<1>1. /\ given' = given /\ minute' = minute /\ late' = late /\ prints' = prints
      /\ row.st # "closed" /\ "candles" \in feed /\ done # NoBar /\ done' = NoBar
      /\ tape' = after
      /\ row' = Expire(ApplyCandle(Loaded(row), done, g), late)
      /\ Witness(row, row', IF row.st = "pending" THEN {done.c} ELSE {},
                 {done.o, done.h, done.l}, After)
    BY DEF ReviewCandles, After
<1>2. /\ tape \in Seq(Trade) /\ done \in ClosedBar /\ Ordered(done)
      /\ done.before \in 0 .. Len(tape)
    BY <1>1 DEF ReviewInv, MarketOK
<1>3. after \in Seq(Trade) /\ After \subseteq Prices
    BY <1>2, RestIs DEF After
<1> HIDE DEF after
<1>4. MarketOK'
  <2>1. late' \in BOOLEAN /\ minute' \in Bar \cup {NoBar} /\ prints' \in 0 .. MaxPrints
    BY <1>1 DEF ReviewInv, MarketOK
  <2>2. minute' # NoBar => Ordered(minute')
    BY <1>1 DEF ReviewInv, MarketOK
  <2>. QED BY <1>1, <1>3, <2>1, <2>2 DEF MarketOK, Ordered
<1>5. Widened(row, row', IF row.st = "pending" THEN Four(done) ELSE {}, After)
  <2> DEFINE close == IF row.st = "pending" THEN {done.c} ELSE {}
             old == {done.o, done.h, done.l}
  <2>1. /\ close \in SUBSET (Nat \ {0}) /\ old \in SUBSET (Nat \ {0})
        /\ After \in SUBSET (Nat \ {0})
    BY <1>2, <1>3, PricesArePositive DEF ClosedBar
  <2>2. row.st \in {"pending", "active"}
    BY <1>1, OneState DEF ReviewInv, Sound
  <2>3. close \cup (IF row.st = "active" THEN {} ELSE old)
          = IF row.st = "pending" THEN Four(done) ELSE {}
    BY <2>2 DEF Four
  <2>4. Witness(row, row', close, old, After) /\ seen \in History
    BY <1>1 DEF ReviewInv
  <2> HIDE DEF close, old
  <2>5. Widened(row, row', close \cup (IF row.st = "active" THEN {} ELSE old), After)
    BY <2>1, <2>4, WitnessIs
  <2>. QED BY <2>3, <2>5
<1>. QED BY <1>1, <1>2, <1>3, <1>4, <1>5

\* Steps that leave the windows alone, or forget what lies before now.
LEMMA QuietStep ==
    ASSUME ReviewInv, given' = given, minute' = minute, prints' = prints, seen' = seen,
           late' \in BOOLEAN,
           tape' = tape \/ (tape' = <<>> /\ done' = NoBar),
           done' = done \/ done' = NoBar
    PROVE  MarketOK' /\ seen' \in History
<1>1. tape' \in Seq(Trade)
  <2>1. tape \in Seq(Trade) /\ <<>> \in Seq(Trade)
    BY DEF ReviewInv, MarketOK
  <2>2. tape' \in {tape, <<>>}
    OBVIOUS
  <2>. QED BY <2>1, <2>2
<1>2. minute' \in Bar \cup {NoBar} /\ prints' \in 0 .. MaxPrints /\ done' \in ClosedBar \cup {NoBar}
    BY DEF ReviewInv, MarketOK
<1>3. minute' # NoBar => Ordered(minute')
    BY DEF ReviewInv, MarketOK
<1>4. done' # NoBar => Ordered(done') /\ done'.before \in 0 .. Len(tape')
    BY DEF ReviewInv, MarketOK
<1>5. seen' \in History
    BY DEF ReviewInv
<1>. QED BY <1>1, <1>2, <1>3, <1>4, <1>5 DEF MarketOK, Ordered

-----------------------------------------------------------------------------
(* The inductive invariant.                                                *)

LEMMA SoundNext ==
    ASSUME given' = given, Sound(row') PROVE Sound(row)'
    BY DEF Sound, Pending, Active, Closed, Untouched, Filled, Stops, AtEntry, NoLoss,
           Reaches, plan, setting

\* Without regard to what has been seen: any price may have been.
LEMMA AnyPrices ==
    ASSUME given \in Cases, NEW r, Active(r)
    PROVE  Justified(r, Nat \ {0}, Nat \ {0})
<1>1. plan.tp1 \in Nat \ {0} /\ Reaches(plan.tp1, plan.tp1)
    BY PlanFacts, ReachesOrder
<1>. QED BY <1>1 DEF Justified, Active, Filled

\* What a step makes of the row: it stays sound, and the stop of an open one is not
\* moved away from the price.
Kept ==
    /\ given' = given /\ Sound(row')
    /\ Active(row) /\ Active(row') => Reaches(row'.stop, row.stop)

LEMMA AppliedKeeps ==
    ASSUME given' = given, NEW best, NEW worst, Applied(row, row', best, worst)
    PROVE  Kept
    BY DEF Kept, Applied

LEMMA StopStays ==
    ASSUME given \in Cases, NEW r \in Row
    PROVE  Reaches(r.stop, r.stop)
    BY ReachesOrder DEF Row

LEMMA TradeKeeps ==
    ASSUME ReviewInv, NEW g, NEW v \in Prices, ReviewTrade(g, v)
    PROVE  Kept
<1>1. Head(tape) \in Trade /\ v \in Nat \ {0} /\ row.st # "closed" /\ given' = given
      /\ row' = ApplyTrade(Loaded(row), Head(tape), g, v)
    BY TradeStep, PricesArePositive
<1>2. Applied(row, row', v, v)
    BY <1>1, AnyPrices, TradeReview DEF ReviewInv
<1>. QED BY <1>1, <1>2, AppliedKeeps

LEMMA GapKeeps ==
    ASSUME ReviewInv, NEW g, NEW v \in Prices, TradeAfterGap(g, v)
    PROVE  Kept
<1>1. v \in Nat \ {0} /\ row.st # "closed" /\ given' = given
    BY GapStep, PricesArePositive
<1>2. PICK trade \in Trade : row' = ApplyTrade(Loaded(row), trade, g, v)
    BY GapStep
<1>3. Applied(row, row', v, v)
    BY <1>1, <1>2, AnyPrices, TradeReview DEF ReviewInv
<1>. QED BY <1>1, <1>3, AppliedKeeps

LEMMA CandleKeeps ==
    ASSUME ReviewInv, NEW g, ReviewCandles(g)
    PROVE  Kept
<1>1. /\ done \in ClosedBar /\ row.st # "closed" /\ given' = given
      /\ row' = Expire(ApplyCandle(Loaded(row), done, g), late)
    BY CandleStep
<1>2. {done.h, done.l} \subseteq Nat \ {0}
    BY <1>1, PricesArePositive DEF ClosedBar
<1>3. Applied(row, row', Favourable(done), Adverse(done))
  <2>1. given \in Cases /\ Sound(row) /\ late \in BOOLEAN
    BY DEF ReviewInv, MarketOK
  <2>2. Active(row) => Justified(row, Nat \ {0}, Nat \ {0})
    BY <2>1, AnyPrices
  <2>3. Applied(row, Expire(ApplyCandle(Loaded(row), done, g), late),
                Favourable(done), Adverse(done))
    BY <1>1, <1>2, <2>1, <2>2, CandleReview
  <2>. QED BY <1>1, <2>3
<1>. QED BY <1>1, <1>3, AppliedKeeps

\* The steps that review no price: EndOfTrades and ReviewTime.
LEMMA TimeKeeps ==
    ASSUME ReviewInv, given' = given, row.st # "closed", row' = Expire(Loaded(row), late)
    PROVE  /\ Kept
           /\ Active(row') => Active(row) /\ EffectiveStop(row') = EffectiveStop(row)
           /\ \A F, S : (Active(row) => Justified(row, F, S)) => Justified(row', F, S)
<1>1. ASSUME NEW F, NEW S, Active(row) => Justified(row, F, S)
      PROVE  /\ Sound(row') /\ Justified(row', F, S)
             /\ Active(row') => /\ Active(row) /\ row'.stop = row.stop
                                /\ EffectiveStop(row') = EffectiveStop(row)
    BY <1>1, TimeReview DEF ReviewInv, MarketOK
<1>2. Active(row) => Justified(row, Nat \ {0}, Nat \ {0})
    BY AnyPrices DEF ReviewInv
<1>3. /\ Sound(row')
      /\ Active(row') => /\ Active(row) /\ row'.stop = row.stop
                         /\ EffectiveStop(row') = EffectiveStop(row)
    BY <1>1, <1>2
<1>4. Active(row) => Reaches(row.stop, row.stop)
    BY OneState, StopStays DEF ReviewInv
<1>. QED BY <1>1, <1>3, <1>4 DEF Kept

LEMMA AdverseKeeps ==
    ASSUME ReviewInv, AdverseEvent
    PROVE  Kept /\ Closed(row') /\ \A F, S : Justified(row', F, S)
<1>1. Active(row) /\ row' = Close(Loaded(row), "emergency_exit") /\ given' = given
    BY OneState DEF AdverseEvent, ReviewInv, Sound
<1>2. Loaded(row) \in Row
    BY <1>1, LoadedKeeps, OneState DEF ReviewInv
<1>3. ASSUME NEW F, NEW S PROVE Closed(row') /\ Justified(row', F, S)
    BY <1>1, <1>2, OtherReasonsClose
<1>. QED BY <1>1, <1>3, OneState DEF Kept, Sound

\* A restart forgets the stop in memory; what is then in force is not nearer to the price.
LEMMA RestartKeeps ==
    ASSUME ReviewInv, Restart
    PROVE  /\ Kept /\ Active(row) /\ Active(row')
           /\ row'.tp1 = row.tp1 /\ row'.why = row.why
           /\ Reaches(EffectiveStop(row), EffectiveStop(row'))
           /\ EffectiveStop(row') \in Nat /\ EffectiveStop(row) \in Nat
<1>1. Active(row) /\ row' = [row EXCEPT !.mem = 0] /\ given' = given
    BY OneState DEF Restart, ReviewInv, Sound
<1>2. /\ row' \in Row /\ row'.mem = 0 /\ row'.st = row.st
      /\ row'.entry = row.entry /\ row'.stop = row.stop /\ row'.trail = row.trail
      /\ row'.tp1 = row.tp1 /\ row'.why = row.why
    BY <1>1 DEF Row, Active
<1>3. Active(row')
    BY <1>1, <1>2 DEF Active, Filled, Stops, AtEntry
<1>4. given \in Cases /\ row \in Row
    BY <1>1, OneState DEF ReviewInv
<1>5. /\ EffectiveStop(row) \in Nat /\ EffectiveStop(row') \in Nat
      /\ Reaches(EffectiveStop(row), row.stop) /\ Reaches(row.stop, row.stop)
    BY <1>1, <1>3, <1>4, EffectiveStopOf, StopStays, OneState DEF Active
<1>6. EffectiveStop(row') = IF row.trail # 0 THEN EffectiveStop(row) ELSE row.stop
    BY <1>2 DEF EffectiveStop
<1>7. Reaches(EffectiveStop(row), EffectiveStop(row))
    BY <1>4, <1>5, ReachesOrder
<1>. QED BY <1>1, <1>2, <1>3, <1>5, <1>6, <1>7 DEF Kept, Sound

LEMMA ReviewInit ==
    ASSUME Init PROVE ReviewInv
<1>1. given \in Cases
    BY DEF Init
<1>2. MarketOK
  <2>1. late \in BOOLEAN /\ minute = NoBar /\ done = NoBar /\ tape = <<>> /\ prints = 0
    BY DEF Init
  <2>2. 0 \in 0 .. MaxPrints /\ <<>> \in Seq(Trade)
    BY ConstantsAssumption
  <2>. QED BY <2>1, <2>2 DEF MarketOK
<1>3. seen \in History
    BY DEF Init, History
<1>4. Sound(row)
  <2>1. plan.stop \in Nat \ {0}
    BY <1>1, PlanFacts
  <2>2. row \in Row /\ Untouched(row) /\ row.st = "pending"
    BY <2>1 DEF Init, Row, Untouched, Reasons
  <2>. QED BY <2>2 DEF Sound, Pending
<1>. QED BY <1>1, <1>2, <1>3, <1>4 DEF ReviewInv

LEMMA ReviewStep ==
    ASSUME ReviewInv, Next
    PROVE  Kept /\ MarketOK' /\ seen' \in History
<1>1. given \in Cases /\ Sound(row) /\ late \in BOOLEAN /\ row \in Row
    BY OneState DEF ReviewInv, MarketOK, Sound
<1>2. ASSUME row' = row, given' = given PROVE Kept
    BY <1>1, <1>2, StopStays DEF Kept
<1>3. ASSUME NEW p \in Prices, MarketPrints(p)
      PROVE  Kept /\ MarketOK' /\ seen' \in History
    BY <1>2, <1>3, PrintsStep DEF Printed
<1>4. CASE CloseMinute
    BY <1>2, <1>4, CloseStep
<1>5. CASE Lapse
  <2>1. /\ given' = given /\ row' = row /\ late' = TRUE /\ seen' = seen
        /\ minute' = minute /\ prints' = prints /\ tape' = tape /\ done' = done
    BY <1>5 DEF Lapse, unseen
  <2>. QED BY <1>2, <2>1, QuietStep
<1>6. ASSUME NEW g, NEW v \in Prices, ReviewTrade(g, v)
      PROVE  Kept /\ MarketOK' /\ seen' \in History
  <2>1. {Head(tape).p, v} \in SUBSET Prices /\ PricesOf(tape') \in SUBSET Prices
    BY <1>6, TradeStep DEF Trade
  <2>. QED BY <1>6, <2>1, TradeKeeps, TradeStep DEF Widened
<1>7. CASE EndOfTrades
  <2>1. /\ given' = given /\ row.st # "closed" /\ row' = Expire(Loaded(row), late)
        /\ late' = late /\ seen' = seen /\ minute' = minute /\ prints' = prints
        /\ tape' = tape /\ done' = NoBar
    BY <1>7 DEF EndOfTrades
  <2>. QED BY <1>1, <2>1, TimeKeeps, QuietStep
<1>8. ASSUME NEW g, NEW v \in Prices, TradeAfterGap(g, v)
      PROVE  Kept /\ MarketOK' /\ seen' \in History
  <2>1. PICK trade \in Trade : Widened(row, row', {trade.p, v}, {})
    BY <1>8, GapStep
  <2>2. {trade.p, v} \in SUBSET Prices
    BY DEF Trade
  <2>. QED BY <1>8, <2>1, <2>2, GapKeeps, GapStep DEF Widened
<1>9. ASSUME NEW g, ReviewCandles(g)
      PROVE  Kept /\ MarketOK' /\ seen' \in History
  <2> DEFINE noted == IF row.st = "pending" THEN Four(done) ELSE {}
  <2>1. Widened(row, row', noted, After) /\ After \in SUBSET Prices /\ done \in ClosedBar
    BY <1>9, CandleStep
  <2>2. noted \in SUBSET Prices
    BY <2>1 DEF Four, ClosedBar
  <2> HIDE DEF noted
  <2>. QED BY <1>9, <2>1, <2>2, CandleKeeps, CandleStep DEF Widened
<1>10. CASE ReviewTime
  <2>1. /\ given' = given /\ row.st # "closed" /\ row' = Expire(Loaded(row), late)
        /\ late' = late /\ seen' = seen /\ minute' = minute /\ prints' = prints
        /\ tape' = <<>> /\ done' = NoBar
    BY <1>10 DEF ReviewTime
  <2>. QED BY <1>1, <2>1, TimeKeeps, QuietStep
<1>11. CASE AdverseEvent
  <2>1. /\ given' = given /\ late' = late /\ seen' = seen
        /\ minute' = minute /\ prints' = prints /\ tape' = tape /\ done' = done
    BY <1>11 DEF AdverseEvent, unseen
  <2>. QED BY <1>1, <1>11, <2>1, AdverseKeeps, QuietStep
<1>12. CASE Restart
  <2>1. /\ given' = given /\ late' = late /\ seen' = seen
        /\ minute' = minute /\ prints' = prints /\ tape' = tape /\ done' = done
    BY <1>12 DEF Restart, unseen
  <2>. QED BY <1>1, <1>12, <2>1, RestartKeeps, QuietStep
<1>. QED BY <1>3, <1>4, <1>5, <1>6, <1>7, <1>8, <1>9, <1>10, <1>11, <1>12 DEF Next

LEMMA ReviewNext ==
    ASSUME ReviewInv, [Next]_vars PROVE ReviewInv'
<1>1. CASE Next
  <2>1. given' = given /\ Sound(row') /\ MarketOK' /\ seen' \in History
    BY <1>1, ReviewStep DEF Kept
  <2>2. Sound(row)'
    BY <2>1, SoundNext
  <2>3. given' \in Cases
    BY <2>1 DEF ReviewInv
  <2>. QED BY <2>1, <2>2, <2>3 DEF ReviewInv
<1>2. CASE UNCHANGED vars
  <2>1. /\ given' = given /\ row' = row /\ late' = late /\ seen' = seen
        /\ minute' = minute /\ prints' = prints /\ tape' = tape /\ done' = done
    BY <1>2 DEF vars
  <2>2. MarketOK' /\ seen' \in History
    BY <2>1, QuietStep DEF ReviewInv, MarketOK
  <2>3. Sound(row') /\ given' \in Cases
    BY <2>1 DEF ReviewInv
  <2>4. Sound(row)'
    BY <2>1, <2>3, SoundNext
  <2>. QED BY <2>2, <2>3, <2>4 DEF ReviewInv
<1>. QED BY <1>1, <1>2

LEMMA ReviewAlways == Spec => []ReviewInv
    BY ReviewInit, ReviewNext, PTL DEF Spec

-----------------------------------------------------------------------------
(* What follows.                                                           *)

\* The row, the candles and the trades are always of their types; a stop that has been
\* moved, whatever the trailing distance, never drops to zero, which the code reads as
\* "no stop" (_effective_stop, _update_trailing_post_tp1).
THEOREM TypeCorrect == Spec => []TypeOK
<1>1. ASSUME ReviewInv PROVE TypeOK
  <2>1. given \in Cases /\ MarketOK /\ seen \in History /\ Sound(row)
    BY <1>1 DEF ReviewInv
  <2>2. row \in Row /\ (row.st = "active" => row.entry > 0)
    BY <2>1, OneState DEF Sound, Active, Filled
  <2>3. /\ SinceFill \subseteq Nat \ {0} /\ SinceStop \subseteq Nat \ {0}
        /\ seen.confirmed \in BOOLEAN
    BY <2>1 DEF History, SinceFill, SinceStop
  <2>. QED BY <2>1, <2>2, <2>3 DEF TypeOK, MarketOK, Trade
<1>. QED BY <1>1, ReviewAlways, PTL

\* With break-even on TP1 and a persisted stop, no order of trades, candles, mark prices
\* and restarts books a row that has reached TP1 as a loss (_stop_close_event_type).
THEOREM Tp1NoLoss == Spec => []Tp1IsNoLoss
<1>1. ASSUME ReviewInv PROVE Tp1IsNoLoss
    BY <1>1 DEF ReviewInv, Sound, Pending, Untouched, Active, Filled, Closed, NoLoss, Tp1IsNoLoss
<1>. QED BY <1>1, ReviewAlways, PTL

\* With the trailing stop persisted, neither a review, nor break-even, nor trailing, nor
\* a restart that forgets the stop in memory moves the stop away from the price
\* (_apply_trailing_stop, _active_signals).
THEOREM StopsNeverWiden == Spec => StopNeverWidens
<1>1. ASSUME ReviewInv, [Next]_vars
      PROVE  [row.st = "active" /\ row'.st = "active" /\ setting.persist
                => Reaches(EffectiveStop(row)', EffectiveStop(row))]_vars
  <2>1. CASE UNCHANGED vars
    BY <2>1
  <2>2. ASSUME Next, row.st = "active", row'.st = "active", setting.persist
        PROVE  Reaches(EffectiveStop(row)', EffectiveStop(row))
    <3>1. Kept /\ Sound(row) /\ given \in Cases
      BY <1>1, <2>2, ReviewStep DEF ReviewInv
    <3>2. Active(row) /\ Active(row')
      BY <2>2, <3>1, OneState DEF Kept, Sound
    <3>3. EffectiveStop(row) = row.stop /\ EffectiveStop(row') = row'.stop
      BY <2>2, <3>1, <3>2, EffectiveStopOf DEF Active
    <3>4. EffectiveStop(row)' = EffectiveStop(row')
      BY DEF EffectiveStop
    <3>. QED BY <3>1, <3>2, <3>3, <3>4 DEF Kept
  <2>. QED BY <1>1, <2>1, <2>2
<1>. QED BY <1>1, ReviewAlways, PTL DEF Spec, StopNeverWidens

-----------------------------------------------------------------------------
(* The evidence of an exit.                                                *)

\* The case of a behaviour does not read the same minutes by candles and by trades.
OneWindow == \A k \in Cases : "candles" \in k.feed => k.feed \cap {"trades", "gap"} = {}

ByTrades == feed \cap {"trades", "gap"} # {}

\* The prices of the candles still to be reviewed are among those an open row has seen,
\* those of the candle that forms among the trades after the closed one.
CandlesSeen ==
    /\ minute # NoBar /\ done # NoBar => Four(minute) \subseteq After
    /\ Active(row) /\ minute # NoBar => Four(minute) \subseteq SinceFill \cap SinceStop
    /\ Active(row) /\ done # NoBar => Four(done) \subseteq SinceFill \cap SinceStop

\* The inductive invariant.
EvidenceInv ==
    /\ ReviewInv
    /\ ByTrades \/ CandlesSeen
    /\ Justified(row, SinceFill, SinceStop)

LEMMA JustifiedNext ==
    ASSUME given' = given, Justified(row', SinceFill', SinceStop')
    PROVE  Justified(row, SinceFill, SinceStop)'
    BY DEF Justified, EffectiveStop, Breaches, Reaches, plan

LEMMA ActiveNext ==
    ASSUME given' = given PROVE Active(row)' <=> Active(row')
    BY DEF Active, Filled, Stops, AtEntry, Reaches, plan, setting

\* More prices are more evidence.
LEMMA MoreEvidence ==
    ASSUME NEW r, NEW F, NEW S, Justified(r, F, S), NEW G, NEW T, F \subseteq G, S \subseteq T
    PROVE  Justified(r, G, T)
    BY DEF Justified

\* The review of the prices in noted has the evidence it needs if it has it from the
\* prices known before, or to come, and those.
LEMMA WitnessJustifies ==
    ASSUME ReviewInv, NEW n, Sound(n),
           NEW noted \in SUBSET Prices, NEW later \in SUBSET Prices,
           Widened(row, n, noted, later),
           Justified(n, (IF row.st = "active" THEN SinceFill ELSE later) \cup noted,
                        (IF row.st = "active" THEN SinceStop ELSE later) \cup noted)
    PROVE  Justified(n, SinceFill', SinceStop')
<1> DEFINE F == (IF row.st = "active" THEN SinceFill ELSE later) \cup noted
           S == (IF row.st = "active" THEN SinceStop ELSE later) \cup noted
<1>1. noted \in SUBSET Prices /\ later \in SUBSET Prices
    OBVIOUS
<1>2. /\ SinceFill' = IF n.st = "pending" THEN {} ELSE F
      /\ SinceStop' = IF n.st = "pending" THEN {}
                      ELSE IF n.st = "active" /\ EffectiveStop(n) # EffectiveStop(row) THEN later
                      ELSE S
    BY DEF Widened
<1>3. Justified(n, F, S)
    OBVIOUS
<1> HIDE DEF F, S
<1>4. CASE Pending(n)
    BY <1>4, PendingIsJustified
<1>5. CASE Active(n)
    BY <1>2, <1>3, <1>5, OneState, ActiveIsJustified
<1>6. CASE Closed(n)
    BY <1>2, <1>3, <1>6, OneState
<1>. QED BY <1>4, <1>5, <1>6 DEF Sound

LEMMA TradeEvidence ==
    ASSUME EvidenceInv, row.st # "closed", NEW trade \in Trade, NEW g, NEW v \in Prices,
           NEW later \in SUBSET Prices,
           row' = ApplyTrade(Loaded(row), trade, g, v), Widened(row, row', {trade.p, v}, later)
    PROVE  Justified(row', SinceFill', SinceStop')
<1> DEFINE F == (IF row.st = "active" THEN SinceFill ELSE later) \cup {trade.p, v}
           S == (IF row.st = "active" THEN SinceStop ELSE later) \cup {trade.p, v}
<1>1. given \in Cases /\ Sound(row) /\ v \in Nat \ {0} /\ {trade.p, v} \in SUBSET Prices
    BY PricesArePositive DEF EvidenceInv, ReviewInv, Trade
<1>2. Active(row) => Justified(row, F, S)
    BY OneState, MoreEvidence DEF EvidenceInv
<1>3. v \in F /\ v \in S
    OBVIOUS
<1> HIDE DEF F, S
<1>4. Applied(row, row', v, v) /\ Justified(row', F, S)
    BY <1>1, <1>2, <1>3, TradeReview
<1>5. Sound(row')
    BY <1>4 DEF Applied
<1>. QED BY <1>1, <1>4, <1>5, WitnessJustifies DEF EvidenceInv, F, S

LEMMA CandleEvidence ==
    ASSUME EvidenceInv, CandlesSeen, NEW g, ReviewCandles(g)
    PROVE  Justified(row', SinceFill', SinceStop') /\ CandlesSeen'
<1> DEFINE noted == IF row.st = "pending" THEN Four(done) ELSE {}
           F == (IF row.st = "active" THEN SinceFill ELSE After) \cup noted
           S == (IF row.st = "active" THEN SinceStop ELSE After) \cup noted
<1>1. /\ given' = given /\ minute' = minute /\ row.st # "closed"
      /\ done \in ClosedBar /\ done # NoBar /\ done' = NoBar /\ After \in SUBSET Prices
      /\ row' = Expire(ApplyCandle(Loaded(row), done, g), late)
      /\ Widened(row, row', noted, After)
    BY CandleStep DEF EvidenceInv
<1>2. /\ given \in Cases /\ Sound(row) /\ seen \in History /\ late \in BOOLEAN
      /\ Pending(row) \/ Active(row)
    BY <1>1, OneState DEF EvidenceInv, ReviewInv, MarketOK, Sound
<1>3. noted \in SUBSET Prices /\ {done.h, done.l} \subseteq Four(done)
    BY <1>1 DEF Four, ClosedBar
<1>4. Active(row) => Justified(row, F, S)
    BY OneState, MoreEvidence DEF EvidenceInv
<1>5. Four(done) \subseteq F /\ Four(done) \subseteq S
    BY <1>1, <1>2, OneState DEF CandlesSeen
<1>6. /\ SinceFill' = IF row'.st = "pending" THEN {} ELSE F
      /\ SinceStop' = IF row'.st = "pending" THEN {}
                      ELSE IF row'.st = "active" /\ EffectiveStop(row') # EffectiveStop(row) THEN After
                      ELSE S
  <2>1. Widened(row, row', noted, After)
    BY <1>1
  <2> HIDE DEF noted
  <2>. QED BY <2>1 DEF Widened
<1>7. minute # NoBar => Four(minute) \subseteq F /\ Four(minute) \subseteq S
                        /\ Four(minute) \subseteq After
    BY <1>1, <1>2, OneState DEF CandlesSeen
<1>8. Justified(row', SinceFill', SinceStop')
  <2> HIDE DEF F, S
  <2>1. {done.h, done.l} \subseteq F /\ {done.h, done.l} \subseteq S
    BY <1>3, <1>5
  <2>2. Applied(row, row', Favourable(done), Adverse(done)) /\ Justified(row', F, S)
    BY <1>1, <1>2, <1>4, <2>1, CandleReview
  <2>3. Sound(row')
    BY <2>2 DEF Applied
  <2> HIDE DEF noted
  <2>. QED BY <1>1, <1>3, <2>2, <2>3, WitnessJustifies DEF EvidenceInv, F, S
<1> HIDE DEF F, S, noted
<1>9. Active(row') /\ minute # NoBar => Four(minute) \subseteq SinceFill' \cap SinceStop'
    BY <1>6, <1>7, OneState
<1>10. CandlesSeen'
    BY <1>1, <1>9, ActiveNext DEF CandlesSeen, Four
<1>. QED BY <1>8, <1>10

LEMMA EvidenceInit ==
    ASSUME Init PROVE EvidenceInv
<1>1. minute = NoBar /\ done = NoBar
    BY DEF Init
<1>2. ReviewInv
    BY ReviewInit
<1>3. row.st = "pending"
    BY DEF Init
<1>4. Pending(row)
    BY <1>2, <1>3, OneState DEF ReviewInv, Sound
<1>. QED BY <1>1, <1>2, <1>4, PendingIsJustified DEF EvidenceInv, CandlesSeen

\* Steps that leave the row and what is seen as they are, or close it.
LEMMA CandlesStaySeen ==
    ASSUME CandlesSeen, given' = given, Active(row') => Active(row),
           minute' = minute, done' = NoBar \/ (done' = done /\ tape' = tape),
           SinceFill' = SinceFill, SinceStop' = SinceStop
    PROVE  CandlesSeen'
<1>1. Active(row)' => Active(row)
    BY ActiveNext
<1>2. done' = done /\ tape' = tape => After' = After
    BY DEF After
<1>3. Four(minute)' = Four(minute) /\ (done' = done => Four(done)' = Four(done))
    BY DEF Four
<1>. QED BY <1>1, <1>2, <1>3 DEF CandlesSeen

LEMMA EvidenceNext ==
    ASSUME OneWindow, EvidenceInv, [Next]_vars
    PROVE  EvidenceInv'
<1>1. /\ ReviewInv /\ ReviewInv' /\ given \in Cases /\ Sound(row) /\ seen \in History
      /\ late \in BOOLEAN
    BY ReviewNext DEF EvidenceInv, ReviewInv, MarketOK
<1>2. ASSUME Justified(row', SinceFill', SinceStop'), given' = given,
             ByTrades \/ (CandlesSeen => CandlesSeen')
      PROVE  EvidenceInv'
    BY <1>1, <1>2, JustifiedNext DEF EvidenceInv, ByTrades, feed
<1>3. "candles" \in feed => ~ByTrades
    BY <1>1 DEF OneWindow, ByTrades, feed
<1>4. ASSUME NEW p \in Prices, MarketPrints(p) PROVE EvidenceInv'
  <2>1. Printed(p)
    BY <1>1, <1>4, PrintsStep
  <2>2. Justified(row', SinceFill', SinceStop')
    <3>1. SinceFill \subseteq SinceFill' /\ SinceStop \subseteq SinceStop' /\ row' = row
      BY <2>1 DEF Printed
    <3>. QED BY <3>1, MoreEvidence DEF EvidenceInv
  <2>3. ASSUME CandlesSeen PROVE CandlesSeen'
    <3>1. /\ row' = row /\ done' = done /\ given' = given
          /\ Four(minute') \subseteq {p} \cup (IF minute = NoBar THEN {} ELSE Four(minute))
          /\ done # NoBar => After' = After \cup {p}
          /\ Active(row) => SinceFill' = SinceFill \cup {p} /\ SinceStop' = SinceStop \cup {p}
      BY <2>1, OneState DEF Printed
    <3>2. Active(row)' <=> Active(row)
      BY <3>1, ActiveNext
    <3>3. done # NoBar => Four(minute') \subseteq After'
      BY <2>3, <3>1 DEF CandlesSeen
    <3>4. Active(row) => /\ Four(minute') \subseteq SinceFill' \cap SinceStop'
                         /\ done # NoBar => Four(done) \subseteq SinceFill' \cap SinceStop'
      BY <2>3, <3>1 DEF CandlesSeen
    <3>. QED BY <3>1, <3>2, <3>3, <3>4 DEF CandlesSeen, Four
  <2>. QED BY <1>2, <2>1, <2>2, <2>3 DEF Printed
<1>5. CASE CloseMinute
  <2>1. /\ given' = given /\ row' = row /\ minute' = NoBar /\ minute # NoBar
        /\ SinceFill' = SinceFill /\ SinceStop' = SinceStop /\ Four(done') = Four(minute)
    BY <1>1, <1>5, CloseStep
  <2>2. Active(row)' <=> Active(row)
    BY <2>1, ActiveNext
  <2>3. CandlesSeen => CandlesSeen'
    BY <2>1, <2>2 DEF CandlesSeen, Four
  <2>. QED BY <1>2, <2>1, <2>3 DEF EvidenceInv
<1>6. ASSUME NEW g, NEW v \in Prices, ReviewTrade(g, v) PROVE EvidenceInv'
  <2>1. /\ given' = given /\ row.st # "closed" /\ Head(tape) \in Trade
        /\ PricesOf(tape') \in SUBSET Prices
        /\ row' = ApplyTrade(Loaded(row), Head(tape), g, v)
        /\ Widened(row, row', {Head(tape).p, v}, PricesOf(tape'))
    BY <1>1, <1>6, TradeStep
  <2>2. ByTrades
    BY <1>1, <1>6, TradeStep DEF ByTrades
  <2>. QED BY <1>2, <2>1, <2>2, TradeEvidence
<1>7. ASSUME NEW g, NEW v \in Prices, TradeAfterGap(g, v) PROVE EvidenceInv'
  <2>1. given' = given /\ row.st # "closed" /\ {} \in SUBSET Prices
    BY <1>1, <1>7, GapStep
  <2>2. PICK trade \in Trade : /\ row' = ApplyTrade(Loaded(row), trade, g, v)
                               /\ Widened(row, row', {trade.p, v}, {})
    BY <1>1, <1>7, GapStep
  <2>3. ByTrades
    BY <1>1, <1>7, GapStep DEF ByTrades
  <2>. QED BY <1>2, <2>1, <2>2, <2>3, TradeEvidence
<1>8. ASSUME NEW g, ReviewCandles(g) PROVE EvidenceInv'
  <2>1. given' = given /\ CandlesSeen
    BY <1>1, <1>3, <1>8, CandleStep DEF EvidenceInv
  <2>. QED BY <1>2, <1>8, <2>1, CandleEvidence
<1>9. ASSUME given' = given, seen' = seen, minute' = minute, Active(row') => Active(row),
             done' = NoBar \/ (done' = done /\ tape' = tape),
             Justified(row', SinceFill, SinceStop)
      PROVE  EvidenceInv'
  <2>1. SinceFill' = SinceFill /\ SinceStop' = SinceStop
    BY <1>9 DEF SinceFill, SinceStop
  <2>. QED BY <1>2, <1>9, <2>1, CandlesStaySeen
<1>10. ASSUME given' = given, row.st # "closed", row' = Expire(Loaded(row), late)
       PROVE  (Active(row') => Active(row)) /\ Justified(row', SinceFill, SinceStop)
  <2>1. Justified(row, SinceFill, SinceStop)
    BY DEF EvidenceInv
  <2>. QED BY <1>1, <1>10, <2>1, TimeKeeps
<1>11. CASE Lapse
    BY <1>9, <1>11 DEF Lapse, unseen, EvidenceInv
<1>12. CASE EndOfTrades
    BY <1>9, <1>10, <1>12 DEF EndOfTrades
<1>13. CASE ReviewTime
    BY <1>9, <1>10, <1>13 DEF ReviewTime
<1>14. CASE AdverseEvent
  <2>1. given' = given /\ seen' = seen /\ minute' = minute /\ done' = done /\ tape' = tape
    BY <1>14 DEF AdverseEvent, unseen
  <2>. QED BY <1>1, <1>9, <1>14, <2>1, AdverseKeeps, OneState
<1>15. CASE Restart
  <2>1. given' = given /\ seen' = seen /\ minute' = minute /\ done' = done /\ tape' = tape
    BY <1>15 DEF Restart, unseen
  <2>2. Active(row) /\ Active(row') /\ row'.tp1 = row.tp1
    BY <1>1, <1>15, RestartKeeps
  <2>3. Justified(row', SinceFill, SinceStop)
    BY <2>2, ActiveIsJustified DEF EvidenceInv
  <2>. QED BY <1>9, <2>1, <2>2, <2>3
<1>16. CASE UNCHANGED vars
    BY <1>9, <1>16 DEF vars, EvidenceInv
<1>. QED BY <1>4, <1>5, <1>6, <1>7, <1>8, <1>11, <1>12, <1>13, <1>14, <1>15, <1>16 DEF Next

\* Where one minute is never read both by candles and by trades, a row is booked at a
\* target only if a price has reached it since the fill, and at a stop only if a price
\* has breached it since it was last moved, or, the row filled by a candle, one of that
\* candle's prices has, which may be older than the fill; for every order of trades,
\* candles, mark prices, gaps, trailing and restarts (_apply_price_tick,
\* _apply_candle_rows).
THEOREM ExitsJustified ==
    ASSUME OneWindow PROVE Spec => []ExitJustified
<1>1. Init => EvidenceInv
    BY EvidenceInit
<1>2. EvidenceInv /\ [Next]_vars => EvidenceInv'
    BY EvidenceNext
<1>3. EvidenceInv => ExitJustified
    BY DEF EvidenceInv, Justified, ExitJustified, SinceFill, SinceStop
<1>. QED BY <1>1, <1>2, <1>3, PTL DEF Spec

\* Where trades are the only source of prices, nothing older than the fill is ever
\* evidence: a row is booked at a level only by a price that came after the fill, as
\* limit_entry.py says (_apply_price_tick).
THEOREM TradesExitAfterFill ==
    ASSUME \A k \in Cases : "candles" \notin k.feed PROVE Spec => []ExitAfterFill
<1> DEFINE NoCandle == EvidenceInv /\ seen.bar = {} /\ seen.wick = {}
<1>1. Init => NoCandle
  <2>1. Init => seen.bar = {} /\ seen.wick = {}
    BY DEF Init
  <2>. QED BY <2>1, EvidenceInit
<1>2. ASSUME NoCandle, [Next]_vars PROVE NoCandle'
  <2>0. seen.bar = {} /\ seen.wick = {}
    BY <1>2
  <2>1. EvidenceInv' /\ "candles" \notin feed /\ seen \in History
    BY <1>2, EvidenceNext DEF OneWindow, EvidenceInv, ReviewInv, feed
  <2>2. ASSUME NEW p \in Prices, MarketPrints(p) PROVE seen'.bar = {} /\ seen'.wick = {}
    BY <1>2, <2>1, <2>2 DEF MarketPrints, History
  <2>3. CASE CloseMinute
    BY <1>2, <2>1, <2>3 DEF CloseMinute, History
  <2>4. ASSUME NEW n, NEW noted, NEW later, Witness(row, n, noted, {}, later)
        PROVE  seen'.bar = {} /\ seen'.wick = {}
    BY <1>2, <2>1, <2>4 DEF Witness, History
  <2>5. ASSUME NEW g, NEW v \in Prices, ReviewTrade(g, v)
        PROVE  seen'.bar = {} /\ seen'.wick = {}
    BY <2>4, <2>5 DEF ReviewTrade
  <2>6. ASSUME NEW g, NEW v \in Prices, TradeAfterGap(g, v)
        PROVE  seen'.bar = {} /\ seen'.wick = {}
    BY <2>4, <2>6 DEF TradeAfterGap
  <2>7. ASSUME NEW g PROVE ~ReviewCandles(g)
    BY <2>1 DEF ReviewCandles
  <2>8. CASE \/ Lapse \/ EndOfTrades \/ ReviewTime \/ AdverseEvent \/ Restart
             \/ UNCHANGED vars
    <3>1. seen' = seen
      BY <2>8 DEF Lapse, EndOfTrades, ReviewTime, AdverseEvent, Restart, unseen, vars
    <3>. QED BY <2>0, <2>1, <3>1
  <2>9. CASE Next
    <3>1. \/ \E p \in Prices : MarketPrints(p)
          \/ \E g \in Gates, m \in Prices : ReviewTrade(g, m)
          \/ \E g \in Gates, m \in Prices : TradeAfterGap(g, m)
          \/ CloseMinute \/ Lapse \/ EndOfTrades \/ ReviewTime \/ AdverseEvent \/ Restart
      BY <2>7, <2>9 DEF Next
    <3>. QED BY <2>1, <2>2, <2>3, <2>5, <2>6, <2>8, <3>1
  <2>. QED BY <1>2, <2>8, <2>9
<1>3. NoCandle => ExitAfterFill
    BY DEF EvidenceInv, Justified, ExitAfterFill, SinceFill, SinceStop
<1>. QED BY <1>1, <1>2, <1>3, PTL DEF Spec

-----------------------------------------------------------------------------
(* Nothing an open row's window has shown was beyond its levels.           *)

\* A price the only working window has still to show.
Waits(p) ==
    IF feed = {"trades"} THEN p \in PricesOf(tape)
    ELSE Within(p, minute) \/ Within(p, done)

StopHeld(p) == Waits(p) \/ ~Breaches(p, EffectiveStop(row))
TargetAhead(p) == Waits(p) \/ ~Reaches(p, plan.tp2)

OnlyWindow == feed \in {{"trades"}, {"candles"}}

NothingMissed ==
    /\ done # NoBar /\ feed = {"candles"} => \A p \in After : Within(p, minute)
    /\ Active(row) /\ OnlyWindow =>
         (\A p \in SinceStop : StopHeld(p)) /\ (\A p \in SinceFill : TargetAhead(p))

\* The inductive invariant.
MissInv == ReviewInv /\ NothingMissed

\* Waits, as it is after a step.
WaitsNext(p) ==
    IF feed = {"trades"} THEN p \in PricesOf(tape')
    ELSE Within(p, minute') \/ Within(p, done')

LEMMA MissedNext ==
    ASSUME given' = given,
           done' # NoBar /\ feed = {"candles"} => \A p \in After' : Within(p, minute'),
           Active(row') /\ OnlyWindow =>
             /\ \A p \in SinceStop' : WaitsNext(p) \/ ~Breaches(p, EffectiveStop(row'))
             /\ \A p \in SinceFill' : WaitsNext(p) \/ ~Reaches(p, plan.tp2)
    PROVE  NothingMissed'
<1>1. Active(row)' <=> Active(row')
    BY ActiveNext
<1>2. ASSUME NEW p PROVE /\ StopHeld(p)' <=> WaitsNext(p) \/ ~Breaches(p, EffectiveStop(row'))
                         /\ TargetAhead(p)' <=> WaitsNext(p) \/ ~Reaches(p, plan.tp2)
    BY DEF StopHeld, TargetAhead, Waits, WaitsNext, Within, Breaches, Reaches, EffectiveStop,
           plan, feed
<1>3. OnlyWindow' <=> OnlyWindow
    BY DEF OnlyWindow, feed
<1>4. done' # NoBar /\ feed' = {"candles"} => \A p \in After' : Within(p, minute)'
    BY DEF Within, feed
<1>. QED BY <1>1, <1>2, <1>3, <1>4 DEF NothingMissed

LEMMA PrintsMiss ==
    ASSUME MissInv, NEW p \in Prices, MarketPrints(p) PROVE NothingMissed'
<1>1. Printed(p) /\ ReviewInv
    BY PrintsStep DEF MissInv
<1>2. given' = given /\ row' = row /\ done' = done /\ seen \in History
    BY <1>1 DEF Printed, ReviewInv
<1>3. WaitsNext(p)
    BY <1>1 DEF WaitsNext, Printed
<1>4. ASSUME NEW q \in Nat, Waits(q) PROVE WaitsNext(q)
    BY <1>1, <1>2, <1>4 DEF Waits, WaitsNext, Printed
<1>5. ASSUME done' # NoBar, feed = {"candles"}, NEW q \in After' PROVE Within(q, minute')
  <2>1. After' = After \cup {p} /\ done # NoBar
    BY <1>1, <1>2, <1>5 DEF Printed
  <2>2. q = p \/ (q \in After /\ Within(q, minute))
    BY <1>5, <2>1 DEF MissInv, NothingMissed
  <2>3. After \subseteq Nat
    BY <1>1, <2>1, RestIs, PricesArePositive DEF After, ReviewInv, MarketOK
  <2>. QED BY <1>1, <2>2, <2>3 DEF Printed
<1>6. ASSUME Active(row'), OnlyWindow
      PROVE  /\ \A q \in SinceStop' : WaitsNext(q) \/ ~Breaches(q, EffectiveStop(row'))
             /\ \A q \in SinceFill' : WaitsNext(q) \/ ~Reaches(q, plan.tp2)
  <2>1. SinceFill' = SinceFill \cup {p} /\ SinceStop' = SinceStop \cup {p} /\ Active(row)
    BY <1>1, <1>2, <1>6, OneState DEF Printed
  <2>2. SinceFill \subseteq Nat /\ SinceStop \subseteq Nat
    BY <1>2 DEF History, SinceFill, SinceStop
  <2>3. /\ \A q \in SinceStop : Waits(q) \/ ~Breaches(q, EffectiveStop(row))
        /\ \A q \in SinceFill : Waits(q) \/ ~Reaches(q, plan.tp2)
    BY <1>6, <2>1 DEF MissInv, NothingMissed, StopHeld, TargetAhead
  <2>. QED BY <1>2, <1>3, <1>4, <2>1, <2>2, <2>3
<1>. QED BY <1>2, <1>5, <1>6, MissedNext

LEMMA CloseMiss ==
    ASSUME MissInv, CloseMinute PROVE NothingMissed'
<1>1. /\ given' = given /\ row' = row /\ tape' = tape /\ done = NoBar /\ After' = {}
      /\ SinceFill' = SinceFill /\ SinceStop' = SinceStop
      /\ \A q : Within(q, minute) => Within(q, done')
    BY CloseStep DEF MissInv
<1>2. ASSUME NEW q, Waits(q) PROVE WaitsNext(q)
  <2>1. ~Within(q, done)
    BY <1>1 DEF Within
  <2>. QED BY <1>1, <1>2, <2>1 DEF Waits, WaitsNext
<1>3. Active(row) /\ OnlyWindow =>
        /\ \A q \in SinceStop : Waits(q) \/ ~Breaches(q, EffectiveStop(row))
        /\ \A q \in SinceFill : Waits(q) \/ ~Reaches(q, plan.tp2)
    BY DEF MissInv, NothingMissed, StopHeld, TargetAhead
<1>. QED BY <1>1, <1>2, <1>3, MissedNext

\* A trade that has been reviewed and left the row open was short of its levels.
LEMMA TradeMiss ==
    ASSUME MissInv, NEW g, NEW v \in Prices, ReviewTrade(g, v) PROVE NothingMissed'
<1> DEFINE p == Head(tape).p
           later == PricesOf(tape')
<1>1. /\ given' = given /\ row.st # "closed" /\ "trades" \in feed
      /\ Head(tape) \in Trade /\ v \in ReviewPrices(p)
      /\ PricesOf(tape) = {p} \cup later /\ later \subseteq Prices
      /\ row' = ApplyTrade(Loaded(row), Head(tape), g, v)
      /\ Widened(row, row', {p, v}, later)
    BY TradeStep DEF MissInv
<1>2. p \in Prices /\ p \in Nat \ {0}
    BY <1>1, PricesArePositive DEF Trade
<1>3. ReviewInv /\ given \in Cases /\ Sound(row) /\ seen \in History
    BY DEF MissInv, ReviewInv
<1>4. {p, v} \in SUBSET (Nat \ {0}) /\ later \in SUBSET (Nat \ {0})
    BY <1>1, <1>2, PricesArePositive
<1> HIDE DEF p, later
<1>5. /\ SinceFill' = IF row'.st = "pending" THEN {}
                      ELSE (IF row.st = "active" THEN SinceFill ELSE later) \cup {p, v}
      /\ SinceStop' = IF row'.st = "pending" THEN {}
                      ELSE IF row'.st = "active" /\ EffectiveStop(row') # EffectiveStop(row) THEN later
                      ELSE (IF row.st = "active" THEN SinceStop ELSE later) \cup {p, v}
    BY <1>1 DEF Widened
<1>6. ASSUME Active(row'), OnlyWindow
      PROVE  /\ \A q \in SinceStop' : WaitsNext(q) \/ ~Breaches(q, EffectiveStop(row'))
             /\ \A q \in SinceFill' : WaitsNext(q) \/ ~Reaches(q, plan.tp2)
  <2>1. feed = {"trades"} /\ v = p
    BY <1>1, <1>6 DEF OnlyWindow, ReviewPrices
  <2>2. Applied(row, row', p, p)
    BY <1>1, <1>2, <1>3, <2>1, AnyPrices, TradeReview
  <2>3. ~Breaches(p, EffectiveStop(row)) /\ ~Reaches(p, plan.tp2)
    BY <1>6, <2>2 DEF Applied
  <2>4. \A q : WaitsNext(q) <=> q \in later
    BY <2>1 DEF WaitsNext, later
  <2>5. row.st = "active" =>
          /\ \A q \in SinceStop : q \in {p} \cup later \/ ~Breaches(q, EffectiveStop(row))
          /\ \A q \in SinceFill : q \in {p} \cup later \/ ~Reaches(q, plan.tp2)
    <3>1. row.st = "active" => Active(row)
      BY <1>3, OneState DEF Sound
    <3>2. \A q : Waits(q) <=> q \in {p} \cup later
      BY <1>1, <2>1 DEF Waits
    <3>. QED BY <1>6, <3>1, <3>2 DEF MissInv, NothingMissed, StopHeld, TargetAhead
  <2>6. row'.st = "active"
    BY <1>6, OneState
  <2>7. ASSUME NEW q \in SinceFill' PROVE WaitsNext(q) \/ ~Reaches(q, plan.tp2)
    <3>1. q \in (IF row.st = "active" THEN SinceFill ELSE later) \cup {p, v}
      BY <1>5, <2>6, <2>7
    <3>2. q = p \/ q \in later \/ (row.st = "active" /\ q \in SinceFill)
      BY <2>1, <3>1
    <3>. QED BY <2>3, <2>4, <2>5, <3>2
  <2>8. ASSUME NEW q \in SinceStop' PROVE WaitsNext(q) \/ ~Breaches(q, EffectiveStop(row'))
    <3>1. CASE EffectiveStop(row') # EffectiveStop(row)
      BY <1>5, <2>4, <2>6, <2>8, <3>1
    <3>2. CASE EffectiveStop(row') = EffectiveStop(row)
      <4>1. q \in (IF row.st = "active" THEN SinceStop ELSE later) \cup {p, v}
        BY <1>5, <2>6, <2>8, <3>2
      <4>2. q = p \/ q \in later \/ (row.st = "active" /\ q \in SinceStop)
        BY <2>1, <4>1
      <4>. QED BY <2>3, <2>4, <2>5, <3>2, <4>2
    <3>. QED BY <3>1, <3>2
  <2>. QED BY <2>7, <2>8
<1>7. feed # {"candles"}
    BY <1>1
<1>. QED BY <1>1, <1>6, <1>7, MissedNext

\* A candle that left the row open was short of its levels from low to high.
LEMMA CandleMiss ==
    ASSUME MissInv, NEW g, ReviewCandles(g) PROVE NothingMissed'
<1> DEFINE noted == IF row.st = "pending" THEN Four(done) ELSE {}
           best == Favourable(done)
           worst == Adverse(done)
<1>1. /\ given' = given /\ minute' = minute /\ row.st # "closed" /\ "candles" \in feed
      /\ done \in ClosedBar /\ Ordered(done) /\ done # NoBar /\ done' = NoBar
      /\ After \subseteq Prices
      /\ row' = Expire(ApplyCandle(Loaded(row), done, g), late)
      /\ Widened(row, row', noted, After)
    BY CandleStep DEF MissInv
<1>2. ReviewInv /\ given \in Cases /\ Sound(row) /\ seen \in History /\ late \in BOOLEAN
    BY DEF MissInv, ReviewInv, MarketOK
<1>3. noted \in SUBSET (Nat \ {0}) /\ After \in SUBSET (Nat \ {0})
    BY <1>1, PricesArePositive DEF Four, ClosedBar
<1>4. /\ done.l \in Nat \ {0} /\ done.h \in Nat \ {0}
      /\ {done.h, done.l} \subseteq Nat \ {0}
    BY <1>1, PricesArePositive DEF ClosedBar
<1>5. Applied(row, row', best, worst)
  <2>1. Active(row) => Justified(row, Nat \ {0}, Nat \ {0})
    BY <1>2, AnyPrices
  <2>2. Applied(row, Expire(ApplyCandle(Loaded(row), done, g), late), best, worst)
    BY <1>1, <1>2, <1>4, <2>1, CandleReview
  <2>. QED BY <1>1, <2>2
<1>6. \A q \in noted : Within(q, done)
    BY <1>1, FourWithin
<1> HIDE DEF noted
<1>7. /\ SinceFill' = IF row'.st = "pending" THEN {}
                      ELSE (IF row.st = "active" THEN SinceFill ELSE After) \cup noted
      /\ SinceStop' = IF row'.st = "pending" THEN {}
                      ELSE IF row'.st = "active" /\ EffectiveStop(row') # EffectiveStop(row) THEN After
                      ELSE (IF row.st = "active" THEN SinceStop ELSE After) \cup noted
    BY <1>1 DEF Widened
<1>8. ASSUME Active(row'), OnlyWindow
      PROVE  /\ \A q \in SinceStop' : WaitsNext(q) \/ ~Breaches(q, EffectiveStop(row'))
             /\ \A q \in SinceFill' : WaitsNext(q) \/ ~Reaches(q, plan.tp2)
  <2>1. feed = {"candles"}
    BY <1>1, <1>8 DEF OnlyWindow
  <2>2. ~Breaches(worst, EffectiveStop(row)) /\ ~Reaches(best, plan.tp2)
    BY <1>5, <1>8 DEF Applied
  <2>3. EffectiveStop(row) \in Nat /\ plan.tp2 \in Nat
    <3>1. Pending(row) \/ Active(row)
      BY <1>1, <1>2, OneState DEF Sound
    <3>2. row \in Row /\ plan.stop \in Nat
      BY <1>2, <3>1, OneState, PlanFacts
    <3>3. Pending(row) => EffectiveStop(row) \in Nat
      BY <3>2 DEF Pending, Untouched, EffectiveStop
    <3>. QED BY <1>2, <3>1, <3>2, <3>3, EffectiveStopOf, PlanFacts DEF Active
  <2>4. ASSUME NEW q \in Nat, Within(q, done)
        PROVE  ~Breaches(q, EffectiveStop(row)) /\ ~Reaches(q, plan.tp2)
    BY <1>4, <2>2, <2>3, <2>4 DEF Within, Breaches, Reaches, Favourable, Adverse
  <2>5. \A q : WaitsNext(q) <=> Within(q, minute)
    BY <1>1, <2>1 DEF WaitsNext, Within
  <2>6. \A q \in After : WaitsNext(q)
    BY <1>1, <2>1, <2>5 DEF MissInv, NothingMissed
  <2>7. row.st = "active" =>
          /\ \A q \in SinceStop : WaitsNext(q) \/ ~Breaches(q, EffectiveStop(row))
          /\ \A q \in SinceFill : WaitsNext(q) \/ ~Reaches(q, plan.tp2)
    <3>1. row.st = "active" => Active(row)
      BY <1>2, OneState DEF Sound
    <3>2. \A q : Waits(q) <=> WaitsNext(q) \/ Within(q, done)
      BY <2>1, <2>5 DEF Waits
    <3>3. SinceFill \subseteq Nat /\ SinceStop \subseteq Nat
      BY <1>2 DEF History, SinceFill, SinceStop
    <3>. QED BY <1>8, <2>4, <3>1, <3>2, <3>3 DEF MissInv, NothingMissed, StopHeld, TargetAhead
  <2>8. row'.st = "active" /\ noted \subseteq Nat
    BY <1>3, <1>8, OneState
  <2>9. ASSUME NEW q \in SinceFill' PROVE WaitsNext(q) \/ ~Reaches(q, plan.tp2)
    <3>1. q \in (IF row.st = "active" THEN SinceFill ELSE After) \cup noted
      BY <1>7, <2>8, <2>9
    <3>2. q \in noted \/ q \in After \/ (row.st = "active" /\ q \in SinceFill)
      BY <3>1
    <3>. QED BY <1>6, <2>4, <2>6, <2>7, <2>8, <3>2
  <2>10. ASSUME NEW q \in SinceStop' PROVE WaitsNext(q) \/ ~Breaches(q, EffectiveStop(row'))
    <3>1. CASE EffectiveStop(row') # EffectiveStop(row)
      BY <1>7, <2>6, <2>8, <2>10, <3>1
    <3>2. CASE EffectiveStop(row') = EffectiveStop(row)
      <4>1. q \in (IF row.st = "active" THEN SinceStop ELSE After) \cup noted
        BY <1>7, <2>8, <2>10, <3>2
      <4>2. q \in noted \/ q \in After \/ (row.st = "active" /\ q \in SinceStop)
        BY <4>1
      <4>. QED BY <1>6, <2>4, <2>6, <2>7, <2>8, <3>2, <4>2
    <3>. QED BY <3>1, <3>2
  <2>. QED BY <2>9, <2>10
<1>. QED BY <1>1, <1>8, MissedNext

\* Trades after a gap are no window of their own.
LEMMA GapMiss ==
    ASSUME MissInv, NEW g, NEW v \in Prices, TradeAfterGap(g, v) PROVE NothingMissed'
<1>1. given' = given /\ "gap" \in feed
    BY GapStep DEF MissInv
<1>2. ~OnlyWindow /\ feed # {"candles"}
    BY <1>1 DEF OnlyWindow
<1>. QED BY <1>1, <1>2, MissedNext

LEMMA MissNext ==
    ASSUME MissInv, [Next]_vars PROVE MissInv'
<1>1. ReviewInv /\ ReviewInv' /\ given \in Cases /\ Sound(row)
    BY ReviewNext DEF MissInv, ReviewInv
<1>2. NothingMissed' => MissInv'
    BY <1>1 DEF MissInv
<1>3. Active(row) /\ OnlyWindow =>
        /\ \A q \in SinceStop : Waits(q) \/ ~Breaches(q, EffectiveStop(row))
        /\ \A q \in SinceFill : Waits(q) \/ ~Reaches(q, plan.tp2)
    BY DEF MissInv, NothingMissed, StopHeld, TargetAhead
<1>4. done # NoBar /\ feed = {"candles"} => \A p \in After : Within(p, minute)
    BY DEF MissInv, NothingMissed
<1>5. ASSUME given' = given, seen' = seen, minute' = minute,
             done' = NoBar \/ (done' = done /\ tape' = tape),
             Active(row') /\ OnlyWindow =>
               /\ \A q : Waits(q) => WaitsNext(q)
               /\ Active(row)
               /\ \A q \in SinceStop : Breaches(q, EffectiveStop(row'))
                                         => Breaches(q, EffectiveStop(row))
      PROVE  MissInv'
  <2>1. done' = done /\ tape' = tape => After' = After
    BY DEF After
  <2>2. SinceFill' = SinceFill /\ SinceStop' = SinceStop
    BY <1>5 DEF SinceFill, SinceStop
  <2>. QED BY <1>2, <1>3, <1>4, <1>5, <2>1, <2>2, MissedNext
<1>6. ASSUME given' = given, row.st # "closed", row' = Expire(Loaded(row), late)
      PROVE  Active(row') => Active(row) /\ EffectiveStop(row') = EffectiveStop(row)
    BY <1>1, <1>6, TimeKeeps
<1>7. ASSUME done' = done, tape' = tape, minute' = minute, NEW q, Waits(q) PROVE WaitsNext(q)
    BY <1>7 DEF Waits, WaitsNext
<1>8. CASE Lapse
    BY <1>5, <1>7, <1>8, OneState DEF Lapse, unseen
<1>9. CASE EndOfTrades
  <2>1. /\ given' = given /\ row.st # "closed" /\ row' = Expire(Loaded(row), late)
        /\ seen' = seen /\ minute' = minute /\ tape' = tape /\ done' = NoBar
        /\ "trades" \in feed
    BY <1>9 DEF EndOfTrades
  <2>2. ASSUME OnlyWindow, NEW q, Waits(q) PROVE WaitsNext(q)
    BY <2>1, <2>2 DEF OnlyWindow, Waits, WaitsNext
  <2>. QED BY <1>5, <1>6, <2>1, <2>2
<1>10. CASE ReviewTime
  <2>1. /\ given' = given /\ row.st # "closed" /\ row' = Expire(Loaded(row), late)
        /\ seen' = seen /\ minute' = minute /\ tape' = <<>> /\ done' = NoBar
        /\ ("candles" \in feed /\ done = NoBar) \/ "none" \in feed
    BY <1>10 DEF ReviewTime
  <2>2. ASSUME OnlyWindow, NEW q, Waits(q) PROVE WaitsNext(q)
    BY <2>1, <2>2 DEF OnlyWindow, Waits, WaitsNext
  <2>. QED BY <1>5, <1>6, <2>1, <2>2
<1>11. CASE AdverseEvent
  <2>1. given' = given /\ seen' = seen /\ minute' = minute /\ done' = done /\ tape' = tape
    BY <1>11 DEF AdverseEvent, unseen
  <2>. QED BY <1>1, <1>5, <1>11, <2>1, AdverseKeeps, OneState
<1>12. CASE Restart
  <2>1. given' = given /\ seen' = seen /\ minute' = minute /\ done' = done /\ tape' = tape
    BY <1>12 DEF Restart, unseen
  <2>2. /\ Active(row) /\ Reaches(EffectiveStop(row), EffectiveStop(row'))
        /\ EffectiveStop(row') \in Nat /\ EffectiveStop(row) \in Nat
    BY <1>1, <1>12, RestartKeeps
  <2>3. SinceStop \subseteq Nat
    BY <1>1 DEF ReviewInv, History, SinceStop
  <2>4. \A q \in SinceStop : Breaches(q, EffectiveStop(row')) => Breaches(q, EffectiveStop(row))
    BY <1>1, <2>2, <2>3, ReachesOrder
  <2>. QED BY <1>5, <1>7, <2>1, <2>2, <2>4
<1>13. CASE UNCHANGED vars
    BY <1>5, <1>7, <1>13 DEF vars
<1>. QED BY <1>2, <1>8, <1>9, <1>10, <1>11, <1>12, <1>13,
            PrintsMiss, CloseMiss, TradeMiss, GapMiss, CandleMiss DEF Next

\* Where trades, or closed candles, are the only window, a row that is still open once
\* everything has been reviewed has touched neither its stop nor its last target since
\* the fill, for every order of prints, closes, reviews, moves of the stop and restarts
\* (last_checked_at in _review_symbol, on_agg_trade).
THEOREM NoExitMissed == Spec => []NoMissedExit
<1>1. Init => MissInv
  <2>1. Init => ReviewInv
    BY ReviewInit
  <2>2. Init => done = NoBar /\ row.st = "pending"
    BY DEF Init
  <2>. QED BY <2>1, <2>2, OneState DEF MissInv, NothingMissed
<1>2. MissInv /\ [Next]_vars => MissInv'
    BY MissNext
<1>3. MissInv => NoMissedExit
  <2>1. SUFFICES ASSUME MissInv, row.st = "active",
                        \/ (feed = {"trades"} /\ tape = <<>>)
                        \/ (feed = {"candles"} /\ minute = NoBar /\ done = NoBar)
                 PROVE  /\ \A p \in SinceStop : ~Breaches(p, EffectiveStop(row))
                        /\ \A p \in SinceFill : ~Reaches(p, plan.tp2)
    BY DEF NoMissedExit
  <2>2. Active(row) /\ OnlyWindow
    BY <2>1, OneState DEF MissInv, ReviewInv, Sound, OnlyWindow
  <2>3. ASSUME NEW p PROVE ~Waits(p)
    <3>1. CASE feed = {"trades"} /\ tape = <<>>
      BY <3>1 DEF Waits, PricesOf
    <3>2. CASE feed = {"candles"} /\ minute = NoBar /\ done = NoBar
      BY <3>2 DEF Waits, Within
    <3>. QED BY <2>1, <3>1, <3>2
  <2>. QED BY <2>1, <2>2, <2>3 DEF MissInv, NothingMissed, StopHeld, TargetAhead
<1>. QED BY <1>1, <1>2, <1>3, PTL DEF Spec

-----------------------------------------------------------------------------
(* A candle and the trades it may stand for.                               *)

Tick(r, p) == IF r.st = "active" THEN PriceTick(r, p) ELSE r
InOrder(r, a, b, c, d) == Tick(Tick(Tick(Tick(r, a), b), c), d)

\* Once closed, a row is not reviewed.
LEMMA ClosedStays ==
    ASSUME NEW r, r.st = "closed", NEW a, NEW b, NEW c, NEW d
    PROVE  /\ Tick(r, a) = r
           /\ InOrder(r, a, b, c, d) = r
    BY DEF Tick, InOrder

\* A trade short of the stop, of the last target and of a TP1 not yet marked.
LEMMA TickStays ==
    ASSUME given \in Cases, NEW r, Active(r), NEW p \in Nat,
           ~Breaches(p, EffectiveStop(r)), ~Reaches(p, plan.tp2),
           Reaches(p, plan.tp1) => r.tp1
    PROVE  Tick(r, p) = r
<1>1. r.st = "active" /\ (plan.single => ~r.tp1)
    BY DEF Active, Filled
<1>2. r.tp1 => MarkTp1(r) = r
    BY DEF MarkTp1
<1>. QED BY <1>1, <1>2 DEF Tick, PriceTick

\* A trade at or beyond the stop.
LEMMA TickStops ==
    ASSUME NEW r, Active(r), NEW p, Breaches(p, EffectiveStop(r))
    PROVE  Tick(r, p) = Close(r, StopCloseReason(r)) /\ Tick(r, p).st = "closed"
<1>1. Tick(r, p) = Close(r, StopCloseReason(r))
    BY OneState DEF Tick, PriceTick
<1>. QED BY <1>1, StopReasonIs DEF Closed

\* A closed candle from its extremes: they bound its first and its last price.
LEMMA ExtremesBound ==
    ASSUME given \in Cases, NEW b \in ClosedBar, Ordered(b)
    PROVE  /\ {b.o, b.c, Favourable(b), Adverse(b)} \subseteq Nat
           /\ \A p \in {b.o, b.c, Favourable(b), Adverse(b)} :
                Reaches(Favourable(b), p) /\ Reaches(p, Adverse(b))
<1>1. b.o \in Nat /\ b.h \in Nat /\ b.l \in Nat /\ b.c \in Nat
    BY PricesArePositive DEF ClosedBar
<1>. QED BY <1>1 DEF Ordered, Favourable, Adverse, Reaches

\* What lies between the extremes touches no level they do not touch.
LEMMA BetweenExtremes ==
    ASSUME given \in Cases, NEW best \in Nat, NEW worst \in Nat, NEW p \in Nat,
           NEW level \in Nat, Reaches(best, p), Reaches(p, worst)
    PROVE  /\ ~Breaches(worst, level) => ~Breaches(p, level)
           /\ ~Reaches(best, level) => ~Reaches(p, level)
    BY ReachesOrder

\* Neither extreme touches a level, but perhaps a TP1 already marked: nothing happens.
LEMMA AllStay ==
    ASSUME given \in Cases, NEW r, Active(r),
           NEW a \in Nat, NEW b \in Nat, NEW c \in Nat, NEW d \in Nat,
           \A p \in {a, b, c, d} : /\ ~Breaches(p, EffectiveStop(r)) /\ ~Reaches(p, plan.tp2)
                                   /\ Reaches(p, plan.tp1) => r.tp1
    PROVE  InOrder(r, a, b, c, d) = r
<1>1. \A p \in {a, b, c, d} : Tick(r, p) = r
    BY TickStays
<1>. QED BY <1>1 DEF InOrder

\* The first price decides, or the second after it.
LEMMA FirstDecides ==
    ASSUME NEW r, NEW a, NEW why, Tick(r, a).st = "closed", Tick(r, a).why = why
    PROVE  \A b, c, d : InOrder(r, a, b, c, d).why = why
<1> DEFINE x == Tick(r, a)
<1>1. x.st = "closed" /\ x.why = why
    OBVIOUS
<1>2. ASSUME NEW b, NEW c, NEW d PROVE InOrder(r, a, b, c, d) = Tick(Tick(Tick(x, b), c), d)
    BY DEF InOrder
<1> HIDE DEF x
<1>3. ASSUME NEW b PROVE Tick(x, b) = x
    BY <1>1, ClosedStays
<1>. QED BY <1>1, <1>2, <1>3

LEMMA SecondDecides ==
    ASSUME NEW r, NEW a, NEW b, NEW why, NEW x, x = Tick(r, a),
           Tick(x, b).st = "closed", Tick(x, b).why = why
    PROVE  \A c, d : InOrder(r, a, b, c, d).why = why
<1> DEFINE y == Tick(x, b)
<1>1. y.st = "closed" /\ y.why = why
    OBVIOUS
<1>2. ASSUME NEW c, NEW d PROVE InOrder(r, a, b, c, d) = Tick(Tick(y, c), d)
    BY DEF InOrder
<1> HIDE DEF y
<1>3. ASSUME NEW c PROVE Tick(y, c) = y
    BY <1>1, ClosedStays
<1>. QED BY <1>1, <1>2, <1>3

\* The first trade at the last target, before any stop, closes there.
LEMMA TargetTick ==
    ASSUME given \in Cases, NEW r, Active(r), NEW p \in Nat,
           ~Breaches(p, EffectiveStop(r))
    PROVE  /\ plan.single /\ Reaches(p, plan.tp1) =>
                Tick(r, p).st = "closed" /\ Tick(r, p).why = "tp1_hit"
           /\ ~plan.single /\ Reaches(p, plan.tp2) =>
                Tick(r, p).st = "closed" /\ Tick(r, p).why = "tp2_hit"
<1>1. r.st = "active" /\ r \in Row /\ MarkTp1(r) \in Row
    BY OneState, MarkTp1Keeps DEF Marked
<1>2. Ended(r, "tp1_hit", Close(r, "tp1_hit"))
    BY <1>1, CloseEnds DEF Reasons
<1>3. Ended(MarkTp1(r), "tp2_hit", Close(MarkTp1(r), "tp2_hit"))
    BY <1>1, CloseEnds DEF Reasons
<1>4. plan.single \in BOOLEAN
    BY PlanFacts
<1>. QED BY <1>1, <1>2, <1>3, <1>4 DEF Ended, Tick, PriceTick

\* A trade short of the stop and of the last target, whether or not it marks TP1, leaves
\* a plan with two targets open, with the stop as it was or at the entry.
LEMMA ShortOfTp2 ==
    ASSUME given \in Cases, NEW r, Active(r), NEW p \in Nat, ~plan.single,
           ~Breaches(p, EffectiveStop(r)), ~Reaches(p, plan.tp2)
    PROVE  LET x == Tick(r, p) IN
           Active(x) /\ EffectiveStop(x) \in {EffectiveStop(r), r.entry}
<1>1. Marked(r, MarkTp1(r)) /\ r.st = "active" /\ r.why = "open"
    BY MarkTp1Keeps, OneState DEF Active, Filled
<1>2. Active(MarkTp1(r))
    BY <1>1 DEF Marked, Active, Filled
<1>3. Tick(r, p) \in {r, MarkTp1(r)}
    BY <1>1 DEF Tick, PriceTick
<1>. QED BY <1>1, <1>2, <1>3 DEF Marked

Agrees(r, b, v) ==
    \/ v.why = "ambiguous_exit"
    \/ v.why = InOrder(r, b.o, Favourable(b), Adverse(b), b.c).why
    \/ v.why = InOrder(r, b.o, Adverse(b), Favourable(b), b.c).why
    \/ v.st = "active" /\ v.tp1 /\ ~r.tp1
    \/ Reaches(r.entry, plan.tp2)

LEMMA CandleAgrees ==
    ASSUME given \in Cases, NEW r, Active(r), NEW b \in ClosedBar, Ordered(b), NEW g
    PROVE  Agrees(r, b, ApplyCandle(r, b, g))
<1> DEFINE best == Favourable(b)
           worst == Adverse(b)
           s == EffectiveStop(r)
           stopTouched == Breaches(worst, s)
           tp1Touched == Reaches(best, plan.tp1)
           tp2Touched == Reaches(best, plan.tp2)
           open == UpdateTrailing(r, best)
           v == ApplyCandle(r, b, g)
<1>1. r \in Row /\ r.st = "active" /\ r.why = "open" /\ r.entry \in Nat
    BY OneState DEF Active, Filled, Row
<1>2. v = IF stopTouched /\ (tp2Touched \/ (tp1Touched /\ ~open.tp1))
            THEN Close(open, "ambiguous_exit")
          ELSE IF plan.single /\ tp1Touched THEN Close(open, "tp1_hit")
          ELSE IF tp2Touched THEN Close(MarkTp1(open), "tp2_hit")
          ELSE IF stopTouched THEN Close(open, StopCloseReason(open))
          ELSE IF tp1Touched THEN MarkTp1(open)
          ELSE open
    BY <1>1 DEF ApplyCandle
<1>3. /\ best \in Nat \ {0} /\ worst \in Nat /\ b.o \in Nat /\ b.c \in Nat
      /\ \A p \in {b.o, b.c, best, worst} : p \in Nat /\ Reaches(best, p) /\ Reaches(p, worst)
    BY ExtremesBound, ExtremesAre
<1>4. s \in Nat /\ plan.tp1 \in Nat /\ plan.tp2 \in Nat /\ plan.single \in BOOLEAN
    BY <1>1, EffectiveStopOf, PlanFacts DEF Active
<1>5. TrailedTo(r, open)
    BY <1>3, UpdateTrailingKeeps
<1> DEFINE prices == {b.o, b.c, best, worst}
<1>6. \A p \in prices : /\ ~stopTouched => ~Breaches(p, s)
                        /\ ~tp2Touched => ~Reaches(p, plan.tp2)
                        /\ ~tp1Touched => ~Reaches(p, plan.tp1)
    BY <1>3, <1>4, BetweenExtremes
<1>7. tp2Touched => tp1Touched
    BY <1>3, Tp2ReachesTp1
<1> HIDE DEF best, worst, open, v, s
<1>8. /\ Active(open) /\ open \in Row /\ open.tp1 = r.tp1 /\ open.entry = r.entry
      /\ open.why = "open" /\ Marked(open, MarkTp1(open)) /\ MarkTp1(open) \in Row
      /\ (open.stop = open.entry <=> r.stop = r.entry)
    BY <1>5, OneState, MarkTp1Keeps DEF TrailedTo, Marked, Active, Filled
<1>9. plan.single => ~r.tp1
    BY DEF Active, Filled
<1>10. CASE stopTouched /\ (tp2Touched \/ (tp1Touched /\ ~open.tp1))
  <2>1. v = Close(open, "ambiguous_exit")
    BY <1>2, <1>10
  <2>2. v.why = "ambiguous_exit"
    BY <1>8, <2>1, CloseEnds DEF Ended, Reasons
  <2>. QED BY <2>2 DEF Agrees, v
<1>11. CASE ~stopTouched /\ plan.single /\ tp1Touched
  <2>1. v = Close(open, "tp1_hit")
    BY <1>2, <1>11
  <2>2. v.why = "tp1_hit"
    BY <1>8, <2>1, CloseEnds DEF Ended, Reasons
  <2>3. CASE Reaches(b.o, plan.tp1)
    <3>1. Tick(r, b.o).st = "closed" /\ Tick(r, b.o).why = "tp1_hit"
      BY <1>3, <1>6, <1>11, <2>3, TargetTick DEF s
    <3>2. InOrder(r, b.o, best, worst, b.c).why = "tp1_hit"
      BY <3>1, FirstDecides
    <3>. QED BY <2>2, <3>2 DEF Agrees, v, best, worst
  <2>4. CASE ~Reaches(b.o, plan.tp1)
    <3>1. Tick(r, b.o) = r
      BY <1>3, <1>6, <1>11, <2>4, TickStays, Tp2ReachesTp1 DEF s
    <3>2. Tick(r, best).st = "closed" /\ Tick(r, best).why = "tp1_hit"
      BY <1>3, <1>6, <1>11, TargetTick DEF s
    <3>3. InOrder(r, b.o, best, worst, b.c).why = "tp1_hit"
      BY <3>1, <3>2, SecondDecides
    <3>. QED BY <2>2, <3>3 DEF Agrees, v, best, worst
  <2>. QED BY <2>3, <2>4
<1>12. CASE ~stopTouched /\ tp2Touched /\ ~plan.single
  <2>1. v = Close(MarkTp1(open), "tp2_hit")
    BY <1>2, <1>12
  <2>2. v.why = "tp2_hit"
    BY <1>8, <2>1, CloseEnds DEF Ended, Reasons
  <2>3. ASSUME ~Reaches(r.entry, plan.tp2)
        PROVE  InOrder(r, b.o, best, worst, b.c).why = "tp2_hit"
    <3>1. CASE Reaches(b.o, plan.tp2)
      <4>1. Tick(r, b.o).st = "closed" /\ Tick(r, b.o).why = "tp2_hit"
        BY <1>3, <1>6, <1>12, <3>1, TargetTick DEF s
      <4>. QED BY <4>1, FirstDecides
    <3>2. CASE ~Reaches(b.o, plan.tp2)
      <4> DEFINE x == Tick(r, b.o)
      <4>1. Active(x) /\ EffectiveStop(x) \in {s, r.entry}
        BY <1>3, <1>6, <1>12, <3>2, ShortOfTp2 DEF s
      <4> HIDE DEF x
      <4>2. ~Breaches(best, s) /\ ~Breaches(best, r.entry)
        BY <1>1, <1>3, <1>4, <1>6, <1>12, <2>3, ReachesOrder
      <4>3. ~Breaches(best, EffectiveStop(x))
        BY <4>1, <4>2
      <4>4. Tick(x, best).st = "closed" /\ Tick(x, best).why = "tp2_hit"
        BY <1>3, <1>12, <4>1, <4>3, TargetTick
      <4>. QED BY <4>4, SecondDecides DEF x
    <3>. QED BY <3>1, <3>2
  <2>. QED BY <2>2, <2>3 DEF Agrees, v, best, worst
<1>13. CASE stopTouched /\ ~tp2Touched /\ ~(tp1Touched /\ ~open.tp1)
  <2>1. v = Close(open, StopCloseReason(open))
    BY <1>2, <1>8, <1>9, <1>13
  <2> DEFINE why == IF r.tp1 /\ r.stop = r.entry THEN "tp1_hit" ELSE "stop_loss"
  <2>2. v.why = why
    BY <1>8, <2>1, StopReasonIs
  <2>3. Close(r, StopCloseReason(r)).why = why
    BY StopReasonIs
  <2>4. Tick(r, worst).st = "closed" /\ Tick(r, worst).why = why
    BY <1>13, <2>3, TickStops DEF s
  <2>5. CASE Breaches(b.o, s)
    <3>1. Tick(r, b.o).st = "closed" /\ Tick(r, b.o).why = why
      BY <2>3, <2>5, TickStops DEF s
    <3> HIDE DEF why
    <3>2. InOrder(r, b.o, worst, best, b.c).why = why
      BY <3>1, FirstDecides
    <3>. QED BY <2>2, <3>2 DEF Agrees, v, best, worst
  <2>6. CASE ~Breaches(b.o, s)
    <3>1. Tick(r, b.o) = r
      BY <1>3, <1>6, <1>8, <1>13, <2>6, TickStays DEF s
    <3> HIDE DEF why
    <3>2. InOrder(r, b.o, worst, best, b.c).why = why
      BY <2>4, <3>1, SecondDecides
    <3>. QED BY <2>2, <3>2 DEF Agrees, v, best, worst
  <2>. QED BY <2>5, <2>6
<1>14. CASE ~stopTouched /\ ~tp2Touched /\ tp1Touched /\ ~plan.single
  <2>1. v = MarkTp1(open)
    BY <1>2, <1>14
  <2>2. v.st = "active" /\ v.tp1 /\ v.why = "open"
    BY <1>8, <2>1, OneState DEF Marked
  <2>3. r.tp1 => InOrder(r, b.o, best, worst, b.c) = r
    BY <1>3, <1>6, <1>14, AllStay DEF s
  <2>. QED BY <1>1, <2>2, <2>3 DEF Agrees, v, best, worst
<1>15. CASE ~stopTouched /\ ~tp2Touched /\ ~tp1Touched
  <2>1. v = open
    BY <1>2, <1>15
  <2>2. InOrder(r, b.o, best, worst, b.c) = r
    BY <1>3, <1>6, <1>15, AllStay DEF s
  <2>. QED BY <1>1, <1>8, <2>1, <2>2 DEF Agrees, v, best, worst
<1>. QED BY <1>4, <1>7, <1>10, <1>11, <1>12, <1>13, <1>14, <1>15

\* In every state a behaviour reaches, the verdict of _apply_candle_rows on the closed
\* candle is that of _apply_price_tick on its prices in one of the two orders, but for
\* the three exceptions the property names.
THEOREM CandlesAgree == Spec => []CandleAgreesWithTrades
<1>1. ASSUME ReviewInv, row.st = "active", done # NoBar
      PROVE  /\ Agrees(Loaded(row), done, ApplyCandle(Loaded(row), done, "ok"))
             /\ Loaded(row).tp1 = row.tp1 /\ Loaded(row).entry = row.entry
  <2>1. given \in Cases /\ Active(row) /\ done \in ClosedBar /\ Ordered(done)
    BY <1>1, OneState DEF ReviewInv, MarketOK, Sound
  <2>2. /\ Active(Loaded(row))
        /\ Loaded(row).tp1 = row.tp1 /\ Loaded(row).entry = row.entry
    BY <2>1, LoadedKeeps
  <2>3. Agrees(Loaded(row), done, ApplyCandle(Loaded(row), done, "ok"))
    BY <2>1, <2>2, CandleAgrees, Zenon
  <2>. QED BY <2>2, <2>3, Zenon
<1>2. ReviewInv => CandleAgreesWithTrades
  <2>1. SUFFICES ASSUME ReviewInv, row.st = "active", done # NoBar
                 PROVE  CandleAgreesWithTrades
    BY DEF CandleAgreesWithTrades
  <2> DEFINE r0 == Loaded(row)
             verdict == ApplyCandle(r0, done, "ok")
             HighFirst == InOrder(r0, done.o, done.h, done.l, done.c)
             LowFirst == InOrder(r0, done.o, done.l, done.h, done.c)
  <2>2. /\ Agrees(r0, done, verdict) /\ r0.tp1 = row.tp1 /\ r0.entry = row.entry
    BY <1>1, <2>1
  <2>3. \/ verdict.why = "ambiguous_exit"
        \/ verdict.why \in {HighFirst.why, LowFirst.why}
        \/ verdict.st = "active" /\ verdict.tp1 /\ ~row.tp1
        \/ Reaches(row.entry, plan.tp2)
    BY <2>2 DEF Agrees, Favourable, Adverse
  <2>. QED BY <2>3, SMTT(60) DEF CandleAgreesWithTrades, InOrder, Tick
<1>. QED BY <1>2, ReviewAlways, PTL
=============================================================================
