------------------------------ MODULE MCEventBus ------------------------------
(***************************************************************************)
(* Instances of EventBus for TLC.                                          *)
(***************************************************************************)
EXTENDS EventBus

CONSTANTS c1, c2, c3, q1, q2, r1     \* closes, tickers, a reconnect

TypeOfKey == [k \in Keys |-> CASE k \in {c1, c2, c3} -> "kline"
                                [] k \in {q1, q2} -> "ticker"
                                [] OTHER -> "reconnect"]

TwoOfMost == [k \in Keys |-> IF k \in {c1, r1} THEN 2 ELSE 1]
=============================================================================
