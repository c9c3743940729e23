---------------------------- MODULE MCRestClient ----------------------------
(***************************************************************************)
(* Instances of RestClient for TLC.                                        *)
(***************************************************************************)
EXTENDS RestClient

CONSTANTS klines, oi, p1, p2

Quotas == [op \in Ops |-> IF op = klines THEN "general" ELSE "limited"]
TwoThenOne == [op \in Ops |-> IF op = klines THEN 2 ELSE 1]
OneThenTwo == [op \in Ops |-> IF op = klines THEN 1 ELSE 2]
=============================================================================
