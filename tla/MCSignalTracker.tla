--------------------------- MODULE MCSignalTracker ---------------------------
(***************************************************************************)
(* Instances of SignalTracker for TLC.                                     *)
(***************************************************************************)
EXTENDS SignalTracker, TLC

CONSTANTS s1, s2, btc, eth

OneSymbol == [s \in Signals |-> btc]
TwoSymbols == [s \in Signals |-> IF s = s1 THEN btc ELSE eth]
OneSetup == [s \in Signals |-> CHOOSE u \in Setups : TRUE]

TaskSymmetry == Permutations(Tasks)
=============================================================================
