---------------------------- MODULE MCHuntTracker ----------------------------
(***************************************************************************)
(* Instances of HuntTracker for TLC.                                       *)
(***************************************************************************)
EXTENDS HuntTracker

CONSTANTS btc, eth
=============================================================================
