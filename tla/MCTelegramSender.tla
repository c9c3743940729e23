-------------------------- MODULE MCTelegramSender --------------------------
(***************************************************************************)
(* Instances of TelegramSender for TLC.                                    *)
(***************************************************************************)
EXTENDS TelegramSender, TLC

CONSTANTS a, b, c1, c2

Alike == Permutations({a, b}) \union Permutations({c1, c2})
=============================================================================
