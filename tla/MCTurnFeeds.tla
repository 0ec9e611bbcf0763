----------------------------- MODULE MCTurnFeeds -----------------------------
(***************************************************************************)
(* Model-checking instance of TurnFeeds: two turn ids, every stream of up  *)
(* to MaxFeed records.  Five lines hold two turns with a stray record     *)
(* between or inside them.                                                 *)
(***************************************************************************)
EXTENDS TurnFeeds, TLC

TurnIdSymmetry == Permutations(TurnIds)
=============================================================================
