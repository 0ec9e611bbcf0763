---------------------------- MODULE MCDelivery ----------------------------
(***************************************************************************)
(* Delivery with a retry window of three poll intervals: one first         *)
(* client and up to three retries, so a frame of each can still be in      *)
(* flight when another is spawned.                                         *)
(***************************************************************************)
EXTENDS Delivery
===========================================================================
