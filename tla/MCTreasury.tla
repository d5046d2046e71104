----------------------------- MODULE MCTreasury -----------------------------
(***************************************************************************)
(* Small instance of Treasury for TLC.                                     *)
(***************************************************************************)
EXTENDS Treasury, TLC
=============================================================================
