----------------------------- MODULE MCInventory -----------------------------
(***************************************************************************)
(* Small instance of Inventory for TLC.                                    *)
(***************************************************************************)
EXTENDS Inventory
=============================================================================
