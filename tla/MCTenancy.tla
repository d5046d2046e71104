------------------------------ MODULE MCTenancy ------------------------------
(***************************************************************************)
(* Small instance of Tenancy for TLC.                                      *)
(***************************************************************************)
EXTENDS Tenancy
=============================================================================
