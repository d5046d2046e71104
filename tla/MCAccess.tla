------------------------------ MODULE MCAccess ------------------------------
(***************************************************************************)
(* Small instance of Access for TLC.                                       *)
(***************************************************************************)
EXTENDS Access, TLC
=============================================================================
