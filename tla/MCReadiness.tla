----------------------------- MODULE MCReadiness -----------------------------
(***************************************************************************)
(* Small instance of Readiness for TLC.                                    *)
(***************************************************************************)
EXTENDS Readiness, TLC
=============================================================================
