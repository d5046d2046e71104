----------------------------- MODULE MCLineLoops -----------------------------
(***************************************************************************)
(* Small instance of LineLoops for TLC.  No symmetry: the run checks a     *)
(* liveness property.                                                      *)
(***************************************************************************)
EXTENDS LineLoops
=============================================================================
