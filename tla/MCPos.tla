-------------------------------- MODULE MCPos --------------------------------
(***************************************************************************)
(* Small instance of Pos for TLC: one till, one product.                   *)
(***************************************************************************)
EXTENDS Pos

MCTotals == {-1, 1}
=============================================================================
