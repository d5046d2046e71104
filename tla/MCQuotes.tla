------------------------------ MODULE MCQuotes ------------------------------
(***************************************************************************)
(* Small instance of Quotes for TLC.  Products are interchangeable.        *)
(***************************************************************************)
EXTENDS Quotes, TLC

ProductSymmetry == Permutations(Products)
=============================================================================
