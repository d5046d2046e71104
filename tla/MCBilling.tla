------------------------------ MODULE MCBilling ------------------------------
(***************************************************************************)
(* Small instance of Billing for TLC.                                      *)
(***************************************************************************)
EXTENDS Billing, TLC

CONSTANTS FAC, AV

MCLimit == [c \in Customers |-> 3]
\* Nothing tells the two series apart.
MCSeries == Permutations(Prefixes)
=============================================================================
