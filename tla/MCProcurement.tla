---------------------------- MODULE MCProcurement ----------------------------
(***************************************************************************)
(* Small instance of Procurement for TLC: one of an article, two in one    *)
(* line, one in each of two lines; the schedule orders the service.        *)
(***************************************************************************)
EXTENDS Procurement, TLC

CONSTANTS article, service

Line(p, q) == [product |-> p, qty |-> q]
MCBaskets == {<<Line(article, 1)>>,
              <<Line(article, 2)>>,
              <<Line(article, 1), Line(article, 1)>>}
=============================================================================
