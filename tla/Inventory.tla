------------------------------ MODULE Inventory ------------------------------
(***************************************************************************)
(* Sales and Warehouse on the same stock, as in the running service: any   *)
(* request of either side may come between any two requests of the other.  *)
(***************************************************************************)
EXTENDS Sales, Warehouse

vars == <<stockVars, salesVars, warehouseVars>>

Init == StockInit /\ DocumentsInit /\ PapersInit

Next == \/ SalesStep /\ UNCHANGED warehouseVars
        \/ WarehouseStep /\ UNCHANGED salesVars
        \/ SetPeriod /\ UNCHANGED <<salesVars, warehouseVars>>

Spec == Init /\ [][Next]_vars

-----------------------------------------------------------------------------
\* Everything that claims a reservation is covered by the product's reserved
\* stock: the confirmed orders, the open quarantines, the spare parts not yet
\* consumed.
ClaimsBacked == \A p \in Products : LinesOf(Confirmed, p) + OnHold(p) <= reserved[p]

CancelsDelivery == \E n \in DOMAIN notes : CancelDeliveryNote(n)
AllTracked == \A p \in Products : tracked[p]

\* While every product is tracked, one operation only can leave a claim without
\* its reservation: cancelling a delivery note, which makes the order CONFIRMED
\* again without reserving.  Until it happens, no order can take the stock of
\* another order, of a quarantine or of a work order.
ClaimsStayBacked ==
    [][ClaimsBacked /\ AllTracked /\ AllTracked' => ClaimsBacked' \/ CancelsDelivery]_vars

\* A sale, an order, a quarantine or a reservation never promises more than is
\* there: whatever lowers the availability of a product below zero is one of
\* the operations that look at the stock on hand only (adjustment, count,
\* production) or overwrite it (edition of the product).
OnlyUncheckedStepsOvercommit ==
    [][\A p \in Products :
         Available[p]' < Available[p] /\ Available[p]' < 0 =>
            \/ \E q \in -MaxQty..-1 : AdjustStock(p, q)
            \/ \E c \in DOMAIN counts : ApproveInventoryCount(c)
            \/ \E f \in Products, d \in Quantities, q \in 1..MaxQty :
                  CreateProductionOrder(f, d, q)
            \/ \E d \in Demands, done \in Quantities : RejectProductionOrder(d, done)
            \/ EditsStock(p)]_vars

\* The stock on hand is never negative (adjustStock refuses to make it so).
StockNeverNegative == \A p \in Products : onHand[p] >= 0
=============================================================================
