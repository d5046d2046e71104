-------------------------------- MODULE Sales --------------------------------
(***************************************************************************)
(* Order to invoice: sales orders reserve stock, delivery notes ship it,   *)
(* a cancelled delivery note brings it back, an order is invoiced once it  *)
(* is delivered, and stale orders are released.  A direct invoice consumes *)
(* stock without an order.                                                 *)
(*                                                                         *)
(* Every request is one atomic step, but only createInvoice runs under     *)
(* withRollback: an order or a delivery that throws in the middle of its   *)
(* lines keeps what it has done so far (RejectSalesOrder,                  *)
(* RejectDeliveryNote).                                                    *)
(*                                                                         *)
(* Left out: refusals that happen before any effect (the plan's write      *)
(* gate, unknown customers, archived products, customer credit), which     *)
(* change nothing; document numbers and amounts (module Billing).          *)
(***************************************************************************)
EXTENDS Stock, Sequences

CONSTANTS MaxOrders,  \* bound on the number of sales orders
          MaxNotes    \* bound on the number of delivery notes

ASSUME SalesAssumption == MaxOrders \in Nat /\ MaxNotes \in Nat

VARIABLES orders,  \* workspace.salesOrders, in creation order
          notes    \* workspace.deliveryNotes, in creation order

salesVars == <<orders, notes>>

OrderStatus == {"CONFIRMED", "DELIVERED", "INVOICED", "CANCELLED"}
Orders == [status : OrderStatus, lines : Quantities]
\* A note shares the lines of its order.
Notes == [order : Nat \ {0}, status : {"POSTED", "CANCELLED"}]

SetStatus(o, s) == orders' = [orders EXCEPT ![o].status = s]

-----------------------------------------------------------------------------
CreateSalesOrder(d) ==
    /\ Len(orders) < MaxOrders
    /\ Fits(Stocked(d), Available)
    /\ Reserve(Main, Stocked(d))
    /\ orders' = Append(orders, [status |-> "CONFIRMED", lines |-> d])
    /\ UNCHANGED <<notes, onHand, tracked, quantity, periodOpen>>

\* A line is short of stock: the lines before it stay reserved, for no order.
RejectSalesOrder(d, done) ==
    /\ Interrupted(done, Stocked(d), Available)
    /\ Reserve(Main, done)
    /\ UNCHANGED <<orders, notes, onHand, tracked, quantity, periodOpen>>

DeliverableMutant(status) == status \in {"CONFIRMED", "INVOICED"}
\* An order that is DELIVERED or INVOICED is refused, and so is a CANCELLED one.
Deliverable(status) == status = "CONFIRMED"

\* The delivered quantity leaves the reservation and the main warehouse.
Ship(d) ==
    /\ reserved' = Minus(reserved, d)
    /\ held' = [held EXCEPT ![Main] = Clamped(@, d)]
    /\ Move(Main, Negated(d))

CreateDeliveryNoteFromOrder(o) ==
    /\ Len(notes) < MaxNotes
    /\ Deliverable(orders[o].status)
    /\ Fits(Stocked(orders[o].lines), reserved)
    /\ Ship(Stocked(orders[o].lines))
    /\ notes' = Append(notes, [order |-> o, status |-> "POSTED"])
    /\ SetStatus(o, "DELIVERED")
    /\ UNCHANGED <<tracked, periodOpen>>

\* A line is not covered by the product's reservations: the lines before it
\* have left the warehouse, and the order is still to be delivered.
RejectDeliveryNote(o, done) ==
    /\ Deliverable(orders[o].status)
    /\ Interrupted(done, Stocked(orders[o].lines), reserved)
    /\ Ship(done)
    /\ UNCHANGED <<orders, notes, tracked, periodOpen>>

\* A cancelled note is returned as it is; the goods come back to the main
\* warehouse, the order to CONFIRMED, but nothing is reserved for it again.
CancelDeliveryNote(n) ==
    LET o == notes[n].order IN
    /\ notes[n].status = "POSTED"
    /\ orders[o].status # "INVOICED"
    /\ Move(Main, Stocked(orders[o].lines))
    /\ notes' = [notes EXCEPT ![n].status = "CANCELLED"]
    /\ SetStatus(o, "CONFIRMED")
    /\ UNCHANGED <<reserved, tracked, held, periodOpen>>

PostedNote(o) == \E n \in DOMAIN notes : notes[n] = [order |-> o, status |-> "POSTED"]

\* createInvoice with stockAlreadyDelivered: no stock moves.
ConvertOrderToInvoice(o) ==
    /\ periodOpen
    /\ orders[o].status = "DELIVERED"
    /\ PostedNote(o)
    /\ SetStatus(o, "INVOICED")
    /\ UNCHANGED <<notes, stockVars>>

\* A direct invoice: the period check and the rollback make it all or nothing.
CreateInvoice(d) ==
    /\ periodOpen
    /\ Fits(Stocked(d), Available)
    /\ Move(Main, Negated(Stocked(d)))
    /\ UNCHANGED <<salesVars, reserved, tracked, held, periodOpen>>

StaleMutant(k) == {o \in 1..k : orders[o].status # "CANCELLED"}
\* The orders a run over the orders of age maxAgeDays or more cancels: orders
\* carry their dates in creation order, so the old ones are the first k.
Stale(k) == {o \in 1..k : orders[o].status = "CONFIRMED"}

\* The quantity of p on the lines of a set of orders.
LinesOf(os, p) == SumFunction([o \in os |-> orders[o].lines[p]])

ReleaseExpiredStockReservations(k) ==
    LET released == [p \in Products |-> LinesOf(Stale(k), p)] IN
    /\ Stale(k) # {}
    /\ released \in [Products -> Nat]
    /\ Release(Main, Stocked(released))
    /\ orders' = [o \in DOMAIN orders |->
                    IF o \in Stale(k) THEN [orders[o] EXCEPT !.status = "CANCELLED"]
                                      ELSE orders[o]]
    /\ UNCHANGED <<notes, onHand, tracked, quantity, periodOpen>>

\* The sample sales documents are wiped; what they reserved stays reserved.
ResetSampleModule ==
    /\ orders' = <<>>
    /\ notes' = <<>>
    /\ UNCHANGED stockVars

-----------------------------------------------------------------------------
DocumentsInit == orders = <<>> /\ notes = <<>>

SalesStep ==
    \/ \E d \in Demands : CreateSalesOrder(d)
    \/ \E d \in Demands, done \in Quantities : RejectSalesOrder(d, done)
    \/ \E o \in DOMAIN orders : CreateDeliveryNoteFromOrder(o)
    \/ \E o \in DOMAIN orders, done \in Quantities : RejectDeliveryNote(o, done)
    \/ \E n \in DOMAIN notes : CancelDeliveryNote(n)
    \/ \E o \in DOMAIN orders : ConvertOrderToInvoice(o)
    \/ \E d \in Demands : CreateInvoice(d)
    \/ \E k \in DOMAIN orders : ReleaseExpiredStockReservations(k)
    \/ ResetSampleModule

\* A shop that only sells.
SalesInit == StockInit /\ DocumentsInit
SalesNext == SalesStep \/ (SetPeriod /\ UNCHANGED salesVars)
allSalesVars == <<stockVars, salesVars>>
SalesSpec == SalesInit /\ [][SalesNext]_allSalesVars

-----------------------------------------------------------------------------
DocumentsTypeOK ==
    /\ orders \in Seq(Orders)
    /\ notes \in Seq(Notes)
    /\ \A n \in DOMAIN notes : notes[n].order \in DOMAIN orders

SalesTypeOK == StockTypeOK /\ DocumentsTypeOK

\* An order has a posted delivery note exactly while it is delivered or
\* invoiced, and never two: goods shipped twice for one order would show as two
\* posted notes, an invoice for goods that came back as none.
NotesMatchOrders ==
    /\ \A o \in DOMAIN orders :
          PostedNote(o) <=> orders[o].status \in {"DELIVERED", "INVOICED"}
    /\ \A m, n \in DOMAIN notes :
          /\ notes[m].status = "POSTED"
          /\ notes[n].status = "POSTED"
          /\ notes[m].order = notes[n].order
          => m = n

\* Selling alone never promises goods that are not there, however many
\* requests are refused in the middle of their lines, however often a delivery
\* is cancelled and repeated: reservations stay within the stock on hand.
SalesStayCovered == \A p \in Products : reserved[p] <= onHand[p]

Confirmed == {o \in DOMAIN orders : orders[o].status = "CONFIRMED"}

\* As long as no delivery note has been cancelled, every confirmed order still
\* has its quantities reserved, so that none of them can be refused delivery.
ReservationsBacked ==
    (\A n \in DOMAIN notes : notes[n].status = "POSTED")
        => \A p \in Products : LinesOf(Confirmed, p) <= reserved[p]

\* An invoiced or cancelled order never changes again, and the lines of an
\* order never do, until the documents are wiped.
FinishedOrdersFinal ==
    [][\A o \in DOMAIN orders \cap DOMAIN orders' :
         /\ orders'[o].lines = orders[o].lines
         /\ orders[o].status \in {"INVOICED", "CANCELLED"} => orders'[o] = orders[o]]_allSalesVars
=============================================================================
