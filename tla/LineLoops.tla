------------------------------ MODULE LineLoops ------------------------------
(***************************************************************************)
(* The requests of module Sales as the code executes them: one line of the *)
(* document after the other, each line checked against what the lines      *)
(* before it have left, a throw in the middle of the loop, and the undoing *)
(* of withRollback around createInvoice only.                              *)
(*                                                                         *)
(* The service runs a request to its end before it takes the next one, so  *)
(* nobody sees the states in between.  ImplementsSales says that, from the *)
(* outside, what is left is a behaviour of Sales: a whole loop is one step *)
(* there, and an aborted one is RejectSalesOrder, RejectDeliveryNote or    *)
(* nothing at all.                                                         *)
(***************************************************************************)
EXTENDS Stock, Sequences, Functions

CONSTANTS MaxOrders, MaxNotes,
          LineQty,   \* bound on the quantity of a line
          MaxLines   \* bound on the number of lines of a document

ASSUME LineLoopsAssumption ==
    /\ MaxOrders \in Nat /\ MaxNotes \in Nat
    /\ LineQty \in Nat /\ MaxLines \in Nat
    /\ LineQty * MaxLines <= MaxQty

VARIABLES orders,   \* workspace.salesOrders, with their lines in order
          notes,    \* workspace.deliveryNotes
          request,  \* the request being executed, Idle between two requests
          before    \* the workspace when it began: withRollback's snapshot

loopVars == <<stockVars, orders, notes, request, before>>

Lines == [product : Products, qty : 1..LineQty]
Documents == UNION {[1..n -> Lines] : n \in 1..MaxLines}

Workspace == [onHand |-> onHand, reserved |-> reserved, quantity |-> quantity,
              held |-> held, orders |-> orders, notes |-> notes]

\* The quantity of each product on the lines of a document.
DemandOf(lines) ==
    [p \in Products |->
       SumFunction([i \in {i \in DOMAIN lines : lines[i].product = p} |-> lines[i].qty])]

Idle == [kind |-> "NONE", lines |-> <<>>, left |-> <<>>, document |-> 0]

\* A request of a kind for the given lines; `document` is the order to deliver
\* or the note to cancel, `left` the lines still to be processed.
Begin(kind, lines, document) ==
    /\ request = Idle
    /\ request' = [kind |-> kind, lines |-> lines, left |-> lines, document |-> document]
    /\ before' = Workspace
    /\ UNCHANGED <<stockVars, orders, notes>>

-----------------------------------------------------------------------------
BeginSalesOrder(lines) == Len(orders) < MaxOrders /\ Begin("ORDER", lines, 0)

BeginInvoice(lines) == periodOpen /\ Begin("INVOICE", lines, 0)

BeginDeliveryNote(o) ==
    /\ Len(notes) < MaxNotes
    /\ orders[o].status \notin {"CANCELLED", "DELIVERED", "INVOICED"}
    /\ Begin("DELIVERY", orders[o].lines, o)

BeginCancellation(n) ==
    /\ notes[n].status # "CANCELLED"
    /\ orders[notes[n].order].status # "INVOICED"
    /\ Begin("CANCELLATION", orders[notes[n].order].lines, n)

-----------------------------------------------------------------------------
\* The stock effect of the next line; a product that is not tracked is skipped.
Part == Stocked(Only(Head(request.left).product, Head(request.left).qty))

EnoughMutant(part) == TRUE
\* The check of the next line: a delivery looks at the reservations of the
\* product, an order and an invoice at what is available, a cancellation at
\* nothing.
Enough(part) ==
    CASE request.kind = "DELIVERY"           -> Fits(part, reserved)
      [] request.kind \in {"ORDER", "INVOICE"} -> Fits(part, Available)
      [] OTHER                               -> TRUE

ReserveLine ==
    /\ request.kind = "ORDER"
    /\ Reserve(Main, Part)
    /\ UNCHANGED <<onHand, quantity>>

ConsumeLine ==
    /\ request.kind = "INVOICE"
    /\ Move(Main, Negated(Part))
    /\ UNCHANGED <<reserved, held>>

DeliverLine ==
    /\ request.kind = "DELIVERY"
    /\ reserved' = Minus(reserved, Part)
    /\ held' = [held EXCEPT ![Main] = Clamped(@, Part)]
    /\ Move(Main, Negated(Part))

ReturnLine ==
    /\ request.kind = "CANCELLATION"
    /\ Move(Main, Part)
    /\ UNCHANGED <<reserved, held>>

ProcessLine ==
    /\ request.left # <<>>
    /\ Enough(Part)
    /\ ReserveLine \/ ConsumeLine \/ DeliverLine \/ ReturnLine
    /\ request' = [request EXCEPT !.left = Tail(@)]
    /\ UNCHANGED <<tracked, periodOpen, orders, notes, before>>

-----------------------------------------------------------------------------
UndoMutant == UNCHANGED <<onHand, quantity>>
\* Object.assign(workspace, snapshot), as far as an invoice can have changed it.
Undo == onHand' = before.onHand /\ quantity' = before.quantity

ThrowMutant ==
    /\ request.left # <<>>
    /\ ~Enough(Part)
    /\ IF request.kind = "INVOICE" THEN Undo ELSE UNCHANGED <<onHand, quantity>>
    /\ request' = [request EXCEPT !.left = request.lines]
    /\ UNCHANGED <<reserved, held, tracked, periodOpen, orders, notes, before>>
\* The next line throws: createInvoice is undone, the others keep what the
\* lines before it have changed.
Throw ==
    /\ request.left # <<>>
    /\ ~Enough(Part)
    /\ IF request.kind = "INVOICE" THEN Undo ELSE UNCHANGED <<onHand, quantity>>
    /\ request' = Idle
    /\ UNCHANGED <<reserved, held, tracked, periodOpen, orders, notes, before>>

\* The loop is over: the document is recorded.
Finish ==
    /\ request # Idle
    /\ request.left = <<>>
    /\ \/ /\ request.kind = "ORDER"
          /\ orders' = Append(orders, [status |-> "CONFIRMED", lines |-> request.lines])
          /\ UNCHANGED notes
       \/ /\ request.kind = "DELIVERY"
          /\ notes' = Append(notes, [order |-> request.document, status |-> "POSTED"])
          /\ orders' = [orders EXCEPT ![request.document].status = "DELIVERED"]
       \/ /\ request.kind = "CANCELLATION"
          /\ notes' = [notes EXCEPT ![request.document].status = "CANCELLED"]
          /\ orders' = [orders EXCEPT ![notes[request.document].order].status = "CONFIRMED"]
       \/ /\ request.kind = "INVOICE"
          /\ UNCHANGED <<orders, notes>>
    /\ request' = Idle
    /\ UNCHANGED <<stockVars, before>>

-----------------------------------------------------------------------------
LoopInit == /\ StockInit
            /\ orders = <<>>
            /\ notes = <<>>
            /\ request = Idle
            /\ before = Workspace

LoopNext ==
    \/ \E lines \in Documents : BeginSalesOrder(lines)
    \/ \E lines \in Documents : BeginInvoice(lines)
    \/ \E o \in DOMAIN orders : BeginDeliveryNote(o)
    \/ \E n \in DOMAIN notes : BeginCancellation(n)
    \/ ProcessLine
    \/ Throw
    \/ Finish
    \/ request = Idle /\ SetPeriod /\ UNCHANGED <<orders, notes, request, before>>

\* The handlers are synchronous functions: once one has begun, Node executes
\* nothing else before it returns or throws.  Nothing obliges a client to send
\* a request, so only the steps within a request are fair.
LoopSpec == LoopInit /\ [][LoopNext]_loopVars /\ WF_loopVars(ProcessLine \/ Throw \/ Finish)

-----------------------------------------------------------------------------
\* An invoice is all or nothing: when its loop is over, the stock is what it was
\* before, less every line of the invoice or less nothing.
InvoiceAllOrNothing ==
    [][request.kind = "INVOICE" /\ request' = Idle =>
         /\ reserved' = before.reserved
         /\ held' = before.held
         /\ \E taken \in {DemandOf(request.lines), DemandOf(<<>>)} :
               /\ onHand' = Minus(before.onHand, taken)
               /\ quantity'[Main] = Minus(before.quantity[Main], taken)]_loopVars

\* Every request that has begun ends, whatever lines it has and however little
\* stock is left: none waits for another one, and none tries a line again.
RequestsEnd == request # Idle ~> request = Idle

\* What the next request will find: the workspace between two requests, the
\* snapshot while one is executed.
Seen == IF request = Idle THEN Workspace ELSE before

\* Orders as Sales knows them, with their demands.
Demanded(os) ==
    [o \in DOMAIN os |-> [status |-> os[o].status, lines |-> DemandOf(os[o].lines)]]

Atomic ==
    INSTANCE Sales
    WITH onHand <- Seen.onHand, reserved <- Seen.reserved,
         quantity <- Seen.quantity, held <- Seen.held, notes <- Seen.notes,
         orders <- Demanded(Seen.orders)

\* Seen from between the requests, the loops over the lines with their throws
\* and the rollback of an invoice are the atomic steps of Sales: however a
\* demand is split into lines, an order or a delivery fails for it exactly when
\* the whole demand does not fit, and leaves a part of it that did fit.
ImplementsSales == Atomic!SalesSpec
=============================================================================
