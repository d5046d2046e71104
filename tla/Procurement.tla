----------------------------- MODULE Procurement -----------------------------
(***************************************************************************)
(* Purchasing: requests, purchase orders, receipts in several parts,       *)
(* supplier invoices, landed costs, and the weighted average cost (CUMP)   *)
(* of what comes in, with what each request posts to the goods account     *)
(* 3111, which should follow it.                                           *)
(*                                                                         *)
(* createPurchaseReceipt and adjustStock run under withRollback; the       *)
(* cancellation of a receipt adjusts line by line and keeps what it did    *)
(* before a refusal, and createSupplierInvoice stores the invoice before   *)
(* the entry that may be refused.                                          *)
(*                                                                         *)
(* Costs are whole centimes, and Rounded is r2 on a quotient of them.  All *)
(* the lines of a document have one unit cost.  The stock a sale takes out *)
(* is GoodsIssue; its documents are in Sales.                              *)
(*                                                                         *)
(* Left out: refusals before any effect, suppliers, numbers, approval      *)
(* limits (a label no handler tests), budgets, the edition of a product.   *)
(***************************************************************************)
EXTENDS Stock, Sequences, Functions

CONSTANTS Services,     \* the products that are not stock-tracked
          Baskets,      \* the line sequences of a purchase: product and quantity
          OpeningCosts, \* the cost of what is in stock at first
          Costs,        \* unit costs of a purchase
          Charges,      \* freight, customs, transit and insurance, in total
          MaxCost,      \* bound on the weighted average cost
          MaxRequests,  \* bounds on the number of documents of each kind
          MaxOrders,
          MaxReceipts,
          MaxBills

ASSUME ProcurementAssumption ==
    /\ Services \subseteq Products
    /\ Baskets \subseteq Seq([product : Products, qty : 1..MaxQty])
    /\ OpeningCosts \cup Costs \cup Charges \subseteq Nat
    /\ {MaxCost, MaxRequests, MaxOrders, MaxReceipts, MaxBills} \subseteq Nat

VARIABLES cump,              \* product.weightedAverageCost
          requests,          \* workspace.purchaseRequests
          purchaseOrders,    \* workspace.purchaseOrders
          receipts,          \* workspace.purchaseReceipts
          supplierInvoices,  \* workspace.supplierInvoices
          goods              \* what the last request posted to account 3111

papers == <<requests, purchaseOrders, receipts, supplierInvoices>>
procurementVars == <<cump, papers, goods>>

NoEntry == goods' = 0
vars == <<stockVars, procurementVars>>

-----------------------------------------------------------------------------
\* r2(a / b) for b > 0: Math.round rounds a half up.
Rounded(a, b) == (2 * a + b) \div (2 * b)

LinesTotal(lines, cost) == SumFunction([i \in DOMAIN lines |-> lines[i].qty * cost])

\* The cost of the new goods replaces that of the old ones.
AverageMutant(old, cost, qty, onhand) == cost
\* The weighted average once `qty` came in at `cost`; with nothing on hand it
\* is the cost of the line.
Average(old, cost, qty, onhand) ==
    IF onhand > 0 THEN Rounded((onhand - qty) * old + qty * cost, onhand) ELSE cost

\* workspace.purchaseOrders lines, as createPurchaseOrder builds them.
Ordered(basket) ==
    [i \in DOMAIN basket |->
       [product |-> basket[i].product, qty |-> basket[i].qty, received |-> 0]]

\* The first line of the order for a product (0: there is none).
LineFor(lines, p) ==
    LET found == {i \in DOMAIN lines : lines[i].product = p}
    IN  IF found = {} THEN 0 ELSE Min(found)

\* "La réception dépasse la quantité commandée"
Over(line, q) == line.received + q > line.qty

\* One line of a receipt: stock and cost of the product, then the order's line.
\* The fields of s are the state the loop works on; once ok is FALSE the
\* request is refused as a whole.
ReceiveLine(s, o, l, cost) ==
    LET onhand == s.onHand[l.product] + l.qty
        i == IF o = 0 THEN 0 ELSE LineFor(s.lines, l.product)
        ok == /\ s.ok
              /\ l.qty > 0
              /\ tracked[l.product]
              /\ o # 0 => i # 0
              /\ i # 0 => ~Over(s.lines[i], l.qty)
        lines == IF i = 0 THEN s.lines ELSE [s.lines EXCEPT ![i].received = @ + l.qty]
    IN  IF ~ok THEN [s EXCEPT !.ok = FALSE]
        ELSE [s EXCEPT
                !.onHand[l.product] = onhand,
                !.cump[l.product] = Average(@, cost, l.qty, onhand),
                !.lines = lines]

\* The state of the loop before the first line.
Unreceived(o) == [onHand |-> onHand, cump |-> cump, ok |-> TRUE,
                  lines |-> IF o = 0 THEN <<>> ELSE purchaseOrders[o].lines]

Received(o, basket, cost) ==
    LET after[k \in 0..Len(basket)] ==
          IF k = 0 THEN Unreceived(o)
                   ELSE ReceiveLine(after[k - 1], o, basket[k], cost)
    IN  after[Len(basket)]

\* Every line counts, not some.
StatusAfterMutant(lines) ==
    IF \E i \in DOMAIN lines : lines[i].received >= lines[i].qty
    THEN "RECEIVED" ELSE "PARTIALLY_RECEIVED"
\* A receipt has lines, so some line of its order has received something.
StatusAfter(lines) ==
    IF \A i \in DOMAIN lines : lines[i].received >= lines[i].qty
    THEN "RECEIVED" ELSE "PARTIALLY_RECEIVED"

\* What is still to come: the lines of a receipt that gives none.
Outstanding(o) ==
    LET lines == purchaseOrders[o].lines
    IN  [i \in DOMAIN lines |-> [product |-> lines[i].product,
                                 qty |-> lines[i].qty - lines[i].received]]

InCost == \A p \in Products : cump'[p] \in -MaxCost..MaxCost

-----------------------------------------------------------------------------
CreatePurchaseRequest(basket, cost) ==
    /\ Len(requests) < MaxRequests
    /\ requests' = Append(requests, [status |-> "REQUESTED", lines |-> basket, cost |-> cost])
    /\ NoEntry
    /\ UNCHANGED <<stockVars, cump, purchaseOrders, receipts, supplierInvoices>>

\* Whatever the status: a converted request becomes APPROVED again.
ApprovePurchaseRequest(r) ==
    /\ requests' = [requests EXCEPT ![r].status = "APPROVED"]
    /\ NoEntry
    /\ UNCHANGED <<stockVars, cump, purchaseOrders, receipts, supplierInvoices>>

NewOrder(basket, cost) ==
    /\ Len(purchaseOrders) < MaxOrders
    /\ purchaseOrders' = Append(purchaseOrders,
         [status |-> "DRAFT", cost |-> cost, lines |-> Ordered(basket)])

\* A request that was converted before is converted again.
ConvertPurchaseRequestToOrder(r) ==
    /\ NewOrder(requests[r].lines, requests[r].cost)
    /\ requests' = [requests EXCEPT ![r].status = "CONVERTED"]
    /\ NoEntry
    /\ UNCHANGED <<stockVars, cump, receipts, supplierInvoices>>

CreatePurchaseOrder(basket, cost) ==
    /\ NewOrder(basket, cost)
    /\ NoEntry
    /\ UNCHANGED <<stockVars, cump, requests, receipts, supplierInvoices>>

\* A schedule orders one unit of the first service.
RunRecurringPurchaseSchedule(p, cost) ==
    CreatePurchaseOrder(<<[product |-> p, qty |-> 1]>>, cost)

ToStatus(o, s) ==
    /\ purchaseOrders' = [purchaseOrders EXCEPT ![o].status = s]
    /\ NoEntry
    /\ UNCHANGED <<stockVars, cump, requests, receipts, supplierInvoices>>

\* Any order but a cancelled one, the received ones included.
ApprovePurchaseOrder(o) ==
    /\ purchaseOrders[o].status # "CANCELLED"
    /\ ToStatus(o, "APPROVED")

CancelPurchaseOrder(o) ==
    /\ purchaseOrders[o].status \notin {"RECEIVED", "PARTIALLY_RECEIVED"}
    /\ ToStatus(o, "CANCELLED")

\* "La commande achat doit être approuvée avant réception"
Receivable(status) == status \in {"APPROVED", "PARTIALLY_RECEIVED"}

Commit(o, s) ==
    purchaseOrders' = IF o = 0 THEN purchaseOrders
                      ELSE [purchaseOrders EXCEPT ![o].lines = s.lines,
                                                  ![o].status = StatusAfter(s.lines)]

\* All the lines or none (withRollback); an entry of nothing is refused too.
CreatePurchaseReceipt(o, w, basket, cost) ==
    LET s == Received(o, basket, cost)
        total == LinesTotal(basket, cost)
    IN  /\ Len(receipts) < MaxReceipts
        /\ periodOpen
        /\ o # 0 => Receivable(purchaseOrders[o].status)
        /\ s.ok
        /\ total > 0
        /\ Move(w, Minus(s.onHand, onHand))
        /\ cump' = s.cump
        /\ InCost
        /\ Commit(o, s)
        /\ receipts' = Append(receipts, [order |-> o, lines |-> basket, cost |-> cost])
        /\ goods' = total
        /\ UNCHANGED <<requests, supplierInvoices, reserved, tracked, held, periodOpen>>

\* The invoice is stored, then its entry is posted: without VAT the entry has
\* a line of nothing and is refused, and the request with it, but the invoice
\* stays.  Nothing looks for an earlier invoice of the same receipt or order.
CreateSupplierInvoice(kind, i, vat) ==
    /\ Len(supplierInvoices) < MaxBills
    /\ periodOpen
    /\ kind = "order" =>
         LinesTotal(purchaseOrders[i].lines, purchaseOrders[i].cost) > 0
    /\ supplierInvoices' = Append(supplierInvoices,
                                  [kind |-> kind, source |-> i, posted |-> vat])
    /\ NoEntry
    /\ UNCHANGED <<stockVars, cump, requests, purchaseOrders, receipts>>

-----------------------------------------------------------------------------
\* The share of a line, by its part of the value, per unit.
UnitImpact(r, i, charge) ==
    LET receipt == receipts[r]
        line == receipt.lines[i]
        share == Rounded(line.qty * receipt.cost * charge,
                         LinesTotal(receipt.lines, receipt.cost))
    IN  Rounded(share, line.qty)

Loaded(r, charge) ==
    [p \in Products |->
       cump[p] + MapThenSumSet(LAMBDA i : UnitImpact(r, i, charge),
                   {i \in DOMAIN receipts[r].lines : receipts[r].lines[i].product = p})]

\* Each call adds the charges again; neither the period nor the write gate is
\* asked, and nothing is posted.
LandedCostAllocation(r, charge) ==
    /\ cump' = Loaded(r, charge)
    /\ InCost
    /\ NoEntry
    /\ UNCHANGED <<stockVars, papers>>

\* The report on the first order, once it has a receipt and that receipt an
\* invoice, approves the order again and allocates landed costs again.  When
\* either is missing it first creates it, as the actions above do.
PurchaseThreeWayMatch(charge) ==
    \E r \in DOMAIN receipts :
       /\ purchaseOrders # <<>>
       /\ receipts[r].order = 1
       /\ \A q \in 1..r - 1 : receipts[q].order # 1
       /\ \E b \in DOMAIN supplierInvoices :
             supplierInvoices[b].kind = "receipt" /\ supplierInvoices[b].source = r
       /\ purchaseOrders[1].status # "CANCELLED"
       /\ purchaseOrders' = [purchaseOrders EXCEPT ![1].status = "APPROVED"]
       /\ cump' = Loaded(r, charge)
       /\ InCost
       /\ NoEntry
       /\ UNCHANGED <<stockVars, requests, receipts, supplierInvoices>>

\* Adjusted at the cost of the day, refused when that makes an entry of nothing.
Adjustable(s, p, q) ==
    tracked[p] /\ s.onHand[p] + q >= 0 /\ q * cump[p] # 0

\* Math.abs
Size(x) == IF x < 0 THEN -x ELSE x

\* What comes in is debited and what goes out credited, with the size of the
\* value: also when the average cost, and so the value, is negative.
Booked(p, q) == IF q > 0 THEN Size(q * cump[p]) ELSE -Size(q * cump[p])

AdjustLine(s, p, q) == [s EXCEPT !.onHand[p] = @ + q, !.goods = @ + Booked(p, q)]

AdjustStock(p, q) ==
    LET s == [onHand |-> onHand, goods |-> 0] IN
    /\ periodOpen
    /\ Adjustable(s, p, q)
    /\ Move(Main, Only(p, q))
    /\ goods' = AdjustLine(s, p, q).goods
    /\ UNCHANGED <<reserved, tracked, held, periodOpen, cump, papers>>

CancelLine(s, l) ==
    IF s.stopped \/ ~Adjustable(s, l.product, -l.qty)
    THEN [s EXCEPT !.stopped = TRUE]
    ELSE AdjustLine(s, l.product, -l.qty)

\* The lines before the first refused one.
Cancelled(r) ==
    LET lines == receipts[r].lines
        after[k \in 0..Len(lines)] ==
          IF k = 0 THEN [onHand |-> onHand, goods |-> 0, stopped |-> FALSE]
                   ELSE CancelLine(after[k - 1], lines[k])
    IN  after[Len(lines)]

\* cancelDocument: the receipt and its order stay as they are, so it can be
\* cancelled again; the goods leave the main warehouse.
CancelPurchaseReceipt(r) ==
    LET s == Cancelled(r) IN
    /\ periodOpen
    /\ Move(Main, Minus(s.onHand, onHand))
    /\ goods' = s.goods
    /\ UNCHANGED <<reserved, tracked, held, periodOpen, cump, papers>>

\* A sale takes goods out, possibly more than there are, and posts nothing to
\* the goods account.
GoodsIssue(p, q) ==
    /\ tracked[p]
    /\ Move(Main, Only(p, -q))
    /\ NoEntry
    /\ UNCHANGED <<reserved, tracked, held, periodOpen, cump, papers>>

\* The sample inventory documents are wiped; supplier invoices are not, and no
\* document that comes later is theirs.
ResetSampleModule ==
    /\ purchaseOrders' = <<>>
    /\ receipts' = <<>>
    /\ supplierInvoices' = [b \in DOMAIN supplierInvoices |->
                              [supplierInvoices[b] EXCEPT !.source = 0]]
    /\ NoEntry
    /\ UNCHANGED <<stockVars, cump, requests>>

-----------------------------------------------------------------------------
\* As StockInit, but services have no stock and no cost.
ProcurementInit ==
    /\ tracked = [p \in Products |-> p \notin Services]
    /\ onHand \in {f \in [Products -> 0..1] : \A p \in Services : f[p] = 0}
    /\ quantity = [w \in Warehouses |->
                     IF w = Main THEN onHand ELSE [p \in Products |-> 0]]
    /\ reserved = [p \in Products |-> 0]
    /\ held = [w \in Warehouses |-> [p \in Products |-> 0]]
    /\ periodOpen = TRUE
    /\ cump \in {f \in [Products -> {0} \cup OpeningCosts] : \A p \in Services : f[p] = 0}
    /\ requests = <<>>
    /\ purchaseOrders = <<>>
    /\ receipts = <<>>
    /\ supplierInvoices = <<>>
    /\ goods = 0

PaperStep ==
    \/ \E basket \in Baskets, cost \in Costs :
          \/ CreatePurchaseRequest(basket, cost)
          \/ CreatePurchaseOrder(basket, cost)
    \/ \E r \in DOMAIN requests : ApprovePurchaseRequest(r)
    \/ \E r \in DOMAIN requests : ConvertPurchaseRequestToOrder(r)
    \/ \E p \in Services, cost \in Costs : RunRecurringPurchaseSchedule(p, cost)
    \/ \E o \in DOMAIN purchaseOrders : ApprovePurchaseOrder(o)
    \/ \E o \in DOMAIN purchaseOrders : CancelPurchaseOrder(o)
    \/ \E vat \in BOOLEAN :
          \/ \E r \in DOMAIN receipts : CreateSupplierInvoice("receipt", r, vat)
          \/ \E o \in DOMAIN purchaseOrders : CreateSupplierInvoice("order", o, vat)
    \/ ResetSampleModule

GoodsStep ==
    \/ \E w \in Warehouses, basket \in Baskets, cost \in Costs :
          CreatePurchaseReceipt(0, w, basket, cost)
    \/ \E o \in DOMAIN purchaseOrders, w \in Warehouses :
          \/ \E basket \in Baskets, cost \in Costs :
                CreatePurchaseReceipt(o, w, basket, cost)
          \/ CreatePurchaseReceipt(o, w, Outstanding(o), purchaseOrders[o].cost)
    \/ \E r \in DOMAIN receipts, charge \in Charges : LandedCostAllocation(r, charge)
    \/ \E charge \in Charges : PurchaseThreeWayMatch(charge)
    \/ \E p \in Products, q \in -MaxQty..MaxQty : AdjustStock(p, q)
    \/ \E r \in DOMAIN receipts : CancelPurchaseReceipt(r)
    \/ \E p \in Products, q \in 1..MaxQty : GoodsIssue(p, q)

ProcurementNext ==
    \/ PaperStep
    \/ GoodsStep
    \/ SetPeriod /\ NoEntry /\ UNCHANGED <<cump, papers>>

ProcurementSpec == ProcurementInit /\ [][ProcurementNext]_vars

-----------------------------------------------------------------------------
OfProduct(lines, p) == {i \in DOMAIN lines : lines[i].product = p}
QuantityOf(lines, p) == SumFunction([i \in OfProduct(lines, p) |-> lines[i].qty])
ReceivedOf(lines, p) == SumFunction([i \in OfProduct(lines, p) |-> lines[i].received])
\* What the receipts of an order brought.
BroughtFor(o, p) ==
    SumFunction([r \in {r \in DOMAIN receipts : receipts[r].order = o} |->
                   QuantityOf(receipts[r].lines, p)])

\* The lines of an order add up to what its receipts brought, product by
\* product, and never exceed what was ordered, however the goods come in parts
\* and even if the order is approved again after it was received; its status
\* is RECEIVED only when every line came, PARTIALLY_RECEIVED only while
\* something came and something is to come, and nothing came for an order that
\* was never approved (createPurchaseReceipt, approvePurchaseOrder).
OrdersMatchReceipts ==
    \A o \in DOMAIN purchaseOrders :
       LET lines == purchaseOrders[o].lines
           full == {i \in DOMAIN lines : lines[i].received = lines[i].qty}
           begun == {i \in DOMAIN lines : lines[i].received > 0}
       IN  /\ \A p \in Products : ReceivedOf(lines, p) = BroughtFor(o, p)
           /\ \A i \in DOMAIN lines : lines[i].received <= lines[i].qty
           /\ CASE purchaseOrders[o].status = "RECEIVED" -> full = DOMAIN lines
                [] purchaseOrders[o].status = "PARTIALLY_RECEIVED" ->
                     begun # {} /\ full # DOMAIN lines
                [] purchaseOrders[o].status = "DRAFT" -> begun = {}
                [] OTHER -> TRUE

StockValue == SumFunction([p \in Products |-> onHand[p] * cump[p]])
\* The same, with the size of each cost.
BookValue == SumFunction([p \in Products |-> onHand[p] * Size(cump[p])])
Units == SumFunction(onHand)
Sells == \E p \in Products, q \in 1..MaxQty : GoodsIssue(p, q)
Loads == \E charge \in Charges :
            \/ PurchaseThreeWayMatch(charge)
            \/ \E r \in DOMAIN receipts : LandedCostAllocation(r, charge)

Receives == Len(receipts') > Len(receipts)
\* The lines a step receives; each of them rounds the cost of its product.
LinesReceived == Len(receipts'[Len(receipts')].lines)

\* The goods account moves with the stock in every step but a sale and the
\* allocation of landed costs (the two change the value without an entry).  A
\* receipt on stock that is not negative moves it with the value, up to half a
\* centime per unit on hand and line.  Anything else, the cancellation of a
\* receipt that stops in the middle included, moves it exactly with the value of
\* the stock at the size of its costs: a receipt on negative stock may leave a
\* negative cost, and then goods that go out lower the account although the
\* value rises (createPurchaseReceipt, adjustStock, cancelDocument).
GoodsFollowValue ==
    [][/\ ~Sells /\ ~Loads /\ ~Receives => goods' = BookValue' - BookValue
       /\ Receives /\ (\A p \in Products : onHand[p] >= 0)
            => 2 * (StockValue' - StockValue - goods')
                 \in -(LinesReceived * Units')..(LinesReceived * Units')]_vars
=============================================================================
