------------------------------ MODULE Warehouse ------------------------------
(***************************************************************************)
(* The warehouse side of the stock: adjustments, receipts, transfers       *)
(* between warehouses, inventory counts, quarantine, maintenance spare     *)
(* parts, warranty replacements, production and the edition of a product.  *)
(*                                                                         *)
(* adjustStock and createPurchaseReceipt run under withRollback, so they   *)
(* happen completely or not at all; createProductionOrder does not         *)
(* (RejectProductionOrder).  An inventory count keeps the variance of the  *)
(* day it was counted and applies it whenever it is approved.              *)
(*                                                                         *)
(* Left out: refusals before any effect, the valuation (weighted average   *)
(* cost, journals), the purchase order a receipt may belong to, the work   *)
(* order a spare part belongs to, a count that names a product twice.      *)
(***************************************************************************)
EXTENDS Stock, Sequences

CONSTANTS MaxTransfers,  \* bounds on the number of documents of each kind
          MaxCounts,
          MaxHolds

ASSUME WarehouseAssumption == /\ IsFiniteSet(Warehouses)
                              /\ {MaxTransfers, MaxCounts, MaxHolds} \subseteq Nat

VARIABLES transfers,    \* workspace.stockTransfers
          counts,       \* workspace.inventoryCounts
          quarantines,  \* workspace.stockQuarantines
          spareParts    \* workspace.maintenanceSparePartReservations

warehouseVars == <<transfers, counts, quarantines, spareParts>>

Transfers == [product : Products, from : Warehouses, to : Warehouses, qty : Nat,
              status : {"IN_TRANSIT", "RECEIVED"}]
Counts == [warehouse : Warehouses, status : {"DRAFT", "POSTED"},
           variance : [Products -> Int]]
Quarantines == [product : Products, warehouse : Warehouses, qty : Nat,
                status : {"OPEN", "RELEASED"}]
SpareParts == [product : Products, qty : Nat, status : {"RESERVED", "CONSUMED"}]

-----------------------------------------------------------------------------
\* The check is against the stock on hand, not against what is available, and
\* the main warehouse is changed whatever it holds.
AdjustStock(p, q) ==
    /\ periodOpen
    /\ tracked[p]
    /\ q # 0
    /\ onHand[p] + q >= 0
    /\ Move(Main, Only(p, q))
    /\ UNCHANGED <<warehouseVars, reserved, tracked, held, periodOpen>>

\* Goods come in at one warehouse; an untracked product refuses the receipt.
CreatePurchaseReceipt(w, d) ==
    /\ periodOpen
    /\ \A p \in Products : d[p] > 0 => tracked[p]
    /\ Move(w, d)
    /\ UNCHANGED <<warehouseVars, reserved, tracked, held, periodOpen>>

TransferStock(p, from, to, q) ==
    /\ Len(transfers) < MaxTransfers
    /\ tracked[p]
    /\ q <= quantity[from][p] - held[from][p]
    /\ Shift(from, Only(p, -q))
    /\ transfers' = Append(transfers, [product |-> p, from |-> from, to |-> to,
                                       qty |-> q, status |-> "IN_TRANSIT"])
    /\ UNCHANGED <<onHand, reserved, tracked, held, periodOpen,
                   counts, quarantines, spareParts>>

ReceiveStockTransfer(t) ==
    /\ transfers[t].status = "IN_TRANSIT"
    /\ Shift(transfers[t].to, Only(transfers[t].product, transfers[t].qty))
    /\ transfers' = [transfers EXCEPT ![t].status = "RECEIVED"]
    /\ UNCHANGED <<onHand, reserved, tracked, held, periodOpen,
                   counts, quarantines, spareParts>>

\* The products in S are counted; the variance is against the warehouse row of
\* this moment.
CreateInventoryCount(w, S, counted) ==
    /\ Len(counts) < MaxCounts
    /\ counts' = Append(counts,
         [warehouse |-> w, status |-> "DRAFT",
          variance |-> [p \in Products |->
                          IF p \in S THEN counted[p] - quantity[w][p] ELSE 0]])
    /\ UNCHANGED <<stockVars, transfers, quarantines, spareParts>>

\* The variance is applied as it was computed, to stock that may have moved.
ApproveInventoryCount(c) ==
    /\ periodOpen
    /\ counts[c].status = "DRAFT"
    /\ Move(counts[c].warehouse, counts[c].variance)
    /\ counts' = [counts EXCEPT ![c].status = "POSTED"]
    /\ UNCHANGED <<reserved, tracked, held, periodOpen,
                   transfers, quarantines, spareParts>>

-----------------------------------------------------------------------------
\* What others have reserved is not looked at.
SetAsideMutant(p, w, q) ==
    /\ tracked[p]
    /\ q <= onHand[p]
    /\ Reserve(w, Only(p, q))
    /\ UNCHANGED <<onHand, tracked, quantity, periodOpen>>

\* Stock can be set aside: the product is tracked and q of it are available.
SetAside(p, w, q) ==
    /\ tracked[p]
    /\ q <= Available[p]
    /\ Reserve(w, Only(p, q))
    /\ UNCHANGED <<onHand, tracked, quantity, periodOpen>>

CreateStockQuarantine(p, w, q) ==
    /\ Len(quarantines) < MaxHolds
    /\ SetAside(p, w, q)
    /\ quarantines' = Append(quarantines, [product |-> p, warehouse |-> w,
                                           qty |-> q, status |-> "OPEN"])
    /\ UNCHANGED <<transfers, counts, spareParts>>

ReleasableMutant(h) == TRUE
\* A quarantine that is not OPEN is returned as it is.
Releasable(h) == quarantines[h].status = "OPEN"

ReleaseStockQuarantine(h) ==
    LET hold == quarantines[h] IN
    /\ Releasable(h)
    /\ Release(hold.warehouse, Only(hold.product, hold.qty))
    /\ quarantines' = [quarantines EXCEPT ![h].status = "RELEASED"]
    /\ UNCHANGED <<onHand, tracked, quantity, periodOpen,
                   transfers, counts, spareParts>>

\* A replacement article is reserved when the case is opened; no operation
\* releases it, and it is not given back if the case itself is then refused.
CreateWarrantyServiceCase(p) ==
    /\ SetAside(p, Main, 1)
    /\ UNCHANGED warehouseVars

ReserveMaintenanceSparePart(p, q) ==
    /\ Len(spareParts) < MaxHolds
    /\ SetAside(p, Main, q)
    /\ spareParts' = Append(spareParts, [product |-> p, qty |-> q,
                                         status |-> "RESERVED"])
    /\ UNCHANGED <<transfers, counts, quarantines>>

\* The part leaves the product's reservation and the main warehouse; the stock
\* on hand and the warehouse's own reservation keep counting it.
ConsumeMaintenanceSparePart(r) ==
    LET part == Only(spareParts[r].product, spareParts[r].qty) IN
    /\ spareParts[r].status = "RESERVED"
    /\ reserved' = Clamped(reserved, part)
    /\ Shift(Main, Negated(part))
    /\ spareParts' = [spareParts EXCEPT ![r].status = "CONSUMED"]
    /\ UNCHANGED <<onHand, tracked, held, periodOpen,
                   transfers, counts, quarantines>>

-----------------------------------------------------------------------------
\* Components are checked against the stock on hand, reserved or not; the
\* finished product comes in at the main warehouse.
CreateProductionOrder(finished, d, q) ==
    /\ Fits(d, onHand)
    /\ Move(Main, Plus(Negated(d), Only(finished, q)))
    /\ UNCHANGED <<warehouseVars, reserved, tracked, held, periodOpen>>

\* A component is short: those before it have been taken out of stock.
RejectProductionOrder(d, done) ==
    /\ Interrupted(done, d, onHand)
    /\ Move(Main, Negated(done))
    /\ UNCHANGED <<warehouseVars, reserved, tracked, held, periodOpen>>

\* The edition of a product: a new stock on hand is stored before the check
\* that it covers the reservations, and without touching the warehouses.  A
\* product that is no longer tracked has no stock; its reservations are erased
\* too, unless the edition also gave a stock on hand and failed that check, or
\* failed on an earlier field and only stopped the tracking.
UpdateProduct(p, t) ==
    /\ tracked' = [tracked EXCEPT ![p] = t]
    /\ \/ /\ t
          /\ \E n \in {onHand[p]} \cup 0..MaxStock : onHand' = [onHand EXCEPT ![p] = n]
          /\ UNCHANGED reserved
       \/ /\ ~t
          /\ onHand' = [onHand EXCEPT ![p] = 0]
          /\ reserved' \in {reserved, [reserved EXCEPT ![p] = 0]}
       \/ /\ ~t
          /\ UNCHANGED <<onHand, reserved>>
    /\ UNCHANGED <<warehouseVars, quantity, held, periodOpen>>

-----------------------------------------------------------------------------
PapersInit == /\ transfers = <<>>
              /\ counts = <<>>
              /\ quarantines = <<>>
              /\ spareParts = <<>>

WarehouseStep ==
    \/ \E p \in Products, q \in -MaxQty..MaxQty : AdjustStock(p, q)
    \/ \E w \in Warehouses, d \in Demands : CreatePurchaseReceipt(w, d)
    \/ \E p \in Products, from, to \in Warehouses, q \in 1..MaxQty :
          TransferStock(p, from, to, q)
    \/ \E t \in DOMAIN transfers : ReceiveStockTransfer(t)
    \/ \E w \in Warehouses, S \in SUBSET Products, counted \in Quantities :
          CreateInventoryCount(w, S, counted)
    \/ \E c \in DOMAIN counts : ApproveInventoryCount(c)
    \/ \E p \in Products, w \in Warehouses, q \in 1..MaxQty :
          CreateStockQuarantine(p, w, q)
    \/ \E h \in DOMAIN quarantines : ReleaseStockQuarantine(h)
    \/ \E p \in Products : CreateWarrantyServiceCase(p)
    \/ \E p \in Products, q \in 1..MaxQty : ReserveMaintenanceSparePart(p, q)
    \/ \E r \in DOMAIN spareParts : ConsumeMaintenanceSparePart(r)
    \/ \E p \in Products, d \in Quantities, q \in 1..MaxQty :
          CreateProductionOrder(p, d, q)
    \/ \E d \in Demands, done \in Quantities : RejectProductionOrder(d, done)
    \/ \E p \in Products, t \in BOOLEAN : UpdateProduct(p, t)

-----------------------------------------------------------------------------
PapersTypeOK ==
    /\ transfers \in Seq(Transfers)
    /\ counts \in Seq(Counts)
    /\ quarantines \in Seq(Quarantines)
    /\ spareParts \in Seq(SpareParts)

\* What the documents of a kind that are in a status carry of product p.
CarriedBy(docs, s, p) ==
    LET carrying == {i \in DOMAIN docs : docs[i].status = s /\ docs[i].product = p}
    IN  SumFunction([i \in carrying |-> docs[i].qty])

\* The warehouses and the road together, minus the product's own total.
Drift(p) == SumFunction([w \in Warehouses |-> quantity[w][p]])
            + CarriedBy(transfers, "IN_TRANSIT", p) - onHand[p]

EditsStock(p) == \E t \in BOOLEAN : UpdateProduct(p, t)
ConsumesPart == \E r \in DOMAIN spareParts : ConsumeMaintenanceSparePart(r)

\* The two records of a tracked product's stock, on the product and over the
\* warehouses and the transfers between them, change by the same amount in
\* every operation but the edition of the product and the consumption of a
\* spare part.
StockReconciles ==
    [][\A p \in Products :
         \/ ~tracked[p] \/ ~tracked'[p] \/ Drift(p)' = Drift(p)
         \/ EditsStock(p) \/ ConsumesPart]_<<stockVars, warehouseVars>>

OnHold(p) == CarriedBy(quarantines, "OPEN", p) + CarriedBy(spareParts, "RESERVED", p)
=============================================================================
