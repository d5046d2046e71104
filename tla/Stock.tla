-------------------------------- MODULE Stock --------------------------------
(***************************************************************************)
(* The stock state of one tenant workspace, which the sales, warehouse and *)
(* point-of-sale handlers of ErpStoreService all read and write.  Stock is *)
(* recorded twice: on the product (stockOnHand, reservedStock) and per     *)
(* warehouse (quantity, reserved).  The handlers keep the two in step by   *)
(* hand, one assignment at a time.                                         *)
(*                                                                         *)
(* A document's lines are abstracted to its demand: the total quantity per *)
(* product.  How the caller splits a demand into lines, and in which       *)
(* order, only matters when the handler throws in the middle of the loop   *)
(* over the lines: Interrupted says which parts of a demand may have been  *)
(* processed by then, over all splits and orders.                          *)
(* Quantities are whole numbers: rounding to two decimals is left out.     *)
(***************************************************************************)
EXTENDS Integers, FiniteSetsExt

CONSTANTS Products,     \* the products of the workspace
          Warehouses,   \* its warehouses
          Main,         \* workspace.warehouses[0], the default of every move
          MaxQty,       \* bound on the quantity of one line
          MaxStock      \* bound on every stock level, on both sides of zero

ASSUME StockAssumption == /\ IsFiniteSet(Products)
                          /\ Main \in Warehouses
                          /\ MaxQty \in Nat
                          /\ MaxStock \in Nat

VARIABLES onHand,     \* product.stockOnHand
          reserved,   \* product.reservedStock
          tracked,    \* product.trackStock; a service is never tracked here
          quantity,   \* warehouseStock.quantity
          held,       \* warehouseStock.reserved
          periodOpen  \* today's fiscal period is neither LOCKED nor CLOSED

stockVars == <<onHand, reserved, tracked, quantity, held, periodOpen>>

Quantities == [Products -> 0..MaxQty]

\* The demands a document may carry: documentLines refuses an empty document
\* and a line whose quantity is not positive.
Demands == {d \in Quantities : \E p \in Products : d[p] > 0}

Only(p, q) == [x \in Products |-> IF x = p THEN q ELSE 0]

\* Products that are not stock-tracked are skipped by every line loop.
Stocked(d) == [p \in Products |-> IF tracked[p] THEN d[p] ELSE 0]

Plus(f, d)   == [p \in Products |-> f[p] + d[p]]
Minus(f, d)  == [p \in Products |-> f[p] - d[p]]
Negated(d)   == [p \in Products |-> -d[p]]
\* Math.max(0, f - d)
Clamped(f, d) == [p \in Products |-> IF f[p] > d[p] THEN f[p] - d[p] ELSE 0]

Available == Minus(onHand, reserved)

\* The loop over the lines goes through: no line asks more than what is left.
FitsMutant(need, room) == \E p \in Products : need[p] > 0 /\ need[p] <= room[p]
Fits(need, room) == \A p \in Products : need[p] > 0 => need[p] <= room[p]

\* The loop throws after it has processed the part `done` of the demand: that
\* part was there, and some later line asks more than what is left.
Interrupted(done, need, room) ==
    /\ \A p \in Products : done[p] <= need[p]
    /\ Fits(done, room)
    /\ \E p \in Products : done[p] < need[p] /\ room[p] < need[p]

InRange(f) == \A p \in Products : f[p] \in -MaxStock..MaxStock

-----------------------------------------------------------------------------
\* A move changes the product's total and one warehouse; an untracked product
\* has no warehouse row to change.
Move(w, d) ==
    /\ onHand' = Plus(onHand, d)
    /\ quantity' = [quantity EXCEPT ![w] = Plus(@, Stocked(d))]
    /\ InRange(onHand')
    /\ InRange(quantity'[w])

ShiftMutant(w, d) == UNCHANGED quantity
\* A move between the warehouses and the road leaves the total alone.
Shift(w, d) ==
    /\ quantity' = [quantity EXCEPT ![w] = Plus(@, Stocked(d))]
    /\ InRange(quantity'[w])

Reserve(w, d) ==
    /\ reserved' = Plus(reserved, d)
    /\ held' = [held EXCEPT ![w] = Plus(@, Stocked(d))]
    /\ InRange(held'[w])

Release(w, d) ==
    /\ reserved' = Clamped(reserved, d)
    /\ held' = [held EXCEPT ![w] = Clamped(@, Stocked(d))]

\* The fiscal period of today is locked, closed, or opened again.
SetPeriod ==
    /\ periodOpen' = ~periodOpen
    /\ UNCHANGED <<onHand, reserved, tracked, quantity, held>>

-----------------------------------------------------------------------------
\* Products and warehouses as reset and addProduct leave them: all the stock
\* is in the main warehouse and nothing is reserved.
StockInit ==
    /\ onHand \in [Products -> 0..MaxStock]
    /\ reserved = [p \in Products |-> 0]
    /\ tracked = [p \in Products |-> TRUE]
    /\ quantity = [w \in Warehouses |->
                     IF w = Main THEN onHand ELSE [p \in Products |-> 0]]
    /\ held = [w \in Warehouses |-> [p \in Products |-> 0]]
    /\ periodOpen = TRUE

StockTypeOK ==
    /\ onHand \in [Products -> Int]
    /\ reserved \in [Products -> Nat]
    /\ tracked \in [Products -> BOOLEAN]
    /\ quantity \in [Warehouses -> [Products -> Int]]
    /\ held \in [Warehouses -> [Products -> Nat]]
    /\ periodOpen \in BOOLEAN
=============================================================================
