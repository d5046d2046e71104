----------------------------- MODULE SalesProofs -----------------------------
(***************************************************************************)
(* What Sales promises for every set of products and warehouses and every  *)
(* bound, what Quotes adds in front of it, and what still holds when the   *)
(* warehouse works on the same stock (Inventory).                          *)
(*                                                                         *)
(* StockTypeOK and SalesStayCovered are inductive together.  The lemmas    *)
(* below say what each of the four stock operations does to them; the      *)
(* steps of the theorems then name the operation each action uses.  The    *)
(* claims of the confirmed orders are a sum over the orders: three lemmas  *)
(* say how an order that is added, delivered or released changes it.       *)
(*                                                                         *)
(* Seen from the stock and the sales documents every step of Quotes is a   *)
(* step of Sales or none, so what holds of Sales holds with quotes too.    *)
(*                                                                         *)
(* The invariant of Inventory is the type of the stock and of the          *)
(* documents, with what the sales documents need to stay well typed        *)
(* (NotesMatchOrders); reservations need not stay within the stock there.  *)
(* A sales step touches the stock in one of five ways only (SalesEffects), *)
(* so each theorem looks at the five and then at the warehouse handlers,   *)
(* one by one.  Two of the theorems compare sums before and after a step:  *)
(* over the warehouses, over the documents that carry a product, over      *)
(* orders.                                                                 *)
(***************************************************************************)
EXTENDS Quotes, Inventory, Sums, SequenceTheorems

Covered == StockTypeOK /\ SalesStayCovered

\* Quantities are natural numbers, and so is the part of them that is stocked.
LEMMA QuantitiesNat == StockAssumption => Quantities \subseteq [Products -> Nat]
BY DEF Quantities, StockAssumption

\* An order of the list is an order, and its lines are natural numbers.
LEMMA LinesNat ==
    ASSUME StockAssumption, SalesTypeOK, NEW o \in DOMAIN orders
    PROVE  /\ orders[o] \in Orders
           /\ orders[o].lines \in [Products -> Nat]
<1>1. orders \in Seq(Orders)
  BY DEF SalesTypeOK, DocumentsTypeOK
<1>2. orders[o] \in Orders
  BY <1>1
<1>. QED
  BY <1>2, QuantitiesNat DEF Orders

LEMMA StockedType ==
    ASSUME StockTypeOK, NEW d \in [Products -> Nat]
    PROVE  Stocked(d) \in [Products -> Nat]
BY DEF Stocked, StockTypeOK

\* Reserving a demand that fits what is available.
LEMMA ReserveCovered ==
    ASSUME StockAssumption, Covered, NEW need \in [Products -> Nat],
           Fits(need, Available), Reserve(Main, need),
           UNCHANGED <<onHand, tracked, quantity, periodOpen>>
    PROVE  Covered'
<1>1. reserved' \in [Products -> Nat]
  BY DEF Reserve, Plus, Covered, StockTypeOK
<1>2. Plus(held[Main], Stocked(need)) \in [Products -> Nat]
  BY StockedType DEF StockAssumption, Plus, Covered, StockTypeOK
<1>3. held' \in [Warehouses -> [Products -> Nat]]
  BY <1>2 DEF Reserve, Covered, StockTypeOK, StockAssumption
<1>4. ASSUME NEW p \in Products
      PROVE  reserved'[p] <= onHand'[p]
  BY DEF Fits, Available, Minus, Reserve, Plus, Covered, StockTypeOK, SalesStayCovered
<1>. QED
  BY <1>1, <1>3, <1>4 DEF Covered, StockTypeOK, SalesStayCovered

\* Shipping what fits the reservations.
LEMMA ShipCovered ==
    ASSUME StockAssumption, Covered, NEW need \in [Products -> Nat],
           Fits(need, reserved), Ship(need), UNCHANGED <<tracked, periodOpen>>
    PROVE  Covered'
<1>1. reserved' \in [Products -> Nat]
  BY DEF Ship, Fits, Minus, Covered, StockTypeOK
<1>2. onHand' \in [Products -> Int]
  BY DEF Ship, Move, Plus, Negated, Covered, StockTypeOK
<1>3. held' \in [Warehouses -> [Products -> Nat]]
  BY DEF Ship, Clamped, Covered, StockTypeOK, StockAssumption
<1>4. quantity' \in [Warehouses -> [Products -> Int]]
  <2>1. Negated(need) \in [Products -> Int]
    BY DEF Negated
  <2>2. Stocked(Negated(need)) \in [Products -> Int]
    BY <2>1 DEF Stocked, Covered, StockTypeOK
  <2>. QED
    BY <2>2 DEF Ship, Move, Plus, Covered, StockTypeOK, StockAssumption
<1>5. ASSUME NEW p \in Products
      PROVE  reserved'[p] <= onHand'[p]
  BY DEF Ship, Move, Plus, Minus, Negated, Covered, StockTypeOK, SalesStayCovered
<1>. QED
  BY <1>1, <1>2, <1>3, <1>4, <1>5 DEF Covered, StockTypeOK, SalesStayCovered

\* A move that leaves each product at least its reservation.
LEMMA MoveCovered ==
    ASSUME StockAssumption, Covered, NEW d \in [Products -> Int],
           \A p \in Products : reserved[p] <= onHand[p] + d[p],
           Move(Main, d), UNCHANGED <<reserved, tracked, held, periodOpen>>
    PROVE  Covered'
<1>1. onHand' \in [Products -> Int]
  BY DEF Move, Plus, Covered, StockTypeOK
<1>2. Stocked(d) \in [Products -> Int]
  BY DEF Stocked, Covered, StockTypeOK
<1>3. quantity' \in [Warehouses -> [Products -> Int]]
  BY <1>2 DEF Move, Plus, Covered, StockTypeOK, StockAssumption
<1>4. ASSUME NEW p \in Products
      PROVE  reserved'[p] <= onHand'[p]
  BY DEF Move, Plus
<1>. QED
  BY <1>1, <1>3, <1>4 DEF Covered, StockTypeOK, SalesStayCovered

\* Releasing any quantity, more than is reserved included.
LEMMA ReleaseCovered ==
    ASSUME StockAssumption, Covered, NEW d \in [Products -> Nat],
           Release(Main, d), UNCHANGED <<onHand, tracked, quantity, periodOpen>>
    PROVE  Covered'
<1>1. Stocked(d) \in [Products -> Nat]
  BY StockedType DEF Covered
<1>2. reserved' \in [Products -> Nat]
  BY DEF Release, Clamped, Covered, StockTypeOK
<1>3. Clamped(held[Main], Stocked(d)) \in [Products -> Nat]
  BY <1>1 DEF Clamped, Covered, StockTypeOK, StockAssumption
<1>4. held' \in [Warehouses -> [Products -> Nat]]
  BY <1>3 DEF Release, Covered, StockTypeOK, StockAssumption
<1>5. ASSUME NEW p \in Products
      PROVE  reserved'[p] <= onHand'[p]
  BY DEF Release, Clamped, Covered, StockTypeOK, SalesStayCovered
<1>. QED
  BY <1>2, <1>4, <1>5 DEF Covered, StockTypeOK, SalesStayCovered

-----------------------------------------------------------------------------
LEMMA InitCovered == StockAssumption /\ StockInit => Covered
BY DEF StockAssumption, StockInit, Covered, StockTypeOK, SalesStayCovered

LEMMA StepCovered ==
    ASSUME StockAssumption, SalesTypeOK, SalesStayCovered, SalesStep
    PROVE  Covered'
<1>. USE QuantitiesNat
<1>0. Covered
  BY DEF Covered, SalesTypeOK
<1>1. ASSUME NEW d \in Demands, CreateSalesOrder(d)
      PROVE  Covered'
  BY <1>0, <1>1, StockedType, ReserveCovered DEF CreateSalesOrder, Demands, Covered
<1>2. ASSUME NEW d \in Demands, NEW done \in Quantities, RejectSalesOrder(d, done)
      PROVE  Covered'
  BY <1>0, <1>2, ReserveCovered DEF RejectSalesOrder, Interrupted
<1>3. ASSUME NEW o \in DOMAIN orders, CreateDeliveryNoteFromOrder(o)
      PROVE  Covered'
  <2>1. orders[o].lines \in [Products -> Nat]
    BY LinesNat
  <2>. QED
    BY <1>0, <1>3, <2>1, StockedType, ShipCovered
    DEF CreateDeliveryNoteFromOrder, Covered
<1>4. ASSUME NEW o \in DOMAIN orders, NEW done \in Quantities,
             RejectDeliveryNote(o, done)
      PROVE  Covered'
  BY <1>0, <1>4, ShipCovered DEF RejectDeliveryNote, Interrupted
<1>5. ASSUME NEW n \in DOMAIN notes, CancelDeliveryNote(n)
      PROVE  Covered'
  <2>. DEFINE back == Stocked(orders[notes[n].order].lines)
  <2>1. notes[n].order \in DOMAIN orders
    BY DEF SalesTypeOK, DocumentsTypeOK
  <2>2. orders[notes[n].order].lines \in [Products -> Nat]
    BY <2>1, LinesNat
  <2>3. back \in [Products -> Nat]
    BY <1>0, <2>2, StockedType DEF Covered
  <2>4. \A p \in Products : reserved[p] <= onHand[p] + back[p]
    <3>. HIDE DEF back
    <3>. QED BY <1>0, <2>3 DEF Covered, StockTypeOK, SalesStayCovered
  <2>5. /\ Move(Main, back)
        /\ UNCHANGED <<reserved, tracked, held, periodOpen>>
    BY <1>5 DEF CancelDeliveryNote
  <2>. HIDE DEF back
  <2>. QED
    BY <1>0, <2>3, <2>4, <2>5, MoveCovered
<1>6. ASSUME NEW o \in DOMAIN orders, ConvertOrderToInvoice(o)
      PROVE  Covered'
  BY <1>0, <1>6 DEF ConvertOrderToInvoice, stockVars, Covered, StockTypeOK, SalesStayCovered
<1>7. ASSUME NEW d \in Demands, CreateInvoice(d)
      PROVE  Covered'
  <2>1. Stocked(d) \in [Products -> Nat]
    BY <1>0, StockedType DEF Demands, Covered
  <2>2. Negated(Stocked(d)) \in [Products -> Int]
    BY <2>1 DEF Negated
  <2>3. \A p \in Products : reserved[p] <= onHand[p] + Negated(Stocked(d))[p]
    BY <1>0, <1>7, <2>1
    DEF CreateInvoice, Fits, Available, Minus, Negated, Covered, StockTypeOK, SalesStayCovered
  <2>. QED
    BY <1>0, <1>7, <2>2, <2>3, MoveCovered DEF CreateInvoice
<1>8. ASSUME NEW k \in DOMAIN orders, ReleaseExpiredStockReservations(k)
      PROVE  Covered'
  BY <1>0, <1>8, StockedType, ReleaseCovered DEF ReleaseExpiredStockReservations, Covered
<1>9. CASE ResetSampleModule
  BY <1>0, <1>9 DEF ResetSampleModule, stockVars, Covered, StockTypeOK, SalesStayCovered
<1>. QED
  BY <1>1, <1>2, <1>3, <1>4, <1>5, <1>6, <1>7, <1>8, <1>9 DEF SalesStep
-----------------------------------------------------------------------------
\* Changing the status of an order keeps the list of orders a list of orders
\* of the same length, and changes nothing else of it.
LEMMA SetStatusOrders ==
    ASSUME orders \in Seq(Orders), NEW o \in DOMAIN orders,
           NEW s \in OrderStatus, SetStatus(o, s)
    PROVE  /\ orders' \in Seq(Orders)
           /\ DOMAIN orders' = DOMAIN orders
           /\ \A x \in DOMAIN orders :
                /\ orders'[x].lines = orders[x].lines
                /\ orders'[x].status = IF x = o THEN s ELSE orders[x].status
<1>1. orders[o] \in Orders /\ DOMAIN orders = 1..Len(orders)
  BY LenProperties
<1>2. [orders[o] EXCEPT !.status = s] \in Orders
  BY <1>1 DEF Orders
<1>3. orders' = [orders EXCEPT ![o] = [orders[o] EXCEPT !.status = s]]
  BY DEF SetStatus
<1>4. orders' \in Seq(Orders) /\ Len(orders') = Len(orders)
  BY <1>1, <1>2, <1>3, ExceptSeq
<1>5. DOMAIN orders' = DOMAIN orders
  BY <1>1, <1>4, LenProperties
<1>6. ASSUME NEW x \in DOMAIN orders
      PROVE  /\ orders'[x].lines = orders[x].lines
             /\ orders'[x].status = IF x = o THEN s ELSE orders[x].status
  <2>1. orders[x] \in Orders
    BY <1>1, LenProperties
  <2>. QED BY <1>1, <1>3, <2>1 DEF Orders
<1>. QED BY <1>4, <1>5, <1>6

\* Releasing stale orders: confirmed ones become cancelled, others stay.
LEMMA ReleaseOrders ==
    ASSUME orders \in Seq(Orders), NEW k \in DOMAIN orders,
           ReleaseExpiredStockReservations(k)
    PROVE  /\ orders' \in Seq(Orders)
           /\ DOMAIN orders' = DOMAIN orders
           /\ \A x \in DOMAIN orders :
                /\ orders'[x].lines = orders[x].lines
                /\ \/ orders'[x] = orders[x]
                   \/ /\ orders[x].status = "CONFIRMED"
                      /\ orders'[x].status = "CANCELLED"
<1>1. /\ DOMAIN orders = 1..Len(orders)
      /\ Len(orders) \in Nat
      /\ orders \in [DOMAIN orders -> Orders]
  BY LenProperties
<1>2. orders' = [o \in DOMAIN orders |->
                   IF o \in Stale(k) THEN [orders[o] EXCEPT !.status = "CANCELLED"]
                                     ELSE orders[o]]
  BY DEF ReleaseExpiredStockReservations
<1>3. ASSUME NEW x \in DOMAIN orders
      PROVE  /\ orders'[x] \in Orders
             /\ orders'[x].lines = orders[x].lines
             /\ \/ orders'[x] = orders[x]
                \/ /\ orders[x].status = "CONFIRMED"
                   /\ orders'[x].status = "CANCELLED"
  <2>1. orders[x] \in Orders
    BY <1>1
  <2>. QED BY <1>2, <2>1 DEF Stale, Orders, OrderStatus
<1>4. orders' \in [1..Len(orders) -> Orders]
  BY <1>1, <1>2, <1>3
<1>5. orders' \in Seq(Orders)
  BY <1>1, <1>4, SeqDef
<1>. QED BY <1>2, <1>3, <1>5
-----------------------------------------------------------------------------
Documents == DocumentsTypeOK /\ NotesMatchOrders

\* A new confirmed order has no note yet.
LEMMA CreateDocuments ==
    ASSUME Documents, NEW d \in Quantities, UNCHANGED notes,
           orders' = Append(orders, [status |-> "CONFIRMED", lines |-> d])
    PROVE  Documents'
<1>. DEFINE new == [status |-> "CONFIRMED", lines |-> d]
<1>1. orders \in Seq(Orders) /\ new \in Orders
  BY DEF Documents, DocumentsTypeOK, Orders, OrderStatus
<1>2. /\ orders' \in Seq(Orders)
      /\ Len(orders') = Len(orders) + 1
      /\ \A x \in 1..Len(orders) : orders'[x] = orders[x]
      /\ orders'[Len(orders) + 1] = new
      /\ Len(orders) \in Nat
      /\ DOMAIN orders = 1..Len(orders)
      /\ DOMAIN orders' = 1..(Len(orders) + 1)
  BY <1>1, AppendProperties, LenProperties
<1>3. DocumentsTypeOK'
  BY <1>2 DEF Documents, DocumentsTypeOK
<1>4. ASSUME NEW o \in DOMAIN orders'
      PROVE  PostedNote(o)' <=> orders'[o].status \in {"DELIVERED", "INVOICED"}
  <2>1. CASE o \in DOMAIN orders
    BY <1>2, <2>1 DEF Documents, NotesMatchOrders, PostedNote
  <2>2. CASE o = Len(orders) + 1
    BY <1>2, <2>2 DEF Documents, DocumentsTypeOK, PostedNote
  <2>. QED BY <1>2, <2>1, <2>2
<1>. QED
  BY <1>3, <1>4 DEF Documents, NotesMatchOrders

\* The note of a delivery: the order it is for had none posted.
LEMMA DeliverDocuments ==
    ASSUME Documents, NEW o \in DOMAIN orders, orders[o].status = "CONFIRMED",
           SetStatus(o, "DELIVERED"),
           notes' = Append(notes, [order |-> o, status |-> "POSTED"])
    PROVE  Documents'
<1>. DEFINE new == [order |-> o, status |-> "POSTED"]
<1>1. orders \in Seq(Orders) /\ notes \in Seq(Notes)
  BY DEF Documents, DocumentsTypeOK
<1>2. /\ orders' \in Seq(Orders)
      /\ DOMAIN orders' = DOMAIN orders
      /\ \A x \in DOMAIN orders :
           orders'[x].status = IF x = o THEN "DELIVERED" ELSE orders[x].status
  BY <1>1, SetStatusOrders DEF OrderStatus
<1>3. new \in Notes
  BY <1>1, LenProperties DEF Notes
<1>4. /\ notes' \in Seq(Notes)
      /\ Len(notes) \in Nat
      /\ DOMAIN notes = 1..Len(notes)
      /\ DOMAIN notes' = 1..(Len(notes) + 1)
      /\ \A n \in 1..Len(notes) : notes'[n] = notes[n]
      /\ notes'[Len(notes) + 1] = new
  BY <1>1, <1>3, AppendProperties, LenProperties
<1>5. \A n \in DOMAIN notes : notes[n] = new => FALSE
  BY DEF Documents, NotesMatchOrders, PostedNote
<1>6. DocumentsTypeOK'
  BY <1>2, <1>4 DEF Documents, DocumentsTypeOK
<1>7. ASSUME NEW x \in DOMAIN orders'
      PROVE  PostedNote(x)' <=> orders'[x].status \in {"DELIVERED", "INVOICED"}
  <2>1. CASE x = o
    BY <1>2, <1>4, <2>1 DEF PostedNote
  <2>2. CASE x # o
    <3>1. PostedNote(x)' <=> PostedNote(x)
      BY <1>4, <2>2 DEF PostedNote
    <3>. QED BY <1>2, <2>2, <3>1 DEF Documents, NotesMatchOrders
  <2>. QED BY <2>1, <2>2
<1>8. ASSUME NEW m \in DOMAIN notes', NEW n \in DOMAIN notes',
             notes'[m].status = "POSTED", notes'[n].status = "POSTED",
             notes'[m].order = notes'[n].order
      PROVE  m = n
  <2>1. \A i \in DOMAIN notes : notes[i] \in Notes
    BY <1>1, <1>4, ElementOfSeq
  <2>2. \A i \in DOMAIN notes :
          notes[i].status = "POSTED" => notes[i].order # o
    BY <1>5, <2>1 DEF Notes
  <2>. QED BY <1>4, <1>8, <2>2 DEF Documents, NotesMatchOrders
<1>. QED
  BY <1>6, <1>7, <1>8 DEF Documents, NotesMatchOrders

\* A cancelled delivery: its note was the only posted one of its order.
LEMMA CancelDocuments ==
    ASSUME Documents, NEW n \in DOMAIN notes, notes[n].status = "POSTED",
           SetStatus(notes[n].order, "CONFIRMED"),
           notes' = [notes EXCEPT ![n].status = "CANCELLED"]
    PROVE  Documents'
<1>. DEFINE o == notes[n].order
<1>1. orders \in Seq(Orders) /\ notes \in Seq(Notes) /\ o \in DOMAIN orders
  BY DEF Documents, DocumentsTypeOK
<1>2. /\ orders' \in Seq(Orders)
      /\ DOMAIN orders' = DOMAIN orders
      /\ \A x \in DOMAIN orders :
           orders'[x].status = IF x = o THEN "CONFIRMED" ELSE orders[x].status
  BY <1>1, SetStatusOrders DEF OrderStatus
<1>3. DOMAIN notes = 1..Len(notes) /\ \A i \in DOMAIN notes : notes[i] \in Notes
  BY <1>1, LenProperties, ElementOfSeq
<1>. DEFINE new == [notes[n] EXCEPT !.status = "CANCELLED"]
<1>4. new \in Notes /\ new.order = o /\ new.status = "CANCELLED"
  BY <1>3 DEF Notes
<1>5. notes' = [notes EXCEPT ![n] = new]
  OBVIOUS
<1>6. /\ notes' \in Seq(Notes)
      /\ DOMAIN notes' = DOMAIN notes
      /\ \A i \in DOMAIN notes : notes'[i] = IF i = n THEN new ELSE notes[i]
  BY <1>1, <1>3, <1>4, <1>5, ExceptSeq, LenProperties
<1>. HIDE DEF new
<1>7. DocumentsTypeOK'
  BY <1>2, <1>4, <1>6 DEF Documents, DocumentsTypeOK
<1>8. \A i \in DOMAIN notes : i # n /\ notes[i].status = "POSTED" => notes[i].order # o
  BY DEF Documents, NotesMatchOrders
<1>9. ASSUME NEW x \in DOMAIN orders'
      PROVE  PostedNote(x)' <=> orders'[x].status \in {"DELIVERED", "INVOICED"}
  <2>1. CASE x = o
    <3>1. \A i \in DOMAIN notes : notes'[i] # [order |-> o, status |-> "POSTED"]
      BY <1>4, <1>6, <1>8
    <3>. QED BY <1>2, <1>6, <2>1, <3>1 DEF PostedNote
  <2>2. CASE x # o
    <3>1. PostedNote(x)' <=> PostedNote(x)
      BY <1>3, <1>4, <1>6, <2>2 DEF PostedNote, Notes
    <3>. QED BY <1>2, <2>2, <3>1 DEF Documents, NotesMatchOrders
  <2>. QED BY <2>1, <2>2
<1>10. ASSUME NEW i \in DOMAIN notes', NEW j \in DOMAIN notes',
              notes'[i].status = "POSTED", notes'[j].status = "POSTED",
              notes'[i].order = notes'[j].order
       PROVE  i = j
  BY <1>4, <1>6, <1>10 DEF Documents, NotesMatchOrders
<1>. QED
  BY <1>7, <1>9, <1>10 DEF Documents, NotesMatchOrders
\* Invoicing or releasing: the notes stay, and an order moves only between
\* statuses that ask for the same notes.
LEMMA KeepDocuments ==
    ASSUME Documents, UNCHANGED notes,
           orders' \in Seq(Orders), DOMAIN orders' = DOMAIN orders,
           \A x \in DOMAIN orders :
              orders'[x].status \in {"DELIVERED", "INVOICED"}
                <=> orders[x].status \in {"DELIVERED", "INVOICED"}
    PROVE  Documents'
BY DEF Documents, DocumentsTypeOK, NotesMatchOrders, PostedNote

LEMMA StepDocuments ==
    ASSUME StockAssumption, SalesTypeOK, NotesMatchOrders, SalesStep
    PROVE  Documents'
<1>0. Documents /\ orders \in Seq(Orders)
  BY DEF Documents, SalesTypeOK, DocumentsTypeOK
<1>1. ASSUME NEW d \in Demands, CreateSalesOrder(d)
      PROVE  Documents'
  BY <1>0, <1>1, CreateDocuments DEF CreateSalesOrder, Demands
<1>2. ASSUME NEW d \in Demands, NEW done \in Quantities, RejectSalesOrder(d, done)
      PROVE  Documents'
  BY <1>0, <1>2, KeepDocuments DEF RejectSalesOrder
<1>3. ASSUME NEW o \in DOMAIN orders, CreateDeliveryNoteFromOrder(o)
      PROVE  Documents'
  BY <1>0, <1>3, DeliverDocuments DEF CreateDeliveryNoteFromOrder, Deliverable
<1>4. ASSUME NEW o \in DOMAIN orders, NEW done \in Quantities,
             RejectDeliveryNote(o, done)
      PROVE  Documents'
  BY <1>0, <1>4, KeepDocuments DEF RejectDeliveryNote
<1>5. ASSUME NEW n \in DOMAIN notes, CancelDeliveryNote(n)
      PROVE  Documents'
  BY <1>0, <1>5, CancelDocuments DEF CancelDeliveryNote
<1>6. ASSUME NEW o \in DOMAIN orders, ConvertOrderToInvoice(o)
      PROVE  Documents'
  <2>1. /\ SetStatus(o, "INVOICED")
        /\ orders[o].status = "DELIVERED"
        /\ UNCHANGED notes
    BY <1>6 DEF ConvertOrderToInvoice
  <2>2. /\ orders' \in Seq(Orders)
        /\ DOMAIN orders' = DOMAIN orders
        /\ \A x \in DOMAIN orders :
             orders'[x].status = IF x = o THEN "INVOICED" ELSE orders[x].status
    BY <1>0, <2>1, SetStatusOrders DEF OrderStatus
  <2>. QED BY <1>0, <2>1, <2>2, KeepDocuments
<1>7. ASSUME NEW d \in Demands, CreateInvoice(d)
      PROVE  Documents'
  BY <1>0, <1>7, KeepDocuments DEF CreateInvoice, salesVars
<1>8. ASSUME NEW k \in DOMAIN orders, ReleaseExpiredStockReservations(k)
      PROVE  Documents'
  <2>1. UNCHANGED notes
    BY <1>8 DEF ReleaseExpiredStockReservations
  <2>2. /\ orders' \in Seq(Orders)
        /\ DOMAIN orders' = DOMAIN orders
        /\ \A x \in DOMAIN orders :
             \/ orders'[x] = orders[x]
             \/ orders[x].status = "CONFIRMED" /\ orders'[x].status = "CANCELLED"
    BY <1>0, <1>8, ReleaseOrders
  <2>3. \A x \in DOMAIN orders :
           orders'[x].status \in {"DELIVERED", "INVOICED"}
             <=> orders[x].status \in {"DELIVERED", "INVOICED"}
    BY <2>2
  <2>. QED BY <1>0, <2>1, <2>2, <2>3, KeepDocuments
<1>9. CASE ResetSampleModule
  BY <1>9, EmptySeq
  DEF ResetSampleModule, Documents, DocumentsTypeOK, NotesMatchOrders, PostedNote
<1>. QED
  BY <1>1, <1>2, <1>3, <1>4, <1>5, <1>6, <1>7, <1>8, <1>9 DEF SalesStep

-----------------------------------------------------------------------------
SalesInv == SalesTypeOK /\ SalesStayCovered /\ NotesMatchOrders

LEMMA SalesInvHolds == SalesSpec => []SalesInv
<1>1. SalesInit => SalesInv
  BY StockAssumption, InitCovered, EmptySeq
  DEF SalesInit, DocumentsInit, Covered, SalesInv, SalesTypeOK, DocumentsTypeOK,
      NotesMatchOrders, PostedNote
<1>2. SalesInv /\ [SalesNext]_allSalesVars => SalesInv'
  <2>. SUFFICES ASSUME SalesInv, [SalesNext]_allSalesVars
                PROVE  SalesInv'
    OBVIOUS
  <2>1. CASE SalesStep
    BY <2>1, StockAssumption, StepCovered, StepDocuments
    DEF SalesInv, Covered, Documents, SalesTypeOK
  <2>2. CASE SetPeriod /\ UNCHANGED salesVars
    BY <2>2 DEF SetPeriod, salesVars, SalesInv, SalesTypeOK, StockTypeOK,
                DocumentsTypeOK, SalesStayCovered, NotesMatchOrders, PostedNote
  <2>3. CASE UNCHANGED allSalesVars
    BY <2>3 DEF allSalesVars, stockVars, salesVars, SalesInv, SalesTypeOK, StockTypeOK,
                DocumentsTypeOK, SalesStayCovered, NotesMatchOrders, PostedNote
  <2>. QED BY <2>1, <2>2, <2>3 DEF SalesNext
<1>. QED BY <1>1, <1>2, PTL DEF SalesSpec

-----------------------------------------------------------------------------
\* What the confirmed orders of a list claim of a product, order by order, and
\* in total.
ClaimOf(os, p) ==
    [o \in DOMAIN os |-> IF os[o].status = "CONFIRMED" THEN os[o].lines[p] ELSE 0]
Backlog(os, p) == SumFunction(ClaimOf(os, p))

AllStocked == tracked = [p \in Products |-> TRUE]
NothingCancelled == \A n \in DOMAIN notes : notes[n].status = "POSTED"
BackedInv == SalesInv /\ AllStocked /\ ReservationsBacked

LEMMA ClaimType ==
    ASSUME StockAssumption, NEW os \in Seq(Orders), NEW p \in Products
    PROVE  /\ IsFiniteSet(DOMAIN os)
           /\ ClaimOf(os, p) \in [DOMAIN os -> Nat]
           /\ ClaimOf(os, p) \in [DOMAIN os -> Int]
           /\ Backlog(os, p) \in Nat
           /\ \A o \in DOMAIN os : ClaimOf(os, p)[o] <= Backlog(os, p)
<1>1. DOMAIN os = 1..Len(os) /\ Len(os) \in Nat
  OBVIOUS
<1>2. IsFiniteSet(DOMAIN os)
  BY <1>1, FS_Interval
<1>3. ASSUME NEW o \in DOMAIN os
      PROVE  os[o].lines[p] \in Nat
  <2>1. os[o] \in Orders
    OBVIOUS
  <2>2. os[o].lines \in [Products -> Nat]
    BY <2>1, QuantitiesNat DEF Orders
  <2>. QED
    BY <2>2
<1>4. ClaimOf(os, p) \in [DOMAIN os -> Nat]
  BY <1>3 DEF ClaimOf
<1>5. ClaimOf(os, p) \in [DOMAIN os -> Int]
  BY <1>3 DEF ClaimOf
<1>. QED
  BY <1>2, <1>4, <1>5, SumNat DEF Backlog

\* The sum of the model, over the confirmed orders only.
LEMMA ConfirmedLines ==
    ASSUME StockAssumption, NEW os \in Seq(Orders), NEW p \in Products
    PROVE  SumFunction([o \in {o \in DOMAIN os : os[o].status = "CONFIRMED"} |-> os[o].lines[p]])
             = Backlog(os, p)
<1>. DEFINE T == {o \in DOMAIN os : os[o].status = "CONFIRMED"}
            g == [o \in T |-> os[o].lines[p]]
            f == ClaimOf(os, p)
<1>. DEFINE S == DOMAIN os
<1>1. f \in [S -> Int] /\ IsFiniteSet(S)
  BY ClaimType
<1>2. T \in SUBSET S /\ \A o \in S \ T : f[o] = 0
  BY DEF ClaimOf
<1>3. g = [o \in T |-> f[o]]
  BY DEF ClaimOf
<1>. HIDE DEF S, T, g, f
<1>4. SumFunction(g) = SumFunction(f)
  BY ONLY <1>1, <1>2, <1>3, SumSupport
<1>. QED
  BY <1>4 DEF T, g, f, Backlog

LEMMA BackedBacklog ==
    ASSUME StockAssumption, SalesTypeOK
    PROVE  ReservationsBacked <=>
             (NothingCancelled => \A p \in Products : Backlog(orders, p) <= reserved[p])
<1>1. orders \in Seq(Orders)
  BY DEF SalesTypeOK, DocumentsTypeOK
<1>2. \A p \in Products : LinesOf(Confirmed, p) = Backlog(orders, p)
  BY <1>1, ConfirmedLines DEF LinesOf, Confirmed
<1>. QED
  BY <1>2 DEF ReservationsBacked, NothingCancelled

\* The claims of a list of which one order has changed its claim.
LEMMA BacklogChanged ==
    ASSUME StockAssumption, NEW os \in Seq(Orders), NEW new \in Seq(Orders),
           DOMAIN new = DOMAIN os, NEW x \in DOMAIN os, NEW p \in Products,
           \A o \in DOMAIN os : /\ new[o].lines = os[o].lines
                                /\ o # x => new[o].status = os[o].status
    PROVE  Backlog(new, p) = Backlog(os, p) - ClaimOf(os, p)[x] + ClaimOf(new, p)[x]
<1>. DEFINE f == ClaimOf(os, p)
            g == ClaimOf(new, p)
<1>1. f \in [DOMAIN os -> Int] /\ g \in [DOMAIN os -> Int] /\ IsFiniteSet(DOMAIN os)
  BY ClaimType
<1>2. \A o \in DOMAIN os \ {x} : g[o] = f[o]
  BY DEF ClaimOf
<1>. DEFINE S == DOMAIN os
<1>. HIDE DEF S, f, g
<1>3. SumFunction(g) = SumFunction(f) - f[x] + g[x]
  <2>1. /\ f \in [S -> Int] /\ g \in [S -> Int] /\ IsFiniteSet(S) /\ x \in S
        /\ \A o \in S \ {x} : g[o] = f[o]
    BY <1>1, <1>2 DEF S
  <2>. QED
    BY ONLY <2>1, SumChange
<1>. QED
  BY <1>3 DEF f, g, Backlog

LEMMA BacklogAdded ==
    ASSUME StockAssumption, NEW os \in Seq(Orders), NEW d \in Quantities,
           NEW new, new = Append(os, [status |-> "CONFIRMED", lines |-> d]),
           NEW p \in Products
    PROVE  Backlog(new, p) = Backlog(os, p) + d[p]
<1>. DEFINE order == [status |-> "CONFIRMED", lines |-> d]
            f == ClaimOf(os, p)
            g == ClaimOf(new, p)
            n == Len(os)
<1>1. order \in Orders
  BY DEF Orders, OrderStatus
<1>2. order.status = "CONFIRMED" /\ order.lines = d
  OBVIOUS
<1>. HIDE DEF order
<1>3. new = Append(os, order)
  BY DEF order
<1>4. /\ new \in Seq(Orders) /\ n \in Nat
      /\ DOMAIN os = 1..n /\ DOMAIN new = 1..n + 1
      /\ \A i \in 1..n : new[i] = os[i]
      /\ new[n + 1] = order
  BY <1>1, <1>3
<1>5. f \in [1..n -> Int] /\ g \in [1..n + 1 -> Int]
  BY <1>4, ClaimType
<1>6. \A i \in 1..n : g[i] = f[i]
  BY <1>4 DEF ClaimOf
<1>7. g[n + 1] = d[p]
  BY <1>2, <1>4 DEF ClaimOf
<1>. HIDE DEF f, g, n
<1>8. SumFunction(g) = SumFunction(f) + d[p]
  BY <1>4, <1>5, <1>6, <1>7, SumAppend
<1>. QED
  BY <1>8 DEF f, g, Backlog

\* Delivering or cancelling takes the claim of an order away.
LEMMA BacklogSettled ==
    ASSUME StockAssumption, orders \in Seq(Orders), NEW o \in DOMAIN orders,
           NEW s \in OrderStatus \ {"CONFIRMED"}, SetStatus(o, s), NEW p \in Products
    PROVE  Backlog(orders', p) = Backlog(orders, p)
             - (IF orders[o].status = "CONFIRMED" THEN orders[o].lines[p] ELSE 0)
<1>1. /\ orders' \in Seq(Orders) /\ DOMAIN orders' = DOMAIN orders
      /\ \A x \in DOMAIN orders :
           /\ orders'[x].lines = orders[x].lines
           /\ orders'[x].status = IF x = o THEN s ELSE orders[x].status
  BY SetStatusOrders
<1>2. Backlog(orders', p) = Backlog(orders, p) - ClaimOf(orders, p)[o] + ClaimOf(orders', p)[o]
  BY <1>1, BacklogChanged
<1>3. ClaimOf(orders', p)[o] = 0
  BY <1>1 DEF ClaimOf
<1>4. /\ ClaimOf(orders, p)[o] = IF orders[o].status = "CONFIRMED" THEN orders[o].lines[p] ELSE 0
      /\ ClaimOf(orders, p)[o] \in Nat
      /\ Backlog(orders, p) \in Nat
  BY ClaimType DEF ClaimOf
<1>. QED
  BY <1>2, <1>3, <1>4

\* Releasing stale orders takes as much from the claims as from the
\* reservations.
LEMMA BacklogReleased ==
    ASSUME StockAssumption, orders \in Seq(Orders), NEW k \in DOMAIN orders,
           ReleaseExpiredStockReservations(k), NEW p \in Products
    PROVE  Backlog(orders', p) = Backlog(orders, p) - LinesOf(Stale(k), p)
<1>. DEFINE S == DOMAIN orders
            f == ClaimOf(orders, p)
            g == ClaimOf(orders', p)
            h == [o \in S |-> IF o \in Stale(k) THEN orders[o].lines[p] ELSE 0]
            r == [o \in Stale(k) |-> orders[o].lines[p]]
<1>1. /\ orders' \in Seq(Orders) /\ DOMAIN orders' = S
      /\ orders' = [o \in S |->
                      IF o \in Stale(k) THEN [orders[o] EXCEPT !.status = "CANCELLED"]
                                        ELSE orders[o]]
  BY ReleaseOrders DEF ReleaseExpiredStockReservations
<1>2. IsFiniteSet(S) /\ f \in [S -> Int] /\ g \in [S -> Int]
  BY <1>1, ClaimType
<1>3. Stale(k) \in SUBSET S /\ \A o \in Stale(k) : orders[o].status = "CONFIRMED"
  <2>1. S = 1..Len(orders) /\ Len(orders) \in Nat
    OBVIOUS
  <2>. QED
    BY <2>1 DEF Stale
<1>4. \A o \in S : h[o] = IF o \in Stale(k) THEN f[o] ELSE 0
  BY <1>3 DEF ClaimOf
<1>5. h \in [S -> Int]
  <2>1. \A o \in S : h[o] \in Int
    BY <1>2, <1>4
  <2>. QED
    BY <2>1
<1>6. \A o \in S : f[o] = g[o] + h[o]
  <2>. SUFFICES ASSUME NEW o \in S
                PROVE  f[o] = g[o] + h[o]
    OBVIOUS
  <2>1. orders[o] \in Orders /\ f[o] \in Int
    BY <1>2
  <2>2. CASE o \in Stale(k)
    <3>1. orders'[o].status = "CANCELLED"
      BY <1>1, <2>1, <2>2 DEF Orders
    <3>2. g[o] = 0
      BY <1>1, <3>1 DEF ClaimOf
    <3>. HIDE DEF f, g, h
    <3>. QED
      BY <1>4, <2>1, <2>2, <3>2
  <2>3. CASE o \notin Stale(k)
    <3>1. orders'[o] = orders[o]
      <4>. HIDE DEF f, g, h, r
      <4>. QED
        BY <1>1, <2>3
    <3>2. g[o] = (IF orders'[o].status = "CONFIRMED" THEN orders'[o].lines[p] ELSE 0)
      BY <1>1 DEF ClaimOf
    <3>3. f[o] = (IF orders[o].status = "CONFIRMED" THEN orders[o].lines[p] ELSE 0)
      BY DEF ClaimOf
    <3>. HIDE DEF f, g, h
    <3>4. g[o] = f[o]
      BY <3>1, <3>2, <3>3
    <3>. QED
      BY <1>4, <2>1, <2>3, <3>4
  <2>. QED
    BY <2>2, <2>3
<1>7. r = [o \in Stale(k) |-> h[o]] /\ \A o \in S \ Stale(k) : h[o] = 0
  BY <1>3
<1>8. f = [o \in S |-> g[o] + h[o]]
  BY <1>2, <1>6
<1>. HIDE DEF S, f, g, h, r
<1>9. SumFunction(f) = SumFunction(g) + SumFunction(h)
  BY ONLY <1>2, <1>5, <1>8, SumAdd
<1>10. SumFunction(r) = SumFunction(h)
  BY ONLY <1>2, <1>3, <1>5, <1>7, SumSupport
<1>11. SumFunction(g) \in Int /\ SumFunction(h) \in Int
  BY ONLY <1>2, <1>5, SumType
<1>. QED
  BY <1>9, <1>10, <1>11 DEF f, g, r, Backlog, LinesOf

LEMMA StepBacked ==
    ASSUME StockAssumption, BackedInv, SalesStep
    PROVE  ReservationsBacked'
<1>0. /\ orders \in Seq(Orders) /\ orders' \in Seq(Orders)
      /\ SalesTypeOK /\ SalesTypeOK'
      /\ reserved \in [Products -> Nat] /\ reserved' \in [Products -> Nat]
  BY StepCovered, StepDocuments
  DEF BackedInv, SalesInv, Covered, Documents, SalesTypeOK, DocumentsTypeOK, StockTypeOK
<1>1. ReservationsBacked' <=>
        (NothingCancelled' => \A p \in Products : Backlog(orders', p) <= reserved'[p])
  <2>1. \A p \in Products : LinesOf(Confirmed, p)' = Backlog(orders', p)
    BY <1>0, ConfirmedLines DEF LinesOf, Confirmed
  <2>. QED
    BY <2>1 DEF ReservationsBacked, NothingCancelled
<1>. SUFFICES ASSUME NothingCancelled', NEW p \in Products
              PROVE  Backlog(orders', p) <= reserved'[p]
  BY <1>1
<1>2. NothingCancelled => Backlog(orders, p) <= reserved[p]
  BY <1>0, BackedBacklog DEF BackedInv
<1>3. Backlog(orders, p) \in Nat /\ Backlog(orders', p) \in Nat
  BY <1>0, ClaimType
<1>4. \A d : d \in [Products -> Nat] => Stocked(d) = d
  BY DEF Stocked, BackedInv, AllStocked
<1>. USE QuantitiesNat
<1>a. ASSUME UNCHANGED <<orders, notes>>, reserved[p] <= reserved'[p]
      PROVE  Backlog(orders', p) <= reserved'[p]
  BY <1>a, <1>0, <1>2, <1>3 DEF NothingCancelled
<1>5. ASSUME NEW d \in Demands, CreateSalesOrder(d)
      PROVE  Backlog(orders', p) <= reserved'[p]
  <2>1. d \in Quantities /\ d \in [Products -> Nat]
    BY DEF Demands
  <2>2. Backlog(orders', p) = Backlog(orders, p) + d[p]
    BY <1>0, <1>5, <2>1, BacklogAdded DEF CreateSalesOrder
  <2>3. reserved'[p] = reserved[p] + d[p]
    BY <1>4, <1>5, <2>1 DEF CreateSalesOrder, Reserve, Plus
  <2>4. NothingCancelled
    BY <1>5 DEF CreateSalesOrder, NothingCancelled
  <2>. QED
    BY <1>0, <1>2, <1>3, <2>1, <2>2, <2>3, <2>4
<1>6. ASSUME NEW d \in Demands, NEW done \in Quantities, RejectSalesOrder(d, done)
      PROVE  Backlog(orders', p) <= reserved'[p]
  <2>1. done[p] \in Nat /\ reserved'[p] = reserved[p] + done[p]
    BY <1>6 DEF RejectSalesOrder, Reserve, Plus
  <2>2. reserved[p] <= reserved'[p]
    BY <1>0, <2>1
  <2>. QED
    BY <1>a, <1>6, <2>2 DEF RejectSalesOrder
<1>7. ASSUME NEW o \in DOMAIN orders, CreateDeliveryNoteFromOrder(o)
      PROVE  Backlog(orders', p) <= reserved'[p]
  <2>1. orders[o].lines \in [Products -> Nat] /\ orders[o].status = "CONFIRMED"
    BY <1>0, <1>7, LinesNat DEF CreateDeliveryNoteFromOrder, Deliverable
  <2>2. Backlog(orders', p) = Backlog(orders, p) - orders[o].lines[p]
    BY <1>0, <1>7, <2>1, BacklogSettled DEF CreateDeliveryNoteFromOrder, OrderStatus
  <2>3. reserved'[p] = reserved[p] - orders[o].lines[p]
    BY <1>4, <1>7, <2>1 DEF CreateDeliveryNoteFromOrder, Ship, Minus
  <2>4. NothingCancelled
    <3>1. notes \in Seq(Notes) /\ notes' = Append(notes, [order |-> o, status |-> "POSTED"])
      BY <1>0, <1>7 DEF CreateDeliveryNoteFromOrder, SalesTypeOK, DocumentsTypeOK
    <3>2. \A n \in DOMAIN notes : n \in DOMAIN notes' /\ notes'[n] = notes[n]
      BY <3>1
    <3>. QED
      BY <3>2 DEF NothingCancelled
  <2>. QED
    BY <1>0, <1>2, <1>3, <2>1, <2>2, <2>3, <2>4
<1>8. ASSUME NEW o \in DOMAIN orders, NEW done \in Quantities,
             RejectDeliveryNote(o, done)
      PROVE  Backlog(orders', p) <= reserved'[p]
  <2>1. NothingCancelled
    BY <1>8 DEF RejectDeliveryNote, NothingCancelled
  <2>2. orders[o].lines \in [Products -> Nat] /\ orders[o].status = "CONFIRMED"
    BY <1>0, <1>8, LinesNat DEF RejectDeliveryNote, Deliverable
  <2>3. PICK short \in Products : reserved[short] < orders[o].lines[short]
    BY <1>4, <1>8, <2>2 DEF RejectDeliveryNote, Interrupted
  <2>4. orders[o].lines[short] <= Backlog(orders, short) /\ Backlog(orders, short) \in Nat
    BY <1>0, <2>2, ClaimType DEF ClaimOf
  <2>5. Backlog(orders, short) <= reserved[short]
    BY <1>0, <2>1, BackedBacklog DEF BackedInv
  <2>. QED
    BY <1>0, <2>2, <2>3, <2>4, <2>5
<1>9. ASSUME NEW n \in DOMAIN notes, CancelDeliveryNote(n)
      PROVE  FALSE
  <2>1. notes \in Seq(Notes) /\ notes' = [notes EXCEPT ![n].status = "CANCELLED"]
    BY <1>0, <1>9 DEF CancelDeliveryNote, SalesTypeOK, DocumentsTypeOK
  <2>2. notes[n] \in Notes
    BY <2>1
  <2>3. n \in DOMAIN notes' /\ notes'[n].status = "CANCELLED"
    BY <2>1, <2>2 DEF Notes
  <2>. QED
    BY <2>3 DEF NothingCancelled
<1>10. ASSUME NEW o \in DOMAIN orders, ConvertOrderToInvoice(o)
       PROVE  Backlog(orders', p) <= reserved'[p]
  <2>1. /\ orders[o].status = "DELIVERED" /\ SetStatus(o, "INVOICED")
        /\ UNCHANGED <<notes, reserved>>
    BY <1>10 DEF ConvertOrderToInvoice, stockVars
  <2>2. Backlog(orders', p) = Backlog(orders, p) - 0
    BY <1>0, <2>1, BacklogSettled DEF OrderStatus
  <2>. QED
    BY <1>2, <1>3, <2>1, <2>2 DEF NothingCancelled
<1>11. ASSUME NEW d \in Demands, CreateInvoice(d)
       PROVE  Backlog(orders', p) <= reserved'[p]
  BY <1>a, <1>0, <1>11 DEF CreateInvoice, salesVars
<1>12. ASSUME NEW k \in DOMAIN orders, ReleaseExpiredStockReservations(k)
       PROVE  Backlog(orders', p) <= reserved'[p]
  <2>1. Backlog(orders', p) = Backlog(orders, p) - LinesOf(Stale(k), p)
    BY <1>0, <1>12, BacklogReleased
  <2>. DEFINE released == [x \in Products |-> LinesOf(Stale(k), x)]
  <2>2. released \in [Products -> Nat] /\ Release(Main, Stocked(released)) /\ UNCHANGED notes
    BY <1>12 DEF ReleaseExpiredStockReservations
  <2>3. released[p] \in Nat /\ released[p] = LinesOf(Stale(k), p)
    BY <2>2
  <2>. HIDE DEF released
  <2>4. reserved' = Clamped(reserved, released)
    BY <1>4, <2>2 DEF Release
  <2>5. reserved'[p] >= reserved[p] - released[p]
    BY <1>0, <2>3, <2>4 DEF Clamped
  <2>. QED
    BY <1>0, <1>2, <1>3, <2>1, <2>2, <2>3, <2>5 DEF NothingCancelled
<1>13. CASE ResetSampleModule
  <2>1. orders' = <<>> /\ UNCHANGED reserved
    BY <1>13 DEF ResetSampleModule, stockVars
  <2>2. ClaimOf(orders', p) \in [{} -> Int]
    BY <2>1 DEF ClaimOf
  <2>3. Backlog(orders', p) = 0
    BY <2>2, SumEmpty DEF Backlog
  <2>. QED
    BY <1>0, <2>1, <2>3
<1>. QED
  BY <1>5, <1>6, <1>7, <1>8, <1>9, <1>10, <1>11, <1>12, <1>13 DEF SalesStep

LEMMA BackedInvHolds == SalesSpec => []BackedInv
<1>1. SalesInit => AllStocked /\ ReservationsBacked
  <2>. SUFFICES ASSUME SalesInit
                PROVE  AllStocked /\ ReservationsBacked
    OBVIOUS
  <2>1. AllStocked /\ orders = <<>> /\ \A p \in Products : reserved[p] = 0
    BY DEF SalesInit, StockInit, DocumentsInit, AllStocked
  <2>2. ASSUME NEW p \in Products
        PROVE  LinesOf(Confirmed, p) = 0
    <3>1. [o \in Confirmed |-> orders[o].lines[p]] \in [{} -> Int] /\ Confirmed = {}
      BY <2>1 DEF Confirmed
    <3>. QED
      BY <3>1, SumEmpty DEF LinesOf
  <2>. QED
    BY <2>1, <2>2 DEF ReservationsBacked
<1>2. SalesInv /\ AllStocked /\ ReservationsBacked /\ [SalesNext]_allSalesVars
        => AllStocked' /\ ReservationsBacked'
  <2>. SUFFICES ASSUME SalesInv, AllStocked, ReservationsBacked, [SalesNext]_allSalesVars
                PROVE  AllStocked' /\ ReservationsBacked'
    OBVIOUS
  <2>1. CASE SalesStep
    <3>1. UNCHANGED tracked
      BY <2>1 DEF SalesStep, CreateSalesOrder, RejectSalesOrder, CreateDeliveryNoteFromOrder,
                  RejectDeliveryNote, CancelDeliveryNote, ConvertOrderToInvoice, CreateInvoice,
                  ReleaseExpiredStockReservations, ResetSampleModule, stockVars
    <3>. QED
      BY <2>1, <3>1, StockAssumption, StepBacked DEF BackedInv, AllStocked
  <2>2. CASE UNCHANGED <<salesVars, reserved, tracked>>
    BY <2>2 DEF salesVars, AllStocked, ReservationsBacked, LinesOf, Confirmed
  <2>. QED
    BY <2>1, <2>2 DEF SalesNext, SetPeriod, allSalesVars, stockVars
<1>. QED
  BY <1>1, <1>2, SalesInvHolds, PTL DEF SalesSpec, BackedInv

-----------------------------------------------------------------------------
\* Every reachable state of the sales handlers is well typed: reservations,
\* on the product and on the warehouse row, are never negative, and every note
\* belongs to an order.
THEOREM SalesTypeCorrect == SalesSpec => []SalesTypeOK
<1>1. SalesInv => SalesTypeOK
  BY DEF SalesInv
<1>. QED BY <1>1, SalesInvHolds, PTL

\* Selling alone never promises more than is on hand, whatever requests are
\* refused halfway and however often deliveries are cancelled and repeated.
THEOREM SalesCovered == SalesSpec => []SalesStayCovered
<1>1. SalesInv => SalesStayCovered
  BY DEF SalesInv
<1>. QED BY <1>1, SalesInvHolds, PTL

\* Exactly one posted delivery note for each order that is delivered or
\* invoiced, none for the others.
THEOREM NotesCorrect == SalesSpec => []NotesMatchOrders
<1>1. SalesInv => NotesMatchOrders
  BY DEF SalesInv
<1>. QED BY <1>1, SalesInvHolds, PTL

\* Until a delivery is cancelled every confirmed order has its quantities
\* reserved, through refused requests, deliveries and releases: the sum over all
\* of them is within what is reserved, so none of them is refused delivery.
THEOREM OrdersBacked == SalesSpec => []ReservationsBacked
<1>1. BackedInv => ReservationsBacked
  BY DEF BackedInv
<1>. QED BY <1>1, BackedInvHolds, PTL

\* An invoiced or cancelled order never changes again: no delivery, no
\* cancellation of a delivery and no release of stale orders reaches it.
THEOREM FinishedOrdersStay == SalesSpec => FinishedOrdersFinal
<1>. DEFINE Final == \A o \in DOMAIN orders \cap DOMAIN orders' :
                        /\ orders'[o].lines = orders[o].lines
                        /\ orders[o].status \in {"INVOICED", "CANCELLED"}
                             => orders'[o] = orders[o]
<1>1. SalesInv /\ [SalesNext]_allSalesVars => [Final]_allSalesVars
  <2>. SUFFICES ASSUME SalesInv, SalesNext
                PROVE  Final
    OBVIOUS
  <2>0. orders \in Seq(Orders) /\ \A x \in DOMAIN orders : orders[x] \in Orders
    BY ElementOfSeq, LenProperties DEF SalesInv, SalesTypeOK, DocumentsTypeOK
  <2>1. ASSUME NEW d \in Demands, CreateSalesOrder(d)
        PROVE  Final
    BY <2>0, <2>1 DEF CreateSalesOrder
  <2>2. ASSUME NEW o \in DOMAIN orders, CreateDeliveryNoteFromOrder(o)
        PROVE  Final
    BY <2>0, <2>2 DEF CreateDeliveryNoteFromOrder, Deliverable, SetStatus, Orders
  <2>3. ASSUME NEW n \in DOMAIN notes, CancelDeliveryNote(n)
        PROVE  Final
    <3>1. /\ notes[n].status = "POSTED"
          /\ SetStatus(notes[n].order, "CONFIRMED")
          /\ orders[notes[n].order].status # "INVOICED"
      BY <2>3 DEF CancelDeliveryNote
    <3>2. notes[n].order \in DOMAIN orders /\ notes[n] \in Notes
      BY ElementOfSeq, LenProperties DEF SalesInv, SalesTypeOK, DocumentsTypeOK
    <3>3. orders[notes[n].order].status = "DELIVERED"
      BY <3>1, <3>2 DEF SalesInv, NotesMatchOrders, PostedNote, Notes
    <3>. QED BY <2>0, <3>1, <3>3 DEF SetStatus, Orders
  <2>4. ASSUME NEW o \in DOMAIN orders, ConvertOrderToInvoice(o)
        PROVE  Final
    BY <2>0, <2>4 DEF ConvertOrderToInvoice, SetStatus, Orders
  <2>5. ASSUME NEW k \in DOMAIN orders, ReleaseExpiredStockReservations(k)
        PROVE  Final
    BY <2>0, <2>5, ReleaseOrders
  <2>6. CASE ResetSampleModule
    BY <2>6 DEF ResetSampleModule
  <2>7. ASSUME UNCHANGED orders
        PROVE  Final
    BY <2>7
  <2>. QED
    BY <2>1, <2>2, <2>3, <2>4, <2>5, <2>6, <2>7
    DEF SalesNext, SalesStep, RejectSalesOrder, RejectDeliveryNote, CreateInvoice, salesVars
<1>. QED BY <1>1, SalesInvHolds, PTL DEF SalesSpec, FinishedOrdersFinal

-----------------------------------------------------------------------------
QuotesInv == QuotesTypeOK /\ SoldAsAgreed /\ OrdersPerQuote

-----------------------------------------------------------------------------
\* Quotes implements Sales.

LEMMA QuoteLines ==
    ASSUME QuotesTypeOK, NEW q \in DOMAIN quotes
    PROVE  quotes[q] \in QuoteRecords /\ quotes[q].lines \in Demands
<1>1. quotes[q] \in QuoteRecords
  BY DEF QuotesTypeOK
<1>. QED
  BY <1>1 DEF QuoteRecords

LEMMA StepsAreSales ==
    ASSUME QuotesTypeOK, [QuotesNext]_allQuoteVars
    PROVE  [SalesNext]_allSalesVars
<1>1. CASE \E d \in Demands : CreateQuote(d)
  BY <1>1 DEF CreateQuote, allSalesVars
<1>2. CASE \E q \in DOMAIN quotes, d \in Demands : ReviseQuote(q, d)
  BY <1>2 DEF ReviseQuote, allSalesVars
<1>3. CASE \E q \in DOMAIN quotes : ApproveQuote(q) \/ AcceptQuote(q)
  BY <1>3 DEF ApproveQuote, AcceptQuote, allSalesVars
<1>4. ASSUME NEW q \in DOMAIN quotes, ConvertQuoteToOrder(q)
      PROVE  SalesStep
  BY <1>4, QuoteLines DEF ConvertQuoteToOrder, SalesStep
<1>5. ASSUME NEW q \in DOMAIN quotes, ConvertQuoteToInvoice(q)
      PROVE  SalesStep
  BY <1>5, QuoteLines DEF ConvertQuoteToInvoice, SalesStep
<1>6. CASE ResetQuotes
  BY <1>6 DEF ResetQuotes, SalesStep, SalesNext
<1>7. CASE SaleStep
  BY <1>7 DEF SaleStep, SalesStep, SalesNext
<1>8. CASE SetPeriod /\ UNCHANGED <<salesVars, quoteVars>>
  BY <1>8 DEF SalesNext
<1>9. CASE UNCHANGED allQuoteVars
  BY <1>9 DEF allQuoteVars, allSalesVars
<1>. QED
  BY <1>1, <1>2, <1>3, <1>4, <1>5, <1>6, <1>7, <1>8, <1>9 DEF QuotesNext, QuoteStep, SalesNext

-----------------------------------------------------------------------------
\* What each step does to the quotes.

LEMMA OrdersOfFinite ==
    ASSUME QuotesTypeOK, NEW q
    PROVE  IsFiniteSet(OrdersOf(q)) /\ Cardinality(OrdersOf(q)) \in Nat
<1>1. OrdersOf(q) \subseteq 1..Len(made) /\ Len(made) \in Nat
  BY DEF QuotesTypeOK, OrdersOf, MadeFrom
<1>2. IsFiniteSet(1..Len(made))
  BY <1>1, FS_Interval
<1>. QED
  BY <1>1, <1>2, FS_Subset, FS_CardinalityType

LEMMA RevisedType ==
    ASSUME NEW quote \in QuoteRecords, NEW d \in Demands
    PROVE  Revised(quote, d) \in QuoteRecords /\ Revised(quote, d).status = "DRAFT"
BY DEF Revised, QuoteRecords, QuoteStatus

LEMMA CreatedKeepsInv ==
    ASSUME QuotesInv, NEW d \in Demands, CreateQuote(d)
    PROVE  QuotesInv'
<1>. USE DEF QuotesInv, QuotesTypeOK
<1>. DEFINE new == [status |-> "DRAFT", revision |-> 1, lines |-> d]
<1>. DEFINE n == Len(quotes) + 1
<1>1. new \in QuoteRecords /\ new.status = "DRAFT"
  BY DEF QuoteRecords, QuoteStatus
<1>2. /\ quotes' = Append(quotes, new)
      /\ agreed' = Append(agreed, d)
      /\ reopened' = Append(reopened, 0)
      /\ made' = made
  BY DEF CreateQuote
<1>. HIDE DEF new
<1>3. /\ quotes' \in Seq(QuoteRecords) /\ Len(quotes') = Len(quotes) + 1
      /\ agreed' \in Seq(Demands) /\ Len(agreed') = Len(agreed) + 1
      /\ reopened' \in Seq(Nat) /\ Len(reopened') = Len(reopened) + 1
      /\ quotes'[n] = new /\ reopened'[n] = 0
      /\ \A q \in DOMAIN quotes :
            quotes'[q] = quotes[q] /\ agreed'[q] = agreed[q] /\ reopened'[q] = reopened[q]
      /\ DOMAIN quotes' = DOMAIN quotes \cup {n} /\ n \notin DOMAIN quotes
  BY <1>1, <1>2
<1>4. QuotesTypeOK'
  BY <1>2, <1>3
<1>5. \A q \in DOMAIN quotes' : LastMadeFrom(q)' = LastMadeFrom(q) /\ OrdersOf(q)' = OrdersOf(q)
  BY <1>2 DEF LastMadeFrom, MadeFrom, OrdersOf
<1>6. SoldAsAgreed'
  BY <1>1, <1>2, <1>3, <1>5 DEF SoldAsAgreed
<1>7. OrdersPerQuote'
  <2>. SUFFICES ASSUME NEW q \in DOMAIN quotes'
                PROVE  Cardinality(OrdersOf(q)')
                          + (IF quotes'[q].status = "CONVERTED" THEN 0 ELSE 1) <= 1 + reopened'[q]
    BY DEF OrdersPerQuote
  <2>1. Cardinality(OrdersOf(q)') = Cardinality(OrdersOf(q))
    BY <1>5
  <2>2. CASE q = n
    <3>1. OrdersOf(n) = {}
      BY <1>3 DEF OrdersOf, MadeFrom
    <3>2. Cardinality(OrdersOf(n)) = 0
      BY <3>1, FS_EmptySet
    <3>. QED
      BY <1>1, <1>3, <2>1, <2>2, <3>2
  <2>3. CASE q \in DOMAIN quotes
    <3>1. Cardinality(OrdersOf(q)) + (IF quotes[q].status = "CONVERTED" THEN 0 ELSE 1)
             <= 1 + reopened[q]
      BY <2>3 DEF OrdersPerQuote
    <3>. QED
      BY <1>3, <2>1, <2>3, <3>1
  <2>. QED
    BY <1>3, <2>2, <2>3
<1>. QED
  BY <1>4, <1>6, <1>7

\* A quote that is drafted, approved or accepted again, and nothing is made of it.
LEMMA ChangedKeepsInv ==
    ASSUME QuotesInv, NEW q \in DOMAIN quotes,
           NEW quote \in QuoteRecords, quotes' = [quotes EXCEPT ![q] = quote],
           NEW lines \in Demands, agreed' = [agreed EXCEPT ![q] = lines],
           NEW n \in Nat, reopened' = [reopened EXCEPT ![q] = n],
           UNCHANGED made,
           quote.status # "CONVERTED",
           quote.status = "APPROVED" => quote.lines = lines,
           n = reopened[q] + (IF quotes[q].status = "CONVERTED" THEN 1 ELSE 0)
    PROVE  QuotesInv'
<1>. USE DEF QuotesInv, QuotesTypeOK
<1>1. /\ quotes' \in Seq(QuoteRecords) /\ Len(quotes') = Len(quotes)
      /\ agreed' \in Seq(Demands) /\ Len(agreed') = Len(agreed)
      /\ reopened' \in Seq(Nat) /\ Len(reopened') = Len(reopened)
      /\ DOMAIN quotes' = DOMAIN quotes
      /\ quotes'[q] = quote /\ agreed'[q] = lines /\ reopened'[q] = n
      /\ \A v \in DOMAIN quotes \ {q} :
            quotes'[v] = quotes[v] /\ agreed'[v] = agreed[v] /\ reopened'[v] = reopened[v]
  OBVIOUS
<1>2. QuotesTypeOK'
  BY <1>1
<1>3. \A v \in DOMAIN quotes : LastMadeFrom(v)' = LastMadeFrom(v) /\ OrdersOf(v)' = OrdersOf(v)
  BY DEF LastMadeFrom, MadeFrom, OrdersOf
<1>4. SoldAsAgreed'
  BY <1>1, <1>3 DEF SoldAsAgreed
<1>5. OrdersPerQuote'
  <2>. SUFFICES ASSUME NEW v \in DOMAIN quotes
                PROVE  Cardinality(OrdersOf(v)')
                          + (IF quotes'[v].status = "CONVERTED" THEN 0 ELSE 1) <= 1 + reopened'[v]
    BY <1>1 DEF OrdersPerQuote
  <2>1. Cardinality(OrdersOf(v)') = Cardinality(OrdersOf(v)) /\ Cardinality(OrdersOf(v)) \in Nat
    BY <1>3, OrdersOfFinite
  <2>2. Cardinality(OrdersOf(v)) + (IF quotes[v].status = "CONVERTED" THEN 0 ELSE 1)
           <= 1 + reopened[v]
    BY DEF OrdersPerQuote
  <2>3. reopened[v] \in Nat
    OBVIOUS
  <2>. QED
    BY <1>1, <2>1, <2>2, <2>3
<1>. QED
  BY <1>2, <1>4, <1>5

LEMMA MadeKeepsInv ==
    ASSUME QuotesInv, NEW q \in DOMAIN quotes, NEW kind \in {"order", "invoice"},
           MakeFrom(q, kind), kind = "order" => quotes[q].status = "APPROVED"
    PROVE  QuotesInv'
<1>. USE DEF QuotesInv, QuotesTypeOK
<1>. DEFINE doc == [kind |-> kind, quote |-> q, lines |-> quotes[q].lines]
<1>. DEFINE n == Len(made) + 1
<1>. DEFINE quote == [quotes[q] EXCEPT !.status = "CONVERTED"]
<1>1. /\ doc \in Made /\ doc.kind = kind /\ doc.quote = q /\ doc.lines = quotes[q].lines
      /\ quote \in QuoteRecords /\ quote.status = "CONVERTED" /\ quote.lines = quotes[q].lines
  <2>1. quotes[q] \in QuoteRecords /\ quotes[q].lines \in Demands /\ q \in Nat \ {0}
    BY QuoteLines
  <2>2. doc \in Made
    BY <2>1 DEF Made
  <2>3. quote \in QuoteRecords /\ quote.status = "CONVERTED" /\ quote.lines = quotes[q].lines
    BY <2>1 DEF QuoteRecords, QuoteStatus
  <2>. QED
    BY <2>2, <2>3
<1>2. /\ made' = Append(made, doc)
      /\ quotes' = [quotes EXCEPT ![q] = quote]
      /\ UNCHANGED <<agreed, reopened>>
  BY DEF MakeFrom, WithStatus
<1>. HIDE DEF doc, quote
<1>3. /\ made' \in Seq(Made) /\ n \in Nat
      /\ DOMAIN made' = DOMAIN made \cup {n} /\ n \notin DOMAIN made
      /\ made'[n] = doc
      /\ \A m \in DOMAIN made : m <= n /\ made'[m] = made[m]
  BY <1>1, <1>2
<1>4. /\ quotes' \in Seq(QuoteRecords) /\ Len(quotes') = Len(quotes)
      /\ DOMAIN quotes' = DOMAIN quotes
      /\ quotes'[q] = quote
      /\ \A v \in DOMAIN quotes \ {q} : quotes'[v] = quotes[v]
  BY <1>1, <1>2
<1>5. QuotesTypeOK'
  BY <1>1, <1>2, <1>3, <1>4
<1>6. /\ MadeFrom(q)' = MadeFrom(q) \cup {n}
      /\ OrdersOf(q)' = OrdersOf(q) \cup (IF kind = "order" THEN {n} ELSE {})
      /\ n \notin OrdersOf(q)
  BY <1>1, <1>3 DEF MadeFrom, OrdersOf
<1>7. \A v \in DOMAIN quotes \ {q} :
         /\ MadeFrom(v)' = MadeFrom(v)
         /\ LastMadeFrom(v)' = LastMadeFrom(v)
         /\ OrdersOf(v)' = OrdersOf(v)
  BY <1>1, <1>3 DEF LastMadeFrom, MadeFrom, OrdersOf
<1>8. SoldAsAgreed'
  <2>1. n \in LastMadeFrom(q)'
    BY <1>3, <1>6 DEF LastMadeFrom, MadeFrom
  <2>2. quotes'[q].status = "CONVERTED" /\ quotes'[q].lines = made'[n].lines
    BY <1>1, <1>3, <1>4
  <2>. SUFFICES ASSUME NEW v \in DOMAIN quotes \ {q}
                PROVE  /\ quotes'[v].status = "APPROVED" => quotes'[v].lines = agreed'[v]
                       /\ quotes'[v].status = "CONVERTED" =>
                            \E m \in LastMadeFrom(v)' : quotes'[v].lines = made'[m].lines
    BY <1>4, <2>1, <2>2 DEF SoldAsAgreed
  <2>3. /\ quotes[v].status = "APPROVED" => quotes[v].lines = agreed[v]
        /\ quotes[v].status = "CONVERTED" =>
             \E m \in LastMadeFrom(v) : quotes[v].lines = made[m].lines
    BY DEF SoldAsAgreed
  <2>4. LastMadeFrom(v) \subseteq DOMAIN made
    BY DEF LastMadeFrom, MadeFrom
  <2>. QED
    BY <1>2, <1>3, <1>4, <1>7, <2>3, <2>4
<1>9. OrdersPerQuote'
  <2>. SUFFICES ASSUME NEW v \in DOMAIN quotes
                PROVE  Cardinality(OrdersOf(v)')
                          + (IF quotes'[v].status = "CONVERTED" THEN 0 ELSE 1) <= 1 + reopened[v]
    BY <1>2, <1>4 DEF OrdersPerQuote
  <2>1. Cardinality(OrdersOf(v)) + (IF quotes[v].status = "CONVERTED" THEN 0 ELSE 1)
           <= 1 + reopened[v]
    BY DEF OrdersPerQuote
  <2>2. reopened[v] \in Nat /\ IsFiniteSet(OrdersOf(v)) /\ Cardinality(OrdersOf(v)) \in Nat
    BY OrdersOfFinite
  <2>3. CASE v = q /\ kind = "order"
    <3>1. OrdersOf(v)' = OrdersOf(v) \cup {n} /\ n \notin OrdersOf(v)
      BY <1>6, <2>3
    <3>2. Cardinality(OrdersOf(v)') = Cardinality(OrdersOf(v)) + 1
      BY <2>2, <3>1, FS_AddElement
    <3>. QED
      BY <1>1, <1>4, <2>1, <2>2, <2>3, <3>2
  <2>4. CASE v = q /\ kind = "invoice"
    <3>1. Cardinality(OrdersOf(v)') = Cardinality(OrdersOf(v))
      BY <1>6, <2>4
    <3>. QED
      BY <1>1, <1>4, <2>1, <2>2, <2>4, <3>1
  <2>5. CASE v # q
    <3>1. Cardinality(OrdersOf(v)') = Cardinality(OrdersOf(v))
      BY <1>7, <2>5
    <3>. QED
      BY <1>4, <2>1, <2>5, <3>1
  <2>. QED
    BY <2>3, <2>4, <2>5
<1>. QED
  BY <1>5, <1>8, <1>9

-----------------------------------------------------------------------------
LEMMA QuotesInitially == QuotesInit => QuotesInv
<1>. SUFFICES ASSUME QuotesInit
              PROVE  QuotesInv
  OBVIOUS
<1>1. quotes = <<>> /\ made = <<>> /\ agreed = <<>> /\ reopened = <<>>
  BY DEF QuotesInit
<1>. QED
  BY <1>1 DEF QuotesInv, QuotesTypeOK, SoldAsAgreed, OrdersPerQuote

LEMMA QuotesSteps == QuotesInv /\ [QuotesNext]_allQuoteVars => QuotesInv'
<1>. SUFFICES ASSUME QuotesInv, [QuotesNext]_allQuoteVars
              PROVE  QuotesInv'
  OBVIOUS
<1>1. ASSUME NEW d \in Demands, CreateQuote(d)
      PROVE  QuotesInv'
  BY <1>1, CreatedKeepsInv
<1>2. ASSUME NEW q \in DOMAIN quotes
      PROVE  /\ quotes[q] \in QuoteRecords /\ quotes[q].lines \in Demands
             /\ agreed[q] \in Demands /\ agreed = [agreed EXCEPT ![q] = agreed[q]]
             /\ reopened[q] \in Nat /\ reopened = [reopened EXCEPT ![q] = reopened[q]]
  BY QuoteLines DEF QuotesInv, QuotesTypeOK
<1>3. ASSUME NEW q \in DOMAIN quotes, NEW d \in Demands, ReviseQuote(q, d)
      PROVE  QuotesInv'
  <2>. DEFINE quote == Revised(quotes[q], d)
  <2>1. quote \in QuoteRecords /\ quote.status = "DRAFT"
    BY <1>2, RevisedType
  <2>2. quotes' = [quotes EXCEPT ![q] = quote] /\ quotes[q].status # "CONVERTED"
    BY <1>3 DEF ReviseQuote
  <2>3. /\ agreed' = [agreed EXCEPT ![q] = agreed[q]] /\ agreed[q] \in Demands
        /\ reopened' = [reopened EXCEPT ![q] = reopened[q]]
        /\ reopened[q] \in Nat /\ reopened[q] = reopened[q] + 0
        /\ UNCHANGED made
    BY <1>2, <1>3 DEF ReviseQuote
  <2>. HIDE DEF quote
  <2>. QED
    BY <2>1, <2>2, <2>3, ChangedKeepsInv
<1>4. ASSUME NEW q \in DOMAIN quotes, ApproveQuote(q) \/ AcceptQuote(q)
      PROVE  QuotesInv'
  <2>. DEFINE quote == [quotes[q] EXCEPT !.status = "APPROVED"]
  <2>. DEFINE again == IF quotes[q].status = "CONVERTED" THEN 1 ELSE 0
  <2>1. /\ quote \in QuoteRecords /\ quote.status = "APPROVED"
        /\ quote.lines = quotes[q].lines
    BY <1>2 DEF QuoteRecords, QuoteStatus
  <2>2. /\ quotes' = [quotes EXCEPT ![q] = quote]
        /\ agreed' = [agreed EXCEPT ![q] = quotes[q].lines]
        /\ UNCHANGED made
    BY <1>4 DEF ApproveQuote, AcceptQuote, WithStatus
  <2>3. reopened' = [reopened EXCEPT ![q] = reopened[q] + again]
    BY <1>2, <1>4 DEF ApproveQuote, AcceptQuote, Approvable
  <2>4. reopened[q] + again \in Nat
    BY <1>2
  <2>. HIDE DEF quote
  <2>. QED
    BY <1>2, <2>1, <2>2, <2>3, <2>4, ChangedKeepsInv
<1>5. ASSUME NEW q \in DOMAIN quotes, ConvertQuoteToOrder(q) \/ ConvertQuoteToInvoice(q)
      PROVE  QuotesInv'
  BY <1>5, MadeKeepsInv DEF ConvertQuoteToOrder, ConvertQuoteToInvoice
<1>6. CASE ResetQuotes
  <2>1. quotes' = <<>> /\ made' = <<>> /\ agreed' = <<>> /\ reopened' = <<>>
    BY <1>6 DEF ResetQuotes
  <2>. QED
    BY <2>1 DEF QuotesInv, QuotesTypeOK, SoldAsAgreed, OrdersPerQuote
<1>7. CASE UNCHANGED quoteVars
  BY <1>7 DEF quoteVars, QuotesInv, QuotesTypeOK, SoldAsAgreed, OrdersPerQuote,
              LastMadeFrom, OrdersOf, MadeFrom
<1>. QED
  BY <1>1, <1>3, <1>4, <1>5, <1>6, <1>7 DEF QuotesNext, QuoteStep, allQuoteVars

LEMMA QuotesInvHolds == QuotesSpec => []QuotesInv
BY QuotesInitially, QuotesSteps, PTL DEF QuotesSpec

\* The type of the quotes and of what was made from them (Quote in erp.types.ts).
THEOREM QuotesTypeCorrect == QuotesSpec => []QuotesTypeOK
<1>1. QuotesInv => QuotesTypeOK
  BY DEF QuotesInv
<1>. QED
  BY <1>1, QuotesInvHolds, PTL

\* Nothing is ordered but what was approved, and a converted quote has the
\* lines of its last document (reviseQuote, acceptQuote, convertQuoteToOrder).
THEOREM QuotesSoldAsAgreed == QuotesSpec => []SoldAsAgreed
<1>1. QuotesInv => SoldAsAgreed
  BY DEF QuotesInv
<1>. QED
  BY <1>1, QuotesInvHolds, PTL

\* One order per quote, and one more per acceptance after a conversion
\* (acceptQuote, convertQuoteToOrder).
THEOREM OrdersCounted == QuotesSpec => []OrdersPerQuote
<1>1. QuotesInv => OrdersPerQuote
  BY DEF QuotesInv
<1>. QED
  BY <1>1, QuotesInvHolds, PTL

\* Quotes in front of the sales add no behaviour of the stock, the orders and
\* the notes that the sales handlers do not have without them.
THEOREM QuotesImplementSales == QuotesSpec => SalesSpec
<1>1. QuotesInit => SalesInit
  BY DEF QuotesInit
<1>2. QuotesInv /\ [QuotesNext]_allQuoteVars => [SalesNext]_allSalesVars
  BY StepsAreSales DEF QuotesInv
<1>. QED
  BY <1>1, <1>2, QuotesInvHolds, PTL DEF QuotesSpec, SalesSpec

\* So the deliveries, the reservations and the finished orders are as sound
\* with quotes as without.
THEOREM SalesStaySound ==
    QuotesSpec => /\ []NotesMatchOrders
                  /\ []SalesStayCovered
                  /\ []ReservationsBacked
                  /\ FinishedOrdersFinal
BY QuotesImplementSales, NotesCorrect, SalesCovered, OrdersBacked, FinishedOrdersStay, PTL

-----------------------------------------------------------------------------
\* Inventory: the warehouse on the same stock.

InventoryInv == SalesTypeOK /\ NotesMatchOrders /\ PapersTypeOK

LEMMA OnlyType ==
    ASSUME NEW p, NEW q \in Int
    PROVE  /\ Only(p, q) \in [Products -> Int]
           /\ q \in Nat => Only(p, q) \in [Products -> Nat]
           /\ \A x \in Products : Only(p, q)[x] = IF x = p THEN q ELSE 0
BY DEF Only

LEMMA NegatedType ==
    ASSUME NEW d \in [Products -> Int]
    PROVE  /\ Negated(d) \in [Products -> Int]
           /\ \A p \in Products : Negated(d)[p] = -d[p]
BY DEF Negated

LEMMA StockedInt ==
    ASSUME StockTypeOK, NEW d \in [Products -> Int]
    PROVE  /\ Stocked(d) \in [Products -> Int]
           /\ \A p \in Products : Stocked(d)[p] = IF tracked[p] THEN d[p] ELSE 0
BY DEF Stocked, StockTypeOK

-----------------------------------------------------------------------------
\* The types, one stock operation at a time, at any warehouse.

LEMMA RowsTyped ==
    ASSUME StockTypeOK, NEW w \in Warehouses, NEW d \in [Products -> Int],
           quantity' = [quantity EXCEPT ![w] = Plus(@, Stocked(d))]
    PROVE  quantity' \in [Warehouses -> [Products -> Int]]
<1>1. Stocked(d) \in [Products -> Int] /\ quantity[w] \in [Products -> Int]
  BY StockedInt DEF StockTypeOK
<1>2. Plus(quantity[w], Stocked(d)) \in [Products -> Int]
  BY <1>1 DEF Plus
<1>. QED
  BY <1>2 DEF StockTypeOK

LEMMA MoveTyped ==
    ASSUME StockTypeOK, NEW w \in Warehouses, NEW d \in [Products -> Int],
           Move(w, d), UNCHANGED <<reserved, tracked, held, periodOpen>>
    PROVE  StockTypeOK'
<1>1. onHand' \in [Products -> Int]
  BY DEF Move, Plus, StockTypeOK
<1>2. quantity' \in [Warehouses -> [Products -> Int]]
  BY RowsTyped DEF Move
<1>. QED
  BY <1>1, <1>2 DEF StockTypeOK

LEMMA ReserveTyped ==
    ASSUME StockTypeOK, NEW w \in Warehouses, NEW d \in [Products -> Nat],
           Reserve(w, d), UNCHANGED <<onHand, tracked, quantity, periodOpen>>
    PROVE  StockTypeOK'
<1>1. reserved' \in [Products -> Nat]
  BY DEF Reserve, Plus, StockTypeOK
<1>2. Plus(held[w], Stocked(d)) \in [Products -> Nat]
  BY StockedType DEF Plus, StockTypeOK
<1>3. held' \in [Warehouses -> [Products -> Nat]]
  BY <1>2 DEF Reserve, StockTypeOK
<1>. QED
  BY <1>1, <1>3 DEF StockTypeOK

LEMMA ReleaseTyped ==
    ASSUME StockTypeOK, NEW w \in Warehouses, NEW d \in [Products -> Nat],
           Release(w, d), UNCHANGED <<onHand, tracked, quantity, periodOpen>>
    PROVE  StockTypeOK'
<1>1. reserved' \in [Products -> Nat]
  BY DEF Release, Clamped, StockTypeOK
<1>2. Clamped(held[w], Stocked(d)) \in [Products -> Nat]
  BY StockedType DEF Clamped, StockTypeOK
<1>3. held' \in [Warehouses -> [Products -> Nat]]
  BY <1>2 DEF Release, StockTypeOK
<1>. QED
  BY <1>1, <1>3 DEF StockTypeOK

LEMMA ShipTyped ==
    ASSUME StockAssumption, StockTypeOK, NEW d \in [Products -> Nat],
           Fits(d, reserved), Ship(d), UNCHANGED <<tracked, periodOpen>>
    PROVE  StockTypeOK'
<1>1. reserved' \in [Products -> Nat]
  BY DEF Ship, Fits, Minus, StockTypeOK
<1>2. d \in [Products -> Int]
  OBVIOUS
<1>3. Negated(d) \in [Products -> Int] /\ Main \in Warehouses
  BY <1>2, NegatedType DEF StockAssumption
<1>4. quantity' \in [Warehouses -> [Products -> Int]]
  BY <1>3, RowsTyped DEF Ship, Move
<1>5. onHand' \in [Products -> Int]
  BY <1>3 DEF Ship, Move, Plus, StockTypeOK
<1>6. held' \in [Warehouses -> [Products -> Nat]]
  BY <1>3 DEF Ship, Clamped, StockTypeOK
<1>. QED
  BY <1>1, <1>4, <1>5, <1>6 DEF StockTypeOK

-----------------------------------------------------------------------------
\* The ways a sales step touches the stock: an order promises what is
\* available, a delivery ships what is reserved, a cancelled delivery brings
\* goods back, an invoice sells what is available, a release gives back.
Promises(d) == /\ Fits(d, Available)
               /\ Reserve(Main, d)
               /\ UNCHANGED <<onHand, tracked, quantity, periodOpen>>
Delivers(d) == /\ Fits(d, reserved)
               /\ Ship(d)
               /\ UNCHANGED <<tracked, periodOpen>>
Returns(d) == /\ Move(Main, d)
              /\ UNCHANGED <<reserved, tracked, held, periodOpen>>
Sells(d) == /\ Fits(d, Available)
            /\ Move(Main, Negated(d))
            /\ UNCHANGED <<reserved, tracked, held, periodOpen>>
GivesBack(d) == /\ Release(Main, d)
                /\ UNCHANGED <<onHand, tracked, quantity, periodOpen>>

LEMMA SalesEffects ==
    ASSUME StockAssumption, SalesTypeOK, SalesStep
    PROVE  \/ UNCHANGED stockVars
           \/ \E d \in [Products -> Nat] :
                 Promises(d) \/ Delivers(d) \/ Returns(d) \/ Sells(d) \/ GivesBack(d)
<1>. USE QuantitiesNat
<1>0. StockTypeOK /\ \A d : d \in [Products -> Nat] => Stocked(d) \in [Products -> Nat]
  BY StockedType DEF SalesTypeOK
<1>1. ASSUME NEW d \in Demands, CreateSalesOrder(d)
      PROVE  Stocked(d) \in [Products -> Nat] /\ Promises(Stocked(d))
  BY <1>0, <1>1 DEF CreateSalesOrder, Demands, Promises
<1>2. ASSUME NEW d \in Demands, NEW done \in Quantities, RejectSalesOrder(d, done)
      PROVE  done \in [Products -> Nat] /\ Promises(done)
  BY <1>2 DEF RejectSalesOrder, Interrupted, Promises
<1>3. ASSUME NEW o \in DOMAIN orders, CreateDeliveryNoteFromOrder(o)
      PROVE  /\ Stocked(orders[o].lines) \in [Products -> Nat]
             /\ Delivers(Stocked(orders[o].lines))
  BY <1>0, <1>3, LinesNat DEF CreateDeliveryNoteFromOrder, Delivers
<1>4. ASSUME NEW o \in DOMAIN orders, NEW done \in Quantities,
             RejectDeliveryNote(o, done)
      PROVE  done \in [Products -> Nat] /\ Delivers(done)
  BY <1>4 DEF RejectDeliveryNote, Interrupted, Delivers
<1>5. ASSUME NEW n \in DOMAIN notes, CancelDeliveryNote(n)
      PROVE  /\ Stocked(orders[notes[n].order].lines) \in [Products -> Nat]
             /\ Returns(Stocked(orders[notes[n].order].lines))
  <2>1. notes[n].order \in DOMAIN orders
    BY DEF SalesTypeOK, DocumentsTypeOK
  <2>. QED
    BY <1>0, <1>5, <2>1, LinesNat DEF CancelDeliveryNote, Returns
<1>6. ASSUME NEW d \in Demands, CreateInvoice(d)
      PROVE  Stocked(d) \in [Products -> Nat] /\ Sells(Stocked(d))
  BY <1>0, <1>6 DEF CreateInvoice, Demands, Sells
<1>7. ASSUME NEW k \in DOMAIN orders, ReleaseExpiredStockReservations(k)
      PROVE  \E d \in [Products -> Nat] : GivesBack(d)
  BY <1>0, <1>7 DEF ReleaseExpiredStockReservations, GivesBack
<1>8. ASSUME (\E o \in DOMAIN orders : ConvertOrderToInvoice(o)) \/ ResetSampleModule
      PROVE  UNCHANGED stockVars
  BY <1>8 DEF ConvertOrderToInvoice, ResetSampleModule
<1>. QED
  BY <1>1, <1>2, <1>3, <1>4, <1>5, <1>6, <1>7, <1>8 DEF SalesStep

LEMMA SalesTyped ==
    ASSUME StockAssumption, SalesTypeOK, SalesStep
    PROVE  StockTypeOK'
<1>0. StockTypeOK /\ Main \in Warehouses
  BY DEF SalesTypeOK, StockAssumption
<1>1. CASE UNCHANGED stockVars
  BY <1>0, <1>1 DEF stockVars, StockTypeOK
<1>2. ASSUME NEW d \in [Products -> Nat],
             Promises(d) \/ Delivers(d) \/ Returns(d) \/ Sells(d) \/ GivesBack(d)
      PROVE  StockTypeOK'
  <2>0. d \in [Products -> Int] /\ Negated(d) \in [Products -> Int]
    BY NegatedType
  <2>1. CASE Promises(d)
    BY <1>0, <2>1, ReserveTyped DEF Promises
  <2>2. CASE Delivers(d)
    BY <1>0, <2>2, ShipTyped DEF Delivers
  <2>3. CASE Returns(d)
    BY <1>0, <2>0, <2>3, MoveTyped DEF Returns
  <2>4. CASE Sells(d)
    BY <1>0, <2>0, <2>4, MoveTyped DEF Sells
  <2>5. CASE GivesBack(d)
    BY <1>0, <2>5, ReleaseTyped DEF GivesBack
  <2>. QED
    BY <1>2, <2>1, <2>2, <2>3, <2>4, <2>5
<1>. QED
  BY <1>1, <1>2, SalesEffects

-----------------------------------------------------------------------------
\* Papers are filed at the end and change their status only.
LEMMA Filed ==
    ASSUME NEW T, NEW docs \in Seq(T), NEW doc \in T,
           NEW new, new = Append(docs, doc)
    PROVE  /\ new \in Seq(T) /\ Len(new) = Len(docs) + 1
           /\ new[Len(docs) + 1] = doc
           /\ \A i \in DOMAIN docs : new[i] = docs[i]
OBVIOUS

LEMMA Stamped ==
    ASSUME NEW T, NEW docs \in Seq(T), NEW i \in DOMAIN docs, NEW doc \in T,
           NEW new, new = [docs EXCEPT ![i] = doc]
    PROVE  /\ new \in Seq(T) /\ DOMAIN new = DOMAIN docs
           /\ new[i] = doc
           /\ \A j \in DOMAIN docs \ {i} : new[j] = docs[j]
OBVIOUS

LEMMA TransferFiled ==
    ASSUME StockAssumption, NEW p \in Products, NEW from \in Warehouses,
           NEW to \in Warehouses, NEW q \in 1..MaxQty, TransferStock(p, from, to, q)
    PROVE  \E doc \in Transfers :
              /\ doc.product = p /\ doc.qty = q /\ doc.status = "IN_TRANSIT"
              /\ transfers' = Append(transfers, doc)
<1>. DEFINE doc == [product |-> p, from |-> from, to |-> to, qty |-> q,
                    status |-> "IN_TRANSIT"]
<1>1. doc \in Transfers /\ doc.product = p /\ doc.qty = q /\ doc.status = "IN_TRANSIT"
  BY DEF Transfers, StockAssumption
<1>2. transfers' = Append(transfers, doc)
  BY DEF TransferStock
<1>. HIDE DEF doc
<1>. QED
  BY <1>1, <1>2

LEMMA TransferStamped ==
    ASSUME PapersTypeOK, NEW t \in DOMAIN transfers, ReceiveStockTransfer(t)
    PROVE  /\ transfers[t] \in Transfers /\ transfers[t].status = "IN_TRANSIT"
           /\ \E doc \in Transfers :
                 /\ doc.product = transfers[t].product /\ doc.qty = transfers[t].qty
                 /\ doc.status = "RECEIVED"
                 /\ transfers' = [transfers EXCEPT ![t] = doc]
<1>1. transfers[t] \in Transfers /\ transfers[t].status = "IN_TRANSIT"
  BY DEF PapersTypeOK, ReceiveStockTransfer
<1>. DEFINE doc == [transfers[t] EXCEPT !.status = "RECEIVED"]
<1>2. /\ doc \in Transfers /\ doc.status = "RECEIVED" /\ doc.qty = transfers[t].qty
      /\ doc.product = transfers[t].product
  BY <1>1 DEF Transfers
<1>3. transfers' = [transfers EXCEPT ![t] = doc]
  BY DEF ReceiveStockTransfer
<1>. HIDE DEF doc
<1>. QED
  BY <1>1, <1>2, <1>3

LEMMA CountStamped ==
    ASSUME PapersTypeOK, NEW c \in DOMAIN counts, ApproveInventoryCount(c)
    PROVE  /\ counts[c] \in Counts
           /\ \E doc \in Counts : counts' = [counts EXCEPT ![c] = doc]
<1>1. counts[c] \in Counts
  BY DEF PapersTypeOK
<1>. DEFINE doc == [counts[c] EXCEPT !.status = "POSTED"]
<1>2. doc \in Counts
  BY <1>1 DEF Counts
<1>3. counts' = [counts EXCEPT ![c] = doc]
  BY DEF ApproveInventoryCount
<1>. HIDE DEF doc
<1>. QED
  BY <1>1, <1>2, <1>3

LEMMA QuarantineFiled ==
    ASSUME StockAssumption, NEW p \in Products, NEW w \in Warehouses, NEW q \in 1..MaxQty,
           CreateStockQuarantine(p, w, q)
    PROVE  \E doc \in Quarantines :
              /\ doc.product = p /\ doc.qty = q /\ doc.status = "OPEN"
              /\ quarantines' = Append(quarantines, doc)
<1>. DEFINE doc == [product |-> p, warehouse |-> w, qty |-> q, status |-> "OPEN"]
<1>1. doc \in Quarantines /\ doc.product = p /\ doc.qty = q /\ doc.status = "OPEN"
  BY DEF Quarantines, StockAssumption
<1>2. quarantines' = Append(quarantines, doc)
  BY DEF CreateStockQuarantine
<1>. HIDE DEF doc
<1>. QED
  BY <1>1, <1>2

LEMMA QuarantineStamped ==
    ASSUME PapersTypeOK, NEW h \in DOMAIN quarantines, ReleaseStockQuarantine(h)
    PROVE  /\ quarantines[h] \in Quarantines /\ quarantines[h].status = "OPEN"
           /\ \E doc \in Quarantines :
                 /\ doc.status = "RELEASED"
                 /\ quarantines' = [quarantines EXCEPT ![h] = doc]
<1>1. quarantines[h] \in Quarantines /\ quarantines[h].status = "OPEN"
  BY DEF PapersTypeOK, ReleaseStockQuarantine, Releasable
<1>. DEFINE doc == [quarantines[h] EXCEPT !.status = "RELEASED"]
<1>2. doc \in Quarantines /\ doc.status = "RELEASED"
  BY <1>1 DEF Quarantines
<1>3. quarantines' = [quarantines EXCEPT ![h] = doc]
  BY DEF ReleaseStockQuarantine
<1>. HIDE DEF doc
<1>. QED
  BY <1>1, <1>2, <1>3

LEMMA PartFiled ==
    ASSUME StockAssumption, NEW p \in Products, NEW q \in 1..MaxQty,
           ReserveMaintenanceSparePart(p, q)
    PROVE  \E doc \in SpareParts :
              /\ doc.product = p /\ doc.qty = q /\ doc.status = "RESERVED"
              /\ spareParts' = Append(spareParts, doc)
<1>. DEFINE doc == [product |-> p, qty |-> q, status |-> "RESERVED"]
<1>1. doc \in SpareParts /\ doc.product = p /\ doc.qty = q /\ doc.status = "RESERVED"
  BY DEF SpareParts, StockAssumption
<1>2. spareParts' = Append(spareParts, doc)
  BY DEF ReserveMaintenanceSparePart
<1>. HIDE DEF doc
<1>. QED
  BY <1>1, <1>2

LEMMA PartStamped ==
    ASSUME PapersTypeOK, NEW r \in DOMAIN spareParts, ConsumeMaintenanceSparePart(r)
    PROVE  /\ spareParts[r] \in SpareParts /\ spareParts[r].status = "RESERVED"
           /\ \E doc \in SpareParts :
                 /\ doc.status = "CONSUMED"
                 /\ spareParts' = [spareParts EXCEPT ![r] = doc]
<1>1. spareParts[r] \in SpareParts /\ spareParts[r].status = "RESERVED"
  BY DEF PapersTypeOK, ConsumeMaintenanceSparePart
<1>. DEFINE doc == [spareParts[r] EXCEPT !.status = "CONSUMED"]
<1>2. doc \in SpareParts /\ doc.status = "CONSUMED"
  BY <1>1 DEF SpareParts
<1>3. spareParts' = [spareParts EXCEPT ![r] = doc]
  BY DEF ConsumeMaintenanceSparePart
<1>. HIDE DEF doc
<1>. QED
  BY <1>1, <1>2, <1>3

-----------------------------------------------------------------------------
LEMMA SetAsideIs ==
    ASSUME StockAssumption, NEW p \in Products, NEW w \in Warehouses, NEW q \in 1..MaxQty,
           SetAside(p, w, q)
    PROVE  /\ Only(p, q) \in [Products -> Nat]
           /\ q \in Nat /\ q <= Available[p]
           /\ Reserve(w, Only(p, q))
           /\ UNCHANGED <<onHand, tracked, quantity, periodOpen>>
<1>1. q \in Nat /\ q \in Int
  BY DEF StockAssumption
<1>. QED
  BY <1>1, OnlyType DEF SetAside

LEMMA WarehouseTyped ==
    ASSUME StockAssumption, StockTypeOK, PapersTypeOK, WarehouseStep
    PROVE  StockTypeOK' /\ PapersTypeOK'
<1>0. /\ Main \in Warehouses /\ MaxQty \in Nat
      /\ transfers \in Seq(Transfers) /\ counts \in Seq(Counts)
      /\ quarantines \in Seq(Quarantines) /\ spareParts \in Seq(SpareParts)
  BY DEF StockAssumption, PapersTypeOK
<1>. USE QuantitiesNat
<1>n. \A d : d \in [Products -> Nat] => d \in [Products -> Int]
  OBVIOUS
<1>1. ASSUME NEW p \in Products, NEW q \in -MaxQty..MaxQty, AdjustStock(p, q)
      PROVE  StockTypeOK' /\ PapersTypeOK'
  <2>1. Only(p, q) \in [Products -> Int]
    BY <1>0, OnlyType
  <2>2. /\ Move(Main, Only(p, q)) /\ UNCHANGED <<reserved, tracked, held, periodOpen>>
        /\ UNCHANGED warehouseVars
    BY <1>1 DEF AdjustStock
  <2>. QED
    BY <1>0, <2>1, <2>2, MoveTyped DEF PapersTypeOK, warehouseVars
<1>2. ASSUME NEW w \in Warehouses, NEW d \in Demands, CreatePurchaseReceipt(w, d)
      PROVE  StockTypeOK' /\ PapersTypeOK'
  <2>1. d \in [Products -> Int]
    BY <1>n DEF Demands
  <2>2. /\ Move(w, d) /\ UNCHANGED <<reserved, tracked, held, periodOpen>>
        /\ UNCHANGED warehouseVars
    BY <1>2 DEF CreatePurchaseReceipt
  <2>. QED
    BY <2>1, <2>2, MoveTyped DEF PapersTypeOK, warehouseVars
<1>3. ASSUME NEW p \in Products, NEW from \in Warehouses, NEW to \in Warehouses,
             NEW q \in 1..MaxQty, TransferStock(p, from, to, q)
      PROVE  StockTypeOK' /\ PapersTypeOK'
  <2>1. Only(p, -q) \in [Products -> Int]
    BY <1>0, OnlyType
  <2>2. /\ quantity' = [quantity EXCEPT ![from] = Plus(@, Stocked(Only(p, -q)))]
        /\ UNCHANGED <<onHand, reserved, tracked, held, periodOpen>>
        /\ UNCHANGED <<counts, quarantines, spareParts>>
    BY <1>3 DEF TransferStock, Shift
  <2>3. quantity' \in [Warehouses -> [Products -> Int]]
    BY <2>1, <2>2, RowsTyped
  <2>4. transfers' \in Seq(Transfers)
    BY <1>0, <1>3, TransferFiled, Filed
  <2>. QED
    BY <2>2, <2>3, <2>4 DEF StockTypeOK, PapersTypeOK
<1>4. ASSUME NEW t \in DOMAIN transfers, ReceiveStockTransfer(t)
      PROVE  StockTypeOK' /\ PapersTypeOK'
  <2>1. transfers[t].to \in Warehouses /\ transfers[t].qty \in Int
    BY <1>4, TransferStamped DEF Transfers
  <2>. DEFINE d == Only(transfers[t].product, transfers[t].qty)
  <2>2. d \in [Products -> Int]
    BY <2>1, OnlyType
  <2>3. /\ quantity' = [quantity EXCEPT ![transfers[t].to] = Plus(@, Stocked(d))]
        /\ UNCHANGED <<onHand, reserved, tracked, held, periodOpen>>
        /\ UNCHANGED <<counts, quarantines, spareParts>>
    BY <1>4 DEF ReceiveStockTransfer, Shift
  <2>. HIDE DEF d
  <2>4. quantity' \in [Warehouses -> [Products -> Int]]
    BY <2>1, <2>2, <2>3, RowsTyped
  <2>5. transfers' \in Seq(Transfers)
    BY <1>0, <1>4, TransferStamped, Stamped
  <2>. QED
    BY <2>3, <2>4, <2>5 DEF StockTypeOK, PapersTypeOK
<1>5. ASSUME NEW w \in Warehouses, NEW S \in SUBSET Products, NEW counted \in Quantities,
             CreateInventoryCount(w, S, counted)
      PROVE  StockTypeOK' /\ PapersTypeOK'
  <2>. DEFINE v == [p \in Products |-> IF p \in S THEN counted[p] - quantity[w][p] ELSE 0]
              doc == [warehouse |-> w, status |-> "DRAFT", variance |-> v]
  <2>1. v \in [Products -> Int]
    BY <1>0 DEF Quantities, StockTypeOK
  <2>. HIDE DEF v
  <2>2. doc \in Counts
    BY <2>1 DEF Counts
  <2>3. counts' = Append(counts, doc) /\ UNCHANGED <<stockVars, transfers, quarantines, spareParts>>
    BY <1>5 DEF CreateInventoryCount, v
  <2>. HIDE DEF doc
  <2>4. counts' \in Seq(Counts)
    BY <1>0, <2>2, <2>3, Filed
  <2>. QED
    BY <2>3, <2>4 DEF stockVars, StockTypeOK, PapersTypeOK
<1>6. ASSUME NEW c \in DOMAIN counts, ApproveInventoryCount(c)
      PROVE  StockTypeOK' /\ PapersTypeOK'
  <2>1. counts[c].warehouse \in Warehouses /\ counts[c].variance \in [Products -> Int]
    BY <1>6, CountStamped DEF Counts
  <2>2. /\ Move(counts[c].warehouse, counts[c].variance)
        /\ UNCHANGED <<reserved, tracked, held, periodOpen>>
        /\ UNCHANGED <<transfers, quarantines, spareParts>>
    BY <1>6 DEF ApproveInventoryCount
  <2>3. counts' \in Seq(Counts)
    BY <1>0, <1>6, CountStamped, Stamped
  <2>4. StockTypeOK'
    BY <2>1, <2>2, MoveTyped
  <2>. QED
    BY <2>2, <2>3, <2>4 DEF PapersTypeOK
<1>7. ASSUME NEW p \in Products, NEW w \in Warehouses, NEW q \in 1..MaxQty,
             CreateStockQuarantine(p, w, q)
      PROVE  StockTypeOK' /\ PapersTypeOK'
  <2>1. SetAside(p, w, q) /\ UNCHANGED <<transfers, counts, spareParts>>
    BY <1>7 DEF CreateStockQuarantine
  <2>2. StockTypeOK'
    BY <2>1, SetAsideIs, ReserveTyped
  <2>3. quarantines' \in Seq(Quarantines)
    BY <1>0, <1>7, QuarantineFiled, Filed
  <2>. QED
    BY <2>1, <2>2, <2>3 DEF PapersTypeOK
<1>8. ASSUME NEW h \in DOMAIN quarantines, ReleaseStockQuarantine(h)
      PROVE  StockTypeOK' /\ PapersTypeOK'
  <2>1. /\ quarantines[h].warehouse \in Warehouses
        /\ quarantines[h].qty \in Nat /\ quarantines[h].qty \in Int
    BY <1>8, QuarantineStamped DEF Quarantines
  <2>. DEFINE d == Only(quarantines[h].product, quarantines[h].qty)
  <2>2. d \in [Products -> Nat]
    BY <2>1, OnlyType
  <2>3. /\ Release(quarantines[h].warehouse, d)
        /\ UNCHANGED <<onHand, tracked, quantity, periodOpen>>
        /\ UNCHANGED <<transfers, counts, spareParts>>
    BY <1>8 DEF ReleaseStockQuarantine
  <2>. HIDE DEF d
  <2>4. StockTypeOK'
    BY <2>1, <2>2, <2>3, ReleaseTyped
  <2>5. quarantines' \in Seq(Quarantines)
    BY <1>0, <1>8, QuarantineStamped, Stamped
  <2>. QED
    BY <2>3, <2>4, <2>5 DEF PapersTypeOK
<1>9. ASSUME NEW p \in Products, CreateWarrantyServiceCase(p)
      PROVE  StockTypeOK' /\ PapersTypeOK'
  <2>1. /\ Reserve(Main, Only(p, 1)) /\ UNCHANGED <<onHand, tracked, quantity, periodOpen>>
        /\ UNCHANGED warehouseVars
    BY <1>9 DEF CreateWarrantyServiceCase, SetAside
  <2>2. Only(p, 1) \in [Products -> Nat]
    BY OnlyType
  <2>. QED
    BY <1>0, <2>1, <2>2, ReserveTyped DEF PapersTypeOK, warehouseVars
<1>10. ASSUME NEW p \in Products, NEW q \in 1..MaxQty, ReserveMaintenanceSparePart(p, q)
       PROVE  StockTypeOK' /\ PapersTypeOK'
  <2>1. SetAside(p, Main, q) /\ UNCHANGED <<transfers, counts, quarantines>>
    BY <1>10 DEF ReserveMaintenanceSparePart
  <2>2. StockTypeOK'
    BY <1>0, <2>1, SetAsideIs, ReserveTyped
  <2>3. spareParts' \in Seq(SpareParts)
    BY <1>0, <1>10, PartFiled, Filed
  <2>. QED
    BY <2>1, <2>2, <2>3 DEF PapersTypeOK
<1>11. ASSUME NEW r \in DOMAIN spareParts, ConsumeMaintenanceSparePart(r)
       PROVE  StockTypeOK' /\ PapersTypeOK'
  <2>. DEFINE part == Only(spareParts[r].product, spareParts[r].qty)
  <2>0. spareParts[r].qty \in Nat /\ spareParts[r].qty \in Int
    BY <1>11, PartStamped DEF SpareParts
  <2>1. part \in [Products -> Nat] /\ part \in [Products -> Int]
    BY <2>0, OnlyType
  <2>2. /\ reserved' = Clamped(reserved, part)
        /\ quantity' = [quantity EXCEPT ![Main] = Plus(@, Stocked(Negated(part)))]
        /\ UNCHANGED <<onHand, tracked, held, periodOpen>>
        /\ UNCHANGED <<transfers, counts, quarantines>>
    BY <1>11 DEF ConsumeMaintenanceSparePart, Shift
  <2>. HIDE DEF part
  <2>3. reserved' \in [Products -> Nat]
    BY <2>1, <2>2 DEF Clamped, StockTypeOK
  <2>4. quantity' \in [Warehouses -> [Products -> Int]]
    BY <1>0, <2>1, <2>2, NegatedType, RowsTyped
  <2>5. spareParts' \in Seq(SpareParts)
    BY <1>0, <1>11, PartStamped, Stamped
  <2>. QED
    BY <2>2, <2>3, <2>4, <2>5 DEF StockTypeOK, PapersTypeOK
<1>12. ASSUME NEW p \in Products, NEW d \in Quantities, NEW q \in 1..MaxQty,
              CreateProductionOrder(p, d, q)
       PROVE  StockTypeOK' /\ PapersTypeOK'
  <2>. DEFINE e == Plus(Negated(d), Only(p, q))
  <2>0. Negated(d) \in [Products -> Int] /\ Only(p, q) \in [Products -> Int]
    BY <1>0, <1>n, NegatedType, OnlyType
  <2>1. e \in [Products -> Int]
    BY <2>0 DEF Plus
  <2>2. /\ Move(Main, e) /\ UNCHANGED <<reserved, tracked, held, periodOpen>>
        /\ UNCHANGED warehouseVars
    BY <1>12 DEF CreateProductionOrder
  <2>. HIDE DEF e
  <2>. QED
    BY <1>0, <2>1, <2>2, MoveTyped DEF PapersTypeOK, warehouseVars
<1>13. ASSUME NEW d \in Demands, NEW done \in Quantities, RejectProductionOrder(d, done)
       PROVE  StockTypeOK' /\ PapersTypeOK'
  <2>1. Negated(done) \in [Products -> Int]
    BY <1>n, NegatedType
  <2>2. /\ Move(Main, Negated(done)) /\ UNCHANGED <<reserved, tracked, held, periodOpen>>
        /\ UNCHANGED warehouseVars
    BY <1>13 DEF RejectProductionOrder
  <2>. QED
    BY <1>0, <2>1, <2>2, MoveTyped DEF PapersTypeOK, warehouseVars
<1>14. ASSUME NEW p \in Products, NEW t \in BOOLEAN, UpdateProduct(p, t)
       PROVE  StockTypeOK' /\ PapersTypeOK'
  <2>1. tracked' \in [Products -> BOOLEAN] /\ UNCHANGED <<warehouseVars, quantity, held, periodOpen>>
    BY <1>14 DEF UpdateProduct, StockTypeOK
  <2>2. onHand' \in [Products -> Int] /\ reserved' \in [Products -> Nat]
    BY <1>14 DEF UpdateProduct, StockTypeOK, StockAssumption
  <2>. QED
    BY <2>1, <2>2 DEF StockTypeOK, PapersTypeOK, warehouseVars
<1>. QED
  BY <1>1, <1>2, <1>3, <1>4, <1>5, <1>6, <1>7, <1>8, <1>9, <1>10, <1>11, <1>12, <1>13, <1>14
  DEF WarehouseStep

-----------------------------------------------------------------------------
LEMMA InventoryInitially == Init => InventoryInv
<1>. SUFFICES ASSUME Init
              PROVE  InventoryInv
  OBVIOUS
<1>1. StockTypeOK
  BY StockAssumption, InitCovered DEF Init, Covered
<1>2. DocumentsTypeOK /\ NotesMatchOrders
  BY EmptySeq DEF Init, DocumentsInit, DocumentsTypeOK, NotesMatchOrders, PostedNote
<1>3. PapersTypeOK
  BY EmptySeq DEF Init, PapersInit, PapersTypeOK
<1>. QED
  BY <1>1, <1>2, <1>3 DEF InventoryInv, SalesTypeOK

LEMMA InventorySteps == InventoryInv /\ [Next]_vars => InventoryInv'
<1>. SUFFICES ASSUME InventoryInv, [Next]_vars
              PROVE  InventoryInv'
  OBVIOUS
<1>. USE StockAssumption DEF InventoryInv
<1>1. CASE SalesStep /\ UNCHANGED warehouseVars
  <2>1. StockTypeOK' /\ Documents'
    BY <1>1, SalesTyped, StepDocuments
  <2>2. PapersTypeOK'
    BY <1>1 DEF warehouseVars, PapersTypeOK
  <2>. QED
    BY <2>1, <2>2 DEF SalesTypeOK, Documents
<1>2. CASE WarehouseStep /\ UNCHANGED salesVars
  <2>1. StockTypeOK' /\ PapersTypeOK'
    BY <1>2, WarehouseTyped DEF SalesTypeOK
  <2>2. DocumentsTypeOK' /\ NotesMatchOrders'
    BY <1>2 DEF SalesTypeOK, salesVars, DocumentsTypeOK, NotesMatchOrders, PostedNote
  <2>. QED
    BY <2>1, <2>2 DEF SalesTypeOK
<1>3. CASE /\ UNCHANGED <<onHand, reserved, tracked, quantity, held>>
           /\ periodOpen' \in BOOLEAN
           /\ UNCHANGED <<salesVars, warehouseVars>>
  BY <1>3 DEF salesVars, warehouseVars, SalesTypeOK, StockTypeOK, DocumentsTypeOK,
              NotesMatchOrders, PostedNote, PapersTypeOK
<1>4. CASE SetPeriod /\ UNCHANGED <<salesVars, warehouseVars>>
  BY <1>3, <1>4 DEF SetPeriod, SalesTypeOK, StockTypeOK
<1>5. CASE UNCHANGED vars
  BY <1>3, <1>5 DEF vars, stockVars, SalesTypeOK, StockTypeOK
<1>. QED
  BY <1>1, <1>2, <1>4, <1>5 DEF Next

LEMMA InventoryInvHolds == Spec => []InventoryInv
BY InventoryInitially, InventorySteps, PTL DEF Spec

-----------------------------------------------------------------------------
\* What each step does to what is available.

Overcommits(p) == Available[p]' < Available[p] /\ Available[p]' < 0

LEMMA AvailableIs ==
    ASSUME StockTypeOK, StockTypeOK', NEW p \in Products
    PROVE  /\ Available[p] = onHand[p] - reserved[p]
           /\ Available[p]' = onHand'[p] - reserved'[p]
           /\ onHand[p] \in Int /\ onHand'[p] \in Int
           /\ reserved[p] \in Nat /\ reserved'[p] \in Nat
BY DEF Available, Minus, StockTypeOK

\* Promising what is available leaves nothing below zero that was not below.
LEMMA FittingPromise ==
    ASSUME StockTypeOK, StockTypeOK', NEW p \in Products, NEW n \in Nat,
           n > 0 => n <= Available[p],
           \/ onHand'[p] = onHand[p] /\ reserved'[p] = reserved[p] + n
           \/ onHand'[p] = onHand[p] - n /\ reserved'[p] = reserved[p]
    PROVE  ~Overcommits(p)
BY AvailableIs DEF Overcommits

LEMMA SalesCommit ==
    ASSUME StockAssumption, SalesTypeOK, StockTypeOK', SalesStep, NEW p \in Products
    PROVE  ~Overcommits(p)
<1>. USE DEF SalesTypeOK
<1>1. CASE UNCHANGED stockVars
  BY <1>1, AvailableIs DEF stockVars, Overcommits
<1>2. ASSUME NEW d \in [Products -> Nat],
             Promises(d) \/ Delivers(d) \/ Returns(d) \/ Sells(d) \/ GivesBack(d)
      PROVE  ~Overcommits(p)
  <2>0. d[p] \in Nat /\ Negated(d)[p] = -d[p]
    BY DEF Negated
  <2>1. CASE Promises(d)
    BY <2>0, <2>1, FittingPromise DEF Promises, Fits, Reserve, Plus
  <2>2. CASE Delivers(d)
    <3>1. onHand'[p] = onHand[p] + -d[p] /\ reserved'[p] = reserved[p] - d[p]
      BY <2>0, <2>2 DEF Delivers, Ship, Move, Plus, Minus
    <3>. QED
      BY <2>0, <3>1, AvailableIs DEF Overcommits
  <2>3. CASE Returns(d)
    <3>1. onHand'[p] = onHand[p] + d[p] /\ reserved'[p] = reserved[p]
      BY <2>3 DEF Returns, Move, Plus
    <3>. QED
      BY <2>0, <3>1, AvailableIs DEF Overcommits
  <2>4. CASE Sells(d)
    <3>1. onHand'[p] = onHand[p] + -d[p] /\ reserved'[p] = reserved[p]
      BY <2>0, <2>4 DEF Sells, Move, Plus
    <3>2. onHand'[p] = onHand[p] - d[p]
      BY <2>0, <3>1, AvailableIs
    <3>. QED
      BY <2>0, <2>4, <3>1, <3>2, FittingPromise DEF Sells, Fits
  <2>5. CASE GivesBack(d)
    <3>1. /\ onHand'[p] = onHand[p]
          /\ reserved'[p] = IF reserved[p] > d[p] THEN reserved[p] - d[p] ELSE 0
      BY <2>5 DEF GivesBack, Release, Clamped
    <3>. QED
      BY <2>0, <3>1, AvailableIs DEF Overcommits
  <2>. QED
    BY <1>2, <2>1, <2>2, <2>3, <2>4, <2>5
<1>. QED
  BY <1>1, <1>2, SalesEffects

\* The operations that look at the stock on hand only, or overwrite it.
Unchecked(p) ==
    \/ \E q \in -MaxQty..-1 : AdjustStock(p, q)
    \/ \E c \in DOMAIN counts : ApproveInventoryCount(c)
    \/ \E f \in Products, d \in Quantities, q \in 1..MaxQty : CreateProductionOrder(f, d, q)
    \/ \E d \in Demands, done \in Quantities : RejectProductionOrder(d, done)
    \/ EditsStock(p)

LEMMA WarehouseCommit ==
    ASSUME StockAssumption, StockTypeOK, PapersTypeOK, StockTypeOK', WarehouseStep,
           NEW p \in Products, ~Unchecked(p)
    PROVE  ~Overcommits(p)
<1>. USE QuantitiesNat
<1>0. MaxQty \in Nat
  BY DEF StockAssumption
<1>a. ASSUME onHand'[p] >= onHand[p], reserved'[p] <= reserved[p]
      PROVE  ~Overcommits(p)
  BY <1>a, AvailableIs DEF Overcommits
<1>b. onHand[p] \in Int /\ reserved[p] \in Nat
  BY DEF StockTypeOK
<1>c. ASSUME NEW x \in Products, NEW w \in Warehouses, NEW q \in 1..MaxQty, SetAside(x, w, q)
      PROVE  ~Overcommits(p)
  <2>1. /\ q \in Nat /\ onHand' = onHand
        /\ reserved'[p] = reserved[p] + (IF p = x THEN q ELSE 0)
        /\ q <= Available[x]
    BY <1>0, <1>c DEF SetAside, Reserve, Plus, Only
  <2>. QED
    BY <2>1, FittingPromise
<1>1. ASSUME NEW x \in Products, NEW q \in -MaxQty..MaxQty, AdjustStock(x, q)
      PROVE  ~Overcommits(p)
  <2>1. /\ q # 0 /\ reserved' = reserved
        /\ onHand'[p] = onHand[p] + (IF p = x THEN q ELSE 0)
    BY <1>1 DEF AdjustStock, Move, Plus, Only
  <2>2. q >= 0 \/ p # x
    BY <1>0, <1>1, <2>1 DEF Unchecked
  <2>. QED
    BY <1>a, <1>b, <2>1, <2>2
<1>2. ASSUME NEW w \in Warehouses, NEW d \in Demands, CreatePurchaseReceipt(w, d)
      PROVE  ~Overcommits(p)
  <2>1. d[p] \in Nat /\ onHand'[p] = onHand[p] + d[p] /\ reserved' = reserved
    BY <1>2 DEF CreatePurchaseReceipt, Move, Plus, Demands
  <2>. QED
    BY <1>a, <1>b, <2>1
<1>3. ASSUME UNCHANGED <<onHand, reserved>>
      PROVE  ~Overcommits(p)
  BY <1>a, <1>b, <1>3
<1>4. ASSUME NEW h \in DOMAIN quarantines, ReleaseStockQuarantine(h)
      PROVE  ~Overcommits(p)
  <2>1. quarantines[h].qty \in Nat /\ quarantines[h].qty \in Int
    BY <1>4, QuarantineStamped DEF Quarantines
  <2>. DEFINE d == Only(quarantines[h].product, quarantines[h].qty)
  <2>2. d \in [Products -> Nat] /\ onHand' = onHand /\ reserved' = Clamped(reserved, d)
    BY <1>4, <2>1, OnlyType DEF ReleaseStockQuarantine, Release
  <2>. HIDE DEF d
  <2>3. reserved'[p] <= reserved[p]
    BY <1>b, <2>2 DEF Clamped
  <2>. QED
    BY <1>a, <1>b, <2>2, <2>3
<1>5. ASSUME NEW x \in Products, CreateWarrantyServiceCase(x)
      PROVE  ~Overcommits(p)
  <2>1. /\ onHand' = onHand
        /\ reserved'[p] = reserved[p] + (IF p = x THEN 1 ELSE 0)
        /\ 1 <= Available[x]
    BY <1>5 DEF CreateWarrantyServiceCase, SetAside, Reserve, Plus, Only
  <2>. QED
    BY <2>1, FittingPromise
<1>6. ASSUME NEW r \in DOMAIN spareParts, ConsumeMaintenanceSparePart(r)
      PROVE  ~Overcommits(p)
  <2>1. spareParts[r].qty \in Nat /\ spareParts[r].qty \in Int
    BY <1>6, PartStamped DEF SpareParts
  <2>. DEFINE d == Only(spareParts[r].product, spareParts[r].qty)
  <2>2. d \in [Products -> Nat] /\ onHand' = onHand /\ reserved' = Clamped(reserved, d)
    BY <1>6, <2>1, OnlyType DEF ConsumeMaintenanceSparePart
  <2>. HIDE DEF d
  <2>3. reserved'[p] <= reserved[p]
    BY <1>b, <2>2 DEF Clamped
  <2>. QED
    BY <1>a, <1>b, <2>2, <2>3
<1>7. ASSUME NEW x \in Products, NEW t \in BOOLEAN, UpdateProduct(x, t)
      PROVE  ~Overcommits(p)
  <2>1. p # x
    BY <1>7 DEF Unchecked, EditsStock
  <2>2. onHand'[p] = onHand[p] /\ reserved'[p] = reserved[p]
    BY <1>7, <2>1 DEF UpdateProduct, StockTypeOK
  <2>. QED
    BY <1>a, <1>b, <2>2
<1>8. CASE \/ \E x \in Products, from, to \in Warehouses, q \in 1..MaxQty :
                 TransferStock(x, from, to, q)
           \/ \E t \in DOMAIN transfers : ReceiveStockTransfer(t)
           \/ \E w \in Warehouses, S \in SUBSET Products, counted \in Quantities :
                 CreateInventoryCount(w, S, counted)
  BY <1>3, <1>8 DEF TransferStock, ReceiveStockTransfer, CreateInventoryCount, stockVars
<1>9. CASE \/ \E x \in Products, w \in Warehouses, q \in 1..MaxQty :
                 CreateStockQuarantine(x, w, q)
           \/ \E x \in Products, q \in 1..MaxQty : ReserveMaintenanceSparePart(x, q)
  BY <1>c, <1>9 DEF CreateStockQuarantine, ReserveMaintenanceSparePart, StockAssumption
<1>10. CASE \/ \E c \in DOMAIN counts : ApproveInventoryCount(c)
            \/ \E f \in Products, d \in Quantities, q \in 1..MaxQty :
                  CreateProductionOrder(f, d, q)
            \/ \E d \in Demands, done \in Quantities : RejectProductionOrder(d, done)
  BY <1>10 DEF Unchecked
<1>. QED
  BY <1>1, <1>2, <1>4, <1>5, <1>6, <1>7, <1>8, <1>9, <1>10 DEF WarehouseStep

\* Whatever lowers the availability of a product below zero is an adjustment
\* downwards, a count, a production or an edition of the product: a sale, an
\* order, a quarantine, a spare part or a replacement article never promises
\* more than is there, whatever the others did before it.
THEOREM OvercommitOnlyUnchecked == Spec => OnlyUncheckedStepsOvercommit
<1>1. InventoryInv /\ InventoryInv' /\ [Next]_vars
        => [\A p \in Products : Overcommits(p) => Unchecked(p)]_vars
  <2>. SUFFICES ASSUME InventoryInv, InventoryInv', Next, NEW p \in Products, ~Unchecked(p)
                PROVE  ~Overcommits(p)
    OBVIOUS
  <2>. USE StockAssumption DEF InventoryInv
  <2>0. StockTypeOK /\ StockTypeOK'
    BY DEF SalesTypeOK
  <2>1. CASE SalesStep
    BY <2>0, <2>1, SalesCommit
  <2>2. CASE WarehouseStep
    BY <2>0, <2>2, WarehouseCommit
  <2>3. CASE SetPeriod
    BY <2>0, <2>3, AvailableIs DEF SetPeriod, Overcommits
  <2>. QED
    BY <2>1, <2>2, <2>3 DEF Next
<1>2. [\A p \in Products : Overcommits(p) => Unchecked(p)]_vars
        <=> [\A p \in Products :
               Available[p]' < Available[p] /\ Available[p]' < 0 =>
                  \/ \E q \in -MaxQty..-1 : AdjustStock(p, q)
                  \/ \E c \in DOMAIN counts : ApproveInventoryCount(c)
                  \/ \E f \in Products, d \in Quantities, q \in 1..MaxQty :
                        CreateProductionOrder(f, d, q)
                  \/ \E d \in Demands, done \in Quantities : RejectProductionOrder(d, done)
                  \/ EditsStock(p)]_vars
  BY DEF Overcommits, Unchecked
<1>. QED
  BY <1>1, <1>2, InventoryInvHolds, PTL DEF Spec, OnlyUncheckedStepsOvercommit

-----------------------------------------------------------------------------
\* What papers in a status carry of a product, paper by paper.
CarriedTerm(docs, s, p) ==
    [i \in DOMAIN docs |-> IF docs[i].status = s /\ docs[i].product = p THEN docs[i].qty ELSE 0]

LEMMA CarriedSum ==
    ASSUME NEW T, \A doc \in T : doc.qty \in Nat,
           NEW docs \in Seq(T), NEW s, NEW p
    PROVE  /\ Len(docs) \in Nat /\ DOMAIN docs = 1..Len(docs) /\ IsFiniteSet(DOMAIN docs)
           /\ CarriedTerm(docs, s, p) \in [DOMAIN docs -> Int]
           /\ CarriedBy(docs, s, p) = SumFunction(CarriedTerm(docs, s, p))
           /\ CarriedBy(docs, s, p) \in Nat
<1>. DEFINE S == DOMAIN docs
            C == {i \in S : docs[i].status = s /\ docs[i].product = p}
            f == CarriedTerm(docs, s, p)
            g == [i \in C |-> docs[i].qty]
<1>1. Len(docs) \in Nat /\ S = 1..Len(docs)
  OBVIOUS
<1>2. IsFiniteSet(S)
  BY <1>1, FS_Interval
<1>3. \A i \in S : docs[i].qty \in Nat
  <2>1. \A i \in S : docs[i] \in T
    OBVIOUS
  <2>. QED
    BY <2>1
<1>4. f \in [S -> Nat] /\ f \in [S -> Int]
  BY <1>3 DEF CarriedTerm
<1>5. C \in SUBSET S /\ \A i \in S \ C : f[i] = 0
  BY DEF CarriedTerm
<1>6. g = [i \in C |-> f[i]]
  BY DEF CarriedTerm
<1>7. CarriedBy(docs, s, p) = SumFunction(g)
  BY DEF CarriedBy
<1>. HIDE DEF S, C, f, g
<1>8. SumFunction(g) = SumFunction(f)
  BY ONLY <1>2, <1>4, <1>5, <1>6, SumSupport
<1>9. SumFunction(f) \in Nat
  BY ONLY <1>2, <1>4, SumNat
<1>. QED
  BY <1>1, <1>2, <1>4, <1>7, <1>8, <1>9 DEF S, f

\* A new paper adds what it carries.
LEMMA CarriedFiled ==
    ASSUME NEW T, \A doc \in T : doc.qty \in Nat,
           NEW docs \in Seq(T), NEW doc \in T, NEW new \in {Append(docs, doc)},
           NEW s, NEW p
    PROVE  CarriedBy(new, s, p) = CarriedBy(docs, s, p)
              + (IF doc.status = s /\ doc.product = p THEN doc.qty ELSE 0)
<1>. DEFINE n == Len(docs)
            f == CarriedTerm(docs, s, p)
            g == CarriedTerm(new, s, p)
            v == IF doc.status = s /\ doc.product = p THEN doc.qty ELSE 0
<1>1. /\ new \in Seq(T) /\ n \in Nat /\ DOMAIN docs = 1..n /\ DOMAIN new = 1..n + 1
      /\ \A i \in 1..n : new[i] = docs[i]
      /\ new[n + 1] = doc
  OBVIOUS
<1>2. f \in [1..n -> Int] /\ g \in [1..n + 1 -> Int]
  BY <1>1, CarriedSum
<1>3. \A i \in 1..n : g[i] = f[i]
  BY <1>1 DEF CarriedTerm
<1>4. g[n + 1] = v
  BY <1>1 DEF CarriedTerm
<1>5. CarriedBy(docs, s, p) = SumFunction(f) /\ CarriedBy(new, s, p) = SumFunction(g)
  BY <1>1, CarriedSum
<1>. HIDE DEF n, f, g, v
<1>6. SumFunction(g) = SumFunction(f) + v
  BY <1>1, <1>2, <1>3, <1>4, SumAppend
<1>. QED
  BY <1>5, <1>6 DEF v

\* A paper that leaves a status takes away what it carried: what the terms of
\* the two sums have to satisfy, paper x being the one that leaves.
LEMMA CarriedLeaves ==
    ASSUME NEW S, IsFiniteSet(S), NEW x \in S, NEW f \in [S -> Int], NEW g \in [S -> Int],
           \A i \in S \ {x} : g[i] = f[i], g[x] = 0,
           NEW v \in Int, f[x] = v
    PROVE  SumFunction(g) = SumFunction(f) - v
<1>1. SumFunction(g) = SumFunction(f) - f[x] + g[x]
  BY SumChange
<1>2. SumFunction(f) \in Int
  BY SumType
<1>. QED
  BY <1>1, <1>2

-----------------------------------------------------------------------------
\* The two records of the stock.

WarehouseRows(p) == [w \in Warehouses |-> quantity[w][p]]
InWarehouses(p) == SumFunction(WarehouseRows(p))
OnTheRoad(p) == CarriedBy(transfers, "IN_TRANSIT", p)

LEMMA RowsType ==
    ASSUME WarehouseAssumption, NEW rows \in [Warehouses -> [Products -> Int]],
           NEW p \in Products
    PROVE  SumFunction([w \in Warehouses |-> rows[w][p]]) \in Int
<1>. DEFINE f == [w \in Warehouses |-> rows[w][p]]
<1>1. f \in [Warehouses -> Int] /\ IsFiniteSet(Warehouses)
  BY DEF WarehouseAssumption
<1>. HIDE DEF f
<1>2. SumFunction(f) \in Int
  BY ONLY <1>1, SumType
<1>. QED
  BY <1>2 DEF f

LEMMA TransferLeaves ==
    ASSUME PapersTypeOK, PapersTypeOK', NEW t \in DOMAIN transfers, ReceiveStockTransfer(t),
           NEW p \in Products, NEW v \in Int,
           v = IF transfers[t].product = p THEN transfers[t].qty ELSE 0
    PROVE  OnTheRoad(p)' = OnTheRoad(p) - v
<1>. DEFINE S == DOMAIN transfers
            f == CarriedTerm(transfers, "IN_TRANSIT", p)
            g == CarriedTerm(transfers', "IN_TRANSIT", p)
<1>0. /\ transfers \in Seq(Transfers) /\ transfers' \in Seq(Transfers)
      /\ \A doc \in Transfers : doc.qty \in Nat
  BY DEF PapersTypeOK, Transfers
<1>1. PICK doc \in Transfers :
         doc.status = "RECEIVED" /\ transfers' = [transfers EXCEPT ![t] = doc]
  BY TransferStamped
<1>2. /\ DOMAIN transfers' = S /\ t \in S /\ transfers[t].status = "IN_TRANSIT"
      /\ \A i \in S \ {t} : transfers'[i] = transfers[i]
      /\ transfers'[t] = doc
  BY <1>0, <1>1, TransferStamped
<1>3. IsFiniteSet(S) /\ f \in [S -> Int] /\ g \in [S -> Int]
  BY <1>0, <1>2, CarriedSum
<1>4. \A i \in S \ {t} : g[i] = f[i]
  BY <1>2 DEF CarriedTerm
<1>5. g[t] = 0 /\ f[t] = v
  BY <1>1, <1>2 DEF CarriedTerm
<1>6. OnTheRoad(p) = SumFunction(f) /\ OnTheRoad(p)' = SumFunction(g)
  BY <1>0, CarriedSum DEF OnTheRoad
<1>. HIDE DEF S, f, g
<1>7. SumFunction(g) = SumFunction(f) - v
  BY <1>2, <1>3, <1>4, <1>5, CarriedLeaves
<1>. QED
  BY <1>6, <1>7

LEMMA CarriedType ==
    ASSUME NEW docs \in Seq(Transfers), NEW s, NEW p
    PROVE  CarriedBy(docs, s, p) \in Nat
<1>1. \A doc \in Transfers : doc.qty \in Nat
  BY DEF Transfers
<1>. QED
  BY <1>1, CarriedSum

LEMMA DriftIs ==
    ASSUME WarehouseAssumption, StockTypeOK, PapersTypeOK, StockTypeOK', PapersTypeOK',
           NEW p \in Products
    PROVE  /\ Drift(p) = InWarehouses(p) + OnTheRoad(p) - onHand[p]
           /\ Drift(p)' = InWarehouses(p)' + OnTheRoad(p)' - onHand'[p]
           /\ InWarehouses(p) \in Int /\ OnTheRoad(p) \in Nat /\ onHand[p] \in Int
<1>1. Drift(p) = InWarehouses(p) + OnTheRoad(p) - onHand[p]
  BY DEF Drift, InWarehouses, OnTheRoad, WarehouseRows
<1>2. Drift(p)' = InWarehouses(p)' + OnTheRoad(p)' - onHand'[p]
  BY DEF Drift, InWarehouses, OnTheRoad, WarehouseRows
<1>3. InWarehouses(p) \in Int
  BY RowsType DEF InWarehouses, WarehouseRows, StockTypeOK
<1>4. OnTheRoad(p) \in Nat
  BY CarriedType DEF OnTheRoad, PapersTypeOK
<1>. QED
  BY <1>1, <1>2, <1>3, <1>4 DEF StockTypeOK

\* One warehouse row changes: so does the sum, by as much.
LEMMA RowsChanged ==
    ASSUME WarehouseAssumption, StockTypeOK, NEW w \in Warehouses,
           NEW d \in [Products -> Int], NEW p \in Products, tracked[p],
           quantity' = [quantity EXCEPT ![w] = Plus(@, Stocked(d))]
    PROVE  InWarehouses(p)' = InWarehouses(p) + d[p]
<1>. DEFINE f == WarehouseRows(p)
            g == WarehouseRows(p)'
<1>1. quantity' \in [Warehouses -> [Products -> Int]] /\ quantity \in [Warehouses -> [Products -> Int]]
  BY RowsTyped DEF StockTypeOK
<1>2. f \in [Warehouses -> Int] /\ g \in [Warehouses -> Int] /\ IsFiniteSet(Warehouses)
  BY <1>1 DEF WarehouseRows, WarehouseAssumption
<1>3. \A x \in Warehouses \ {w} : g[x] = f[x]
  BY <1>1 DEF WarehouseRows
<1>4. g[w] = f[w] + d[p]
  <2>1. Stocked(d)[p] = d[p]
    BY DEF Stocked
  <2>. QED
    BY <1>1, <2>1 DEF WarehouseRows, Plus
<1>5. InWarehouses(p) = SumFunction(f) /\ InWarehouses(p)' = SumFunction(g)
  BY DEF InWarehouses
<1>. HIDE DEF f, g
<1>6. SumFunction(g) = SumFunction(f) - f[w] + g[w] /\ SumFunction(f) \in Int
  BY <1>2, <1>3, SumChange, SumType
<1>7. f[w] \in Int /\ d[p] \in Int
  BY <1>2
<1>. QED
  BY <1>4, <1>5, <1>6, <1>7

\* A move changes both records alike.
LEMMA MoveReconciles ==
    ASSUME WarehouseAssumption, StockTypeOK, PapersTypeOK, StockTypeOK', PapersTypeOK',
           NEW w \in Warehouses, NEW d \in [Products -> Int], Move(w, d),
           UNCHANGED transfers, NEW p \in Products, tracked[p]
    PROVE  Drift(p)' = Drift(p)
<1>1. InWarehouses(p)' = InWarehouses(p) + d[p]
  BY RowsChanged DEF Move
<1>2. onHand'[p] = onHand[p] + d[p] /\ d[p] \in Int
  BY DEF Move, Plus
<1>3. OnTheRoad(p)' = OnTheRoad(p)
  BY DEF OnTheRoad
<1>4. Drift(p) = InWarehouses(p) + OnTheRoad(p) - onHand[p]
  BY DriftIs
<1>5. Drift(p)' = InWarehouses(p)' + OnTheRoad(p)' - onHand'[p]
  BY DriftIs
<1>6. InWarehouses(p) \in Int /\ OnTheRoad(p) \in Nat /\ onHand[p] \in Int
  BY DriftIs
<1>. QED
  BY <1>1, <1>2, <1>3, <1>4, <1>5, <1>6

\* So do a shift out of a warehouse and the transfer that carries it, and a
\* transfer received and the shift into the other warehouse.
LEMMA ShiftReconciles ==
    ASSUME WarehouseAssumption, StockTypeOK, PapersTypeOK, StockTypeOK', PapersTypeOK',
           NEW w \in Warehouses, NEW d \in [Products -> Int], Shift(w, d),
           UNCHANGED onHand, NEW p \in Products, tracked[p],
           OnTheRoad(p)' = OnTheRoad(p) - d[p]
    PROVE  Drift(p)' = Drift(p)
<1>1. InWarehouses(p)' = InWarehouses(p) + d[p] /\ d[p] \in Int
  BY RowsChanged DEF Shift
<1>4. Drift(p) = InWarehouses(p) + OnTheRoad(p) - onHand[p]
  BY DriftIs
<1>5. Drift(p)' = InWarehouses(p)' + OnTheRoad(p)' - onHand'[p]
  BY DriftIs
<1>6. InWarehouses(p) \in Int /\ OnTheRoad(p) \in Nat /\ onHand[p] \in Int
  BY DriftIs
<1>. QED
  BY <1>1, <1>4, <1>5, <1>6

LEMMA SalesReconciles ==
    ASSUME StockAssumption, WarehouseAssumption, InventoryInv, InventoryInv',
           SalesStep, UNCHANGED warehouseVars, NEW p \in Products, tracked[p]
    PROVE  Drift(p)' = Drift(p)
<1>0. /\ StockTypeOK /\ PapersTypeOK /\ StockTypeOK' /\ PapersTypeOK' /\ SalesTypeOK
      /\ Main \in Warehouses /\ UNCHANGED transfers
  BY DEF InventoryInv, SalesTypeOK, warehouseVars, StockAssumption
<1>1. ASSUME UNCHANGED <<quantity, onHand>>
      PROVE  Drift(p)' = Drift(p)
  BY <1>0, <1>1 DEF Drift
<1>2. CASE UNCHANGED stockVars
  BY <1>1, <1>2 DEF stockVars
<1>3. ASSUME NEW d \in [Products -> Nat],
             Promises(d) \/ Delivers(d) \/ Returns(d) \/ Sells(d) \/ GivesBack(d)
      PROVE  Drift(p)' = Drift(p)
  <2>0. d \in [Products -> Int] /\ Negated(d) \in [Products -> Int]
    BY NegatedType
  <2>1. CASE Promises(d) \/ GivesBack(d)
    BY <1>1, <2>1 DEF Promises, GivesBack
  <2>2. CASE Move(Main, d)
    BY <1>0, <2>0, <2>2, MoveReconciles
  <2>3. CASE Move(Main, Negated(d))
    BY <1>0, <2>0, <2>3, MoveReconciles
  <2>. QED
    BY <1>3, <2>1, <2>2, <2>3 DEF Delivers, Ship, Returns, Sells
<1>. QED
  BY <1>0, <1>2, <1>3, SalesEffects

LEMMA WarehouseReconciles ==
    ASSUME StockAssumption, WarehouseAssumption, InventoryInv, InventoryInv', WarehouseStep,
           NEW p \in Products, tracked[p], ~EditsStock(p), ~ConsumesPart
    PROVE  Drift(p)' = Drift(p)
<1>. USE QuantitiesNat
<1>0. /\ StockTypeOK /\ PapersTypeOK /\ StockTypeOK' /\ PapersTypeOK'
      /\ Main \in Warehouses /\ MaxQty \in Nat
      /\ transfers \in Seq(Transfers) /\ \A doc \in Transfers : doc.qty \in Nat
  BY DEF InventoryInv, SalesTypeOK, StockAssumption, PapersTypeOK, Transfers
<1>a. ASSUME UNCHANGED transfers, NEW w \in Warehouses, NEW d \in [Products -> Int], Move(w, d)
      PROVE  Drift(p)' = Drift(p)
  BY <1>0, <1>a, MoveReconciles
<1>b. ASSUME UNCHANGED transfers, UNCHANGED onHand, UNCHANGED quantity
      PROVE  Drift(p)' = Drift(p)
  BY <1>b DEF Drift
<1>c. \A d : d \in [Products -> Nat] => d \in [Products -> Int]
  OBVIOUS
<1>1. ASSUME NEW x \in Products, NEW q \in -MaxQty..MaxQty, AdjustStock(x, q)
      PROVE  Drift(p)' = Drift(p)
  <2>1. Only(x, q) \in [Products -> Int]
    BY <1>0, OnlyType
  <2>. QED
    BY <1>0, <1>1, <1>a, <2>1 DEF AdjustStock, warehouseVars
<1>2. ASSUME NEW w \in Warehouses, NEW d \in Demands, CreatePurchaseReceipt(w, d)
      PROVE  Drift(p)' = Drift(p)
  BY <1>2, <1>a, <1>c DEF CreatePurchaseReceipt, warehouseVars, Demands
<1>3. ASSUME NEW x \in Products, NEW from \in Warehouses, NEW to \in Warehouses,
             NEW q \in 1..MaxQty, TransferStock(x, from, to, q)
      PROVE  Drift(p)' = Drift(p)
  <2>. DEFINE d == Only(x, -q)
  <2>1. d \in [Products -> Int] /\ d[p] = IF p = x THEN -q ELSE 0
    BY <1>0, OnlyType
  <2>2. PICK doc \in Transfers :
           /\ doc.product = x /\ doc.qty = q /\ doc.status = "IN_TRANSIT"
           /\ transfers' = Append(transfers, doc)
    BY <1>3, TransferFiled
  <2>2a. /\ transfers \in Seq(Transfers) /\ doc \in Transfers
         /\ \A a \in Transfers : a.qty \in Nat
         /\ transfers' = Append(transfers, doc)
    BY <1>0, <2>2
  <2>3. CarriedBy(transfers', "IN_TRANSIT", p) = CarriedBy(transfers, "IN_TRANSIT", p)
           + (IF doc.status = "IN_TRANSIT" /\ doc.product = p THEN doc.qty ELSE 0)
    BY <2>2a, CarriedFiled
  <2>4. OnTheRoad(p)' = OnTheRoad(p) + (IF p = x THEN q ELSE 0)
    BY <2>2, <2>3 DEF OnTheRoad
  <2>5. Shift(from, d) /\ UNCHANGED onHand
    BY <1>3 DEF TransferStock
  <2>6. OnTheRoad(p) \in Nat
    BY <1>0, CarriedType DEF OnTheRoad
  <2>7. OnTheRoad(p)' = OnTheRoad(p) - d[p]
    BY <1>0, <2>1, <2>4, <2>6
  <2>. HIDE DEF d
  <2>. QED
    BY <1>0, <2>1, <2>5, <2>7, ShiftReconciles
<1>4. ASSUME NEW t \in DOMAIN transfers, ReceiveStockTransfer(t)
      PROVE  Drift(p)' = Drift(p)
  <2>1. transfers[t] \in Transfers /\ transfers[t].status = "IN_TRANSIT"
    BY <1>0, <1>4, TransferStamped
  <2>. DEFINE d == Only(transfers[t].product, transfers[t].qty)
  <2>3. transfers[t].to \in Warehouses /\ transfers[t].qty \in Int
    BY <2>1 DEF Transfers
  <2>4. /\ d \in [Products -> Int]
        /\ d[p] = IF transfers[t].product = p THEN transfers[t].qty ELSE 0
    BY <2>3, OnlyType
  <2>5. d[p] \in Int
    BY <2>4
  <2>6. OnTheRoad(p)' = OnTheRoad(p) - d[p]
    BY <1>0, <1>4, <2>4, <2>5, TransferLeaves
  <2>7. Shift(transfers[t].to, d) /\ UNCHANGED onHand
    BY <1>4 DEF ReceiveStockTransfer
  <2>. HIDE DEF d
  <2>. QED
    BY <1>0, <2>3, <2>4, <2>6, <2>7, ShiftReconciles
<1>5. ASSUME NEW c \in DOMAIN counts, ApproveInventoryCount(c)
      PROVE  Drift(p)' = Drift(p)
  <2>1. counts[c].warehouse \in Warehouses /\ counts[c].variance \in [Products -> Int]
    BY <1>0, <1>5, CountStamped DEF Counts
  <2>. QED
    BY <1>5, <1>a, <2>1 DEF ApproveInventoryCount
<1>6. ASSUME NEW f \in Products, NEW d \in Quantities, NEW q \in 1..MaxQty,
             CreateProductionOrder(f, d, q)
      PROVE  Drift(p)' = Drift(p)
  <2>. DEFINE e == Plus(Negated(d), Only(f, q))
  <2>1. Negated(d) \in [Products -> Int] /\ Only(f, q) \in [Products -> Int]
    BY <1>0, <1>c, NegatedType, OnlyType
  <2>2. e \in [Products -> Int]
    BY <2>1 DEF Plus
  <2>3. Move(Main, e) /\ UNCHANGED transfers
    BY <1>6 DEF CreateProductionOrder, warehouseVars
  <2>. HIDE DEF e
  <2>. QED
    BY <1>0, <1>a, <2>2, <2>3
<1>7. ASSUME NEW d \in Demands, NEW done \in Quantities, RejectProductionOrder(d, done)
      PROVE  Drift(p)' = Drift(p)
  <2>1. Negated(done) \in [Products -> Int]
    BY <1>c, NegatedType
  <2>2. Move(Main, Negated(done)) /\ UNCHANGED transfers
    BY <1>7 DEF RejectProductionOrder, warehouseVars
  <2>. QED
    BY <1>0, <1>a, <2>1, <2>2
<1>8. ASSUME NEW x \in Products, NEW t \in BOOLEAN, UpdateProduct(x, t)
      PROVE  Drift(p)' = Drift(p)
  <2>1. p # x
    BY <1>8 DEF EditsStock
  <2>2. onHand'[p] = onHand[p] /\ quantity' = quantity /\ transfers' = transfers
    BY <1>0, <1>8, <2>1 DEF UpdateProduct, StockTypeOK, warehouseVars
  <2>. QED
    BY <2>2 DEF Drift
<1>9. CASE \/ \E w \in Warehouses, S \in SUBSET Products, counted \in Quantities :
                 CreateInventoryCount(w, S, counted)
           \/ \E x \in Products, w \in Warehouses, q \in 1..MaxQty :
                 CreateStockQuarantine(x, w, q)
           \/ \E h \in DOMAIN quarantines : ReleaseStockQuarantine(h)
           \/ \E x \in Products : CreateWarrantyServiceCase(x)
           \/ \E x \in Products, q \in 1..MaxQty : ReserveMaintenanceSparePart(x, q)
  <2>1. UNCHANGED transfers /\ UNCHANGED onHand /\ UNCHANGED quantity
    BY <1>9 DEF CreateInventoryCount, CreateStockQuarantine, ReleaseStockQuarantine,
                CreateWarrantyServiceCase, ReserveMaintenanceSparePart, SetAside,
                stockVars, warehouseVars
  <2>. QED
    BY <1>b, <2>1
<1>10. ~ \E r \in DOMAIN spareParts : ConsumeMaintenanceSparePart(r)
  BY DEF ConsumesPart
<1>. QED
  BY <1>1, <1>2, <1>3, <1>4, <1>5, <1>6, <1>7, <1>8, <1>9, <1>10 DEF WarehouseStep

\* A tracked product's stock, and what its warehouses and the transfers between
\* them hold of it, change by the same amount in every operation of either side
\* but the edition of the product and the consumption of a spare part.
THEOREM RecordsReconcile == Spec => StockReconciles
<1>1. InventoryInv /\ InventoryInv' /\ [Next]_vars
        => [\A p \in Products :
              \/ ~tracked[p] \/ ~tracked'[p] \/ Drift(p)' = Drift(p)
              \/ EditsStock(p) \/ ConsumesPart]_<<stockVars, warehouseVars>>
  <2>. SUFFICES ASSUME InventoryInv, InventoryInv', [Next]_vars,
                       ~UNCHANGED <<stockVars, warehouseVars>>,
                       NEW p \in Products, tracked[p], ~EditsStock(p), ~ConsumesPart
                PROVE  Drift(p)' = Drift(p)
    OBVIOUS
  <2>. USE StockAssumption, WarehouseAssumption
  <2>1. CASE SalesStep /\ UNCHANGED warehouseVars
    BY <2>1, SalesReconciles
  <2>2. CASE WarehouseStep
    BY <2>2, WarehouseReconciles
  <2>3. CASE SetPeriod /\ UNCHANGED warehouseVars
    BY <2>3 DEF SetPeriod, warehouseVars, Drift
  <2>. QED
    BY <2>1, <2>2, <2>3 DEF Next, vars
<1>. QED
  BY <1>1, InventoryInvHolds, PTL DEF Spec, StockReconciles

-----------------------------------------------------------------------------
\* What claims the reservations of a product: orders, quarantines, spare parts.

InQuarantine(p) == CarriedBy(quarantines, "OPEN", p)
ForRepair(p) == CarriedBy(spareParts, "RESERVED", p)

LEMMA ClaimsAre ==
    ASSUME StockAssumption, InventoryInv, InventoryInv', NEW p \in Products
    PROVE  /\ LinesOf(Confirmed, p) = Backlog(orders, p)
           /\ LinesOf(Confirmed, p)' = Backlog(orders', p)
           /\ OnHold(p) = InQuarantine(p) + ForRepair(p)
           /\ OnHold(p)' = InQuarantine(p)' + ForRepair(p)'
           /\ Backlog(orders, p) \in Nat /\ Backlog(orders', p) \in Nat
           /\ InQuarantine(p) \in Nat /\ ForRepair(p) \in Nat /\ OnHold(p) \in Nat
           /\ InQuarantine(p)' \in Nat /\ ForRepair(p)' \in Nat
           /\ reserved[p] \in Nat /\ reserved'[p] \in Nat
<1>1. /\ orders \in Seq(Orders) /\ orders' \in Seq(Orders)
      /\ reserved[p] \in Nat /\ reserved'[p] \in Nat
  BY DEF InventoryInv, SalesTypeOK, DocumentsTypeOK, StockTypeOK
<1>2. LinesOf(Confirmed, p) = Backlog(orders, p) /\ LinesOf(Confirmed, p)' = Backlog(orders', p)
  BY <1>1, ConfirmedLines DEF LinesOf, Confirmed
<1>3. Backlog(orders, p) \in Nat /\ Backlog(orders', p) \in Nat
  BY <1>1, ClaimType
<1>4. OnHold(p) = InQuarantine(p) + ForRepair(p) /\ OnHold(p)' = InQuarantine(p)' + ForRepair(p)'
  BY DEF OnHold, InQuarantine, ForRepair
<1>5. /\ \A doc \in Quarantines : doc.qty \in Nat
      /\ \A doc \in SpareParts : doc.qty \in Nat
  BY DEF Quarantines, SpareParts
<1>6. quarantines \in Seq(Quarantines) /\ quarantines' \in Seq(Quarantines)
  BY DEF InventoryInv, PapersTypeOK
<1>7. spareParts \in Seq(SpareParts) /\ spareParts' \in Seq(SpareParts)
  BY DEF InventoryInv, PapersTypeOK
<1>8. InQuarantine(p) \in Nat /\ InQuarantine(p)' \in Nat
  BY <1>5, <1>6, CarriedSum DEF InQuarantine
<1>9. ForRepair(p) \in Nat /\ ForRepair(p)' \in Nat
  BY <1>5, <1>7, CarriedSum DEF ForRepair
<1>10. OnHold(p) \in Nat
  BY <1>4, <1>8, <1>9
<1>. QED
  BY <1>1, <1>2, <1>3, <1>4, <1>8, <1>9, <1>10

\* A sales step other than the cancellation of a delivery keeps the claims of
\* the orders, beside whatever else is on hold, within the reservations.
LEMMA SalesClaims ==
    ASSUME StockAssumption, SalesTypeOK, SalesTypeOK', SalesStep, ~CancelsDelivery,
           \A x \in Products : tracked[x],
           NEW h \in [Products -> Nat],
           \A x \in Products : Backlog(orders, x) + h[x] <= reserved[x],
           NEW p \in Products
    PROVE  Backlog(orders', p) + h[p] <= reserved'[p]
<1>0. /\ orders \in Seq(Orders) /\ orders' \in Seq(Orders)
      /\ reserved \in [Products -> Nat] /\ reserved' \in [Products -> Nat]
      /\ h[p] \in Nat
  BY DEF SalesTypeOK, DocumentsTypeOK, StockTypeOK
<1>1. Backlog(orders, p) + h[p] <= reserved[p]
  OBVIOUS
<1>2. Backlog(orders, p) \in Nat /\ Backlog(orders', p) \in Nat
  BY <1>0, ClaimType
<1>3. reserved[p] \in Nat /\ reserved'[p] \in Nat
  BY <1>0
<1>4. \A d : d \in [Products -> Nat] => Stocked(d) = d
  BY DEF Stocked
<1>. USE QuantitiesNat
<1>a. ASSUME UNCHANGED orders, reserved[p] <= reserved'[p]
      PROVE  Backlog(orders', p) + h[p] <= reserved'[p]
  BY <1>a, <1>0, <1>1, <1>2, <1>3
<1>5. ASSUME NEW d \in Demands, CreateSalesOrder(d)
      PROVE  Backlog(orders', p) + h[p] <= reserved'[p]
  <2>1. d \in Quantities /\ d \in [Products -> Nat]
    BY DEF Demands
  <2>2. Backlog(orders', p) = Backlog(orders, p) + d[p]
    BY <1>0, <1>5, <2>1, BacklogAdded DEF CreateSalesOrder
  <2>3. reserved'[p] = reserved[p] + d[p]
    BY <1>4, <1>5, <2>1 DEF CreateSalesOrder, Reserve, Plus
  <2>. QED
    BY <1>0, <1>1, <1>2, <1>3, <2>1, <2>2, <2>3
<1>6. ASSUME NEW d \in Demands, NEW done \in Quantities, RejectSalesOrder(d, done)
      PROVE  Backlog(orders', p) + h[p] <= reserved'[p]
  <2>1. done[p] \in Nat /\ reserved'[p] = reserved[p] + done[p]
    BY <1>6 DEF RejectSalesOrder, Reserve, Plus
  <2>2. reserved[p] <= reserved'[p]
    BY <1>3, <2>1
  <2>. QED
    BY <1>a, <1>6, <2>2 DEF RejectSalesOrder
<1>7. ASSUME NEW o \in DOMAIN orders, CreateDeliveryNoteFromOrder(o)
      PROVE  Backlog(orders', p) + h[p] <= reserved'[p]
  <2>1. orders[o].lines \in [Products -> Nat] /\ orders[o].status = "CONFIRMED"
    BY <1>0, <1>7, LinesNat DEF CreateDeliveryNoteFromOrder, Deliverable
  <2>2. Backlog(orders', p) = Backlog(orders, p) - orders[o].lines[p]
    BY <1>0, <1>7, <2>1, BacklogSettled DEF CreateDeliveryNoteFromOrder, OrderStatus
  <2>3. reserved'[p] = reserved[p] - orders[o].lines[p]
    BY <1>4, <1>7, <2>1 DEF CreateDeliveryNoteFromOrder, Ship, Minus
  <2>. QED
    BY <1>0, <1>1, <1>2, <1>3, <2>1, <2>2, <2>3
<1>8. ASSUME NEW o \in DOMAIN orders, NEW done \in Quantities, RejectDeliveryNote(o, done)
      PROVE  FALSE
  <2>1. orders[o].lines \in [Products -> Nat] /\ orders[o].status = "CONFIRMED"
    BY <1>0, <1>8, LinesNat DEF RejectDeliveryNote, Deliverable
  <2>2. PICK short \in Products : reserved[short] < orders[o].lines[short]
    BY <1>4, <1>8, <2>1 DEF RejectDeliveryNote, Interrupted
  <2>3. orders[o].lines[short] <= Backlog(orders, short) /\ Backlog(orders, short) \in Nat
    BY <1>0, <2>1, ClaimType DEF ClaimOf
  <2>4. Backlog(orders, short) + h[short] <= reserved[short]
    OBVIOUS
  <2>. QED
    BY <1>0, <2>1, <2>2, <2>3, <2>4
<1>9. ASSUME NEW o \in DOMAIN orders, ConvertOrderToInvoice(o)
      PROVE  Backlog(orders', p) + h[p] <= reserved'[p]
  <2>1. /\ orders[o].status = "DELIVERED" /\ SetStatus(o, "INVOICED")
        /\ UNCHANGED reserved
    BY <1>9 DEF ConvertOrderToInvoice, stockVars
  <2>2. Backlog(orders', p) = Backlog(orders, p) - 0
    BY <1>0, <2>1, BacklogSettled DEF OrderStatus
  <2>. QED
    BY <1>1, <1>2, <2>1, <2>2
<1>10. ASSUME NEW d \in Demands, CreateInvoice(d)
       PROVE  Backlog(orders', p) + h[p] <= reserved'[p]
  BY <1>a, <1>3, <1>10 DEF CreateInvoice, salesVars
<1>11. ASSUME NEW k \in DOMAIN orders, ReleaseExpiredStockReservations(k)
       PROVE  Backlog(orders', p) + h[p] <= reserved'[p]
  <2>1. Backlog(orders', p) = Backlog(orders, p) - LinesOf(Stale(k), p)
    BY <1>0, <1>11, BacklogReleased
  <2>. DEFINE released == [x \in Products |-> LinesOf(Stale(k), x)]
  <2>2. released \in [Products -> Nat] /\ Release(Main, Stocked(released))
    BY <1>11 DEF ReleaseExpiredStockReservations
  <2>3. released[p] \in Nat /\ released[p] = LinesOf(Stale(k), p)
    BY <2>2
  <2>. HIDE DEF released
  <2>4. reserved' = Clamped(reserved, released)
    BY <1>4, <2>2 DEF Release
  <2>5. reserved'[p] >= reserved[p] - released[p]
    BY <1>3, <2>3, <2>4 DEF Clamped
  <2>. QED
    BY <1>0, <1>1, <1>2, <1>3, <2>1, <2>3, <2>5
<1>12. CASE ResetSampleModule
  <2>1. orders' = <<>> /\ UNCHANGED reserved
    BY <1>12 DEF ResetSampleModule, stockVars
  <2>2. ClaimOf(orders', p) \in [{} -> Int]
    BY <2>1 DEF ClaimOf
  <2>3. Backlog(orders', p) = 0
    BY <2>2, SumEmpty DEF Backlog
  <2>. QED
    BY <1>0, <1>1, <1>2, <1>3, <2>1, <2>3
<1>. QED
  BY <1>5, <1>6, <1>7, <1>8, <1>9, <1>10, <1>11, <1>12 DEF SalesStep, CancelsDelivery

\* A quarantine released, a spare part consumed: its own claim is gone.
LEMMA QuarantineLeaves ==
    ASSUME PapersTypeOK, PapersTypeOK', NEW x \in DOMAIN quarantines, ReleaseStockQuarantine(x),
           NEW p \in Products, NEW v \in Int,
           v = IF quarantines[x].product = p THEN quarantines[x].qty ELSE 0
    PROVE  InQuarantine(p)' = InQuarantine(p) - v
<1>. DEFINE S == DOMAIN quarantines
            f == CarriedTerm(quarantines, "OPEN", p)
            g == CarriedTerm(quarantines', "OPEN", p)
<1>0. /\ quarantines \in Seq(Quarantines) /\ quarantines' \in Seq(Quarantines)
      /\ \A doc \in Quarantines : doc.qty \in Nat
  BY DEF PapersTypeOK, Quarantines
<1>1. PICK doc \in Quarantines :
         doc.status = "RELEASED" /\ quarantines' = [quarantines EXCEPT ![x] = doc]
  BY QuarantineStamped
<1>2. /\ DOMAIN quarantines' = S /\ x \in S /\ quarantines[x].status = "OPEN"
      /\ \A i \in S \ {x} : quarantines'[i] = quarantines[i]
      /\ quarantines'[x] = doc
  BY <1>0, <1>1, QuarantineStamped
<1>3. IsFiniteSet(S) /\ f \in [S -> Int] /\ g \in [S -> Int]
  BY <1>0, <1>2, CarriedSum
<1>4. \A i \in S \ {x} : g[i] = f[i]
  BY <1>2 DEF CarriedTerm
<1>5. g[x] = 0 /\ f[x] = v
  BY <1>1, <1>2 DEF CarriedTerm
<1>6. InQuarantine(p) = SumFunction(f) /\ InQuarantine(p)' = SumFunction(g)
  BY <1>0, CarriedSum DEF InQuarantine
<1>. HIDE DEF S, f, g
<1>7. SumFunction(g) = SumFunction(f) - v
  BY <1>2, <1>3, <1>4, <1>5, CarriedLeaves
<1>. QED
  BY <1>6, <1>7

LEMMA PartLeaves ==
    ASSUME PapersTypeOK, PapersTypeOK', NEW x \in DOMAIN spareParts,
           ConsumeMaintenanceSparePart(x),
           NEW p \in Products, NEW v \in Int,
           v = IF spareParts[x].product = p THEN spareParts[x].qty ELSE 0
    PROVE  ForRepair(p)' = ForRepair(p) - v
<1>. DEFINE S == DOMAIN spareParts
            f == CarriedTerm(spareParts, "RESERVED", p)
            g == CarriedTerm(spareParts', "RESERVED", p)
<1>0. /\ spareParts \in Seq(SpareParts) /\ spareParts' \in Seq(SpareParts)
      /\ \A doc \in SpareParts : doc.qty \in Nat
  BY DEF PapersTypeOK, SpareParts
<1>1. PICK doc \in SpareParts :
         doc.status = "CONSUMED" /\ spareParts' = [spareParts EXCEPT ![x] = doc]
  BY PartStamped
<1>2. /\ DOMAIN spareParts' = S /\ x \in S /\ spareParts[x].status = "RESERVED"
      /\ \A i \in S \ {x} : spareParts'[i] = spareParts[i]
      /\ spareParts'[x] = doc
  BY <1>0, <1>1, PartStamped
<1>3. IsFiniteSet(S) /\ f \in [S -> Int] /\ g \in [S -> Int]
  BY <1>0, <1>2, CarriedSum
<1>4. \A i \in S \ {x} : g[i] = f[i]
  BY <1>2 DEF CarriedTerm
<1>5. g[x] = 0 /\ f[x] = v
  BY <1>1, <1>2 DEF CarriedTerm
<1>6. ForRepair(p) = SumFunction(f) /\ ForRepair(p)' = SumFunction(g)
  BY <1>0, CarriedSum DEF ForRepair
<1>. HIDE DEF S, f, g
<1>7. SumFunction(g) = SumFunction(f) - v
  BY <1>2, <1>3, <1>4, <1>5, CarriedLeaves
<1>. QED
  BY <1>6, <1>7

LEMMA WarehouseClaims ==
    ASSUME StockAssumption, InventoryInv, InventoryInv', WarehouseStep, UNCHANGED orders,
           \A x \in Products : tracked'[x],
           NEW p \in Products,
           Backlog(orders, p) + InQuarantine(p) + ForRepair(p) <= reserved[p]
    PROVE  Backlog(orders', p) + InQuarantine(p)' + ForRepair(p)' <= reserved'[p]
<1>0. /\ StockTypeOK /\ PapersTypeOK /\ PapersTypeOK'
      /\ Main \in Warehouses /\ MaxQty \in Nat
  BY DEF InventoryInv, SalesTypeOK, StockAssumption
<1>1. /\ Backlog(orders, p) \in Nat /\ Backlog(orders', p) = Backlog(orders, p)
      /\ InQuarantine(p) \in Nat /\ ForRepair(p) \in Nat
      /\ reserved[p] \in Nat /\ reserved'[p] \in Nat
  BY ClaimsAre
<1>a. ASSUME UNCHANGED <<quarantines, spareParts>>, reserved[p] <= reserved'[p]
      PROVE  Backlog(orders', p) + InQuarantine(p)' + ForRepair(p)' <= reserved'[p]
  <2>1. InQuarantine(p)' = InQuarantine(p) /\ ForRepair(p)' = ForRepair(p)
    BY <1>a DEF InQuarantine, ForRepair
  <2>. QED
    BY <1>1, <1>a, <2>1
<1>b. ASSUME UNCHANGED <<quarantines, spareParts>>, UNCHANGED reserved
      PROVE  Backlog(orders', p) + InQuarantine(p)' + ForRepair(p)' <= reserved'[p]
  BY <1>1, <1>a, <1>b
<1>2. ASSUME NEW x \in Products, NEW w \in Warehouses, NEW q \in 1..MaxQty,
             CreateStockQuarantine(x, w, q)
      PROVE  Backlog(orders', p) + InQuarantine(p)' + ForRepair(p)' <= reserved'[p]
  <2>. DEFINE v == IF x = p THEN q ELSE 0
  <2>1. PICK doc \in Quarantines :
           /\ doc.product = x /\ doc.qty = q /\ doc.status = "OPEN"
           /\ quarantines' = Append(quarantines, doc)
    BY <1>2, QuarantineFiled
  <2>2. /\ quarantines \in Seq(Quarantines)
        /\ \A a \in Quarantines : a.qty \in Nat
    BY <1>0 DEF PapersTypeOK, Quarantines
  <2>3. CarriedBy(quarantines', "OPEN", p) = CarriedBy(quarantines, "OPEN", p)
           + (IF doc.status = "OPEN" /\ doc.product = p THEN doc.qty ELSE 0)
    BY <2>1, <2>2, CarriedFiled
  <2>4. InQuarantine(p)' = InQuarantine(p) + v
    BY <2>1, <2>3 DEF InQuarantine
  <2>5. ForRepair(p)' = ForRepair(p)
    BY <1>2 DEF CreateStockQuarantine, ForRepair
  <2>6. reserved'[p] = reserved[p] + v
    BY <1>2 DEF CreateStockQuarantine, SetAside, Reserve, Plus, Only
  <2>7. v \in Nat
    BY <1>0
  <2>. HIDE DEF v
  <2>. QED
    BY <1>1, <2>4, <2>5, <2>6, <2>7
<1>3. ASSUME NEW x \in DOMAIN quarantines, ReleaseStockQuarantine(x)
      PROVE  Backlog(orders', p) + InQuarantine(p)' + ForRepair(p)' <= reserved'[p]
  <2>. DEFINE v == IF quarantines[x].product = p THEN quarantines[x].qty ELSE 0
              d == Only(quarantines[x].product, quarantines[x].qty)
  <2>1. quarantines[x].qty \in Nat /\ quarantines[x].qty \in Int
    BY <1>0, <1>3, QuarantineStamped DEF Quarantines
  <2>2. v \in Nat /\ v \in Int /\ d \in [Products -> Nat] /\ d[p] = v
    BY <2>1, OnlyType
  <2>3. reserved' = Clamped(reserved, d)
    BY <1>3 DEF ReleaseStockQuarantine, Release
  <2>4. InQuarantine(p)' = InQuarantine(p) - v
    BY <1>0, <1>3, <2>2, QuarantineLeaves
  <2>5. ForRepair(p)' = ForRepair(p)
    BY <1>3 DEF ReleaseStockQuarantine, ForRepair
  <2>. HIDE DEF v, d
  <2>6. reserved'[p] >= reserved[p] - v
    BY <1>1, <2>2, <2>3 DEF Clamped
  <2>. QED
    BY <1>1, <2>2, <2>4, <2>5, <2>6
<1>4. ASSUME NEW x \in Products, CreateWarrantyServiceCase(x)
      PROVE  Backlog(orders', p) + InQuarantine(p)' + ForRepair(p)' <= reserved'[p]
  <2>1. reserved'[p] = reserved[p] + (IF p = x THEN 1 ELSE 0)
    BY <1>4 DEF CreateWarrantyServiceCase, SetAside, Reserve, Plus, Only
  <2>2. reserved[p] <= reserved'[p] /\ UNCHANGED <<quarantines, spareParts>>
    BY <1>1, <1>4, <2>1 DEF CreateWarrantyServiceCase, warehouseVars
  <2>. QED
    BY <1>a, <2>2
<1>5. ASSUME NEW x \in Products, NEW q \in 1..MaxQty, ReserveMaintenanceSparePart(x, q)
      PROVE  Backlog(orders', p) + InQuarantine(p)' + ForRepair(p)' <= reserved'[p]
  <2>. DEFINE v == IF x = p THEN q ELSE 0
  <2>1. PICK doc \in SpareParts :
           /\ doc.product = x /\ doc.qty = q /\ doc.status = "RESERVED"
           /\ spareParts' = Append(spareParts, doc)
    BY <1>5, PartFiled
  <2>2. /\ spareParts \in Seq(SpareParts)
        /\ \A a \in SpareParts : a.qty \in Nat
    BY <1>0 DEF PapersTypeOK, SpareParts
  <2>3. CarriedBy(spareParts', "RESERVED", p) = CarriedBy(spareParts, "RESERVED", p)
           + (IF doc.status = "RESERVED" /\ doc.product = p THEN doc.qty ELSE 0)
    BY <2>1, <2>2, CarriedFiled
  <2>4. ForRepair(p)' = ForRepair(p) + v
    BY <2>1, <2>3 DEF ForRepair
  <2>5. InQuarantine(p)' = InQuarantine(p)
    BY <1>5 DEF ReserveMaintenanceSparePart, InQuarantine
  <2>6. reserved'[p] = reserved[p] + v
    BY <1>5 DEF ReserveMaintenanceSparePart, SetAside, Reserve, Plus, Only
  <2>7. v \in Nat
    BY <1>0
  <2>. HIDE DEF v
  <2>. QED
    BY <1>1, <2>4, <2>5, <2>6, <2>7
<1>6. ASSUME NEW x \in DOMAIN spareParts, ConsumeMaintenanceSparePart(x)
      PROVE  Backlog(orders', p) + InQuarantine(p)' + ForRepair(p)' <= reserved'[p]
  <2>. DEFINE v == IF spareParts[x].product = p THEN spareParts[x].qty ELSE 0
              d == Only(spareParts[x].product, spareParts[x].qty)
  <2>1. spareParts[x].qty \in Nat /\ spareParts[x].qty \in Int
    BY <1>0, <1>6, PartStamped DEF SpareParts
  <2>2. v \in Nat /\ v \in Int /\ d \in [Products -> Nat] /\ d[p] = v
    BY <2>1, OnlyType
  <2>3. reserved' = Clamped(reserved, d)
    BY <1>6 DEF ConsumeMaintenanceSparePart
  <2>4. ForRepair(p)' = ForRepair(p) - v
    BY <1>0, <1>6, <2>2, PartLeaves
  <2>5. InQuarantine(p)' = InQuarantine(p)
    BY <1>6 DEF ConsumeMaintenanceSparePart, InQuarantine
  <2>. HIDE DEF v, d
  <2>6. reserved'[p] >= reserved[p] - v
    BY <1>1, <2>2, <2>3 DEF Clamped
  <2>. QED
    BY <1>1, <2>2, <2>4, <2>5, <2>6
<1>7. ASSUME NEW x \in Products, NEW t \in BOOLEAN, UpdateProduct(x, t)
      PROVE  Backlog(orders', p) + InQuarantine(p)' + ForRepair(p)' <= reserved'[p]
  <2>1. t
    BY <1>0, <1>7 DEF UpdateProduct, StockTypeOK
  <2>2. UNCHANGED reserved /\ UNCHANGED <<quarantines, spareParts>>
    BY <1>7, <2>1 DEF UpdateProduct, warehouseVars
  <2>. QED
    BY <1>b, <2>2
<1>8. CASE \/ \E x \in Products, q \in -MaxQty..MaxQty : AdjustStock(x, q)
           \/ \E w \in Warehouses, d \in Demands : CreatePurchaseReceipt(w, d)
           \/ \E x \in Products, from, to \in Warehouses, q \in 1..MaxQty :
                 TransferStock(x, from, to, q)
           \/ \E t \in DOMAIN transfers : ReceiveStockTransfer(t)
           \/ \E w \in Warehouses, S \in SUBSET Products, counted \in Quantities :
                 CreateInventoryCount(w, S, counted)
           \/ \E c \in DOMAIN counts : ApproveInventoryCount(c)
           \/ \E x \in Products, d \in Quantities, q \in 1..MaxQty :
                 CreateProductionOrder(x, d, q)
           \/ \E d \in Demands, done \in Quantities : RejectProductionOrder(d, done)
  <2>1. UNCHANGED reserved /\ UNCHANGED <<quarantines, spareParts>>
    BY <1>8 DEF AdjustStock, CreatePurchaseReceipt, TransferStock, ReceiveStockTransfer,
                CreateInventoryCount, ApproveInventoryCount, CreateProductionOrder,
                RejectProductionOrder, warehouseVars, stockVars
  <2>. QED
    BY <1>b, <2>1
<1>. QED
  BY <1>2, <1>3, <1>4, <1>5, <1>6, <1>7, <1>8 DEF WarehouseStep

\* While every product is tracked, one operation only leaves a claim without
\* its reservation, the cancellation of a delivery note: whatever the sales and
\* the warehouse do in between, no order ever takes the stock set aside for
\* another order, for a quarantine or for a repair.
THEOREM ClaimsStay == Spec => ClaimsStayBacked
<1>1. InventoryInv /\ InventoryInv' /\ [Next]_vars
        => [ClaimsBacked /\ AllTracked /\ AllTracked' => ClaimsBacked' \/ CancelsDelivery]_vars
  <2>. SUFFICES ASSUME InventoryInv, InventoryInv', Next,
                       ClaimsBacked, AllTracked, AllTracked', ~CancelsDelivery,
                       NEW p \in Products
                PROVE  LinesOf(Confirmed, p)' + OnHold(p)' <= reserved'[p]
    BY DEF ClaimsBacked
  <2>. USE StockAssumption
  <2>0. \A x \in Products : /\ Backlog(orders, x) + OnHold(x) <= reserved[x]
                            /\ OnHold(x) \in Nat
    BY ClaimsAre DEF ClaimsBacked
  <2>1. CASE SalesStep /\ UNCHANGED warehouseVars
    <3>. DEFINE h == [x \in Products |-> OnHold(x)]
    <3>1. h \in [Products -> Nat] /\ \A x \in Products : Backlog(orders, x) + h[x] <= reserved[x]
      BY <2>0
    <3>2. OnHold(p)' = h[p]
      BY <2>1 DEF OnHold, warehouseVars
    <3>. HIDE DEF h
    <3>3. /\ \A x \in Products : tracked[x]
          /\ SalesTypeOK /\ SalesTypeOK'
      BY DEF AllTracked, InventoryInv
    <3>4. Backlog(orders', p) + h[p] <= reserved'[p]
      BY <2>1, <3>1, <3>3, SalesClaims
    <3>5. LinesOf(Confirmed, p)' = Backlog(orders', p)
      BY ClaimsAre
    <3>. QED
      BY <3>2, <3>4, <3>5
  <2>2. CASE WarehouseStep /\ UNCHANGED salesVars
    <3>1. Backlog(orders, p) + (InQuarantine(p) + ForRepair(p)) <= reserved[p]
      BY <2>0, ClaimsAre
    <3>2. /\ Backlog(orders, p) \in Nat /\ InQuarantine(p) \in Nat /\ ForRepair(p) \in Nat
          /\ Backlog(orders', p) \in Nat /\ InQuarantine(p)' \in Nat /\ ForRepair(p)' \in Nat
          /\ LinesOf(Confirmed, p)' = Backlog(orders', p)
          /\ OnHold(p)' = InQuarantine(p)' + ForRepair(p)'
          /\ reserved[p] \in Nat /\ reserved'[p] \in Nat
      BY ClaimsAre
    <3>3. Backlog(orders, p) + InQuarantine(p) + ForRepair(p) <= reserved[p]
      BY <3>1, <3>2
    <3>4. UNCHANGED orders /\ \A x \in Products : tracked'[x]
      BY <2>2 DEF salesVars, AllTracked
    <3>5. Backlog(orders', p) + InQuarantine(p)' + ForRepair(p)' <= reserved'[p]
      BY <2>2, <3>3, <3>4, WarehouseClaims
    <3>. QED
      BY <3>2, <3>5
  <2>3. CASE SetPeriod /\ UNCHANGED <<salesVars, warehouseVars>>
    <3>1. LinesOf(Confirmed, p)' = LinesOf(Confirmed, p) /\ OnHold(p)' = OnHold(p)
          /\ reserved' = reserved
      BY <2>3 DEF SetPeriod, salesVars, warehouseVars, LinesOf, Confirmed, OnHold
    <3>. QED
      BY <3>1 DEF ClaimsBacked
  <2>. QED
    BY <2>1, <2>2, <2>3 DEF Next
<1>. QED
  BY <1>1, InventoryInvHolds, PTL DEF Spec, ClaimsStayBacked
=============================================================================
