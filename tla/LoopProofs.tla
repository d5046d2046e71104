------------------------------ MODULE LoopProofs ------------------------------
(***************************************************************************)
(* Theorems about the requests that are executed line by line.             *)
(*                                                                         *)
(* LineLoops: while a request is executed, the workspace is the one it     *)
(* found, changed by the lines processed so far; so a whole loop, or one   *)
(* that throws, is a step of Sales.                                        *)
(***************************************************************************)
EXTENDS LineLoops, Sums, SequenceTheorems

-----------------------------------------------------------------------------
\* The lines for a product among the first k, and their demand.
LinesFor(lines, k, p) == {i \in 1..k : lines[i].product = p}
QtyFor(lines, k, p) == [i \in LinesFor(lines, k, p) |-> lines[i].qty]
Prefix(lines, k) == [p \in Products |-> SumFunction(QtyFor(lines, k, p))]

Nothing == [p \in Products |-> 0]

LEMMA LinesTyped ==
    ASSUME LineLoopsAssumption, NEW lines \in Seq(Lines), NEW i \in 1..Len(lines)
    PROVE  /\ lines[i].product \in Products
           /\ lines[i].qty \in Nat /\ lines[i].qty > 0 /\ lines[i].qty =< LineQty
           /\ LineQty \in Nat
<1>1. lines[i] \in Lines
  BY ElementOfSeq
<1>2. LineQty \in Nat
  BY DEF LineLoopsAssumption
<1>. QED
  BY <1>1, <1>2 DEF Lines

LEMMA DocumentTyped ==
    ASSUME LineLoopsAssumption, NEW lines \in Documents
    PROVE  /\ lines \in Seq(Lines)
           /\ Len(lines) \in Nat /\ Len(lines) > 0 /\ Len(lines) =< MaxLines
           /\ DOMAIN lines = 1..Len(lines)
BY DEF Documents, LineLoopsAssumption

LEMMA PrefixTerms ==
    ASSUME LineLoopsAssumption, NEW lines \in Seq(Lines), NEW k \in 0..Len(lines), NEW p
    PROVE  /\ IsFiniteSet(LinesFor(lines, k, p)) /\ Cardinality(LinesFor(lines, k, p)) =< k
           /\ QtyFor(lines, k, p) \in [LinesFor(lines, k, p) -> Nat]
           /\ QtyFor(lines, k, p) \in [LinesFor(lines, k, p) -> Int]
           /\ \A i \in LinesFor(lines, k, p) : QtyFor(lines, k, p)[i] =< LineQty
<1>1. IsFiniteSet(1..k) /\ Cardinality(1..k) = k
  <2>1. Cardinality(1..k) = IF 1 =< k THEN k - 1 + 1 ELSE 0
    BY FS_Interval
  <2>. QED
    BY <2>1, FS_Interval
<1>2. IsFiniteSet(LinesFor(lines, k, p)) /\ Cardinality(LinesFor(lines, k, p)) =< k
  <2>1. LinesFor(lines, k, p) \subseteq 1..k
    BY DEF LinesFor
  <2>. QED
    BY <1>1, <2>1, FS_Subset
<1>3. ASSUME NEW i \in LinesFor(lines, k, p)
      PROVE  lines[i].qty \in Nat /\ lines[i].qty =< LineQty
  <2>1. i \in 1..Len(lines)
    BY DEF LinesFor
  <2>. QED
    BY <2>1, LinesTyped
<1>. QED
  BY <1>2, <1>3 DEF QtyFor

LEMMA PrefixType ==
    ASSUME LineLoopsAssumption, NEW lines \in Seq(Lines), NEW k \in 0..Len(lines)
    PROVE  Prefix(lines, k) \in [Products -> Nat]
<1>1. ASSUME NEW p \in Products
      PROVE  SumFunction(QtyFor(lines, k, p)) \in Nat
  BY PrefixTerms, SumNat
<1>. QED
  BY <1>1 DEF Prefix

LEMMA PrefixNone ==
    ASSUME NEW lines
    PROVE  Prefix(lines, 0) = Nothing
<1>1. ASSUME NEW p \in Products
      PROVE  SumFunction(QtyFor(lines, 0, p)) = 0
  <2>1. LinesFor(lines, 0, p) = {}
    BY DEF LinesFor
  <2>2. QtyFor(lines, 0, p) \in [{} -> Int]
    BY <2>1 DEF QtyFor
  <2>. QED
    BY <2>2, SumEmpty
<1>. QED
  BY <1>1 DEF Prefix, Nothing

LEMMA PrefixNext ==
    ASSUME LineLoopsAssumption, NEW lines \in Seq(Lines), NEW k \in Nat, k < Len(lines)
    PROVE  Prefix(lines, k + 1) = Plus(Prefix(lines, k), Only(lines[k + 1].product, lines[k + 1].qty))
<1>. DEFINE n == k + 1
            l == lines[n]
<1>1. k \in 0..Len(lines) /\ n \in 0..Len(lines) /\ n \in 1..Len(lines)
  OBVIOUS
<1>2. l.qty \in Nat
  BY <1>1, LinesTyped
<1>3. ASSUME NEW p \in Products
      PROVE  SumFunction(QtyFor(lines, n, p)) = SumFunction(QtyFor(lines, k, p)) + Only(l.product, l.qty)[p]
  <2>. DEFINE S == LinesFor(lines, k, p)
              T == LinesFor(lines, n, p)
              f == QtyFor(lines, k, p)
              g == QtyFor(lines, n, p)
  <2>1. IsFiniteSet(S) /\ f \in [S -> Int] /\ f \in [S -> Nat] /\ g \in [T -> Int]
    <3>. HIDE DEF n
    <3>. QED
      BY <1>1, PrefixTerms
  <2>3. SumFunction(f) \in Nat
    <3>. HIDE DEF f, S
    <3>. QED
      BY <2>1, SumNat
  <2>4. CASE l.product = p
    <3>1. T = S \cup {n} /\ n \notin S
      BY <2>4 DEF LinesFor
    <3>2. g \in [S \cup {n} -> Int]
      BY <2>1, <3>1
    <3>3. /\ \A i \in S : g[i] = f[i]
          /\ g[n] = l.qty
      BY <3>1 DEF QtyFor
    <3>4. IsFiniteSet(S) /\ f \in [S -> Int] /\ n \notin S /\ \A i \in S : g[i] = f[i]
      BY <2>1, <3>1, <3>3
    <3>. HIDE DEF S, T, f, g, l, n
    <3>5. SumFunction(g) = SumFunction(f) + g[n]
      BY ONLY <3>2, <3>4, SumExtend
    <3>. QED
      BY <3>3, <3>5, <2>4 DEF Only, f, g
  <2>5. CASE l.product # p
    <3>1. T = S
      BY <2>5 DEF LinesFor
    <3>2. g = f
      BY <3>1 DEF QtyFor
    <3>3. Only(l.product, l.qty)[p] = 0
      BY <2>5 DEF Only
    <3>. HIDE DEF S, T, f, g, l, n
    <3>4. SumFunction(g) = SumFunction(f) + 0
      BY <2>3, <3>2
    <3>. QED
      BY <3>3, <3>4 DEF f, g
  <2>. QED
    BY <2>4, <2>5
<1>. HIDE DEF l
<1>. QED
  BY <1>3 DEF Plus, l, Prefix

LEMMA PrefixAll ==
    ASSUME NEW lines \in Seq(Lines)
    PROVE  DemandOf(lines) = Prefix(lines, Len(lines))
<1>1. DOMAIN lines = 1..Len(lines)
  OBVIOUS
<1>. QED
  BY <1>1 DEF DemandOf, Prefix, QtyFor, LinesFor

\* What a part of a document asks is within what the document asks.
LEMMA PrefixWithin ==
    ASSUME LineLoopsAssumption, NEW lines \in Seq(Lines), NEW k \in 0..Len(lines), NEW p \in Products
    PROVE  Prefix(lines, k)[p] =< DemandOf(lines)[p]
<1>. DEFINE n == Len(lines)
            S == LinesFor(lines, n, p)
            T == LinesFor(lines, k, p)
            f == QtyFor(lines, n, p)
<1>1. n \in 0..Len(lines)
  OBVIOUS
<1>2. IsFiniteSet(S) /\ f \in [S -> Nat]
  <2>. HIDE DEF n
  <2>. QED
    BY <1>1, PrefixTerms
<1>3. T \in SUBSET S
  BY DEF LinesFor
<1>4. [i \in T |-> f[i]] = QtyFor(lines, k, p)
  BY <1>3 DEF QtyFor
<1>5. SumFunction([i \in T |-> f[i]]) =< SumFunction(f)
  <2>. HIDE DEF S, T, f
  <2>. QED
    BY <1>2, <1>3, SumSubset
<1>6. Prefix(lines, k)[p] = SumFunction([i \in T |-> f[i]])
  BY <1>4 DEF Prefix
<1>7. DemandOf(lines)[p] = SumFunction(f)
  BY PrefixAll DEF Prefix
<1>. QED
  BY <1>5, <1>6, <1>7

\* A document asks for something, and for no more than Sales bounds a demand by.
LEMMA DemandTyped ==
    ASSUME StockAssumption, LineLoopsAssumption, NEW lines \in Documents
    PROVE  /\ DemandOf(lines) \in Demands
           /\ \A k \in 0..Len(lines) : Prefix(lines, k) \in Quantities
<1>1. /\ lines \in Seq(Lines)
      /\ Len(lines) \in Nat /\ Len(lines) > 0 /\ Len(lines) =< MaxLines
  BY DocumentTyped
<1>. DEFINE n == Len(lines)
            S(p) == LinesFor(lines, n, p)
            f(p) == QtyFor(lines, n, p)
<1>2. n \in 0..Len(lines)
  BY <1>1
<1>3. DemandOf(lines) \in [Products -> Nat] /\ \A p \in Products : DemandOf(lines)[p] = SumFunction(f(p))
  BY <1>1, <1>2, PrefixAll, PrefixType DEF Prefix
<1>4. ASSUME NEW p \in Products
      PROVE  /\ IsFiniteSet(S(p)) /\ Cardinality(S(p)) =< n
             /\ f(p) \in [S(p) -> Nat] /\ f(p) \in [S(p) -> Int]
             /\ \A i \in S(p) : f(p)[i] =< LineQty
  <2>. HIDE DEF n
  <2>. QED
    BY <1>1, <1>2, PrefixTerms
<1>5. ASSUME NEW p \in Products
      PROVE  DemandOf(lines)[p] =< MaxQty
  <2>1. SumFunction(f(p)) =< Cardinality(S(p)) * LineQty
    <3>1. LineQty \in Nat
      BY DEF LineLoopsAssumption
    <3>. HIDE DEF S, f
    <3>. QED
      BY <1>4, <3>1, SumBound
  <2>. DEFINE c == Cardinality(S(p))
  <2>2. c \in Nat /\ c =< MaxLines
    <3>1. IsFiniteSet(S(p)) /\ c =< n
      BY <1>4
    <3>2. c \in Nat
      BY <3>1, FS_CardinalityType
    <3>. HIDE DEF S
    <3>. QED
      BY <1>1, <3>1, <3>2 DEF LineLoopsAssumption
  <2>3. LineQty \in Nat /\ MaxLines \in Nat /\ LineQty * MaxLines =< MaxQty /\ MaxQty \in Nat
    BY DEF LineLoopsAssumption, StockAssumption
  <2>4. SumFunction(f(p)) =< c * LineQty
    BY <2>1
  <2>5. SumFunction(f(p)) \in Nat
    BY <1>3
  <2>. HIDE DEF c
  <2>6. c * LineQty =< MaxLines * LineQty /\ MaxLines * LineQty = LineQty * MaxLines /\ c * LineQty \in Nat
    BY <2>2, <2>3
  <2>7. DemandOf(lines)[p] = SumFunction(f(p))
    BY <1>3
  <2>. HIDE DEF f
  <2>. QED
    BY <2>3, <2>4, <2>5, <2>6, <2>7
<1>6. \E p \in Products : DemandOf(lines)[p] > 0
  <2>. DEFINE p == lines[1].product
  <2>1. p \in Products /\ lines[1].qty > 0 /\ lines[1].qty \in Nat
    BY <1>1, LinesTyped
  <2>2. 1 \in S(p) /\ f(p)[1] = lines[1].qty
    BY <1>1 DEF LinesFor, QtyFor
  <2>3. f(p)[1] =< SumFunction(f(p))
    <3>1. IsFiniteSet(S(p)) /\ f(p) \in [S(p) -> Nat]
      BY <1>4, <2>1
    <3>. HIDE DEF f, S, p
    <3>. QED
      BY <2>2, <3>1, SumNat
  <2>4. DemandOf(lines)[p] = SumFunction(f(p)) /\ DemandOf(lines)[p] \in Nat
    BY <1>3, <2>1
  <2>. HIDE DEF f, S, p
  <2>. QED
    BY <2>1, <2>2, <2>3, <2>4
<1>7. DemandOf(lines) \in Quantities
  BY <1>3, <1>5 DEF Quantities, StockAssumption
<1>8. ASSUME NEW k \in 0..Len(lines)
      PROVE  Prefix(lines, k) \in Quantities
  <2>1. Prefix(lines, k) \in [Products -> Nat] /\ \A p \in Products : Prefix(lines, k)[p] =< DemandOf(lines)[p]
    BY <1>1, PrefixType, PrefixWithin
  <2>. QED
    BY <2>1, <1>3, <1>5 DEF Quantities, StockAssumption
<1>. QED
  BY <1>6, <1>7, <1>8 DEF Demands
-----------------------------------------------------------------------------
LoopOrders == [status : {"CONFIRMED", "DELIVERED"}, lines : Documents]
LoopNotes == [order : Nat \ {0}, status : {"POSTED", "CANCELLED"}]

Workspaces == [onHand : [Products -> Int], reserved : [Products -> Nat],
               quantity : [Warehouses -> [Products -> Int]],
               held : [Warehouses -> [Products -> Nat]],
               orders : Seq(LoopOrders), notes : Seq(LoopNotes)]

Kinds == {"ORDER", "INVOICE", "DELIVERY", "CANCELLATION"}
Requests == [kind : Kinds \cup {"NONE"}, lines : Seq(Lines), left : Seq(Lines), document : Nat]

\* v is the workspace w, changed by the part d of a request.
After(kind, w, v, d) ==
    /\ v.orders = w.orders /\ v.notes = w.notes
    /\ kind = "ORDER" =>
         /\ v.onHand = w.onHand /\ v.quantity = w.quantity
         /\ v.reserved = Plus(w.reserved, d)
         /\ v.held = [w.held EXCEPT ![Main] = Plus(@, d)]
    /\ kind = "INVOICE" =>
         /\ v.onHand = Minus(w.onHand, d)
         /\ v.quantity = [w.quantity EXCEPT ![Main] = Minus(@, d)]
         /\ v.reserved = w.reserved /\ v.held = w.held
    /\ kind = "DELIVERY" =>
         /\ v.onHand = Minus(w.onHand, d)
         /\ v.quantity = [w.quantity EXCEPT ![Main] = Minus(@, d)]
         /\ v.reserved = Minus(w.reserved, d)
         /\ v.held = [w.held EXCEPT ![Main] = Clamped(@, d)]
    /\ kind = "CANCELLATION" =>
         /\ v.onHand = Plus(w.onHand, d)
         /\ v.quantity = [w.quantity EXCEPT ![Main] = Plus(@, d)]
         /\ v.reserved = w.reserved /\ v.held = w.held

\* What a request looks at, and the bounds its moves keep.
Room(kind, w) == IF kind = "DELIVERY" THEN w.reserved ELSE Minus(w.onHand, w.reserved)

Covered(kind, w, d) == kind # "CANCELLATION" => Fits(d, Room(kind, w))

Ranged(kind, w) ==
    IF kind = "ORDER" THEN InRange(w.held[Main])
                      ELSE InRange(w.onHand) /\ InRange(w.quantity[Main])

\* What a request was admitted for, in the workspace it found.
Admitted(r, w) ==
    /\ r.kind = "ORDER" => Len(w.orders) < MaxOrders
    /\ r.kind = "DELIVERY" =>
         /\ Len(w.notes) < MaxNotes
         /\ r.document \in DOMAIN w.orders
         /\ w.orders[r.document] = [status |-> "CONFIRMED", lines |-> r.lines]
    /\ r.kind = "CANCELLATION" =>
         /\ r.document \in DOMAIN w.notes
         /\ w.notes[r.document].status = "POSTED"
         /\ w.notes[r.document].order \in DOMAIN w.orders
         /\ w.orders[w.notes[r.document].order].lines = r.lines

\* The first k lines are processed.
Underway(k) ==
    /\ request.kind \in Kinds
    /\ request.lines \in Documents
    /\ request.left = SubSeq(request.lines, k + 1, Len(request.lines))
    /\ before \in Workspaces
    /\ Admitted(request, before)
    /\ request.kind = "INVOICE" => periodOpen
    /\ After(request.kind, before, Workspace, Prefix(request.lines, k))
    /\ Covered(request.kind, before, Prefix(request.lines, k))
    /\ k > 0 => Ranged(request.kind, Workspace)

LoopTyped ==
    /\ Workspace \in Workspaces
    /\ \A n \in DOMAIN notes : notes[n].order \in DOMAIN orders
    /\ tracked = [p \in Products |-> TRUE]
    /\ request \in Requests

LoopInv ==
    /\ LoopTyped
    /\ request = Idle \/ \E k \in 0..Len(request.lines) : Underway(k)
-----------------------------------------------------------------------------
\* A workspace before anything is processed.
LEMMA AfterNothing ==
    ASSUME StockAssumption, NEW w \in Workspaces, NEW kind
    PROVE  After(kind, w, w, Nothing) /\ Covered(kind, w, Nothing)
<1>1. Main \in Warehouses
  BY DEF StockAssumption
<1>2. ASSUME NEW f \in [Products -> Int]
      PROVE  Plus(f, Nothing) = f /\ Minus(f, Nothing) = f
  BY DEF Plus, Minus, Nothing
<1>3. ASSUME NEW f \in [Products -> Nat]
      PROVE  f \in [Products -> Int] /\ Clamped(f, Nothing) = f
  BY DEF Clamped, Nothing
<1>4. ASSUME NEW g, DOMAIN g = Warehouses
      PROVE  g = [g EXCEPT ![Main] = g[Main]] \/ ~ \E V : g \in [Warehouses -> V]
  BY <1>1
<1>5. /\ w.onHand \in [Products -> Int] /\ w.reserved \in [Products -> Nat]
      /\ w.quantity \in [Warehouses -> [Products -> Int]]
      /\ w.held \in [Warehouses -> [Products -> Nat]]
  BY DEF Workspaces
<1>6. w.quantity[Main] \in [Products -> Int] /\ w.held[Main] \in [Products -> Nat]
  BY <1>1, <1>5
<1>7. /\ w.quantity = [w.quantity EXCEPT ![Main] = w.quantity[Main]]
      /\ w.held = [w.held EXCEPT ![Main] = w.held[Main]]
  BY <1>1, <1>5
<1>8. /\ Plus(w.quantity[Main], Nothing) = w.quantity[Main]
      /\ Minus(w.quantity[Main], Nothing) = w.quantity[Main]
      /\ Plus(w.held[Main], Nothing) = w.held[Main]
      /\ Clamped(w.held[Main], Nothing) = w.held[Main]
      /\ Plus(w.onHand, Nothing) = w.onHand /\ Minus(w.onHand, Nothing) = w.onHand
      /\ Plus(w.reserved, Nothing) = w.reserved /\ Minus(w.reserved, Nothing) = w.reserved
  BY <1>2, <1>3, <1>5, <1>6
<1>9. After(kind, w, w, Nothing)
  BY <1>7, <1>8 DEF After
<1>10. Covered(kind, w, Nothing)
  BY DEF Covered, Fits, Nothing
<1>. QED
  BY <1>9, <1>10

LEMMA TwoParts ==
    ASSUME NEW f \in [Products -> Int], NEW d \in [Products -> Nat], NEW e \in [Products -> Nat]
    PROVE  /\ Plus(Plus(f, d), e) = Plus(f, Plus(d, e))
           /\ Minus(Minus(f, d), e) = Minus(f, Plus(d, e))
           /\ Clamped(Clamped(f, d), e) = Clamped(f, Plus(d, e))
           /\ Minus(f, d) \in [Products -> Int] /\ Plus(f, d) \in [Products -> Int]
BY DEF Plus, Minus, Clamped

\* One part after another is the two together.
LEMMA AfterMore ==
    ASSUME StockAssumption, NEW w \in Workspaces, NEW v \in Workspaces, NEW u, NEW kind,
           NEW d \in [Products -> Nat], NEW e \in [Products -> Nat],
           After(kind, w, v, d), After(kind, v, u, e)
    PROVE  After(kind, w, u, Plus(d, e))
<1>1. /\ Main \in Warehouses
      /\ w.onHand \in [Products -> Int] /\ w.reserved \in [Products -> Int]
      /\ w.quantity \in [Warehouses -> [Products -> Int]]
      /\ w.held \in [Warehouses -> [Products -> Nat]]
  BY DEF Workspaces, StockAssumption
<1>2. w.quantity[Main] \in [Products -> Int] /\ w.held[Main] \in [Products -> Int]
  BY <1>1
<1>. DEFINE q == w.quantity
            h == w.held
<1>3. ASSUME NEW a, NEW b
      PROVE  /\ [[q EXCEPT ![Main] = a] EXCEPT ![Main] = b] = [q EXCEPT ![Main] = b]
             /\ [q EXCEPT ![Main] = a][Main] = a
             /\ [[h EXCEPT ![Main] = a] EXCEPT ![Main] = b] = [h EXCEPT ![Main] = b]
             /\ [h EXCEPT ![Main] = a][Main] = a
  BY <1>1
<1>4. v.orders = w.orders /\ v.notes = w.notes /\ u.orders = v.orders /\ u.notes = v.notes
  BY DEF After
<1>. HIDE DEF q, h
<1>5. CASE kind = "ORDER"
  <2>1. /\ v.onHand = w.onHand /\ v.quantity = w.quantity
        /\ v.reserved = Plus(w.reserved, d)
        /\ v.held = [h EXCEPT ![Main] = Plus(h[Main], d)]
        /\ u.onHand = v.onHand /\ u.quantity = v.quantity
        /\ u.reserved = Plus(v.reserved, e)
        /\ u.held = [v.held EXCEPT ![Main] = Plus(v.held[Main], e)]
    BY <1>5 DEF After, h
  <2>2. u.reserved = Plus(w.reserved, Plus(d, e))
    BY <1>1, <2>1, TwoParts
  <2>3. u.held = [h EXCEPT ![Main] = Plus(Plus(h[Main], d), e)]
    BY <1>3, <2>1
  <2>4. Plus(Plus(h[Main], d), e) = Plus(h[Main], Plus(d, e))
    BY <1>2, TwoParts DEF h
  <2>. QED
    BY <1>4, <1>5, <2>1, <2>2, <2>3, <2>4 DEF After, h
<1>6. CASE kind = "INVOICE"
  <2>1. /\ v.onHand = Minus(w.onHand, d)
        /\ v.quantity = [q EXCEPT ![Main] = Minus(q[Main], d)]
        /\ v.reserved = w.reserved /\ v.held = w.held
        /\ u.onHand = Minus(v.onHand, e)
        /\ u.quantity = [v.quantity EXCEPT ![Main] = Minus(v.quantity[Main], e)]
        /\ u.reserved = v.reserved /\ u.held = v.held
    BY <1>6 DEF After, q
  <2>2. u.onHand = Minus(w.onHand, Plus(d, e))
    <3>1. w.onHand \in [Products -> Int] /\ u.onHand = Minus(Minus(w.onHand, d), e)
      BY <1>1, <2>1
    <3>. QED
      BY <3>1, TwoParts
  <2>3. u.quantity = [q EXCEPT ![Main] = Minus(Minus(q[Main], d), e)]
    BY <1>3, <2>1
  <2>4. Minus(Minus(q[Main], d), e) = Minus(q[Main], Plus(d, e))
    BY <1>2, TwoParts DEF q
  <2>. QED
    BY <1>4, <1>6, <2>1, <2>2, <2>3, <2>4 DEF After, q
<1>7. CASE kind = "DELIVERY"
  <2>1. /\ v.onHand = Minus(w.onHand, d)
        /\ v.quantity = [q EXCEPT ![Main] = Minus(q[Main], d)]
        /\ v.reserved = Minus(w.reserved, d)
        /\ v.held = [h EXCEPT ![Main] = Clamped(h[Main], d)]
        /\ u.onHand = Minus(v.onHand, e)
        /\ u.quantity = [v.quantity EXCEPT ![Main] = Minus(v.quantity[Main], e)]
        /\ u.reserved = Minus(v.reserved, e)
        /\ u.held = [v.held EXCEPT ![Main] = Clamped(v.held[Main], e)]
    BY <1>7 DEF After, q, h
  <2>2. u.onHand = Minus(w.onHand, Plus(d, e)) /\ u.reserved = Minus(w.reserved, Plus(d, e))
    BY <1>1, <2>1, TwoParts
  <2>3. /\ u.quantity = [q EXCEPT ![Main] = Minus(Minus(q[Main], d), e)]
        /\ u.held = [h EXCEPT ![Main] = Clamped(Clamped(h[Main], d), e)]
    BY <1>3, <2>1
  <2>4. /\ Minus(Minus(q[Main], d), e) = Minus(q[Main], Plus(d, e))
        /\ Clamped(Clamped(h[Main], d), e) = Clamped(h[Main], Plus(d, e))
    BY <1>2, TwoParts DEF q, h
  <2>. QED
    BY <1>4, <1>7, <2>1, <2>2, <2>3, <2>4 DEF After, q, h
<1>8. CASE kind = "CANCELLATION"
  <2>1. /\ v.onHand = Plus(w.onHand, d)
        /\ v.quantity = [q EXCEPT ![Main] = Plus(q[Main], d)]
        /\ v.reserved = w.reserved /\ v.held = w.held
        /\ u.onHand = Plus(v.onHand, e)
        /\ u.quantity = [v.quantity EXCEPT ![Main] = Plus(v.quantity[Main], e)]
        /\ u.reserved = v.reserved /\ u.held = v.held
    BY <1>8 DEF After, q
  <2>2. u.onHand = Plus(w.onHand, Plus(d, e))
    <3>1. w.onHand \in [Products -> Int] /\ u.onHand = Plus(Plus(w.onHand, d), e)
      BY <1>1, <2>1
    <3>. QED
      BY <3>1, TwoParts
  <2>3. u.quantity = [q EXCEPT ![Main] = Plus(Plus(q[Main], d), e)]
    BY <1>3, <2>1
  <2>4. Plus(Plus(q[Main], d), e) = Plus(q[Main], Plus(d, e))
    BY <1>2, TwoParts DEF q
  <2>. QED
    BY <1>4, <1>8, <2>1, <2>2, <2>3, <2>4 DEF After, q
<1>. QED
  BY <1>4, <1>5, <1>6, <1>7, <1>8 DEF After

\* What a request looks at shrinks by what it has processed.
LEMMA RoomAfter ==
    ASSUME NEW w \in Workspaces, NEW v \in Workspaces, NEW kind \in Kinds \ {"CANCELLATION"},
           NEW d \in [Products -> Nat], After(kind, w, v, d)
    PROVE  /\ Room(kind, w) \in [Products -> Int]
           /\ Room(kind, v) = Minus(Room(kind, w), d)
<1>1. Room(kind, w) \in [Products -> Int]
  BY DEF Room, Workspaces, Minus
<1>2. Room(kind, v) = Minus(Room(kind, w), d)
  <2>1. CASE kind = "DELIVERY"
    BY <2>1 DEF Room, After
  <2>2. /\ w.onHand \in [Products -> Int] /\ w.reserved \in [Products -> Int]
        /\ v.onHand \in [Products -> Int] /\ v.reserved \in [Products -> Int]
    BY DEF Workspaces
  <2>3. CASE kind = "ORDER"
    <3>1. v.onHand = w.onHand /\ v.reserved = Plus(w.reserved, d)
      BY <2>3 DEF After
    <3>2. Minus(w.onHand, Plus(w.reserved, d)) = Minus(Minus(w.onHand, w.reserved), d)
      BY <2>2 DEF Minus, Plus
    <3>. QED
      BY <2>3, <3>1, <3>2 DEF Room
  <2>4. CASE kind = "INVOICE"
    <3>1. v.onHand = Minus(w.onHand, d) /\ v.reserved = w.reserved
      BY <2>4 DEF After
    <3>2. Minus(Minus(w.onHand, d), w.reserved) = Minus(Minus(w.onHand, w.reserved), d)
      BY <2>2 DEF Minus
    <3>. QED
      BY <2>4, <3>1, <3>2 DEF Room
  <2>. QED
    BY <2>1, <2>3, <2>4 DEF Kinds
<1>. QED
  BY <1>1, <1>2

\* So every part fits where the two together fit.
LEMMA CoveredMore ==
    ASSUME NEW w \in Workspaces, NEW v \in Workspaces, NEW kind \in Kinds \ {"CANCELLATION"},
           NEW d \in [Products -> Nat], NEW e \in [Products -> Nat],
           After(kind, w, v, d), Covered(kind, w, d), Fits(e, Room(kind, v))
    PROVE  Covered(kind, w, Plus(d, e))
<1>1. /\ Room(kind, w) \in [Products -> Int]
      /\ Room(kind, v) = Minus(Room(kind, w), d)
  BY RoomAfter
<1>. QED
  BY <1>1 DEF Covered, Fits, Plus, Minus

\* A workspace is its fields.
LEMMA SameFields ==
    ASSUME NEW v \in Workspaces, NEW u \in Workspaces,
           v.onHand = u.onHand, v.reserved = u.reserved, v.quantity = u.quantity,
           v.held = u.held, v.orders = u.orders, v.notes = u.notes
    PROVE  v = u
<1>1. ASSUME NEW x \in Workspaces
      PROVE  x = [onHand |-> x.onHand, reserved |-> x.reserved, quantity |-> x.quantity,
                  held |-> x.held, orders |-> x.orders, notes |-> x.notes]
  BY DEF Workspaces
<1>2. v = [onHand |-> v.onHand, reserved |-> v.reserved, quantity |-> v.quantity,
           held |-> v.held, orders |-> v.orders, notes |-> v.notes]
  BY <1>1
<1>3. u = [onHand |-> u.onHand, reserved |-> u.reserved, quantity |-> u.quantity,
           held |-> u.held, orders |-> u.orders, notes |-> u.notes]
  BY <1>1
<1>. QED
  BY <1>2, <1>3, Zenon

\* The part decides the workspace.
LEMMA AfterUnique ==
    ASSUME NEW w \in Workspaces, NEW v \in Workspaces, NEW u \in Workspaces, NEW kind \in Kinds,
           NEW d, After(kind, w, v, d), After(kind, w, u, d)
    PROVE  v = u
<1>1. /\ v.onHand = u.onHand /\ v.reserved = u.reserved
      /\ v.quantity = u.quantity /\ v.held = u.held
      /\ v.orders = u.orders /\ v.notes = u.notes
  BY DEF After, Kinds
<1>. QED
  BY <1>1, SameFields

-----------------------------------------------------------------------------
LEMMA WorkspaceIs ==
    /\ Workspace.onHand = onHand /\ Workspace.reserved = reserved
    /\ Workspace.quantity = quantity /\ Workspace.held = held
    /\ Workspace.orders = orders /\ Workspace.notes = notes
    /\ Workspace'.onHand = onHand' /\ Workspace'.reserved = reserved'
    /\ Workspace'.quantity = quantity' /\ Workspace'.held = held'
    /\ Workspace'.orders = orders' /\ Workspace'.notes = notes'
BY DEF Workspace

LEMMA WorkspaceTyped ==
    /\ Workspace \in Workspaces <=>
         /\ onHand \in [Products -> Int] /\ reserved \in [Products -> Nat]
         /\ quantity \in [Warehouses -> [Products -> Int]]
         /\ held \in [Warehouses -> [Products -> Nat]]
         /\ orders \in Seq(LoopOrders) /\ notes \in Seq(LoopNotes)
    /\ Workspace' \in Workspaces <=>
         /\ onHand' \in [Products -> Int] /\ reserved' \in [Products -> Nat]
         /\ quantity' \in [Warehouses -> [Products -> Int]]
         /\ held' \in [Warehouses -> [Products -> Nat]]
         /\ orders' \in Seq(LoopOrders) /\ notes' \in Seq(LoopNotes)
BY DEF Workspace, Workspaces

\* Every product is tracked, so a demand is its own stock effect.
LEMMA AllStocked ==
    ASSUME tracked = [p \in Products |-> TRUE], NEW d \in [Products -> Int]
    PROVE  Stocked(d) = d
BY DEF Stocked

LEMMA PartIs ==
    ASSUME LineLoopsAssumption, LoopTyped, NEW k \in 0..Len(request.lines), Underway(k),
           request.left # <<>>
    PROVE  /\ k \in Nat /\ k + 1 \in 0..Len(request.lines)
           /\ Head(request.left) = request.lines[k + 1]
           /\ Tail(request.left) = SubSeq(request.lines, k + 2, Len(request.lines))
           /\ Part = Only(request.lines[k + 1].product, request.lines[k + 1].qty)
           /\ Part \in [Products -> Nat]
           /\ Prefix(request.lines, k + 1) = Plus(Prefix(request.lines, k), Part)
           /\ Prefix(request.lines, k) \in [Products -> Nat]
<1>. DEFINE lines == request.lines
            n == Len(lines)
            j == k + 1
<1>1. lines \in Seq(Lines) /\ n \in Nat
  BY DocumentTyped DEF Underway
<1>2. request.left = SubSeq(lines, j, n)
  BY DEF Underway
<1>3. k \in Nat /\ k < n /\ j \in 1..n /\ n \in j..n
  <2>1. k \in Nat /\ k =< n
    BY <1>1
  <2>2. k # n
    <3>1. k = n => n < j
      BY <1>1
    <3>2. n < j => SubSeq(lines, j, n) = <<>>
      BY <1>1, <2>1, SubSeqEmpty
    <3>. QED
      BY <1>2, <3>1, <3>2
  <2>. QED
    BY <1>1, <2>1, <2>2
<1>4. Head(request.left) = lines[j] /\ Tail(request.left) = SubSeq(lines, j + 1, n)
  <2>. HIDE DEF j, n, lines
  <2>. QED
    BY <1>1, <1>2, <1>3, HeadTailOfSubSeq DEF n
<1>5. lines[j].product \in Products /\ lines[j].qty \in Nat
  BY <1>1, <1>3, LinesTyped
<1>6. Only(lines[j].product, lines[j].qty) \in [Products -> Nat]
  BY <1>5 DEF Only
<1>7. Part = Only(lines[j].product, lines[j].qty)
  <2>1. Only(lines[j].product, lines[j].qty) \in [Products -> Int]
    BY <1>6
  <2>2. Part = Stocked(Only(lines[j].product, lines[j].qty))
    BY <1>4 DEF Part
  <2>. QED
    BY <2>1, <2>2, AllStocked DEF LoopTyped
<1>8. Prefix(lines, j) = Plus(Prefix(lines, k), Only(lines[j].product, lines[j].qty))
  BY <1>1, <1>3, PrefixNext
<1>9. Prefix(lines, k) \in [Products -> Nat]
  BY <1>1, <1>3, PrefixType
<1>10. k + 2 = j + 1
  BY <1>3
<1>. QED
  BY <1>3, <1>4, <1>6, <1>7, <1>8, <1>9, <1>10

\* What one line does to the workspace.
LEMMA LineEffect ==
    ASSUME StockAssumption, LoopTyped, request.kind \in Kinds,
           Part \in [Products -> Nat], Enough(Part),
           ReserveLine \/ ConsumeLine \/ DeliverLine \/ ReturnLine,
           UNCHANGED <<orders, notes>>
    PROVE  /\ After(request.kind, Workspace, Workspace', Part)
           /\ Workspace' \in Workspaces
           /\ Ranged(request.kind, Workspace')
<1>. DEFINE e == Part
<1>1. /\ Main \in Warehouses
      /\ onHand \in [Products -> Int] /\ reserved \in [Products -> Nat]
      /\ quantity \in [Warehouses -> [Products -> Int]]
      /\ held \in [Warehouses -> [Products -> Nat]]
      /\ orders' \in Seq(LoopOrders) /\ notes' \in Seq(LoopNotes)
  BY WorkspaceTyped DEF LoopTyped, StockAssumption
<1>2. e \in [Products -> Nat] /\ Negated(e) \in [Products -> Int]
  BY DEF Negated
<1>3. Stocked(e) = e /\ Stocked(Negated(e)) = Negated(e)
  <2>1. e \in [Products -> Int]
    BY <1>2
  <2>. HIDE DEF e
  <2>. QED
    BY <1>2, <2>1, AllStocked DEF LoopTyped
<1>. HIDE DEF e
<1>4. ASSUME NEW f \in [Products -> Int]
      PROVE  /\ Plus(f, Negated(e)) = Minus(f, e)
             /\ Minus(f, e) \in [Products -> Int] /\ Plus(f, e) \in [Products -> Int]
  BY <1>2 DEF Plus, Minus, Negated
<1>5. ASSUME NEW f \in [Products -> Nat]
      PROVE  Clamped(f, e) \in [Products -> Nat] /\ Plus(f, e) \in [Products -> Nat]
  BY <1>2 DEF Clamped, Plus
<1>6. quantity[Main] \in [Products -> Int] /\ held[Main] \in [Products -> Nat]
  BY <1>1
<1>7. CASE ReserveLine
  <2>1. /\ request.kind = "ORDER"
        /\ reserved' = Plus(reserved, e)
        /\ held' = [held EXCEPT ![Main] = Plus(@, e)]
        /\ InRange(held'[Main])
        /\ onHand' = onHand /\ quantity' = quantity
    BY <1>3, <1>7 DEF ReserveLine, Reserve, e
  <2>2. reserved' \in [Products -> Nat] /\ held' \in [Warehouses -> [Products -> Nat]]
    BY <1>1, <1>5, <1>6, <2>1
  <2>3. After("ORDER", Workspace, Workspace', e)
    BY <2>1, WorkspaceIs DEF After
  <2>4. Workspace' \in Workspaces
    BY <1>1, <2>1, <2>2, WorkspaceTyped
  <2>5. Ranged("ORDER", Workspace')
    BY <2>1, WorkspaceIs DEF Ranged
  <2>. QED
    BY <2>1, <2>3, <2>4, <2>5 DEF e
<1>8. CASE ConsumeLine
  <2>1. /\ request.kind = "INVOICE"
        /\ onHand' = Plus(onHand, Negated(e))
        /\ quantity' = [quantity EXCEPT ![Main] = Plus(@, Negated(e))]
        /\ InRange(onHand') /\ InRange(quantity'[Main])
        /\ reserved' = reserved /\ held' = held
    BY <1>3, <1>8 DEF ConsumeLine, Move, e
  <2>2. onHand' = Minus(onHand, e) /\ quantity' = [quantity EXCEPT ![Main] = Minus(@, e)]
    BY <1>1, <1>4, <1>6, <2>1
  <2>3. onHand' \in [Products -> Int] /\ quantity' \in [Warehouses -> [Products -> Int]]
    BY <1>1, <1>4, <1>6, <2>2
  <2>4. After("INVOICE", Workspace, Workspace', e)
    BY <2>1, <2>2, WorkspaceIs DEF After
  <2>5. Workspace' \in Workspaces
    BY <1>1, <2>1, <2>3, WorkspaceTyped
  <2>6. Ranged("INVOICE", Workspace')
    BY <2>1, WorkspaceIs DEF Ranged
  <2>. QED
    BY <2>1, <2>4, <2>5, <2>6 DEF e
<1>9. CASE DeliverLine
  <2>1. /\ request.kind = "DELIVERY"
        /\ onHand' = Plus(onHand, Negated(e))
        /\ quantity' = [quantity EXCEPT ![Main] = Plus(@, Negated(e))]
        /\ InRange(onHand') /\ InRange(quantity'[Main])
        /\ reserved' = Minus(reserved, e)
        /\ held' = [held EXCEPT ![Main] = Clamped(@, e)]
    BY <1>3, <1>9 DEF DeliverLine, Move, e
  <2>2. onHand' = Minus(onHand, e) /\ quantity' = [quantity EXCEPT ![Main] = Minus(@, e)]
    BY <1>1, <1>4, <1>6, <2>1
  <2>3. /\ onHand' \in [Products -> Int] /\ quantity' \in [Warehouses -> [Products -> Int]]
        /\ held' \in [Warehouses -> [Products -> Nat]]
    BY <1>1, <1>4, <1>5, <1>6, <2>1, <2>2
  <2>4. reserved' \in [Products -> Nat]
    <3>1. Fits(e, reserved)
      BY <2>1 DEF Enough, e
    <3>2. ASSUME NEW p \in Products
          PROVE  reserved[p] - e[p] \in Nat
      <4>1. reserved[p] \in Nat /\ e[p] \in Nat
        BY <1>1, <1>2
      <4>2. e[p] > 0 => e[p] =< reserved[p]
        BY <3>1 DEF Fits
      <4>. QED
        BY <4>1, <4>2
    <3>. QED
      BY <2>1, <3>2 DEF Minus
  <2>5. After("DELIVERY", Workspace, Workspace', e)
    BY <2>1, <2>2, WorkspaceIs DEF After
  <2>6. Workspace' \in Workspaces
    BY <1>1, <2>3, <2>4, WorkspaceTyped
  <2>7. Ranged("DELIVERY", Workspace')
    BY <2>1, WorkspaceIs DEF Ranged
  <2>. QED
    BY <2>1, <2>5, <2>6, <2>7 DEF e
<1>10. CASE ReturnLine
  <2>1. /\ request.kind = "CANCELLATION"
        /\ onHand' = Plus(onHand, e)
        /\ quantity' = [quantity EXCEPT ![Main] = Plus(@, e)]
        /\ InRange(onHand') /\ InRange(quantity'[Main])
        /\ reserved' = reserved /\ held' = held
    BY <1>3, <1>10 DEF ReturnLine, Move, e
  <2>2. onHand' \in [Products -> Int] /\ quantity' \in [Warehouses -> [Products -> Int]]
    BY <1>1, <1>4, <1>6, <2>1
  <2>3. After("CANCELLATION", Workspace, Workspace', e)
    BY <2>1, WorkspaceIs DEF After
  <2>4. Workspace' \in Workspaces
    BY <1>1, <2>1, <2>2, WorkspaceTyped
  <2>5. Ranged("CANCELLATION", Workspace')
    BY <2>1, WorkspaceIs DEF Ranged
  <2>. QED
    BY <2>1, <2>3, <2>4, <2>5 DEF e
<1>. QED
  BY <1>7, <1>8, <1>9, <1>10
-----------------------------------------------------------------------------
\* A request begins: nothing is processed, the workspace is the one it found.
LEMMA BeginUnderway ==
    ASSUME StockAssumption, LineLoopsAssumption, LoopTyped,
           NEW kind \in Kinds, NEW lines \in Documents, NEW document \in Nat,
           Begin(kind, lines, document),
           Admitted([kind |-> kind, lines |-> lines, left |-> lines, document |-> document], Workspace),
           kind = "INVOICE" => periodOpen
    PROVE  LoopInv'
<1>1. /\ request' = [kind |-> kind, lines |-> lines, left |-> lines, document |-> document]
      /\ before' = Workspace /\ Workspace' = Workspace
      /\ UNCHANGED <<stockVars, orders, notes>>
  BY DEF Begin, Workspace, stockVars
<1>2. /\ request'.kind = kind /\ request'.lines = lines /\ request'.left = lines
      /\ request'.document = document
  BY <1>1
<1>3. lines \in Seq(Lines) /\ Len(lines) \in Nat
  BY DocumentTyped
<1>4. LoopTyped'
  BY <1>1, <1>3 DEF LoopTyped, Requests, stockVars
<1>5. Prefix(lines, 0) = Nothing
  BY PrefixNone
<1>6. After(kind, Workspace, Workspace, Nothing) /\ Covered(kind, Workspace, Nothing)
  BY AfterNothing DEF LoopTyped
<1>7. lines = SubSeq(lines, 0 + 1, Len(lines))
  BY <1>3, SubSeqFull
<1>8. periodOpen' = periodOpen
  BY <1>1 DEF stockVars
<1>9. Workspace \in Workspaces
  BY DEF LoopTyped
<1>10. Admitted(request', before')
  BY <1>1
<1>11. Underway(0)'
  BY <1>1, <1>2, <1>5, <1>6, <1>7, <1>8, <1>9, <1>10 DEF Underway
<1>12. 0 \in 0..Len(request'.lines)
  BY <1>2, <1>3
<1>. QED
  BY <1>4, <1>11, <1>12 DEF LoopInv

\* One more line is processed.
LEMMA ProcessUnderway ==
    ASSUME StockAssumption, LineLoopsAssumption, LoopTyped,
           NEW k \in 0..Len(request.lines), Underway(k), ProcessLine
    PROVE  LoopInv'
<1>. DEFINE r == request.lines
            d == Prefix(request.lines, k)
<1>1. /\ k \in Nat /\ k + 1 \in 0..Len(r)
      /\ Tail(request.left) = SubSeq(r, k + 2, Len(r))
      /\ Part \in [Products -> Nat] /\ d \in [Products -> Nat]
      /\ Prefix(r, k + 1) = Plus(d, Part)
  BY PartIs DEF ProcessLine
<1>2. /\ request' = [request EXCEPT !.left = Tail(@)]
      /\ before' = before /\ tracked' = tracked /\ periodOpen' = periodOpen
      /\ orders' = orders /\ notes' = notes
  BY DEF ProcessLine
<1>3. request \in Requests /\ request.kind \in Kinds /\ r \in Documents
  BY DEF LoopTyped, Underway
<1>4. /\ request'.kind = request.kind /\ request'.lines = r
      /\ request'.document = request.document
      /\ request'.left = Tail(request.left)
  BY <1>2, <1>3 DEF Requests
<1>5. /\ After(request.kind, Workspace, Workspace', Part)
      /\ Workspace' \in Workspaces
      /\ Ranged(request.kind, Workspace')
  BY <1>1, <1>3, LineEffect DEF ProcessLine
<1>6. LoopTyped'
  <2>1. request' \in Requests
    <3>1. request.left \in Seq(Lines) /\ request.left # <<>>
      BY <1>3 DEF Requests, ProcessLine
    <3>2. Tail(request.left) \in Seq(Lines)
      BY <3>1, HeadTailProperties
    <3>. QED
      BY <1>2, <1>3, <3>2 DEF Requests
  <2>. QED
    BY <1>2, <1>5, <2>1 DEF LoopTyped
<1>7. /\ before \in Workspaces /\ Workspace \in Workspaces
      /\ After(request.kind, before, Workspace, d)
      /\ Covered(request.kind, before, d)
      /\ Admitted(request, before)
      /\ request.kind = "INVOICE" => periodOpen
  BY DEF Underway, LoopTyped
<1>. HIDE DEF d
<1>8. After(request.kind, before, Workspace', Plus(d, Part))
  BY <1>1, <1>5, <1>7, AfterMore
<1>9. Covered(request.kind, before, Plus(d, Part))
  <2>1. CASE request.kind = "CANCELLATION"
    BY <2>1 DEF Covered
  <2>2. CASE request.kind # "CANCELLATION"
    <3>1. Fits(Part, Room(request.kind, Workspace))
      <4>1. Room(request.kind, Workspace) = IF request.kind = "DELIVERY" THEN reserved ELSE Available
        BY WorkspaceIs DEF Room, Available
      <4>2. Enough(Part)
        BY DEF ProcessLine
      <4>. QED
        BY <1>3, <2>2, <4>1, <4>2 DEF Enough, Kinds
    <3>. QED
      BY <1>1, <1>3, <1>7, <2>2, <3>1, CoveredMore
  <2>. QED
    BY <2>1, <2>2
<1>10. Admitted(request', before')
  BY <1>2, <1>4, <1>7 DEF Admitted
<1>11. Underway(k + 1)'
  <2>1. k + 1 + 1 = k + 2
    BY <1>1
  <2>. QED
    BY <1>1, <1>2, <1>3, <1>4, <1>5, <1>7, <1>8, <1>9, <1>10, <2>1 DEF Underway
<1>. QED
  BY <1>1, <1>4, <1>6, <1>11 DEF LoopInv
-----------------------------------------------------------------------------
\* Orders and their demands.

LEMMA DemandedIs ==
    ASSUME StockAssumption, LineLoopsAssumption, NEW os \in Seq(LoopOrders)
    PROVE  /\ Len(os) \in Nat /\ DOMAIN os = 1..Len(os)
           /\ DOMAIN Demanded(os) = 1..Len(os)
           /\ \A o \in DOMAIN os :
                 /\ os[o] \in LoopOrders
                 /\ Demanded(os)[o] = [status |-> os[o].status, lines |-> DemandOf(os[o].lines)]
           /\ Demanded(os) \in Seq([status : {"CONFIRMED", "DELIVERED"}, lines : Demands])
           /\ Len(Demanded(os)) = Len(os)
<1>. DEFINE T == [status : {"CONFIRMED", "DELIVERED"}, lines : Demands]
            new == Demanded(os)
<1>1. Len(os) \in Nat /\ DOMAIN os = 1..Len(os)
  OBVIOUS
<1>2. ASSUME NEW o \in 1..Len(os)
      PROVE  /\ os[o] \in LoopOrders
             /\ new[o] = [status |-> os[o].status, lines |-> DemandOf(os[o].lines)]
             /\ new[o] \in T
  <2>1. os[o] \in LoopOrders
    BY <1>1, ElementOfSeq
  <2>2. os[o].status \in {"CONFIRMED", "DELIVERED"} /\ DemandOf(os[o].lines) \in Demands
    BY <2>1, DemandTyped DEF LoopOrders
  <2>3. new[o] = [status |-> os[o].status, lines |-> DemandOf(os[o].lines)]
    BY <1>1 DEF Demanded
  <2>. QED
    BY <2>1, <2>2, <2>3
<1>3. DOMAIN new = 1..Len(os) /\ new = [o \in 1..Len(os) |-> new[o]]
  BY <1>1 DEF Demanded
<1>. HIDE DEF new, T
<1>4. new \in [1..Len(os) -> T]
  BY <1>2, <1>3
<1>5. new \in Seq(T)
  BY <1>1, <1>4, SeqDef
<1>6. Len(new) = Len(os)
  BY <1>1, <1>4
<1>. QED
  BY <1>1, <1>2, <1>3, <1>5, <1>6 DEF new, T

\* An order as createSalesOrder records it.
NewOrder(lines) == [status |-> "CONFIRMED", lines |-> lines]

LEMMA OrderAppended ==
    ASSUME StockAssumption, LineLoopsAssumption,
           NEW os \in Seq(LoopOrders), NEW lines \in Documents, NEW new,
           new = Append(os, NewOrder(lines))
    PROVE  /\ new \in Seq(LoopOrders) /\ DOMAIN os \subseteq DOMAIN new
           /\ Demanded(new) = Append(Demanded(os), NewOrder(DemandOf(lines)))
<1>. DEFINE demand == NewOrder(DemandOf(lines))
            T == [status : {"CONFIRMED", "DELIVERED"}, lines : Demands]
            order == NewOrder(lines)
            n == Len(os)
            a == Demanded(new)
            b == Append(Demanded(os), demand)
<1>1. order \in LoopOrders /\ order.status = "CONFIRMED" /\ order.lines = lines
  BY DEF LoopOrders, NewOrder
<1>2. /\ new \in Seq(LoopOrders) /\ Len(new) = n + 1 /\ n \in Nat
      /\ \A i \in 1..n : new[i] = os[i]
      /\ new[n + 1] = order
  BY <1>1
<1>3. demand \in T
  BY DemandTyped DEF NewOrder
<1>4. /\ Demanded(os) \in Seq(T) /\ Len(Demanded(os)) = n /\ DOMAIN os = 1..n
      /\ \A o \in 1..n : Demanded(os)[o] = [status |-> os[o].status, lines |-> DemandOf(os[o].lines)]
  BY DemandedIs
<1>5. /\ a \in Seq(T) /\ Len(a) = n + 1 /\ DOMAIN new = 1..n + 1
      /\ \A o \in 1..n + 1 : a[o] = [status |-> new[o].status, lines |-> DemandOf(new[o].lines)]
  BY <1>2, DemandedIs
<1>. HIDE DEF demand, T
<1>6. /\ b \in Seq(T) /\ Len(b) = n + 1
      /\ \A o \in 1..n : b[o] = Demanded(os)[o]
      /\ b[n + 1] = demand
  BY <1>2, <1>3, <1>4
<1>7. ASSUME NEW o \in 1..n + 1
      PROVE  a[o] = b[o]
  <2>1. CASE o \in 1..n
    BY <1>2, <1>4, <1>5, <1>6, <2>1
  <2>2. CASE o = n + 1
    BY <1>1, <1>2, <1>5, <1>6, <2>2 DEF demand, NewOrder
  <2>3. o \in 1..n \/ o = n + 1
    <3>. HIDE DEF a, b, n
    <3>. QED
      BY <1>2
  <2>. QED
    BY <2>1, <2>2, <2>3
<1>. HIDE DEF a, b, n
<1>8. a = b
  BY <1>5, <1>6, <1>7, SeqEqual
<1>. QED
  BY <1>2, <1>4, <1>5, <1>8 DEF a, b, demand, n

LEMMA StatusSet ==
    ASSUME StockAssumption, LineLoopsAssumption,
           NEW os \in Seq(LoopOrders), NEW o \in DOMAIN os, NEW s \in {"CONFIRMED", "DELIVERED"},
           NEW new, new = [os EXCEPT ![o].status = s]
    PROVE  /\ new \in Seq(LoopOrders) /\ DOMAIN new = DOMAIN os
           /\ Demanded(new) = [Demanded(os) EXCEPT ![o].status = s]
<1>. DEFINE order == [os[o] EXCEPT !.status = s]
            n == Len(os)
<1>1. n \in Nat /\ DOMAIN os = 1..n /\ os[o] \in LoopOrders
  BY DemandedIs
<1>2. order \in LoopOrders /\ order.status = s /\ order.lines = os[o].lines
  BY <1>1 DEF LoopOrders
<1>3. new = [os EXCEPT ![o] = order]
  OBVIOUS
<1>. HIDE DEF order
<1>4. /\ new \in Seq(LoopOrders) /\ Len(new) = n /\ DOMAIN new = 1..n
      /\ \A i \in 1..n : new[i] = IF i = o THEN order ELSE os[i]
  BY <1>1, <1>2, <1>3
<1>5. /\ DOMAIN Demanded(os) = 1..n /\ DOMAIN Demanded(new) = 1..n
      /\ \A i \in 1..n : Demanded(os)[i] = [status |-> os[i].status, lines |-> DemandOf(os[i].lines)]
      /\ \A i \in 1..n : Demanded(new)[i] = [status |-> new[i].status, lines |-> DemandOf(new[i].lines)]
  BY <1>1, <1>4, DemandedIs
<1>. DEFINE a == Demanded(new)
            b == Demanded(os)
            c == [status |-> s, lines |-> DemandOf(os[o].lines)]
            g == [b EXCEPT ![o].status = s]
<1>6. [b[o] EXCEPT !.status = s] = c
  BY <1>1, <1>5
<1>7. a = [i \in 1..n |-> a[i]] /\ b = [i \in 1..n |-> b[i]]
  BY <1>1, <1>4 DEF Demanded
<1>8. a[o] = c
  BY <1>1, <1>2, <1>4, <1>5
<1>9. ASSUME NEW i \in 1..n, i # o
      PROVE  a[i] = b[i]
  BY <1>4, <1>5, <1>9
<1>. HIDE DEF a, b, c, n
<1>10. g = [b EXCEPT ![o] = c]
  BY <1>6
<1>11. o \in 1..n
  BY <1>1
<1>. HIDE DEF g
<1>12. g = [i \in 1..n |-> IF i = o THEN c ELSE b[i]]
  BY <1>7, <1>10, <1>11
<1>13. a = [i \in 1..n |-> IF i = o THEN c ELSE b[i]]
  BY <1>7, <1>8, <1>9
<1>14. a = g
  BY <1>12, <1>13
<1>. QED
  BY <1>1, <1>4, <1>14 DEF a, b, g
-----------------------------------------------------------------------------
\* A loop that is over has processed the whole document.
LEMMA AllProcessed ==
    ASSUME LineLoopsAssumption, NEW k \in 0..Len(request.lines), Underway(k), request.left = <<>>
    PROVE  /\ k > 0 /\ k \in Nat /\ request.lines \in Documents
           /\ Prefix(request.lines, k) = DemandOf(request.lines)
<1>. DEFINE lines == request.lines
            n == Len(lines)
<1>1. lines \in Documents /\ lines \in Seq(Lines) /\ n \in Nat /\ n > 0
  BY DocumentTyped DEF Underway
<1>2. request.left = SubSeq(lines, k + 1, n)
  BY DEF Underway
<1>3. k \in Nat /\ k =< n
  BY <1>1
<1>4. k = n
  <2>1. k + 1 \in Int /\ n \in Int /\ (k # n => k + 1 =< n /\ k + 1 \in 1..n /\ n \in 1..n)
    BY <1>1, <1>3
  <2>2. ASSUME k # n
        PROVE  FALSE
    <3>1. Len(SubSeq(lines, k + 1, n)) = n - (k + 1) + 1
      BY <1>1, <1>3, <2>1, <2>2
    <3>2. Len(<<>>) = 0
      OBVIOUS
    <3>. HIDE DEF n, lines
    <3>. QED
      BY <1>1, <1>2, <1>3, <2>2, <3>1, <3>2
  <2>. QED
    BY <2>2
<1>. QED
  BY <1>1, <1>3, <1>4, PrefixAll

\* A line that cannot be served interrupts the demand of the document: the lines
\* before it did fit, and with it the demand asks more than there was.
LEMMA LineShort ==
    ASSUME StockAssumption, LineLoopsAssumption, LoopTyped,
           NEW k \in 0..Len(request.lines), Underway(k), request.left # <<>>, ~Enough(Part)
    PROVE  /\ request.kind # "CANCELLATION"
           /\ Interrupted(Prefix(request.lines, k), DemandOf(request.lines), Room(request.kind, before))
<1>. DEFINE lines == request.lines
            kind == request.kind
            d == Prefix(lines, k)
            need == DemandOf(lines)
            room == Room(kind, before)
<1>1. kind \in Kinds \ {"CANCELLATION"}
  BY DEF Enough, Underway
<1>2. /\ k \in Nat /\ k + 1 \in 0..Len(lines)
      /\ Part \in [Products -> Nat] /\ d \in [Products -> Nat]
      /\ Prefix(lines, k + 1) = Plus(d, Part)
  BY PartIs
<1>3. /\ before \in Workspaces /\ Workspace \in Workspaces
      /\ After(kind, before, Workspace, d)
      /\ Covered(kind, before, d)
      /\ lines \in Documents /\ lines \in Seq(Lines)
  BY DocumentTyped DEF Underway, LoopTyped
<1>4. need \in [Products -> Nat]
  BY <1>3, DemandTyped DEF Demands, Quantities
<1>. HIDE DEF d, need
<1>5. room \in [Products -> Int] /\ Room(kind, Workspace) = Minus(room, d)
  BY <1>1, <1>2, <1>3, RoomAfter
<1>6. PICK p \in Products : Part[p] > 0 /\ ~ (Part[p] =< Minus(room, d)[p])
  <2>1. Room(kind, Workspace) = IF kind = "DELIVERY" THEN reserved ELSE Available
    BY WorkspaceIs DEF Room, Available
  <2>2. ~ Fits(Part, Room(kind, Workspace))
    BY <1>1, <2>1 DEF Enough, Kinds
  <2>. QED
    BY <1>5, <2>2 DEF Fits
<1>7. ASSUME NEW x \in Products
      PROVE  d[x] =< need[x] /\ d[x] + Part[x] =< need[x]
  <2>1. d[x] =< need[x]
    BY <1>3, PrefixWithin DEF d, need
  <2>2. Prefix(lines, k + 1)[x] =< need[x]
    BY <1>2, <1>3, PrefixWithin DEF need
  <2>. QED
    BY <1>2, <2>1, <2>2 DEF Plus
<1>8. d[p] < need[p] /\ room[p] < need[p]
  <2>1. d[p] \in Nat /\ Part[p] \in Nat /\ need[p] \in Nat /\ room[p] \in Int
    BY <1>2, <1>4, <1>5
  <2>2. Minus(room, d)[p] = room[p] - d[p]
    BY DEF Minus
  <2>3. Part[p] > 0 /\ ~ (Part[p] =< room[p] - d[p]) /\ d[p] + Part[p] =< need[p]
    BY <1>6, <1>7, <2>2
  <2>. HIDE DEF room
  <2>. QED
    BY <2>1, <2>3
<1>9. Fits(d, room)
  BY <1>1, <1>3 DEF Covered
<1>. QED
  BY <1>1, <1>7, <1>8, <1>9 DEF Interrupted, d, need
-----------------------------------------------------------------------------
\* An order and a note of the workspace.
LEMMA OrderTyped ==
    ASSUME LoopTyped, NEW o \in DOMAIN orders
    PROVE  /\ o \in Nat /\ orders[o].lines \in Documents
           /\ orders[o] = [status |-> orders[o].status, lines |-> orders[o].lines]
           /\ orders[o].status \in {"CONFIRMED", "DELIVERED"}
<1>1. orders \in Seq(LoopOrders)
  BY WorkspaceTyped DEF LoopTyped
<1>2. orders[o] \in LoopOrders /\ o \in Nat
  BY <1>1, ElementOfSeq
<1>. QED
  BY <1>2 DEF LoopOrders

LEMMA NoteTyped ==
    ASSUME LoopTyped, NEW n \in DOMAIN notes
    PROVE  /\ n \in Nat /\ notes[n].order \in DOMAIN orders
           /\ notes[n].status \in {"POSTED", "CANCELLED"}
<1>1. notes \in Seq(LoopNotes)
  BY WorkspaceTyped DEF LoopTyped
<1>2. notes[n] \in LoopNotes /\ n \in Nat
  BY <1>1, ElementOfSeq
<1>. QED
  BY <1>2 DEF LoopNotes, LoopTyped

LEMMA BeginInv ==
    ASSUME StockAssumption, LineLoopsAssumption, LoopTyped,
           \/ \E lines \in Documents : BeginSalesOrder(lines)
           \/ \E lines \in Documents : BeginInvoice(lines)
           \/ \E o \in DOMAIN orders : BeginDeliveryNote(o)
           \/ \E n \in DOMAIN notes : BeginCancellation(n)
    PROVE  LoopInv'
<1>1. ASSUME NEW lines \in Documents, BeginSalesOrder(lines)
      PROVE  LoopInv'
  <2>. DEFINE r == [kind |-> "ORDER", lines |-> lines, left |-> lines, document |-> 0]
  <2>1. Len(orders) < MaxOrders /\ Begin("ORDER", lines, 0)
    BY <1>1 DEF BeginSalesOrder
  <2>2. Admitted(r, Workspace)
    BY <2>1, WorkspaceIs DEF Admitted
  <2>. QED
    BY <2>1, <2>2, BeginUnderway DEF Kinds
<1>2. ASSUME NEW lines \in Documents, BeginInvoice(lines)
      PROVE  LoopInv'
  <2>. DEFINE r == [kind |-> "INVOICE", lines |-> lines, left |-> lines, document |-> 0]
  <2>1. periodOpen /\ Begin("INVOICE", lines, 0)
    BY <1>2 DEF BeginInvoice
  <2>2. Admitted(r, Workspace)
    BY DEF Admitted
  <2>. QED
    BY <2>1, <2>2, BeginUnderway DEF Kinds
<1>3. ASSUME NEW o \in DOMAIN orders, BeginDeliveryNote(o)
      PROVE  LoopInv'
  <2>. DEFINE lines == orders[o].lines
              r == [kind |-> "DELIVERY", lines |-> lines, left |-> lines, document |-> o]
  <2>1. /\ Len(notes) < MaxNotes /\ Begin("DELIVERY", lines, o)
        /\ orders[o].status \notin {"CANCELLED", "DELIVERED", "INVOICED"}
    BY <1>3 DEF BeginDeliveryNote
  <2>2. /\ o \in Nat /\ lines \in Documents
        /\ orders[o] = [status |-> "CONFIRMED", lines |-> lines]
    BY <2>1, OrderTyped
  <2>3. Admitted(r, Workspace)
    <3>. HIDE DEF lines
    <3>. QED
      BY <2>1, <2>2, WorkspaceIs DEF Admitted
  <2>. HIDE DEF lines
  <2>. QED
    BY <2>1, <2>2, <2>3, BeginUnderway DEF Kinds
<1>4. ASSUME NEW n \in DOMAIN notes, BeginCancellation(n)
      PROVE  LoopInv'
  <2>. DEFINE lines == orders[notes[n].order].lines
              r == [kind |-> "CANCELLATION", lines |-> lines, left |-> lines, document |-> n]
  <2>1. notes[n].status # "CANCELLED" /\ Begin("CANCELLATION", lines, n)
    BY <1>4 DEF BeginCancellation
  <2>2. n \in Nat /\ notes[n].order \in DOMAIN orders /\ notes[n].status = "POSTED"
    BY <2>1, NoteTyped
  <2>3. lines \in Documents
    BY <2>2, OrderTyped
  <2>4. Admitted(r, Workspace)
    BY <2>2, WorkspaceIs DEF Admitted
  <2>. HIDE DEF lines
  <2>. QED
    BY <2>1, <2>2, <2>3, <2>4, BeginUnderway DEF Kinds
<1>. QED
  BY <1>1, <1>2, <1>3, <1>4

LEMMA IdleTyped ==
    /\ Idle \in Requests
    /\ Idle.kind = "NONE" /\ Idle.lines = <<>> /\ Idle.left = <<>>
BY DEF Idle, Requests

LEMMA ThrowInv ==
    ASSUME StockAssumption, LineLoopsAssumption, LoopTyped,
           NEW k \in 0..Len(request.lines), Underway(k), Throw
    PROVE  LoopInv'
<1>1. /\ onHand' = onHand \/ onHand' = before.onHand
      /\ quantity' = quantity \/ quantity' = before.quantity
      /\ UNCHANGED <<reserved, held, tracked, orders, notes>>
      /\ request' = Idle
  BY DEF Throw, Undo
<1>2. /\ before.onHand \in [Products -> Int]
      /\ before.quantity \in [Warehouses -> [Products -> Int]]
  BY DEF Underway, Workspaces
<1>3. Workspace' \in Workspaces
  BY <1>1, <1>2, WorkspaceTyped DEF LoopTyped
<1>. QED
  BY <1>1, <1>3, IdleTyped DEF LoopInv, LoopTyped

\* What Finish records, by the kind of the request.
LEMMA FinishOrder ==
    ASSUME StockAssumption, LineLoopsAssumption, LoopTyped, request.lines \in Documents,
           Finish, request.kind = "ORDER"
    PROVE  /\ Workspace' \in Workspaces
           /\ \A n \in DOMAIN notes' : notes'[n].order \in DOMAIN orders'
           /\ notes' = notes
           /\ Demanded(orders') =
                Append(Demanded(orders), NewOrder(DemandOf(request.lines)))
<1>1. /\ orders' = Append(orders, NewOrder(request.lines))
      /\ notes' = notes /\ UNCHANGED stockVars
  BY DEF Finish, NewOrder
<1>2. orders \in Seq(LoopOrders)
  BY WorkspaceTyped DEF LoopTyped
<1>3. /\ orders' \in Seq(LoopOrders) /\ DOMAIN orders \subseteq DOMAIN orders'
      /\ Demanded(orders') =
           Append(Demanded(orders), NewOrder(DemandOf(request.lines)))
  <2>. DEFINE os == orders
              new == orders'
              lines == request.lines
              result == Append(Demanded(os), NewOrder(DemandOf(lines)))
  <2>1. os \in Seq(LoopOrders) /\ lines \in Documents /\ new = Append(os, NewOrder(lines))
    BY <1>1, <1>2
  <2>. HIDE DEF os, new, lines
  <2>2. new \in Seq(LoopOrders)
    BY <2>1, OrderAppended
  <2>4. DOMAIN os \subseteq DOMAIN new
    BY <2>1, OrderAppended
  <2>5. Demanded(new) = result
    BY <2>1, OrderAppended
  <2>. QED
    BY <2>2, <2>4, <2>5 DEF os, new, lines
<1>4. Workspace' \in Workspaces
  BY <1>1, <1>3, WorkspaceTyped DEF LoopTyped, stockVars
<1>. QED
  BY <1>1, <1>3, <1>4 DEF LoopTyped

LEMMA FinishDelivery ==
    ASSUME StockAssumption, LineLoopsAssumption, LoopTyped, request.document \in DOMAIN orders,
           Finish, request.kind = "DELIVERY"
    PROVE  /\ Workspace' \in Workspaces
           /\ \A n \in DOMAIN notes' : notes'[n].order \in DOMAIN orders'
           /\ notes' = Append(notes, [order |-> request.document, status |-> "POSTED"])
           /\ Demanded(orders') = [Demanded(orders) EXCEPT ![request.document].status = "DELIVERED"]
<1>. DEFINE note == [order |-> request.document, status |-> "POSTED"]
<1>1. /\ orders' = [orders EXCEPT ![request.document].status = "DELIVERED"]
      /\ notes' = Append(notes, note) /\ UNCHANGED stockVars
  BY DEF Finish
<1>2. orders \in Seq(LoopOrders) /\ notes \in Seq(LoopNotes)
  BY WorkspaceTyped DEF LoopTyped
<1>3. /\ orders' \in Seq(LoopOrders) /\ DOMAIN orders = DOMAIN orders'
      /\ Demanded(orders') = [Demanded(orders) EXCEPT ![request.document].status = "DELIVERED"]
  BY <1>1, <1>2, StatusSet
<1>4. note \in LoopNotes /\ note.order \in DOMAIN orders
  <2>1. request.document \in Nat \ {0}
    BY <1>2
  <2>. QED
    BY <2>1 DEF LoopNotes
<1>. HIDE DEF note
<1>5. /\ notes' \in Seq(LoopNotes)
      /\ DOMAIN notes' = 1..Len(notes) + 1 /\ DOMAIN notes = 1..Len(notes) /\ Len(notes) \in Nat
      /\ notes'[Len(notes) + 1] = note
      /\ \A n \in 1..Len(notes) : notes'[n] = notes[n]
  BY <1>1, <1>2, <1>4
<1>6. ASSUME NEW n \in DOMAIN notes'
      PROVE  notes'[n].order \in DOMAIN orders'
  <2>1. CASE n \in DOMAIN notes
    BY <1>3, <1>5, <2>1 DEF LoopTyped
  <2>2. CASE n = Len(notes) + 1
    BY <1>3, <1>4, <1>5, <2>2
  <2>3. n \in DOMAIN notes \/ n = Len(notes) + 1
    BY <1>5
  <2>. QED
    BY <2>1, <2>2, <2>3
<1>7. Workspace' \in Workspaces
  BY <1>1, <1>3, <1>5, WorkspaceTyped DEF LoopTyped, stockVars
<1>. QED
  BY <1>1, <1>3, <1>6, <1>7 DEF note

LEMMA FinishCancellation ==
    ASSUME StockAssumption, LineLoopsAssumption, LoopTyped, request.document \in DOMAIN notes,
           Finish, request.kind = "CANCELLATION"
    PROVE  /\ Workspace' \in Workspaces
           /\ \A n \in DOMAIN notes' : notes'[n].order \in DOMAIN orders'
           /\ notes' = [notes EXCEPT ![request.document].status = "CANCELLED"]
           /\ Demanded(orders') =
                [Demanded(orders) EXCEPT ![notes[request.document].order].status = "CONFIRMED"]
<1>. DEFINE d == request.document
            o == notes[d].order
            note == [notes[d] EXCEPT !.status = "CANCELLED"]
<1>1. /\ orders' = [orders EXCEPT ![o].status = "CONFIRMED"]
      /\ notes' = [notes EXCEPT ![d].status = "CANCELLED"] /\ UNCHANGED stockVars
  BY DEF Finish
<1>2. orders \in Seq(LoopOrders) /\ notes \in Seq(LoopNotes)
  BY WorkspaceTyped DEF LoopTyped
<1>3. o \in DOMAIN orders
  BY DEF LoopTyped
<1>4. /\ orders' \in Seq(LoopOrders) /\ DOMAIN orders = DOMAIN orders'
      /\ Demanded(orders') = [Demanded(orders) EXCEPT ![o].status = "CONFIRMED"]
  <2>. HIDE DEF o
  <2>. QED
    BY <1>1, <1>2, <1>3, StatusSet
<1>5. notes' = [notes EXCEPT ![d] = note]
  BY <1>1
<1>6. note \in LoopNotes /\ note.order = o
  <2>1. notes[d] \in LoopNotes
    BY <1>2, ElementOfSeq
  <2>. QED
    BY <2>1 DEF LoopNotes
<1>. HIDE DEF note
<1>7. /\ notes' \in Seq(LoopNotes) /\ DOMAIN notes' = DOMAIN notes
      /\ \A n \in DOMAIN notes : notes'[n] = IF n = d THEN note ELSE notes[n]
  BY <1>2, <1>5, <1>6
<1>8. ASSUME NEW n \in DOMAIN notes'
      PROVE  notes'[n].order \in DOMAIN orders'
  BY <1>3, <1>4, <1>6, <1>7 DEF LoopTyped
<1>9. Workspace' \in Workspaces
  BY <1>1, <1>4, <1>7, WorkspaceTyped DEF LoopTyped, stockVars
<1>. QED
  BY <1>1, <1>4, <1>8, <1>9

LEMMA FinishInv ==
    ASSUME StockAssumption, LineLoopsAssumption, LoopTyped,
           NEW k \in 0..Len(request.lines), Underway(k), Finish
    PROVE  LoopInv'
<1>1. request' = Idle /\ tracked' = tracked /\ UNCHANGED stockVars
  BY DEF Finish, stockVars
<1>2. /\ request.kind \in Kinds /\ request.lines \in Documents
      /\ before \in Workspaces /\ Admitted(request, before)
      /\ before.orders = orders /\ before.notes = notes
  BY WorkspaceIs DEF Underway, After
<1>3. Workspace' \in Workspaces /\ \A n \in DOMAIN notes' : notes'[n].order \in DOMAIN orders'
  <2>1. CASE request.kind = "ORDER"
    BY <1>2, <2>1, FinishOrder
  <2>2. CASE request.kind = "DELIVERY"
    BY <1>2, <2>2, FinishDelivery DEF Admitted
  <2>3. CASE request.kind = "CANCELLATION"
    BY <1>2, <2>3, FinishCancellation DEF Admitted
  <2>4. CASE request.kind = "INVOICE"
    <3>1. UNCHANGED <<orders, notes>>
      BY <2>4 DEF Finish
    <3>. QED
      BY <1>1, <3>1, WorkspaceTyped DEF LoopTyped, stockVars
  <2>. QED
    BY <1>2, <2>1, <2>2, <2>3, <2>4 DEF Kinds
<1>. QED
  BY <1>1, <1>3, IdleTyped DEF LoopInv, LoopTyped

LEMMA LoopInitInv ==
    ASSUME StockAssumption, LoopInit
    PROVE  LoopInv
<1>1. Main \in Warehouses /\ MaxStock \in Nat
  BY DEF StockAssumption
<1>2. /\ onHand \in [Products -> Int] /\ reserved \in [Products -> Nat]
      /\ quantity \in [Warehouses -> [Products -> Int]]
      /\ held \in [Warehouses -> [Products -> Nat]]
      /\ orders \in Seq(LoopOrders) /\ notes \in Seq(LoopNotes) /\ DOMAIN notes = {}
      /\ tracked = [p \in Products |-> TRUE]
  BY <1>1 DEF LoopInit, StockInit
<1>3. Workspace \in Workspaces
  BY <1>2, WorkspaceTyped
<1>. QED
  BY <1>2, <1>3, IdleTyped DEF LoopInit, LoopInv, LoopTyped

LEMMA LoopStepInv ==
    ASSUME StockAssumption, LineLoopsAssumption, LoopInv, [LoopNext]_loopVars
    PROVE  LoopInv'
<1>1. LoopTyped /\ (request = Idle \/ \E k \in 0..Len(request.lines) : Underway(k))
  BY DEF LoopInv
<1>2. ASSUME request # Idle
      PROVE  \E k \in 0..Len(request.lines) : Underway(k)
  BY <1>1, <1>2
<1>3. CASE \/ \E lines \in Documents : BeginSalesOrder(lines)
           \/ \E lines \in Documents : BeginInvoice(lines)
           \/ \E o \in DOMAIN orders : BeginDeliveryNote(o)
           \/ \E n \in DOMAIN notes : BeginCancellation(n)
  BY <1>1, <1>3, BeginInv
<1>4. CASE ProcessLine
  <2>1. request # Idle
    BY <1>4, IdleTyped DEF ProcessLine
  <2>. QED
    BY <1>1, <1>2, <1>4, <2>1, ProcessUnderway
<1>5. CASE Throw
  <2>1. request # Idle
    BY <1>5, IdleTyped DEF Throw
  <2>. QED
    BY <1>1, <1>2, <1>5, <2>1, ThrowInv
<1>6. CASE Finish
  <2>1. request # Idle
    BY <1>6 DEF Finish
  <2>. QED
    BY <1>1, <1>2, <1>6, <2>1, FinishInv
<1>7. CASE request = Idle /\ SetPeriod /\ UNCHANGED <<orders, notes, request, before>>
  <2>1. request' = Idle /\ UNCHANGED <<onHand, reserved, tracked, quantity, held, orders, notes>>
    BY <1>7 DEF SetPeriod
  <2>2. Workspace' \in Workspaces
    BY <1>1, <2>1, WorkspaceTyped DEF LoopTyped
  <2>. QED
    BY <1>1, <2>1, <2>2, IdleTyped DEF LoopInv, LoopTyped
<1>8. CASE UNCHANGED loopVars
  <2>1. /\ request' = request /\ before' = before /\ tracked' = tracked /\ periodOpen' = periodOpen
        /\ orders' = orders /\ notes' = notes /\ Workspace' = Workspace
    BY <1>8 DEF loopVars, stockVars, Workspace
  <2>2. LoopTyped'
    BY <1>1, <2>1 DEF LoopTyped
  <2>3. ASSUME NEW k \in 0..Len(request.lines), Underway(k)
        PROVE  Underway(k)'
    BY <2>1, <2>3 DEF Underway
  <2>. QED
    BY <1>1, <2>1, <2>2, <2>3 DEF LoopInv
<1>. QED
  BY <1>3, <1>4, <1>5, <1>6, <1>7, <1>8 DEF LoopNext

\* While a request is executed, the workspace is the one it found, changed by
\* the lines processed so far, and those lines did fit in it: the loop of
\* createSalesOrder, createInvoice, createDeliveryNoteFromOrder and
\* cancelDeliveryNote at every line.
THEOREM LoopKeepsPace ==
    ASSUME StockAssumption, LineLoopsAssumption
    PROVE  LoopSpec => []LoopInv
<1>1. LoopInit => LoopInv
  BY LoopInitInv
<1>2. LoopInv /\ [LoopNext]_loopVars => LoopInv'
  BY LoopStepInv
<1>. QED
  BY <1>1, <1>2, PTL DEF LoopSpec
-----------------------------------------------------------------------------
\* The same operators, in Sales as it is seen from between the requests.
LEMMA SeenOperators ==
    ASSUME tracked = [p \in Products |-> TRUE], NEW d \in [Products -> Nat]
    PROVE  /\ Atomic!Stocked(d) = d /\ Atomic!Stocked(Atomic!Negated(d)) = Atomic!Negated(d)
           /\ Atomic!Available = Minus(Seen.onHand, Seen.reserved)
           /\ \A f : Atomic!Plus(f, d) = Plus(f, d) /\ Atomic!Minus(f, d) = Minus(f, d)
           /\ \A f : Atomic!Clamped(f, d) = Clamped(f, d)
           /\ \A f \in [Products -> Int] : Atomic!Plus(f, Atomic!Negated(d)) = Minus(f, d)
           /\ \A room : Atomic!Fits(d, room) <=> Fits(d, room)
           /\ \A f : Atomic!InRange(f) <=> InRange(f)
           /\ Atomic!Demands = Demands /\ Atomic!Quantities = Quantities
<1>1. Atomic!Stocked(d) = d /\ Atomic!Stocked(Atomic!Negated(d)) = Atomic!Negated(d)
  BY DEF Atomic!Stocked, Atomic!Negated
<1>2. Atomic!Available = Minus(Seen.onHand, Seen.reserved)
  BY DEF Atomic!Available, Atomic!Minus, Minus
<1>3. ASSUME NEW f
      PROVE  /\ Atomic!Plus(f, d) = Plus(f, d) /\ Atomic!Minus(f, d) = Minus(f, d)
             /\ Atomic!Clamped(f, d) = Clamped(f, d)
             /\ Atomic!InRange(f) <=> InRange(f)
  BY DEF Atomic!Plus, Plus, Atomic!Minus, Minus, Atomic!Clamped, Clamped, Atomic!InRange, InRange
<1>4. ASSUME NEW f \in [Products -> Int]
      PROVE  Atomic!Plus(f, Atomic!Negated(d)) = Minus(f, d)
  BY DEF Atomic!Plus, Atomic!Negated, Minus
<1>5. ASSUME NEW room
      PROVE  Atomic!Fits(d, room) <=> Fits(d, room)
  BY DEF Atomic!Fits, Fits
<1>6. Atomic!Demands = Demands /\ Atomic!Quantities = Quantities
  BY DEF Atomic!Demands, Demands, Atomic!Quantities, Quantities
<1>. QED
  BY <1>1, <1>2, <1>3, <1>4, <1>5, <1>6

\* What is seen does not change.
LEMMA NothingSeen ==
    ASSUME Seen' = Seen, UNCHANGED <<tracked, periodOpen>>
    PROVE  UNCHANGED Atomic!allSalesVars
BY DEF Atomic!allSalesVars, Atomic!stockVars, Atomic!salesVars

LEMMA OrderSeen ==
    ASSUME tracked = [p \in Products |-> TRUE], NEW d \in [Products -> Nat],
           Len(Demanded(Seen.orders)) < MaxOrders,
           Fits(d, Minus(Seen.onHand, Seen.reserved)),
           Seen'.reserved = Plus(Seen.reserved, d),
           Seen'.held = [Seen.held EXCEPT ![Main] = Plus(@, d)], InRange(Seen'.held[Main]),
           Demanded(Seen'.orders) = Append(Demanded(Seen.orders), NewOrder(d)),
           Seen'.onHand = Seen.onHand, Seen'.quantity = Seen.quantity, Seen'.notes = Seen.notes,
           UNCHANGED <<tracked, periodOpen>>
    PROVE  Atomic!CreateSalesOrder(d)
<1>1. Atomic!Fits(Atomic!Stocked(d), Atomic!Available)
  BY SeenOperators
<1>2. Atomic!Stocked(d) = d
  BY SeenOperators
<1>3. Atomic!Reserve(Main, d)
  BY SeenOperators DEF Atomic!Reserve
<1>. QED
  BY <1>1, <1>2, <1>3 DEF Atomic!CreateSalesOrder, NewOrder

LEMMA OrderRejectionSeen ==
    ASSUME tracked = [p \in Products |-> TRUE],
           NEW d \in [Products -> Nat], NEW done \in [Products -> Nat],
           Interrupted(done, d, Minus(Seen.onHand, Seen.reserved)),
           Seen'.reserved = Plus(Seen.reserved, done),
           Seen'.held = [Seen.held EXCEPT ![Main] = Plus(@, done)], InRange(Seen'.held[Main]),
           Seen'.orders = Seen.orders,
           Seen'.onHand = Seen.onHand, Seen'.quantity = Seen.quantity, Seen'.notes = Seen.notes,
           UNCHANGED <<tracked, periodOpen>>
    PROVE  Atomic!RejectSalesOrder(d, done)
<1>1. Atomic!Interrupted(done, Atomic!Stocked(d), Atomic!Available)
  BY SeenOperators DEF Atomic!Interrupted, Interrupted
<1>2. Atomic!Reserve(Main, done)
  BY SeenOperators DEF Atomic!Reserve
<1>. QED
  BY <1>1, <1>2 DEF Atomic!RejectSalesOrder

\* The goods of a request leave the main warehouse.
LEMMA ShipSeen ==
    ASSUME tracked = [p \in Products |-> TRUE], NEW d \in [Products -> Nat],
           Main \in Warehouses, Seen \in Workspaces,
           Seen'.onHand = Minus(Seen.onHand, d),
           Seen'.quantity = [Seen.quantity EXCEPT ![Main] = Minus(@, d)],
           InRange(Seen'.onHand), InRange(Seen'.quantity[Main])
    PROVE  Atomic!Move(Main, Atomic!Negated(d))
<1>1. Seen.onHand \in [Products -> Int] /\ Seen.quantity[Main] \in [Products -> Int]
  BY DEF Workspaces
<1>2. /\ Atomic!Plus(Seen.onHand, Atomic!Negated(d)) = Minus(Seen.onHand, d)
      /\ Atomic!Plus(Seen.quantity[Main], Atomic!Negated(d)) = Minus(Seen.quantity[Main], d)
      /\ Atomic!Stocked(Atomic!Negated(d)) = Atomic!Negated(d)
      /\ Atomic!InRange(Seen'.onHand) /\ Atomic!InRange(Seen'.quantity[Main])
  BY <1>1, SeenOperators
<1>. QED
  BY <1>2 DEF Atomic!Move

LEMMA DeliverySeen ==
    ASSUME tracked = [p \in Products |-> TRUE], NEW d \in [Products -> Nat], NEW o,
           Len(Seen.notes) < MaxNotes,
           Demanded(Seen.orders)[o] = NewOrder(d),
           Fits(d, Seen.reserved),
           Seen'.reserved = Minus(Seen.reserved, d),
           Seen'.held = [Seen.held EXCEPT ![Main] = Clamped(@, d)],
           Atomic!Move(Main, Atomic!Negated(d)),
           Seen'.notes = Append(Seen.notes, [order |-> o, status |-> "POSTED"]),
           Demanded(Seen'.orders) = [Demanded(Seen.orders) EXCEPT ![o].status = "DELIVERED"],
           UNCHANGED <<tracked, periodOpen>>
    PROVE  Atomic!CreateDeliveryNoteFromOrder(o)
<1>1. Demanded(Seen.orders)[o].status = "CONFIRMED" /\ Demanded(Seen.orders)[o].lines = d
  BY DEF NewOrder
<1>2. Atomic!Deliverable(Demanded(Seen.orders)[o].status)
  BY <1>1 DEF Atomic!Deliverable
<1>3. Atomic!Stocked(Demanded(Seen.orders)[o].lines) = d
  BY <1>1, SeenOperators
<1>4. Atomic!Fits(d, Seen.reserved)
  BY SeenOperators
<1>5. Atomic!Ship(d)
  BY SeenOperators DEF Atomic!Ship
<1>6. Atomic!SetStatus(o, "DELIVERED")
  BY DEF Atomic!SetStatus
<1>. QED
  BY <1>2, <1>3, <1>4, <1>5, <1>6 DEF Atomic!CreateDeliveryNoteFromOrder

LEMMA DeliveryRejectionSeen ==
    ASSUME tracked = [p \in Products |-> TRUE],
           NEW d \in [Products -> Nat], NEW done \in [Products -> Nat], NEW o,
           Demanded(Seen.orders)[o] = NewOrder(d),
           Interrupted(done, d, Seen.reserved),
           Seen'.reserved = Minus(Seen.reserved, done),
           Seen'.held = [Seen.held EXCEPT ![Main] = Clamped(@, done)],
           Atomic!Move(Main, Atomic!Negated(done)),
           Seen'.orders = Seen.orders, Seen'.notes = Seen.notes,
           UNCHANGED <<tracked, periodOpen>>
    PROVE  Atomic!RejectDeliveryNote(o, done)
<1>1. Demanded(Seen.orders)[o].status = "CONFIRMED" /\ Demanded(Seen.orders)[o].lines = d
  BY DEF NewOrder
<1>2. Atomic!Deliverable(Demanded(Seen.orders)[o].status)
  BY <1>1 DEF Atomic!Deliverable
<1>3. Atomic!Stocked(Demanded(Seen.orders)[o].lines) = d
  BY <1>1, SeenOperators
<1>4. Atomic!Interrupted(done, d, Seen.reserved)
  BY SeenOperators DEF Atomic!Interrupted, Interrupted
<1>5. Atomic!Ship(done)
  BY SeenOperators DEF Atomic!Ship
<1>. QED
  BY <1>2, <1>3, <1>4, <1>5 DEF Atomic!RejectDeliveryNote

LEMMA CancellationSeen ==
    ASSUME tracked = [p \in Products |-> TRUE], NEW d \in [Products -> Nat], NEW n, NEW o,
           Seen.notes[n].status = "POSTED", Seen.notes[n].order = o,
           Demanded(Seen.orders)[o].lines = d,
           Demanded(Seen.orders)[o].status # "INVOICED",
           Seen'.onHand = Plus(Seen.onHand, d),
           Seen'.quantity = [Seen.quantity EXCEPT ![Main] = Plus(@, d)],
           InRange(Seen'.onHand), InRange(Seen'.quantity[Main]),
           Seen'.reserved = Seen.reserved, Seen'.held = Seen.held,
           Seen'.notes = [Seen.notes EXCEPT ![n].status = "CANCELLED"],
           Demanded(Seen'.orders) = [Demanded(Seen.orders) EXCEPT ![o].status = "CONFIRMED"],
           UNCHANGED <<tracked, periodOpen>>
    PROVE  Atomic!CancelDeliveryNote(n)
<1>1. Atomic!Move(Main, d)
  BY SeenOperators DEF Atomic!Move
<1>2. Atomic!Stocked(Demanded(Seen.orders)[o].lines) = d
  BY SeenOperators
<1>3. Atomic!SetStatus(o, "CONFIRMED")
  BY DEF Atomic!SetStatus
<1>. QED
  BY <1>1, <1>2, <1>3 DEF Atomic!CancelDeliveryNote

LEMMA InvoiceSeen ==
    ASSUME tracked = [p \in Products |-> TRUE], NEW d \in [Products -> Nat], periodOpen,
           Fits(d, Minus(Seen.onHand, Seen.reserved)),
           Atomic!Move(Main, Atomic!Negated(d)),
           Seen'.reserved = Seen.reserved, Seen'.held = Seen.held,
           Seen'.orders = Seen.orders, Seen'.notes = Seen.notes,
           UNCHANGED <<tracked, periodOpen>>
    PROVE  Atomic!CreateInvoice(d)
<1>1. Atomic!Fits(Atomic!Stocked(d), Atomic!Available)
  BY SeenOperators
<1>2. Atomic!Move(Main, Atomic!Negated(Atomic!Stocked(d)))
  BY SeenOperators
<1>. QED
  BY <1>1, <1>2 DEF Atomic!CreateInvoice, Atomic!salesVars

LEMMA PeriodSeen ==
    ASSUME Seen' = Seen, SetPeriod
    PROVE  Atomic!SetPeriod /\ UNCHANGED Atomic!salesVars
BY DEF SetPeriod, Atomic!SetPeriod, Atomic!salesVars
-----------------------------------------------------------------------------
\* What is seen before and after a step.
LEMMA SeenIs ==
    /\ request = Idle => Seen = Workspace
    /\ request # Idle => Seen = before
    /\ request' = Idle => Seen' = Workspace'
    /\ request' # Idle => Seen' = before'
BY DEF Seen

\* A request that has ended well is one step of Sales, for the whole demand.
LEMMA FinishSeen ==
    ASSUME StockAssumption, LineLoopsAssumption, LoopTyped,
           NEW k \in 0..Len(request.lines), Underway(k), Finish
    PROVE  Atomic!SalesNext
<1>. DEFINE d == DemandOf(request.lines)
            o == request.document
            w == before
            v == Workspace
<1>1. request # Idle /\ request' = Idle /\ request.left = <<>> /\ UNCHANGED stockVars
  BY DEF Finish
<1>2. Seen = w /\ Seen' = Workspace'
  BY <1>1, SeenIs
<1>3. /\ k > 0 /\ request.lines \in Documents
      /\ After(request.kind, w, v, d) /\ Covered(request.kind, w, d) /\ Ranged(request.kind, v)
      /\ w \in Workspaces /\ Admitted(request, w) /\ request.kind \in Kinds
      /\ request.kind = "INVOICE" => periodOpen
  BY <1>1, AllProcessed DEF Underway
<1>4. /\ Workspace'.onHand = v.onHand /\ Workspace'.reserved = v.reserved
      /\ Workspace'.quantity = v.quantity /\ Workspace'.held = v.held
      /\ UNCHANGED <<tracked, periodOpen>>
  BY <1>1, WorkspaceIs DEF stockVars
<1>5. /\ w.orders = orders /\ w.notes = notes
      /\ Workspace'.orders = orders' /\ Workspace'.notes = notes'
  BY <1>3, WorkspaceIs DEF After
<1>6. d \in Demands /\ d \in [Products -> Nat]
  BY <1>3, DemandTyped DEF Demands, Quantities
<1>7. Atomic!Demands = Demands /\ tracked = [p \in Products |-> TRUE] /\ Main \in Warehouses
  BY <1>6, SeenOperators DEF LoopTyped, StockAssumption
<1>8. orders \in Seq(LoopOrders) /\ Len(Demanded(orders)) = Len(orders)
      /\ DOMAIN Demanded(orders) = DOMAIN orders
  <2>1. orders \in Seq(LoopOrders)
    BY WorkspaceTyped DEF LoopTyped
  <2>. QED
    BY <2>1, DemandedIs
<1>. HIDE DEF d
<1>9. CASE request.kind = "ORDER"
  <2>1. /\ v.onHand = w.onHand /\ v.quantity = w.quantity
        /\ v.reserved = Plus(w.reserved, d)
        /\ v.held = [w.held EXCEPT ![Main] = Plus(@, d)]
        /\ Fits(d, Minus(w.onHand, w.reserved)) /\ InRange(v.held[Main])
        /\ Len(w.orders) < MaxOrders
    BY <1>3, <1>9 DEF After, Covered, Room, Ranged, Admitted
  <2>2. notes' = notes /\ Demanded(orders') = Append(Demanded(orders), NewOrder(d))
    BY <1>3, <1>9, FinishOrder DEF d
  <2>3. /\ Len(Demanded(Seen.orders)) < MaxOrders
        /\ Fits(d, Minus(Seen.onHand, Seen.reserved))
        /\ Seen'.reserved = Plus(Seen.reserved, d)
        /\ Seen'.held = [Seen.held EXCEPT ![Main] = Plus(@, d)] /\ InRange(Seen'.held[Main])
        /\ Demanded(Seen'.orders) = Append(Demanded(Seen.orders), NewOrder(d))
        /\ Seen'.onHand = Seen.onHand /\ Seen'.quantity = Seen.quantity
        /\ Seen'.notes = Seen.notes
    BY <1>2, <1>4, <1>5, <1>8, <2>1, <2>2
  <2>4. Atomic!CreateSalesOrder(d)
    BY <1>4, <1>6, <1>7, <2>3, OrderSeen
  <2>. QED
    BY <1>6, <1>7, <2>4 DEF Atomic!SalesNext, Atomic!SalesStep
<1>10. CASE request.kind = "INVOICE"
  <2>1. /\ v.onHand = Minus(w.onHand, d)
        /\ v.quantity = [w.quantity EXCEPT ![Main] = Minus(@, d)]
        /\ v.reserved = w.reserved /\ v.held = w.held
        /\ Fits(d, Minus(w.onHand, w.reserved))
        /\ InRange(v.onHand) /\ InRange(v.quantity[Main])
    BY <1>3, <1>10 DEF After, Covered, Room, Ranged
  <2>2. orders' = orders /\ notes' = notes
    BY <1>10 DEF Finish
  <2>3. /\ Seen \in Workspaces
        /\ Seen'.onHand = Minus(Seen.onHand, d)
        /\ Seen'.quantity = [Seen.quantity EXCEPT ![Main] = Minus(@, d)]
        /\ Seen'.reserved = Seen.reserved /\ Seen'.held = Seen.held
        /\ Fits(d, Minus(Seen.onHand, Seen.reserved))
        /\ InRange(Seen'.onHand) /\ InRange(Seen'.quantity[Main])
        /\ Seen'.orders = Seen.orders /\ Seen'.notes = Seen.notes
    BY <1>2, <1>3, <1>4, <1>5, <2>1, <2>2
  <2>4. Atomic!Move(Main, Atomic!Negated(d))
    BY <1>6, <1>7, <2>3, ShipSeen
  <2>5. Atomic!CreateInvoice(d)
    BY <1>3, <1>4, <1>6, <1>7, <1>10, <2>3, <2>4, InvoiceSeen
  <2>. QED
    BY <1>6, <1>7, <2>5 DEF Atomic!SalesNext, Atomic!SalesStep
<1>11. CASE request.kind = "DELIVERY"
  <2>1. /\ v.onHand = Minus(w.onHand, d)
        /\ v.quantity = [w.quantity EXCEPT ![Main] = Minus(@, d)]
        /\ v.reserved = Minus(w.reserved, d)
        /\ v.held = [w.held EXCEPT ![Main] = Clamped(@, d)]
        /\ Fits(d, w.reserved)
        /\ InRange(v.onHand) /\ InRange(v.quantity[Main])
        /\ Len(w.notes) < MaxNotes /\ o \in DOMAIN orders
        /\ orders[o] = [status |-> "CONFIRMED", lines |-> request.lines]
    BY <1>3, <1>5, <1>11 DEF After, Covered, Room, Ranged, Admitted
  <2>2. /\ notes' = Append(notes, [order |-> o, status |-> "POSTED"])
        /\ Demanded(orders') = [Demanded(orders) EXCEPT ![o].status = "DELIVERED"]
    BY <1>11, <2>1, FinishDelivery
  <2>3. Demanded(orders)[o] = NewOrder(d)
    BY <2>1 DEF Demanded, NewOrder, d
  <2>4. /\ Seen \in Workspaces
        /\ Seen'.onHand = Minus(Seen.onHand, d)
        /\ Seen'.quantity = [Seen.quantity EXCEPT ![Main] = Minus(@, d)]
        /\ Seen'.reserved = Minus(Seen.reserved, d)
        /\ Seen'.held = [Seen.held EXCEPT ![Main] = Clamped(@, d)]
        /\ Fits(d, Seen.reserved)
        /\ InRange(Seen'.onHand) /\ InRange(Seen'.quantity[Main])
    BY <1>2, <1>3, <1>4, <2>1
  <2>5. /\ Len(Seen.notes) < MaxNotes
        /\ Demanded(Seen.orders)[o] = NewOrder(d)
        /\ Seen'.notes = Append(Seen.notes, [order |-> o, status |-> "POSTED"])
        /\ Demanded(Seen'.orders) = [Demanded(Seen.orders) EXCEPT ![o].status = "DELIVERED"]
    BY <1>2, <1>5, <2>1, <2>2, <2>3
  <2>6. Atomic!Move(Main, Atomic!Negated(d))
    BY <1>6, <1>7, <2>4, ShipSeen
  <2>7. Atomic!CreateDeliveryNoteFromOrder(o)
    BY <1>4, <1>6, <1>7, <2>4, <2>5, <2>6, DeliverySeen
  <2>8. o \in DOMAIN Demanded(Seen.orders)
    BY <1>2, <1>5, <1>8, <2>1
  <2>. QED
    BY <2>7, <2>8 DEF Atomic!SalesNext, Atomic!SalesStep
<1>12. CASE request.kind = "CANCELLATION"
  <2>. DEFINE c == notes[o].order
  <2>1. /\ v.onHand = Plus(w.onHand, d)
        /\ v.quantity = [w.quantity EXCEPT ![Main] = Plus(@, d)]
        /\ v.reserved = w.reserved /\ v.held = w.held
        /\ InRange(v.onHand) /\ InRange(v.quantity[Main])
        /\ o \in DOMAIN notes /\ notes[o].status = "POSTED" /\ c \in DOMAIN orders
        /\ orders[c].lines = request.lines
    BY <1>3, <1>5, <1>12 DEF After, Ranged, Admitted
  <2>2. /\ notes' = [notes EXCEPT ![o].status = "CANCELLED"]
        /\ Demanded(orders') = [Demanded(orders) EXCEPT ![c].status = "CONFIRMED"]
    BY <1>12, <2>1, FinishCancellation
  <2>3. Demanded(orders)[c].lines = d /\ Demanded(orders)[c].status # "INVOICED"
    <3>1. Demanded(orders)[c] = [status |-> orders[c].status, lines |-> DemandOf(request.lines)]
      BY <2>1 DEF Demanded
    <3>2. orders[c].status \in {"CONFIRMED", "DELIVERED"}
      BY <2>1, OrderTyped
    <3>. QED
      BY <3>1, <3>2 DEF d
  <2>. HIDE DEF c
  <2>4. /\ Seen'.onHand = Plus(Seen.onHand, d)
        /\ Seen'.quantity = [Seen.quantity EXCEPT ![Main] = Plus(@, d)]
        /\ Seen'.reserved = Seen.reserved /\ Seen'.held = Seen.held
        /\ InRange(Seen'.onHand) /\ InRange(Seen'.quantity[Main])
    BY <1>2, <1>4, <2>1
  <2>5. /\ Seen.notes[o].status = "POSTED" /\ Seen.notes[o].order = c
        /\ Demanded(Seen.orders)[c].lines = d
        /\ Demanded(Seen.orders)[c].status # "INVOICED"
        /\ Seen'.notes = [Seen.notes EXCEPT ![o].status = "CANCELLED"]
        /\ Demanded(Seen'.orders) = [Demanded(Seen.orders) EXCEPT ![c].status = "CONFIRMED"]
    BY <1>2, <1>5, <2>1, <2>2, <2>3 DEF c
  <2>6. Atomic!CancelDeliveryNote(o)
    BY <1>4, <1>6, <1>7, <2>4, <2>5, CancellationSeen
  <2>7. o \in DOMAIN Seen.notes
    BY <1>2, <1>5, <2>1
  <2>. QED
    BY <2>6, <2>7 DEF Atomic!SalesNext, Atomic!SalesStep
<1>. QED
  BY <1>3, <1>9, <1>10, <1>11, <1>12 DEF Kinds

\* A request that has thrown is the rejection of Sales for what was processed by
\* then, or nothing at all.
LEMMA ThrowSeen ==
    ASSUME StockAssumption, LineLoopsAssumption, LoopTyped,
           NEW k \in 0..Len(request.lines), Underway(k), Throw
    PROVE  Atomic!SalesNext \/ UNCHANGED Atomic!allSalesVars
<1>. DEFINE need == DemandOf(request.lines)
            d == Prefix(request.lines, k)
            o == request.document
            w == before
            v == Workspace
<1>1. request # Idle /\ request' = Idle /\ request.left # <<>> /\ ~Enough(Part)
  BY IdleTyped DEF Throw
<1>2. Seen = w /\ Seen' = Workspace'
  BY <1>1, SeenIs
<1>3. /\ request.lines \in Documents /\ request.lines \in Seq(Lines)
      /\ After(request.kind, w, v, d) /\ (k > 0 => Ranged(request.kind, v))
      /\ w \in Workspaces /\ v \in Workspaces /\ Admitted(request, w)
      /\ request.kind \in Kinds /\ k \in Nat
  BY DocumentTyped DEF Underway, LoopTyped
<1>4. request.kind # "CANCELLATION" /\ Interrupted(d, need, Room(request.kind, w))
  BY <1>1, LineShort
<1>5. UNCHANGED <<reserved, held, tracked, periodOpen, orders, notes>>
  BY DEF Throw
<1>6. request.kind # "INVOICE" => Workspace' = v
  BY <1>5 DEF Throw, Workspace
<1>7. /\ need \in Demands /\ need \in [Products -> Nat]
      /\ d \in Quantities /\ d \in [Products -> Nat]
  BY <1>3, DemandTyped DEF Demands, Quantities
<1>8. /\ Atomic!Demands = Demands /\ Atomic!Quantities = Quantities
      /\ tracked = [p \in Products |-> TRUE] /\ Main \in Warehouses
  BY <1>7, SeenOperators DEF LoopTyped, StockAssumption
<1>9. CASE request.kind = "INVOICE"
  <2>1. /\ v.reserved = w.reserved /\ v.held = w.held
        /\ v.orders = w.orders /\ v.notes = w.notes
    BY <1>3, <1>9 DEF After
  <2>2. onHand' = w.onHand /\ quantity' = w.quantity
    BY <1>9 DEF Throw, Undo
  <2>3. /\ Workspace'.onHand = w.onHand /\ Workspace'.quantity = w.quantity
        /\ Workspace'.reserved = w.reserved /\ Workspace'.held = w.held
        /\ Workspace'.orders = w.orders /\ Workspace'.notes = w.notes
    BY <1>5, <2>1, <2>2, WorkspaceIs
  <2>4. Workspace' \in Workspaces
    <3>1. /\ onHand' \in [Products -> Int]
          /\ quantity' \in [Warehouses -> [Products -> Int]]
      BY <1>3, <2>2 DEF Workspaces
    <3>. QED
      BY <1>3, <1>5, <3>1, WorkspaceTyped
  <2>5. Workspace' = w
    BY <1>3, <2>3, <2>4, SameFields
  <2>. QED
    BY <1>2, <1>5, <2>5, NothingSeen
<1>10. CASE k = 0 /\ request.kind # "INVOICE"
  <2>1. d = Nothing
    BY <1>10, PrefixNone
  <2>2. After(request.kind, w, w, d)
    BY <1>3, <2>1, AfterNothing
  <2>. HIDE DEF d
  <2>3. v = w
    BY <1>3, <2>2, AfterUnique
  <2>. QED
    BY <1>2, <1>5, <1>6, <1>10, <2>3, NothingSeen
<1>. HIDE DEF d, need
<1>11. CASE k > 0 /\ request.kind = "ORDER"
  <2>1. /\ v.onHand = w.onHand /\ v.quantity = w.quantity
        /\ v.reserved = Plus(w.reserved, d)
        /\ v.held = [w.held EXCEPT ![Main] = Plus(@, d)]
        /\ InRange(v.held[Main])
        /\ v.orders = w.orders /\ v.notes = w.notes
        /\ Interrupted(d, need, Minus(w.onHand, w.reserved))
    BY <1>3, <1>4, <1>11 DEF After, Room, Ranged
  <2>2. /\ Seen'.onHand = Seen.onHand /\ Seen'.quantity = Seen.quantity
        /\ Seen'.reserved = Plus(Seen.reserved, d)
        /\ Seen'.held = [Seen.held EXCEPT ![Main] = Plus(@, d)]
        /\ InRange(Seen'.held[Main])
        /\ Seen'.orders = Seen.orders /\ Seen'.notes = Seen.notes
        /\ Interrupted(d, need, Minus(Seen.onHand, Seen.reserved))
    BY <1>2, <1>6, <1>11, <2>1
  <2>3. Atomic!RejectSalesOrder(need, d)
    BY <1>5, <1>7, <1>8, <2>2, OrderRejectionSeen
  <2>. QED
    BY <1>7, <1>8, <2>3 DEF Atomic!SalesNext, Atomic!SalesStep
<1>12. CASE k > 0 /\ request.kind = "DELIVERY"
  <2>1. /\ v.onHand = Minus(w.onHand, d)
        /\ v.quantity = [w.quantity EXCEPT ![Main] = Minus(@, d)]
        /\ v.reserved = Minus(w.reserved, d)
        /\ v.held = [w.held EXCEPT ![Main] = Clamped(@, d)]
        /\ InRange(v.onHand) /\ InRange(v.quantity[Main])
        /\ v.orders = w.orders /\ v.notes = w.notes
        /\ Interrupted(d, need, w.reserved)
        /\ o \in DOMAIN w.orders /\ w.orders[o] = [status |-> "CONFIRMED", lines |-> request.lines]
    BY <1>3, <1>4, <1>12 DEF After, Room, Ranged, Admitted
  <2>2. Demanded(w.orders)[o] = NewOrder(need) /\ DOMAIN Demanded(w.orders) = DOMAIN w.orders
    BY <2>1 DEF Demanded, NewOrder, need
  <2>3. /\ Seen \in Workspaces
        /\ Seen'.onHand = Minus(Seen.onHand, d)
        /\ Seen'.quantity = [Seen.quantity EXCEPT ![Main] = Minus(@, d)]
        /\ Seen'.reserved = Minus(Seen.reserved, d)
        /\ Seen'.held = [Seen.held EXCEPT ![Main] = Clamped(@, d)]
        /\ InRange(Seen'.onHand) /\ InRange(Seen'.quantity[Main])
        /\ Seen'.orders = Seen.orders /\ Seen'.notes = Seen.notes
        /\ Interrupted(d, need, Seen.reserved)
        /\ Demanded(Seen.orders)[o] = NewOrder(need)
        /\ o \in DOMAIN Demanded(Seen.orders)
    BY <1>2, <1>3, <1>6, <1>12, <2>1, <2>2
  <2>4. Atomic!Move(Main, Atomic!Negated(d))
    BY <1>7, <1>8, <2>3, ShipSeen
  <2>5. Atomic!RejectDeliveryNote(o, d)
    BY <1>5, <1>7, <1>8, <2>3, <2>4, DeliveryRejectionSeen
  <2>. QED
    BY <1>7, <1>8, <2>3, <2>5 DEF Atomic!SalesNext, Atomic!SalesStep
<1>. QED
  BY <1>3, <1>4, <1>9, <1>10, <1>11, <1>12 DEF Kinds

LEMMA StepSeen ==
    ASSUME StockAssumption, LineLoopsAssumption, LoopInv, LoopInv', [LoopNext]_loopVars
    PROVE  [Atomic!SalesNext]_Atomic!allSalesVars
<1>1. LoopTyped /\ (request = Idle \/ \E k \in 0..Len(request.lines) : Underway(k))
  BY DEF LoopInv
<1>2. ASSUME NEW kind \in Kinds, NEW lines, NEW document, Begin(kind, lines, document)
      PROVE  UNCHANGED Atomic!allSalesVars
  <2>1. /\ request = Idle /\ before' = Workspace /\ UNCHANGED <<tracked, periodOpen>>
        /\ request' = [kind |-> kind, lines |-> lines, left |-> lines, document |-> document]
    BY <1>2 DEF Begin, stockVars
  <2>2. request' # Idle
    <3>1. request'.kind = kind /\ kind # "NONE"
      BY <2>1 DEF Kinds
    <3>. QED
      BY <3>1, IdleTyped
  <2>3. Seen' = Seen
    BY <2>1, <2>2, SeenIs
  <2>. QED
    BY <2>1, <2>3, NothingSeen
<1>3. CASE \/ \E lines \in Documents : BeginSalesOrder(lines)
           \/ \E lines \in Documents : BeginInvoice(lines)
           \/ \E o \in DOMAIN orders : BeginDeliveryNote(o)
           \/ \E n \in DOMAIN notes : BeginCancellation(n)
  <2>1. \E kind \in Kinds : \E lines, document : Begin(kind, lines, document)
    BY <1>3 DEF BeginSalesOrder, BeginInvoice, BeginDeliveryNote, BeginCancellation, Kinds
  <2>. QED
    BY <1>2, <2>1
<1>4. CASE ProcessLine
  <2>1. /\ request.left # <<>> /\ before' = before /\ UNCHANGED <<tracked, periodOpen>>
        /\ request' = [request EXCEPT !.left = Tail(@)]
    BY <1>4 DEF ProcessLine
  <2>2. request # Idle
    BY <2>1, IdleTyped
  <2>3. request.kind \in Kinds
    BY <1>1, <2>2 DEF Underway
  <2>4. request' # Idle
    <3>1. request'.kind = request.kind
      BY <1>1, <2>1 DEF LoopTyped, Requests
    <3>2. request'.kind # "NONE"
      BY <2>3, <3>1 DEF Kinds
    <3>. QED
      BY <3>2, IdleTyped
  <2>5. Seen' = Seen
    BY <2>1, <2>2, <2>4, SeenIs
  <2>. QED
    BY <2>1, <2>5, NothingSeen
<1>5. CASE Throw
  <2>1. request # Idle
    BY <1>5, IdleTyped DEF Throw
  <2>. QED
    BY <1>1, <1>5, <2>1, ThrowSeen
<1>6. CASE Finish
  <2>1. request # Idle
    BY <1>6 DEF Finish
  <2>. QED
    BY <1>1, <1>6, <2>1, FinishSeen
<1>7. CASE request = Idle /\ SetPeriod /\ UNCHANGED <<orders, notes, request, before>>
  <2>1. Seen' = Seen
    BY <1>7, SeenIs DEF SetPeriod, Workspace
  <2>2. Atomic!SetPeriod /\ UNCHANGED Atomic!salesVars
    BY <1>7, <2>1, PeriodSeen
  <2>. QED
    BY <2>2 DEF Atomic!SalesNext
<1>8. CASE UNCHANGED loopVars
  <2>1. Seen' = Seen /\ UNCHANGED <<tracked, periodOpen>>
    BY <1>8 DEF loopVars, stockVars, Seen, Workspace
  <2>. QED
    BY <2>1, NothingSeen
<1>. QED
  BY <1>3, <1>4, <1>5, <1>6, <1>7, <1>8 DEF LoopNext

LEMMA InitSeen ==
    ASSUME LoopInit
    PROVE  Atomic!SalesInit
<1>1. Seen = Workspace
  BY SeenIs DEF LoopInit
<1>2. Demanded(Seen.orders) = <<>>
  <2>1. Seen.orders = <<>>
    BY <1>1, WorkspaceIs DEF LoopInit
  <2>. QED
    BY <2>1 DEF Demanded
<1>3. Atomic!StockInit
  BY <1>1, WorkspaceIs DEF LoopInit, StockInit, Atomic!StockInit
<1>. QED
  BY <1>1, <1>2, <1>3, WorkspaceIs DEF LoopInit, Atomic!SalesInit, Atomic!DocumentsInit

\* ImplementsSales: the loops of the handlers, their throws and the rollback of
\* createInvoice are, from between the requests, the atomic steps of Sales.
THEOREM LoopsImplementSales ==
    ASSUME StockAssumption, LineLoopsAssumption
    PROVE  LoopSpec => ImplementsSales
<1>1. LoopInit => Atomic!SalesInit
  BY InitSeen
<1>2. LoopInv /\ LoopInv' /\ [LoopNext]_loopVars => [Atomic!SalesNext]_Atomic!allSalesVars
  BY StepSeen
<1>3. LoopSpec => []LoopInv
  BY LoopKeepsPace
<1>. QED
  BY <1>1, <1>2, <1>3, PTL DEF LoopSpec, ImplementsSales, Atomic!SalesSpec

\* InvoiceAllOrNothing: createInvoice and its withRollback.
THEOREM InvoicesAllOrNothing ==
    ASSUME StockAssumption, LineLoopsAssumption
    PROVE  LoopSpec => InvoiceAllOrNothing
<1>1. LoopInv /\ [LoopNext]_loopVars =>
        [request.kind = "INVOICE" /\ request' = Idle =>
           /\ reserved' = before.reserved
           /\ held' = before.held
           /\ \E taken \in {DemandOf(request.lines), DemandOf(<<>>)} :
                 /\ onHand' = Minus(before.onHand, taken)
                 /\ quantity'[Main] = Minus(before.quantity[Main], taken)]_loopVars
  <2>. SUFFICES ASSUME LoopInv, LoopNext, request.kind = "INVOICE", request' = Idle
                PROVE  /\ reserved' = before.reserved
                       /\ held' = before.held
                       /\ \E taken \in {DemandOf(request.lines), DemandOf(<<>>)} :
                             /\ onHand' = Minus(before.onHand, taken)
                             /\ quantity'[Main] = Minus(before.quantity[Main], taken)
    OBVIOUS
  <2>1. request # Idle
    BY IdleTyped
  <2>2. LoopTyped
    BY DEF LoopInv
  <2>3. PICK k \in 0..Len(request.lines) : Underway(k)
    BY <2>1 DEF LoopInv
  <2>4. Throw \/ Finish
    <3>1. ~ ProcessLine
      BY <2>2, IdleTyped DEF ProcessLine, LoopTyped, Requests
    <3>. QED
      BY <2>1, <3>1 DEF LoopNext, Begin, BeginSalesOrder, BeginInvoice, BeginDeliveryNote, BeginCancellation
  <2>5. /\ After("INVOICE", before, Workspace, Prefix(request.lines, k))
        /\ before \in Workspaces /\ Main \in Warehouses
    BY <2>3 DEF Underway, StockAssumption
  <2>6. reserved = before.reserved /\ held = before.held
    BY <2>5, WorkspaceIs DEF After
  <2>7. CASE Finish
    <3>1. Prefix(request.lines, k) = DemandOf(request.lines)
      BY <2>3, <2>7, AllProcessed DEF Finish
    <3>2. /\ onHand = Minus(before.onHand, DemandOf(request.lines))
          /\ quantity = [before.quantity EXCEPT ![Main] = Minus(@, DemandOf(request.lines))]
      BY <2>5, <3>1, WorkspaceIs DEF After
    <3>3. quantity[Main] = Minus(before.quantity[Main], DemandOf(request.lines))
      BY <2>5, <3>2 DEF Workspaces
    <3>4. UNCHANGED <<onHand, reserved, quantity, held>>
      BY <2>7 DEF Finish, stockVars
    <3>. QED
      BY <2>6, <3>2, <3>3, <3>4
  <2>8. CASE Throw
    <3>1. /\ onHand' = before.onHand /\ quantity' = before.quantity
          /\ reserved' = reserved /\ held' = held
      BY <2>8 DEF Throw, Undo
    <3>2. DemandOf(<<>>) = Nothing
      <4>1. <<>> \in Seq(Lines) /\ Len(<<>>) = 0
        OBVIOUS
      <4>. QED
        BY <4>1, PrefixAll, PrefixNone
    <3>3. before.onHand \in [Products -> Int] /\ before.quantity[Main] \in [Products -> Int]
      BY <2>5 DEF Workspaces
    <3>4. /\ before.onHand = Minus(before.onHand, Nothing)
          /\ before.quantity[Main] = Minus(before.quantity[Main], Nothing)
      BY <3>3 DEF Minus, Nothing
    <3>. QED
      BY <2>6, <3>1, <3>2, <3>4
  <2>. QED
    BY <2>4, <2>7, <2>8
<1>2. LoopSpec => []LoopInv
  BY LoopKeepsPace
<1>. QED
  BY <1>1, <1>2, PTL DEF LoopSpec, InvoiceAllOrNothing
=============================================================================
