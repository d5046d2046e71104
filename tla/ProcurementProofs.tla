-------------------------- MODULE ProcurementProofs --------------------------
(***************************************************************************)
(* Theorems about Procurement: orders agree with their receipts, and the   *)
(* goods account follows the value of the stock.                           *)
(*                                                                         *)
(* A receipt and its cancellation are loops over the lines: what they do   *)
(* is proved of the state after k lines, for the smallest k at which it    *)
(* could fail (LoopAt, Refunded).  One line more adds its quantity to what *)
(* the order has received, and its cost to the value of the stock, up to   *)
(* half the units on hand, because the average is a rounded quotient.      *)
(*                                                                         *)
(* The invariant is the type of the papers with OrdersMatchReceipts: what  *)
(* is still to come of an order is a receipt only because no line has      *)
(* received too much.  GoodsFollowValue needs nothing else.                *)
(***************************************************************************)
EXTENDS Procurement, Sums, SequenceTheorems

ReceiptLines == [product : Products, qty : Nat]
OrderLines == [product : Products, qty : Nat, received : Nat]

\* The state the loop of createPurchaseReceipt works on.
LoopStates == [onHand : [Products -> Int], cump : [Products -> Int],
               ok : BOOLEAN, lines : Seq(OrderLines)]

-----------------------------------------------------------------------------
\* A set of numbers up to n has a smallest one.
LEMMA Least ==
    ASSUME NEW n \in Nat, NEW B \in SUBSET (0..n), B # {}
    PROVE  \E m \in B : \A j \in B : m =< j
<1>. DEFINE T(m) == 1..m
            A == {T(m) : m \in B}
            S == 1..n
<1>1. IsFiniteSet(S)
  BY FS_Interval
<1>2. PICK s \in A : \A u \in A : u \subseteq s => u = s
  <2>1. \A m \in B : T(m) \subseteq S
    OBVIOUS
  <2>. HIDE DEF T, S
  <2>2. A \in SUBSET SUBSET S /\ A # {}
    BY <2>1
  <2>. HIDE DEF A
  <2>. QED
    BY <1>1, <2>2, Minimal
<1>3. PICK m \in B : s = T(m)
  OBVIOUS
<1>4. ASSUME NEW j \in B, j < m
      PROVE  FALSE
  <2>1. T(j) \subseteq T(m) /\ m \in T(m) /\ m \notin T(j)
    BY <1>4
  <2>2. T(j) \in A
    OBVIOUS
  <2>. HIDE DEF T, A
  <2>. QED
    BY <1>2, <1>3, <2>1, <2>2
<1>. QED
  BY <1>4

\* The loop of a receipt, over its first m lines.
ReceiptLoop(o, basket, cost, g, m) ==
    g = [k \in 0..m |-> IF k = 0 THEN Unreceived(o)
                                 ELSE ReceiveLine(g[k - 1], o, basket[k], cost)]

LEMMA ReceiptLoopExists ==
    ASSUME NEW o, NEW basket, NEW cost, NEW n \in Nat
    PROVE  \E g : ReceiptLoop(o, basket, cost, g, n)
<1>. DEFINE B == {m \in 0..n : ~ \E g : ReceiptLoop(o, basket, cost, g, m)}
<1>1. SUFFICES ASSUME B # {} PROVE FALSE
  OBVIOUS
<1>2. PICK m \in B : \A j \in B : m =< j
  <2>1. B \in SUBSET (0..n)
    OBVIOUS
  <2>. HIDE DEF B
  <2>. QED
    BY <1>1, <2>1, Least
<1>3. m \in Nat /\ m =< n
  OBVIOUS
<1>4. CASE m = 0
  <2>. DEFINE h == [k \in 0..0 |-> Unreceived(o)]
  <2>1. h = [k \in 0..0 |-> IF k = 0 THEN Unreceived(o) ELSE ReceiveLine(h[k - 1], o, basket[k], cost)]
    OBVIOUS
  <2>2. ReceiptLoop(o, basket, cost, h, 0)
    BY <2>1 DEF ReceiptLoop
  <2>. QED
    BY <1>4, <2>2
<1>5. CASE m > 0
  <2>. DEFINE j == m - 1
  <2>1. j \in 0..n /\ j \notin B /\ j \in Nat
    BY <1>2, <1>3, <1>5
  <2>2. PICK g : ReceiptLoop(o, basket, cost, g, j)
    BY <2>1
  <2>. DEFINE h == [k \in 0..m |-> IF k < m THEN g[k] ELSE ReceiveLine(g[j], o, basket[m], cost)]
  <2>3. ASSUME NEW k \in 0..j
        PROVE  g[k] = IF k = 0 THEN Unreceived(o) ELSE ReceiveLine(g[k - 1], o, basket[k], cost)
    BY <2>2 DEF ReceiptLoop
  <2>4. ASSUME NEW k \in 0..m
        PROVE  h[k] = IF k = 0 THEN Unreceived(o) ELSE ReceiveLine(h[k - 1], o, basket[k], cost)
    <3>1. CASE k < m
      <4>1. k \in 0..j /\ h[k] = g[k]
        BY <1>3, <3>1
      <4>2. k # 0 => k - 1 \in 0..m /\ k - 1 < m /\ h[k - 1] = g[k - 1]
        BY <1>3, <3>1
      <4>. HIDE DEF h, j
      <4>. QED
        BY <2>3, <4>1, <4>2
    <3>2. CASE k = m
      <4>1. h[k] = ReceiveLine(g[j], o, basket[m], cost) /\ h[j] = g[j] /\ k # 0
        BY <1>3, <1>5, <3>2
      <4>. HIDE DEF h
      <4>. QED
        BY <3>2, <4>1
    <3>. QED
      BY <1>3, <3>1, <3>2
  <2>5. h = [k \in 0..m |-> h[k]]
    OBVIOUS
  <2>. HIDE DEF h
  <2>6. ReceiptLoop(o, basket, cost, h, m)
    BY <2>4, <2>5 DEF ReceiptLoop
  <2>. QED
    BY <2>6
<1>. QED
  BY <1>3, <1>4, <1>5

LEMMA ReceivedIs ==
    ASSUME NEW o, NEW basket, NEW cost, Len(basket) \in Nat
    PROVE  \E g : /\ g[0] = Unreceived(o)
                  /\ \A k \in 1..Len(basket) : g[k] = ReceiveLine(g[k - 1], o, basket[k], cost)
                  /\ g[Len(basket)] = Received(o, basket, cost)
<1>. DEFINE n == Len(basket)
            g == CHOOSE g : ReceiptLoop(o, basket, cost, g, n)
<1>1. ReceiptLoop(o, basket, cost, g, n)
  <2>1. \E h : ReceiptLoop(o, basket, cost, h, n)
    BY ReceiptLoopExists
  <2>. QED
    BY <2>1
<1>2. Received(o, basket, cost) = g[n]
  BY DEF Received, ReceiptLoop
<1>. HIDE DEF g
<1>3. \A k \in 0..n : g[k] = IF k = 0 THEN Unreceived(o) ELSE ReceiveLine(g[k - 1], o, basket[k], cost)
  BY <1>1 DEF ReceiptLoop
<1>4. g[0] = Unreceived(o)
  BY <1>3
<1>5. \A k \in 1..n : g[k] = ReceiveLine(g[k - 1], o, basket[k], cost)
  BY <1>3
<1>. QED
  BY <1>2, <1>4, <1>5

-----------------------------------------------------------------------------
\* One line.

\* A rounded quotient is at most half a divisor away.
LEMMA RoundedNear ==
    ASSUME NEW a \in Int, NEW b \in Nat, b > 0
    PROVE  /\ Rounded(a, b) \in Int
           /\ 2 * (b * Rounded(a, b) - a) =< b
           /\ -b =< 2 * (b * Rounded(a, b) - a)
<1>. DEFINE n == 2 * a + b
            d == 2 * b
            q == n \div d
<1>1. n \in Int /\ d \in Int /\ d > 0
  OBVIOUS
<1>2. q \in Int /\ d * q =< n /\ n < d * q + d
  <2>. HIDE DEF n, d
  <2>1. q \in Int
    BY <1>1
  <2>2. n = d * q + (n % d) /\ n % d \in 0..d - 1
    BY <1>1
  <2>3. n % d \in Int /\ 0 =< n % d /\ n % d < d /\ d * q \in Int
    BY <1>1, <2>1, <2>2
  <2>. HIDE DEF q
  <2>. QED
    BY <1>1, <2>1, <2>2, <2>3
<1>3. Rounded(a, b) = q
  BY DEF Rounded
<1>. HIDE DEF q
<1>4. d * q = 2 * (b * q) /\ b * q \in Int
  BY <1>2
<1>. DEFINE m == b * q
<1>. HIDE DEF m
<1>5. m \in Int /\ 2 * m =< 2 * a + b /\ 2 * a + b < 2 * m + 2 * b
  BY <1>2, <1>4 DEF m
<1>6. 2 * (m - a) =< b /\ -b =< 2 * (m - a)
  BY <1>5
<1>. QED
  BY <1>2, <1>3, <1>6 DEF m

LEMMA LineForIs ==
    ASSUME NEW lines \in Seq(OrderLines), NEW p
    PROVE  /\ LineFor(lines, p) \in Nat
           /\ LineFor(lines, p) # 0 =>
                /\ LineFor(lines, p) \in DOMAIN lines
                /\ lines[LineFor(lines, p)].product = p
<1>. DEFINE found == {i \in DOMAIN lines : lines[i].product = p}
            n == Len(lines)
<1>1. n \in Nat /\ DOMAIN lines = 1..n
  OBVIOUS
<1>2. CASE found = {}
  BY <1>2 DEF LineFor
<1>3. CASE found # {}
  <2>1. PICK m \in found : \A j \in found : m =< j
    <3>1. found \in SUBSET (0..n)
      BY <1>1
    <3>. HIDE DEF found, n
    <3>. QED
      BY <1>1, <1>3, <3>1, Least
  <2>2. Min(found) \in found
    BY <2>1 DEF Min
  <2>3. LineFor(lines, p) = Min(found)
    BY <1>3 DEF LineFor
  <2>. QED
    BY <1>1, <2>2, <2>3
<1>. QED
  BY <1>2, <1>3

\* What a line that goes through does.
LineEffect(s, o, l, cost, t) ==
    LET p == l.product
        onhand == s.onHand[p] + l.qty
    IN  /\ s.ok /\ l.qty > 0
        /\ t.onHand = [s.onHand EXCEPT ![p] = onhand]
        /\ t.cump = [s.cump EXCEPT ![p] = Average(s.cump[p], cost, l.qty, onhand)]
        /\ o = 0 => t.lines = s.lines
        /\ o # 0 => \E i \in DOMAIN s.lines :
                       /\ s.lines[i].product = p
                       /\ s.lines[i].received + l.qty =< s.lines[i].qty
                       /\ t.lines = [s.lines EXCEPT ![i].received = @ + l.qty]

LEMMA ReceiveLineEffect ==
    ASSUME NEW s \in LoopStates, NEW o \in Nat, NEW l \in ReceiptLines, NEW cost \in Nat,
           NEW t, t = ReceiveLine(s, o, l, cost)
    PROVE  /\ t \in LoopStates
           /\ t.ok => LineEffect(s, o, l, cost, t)
<1>. DEFINE p == l.product
            q == l.qty
            onhand == s.onHand[p] + q
            average == Average(s.cump[p], cost, q, onhand)
            i == IF o = 0 THEN 0 ELSE LineFor(s.lines, p)
            ok == /\ s.ok
                  /\ q > 0
                  /\ tracked[p]
                  /\ o # 0 => i # 0
                  /\ i # 0 => ~Over(s.lines[i], q)
            after == IF i = 0 THEN s.lines ELSE [s.lines EXCEPT ![i].received = @ + q]
<1>1. /\ s.onHand \in [Products -> Int] /\ s.cump \in [Products -> Int]
      /\ s.ok \in BOOLEAN /\ s.lines \in Seq(OrderLines)
      /\ p \in Products /\ q \in Nat
  BY DEF LoopStates, ReceiptLines
<1>2. onhand \in Int /\ s.cump[p] \in Int /\ s.onHand[p] \in Int
  BY <1>1
<1>3. average \in Int
  <2>1. CASE onhand > 0
    <3>. DEFINE a == (onhand - q) * s.cump[p] + q * cost
    <3>1. onhand \in Nat /\ a \in Int
      BY <1>1, <1>2, <2>1
    <3>2. average = Rounded(a, onhand)
      BY <2>1 DEF Average
    <3>. HIDE DEF a, onhand
    <3>. QED
      BY <2>1, <3>1, <3>2, RoundedNear
  <2>2. CASE ~(onhand > 0)
    BY <2>2 DEF Average
  <2>. QED
    BY <2>1, <2>2
<1>4. /\ i \in Nat
      /\ i # 0 => o # 0 /\ i \in DOMAIN s.lines /\ s.lines[i].product = p
  BY <1>1, LineForIs
<1>5. t = IF ~ok THEN [s EXCEPT !.ok = FALSE]
          ELSE [s EXCEPT !.onHand[p] = onhand, !.cump[p] = average, !.lines = after]
  BY DEF ReceiveLine
<1>6. after \in Seq(OrderLines)
  <2>1. CASE i = 0
    BY <1>1, <2>1
  <2>2. CASE i # 0
    <3>. DEFINE line == [s.lines[i] EXCEPT !.received = @ + q]
    <3>1. s.lines[i] \in OrderLines
      BY <1>1, <1>4, <2>2, ElementOfSeq
    <3>2. line \in OrderLines
      <4>1. ASSUME NEW x \in OrderLines
            PROVE  [x EXCEPT !.received = @ + q] \in OrderLines
        <5>1. x.received + q \in Nat
          BY <1>1 DEF OrderLines
        <5>. HIDE DEF q
        <5>. QED
          BY <5>1 DEF OrderLines
      <4>. HIDE DEF i, q
      <4>. QED
        BY <3>1, <4>1
    <3>3. after = [s.lines EXCEPT ![i] = line]
      BY <2>2
    <3>. HIDE DEF line, after, i
    <3>. QED
      BY <1>1, <1>4, <2>2, <3>2, <3>3
  <2>. QED
    BY <2>1, <2>2
<1>7. [s.onHand EXCEPT ![p] = onhand] \in [Products -> Int] /\ [s.cump EXCEPT ![p] = average] \in [Products -> Int]
  BY <1>1, <1>2, <1>3
<1>8. ok => (o = 0 => i = 0)
  OBVIOUS
<1>9. ok => (o # 0 => i # 0 /\ s.lines[i].received + q =< s.lines[i].qty)
  <2>1. ASSUME i # 0
        PROVE  s.lines[i] \in OrderLines
    BY <1>1, <1>4, <2>1, ElementOfSeq
  <2>2. ASSUME i # 0
        PROVE  s.lines[i].received \in Nat /\ s.lines[i].qty \in Nat
    BY <2>1, <2>2 DEF OrderLines
  <2>. HIDE DEF i
  <2>. QED
    BY <1>1, <2>2 DEF Over
<1>. HIDE DEF ok, onhand, average, i
<1>10. CASE ok
  <2>1. t = [s EXCEPT !.onHand = [s.onHand EXCEPT ![p] = onhand],
                      !.cump = [s.cump EXCEPT ![p] = average], !.lines = after]
    BY <1>5, <1>10
  <2>. HIDE DEF after
  <2>2. /\ t.onHand = [s.onHand EXCEPT ![p] = onhand]
        /\ t.cump = [s.cump EXCEPT ![p] = average]
        /\ t.lines = after /\ t.ok = s.ok /\ t \in LoopStates
    BY <1>1, <1>6, <1>7, <2>1 DEF LoopStates
  <2>3. s.ok /\ q > 0
    BY <1>10 DEF ok
  <2>4. o = 0 => t.lines = s.lines
    BY <1>8, <1>10, <2>2 DEF after
  <2>5. o # 0 => /\ i \in DOMAIN s.lines /\ s.lines[i].product = p
                 /\ s.lines[i].received + q =< s.lines[i].qty
                 /\ t.lines = [s.lines EXCEPT ![i].received = @ + q]
    BY <1>4, <1>9, <1>10, <2>2 DEF after
  <2>. QED
    BY <2>2, <2>3, <2>4, <2>5 DEF onhand, average, LineEffect
<1>11. CASE ~ok
  <2>1. t = [s EXCEPT !.ok = FALSE]
    BY <1>5, <1>11
  <2>. QED
    BY <1>1, <2>1 DEF LoopStates
<1>. QED
  BY <1>10, <1>11
-----------------------------------------------------------------------------
\* Quantities, line by line.

\* The quantity of a product on the first k lines.
FirstOf(basket, k, p) == {i \in 1..k : basket[i].product = p}
QtyUpTo(basket, k, p) == SumFunction([i \in FirstOf(basket, k, p) |-> basket[i].qty])

LEMMA FirstTerms ==
    ASSUME NEW basket \in Seq(ReceiptLines), NEW k \in 0..Len(basket), NEW p
    PROVE  /\ IsFiniteSet(FirstOf(basket, k, p))
           /\ [i \in FirstOf(basket, k, p) |-> basket[i].qty] \in [FirstOf(basket, k, p) -> Nat]
           /\ [i \in FirstOf(basket, k, p) |-> basket[i].qty] \in [FirstOf(basket, k, p) -> Int]
           /\ QtyUpTo(basket, k, p) \in Nat
<1>. DEFINE S == FirstOf(basket, k, p)
            f == [i \in S |-> basket[i].qty]
<1>1. IsFiniteSet(S)
  <2>1. IsFiniteSet(1..k) /\ S \subseteq 1..k
    BY FS_Interval DEF FirstOf
  <2>. HIDE DEF S
  <2>. QED
    BY <2>1, FS_Subset
<1>2. ASSUME NEW i \in S
      PROVE  basket[i].qty \in Nat
  <2>1. i \in 1..Len(basket)
    BY DEF FirstOf
  <2>2. basket[i] \in ReceiptLines
    BY <2>1, ElementOfSeq
  <2>. QED
    BY <2>2 DEF ReceiptLines
<1>3. f \in [S -> Nat] /\ f \in [S -> Int]
  <2>. HIDE DEF S
  <2>. QED
    BY <1>2
<1>4. SumFunction(f) \in Nat
  <2>. HIDE DEF S, f
  <2>. QED
    BY <1>1, <1>3, SumNat
<1>. QED
  BY <1>1, <1>3, <1>4 DEF QtyUpTo

LEMMA QtyNone ==
    ASSUME NEW basket \in Seq(ReceiptLines), NEW p
    PROVE  QtyUpTo(basket, 0, p) = 0
<1>1. FirstOf(basket, 0, p) = {}
  BY DEF FirstOf
<1>2. [i \in FirstOf(basket, 0, p) |-> basket[i].qty] \in [{} -> Int]
  BY <1>1
<1>. QED
  BY <1>2, SumEmpty DEF QtyUpTo

LEMMA QtyNext ==
    ASSUME NEW basket \in Seq(ReceiptLines), NEW k \in Nat, k < Len(basket), NEW p
    PROVE  /\ basket[k + 1].product = p =>
                QtyUpTo(basket, k + 1, p) = QtyUpTo(basket, k, p) + basket[k + 1].qty
           /\ basket[k + 1].product # p => QtyUpTo(basket, k + 1, p) = QtyUpTo(basket, k, p)
<1>. DEFINE n == k + 1
            S == FirstOf(basket, k, p)
            T == FirstOf(basket, n, p)
            f == [i \in S |-> basket[i].qty]
            g == [i \in T |-> basket[i].qty]
<1>1. k \in 0..Len(basket) /\ n \in 0..Len(basket)
  OBVIOUS
<1>2. IsFiniteSet(S) /\ f \in [S -> Int] /\ g \in [T -> Int]
  <2>. HIDE DEF n
  <2>. QED
    BY <1>1, FirstTerms
<1>3. CASE basket[n].product = p
  <2>1. T = S \cup {n} /\ n \notin S
    BY <1>3 DEF FirstOf
  <2>2. g \in [S \cup {n} -> Int]
    BY <1>2, <2>1
  <2>3. IsFiniteSet(S) /\ f \in [S -> Int] /\ n \notin S /\ \A i \in S : g[i] = f[i]
    BY <1>2, <2>1
  <2>4. g[n] = basket[n].qty
    BY <2>1
  <2>. HIDE DEF S, T, f, g, n
  <2>5. SumFunction(g) = SumFunction(f) + g[n]
    BY ONLY <2>2, <2>3, SumExtend
  <2>. QED
    BY <1>3, <2>4, <2>5 DEF QtyUpTo, S, T, f, g, n
<1>4. CASE basket[n].product # p
  <2>1. T = S
    BY <1>4 DEF FirstOf
  <2>. QED
    BY <1>4, <2>1 DEF QtyUpTo
<1>. QED
  BY <1>3, <1>4

LEMMA QtyAll ==
    ASSUME NEW basket \in Seq(ReceiptLines), NEW p
    PROVE  QuantityOf(basket, p) = QtyUpTo(basket, Len(basket), p)
<1>1. DOMAIN basket = 1..Len(basket)
  OBVIOUS
<1>. QED
  BY <1>1 DEF QuantityOf, OfProduct, QtyUpTo, FirstOf

\* An order's lines, and what they have received.
LEMMA ReceivedTerms ==
    ASSUME NEW lines \in Seq(OrderLines), NEW p
    PROVE  /\ IsFiniteSet(OfProduct(lines, p))
           /\ [i \in OfProduct(lines, p) |-> lines[i].received] \in [OfProduct(lines, p) -> Int]
           /\ ReceivedOf(lines, p) \in Nat
<1>. DEFINE S == OfProduct(lines, p)
            f == [i \in S |-> lines[i].received]
<1>1. IsFiniteSet(S)
  <2>1. DOMAIN lines = 1..Len(lines) /\ IsFiniteSet(1..Len(lines)) /\ S \subseteq DOMAIN lines
    BY FS_Interval DEF OfProduct
  <2>. HIDE DEF S
  <2>. QED
    BY <2>1, FS_Subset
<1>2. ASSUME NEW i \in S
      PROVE  lines[i].received \in Nat
  <2>1. lines[i] \in OrderLines
    BY ElementOfSeq DEF OfProduct
  <2>. QED
    BY <2>1 DEF OrderLines
<1>3. f \in [S -> Nat] /\ f \in [S -> Int]
  <2>. HIDE DEF S
  <2>. QED
    BY <1>2
<1>4. SumFunction(f) \in Nat
  <2>. HIDE DEF S, f
  <2>. QED
    BY <1>1, <1>3, SumNat
<1>. QED
  BY <1>1, <1>3, <1>4 DEF ReceivedOf

\* The same lines, of which some received more, none too much.
Grown(old, new) ==
    /\ DOMAIN new = DOMAIN old
    /\ \A i \in DOMAIN old :
          /\ new[i].product = old[i].product /\ new[i].qty = old[i].qty
          /\ old[i].received =< old[i].qty => new[i].received =< new[i].qty

\* A line that takes q more: the order grew by q of its product.
Taken(lines, i, q, new) ==
    /\ Grown(lines, new)
    /\ ReceivedOf(new, lines[i].product) = ReceivedOf(lines, lines[i].product) + q
    /\ \A x \in Products : x # lines[i].product => ReceivedOf(new, x) = ReceivedOf(lines, x)

LEMMA LineReceived ==
    ASSUME NEW lines \in Seq(OrderLines), NEW i \in DOMAIN lines, NEW q \in Nat,
           lines[i].received + q =< lines[i].qty,
           NEW new, new = [lines EXCEPT ![i].received = @ + q]
    PROVE  Taken(lines, i, q, new)
<1>. DEFINE line == [lines[i] EXCEPT !.received = @ + q]
            p == lines[i].product
<1>1. lines[i] \in OrderLines
  BY ElementOfSeq
<1>2. line \in OrderLines /\ line.product = p /\ line.qty = lines[i].qty
      /\ line.received = lines[i].received + q
  <2>1. lines[i].received + q \in Nat
    BY <1>1 DEF OrderLines
  <2>. QED
    BY <1>1, <2>1 DEF OrderLines
<1>3. new = [lines EXCEPT ![i] = line]
  OBVIOUS
<1>. HIDE DEF line
<1>4. /\ new \in Seq(OrderLines) /\ DOMAIN new = DOMAIN lines
      /\ \A j \in DOMAIN lines : new[j] = IF j = i THEN line ELSE lines[j]
  BY <1>2, <1>3
<1>5. Grown(lines, new)
  BY <1>2, <1>4 DEF Grown
<1>6. ASSUME NEW x
      PROVE  OfProduct(new, x) = OfProduct(lines, x)
  BY <1>2, <1>4 DEF OfProduct
<1>7. ASSUME NEW x, x # p
      PROVE  ReceivedOf(new, x) = ReceivedOf(lines, x)
  <2>1. \A j \in OfProduct(lines, x) : j \in DOMAIN lines /\ j # i
    BY <1>7 DEF OfProduct
  <2>2. [j \in OfProduct(new, x) |-> new[j].received] = [j \in OfProduct(lines, x) |-> lines[j].received]
    BY <1>4, <1>6, <2>1
  <2>. QED
    BY <2>2 DEF ReceivedOf
<1>8. ReceivedOf(new, p) = ReceivedOf(lines, p) + q
  <2>. DEFINE S == OfProduct(lines, p)
              f == [j \in S |-> lines[j].received]
              g == [j \in S |-> new[j].received]
  <2>1. IsFiniteSet(S) /\ f \in [S -> Int]
    BY ReceivedTerms
  <2>2. OfProduct(new, p) = S
    BY <1>6
  <2>3. g \in [S -> Int]
    <3>1. [j \in OfProduct(new, p) |-> new[j].received] \in [OfProduct(new, p) -> Int]
      BY <1>4, ReceivedTerms
    <3>. QED
      BY <2>2, <3>1
  <2>4. i \in S /\ \A j \in S \ {i} : g[j] = f[j]
    BY <1>4 DEF OfProduct
  <2>5. g[i] = f[i] + q
    BY <1>2, <1>4, <2>4
  <2>6. ReceivedOf(lines, p) = SumFunction(f) /\ ReceivedOf(new, p) = SumFunction(g)
    BY <2>2 DEF ReceivedOf
  <2>7. f[i] \in Int /\ g[i] \in Int /\ SumFunction(f) \in Int
    <3>. HIDE DEF S, f, g
    <3>. QED
      BY <2>1, <2>3, <2>4, SumType
  <2>8. IsFiniteSet(S) /\ f \in [S -> Int] /\ g \in [S -> Int] /\ i \in S /\ \A j \in S \ {i} : g[j] = f[j]
    BY <2>1, <2>3, <2>4
  <2>. HIDE DEF S, f, g
  <2>9. SumFunction(g) = SumFunction(f) - f[i] + g[i]
    BY ONLY <2>8, SumChange
  <2>. QED
    BY <2>5, <2>6, <2>7, <2>9
<1>. QED
  BY <1>5, <1>7, <1>8 DEF Taken
-----------------------------------------------------------------------------
\* The value of a stock.
Value(stock, unit) == SumFunction([p \in Products |-> stock[p] * unit[p]])

\* What the first k lines of a receipt cost.
CostUpTo(basket, k, cost) == SumFunction([i \in 1..k |-> basket[i].qty * cost])

LEMMA ValueTerms ==
    ASSUME NEW stock \in [Products -> Int], NEW unit \in [Products -> Int]
    PROVE  /\ [p \in Products |-> stock[p] * unit[p]] \in [Products -> Int]
           /\ Value(stock, unit) \in Int
<1>. DEFINE f == [p \in Products |-> stock[p] * unit[p]]
<1>1. ASSUME NEW p \in Products
      PROVE  stock[p] * unit[p] \in Int
  OBVIOUS
<1>2. f \in [Products -> Int]
  BY <1>1
<1>. HIDE DEF f
<1>3. SumFunction(f) \in Int
  BY <1>2, SumType, StockAssumption
<1>. QED
  BY <1>2, <1>3 DEF Value, f

LEMMA StockChange ==
    ASSUME NEW stock \in [Products -> Int], NEW p \in Products, NEW b \in Int
    PROVE  /\ SumFunction(stock) \in Int
           /\ SumFunction([stock EXCEPT ![p] = b]) = SumFunction(stock) - stock[p] + b
<1>. DEFINE s == [stock EXCEPT ![p] = b]
<1>1. s \in [Products -> Int] /\ s[p] = b /\ \A x \in Products \ {p} : s[x] = stock[x]
  OBVIOUS
<1>2. IsFiniteSet(Products)
  BY StockAssumption
<1>. HIDE DEF s
<1>3. SumFunction(s) = SumFunction(stock) - stock[p] + s[p]
  BY <1>1, <1>2, SumChange
<1>4. SumFunction(stock) \in Int
  BY <1>2, SumType
<1>. QED
  BY <1>1, <1>3, <1>4 DEF s

LEMMA CostNext ==
    ASSUME NEW basket \in Seq(ReceiptLines), NEW k \in Nat, k < Len(basket), NEW cost \in Nat
    PROVE  /\ CostUpTo(basket, k, cost) \in Int
           /\ CostUpTo(basket, k + 1, cost) = CostUpTo(basket, k, cost) + basket[k + 1].qty * cost
<1>. DEFINE f == [i \in 1..k |-> basket[i].qty * cost]
            g == [i \in 1..k + 1 |-> basket[i].qty * cost]
<1>1. ASSUME NEW i \in 1..k + 1
      PROVE  basket[i].qty * cost \in Int
  <2>1. basket[i] \in ReceiptLines
    BY ElementOfSeq
  <2>. QED
    BY <2>1 DEF ReceiptLines
<1>2. f \in [1..k -> Int] /\ g \in [1..k + 1 -> Int] /\ \A i \in 1..k : g[i] = f[i]
  BY <1>1
<1>3. g[k + 1] = basket[k + 1].qty * cost
  OBVIOUS
<1>4. IsFiniteSet(1..k)
  BY FS_Interval
<1>. HIDE DEF f, g
<1>5. SumFunction(g) = SumFunction(f) + g[k + 1]
  BY <1>2, SumAppend
<1>6. SumFunction(f) \in Int
  BY <1>2, <1>4, SumType
<1>. QED
  BY <1>3, <1>5, <1>6 DEF CostUpTo, f, g

LEMMA CostNone ==
    ASSUME NEW basket, NEW cost
    PROVE  CostUpTo(basket, 0, cost) = 0
<1>1. [i \in 1..0 |-> basket[i].qty * cost] \in [{} -> Int]
  OBVIOUS
<1>. QED
  BY <1>1, SumEmpty DEF CostUpTo

LEMMA CostAll ==
    ASSUME NEW basket \in Seq(ReceiptLines), NEW cost
    PROVE  LinesTotal(basket, cost) = CostUpTo(basket, Len(basket), cost)
<1>1. DOMAIN basket = 1..Len(basket)
  OBVIOUS
<1>. QED
  BY <1>1 DEF LinesTotal, CostUpTo

\* One more line moves the value by its cost, up to half its stock.
LEMMA LineValue ==
    ASSUME NEW a \in Nat, NEW q \in Nat, q > 0, NEW c \in Int, NEW cost \in Nat,
           NEW d, d = (a + q) * Average(c, cost, q, a + q) - a * c - q * cost
    PROVE  /\ Average(c, cost, q, a + q) \in Int
           /\ d \in Int
           /\ 2 * d =< a + q
           /\ -(a + q) =< 2 * d
<1>. DEFINE b == a + q
            n == (b - q) * c + q * cost
            m == Rounded(n, b)
<1>1. b \in Nat /\ b > 0 /\ b - q = a /\ n \in Int
  OBVIOUS
<1>2. Average(c, cost, q, b) = m
  BY <1>1 DEF Average
<1>. DEFINE v == b * m
<1>3. m \in Int /\ 2 * (v - n) =< b /\ -b =< 2 * (v - n)
  <2>. HIDE DEF n, b
  <2>. QED
    BY <1>1, RoundedNear
<1>4. n = a * c + q * cost
  BY <1>1
<1>5. a * c \in Int /\ q * cost \in Int
  OBVIOUS
<1>6. d = v - a * c - q * cost
  BY <1>2
<1>7. v \in Int
  <2>. HIDE DEF b, m
  <2>. QED
    BY <1>1, <1>3
<1>8. d = v - n
  <2>. DEFINE x == a * c
              y == q * cost
  <2>1. n = x + y /\ d = v - x - y /\ x \in Int /\ y \in Int
    BY <1>4, <1>5, <1>6
  <2>. HIDE DEF v, n, x, y
  <2>. QED
    BY ONLY <1>7, <2>1
<1>. HIDE DEF v, n, m
<1>. QED
  BY <1>1, <1>2, <1>3, <1>7, <1>8

-----------------------------------------------------------------------------
\* The loop after k lines.

\* What the order's lines have received.
QuantitiesAt(s, k, o, basket) ==
    LET old == Unreceived(o).lines
    IN  /\ \A i \in 1..k : basket[i].qty > 0
        /\ o # 0 => /\ Grown(old, s.lines)
                    /\ \A p \in Products :
                          ReceivedOf(s.lines, p) = ReceivedOf(old, p) + QtyUpTo(basket, k, p)

\* How far the value of the stock is from the cost of the lines.
ValueAt(s, k, basket, cost) ==
    (\A p \in Products : onHand[p] >= 0) =>
      /\ \A p \in Products : s.onHand[p] >= 0
      /\ 2 * (Value(s.onHand, s.cump) - StockValue - CostUpTo(basket, k, cost))
           \in -(k * SumFunction(s.onHand))..(k * SumFunction(s.onHand))

LoopAt(s, k, o, basket, cost) ==
    /\ s \in LoopStates
    /\ s.ok => QuantitiesAt(s, k, o, basket) /\ ValueAt(s, k, basket, cost)

LoopTypes(o) ==
    /\ onHand \in [Products -> Int] /\ cump \in [Products -> Int]
    /\ o \in Nat
    /\ o # 0 => purchaseOrders[o].lines \in Seq(OrderLines)

LEMMA LoopStarts ==
    ASSUME NEW o, LoopTypes(o), NEW basket \in Seq(ReceiptLines), NEW cost \in Nat
    PROVE  LoopAt(Unreceived(o), 0, o, basket, cost)
<1>. DEFINE s == Unreceived(o)
<1>1. s \in LoopStates
  <2>1. <<>> \in Seq(OrderLines)
    OBVIOUS
  <2>. QED
    BY <2>1 DEF Unreceived, LoopStates, LoopTypes
<1>2. QuantitiesAt(s, 0, o, basket)
  <2>1. s.lines \in Seq(OrderLines)
    BY <1>1 DEF LoopStates
  <2>2. ASSUME NEW p \in Products
        PROVE  ReceivedOf(s.lines, p) = ReceivedOf(s.lines, p) + QtyUpTo(basket, 0, p)
    <3>1. ReceivedOf(s.lines, p) \in Nat
      BY <2>1, ReceivedTerms
    <3>. HIDE DEF s
    <3>. QED
      BY <3>1, QtyNone
  <2>. HIDE DEF s
  <2>3. Grown(s.lines, s.lines)
    BY DEF Grown
  <2>. QED
    BY <2>2, <2>3 DEF QuantitiesAt, s
<1>3. ValueAt(s, 0, basket, cost)
  <2>1. s.onHand = onHand /\ s.cump = cump
    BY DEF Unreceived
  <2>2. Value(s.onHand, s.cump) = StockValue /\ StockValue \in Int
    BY <2>1, ValueTerms DEF Value, StockValue, LoopTypes
  <2>3. SumFunction(s.onHand) \in Int
    BY <2>1, SumType, StockAssumption DEF LoopTypes
  <2>4. CostUpTo(basket, 0, cost) = 0
    BY CostNone
  <2>. HIDE DEF s
  <2>. QED
    BY <2>1, <2>2, <2>3, <2>4 DEF ValueAt
<1>. QED
  BY <1>1, <1>2, <1>3 DEF LoopAt

LEMMA GrownTwice ==
    ASSUME NEW x, NEW y, NEW z, Grown(x, y), Grown(y, z)
    PROVE  Grown(x, z)
BY DEF Grown

LEMMA QuantitiesNext ==
    ASSUME NEW o, LoopTypes(o), NEW basket \in Seq(ReceiptLines), NEW cost \in Nat,
           NEW k \in Nat, k < Len(basket),
           NEW s \in LoopStates, s.ok => QuantitiesAt(s, k, o, basket),
           NEW l, l = basket[k + 1], NEW t, t = ReceiveLine(s, o, l, cost), t.ok
    PROVE  QuantitiesAt(t, k + 1, o, basket)
<1>. DEFINE p == l.product
            old == Unreceived(o).lines
<1>1. l \in ReceiptLines
  BY ElementOfSeq
<1>2. o \in Nat
  BY DEF LoopTypes
<1>3. s.ok /\ l.qty > 0 /\ t \in LoopStates /\ LineEffect(s, o, l, cost, t)
  <2>1. t \in LoopStates /\ LineEffect(s, o, l, cost, t)
    BY <1>1, <1>2, ReceiveLineEffect
  <2>. QED
    BY <2>1 DEF LineEffect
<1>4. QuantitiesAt(s, k, o, basket)
  BY <1>3
<1>5. \A i \in 1..k + 1 : basket[i].qty > 0
  <2>1. \A i \in 1..k : basket[i].qty > 0
    BY <1>4 DEF QuantitiesAt
  <2>. QED
    BY <1>3, <2>1
<1>6. CASE o # 0
  <2>1. PICK i \in DOMAIN s.lines :
            /\ s.lines[i].product = p
            /\ s.lines[i].received + l.qty =< s.lines[i].qty
            /\ t.lines = [s.lines EXCEPT ![i].received = @ + l.qty]
    BY <1>3, <1>6 DEF LineEffect
  <2>2. s.lines \in Seq(OrderLines) /\ l.qty \in Nat /\ p \in Products
    BY <1>1 DEF LoopStates, ReceiptLines
  <2>3. /\ Grown(s.lines, t.lines)
        /\ ReceivedOf(t.lines, p) = ReceivedOf(s.lines, p) + l.qty
        /\ \A x \in Products : x # p => ReceivedOf(t.lines, x) = ReceivedOf(s.lines, x)
    <3>. DEFINE q == l.qty
    <3>1. /\ q \in Nat /\ s.lines[i].product = p /\ s.lines[i].received + q =< s.lines[i].qty
          /\ t.lines = [s.lines EXCEPT ![i].received = @ + q]
      BY <2>1, <2>2
    <3>. HIDE DEF q, p
    <3>2. Taken(s.lines, i, q, t.lines)
      BY <2>2, <3>1, LineReceived
    <3>. QED
      BY <3>1, <3>2 DEF q, Taken
  <2>4. Grown(old, s.lines)
    BY <1>4, <1>6 DEF QuantitiesAt
  <2>5. Grown(old, t.lines)
    BY <2>3, <2>4, GrownTwice
  <2>6. old \in Seq(OrderLines)
    BY <1>6 DEF LoopTypes, Unreceived
  <2>7. ASSUME NEW x \in Products
        PROVE  ReceivedOf(t.lines, x) = ReceivedOf(old, x) + QtyUpTo(basket, k + 1, x)
    <3>. DEFINE r == ReceivedOf(old, x)
                u == ReceivedOf(s.lines, x)
                v == ReceivedOf(t.lines, x)
                a == QtyUpTo(basket, k, x)
                b == QtyUpTo(basket, k + 1, x)
                q == l.qty
    <3>1. u = r + a
      BY <1>4, <1>6 DEF QuantitiesAt
    <3>2. r \in Nat /\ q \in Nat
      BY <2>2, <2>6, ReceivedTerms
    <3>3. a \in Nat
      <4>1. k \in 0..Len(basket)
        OBVIOUS
      <4>. QED
        BY <4>1, FirstTerms
    <3>4. p = x => b = a + q /\ v = u + q
      BY <2>3, QtyNext
    <3>5. p # x => b = a /\ v = u
      BY <2>3, QtyNext
    <3>. HIDE DEF r, u, v, a, b, q
    <3>6. v = r + b
      BY <3>1, <3>2, <3>3, <3>4, <3>5
    <3>. QED
      BY <3>6 DEF r, v, b
  <2>. QED
    BY <1>5, <2>5, <2>7 DEF QuantitiesAt
<1>7. CASE o = 0
  BY <1>5, <1>7 DEF QuantitiesAt
<1>. QED
  BY <1>6, <1>7

\* k lines are off by at most k halves of the stock, one more by one more.
LEMMA OneMore ==
    ASSUME NEW x \in Int, NEW d \in Int, NEW k \in Nat, NEW u \in Nat, NEW q \in Nat,
           NEW b \in Nat, b =< u + q,
           2 * x =< k * u, -(k * u) =< 2 * x, 2 * d =< b, -b =< 2 * d
    PROVE  2 * (x + d) \in -((k + 1) * (u + q))..((k + 1) * (u + q))
<1>. DEFINE m == k * u
            n == (k + 1) * (u + q)
            e == k * q
<1>1. m \in Nat /\ e \in Nat
  OBVIOUS
<1>2. n = m + e + u + q
  OBVIOUS
<1>3. 2 * x =< m /\ -m =< 2 * x
  OBVIOUS
<1>. HIDE DEF m, n, e
<1>4. 2 * (x + d) =< n /\ -n =< 2 * (x + d) /\ n \in Int
  BY <1>1, <1>2, <1>3
<1>5. 2 * (x + d) \in -n..n
  BY <1>4
<1>. QED
  BY <1>5 DEF n

LEMMA ValueNext ==
    ASSUME NEW o, LoopTypes(o), NEW basket \in Seq(ReceiptLines), NEW cost \in Nat,
           NEW k \in Nat, k < Len(basket),
           NEW s \in LoopStates, s.ok => ValueAt(s, k, basket, cost),
           NEW l, l = basket[k + 1], NEW t, t = ReceiveLine(s, o, l, cost), t.ok
    PROVE  ValueAt(t, k + 1, basket, cost)
<1>. DEFINE p == l.product
            q == l.qty
            a == s.onHand[p]
            c == s.cump[p]
            average == Average(c, cost, q, a + q)
<1>1. SUFFICES ASSUME \A x \in Products : onHand[x] >= 0
               PROVE  /\ \A x \in Products : t.onHand[x] >= 0
                      /\ 2 * (Value(t.onHand, t.cump) - StockValue - CostUpTo(basket, k + 1, cost))
                           \in -((k + 1) * SumFunction(t.onHand))..((k + 1) * SumFunction(t.onHand))
  BY DEF ValueAt
<1>2. l \in ReceiptLines /\ o \in Nat /\ p \in Products /\ q \in Nat
  <2>1. l \in ReceiptLines /\ o \in Nat
    BY ElementOfSeq DEF LoopTypes
  <2>. QED
    BY <2>1 DEF ReceiptLines
<1>3. /\ s.ok /\ q > 0
      /\ t.onHand = [s.onHand EXCEPT ![p] = a + q]
      /\ t.cump = [s.cump EXCEPT ![p] = average]
  <2>1. LineEffect(s, o, l, cost, t)
    BY <1>2, ReceiveLineEffect
  <2>. QED
    BY <2>1 DEF LineEffect
<1>4. s.onHand \in [Products -> Int] /\ s.cump \in [Products -> Int]
  BY DEF LoopStates
<1>5. \A x \in Products : s.onHand[x] >= 0
  BY <1>1, <1>3 DEF ValueAt
<1>6. a \in Nat /\ c \in Int
  BY <1>2, <1>4, <1>5
<1>7. \A x \in Products : t.onHand[x] >= 0
  <2>1. a + q >= 0
    BY <1>2, <1>6
  <2>. HIDE DEF a, q, p
  <2>. QED
    BY <1>2, <1>3, <1>4, <1>5, <2>1
<1>. DEFINE b == a + q
            v == Value(s.onHand, s.cump)
            y == CostUpTo(basket, k, cost)
            d == b * average - a * c - q * cost
            u == SumFunction(s.onHand)
            x == v - StockValue - y
<1>8. average \in Int /\ d \in Int /\ 2 * d =< b /\ -b =< 2 * d
  <2>. HIDE DEF a, q, c
  <2>. QED
    BY <1>2, <1>3, <1>6, LineValue
<1>9. Value(t.onHand, t.cump) = v - a * c + b * average /\ v \in Int
  <2>1. v \in Int
    BY <1>4, ValueTerms
  <2>2. b \in Int /\ t.onHand = [s.onHand EXCEPT ![p] = b]
    BY <1>2, <1>3, <1>6
  <2>. DEFINE e == a * c
              f == b * average
  <2>. HIDE DEF p, average, b
  <2>3. /\ e = s.onHand[p] * s.cump[p]
        /\ f = t.onHand[p] * t.cump[p]
    BY <1>2, <1>3, <1>4, <2>2
  <2>4. /\ t.onHand \in [Products -> Int] /\ t.cump \in [Products -> Int]
        /\ \A z \in Products \ {p} : t.onHand[z] = s.onHand[z] /\ t.cump[z] = s.cump[z]
    BY <1>2, <1>3, <1>4, <1>8, <2>2
  <2>. DEFINE F == [z \in Products |-> s.onHand[z] * s.cump[z]]
              G == [z \in Products |-> t.onHand[z] * t.cump[z]]
  <2>5. F \in [Products -> Int] /\ G \in [Products -> Int]
    BY <1>4, <2>4, ValueTerms
  <2>6. (\A z \in Products \ {p} : G[z] = F[z]) /\ F[p] = e /\ G[p] = f
    <3>. HIDE DEF e, f
    <3>. QED
      BY <1>2, <2>3, <2>4
  <2>7. v = SumFunction(F) /\ Value(t.onHand, t.cump) = SumFunction(G)
    BY DEF Value
  <2>. HIDE DEF F, G, e, f, v
  <2>8. SumFunction(G) = SumFunction(F) - F[p] + G[p]
    BY <1>2, <2>5, <2>6, SumChange, StockAssumption
  <2>. QED
    BY <2>1, <2>6, <2>7, <2>8 DEF e, f
<1>10. SumFunction(t.onHand) = u + q /\ u \in Int
  <2>1. SumFunction(t.onHand) = u - a + b /\ u \in Int
    <3>1. b \in Int
      BY <1>2, <1>6
    <3>. HIDE DEF p, q, b
    <3>2. SumFunction([s.onHand EXCEPT ![p] = b]) = u - a + b
      BY <1>2, <1>4, <3>1, StockChange
    <3>3. u \in Int
      BY <1>2, <1>4, <3>1, StockChange
    <3>. QED
      BY <1>3, <3>2, <3>3 DEF b
  <2>. HIDE DEF u, a, q
  <2>. QED
    BY <1>2, <1>6, <2>1
<1>11. u \in Nat /\ b =< u + q
  <2>1. s.onHand \in [Products -> Nat]
    BY <1>4, <1>5
  <2>2. u \in Nat /\ a =< u
    <3>. HIDE DEF p
    <3>. QED
      BY <1>2, <2>1, SumNat, StockAssumption
  <2>. HIDE DEF u, a, q
  <2>. QED
    BY <1>2, <1>6, <2>2
<1>12. y \in Int /\ CostUpTo(basket, k + 1, cost) = y + q * cost
  BY CostNext
<1>13. StockValue \in Int
  BY ValueTerms DEF Value, StockValue, LoopTypes
<1>14. x \in Int /\ 2 * x =< k * u /\ -(k * u) =< 2 * x
  <2>1. 2 * x \in -(k * u)..(k * u)
    BY <1>1, <1>3 DEF ValueAt
  <2>2. x \in Int /\ k * u \in Int
    <3>. HIDE DEF v, y, u
    <3>. QED
      BY <1>9, <1>11, <1>12, <1>13
  <2>. HIDE DEF x, u
  <2>. QED
    BY <2>1, <2>2
<1>15. Value(t.onHand, t.cump) - StockValue - CostUpTo(basket, k + 1, cost) = x + d
  <2>. DEFINE ac == a * c
              ba == b * average
              qc == q * cost
              w == Value(t.onHand, t.cump)
              z == CostUpTo(basket, k + 1, cost)
  <2>1. /\ ac \in Int /\ ba \in Int /\ qc \in Int
    <3>. HIDE DEF a, c, average, q
    <3>. QED
      BY <1>2, <1>6, <1>8
  <2>2. w = v - ac + ba /\ z = y + qc /\ d = ba - ac - qc /\ x = v - StockValue - y
    BY <1>9, <1>12
  <2>. HIDE DEF ac, ba, qc, w, z, v, y, d, x
  <2>3. w - StockValue - z = x + d
    BY ONLY <1>9, <1>12, <1>13, <2>1, <2>2
  <2>. QED
    BY <2>3 DEF w, z
<1>16. 2 * (x + d) \in -((k + 1) * (u + q))..((k + 1) * (u + q))
  <2>1. b \in Nat
    BY <1>2, <1>6
  <2>. HIDE DEF x, d, u, q, b
  <2>. QED
    BY <1>2, <1>8, <1>11, <1>14, <2>1, OneMore
<1>. QED
  BY <1>7, <1>10, <1>15, <1>16

LEMMA LoopNext ==
    ASSUME NEW o, LoopTypes(o), NEW basket \in Seq(ReceiptLines), NEW cost \in Nat,
           NEW k \in Nat, k < Len(basket), NEW s, LoopAt(s, k, o, basket, cost)
    PROVE  LoopAt(ReceiveLine(s, o, basket[k + 1], cost), k + 1, o, basket, cost)
<1>. DEFINE l == basket[k + 1]
            t == ReceiveLine(s, o, l, cost)
<1>1. s \in LoopStates /\ (s.ok => QuantitiesAt(s, k, o, basket)) /\ (s.ok => ValueAt(s, k, basket, cost))
  BY DEF LoopAt
<1>2. l \in ReceiptLines /\ o \in Nat
  BY ElementOfSeq DEF LoopTypes
<1>. HIDE DEF t
<1>3. t \in LoopStates
  <2>. HIDE DEF l
  <2>. QED
    BY <1>1, <1>2, ReceiveLineEffect DEF t
<1>4. ASSUME t.ok
      PROVE  QuantitiesAt(t, k + 1, o, basket) /\ ValueAt(t, k + 1, basket, cost)
  <2>1. QuantitiesAt(t, k + 1, o, basket)
    BY <1>1, <1>4, QuantitiesNext DEF t
  <2>2. ValueAt(t, k + 1, basket, cost)
    BY <1>1, <1>4, ValueNext DEF t
  <2>. QED
    BY <2>1, <2>2
<1>5. LoopAt(t, k + 1, o, basket, cost)
  BY <1>3, <1>4 DEF LoopAt
<1>. QED
  BY <1>5 DEF t

\* What a receipt leaves when it has gone through all its lines.
LEMMA ReceiptEffect ==
    ASSUME NEW o, LoopTypes(o), NEW basket \in Seq(ReceiptLines), NEW cost \in Nat
    PROVE  LoopAt(Received(o, basket, cost), Len(basket), o, basket, cost)
<1>. DEFINE n == Len(basket)
<1>1. n \in Nat
  OBVIOUS
<1>2. PICK g : /\ g[0] = Unreceived(o)
               /\ \A k \in 1..n : g[k] = ReceiveLine(g[k - 1], o, basket[k], cost)
               /\ g[n] = Received(o, basket, cost)
  BY <1>1, ReceivedIs
<1>. DEFINE B == {k \in 0..n : ~LoopAt(g[k], k, o, basket, cost)}
<1>3. SUFFICES ASSUME B # {} PROVE FALSE
  BY <1>1, <1>2
<1>4. PICK m \in B : \A j \in B : m =< j
  <2>1. B \in SUBSET (0..n)
    OBVIOUS
  <2>. HIDE DEF B, n
  <2>. QED
    BY <1>1, <1>3, <2>1, Least
<1>5. m \in 0..n /\ ~LoopAt(g[m], m, o, basket, cost)
  OBVIOUS
<1>6. CASE m = 0
  BY <1>2, <1>5, <1>6, LoopStarts
<1>7. CASE m # 0
  <2>. DEFINE j == m - 1
  <2>1. j \in 0..n /\ j \notin B /\ j \in Nat /\ j < n /\ j + 1 = m /\ m \in 1..n
    BY <1>4, <1>5, <1>7
  <2>2. LoopAt(g[j], j, o, basket, cost)
    BY <2>1
  <2>3. g[m] = ReceiveLine(g[j], o, basket[m], cost)
    BY <1>2, <2>1
  <2>. HIDE DEF j, B
  <2>4. LoopAt(ReceiveLine(g[j], o, basket[j + 1], cost), j + 1, o, basket, cost)
    BY <2>1, <2>2, LoopNext
  <2>. QED
    BY <1>5, <2>1, <2>3, <2>4
<1>. QED
  BY <1>6, <1>7

-----------------------------------------------------------------------------
\* The cancellation of a receipt.

\* An adjustment of one product moves the value by what it posts.
LEMMA AdjustedValue ==
    ASSUME NEW stock \in [Products -> Int], NEW new \in [Products -> Int],
           NEW unit \in [Products -> Int], NEW p \in Products, NEW q \in Int,
           new[p] = stock[p] + q, \A x \in Products \ {p} : new[x] = stock[x]
    PROVE  Value(new, unit) = Value(stock, unit) + q * unit[p]
<1>. DEFINE f == [x \in Products |-> stock[x] * unit[x]]
            g == [x \in Products |-> new[x] * unit[x]]
            a == stock[p] * unit[p]
            b == q * unit[p]
<1>1. f \in [Products -> Int] /\ g \in [Products -> Int]
  BY ValueTerms
<1>2. (\A x \in Products \ {p} : g[x] = f[x]) /\ f[p] = a /\ g[p] = a + b
  <2>1. g[p] = (stock[p] + q) * unit[p]
    OBVIOUS
  <2>2. stock[p] \in Int /\ unit[p] \in Int
    OBVIOUS
  <2>3. (stock[p] + q) * unit[p] = a + b
    BY <2>2
  <2>. QED
    BY <2>1, <2>3
<1>3. Value(stock, unit) = SumFunction(f) /\ Value(new, unit) = SumFunction(g)
  BY DEF Value
<1>4. IsFiniteSet(Products)
  BY StockAssumption
<1>5. a \in Int /\ b \in Int
  <2>1. stock[p] \in Int /\ unit[p] \in Int
    OBVIOUS
  <2>. QED
    BY <2>1
<1>. HIDE DEF f, g, a, b
<1>6. SumFunction(g) = SumFunction(f) - f[p] + g[p]
  BY <1>1, <1>2, <1>4, SumChange
<1>7. SumFunction(f) \in Int
  BY <1>1, <1>4, SumType
<1>8. Value(new, unit) = Value(stock, unit) + b
  BY <1>2, <1>3, <1>5, <1>6, <1>7
<1>. QED
  BY <1>8 DEF b

\* The state the loop of cancelDocument works on.
CancelStates == [onHand : [Products -> Int], goods : Int, stopped : BOOLEAN]

\* The average costs without their sign, and what an adjustment posts at them.
Sized(unit) == [x \in Products |-> Size(unit[x])]

LEMMA SizedIs ==
    ASSUME NEW unit \in [Products -> Int]
    PROVE  /\ Sized(unit) \in [Products -> Int]
           /\ \A x \in Products : Sized(unit)[x] = Size(unit[x])
BY DEF Sized, Size

LEMMA BookedIs ==
    ASSUME cump \in [Products -> Int], NEW p \in Products, NEW q \in Int
    PROVE  Booked(p, q) \in Int /\ Booked(p, q) = q * Sized(cump)[p]
<1>. DEFINE c == cump[p]
            v == q * c
            n == -c
<1>1. c \in Int /\ v \in Int /\ n \in Int
  OBVIOUS
<1>2. Sized(cump)[p] = Size(c) /\ Booked(p, q) = IF q > 0 THEN Size(v) ELSE -Size(v)
  BY SizedIs DEF Booked
<1>3. CASE c >= 0
  <2>1. Size(c) = c
    BY <1>1, <1>3 DEF Size
  <2>2. q > 0 => v >= 0
    BY <1>1, <1>3
  <2>3. ~(q > 0) => v =< 0
    BY <1>1, <1>3
  <2>4. q > 0 => Size(v) = v
    BY <1>1, <2>2 DEF Size
  <2>5. ~(q > 0) => -Size(v) = v
    <3>. HIDE DEF v
    <3>. QED
      BY <1>1, <2>3 DEF Size
  <2>6. Booked(p, q) = v
    BY <1>2, <2>4, <2>5
  <2>. QED
    BY <1>1, <1>2, <2>1, <2>6
<1>4. CASE ~(c >= 0)
  <2>1. Size(c) = n /\ q * n = -v
    BY <1>1, <1>4 DEF Size
  <2>2. q > 0 => v =< 0
    BY <1>1, <1>4
  <2>3. ~(q > 0) => v >= 0
    BY <1>1, <1>4
  <2>4. q > 0 => Size(v) = -v
    <3>. HIDE DEF v
    <3>. QED
      BY <1>1, <2>2 DEF Size
  <2>5. ~(q > 0) => Size(v) = v
    <3>. HIDE DEF v
    <3>. QED
      BY <1>1, <2>3 DEF Size
  <2>6. Booked(p, q) = -v /\ -v \in Int
    BY <1>1, <1>2, <2>4, <2>5
  <2>. QED
    BY <1>2, <2>1, <2>6
<1>. QED
  BY <1>3, <1>4

\* The value of a stock at the size of the costs of the day.
Booking(stock) == Value(stock, Sized(cump))

LEMMA BookingIs ==
    ASSUME cump \in [Products -> Int], NEW stock \in [Products -> Int]
    PROVE  /\ Booking(stock) \in Int
           /\ Booking(stock) = SumFunction([p \in Products |-> stock[p] * Size(cump[p])])
<1>1. Sized(cump) \in [Products -> Int]
  BY SizedIs
<1>2. [p \in Products |-> stock[p] * Sized(cump)[p]] = [p \in Products |-> stock[p] * Size(cump[p])]
  BY SizedIs
<1>3. Booking(stock) = SumFunction([p \in Products |-> stock[p] * Size(cump[p])])
  BY <1>2 DEF Booking, Value
<1>4. Booking(stock) \in Int
  BY <1>1, ValueTerms DEF Booking
<1>. QED
  BY <1>3, <1>4

\* What the loop has posted is what the stock has lost at that value.
Refunded(s) ==
    /\ s \in CancelStates
    /\ s.goods = Booking(s.onHand) - Booking(onHand)

Uncancelled == [onHand |-> onHand, goods |-> 0, stopped |-> FALSE]

\* The loop of a cancellation, over the first m lines.
CancelLoop(lines, g, m) ==
    g = [k \in 0..m |-> IF k = 0 THEN Uncancelled ELSE CancelLine(g[k - 1], lines[k])]

LEMMA CancelLoopExists ==
    ASSUME NEW lines, NEW n \in Nat
    PROVE  \E g : CancelLoop(lines, g, n)
<1>. DEFINE B == {m \in 0..n : ~ \E g : CancelLoop(lines, g, m)}
<1>1. SUFFICES ASSUME B # {} PROVE FALSE
  OBVIOUS
<1>2. PICK m \in B : \A j \in B : m =< j
  <2>1. B \in SUBSET (0..n)
    OBVIOUS
  <2>. HIDE DEF B
  <2>. QED
    BY <1>1, <2>1, Least
<1>3. m \in Nat /\ m =< n
  OBVIOUS
<1>4. CASE m = 0
  <2>. DEFINE h == [k \in 0..0 |-> Uncancelled]
  <2>1. h = [k \in 0..0 |-> IF k = 0 THEN Uncancelled ELSE CancelLine(h[k - 1], lines[k])]
    OBVIOUS
  <2>2. CancelLoop(lines, h, 0)
    BY <2>1 DEF CancelLoop
  <2>. QED
    BY <1>4, <2>2
<1>5. CASE m > 0
  <2>. DEFINE j == m - 1
  <2>1. j \in 0..n /\ j \notin B /\ j \in Nat
    BY <1>2, <1>3, <1>5
  <2>2. PICK g : CancelLoop(lines, g, j)
    BY <2>1
  <2>. DEFINE h == [k \in 0..m |-> IF k < m THEN g[k] ELSE CancelLine(g[j], lines[m])]
  <2>3. ASSUME NEW k \in 0..j
        PROVE  g[k] = IF k = 0 THEN Uncancelled ELSE CancelLine(g[k - 1], lines[k])
    BY <2>2 DEF CancelLoop
  <2>4. ASSUME NEW k \in 0..m
        PROVE  h[k] = IF k = 0 THEN Uncancelled ELSE CancelLine(h[k - 1], lines[k])
    <3>1. CASE k < m
      <4>1. k \in 0..j /\ h[k] = g[k]
        BY <1>3, <3>1
      <4>2. k # 0 => k - 1 \in 0..m /\ k - 1 < m /\ h[k - 1] = g[k - 1]
        BY <1>3, <3>1
      <4>. HIDE DEF h, j
      <4>. QED
        BY <2>3, <4>1, <4>2
    <3>2. CASE k = m
      <4>1. h[k] = CancelLine(g[j], lines[m]) /\ h[j] = g[j] /\ k # 0
        BY <1>3, <1>5, <3>2
      <4>. HIDE DEF h
      <4>. QED
        BY <3>2, <4>1
    <3>. QED
      BY <1>3, <3>1, <3>2
  <2>5. h = [k \in 0..m |-> h[k]]
    OBVIOUS
  <2>. HIDE DEF h
  <2>6. CancelLoop(lines, h, m)
    BY <2>4, <2>5 DEF CancelLoop
  <2>. QED
    BY <2>6
<1>. QED
  BY <1>3, <1>4, <1>5

LEMMA CancelNext ==
    ASSUME cump \in [Products -> Int], onHand \in [Products -> Int],
           NEW s, Refunded(s), NEW l \in ReceiptLines
    PROVE  Refunded(CancelLine(s, l))
<1>. DEFINE t == CancelLine(s, l)
            p == l.product
            q == -l.qty
<1>1. p \in Products /\ q \in Int /\ s \in CancelStates
  BY DEF Refunded, ReceiptLines
<1>2. s.onHand \in [Products -> Int] /\ s.goods \in Int /\ s.stopped \in BOOLEAN
  BY <1>1 DEF CancelStates
<1>. HIDE DEF p, q
<1>3. CASE s.stopped \/ ~Adjustable(s, p, q)
  <2>1. t = [s EXCEPT !.stopped = TRUE]
    BY <1>3 DEF CancelLine, p, q
  <2>2. t.onHand = s.onHand /\ t.goods = s.goods /\ t \in CancelStates
    BY <1>1, <2>1 DEF CancelStates
  <2>. QED
    BY <2>2 DEF Refunded
<1>4. CASE ~(s.stopped \/ ~Adjustable(s, p, q))
  <2>1. t = AdjustLine(s, p, q)
    BY <1>4 DEF CancelLine, p, q
  <2>2. t = [s EXCEPT !.onHand[p] = s.onHand[p] + q, !.goods = s.goods + Booked(p, q)]
    BY <2>1 DEF AdjustLine
  <2>. DEFINE b == s.onHand[p] + q
              e == Booked(p, q)
              after == [s.onHand EXCEPT ![p] = b]
  <2>3. b \in Int /\ e \in Int
    <3>1. s.onHand[p] \in Int
      BY <1>1, <1>2
    <3>. QED
      BY <1>1, <3>1, BookedIs
  <2>4. t = [s EXCEPT !.onHand = after, !.goods = s.goods + e]
    BY <2>2
  <2>5. after \in [Products -> Int] /\ after[p] = b /\ \A x \in Products \ {p} : after[x] = s.onHand[x]
    BY <1>1, <1>2, <2>3
  <2>6. s.goods + e \in Int
    <3>. HIDE DEF e
    <3>. QED
      BY <1>2, <2>3
  <2>7. t.onHand = after /\ t.goods = s.goods + e /\ t \in CancelStates
    <3>. HIDE DEF after, e
    <3>. QED
      BY <1>1, <2>4, <2>5, <2>6 DEF CancelStates
  <2>8. Booking(after) = Booking(s.onHand) + e
    <3>1. after[p] = s.onHand[p] + q
      BY <2>5
    <3>2. Sized(cump) \in [Products -> Int]
      BY SizedIs
    <3>3. e = q * Sized(cump)[p]
      BY <1>1, BookedIs
    <3>4. after \in [Products -> Int] /\ \A x \in Products \ {p} : after[x] = s.onHand[x]
      BY <2>5
    <3>. HIDE DEF after, b, e
    <3>5. Value(after, Sized(cump)) = Value(s.onHand, Sized(cump)) + q * Sized(cump)[p]
      BY ONLY <1>1, <1>2, <3>1, <3>2, <3>4, AdjustedValue
    <3>. QED
      BY <3>3, <3>5 DEF Booking
  <2>9. Booking(s.onHand) \in Int /\ Booking(onHand) \in Int
    BY <1>2, BookingIs
  <2>10. s.goods = Booking(s.onHand) - Booking(onHand)
    BY DEF Refunded
  <2>11. t.goods = Booking(t.onHand) - Booking(onHand)
    <3>1. Booking(t.onHand) = Booking(s.onHand) + e
      BY <2>7, <2>8
    <3>. HIDE DEF after, b, e
    <3>. QED
      BY <2>3, <2>7, <2>9, <2>10, <3>1
  <2>. QED
    BY <2>7, <2>11 DEF Refunded
<1>. QED
  BY <1>3, <1>4

LEMMA CancelEffect ==
    ASSUME cump \in [Products -> Int], onHand \in [Products -> Int],
           NEW r, receipts[r].lines \in Seq(ReceiptLines)
    PROVE  Refunded(Cancelled(r))
<1>. DEFINE lines == receipts[r].lines
            n == Len(lines)
            g == CHOOSE g : CancelLoop(lines, g, n)
<1>1. n \in Nat /\ \A k \in 1..n : lines[k] \in ReceiptLines
  BY ElementOfSeq
<1>2. CancelLoop(lines, g, n)
  <2>1. \E h : CancelLoop(lines, h, n)
    BY <1>1, CancelLoopExists
  <2>. QED
    BY <2>1
<1>3. Cancelled(r) = g[n]
  BY DEF Cancelled, CancelLoop, Uncancelled
<1>. HIDE DEF g
<1>4. /\ g[0] = Uncancelled
      /\ \A k \in 1..n : g[k] = CancelLine(g[k - 1], lines[k])
  <2>1. \A k \in 0..n : g[k] = IF k = 0 THEN Uncancelled ELSE CancelLine(g[k - 1], lines[k])
    BY <1>2 DEF CancelLoop
  <2>. HIDE DEF n
  <2>. QED
    BY <1>1, <2>1
<1>5. Refunded(Uncancelled)
  <2>1. Uncancelled \in CancelStates /\ Uncancelled.onHand = onHand /\ Uncancelled.goods = 0
    BY DEF Uncancelled, CancelStates
  <2>2. Booking(onHand) \in Int
    BY BookingIs
  <2>. QED
    BY <2>1, <2>2 DEF Refunded
<1>. DEFINE B == {k \in 0..n : ~Refunded(g[k])}
<1>6. SUFFICES ASSUME B # {} PROVE FALSE
  BY <1>1, <1>3
<1>7. PICK m \in B : \A j \in B : m =< j
  <2>1. B \in SUBSET (0..n)
    OBVIOUS
  <2>. HIDE DEF B, n
  <2>. QED
    BY <1>1, <1>6, <2>1, Least
<1>8. m \in 0..n /\ ~Refunded(g[m])
  OBVIOUS
<1>9. m # 0
  BY <1>4, <1>5, <1>8
<1>. DEFINE j == m - 1
<1>10. j \in 0..n /\ j \notin B /\ m \in 1..n
  BY <1>1, <1>7, <1>8, <1>9
<1>11. Refunded(g[j])
  BY <1>10
<1>12. g[m] = CancelLine(g[j], lines[m]) /\ lines[m] \in ReceiptLines
  BY <1>1, <1>4, <1>10
<1>. HIDE DEF j, lines, n, B
<1>. QED
  BY <1>8, <1>11, <1>12, CancelNext

-----------------------------------------------------------------------------
\* The invariant: the papers are what the handlers build, a receipt names an
\* order there is, and orders and receipts agree.

RequestRows == [status : {"REQUESTED", "APPROVED", "CONVERTED"}, lines : Seq(ReceiptLines), cost : Nat]
Statuses == {"DRAFT", "APPROVED", "CANCELLED", "PARTIALLY_RECEIVED", "RECEIVED"}
OrderRows == [status : Statuses, cost : Nat, lines : Seq(OrderLines)]
ReceiptRows == [order : Nat, lines : Seq(ReceiptLines), cost : Nat]

StocksOK == onHand \in [Products -> Int] /\ cump \in [Products -> Int]
RequestsOK == requests \in Seq(RequestRows)
OrdersOK ==
    /\ purchaseOrders \in Seq(OrderRows)
    /\ receipts \in Seq(ReceiptRows)
    /\ \A r \in DOMAIN receipts : receipts[r].order =< Len(purchaseOrders)

\* No line received too much, and the status says how far the order is.
Sound(order) ==
    LET lines == order.lines
    IN  /\ \A i \in DOMAIN lines : lines[i].received =< lines[i].qty
        /\ order.status = "RECEIVED" =>
             \A i \in DOMAIN lines : lines[i].received = lines[i].qty
        /\ order.status = "PARTIALLY_RECEIVED" =>
             /\ \E i \in DOMAIN lines : lines[i].received > 0
             /\ \E i \in DOMAIN lines : lines[i].received # lines[i].qty
        /\ order.status = "DRAFT" => \A i \in DOMAIN lines : ~(lines[i].received > 0)

\* What the receipts rs brought for the order o.
OfOrder(rs, o) == {r \in DOMAIN rs : rs[r].order = o}
Brought(rs, o, p) == SumFunction([r \in OfOrder(rs, o) |-> QuantityOf(rs[r].lines, p)])

Agrees(order, rs, o) ==
    \A p \in Products : ReceivedOf(order.lines, p) = Brought(rs, o, p)

ProcurementInv == StocksOK /\ RequestsOK /\ OrdersOK /\ OrdersMatchReceipts

LEMMA MatchIs ==
    OrdersMatchReceipts <=>
      \A o \in DOMAIN purchaseOrders :
         Sound(purchaseOrders[o]) /\ Agrees(purchaseOrders[o], receipts, o)
BY DEF OrdersMatchReceipts, Sound, Agrees, Brought, BroughtFor, OfOrder

LEMMA MatchNextIs ==
    OrdersMatchReceipts' <=>
      \A o \in DOMAIN purchaseOrders' :
         Sound(purchaseOrders'[o]) /\ Agrees(purchaseOrders'[o], receipts', o)
BY DEF OrdersMatchReceipts, Sound, Agrees, Brought, BroughtFor, OfOrder

LEMMA BroughtTerms ==
    ASSUME NEW rs \in Seq(ReceiptRows), NEW o, NEW p
    PROVE  /\ IsFiniteSet(OfOrder(rs, o))
           /\ [r \in OfOrder(rs, o) |-> QuantityOf(rs[r].lines, p)] \in [OfOrder(rs, o) -> Int]
           /\ Brought(rs, o, p) \in Int
<1>. DEFINE S == OfOrder(rs, o)
            f == [r \in S |-> QuantityOf(rs[r].lines, p)]
<1>1. IsFiniteSet(S)
  <2>1. DOMAIN rs = 1..Len(rs) /\ IsFiniteSet(1..Len(rs)) /\ S \subseteq DOMAIN rs
    BY FS_Interval DEF OfOrder
  <2>. HIDE DEF S
  <2>. QED
    BY <2>1, FS_Subset
<1>2. ASSUME NEW r \in S
      PROVE  QuantityOf(rs[r].lines, p) \in Int
  <2>. DEFINE lines == rs[r].lines
  <2>1. rs[r] \in ReceiptRows
    BY ElementOfSeq DEF OfOrder
  <2>2. lines \in Seq(ReceiptLines)
    BY <2>1 DEF ReceiptRows
  <2>3. Len(lines) \in 0..Len(lines)
    BY <2>2
  <2>. HIDE DEF lines
  <2>4. QuantityOf(lines, p) \in Nat
    BY <2>2, <2>3, QtyAll, FirstTerms
  <2>. QED
    BY <2>4 DEF lines
<1>3. f \in [S -> Int]
  <2>. HIDE DEF S
  <2>. QED
    BY <1>2
<1>4. SumFunction(f) \in Int
  <2>. HIDE DEF S, f
  <2>. QED
    BY <1>1, <1>3, SumType
<1>. QED
  BY <1>1, <1>3, <1>4 DEF Brought

\* One more receipt.
Brings(rs, receipt, new, o, p) ==
    /\ receipt.order = o => Brought(new, o, p) = Brought(rs, o, p) + QuantityOf(receipt.lines, p)
    /\ receipt.order # o => Brought(new, o, p) = Brought(rs, o, p)

LEMMA BroughtNext ==
    ASSUME NEW rs \in Seq(ReceiptRows), NEW receipt \in ReceiptRows, NEW o, NEW p,
           NEW new, new = Append(rs, receipt)
    PROVE  Brings(rs, receipt, new, o, p)
<1>. DEFINE n == Len(rs) + 1
            S == OfOrder(rs, o)
            T == OfOrder(new, o)
            f == [r \in S |-> QuantityOf(rs[r].lines, p)]
            g == [r \in T |-> QuantityOf(new[r].lines, p)]
<1>1. new \in Seq(ReceiptRows)
  OBVIOUS
<1>2. /\ n \notin DOMAIN rs
      /\ DOMAIN new = DOMAIN rs \cup {n}
      /\ new[n] = receipt
      /\ \A r \in DOMAIN rs : new[r] = rs[r]
  BY AppendProperties
<1>3. IsFiniteSet(S) /\ f \in [S -> Int] /\ g \in [T -> Int]
  <2>1. IsFiniteSet(S)
    BY BroughtTerms
  <2>2. f \in [S -> Int]
    BY BroughtTerms
  <2>3. g \in [T -> Int]
    BY <1>1, BroughtTerms
  <2>. QED
    BY <2>1, <2>2, <2>3
<1>4. CASE receipt.order = o
  <2>1. T = S \cup {n} /\ n \notin S
    BY <1>2, <1>4 DEF OfOrder
  <2>2. g[n] = QuantityOf(receipt.lines, p)
    BY <1>2, <2>1
  <2>3. \A r \in S : g[r] = f[r]
    BY <1>2, <2>1 DEF OfOrder
  <2>4. g \in [S \cup {n} -> Int]
    BY <1>3, <2>1
  <2>. HIDE DEF S, T, f, g, n
  <2>5. SumFunction(g) = SumFunction(f) + g[n]
    BY ONLY <1>3, <2>1, <2>3, <2>4, SumExtend
  <2>. QED
    BY <1>4, <2>2, <2>5 DEF Brought, Brings, S, T, f, g, n
<1>5. CASE receipt.order # o
  <2>1. T = S
    BY <1>2, <1>5 DEF OfOrder
  <2>2. g = f
    BY <1>2, <2>1 DEF OfOrder
  <2>. QED
    BY <1>5, <2>2 DEF Brought, Brings
<1>. QED
  BY <1>4, <1>5

LEMMA BroughtNone ==
    ASSUME NEW rs \in Seq(ReceiptRows), NEW o, \A r \in DOMAIN rs : rs[r].order # o, NEW p
    PROVE  Brought(rs, o, p) = 0
<1>. DEFINE S == OfOrder(rs, o)
            f == [r \in S |-> QuantityOf(rs[r].lines, p)]
<1>1. S = {}
  BY DEF OfOrder
<1>2. f \in [{} -> Int]
  BY <1>1
<1>. HIDE DEF f
<1>3. SumFunction(f) = 0
  BY <1>2, SumEmpty
<1>. QED
  BY <1>3 DEF Brought, f

LEMMA NothingReceived ==
    ASSUME NEW lines \in Seq(OrderLines), \A i \in DOMAIN lines : lines[i].received = 0, NEW p
    PROVE  ReceivedOf(lines, p) = 0
<1>. DEFINE S == OfProduct(lines, p)
            f == [i \in S |-> lines[i].received]
<1>1. IsFiniteSet(S) /\ f \in [S -> Int]
  BY ReceivedTerms
<1>2. \A i \in S : f[i] = 0
  BY DEF OfProduct
<1>. HIDE DEF S, f
<1>3. SumFunction(f) = 0
  BY <1>1, <1>2, SumZero
<1>. QED
  BY <1>3 DEF ReceivedOf, S, f

-----------------------------------------------------------------------------
\* The steps, by what they do to orders and receipts.

\* An order that is approved or cancelled keeps its lines.
LEMMA StatusChange ==
    ASSUME OrdersOK, OrdersMatchReceipts, NEW o \in DOMAIN purchaseOrders,
           NEW status \in {"APPROVED", "CANCELLED"},
           purchaseOrders' = [purchaseOrders EXCEPT ![o].status = status],
           UNCHANGED receipts
    PROVE  OrdersOK' /\ OrdersMatchReceipts'
<1>. DEFINE new == [purchaseOrders[o] EXCEPT !.status = status]
<1>1. purchaseOrders \in Seq(OrderRows) /\ purchaseOrders[o] \in OrderRows
  BY ElementOfSeq DEF OrdersOK
<1>2. new \in OrderRows /\ new.status = status /\ new.lines = purchaseOrders[o].lines
  BY <1>1 DEF OrderRows, Statuses
<1>3. purchaseOrders' = [purchaseOrders EXCEPT ![o] = new]
  OBVIOUS
<1>. HIDE DEF new
<1>4. /\ purchaseOrders' \in Seq(OrderRows) /\ Len(purchaseOrders') = Len(purchaseOrders)
      /\ DOMAIN purchaseOrders' = DOMAIN purchaseOrders
      /\ \A i \in DOMAIN purchaseOrders : purchaseOrders'[i] = IF i = o THEN new ELSE purchaseOrders[i]
  BY <1>1, <1>2, <1>3
<1>5. OrdersOK'
  BY <1>4 DEF OrdersOK
<1>6. ASSUME NEW i \in DOMAIN purchaseOrders'
      PROVE  Sound(purchaseOrders'[i]) /\ Agrees(purchaseOrders'[i], receipts', i)
  <2>1. i \in DOMAIN purchaseOrders /\ Sound(purchaseOrders[i]) /\ Agrees(purchaseOrders[i], receipts, i)
    BY <1>4, MatchIs
  <2>2. CASE i = o
    <3>1. Sound(new)
      BY <1>2, <2>1, <2>2 DEF Sound
    <3>2. Agrees(new, receipts, i)
      BY <1>2, <2>1, <2>2 DEF Agrees
    <3>. QED
      BY <1>4, <2>1, <2>2, <3>1, <3>2
  <2>3. CASE i # o
    BY <1>4, <2>1, <2>3
  <2>. QED
    BY <2>2, <2>3
<1>. QED
  BY <1>5, <1>6, MatchNextIs

\* Nothing came yet for a new order.
LEMMA OrderAdded ==
    ASSUME OrdersOK, OrdersMatchReceipts, NEW basket \in Seq(ReceiptLines), NEW cost \in Nat,
           NewOrder(basket, cost), UNCHANGED receipts
    PROVE  OrdersOK' /\ OrdersMatchReceipts'
<1>. DEFINE lines == Ordered(basket)
            order == [status |-> "DRAFT", cost |-> cost, lines |-> lines]
            n == Len(purchaseOrders) + 1
<1>1. /\ lines \in Seq(OrderLines)
      /\ \A i \in DOMAIN lines : lines[i].received = 0
  <2>1. ASSUME NEW i \in 1..Len(basket)
        PROVE  /\ [product |-> basket[i].product, qty |-> basket[i].qty, received |-> 0] \in OrderLines
               /\ basket[i].product \in Products /\ basket[i].qty \in Nat
    <3>1. basket[i] \in ReceiptLines
      BY ElementOfSeq
    <3>. QED
      BY <3>1 DEF ReceiptLines, OrderLines
  <2>2. DOMAIN basket = 1..Len(basket) /\ Len(basket) \in Nat
    OBVIOUS
  <2>3. lines \in [1..Len(basket) -> OrderLines]
    BY <2>1, <2>2 DEF Ordered
  <2>4. \A i \in DOMAIN lines : lines[i].received = 0
    BY <2>2 DEF Ordered
  <2>. HIDE DEF lines
  <2>. QED
    BY <2>2, <2>3, <2>4, SeqDef
<1>2. order \in OrderRows /\ order.lines = lines /\ order.status = "DRAFT"
  <2>. HIDE DEF lines
  <2>. QED
    BY <1>1 DEF OrderRows, Statuses
<1>3. purchaseOrders' = Append(purchaseOrders, order)
  BY DEF NewOrder
<1>4. purchaseOrders \in Seq(OrderRows) /\ receipts \in Seq(ReceiptRows)
  BY DEF OrdersOK
<1>. HIDE DEF lines, order
<1>5. /\ purchaseOrders' \in Seq(OrderRows)
      /\ Len(purchaseOrders') = n
      /\ DOMAIN purchaseOrders' = DOMAIN purchaseOrders \cup {n}
      /\ purchaseOrders'[n] = order
      /\ \A i \in DOMAIN purchaseOrders : purchaseOrders'[i] = purchaseOrders[i]
  BY <1>2, <1>3, <1>4, AppendProperties
<1>6. \A r \in DOMAIN receipts : receipts[r].order \in Nat /\ receipts[r].order =< Len(purchaseOrders)
  <2>1. \A r \in DOMAIN receipts : receipts[r] \in ReceiptRows
    BY <1>4, ElementOfSeq
  <2>. QED
    BY <2>1 DEF OrdersOK, ReceiptRows
<1>7. OrdersOK'
  <2>1. ASSUME NEW r \in DOMAIN receipts
        PROVE  receipts[r].order =< n
    BY <1>4, <1>6
  <2>. QED
    BY <1>4, <1>5, <2>1 DEF OrdersOK
<1>8. Sound(order)
  <2>1. \A i \in DOMAIN lines : lines[i].received = 0 /\ lines[i].qty \in Nat
    <3>1. \A i \in DOMAIN lines : lines[i] \in OrderLines
      BY <1>1, ElementOfSeq
    <3>. QED
      BY <1>1, <3>1 DEF OrderLines
  <2>. QED
    BY <1>2, <2>1 DEF Sound
<1>9. Agrees(order, receipts, n)
  <2>1. \A r \in DOMAIN receipts : receipts[r].order # n
    BY <1>4, <1>6
  <2>2. ASSUME NEW p \in Products
        PROVE  ReceivedOf(lines, p) = 0 /\ Brought(receipts, n, p) = 0
    <3>1. ReceivedOf(lines, p) = 0
      BY <1>1, NothingReceived
    <3>2. Brought(receipts, n, p) = 0
      <4>. HIDE DEF n
      <4>. QED
        BY <1>4, <2>1, BroughtNone
    <3>. QED
      BY <3>1, <3>2
  <2>. QED
    BY <1>2, <2>2 DEF Agrees
<1>10. ASSUME NEW i \in DOMAIN purchaseOrders'
       PROVE  Sound(purchaseOrders'[i]) /\ Agrees(purchaseOrders'[i], receipts', i)
  <2>1. CASE i = n
    BY <1>5, <1>8, <1>9, <2>1
  <2>2. CASE i \in DOMAIN purchaseOrders
    BY <1>5, <2>2, MatchIs
  <2>. QED
    BY <1>5, <2>1, <2>2
<1>. QED
  BY <1>7, <1>10, MatchNextIs

LEMMA OrdersKept ==
    ASSUME OrdersOK, OrdersMatchReceipts, UNCHANGED <<purchaseOrders, receipts>>
    PROVE  OrdersOK' /\ OrdersMatchReceipts'
<1>1. OrdersOK'
  BY DEF OrdersOK
<1>2. OrdersMatchReceipts'
  BY MatchIs, MatchNextIs
<1>. QED
  BY <1>1, <1>2

\* A receipt that goes through leaves something on a line of its order.
LEMMA SomethingCame ==
    ASSUME NEW lines \in Seq(OrderLines), NEW basket \in Seq(ReceiptLines), NEW cost \in Nat,
           LinesTotal(basket, cost) > 0, \A i \in 1..Len(basket) : basket[i].qty > 0,
           \A p \in Products : QuantityOf(basket, p) =< ReceivedOf(lines, p)
    PROVE  \E i \in DOMAIN lines : lines[i].received > 0
<1>1. Len(basket) \in Nat /\ Len(basket) # 0
  <2>1. Len(basket) # 0
    BY CostAll, CostNone
  <2>. QED
    BY <2>1
<1>. DEFINE p == basket[1].product
            S == FirstOf(basket, Len(basket), p)
            f == [i \in S |-> basket[i].qty]
<1>2. basket[1] \in ReceiptLines /\ p \in Products /\ basket[1].qty \in Nat /\ basket[1].qty > 0
  <2>1. 1 \in 1..Len(basket)
    BY <1>1
  <2>2. basket[1] \in ReceiptLines
    BY <2>1, ElementOfSeq
  <2>. QED
    BY <2>1, <2>2 DEF ReceiptLines
<1>3. IsFiniteSet(S) /\ f \in [S -> Nat]
  BY <1>1, FirstTerms
<1>4. 1 \in S /\ f[1] = basket[1].qty
  BY <1>1 DEF FirstOf
<1>5. QuantityOf(basket, p) = SumFunction(f)
  BY QtyAll DEF QtyUpTo
<1>6. f[1] =< SumFunction(f) /\ SumFunction(f) \in Nat
  <2>. HIDE DEF S, f
  <2>. QED
    BY <1>3, <1>4, SumNat
<1>7. ReceivedOf(lines, p) \in Nat /\ ReceivedOf(lines, p) > 0
  <2>1. ReceivedOf(lines, p) \in Nat /\ QuantityOf(basket, p) =< ReceivedOf(lines, p)
    BY <1>2, ReceivedTerms
  <2>. HIDE DEF S, f, p
  <2>. QED
    BY <1>2, <1>4, <1>5, <1>6, <2>1
<1>8. SUFFICES ASSUME \A i \in DOMAIN lines : ~(lines[i].received > 0)
               PROVE  FALSE
  OBVIOUS
<1>9. \A i \in DOMAIN lines : lines[i].received = 0
  <2>1. \A i \in DOMAIN lines : lines[i] \in OrderLines
    BY ElementOfSeq
  <2>. QED
    BY <1>8, <2>1 DEF OrderLines
<1>10. ReceivedOf(lines, p) = 0
  <2>. HIDE DEF p
  <2>. QED
    BY <1>9, NothingReceived
<1>. QED
  BY <1>7, <1>10

\* A receipt: its lines and what its order received grow alike.
LEMMA ReceiptAdded ==
    ASSUME StocksOK, OrdersOK, OrdersMatchReceipts,
           NEW o \in {0} \cup DOMAIN purchaseOrders, NEW w,
           NEW basket \in Seq(ReceiptLines), NEW cost \in Nat,
           CreatePurchaseReceipt(o, w, basket, cost)
    PROVE  OrdersOK' /\ OrdersMatchReceipts'
<1>. DEFINE s == Received(o, basket, cost)
            receipt == [order |-> o, lines |-> basket, cost |-> cost]
<1>1. purchaseOrders \in Seq(OrderRows) /\ receipts \in Seq(ReceiptRows)
  BY DEF OrdersOK
<1>2. o \in Nat /\ o =< Len(purchaseOrders)
  BY <1>1
<1>3. LoopTypes(o)
  <2>1. ASSUME o # 0
        PROVE  purchaseOrders[o] \in OrderRows
    BY <1>1, <2>1, ElementOfSeq
  <2>. QED
    BY <1>2, <2>1 DEF LoopTypes, StocksOK, OrderRows
<1>4. LoopAt(s, Len(basket), o, basket, cost)
  BY <1>3, ReceiptEffect
<1>5. /\ s.ok /\ LinesTotal(basket, cost) > 0
      /\ Commit(o, s)
      /\ receipts' = Append(receipts, receipt)
  BY DEF CreatePurchaseReceipt
<1>6. receipt \in ReceiptRows /\ receipt.order = o /\ receipt.lines = basket
  BY <1>2 DEF ReceiptRows
<1>. HIDE DEF s, receipt
<1>7. s \in LoopStates /\ QuantitiesAt(s, Len(basket), o, basket)
  BY <1>4, <1>5 DEF LoopAt
<1>8. s.lines \in Seq(OrderLines)
  BY <1>7 DEF LoopStates
<1>9. /\ receipts' \in Seq(ReceiptRows)
      /\ \A r \in DOMAIN receipts' : receipts'[r].order =< Len(purchaseOrders)
  <2>1. /\ receipts' \in Seq(ReceiptRows)
        /\ DOMAIN receipts' = DOMAIN receipts \cup {Len(receipts) + 1}
        /\ receipts'[Len(receipts) + 1] = receipt
        /\ \A r \in DOMAIN receipts : receipts'[r] = receipts[r]
    BY <1>1, <1>5, <1>6, AppendProperties
  <2>. QED
    BY <1>2, <1>6, <2>1 DEF OrdersOK
<1>10. ASSUME NEW i, i # o, NEW order, Agrees(order, receipts, i)
       PROVE  Agrees(order, receipts', i)
  <2>1. ASSUME NEW p \in Products
        PROVE  Brought(receipts', i, p) = Brought(receipts, i, p)
    <3>1. Brings(receipts, receipt, receipts', i, p)
      BY <1>1, <1>5, <1>6, BroughtNext
    <3>. QED
      BY <1>6, <1>10, <3>1 DEF Brings
  <2>. QED
    BY <1>10, <2>1 DEF Agrees
<1>11. CASE o = 0
  <2>1. purchaseOrders' = purchaseOrders
    BY <1>5, <1>11 DEF Commit
  <2>2. \A i \in DOMAIN purchaseOrders : i # o
    BY <1>1, <1>11
  <2>3. OrdersOK'
    BY <1>1, <1>9, <2>1 DEF OrdersOK
  <2>. QED
    BY <1>10, <2>1, <2>2, <2>3, MatchIs, MatchNextIs
<1>12. CASE o # 0
  <2>. DEFINE old == purchaseOrders[o]
              new == [old EXCEPT !.lines = s.lines, !.status = StatusAfter(s.lines)]
  <2>1. o \in DOMAIN purchaseOrders /\ old \in OrderRows
    BY <1>1, <1>12, ElementOfSeq
  <2>2. /\ old.lines \in Seq(OrderLines)
        /\ Sound(old) /\ Agrees(old, receipts, o)
    BY <2>1, MatchIs DEF OrderRows
  <2>3. StatusAfter(s.lines) \in Statuses
    BY DEF StatusAfter, Statuses
  <2>4. new \in OrderRows /\ new.lines = s.lines /\ new.status = StatusAfter(s.lines)
    <3>. HIDE DEF old
    <3>. QED
      BY <1>8, <2>1, <2>3 DEF OrderRows
  <2>5. purchaseOrders' = [purchaseOrders EXCEPT ![o] = new]
    BY <1>5, <1>12 DEF Commit
  <2>6. Unreceived(o).lines = old.lines
    BY <1>12 DEF Unreceived
  <2>. HIDE DEF old, new
  <2>7. /\ purchaseOrders' \in Seq(OrderRows) /\ Len(purchaseOrders') = Len(purchaseOrders)
        /\ DOMAIN purchaseOrders' = DOMAIN purchaseOrders
        /\ \A i \in DOMAIN purchaseOrders :
              purchaseOrders'[i] = IF i = o THEN new ELSE purchaseOrders[i]
    BY <1>1, <2>1, <2>4, <2>5
  <2>8. /\ Grown(old.lines, s.lines)
        /\ \A i \in 1..Len(basket) : basket[i].qty > 0
        /\ \A p \in Products :
              ReceivedOf(s.lines, p) = ReceivedOf(old.lines, p) + QtyUpTo(basket, Len(basket), p)
    BY <1>7, <1>12, <2>6 DEF QuantitiesAt
  <2>9. Agrees(new, receipts', o)
    <3>1. ASSUME NEW p \in Products
          PROVE  ReceivedOf(s.lines, p) = Brought(receipts', o, p)
      <4>1. Brought(receipts', o, p) = Brought(receipts, o, p) + QuantityOf(basket, p)
        <5>1. Brings(receipts, receipt, receipts', o, p)
          BY <1>1, <1>5, <1>6, BroughtNext
        <5>. QED
          BY <1>6, <5>1 DEF Brings
      <4>2. ReceivedOf(old.lines, p) = Brought(receipts, o, p)
        BY <2>2 DEF Agrees
      <4>3. QuantityOf(basket, p) = QtyUpTo(basket, Len(basket), p)
        BY QtyAll
      <4>. QED
        BY <2>8, <4>1, <4>2, <4>3
    <3>. QED
      BY <2>4, <3>1 DEF Agrees
  <2>10. \A p \in Products : QuantityOf(basket, p) =< ReceivedOf(s.lines, p)
    <3>. TAKE p \in Products
    <3>1. ReceivedOf(old.lines, p) \in Nat
      BY <2>2, ReceivedTerms
    <3>2. QuantityOf(basket, p) = QtyUpTo(basket, Len(basket), p)
      BY QtyAll
    <3>3. QtyUpTo(basket, Len(basket), p) \in Nat
      <4>1. Len(basket) \in 0..Len(basket)
        OBVIOUS
      <4>. QED
        BY <4>1, FirstTerms
    <3>. QED
      BY <2>8, <3>1, <3>2, <3>3
  <2>11. Sound(new)
    <3>. DEFINE lines == s.lines
    <3>1. \A i \in DOMAIN lines : lines[i] \in OrderLines
      BY <1>8, ElementOfSeq
    <3>2. \A i \in DOMAIN lines : /\ lines[i].received \in Nat /\ lines[i].qty \in Nat
                                  /\ lines[i].received =< lines[i].qty
      <4>1. \A i \in DOMAIN old.lines : old.lines[i].received =< old.lines[i].qty
        BY <2>2 DEF Sound
      <4>. QED
        BY <2>8, <3>1, <4>1 DEF Grown, OrderLines
    <3>3. \E i \in DOMAIN lines : lines[i].received > 0
      BY <1>5, <1>8, <2>8, <2>10, SomethingCame
    <3>. HIDE DEF lines
    <3>4. StatusAfter(lines) = "RECEIVED" => \A i \in DOMAIN lines : lines[i].received = lines[i].qty
      BY <3>2 DEF StatusAfter
    <3>5. StatusAfter(lines) = "PARTIALLY_RECEIVED" => \E i \in DOMAIN lines : lines[i].received # lines[i].qty
      BY <3>2 DEF StatusAfter
    <3>6. StatusAfter(lines) # "DRAFT"
      BY DEF StatusAfter
    <3>7. new.lines = lines /\ new.status = StatusAfter(lines)
      BY <2>4 DEF lines
    <3>. QED
      BY <3>2, <3>3, <3>4, <3>5, <3>6, <3>7 DEF Sound
  <2>12. OrdersOK'
    BY <1>9, <2>7 DEF OrdersOK
  <2>13. ASSUME NEW i \in DOMAIN purchaseOrders'
         PROVE  Sound(purchaseOrders'[i]) /\ Agrees(purchaseOrders'[i], receipts', i)
    <3>1. CASE i = o
      BY <2>7, <2>9, <2>11, <3>1
    <3>2. CASE i # o
      BY <1>10, <2>7, <3>2, MatchIs
    <3>. QED
      BY <3>1, <3>2
  <2>. QED
    BY <2>12, <2>13, MatchNextIs
<1>. QED
  BY <1>11, <1>12

\* The stock and the cost of a product after a receipt are those of its loop.
LEMMA ReceiptStocks ==
    ASSUME StocksOK, OrdersOK, NEW o \in {0} \cup DOMAIN purchaseOrders, NEW w,
           NEW basket \in Seq(ReceiptLines), NEW cost \in Nat,
           CreatePurchaseReceipt(o, w, basket, cost)
    PROVE  /\ onHand' = Received(o, basket, cost).onHand
           /\ cump' = Received(o, basket, cost).cump
           /\ StocksOK'
           /\ ValueAt(Received(o, basket, cost), Len(basket), basket, cost)
<1>. DEFINE s == Received(o, basket, cost)
<1>1. purchaseOrders \in Seq(OrderRows)
  BY DEF OrdersOK
<1>2. o \in Nat /\ (o # 0 => purchaseOrders[o] \in OrderRows)
  BY <1>1, ElementOfSeq
<1>3. LoopTypes(o)
  BY <1>2 DEF LoopTypes, StocksOK, OrderRows
<1>4. LoopAt(s, Len(basket), o, basket, cost)
  BY <1>3, ReceiptEffect
<1>5. /\ s.ok
      /\ onHand' = Plus(onHand, Minus(s.onHand, onHand))
      /\ cump' = s.cump
  BY DEF CreatePurchaseReceipt, Move
<1>. HIDE DEF s
<1>6. s.onHand \in [Products -> Int] /\ s.cump \in [Products -> Int]
  BY <1>4 DEF LoopAt, LoopStates
<1>7. onHand' = s.onHand
  <2>1. \A p \in Products : onHand'[p] = onHand[p] + (s.onHand[p] - onHand[p])
    BY <1>5 DEF Plus, Minus
  <2>2. \A p \in Products : onHand'[p] = s.onHand[p]
    BY <1>6, <2>1 DEF StocksOK
  <2>3. onHand' = [p \in Products |-> onHand'[p]]
    BY <1>5 DEF Plus
  <2>. QED
    BY <1>6, <2>2, <2>3
<1>8. StocksOK'
  BY <1>5, <1>6, <1>7 DEF StocksOK
<1>9. ValueAt(s, Len(basket), basket, cost)
  BY <1>4, <1>5 DEF LoopAt
<1>. QED
  BY <1>5, <1>7, <1>8, <1>9 DEF s

\* What is still to come of a sound order.
LEMMA OutstandingLines ==
    ASSUME OrdersOK, OrdersMatchReceipts, NEW o \in DOMAIN purchaseOrders
    PROVE  Outstanding(o) \in Seq(ReceiptLines) /\ purchaseOrders[o].cost \in Nat
<1>. DEFINE lines == purchaseOrders[o].lines
<1>1. purchaseOrders[o] \in OrderRows
  BY ElementOfSeq DEF OrdersOK
<1>2. lines \in Seq(OrderLines) /\ purchaseOrders[o].cost \in Nat
  BY <1>1 DEF OrderRows
<1>3. \A i \in DOMAIN lines : lines[i].received =< lines[i].qty
  BY MatchIs DEF Sound
<1>4. Outstanding(o) = [i \in DOMAIN lines |-> [product |-> lines[i].product,
                                                qty |-> lines[i].qty - lines[i].received]]
  BY DEF Outstanding
<1>. HIDE DEF lines
<1>5. ASSUME NEW i \in DOMAIN lines
      PROVE  [product |-> lines[i].product, qty |-> lines[i].qty - lines[i].received] \in ReceiptLines
  <2>1. lines[i] \in OrderLines
    BY <1>2, ElementOfSeq
  <2>2. lines[i].product \in Products /\ lines[i].qty - lines[i].received \in Nat
    BY <1>3, <2>1 DEF OrderLines
  <2>. QED
    BY <2>2 DEF ReceiptLines
<1>6. DOMAIN lines = 1..Len(lines) /\ Len(lines) \in Nat
  BY <1>2
<1>7. Outstanding(o) \in [1..Len(lines) -> ReceiptLines]
  BY <1>4, <1>5, <1>6
<1>. QED
  BY <1>2, <1>6, <1>7, SeqDef

-----------------------------------------------------------------------------
\* Every step keeps the invariant.

LEMMA BasketLines ==
    ASSUME NEW basket \in Baskets
    PROVE  basket \in Seq(ReceiptLines)
<1>1. basket \in Seq([product : Products, qty : 1..MaxQty])
  BY ProcurementAssumption
<1>2. ASSUME NEW i \in 1..Len(basket)
      PROVE  basket[i] \in ReceiptLines
  <2>1. basket[i] \in [product : Products, qty : 1..MaxQty]
    BY <1>1, ElementOfSeq
  <2>. QED
    BY <2>1, StockAssumption DEF ReceiptLines
<1>3. Len(basket) \in Nat /\ DOMAIN basket = 1..Len(basket) /\ basket = [i \in 1..Len(basket) |-> basket[i]]
  BY <1>1
<1>4. basket \in [1..Len(basket) -> ReceiptLines]
  BY <1>2, <1>3
<1>. QED
  BY <1>3, <1>4, SeqDef

LEMMA CostsAreNat == \A cost \in Costs : cost \in Nat
BY ProcurementAssumption

\* A move of one product.
LEMMA OneMoved ==
    ASSUME StocksOK, NEW p \in Products, NEW q \in Int, NEW w, Move(w, Only(p, q))
    PROVE  /\ onHand' \in [Products -> Int]
           /\ onHand'[p] = onHand[p] + q
           /\ \A x \in Products \ {p} : onHand'[x] = onHand[x]
<1>1. onHand' = [x \in Products |-> onHand[x] + (IF x = p THEN q ELSE 0)]
  BY DEF Move, Plus, Only
<1>. QED
  BY <1>1 DEF StocksOK

LEMMA CancelStocks ==
    ASSUME StocksOK, OrdersOK, NEW r \in DOMAIN receipts, CancelPurchaseReceipt(r)
    PROVE  Refunded(Cancelled(r)) /\ onHand' = Cancelled(r).onHand /\ StocksOK'
<1>. DEFINE s == Cancelled(r)
<1>1. receipts[r].lines \in Seq(ReceiptLines)
  <2>1. receipts[r] \in ReceiptRows
    BY ElementOfSeq DEF OrdersOK
  <2>. QED
    BY <2>1 DEF ReceiptRows
<1>2. Refunded(s)
  BY <1>1, CancelEffect DEF StocksOK
<1>3. s.onHand \in [Products -> Int]
  <2>. HIDE DEF s
  <2>. QED
    BY <1>2 DEF Refunded, CancelStates
<1>4. onHand' = Plus(onHand, Minus(s.onHand, onHand)) /\ cump' = cump
  BY DEF CancelPurchaseReceipt, Move
<1>. HIDE DEF s
<1>5. onHand' = s.onHand
  <2>1. \A p \in Products : onHand'[p] = onHand[p] + (s.onHand[p] - onHand[p])
    BY <1>4 DEF Plus, Minus
  <2>2. \A p \in Products : onHand'[p] = s.onHand[p]
    BY <1>3, <2>1 DEF StocksOK
  <2>3. onHand' = [p \in Products |-> onHand'[p]]
    BY <1>4 DEF Plus
  <2>. QED
    BY <1>3, <2>2, <2>3
<1>6. StocksOK'
  BY <1>3, <1>4, <1>5 DEF StocksOK
<1>. QED
  BY <1>2, <1>5, <1>6 DEF s

LEMMA LoadedStocks ==
    ASSUME StocksOK, NEW r, NEW charge, cump' = Loaded(r, charge), InCost, UNCHANGED onHand
    PROVE  StocksOK'
<1>1. \A p \in Products : cump'[p] \in Int
  <2>1. MaxCost \in Nat
    BY ProcurementAssumption
  <2>. QED
    BY <2>1 DEF InCost
<1>2. cump' = [p \in Products |-> cump'[p]]
  BY DEF Loaded
<1>3. cump' \in [Products -> Int]
  BY <1>1, <1>2
<1>. QED
  BY <1>3 DEF StocksOK

LEMMA PaperStepInv ==
    ASSUME ProcurementInv, PaperStep
    PROVE  /\ ProcurementInv'
           /\ UNCHANGED <<onHand, cump>>
           /\ goods' = 0
           /\ receipts' \in {receipts, <<>>}
<1>1. StocksOK /\ RequestsOK /\ OrdersOK /\ OrdersMatchReceipts
  BY DEF ProcurementInv
<1>2. ASSUME UNCHANGED <<onHand, cump>>, goods' = 0, UNCHANGED receipts,
             RequestsOK', OrdersOK', OrdersMatchReceipts'
      PROVE  /\ ProcurementInv'
             /\ UNCHANGED <<onHand, cump>>
             /\ goods' = 0
             /\ receipts' \in {receipts, <<>>}
  BY <1>1, <1>2 DEF ProcurementInv, StocksOK
<1>3. ASSUME NEW r \in DOMAIN requests, NEW status \in {"APPROVED", "CONVERTED"},
             requests' = [requests EXCEPT ![r].status = status]
      PROVE  RequestsOK' /\ requests[r].lines \in Seq(ReceiptLines) /\ requests[r].cost \in Nat
  <2>. DEFINE new == [requests[r] EXCEPT !.status = status]
  <2>1. requests \in Seq(RequestRows) /\ requests[r] \in RequestRows
    BY <1>1, ElementOfSeq DEF RequestsOK
  <2>2. new \in RequestRows /\ requests[r].lines \in Seq(ReceiptLines) /\ requests[r].cost \in Nat
    BY <2>1 DEF RequestRows
  <2>3. requests' = [requests EXCEPT ![r] = new]
    BY <1>3
  <2>. HIDE DEF new
  <2>4. requests' \in Seq(RequestRows)
    BY <2>1, <2>2, <2>3
  <2>. QED
    BY <2>2, <2>4 DEF RequestsOK
<1>4. ASSUME NEW basket \in Baskets, NEW cost \in Costs, CreatePurchaseRequest(basket, cost)
      PROVE  /\ ProcurementInv' /\ UNCHANGED <<onHand, cump>> /\ goods' = 0
             /\ receipts' \in {receipts, <<>>}
  <2>. DEFINE new == [status |-> "REQUESTED", lines |-> basket, cost |-> cost]
  <2>1. basket \in Seq(ReceiptLines) /\ cost \in Nat
    BY BasketLines, CostsAreNat
  <2>2. new \in RequestRows
    BY <2>1 DEF RequestRows
  <2>3. requests' = Append(requests, new)
    BY <1>4 DEF CreatePurchaseRequest
  <2>. HIDE DEF new
  <2>4. RequestsOK'
    BY <1>1, <2>2, <2>3, AppendProperties DEF RequestsOK
  <2>5. OrdersOK' /\ OrdersMatchReceipts'
    BY <1>1, <1>4, OrdersKept DEF CreatePurchaseRequest
  <2>. QED
    BY <1>2, <1>4, <2>4, <2>5 DEF CreatePurchaseRequest, NoEntry, stockVars
<1>5. ASSUME NEW basket \in Seq(ReceiptLines), NEW cost \in Nat, CreatePurchaseOrder(basket, cost)
      PROVE  /\ ProcurementInv' /\ UNCHANGED <<onHand, cump>> /\ goods' = 0
             /\ receipts' \in {receipts, <<>>}
  <2>1. OrdersOK' /\ OrdersMatchReceipts'
    BY <1>1, <1>5, OrderAdded DEF CreatePurchaseOrder
  <2>2. RequestsOK'
    BY <1>1, <1>5 DEF CreatePurchaseOrder, RequestsOK
  <2>. QED
    BY <1>2, <1>5, <2>1, <2>2 DEF CreatePurchaseOrder, NoEntry, stockVars
<1>6. ASSUME NEW r \in DOMAIN requests, ApprovePurchaseRequest(r)
      PROVE  /\ ProcurementInv' /\ UNCHANGED <<onHand, cump>> /\ goods' = 0
             /\ receipts' \in {receipts, <<>>}
  <2>1. RequestsOK'
    BY <1>3, <1>6 DEF ApprovePurchaseRequest
  <2>2. OrdersOK' /\ OrdersMatchReceipts'
    BY <1>1, <1>6, OrdersKept DEF ApprovePurchaseRequest
  <2>. QED
    BY <1>2, <1>6, <2>1, <2>2 DEF ApprovePurchaseRequest, NoEntry, stockVars
<1>7. ASSUME NEW r \in DOMAIN requests, ConvertPurchaseRequestToOrder(r)
      PROVE  /\ ProcurementInv' /\ UNCHANGED <<onHand, cump>> /\ goods' = 0
             /\ receipts' \in {receipts, <<>>}
  <2>1. RequestsOK' /\ requests[r].lines \in Seq(ReceiptLines) /\ requests[r].cost \in Nat
    BY <1>3, <1>7 DEF ConvertPurchaseRequestToOrder
  <2>2. OrdersOK' /\ OrdersMatchReceipts'
    BY <1>1, <1>7, <2>1, OrderAdded DEF ConvertPurchaseRequestToOrder
  <2>. QED
    BY <1>2, <1>7, <2>1, <2>2 DEF ConvertPurchaseRequestToOrder, NoEntry, stockVars
<1>8. ASSUME NEW o \in DOMAIN purchaseOrders, NEW status \in {"APPROVED", "CANCELLED"},
             ToStatus(o, status)
      PROVE  /\ ProcurementInv' /\ UNCHANGED <<onHand, cump>> /\ goods' = 0
             /\ receipts' \in {receipts, <<>>}
  <2>1. OrdersOK' /\ OrdersMatchReceipts'
    BY <1>1, <1>8, StatusChange DEF ToStatus
  <2>2. RequestsOK'
    BY <1>1, <1>8 DEF ToStatus, RequestsOK
  <2>. QED
    BY <1>2, <1>8, <2>1, <2>2 DEF ToStatus, NoEntry, stockVars
<1>9. ASSUME NEW kind, NEW i, NEW vat, CreateSupplierInvoice(kind, i, vat)
      PROVE  /\ ProcurementInv' /\ UNCHANGED <<onHand, cump>> /\ goods' = 0
             /\ receipts' \in {receipts, <<>>}
  <2>1. OrdersOK' /\ OrdersMatchReceipts'
    BY <1>1, <1>9, OrdersKept DEF CreateSupplierInvoice
  <2>2. RequestsOK'
    BY <1>1, <1>9 DEF CreateSupplierInvoice, RequestsOK
  <2>. QED
    BY <1>2, <1>9, <2>1, <2>2 DEF CreateSupplierInvoice, NoEntry, stockVars
<1>10. ASSUME ResetSampleModule
       PROVE  /\ ProcurementInv' /\ UNCHANGED <<onHand, cump>> /\ goods' = 0
              /\ receipts' \in {receipts, <<>>}
  <2>1. /\ purchaseOrders' = <<>> /\ receipts' = <<>> /\ goods' = 0
        /\ UNCHANGED <<onHand, cump, requests>>
    BY <1>10 DEF ResetSampleModule, NoEntry, stockVars
  <2>2. OrdersOK'
    BY <2>1 DEF OrdersOK
  <2>3. OrdersMatchReceipts'
    <3>1. DOMAIN purchaseOrders' = {}
      BY <2>1
    <3>. QED
      BY <3>1, MatchNextIs
  <2>4. RequestsOK' /\ StocksOK'
    BY <1>1, <2>1 DEF RequestsOK, StocksOK
  <2>. QED
    BY <2>1, <2>2, <2>3, <2>4 DEF ProcurementInv
<1>11. ASSUME NEW p \in Services, NEW cost \in Costs, RunRecurringPurchaseSchedule(p, cost)
       PROVE  /\ ProcurementInv' /\ UNCHANGED <<onHand, cump>> /\ goods' = 0
              /\ receipts' \in {receipts, <<>>}
  <2>. DEFINE l == [product |-> p, qty |-> 1]
  <2>1. l \in ReceiptLines
    BY ProcurementAssumption DEF ReceiptLines
  <2>. HIDE DEF l
  <2>2. <<l>> \in Seq(ReceiptLines) /\ cost \in Nat
    BY <2>1, CostsAreNat
  <2>3. CreatePurchaseOrder(<<l>>, cost)
    BY <1>11 DEF RunRecurringPurchaseSchedule, l
  <2>. QED
    BY <1>5, <2>2, <2>3
<1>. QED
  <2>1. CASE \E basket \in Baskets, cost \in Costs :
                \/ CreatePurchaseRequest(basket, cost) \/ CreatePurchaseOrder(basket, cost)
    BY <1>4, <1>5, <2>1, BasketLines, CostsAreNat
  <2>2. CASE \E o \in DOMAIN purchaseOrders : ApprovePurchaseOrder(o) \/ CancelPurchaseOrder(o)
    BY <1>8, <2>2 DEF ApprovePurchaseOrder, CancelPurchaseOrder
  <2>3. CASE \E vat \in BOOLEAN :
                \/ \E r \in DOMAIN receipts : CreateSupplierInvoice("receipt", r, vat)
                \/ \E o \in DOMAIN purchaseOrders : CreateSupplierInvoice("order", o, vat)
    BY <1>9, <2>3
  <2>. QED
    BY <1>6, <1>7, <1>10, <1>11, <2>1, <2>2, <2>3 DEF PaperStep

\* The steps that change the stock or its cost, one by one.
LEMMA ReceiptStep ==
    ASSUME ProcurementInv, NEW o \in {0} \cup DOMAIN purchaseOrders, NEW w,
           NEW basket \in Seq(ReceiptLines), NEW cost \in Nat,
           CreatePurchaseReceipt(o, w, basket, cost)
    PROVE  ProcurementInv'
<1>1. OrdersOK' /\ OrdersMatchReceipts'
  BY ReceiptAdded DEF ProcurementInv
<1>2. StocksOK'
  BY ReceiptStocks DEF ProcurementInv
<1>3. RequestsOK'
  BY DEF CreatePurchaseReceipt, ProcurementInv, RequestsOK
<1>. QED
  BY <1>1, <1>2, <1>3 DEF ProcurementInv

LEMMA LoadStep ==
    ASSUME ProcurementInv,
           \/ \E r \in DOMAIN receipts, charge \in Charges : LandedCostAllocation(r, charge)
           \/ \E charge \in Charges : PurchaseThreeWayMatch(charge)
    PROVE  ProcurementInv'
<1>1. StocksOK /\ RequestsOK /\ OrdersOK /\ OrdersMatchReceipts
  BY DEF ProcurementInv
<1>2. ASSUME NEW r \in DOMAIN receipts, NEW charge \in Charges, LandedCostAllocation(r, charge)
      PROVE  ProcurementInv'
  <2>1. StocksOK'
    BY <1>1, <1>2, LoadedStocks DEF LandedCostAllocation, stockVars
  <2>2. OrdersOK' /\ OrdersMatchReceipts'
    BY <1>1, <1>2, OrdersKept DEF LandedCostAllocation, papers
  <2>3. RequestsOK'
    BY <1>1, <1>2 DEF LandedCostAllocation, papers, RequestsOK
  <2>. QED
    BY <2>1, <2>2, <2>3 DEF ProcurementInv
<1>3. ASSUME NEW charge \in Charges, PurchaseThreeWayMatch(charge)
      PROVE  ProcurementInv'
  <2>1. PICK r \in DOMAIN receipts :
            /\ purchaseOrders # <<>>
            /\ purchaseOrders' = [purchaseOrders EXCEPT ![1].status = "APPROVED"]
            /\ cump' = Loaded(r, charge)
            /\ InCost
            /\ UNCHANGED <<stockVars, requests, receipts, supplierInvoices>>
    BY <1>3 DEF PurchaseThreeWayMatch
  <2>2. StocksOK'
    BY <1>1, <2>1, LoadedStocks DEF stockVars
  <2>3. 1 \in DOMAIN purchaseOrders
    BY <1>1, <2>1, EmptySeq DEF OrdersOK
  <2>4. OrdersOK' /\ OrdersMatchReceipts'
    BY <1>1, <2>1, <2>3, StatusChange
  <2>5. RequestsOK'
    BY <1>1, <2>1 DEF RequestsOK
  <2>. QED
    BY <2>2, <2>4, <2>5 DEF ProcurementInv
<1>. QED
  BY <1>2, <1>3

LEMMA StockStep ==
    ASSUME ProcurementInv,
           \/ \E p \in Products, q \in -MaxQty..MaxQty : AdjustStock(p, q)
           \/ \E r \in DOMAIN receipts : CancelPurchaseReceipt(r)
           \/ \E p \in Products, q \in 1..MaxQty : GoodsIssue(p, q)
    PROVE  ProcurementInv'
<1>1. StocksOK /\ RequestsOK /\ OrdersOK /\ OrdersMatchReceipts
  BY DEF ProcurementInv
<1>2. ASSUME UNCHANGED papers, StocksOK'
      PROVE  ProcurementInv'
  <2>1. OrdersOK' /\ OrdersMatchReceipts'
    BY <1>1, <1>2, OrdersKept DEF papers
  <2>2. RequestsOK'
    BY <1>1, <1>2 DEF papers, RequestsOK
  <2>. QED
    BY <1>2, <2>1, <2>2 DEF ProcurementInv
<1>3. ASSUME NEW p \in Products, NEW q \in -MaxQty..MaxQty, AdjustStock(p, q)
      PROVE  ProcurementInv'
  <2>1. q \in Int
    BY <1>3, StockAssumption
  <2>2. Move(Main, Only(p, q)) /\ UNCHANGED <<cump, papers>>
    BY <1>3 DEF AdjustStock
  <2>3. StocksOK'
    BY <1>1, <2>1, <2>2, OneMoved DEF StocksOK
  <2>. QED
    BY <1>2, <2>2, <2>3
<1>4. ASSUME NEW r \in DOMAIN receipts, CancelPurchaseReceipt(r)
      PROVE  ProcurementInv'
  <2>1. StocksOK'
    BY <1>1, <1>4, CancelStocks
  <2>. QED
    BY <1>2, <1>4, <2>1 DEF CancelPurchaseReceipt
<1>5. ASSUME NEW p \in Products, NEW q \in 1..MaxQty, GoodsIssue(p, q)
      PROVE  ProcurementInv'
  <2>1. q \in Int /\ -q \in Int
    BY <1>5, StockAssumption
  <2>2. Move(Main, Only(p, -q)) /\ UNCHANGED <<cump, papers>>
    BY <1>5 DEF GoodsIssue
  <2>3. StocksOK'
    <3>. DEFINE d == -q
    <3>1. d \in Int /\ Move(Main, Only(p, d))
      BY <2>1, <2>2
    <3>. HIDE DEF d
    <3>. QED
      BY <1>1, <2>2, <3>1, OneMoved DEF StocksOK
  <2>. QED
    BY <1>2, <2>2, <2>3
<1>. QED
  BY <1>3, <1>4, <1>5

LEMMA IdleStep ==
    ASSUME ProcurementInv, UNCHANGED <<onHand, cump, papers>>
    PROVE  ProcurementInv'
<1>1. OrdersOK' /\ OrdersMatchReceipts'
  BY OrdersKept DEF ProcurementInv, papers
<1>. QED
  BY <1>1 DEF ProcurementInv, StocksOK, RequestsOK, papers

\* Which receipts there are.
ReceiptOf(o, w, basket, cost) ==
    /\ o \in {0} \cup DOMAIN purchaseOrders
    /\ basket \in Seq(ReceiptLines)
    /\ cost \in Nat
    /\ CreatePurchaseReceipt(o, w, basket, cost)

LEMMA GoodsCases ==
    ASSUME ProcurementInv, GoodsStep
    PROVE  \/ \E o, w, basket, cost : ReceiptOf(o, w, basket, cost)
           \/ \E r \in DOMAIN receipts, charge \in Charges : LandedCostAllocation(r, charge)
           \/ \E charge \in Charges : PurchaseThreeWayMatch(charge)
           \/ \E p \in Products, q \in -MaxQty..MaxQty : AdjustStock(p, q)
           \/ \E r \in DOMAIN receipts : CancelPurchaseReceipt(r)
           \/ \E p \in Products, q \in 1..MaxQty : GoodsIssue(p, q)
<1>1. ASSUME NEW w \in Warehouses, NEW basket \in Baskets, NEW cost \in Costs,
             NEW o \in {0} \cup DOMAIN purchaseOrders, CreatePurchaseReceipt(o, w, basket, cost)
      PROVE  ReceiptOf(o, w, basket, cost)
  BY <1>1, BasketLines, CostsAreNat DEF ReceiptOf
<1>2. ASSUME NEW o \in DOMAIN purchaseOrders, NEW w \in Warehouses,
             CreatePurchaseReceipt(o, w, Outstanding(o), purchaseOrders[o].cost)
      PROVE  ReceiptOf(o, w, Outstanding(o), purchaseOrders[o].cost)
  BY <1>2, OutstandingLines DEF ReceiptOf, ProcurementInv
<1>3. CASE \E w \in Warehouses, basket \in Baskets, cost \in Costs :
              CreatePurchaseReceipt(0, w, basket, cost)
  BY <1>1, <1>3
<1>4. CASE \E o \in DOMAIN purchaseOrders, w \in Warehouses :
              \E basket \in Baskets, cost \in Costs : CreatePurchaseReceipt(o, w, basket, cost)
  BY <1>1, <1>4
<1>5. CASE \E o \in DOMAIN purchaseOrders, w \in Warehouses :
              CreatePurchaseReceipt(o, w, Outstanding(o), purchaseOrders[o].cost)
  BY <1>2, <1>5
<1>. QED
  BY <1>3, <1>4, <1>5 DEF GoodsStep

LEMMA ProcurementStepInv ==
    ASSUME ProcurementInv, [ProcurementNext]_vars
    PROVE  ProcurementInv'
<1>1. CASE PaperStep
  BY <1>1, PaperStepInv
<1>2. CASE GoodsStep
  <2>1. CASE \E o, w, basket, cost : ReceiptOf(o, w, basket, cost)
    BY <2>1, ReceiptStep DEF ReceiptOf
  <2>. QED
    BY <1>2, <2>1, GoodsCases, LoadStep, StockStep
<1>3. CASE SetPeriod /\ NoEntry /\ UNCHANGED <<cump, papers>>
  BY <1>3, IdleStep DEF SetPeriod
<1>4. CASE UNCHANGED vars
  BY <1>4, IdleStep DEF vars, stockVars, procurementVars
<1>. QED
  BY <1>1, <1>2, <1>3, <1>4 DEF ProcurementNext

LEMMA ProcurementStarts ==
    ASSUME ProcurementInit
    PROVE  ProcurementInv
<1>1. /\ onHand \in [Products -> 0..1]
      /\ cump \in [Products -> {0} \cup OpeningCosts]
      /\ requests = <<>> /\ purchaseOrders = <<>> /\ receipts = <<>>
  BY DEF ProcurementInit
<1>2. StocksOK
  BY <1>1, ProcurementAssumption DEF StocksOK
<1>3. RequestsOK /\ OrdersOK
  BY <1>1 DEF RequestsOK, OrdersOK
<1>4. OrdersMatchReceipts
  <2>1. DOMAIN purchaseOrders = {}
    BY <1>1
  <2>. QED
    BY <2>1, MatchIs
<1>. QED
  BY <1>2, <1>3, <1>4 DEF ProcurementInv

\* The lines of every purchase order add up to what its receipts brought, and
\* its status says how far it is, however the goods come in parts and even if
\* the order is approved again or its goods leave again (createPurchaseReceipt,
\* approvePurchaseOrder, purchaseThreeWayMatch, cancelDocument).
THEOREM OrdersAlwaysMatch == ProcurementSpec => []OrdersMatchReceipts
<1>1. ProcurementInit => ProcurementInv
  BY ProcurementStarts
<1>2. ProcurementInv /\ [ProcurementNext]_vars => ProcurementInv'
  BY ProcurementStepInv
<1>3. ProcurementInv => OrdersMatchReceipts
  BY DEF ProcurementInv
<1>. QED
  BY <1>1, <1>2, <1>3, PTL DEF ProcurementSpec

-----------------------------------------------------------------------------
\* The goods account and the value of the stock.

\* A receipt moved the account with the value, up to the rounding of its lines;
\* anything else moved it with the value at the size of the costs.
Approached ==
    2 * (StockValue' - StockValue - goods') \in -(LinesReceived * Units')..(LinesReceived * Units')
Followed == ~Receives /\ goods' = BookValue' - BookValue

\* The stock changed and the costs did not.
LEMMA BookValues ==
    ASSUME StocksOK, StocksOK', UNCHANGED cump
    PROVE  /\ BookValue = Booking(onHand) /\ BookValue' = Booking(onHand')
           /\ BookValue \in Int /\ BookValue' \in Int
<1>1. onHand \in [Products -> Int] /\ onHand' \in [Products -> Int] /\ cump \in [Products -> Int]
  BY DEF StocksOK
<1>2. BookValue' = SumFunction([p \in Products |-> onHand'[p] * Size(cump[p])])
  BY DEF BookValue
<1>. QED
  BY <1>1, <1>2, BookingIs DEF BookValue

LEMMA IdleFollows ==
    ASSUME ProcurementInv, UNCHANGED <<onHand, cump>>, goods' = 0, receipts' \in {receipts, <<>>}
    PROVE  Followed
<1>1. StocksOK /\ StocksOK'
  BY DEF ProcurementInv, StocksOK
<1>2. BookValue' = BookValue /\ BookValue \in Int
  BY <1>1, BookValues
<1>3. ~Receives
  <2>1. Len(receipts) \in Nat
    BY DEF ProcurementInv, OrdersOK
  <2>. QED
    BY <2>1 DEF Receives
<1>. QED
  BY <1>2, <1>3 DEF Followed

LEMMA AdjustFollows ==
    ASSUME ProcurementInv, NEW p \in Products, NEW q \in Int, AdjustStock(p, q)
    PROVE  Followed
<1>1. StocksOK
  BY DEF ProcurementInv
<1>2. Move(Main, Only(p, q)) /\ UNCHANGED <<cump, papers>>
  BY DEF AdjustStock
<1>3. /\ onHand' \in [Products -> Int]
      /\ onHand'[p] = onHand[p] + q
      /\ \A x \in Products \ {p} : onHand'[x] = onHand[x]
  BY <1>1, <1>2, OneMoved
<1>4. cump \in [Products -> Int] /\ onHand \in [Products -> Int]
  BY <1>1 DEF StocksOK
<1>5. Booked(p, q) \in Int /\ Booked(p, q) = q * Sized(cump)[p] /\ Sized(cump) \in [Products -> Int]
  BY <1>4, BookedIs, SizedIs
<1>6. goods' = 0 + Booked(p, q)
  BY DEF AdjustStock, AdjustLine
<1>7. Booking(onHand') = Booking(onHand) + Booked(p, q)
  BY <1>3, <1>4, <1>5, AdjustedValue DEF Booking
<1>8. StocksOK'
  BY <1>1, <1>2, <1>3 DEF StocksOK
<1>9. /\ BookValue = Booking(onHand) /\ BookValue' = Booking(onHand')
      /\ BookValue \in Int /\ BookValue' \in Int
  BY <1>1, <1>2, <1>8, BookValues
<1>10. ~Receives
  <2>1. Len(receipts) \in Nat
    BY DEF ProcurementInv, OrdersOK
  <2>. QED
    BY <1>2, <2>1 DEF papers, Receives
<1>. QED
  BY <1>5, <1>6, <1>7, <1>9, <1>10 DEF Followed

LEMMA CancelFollows ==
    ASSUME ProcurementInv, NEW r \in DOMAIN receipts, CancelPurchaseReceipt(r)
    PROVE  Followed
<1>. DEFINE s == Cancelled(r)
<1>1. StocksOK /\ StocksOK' /\ Refunded(s) /\ onHand' = s.onHand
  BY CancelStocks DEF ProcurementInv
<1>2. goods' = s.goods /\ UNCHANGED <<cump, papers>>
  BY DEF CancelPurchaseReceipt
<1>. HIDE DEF s
<1>3. goods' = Booking(onHand') - Booking(onHand)
  BY <1>1, <1>2 DEF Refunded
<1>4. BookValue = Booking(onHand) /\ BookValue' = Booking(onHand')
  BY <1>1, <1>2, BookValues
<1>5. ~Receives
  <2>1. Len(receipts) \in Nat
    BY DEF ProcurementInv, OrdersOK
  <2>. QED
    BY <1>2, <2>1 DEF papers, Receives
<1>. QED
  BY <1>3, <1>4, <1>5 DEF Followed

LEMMA ReceiptCounts ==
    ASSUME ProcurementInv, NEW o, NEW w, NEW basket, NEW cost, ReceiptOf(o, w, basket, cost)
    PROVE  /\ Receives
           /\ LinesReceived = Len(basket)
<1>. DEFINE receipt == [order |-> o, lines |-> basket, cost |-> cost]
<1>1. /\ o \in {0} \cup DOMAIN purchaseOrders
      /\ basket \in Seq(ReceiptLines) /\ cost \in Nat
      /\ CreatePurchaseReceipt(o, w, basket, cost)
      /\ OrdersOK
  BY DEF ReceiptOf, ProcurementInv
<1>2. receipts' = Append(receipts, receipt)
  BY <1>1 DEF CreatePurchaseReceipt
<1>3. receipts \in Seq(ReceiptRows) /\ receipt.lines = basket /\ receipt \in ReceiptRows
  BY <1>1 DEF OrdersOK, ReceiptRows
<1>. HIDE DEF receipt
<1>4. Len(receipts') = Len(receipts) + 1 /\ Len(receipts) \in Nat /\ receipts'[Len(receipts')] = receipt
  BY <1>2, <1>3, AppendProperties
<1>5. Len(receipts') > Len(receipts)
  BY <1>4
<1>. QED
  BY <1>3, <1>4, <1>5 DEF LinesReceived, Receives

LEMMA ReceiptFollows ==
    ASSUME ProcurementInv, \A p \in Products : onHand[p] >= 0,
           NEW o, NEW w, NEW basket, NEW cost, ReceiptOf(o, w, basket, cost)
    PROVE  Receives /\ Approached
<1>. DEFINE s == Received(o, basket, cost)
            n == Len(basket)
<1>1. /\ o \in {0} \cup DOMAIN purchaseOrders
      /\ basket \in Seq(ReceiptLines) /\ cost \in Nat
      /\ CreatePurchaseReceipt(o, w, basket, cost)
      /\ StocksOK /\ OrdersOK
  BY DEF ReceiptOf, ProcurementInv
<1>2. onHand' = s.onHand /\ cump' = s.cump /\ ValueAt(s, n, basket, cost)
  BY <1>1, ReceiptStocks
<1>3. goods' = LinesTotal(basket, cost)
  BY <1>1 DEF CreatePurchaseReceipt
<1>4. LinesReceived = n /\ Receives
  BY ReceiptCounts
<1>5. LinesTotal(basket, cost) = CostUpTo(basket, n, cost)
  BY <1>1, CostAll
<1>6. StockValue' = Value(s.onHand, s.cump) /\ Units' = SumFunction(s.onHand)
  BY <1>2 DEF StockValue, Units, Value
<1>. HIDE DEF s, n
<1>7. 2 * (Value(s.onHand, s.cump) - StockValue - CostUpTo(basket, n, cost))
        \in -(n * SumFunction(s.onHand))..(n * SumFunction(s.onHand))
  BY <1>2 DEF ValueAt
<1>. QED
  BY <1>3, <1>4, <1>5, <1>6, <1>7 DEF Approached

\* A load leaves the receipts as they are, and so does a sale.
LEMMA LoadReceives ==
    ASSUME ProcurementInv,
           \/ \E r \in DOMAIN receipts, charge \in Charges : LandedCostAllocation(r, charge)
           \/ \E charge \in Charges : PurchaseThreeWayMatch(charge)
    PROVE  ~Receives
<1>1. receipts' = receipts
  BY DEF LandedCostAllocation, PurchaseThreeWayMatch, papers
<1>. QED
  BY <1>1 DEF Receives, ProcurementInv, OrdersOK

LEMMA SaleReceives ==
    ASSUME ProcurementInv, NEW p, NEW q, GoodsIssue(p, q)
    PROVE  ~Receives
<1>1. receipts' = receipts
  BY DEF GoodsIssue, papers
<1>. QED
  BY <1>1 DEF Receives, ProcurementInv, OrdersOK

\* The two halves of the property, of one step.
Followable ==
    /\ ~Sells /\ ~Loads /\ ~Receives => goods' = BookValue' - BookValue
    /\ Receives /\ (\A p \in Products : onHand[p] >= 0) => Approached

LEMMA GoodsFollow ==
    ASSUME ProcurementInv, ProcurementNext
    PROVE  Followable
<1>1. CASE PaperStep
  BY <1>1, PaperStepInv, IdleFollows DEF Followed, Followable
<1>2. CASE GoodsStep
  <2>1. CASE \E o, w, basket, cost : ReceiptOf(o, w, basket, cost)
    <3>1. PICK o, w, basket, cost : ReceiptOf(o, w, basket, cost)
      BY <2>1
    <3>2. Receives
      BY <3>1, ReceiptCounts
    <3>. QED
      BY <3>1, <3>2, ReceiptFollows DEF Followable
  <2>2. CASE \/ \E r \in DOMAIN receipts, charge \in Charges : LandedCostAllocation(r, charge)
             \/ \E charge \in Charges : PurchaseThreeWayMatch(charge)
    BY <2>2, LoadReceives DEF Loads, Followable
  <2>3. CASE \E p \in Products, q \in -MaxQty..MaxQty : AdjustStock(p, q)
    <3>1. \A q \in -MaxQty..MaxQty : q \in Int
      BY StockAssumption
    <3>. QED
      BY <2>3, <3>1, AdjustFollows DEF Followed, Followable
  <2>4. CASE \E r \in DOMAIN receipts : CancelPurchaseReceipt(r)
    BY <2>4, CancelFollows DEF Followed, Followable
  <2>5. CASE \E p \in Products, q \in 1..MaxQty : GoodsIssue(p, q)
    BY <2>5, SaleReceives DEF Sells, Followable
  <2>. QED
    BY <1>2, <2>1, <2>2, <2>3, <2>4, <2>5, GoodsCases
<1>3. CASE SetPeriod /\ NoEntry /\ UNCHANGED <<cump, papers>>
  BY <1>3, IdleFollows DEF SetPeriod, NoEntry, papers, Followed, Followable
<1>. QED
  BY <1>1, <1>2, <1>3 DEF ProcurementNext

\* Every step but a sale and an allocation of landed costs moves the goods
\* account with the stock: a receipt on stock that is not negative with its
\* value, up to half a centime per unit on hand and line, anything else exactly
\* with its value at the size of the costs (createPurchaseReceipt, adjustStock,
\* cancelDocument).
THEOREM GoodsAlwaysFollow == ProcurementSpec => GoodsFollowValue
<1>1. ProcurementInit => ProcurementInv
  BY ProcurementStarts
<1>2. ProcurementInv /\ [ProcurementNext]_vars => ProcurementInv'
  BY ProcurementStepInv
<1>3. ProcurementInv /\ [ProcurementNext]_vars
        => [/\ ~Sells /\ ~Loads /\ ~Receives => goods' = BookValue' - BookValue
            /\ Receives /\ (\A p \in Products : onHand[p] >= 0)
                 => 2 * (StockValue' - StockValue - goods')
                      \in -(LinesReceived * Units')..(LinesReceived * Units')]_vars
  BY GoodsFollow DEF Approached, Followable
<1>. QED
  BY <1>1, <1>2, <1>3, PTL DEF ProcurementSpec, GoodsFollowValue
=============================================================================
