------------------------------ MODULE CashProofs ------------------------------
(***************************************************************************)
(* Theorems about the cash of the shop and of the office.                  *)
(*                                                                         *)
(* Pos: a cashier has one open session, a closed till only loses but for   *)
(* refunds of negative tickets, and stock follows payments.  The cash of a *)
(* session, what refunds put into it and the units paid for are sums over  *)
(* the tickets and the payments of the shop; every action adds one ticket  *)
(* to them at most.                                                        *)
(*                                                                         *)
(* Ledger and Treasury: the type of their state, the months that stay      *)
(* frozen, the claims that are booked once per approval and the cheques    *)
(* that name the batch they are in.                                        *)
(***************************************************************************)
EXTENDS Pos, Treasury, Sums, SequenceTheorems, FiniteSetTheorems, TLAPS

SessionRecords == [cashier : Cashiers, open : BOOLEAN, cash : Int, expected : Int]
TicketRecords == [session : Nat, lines : [Products -> Int], total : Int, posts : BOOLEAN,
                  method : Methods, refunds : Nat]
QueueItems == [sale : Sales, status : {"PENDING", "SYNCED", "CONFLICT"}]

\* A ticket that is no refund sells: it may be refunded once.
TillOK ==
    /\ sessions \in Seq(SessionRecords)
    /\ tickets \in Seq(TicketRecords)
    /\ \A t \in DOMAIN tickets : tickets[t].refunds = 0 => tickets[t].lines \in Quantities
    /\ paid \in Seq(Nat)
    /\ \A k \in DOMAIN paid : paid[k] \in DOMAIN tickets
    /\ onHand \in [Products -> Int]
    /\ tracked = [p \in Products |-> TRUE]

\* The loop over the queue has a sale to replay as long as it runs.
QueueOK ==
    /\ queue \in Seq(QueueItems)
    /\ syncing => Pending # {}

PosInv == TillOK /\ QueueOK /\ OneOpenSession /\ ClosedTillOnlyLoses

-----------------------------------------------------------------------------
\* What a ticket puts into the drawer of a session.

CashOf(ticket, s) ==
    IF ticket.session = s /\ ticket.method = "CASH" THEN ticket.total ELSE 0
CashTerms(ts, s) == [t \in DOMAIN ts |-> CashOf(ts[t], s)]
Cash(ts, s) == SumFunction(CashTerms(ts, s))

\* What a refund puts into the drawer of a session.
GainOf(ticket, s) ==
    IF ticket.session = s /\ ticket.method = "CASH" /\ ticket.refunds # 0 /\ ticket.total > 0
    THEN ticket.total ELSE 0
GainTerms(ts, s) == [t \in DOMAIN ts |-> GainOf(ts[t], s)]
Gains(ts, s) == SumFunction(GainTerms(ts, s))

LEMMA CashType ==
    ASSUME NEW ts \in Seq(TicketRecords), NEW s
    PROVE  /\ IsFiniteSet(DOMAIN ts)
           /\ CashTerms(ts, s) \in [DOMAIN ts -> Int]
           /\ Cash(ts, s) \in Int
<1>. DEFINE f == CashTerms(ts, s)
            S == DOMAIN ts
<1>1. IsFiniteSet(S)
  <2>1. S = 1..Len(ts) /\ Len(ts) \in Nat
    OBVIOUS
  <2>. QED
    BY <2>1, FS_Interval
<1>2. f \in [S -> Int]
  <2>1. ASSUME NEW t \in S
        PROVE  CashOf(ts[t], s) \in Int
    <3>1. ts[t] \in TicketRecords
      OBVIOUS
    <3>2. ts[t].total \in Int
      BY <3>1 DEF TicketRecords
    <3>. QED
      BY <3>2 DEF CashOf
  <2>. QED
    BY <2>1 DEF CashTerms
<1>. HIDE DEF f, S
<1>3. SumFunction(f) \in Int
  BY ONLY <1>1, <1>2, SumType
<1>. QED
  BY <1>1, <1>2, <1>3 DEF f, S, Cash

LEMMA CashSum ==
    ASSUME NEW ts \in Seq(TicketRecords), NEW s
    PROVE  SumFunction([t \in {t \in DOMAIN ts : ts[t].session = s /\ ts[t].method = "CASH"}
                          |-> ts[t].total]) = Cash(ts, s)
<1>. DEFINE S == DOMAIN ts
            T == {t \in DOMAIN ts : ts[t].session = s /\ ts[t].method = "CASH"}
            f == CashTerms(ts, s)
            g == [t \in T |-> ts[t].total]
<1>1. IsFiniteSet(S) /\ f \in [S -> Int]
  BY CashType
<1>2. T \in SUBSET S /\ \A t \in S \ T : f[t] = 0
  BY DEF CashTerms, CashOf
<1>3. g = [t \in T |-> f[t]]
  BY DEF CashTerms, CashOf
<1>. HIDE DEF S, T, f, g
<1>4. SumFunction(g) = SumFunction(f)
  BY ONLY <1>1, <1>2, <1>3, SumSupport
<1>. QED
  BY <1>4 DEF f, g, T, Cash

LEMMA CashAdded ==
    ASSUME NEW ts \in Seq(TicketRecords), NEW ticket \in TicketRecords, NEW s
    PROVE  Cash(Append(ts, ticket), s) = Cash(ts, s) + CashOf(ticket, s)
<1>. DEFINE n == Len(ts)
            new == Append(ts, ticket)
            f == CashTerms(ts, s)
            g == CashTerms(new, s)
<1>1. /\ new \in Seq(TicketRecords) /\ n \in Nat
      /\ DOMAIN ts = 1..n /\ DOMAIN new = 1..n + 1
      /\ \A t \in 1..n : new[t] = ts[t]
      /\ new[n + 1] = ticket
  OBVIOUS
<1>. HIDE DEF new
<1>2. f \in [1..n -> Int] /\ g \in [1..n + 1 -> Int]
  BY <1>1, CashType
<1>3. /\ \A t \in 1..n : g[t] = f[t]
      /\ g[n + 1] = CashOf(ticket, s)
  BY <1>1 DEF CashTerms
<1>. HIDE DEF f, g, n
<1>4. SumFunction(g) = SumFunction(f) + g[n + 1]
  BY ONLY <1>1, <1>2, <1>3, SumAppend
<1>. QED
  BY <1>3, <1>4 DEF f, g, Cash, new

LEMMA GainType ==
    ASSUME NEW ts \in Seq(TicketRecords), NEW s
    PROVE  /\ IsFiniteSet(DOMAIN ts)
           /\ GainTerms(ts, s) \in [DOMAIN ts -> Nat]
           /\ Gains(ts, s) \in Nat
<1>. DEFINE f == GainTerms(ts, s)
            S == DOMAIN ts
<1>1. IsFiniteSet(S)
  BY CashType
<1>2. f \in [S -> Nat]
  <2>1. ASSUME NEW t \in S
        PROVE  GainOf(ts[t], s) \in Nat
    <3>1. ts[t] \in TicketRecords
      OBVIOUS
    <3>2. ts[t].total \in Int
      BY <3>1 DEF TicketRecords
    <3>. QED
      BY <3>2 DEF GainOf
  <2>. QED
    BY <2>1 DEF GainTerms
<1>. HIDE DEF f, S
<1>3. SumFunction(f) \in Nat
  BY ONLY <1>1, <1>2, SumNat
<1>. QED
  BY <1>1, <1>2, <1>3 DEF f, S, Gains

LEMMA GainSum ==
    ASSUME NEW ts \in Seq(TicketRecords), NEW s
    PROVE  SumFunction([t \in {t \in DOMAIN ts : /\ ts[t].session = s
                                                 /\ ts[t].method = "CASH"
                                                 /\ ts[t].refunds # 0
                                                 /\ ts[t].total > 0}
                          |-> ts[t].total]) = Gains(ts, s)
<1>. DEFINE S == DOMAIN ts
            T == {t \in DOMAIN ts : /\ ts[t].session = s
                                    /\ ts[t].method = "CASH"
                                    /\ ts[t].refunds # 0
                                    /\ ts[t].total > 0}
            f == GainTerms(ts, s)
            g == [t \in T |-> ts[t].total]
<1>1. IsFiniteSet(S) /\ f \in [S -> Int]
  BY GainType
<1>2. T \in SUBSET S /\ \A t \in S \ T : f[t] = 0
  BY DEF GainTerms, GainOf
<1>3. g = [t \in T |-> f[t]]
  BY DEF GainTerms, GainOf
<1>. HIDE DEF S, T, f, g
<1>4. SumFunction(g) = SumFunction(f)
  BY ONLY <1>1, <1>2, <1>3, SumSupport
<1>. QED
  BY <1>4 DEF f, g, T, Gains

LEMMA GainAdded ==
    ASSUME NEW ts \in Seq(TicketRecords), NEW ticket \in TicketRecords, NEW s
    PROVE  Gains(Append(ts, ticket), s) = Gains(ts, s) + GainOf(ticket, s)
<1>. DEFINE n == Len(ts)
            new == Append(ts, ticket)
            f == GainTerms(ts, s)
            g == GainTerms(new, s)
<1>1. /\ new \in Seq(TicketRecords) /\ n \in Nat
      /\ DOMAIN ts = 1..n /\ DOMAIN new = 1..n + 1
      /\ \A t \in 1..n : new[t] = ts[t]
      /\ new[n + 1] = ticket
  OBVIOUS
<1>. HIDE DEF new
<1>2. f \in [1..n -> Int] /\ g \in [1..n + 1 -> Int]
  BY <1>1, GainType
<1>3. /\ \A t \in 1..n : g[t] = f[t]
      /\ g[n + 1] = GainOf(ticket, s)
  BY <1>1 DEF GainTerms
<1>. HIDE DEF f, g, n
<1>4. SumFunction(g) = SumFunction(f) + g[n + 1]
  BY ONLY <1>1, <1>2, <1>3, SumAppend
<1>. QED
  BY <1>3, <1>4 DEF f, g, Gains, new

-----------------------------------------------------------------------------
\* The units of a product on the tickets that were paid.

UnitTerms(ts, ps, p) == [k \in DOMAIN ps |-> ts[ps[k]].lines[p]]
Units(ts, ps, p) == SumFunction(UnitTerms(ts, ps, p))

LEMMA UnitsType ==
    ASSUME NEW ts \in Seq(TicketRecords), NEW ps \in Seq(Nat),
           \A k \in DOMAIN ps : ps[k] \in DOMAIN ts, NEW p \in Products
    PROVE  UnitTerms(ts, ps, p) \in [DOMAIN ps -> Int] /\ Units(ts, ps, p) \in Int
<1>. DEFINE f == UnitTerms(ts, ps, p)
            S == DOMAIN ps
<1>1. IsFiniteSet(S)
  <2>1. S = 1..Len(ps) /\ Len(ps) \in Nat
    OBVIOUS
  <2>. QED
    BY <2>1, FS_Interval
<1>2. f \in [S -> Int]
  <2>1. ASSUME NEW k \in S
        PROVE  ts[ps[k]].lines[p] \in Int
    <3>1. ts[ps[k]] \in TicketRecords
      <4>1. \A t \in DOMAIN ts : ts[t] \in TicketRecords
        OBVIOUS
      <4>. QED
        BY <4>1
    <3>. QED
      BY <3>1 DEF TicketRecords
  <2>. QED
    BY <2>1 DEF UnitTerms
<1>. HIDE DEF f, S
<1>3. SumFunction(f) \in Int
  BY ONLY <1>1, <1>2, SumType
<1>. QED
  BY <1>2, <1>3 DEF f, S, Units

LEMMA UnitsKept ==
    ASSUME NEW ts \in Seq(TicketRecords), NEW ticket \in TicketRecords, NEW ps \in Seq(Nat),
           \A k \in DOMAIN ps : ps[k] \in DOMAIN ts, NEW p \in Products
    PROVE  Units(Append(ts, ticket), ps, p) = Units(ts, ps, p)
<1>. DEFINE new == Append(ts, ticket)
<1>1. \A t \in DOMAIN ts : new[t] = ts[t]
  OBVIOUS
<1>. HIDE DEF new
<1>2. UnitTerms(new, ps, p) = UnitTerms(ts, ps, p)
  BY <1>1 DEF UnitTerms
<1>. QED
  BY <1>2 DEF Units, new

LEMMA UnitsPaid ==
    ASSUME NEW ts \in Seq(TicketRecords), NEW ticket \in TicketRecords, NEW ps \in Seq(Nat),
           \A k \in DOMAIN ps : ps[k] \in DOMAIN ts, NEW p \in Products
    PROVE  Units(Append(ts, ticket), Append(ps, Len(ts) + 1), p)
             = Units(ts, ps, p) + ticket.lines[p]
<1>. DEFINE n == Len(ps)
            newTs == Append(ts, ticket)
            newPs == Append(ps, Len(ts) + 1)
            f == UnitTerms(ts, ps, p)
            g == UnitTerms(newTs, newPs, p)
<1>1. /\ newTs \in Seq(TicketRecords)
      /\ newTs[Len(ts) + 1] = ticket
      /\ \A t \in DOMAIN ts : newTs[t] = ts[t]
      /\ DOMAIN ts \subseteq DOMAIN newTs /\ Len(ts) + 1 \in DOMAIN newTs
  OBVIOUS
<1>2. /\ newPs \in Seq(Nat) /\ n \in Nat
      /\ DOMAIN ps = 1..n /\ DOMAIN newPs = 1..n + 1
      /\ \A k \in 1..n : newPs[k] = ps[k]
      /\ newPs[n + 1] = Len(ts) + 1
  OBVIOUS
<1>. HIDE DEF newTs, newPs, n
<1>3. \A k \in DOMAIN newPs : newPs[k] \in DOMAIN newTs
  <2>1. \A k \in 1..n + 1 : k \in 1..n \/ k = n + 1
    BY <1>2
  <2>. QED
    BY <1>1, <1>2, <2>1
<1>4. f \in [1..n -> Int] /\ g \in [1..n + 1 -> Int]
  BY <1>1, <1>2, <1>3, UnitsType
<1>5. \A k \in 1..n : g[k] = f[k]
  <2>1. \A k \in 1..n : k \in 1..n + 1
    BY <1>2
  <2>. QED
    BY <1>1, <1>2, <2>1 DEF UnitTerms
<1>6. g[n + 1] = ticket.lines[p]
  <2>1. n + 1 \in 1..n + 1
    BY <1>2
  <2>. QED
    BY <1>1, <1>2, <2>1 DEF UnitTerms
<1>. HIDE DEF f, g
<1>7. SumFunction(g) = SumFunction(f) + g[n + 1]
  BY ONLY <1>2, <1>4, <1>5, SumAppend
<1>. QED
  BY <1>6, <1>7 DEF f, g, Units, newTs, newPs

\* A non-empty set of indices has a least one.
LEMMA LeastIn ==
    ASSUME NEW n \in Nat, NEW S \in SUBSET (1..n), S # {}
    PROVE  Min(S) \in S
<1>. DEFINE B == {1..k : k \in S}
            N == 1..n
<1>1. B \in SUBSET SUBSET N /\ B # {}
  <2>1. ASSUME NEW k \in S
        PROVE  1..k \subseteq N
    <3>1. k \in Nat /\ k <= n
      OBVIOUS
    <3>. QED
      BY <3>1
  <2>2. PICK k \in S : TRUE
    OBVIOUS
  <2>3. 1..k \in B
    OBVIOUS
  <2>. HIDE DEF N
  <2>. QED
    BY <2>1, <2>3
<1>2. IsFiniteSet(N)
  BY FS_Interval
<1>3. PICK T \in B : \A U \in B : U \subseteq T => U = T
  <2>. HIDE DEF B, N
  <2>. QED
    BY <1>1, <1>2, Minimal
<1>4. PICK x \in S : T = 1..x
  OBVIOUS
<1>5. ASSUME NEW y \in S
      PROVE  x <= y
  <2>1. x \in 1..n /\ y \in 1..n
    OBVIOUS
  <2>2. CASE y < x
    <3>1. 1..y \subseteq 1..x /\ x \in 1..x /\ x \notin 1..y
      BY <2>1, <2>2
    <3>. QED
      BY <1>3, <1>4, <3>1
  <2>. QED
    BY <2>1, <2>2
<1>. QED
  BY <1>5 DEF Min

-----------------------------------------------------------------------------
\* Sessions.

\* A ticket whose cashier has no open session gets one; nothing else changes.
LEMMA SessionForSale ==
    ASSUME TillOK, OneOpenSession, NEW sale \in Sales, Usable(sale),
           NEW after, after = SessionsFor(sale)
    PROVE  /\ after \in Seq(SessionRecords)
           /\ DOMAIN sessions \subseteq DOMAIN after
           /\ \A s \in DOMAIN sessions : after[s] = sessions[s]
           /\ \A s \in DOMAIN after : s \in DOMAIN sessions \/ after[s].open
           /\ \A s, t \in DOMAIN after :
                 after[s].open /\ after[t].open /\ after[s].cashier = after[t].cashier => s = t
           /\ SessionOf(sale) \in DOMAIN after
           /\ after[SessionOf(sale)].open
<1>1. sessions \in Seq(SessionRecords) /\ sale.cashier \in Cashiers
  BY DEF TillOK, Sales
<1>2. CASE sale.session = 0 /\ OpenSessions(sale.cashier) = {}
  <2>. DEFINE new == Opened(sale.cashier, 0)
  <2>1. new \in SessionRecords /\ new.cashier = sale.cashier /\ new.open = TRUE
    BY <1>1 DEF Opened, SessionRecords
  <2>2. after = Append(sessions, new)
    BY <1>2 DEF SessionsFor
  <2>3. SessionOf(sale) = Len(sessions) + 1
    BY <1>2 DEF SessionOf
  <2>. HIDE DEF new
  <2>4. /\ after \in Seq(SessionRecords)
        /\ DOMAIN sessions = 1..Len(sessions) /\ DOMAIN after = 1..Len(sessions) + 1
        /\ Len(sessions) \in Nat
        /\ \A s \in DOMAIN sessions : after[s] = sessions[s]
        /\ after[Len(sessions) + 1] = new
    BY <1>1, <2>1, <2>2
  <2>5. \A s \in DOMAIN after : s \in DOMAIN sessions \/ s = Len(sessions) + 1
    BY <2>4
  <2>6. \A s \in DOMAIN sessions : ~(sessions[s].cashier = sale.cashier /\ sessions[s].open)
    BY <1>2 DEF OpenSessions
  <2>7. ASSUME NEW s \in DOMAIN after, NEW t \in DOMAIN after,
               after[s].open, after[t].open, after[s].cashier = after[t].cashier
        PROVE  s = t
    <3>1. CASE s \in DOMAIN sessions /\ t \in DOMAIN sessions
      BY <2>4, <2>7, <3>1 DEF OneOpenSession
    <3>2. CASE s = Len(sessions) + 1 /\ t \in DOMAIN sessions
      BY <2>1, <2>4, <2>6, <2>7, <3>2
    <3>3. CASE s \in DOMAIN sessions /\ t = Len(sessions) + 1
      BY <2>1, <2>4, <2>6, <2>7, <3>3
    <3>. QED
      BY <2>5, <3>1, <3>2, <3>3
  <2>8. /\ SessionOf(sale) \in DOMAIN after /\ after[SessionOf(sale)].open
        /\ DOMAIN sessions \subseteq DOMAIN after
    BY <2>1, <2>3, <2>4
  <2>9. \A s \in DOMAIN after : s \in DOMAIN sessions \/ after[s].open
    BY <2>1, <2>4, <2>5
  <2>. QED
    BY <2>4, <2>7, <2>8, <2>9
<1>3. CASE ~(sale.session = 0 /\ OpenSessions(sale.cashier) = {})
  <2>1. after = sessions
    BY <1>3 DEF SessionsFor
  <2>2. SessionOf(sale) \in DOMAIN sessions /\ sessions[SessionOf(sale)].open
    <3>1. CASE sale.session # 0
      BY <3>1 DEF Usable, Sellable, SessionOf
    <3>2. CASE sale.session = 0
      <4>. DEFINE S == OpenSessions(sale.cashier)
      <4>1. S # {} /\ S \in SUBSET Int
        BY <1>1, <1>3, <3>2 DEF OpenSessions
      <4>2. S \in SUBSET (1..Len(sessions)) /\ Len(sessions) \in Nat
        BY <1>1 DEF OpenSessions
      <4>3. SessionOf(sale) = Min(S)
        BY <1>3, <3>2 DEF SessionOf
      <4>. HIDE DEF S
      <4>4. Min(S) \in S
        BY <4>1, <4>2, LeastIn
      <4>. QED
        BY <4>3, <4>4 DEF S, OpenSessions
    <3>. QED
      BY <3>1, <3>2
  <2>. QED
    BY <1>1, <2>1, <2>2 DEF OneOpenSession
<1>. QED
  BY <1>2, <1>3

-----------------------------------------------------------------------------
\* Every step of the shop, seen from the till and from the shelf.

FollowStep ==
    \A p \in Products :
       \/ onHand'[p] + PaidUnits(p)' = onHand[p] + PaidUnits(p)
       \/ MovedUnpaid(p)

TillStep == TillOK' /\ OneOpenSession' /\ ClosedTillOnlyLoses' /\ FollowStep

\* Neither the tickets nor the stock change.
LEMMA SessionsOnly ==
    ASSUME TillOK, ClosedTillOnlyLoses,
           UNCHANGED <<tickets, paid, onHand, tracked>>,
           sessions' \in Seq(SessionRecords), OneOpenSession',
           \A s \in DOMAIN sessions' :
              ~sessions'[s].open =>
                 \/ s \in DOMAIN sessions /\ sessions'[s] = sessions[s]
                 \/ sessions'[s].expected = sessions'[s].cash + CashSales(s)
    PROVE  TillStep
<1>1. TillOK'
  BY DEF TillOK
<1>2. \A s : CashSales(s)' = CashSales(s)
  BY DEF CashSales
<1>3. \A s : CashSales(s) \in Int /\ RefundGains(s) \in Nat /\ RefundGains(s)' = RefundGains(s)
  <2>1. tickets \in Seq(TicketRecords)
    BY DEF TillOK
  <2>2. \A s : CashSales(s) = Cash(tickets, s)
    BY <2>1, CashSum DEF CashSales
  <2>3. \A s : RefundGains(s) = Gains(tickets, s)
    BY <2>1, GainSum DEF RefundGains
  <2>4. \A s : RefundGains(s)' = RefundGains(s)
    BY DEF RefundGains
  <2>. QED
    BY <2>1, <2>2, <2>3, <2>4, CashType, GainType
<1>4. ASSUME NEW s \in DOMAIN sessions', ~sessions'[s].open
      PROVE  sessions'[s].cash + CashSales(s)' <= sessions'[s].expected + RefundGains(s)'
  <2>1. sessions'[s] \in SessionRecords
    OBVIOUS
  <2>2. sessions'[s].cash \in Int /\ sessions'[s].expected \in Int
    BY <2>1 DEF SessionRecords
  <2>3. CASE s \in DOMAIN sessions /\ sessions'[s] = sessions[s]
    BY <1>2, <1>3, <1>4, <2>3 DEF ClosedTillOnlyLoses, InTheDrawer
  <2>4. CASE sessions'[s].expected = sessions'[s].cash + CashSales(s)
    BY <1>2, <1>3, <2>2, <2>4
  <2>. QED
    BY <1>4, <2>3, <2>4
<1>5. ClosedTillOnlyLoses'
  BY <1>4 DEF ClosedTillOnlyLoses, InTheDrawer
<1>6. FollowStep
  BY DEF FollowStep, PaidUnits
<1>. QED
  BY <1>1, <1>5, <1>6 DEF TillStep

\* A ticket is added: to an open session, or as a refund.
LEMMA TicketAdded ==
    ASSUME TillOK, ClosedTillOnlyLoses, NEW ticket \in TicketRecords,
           tickets' = Append(tickets, ticket),
           ticket.refunds = 0 => ticket.lines \in Quantities,
           paid' = paid \/ paid' = Append(paid, Len(tickets')),
           sessions' \in Seq(SessionRecords), OneOpenSession',
           \A s \in DOMAIN sessions' : s \in DOMAIN sessions \/ sessions'[s].open,
           \A s \in DOMAIN sessions : sessions'[s] = sessions[s],
           \/ ticket.session \in DOMAIN sessions' /\ sessions'[ticket.session].open
           \/ ticket.refunds # 0,
           onHand' \in [Products -> Int], tracked' = tracked
    PROVE  TillOK' /\ OneOpenSession' /\ ClosedTillOnlyLoses'
<1>1. tickets \in Seq(TicketRecords) /\ paid \in Seq(Nat)
      /\ \A k \in DOMAIN paid : paid[k] \in DOMAIN tickets
  BY DEF TillOK
<1>2. /\ tickets' \in Seq(TicketRecords)
      /\ Len(tickets) \in Nat /\ Len(tickets') = Len(tickets) + 1
      /\ DOMAIN tickets = 1..Len(tickets) /\ DOMAIN tickets' = 1..Len(tickets) + 1
      /\ \A t \in DOMAIN tickets : tickets'[t] = tickets[t]
      /\ tickets'[Len(tickets) + 1] = ticket
  BY <1>1
<1>3. TillOK'
  <2>1. \A t \in DOMAIN tickets' : t \in DOMAIN tickets \/ t = Len(tickets) + 1
    BY <1>2
  <2>2. \A t \in DOMAIN tickets' :
           tickets'[t].refunds = 0 => tickets'[t].lines \in Quantities
    BY <1>2, <2>1 DEF TillOK
  <2>3. paid' \in Seq(Nat) /\ \A k \in DOMAIN paid' : paid'[k] \in DOMAIN tickets'
    <3>1. CASE paid' = paid
      BY <1>1, <1>2, <3>1
    <3>2. CASE paid' = Append(paid, Len(tickets'))
      <4>1. /\ paid' \in Seq(Nat)
            /\ \A k \in DOMAIN paid' : k \in DOMAIN paid \/ k = Len(paid) + 1
            /\ \A k \in DOMAIN paid : paid'[k] = paid[k]
            /\ paid'[Len(paid) + 1] = Len(tickets')
        BY <1>1, <1>2, <3>2
      <4>. QED
        BY <1>1, <1>2, <4>1
    <3>. QED
      BY <3>1, <3>2
  <2>. QED
    BY <1>2, <2>2, <2>3 DEF TillOK
<1>4. ASSUME NEW s \in DOMAIN sessions', ~sessions'[s].open
      PROVE  sessions'[s].cash + CashSales(s)' <= sessions'[s].expected + RefundGains(s)'
  <2>1. s \in DOMAIN sessions /\ sessions'[s] = sessions[s]
    BY <1>4
  <2>2. sessions[s] \in SessionRecords
    BY <2>1 DEF TillOK
  <2>3. sessions[s].cash \in Int /\ sessions[s].expected \in Int
    BY <2>2 DEF SessionRecords
  <2>4. CashSales(s) = Cash(tickets, s) /\ CashSales(s)' = Cash(tickets', s)
    BY <1>1, <1>2, CashSum DEF CashSales
  <2>5. RefundGains(s) = Gains(tickets, s) /\ RefundGains(s)' = Gains(tickets', s)
    BY <1>1, <1>2, GainSum DEF RefundGains
  <2>6. /\ Cash(tickets', s) = Cash(tickets, s) + CashOf(ticket, s)
        /\ Gains(tickets', s) = Gains(tickets, s) + GainOf(ticket, s)
    BY <1>1, CashAdded, GainAdded
  <2>7. /\ CashOf(ticket, s) \in Int /\ GainOf(ticket, s) \in Int
        /\ CashOf(ticket, s) <= GainOf(ticket, s)
    <3>1. ticket.total \in Int
      BY DEF TicketRecords
    <3>2. CASE ticket.session \in DOMAIN sessions' /\ sessions'[ticket.session].open
      <4>1. ticket.session # s
        BY <1>4, <3>2
      <4>. QED
        BY <4>1 DEF CashOf, GainOf
    <3>3. CASE ticket.refunds # 0
      BY <3>1, <3>3 DEF CashOf, GainOf
    <3>. QED
      BY <3>2, <3>3
  <2>8. sessions[s].cash + CashSales(s) <= sessions[s].expected + RefundGains(s)
    BY <1>4, <2>1 DEF ClosedTillOnlyLoses, InTheDrawer
  <2>9. Cash(tickets, s) \in Int /\ Gains(tickets, s) \in Int
    BY <1>1, CashType, GainType
  <2>. HIDE DEF Cash, CashOf, Gains, GainOf
  <2>10. PICK c \in Int, x \in Int, g \in Int, y \in Int, o \in Int, e \in Int :
            /\ c = Cash(tickets, s) /\ x = CashOf(ticket, s)
            /\ g = Gains(tickets, s) /\ y = GainOf(ticket, s)
            /\ o = sessions[s].cash /\ e = sessions[s].expected
    BY <2>3, <2>7, <2>9
  <2>11. o + c <= e + g /\ x <= y
    BY <2>4, <2>5, <2>7, <2>8, <2>10
  <2>12. o + (c + x) <= e + (g + y)
    BY ONLY <2>11, c \in Int, x \in Int, g \in Int, y \in Int, o \in Int, e \in Int
  <2>. QED
    BY <2>1, <2>4, <2>5, <2>6, <2>10, <2>12
<1>5. ClosedTillOnlyLoses'
  BY <1>4 DEF ClosedTillOnlyLoses, InTheDrawer
<1>. QED
  BY <1>3, <1>5

\* A ticket is paid: its units leave the shelf or, refunded, come back.
LEMMA PaidFollows ==
    ASSUME TillOK, NEW ticket \in TicketRecords,
           tickets' = Append(tickets, ticket),
           paid' = Append(paid, Len(tickets')),
           \A p \in Products : onHand'[p] = onHand[p] - ticket.lines[p]
    PROVE  FollowStep
<1>1. tickets \in Seq(TicketRecords) /\ paid \in Seq(Nat)
      /\ \A k \in DOMAIN paid : paid[k] \in DOMAIN tickets
  BY DEF TillOK
<1>0. onHand \in [Products -> Int]
  BY DEF TillOK
<1>2. Len(tickets') = Len(tickets) + 1
  BY <1>1
<1>3. ASSUME NEW p \in Products
      PROVE  onHand'[p] + PaidUnits(p)' = onHand[p] + PaidUnits(p)
  <2>1. PaidUnits(p) = Units(tickets, paid, p) /\ PaidUnits(p)' = Units(tickets', paid', p)
    BY DEF PaidUnits, Units, UnitTerms
  <2>2. Units(tickets', paid', p) = Units(tickets, paid, p) + ticket.lines[p]
    BY <1>1, <1>2, UnitsPaid
  <2>3. PICK u \in Int, x \in Int, h \in Int :
           u = Units(tickets, paid, p) /\ x = ticket.lines[p] /\ h = onHand[p]
    <3>1. Units(tickets, paid, p) \in Int
      BY <1>1, UnitsType
    <3>2. ticket.lines[p] \in Int
      BY DEF TicketRecords
    <3>3. onHand[p] \in Int
      BY <1>0
    <3>. QED
      BY <3>1, <3>2, <3>3
  <2>4. h - x + (u + x) = h + u
    BY ONLY u \in Int, x \in Int, h \in Int
  <2>. QED
    BY <2>1, <2>2, <2>3, <2>4
<1>. QED
  BY <1>3 DEF FollowStep

\* A ticket stays without payment: a sale takes part of its lines, a refund gives
\* all of them back.
LEMMA UnpaidFollows ==
    ASSUME TillOK, NEW ticket \in TicketRecords,
           tickets' = Append(tickets, ticket), paid' = paid,
           NEW done \in [Products -> Int],
           \A p \in Products : onHand'[p] = onHand[p] - done[p],
           \/ ticket.refunds = 0 /\ \A p \in Products : done[p] \in 0..ticket.lines[p]
           \/ ticket.refunds # 0 /\ ~ticket.posts /\ done = ticket.lines
    PROVE  FollowStep
<1>1. tickets \in Seq(TicketRecords) /\ paid \in Seq(Nat)
      /\ \A k \in DOMAIN paid : paid[k] \in DOMAIN tickets
  BY DEF TillOK
<1>0. onHand \in [Products -> Int]
  BY DEF TillOK
<1>2. Len(tickets') = Len(tickets) + 1 /\ tickets'[Len(tickets')] = ticket
  BY <1>1
<1>3. ASSUME NEW p \in Products
      PROVE  \/ onHand'[p] + PaidUnits(p)' = onHand[p] + PaidUnits(p)
             \/ MovedUnpaid(p)
  <2>1. PaidUnits(p) = Units(tickets, paid, p) /\ PaidUnits(p)' = Units(tickets', paid', p)
    BY DEF PaidUnits, Units, UnitTerms
  <2>2. Units(tickets', paid', p) = Units(tickets, paid, p)
    BY <1>1, UnitsKept
  <2>3. onHand[p] \in Int /\ done[p] \in Int /\ ticket.lines[p] \in Int
    BY <1>0 DEF TicketRecords
  <2>4. CASE done[p] = 0
    BY <2>1, <2>2, <2>3, <2>4
  <2>5. CASE done[p] # 0 /\ ticket.refunds = 0
    <3>1. onHand[p] - onHand'[p] = done[p] /\ done[p] \in 1..ticket.lines[p]
      BY <2>3, <2>5
    <3>. QED
      BY <1>2, <2>5, <3>1 DEF MovedUnpaid
  <2>6. CASE ticket.refunds # 0
    <3>1. onHand[p] - onHand'[p] = ticket.lines[p]
      BY <2>3, <2>6
    <3>. QED
      BY <1>2, <2>6, <3>1 DEF MovedUnpaid
  <2>. QED
    BY <2>4, <2>5, <2>6
<1>. QED
  BY <1>3 DEF FollowStep

-----------------------------------------------------------------------------
\* The actions.

\* Nothing of the till or of the shelf changes.
LEMMA Idle ==
    ASSUME TillOK, OneOpenSession, ClosedTillOnlyLoses,
           UNCHANGED <<tillVars, onHand, tracked>>
    PROVE  TillStep
<1>1. UNCHANGED sessions /\ UNCHANGED <<tickets, paid, onHand, tracked>>
  BY DEF tillVars
<1>2. sessions' \in Seq(SessionRecords) /\ OneOpenSession'
  BY <1>1 DEF TillOK, OneOpenSession
<1>3. \A s \in DOMAIN sessions' : s \in DOMAIN sessions /\ sessions'[s] = sessions[s]
  BY <1>1
<1>. QED
  BY <1>1, <1>2, <1>3, SessionsOnly

LEMMA OpenStep ==
    ASSUME TillOK, OneOpenSession, ClosedTillOnlyLoses,
           NEW cashier \in Cashiers, NEW cash \in 0..MaxCash, OpenPosSession(cashier, cash)
    PROVE  TillStep
<1>. DEFINE new == Opened(cashier, cash)
            n == Len(sessions)
<1>1. /\ OpenSessions(cashier) = {}
      /\ sessions' = Append(sessions, new)
      /\ UNCHANGED <<tickets, paid, onHand, tracked>>
  BY DEF OpenPosSession, stockVars
<1>2. new \in SessionRecords /\ new.cashier = cashier /\ new.open = TRUE
  <2>1. cash \in Int
    BY PosAssumption
  <2>. QED
    BY <2>1 DEF Opened, SessionRecords
<1>. HIDE DEF new
<1>3. sessions \in Seq(SessionRecords)
  BY DEF TillOK
<1>4. /\ sessions' \in Seq(SessionRecords) /\ n \in Nat
      /\ DOMAIN sessions = 1..n /\ DOMAIN sessions' = 1..n + 1
      /\ \A s \in DOMAIN sessions : sessions'[s] = sessions[s]
      /\ sessions'[n + 1] = new
  BY <1>1, <1>2, <1>3
<1>. HIDE DEF n
<1>5. \A s \in DOMAIN sessions' : s \in DOMAIN sessions \/ s = n + 1
  BY <1>4
<1>6. \A s \in DOMAIN sessions : ~(sessions[s].cashier = cashier /\ sessions[s].open)
  BY <1>1 DEF OpenSessions
<1>7. OneOpenSession'
  <2>. SUFFICES ASSUME NEW s \in DOMAIN sessions', NEW t \in DOMAIN sessions',
                       sessions'[s].open, sessions'[t].open,
                       sessions'[s].cashier = sessions'[t].cashier
                PROVE  s = t
    BY DEF OneOpenSession
  <2>1. CASE s \in DOMAIN sessions /\ t \in DOMAIN sessions
    BY <1>4, <2>1 DEF OneOpenSession
  <2>2. CASE s = n + 1 /\ t \in DOMAIN sessions
    BY <1>2, <1>4, <1>6, <2>2
  <2>3. CASE s \in DOMAIN sessions /\ t = n + 1
    BY <1>2, <1>4, <1>6, <2>3
  <2>. QED
    BY <1>5, <2>1, <2>2, <2>3
<1>8. \A s \in DOMAIN sessions' :
         ~sessions'[s].open => s \in DOMAIN sessions /\ sessions'[s] = sessions[s]
  BY <1>2, <1>4, <1>5
<1>. QED
  BY <1>1, <1>4, <1>7, <1>8, SessionsOnly

\* An open session gets new figures, and may be closed with what it should hold.
LEMMA SessionChanged ==
    ASSUME TillOK, OneOpenSession, ClosedTillOnlyLoses,
           NEW s \in DOMAIN sessions, sessions[s].open, NEW new \in SessionRecords,
           sessions' = [sessions EXCEPT ![s] = new],
           new.cashier = sessions[s].cashier,
           new.open \/ new.expected = new.cash + CashSales(s),
           UNCHANGED <<tickets, paid, onHand, tracked>>
    PROVE  TillStep
<1>1. sessions \in Seq(SessionRecords)
  BY DEF TillOK
<1>2. /\ sessions' \in Seq(SessionRecords) /\ DOMAIN sessions' = DOMAIN sessions
      /\ sessions'[s] = new
      /\ \A r \in DOMAIN sessions \ {s} : sessions'[r] = sessions[r]
  BY <1>1
<1>3. OneOpenSession'
  <2>. SUFFICES ASSUME NEW r \in DOMAIN sessions', NEW t \in DOMAIN sessions',
                       sessions'[r].open, sessions'[t].open,
                       sessions'[r].cashier = sessions'[t].cashier
                PROVE  r = t
    BY DEF OneOpenSession
  <2>1. /\ sessions[r].open /\ sessions[t].open
        /\ sessions[r].cashier = sessions[t].cashier
    BY <1>2
  <2>. QED
    BY <1>2, <2>1 DEF OneOpenSession
<1>4. \A r \in DOMAIN sessions' :
         ~sessions'[r].open =>
            \/ r \in DOMAIN sessions /\ sessions'[r] = sessions[r]
            \/ sessions'[r].expected = sessions'[r].cash + CashSales(r)
  BY <1>2
<1>. QED
  BY <1>2, <1>3, <1>4, SessionsOnly

LEMMA CloseStep ==
    ASSUME TillOK, OneOpenSession, ClosedTillOnlyLoses,
           NEW s \in DOMAIN sessions, NEW counted \in BOOLEAN, ClosePosSession(s, counted)
    PROVE  TillStep
<1>. DEFINE new == [sessions[s] EXCEPT !.expected = InTheDrawer(s), !.open = ~counted]
<1>1. /\ sessions[s].open
      /\ UNCHANGED <<tickets, paid, onHand, tracked>>
      /\ sessions' = [sessions EXCEPT ![s].expected = InTheDrawer(s), ![s].open = ~counted]
  BY DEF ClosePosSession, stockVars
<1>2. sessions \in Seq(SessionRecords) /\ tickets \in Seq(TicketRecords)
  BY DEF TillOK
<1>3. sessions[s] \in SessionRecords
  BY <1>2
<1>4. CashSales(s) \in Int
  <2>1. CashSales(s) = Cash(tickets, s)
    BY <1>2, CashSum DEF CashSales
  <2>. QED
    BY <1>2, <2>1, CashType
<1>5. InTheDrawer(s) \in Int /\ InTheDrawer(s) = sessions[s].cash + CashSales(s)
  BY <1>3, <1>4 DEF InTheDrawer, SessionRecords
<1>6. sessions' = [sessions EXCEPT ![s] = new]
  BY <1>1, <1>2
<1>7. /\ new \in SessionRecords /\ new.cashier = sessions[s].cashier
      /\ new.expected = new.cash + CashSales(s)
  BY <1>3, <1>5 DEF SessionRecords
<1>. HIDE DEF new
<1>. QED
  BY <1>1, <1>6, <1>7, SessionChanged

LEMMA DrawerStep ==
    ASSUME TillOK, OneOpenSession, ClosedTillOnlyLoses,
           NEW s \in DOMAIN sessions, NEW amount \in Int, AddCashDrawerMovement(s, amount)
    PROVE  TillStep
<1>. DEFINE new == [sessions[s] EXCEPT !.cash = @ + amount]
<1>1. /\ sessions[s].open
      /\ UNCHANGED <<tickets, paid, onHand, tracked>>
      /\ sessions' = [sessions EXCEPT ![s].cash = @ + amount]
  BY DEF AddCashDrawerMovement, stockVars
<1>2. sessions \in Seq(SessionRecords)
  BY DEF TillOK
<1>3. sessions[s] \in SessionRecords
  BY <1>2
<1>4. sessions' = [sessions EXCEPT ![s] = new]
  BY <1>1, <1>2
<1>5. new \in SessionRecords /\ new.cashier = sessions[s].cashier /\ new.open = sessions[s].open
  BY <1>3 DEF SessionRecords
<1>. HIDE DEF new
<1>. QED
  BY <1>1, <1>4, <1>5, SessionChanged

\* What a sale takes from the shelf: the units of its lines, and of the lines
\* before the short one.
LEMMA Consumed ==
    ASSUME TillOK, NEW done \in [Products -> Nat], Consume(done)
    PROVE  /\ onHand' \in [Products -> Int] /\ tracked' = tracked
           /\ \A p \in Products : onHand'[p] = onHand[p] - done[p]
<1>1. onHand \in [Products -> Int]
  BY DEF TillOK
<1>2. onHand' = [p \in Products |-> onHand[p] + (-done[p])] /\ tracked' = tracked
  BY DEF Consume, Move, Plus, Negated
<1>3. \A p \in Products : onHand[p] \in Int /\ done[p] \in Nat
  BY <1>1
<1>. QED
  BY <1>2, <1>3

LEMMA AllStocked ==
    ASSUME TillOK, NEW lines \in [Products -> Int]
    PROVE  Stocked(lines) = lines
BY DEF TillOK, Stocked

LEMMA TicketType ==
    ASSUME TillOK, NEW sale \in Sales, NEW a \in Amounts, SessionOf(sale) \in Nat
    PROVE  /\ Ticket(sale, a) \in TicketRecords
           /\ Ticket(sale, a).lines = sale.lines /\ sale.lines \in Quantities
           /\ sale.lines \in [Products -> Nat]
           /\ Ticket(sale, a).session = SessionOf(sale) /\ Ticket(sale, a).refunds = 0
<1>1. sale.lines \in Quantities /\ sale.method \in Methods
  BY DEF Sales, Demands
<1>2. sale.lines \in [Products -> Nat] /\ sale.lines \in [Products -> Int]
  BY <1>1, StockAssumption DEF Quantities
<1>3. a.total \in Int /\ a.posts \in BOOLEAN
  BY PosAssumption DEF Amounts
<1>. QED
  BY <1>1, <1>2, <1>3 DEF Ticket, TicketRecords

\* A ticket recorded in an open session.
LEMMA Recorded ==
    ASSUME TillOK, OneOpenSession, ClosedTillOnlyLoses,
           NEW sale \in Sales, NEW a \in Amounts, RecordTicket(sale, a),
           paid' = paid \/ paid' = Append(paid, Len(tickets')),
           onHand' \in [Products -> Int], tracked' = tracked
    PROVE  /\ TillOK' /\ OneOpenSession' /\ ClosedTillOnlyLoses'
           /\ Ticket(sale, a) \in TicketRecords /\ Ticket(sale, a).refunds = 0
           /\ Ticket(sale, a).lines = sale.lines /\ sale.lines \in [Products -> Nat]
           /\ tickets' = Append(tickets, Ticket(sale, a))
<1>1. /\ Usable(sale) /\ sessions' = SessionsFor(sale)
      /\ tickets' = Append(tickets, Ticket(sale, a))
  BY DEF RecordTicket
<1>2. /\ sessions' \in Seq(SessionRecords)
      /\ \A s \in DOMAIN sessions : sessions'[s] = sessions[s]
      /\ \A s \in DOMAIN sessions' : s \in DOMAIN sessions \/ sessions'[s].open
      /\ \A s, t \in DOMAIN sessions' :
            sessions'[s].open /\ sessions'[t].open
              /\ sessions'[s].cashier = sessions'[t].cashier => s = t
      /\ SessionOf(sale) \in DOMAIN sessions'
      /\ sessions'[SessionOf(sale)].open
  BY <1>1, SessionForSale
<1>3. OneOpenSession'
  BY <1>2 DEF OneOpenSession
<1>4. SessionOf(sale) \in Nat
  BY <1>2
<1>5. /\ Ticket(sale, a) \in TicketRecords /\ Ticket(sale, a).refunds = 0
      /\ Ticket(sale, a).lines = sale.lines /\ sale.lines \in Quantities
      /\ sale.lines \in [Products -> Nat]
      /\ Ticket(sale, a).session = SessionOf(sale)
  BY <1>4, TicketType
<1>6. TillOK' /\ OneOpenSession' /\ ClosedTillOnlyLoses'
  BY <1>1, <1>2, <1>3, <1>5, TicketAdded
<1>. QED
  BY <1>1, <1>5, <1>6

LEMMA SellStep ==
    ASSUME TillOK, OneOpenSession, ClosedTillOnlyLoses,
           NEW sale \in Sales, NEW a \in Amounts, Sell(sale, a)
    PROVE  TillStep
<1>1. /\ RecordTicket(sale, a) /\ Consume(Stocked(sale.lines))
      /\ paid' = Append(paid, Len(tickets'))
  BY DEF Sell
<1>2. sale.lines \in [Products -> Nat] /\ sale.lines \in [Products -> Int]
  BY StockAssumption DEF Sales, Demands, Quantities
<1>3. Consume(sale.lines)
  BY <1>1, <1>2, AllStocked
<1>4. /\ onHand' \in [Products -> Int] /\ tracked' = tracked
      /\ \A p \in Products : onHand'[p] = onHand[p] - sale.lines[p]
  BY <1>2, <1>3, Consumed
<1>5. /\ TillOK' /\ OneOpenSession' /\ ClosedTillOnlyLoses'
      /\ Ticket(sale, a) \in TicketRecords /\ Ticket(sale, a).lines = sale.lines
      /\ tickets' = Append(tickets, Ticket(sale, a))
  BY <1>1, <1>4, Recorded
<1>6. FollowStep
  BY <1>1, <1>4, <1>5, PaidFollows
<1>. QED
  BY <1>5, <1>6 DEF TillStep

LEMMA SellInPartStep ==
    ASSUME TillOK, OneOpenSession, ClosedTillOnlyLoses, NEW sale \in Sales, NEW a \in Amounts,
           NEW done \in Quantities, SellInPart(sale, a, done)
    PROVE  TillStep
<1>1. RecordTicket(sale, a) /\ Consume(done) /\ paid' = paid
  BY DEF SellInPart
<1>2. done \in [Products -> Nat]
  BY StockAssumption DEF Quantities
<1>3. /\ onHand' \in [Products -> Int] /\ tracked' = tracked
      /\ \A p \in Products : onHand'[p] = onHand[p] - done[p]
  BY <1>1, <1>2, Consumed
<1>4. /\ TillOK' /\ OneOpenSession' /\ ClosedTillOnlyLoses'
      /\ Ticket(sale, a) \in TicketRecords /\ Ticket(sale, a).refunds = 0
      /\ Ticket(sale, a).lines = sale.lines /\ sale.lines \in [Products -> Nat]
      /\ tickets' = Append(tickets, Ticket(sale, a))
  BY <1>1, <1>3, Recorded
<1>5. \A p \in Products : done[p] \in 0..sale.lines[p]
  <2>1. Stocked(sale.lines) = sale.lines
    <3>1. sale.lines \in [Products -> Int]
      BY <1>4
    <3>. QED
      BY <3>1, AllStocked
  <2>2. done = sale.lines \/ \A p \in Products : done[p] <= sale.lines[p]
    BY <2>1 DEF SellInPart, Interrupted
  <2>3. \A p \in Products : done[p] \in Nat /\ sale.lines[p] \in Nat
    BY <1>2, <1>4
  <2>. QED
    BY <2>2, <2>3
<1>6. FollowStep
  <2>1. done \in [Products -> Int]
    BY <1>2
  <2>. QED
    BY <1>1, <1>3, <1>4, <1>5, <2>1, UnpaidFollows
<1>. QED
  BY <1>4, <1>6 DEF TillStep

\* A refund takes from the drawer what its ticket put there, and puts the units
\* back.
LEMMA RefundStep ==
    ASSUME TillOK, OneOpenSession, ClosedTillOnlyLoses,
           NEW t \in DOMAIN tickets, RefundPosTransaction(t)
    PROVE  TillStep
<1>. DEFINE ticket == Refund(t)
            lines == tickets[t].lines
<1>1. /\ tickets[t].refunds = 0
      /\ tickets' = Append(tickets, ticket)
      /\ Move(Main, Stocked(lines))
      /\ paid' = IF tickets[t].posts THEN Append(paid, Len(tickets')) ELSE paid
      /\ sessions' = sessions /\ tracked' = tracked
  BY DEF RefundPosTransaction, Refundable
<1>2. /\ tickets \in Seq(TicketRecords) /\ sessions \in Seq(SessionRecords)
      /\ onHand \in [Products -> Int]
  BY DEF TillOK
<1>3. tickets[t] \in TicketRecords /\ t \in Nat /\ t # 0
  BY <1>2
<1>4. lines \in Quantities /\ lines \in [Products -> Int]
  BY <1>1, <1>3 DEF TillOK, TicketRecords
<1>5. Negated(lines) \in [Products -> Int]
  BY <1>4 DEF Negated
<1>6. /\ ticket \in TicketRecords /\ ticket.lines = Negated(lines) /\ ticket.refunds = t
      /\ ticket.posts = tickets[t].posts
  <2>. DEFINE back == Negated(lines)
              amount == -tickets[t].total
  <2>1. ticket = [tickets[t] EXCEPT !.lines = back, !.total = amount, !.refunds = t]
    BY DEF Refund
  <2>2. amount \in Int /\ back \in [Products -> Int]
    BY <1>3, <1>5 DEF TicketRecords
  <2>. HIDE DEF ticket, lines, back, amount
  <2>3. ticket \in TicketRecords /\ ticket.lines = back /\ ticket.refunds = t
    BY <1>3, <2>1, <2>2 DEF TicketRecords
  <2>4. ticket.posts = tickets[t].posts
    BY <1>3, <2>1 DEF TicketRecords
  <2>. QED
    BY <2>3, <2>4 DEF back
<1>. HIDE DEF ticket
<1>7. onHand' = [p \in Products |-> onHand[p] + lines[p]]
  BY <1>1, <1>4, AllStocked DEF Move, Plus
<1>8. /\ onHand' \in [Products -> Int]
      /\ \A p \in Products : onHand'[p] = onHand[p] - ticket.lines[p]
  <2>1. ASSUME NEW p \in Products
        PROVE  onHand[p] \in Int /\ lines[p] \in Int /\ ticket.lines[p] = -lines[p]
    BY <1>2, <1>4, <1>6 DEF Negated
  <2>. HIDE DEF lines
  <2>. QED
    BY <1>7, <2>1
<1>9. OneOpenSession'
  BY <1>1 DEF OneOpenSession
<1>10. TillOK' /\ OneOpenSession' /\ ClosedTillOnlyLoses'
  BY <1>1, <1>2, <1>3, <1>5, <1>6, <1>8, <1>9, TicketAdded
<1>11. FollowStep
  <2>1. CASE tickets[t].posts
    BY <1>1, <1>6, <1>8, <2>1, PaidFollows
  <2>2. CASE ~tickets[t].posts
    <3>1. ticket.lines \in [Products -> Int] /\ ticket.refunds # 0 /\ ~ticket.posts
      BY <1>3, <1>5, <1>6, <2>2
    <3>2. paid' = paid
      BY <1>1, <2>2
    <3>. QED
      BY <1>1, <1>6, <1>8, <3>1, <3>2, UnpaidFollows
  <2>. QED
    BY <2>1, <2>2
<1>. QED
  BY <1>10, <1>11 DEF TillStep

\* A replayed sale opens a session and fails on its lines.
LEMMA OpenedOnly ==
    ASSUME TillOK, OneOpenSession, ClosedTillOnlyLoses, NEW sale \in Sales, Usable(sale),
           sessions' = SessionsFor(sale), UNCHANGED <<tickets, paid, onHand, tracked>>
    PROVE  TillStep
<1>1. /\ sessions' \in Seq(SessionRecords)
      /\ \A s \in DOMAIN sessions : sessions'[s] = sessions[s]
      /\ \A s \in DOMAIN sessions' : s \in DOMAIN sessions \/ sessions'[s].open
      /\ \A s, t \in DOMAIN sessions' :
            sessions'[s].open /\ sessions'[t].open
              /\ sessions'[s].cashier = sessions'[t].cashier => s = t
  BY SessionForSale
<1>2. OneOpenSession'
  BY <1>1 DEF OneOpenSession
<1>. QED
  BY <1>1, <1>2, SessionsOnly

-----------------------------------------------------------------------------
\* The queue.

\* The sale that is replayed is one of the queue.
LEMMA NextSale ==
    ASSUME QueueOK, SyncItem
    PROVE  /\ Min(Pending) \in Pending /\ Pending \in SUBSET (1..Len(queue))
           /\ Len(queue) \in Nat
           /\ queue[Min(Pending)].sale \in Sales
<1>1. Pending # {} /\ queue \in Seq(QueueItems)
  BY DEF QueueOK, SyncItem
<1>2. Len(queue) \in Nat /\ Pending \in SUBSET (1..Len(queue))
  BY <1>1 DEF Pending
<1>3. Min(Pending) \in Pending
  BY <1>1, <1>2, LeastIn
<1>4. queue[Min(Pending)] \in QueueItems
  <2>1. \A i \in DOMAIN queue : queue[i] \in QueueItems
    BY <1>1
  <2>2. Min(Pending) \in DOMAIN queue
    BY <1>3 DEF Pending
  <2>. QED
    BY <2>1, <2>2
<1>. QED
  BY <1>2, <1>3, <1>4 DEF QueueItems

\* As long as more than one sale was pending, one still is.
LEMMA SyncQueue ==
    ASSUME QueueOK, SyncItem
    PROVE  QueueOK'
<1>. DEFINE i == Min(Pending)
<1>1. i \in Pending /\ Pending \in SUBSET (1..Len(queue)) /\ Len(queue) \in Nat
  BY NextSale
<1>2. /\ \E status \in {"SYNCED", "CONFLICT"} : queue' = [queue EXCEPT ![i].status = status]
      /\ syncing' = (Cardinality(Pending) > 1)
  BY DEF SyncItem
<1>3. PICK status \in {"SYNCED", "CONFLICT"} : queue' = [queue EXCEPT ![i].status = status]
  BY <1>2
<1>4. queue \in Seq(QueueItems) /\ i \in DOMAIN queue
  <2>1. queue \in Seq(QueueItems)
    BY DEF QueueOK
  <2>2. i \in DOMAIN queue
    BY <1>1 DEF Pending
  <2>. QED
    BY <2>1, <2>2
<1>. HIDE DEF i
<1>5. queue' \in Seq(QueueItems)
  <2>. DEFINE new == [queue[i] EXCEPT !.status = status]
  <2>1. queue[i] \in QueueItems
    BY <1>4
  <2>2. new \in QueueItems
    BY <2>1 DEF QueueItems
  <2>3. queue' = [queue EXCEPT ![i] = new]
    BY <1>3, <1>4
  <2>. HIDE DEF new
  <2>. QED
    BY <1>4, <2>2, <2>3
<1>6. Pending \ {i} \subseteq Pending'
  BY <1>3, <1>4 DEF Pending
<1>7. ASSUME syncing'
      PROVE  Pending' # {}
  <2>1. Cardinality(Pending) > 1
    BY <1>2, <1>7
  <2>2. Pending # {i}
    <3>1. Cardinality({i}) = 1
      BY FS_Singleton
    <3>. QED
      BY <2>1, <3>1
  <2>. QED
    BY <1>1, <1>6, <2>2 DEF i
<1>. QED
  BY <1>5, <1>7 DEF QueueOK

\* Nothing leaves the queue but through SyncItem.
LEMMA QueueSteps ==
    ASSUME QueueOK, [PosNext]_allPosVars
    PROVE  QueueOK'
<1>1. ASSUME UNCHANGED <<queue, syncing>>
      PROVE  QueueOK'
  BY <1>1 DEF QueueOK, Pending
<1>2. ASSUME NEW sale \in Sales, QueueOfflinePosSale(sale)
      PROVE  QueueOK'
  <2>. DEFINE item == [sale |-> sale, status |-> "PENDING"]
  <2>1. ~syncing /\ queue' = Append(queue, item) /\ syncing' = syncing
    BY <1>2 DEF QueueOfflinePosSale
  <2>2. queue \in Seq(QueueItems) /\ item \in QueueItems
    BY DEF QueueOK, QueueItems
  <2>. HIDE DEF item
  <2>3. queue' \in Seq(QueueItems)
    BY <2>1, <2>2
  <2>. QED
    BY <2>1, <2>3 DEF QueueOK
<1>3. CASE SyncOfflinePosQueue
  BY <1>3 DEF SyncOfflinePosQueue, QueueOK, Pending
<1>4. CASE SyncItem
  BY <1>4, SyncQueue
<1>5. CASE PosNext
  <2>1. ASSUME NEW c \in Cashiers, NEW cash \in 0..MaxCash, OpenPosSession(c, cash)
        PROVE  QueueOK'
    BY <1>1, <2>1 DEF OpenPosSession
  <2>2. ASSUME NEW s \in DOMAIN sessions, NEW counted \in BOOLEAN, ClosePosSession(s, counted)
        PROVE  QueueOK'
    BY <1>1, <2>2 DEF ClosePosSession
  <2>3. ASSUME NEW s \in DOMAIN sessions, NEW amount \in -MaxCash..MaxCash,
               AddCashDrawerMovement(s, amount)
        PROVE  QueueOK'
    BY <1>1, <2>3 DEF AddCashDrawerMovement
  <2>4. ASSUME NEW sale \in Sales, NEW a \in Amounts, CreatePosTransaction(sale, a)
        PROVE  QueueOK'
    BY <1>1, <2>4 DEF CreatePosTransaction
  <2>5. ASSUME NEW sale \in Sales, NEW a \in Amounts, NEW done \in Quantities,
               RejectPosTransaction(sale, a, done)
        PROVE  QueueOK'
    BY <1>1, <2>5 DEF RejectPosTransaction
  <2>6. ASSUME NEW t \in DOMAIN tickets, RefundPosTransaction(t)
        PROVE  QueueOK'
    BY <1>1, <2>6 DEF RefundPosTransaction
  <2>7. CASE ~syncing /\ SetPeriod /\ UNCHANGED posVars
    BY <1>1, <2>7 DEF posVars
  <2>. QED
    BY <1>2, <1>3, <1>4, <1>5, <2>1, <2>2, <2>3, <2>4, <2>5, <2>6, <2>7 DEF PosNext
<1>6. CASE UNCHANGED allPosVars
  BY <1>1, <1>6 DEF allPosVars, posVars
<1>. QED
  BY <1>5, <1>6

LEMMA TillSteps ==
    ASSUME PosInv, [PosNext]_allPosVars
    PROVE  TillStep
<1>1. TillOK /\ QueueOK /\ OneOpenSession /\ ClosedTillOnlyLoses
  BY DEF PosInv
<1>2. ASSUME UNCHANGED <<tillVars, onHand, tracked>>
      PROVE  TillStep
  BY <1>1, <1>2, Idle
<1>3. CASE SyncItem
  <2>. DEFINE sale == queue[Min(Pending)].sale
  <2>1. sale \in Sales
    BY <1>1, <1>3, NextSale
  <2>2. \/ \E a \in Amounts : Sell(sale, a)
        \/ \E a \in Amounts, done \in Quantities : SellInPart(sale, a, done)
        \/ /\ Usable(sale) /\ sessions' = SessionsFor(sale)
           /\ UNCHANGED <<tickets, paid, stockVars>>
        \/ UNCHANGED <<tillVars, stockVars>>
    BY <1>3 DEF SyncItem
  <2>. HIDE DEF sale
  <2>3. CASE \E a \in Amounts : Sell(sale, a)
    BY <1>1, <2>1, <2>3, SellStep
  <2>4. CASE \E a \in Amounts, done \in Quantities : SellInPart(sale, a, done)
    BY <1>1, <2>1, <2>4, SellInPartStep
  <2>5. CASE /\ Usable(sale) /\ sessions' = SessionsFor(sale)
             /\ UNCHANGED <<tickets, paid, stockVars>>
    <3>1. UNCHANGED <<tickets, paid, onHand, tracked>>
      BY <2>5 DEF stockVars
    <3>. QED
      BY <1>1, <2>1, <2>5, <3>1, OpenedOnly
  <2>6. CASE UNCHANGED <<tillVars, stockVars>>
    BY <1>2, <2>6 DEF stockVars
  <2>. QED
    BY <2>2, <2>3, <2>4, <2>5, <2>6
<1>4. CASE PosNext
  <2>1. ASSUME NEW c \in Cashiers, NEW cash \in 0..MaxCash, OpenPosSession(c, cash)
        PROVE  TillStep
    BY <1>1, <2>1, OpenStep
  <2>2. ASSUME NEW s \in DOMAIN sessions, NEW counted \in BOOLEAN, ClosePosSession(s, counted)
        PROVE  TillStep
    BY <1>1, <2>2, CloseStep
  <2>3. ASSUME NEW s \in DOMAIN sessions, NEW amount \in -MaxCash..MaxCash,
               AddCashDrawerMovement(s, amount)
        PROVE  TillStep
    <3>1. amount \in Int
      BY PosAssumption
    <3>. QED
      BY <1>1, <2>3, <3>1, DrawerStep
  <2>4. ASSUME NEW sale \in Sales, NEW a \in Amounts, CreatePosTransaction(sale, a)
        PROVE  TillStep
    BY <1>1, <2>4, SellStep DEF CreatePosTransaction
  <2>5. ASSUME NEW sale \in Sales, NEW a \in Amounts, NEW done \in Quantities,
               RejectPosTransaction(sale, a, done)
        PROVE  TillStep
    BY <1>1, <2>5, SellInPartStep DEF RejectPosTransaction
  <2>6. ASSUME NEW sale \in Sales, QueueOfflinePosSale(sale)
        PROVE  TillStep
    BY <1>2, <2>6 DEF QueueOfflinePosSale, stockVars
  <2>7. ASSUME NEW t \in DOMAIN tickets, RefundPosTransaction(t)
        PROVE  TillStep
    BY <1>1, <2>7, RefundStep
  <2>8. CASE SyncOfflinePosQueue
    BY <1>2, <2>8 DEF SyncOfflinePosQueue, stockVars
  <2>9. CASE ~syncing /\ SetPeriod /\ UNCHANGED posVars
    BY <1>2, <2>9 DEF SetPeriod, posVars
  <2>. QED
    BY <1>3, <1>4, <2>1, <2>2, <2>3, <2>4, <2>5, <2>6, <2>7, <2>8, <2>9 DEF PosNext
<1>5. CASE UNCHANGED allPosVars
  BY <1>2, <1>5 DEF allPosVars, posVars, stockVars
<1>. QED
  BY <1>4, <1>5

LEMMA InitHolds == PosInit => PosInv
<1>. SUFFICES ASSUME PosInit PROVE PosInv
  OBVIOUS
<1>1. /\ sessions = <<>> /\ tickets = <<>> /\ paid = <<>> /\ queue = <<>> /\ syncing = FALSE
      /\ onHand \in [Products -> 0..MaxStock] /\ tracked = [p \in Products |-> TRUE]
  BY DEF PosInit, StockInit
<1>2. onHand \in [Products -> Int]
  BY <1>1, StockAssumption
<1>3. TillOK
  BY <1>1, <1>2 DEF TillOK
<1>4. QueueOK /\ OneOpenSession /\ ClosedTillOnlyLoses
  BY <1>1 DEF QueueOK, OneOpenSession, ClosedTillOnlyLoses
<1>. QED
  BY <1>3, <1>4 DEF PosInv

LEMMA PosInvHolds == PosSpec => []PosInv
<1>1. PosInv /\ [PosNext]_allPosVars => PosInv'
  <2>1. PosInv /\ [PosNext]_allPosVars => TillStep /\ QueueOK'
    BY TillSteps, QueueSteps DEF PosInv
  <2>. QED
    BY <2>1 DEF PosInv, TillStep
<1>. QED
  BY <1>1, InitHolds, PTL DEF PosSpec

-----------------------------------------------------------------------------
\* A cashier has one open session at most, whoever opened it: the cashier, a
\* ticket without a session or the replay of the queue (openPosSession,
\* createPosTransaction, syncOfflinePosQueue).
THEOREM OneSessionPerCashier == PosSpec => []OneOpenSession
<1>1. PosInv => OneOpenSession
  BY DEF PosInv
<1>. QED
  BY <1>1, PosInvHolds, PTL

\* After it is closed a session gets no sale and no movement: what it should have
\* held is lowered by refunds, and raised by those of tickets with a negative
\* total only (closePosSession, refundPosTransaction).
THEOREM ClosedTillNeverGains == PosSpec => []ClosedTillOnlyLoses
<1>1. PosInv => ClosedTillOnlyLoses
  BY DEF PosInv
<1>. QED
  BY <1>1, PosInvHolds, PTL

\* Stock and money move together, sale by sale and refund by refund; stock moves
\* without money only with a ticket that stays without payment, and never by more
\* than it says (createPosTransaction, consumeStockForSales, refundPosTransaction).
THEOREM StockAlwaysFollowsPayments == PosSpec => StockFollowsPayments
<1>1. PosInv /\ [PosNext]_allPosVars => [FollowStep]_allPosVars
  BY TillSteps DEF TillStep
<1>. QED
  BY <1>1, PosInvHolds, PTL DEF PosSpec, StockFollowsPayments, FollowStep


-----------------------------------------------------------------------------
\* The ledger.

\* A ledger with entries added at its end.
LEMMA EntriesAdded ==
    ASSUME LedgerTypeOK, NEW n \in Nat, NEW origin \in Origins, PostToday(n, origin)
    PROVE  /\ entries' \in Seq(Entries)
           /\ Len(entries') = Len(entries) + n
           /\ \A e \in DOMAIN entries : entries'[e] = entries[e]
           /\ \A e \in DOMAIN entries' \ DOMAIN entries :
                 entries'[e] = Entry(month, "POSTED", origin)
<1>. DEFINE more == [i \in 1..n |-> Entry(month, "POSTED", origin)]
<1>1. Entry(month, "POSTED", origin) \in Entries
  BY DEF LedgerTypeOK, Entries, Entry, EntryStatus
<1>2. more \in Seq(Entries) /\ Len(more) = n /\ \A i \in 1..n : more[i] = Entry(month, "POSTED", origin)
  BY <1>1
<1>3. entries \in Seq(Entries) /\ entries' = entries \o more
  BY DEF LedgerTypeOK, PostToday
<1>4. /\ entries \o more \in Seq(Entries)
      /\ Len(entries \o more) = Len(entries) + Len(more)
      /\ \A i \in 1..Len(entries) + Len(more) :
            (entries \o more)[i] = IF i <= Len(entries) THEN entries[i] ELSE more[i - Len(entries)]
  BY <1>2, <1>3, ConcatProperties
<1>5. DOMAIN entries = 1..Len(entries) /\ DOMAIN entries' = 1..(Len(entries) + n)
  BY <1>2, <1>3, <1>4
<1>. QED
  BY <1>2, <1>3, <1>4, <1>5

\* Only entries changes, and by one of these four ways.
LedgerChange ==
    \/ \E n \in Nat, origin \in Origins : PostToday(n, origin) /\ (origin # "other" => Open(month))
    \/ \E entry \in Entries : /\ entries' = Append(entries, entry)
                              /\ entry.status = "POSTED" => entry.origin = "manual" /\ Open(entry.month)
                              /\ entry.status # "VOID"
    \/ \E e \in DOMAIN entries, entry \in Entries :
          /\ entries' = [entries EXCEPT ![e] = entry]
          /\ \/ entries[e].status = "DRAFT" /\ entry.status = "DRAFT"
             \/ entries[e].status = "DRAFT" /\ entry.status = "POSTED" /\ Open(entry.month)
             \/ entry.status = "VOID" /\ entry.month = entries[e].month /\ Open(entry.month)
    \/ UNCHANGED entries

LEMMA StepsChangeLedger ==
    ASSUME LedgerTypeOK, LedgerStep
    PROVE  LedgerChange /\ month' \in Months /\ period' \in [Months -> PeriodStatus]
<1>. USE DEF LedgerTypeOK
<1>0. \A e \in DOMAIN entries : entries[e] \in Entries
  OBVIOUS
<1>1. ASSUME NEW m \in Months, NEW post \in BOOLEAN, CreateJournalEntry(m, post)
      PROVE  LedgerChange /\ month' \in Months /\ period' \in [Months -> PeriodStatus]
  <2>. DEFINE entry == Entry(m, IF post THEN "POSTED" ELSE "DRAFT", "manual")
  <2>1. entry \in Entries
    BY DEF Entry, Entries, EntryStatus, Origins
  <2>2. /\ entries' = Append(entries, entry)
        /\ entry.status = "POSTED" => entry.origin = "manual" /\ Open(entry.month)
        /\ entry.status # "VOID"
    BY <1>1 DEF CreateJournalEntry, Entry
  <2>. QED
    BY <1>1, <2>1, <2>2 DEF LedgerChange, CreateJournalEntry
<1>2. ASSUME NEW e \in DOMAIN entries, NEW m \in Months, UpdateJournalEntry(e, m)
      PROVE  LedgerChange /\ month' \in Months /\ period' \in [Months -> PeriodStatus]
  <2>. DEFINE entry == [entries[e] EXCEPT !.month = m]
  <2>1. entry \in Entries /\ entry.status = entries[e].status
    BY <1>0 DEF Entries
  <2>2. entries' = [entries EXCEPT ![e] = entry] /\ entries[e].status = "DRAFT"
    BY <1>2 DEF UpdateJournalEntry
  <2>. QED
    BY <1>2, <2>1, <2>2 DEF LedgerChange, UpdateJournalEntry
<1>3. ASSUME NEW e \in DOMAIN entries, PostManualJournal(e)
      PROVE  LedgerChange /\ month' \in Months /\ period' \in [Months -> PeriodStatus]
  <2>. DEFINE entry == [entries[e] EXCEPT !.status = "POSTED"]
  <2>1. entry \in Entries /\ entry.status = "POSTED" /\ entry.month = entries[e].month
    BY <1>0 DEF Entries, EntryStatus
  <2>2. /\ entries' = [entries EXCEPT ![e] = entry] /\ entries[e].status = "DRAFT"
        /\ Open(entries[e].month)
    BY <1>3 DEF PostManualJournal
  <2>. QED
    BY <1>3, <2>1, <2>2 DEF LedgerChange, PostManualJournal
<1>4. ASSUME NEW e \in DOMAIN entries, VoidJournalEntry(e)
      PROVE  LedgerChange /\ month' \in Months /\ period' \in [Months -> PeriodStatus]
  <2>. DEFINE entry == [entries[e] EXCEPT !.status = "VOID"]
  <2>1. entry \in Entries /\ entry.status = "VOID" /\ entry.month = entries[e].month
    BY <1>0 DEF Entries, EntryStatus
  <2>2. entries' = [entries EXCEPT ![e] = entry] /\ Open(entries[e].month)
    BY <1>4 DEF VoidJournalEntry
  <2>. QED
    BY <1>4, <2>1, <2>2 DEF LedgerChange, VoidJournalEntry
<1>5. CASE PostDocument
  BY <1>5 DEF PostDocument, LedgerChange, Origins
<1>6. CASE CancelInvoice
  BY <1>6 DEF CancelInvoice, LedgerChange, Origins
<1>7. CASE \E m \in Months : PostPayrollRun(m)
  BY <1>7 DEF PostPayrollRun, LedgerChange, Origins
<1>8. ASSUME NEW m \in Months, NEW s \in PeriodStatus, UpsertFiscalPeriod(m, s)
      PROVE  LedgerChange /\ month' \in Months /\ period' \in [Months -> PeriodStatus]
  BY <1>8 DEF UpsertFiscalPeriod, LedgerChange
<1>9. CASE \E m \in Months : LockFiscalPeriod(m) \/ CloseFiscalPeriod(m)
  BY <1>8, <1>9 DEF LockFiscalPeriod, CloseFiscalPeriod, PeriodStatus
<1>10. CASE NextMonth
  BY <1>10, LedgerAssumption DEF NextMonth, LedgerChange, Months
<1>. QED
  BY <1>1, <1>2, <1>3, <1>4, <1>5, <1>6, <1>7, <1>8, <1>9, <1>10 DEF LedgerStep

FrozenStep ==
    \A m \in Months :
       ~Open(m) /\ ~Open(m)' =>
          /\ PostedOf(m) \subseteq PostedOf(m)'
          /\ \A e \in PostedOf(m)' \ PostedOf(m) : entries'[e].origin = "other"

\* None of the four ways disturbs what a locked month has posted.
LEMMA ChangesKeepLockedMonths ==
    ASSUME LedgerTypeOK, LedgerChange
    PROVE  entries' \in Seq(Entries) /\ FrozenStep
<1>. USE DEF LedgerTypeOK
<1>0. \A e \in DOMAIN entries : entries[e] \in Entries
  OBVIOUS
<1>1. ASSUME NEW n \in Nat, NEW origin \in Origins, PostToday(n, origin),
             origin # "other" => Open(month)
      PROVE  entries' \in Seq(Entries) /\ FrozenStep
  <2>1. /\ entries' \in Seq(Entries)
        /\ Len(entries') = Len(entries) + n
        /\ \A e \in DOMAIN entries : entries'[e] = entries[e]
        /\ \A e \in DOMAIN entries' \ DOMAIN entries :
              entries'[e] = Entry(month, "POSTED", origin)
    BY <1>1, EntriesAdded
  <2>2. DOMAIN entries \subseteq DOMAIN entries'
    BY <2>1
  <2>. QED
    BY <1>1, <2>1, <2>2 DEF FrozenStep, PostedOf, Entry
<1>2. ASSUME NEW entry \in Entries, entries' = Append(entries, entry),
             entry.status = "POSTED" => Open(entry.month)
      PROVE  entries' \in Seq(Entries) /\ FrozenStep
  <2>1. /\ entries' \in Seq(Entries)
        /\ DOMAIN entries' = DOMAIN entries \cup {Len(entries) + 1}
        /\ entries'[Len(entries) + 1] = entry
        /\ \A e \in DOMAIN entries : entries'[e] = entries[e]
    BY <1>2
  <2>. QED
    BY <1>2, <2>1 DEF FrozenStep, PostedOf
<1>3. ASSUME NEW e \in DOMAIN entries, NEW entry \in Entries,
             entries' = [entries EXCEPT ![e] = entry],
             \/ entries[e].status = "DRAFT" /\ entry.status = "DRAFT"
             \/ entries[e].status = "DRAFT" /\ entry.status = "POSTED" /\ Open(entry.month)
             \/ entry.status = "VOID" /\ entry.month = entries[e].month /\ Open(entry.month)
      PROVE  entries' \in Seq(Entries) /\ FrozenStep
  <2>1. /\ entries' \in Seq(Entries)
        /\ DOMAIN entries' = DOMAIN entries
        /\ entries'[e] = entry
        /\ \A i \in DOMAIN entries : i # e => entries'[i] = entries[i]
    BY <1>3
  <2>. QED
    BY <1>3, <2>1 DEF FrozenStep, PostedOf
<1>4. CASE UNCHANGED entries
  BY <1>4 DEF FrozenStep, PostedOf
<1>. QED
  BY <1>1, <1>2, <1>3, <1>4 DEF LedgerChange

LEMMA ExportedClaimsAreFinite ==
    ASSUME claims \in Seq(ClaimStatus)
    PROVE  Cardinality(ToExport) \in Nat
<1>1. DOMAIN claims = 1..Len(claims) /\ Len(claims) \in Nat
  OBVIOUS
<1>2. IsFiniteSet(1..Len(claims))
  BY <1>1, FS_Interval
<1>3. IsFiniteSet(ToExport)
  BY <1>1, <1>2, FS_Subset DEF ToExport
<1>. QED
  BY <1>3, FS_CardinalityType

LEMMA TreasuryStepsChangeLedger ==
    ASSUME claims \in Seq(ClaimStatus), TreasuryStep
    PROVE  LedgerChange /\ UNCHANGED <<month, period>>
<1>. USE DEF ledgerVars, LedgerChange
<1>1. CASE CreateCheque \/ CreateExpenseClaim \/ \E c \in DOMAIN claims : ApproveExpenseClaim(c)
  BY <1>1 DEF CreateCheque, CreateExpenseClaim, ApproveExpenseClaim
<1>2. CASE \E n \in 0..2 : \E list \in [1..n -> DOMAIN cheques] : CreateDepositBatch(list)
  BY <1>2 DEF CreateDepositBatch
<1>3. CASE ChequeDepositSlipGeneration
  BY <1>3 DEF ChequeDepositSlipGeneration
<1>4. CASE BouncedChequeWorkflow
  BY <1>4 DEF BouncedChequeWorkflow, Bounce, Origins
<1>5. CASE ExportExpenseClaims
  BY <1>5, ExportedClaimsAreFinite DEF ExportExpenseClaims, Origins
<1>6. CASE CreateEmployeeReimbursement \/ CreateCashboxDailyApproval
  BY <1>6 DEF CreateEmployeeReimbursement, CreateCashboxDailyApproval, Origins
<1>. QED
  BY <1>1, <1>2, <1>3, <1>4, <1>5, <1>6 DEF TreasuryStep

-----------------------------------------------------------------------------
\* Cheques and batches.

ChequesTyped(all, listed) ==
    /\ all \in Seq(Cheques)
    /\ listed \in Seq(Seq(DOMAIN all))

BatchesOf(c, listed) == {b \in DOMAIN listed : c \in Range(listed[b])}

\* ChequesMatchBatches, of any cheques and batches.
Match(all, listed) ==
    \A c \in DOMAIN all :
       /\ all[c].batch = (IF BatchesOf(c, listed) = {} THEN 0 ELSE Max(BatchesOf(c, listed)))
       /\ BatchesOf(c, listed) = {} => all[c].status # "DEPOSITED"

LEMMA ReceivedMatches ==
    ASSUME ChequesTyped(cheques, batches), Match(cheques, batches)
    PROVE  /\ ChequesTyped(Received, batches) /\ Match(Received, batches)
           /\ Len(Received) = Len(cheques) + 1
           /\ DOMAIN Received = 1..(Len(cheques) + 1)
<1>. DEFINE new == [status |-> "RECEIVED", batch |-> 0]
<1>1. /\ cheques \in Seq(Cheques) /\ Len(cheques) \in Nat
      /\ DOMAIN cheques = 1..Len(cheques)
      /\ new \in Cheques
  BY DEF ChequesTyped, Cheques
<1>2. /\ Received \in Seq(Cheques)
      /\ Len(Received) = Len(cheques) + 1
      /\ DOMAIN Received = 1..(Len(cheques) + 1)
      /\ Received[Len(cheques) + 1] = new
      /\ \A c \in DOMAIN cheques : Received[c] = cheques[c]
  BY <1>1 DEF Received
<1>3. Seq(DOMAIN cheques) \subseteq Seq(DOMAIN Received)
  BY <1>1, <1>2
<1>4. ChequesTyped(Received, batches)
  BY <1>2, <1>3, SeqMonotonic DEF ChequesTyped
<1>5. BatchesOf(Len(cheques) + 1, batches) = {}
  <2>1. \A b \in DOMAIN batches : batches[b] \in Seq(DOMAIN cheques)
    BY DEF ChequesTyped
  <2>2. \A b \in DOMAIN batches : Range(batches[b]) \subseteq DOMAIN cheques
    BY <2>1 DEF Range
  <2>. QED
    BY <1>1, <2>2 DEF BatchesOf
<1>6. \A c \in DOMAIN Received : c \in DOMAIN cheques \/ c = Len(cheques) + 1
  BY <1>1, <1>2
<1>7. Match(Received, batches)
  BY <1>2, <1>5, <1>6 DEF Match
<1>. QED
  BY <1>2, <1>4, <1>7

LEMMA MaxOfGreatest ==
    ASSUME NEW S \in SUBSET Nat, NEW n \in S, \A s \in S : s <= n
    PROVE  Max(S) = n
<1>1. \E x \in S : \A y \in S : x >= y
  OBVIOUS
<1>. DEFINE m == Max(S)
<1>2. m \in S /\ \A y \in S : m >= y
  BY <1>1 DEF Max
<1>. HIDE DEF m
<1>3. m \in Nat /\ n \in Nat /\ m >= n /\ m <= n
  BY <1>2
<1>4. m = n
  BY <1>3
<1>. QED
  BY <1>4 DEF m

\* A deposit of some cheques as the next batch.
LEMMA DepositMatches ==
    ASSUME NEW all, ChequesTyped(all, batches), Match(all, batches),
           NEW list \in Seq(DOMAIN all),
           batches' = Append(batches, list),
           cheques' = [c \in DOMAIN all |-> IF c \in Range(list) THEN Deposited(all[c], Len(batches'))
                                                                 ELSE all[c]]
    PROVE  ChequesTyped(cheques', batches') /\ Match(cheques', batches')
<1>. DEFINE n == Len(batches) + 1
<1>1. /\ all \in Seq(Cheques) /\ Len(all) \in Nat /\ DOMAIN all = 1..Len(all)
      /\ \A c \in DOMAIN all : all[c] \in Cheques
      /\ batches \in Seq(Seq(DOMAIN all)) /\ n \in Nat /\ DOMAIN batches = 1..(n - 1)
  BY DEF ChequesTyped
<1>2. /\ batches' \in Seq(Seq(DOMAIN all))
      /\ Len(batches') = n
      /\ DOMAIN batches' = 1..n
      /\ batches'[n] = list
      /\ \A b \in DOMAIN batches : batches'[b] = batches[b]
  BY <1>1
<1>3. \A c \in DOMAIN all : cheques'[c] \in Cheques
  BY <1>1, <1>2 DEF Deposited, Cheques
<1>4. cheques' \in [1..Len(all) -> Cheques]
  BY <1>1, <1>3
<1>5. cheques' \in Seq(Cheques) /\ DOMAIN cheques' = DOMAIN all
  BY <1>1, <1>4
<1>6. ChequesTyped(cheques', batches')
  BY <1>2, <1>5 DEF ChequesTyped
<1>7. ASSUME NEW c \in DOMAIN all, c \in Range(list)
      PROVE  /\ cheques'[c].batch = n
             /\ BatchesOf(c, batches') # {}
             /\ Max(BatchesOf(c, batches')) = n
  <2>1. cheques'[c].batch = n
    BY <1>1, <1>2, <1>7 DEF Deposited, Cheques
  <2>2. n \in BatchesOf(c, batches') /\ BatchesOf(c, batches') \subseteq 1..n
    BY <1>1, <1>2, <1>7 DEF BatchesOf
  <2>3. Max(BatchesOf(c, batches')) = n
    BY <1>1, <2>2, MaxOfGreatest
  <2>. QED
    BY <2>1, <2>2, <2>3
<1>8. ASSUME NEW c \in DOMAIN all, c \notin Range(list)
      PROVE  cheques'[c] = all[c] /\ BatchesOf(c, batches') = BatchesOf(c, batches)
  <2>1. cheques'[c] = all[c]
    BY <1>8
  <2>2. \A b \in DOMAIN batches' : b \in DOMAIN batches \/ b = n
    BY <1>1, <1>2
  <2>3. DOMAIN batches \subseteq DOMAIN batches'
    BY <1>1, <1>2
  <2>. QED
    BY <1>2, <1>8, <2>1, <2>2, <2>3 DEF BatchesOf
<1>9. Match(cheques', batches')
  BY <1>5, <1>7, <1>8 DEF Match
<1>. QED
  BY <1>6, <1>9

\* A cheque that is rejected stays in its batch.
LEMMA RejectionMatches ==
    ASSUME NEW all, ChequesTyped(all, batches), Match(all, batches), NEW c \in DOMAIN all,
           cheques' = [all EXCEPT ![c].status = "REJECTED"], UNCHANGED batches
    PROVE  ChequesTyped(cheques', batches') /\ Match(cheques', batches')
<1>1. /\ all \in Seq(Cheques)
      /\ \A i \in DOMAIN all : all[i] \in Cheques
  BY DEF ChequesTyped
<1>. DEFINE rejected == [all[c] EXCEPT !.status = "REJECTED"]
<1>2. /\ rejected \in Cheques
      /\ rejected.batch = all[c].batch
      /\ rejected.status = "REJECTED"
  BY <1>1 DEF Cheques
<1>3. cheques' = [all EXCEPT ![c] = rejected]
  OBVIOUS
<1>. HIDE DEF rejected
<1>4. /\ cheques' \in Seq(Cheques) /\ DOMAIN cheques' = DOMAIN all
      /\ cheques'[c].batch = all[c].batch /\ cheques'[c].status = "REJECTED"
      /\ \A i \in DOMAIN all : i # c => cheques'[i] = all[i]
  BY <1>1, <1>2, <1>3
<1>5. ChequesTyped(cheques', batches')
  BY <1>4 DEF ChequesTyped
<1>6. Match(cheques', batches')
  BY <1>4 DEF Match
<1>. QED
  BY <1>5, <1>6

-----------------------------------------------------------------------------
\* Every step.

ClaimsTyped ==
    /\ claims \in Seq(ClaimStatus)
    /\ approvals \in Seq(Nat) /\ Len(approvals) = Len(claims)
    /\ booked \in Seq(Nat) /\ Len(booked) = Len(claims)

ClaimsInv == ClaimsTyped /\ ClaimsBookedPerApproval
ChequesInv == ChequesTyped(cheques, batches) /\ Match(cheques, batches)

LEMMA StepsKeepCheques ==
    ASSUME ChequesInv, TreasuryStep
    PROVE  ChequesInv'
<1>. USE DEF ChequesInv
<1>0. /\ cheques \in Seq(Cheques) /\ DOMAIN cheques = 1..Len(cheques) /\ Len(cheques) \in Nat
      /\ batches \in Seq(Seq(DOMAIN cheques))
  BY DEF ChequesTyped
<1>1. CASE CreateCheque
  BY <1>1, ReceivedMatches DEF CreateCheque
<1>2. ASSUME NEW n \in 0..2, NEW list \in [1..n -> DOMAIN cheques], CreateDepositBatch(list)
      PROVE  ChequesInv'
  <2>1. list \in Seq(DOMAIN cheques)
    OBVIOUS
  <2>. QED
    BY <1>2, <2>1, DepositMatches DEF CreateDepositBatch
<1>3. CASE ChequeDepositSlipGeneration
  <2>. DEFINE waiting == {c \in DOMAIN cheques : cheques[c].status = "RECEIVED"}
              all == IF waiting = {} THEN Received ELSE cheques
              first == IF waiting = {} THEN {Len(all)}
                                       ELSE {c \in waiting : \A d \in waiting : c <= d}
  <2>1. ChequesTyped(all, batches) /\ Match(all, batches)
    BY ReceivedMatches
  <2>2. first \subseteq DOMAIN all
    BY <1>0, ReceivedMatches
  <2>3. PICK c \in first : /\ batches' = Append(batches, <<c>>)
                           /\ cheques' = [all EXCEPT ![c] = Deposited(@, Len(batches'))]
    BY <1>3 DEF ChequeDepositSlipGeneration
  <2>. HIDE DEF all, first
  <2>4. all \in Seq(Cheques)
    BY <2>1 DEF ChequesTyped
  <2>5. <<c>> \in Seq(DOMAIN all) /\ Range(<<c>>) = {c}
    BY <2>2 DEF Range
  <2>6. cheques' = [i \in DOMAIN all |-> IF i \in Range(<<c>>) THEN Deposited(all[i], Len(batches'))
                                                              ELSE all[i]]
    BY <2>2, <2>3, <2>4, <2>5
  <2>. QED
    BY <2>1, <2>3, <2>5, <2>6, DepositMatches
<1>4. CASE BouncedChequeWorkflow
  <2>1. ASSUME NEW c \in DOMAIN cheques, Bounce(cheques, c)
        PROVE  ChequesInv'
    BY <2>1, RejectionMatches DEF Bounce
  <2>2. CASE Bounce(Received, Len(Received))
    <3>1. /\ ChequesTyped(Received, batches) /\ Match(Received, batches)
          /\ Len(Received) \in DOMAIN Received
      BY <1>0, ReceivedMatches
    <3>. QED
      BY <2>2, <3>1, RejectionMatches DEF Bounce
  <2>. QED
    BY <1>4, <2>1, <2>2 DEF BouncedChequeWorkflow
<1>5. CASE UNCHANGED <<cheques, batches>>
  BY <1>5
<1>6. \/ CreateCheque
      \/ \E n \in 0..2 : \E list \in [1..n -> DOMAIN cheques] : CreateDepositBatch(list)
      \/ ChequeDepositSlipGeneration
      \/ BouncedChequeWorkflow
      \/ UNCHANGED <<cheques, batches>>
  BY DEF TreasuryStep, CreateExpenseClaim, ApproveExpenseClaim, ExportExpenseClaims,
         CreateEmployeeReimbursement, CreateCashboxDailyApproval, treasuryVars
<1>. QED
  BY <1>1, <1>2, <1>3, <1>4, <1>5, <1>6

LEMMA StepsKeepClaims ==
    ASSUME ClaimsInv, TreasuryStep
    PROVE  ClaimsInv'
<1>. USE DEF ClaimsInv, ClaimsTyped
<1>0. /\ DOMAIN claims = 1..Len(claims) /\ Len(claims) \in Nat
      /\ DOMAIN approvals = 1..Len(claims) /\ DOMAIN booked = 1..Len(claims)
      /\ \A c \in DOMAIN claims : /\ claims[c] \in ClaimStatus
                                 /\ approvals[c] \in Nat /\ booked[c] \in Nat
  OBVIOUS
<1>1. CASE CreateExpenseClaim
  <2>1. /\ claims' = Append(claims, "SUBMITTED")
        /\ approvals' = Append(approvals, 0)
        /\ booked' = Append(booked, 0)
    BY <1>1 DEF CreateExpenseClaim
  <2>2. ClaimsTyped'
    BY <2>1 DEF ClaimStatus
  <2>3. DOMAIN claims' = DOMAIN claims \cup {Len(claims) + 1}
    BY <2>1
  <2>4. \A c \in DOMAIN claims : /\ claims'[c] = claims[c] /\ approvals'[c] = approvals[c]
                                /\ booked'[c] = booked[c]
    BY <2>1
  <2>5. /\ claims'[Len(claims) + 1] = "SUBMITTED"
        /\ approvals'[Len(claims) + 1] = 0 /\ booked'[Len(claims) + 1] = 0
    BY <2>1
  <2>6. ClaimsBookedPerApproval'
    BY <2>3, <2>4, <2>5 DEF ClaimsBookedPerApproval
  <2>. QED
    BY <2>2, <2>6
<1>2. ASSUME NEW c \in DOMAIN claims, ApproveExpenseClaim(c)
      PROVE  ClaimsInv'
  BY <1>0, <1>2 DEF ApproveExpenseClaim, ClaimsBookedPerApproval, ClaimStatus
<1>3. CASE ExportExpenseClaims
  <2>1. /\ claims' = [c \in DOMAIN claims |-> IF c \in ToExport THEN "EXPORTED" ELSE claims[c]]
        /\ booked' = [c \in DOMAIN claims |-> booked[c] + (IF c \in ToExport THEN 1 ELSE 0)]
        /\ approvals' = approvals
    BY <1>3 DEF ExportExpenseClaims
  <2>2. /\ claims' \in [1..Len(claims) -> ClaimStatus]
        /\ booked' \in [1..Len(claims) -> Nat]
    BY <1>0, <2>1 DEF ClaimStatus
  <2>3. ClaimsTyped'
    BY <1>0, <2>1, <2>2
  <2>4. \A c \in DOMAIN claims : c \in ToExport <=> claims[c] = "APPROVED"
    BY DEF ToExport
  <2>5. ClaimsBookedPerApproval'
    BY <1>0, <2>1, <2>4 DEF ClaimsBookedPerApproval
  <2>. QED
    BY <2>3, <2>5
<1>4. CASE UNCHANGED <<claims, approvals, booked>>
  BY <1>4 DEF ClaimsBookedPerApproval
<1>5. \/ CreateExpenseClaim
      \/ \E c \in DOMAIN claims : ApproveExpenseClaim(c)
      \/ ExportExpenseClaims
      \/ UNCHANGED <<claims, approvals, booked>>
  BY DEF TreasuryStep, CreateCheque, CreateDepositBatch, ChequeDepositSlipGeneration,
         BouncedChequeWorkflow, Bounce, CreateEmployeeReimbursement, CreateCashboxDailyApproval,
         treasuryVars
<1>. QED
  BY <1>1, <1>2, <1>3, <1>4, <1>5

-----------------------------------------------------------------------------
TreasuryInv == LedgerTypeOK /\ ChequesInv /\ ClaimsInv

LEMMA TreasuryInitially == TreasuryInit => TreasuryInv
<1>. SUFFICES ASSUME TreasuryInit
              PROVE  TreasuryInv
  OBVIOUS
<1>1. LedgerTypeOK
  BY LedgerAssumption DEF TreasuryInit, LedgerInit, LedgerTypeOK, Months, PeriodStatus
<1>2. ChequesInv
  BY DEF TreasuryInit, ChequesInv, ChequesTyped, Match
<1>3. ClaimsInv
  BY DEF TreasuryInit, ClaimsInv, ClaimsTyped, ClaimsBookedPerApproval
<1>. QED
  BY <1>1, <1>2, <1>3 DEF TreasuryInv

\* Every step keeps the invariant and leaves locked months alone.
LEMMA TreasurySteps == TreasuryInv /\ [TreasuryNext]_vars => TreasuryInv' /\ FrozenStep
<1>. SUFFICES ASSUME TreasuryInv, [TreasuryNext]_vars
              PROVE  TreasuryInv' /\ FrozenStep
  OBVIOUS
<1>. USE DEF TreasuryInv
<1>1. ASSUME LedgerChange, month' \in Months, period' \in [Months -> PeriodStatus]
      PROVE  LedgerTypeOK' /\ FrozenStep
  BY <1>1, ChangesKeepLockedMonths DEF LedgerTypeOK
<1>2. CASE LedgerStep /\ UNCHANGED treasuryVars
  <2>1. LedgerTypeOK' /\ FrozenStep
    BY <1>1, <1>2, StepsChangeLedger
  <2>2. ChequesInv' /\ ClaimsInv'
    BY <1>2 DEF treasuryVars, ChequesInv, ClaimsInv, ClaimsTyped, ClaimsBookedPerApproval
  <2>. QED
    BY <2>1, <2>2
<1>3. CASE TreasuryStep
  <2>1. LedgerChange /\ UNCHANGED <<month, period>>
    BY <1>3, TreasuryStepsChangeLedger DEF ClaimsInv, ClaimsTyped
  <2>2. LedgerTypeOK' /\ FrozenStep
    BY <1>1, <2>1 DEF LedgerTypeOK
  <2>3. ChequesInv' /\ ClaimsInv'
    BY <1>3, StepsKeepCheques, StepsKeepClaims
  <2>. QED
    BY <2>2, <2>3
<1>4. CASE UNCHANGED vars
  <2>1. LedgerTypeOK' /\ FrozenStep
    BY <1>1, <1>4 DEF vars, ledgerVars, LedgerChange, LedgerTypeOK
  <2>2. ChequesInv' /\ ClaimsInv'
    BY <1>4 DEF vars, treasuryVars, ChequesInv, ClaimsInv, ClaimsTyped, ClaimsBookedPerApproval
  <2>. QED
    BY <2>1, <2>2
<1>. QED
  BY <1>2, <1>3, <1>4 DEF TreasuryNext

\* The ledger, the cheques, the deposit batches and the expense claims keep
\* their types (the fields of JournalEntry, Cheque, DepositBatch, ExpenseClaim).
THEOREM TreasuryTypeCorrect == TreasurySpec => []TreasuryTypeOK
<1>1. TreasuryInv => TreasuryTypeOK
  BY DEF TreasuryInv, ChequesInv, ChequesTyped, ClaimsInv, ClaimsTyped, TreasuryTypeOK
<1>. QED
  BY <1>1, TreasuryInitially, TreasurySteps, PTL DEF TreasurySpec

\* However often cheques are deposited, rejected and deposited again, each names
\* the last batch that lists it (createDepositBatch, bouncedChequeWorkflow,
\* chequeDepositSlipGeneration).
THEOREM ChequesAlwaysMatch == TreasurySpec => []ChequesMatchBatches
<1>1. TreasuryInv => ChequesMatchBatches
  BY DEF TreasuryInv, ChequesInv, Match, ChequesMatchBatches, Listing, BatchesOf
<1>. QED
  BY <1>1, TreasuryInitially, TreasurySteps, PTL DEF TreasurySpec

\* An expense claim has at most one entry per approval (approveExpenseClaim,
\* exportExpenseClaims).
THEOREM ClaimsBookedOnce == TreasurySpec => []ClaimsBookedPerApproval
<1>1. TreasuryInv => ClaimsBookedPerApproval
  BY DEF TreasuryInv, ClaimsInv
<1>. QED
  BY <1>1, TreasuryInitially, TreasurySteps, PTL DEF TreasurySpec

\* Nothing posted leaves a month that stays locked, and only the requests that
\* never ask assertPeriodOpen add to it.
THEOREM LockedMonthsStayFrozen == TreasurySpec => LockedMonthFrozen
<1>1. TreasuryInv /\ [TreasuryNext]_vars => [FrozenStep]_ledgerVars
  BY TreasurySteps
<1>2. TreasurySpec => [][FrozenStep]_ledgerVars
  BY <1>1, TreasuryInitially, TreasurySteps, PTL DEF TreasurySpec
<1>. QED
  BY <1>2 DEF LockedMonthFrozen, FrozenStep
=============================================================================
