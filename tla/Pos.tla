--------------------------------- MODULE Pos ---------------------------------
(***************************************************************************)
(* The tills of one shop: sessions, tickets, refunds, drawer movements and *)
(* the queue of sales made offline, on the stock of module Stock.          *)
(*                                                                         *)
(* A ticket is recorded before its stock is consumed and its payment       *)
(* posted, and nothing is rolled back (RejectPosTransaction).  Prices and  *)
(* VAT rates are the client's or those of the day, also for a sale that    *)
(* waited in the queue: what a ticket amounts to is any of Amounts.  Of a  *)
(* ticket's journal entry only its existence is kept: one that is voided   *)
(* later by hand (module Ledger) still counts as the payment.  The opening *)
(* cash of a session and its drawer movements are kept as one sum          *)
(* (`cash`).                                                               *)
(*                                                                         *)
(* Left out: numbers, reports and audits that open sessions of their own,  *)
(* transfers to the treasury and daily approvals, which change none of     *)
(* these lists.                                                            *)
(***************************************************************************)
EXTENDS Stock, Sequences, Functions

CONSTANTS Cashiers,
          Methods,       \* of payment; only "CASH" goes into the drawer
          Totals,        \* what a ticket may come to; no price is refused
          MaxSessions,   \* bounds on the lengths of the lists
          MaxTickets,
          MaxQueue,
          MaxCash        \* bound on the cash put into a drawer less what was taken out

ASSUME PosAssumption == /\ Totals \subseteq Int
                        /\ {MaxSessions, MaxTickets, MaxQueue, MaxCash} \subseteq Nat

VARIABLES sessions,   \* workspace.posSessions
          tickets,    \* workspace.posTransactions
          paid,       \* the tickets with an entry in workspace.journalEntries, in order
          queue,      \* workspace.posOfflineQueue
          syncing     \* the loop of syncOfflinePosQueue is running

tillVars == <<sessions, tickets, paid>>
posVars == <<tillVars, queue, syncing>>

\* A sale names its session or, with session 0, its cashier only.
Sales == [session : 0..MaxSessions, cashier : Cashiers, lines : Demands, method : Methods]

\* A ticket `posts` when its subtotal, VAT and total make a balanced entry once
\* the lines that are not positive are left out.  With a total of zero or less
\* they never do; with a positive one, unless the subtotal or the VAT is negative.
Amounts == {a \in [total : Totals, posts : BOOLEAN] : a.posts => a.total > 0}

-----------------------------------------------------------------------------
Opened(cashier, cash) ==
    [cashier |-> cashier, open |-> TRUE, cash |-> cash, expected |-> cash]

OpenSessionsMutant(cashier) == {}
\* What openPosSession returns instead of a new session
OpenSessions(cashier) ==
    {s \in DOMAIN sessions : sessions[s].cashier = cashier /\ sessions[s].open}

OpenPosSession(cashier, cash) ==
    /\ ~syncing
    /\ OpenSessions(cashier) = {}
    /\ Len(sessions) < MaxSessions
    /\ sessions' = Append(sessions, Opened(cashier, cash))
    /\ UNCHANGED <<tickets, paid, queue, syncing, stockVars>>

\* The cash a session should hold, over the tickets as they are listed now.
CashSales(s) ==
    SumFunction([t \in {t \in DOMAIN tickets : /\ tickets[t].session = s
                                               /\ tickets[t].method = "CASH"}
                   |-> tickets[t].total])
InTheDrawer(s) == sessions[s].cash + CashSales(s)

\* The expected cash is stored before the counted cash is validated: a count
\* that is refused leaves it behind.
ClosePosSession(s, counted) ==
    /\ ~syncing
    /\ sessions[s].open
    /\ sessions' = [sessions EXCEPT ![s].expected = InTheDrawer(s), ![s].open = ~counted]
    /\ UNCHANGED <<tickets, paid, queue, syncing, stockVars>>

AddCashDrawerMovement(s, amount) ==
    /\ ~syncing
    /\ sessions[s].open
    /\ sessions[s].cash + amount \in 0..MaxCash
    /\ sessions' = [sessions EXCEPT ![s].cash = @ + amount]
    /\ UNCHANGED <<tickets, paid, queue, syncing, stockVars>>

-----------------------------------------------------------------------------
SellableMutant(s) == TRUE
\* createPosTransaction takes any session it is given, if it is open.
Sellable(s) == sessions[s].open

Usable(sale) == sale.session = 0 \/ (sale.session \in DOMAIN sessions /\ Sellable(sale.session))

\* The session of a sale, and the sessions then: a cashier without an open
\* session gets one.
SessionsFor(sale) ==
    IF sale.session = 0 /\ OpenSessions(sale.cashier) = {}
    THEN Append(sessions, Opened(sale.cashier, 0)) ELSE sessions
SessionOf(sale) ==
    IF sale.session # 0 THEN sale.session
    ELSE IF OpenSessions(sale.cashier) = {} THEN Len(sessions) + 1
    ELSE Min(OpenSessions(sale.cashier))

Ticket(sale, a) == [session |-> SessionOf(sale), lines |-> sale.lines, total |-> a.total,
                    posts |-> a.posts, method |-> sale.method, refunds |-> 0]

\* The ticket is recorded, in a session that is open.
RecordTicket(sale, a) ==
    /\ periodOpen
    /\ Usable(sale)
    /\ Len(tickets) < MaxTickets
    /\ Len(SessionsFor(sale)) <= MaxSessions
    /\ sessions' = SessionsFor(sale)
    /\ tickets' = Append(tickets, Ticket(sale, a))

ConsumeMutant(done) == UNCHANGED stockVars
\* consumeStockForSales, to its end or to the line that throws
Consume(done) ==
    /\ Move(Main, Negated(done))
    /\ UNCHANGED <<reserved, tracked, held, periodOpen>>

\* All of createPosTransaction
Sell(sale, a) ==
    /\ RecordTicket(sale, a)
    /\ a.posts
    /\ Fits(Stocked(sale.lines), Available)
    /\ Consume(Stocked(sale.lines))
    /\ paid' = Append(paid, Len(tickets'))

\* The stock is short on some line, or the entry is refused after all lines: the
\* ticket stays, and what has been consumed by then, without a payment.
SellInPart(sale, a, done) ==
    /\ RecordTicket(sale, a)
    /\ \/ Interrupted(done, Stocked(sale.lines), Available)
       \/ /\ ~a.posts
          /\ Fits(Stocked(sale.lines), Available)
          /\ done = Stocked(sale.lines)
    /\ Consume(done)
    /\ UNCHANGED paid

CreatePosTransaction(sale, a) == ~syncing /\ Sell(sale, a) /\ UNCHANGED <<queue, syncing>>
RejectPosTransaction(sale, a, done) ==
    ~syncing /\ SellInPart(sale, a, done) /\ UNCHANGED <<queue, syncing>>

\* The only test of refundPosTransaction: neither the session, which may be
\* closed, nor earlier refunds, nor whether the sale went through.
Refundable(t) == tickets[t].refunds = 0

Refund(t) == [tickets[t] EXCEPT !.lines = Negated(@), !.total = -@, !.refunds = t]

\* The refund is recorded and the units are back before its entry is posted, or
\* refused: it mirrors the one of the ticket.
RefundPosTransaction(t) ==
    /\ ~syncing
    /\ periodOpen
    /\ Len(tickets) < MaxTickets
    /\ Refundable(t)
    /\ tickets' = Append(tickets, Refund(t))
    /\ Move(Main, Stocked(tickets[t].lines))
    /\ paid' = IF tickets[t].posts THEN Append(paid, Len(tickets')) ELSE paid
    /\ UNCHANGED <<sessions, queue, syncing, reserved, tracked, held, periodOpen>>

-----------------------------------------------------------------------------
QueueOfflinePosSale(sale) ==
    /\ ~syncing
    /\ Len(queue) < MaxQueue
    /\ queue' = Append(queue, [sale |-> sale, status |-> "PENDING"])
    /\ UNCHANGED <<tillVars, syncing, stockVars>>

Pending == {i \in DOMAIN queue : queue[i].status = "PENDING"}

\* The loop over the pending sales starts, where the bounds leave room for all;
\* no other request runs until it has ended.
SyncOfflinePosQueue ==
    /\ ~syncing
    /\ Pending # {}
    /\ Len(tickets) + Cardinality(Pending) <= MaxTickets
    /\ Len(sessions) + Cardinality({c \in Cashiers : OpenSessions(c) = {}}) <= MaxSessions
    /\ syncing' = TRUE
    /\ UNCHANGED <<tillVars, queue, stockVars>>

\* The first pending sale is replayed.  A conflict keeps what the sale did before
\* it threw: a ticket without payment, a session opened for lines that are not
\* valid any more, or nothing.
SyncItem ==
    LET i == Min(Pending)
        sale == queue[i].sale
        Mark(status) == queue' = [queue EXCEPT ![i].status = status]
    IN
    /\ syncing
    /\ \/ \E a \in Amounts : Sell(sale, a) /\ Mark("SYNCED")
       \/ \E a \in Amounts, done \in Quantities : SellInPart(sale, a, done) /\ Mark("CONFLICT")
       \/ /\ periodOpen /\ Usable(sale)
          /\ sessions' = SessionsFor(sale)
          /\ Mark("CONFLICT")
          /\ UNCHANGED <<tickets, paid, stockVars>>
       \/ /\ ~(periodOpen /\ Usable(sale))
          /\ Mark("CONFLICT")
          /\ UNCHANGED <<tillVars, stockVars>>
    /\ syncing' = (Cardinality(Pending) > 1)

-----------------------------------------------------------------------------
PosInit ==
    /\ StockInit
    /\ sessions = <<>>
    /\ tickets = <<>>
    /\ paid = <<>>
    /\ queue = <<>>
    /\ syncing = FALSE

PosNext ==
    \/ \E c \in Cashiers, cash \in 0..MaxCash : OpenPosSession(c, cash)
    \/ \E s \in DOMAIN sessions :
          \/ \E counted \in BOOLEAN : ClosePosSession(s, counted)
          \/ \E amount \in -MaxCash..MaxCash : AddCashDrawerMovement(s, amount)
    \/ \E sale \in Sales :
          \/ QueueOfflinePosSale(sale)
          \/ \E a \in Amounts :
                \/ CreatePosTransaction(sale, a)
                \/ \E done \in Quantities : RejectPosTransaction(sale, a, done)
    \/ \E t \in DOMAIN tickets : RefundPosTransaction(t)
    \/ SyncOfflinePosQueue
    \/ SyncItem
    \/ ~syncing /\ SetPeriod /\ UNCHANGED posVars

allPosVars == <<stockVars, posVars>>
PosSpec == PosInit /\ [][PosNext]_allPosVars

-----------------------------------------------------------------------------

\* A cashier has one open session at most, although sessions are opened by the
\* cashier, by a ticket without a session and by the replay of the queue.
OneOpenSession ==
    \A s, t \in DOMAIN sessions :
       sessions[s].open /\ sessions[t].open /\ sessions[s].cashier = sessions[t].cashier
          => s = t

\* What refunds put into the drawer: those of tickets with a negative total.
RefundGains(s) ==
    SumFunction([t \in {t \in DOMAIN tickets : /\ tickets[t].session = s
                                               /\ tickets[t].method = "CASH"
                                               /\ tickets[t].refunds # 0
                                               /\ tickets[t].total > 0}
                   |-> tickets[t].total])

\* After it is closed a session gets no sale, no movement and no replayed sale,
\* only refunds, which lower what it should have held unless the ticket itself
\* had a negative total.
ClosedTillOnlyLoses ==
    \A s \in DOMAIN sessions :
       ~sessions[s].open => InTheDrawer(s) <= sessions[s].expected + RefundGains(s)

\* The units of p on the tickets that were paid, less those that were paid back.
PaidUnits(p) ==
    SumFunction([k \in DOMAIN paid |-> tickets[paid[k]].lines[p]])

\* The stock of p that the last ticket moves without a payment: part of what it
\* sells, or all that is given back for a ticket that could not be posted.
MovedUnpaid(p) ==
    LET last == tickets'[Len(tickets')] IN
    /\ Len(tickets') = Len(tickets) + 1
    /\ paid' = paid
    /\ \/ last.refunds = 0 /\ onHand[p] - onHand'[p] \in 1..last.lines[p]
       \/ last.refunds # 0 /\ ~last.posts /\ onHand[p] - onHand'[p] = last.lines[p]

\* Stock and money move together, sale by sale and refund by refund, whichever of
\* the three ways a ticket comes in: stock moves without money only with a ticket
\* that stays without payment, and never by more than that ticket says.
StockFollowsPayments ==
    [][\A p \in Products :
         \/ onHand'[p] + PaidUnits(p)' = onHand[p] + PaidUnits(p)
         \/ MovedUnpaid(p)]_allPosVars
=============================================================================
