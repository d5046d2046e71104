-------------------------------- MODULE Quotes --------------------------------
(***************************************************************************)
(* Quotes in front of the sales of module Sales: drafted, revised,         *)
(* approved in the office or accepted by the customer, and converted into  *)
(* an order or straight into an invoice.                                   *)
(*                                                                         *)
(* The handlers do not look at the same statuses: an order needs an        *)
(* APPROVED quote, an invoice takes a draft or a converted one, and an     *)
(* acceptance approves whatever it finds.  No handler makes a quote VOID.  *)
(*                                                                         *)
(* agreed and reopened are history: what was last approved, and how often  *)
(* a converted quote was accepted again.                                   *)
(***************************************************************************)
EXTENDS Sales

CONSTANTS MaxQuotes,    \* bound on the number of quotes
          MaxRevision,  \* bound on quote.revision
          MaxMade,      \* bound on the documents made from quotes
          MaxReopened   \* bound on the acceptances of converted quotes

ASSUME QuotesAssumption ==
    {MaxQuotes, MaxRevision, MaxMade, MaxReopened} \subseteq Nat

VARIABLES quotes,   \* workspace.quotes
          made,     \* the orders and invoices with a sourceQuoteId, in order
          agreed,   \* per quote, the lines of its last approval
          reopened  \* per quote, its acceptances after a conversion

quoteVars == <<quotes, made, agreed, reopened>>
allQuoteVars == <<stockVars, salesVars, quoteVars>>

QuoteStatus == {"DRAFT", "APPROVED", "CONVERTED"}
QuoteRecords == [status : QuoteStatus, revision : Nat \ {0}, lines : Demands]
Made == [kind : {"order", "invoice"}, quote : Nat \ {0}, lines : Demands]

WithStatus(q, s) == quotes' = [quotes EXCEPT ![q].status = s]

-----------------------------------------------------------------------------
CreateQuote(d) ==
    /\ Len(quotes) < MaxQuotes
    /\ quotes' = Append(quotes, [status |-> "DRAFT", revision |-> 1, lines |-> d])
    /\ agreed' = Append(agreed, d)
    /\ reopened' = Append(reopened, 0)
    /\ UNCHANGED <<stockVars, salesVars, made>>

\* The status is left as it is.
RevisedMutant(quote, d) == [quote EXCEPT !.lines = d, !.revision = @ + 1]
\* Whatever was approved has to be approved again, the lines changed or not.
Revised(quote, d) ==
    [status |-> "DRAFT", revision |-> quote.revision + 1, lines |-> d]

ReviseQuote(q, d) ==
    /\ quotes[q].status # "CONVERTED"
    /\ quotes[q].revision < MaxRevision
    /\ quotes' = [quotes EXCEPT ![q] = Revised(@, d)]
    /\ UNCHANGED <<stockVars, salesVars, made, agreed, reopened>>

ApprovableMutant(status) == TRUE
\* "Le devis ne peut pas être approuvé"
Approvable(status) == status # "CONVERTED"

ApproveQuote(q) ==
    /\ Approvable(quotes[q].status)
    /\ WithStatus(q, "APPROVED")
    /\ agreed' = [agreed EXCEPT ![q] = quotes[q].lines]
    /\ UNCHANGED <<stockVars, salesVars, made, reopened>>

\* The customer's acceptance asks neither the status nor the write gate.
AcceptQuote(q) ==
    LET again == IF quotes[q].status = "CONVERTED" THEN 1 ELSE 0 IN
    /\ reopened[q] + again <= MaxReopened
    /\ WithStatus(q, "APPROVED")
    /\ agreed' = [agreed EXCEPT ![q] = quotes[q].lines]
    /\ reopened' = [reopened EXCEPT ![q] = @ + again]
    /\ UNCHANGED <<stockVars, salesVars, made>>

MakeFrom(q, kind) ==
    /\ Len(made) < MaxMade
    /\ made' = Append(made, [kind |-> kind, quote |-> q, lines |-> quotes[q].lines])
    /\ WithStatus(q, "CONVERTED")
    /\ UNCHANGED <<agreed, reopened>>

\* When the stock is short the order is refused as RejectSalesOrder of Sales
\* says and the quote stays APPROVED.
ConvertQuoteToOrder(q) ==
    /\ quotes[q].status = "APPROVED"
    /\ CreateSalesOrder(quotes[q].lines)
    /\ MakeFrom(q, "order")

\* Any quote: not approved yet, or converted before.
ConvertQuoteToInvoice(q) ==
    /\ CreateInvoice(quotes[q].lines)
    /\ MakeFrom(q, "invoice")

\* The quotes go with the orders and invoices.
ResetQuotes ==
    /\ ResetSampleModule
    /\ quotes' = <<>>
    /\ made' = <<>>
    /\ agreed' = <<>>
    /\ reopened' = <<>>

-----------------------------------------------------------------------------
QuotesInit ==
    /\ SalesInit
    /\ quotes = <<>>
    /\ made = <<>>
    /\ agreed = <<>>
    /\ reopened = <<>>

QuoteStep ==
    \/ \E d \in Demands : CreateQuote(d)
    \/ \E q \in DOMAIN quotes, d \in Demands : ReviseQuote(q, d)
    \/ \E q \in DOMAIN quotes : ApproveQuote(q)
    \/ \E q \in DOMAIN quotes : AcceptQuote(q)
    \/ \E q \in DOMAIN quotes : ConvertQuoteToOrder(q)
    \/ \E q \in DOMAIN quotes : ConvertQuoteToInvoice(q)
    \/ ResetQuotes

\* The steps of a sale that has begun or that has no quote.
SaleStep ==
    \/ \E d \in Demands : CreateSalesOrder(d)
    \/ \E d \in Demands, done \in Quantities : RejectSalesOrder(d, done)
    \/ \E o \in DOMAIN orders : CreateDeliveryNoteFromOrder(o)
    \/ \E o \in DOMAIN orders, done \in Quantities : RejectDeliveryNote(o, done)
    \/ \E n \in DOMAIN notes : CancelDeliveryNote(n)
    \/ \E o \in DOMAIN orders : ConvertOrderToInvoice(o)
    \/ \E d \in Demands : CreateInvoice(d)
    \/ \E k \in DOMAIN orders : ReleaseExpiredStockReservations(k)

QuotesNext ==
    \/ QuoteStep
    \/ SaleStep /\ UNCHANGED quoteVars
    \/ SetPeriod /\ UNCHANGED <<salesVars, quoteVars>>

QuotesSpec == QuotesInit /\ [][QuotesNext]_allQuoteVars

-----------------------------------------------------------------------------
\* Beside SalesTypeOK.
QuotesTypeOK ==
    /\ quotes \in Seq(QuoteRecords)
    /\ made \in Seq(Made)
    /\ agreed \in Seq(Demands) /\ Len(agreed) = Len(quotes)
    /\ reopened \in Seq(Nat) /\ Len(reopened) = Len(quotes)
    /\ \A m \in DOMAIN made : made[m].quote \in DOMAIN quotes

MadeFrom(q) == {m \in DOMAIN made : made[m].quote = q}
LastMadeFrom(q) == {m \in MadeFrom(q) : \A k \in MadeFrom(q) : k <= m}
OrdersOf(q) == {m \in MadeFrom(q) : made[m].kind = "order"}

\* An approved quote still has the lines that were approved, so no order is
\* made of anything else, and a converted quote has the lines of the last
\* document made from it, through any mix of revisions, approvals, acceptances
\* and conversions (reviseQuote, convertQuoteToOrder, acceptQuote).
SoldAsAgreed ==
    \A q \in DOMAIN quotes :
       /\ quotes[q].status = "APPROVED" => quotes[q].lines = agreed[q]
       /\ quotes[q].status = "CONVERTED" =>
            \E m \in LastMadeFrom(q) : quotes[q].lines = made[m].lines

\* A quote is ordered once, and once more for each time the customer accepted
\* it after it had been converted: neither an approval nor a revision, nor an
\* invoice made of the same quote, opens it for another order.
OrdersPerQuote ==
    \A q \in DOMAIN quotes :
       Cardinality(OrdersOf(q)) + (IF quotes[q].status = "CONVERTED" THEN 0 ELSE 1)
         <= 1 + reopened[q]
=============================================================================
