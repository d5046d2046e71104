------------------------------- MODULE Billing -------------------------------
(***************************************************************************)
(* Invoices, payments and credit notes of one tenant, the numbers they are *)
(* given and the customer entries (account 3421) they post.                *)
(*                                                                         *)
(* createInvoice runs under withRollback, so a refusal gives its number    *)
(* back; createCreditNote and recordPayment do not (RefuseCreditNote).     *)
(* The sum of an invoice's posted credit notes is kept in the invoice      *)
(* itself (`credited`), amounts are whole numbers, and every document is   *)
(* dated in one fiscal period, the current one.                            *)
(*                                                                         *)
(* Prices are not negative (createCreditNote takes any unit price).  The   *)
(* other documents only take numbers (IssueOtherDocument): any series may  *)
(* be theirs, also one that invoices have.                                 *)
(*                                                                         *)
(* Left out: refusals before any effect, legal mentions, due dates, the    *)
(* stock a direct invoice consumes (module Sales), quotes, customer        *)
(* entries written by hand.                                                *)
(***************************************************************************)
EXTENDS Integers, Sequences, FiniteSets, Functions

CONSTANTS Customers,
          CreditLimit,      \* customer.creditLimit, 0 for no limit
          Prefixes,         \* what the settings may name as a series
          MaxAmount,        \* bound on the total of an invoice
          MaxInvoices,      \* bounds on the number of documents and entries
          MaxCreditNotes,
          MaxEntries,
          MaxVoids,         \* bound on the entries that are void
          MaxNumber         \* bound on the counter of a series

ASSUME BillingAssumption ==
    /\ CreditLimit \in [Customers -> Nat]
    /\ {MaxAmount, MaxInvoices, MaxCreditNotes, MaxEntries, MaxVoids, MaxNumber}
          \subseteq Nat

VARIABLES invoices,       \* workspace.invoices
          creditNotes,    \* the numbers of workspace.creditNotes
          counters,       \* workspace.sequences, for the year
          elsewhere,      \* history: the numbers given to anything but an invoice
          invoicePrefix,  \* settings.documentSeries.INVOICE (= invoiceSeries)
          creditPrefix,   \* settings.documentSeries.CREDIT_NOTE
          journal,        \* the 3421 lines of workspace.journalEntries
          periodOpen      \* the current fiscal period is neither LOCKED nor CLOSED

series == <<invoicePrefix, creditPrefix>>
billingVars == <<invoices, creditNotes, counters, elsewhere, series, journal, periodOpen>>

Numbers == [prefix : Prefixes, n : Nat \ {0}]
Amounts == 1..MaxAmount
InvoiceStatus == {"DRAFT", "POSTED", "PAID", "VOID"}

\* `validated` is compliance.validated: false on the drafts of service contracts.
Invoices == [number : Numbers, customer : Customers, status : InvoiceStatus,
             validated : BOOLEAN, total : Amounts, paid : Nat, credited : Nat]
\* What an entry adds to the customer's account for an invoice, unless it is
\* void; `reversal` is the "Extourne annulation" of its sale.
Entries == [invoice : Numbers, effect : Int, reversal : BOOLEAN, void : BOOLEAN]

Entry(number, effect, reversal) ==
    [invoice |-> number, effect |-> effect, reversal |-> reversal, void |-> FALSE]

-----------------------------------------------------------------------------
PeriodIsOpenMutant == TRUE
\* assertPeriodOpen, for a document of today
PeriodIsOpen == periodOpen

\* Only the series in use is remembered.
BumpForgetful(cs, prefix) == [p \in Prefixes |-> IF p = prefix THEN cs[p] + 1 ELSE 0]
\* nextNumber: each prefix has its own counter, incremented and then used.
Bump(cs, prefix) == [cs EXCEPT ![prefix] = @ + 1]

Number(cs, prefix) == [prefix |-> prefix, n |-> cs[prefix]]

Take(prefix) == Number(Bump(counters, prefix), prefix)
Taken(prefix) == /\ counters[prefix] < MaxNumber
                 /\ counters' = Bump(counters, prefix)
\* Something else than an invoice takes the number.
TakenElsewhere(prefix) == /\ Taken(prefix)
                          /\ elsewhere' = elsewhere \cup {Take(prefix)}

Open(inv) == inv.total - inv.paid - inv.credited

\* customerOpenBalance: voided invoices do not count, drafts do.
OpenBalance(c) ==
    SumFunction([i \in {i \in DOMAIN invoices : /\ invoices[i].customer = c
                                                /\ invoices[i].status # "VOID"}
                   |-> Open(invoices[i])])

CreditAvailableMutant(c, total) ==
    CreditLimit[c] = 0 \/ OpenBalance(c) <= CreditLimit[c]
\* assertCustomerCreditAvailable
CreditAvailable(c, total) ==
    CreditLimit[c] = 0 \/ OpenBalance(c) + total <= CreditLimit[c]

\* Debit and credit are exchanged.
PostMutant(number, effect) ==
    /\ Len(journal) < MaxEntries
    /\ journal' = Append(journal, Entry(number, -effect, FALSE))

\* postJournal: the customer line of the entry.
Post(number, effect) ==
    /\ Len(journal) < MaxEntries
    /\ journal' = Append(journal, Entry(number, effect, FALSE))

\* The test of recordPayment and createCreditNote after they have changed the
\* amounts: payments and credit notes together cover the total.
Settled(inv) == inv.paid + inv.credited >= inv.total

WithStatus(inv) == [inv EXCEPT !.status = IF Settled(inv) THEN "PAID" ELSE inv.status]

-----------------------------------------------------------------------------
CreateInvoice(c, total) ==
    /\ Len(invoices) < MaxInvoices
    /\ PeriodIsOpen
    /\ CreditAvailable(c, total)
    /\ Taken(invoicePrefix)
    /\ invoices' = Append(invoices,
         [number |-> Take(invoicePrefix), customer |-> c, status |-> "POSTED",
          validated |-> TRUE, total |-> total, paid |-> 0, credited |-> 0])
    /\ Post(Take(invoicePrefix), total)
    /\ UNCHANGED <<creditNotes, elsewhere, series, periodOpen>>

\* The invoice of a service contract: no period check, no credit check and no
\* entry, but a number of the same series.  Nothing remembers that the month
\* has been invoiced already.
GenerateServiceContractDraftInvoices(c, amount) ==
    /\ Len(invoices) < MaxInvoices
    /\ Taken(invoicePrefix)
    /\ invoices' = Append(invoices,
         [number |-> Take(invoicePrefix), customer |-> c, status |-> "DRAFT",
          validated |-> FALSE, total |-> amount, paid |-> 0, credited |-> 0])
    /\ UNCHANGED <<creditNotes, elsewhere, series, journal, periodOpen>>

\* Earlier payments are forgotten.
PayableMutant(inv, amount) == amount <= inv.total - inv.credited
\* recordPayment looks at the amounts only, not at the status.
Payable(inv, amount) == amount <= Open(inv)

RecordPayment(i, amount) ==
    /\ PeriodIsOpen
    /\ Payable(invoices[i], amount)
    /\ invoices' = [invoices EXCEPT ![i] =
                      WithStatus([invoices[i] EXCEPT !.paid = @ + amount])]
    /\ Post(invoices[i].number, -amount)
    /\ UNCHANGED <<creditNotes, counters, elsewhere, series, periodOpen>>

\* createCreditNote leaves out what has been paid: a paid invoice can be
\* credited in full.
Creditable(inv, amount) == inv.status # "VOID" /\ amount <= inv.total - inv.credited

CreateCreditNote(i, amount) ==
    /\ Len(creditNotes) < MaxCreditNotes
    /\ PeriodIsOpen
    /\ Creditable(invoices[i], amount)
    /\ TakenElsewhere(creditPrefix)
    /\ creditNotes' = Append(creditNotes, Take(creditPrefix))
    /\ invoices' = [invoices EXCEPT ![i] =
                      WithStatus([invoices[i] EXCEPT !.credited = @ + amount])]
    /\ Post(invoices[i].number, -amount)
    /\ UNCHANGED <<series, periodOpen>>

\* A credit note is refused after its number was taken: before it is recorded
\* when its reason is blank, after it when its total is zero and nothing is left
\* to post.
RefuseCreditNote(i) ==
    /\ PeriodIsOpen
    /\ Creditable(invoices[i], 1)
    /\ TakenElsewhere(creditPrefix)
    /\ \/ UNCHANGED creditNotes
       \/ /\ Len(creditNotes) < MaxCreditNotes
          /\ creditNotes' = Append(creditNotes, Take(creditPrefix))
    /\ UNCHANGED <<invoices, series, journal, periodOpen>>

\* Any other document, or a code of its own (FF, DEP, POS...): the prefix of a
\* quote, an order or a note may be set to any series, and that of invoices to
\* any of theirs or to any code.
IssueOtherDocument(prefix) ==
    /\ TakenElsewhere(prefix)
    /\ UNCHANGED <<invoices, creditNotes, series, journal, periodOpen>>

\* Somebody voids an entry; the document it was posted for stays as it is.
VoidJournalEntry(e) ==
    /\ PeriodIsOpen
    /\ Cardinality({x \in DOMAIN journal : journal[x].void}) < MaxVoids
    /\ journal' = [journal EXCEPT ![e].void = TRUE]
    /\ UNCHANGED <<invoices, creditNotes, counters, elsewhere, series, periodOpen>>

\* The scale controls of the tenant issue an invoice, take a payment and a
\* credit note on it, then cancel it with a reversal entry of its total.  What
\* runs in between (a payroll run of a fixed month, for one) may throw: the
\* invoice then stays, partly paid and credited.
MoroccoScaleControlsReadiness(c, total, completed) ==
    LET next == Bump(counters, invoicePrefix)
        last == Bump(next, creditPrefix)
        number == Number(next, invoicePrefix)
        settled == WithStatus([number |-> number, customer |-> c, status |-> "POSTED",
                               validated |-> TRUE, total |-> total,
                               paid |-> 1, credited |-> 1])
    IN
    /\ Len(invoices) < MaxInvoices
    /\ Len(creditNotes) < MaxCreditNotes
    /\ Len(journal) + 3 < MaxEntries
    /\ \A p \in Prefixes : last[p] <= MaxNumber
    /\ total >= 2
    /\ PeriodIsOpen
    /\ CreditAvailable(c, total)
    /\ counters' = last
    /\ creditNotes' = Append(creditNotes, Number(last, creditPrefix))
    /\ elsewhere' = elsewhere \cup {Number(last, creditPrefix)}
    /\ invoices' = Append(invoices, IF completed THEN [settled EXCEPT !.status = "VOID"]
                                                 ELSE settled)
    /\ journal' = journal \o <<Entry(number, total, FALSE), Entry(number, -1, FALSE),
                              Entry(number, -1, FALSE)>>
                          \o (IF completed THEN <<Entry(number, -total, TRUE)>> ELSE <<>>)
    /\ UNCHANGED <<series, periodOpen>>

-----------------------------------------------------------------------------
\* Any document type may be given any prefix; the series of the other types are
\* not kept here (IssueOtherDocument).
UpdateDocumentNumberingSetting ==
    /\ \/ invoicePrefix' \in Prefixes /\ UNCHANGED creditPrefix
       \/ creditPrefix' \in Prefixes /\ UNCHANGED invoicePrefix
    /\ UNCHANGED <<invoices, creditNotes, counters, elsewhere, journal, periodOpen>>

\* A period is locked, closed, or set back to OPEN by whoever may edit it;
\* SOFT_LOCKED does not stop a posting.
UpsertFiscalPeriod ==
    /\ periodOpen' = ~periodOpen
    /\ UNCHANGED <<invoices, creditNotes, counters, elsewhere, series, journal>>

\* The sales documents are wiped; counters and journal stay.
ResetSampleModule ==
    /\ invoices' = <<>>
    /\ creditNotes' = <<>>
    /\ UNCHANGED <<counters, elsewhere, series, journal, periodOpen>>

-----------------------------------------------------------------------------
BillingInit ==
    /\ invoices = <<>>
    /\ creditNotes = <<>>
    /\ counters = [p \in Prefixes |-> 0]
    /\ elsewhere = {}
    /\ invoicePrefix \in Prefixes
    /\ creditPrefix \in Prefixes
    /\ journal = <<>>
    /\ periodOpen = TRUE

BillingNext ==
    \/ \E c \in Customers, total \in Amounts : CreateInvoice(c, total)
    \/ \E c \in Customers, total \in Amounts : GenerateServiceContractDraftInvoices(c, total)
    \/ \E i \in DOMAIN invoices, amount \in Amounts : RecordPayment(i, amount)
    \/ \E i \in DOMAIN invoices, amount \in Amounts : CreateCreditNote(i, amount)
    \/ \E i \in DOMAIN invoices : RefuseCreditNote(i)
    \/ \E prefix \in Prefixes : IssueOtherDocument(prefix)
    \/ \E e \in DOMAIN journal : VoidJournalEntry(e)
    \/ \E c \in Customers, total \in Amounts, completed \in BOOLEAN :
          MoroccoScaleControlsReadiness(c, total, completed)
    \/ UpdateDocumentNumberingSetting
    \/ UpsertFiscalPeriod
    \/ ResetSampleModule

BillingSpec == BillingInit /\ [][BillingNext]_billingVars

-----------------------------------------------------------------------------
BillingTypeOK ==
    /\ invoices \in Seq(Invoices)
    /\ creditNotes \in Seq(Numbers)
    /\ counters \in [Prefixes -> Nat]
    /\ elsewhere \subseteq Numbers
    /\ invoicePrefix \in Prefixes
    /\ creditPrefix \in Prefixes
    /\ journal \in Seq(Entries)
    /\ periodOpen \in BOOLEAN

NumbersUnique ==
    /\ \A i, j \in DOMAIN invoices : invoices[i].number = invoices[j].number => i = j
    /\ \A i, j \in DOMAIN creditNotes : creditNotes[i] = creditNotes[j] => i = j
    /\ \A j \in DOMAIN creditNotes : creditNotes[j] \in elsewhere
    /\ \A i \in DOMAIN invoices : invoices[i].number \notin elsewhere

NoNumberLost ==
    \A i \in DOMAIN invoices :
       LET p == invoices[i].number.prefix IN
       \A k \in invoices[i].number.n..counters[p] :
          LET number == [prefix |-> p, n |-> k] IN
          \/ number \in elsewhere
          \/ \E j \in DOMAIN invoices : invoices[j].number = number

\* No two invoices or credit notes ever bear the same number, nor an invoice and
\* any other document, although the series of each kind can be changed, changed
\* back, or made the same as another's; and from any invoice on, every number of
\* its series is that of an invoice, or was taken by another kind of document
\* that was given the same series or by a credit note: a refused invoice gives
\* its number back, and no other gap appears.
NumberingSound == NumbersUnique /\ NoNumberLost

\* Payments alone and credit notes alone never exceed the invoice, and it is
\* PAID exactly when the two cover it, whichever came last; a cancelled one may
\* be covered as well.
PaymentsSettle ==
    \A i \in DOMAIN invoices :
       /\ invoices[i].paid <= invoices[i].total
       /\ invoices[i].credited <= invoices[i].total
       /\ invoices[i].status # "VOID" => (invoices[i].status = "PAID" <=> Settled(invoices[i]))

EntriesOf(i) == {e \in DOMAIN journal : journal[e].invoice = invoices[i].number}
VoidedOf(i) == {e \in EntriesOf(i) : journal[e].void}
EffectOf(es) == SumFunction([e \in es |-> journal[e].effect])

\* The customer entries of an invoice that are not void add up to what the invoice
\* itself says is open, a cancelled sale counting for nothing, but for the entries
\* somebody has voided, which are the whole difference: two records of the same
\* debt, in two lists, written by different statements.  A draft has no sale entry.
LedgerAgrees ==
    \A i \in DOMAIN invoices :
       LET inv == invoices[i]
           sold == inv.validated /\ \A e \in EntriesOf(i) : ~journal[e].reversal IN
       EffectOf(EntriesOf(i) \ VoidedOf(i))
         = (IF sold THEN inv.total ELSE 0) - inv.paid - inv.credited - EffectOf(VoidedOf(i))

\* While the period is locked or closed nothing is posted, and invoices change
\* by new drafts or by being wiped only.
LockedPeriodFreezesLedger ==
    [][~periodOpen =>
         /\ UNCHANGED journal
         /\ invoices' # <<>> => SubSeq(invoices', 1, Len(invoices)) = invoices]_billingVars

\* What a customer owes rises above the credit limit by the drafts of service
\* contracts only: payments, credit notes, cancellations and new invoices, in
\* whatever order, never bring it there.
LimitHolds ==
    [][\A c \in Customers :
         /\ CreditLimit[c] > 0
         /\ OpenBalance(c)' > CreditLimit[c]
         /\ OpenBalance(c)' > OpenBalance(c)
         => \E t \in Amounts : GenerateServiceContractDraftInvoices(c, t)]_billingVars
=============================================================================
