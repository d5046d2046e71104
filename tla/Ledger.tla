-------------------------------- MODULE Ledger --------------------------------
(***************************************************************************)
(* The general ledger of a tenant and its fiscal periods: manual entries   *)
(* that are drafted, moved, posted and voided, the entries of documents,   *)
(* and the months that are locked, closed and opened again while time goes *)
(* from one month to the next.                                             *)
(*                                                                         *)
(* assertPeriodOpen guards most posts, not all: the entries of the others  *)
(* have the origin "other".  Every entry is balanced, for                  *)
(* validateJournalLines refuses it otherwise, so amounts are left out.     *)
(*                                                                         *)
(* fiscalDocumentCompletenessCheck looks at much more than drafts (legal   *)
(* identity, duplicates, approvals, VAT): Lock and Close here may happen   *)
(* whenever no draft forbids them, or not at all.                          *)
(***************************************************************************)
EXTENDS Naturals, Sequences, SequencesExt, FiniteSetsExt

CONSTANTS LastMonth,   \* time stops there
          MaxEntries   \* bound on the entries of the ledger

ASSUME LedgerAssumption == LastMonth \in Nat \ {0} /\ MaxEntries \in Nat

VARIABLES month,   \* the month of today()
          period,  \* workspace.fiscalPeriods: the status of each month
          entries  \* workspace.journalEntries

ledgerVars == <<month, period, entries>>

Months == 1..LastMonth
PeriodStatus == {"OPEN", "SOFT_LOCKED", "LOCKED", "CLOSED"}
EntryStatus == {"DRAFT", "POSTED", "VOID"}
\* manual: createJournalEntry; document: the requests that ask for an open
\* period first; other: those that do not.
Origins == {"manual", "document", "other"}
Entries == [month : Months, status : EntryStatus, origin : Origins]

\* assertPeriodOpen; a soft lock refuses nothing.
Open(m) == period[m] \notin {"LOCKED", "CLOSED"}

Entry(m, s, origin) == [month |-> m, status |-> s, origin |-> origin]

\* The requests that post n entries dated today at once.
PostToday(n, origin) ==
    /\ Len(entries) + n <= MaxEntries
    /\ entries' = entries \o [i \in 1..n |-> Entry(month, "POSTED", origin)]

-----------------------------------------------------------------------------
\* A draft may be dated in any month, locked or not.
CreateJournalEntry(m, post) ==
    /\ Len(entries) < MaxEntries
    /\ post => Open(m)
    /\ entries' = Append(entries, Entry(m, IF post THEN "POSTED" ELSE "DRAFT", "manual"))
    /\ UNCHANGED <<month, period>>

\* The date of a draft moves to any month, locked or not.
UpdateJournalEntry(e, m) ==
    /\ entries[e].status = "DRAFT"
    /\ entries' = [entries EXCEPT ![e].month = m]
    /\ UNCHANGED <<month, period>>

\* The month of the day is asked, not the one of the entry.
PostManualJournalMutant(e) ==
    /\ entries[e].status = "DRAFT"
    /\ Open(month)
    /\ entries' = [entries EXCEPT ![e].status = "POSTED"]
    /\ UNCHANGED <<month, period>>
PostManualJournal(e) ==
    /\ entries[e].status = "DRAFT"
    /\ Open(entries[e].month)
    /\ entries' = [entries EXCEPT ![e].status = "POSTED"]
    /\ UNCHANGED <<month, period>>

\* Any entry, the ones of documents included: the document stays as it is.
VoidJournalEntry(e) ==
    /\ entries[e].status # "VOID"
    /\ Open(entries[e].month)
    /\ entries' = [entries EXCEPT ![e].status = "VOID"]
    /\ UNCHANGED <<month, period>>

\* Invoices, credit notes, payments, tickets, refunds, receipts, supplier
\* invoices, adjustments and counts.
PostDocument ==
    /\ Open(month)
    /\ PostToday(1, "document")
    /\ UNCHANGED <<month, period>>

\* cancelDocument pushes the reversal of an invoice straight into the ledger.
CancelInvoice ==
    /\ PostToday(1, "other")
    /\ UNCHANGED <<month, period>>

\* The period of the run is asked for, and the entry is dated today.
PostPayrollRun(m) ==
    /\ Open(m)
    /\ PostToday(1, "other")
    /\ UNCHANGED <<month, period>>

-----------------------------------------------------------------------------
\* Any status from any other; requestFiscalLockException is this with LOCKED.
UpsertFiscalPeriod(m, s) ==
    /\ period' = [period EXCEPT ![m] = s]
    /\ UNCHANGED <<month, entries>>

ReadyToClose(m) ==
    \A e \in DOMAIN entries : entries[e].month = m => entries[e].status # "DRAFT"

\* A closed month becomes LOCKED again.
LockFiscalPeriod(m) ==
    /\ ReadyToClose(m)
    /\ UpsertFiscalPeriod(m, "LOCKED")

CloseFiscalPeriod(m) ==
    /\ ReadyToClose(m)
    /\ UpsertFiscalPeriod(m, "CLOSED")

NextMonth ==
    /\ month < LastMonth
    /\ month' = month + 1
    /\ UNCHANGED <<period, entries>>

-----------------------------------------------------------------------------
LedgerInit ==
    /\ month = 1
    /\ period = [m \in Months |-> "OPEN"]
    /\ entries = <<>>

LedgerStep ==
    \/ \E m \in Months, post \in BOOLEAN : CreateJournalEntry(m, post)
    \/ \E e \in DOMAIN entries, m \in Months : UpdateJournalEntry(e, m)
    \/ \E e \in DOMAIN entries : PostManualJournal(e)
    \/ \E e \in DOMAIN entries : VoidJournalEntry(e)
    \/ PostDocument
    \/ CancelInvoice
    \/ \E m \in Months : PostPayrollRun(m)
    \/ \E m \in Months, s \in PeriodStatus : UpsertFiscalPeriod(m, s)
    \/ \E m \in Months : LockFiscalPeriod(m)
    \/ \E m \in Months : CloseFiscalPeriod(m)
    \/ NextMonth

-----------------------------------------------------------------------------
LedgerTypeOK ==
    /\ month \in Months
    /\ period \in [Months -> PeriodStatus]
    /\ entries \in Seq(Entries)

PostedOf(m) == {e \in DOMAIN entries : entries[e].month = m /\ entries[e].status = "POSTED"}

\* What a locked or closed month has posted stays posted, and nothing is added
\* to it but by the requests that never ask (reversal of an invoice, payroll
\* run of another month, expense claims, till variances, reimbursements):
\* drafts moved into the month or dated in it stay drafts
\* (createJournalEntry, updateJournalEntry, postManualJournal, voidJournalEntry).
LockedMonthFrozen ==
    [][\A m \in Months :
         ~Open(m) /\ ~Open(m)' =>
            /\ PostedOf(m) \subseteq PostedOf(m)'
            /\ \A e \in PostedOf(m)' \ PostedOf(m) : entries'[e].origin = "other"]_ledgerVars
=============================================================================
