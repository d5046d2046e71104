------------------------------- MODULE Treasury -------------------------------
(***************************************************************************)
(* Cheques and their deposit batches, expense claims and reimbursements,   *)
(* and the daily approval of a till, with the entries they post to the     *)
(* ledger of module Ledger.  None of these handlers runs under             *)
(* withRollback.  Amounts and tills are left out.                          *)
(*                                                                         *)
(* approvals and booked are history: how often a claim was approved and    *)
(* how many entries it has.                                                *)
(***************************************************************************)
EXTENDS Ledger

CONSTANTS MaxCheques, MaxBatches, MaxClaims, MaxApprovals  \* bounds on their number

ASSUME TreasuryAssumption ==
    {MaxCheques, MaxBatches, MaxClaims, MaxApprovals} \subseteq Nat

VARIABLES cheques,    \* workspace.cheques
          batches,    \* workspace.depositBatches: the cheques each one lists
          claims,     \* workspace.expenseClaims
          approvals,  \* per claim
          booked      \* per claim

treasuryVars == <<cheques, batches, claims, approvals, booked>>
vars == <<ledgerVars, treasuryVars>>

Cheques == [status : {"RECEIVED", "DEPOSITED", "REJECTED"}, batch : Nat]
ClaimStatus == {"SUBMITTED", "APPROVED", "EXPORTED"}

-----------------------------------------------------------------------------
\* The invoice a cheque names is not looked up.
Received == Append(cheques, [status |-> "RECEIVED", batch |-> 0])

CreateCheque ==
    /\ Len(cheques) < MaxCheques
    /\ cheques' = Received
    /\ UNCHANGED <<ledgerVars, batches, claims, approvals, booked>>

\* A cheque keeps the batch it was first deposited in.
DepositedMutant(cheque, batch) ==
    [cheque EXCEPT !.status = "DEPOSITED", !.batch = IF @ = 0 THEN batch ELSE @]
\* Whatever its status: deposited, or rejected before.
Deposited(cheque, batch) == [cheque EXCEPT !.status = "DEPOSITED", !.batch = batch]

\* The list may be empty (a deposit of cash), or name a cheque twice.
CreateDepositBatch(list) ==
    /\ Len(batches) < MaxBatches
    /\ batches' = Append(batches, list)
    /\ cheques' = [c \in DOMAIN cheques |->
                     IF c \in Range(list) THEN Deposited(cheques[c], Len(batches'))
                                          ELSE cheques[c]]
    /\ UNCHANGED <<ledgerVars, claims, approvals, booked>>

\* The first received cheque, or a new one, in a batch of its own.
ChequeDepositSlipGeneration ==
    LET waiting == {c \in DOMAIN cheques : cheques[c].status = "RECEIVED"}
        all == IF waiting = {} THEN Received ELSE cheques
        first == IF waiting = {} THEN {Len(all)}
                                 ELSE {c \in waiting : \A d \in waiting : c <= d}
    IN  /\ Len(batches) < MaxBatches
        /\ waiting = {} => Len(cheques) < MaxCheques
        /\ \E c \in first :
              /\ batches' = Append(batches, <<c>>)
              /\ cheques' = [all EXCEPT ![c] = Deposited(@, Len(batches'))]
        /\ UNCHANGED <<ledgerVars, claims, approvals, booked>>

\* The cheque is rejected first; the entry of the fee is then refused when the
\* month is locked, and the cheque stays rejected.
Bounce(all, c) ==
    /\ cheques' = [all EXCEPT ![c].status = "REJECTED"]
    /\ IF Open(month) THEN PostToday(1, "document") ELSE UNCHANGED entries
    /\ UNCHANGED <<month, period, batches, claims, approvals, booked>>

BouncedChequeWorkflow ==
    \/ \E c \in DOMAIN cheques : Bounce(cheques, c)
    \/ Len(cheques) < MaxCheques /\ Bounce(Received, Len(Received))

-----------------------------------------------------------------------------
CreateExpenseClaim ==
    /\ Len(claims) < MaxClaims
    /\ claims' = Append(claims, "SUBMITTED")
    /\ approvals' = Append(approvals, 0)
    /\ booked' = Append(booked, 0)
    /\ UNCHANGED <<ledgerVars, cheques, batches>>

\* Whatever the status: an exported claim may be exported again.
ApproveExpenseClaim(c) ==
    /\ approvals[c] < MaxApprovals
    /\ claims' = [claims EXCEPT ![c] = "APPROVED"]
    /\ approvals' = [approvals EXCEPT ![c] = @ + 1]
    /\ UNCHANGED <<ledgerVars, cheques, batches, booked>>

ToExport == {c \in DOMAIN claims : claims[c] = "APPROVED"}

\* The claims are booked and stay APPROVED.
ExportExpenseClaimsMutant ==
    /\ ToExport # {}
    /\ PostToday(Cardinality(ToExport), "other")
    /\ booked' = [c \in DOMAIN claims |-> booked[c] + (IF c \in ToExport THEN 1 ELSE 0)]
    /\ UNCHANGED <<month, period, cheques, batches, claims, approvals>>
\* Each claim is EXPORTED and then booked, today, without asking the period.
ExportExpenseClaims ==
    /\ ToExport # {}
    /\ PostToday(Cardinality(ToExport), "other")
    /\ claims' = [c \in DOMAIN claims |-> IF c \in ToExport THEN "EXPORTED" ELSE claims[c]]
    /\ booked' = [c \in DOMAIN claims |-> booked[c] + (IF c \in ToExport THEN 1 ELSE 0)]
    /\ UNCHANGED <<month, period, cheques, batches, approvals>>

\* An employee is reimbursed outside payroll, for a claim or not, whether the
\* claim was exported or not.
CreateEmployeeReimbursement ==
    /\ PostToday(1, "other")
    /\ UNCHANGED <<month, period, treasuryVars>>

\* Each approval of a session with a variance books it again; the period is
\* not asked for.
CreateCashboxDailyApproval ==
    /\ PostToday(1, "other")
    /\ UNCHANGED <<month, period, treasuryVars>>

-----------------------------------------------------------------------------
TreasuryInit ==
    /\ LedgerInit
    /\ cheques = <<>>
    /\ batches = <<>>
    /\ claims = <<>>
    /\ approvals = <<>>
    /\ booked = <<>>

TreasuryStep ==
    \/ CreateCheque
    \/ \E n \in 0..2 : \E list \in [1..n -> DOMAIN cheques] : CreateDepositBatch(list)
    \/ ChequeDepositSlipGeneration
    \/ BouncedChequeWorkflow
    \/ CreateExpenseClaim
    \/ \E c \in DOMAIN claims : ApproveExpenseClaim(c)
    \/ ExportExpenseClaims
    \/ CreateEmployeeReimbursement
    \/ CreateCashboxDailyApproval

TreasuryNext ==
    \/ LedgerStep /\ UNCHANGED treasuryVars
    \/ TreasuryStep

TreasurySpec == TreasuryInit /\ [][TreasuryNext]_vars

-----------------------------------------------------------------------------
TreasuryTypeOK ==
    /\ LedgerTypeOK
    /\ cheques \in Seq(Cheques)
    /\ batches \in Seq(Seq(DOMAIN cheques))
    /\ claims \in Seq(ClaimStatus)
    /\ approvals \in Seq(Nat) /\ Len(approvals) = Len(claims)
    /\ booked \in Seq(Nat) /\ Len(booked) = Len(claims)

Listing(c) == {b \in DOMAIN batches : c \in Range(batches[b])}

\* A cheque that was ever deposited names the last batch that lists it, and a
\* cheque no batch lists is not DEPOSITED, whatever was deposited twice,
\* rejected and deposited again (createDepositBatch, bouncedChequeWorkflow).
ChequesMatchBatches ==
    \A c \in DOMAIN cheques :
       /\ cheques[c].batch = (IF Listing(c) = {} THEN 0 ELSE Max(Listing(c)))
       /\ Listing(c) = {} => cheques[c].status # "DEPOSITED"

\* An expense claim is booked at most once for each time it was approved, and
\* a claim that waits for its export has an approval left for it, although an
\* exported claim may be approved and exported again
\* (approveExpenseClaim, exportExpenseClaims).
ClaimsBookedPerApproval ==
    \A c \in DOMAIN claims :
       booked[c] + (IF claims[c] = "APPROVED" THEN 1 ELSE 0) <= approvals[c]
=============================================================================
