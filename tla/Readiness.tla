------------------------------ MODULE Readiness ------------------------------
(***************************************************************************)
(* The four readiness reports that create documents, as a request for one  *)
(* executes them: step by step through the workflows of module Workflows,  *)
(* with a throw where a creation is refused.  The first two keep what was  *)
(* created, the whole or up to the throw; the last two are rehearsals:     *)
(* they copy the workspace, open the month, and put the copy back whatever *)
(* happened.                                                               *)
(*                                                                         *)
(* A report is a GET: the interceptor lets it pass in a locked tenant and  *)
(* for a READ_ONLY role, and only the creations that ask themselves        *)
(* (assertCanWrite, module Gate) refuse.  The service runs a request to    *)
(* its end before it takes the next one, so users act between two of them. *)
(*                                                                         *)
(* Left out: amounts, who asks for which tenant, and what the documents    *)
(* do to stock and ledger (modules Stock, Billing, Treasury).              *)
(***************************************************************************)
EXTENDS Gate, Workflows, Naturals

CONSTANTS Here,      \* the tenant of the workspace
          UserDocs,  \* what users create between two reports
          MaxReports, MaxUserDocs  \* bounds on the requests

ASSUME ReadinessAssumption ==
    /\ Here \in Tenants
    /\ UserDocs \subseteq STRING
    /\ {MaxReports, MaxUserDocs} \subseteq Nat

VARIABLES docs,     \* how many documents of a name the workspace holds
          month,    \* is the current fiscal period open?
          request,  \* the report being executed, Idle between two requests
          before,   \* history: docs and month when it was asked for
          asked     \* history: how many reports and user documents so far

readinessVars == <<gate, docs, month, request, before, asked>>

-----------------------------------------------------------------------------
Reports == {"DEPTH", "OPERATIONS", "EXPANSION", "ACCELERATION"}

EnterpriseDepth ==
    Make("invoices") \o Make("promisesToPay") \o Make("quotes") \o Make("salesOrders")
    \o Make("purchaseReceipts") \o Find("projects") \o Find("fleetVehicles")
    \o StockDamageClaim \o ProductSubstitute \o CustomerPriceListImport \o SalesTarget
    \o SalesCommissionAccrual \o ReceivableCollectionQueue \o CustomerDispute
    \o SupplierDispute \o TreasuryCashPosition \o ChequeDepositSlip \o BouncedCheque
    \o RecurringExpenseCalendar \o ExpenseApprovalMatrix \o EmployeeAdvance
    \o EmployeeLoanLedger \o OvertimePlanning \o LeaveConflicts \o Offboarding
    \o SparePartConsumption \o FleetDocuments \o FleetAccident \o ProductionQuality
    \o ProjectChangeRequest \o DeliveryProofPhoto

EnterpriseOperations ==
    Find("invoices") \o Find("salesOrders") \o Find("deliveryNotes") \o Find("payments")
    \o TransporterReconciliation \o ImportVatRecovery \o ThreeWayMatch
    \o SupplierPaymentRun \o CollectionCallLog \o CashReceiptAudit \o PosZReport
    \o TreasuryCashPosition \o PayrollBankTransfer \o ComponentShortage
    \o ProductionQuality \o DowntimeAnalytics \o FleetDocuments \o ProjectChangeRequest
    \o CollectionCallLog \o Annotations \o PayrollBankTransfer \o CnssAmendment
    \o RetentionGuarantee \o BranchProfitCenter

EnterpriseExpansion ==
    Find("invoices") \o ThreeWayMatchOnce \o AccountantTimeline \o BranchTransferImpact
    \o HospitalityServiceCharge \o InvoiceReconciliation \o EducationBilling
    \o ServiceInvoicing \o ServiceInvoicing \o LandedCostVariance \o ServiceInvoicing
    \o AgriPurchaseIntake \o ProductionQuality \o RetainerRevenue \o ThreeWayMatchOnce
    \o VatAuditTrail \o PettyCashReplenishment \o SlaPenalty \o ReservationExpiry

EnterpriseAcceleration ==
    Find("invoices") \o AgriPurchaseIntake \o AfterSalesRma \o InvoiceReconciliation
    \o RetailCashAudit \o LotExpiry \o RecallDrill \o FleetDocuments \o ImportVatRecovery
    \o SupplierFxExposure \o CollectionCallLog \o ThreeWayMatchOnce \o PreventiveCompliance
    \o ProjectChangeRequest \o LoanCompliance \o OnboardingPack \o SupportEscalation
    \o ApiContracts \o WebhookReplay

Steps(report) == CASE report = "DEPTH"        -> EnterpriseDepth
                   [] report = "OPERATIONS"   -> EnterpriseOperations
                   [] report = "EXPANSION"    -> EnterpriseExpansion
                   [] report = "ACCELERATION" -> EnterpriseAcceleration

Rehearses(report) == report \in {"EXPANSION", "ACCELERATION"}

AllSteps == UNION {ToSet(Steps(r)) : r \in Reports}
Docs == UNION {Kin(s.doc) : s \in AllSteps}

\* Created by handlers that do not ask assertCanWrite.
Ungated == {"promisesToPay", "kpiTargets", "dunningPolicies", "disputeCases", "cheques",
            "supplierPaymentProposalRuns", "receivedCheques", "depositBatches",
            "procurementApprovalMatrices", "payrollLoans", "overtimeApprovals",
            "employeeChecklists", "onboardingChecklists", "importDeclarationArchives",
            "accountantReviewComments", "payrollExportArchives", "journalEntries",
            "branches", "traceabilityLots", "supportTickets", "webhookEvents"}
\* Created by handlers that ask assertPeriodOpen of today.
Posting == {"invoices", "payments", "creditNotes", "purchaseReceipts", "orderReceipts",
            "supplierInvoices", "receiptInvoices", "posTransactions", "sessionTickets",
            "postedEntries", "journalEntries"}
\* Refused at times for reasons of their own: stock, credit, what is left to pay,
\* a balance of leave.
Limited == {"invoices", "payments", "creditNotes", "salesOrders", "deliveryNotes",
            "stockQuarantines", "stockTransfers", "spareParts", "productionOrders",
            "posTransactions", "sessionTickets", "leaveRequests"}

-----------------------------------------------------------------------------
Idle == [report |-> "NONE", role |-> "OWNER", step |-> 0,
         snapshot |-> [docs |-> <<>>, month |-> FALSE]]
Running == request # Idle
Current == Steps(request.report)[request.step]
Over == request.step \notin DOMAIN Steps(request.report)

SnapshotMutant == [docs |-> docs, month |-> TRUE]
\* JSON.parse(JSON.stringify(workspace)), taken before the month is opened.
Snapshot == [docs |-> docs, month |-> month]

Ask(report, role) ==
    /\ ~Running
    /\ asked.reports < MaxReports
    /\ HttpWriteAllowed(Here, "GET", "other", role)
    /\ request' = [report |-> report, role |-> role, step |-> 1,
                   snapshot |-> IF Rehearses(report) THEN Snapshot ELSE Idle.snapshot]
    /\ month' = (month \/ Rehearses(report))
    /\ before' = [docs |-> docs, month |-> month]
    /\ asked' = [asked EXCEPT !.reports = @ + 1]
    /\ UNCHANGED <<gate, docs>>

-----------------------------------------------------------------------------
MissingMutant(s) == TRUE
Missing(s) == \A d \in s.unless : docs[d] = 0

\* The till that sells must be open.
NoTill(doc) == doc \in {"sessionTickets", "posTransactions"} /\ docs["openSessions"] = 0

AllowedMutant(doc, role) == CanWrite(Here, role) \/ doc \in Ungated
\* The gate of the handler, and the month that it posts into.
Allowed(doc, role) ==
    /\ CanWrite(Here, role) \/ doc \in Ungated
    /\ doc \in Posting => month

With(many, doc) == [d \in Docs |-> IF d \in Kin(doc) THEN docs[d] + many ELSE docs[d]]
\* A till that closes has no tickets left to look up.
Without(doc) ==
    [d \in Docs |-> IF d = "sessionTickets" /\ doc = "openSessions" THEN 0
                    ELSE IF d = doc THEN docs[d] - 1 ELSE docs[d]]

Advance ==
    /\ request' = [request EXCEPT !.step = @ + 1]
    /\ UNCHANGED <<gate, month, before, asked>>

CreateStep ==
    /\ Running /\ ~Over
    /\ Current.op \in {"ADD", "MAY"}
    /\ Missing(Current)
    /\ Allowed(Current.doc, request.role) /\ ~NoTill(Current.doc)
    /\ docs' = With(Lot(Current.doc), Current.doc)
    /\ Advance

\* Found, or not needed.
SkipStep ==
    /\ Running /\ ~Over
    /\ Current.op = "MAY" \/ (Current.op = "ADD" /\ ~Missing(Current))
    /\ UNCHANGED docs
    /\ Advance

CloseStep ==
    /\ Running /\ ~Over
    /\ Current.op = "CLOSE" /\ docs[Current.doc] > 0
    /\ docs' = Without(Current.doc)
    /\ Advance

-----------------------------------------------------------------------------
\* The end of a request, whether it returns or throws: `finally` puts the copy
\* of a rehearsal back, the other reports leave what is there.
Leave(left) ==
    /\ docs' = IF Rehearses(request.report) THEN request.snapshot.docs ELSE left
    /\ month' = IF Rehearses(request.report) THEN request.snapshot.month ELSE month

Return ==
    /\ Running /\ Over
    /\ Leave(docs)
    /\ request' = Idle
    /\ UNCHANGED <<gate, before, asked>>

\* What a refused creation leaves: createPosTransaction stores the ticket before
\* it finds the stock too short.
Leftover(doc) ==
    IF doc \in {"sessionTickets", "posTransactions"} THEN {docs, With(1, doc)} ELSE {docs}

Throw ==
    /\ Running /\ ~Over
    /\ Current.op \in {"ADD", "MAY"}
    /\ Missing(Current)
    /\ \/ /\ ~Allowed(Current.doc, request.role) \/ NoTill(Current.doc)
          /\ Leave(docs)
       \/ /\ Allowed(Current.doc, request.role) /\ ~NoTill(Current.doc)
          /\ Current.doc \in Limited
          /\ \E left \in Leftover(Current.doc) : Leave(left)
    /\ request' = Idle
    /\ UNCHANGED <<gate, before, asked>>

-----------------------------------------------------------------------------
\* Between two reports.
UserCreates(doc) ==
    /\ ~Running
    /\ asked.userDocs < MaxUserDocs
    /\ Allowed(doc, "OWNER") /\ ~NoTill(doc)
    /\ doc = "openSessions" => docs[doc] = 0
    /\ docs' = With(1, doc)
    /\ asked' = [asked EXCEPT !.userDocs = @ + 1]
    /\ UNCHANGED <<gate, month, request, before>>

\* lockFiscalPeriod; the handler does not ask assertCanWrite.
LockMonth(role) ==
    /\ ~Running
    /\ HttpWriteAllowed(Here, "POST", "other", role)
    /\ month' = FALSE
    /\ UNCHANGED <<gate, docs, request, before, asked>>

SubscribeHere(role, g) ==
    /\ ~Running
    /\ UpdateSubscriptionGate(Here, role, g)
    /\ UNCHANGED <<docs, month, request, before, asked>>

ReadinessInit ==
    /\ gate = OpenGates
    /\ docs = [d \in Docs |-> 0]
    /\ month = TRUE
    /\ request = Idle
    /\ before = Snapshot
    /\ asked = [reports |-> 0, userDocs |-> 0]

RunReport == CreateStep \/ SkipStep \/ CloseStep \/ Return \/ Throw

ReadinessNext ==
    \/ \E report \in Reports, role \in Roles : Ask(report, role)
    \/ RunReport
    \/ \E doc \in UserDocs : UserCreates(doc)
    \/ \E role \in Roles : LockMonth(role)
    \/ \E role \in Roles, g \in Gates : SubscribeHere(role, g)

ReadinessSpec == ReadinessInit /\ [][ReadinessNext]_readinessVars

-----------------------------------------------------------------------------
Snapshots == [docs : [Docs -> Nat], month : BOOLEAN]
ReadinessTypeOK ==
    /\ gate \in [Tenants -> Gates]
    /\ docs \in [Docs -> Nat]
    /\ month \in BOOLEAN
    /\ request \in [report : Reports \cup {"NONE"}, role : Roles, step : Nat,
                    snapshot : Snapshots \cup {Idle.snapshot}]
    /\ before \in Snapshots
    /\ asked \in [reports : Nat, userDocs : Nat]

Ends == Running /\ request' = Idle
Was(doc) == before.docs[doc]

\* A rehearsal leaves no trace: neither a document nor an opened month, also
\* when one of its workflows throws (the `finally` of
\* moroccoEnterpriseExpansionReadiness and -AccelerationReadiness).
RehearsalsLeaveNoTrace ==
    [][Ends /\ Rehearses(request.report) => docs' = before.docs /\ month' = before.month
      ]_readinessVars

\* Whatever a report creates on the way, once it ends the books of a closed
\* month are what they were, and a tenant that may not be written has gained
\* nothing of what its own handlers guard.
ReportsRespectLocks ==
    [][Ends => /\ ~before.month => \A d \in Docs \cap Posting : docs'[d] <= Was(d)
               /\ ~CanWrite(Here, request.role) =>
                      \A d \in Docs \ Ungated : docs'[d] <= Was(d)]_readinessVars

\* What a report only looks up is created by the first workflow that misses it
\* and found from then on: no report leaves more of it than there were, or than
\* one workflow creates.
OnlyLookedUp == {d \in Docs : \A s \in AllSteps : d \in Kin(s.doc) => d \in s.unless}
FoundAgain ==
    [][Ends => \A d \in OnlyLookedUp : docs'[d] <= Was(d) \/ docs'[d] <= Lot(d)
      ]_readinessVars
=============================================================================
