------------------------------ MODULE Workflows ------------------------------
(***************************************************************************)
(* What the readiness reports under /tenant create when somebody reads     *)
(* them.  A report is a chain of workflows; a workflow looks some          *)
(* documents up, creates those it misses and some more on top, and reports *)
(* on them.  A workflow that only reads, the evidence files that most      *)
(* archive and what they answer are left out.                              *)
(*                                                                         *)
(* A workflow is the sequence of its creations, in the order of the code.  *)
(* A document is named after its collection, or after the part of it that  *)
(* is looked up ("receivedCheques" are the cheques not yet deposited).     *)
(***************************************************************************)
EXTENDS Sequences, FiniteSets, SequencesExt

\* ADD creates a lot of `doc` unless one of `unless` is there; MAY may leave it;
\* CLOSE takes one away from the state that `doc` names.
Step(op, doc, unless) == <<[op |-> op, doc |-> doc, unless |-> unless]>>

\* create(...)
Make(doc) == Step("ADD", doc, {})
\* workspace.collection[0] ?? create(...)
Find(doc) == Step("ADD", doc, {doc})
\* The same, asked only when there is no `other`.
FindUnless(other, doc) == Step("ADD", doc, {doc, other})
MakeSometimes(doc) == Step("MAY", doc, {})
Close(doc) == Step("CLOSE", doc, {})

\* The documents that one of these also is.
Kin(doc) ==
    CASE doc \in {"openSessions", "posSessions"}     -> {"openSessions", "posSessions"}
      [] doc \in {"sessionTickets", "posTransactions"} -> {"sessionTickets", "posTransactions"}
      [] doc = "receivedCheques"                     -> {doc, "cheques"}
      [] doc = "orderReceipts"                       -> {doc, "purchaseReceipts"}
      [] doc = "receiptInvoices"                     -> {doc, "supplierInvoices"}
      [] doc = "onboardingChecklists"                -> {doc, "employeeChecklists"}
      [] doc = "postedEntries"                       -> {doc, "journalEntries"}
      [] OTHER                                       -> {doc}

\* How many of a document a workflow creates that creates it: dunning policies
\* of the levels 1 and 2, everything else one by one.
Lot(doc) == IF doc = "dunningPolicies" THEN 2 ELSE 1

-----------------------------------------------------------------------------
\* Sales, collection and treasury.
StockDamageClaim == Make("stockQuarantines") \o Make("postedEntries")
ProductSubstitute == Find("substitutes")
CustomerPriceListImport == Make("pricingRules")
SalesTarget == Find("kpiTargets")
\* Only when some commission is payable.
SalesCommissionAccrual == MakeSometimes("postedEntries")
ReceivableCollectionQueue == Find("dunningPolicies")  \* two levels at once
CustomerDispute == Make("disputeCases")  \* the report names the invoice
SupplierDispute == Make("disputeCases")  \* and the receipt
TreasuryCashPosition == Make("supplierPaymentProposalRuns")
ChequeDepositSlip ==
    Find("invoices") \o Find("receivedCheques") \o Make("depositBatches")
        \o Close("receivedCheques")
\* The cheque is rejected at once.
BouncedCheque == Find("invoices") \o Make("cheques") \o Make("postedEntries")
RecurringExpenseCalendar == Find("rentSchedules")
ExpenseApprovalMatrix == Make("procurementApprovalMatrices")
DeliveryProofPhoto ==
    Find("salesOrders") \o Find("deliveryNotes") \o Make("deliveryProofs")
TransporterReconciliation == Find("salesOrders") \o Find("deliveryNotes")
CollectionCallLog == Find("invoices") \o Make("promisesToPay")
RetentionGuarantee == Find("invoices")
BranchProfitCenter == Find("branches")

\* Purchasing.
ImportVatRecovery == Find("importDeclarationArchives")
ThreeWayMatch == Find("purchaseOrders") \o Find("orderReceipts") \o Find("receiptInvoices")
ThreeWayMatchOnce ==
    FindUnless("supplierInvoices", "purchaseOrders")
        \o FindUnless("supplierInvoices", "orderReceipts")
        \o FindUnless("supplierInvoices", "receiptInvoices")
SupplierPaymentRun == ThreeWayMatchOnce \o Make("supplierPaymentProposalRuns")
LandedCostVariance == ThreeWayMatch \o Find("importDeclarationArchives")
SupplierFxExposure ==
    FindUnless("supplierInvoices", "purchaseReceipts") \o Find("supplierInvoices")

\* Staff and payroll.
EmployeeAdvance == Make("payrollLoans")
EmployeeLoanLedger == Find("payrollLoans")
OvertimePlanning == Make("overtimeApprovals")
LeaveConflicts == Find("leaveRequests")
Offboarding == Make("employeeChecklists")
PayrollBankTransfer == Find("payrollRuns")
CnssAmendment == Find("payrollRuns") \o Make("payrollExportArchives")
Annotations ==
    Find("invoices") \o Find("payrollRuns") \o Find("journalEntries")
        \o Make("accountantReviewComments") \o Make("accountantReviewComments")
        \o Make("accountantReviewComments")

\* Maintenance, fleet, production and projects.
SparePartConsumption ==
    Find("maintenanceAssets") \o Find("maintenanceWorkOrders") \o Make("spareParts")
FleetDocuments == Find("fleetVehicles")
FleetAccident ==
    Find("fleetVehicles") \o Make("fleetComplianceCases")
        \o Find("maintenanceAssets") \o Make("maintenanceWorkOrders")
ProductionQuality == Find("productionOrders") \o Make("productionQualityChecks")
ComponentShortage == Find("billsOfMaterial")
DowntimeAnalytics == Find("maintenanceAssets") \o Find("maintenanceWorkOrders")
PreventiveCompliance == Find("maintenanceAssets")
ProjectChangeRequest == Find("projects")

-----------------------------------------------------------------------------
\* The till.  The audit sells on the first session, open or not; the Z report
\* sells on an open one if nobody has and closes it.
CashReceiptAudit == Find("posSessions") \o Find("posTransactions")
PosZReport == Find("openSessions") \o Find("sessionTickets")
                  \o Close("openSessions")
HospitalityServiceCharge == Find("openSessions") \o Make("posTransactions")
RetailCashAudit == Find("posSessions") \o PosZReport

\* Trades.
AccountantTimeline == Make("accountantReviewComments")
BranchTransferImpact == Find("rabatWarehouses") \o Find("stockTransfers")
EducationBilling == Make("invoices") \o Make("promisesToPay")
ServiceInvoicing == Make("invoices")
AgriPurchaseIntake == Make("purchaseReceipts")
RetainerRevenue == Find("serviceContracts")
VatAuditTrail ==
    Find("invoices") \o Find("payments") \o Make("accountantReviewComments")
PettyCashReplenishment == Find("pettyCashJournals")
SlaPenalty == Find("customerContracts") \o Find("invoices") \o Make("creditNotes")
ReservationExpiry == Find("salesOrders")
AfterSalesRma ==
    Find("invoices") \o Find("traceabilityLots") \o Make("creditNotes")
InvoiceReconciliation == Find("invoices")
LotExpiry == Find("traceabilityLots")
RecallDrill ==
    Find("traceabilityLots") \o FindUnless("deliveryNotes", "salesOrders")
        \o Find("deliveryNotes")
LoanCompliance == Find("payrollLoans")
\* employeeChecklist goes on with the one that is open.
OnboardingPack == Find("onboardingChecklists")
SupportEscalation == Find("supportTickets")
ApiContracts == Find("partnerApiKeys")
WebhookReplay == Find("webhookEvents")
=============================================================================
