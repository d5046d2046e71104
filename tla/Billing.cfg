SPECIFICATION BillingSpec
CONSTANTS
    Customers = {c1}
    CreditLimit <- MCLimit
    FAC = FAC
    AV = AV
    Prefixes = {FAC, AV}
    MaxAmount = 2
    MaxInvoices = 2
    MaxCreditNotes = 2
    MaxEntries = 4
    MaxVoids = 1
    MaxNumber = 2
SYMMETRY MCSeries
INVARIANTS
    NumberingSound
    PaymentsSettle
    LedgerAgrees
PROPERTIES
    LockedPeriodFreezesLedger
    LimitHolds
