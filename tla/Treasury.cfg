SPECIFICATION TreasurySpec
CONSTANTS
    LastMonth = 2
    MaxEntries = 2
    MaxCheques = 1
    MaxBatches = 2
    MaxClaims = 1
    MaxApprovals = 2
INVARIANTS
    ChequesMatchBatches
    ClaimsBookedPerApproval
PROPERTY
    LockedMonthFrozen
