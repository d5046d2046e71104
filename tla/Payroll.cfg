SPECIFICATION PayrollSpec
CONSTANTS
    Employees = {e1}
    Periods = {"2026-05"}
    ScalePeriod = "2026-05"
    MaxSalary = 2
    AcquiredDays = 2
    MaxRuns = 2
    MaxEntries = 2
    MaxRequests = 2
    Amounts <- MCAmounts
    Dependents = {0, 2, 7}
INVARIANTS
    OneLiveRun
    LeaveWithinBalance
    PayslipsAgree
PROPERTIES
    LedgerFollowsRuns
    ApprovedRunsFrozen
    BalancesFollowRequests
