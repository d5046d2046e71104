SPECIFICATION ReadinessSpec
CONSTANTS
    Tenants = {demo}
    Here = demo
    UserDocs = {"invoices", "openSessions", "receivedCheques"}
    MaxReports = 2
    MaxUserDocs = 1
PROPERTIES
    RehearsalsLeaveNoTrace
    ReportsRespectLocks
    FoundAgain
CHECK_DEADLOCK FALSE
