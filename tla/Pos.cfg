SPECIFICATION PosSpec
CONSTANTS
    Products = {p1}
    Warehouses = {w1}
    Main = w1
    MaxQty = 2
    MaxStock = 2
    Cashiers = {c1}
    Methods = {"CASH"}
    Totals <- MCTotals
    MaxSessions = 2
    MaxTickets = 2
    MaxQueue = 2
    MaxCash = 1
INVARIANTS
    OneOpenSession
    ClosedTillOnlyLoses
PROPERTIES
    StockFollowsPayments
