SPECIFICATION Spec
CONSTANTS
    Products = {p1}
    Warehouses = {w1}
    Main = w1
    MaxQty = 1
    MaxStock = 2
    MaxOrders = 1
    MaxNotes = 1
    MaxTransfers = 0
    MaxCounts = 0
    MaxHolds = 1
INVARIANT
    StockNeverNegative
