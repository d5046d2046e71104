SPECIFICATION Spec
CONSTANTS
    Products = {p1}
    Warehouses = {w1, w2}
    Main = w1
    MaxQty = 1
    MaxStock = 1
    MaxOrders = 1
    MaxNotes = 1
    MaxTransfers = 1
    MaxCounts = 1
    MaxHolds = 1
PROPERTIES
    StockReconciles
    ClaimsStayBacked
    OnlyUncheckedStepsOvercommit
