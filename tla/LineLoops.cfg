SPECIFICATION LoopSpec
CONSTANTS
    Products = {p1, p2}
    Warehouses = {w1}
    Main = w1
    MaxQty = 3
    LineQty = 1
    MaxStock = 2
    MaxOrders = 2
    MaxNotes = 2
    MaxLines = 3
PROPERTIES
    InvoiceAllOrNothing
    ImplementsSales
    RequestsEnd
