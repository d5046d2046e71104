SPECIFICATION QuotesSpec
CONSTANTS
    Products = {p1, p2}
    Warehouses = {w1}
    Main = w1
    MaxQty = 1
    MaxStock = 2
    MaxOrders = 2
    MaxNotes = 3
    MaxQuotes = 1
    MaxRevision = 2
    MaxMade = 3
    MaxReopened = 1
SYMMETRY ProductSymmetry
INVARIANTS
    NotesMatchOrders
    SalesStayCovered
    ReservationsBacked
    SoldAsAgreed
    OrdersPerQuote
PROPERTY
    FinishedOrdersFinal
