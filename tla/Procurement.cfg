SPECIFICATION ProcurementSpec
CONSTANTS
    article = article
    service = service
    Products = {article, service}
    Services = {service}
    Warehouses = {w1}
    Main = w1
    Baskets <- MCBaskets
    OpeningCosts = {5}
    Costs = {2}
    Charges = {5}
    MaxQty = 2
    MaxStock = 2
    MaxCost = 5
    MaxRequests = 1
    MaxOrders = 1
    MaxReceipts = 2
    MaxBills = 1
INVARIANTS
    OrdersMatchReceipts
PROPERTIES
    GoodsFollowValue
