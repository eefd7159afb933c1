\* Overlapping refunds and a deletion are answered when the pool suffices.
SPECIFICATION FairSpec
CONSTANTS
    i1 = i1
    i2 = i2
    p1 = p1
    p2 = p2
    l1 = l1
    l2 = l2
    Item = {i1, i2}
    Product = {p1, p2}
    Line = {l1, l2}
    Refunder = {r1, r2}
    Editor = {}
    Deleter = {d1}
    PoolSize = 3
    Null = Null
    MaxFaults = 0
    MaxOpen = 3
    SaleFirst = TRUE
    Cart <- ConcurrentCart
    StatusInput <- OnlyApproved
    PriceOf <- MCPriceOf
    EditDto <- ProgressEdit
    RefundDto <- ProgressRefund
PROPERTIES
    RefundAnswered
    RefundItemised
