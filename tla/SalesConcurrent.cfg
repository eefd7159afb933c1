\* Overlapping requests, failing statements, dying processes.
SPECIFICATION Spec
CONSTANTS
    i1 = i1
    i2 = i2
    p1 = p1
    p2 = p2
    l1 = l1
    l2 = l2
    Item = {i1, i2}
    Product = {p1, p2}
    Line = {l1, l2}
    Refunder = {r1, r2}
    Editor = {e1}
    Deleter = {}
    PoolSize = 3
    Null = Null
    MaxFaults = 1
    MaxOpen = 2
    SaleFirst = TRUE
    Cart <- ConcurrentCart
    StatusInput <- OnlyApproved
    PriceOf <- MCPriceOf
    EditDto <- ConcurrentEdit
    RefundDto <- ConcurrentRefund
SYMMETRY Symmetry
INVARIANTS
    TypeOK
    RemainingWithinSold
    RefundExplained
    RemainderExplained
    ConnectionReleased
