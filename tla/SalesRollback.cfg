\* A refund that fails after its insert keeps what it wrote.
SPECIFICATION Spec
CONSTANTS
    i1 = i1
    i2 = i2
    p1 = p1
    p2 = p2
    l1 = l1
    l2 = l2
    Item = {i1, i2}
    Product = {p1, p2}
    Line = {l1, l2}
    Refunder = {r1}
    Editor = {}
    Deleter = {}
    PoolSize = 3
    Null = Null
    MaxFaults = 1
    MaxOpen = 3
    SaleFirst = TRUE
    Cart <- ConcurrentCart
    StatusInput <- OnlyApproved
    PriceOf <- MCPriceOf
    EditDto <- ProgressEdit
    RefundDto <- ProgressRefund
INVARIANTS
    RollbackUndoes
