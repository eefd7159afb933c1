\* One request at a time: the services implement SaleBook.
SPECIFICATION Spec
CONSTANTS
    i1 = i1
    i2 = i2
    p1 = p1
    p2 = p2
    l1 = l1
    l2 = l2
    Item = {i1, i2}
    Product = {p1, p2}
    Line = {l1, l2}
    Refunder = {r1, r2, r3}
    Editor = {e1, e2}
    Deleter = {d1}
    PoolSize = 2
    Null = Null
    MaxFaults = 0
    MaxOpen = 1
    SaleFirst = TRUE
    Cart <- SerialCart
    StatusInput <- SerialStatus
    PriceOf <- SerialPriceOf
    EditDto <- SerialEdit
    RefundDto <- OneLine
SYMMETRY SerialSymmetry
INVARIANTS
    RefundNumbersDistinct
    QuietLedger
    LinePriced
    TotalMatchesLines
PROPERTIES
    ImplementsBook
