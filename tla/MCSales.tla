------------------------------ MODULE MCSales ------------------------------
(* Bounded instances of Sales for TLC.                                     *)
EXTENDS Sales, TLC

CONSTANTS i1, i2, p1, p2, l1, l2

\* One price per product; the second line carries a discount.
MCPriceOf == (p1 :> {2}) @@ (p2 :> {7})

SaleLine(p, q, d) == [product |-> p, quantity |-> q, discount |-> d, isRefund |-> FALSE]

TwoProducts == (i1 :> SaleLine(p1, 3, 0)) @@ (i2 :> SaleLine(p2, 1, 1))
OneProductTwice == (i1 :> SaleLine(p1, 1, 0)) @@ (i2 :> SaleLine(p1, 3, 0))

RefundLine(p, q) == [product |-> p, quantity |-> q]
OneLine == {(l1 :> RefundLine(p1, 1)), (l1 :> RefundLine(p1, 2)),
            (l1 :> RefundLine(p2, 1)), (l1 :> RefundLine(p2, 0))}
TwoLines == (l1 :> RefundLine(p1, 1)) @@ (l2 :> RefundLine(p2, 1))
SameTwice == (l1 :> RefundLine(p1, 2)) @@ (l2 :> RefundLine(p1, 1))

NoEdit == [transactionItemId |-> Null, product |-> Null, quantity |-> Null,
           isRefund |-> Null, deleteItem |-> {}, status |-> Null]
SetQuantity == [NoEdit EXCEPT !.transactionItemId = i1, !.quantity = 2]
SetProduct == [NoEdit EXCEPT !.transactionItemId = i1, !.product = p2]
SetFlag == [NoEdit EXCEPT !.transactionItemId = i1, !.isRefund = TRUE]
DropLine == [NoEdit EXCEPT !.deleteItem = {i1}]
Approve == [NoEdit EXCEPT !.status = "approved"]

\* SalesConcurrent: overlapping refunds of one line and of one product twice, beside an
\* edit of a line or of the header.
ConcurrentCart == {TwoProducts}
ConcurrentRefund == {(l1 :> RefundLine(p2, 1)), SameTwice}
ConcurrentEdit == {SetProduct, Approve}

Symmetry == Permutations(Refunder)

\* SalesRemoval: the sale is deleted or removed under a refund and two edits.
RemovalRefund == {(l1 :> RefundLine(p1, 2))}
RemovalEdit == {SetQuantity, DropLine}
RemovalSymmetry == Permutations(Editor)

\* SalesSerial: every edit but a change of product, prices that move.
SerialEdit == {SetQuantity, SetFlag, DropLine, Approve}
SerialCart == {TwoProducts, (i1 :> SaleLine(p1, 2, 0))}
SerialStatus == {"approved", "parked"}
SerialPriceOf == (p1 :> {2, 4}) @@ (p2 :> {3})
SerialSymmetry == Permutations(Refunder) \cup Permutations(Editor)

\* SalesProgress: one line or two, the second with one unit to take back.
ProgressRefund == {(l1 :> RefundLine(p1, 1)), TwoLines}
ProgressEdit == {SetQuantity}

OnlyApproved == {"approved"}

=============================================================================
