----------------------------- MODULE SaleBook -----------------------------
(***************************************************************************)
(* What a sale and its refunds promise, one action per request: the units  *)
(* of each product that can still be taken back, what was paid back, what  *)
(* the sale is worth and how it is labelled.                               *)
(***************************************************************************)
EXTENDS Integers

CONSTANTS Product, Label, PriceOf, Null

VARIABLES stage, label, left, paid, due

bookVars == <<stage, label, left, paid, due>>

Nothing == [p \in Product |-> 0]

Init ==
    /\ stage = "unsold"
    /\ label = "pending"
    /\ left = Nothing
    /\ paid = 0
    /\ due = Null

\* The sale is recorded: nothing of it is paid back.
Sell ==
    /\ stage = "unsold"
    /\ stage' = "open"
    /\ label' \in Label
    /\ left' \in [Product -> Nat]
    /\ due' \in Int
    /\ paid' = paid

\* Some units of one product of an approved sale are taken back and paid
\* for; a sale paid back in full is labelled refunded.
TakeBack(p) ==
    /\ stage = "open"
    /\ label = "approved"
    /\ left'[p] \in 0 .. (left[p] - 1)
    /\ left' = [left EXCEPT ![p] = left'[p]]
    /\ \E price \in PriceOf[p] : paid' = paid + price * (left[p] - left'[p])
    /\ label' = IF paid' = due THEN "refunded" ELSE "approved"
    /\ UNCHANGED <<stage, due>>

\* The lines are priced again; what can be taken back stays as it was.
Amend ==
    /\ stage = "open"
    /\ due' \in Int \cup {Null}
    /\ UNCHANGED <<stage, label, left, paid>>

\* The body of an edit labels the sale.
Relabel ==
    /\ stage = "open"
    /\ label' \in Label
    /\ UNCHANGED <<stage, left, paid, due>>

\* The lines of some products are struck off; what the sale is worth is not
\* computed again.
Strike(struck) ==
    /\ stage = "open"
    /\ left' = [p \in Product |-> IF p \in struck THEN 0 ELSE left[p]]
    /\ UNCHANGED <<stage, label, paid, due>>

\* The sale is deleted: nothing of it can be taken back any more.
Withdraw ==
    /\ stage = "open"
    /\ stage' = "withdrawn"
    /\ left' = Nothing
    /\ UNCHANGED <<label, paid, due>>

Next ==
    \/ Sell \/ Amend \/ Relabel \/ Withdraw
    \/ \E p \in Product : TakeBack(p)
    \/ \E struck \in SUBSET Product : Strike(struck)

Spec == Init /\ [][Next]_bookVars

=============================================================================
