---------------------------- MODULE MCCatalogue ----------------------------
(* Two stores, two discounts with a code each, a product in a category and *)
(* a modifier group that offers it; three requests, two of them at once.   *)
EXTENDS Catalogue

CONSTANTS s1, s2, d1, d2, l1, l2, h1, c1, c2, p1, p2, g1, o1

StoreRows == (<<"store", s1>> :> StoreRow("north")) @@ (<<"store", s2>> :> StoreRow("south"))
DiscountRows ==
    (<<"discount", d1>> :> DiscountRow("A", "active"))
    @@ (<<"discount", d2>> :> DiscountRow("B", "active"))
    @@ (<<"link", l1>> :> LinkRow(d1, s1, "active"))
    @@ (<<"link", l2>> :> LinkRow(d2, s1, "active"))
ProductRows ==
    (<<"category", c1>> :> CategoryRow("old"))
    @@ (<<"category", c2>> :> CategoryRow("old"))
    @@ (<<"product", p1>> :> ProductRow("old", c1, s1))
    @@ (<<"product", p2>> :> ProductRow("old", Null, s1))
GroupRows ==
    (<<"group", g1>> :> GroupRow("old"))
    @@ (<<"option", o1>> :> OptionRow(g1, p1, 1))
    @@ (<<"attached", <<g1, c1>>>> :> AttachedRow(g1, c1))

MCRows ==
    ({"discounts"} :> (StoreRows @@ DiscountRows))
    @@ ({"hours", "stores"} :> (StoreRows @@ (<<"hours", h1>> :> HoursRow(s1, "mon", "am"))))
    @@ ({"products", "stores"} :> (StoreRows @@ ProductRows))
    @@ ({"groups"} :> (StoreRows @@ ProductRows @@ GroupRows))

MCArea == DOMAIN MCRows

MCDiscountDto == [code : {"A"}, status : {"active"}, stores : {{s2}}]

Line(o, p, price) == [optionId |-> o, product |-> p, price |-> price]
MCGroupDto == {[categories |-> {c1}, options |-> <<Line(Null, p1, 1)>>],
               [categories |-> {c1, c2}, options |-> <<Line(Null, p1, 1), Line(Null, p1, 1)>>]}
MCGroupEdit == {[categories |-> {c2}, options |-> Null],
                [categories |-> {c1, c2}, options |-> <<Line(o1, p2, 2)>>],
                [categories |-> Null, options |-> <<Line(Null, p2, 2), Line(o1, p1, 2)>>],
                [categories |-> Null, options |-> Null]}

MCAmong == [a \in MCArea |-> IF a = {"products", "stores"} THEN 1..2 ELSE 1..3]

=============================================================================
