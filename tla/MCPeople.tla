------------------------------ MODULE MCPeople ------------------------------
(* Two users, a customer, a deleted customer and a supplier in one of two  *)
(* stores.                                                                 *)
EXTENDS People

StoreRows == (<<"store", 1>> :> [at |-> "live"]) @@ (<<"store", 2>> :> [at |-> "live"])
UserRows ==
    (<<"user", 1>> :> UserRow("ann", "hash", "active"))
    @@ (<<"contact", 1>> :> ContactRow("user", 1, "a@", "01"))
    @@ (<<"user", 2>> :> UserRow("bob", "hash", "active"))
    @@ (<<"contact", 2>> :> ContactRow("user", 2, "b@", "02"))
PersonRows ==
    StoreRows
    @@ (<<"customer", 1>> :> CustomerRow(1, "old"))
    @@ (<<"contact", 1>> :> ContactRow("customer", 1, "c@", Null))
    @@ (<<"customer", 2>> :> Assigned(CustomerRow(1, "old"), Deleted))
    @@ (<<"contact", 2>> :> ContactRow("customer", 2, "d@", Null))
    @@ (<<"supplier", 1>> :> SupplierRow(1, "old"))
    @@ (<<"contact", 3>> :> ContactRow("supplier", 1, "e@", "05"))

MCRows ==
    ({"sessions", "users"} :> UserRows)
    @@ ({"customers"} :> PersonRows)
    @@ ({"suppliers"} :> PersonRows)
    @@ ({"users", "customers", "suppliers"} :> (StoreRows @@ UserRows))
MCArea == DOMAIN MCRows
MCSignedIn == [a \in MCArea |-> IF "sessions" \in a THEN [u \in 1..5 |-> IF u = 1 THEN 0 ELSE Null]
                        ELSE <<>>]
MCAmong == [a \in MCArea |-> 1..3]

MCUserDto == {[email |-> "x@", mobile |-> "07", username |-> "cat"],
              [email |-> "x@", mobile |-> "08", username |-> "dan"]}
MCPersonDto == {[email |-> "x@", mobile |-> "07"]}
MCPersonEdit == {[email |-> "y@", text |-> "new"], [mobile |-> "09", store |-> 2]}

\* One customer came before the only user.
FirstArea == {{"sessions", "users", "customers"}}
FirstRows == [a \in FirstArea |-> StoreRows]
FirstSignedIn == [a \in FirstArea |-> [u \in 1..3 |-> Null]]
FirstPersonDto == {[email |-> "z@", mobile |-> "09"]}
FirstAmong == [a \in FirstArea |-> 1..3]

=============================================================================
