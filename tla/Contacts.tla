------------------------------ MODULE Contacts ------------------------------
(***************************************************************************)
(* CustomersService and SupplierService.  Both keep a row of contact       *)
(* information beside their own, written with it by a cascading save.      *)
(* Customers are deleted by a date, suppliers by DELETE.  A store is named *)
(* by a body or left as it is; stores do not change here.                  *)
(***************************************************************************)
EXTENDS Accounts

CONSTANTS
    PersonDto,   \* bodies: [email, mobile]
    PersonEdit   \* bodies of an edit: some of email, mobile, store, text

CustomerRow(store, text) == [at |-> "live", store |-> store, text |-> text]
SupplierRow(store, text) == [at |-> "live", store |-> store, text |-> text]
ContactReferences ==
    {[table |-> "contact", column |-> t, target |-> t, rule |-> "cascade", optional |-> TRUE] :
       t \in {"customer", "supplier"}}
    \cup {[table |-> "customer", column |-> "store", target |-> "store", rule |-> "refuse",
           optional |-> FALSE],
          [table |-> "supplier", column |-> "store", target |-> "store", rule |-> "refuse",
           optional |-> TRUE]}

ContactOf(t, i) == CHOOSE c \in Ids("contact") : Row("contact", c)[t] = i

\* The rows an edit holds: the store is not loaded, the key of the contact
\* information is set by the cascade.
HeldPerson(t, i, values) == Assigned(Only(Row(t, i), {"at", "text"}), values)
\* What a slip would be: nor is the key of the contact information.
HeldContactLoose(t, c, values) ==
    Assigned(Only(Row("contact", c), {"at", "email", "mobile"}), values)
HeldContact(t, c, values) ==
    Assigned(Only(Row("contact", c), {"at", "email", "mobile", t}), values)
Part(dto, columns) == Only(dto, DOMAIN dto \cap columns)

\* What a slip would be: a text the body leaves out is emptied.
EditedHeldWhole(t, i, dto) ==
    LET c == ContactOf(t, i)
    IN  Over(Single(<<t, i>>,
                    HeldPerson(t, i, Over(Part(dto, {"store", "text"}), [text |-> ""]))),
             Single(<<"contact", c>>, HeldContact(t, c, Part(dto, {"email", "mobile"}))))

EditedHeld(t, i, dto) ==
    LET c == ContactOf(t, i)
    IN  Over(Single(<<t, i>>, HeldPerson(t, i, Part(dto, {"store", "text"}))),
             Single(<<"contact", c>>, HeldContact(t, c, Part(dto, {"email", "mobile"}))))

-----------------------------------------------------------------------------

AddPerson(r, t) ==
    \E dto \in PersonDto, s \in Live("store") :
        /\ Begin(r, "person.insert", [dto |-> Over(dto, [store |-> s, table |-> t])])
        /\ UNCHANGED <<db, hist, faults>>

InsertPerson(r, t, row, mobile) ==
    /\ At(r, "person.insert") /\ mem[r].dto.table = t
    /\ InsertThen(r, WithContact(t, row, mem[r].dto.email, mobile), "ok", NoMem)

EditPerson(r, t, columns) ==
    \E i \in Live(t), dto \in PersonEdit :
        LET values == Part(dto, columns)
        IN  /\ Begin(r, "person.reload", Save(EditedHeld(t, i, values), DOMAIN values))
            /\ UNCHANGED <<db, hist, faults>>

PersonReload(r) ==
    /\ At(r, "person.reload")
    /\ Reload(r, "person.write")

PersonWrite(r) ==
    /\ At(r, "person.write")
    /\ Write(r, "ok", NoMem)

-----------------------------------------------------------------------------
(* Customers.  The number goes under a name the entity does not have.      *)

AddCustomer(r) == AddPerson(r, "customer")
AddCustomerInsert(r) ==
    InsertPerson(r, "customer", CustomerRow(mem[r].dto.store, "new"), Null)
EditCustomer(r) == EditPerson(r, "customer", {"email", "store", "text"})

\* One at least is found; the date is set on all that were named.
DeleteCustomers(r) ==
    \E ids \in SUBSET Ids("customer") :
        /\ ids \cap Live("customer") # {}
        /\ Begin(r, "customer.mark", [dto |-> ids])
        /\ UNCHANGED <<db, hist, faults>>

DeleteCustomersMark(r) ==
    /\ At(r, "customer.mark")
    /\ Updates(r, {"customer"} \X mem[r].dto, Deleted)
    /\ Goto(r, "ok", NoMem)

CustomerOperation(r) ==
    \/ AddCustomer(r) \/ AddCustomerInsert(r) \/ EditCustomer(r)
    \/ DeleteCustomers(r) \/ DeleteCustomersMark(r)

-----------------------------------------------------------------------------
(* Suppliers.                                                              *)

AddSupplier(r) == AddPerson(r, "supplier")
AddSupplierInsert(r) ==
    InsertPerson(r, "supplier", SupplierRow(mem[r].dto.store, "new"), mem[r].dto.mobile)
EditSupplier(r) == EditPerson(r, "supplier", {"email", "mobile", "store", "text"})

RemoveSuppliers(r) ==
    \E ids \in SUBSET Ids("supplier") \ {{}} :
        /\ Begin(r, "supplier.remove", [dto |-> ids])
        /\ UNCHANGED <<db, hist, faults>>

RemoveSuppliersDelete(r) ==
    /\ At(r, "supplier.remove")
    /\ RemoveThen(r, {"supplier"} \X (mem[r].dto \cap Ids("supplier")), "ok", NoMem)

SupplierOperation(r) ==
    \/ AddSupplier(r) \/ AddSupplierInsert(r) \/ EditSupplier(r)
    \/ RemoveSuppliers(r) \/ RemoveSuppliersDelete(r)

=============================================================================
