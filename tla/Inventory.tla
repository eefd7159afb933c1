----------------------------- MODULE Inventory -----------------------------
(***************************************************************************)
(* InventoriesService and PurchaseService: inventory items, the purchases  *)
(* of them, and the ledger of stock (stock_control) that a purchase adds a *)
(* row to.  All three are deleted by DELETE.  A purchase also names a      *)
(* store and a supplier; these do not change here.  An item names a store  *)
(* too, under no foreign key.                                              *)
(***************************************************************************)
EXTENDS Tables

CONSTANTS
    ItemTitle,  \* titles an item is given
    Quantity    \* quantities bought: any integer, so zero and less too

ItemRow(title) == [at |-> "live", title |-> title]
PurchaseRow(item, quantity) == [at |-> "live", item |-> item, quantity |-> quantity]
StockRow(item, purchase, added, deducted) ==
    [at |-> "live", item |-> item, purchase |-> purchase,
     addStock |-> added, deductStock |-> deducted]

CreatePurchaseDto == [item : Live("item"), quantity : Quantity]

InventoryReferences ==
    {[table |-> "purchase", column |-> "item", target |-> "item", rule |-> "refuse",
      optional |-> FALSE],
     [table |-> "stock", column |-> "item", target |-> "item", rule |-> "refuse",
      optional |-> FALSE],
     [table |-> "stock", column |-> "purchase", target |-> "purchase", rule |-> "cascade",
      optional |-> FALSE]}

-----------------------------------------------------------------------------
(* Items.                                                                  *)

CreateInventoryItem(r) ==
    \E title \in ItemTitle :
        /\ Begin(r, "ok", NoMem)
        /\ Inserts(r, Single(<<"item", r>>, ItemRow(title)))

EditInventoryItem(r) ==
    \E i \in Live("item"), title \in ItemTitle :
        /\ Begin(r, "entity.reload",
              Save(Single(<<"item", i>>, Assigned(Row("item", i), [title |-> title])), {"title"}))
        /\ UNCHANGED <<db, hist, faults>>

\* One DELETE, which purchases and ledger rows of any of the items refuse.
DeleteInventoryItems(r) ==
    \E ids \in SUBSET Ids("item") \ {{}} :
        /\ Begin(r, "ok", NoMem)
        /\ Removes(r, {"item"} \X ids)

-----------------------------------------------------------------------------
(* Purchases.                                                              *)

\* The look-ups of the item, the store and the supplier.
AddPurchase(r) ==
    \E dto \in CreatePurchaseDto :
        /\ Begin(r, "purchase.insert", [dto |-> dto])
        /\ UNCHANGED <<db, hist, faults>>

AddPurchaseInsert(r) ==
    /\ At(r, "purchase.insert")
    /\ LET dto == mem[r].dto
       IN  InsertThen(r, Single(<<"purchase", r>>, PurchaseRow(dto.item, dto.quantity)),
                      "stock.insert", <<>>)

\* What a slip would be: the quantity deducted.
AddPurchaseStockDeducted(r) ==
    /\ At(r, "stock.insert")
    /\ LET dto == mem[r].dto
       IN  InsertThen(r, Single(<<"stock", r>>, StockRow(dto.item, r, 0, dto.quantity)), "ok", NoMem)

\* The ledger row is a second statement: refused or lost, the purchase stays.
AddPurchaseStock(r) ==
    /\ At(r, "stock.insert")
    /\ LET dto == mem[r].dto
       IN  InsertThen(r, Single(<<"stock", r>>, StockRow(dto.item, r, dto.quantity, 0)), "ok", NoMem)

\* The purchase is read, what the body names is looked up, found or not, and
\* the row is saved whole.  The ledger is left as it is.
UpdatePurchase(r) ==
    \E p \in Live("purchase") :
        /\ Begin(r, "purchase.check", [dto |-> [id |-> p, row |-> Row("purchase", p)]])
        /\ UNCHANGED <<db, hist, faults>>

\* What a slip would be: the quantity is added to the one there was.
UpdatePurchaseCheckAdded(r) ==
    /\ At(r, "purchase.check")
    /\ \/ Reads(r, "error", NoMem)
       \/ \E dto \in CreatePurchaseDto :
            LET row == mem[r].dto.row
                sum == [dto EXCEPT !.quantity = @ + row.quantity]
            IN  Reads(r, "entity.reload",
                  Save(Single(<<"purchase", mem[r].dto.id>>, Assigned(row, sum)), DOMAIN dto))

UpdatePurchaseCheck(r) ==
    /\ At(r, "purchase.check")
    /\ \/ Reads(r, "error", NoMem)
       \/ \E dto \in CreatePurchaseDto :
            Reads(r, "entity.reload",
               Save(Single(<<"purchase", mem[r].dto.id>>, Assigned(mem[r].dto.row, dto)),
                    DOMAIN dto))

DeletePurchases(r) ==
    \E ids \in SUBSET Live("purchase") \ {{}} :
        /\ Begin(r, "purchase.delete", [dto |-> ids])
        /\ UNCHANGED <<db, hist, faults>>

\* The ledger rows of the purchases cascade.
DeletePurchasesDelete(r) ==
    /\ At(r, "purchase.delete")
    /\ RemoveThen(r, {"purchase"} \X (mem[r].dto \cap Ids("purchase")), "ok", NoMem)

InventoryOperation(r) ==
    \/ CreateInventoryItem(r) \/ EditInventoryItem(r) \/ DeleteInventoryItems(r)
    \/ AddPurchase(r) \/ AddPurchaseInsert(r) \/ AddPurchaseStock(r)
    \/ UpdatePurchase(r) \/ UpdatePurchaseCheck(r)
    \/ DeletePurchases(r) \/ DeletePurchasesDelete(r)

-----------------------------------------------------------------------------

\* Columns of items, purchases and ledger rows hold what the entities
\* declare.
InventoryTypeOK ==
    /\ \A p \in Ids("purchase") : /\ Row("purchase", p).item \in Ids("item")
                                   /\ Row("purchase", p).quantity \in Quantity
    /\ \A s \in Ids("stock") : Row("stock", s).addStock \in Quantity \cup {0}

\* A purchase that was answered, and that nobody changed or removed since, is
\* in the ledger exactly once, for its item, with its quantity added and
\* nothing deducted.  The ledger row is a statement of its own: the purchase
\* of a request that failed may have none, and one that was updated, or put
\* back by the save of an update, has the row it had, or none.
LedgerMatchesPurchases ==
    \A p \in Live("purchase") :
        LET past == hist[<<"purchase", p>>]
        IN  (/\ \A c \in {"at", "item", "quantity"} : past[c].by \in {p, Null}
             /\ p \in Request => step[p] = "ok")
            => {Row("stock", s) : s \in {t \in Ids("stock") : Row("stock", t).purchase = p}}
                 = {StockRow(Row("purchase", p).item, p, Row("purchase", p).quantity, 0)}

=============================================================================
