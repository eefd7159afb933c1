------------------------ MODULE TransactionService ------------------------
(***************************************************************************)
(* The requests of TransactionService that write: addTransaction,          *)
(* editTransaction, deleteTransaction and bulkDeleteTransactions.  Each    *)
(* action is the code between two awaits on the database, so requests      *)
(* interleave exactly where the service yields.  TypeORM's save() of a     *)
(* loaded entity takes two actions, as the library does it: it reloads the *)
(* row and keeps the columns that differ, then it writes those columns.    *)
(***************************************************************************)
EXTENDS SaleTables

CONSTANTS
    Cart,         \* item lists of the POST /transaction bodies considered
    StatusInput,  \* statuses a body may carry
    PriceOf,      \* the prices each product may show when it is read
    Editor,       \* the PUT /transaction/:id requests made on the sale
    EditDto,      \* their bodies
    Deleter       \* the DELETE and bulk-delete requests made on the sale

ASSUME PriceAssumption == PriceOf \in [Product -> (SUBSET Nat) \ {{}}]
ASSUME StatusAssumption == StatusInput \subseteq Status
ASSUME CartAssumption ==
    \A c \in Cart : /\ DOMAIN c \in (SUBSET Item) \ {{}}
                    /\ \A i \in DOMAIN c :
                         c[i] \in [product : Product, quantity : Nat \ {0},
                                   discount : Nat, isRefund : BOOLEAN]
ASSUME EditAssumption ==
    EditDto \subseteq [transactionItemId : Item \cup {Null}, product : Product \cup {Null},
                       quantity : (Nat \ {0}) \cup {Null}, isRefund : BOOLEAN \cup {Null},
                       deleteItem : SUBSET Item, status : Status \cup {Null}]

VARIABLES
    addStep,   \* step of the request that creates the sale
    addCart,   \* its item list
    addLeft,   \* the lines its loop has still to insert
    addSum,    \* sum it read for the totals
    editStep,  \* step of each edit request
    editDto,   \* its body
    editSeen,  \* transaction row and live items it loaded, relation changes due
    editItem,  \* item row it holds in memory
    editDirty, \* columns its save() is about to write
    editSum,   \* sum it read for the totals
    delStep    \* step of each delete request

addVars == <<addStep, addCart, addLeft, addSum>>
editVars == <<editStep, editDto, editSeen, editItem, editDirty, editSum>>
serviceVars == <<addVars, editVars, delStep>>

AddSteps == {"idle", "items", "sum", "totals", "ok", "error"}
EditSteps == {"idle", "item", "reload", "save", "sum", "totals", "drop",
             "headerReload", "headerSave", "ok", "error"}
DeleteSteps == {"idle", "mark", "remove", "ok", "error"}

NoSeen == [status |-> "pending", totalValue |-> Null, refund |-> 0, items |-> {},
           lose |-> {}, gain |-> {}]

ServiceInit ==
    /\ addStep = "idle"
    /\ addCart = Null
    /\ addLeft = {}
    /\ addSum = Null
    /\ editStep = [e \in Editor |-> "idle"]
    /\ editDto = [e \in Editor |-> Null]
    /\ editSeen = [e \in Editor |-> NoSeen]
    /\ editItem = [e \in Editor |-> NoItem]
    /\ editDirty = [e \in Editor |-> {}]
    /\ editSum = [e \in Editor |-> Null]
    /\ delStep = [d \in Deleter |-> "idle"]

-----------------------------------------------------------------------------

\* The line addTransaction builds from one element of the body's list.
NewItem(line, price) ==
    [at |-> "live", owned |-> TRUE, product |-> line.product,
     quantity |-> line.quantity, value |-> price * line.quantity,
     discount |-> line.discount, netPrice |-> price * line.quantity - line.discount,
     remainingQuantity |-> line.quantity, remainingAmount |-> price * line.quantity,
     isRefund |-> line.isRefund]

(* addTransaction.  The customer, store and staff lookups come before any  *)
(* write: a body that fails one of them leaves no trace and is not begun.  *)

AddSave ==
    /\ addStep = "idle"
    /\ FreeConnection
    /\ \E cart \in Cart, status \in StatusInput :
         /\ addCart' = cart
         /\ addLeft' = DOMAIN cart
         /\ txn' = [at |-> "live", status |-> status]
    /\ addStep' = "items"
    /\ UNCHANGED <<addSum, totalValue, refundTotal, item, sold, refund, held, faults>>
    /\ UNCHANGED <<editVars, delStep>>

\* One turn of the loop: find the product, insert the line.
AddItem(i) ==
    /\ addStep = "items"
    /\ i \in addLeft
    /\ txn.at # "gone"
    /\ FreeConnection
    /\ \E price \in PriceOf[addCart[i].product] :
         /\ item' = [item EXCEPT ![i] = NewItem(addCart[i], price)]
         /\ sold' = [sold EXCEPT ![i] =
                       [quantity |-> addCart[i].quantity, price |-> price]]
    /\ addLeft' = addLeft \ {i}
    /\ addStep' = IF addLeft = {i} THEN "sum" ELSE "items"
    /\ UNCHANGED <<addCart, addSum, txn, totalValue, refundTotal, refund, held, faults>>
    /\ UNCHANGED <<editVars, delStep>>

AddSum ==
    /\ addStep = "sum"
    /\ FreeConnection
    /\ addSum' = SumTransactionItemDetail
    /\ addStep' = "totals"
    /\ UNCHANGED <<addCart, addLeft, tableVars, editVars, delStep>>

AddTotals ==
    /\ addStep = "totals"
    /\ FreeConnection
    /\ TransactionUpdate(addSum)
    /\ addStep' = "ok"
    /\ UNCHANGED <<addCart, addLeft, addSum, txn, refundTotal, item, sold, refund, held, faults>>
    /\ UNCHANGED <<editVars, delStep>>

\* A product that does not exist, a statement that fails (always, once the
\* transaction row was removed under the loop) or the death of the process:
\* the rows inserted so far stay.
AddFails ==
    /\ addStep \in {"items", "sum", "totals"}
    /\ \/ Fault
       \/ addStep = "items" /\ txn.at = "gone" /\ UNCHANGED faults
    /\ addStep' = "error"
    /\ UNCHANGED <<addCart, addLeft, addSum, rowVars, held, editVars, delStep>>

-----------------------------------------------------------------------------
(* editTransaction.                                                        *)

\* The catalogue and the transaction with its live items are read; an
\* absent transaction ends the request, and the body selects the path: a
\* body with an item returns after that item and ignores its other fields.
EditRead(e) ==
    /\ editStep[e] = "idle"
    /\ FreeConnection
    /\ \E dto \in EditDto :
         /\ editDto' = [editDto EXCEPT ![e] = dto]
         /\ editStep' = [editStep EXCEPT ![e] =
              IF txn.at # "live" THEN "error"
              ELSE IF dto.transactionItemId # Null THEN "item"
              ELSE IF dto.deleteItem # {} THEN "drop"
              ELSE "headerReload"]
         /\ editSeen' = [editSeen EXCEPT ![e] =
              [status |-> IF dto.status = Null THEN txn.status ELSE dto.status,
               totalValue |-> totalValue, refund |-> refundTotal, items |-> LiveItems,
               lose |-> {}, gain |-> {}]]
    /\ UNCHANGED <<editItem, editDirty, editSum, tableVars, addVars, delStep>>

\* Mutant of Amended: a new quantity alone keeps the old values.
AmendedUnpriced(row, dto, price) ==
    LET priced == [row EXCEPT !.product = dto.product, !.value = price * row.quantity,
                              !.netPrice = price * row.quantity - row.discount]
        amended == IF dto.product = Null THEN row ELSE priced
    IN  [amended EXCEPT !.quantity = IF dto.quantity = Null THEN @ ELSE dto.quantity,
                        !.isRefund = IF dto.isRefund = Null THEN @ ELSE dto.isRefund]

\* The loaded line with the body's fields: price and quantity give the
\* values again; what remains to refund is not touched.
Amended(row, dto, price) ==
    LET flagged == IF dto.isRefund = Null THEN row
                   ELSE [row EXCEPT !.isRefund = dto.isRefund]
        product == IF dto.product = Null THEN row.product ELSE dto.product
        quantity == IF dto.quantity = Null THEN row.quantity ELSE dto.quantity
    IN  IF dto.product = Null /\ dto.quantity = Null THEN flagged
        ELSE [flagged EXCEPT !.product = product, !.quantity = quantity,
                             !.value = price * quantity,
                             !.netPrice = price * quantity - row.discount]

EditLoadItem(e) ==
    /\ editStep[e] = "item"
    /\ FreeConnection
    /\ LET i == editDto[e].transactionItemId
           p == IF editDto[e].product = Null THEN item[i].product ELSE editDto[e].product
       IN  IF item[i].at = "live"
           THEN /\ \E price \in PriceOf[p] :
                     editItem' = [editItem EXCEPT ![e] = Amended(item[i], editDto[e], price)]
                /\ editStep' = [editStep EXCEPT ![e] = "reload"]
           ELSE /\ editStep' = [editStep EXCEPT ![e] = "error"]
                /\ UNCHANGED editItem
    /\ UNCHANGED <<editDto, editSeen, editDirty, editSum, tableVars, addVars, delStep>>

\* save(item), first half: reload by id, soft-deleted rows included, and keep
\* the columns that differ; a row that is not there will be inserted.
EditReload(e) ==
    /\ editStep[e] = "reload"
    /\ FreeConnection
    /\ LET row == item[editDto[e].transactionItemId]
       IN  editDirty' = [editDirty EXCEPT ![e] =
             IF row.at = "gone" THEN {"insert"}
             ELSE {c \in ItemColumn : editItem[e][c] # row[c]}]
    /\ editStep' = [editStep EXCEPT ![e] = "save"]
    /\ UNCHANGED <<editDto, editSeen, editItem, editSum, tableVars, addVars, delStep>>

\* The insertion a save() decided on meets a row with its id again.
KeyTaken(e) ==
    /\ "insert" \in editDirty[e]
    /\ \/ editStep[e] = "save" /\ item[editDto[e].transactionItemId].at # "gone"
       \/ editStep[e] = "headerSave" /\ txn.at # "gone"

\* save(item), second half: the columns are written with the values held in
\* memory.  An inserted row belongs to no transaction.
EditSaveItem(e) ==
    /\ editStep[e] = "save"
    /\ ~KeyTaken(e)
    /\ FreeConnection
    /\ LET i == editDto[e].transactionItemId
           row == item[i]
           mem == editItem[e]
           Written(c) == IF c \in editDirty[e] THEN mem[c] ELSE row[c]
       IN  CASE "insert" \in editDirty[e] ->
                  item' = [item EXCEPT ![i] = [mem EXCEPT !.owned = FALSE]]
             [] "insert" \notin editDirty[e] /\ row.at = "gone" -> UNCHANGED item
             [] OTHER -> item' = [item EXCEPT ![i] =
                  [row EXCEPT !.at = Written("at"), !.product = Written("product"),
                              !.quantity = Written("quantity"), !.value = Written("value"),
                              !.discount = Written("discount"),
                              !.netPrice = Written("netPrice"),
                              !.remainingQuantity = Written("remainingQuantity"),
                              !.remainingAmount = Written("remainingAmount"),
                              !.isRefund = Written("isRefund")]]
    /\ editStep' = [editStep EXCEPT ![e] = "sum"]
    /\ UNCHANGED <<txn, totalValue, refundTotal, sold, refund, held, faults, addVars, delStep>>
    /\ UNCHANGED <<editDto, editSeen, editItem, editDirty, editSum>>

EditSum(e) ==
    /\ editStep[e] = "sum"
    /\ FreeConnection
    /\ editSum' = [editSum EXCEPT ![e] = SumTransactionItemDetail]
    /\ editStep' = [editStep EXCEPT ![e] = "totals"]
    /\ UNCHANGED <<editDto, editSeen, editItem, editDirty, tableVars, addVars, delStep>>

EditTotals(e) ==
    /\ editStep[e] = "totals"
    /\ FreeConnection
    /\ TransactionUpdate(editSum[e])
    /\ editStep' = [editStep EXCEPT ![e] = "ok"]
    /\ UNCHANGED <<txn, refundTotal, item, sold, refund, held, faults, addVars, delStep>>
    /\ UNCHANGED <<editDto, editSeen, editItem, editDirty, editSum>>

\* deleteTransactionItem: an UPDATE that stamps deletedAt, no total follows.
EditDrop(e) ==
    /\ editStep[e] = "drop"
    /\ FreeConnection
    /\ item' = [i \in Item |->
         IF i \in editDto[e].deleteItem /\ item[i].at = "live"
         THEN [item[i] EXCEPT !.at = "deleted"] ELSE item[i]]
    /\ editStep' = [editStep EXCEPT ![e] = "headerReload"]
    /\ UNCHANGED <<txn, totalValue, refundTotal, sold, refund, held, faults, addVars, delStep>>
    /\ UNCHANGED <<editDto, editSeen, editItem, editDirty, editSum>>

\* save(transaction), first half.  The loaded list of items is compared with
\* the rows that reference the transaction: lines it lacks are let go of,
\* lines only it has are claimed.
EditHeaderReload(e) ==
    /\ editStep[e] = "headerReload"
    /\ FreeConnection
    /\ LET seen == editSeen[e]
       IN  /\ editDirty' = [editDirty EXCEPT ![e] =
                IF txn.at = "gone" THEN {"insert"}
                ELSE {c \in {"at", "status", "totalValue", "refund"} :
                        \/ c = "at" /\ txn.at # "live"
                        \/ c = "status" /\ txn.status # seen.status
                        \/ c = "totalValue" /\ totalValue # seen.totalValue
                        \/ c = "refund" /\ refundTotal # seen.refund}]
           /\ editSeen' = [editSeen EXCEPT ![e] =
                [status |-> seen.status, totalValue |-> seen.totalValue,
                 refund |-> seen.refund, items |-> seen.items,
                 lose |-> LiveItems \ seen.items, gain |-> seen.items \ LiveItems]]
    /\ editStep' = [editStep EXCEPT ![e] = "headerSave"]
    /\ UNCHANGED <<editDto, editItem, editSum, tableVars, addVars, delStep>>

\* save(transaction), second half: one database transaction.
EditHeaderSave(e) ==
    /\ editStep[e] = "headerSave"
    /\ ~KeyTaken(e)
    /\ FreeConnection
    /\ LET seen == editSeen[e]
           insert == "insert" \in editDirty[e]
           Writes(c) == insert \/ (c \in editDirty[e] /\ txn.at # "gone")
       IN  /\ txn' = [at |-> IF Writes("at") THEN "live" ELSE txn.at,
                      status |-> IF Writes("status") THEN seen.status ELSE txn.status]
           /\ totalValue' = IF Writes("totalValue") THEN seen.totalValue ELSE totalValue
           /\ refundTotal' = IF Writes("refund") THEN seen.refund ELSE refundTotal
           /\ item' = [i \in Item |->
                IF i \in seen.lose THEN [item[i] EXCEPT !.owned = FALSE]
                ELSE IF i \in seen.gain /\ txn'.at # "gone"
                     THEN [item[i] EXCEPT !.owned = (item[i].at # "gone")]
                ELSE item[i]]
    /\ editStep' = [editStep EXCEPT ![e] = "ok"]
    /\ UNCHANGED <<sold, refund, held, faults, addVars, delStep>>
    /\ UNCHANGED <<editDto, editSeen, editItem, editDirty, editSum>>

\* A failing statement (an insertion over a taken id always fails) or the
\* death of the process: what was written stays.
EditFails(e) ==
    /\ editStep[e] \notin {"idle", "ok", "error"}
    /\ Fault \/ (KeyTaken(e) /\ UNCHANGED faults)
    /\ editStep' = [editStep EXCEPT ![e] = "error"]
    /\ UNCHANGED <<editDto, editSeen, editItem, editDirty, editSum>>
    /\ UNCHANGED <<rowVars, held, addVars, delStep>>

-----------------------------------------------------------------------------
(* deleteTransaction (soft) and bulkDeleteTransactions (remove) of the     *)
(* sale's id.                                                              *)

DeleteRead(d) ==
    /\ delStep[d] = "idle"
    /\ FreeConnection
    /\ \E next \in {"mark", "remove"} :
         delStep' = [delStep EXCEPT ![d] = IF txn.at = "live" THEN next ELSE "error"]
    /\ UNCHANGED <<tableVars, addVars, editVars>>

DeleteMark(d) ==
    /\ delStep[d] = "mark"
    /\ FreeConnection
    /\ txn' = [txn EXCEPT !.at = IF txn.at = "gone" THEN "gone" ELSE "deleted"]
    /\ delStep' = [delStep EXCEPT ![d] = "ok"]
    /\ UNCHANGED <<totalValue, refundTotal, item, sold, refund, held, faults, addVars, editVars>>

\* Mutant of DeleteRemove: no foreign key from the refund rows.
DeleteRemoveUnchecked(d) ==
    /\ delStep[d] = "remove"
    /\ FreeConnection
    /\ delStep' = [delStep EXCEPT ![d] = "ok"]
    /\ txn' = [txn EXCEPT !.at = "gone"]
    /\ item' = [i \in Item |->
         IF item[i].owned THEN [item[i] EXCEPT !.at = "gone"] ELSE item[i]]
    /\ UNCHANGED <<totalValue, refundTotal, sold, refund, held, faults, addVars, editVars>>

\* Mutant of DeleteRemove: only the items that are not soft-deleted go.
DeleteRemoveLive(d) ==
    /\ delStep[d] = "remove"
    /\ FreeConnection
    /\ RefundRows = {}
    /\ delStep' = [delStep EXCEPT ![d] = "ok"]
    /\ txn' = [txn EXCEPT !.at = "gone"]
    /\ item' = [i \in Item |->
         IF i \in LiveItems THEN [item[i] EXCEPT !.at = "gone"] ELSE item[i]]
    /\ UNCHANGED <<totalValue, refundTotal, sold, refund, held, faults, addVars, editVars>>

\* DELETE of the row: its items go with it (ON DELETE CASCADE), and a refund
\* row that references it (a foreign key without action) refuses it.
DeleteRemove(d) ==
    /\ delStep[d] = "remove"
    /\ FreeConnection
    /\ IF RefundRows # {}
       THEN /\ delStep' = [delStep EXCEPT ![d] = "error"]
            /\ UNCHANGED <<txn, item>>
       ELSE /\ delStep' = [delStep EXCEPT ![d] = "ok"]
            /\ txn' = [txn EXCEPT !.at = "gone"]
            /\ item' = [i \in Item |->
                 IF item[i].owned THEN [item[i] EXCEPT !.at = "gone"] ELSE item[i]]
    /\ UNCHANGED <<totalValue, refundTotal, sold, refund, held, faults, addVars, editVars>>

DeleteFails(d) ==
    /\ delStep[d] \in {"mark", "remove"}
    /\ Fault
    /\ delStep' = [delStep EXCEPT ![d] = "error"]
    /\ UNCHANGED <<rowVars, held, addVars, editVars>>

=============================================================================
