---------------------------- MODULE SaleTables ----------------------------
(***************************************************************************)
(* The database rows of one sale: its transaction_entity row, its          *)
(* transaction_item_entity rows and the refund_transactions rows written   *)
(* for it, with the pool of database connections every request shares.     *)
(*                                                                         *)
(* A column computed by a SUM or from one (totalValue and refund of the    *)
(* transaction) is a variable of its own.  totalCost and totalDiscount     *)
(* are written by the same statements as totalValue and are left out.      *)
(***************************************************************************)
EXTENDS Integers, FiniteSets, Functions

CONSTANTS
    Item,       \* ids of the transaction_item_entity rows of the sale
    Product,    \* product ids
    Refunder,   \* the POST /refund requests made on the sale
    PoolSize,   \* connections of the pool of one application process
    Null,       \* SQL NULL, and an absent optional field of a DTO
    MaxFaults   \* bound on failing statements and dying processes

ASSUME PoolAssumption == PoolSize \in Nat \ {0}
ASSUME RefunderAssumption == IsFiniteSet(Refunder)
ASSUME ItemAssumption == IsFiniteSet(Item)
ASSUME MaxFaultsAssumption == MaxFaults \in Nat
ASSUME NullAssumption == Null \notin Int /\ Null \notin Product /\ Null \notin Item

VARIABLES
    txn,          \* presence and status of the transaction row
    totalValue,   \* its totalValue column
    refundTotal,  \* its refund column (NULL adds like 0 in the service)
    item,         \* the item rows
    sold,         \* history: quantity and unit price each line was sold with
    refund,       \* number of the refund row a request inserted, 0 if none
    held,         \* requests that keep a connection for an open transaction
    faults        \* faults so far

rowVars == <<txn, totalValue, refundTotal, item, sold, refund>>
tableVars == <<rowVars, held, faults>>

Status == {"approved", "pending", "refunded", "fail", "completed", "void", "parked"}

\* "deleted" is a soft delete (deletedAt set), "gone" a removed row.
Presence == {"none", "live", "deleted", "gone"}

TransactionRow == [at : Presence, status : Status]

ItemRow == [at : Presence, owned : BOOLEAN, product : Product \cup {Null},
            quantity : Int, value : Int, discount : Int, netPrice : Int,
            remainingQuantity : Int, remainingAmount : Int, isRefund : BOOLEAN]

NoItem == [at |-> "none", owned |-> FALSE, product |-> Null, quantity |-> 0,
           value |-> 0, discount |-> 0, netPrice |-> 0, remainingQuantity |-> 0,
           remainingAmount |-> 0, isRefund |-> FALSE]

\* Columns that a save() of a loaded item compares and writes back.  The
\* owning transaction is a relation the loaded item does not carry.
ItemColumn == {"at", "product", "quantity", "value", "discount", "netPrice",
               "remainingQuantity", "remainingAmount", "isRefund"}

TablesInit ==
    /\ txn = [at |-> "none", status |-> "pending"]
    /\ totalValue = Null
    /\ refundTotal = 0
    /\ item = [i \in Item |-> NoItem]
    /\ sold = [i \in Item |-> [quantity |-> 0, price |-> 0]]
    /\ refund = [r \in Refunder |-> 0]
    /\ held = {}
    /\ faults = 0

-----------------------------------------------------------------------------

\* Items findTransactionById joins: of this transaction, not soft-deleted.
LiveItems == {i \in Item : item[i].at = "live" /\ item[i].owned}

\* Mutant of the sum: the gross values instead of the net prices.
GrossSum ==
    IF LiveItems = {} THEN Null
    ELSE SumFunctionOnSet([i \in Item |-> item[i].value], LiveItems)

\* SUM(netPrice) over the live items of the transaction: NULL over no row.
SumTransactionItemDetail ==
    IF LiveItems = {} THEN Null
    ELSE SumFunctionOnSet([i \in Item |-> item[i].netPrice], LiveItems)

\* UPDATE transaction_entity SET totalValue WHERE id: no row, no effect.
TransactionUpdate(sum) ==
    totalValue' = IF txn.at = "gone" THEN totalValue ELSE sum

\* The refund rows of the sale, all of today, and their count.
RefundRows == {r \in Refunder : refund[r] # 0}

\* Mutant of the count: the day's range matches no row.
CountOfAnotherDay == 0

FindQuantityRefundToday == Cardinality(RefundRows)

\* A statement outside a request's own transaction takes a free connection.
FreeConnection == Cardinality(held) < PoolSize

\* The environment makes a statement fail or ends a process.
Fault == faults < MaxFaults /\ faults' = faults + 1

=============================================================================
