--------------------------- MODULE RefundService ---------------------------
(***************************************************************************)
(* RefundService.create, one action per step between two awaits.  The      *)
(* service opens a transaction on a connection of its own and then makes   *)
(* every write through repositories that use other connections, so commit  *)
(* and rollback end an empty transaction.  The writes of the lines run in  *)
(* callbacks nobody awaits: they are tasks beside the request's main flow. *)
(***************************************************************************)
EXTENDS SaleTables

CONSTANTS
    Line,       \* positions of the item list of a refund body
    RefundDto   \* the item lists considered

ASSUME RefundAssumption ==
    /\ IsFiniteSet(Line)
    /\ \A dto \in RefundDto : /\ DOMAIN dto \subseteq Line
                              /\ \A l \in DOMAIN dto :
                                   dto[l] \in [product : Product, quantity : Nat]

VARIABLES
    refStep,   \* step of each refund request
    lines,     \* its validated lines with what they read
    refSeen,   \* status, totalValue and refund of the transaction it read
    refNumber, \* the number it will insert
    task       \* progress of the callback of each of its lines

refundVars == <<refStep, lines, refSeen, refNumber, task>>

RefundSteps == {"idle", "count", "connect", "start", "insert", "post", "commit",
                "rollback", "ok", "error", "dead"}
TaskSteps == {"none", "update", "save", "saved", "lost"}

NoLines == [l \in {} |-> Null]

RefundInit ==
    /\ refStep = [r \in Refunder |-> "idle"]
    /\ lines = [r \in Refunder |-> NoLines]
    /\ refSeen = [r \in Refunder |-> [status |-> "pending", totalValue |-> Null, refund |-> 0]]
    /\ refNumber = [r \in Refunder |-> 0]
    /\ task = [r \in Refunder |-> [l \in Line |-> "none"]]

\* refund_amount: the sum over the validated lines.
RefundAmount(r) ==
    SumFunction([l \in DOMAIN lines[r] |-> lines[r][l].refundAmount])

\* summaryValue when the transaction is updated: every callback has added
\* the whole amount once.
SummaryValue(r) == Cardinality(DOMAIN lines[r]) * RefundAmount(r)

\* Mutant of Enough: the quantity sold instead of what remains.
EnoughOfSold(line, row) == line.quantity <= row.quantity

\* The validation of one line: what is asked for is still there.
Enough(line, row) == line.quantity <= row.remainingQuantity

\* Only an approved transaction takes a refund; its mutant forgets the status.
RefundableInAnyStatus == txn.at = "live"
Refundable == txn.at = "live" /\ txn.status = "approved"

\* The refund column and status the transaction is given; the mutants forget
\* the earlier refunds, and name a status the enumeration lacks.
PaidThisTime(r) == SummaryValue(r)
Paid(r) == refSeen[r].refund + SummaryValue(r)
StatusPartial(r) == "partially_refunded"
StatusAfter(r) == IF refSeen[r].totalValue = Paid(r) THEN "refunded" ELSE "approved"

\* What a callback leaves of its line.
LeftOf(line) == line.remainingQuantity - line.quantity

\* A transaction item as the line of a refund body: its unit value and what
\* is left of it.
ValidLine(line, row) ==
    [product |-> line.product, quantity |-> line.quantity,
     refundAmount |-> (row.value \div row.quantity) * line.quantity,
     remainingQuantity |-> row.remainingQuantity,
     remainingAmount |-> row.remainingAmount]

-----------------------------------------------------------------------------

\* Reads the transaction and validates each line against the first loaded
\* item of its product (no order is asked of the database).
RefundRead(r) ==
    /\ refStep[r] = "idle"
    /\ FreeConnection
    /\ \E dto \in RefundDto, first \in [Product -> Item] :
         LET Found(l) == first[dto[l].product] \in LiveItems
                         /\ item[first[dto[l].product]].product = dto[l].product
             valid == /\ Refundable
                      /\ \A l \in DOMAIN dto :
                           Found(l) /\ Enough(dto[l], item[first[dto[l].product]])
         IN  /\ \A l \in DOMAIN dto : \A i \in LiveItems :
                  item[i].product = dto[l].product => Found(l)
             /\ refStep' = [refStep EXCEPT ![r] = IF valid THEN "count" ELSE "error"]
             /\ lines' = [lines EXCEPT ![r] =
                  IF valid THEN [l \in DOMAIN dto |->
                                   ValidLine(dto[l], item[first[dto[l].product]])]
                  ELSE NoLines]
    /\ refSeen' = [refSeen EXCEPT ![r] =
         [status |-> txn.status, totalValue |-> totalValue, refund |-> refundTotal]]
    /\ UNCHANGED <<refNumber, task, tableVars>>

\* generateNumber over the count of today's refunds.
RefundCount(r) ==
    /\ refStep[r] = "count"
    /\ FreeConnection
    /\ refNumber' = [refNumber EXCEPT ![r] = FindQuantityRefundToday + 1]
    /\ refStep' = [refStep EXCEPT ![r] = "connect"]
    /\ UNCHANGED <<lines, refSeen, task, tableVars>>

\* Mutant of RefundConnect: the callbacks start before the refund row.
RefundConnectEager(r) ==
    /\ refStep[r] = "connect"
    /\ FreeConnection
    /\ held' = held \cup {r}
    /\ task' = [task EXCEPT ![r] =
         [l \in Line |-> IF l \in DOMAIN lines[r] THEN "update" ELSE "none"]]
    /\ refStep' = [refStep EXCEPT ![r] = "start"]
    /\ UNCHANGED <<rowVars, faults>>
    /\ UNCHANGED <<lines, refSeen, refNumber>>

\* createQueryRunner, connect: a connection of the pool is kept.
RefundConnect(r) ==
    /\ refStep[r] = "connect"
    /\ FreeConnection
    /\ held' = held \cup {r}
    /\ refStep' = [refStep EXCEPT ![r] = "start"]
    /\ UNCHANGED <<rowVars, faults>>
    /\ UNCHANGED <<lines, refSeen, refNumber, task>>

\* startTransaction on the kept connection, the last step before the block
\* whose finally releases it.
RefundStart(r) ==
    /\ refStep[r] = "start"
    /\ refStep' = [refStep EXCEPT ![r] = "insert"]
    /\ UNCHANGED <<rowVars, held, faults>>
    /\ UNCHANGED <<lines, refSeen, refNumber, task>>

\* Mutant of RefundInsert: only one line gets its callback.
RefundInsertOneTask(r) ==
    /\ refStep[r] = "insert"
    /\ FreeConnection
    /\ txn.at # "gone"
    /\ refund' = [refund EXCEPT ![r] = refNumber[r]]
    /\ \E first \in DOMAIN lines[r] :
         task' = [task EXCEPT ![r][first] = "update"]
    /\ refStep' = [refStep EXCEPT ![r] = "post"]
    /\ UNCHANGED <<txn, totalValue, refundTotal, item, sold, held, faults>>
    /\ UNCHANGED <<lines, refSeen, refNumber>>

\* Inserts the refund row, then starts the callback of every line.
RefundInsert(r) ==
    /\ refStep[r] = "insert"
    /\ FreeConnection
    /\ txn.at # "gone"
    /\ refund' = [refund EXCEPT ![r] = refNumber[r]]
    /\ task' = [task EXCEPT ![r] =
         [l \in Line |-> IF l \in DOMAIN lines[r] THEN "update" ELSE "none"]]
    /\ refStep' = [refStep EXCEPT ![r] = "post"]
    /\ UNCHANGED <<txn, totalValue, refundTotal, item, sold, held, faults>>
    /\ UNCHANGED <<lines, refSeen, refNumber>>

\* updateTransactionItems sets absolute values, computed from what was read,
\* on every item row of the transaction and product, soft-deleted ones too.
\* With nothing left the amount is 0/0, which the integer column refuses.
TaskUpdate(r, l) ==
    /\ task[r][l] = "update"
    /\ FreeConnection
    /\ lines[r][l].remainingQuantity # 0
    /\ LET line == lines[r][l]
           Hit(i) == /\ item[i].at \in {"live", "deleted"}
                     /\ item[i].owned
                     /\ item[i].product = line.product
       IN  item' = [i \in Item |->
             IF Hit(i)
             THEN [item[i] EXCEPT
                     !.remainingQuantity = LeftOf(line),
                     !.remainingAmount =
                        (line.remainingAmount \div line.remainingQuantity) * LeftOf(line),
                     !.isRefund = (LeftOf(line) = 0)]
             ELSE item[i]]
    /\ task' = [task EXCEPT ![r][l] = "save"]
    /\ UNCHANGED <<txn, totalValue, refundTotal, sold, refund, held, faults>>
    /\ UNCHANGED <<refStep, lines, refSeen, refNumber>>

\* The refund item row of the line.
TaskSave(r, l) ==
    /\ task[r][l] = "save"
    /\ FreeConnection
    /\ task' = [task EXCEPT ![r][l] = "saved"]
    /\ UNCHANGED <<refStep, lines, refSeen, refNumber, tableVars>>

\* updateTransaction: refund and status from what was read.
RefundPost(r) ==
    /\ refStep[r] = "post"
    /\ FreeConnection
    /\ refundTotal' = Paid(r)
    /\ txn' = [txn EXCEPT !.status = StatusAfter(r)]
    /\ refStep' = [refStep EXCEPT ![r] = "commit"]
    /\ UNCHANGED <<totalValue, item, sold, refund, held, faults>>
    /\ UNCHANGED <<lines, refSeen, refNumber, task>>

\* commitTransaction on the kept connection, its release, the answer.
RefundCommit(r) ==
    /\ refStep[r] = "commit"
    /\ held' = held \ {r}
    /\ refStep' = [refStep EXCEPT ![r] = "ok"]
    /\ UNCHANGED <<rowVars, faults>>
    /\ UNCHANGED <<lines, refSeen, refNumber, task>>

\* Mutant of RefundFails: nobody catches what fails inside the inner try
\* block, and nobody answers.
RefundFailsUncaught(r) ==
    /\ \/ refStep[r] \in {"count", "connect", "start", "insert", "post", "commit"} /\ Fault
       \/ refStep[r] = "insert" /\ txn.at = "gone" /\ UNCHANGED faults
    /\ refStep' = [refStep EXCEPT ![r] =
         IF refStep[r] \in {"count", "connect", "start"} THEN "error" ELSE "dead"]
    /\ UNCHANGED <<lines, refSeen, refNumber, task, rowVars, held>>

\* A statement of the main flow fails; the insert always does when the
\* transaction row is gone.  Before the inner try block the outer catch alone
\* answers: after a startTransaction that fails nobody releases the
\* connection, which stays held.
RefundFails(r) ==
    /\ \/ refStep[r] \in {"count", "connect", "start", "insert", "post", "commit"} /\ Fault
       \/ refStep[r] = "insert" /\ txn.at = "gone" /\ UNCHANGED faults
    /\ refStep' = [refStep EXCEPT ![r] =
         IF refStep[r] \in {"count", "connect", "start"} THEN "error" ELSE "rollback"]
    /\ UNCHANGED <<lines, refSeen, refNumber, task, rowVars, held>>

\* Mutants of RefundRollback: no release, and a rollback that reaches the
\* refund row but not the writes of the callbacks and of the main flow.
RefundRollbackKeeping(r) ==
    /\ refStep[r] = "rollback"
    /\ refStep' = [refStep EXCEPT ![r] = "error"]
    /\ UNCHANGED <<rowVars, faults, held>>
    /\ UNCHANGED <<lines, refSeen, refNumber, task>>

RefundRollbackErasing(r) ==
    /\ refStep[r] = "rollback"
    /\ held' = held \ {r}
    /\ refund' = [refund EXCEPT ![r] = 0]
    /\ refStep' = [refStep EXCEPT ![r] = "error"]
    /\ UNCHANGED <<txn, totalValue, refundTotal, item, sold, faults>>
    /\ UNCHANGED <<lines, refSeen, refNumber, task>>

\* rollbackTransaction, release, 422: the callbacks go on.
RefundRollback(r) ==
    /\ refStep[r] = "rollback"
    /\ held' = held \ {r}
    /\ refStep' = [refStep EXCEPT ![r] = "error"]
    /\ UNCHANGED <<rowVars, faults>>
    /\ UNCHANGED <<lines, refSeen, refNumber, task>>

Pending(r) == {l \in Line : task[r][l] \in {"update", "save"}}

\* The process dies with whatever of the request is under way, for a reason
\* of its own or because a callback's rejection is handled by nobody.
RefundDies(r) ==
    /\ \/ Fault
       \/ /\ \E l \in Pending(r) : /\ task[r][l] = "update"
                                    /\ lines[r][l].remainingQuantity = 0
          /\ UNCHANGED faults
    /\ Pending(r) # {} \/ refStep[r] \notin {"idle", "ok", "error", "dead"}
    /\ refStep' = [refStep EXCEPT ![r] = IF @ \in {"ok", "error"} THEN @ ELSE "dead"]
    /\ task' = [task EXCEPT ![r] =
         [l \in Line |-> IF l \in Pending(r) THEN "lost" ELSE task[r][l]]]
    /\ held' = held \ {r}
    /\ UNCHANGED rowVars
    /\ UNCHANGED <<lines, refSeen, refNumber>>

=============================================================================
