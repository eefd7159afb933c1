------------------------------- MODULE Sales -------------------------------
(***************************************************************************)
(* One sale under the requests of TransactionService and RefundService:    *)
(* the services composed over the rows and the connection pool they share. *)
(* MaxOpen bounds the requests under way at once, callbacks included: with *)
(* 1 a request begins only when nothing of the earlier ones is under way,  *)
(* which is what a single till that waits amounts to.  With SaleFirst they *)
(* address a sale whose POST /transaction has ended.                       *)
(***************************************************************************)
EXTENDS TransactionService, RefundService

CONSTANTS MaxOpen, SaleFirst

ASSUME OverlapAssumption == MaxOpen \in Nat \ {0} /\ SaleFirst \in BOOLEAN

vars == <<tableVars, serviceVars, refundVars>>

Init == TablesInit /\ ServiceInit /\ RefundInit

AddBusy == addStep \in {"items", "sum", "totals"}
EditBusy(e) == editStep[e] \notin {"idle", "ok", "error"}
DeleteBusy(d) == delStep[d] \in {"mark", "remove"}
RefundBusy(r) == Pending(r) # {} \/ refStep[r] \notin {"idle", "ok", "error", "dead"}

Open ==
    ({"edit"} \X {e \in Editor : EditBusy(e)})
      \cup ({"delete"} \X {d \in Deleter : DeleteBusy(d)})
      \cup ({"refund"} \X {r \in Refunder : RefundBusy(r)})

\* Nothing is under way.
Quiet == ~AddBusy /\ Open = {}

Turn ==
    /\ Cardinality(Open) < MaxOpen
    /\ (SaleFirst \/ MaxOpen = 1) => addStep \in {"ok", "error"}

AddStepsOf ==
    \/ AddSave
    \/ \E i \in Item : AddItem(i)
    \/ AddSum
    \/ AddTotals
    \/ AddFails

EditStepsOf(e) ==
    \/ EditRead(e) /\ Turn
    \/ EditLoadItem(e)
    \/ EditReload(e)
    \/ EditSaveItem(e)
    \/ EditSum(e)
    \/ EditTotals(e)
    \/ EditDrop(e)
    \/ EditHeaderReload(e)
    \/ EditHeaderSave(e)
    \/ EditFails(e)

DeleteStepsOf(d) ==
    \/ DeleteRead(d) /\ Turn
    \/ DeleteMark(d)
    \/ DeleteRemove(d)
    \/ DeleteFails(d)

RefundStepsOf(r) ==
    \/ RefundRead(r) /\ Turn
    \/ RefundCount(r)
    \/ RefundConnect(r)
    \/ RefundStart(r)
    \/ RefundInsert(r)
    \/ \E l \in Line : TaskUpdate(r, l) \/ TaskSave(r, l)
    \/ RefundPost(r)
    \/ RefundCommit(r)
    \/ RefundFails(r)
    \/ RefundRollback(r)
    \/ RefundDies(r)

\* Every request has been made and answered.
Finished ==
    /\ Quiet
    /\ addStep # "idle"
    /\ \A e \in Editor : editStep[e] # "idle"
    /\ \A d \in Deleter : delStep[d] # "idle"
    /\ \A r \in Refunder : refStep[r] # "idle"
    /\ UNCHANGED vars

Next ==
    \/ AddStepsOf /\ UNCHANGED refundVars
    \/ \E e \in Editor : EditStepsOf(e) /\ UNCHANGED refundVars
    \/ \E d \in Deleter : DeleteStepsOf(d) /\ UNCHANGED refundVars
    \/ \E r \in Refunder : RefundStepsOf(r) /\ UNCHANGED serviceVars
    \/ Finished

Spec == Init /\ [][Next]_vars

-----------------------------------------------------------------------------

\* Types of rows and requests.  Columns computed by sums are typed apart.
RowTypeOK ==
    /\ txn \in TransactionRow
    /\ item \in [Item -> ItemRow]
    /\ sold \in [Item -> [quantity : Nat, price : Nat]]
    /\ refund \in [Refunder -> Nat]
    /\ held \subseteq Refunder
    /\ addStep \in AddSteps
    /\ addCart \in Cart \cup {Null}
    /\ addLeft \subseteq Item
    /\ editStep \in [Editor -> EditSteps]
    /\ editDto \in [Editor -> EditDto \cup {Null}]
    /\ editItem \in [Editor -> ItemRow]
    /\ editDirty \in [Editor -> SUBSET (ItemColumn \cup
                        {"insert", "status", "totalValue", "refund"})]
    /\ delStep \in [Deleter -> DeleteSteps]
    /\ refStep \in [Refunder -> RefundSteps]
    /\ refNumber \in [Refunder -> Nat]
    /\ task \in [Refunder -> [Line -> TaskSteps]]

SumTypeOK ==
    /\ totalValue \in Int \cup {Null}
    /\ refundTotal \in Int
    /\ addSum \in Int \cup {Null}
    /\ editSum \in [Editor -> Int \cup {Null}]
    /\ \A r \in Refunder : RefundAmount(r) \in Int

\* The type invariant of the composed services.
TypeOK == RowTypeOK /\ SumTypeOK

-----------------------------------------------------------------------------

\* q is at least 0 and at most what some line of the sale was sold with.
WithinSold(q) == q \in Nat /\ \E i \in Item : q <= sold[i].quantity

\* What remains to refund of a line never falls below 0 and never exceeds
\* what was sold, whatever refunds, edits and removals overlap and fail:
\* updateTransactionItems writes absolute values from a stale read, and
\* save() may write a stale remainingQuantity back.
RemainingWithinSold == \A i \in Item : WithinSold(item[i].remainingQuantity)

\* Every amount in the refund column of the transaction is the sum of what
\* some set of refunds with a row of their own posted: overlapping stale
\* writes may lose postings but never make money up.
RefundExplained ==
    \E S \in SUBSET RefundRows :
        refundTotal = SumFunctionOnSet([r \in Refunder |-> SummaryValue(r)], S)

\* What each line of each refund takes back.
LineQuantity == [rl \in Refunder \X Line |-> lines[rl[1]][rl[2]].quantity]

\* The lines of the refunds with a row of their own that take back product p.
Taken(p) == {rl \in RefundRows \X Line : /\ rl[2] \in DOMAIN lines[rl[1]]
                                         /\ lines[rl[1]][rl[2]].product = p}

\* The lines of refunds with a row whose callback has written, or was lost.
WrittenLines == {rl \in RefundRows \X Line : task[rl[1]][rl[2]] \in {"save", "saved", "lost"}}

\* The quantity that remains of a line is what some line was sold with less
\* the quantities of some set of refund lines whose refund row exists.
RemainderExplained ==
    \A i \in Item : item[i].at \in {"live", "deleted"} =>
       \E j \in Item, S \in SUBSET WrittenLines :
          item[i].remainingQuantity
            = sold[j].quantity - SumFunctionOnSet(LineQuantity, S)

\* A refund row always has its transaction: the insert and the removal of
\* bulkDeleteTransactions exclude one another through the foreign key.
RefundHasTransaction == RefundRows # {} => txn.at # "gone"

-----------------------------------------------------------------------------
(* What the invariants above need besides themselves to be inductive: how  *)
(* the local variables of a request relate to the rows at each step.       *)

\* Lines still to insert were sold with nothing yet.
AddFacts ==
    /\ addStep = "idle" => \A i \in Item : sold[i].quantity = 0
    /\ addStep = "items" =>
         /\ addCart \in Cart
         /\ addLeft \subseteq DOMAIN addCart
         /\ \A i \in addLeft : sold[i].quantity = 0

\* A row that was never inserted has no transaction, any other a product.
ItemFacts ==
    \A i \in Item : /\ item[i].at = "none" => ~item[i].owned
                    /\ item[i].at # "none" => item[i].product \in Product

\* What an edit loaded: live rows, of which there are rows ever since.
EditFacts ==
    /\ DOMAIN editSeen = Editor
    /\ \A e \in Editor :
         /\ editStep[e] # "idle" => editDto[e] \in EditDto
         /\ editStep[e] \in {"item", "reload", "save"} =>
              editDto[e].transactionItemId \in Item
         /\ editStep[e] \in {"reload", "save"} =>
              /\ editItem[e].at = "live"
              /\ editItem[e].product \in Product
              /\ item[editDto[e].transactionItemId].at # "none"
         /\ editSeen[e].status \in Status
         /\ \A i \in Item \cap (editSeen[e].items \cup editSeen[e].gain) :
              item[i].at # "none"

\* What a refund validated, which its callbacks work from.
LineFact(line) ==
    /\ line.quantity \in Nat
    /\ line.remainingQuantity \in Nat
    /\ line.remainingAmount \in Int
    /\ line.quantity <= line.remainingQuantity

RefundFacts ==
    /\ DOMAIN lines = Refunder
    /\ \A r \in Refunder :
         /\ refStep[r] = "idle" => \A l \in Line : task[r][l] # "update"
         /\ \A l \in Line : task[r][l] = "update" => l \in DOMAIN lines[r]
         /\ \A l \in DOMAIN lines[r] : LineFact(lines[r][l])

\* Types and facts, inductive together.
RowInv == RowTypeOK /\ AddFacts /\ ItemFacts /\ EditFacts /\ RefundFacts

\* What remains of a line, where it is stored and where a request holds it.
RemainingInv ==
    /\ RemainingWithinSold
    /\ \A e \in Editor : editStep[e] \in {"reload", "save"} =>
          WithinSold(editItem[e].remainingQuantity)
    /\ \A r \in Refunder : \A l \in DOMAIN lines[r] :
          WithinSold(lines[r][l].remainingQuantity)

\* Amounts are integers wherever they are stored or held: quantities divide.
AmountInv ==
    /\ SumTypeOK
    /\ \A i \in Item : item[i].at # "none" => item[i].quantity > 0
    /\ \A e \in Editor :
         /\ editSeen[e].totalValue \in Int \cup {Null}
         /\ editSeen[e].refund \in Int
         /\ editStep[e] \in {"reload", "save"} => editItem[e].quantity > 0
    /\ DOMAIN refSeen = Refunder
    /\ \A r \in Refunder :
         /\ refSeen[r].refund \in Int
         /\ \A l \in DOMAIN lines[r] : l \in Line /\ lines[r][l].refundAmount \in Int

\* How far a refund is decides whether it has a row and which of its lines
\* have a callback.
ProgressInv ==
    \A r \in Refunder :
      /\ refStep[r] \in {"idle", "count", "connect", "start", "insert"} =>
           refund[r] = 0 /\ \A l \in Line : task[r][l] = "none"
      /\ refStep[r] \in {"connect", "start", "insert"} => refNumber[r] > 0
      /\ refStep[r] = "post" => refund[r] # 0
      /\ \A l \in Line : task[r][l] # "none" => l \in DOMAIN lines[r] /\ refund[r] # 0

\* An amount is paid back by some of the refunds in a set.
PaidBy(amount, rows) ==
    \E S \in SUBSET rows :
        amount = SumFunctionOnSet([r \in Refunder |-> SummaryValue(r)], S)

\* The amount paid back so far, where it is stored and where a request holds
\* it: what a refund read does not count its own row.
PaidInv ==
    /\ PaidBy(refundTotal, RefundRows)
    /\ \A e \in Editor : PaidBy(editSeen[e].refund, RefundRows)
    /\ \A r \in Refunder : PaidBy(refSeen[r].refund, RefundRows \ {r})

\* Lines still to insert have no row yet.
LeftFacts ==
    /\ addStep = "idle" => \A i \in Item : item[i].at = "none"
    /\ addStep = "items" => \A i \in addLeft : item[i].at = "none"

\* A quantity is what some line was sold with less what callbacks took back.
TakenFrom(q) ==
    \E i \in Item, S \in SUBSET WrittenLines :
       /\ item[i].at # "none"
       /\ q = sold[i].quantity - SumFunctionOnSet(LineQuantity, S)

\* What remains of a line, where it is stored and where a request holds it.
RemainderInv ==
    /\ \A i \in Item : item[i].at # "none" => TakenFrom(item[i].remainingQuantity)
    /\ \A e \in Editor : editStep[e] \in {"reload", "save"} =>
          TakenFrom(editItem[e].remainingQuantity)
    /\ \A r \in Refunder : \A l \in DOMAIN lines[r] :
          TakenFrom(lines[r][l].remainingQuantity)

-----------------------------------------------------------------------------

\* A removed sale leaves no item row that refers to it, soft-deleted ones
\* included, however its removal interleaves with saves of stale items.
ItemsHaveTransaction ==
    txn.at = "gone" => \A i \in Item : item[i].at \in {"live", "deleted"} => ~item[i].owned

\* Refunds between connect and the end of the inner try block, and those
\* that are over and keep a connection nobody will release.
Connected == {r \in Refunder : refStep[r] \in {"start", "insert", "post", "commit", "rollback"}}
Leaking == held \ Connected

\* Whatever overlaps, fails or dies, a refund keeps its connection until it
\* leaves the inner try block, and every way out of it gives it back: only a
\* refund that failed before it inserted its row leaks one, and no more are
\* leaked than there were failures.
ConnectionReleased ==
    /\ Connected \subseteq held
    /\ \A r \in Leaking : refStep[r] = "error" /\ refund[r] = 0
    /\ Cardinality(Leaking) <= faults

-----------------------------------------------------------------------------
(* The sale as SaleBook promises it, for requests that do not overlap.  A  *)
(* refund counts once both its item update and its transaction update are  *)
(* written: until then the book shows what the refund had read.            *)

Sold == addStep = "ok"

Unsettled ==
    {r \in RefundRows : refStep[r] = "post" \/ \E l \in Line : task[r][l] = "update"}

BookStage == IF ~Sold THEN "unsold" ELSE IF txn.at = "live" THEN "open" ELSE "withdrawn"

\* What the live lines of a product have left, refunds under way undone.
BookLeft ==
    [p \in Product |->
        LET undone == {rl \in Unsettled \X Line :
                         /\ rl[2] \in DOMAIN lines[rl[1]]
                         /\ lines[rl[1]][rl[2]].product = p}
        IN  IF BookStage # "open" THEN 0
            ELSE IF undone # {}
                 THEN LET rl == CHOOSE x \in undone : TRUE
                      IN  lines[rl[1]][rl[2]].remainingQuantity
            ELSE SumFunctionOnSet([i \in Item |-> item[i].remainingQuantity],
                                  {i \in LiveItems : item[i].product = p})]

BookLabel ==
    IF ~Sold THEN "pending"
    ELSE IF Unsettled # {} THEN refSeen[CHOOSE r \in Unsettled : TRUE].status
    ELSE txn.status

BookPaid ==
    IF Unsettled # {} THEN refSeen[CHOOSE r \in Unsettled : TRUE].refund ELSE refundTotal

BookDue == IF Sold THEN totalValue ELSE Null

Book == INSTANCE SaleBook WITH
    Label <- Status, stage <- BookStage, label <- BookLabel, left <- BookLeft,
    paid <- BookPaid, due <- BookDue

\* With one request at a time, one line per refund and one line per product
\* the services implement SaleBook: several statements without a common
\* database transaction add up to one step of the book.
ImplementsBook == Book!Spec

\* generateNumber over the day's count: requests that do not overlap never
\* give two refunds one number.
RefundNumbersDistinct ==
    \A r, s \in RefundRows : r # s => refund[r] # refund[s]

\* Whenever nothing is under way the books balance: the refund column is
\* the sum of the refund rows, and what remains of a line is what it was
\* sold with less what its refunds took back, whatever was edited since.
QuietLedger ==
    Quiet /\ Sold /\ txn.at = "live" =>
      /\ refundTotal = SumFunctionOnSet([r \in Refunder |-> RefundAmount(r)], RefundRows)
      /\ \A i \in LiveItems :
           item[i].remainingQuantity
             = sold[i].quantity - SumFunctionOnSet(LineQuantity, Taken(item[i].product))

Priced(row) ==
    /\ \E price \in PriceOf[row.product] : row.value = price * row.quantity
    /\ row.netPrice = row.value - row.discount

\* A line is priced as a product of its product's price and its quantity,
\* net of its discount, after any edit of the one, the other or both.
LinePriced == \A i \in LiveItems : Priced(item[i])

\* An edit struck lines off.
Struck == \E e \in Editor : editStep[e] # "idle" /\ editDto[e].deleteItem # {}

\* Between requests the stored total is the net price of the live lines,
\* as long as no edit struck a line off (deleteItem leaves the total stale).
TotalMatchesLines ==
    LET net == [i \in Item |-> item[i].value - item[i].discount]
    IN  Quiet /\ Sold /\ txn.at = "live" /\ ~Struck =>
          totalValue = SumFunctionOnSet(net, LiveItems)

-----------------------------------------------------------------------------
(* What the two need besides themselves to be inductive, with MaxOpen = 1. *)

\* At most one request is under way, and none beside POST /transaction.
SerialInv ==
    /\ \A x, y \in Open : x = y
    /\ Open # {} => addStep \in {"ok", "error"}

\* The numbers given so far are 1 to the count of the rows, and a number
\* about to be inserted is the one after.
NumberInv ==
    /\ RefundNumbersDistinct
    /\ \A r \in RefundRows : refund[r] <= Cardinality(RefundRows)
    /\ \A r \in Refunder :
         /\ refStep[r] \in {"idle", "count", "connect", "start", "insert"} => refund[r] = 0
         /\ refStep[r] \in {"connect", "start", "insert"} =>
              refNumber[r] = Cardinality(RefundRows) + 1

\* Lines are priced wherever they are: in a row, soft-deleted or of no
\* transaction too, and in memory, where an edit that is alone holds the
\* very row with its changes.
PriceInv ==
    /\ \A i \in Item : item[i].at \in {"live", "deleted"} => Priced(item[i])
    /\ \A e \in Editor : editStep[e] \in {"reload", "save"} =>
         LET row == item[editDto[e].transactionItemId]
         IN  /\ Priced(editItem[e])
             /\ row.at = "live"
             /\ editStep[e] = "save" =>
                  editDirty[e] = {c \in ItemColumn : editItem[e][c] # row[c]}

\* An edit works on a sale that is there.
EditsLive ==
    \A e \in Editor :
      /\ EditBusy(e) => txn.at = "live"
      /\ editStep[e] = "drop" => editDto[e].deleteItem # {}

\* The total is that of the lines except while the request that changed them
\* has still to compute it, and a header saved is the one read.
TotalInv ==
    ~Struck /\ txn.at = "live" =>
      /\ addStep \in {"sum", "totals", "ok"} => LiveItems # {}
      /\ addStep = "totals" => addSum = SumTransactionItemDetail
      /\ addStep = "ok" /\ (\A e \in Editor : editStep[e] \notin {"sum", "totals"}) =>
           totalValue = SumTransactionItemDetail
      /\ \A e \in Editor :
           /\ editStep[e] = "totals" => editSum[e] = SumTransactionItemDetail
           /\ editStep[e] \in {"headerReload", "headerSave"} =>
                editSeen[e].totalValue = totalValue /\ editSeen[e].items = LiveItems
           /\ editStep[e] = "headerSave" => editSeen[e].lose = {} /\ editSeen[e].gain = {}

-----------------------------------------------------------------------------
(* What the ledger and the refinement need besides, with MaxOpen = 1, no   *)
(* fault and requests that are plain: one line of a product in a sale, one *)
(* line in a refund, and edits that leave the product of a line alone.     *)

PlainRequests ==
    /\ \A c \in Cart : \A i, j \in DOMAIN c : c[i].product = c[j].product => i = j
    /\ \A dto \in EditDto : dto.product = Null
    /\ \A dto \in RefundDto : \A l, m \in DOMAIN dto : l = m

\* Nothing begins before POST /transaction has succeeded.
BegunInv ==
    /\ addStep # "error"
    /\ addStep # "idle" => addCart \in Cart
    /\ addStep # "ok" => /\ \A e \in Editor : editStep[e] = "idle"
                         /\ \A r \in Refunder : refStep[r] = "idle"
    /\ addStep \in {"items", "sum", "totals"} => txn.at = "live"

\* A row has the product it was sold as, so that no two rows share one.
CartInv ==
    \A i \in Item : item[i].at # "none" =>
       i \in DOMAIN addCart /\ item[i].product = addCart[i].product

\* An edit holds what remains of its line, and the columns of the header it
\* does not mean to change, as they are stored.
HeldInv ==
    \A e \in Editor :
      /\ editStep[e] \in {"reload", "save"} =>
           LET row == item[editDto[e].transactionItemId]
           IN  /\ editItem[e].product = row.product
               /\ editItem[e].remainingQuantity = row.remainingQuantity
      /\ editStep[e] \in {"drop", "headerReload", "headerSave"} =>
           /\ editSeen[e].totalValue = totalValue
           /\ editSeen[e].refund = refundTotal
           /\ LiveItems \subseteq editSeen[e].items
           /\ \A i \in editSeen[e].items : i \in Item /\ item[i].owned /\ item[i].at # "gone"
      /\ editStep[e] = "headerSave" =>
           editSeen[e].lose = {} /\ editSeen[e].gain \subseteq editSeen[e].items

\* A refund has one line, whose amount is a price of its product per unit.
LineInv ==
    \A r \in Refunder :
      /\ \A l, m \in DOMAIN lines[r] : l = m
      /\ \A l \in DOMAIN lines[r] :
           /\ lines[r][l].product \in Product
           /\ \E price \in PriceOf[lines[r][l].product] :
                lines[r][l].refundAmount = price * lines[r][l].quantity

\* A refund that has its update of the sale or of its line yet to write.
BeforePost(r) == refStep[r] \in {"count", "connect", "start", "insert", "post"}
Working(r) == BeforePost(r) \/ \E l \in Line : task[r][l] = "update"

\* It finds the rows as it read them, but for what it wrote itself.
HeaderAsRead(r) ==
    /\ txn.at = "live"
    /\ refSeen[r].status = "approved"
    /\ refSeen[r].totalValue = totalValue
    /\ BeforePost(r) => refundTotal = refSeen[r].refund /\ txn.status = "approved"
    /\ ~BeforePost(r) => /\ refStep[r] \in {"commit", "ok"}
                         /\ refundTotal = Paid(r)
                         /\ txn.status = StatusAfter(r)

LineAsRead(r, l) ==
    \E i \in LiveItems :
      /\ item[i].product = lines[r][l].product
      /\ item[i].remainingQuantity
           = IF task[r][l] \in {"save", "saved"} THEN LeftOf(lines[r][l])
             ELSE lines[r][l].remainingQuantity

WorkInv ==
    \A r \in Refunder : Working(r) =>
      HeaderAsRead(r) /\ \A l \in DOMAIN lines[r] : LineAsRead(r, l)

\* The books balance but for what is yet to be written.
Posted == {r \in RefundRows : refStep[r] # "post"}
Settled(p) == {rl \in Taken(p) : task[rl[1]][rl[2]] # "update"}

BooksInv ==
    /\ refundTotal = SumFunctionOnSet([r \in Refunder |-> RefundAmount(r)], Posted)
    /\ \A i \in LiveItems :
         item[i].remainingQuantity
           = sold[i].quantity - SumFunctionOnSet(LineQuantity, Settled(item[i].product))

LedgerInv == BegunInv /\ CartInv /\ HeldInv /\ LineInv /\ WorkInv /\ BooksInv

\* Until a refund has written the sale none of its callbacks is lost.
StartedInv ==
    \A r \in Refunder : refStep[r] = "post" =>
      \A l \in DOMAIN lines[r] : task[r][l] \in {"update", "save", "saved"}

-----------------------------------------------------------------------------
(* What a test title and a comment say of the service, and overlapping or  *)
(* failing requests contradict.                                            *)

\* "should throw not found exception when refund item quantity is more than
\* transaction item quantity": the units of a product that refunds took
\* back are never more than the units sold.  (Two refunds validated against
\* one remaining quantity take back more.)
RefundedWithinSold ==
    \A p \in Product :
        SumFunctionOnSet(LineQuantity, Taken(p))
          <= SumFunctionOnSet([i \in Item |-> sold[i].quantity],
                              {i \in Item : item[i].product = p})

\* "rollback transaction": a refund that went through the rollback leaves no
\* refund row.  (The row was inserted on another connection and stays.)
RollbackUndoes == \A r \in Refunder : refStep[r] = "error" => refund[r] = 0

-----------------------------------------------------------------------------
(* Progress.  A request goes on while the database answers: Node runs the  *)
(* continuation of every await, and PostgreSQL answers every statement,    *)
(* with a refusal where the model says so.                                 *)

RefundFlow(r) ==
    \/ RefundCount(r) \/ RefundConnect(r) \/ RefundStart(r) \/ RefundInsert(r)
    \/ RefundPost(r) \/ RefundCommit(r) \/ RefundRollback(r)
    \/ RefundFails(r) /\ UNCHANGED faults

Fairness ==
    /\ WF_vars(AddStepsOf /\ UNCHANGED <<faults, refundVars>>)
    /\ \A e \in Editor :
         WF_vars(EditBusy(e) /\ EditStepsOf(e) /\ UNCHANGED <<faults, refundVars>>)
    /\ \A d \in Deleter :
         WF_vars(DeleteBusy(d) /\ DeleteStepsOf(d) /\ UNCHANGED <<faults, refundVars>>)
    /\ \A r \in Refunder :
         /\ WF_vars(RefundFlow(r) /\ UNCHANGED serviceVars)
         /\ \A l \in Line : WF_vars((TaskUpdate(r, l) \/ TaskSave(r, l))
                                     /\ UNCHANGED serviceVars)

FairSpec == Spec /\ Fairness

\* Every refund that was begun is answered, as long as the pool keeps a
\* connection free beside those that open refunds keep.
RefundAnswered ==
    \A r \in Refunder :
        refStep[r] \notin {"idle", "ok", "error"} ~> refStep[r] \in {"ok", "error"}

\* A refund answered with success eventually has a row for each line, the
\* work of callbacks nobody awaits.
RefundItemised ==
    \A r \in Refunder :
        refStep[r] = "ok" ~> \A l \in DOMAIN lines[r] : task[r][l] = "saved"

=============================================================================
