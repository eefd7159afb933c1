# Orderna API: formal models

Orderna is a point-of-sale back end: a NestJS (TypeScript) process over PostgreSQL
through TypeORM 0.3.20, with session records in Redis. This directory holds TLA+
models of it, the TLC configurations that check them and the proofs TLAPS checks.

- [Inventory](#inventory): the parts, their state, how they interact
- [Modules](#modules): what models what
- [Modelling decisions](#modelling-decisions)
- [Runs](#runs): what each shows, its bounds
- [Fairness](#fairness)
- [Theorems](#theorems)
- [What the models say of the code](#what-the-models-say-of-the-code)
- [What is not modelled](#what-is-not-modelled)
- [Plan](#plan)

Paths below are relative to `src/src/` of the repository.

## Inventory

| Component | State it keeps | Operations that write | What makes it correct |
|---|---|---|---|
| Transactions (`transaction/`) | `transaction_entity` (status, totals, refund, deletedAt), `transaction_item_entity` (quantity, value, netPrice, remaining quantity and amount) | add, edit (items, strike lines, header), soft delete, bulk removal | lines priced by their product and quantity; totals match the lines; lines never refer to a sale that is gone |
| Refunds (`refund/`) | `refund_transactions`, `refund_items`; updates the rows of the sale | create | never more taken back than sold; the refund column explained by refund rows; one number per refund; a failed refund leaves nothing; connections come back |
| Discounts (`discount/`) | discounts, a row per store that offers one, redemptions | create, update, status, remove, record a redemption (which always fails) | one live code per discount; a deletion takes the stores' rows along |
| Sessions (`auth/`, `redis/`) | one Redis record per user (access and refresh token, 3600 s), users | sign up, sign in, refresh, log out | a record that was logged out stays out; a refresh token is good once |
| Users (`user/`) | users and contact information | create, update (which always fails), delete, bulk delete | unique name and contact; each user has one row of contact information |
| Customers (`customer/`) | customers and contact information | create, edit, delete | an edit loses nobody else's write unless they overlap |
| Suppliers (`supplier/`) | suppliers and contact information | create, update, remove | the same |
| Inventory (`inventory/`) | stock items, purchases, a ledger row per purchase | create, update, delete of each | the ledger agrees with the purchases |
| Catalogue (`product/`, `category/`, `modifier-groups/`) | products, categories, modifier groups, their options and category links | create, update, delete | multi-statement updates leave no half-linked group |
| Stores (`store/`) | stores and opening hours per day | stores: create, update, removal; hours: upsert of a day, update, removal | one row per store and day |
| Cash drawer (`cash-drawer/`) | registers, cash in and out | open, close, add cash | open and closed alternate; cash moves only in an open register |
| Attendance (`attendance/`, with `break/` and `wage/`) | attendances, breaks, wages; photos in `uploads/` | create, edit, delete of each; photos written, and unlinked by calls nobody awaits | an attendance that names a photo has it; a request cannot end the process |
| Schema migrations (`db/migrations/`) | the tables and keys of the database, the table of recorded migrations | run, revert, schema synchronisation | the record tells what is in the database; a revert takes nothing that was there before; every migration can run |
| Analytics (`analytics/`, `dashboard-analytics/`) | none | none: SQL aggregation | sums over the rows others write |
| Infrastructure (`main.ts`, `configs/`, `db/`, `common/`) | the connection pool | none | no request keeps a connection |

How they interact. One Node process serves HTTP requests; each handler is a chain of
awaits, and the code between two awaits runs without interruption, so requests
interleave at awaits only. Requests share nothing in memory but the pool of
database connections: they meet in the rows. Transactions and refunds meet in the
rows of a sale: a refund reads the sale and its lines, writes the remaining
quantity of the lines, then the refund column and status of the sale; an edit
reads and saves the same lines and header; a deletion stamps or removes them. The
refund number couples all refunds of a day. Customers, stores, users and products
are looked up before a sale is written. The other services each look rows up, hold
them across awaits and `save()` them whole. Users, customers and suppliers meet in the
table of contact information, which has its own ids and one unique-address check for
users only; signing in, refreshing and logging out meet in a user's Redis record.

What is hard. There are no locks and, with one exception, no database
transactions around several statements, so everything a handler has read is stale
at its next await. The exception is `RefundService.create`, whose transaction is
opened on one connection and whose writes are made on others. Its line updates
run in callbacks of `map` that nobody awaits: they outlive the answer, and their
rejection ends the process. The unlinking of photos is left to itself in
the same way. Failures and process deaths leave any prefix of a
handler's statements behind. Nothing is retried and nothing times out in the code.

## Modules

| Module | Stands for |
|---|---|
| `SaleTables` | the rows of one sale, the pool, faults, the two SQL aggregates the services use |
| `TransactionService` | the writing requests of `transaction/transaction.service.ts` |
| `RefundService` | `RefundService.create` and its un-awaited callbacks |
| `SaleBook` | the abstract specification: what a sale promises, one action per request |
| `Sales` | the two services over the same rows; the properties; the mapping to `SaleBook` |
| `SalesProofs` | the theorems about `Sales`, the refinement of `SaleBook` among them, and the theory of sums they need |
| `Tables` | what the other services share: rows by key, deletion by a date, foreign keys and unique columns, requests that interleave at each await, `save()` as two statements, and the history the properties speak of |
| `Discounts`, `Stores`, `Menu` | the writing requests of `discount/`; of `store/`; of `category/`, `product/` and `modifier-groups/` |
| `TablesProofs` | the lemmas that the proofs about `Catalogue`, `People` and `Operations` share: what each statement does to a column and to its history, what a request in the middle of a `save()` still knows |
| `Catalogue` | these three over the tables they share |
| `CatalogueProofs`, `CatalogueRules` | the theorems about writes lost to overlapping requests and about types; those about what the services look up before they write, days and codes, and about the children of what was deleted |
| `Accounts`, `Contacts` | `auth/`, `redis/` and `user/`; `customer/` and `supplier/` |
| `People` | these two over the users', customers' and suppliers' contact information and the sessions |
| `PeopleProofs`, `ContactsProofs` | the theorems about sessions; about people and their contact information |
| `Inventory`, `CashDrawer`, `Attendance` | the writing requests of `inventory/`; of `cash-drawer/`; of `attendance/` with breaks, wages and the files of the photos |
| `Operations` | these three |
| `OperationsProofs` | the theorems about the stock ledger, about writes lost to overlapping requests, about the photos of attendances and about types |
| `SchemaFiles`, `EntityKeys`, `Migrations` | the statements and the turns of the files in `db/migrations/`; the foreign keys of the entities; `migration:run`, `migration:revert` and schema synchronisation over both |
| `MigrationsProofs` | the theorems about `Migrations` |
| `MCSales`, `MCCatalogue`, `MCPeople`, `MCOperations`, `MCMigrations` | the rows found at first and the bodies of the bounded instances |

### State and actions of sales and refunds

| Variable | In the code |
|---|---|
| `txn` | presence (`live`; `deleted` = deletedAt set; `gone` = row removed) and `status` of the transaction row |
| `totalValue`, `refundTotal` | its columns `totalValue` and `refund` |
| `item` | the item rows; `owned` is the foreign key to the sale |
| `sold` | history: what each line was inserted with |
| `refund` | the number of the refund row a request has inserted |
| `held`, `PoolSize` | query runners not yet released, size of the pool |
| `addStep`, `addCart`, `addLeft`, `addSum` | program counter and locals of `addTransaction` |
| `editStep`, `editDto`, `editSeen`, `editItem`, `editDirty`, `editSum` | of each `editTransaction`, with the entity in memory and the columns its `save()` found to differ |
| `delStep` | of each `deleteTransaction` or `bulkDeleteTransactions` |
| `refStep`, `lines`, `refSeen`, `refNumber`, `task` | of each `RefundService.create`: `lines` is `validRefundItems`, `task` its callbacks |

Each action is the code from one await to the next.

| Request | Actions, in order |
|---|---|
| `addTransaction` | `AddSave`; `AddItem` per line; `AddSum`; `AddTotals`; `AddFails` |
| `editTransaction`, a body with an item | `EditRead`, `EditLoadItem`, `EditReload`, `EditSaveItem`, `EditSum`, `EditTotals` |
| `editTransaction`, other bodies | `EditRead`, (`EditDrop`,) `EditHeaderReload`, `EditHeaderSave`; `EditFails` at any step |
| `deleteTransaction`, `bulkDeleteTransactions` | `DeleteRead`, then `DeleteMark` or `DeleteRemove`; `DeleteFails` |
| `RefundService.create` | `RefundRead`, `RefundCount`, `RefundConnect`, `RefundStart`, `RefundInsert`, `RefundPost`, `RefundCommit`; `RefundFails` then `RefundRollback` |
| its callbacks | `TaskUpdate`, `TaskSave` per line, beside the main flow from `RefundInsert` on |
| the process dies | `RefundDies`, `AddFails`, `EditFails`, `DeleteFails` |

`Next` also has `Finished`, a stutter once every request has been answered, so that
TLC's deadlock check is on in every run: a refund that waits for a connection for
ever is a deadlock. So have the other compositions.

### State and actions over `Tables`

| Variable | In the code |
|---|---|
| `db` | every row the tables hold, by `<<table, id>>`: the columns the properties tell apart; `at` is `"deleted"` where `deletedAt` is set |
| `step`, `mem` | where a request is, and what its handler holds across the await: the body (`dto`), the entities in memory (`rows`), which of their columns the body set (`meant`), which differ from the tables (`dirty`) |
| `faults` | statements that failed and processes that died |
| `met`, `hist` | history: which requests were open together; for each column the value last asked for, by whom, and who wrote it last |
| `session`, `auth` (`Accounts`) | the pair of tokens in each user's Redis record; history of what each request did to one |
| `files`, `now`, `unlinks` (`Attendance`) | the photos in `uploads/`, the millisecond of the last, the unlink calls under way; `shared`, `taken`, `lost` are their history |
| `area` | which services are considered together in a behaviour; it never changes |

An action is again the code from one await to the next, and carries the name of the
method, with the await's purpose after it:

| Requests | Actions |
|---|---|
| add, update, delete a discount | `AddDiscount` to `AddDiscountLinks`; `UpdateDiscount` to `UpdateDiscountLinks`; `DeleteDiscount(s)` to `DeleteDiscountLinks`; `ChangeDiscountStatus`; `AddDiscountTransaction` |
| stores, opening hours | `CreateStore`, `UpdateStore`, `RemoveStores`, `RemoveStoresDelete`; `CreateHours` to `CreateHoursInsert`, `UpdateHours` to `HoursWrite`, `RemoveHours` |
| categories, products | `AddCategory`, `EditCategory`, `DeleteCategory`, `AddProduct`, `EditProduct`, `DeleteProduct` and their steps |
| modifier groups | `AddModifier`, `UpdateModifier` (attachments replaced, options one at a time, the group last) and `DeleteModifier` with their steps |
| users | `Signup`, `SignupName`, `AddUser`, `UserInsert`, `UpdateUser`, `RemoveUsers`, `RemoveUsersDelete` |
| sessions | `SignIn`, `SignInUser`, `SignInSave`; `Refresh`, `RefreshSave`; `Logout`, `LogoutDelete`; `Expires` |
| customers, suppliers | `AddCustomer`, `EditCustomer`, `DeleteCustomers`, `AddSupplier`, `EditSupplier`, `RemoveSuppliers` and their steps |
| inventory | `CreateInventoryItem`, `EditInventoryItem`, `DeleteInventoryItems`; `AddPurchase` to `AddPurchaseStock`, `UpdatePurchase`, `UpdatePurchaseCheck`, `DeletePurchases` |
| cash drawer | `OpenRegister`, `CloseRegister`, `AddCashManagement`, `EditCashManagement` |
| attendance | `AddAttendance`, `EditAttendance`, `DeleteAttendances` and their steps; `UnlinkDone`, `UnlinkFails`; `AddEntry`, `EditEntry`, `DeleteEntry` for breaks and wages |
| every request | `Fails` at any step; `EntityReload`, `EntityWrite` where it ends in one `save()` |

`Migrations` keeps the tables found at first (`existing`), the committed schema, the rows
of the table of migrations in the order of their ids (`recorded`), the files checked out
and the transaction of a run under way with its own view of schema and rows; `Execute` is
one statement, `Commit` the last, `Refused` a statement PostgreSQL does not accept,
`Dies` an interruption, `SyncSchema` a start script, `Checkout` a later version.

## Modelling decisions

Code under `src/` is translated; what TypeORM, PostgreSQL and Node do is modelled
from how that code uses them.

- `find*` and select query builders skip soft-deleted rows; update query builders
  do not look at `deletedAt`. `RefundRead` filters, `TaskUpdate` does not.
- `save()` of a loaded entity reloads it by id, soft-deleted rows included, and then
  writes the columns that differ: two actions each. A stale save can therefore
  restore a soft-deleted row, insert a removed one, and, with the one-to-many list
  of items loaded by `findTransactionById`, attach or detach item rows.
- Foreign keys follow the entities: an item goes with its transaction (cascade), a
  refund row keeps its transaction from being removed. (The migrations differ: the
  refund migration has no such column, the item one lacks the remaining columns.)
- The un-awaited callbacks run on Node 20, where an unhandled rejection ends the
  process. `RefundDies` models both this and an external death; it ends that request
  and its callbacks. Other requests of the process die by their own action, each counted as a
  fault: a death that several requests share takes as many faults. The runs have one
  fault; the theorems hold for any number, so for every combination of survivors.
- The pool has a limit (10 by default) and no timeout: a statement outside a query
  runner needs `FreeConnection`.
- `connect()` and `startTransaction()` are two awaits before the block whose `finally`
  releases (`RefundConnect`, `RefundStart`). A fault in the second leaves the
  connection in `held` for good; that a later death of the process closes it is left out.
- Prices, quantities and amounts are integers. A unit value is `value \div quantity`,
  which is exact while a line's value is a product of its quantity, as `LinePriced`
  states. Refund quantities include 0: the DTO only asks that a quantity be present.
  With nothing left of a line and a quantity of 0 the remaining amount is 0/0, NaN,
  which the integer column refuses; nobody handles that rejection (`RefundDies`).
- One sale is modelled: requests on different sales meet only in the day's count of
  refunds. All refunds are of one day. Look-ups before the first write
  (customer, store, staff) leave no trace and are not begun when they fail.
- "The first item of the product" has no order in SQL: `RefundRead` picks any.
- A body with items makes `editTransaction` return after its first item, whatever else
  it holds (`EditRead` chooses one path). Header fields other than the status are left
  out, as is `totalCost` and `totalDiscount`, which the same statements write.
- Over `Tables` a row made by a request has the request's name for an id, except
  users, customers, suppliers and contact information, whose serial ids the code
  confuses: they are numbered per table (`NextId`). A request that its first look-ups
  turn away writes nothing and is not begun. A lookup that leaves a relation out
  leaves the column out of the memory too, so `save()` cannot put it back.
- `TablesInit` takes rows that earlier requests left; they have no writer in `hist`.
- A photo is named by the millisecond it is written in (`Date.now()` in the file name of
  the upload), a number here; two photos of one body may share it. All considered
  have one extension.
- `changeDiscountStatus` is reached by no route; it is modelled as the service's public
  method it is. A redemption ends in an error whatever the look-ups find
  (`discount/discount.service.ts:299` reads `.data` of an object without it), so the
  limits never have anything to count. Updating a user saves an object without an id
  and without the required name: an insert that is always refused.
- A user's password is the hash of it after a sign-up and the plain text after the
  administrator's form, and only the first can sign in (`SignInUser`).
- Tokens are named after the request that made the pair; Redis' hour is `Expires`, at
  any moment. A failed write to Redis is a fault like any other.
- TypeORM sorts migrations by the 13 digits that end the name of the class, not by the name
  of the file. Each file of `SchemaFiles` has its rank there as `turn`; `Due` are the
  pending files of the least one. `init-attendance`, seventh by its file name, comes second
  (`InitAttendance1720412472354`); `init-discount_transactions` shares its number with
  `init-stores`, and either may go first.
- Versions of the program held the files in the order of their file names, which is what
  `VersionAssumption` needs: no file from the seventh on without `init-attendance`.
- `Migrations` keeps of a table only the columns that some key is on. A type PostgreSQL does
  not know (`intvarchareger` in `init-stores`, `datetime` in `init-refund`) makes
  a `CreateUntyped`, which is always refused.
- `sync-schema` makes the tables, columns and keys of the entities and drops other keys on
  their tables. The databases found at first have any of the sets of tables in `Existing`,
  with the entities' keys between them, as a synchronisation would leave them.
- `package.json` has the scripts `migration:run` and `migration:revert`, but they call a
  script `typeorm` that is missing. `RunBegin` and `RevertBegin` are these commands given
  to one of the three scripts that exist (`npm run typeorm:dev migration:run`).
- `MaxOpen` bounds the edits, deletions and refunds under way at once; with `SaleFirst`
  they address a sale whose creation has ended.

## Runs

| Run | Question | Properties | Bounds |
|---|---|---|---|
| `concurrent` | Do overlapping refunds and an edit, with a fault anywhere, keep what remains within what was sold, amounts explained by refunds, and connections but for one a failure? | `TypeOK`, `RemainingWithinSold`, `RefundExplained`, `RemainderExplained`, `ConnectionReleased` | 2 refunds, 1 edit, 2 lines, 2 open, 1 fault, pool of 3 |
| `removal` | Do foreign keys hold when the sale is deleted or removed under a refund and two edits? | `RefundHasTransaction`, `ItemsHaveTransaction` | 1 refund, 2 edits, 1 deletion, 3 open, 1 fault |
| `serial` | With one request at a time, do the services implement `SaleBook` and do the books balance? | `RefundNumbersDistinct`, `QuietLedger`, `LinePriced`, `TotalMatchesLines`, `ImplementsBook` | 3 refunds, 2 edits, 1 deletion, prices that move, 2 statuses, 2 carts |
| `progress` | Is every refund answered, and are its lines written, when the sale may be deleted meanwhile? | `RefundAnswered`, `RefundItemised` | 2 refunds, 1 deletion, pool of 3 |
| `over_refund` | Do refunds take back at most what was sold? (violated) | `RefundedWithinSold` | 2 refunds of the same lines |
| `rollback` | Does a failed refund leave nothing? (violated) | `RollbackUndoes` | 1 refund, 1 fault |
| `catalogue` | What can overlapping requests do to stores, hours, menu and discounts that requests one after the other cannot? | `TypeOK`, `OverwrittenOnlyByOverlap`, `ClashOnlyByOverlap`, `DeletedTakesChildren`, `DayTwiceOnlyByOverlap` | 3 requests (products: 2), 2 open, 1 fault; 4 areas |
| `people` | The same of users, customers, suppliers and their contact information; is a refresh token good once, does a logout last? | `TypeOK`, `OverwrittenOnlyByOverlap`, `OneContactEach`, `ContactTwiceOnlyByOverlap`, `RefreshedOnce`, `LoggedOutStaysOut` | 3 requests, 2 open, 1 fault; 4 areas |
| `signin` | Does signing in look up the person whose address it was? (violated) | `SignInFindsPerson` | 3 requests one at a time, no fault |
| `operations` | Does the ledger agree with the purchases; why is a photo gone or the process ended? | `TypeOK`, `OverwrittenOnlyByOverlap`, `LedgerMatchesPurchases`, `PhotoLostExplained`, `ProcessEndsExplained` | 3 requests (attendance: 2), 2 open, 1 fault; 5 milliseconds |
| `photos` | Are the two photos of an attendance two files? (violated) | `PhotosApart` | 2 requests one at a time, no fault |
| `migrations` | Does the record tell what is in the database; what may a revert take; which migrations can run? | `TypeOK`, `BuiltAsRecorded`, `FoundTablesKept`, `AttendanceBlocks`, `SyncFreezesRecord` | all 20 files and 21 versions, 64 first databases, 1 interruption |

Why the bounds are enough. Every race in the two services is between two requests
that read one row before either writes it, so two refunds, or a refund and an edit,
show it; the third refund of `serial` shows what the two before left behind. Two lines give a body with two callbacks, a product twice in one body, and
lines that one request touches and the other does not. A quantity of 3 allows a
partial refund, a full one and an excessive one. One fault reaches each handler at
each step; what several at once would do to the invariants is left to the theorems. A pool of 3
lets two refunds keep a connection and still progress; the theorem on
`ConnectionReleased` is for any pool.

For the runs over `Tables` the same holds: two requests are open at once because every
check-then-write is between two, and the third comes before them, and leaves rows that
one of them finds, or after them, and meets what they left. Services
that share no table but the stores' are put in different areas, as no step of one is
seen by the other. One fault in any statement leaves every prefix of a handler behind.
The attendance area has two requests because each multiplies by the photos'
milliseconds and by the unlink calls under way beside it.

What the "only by overlap" properties mean. The code has no locks, so two requests that
overlap can do what the checks are there to prevent, and stating the plain property
would only restate that. These state the strongest that is true: where it fails, the
two requests that made it fail were under way together, so the checks do work between
requests one after the other, deletions and faults included.
`OverwrittenOnlyByOverlap` is the common one: every column of every row holds what was last
asked of it, unless a request wrote it from memory that overlapped the asking or that
a chain of overlapping requests joins to it (`Linked`). The chain is needed: request 1
closes a register; 2, which read it open before, saves it open again; 3, which read it
closed in between, saves it closed; 4, which read what 2 saved, saves it open. Each
overlaps the next, and 4 began after 1 was answered.
Four requests show this, three do not, so the bounds of the runs cannot tell the two
statements apart; the attempt to prove the stronger one did, and the theorems below
prove the one stated for any number of requests.
The same happened to `ClashOnlyByOverlap`. That two live discounts share a code only
where the requests that wrote the codes overlapped is false: 1 inserts a discount with
the code A while 2, which found no A either, gives it to another; 3 and 4, which read that
one between and before, save it back to its old code and then to A again. What 4 wrote overlaps
neither insertion. The property now goes by who asked for each code, not by who wrote
it last, joins them by a chain, and leaves out discounts that somebody asked to delete.
And to `PhotoLostExplained`. That whoever put the name of a lost photo back had overlapped
the request that unlinked it is false: 1 reads a row that names the photo; 2 replaces
the photo and is answered; 3 reads the new name; 1 writes the old one back; 4 reads
it; 3 writes the new name, and 4 the old one again. 4 wrote what the row says and began after
2 had ended. A chain of overlaps does join the two, and the property says that now.

What `RefundExplained` and `RemainderExplained` mean. Lost updates do occur: the
second of two overlapping refunds overwrites the column with a sum that lacks the
first. The strongest claim that survives is that no value appears that no set of
refunds explains: updates may be lost, never invented.

`ImplementsBook` is the refinement: `SaleBook` has one action per request, the
services take up to eight statements and callbacks to perform it. The refinement
mapping shows the book as it was while a refund row exists whose item or
transaction update has not been written yet (`Unsettled`), and as the rows say from
then on. It holds for requests that do not overlap, one line per refund and one
line per product; the code breaks it otherwise, as
[What the models say of the code](#what-the-models-say-of-the-code) lists. The
theorem `SaleKeepsBook` has these conditions as its hypotheses.

## Fairness

`FairSpec` (only the `progress` run uses it) gives weak fairness to each request under
way and to each callback: Node runs the continuation of every settled await, and
PostgreSQL answers every statement. No fairness is given to beginning a request, nor
to a fault or a death: those disjuncts are conjoined with `UNCHANGED faults`. Weak
fairness is enough because a request that waits for a connection keeps a place in
the pool's FIFO queue, and with more connections than open requests that can keep
one, a connection is always free. With fewer, all of them may be kept by refunds
that each wait for a second one: the run has two refunds and three connections, and
the code does nothing to ensure such a margin.

## Theorems

Eight modules hold proofs, each of them for every value of the constants.

### Sales and refunds

`SalesProofs` proves, for every value of the constants that satisfies the named
assumptions (any sets of requests, carts, bodies and prices, any pool and number of
faults) and the hypotheses of the last column:

| Theorem | States | Besides the assumptions |
|---|---|---|
| `TypeCorrect` | `RowTypeOK` and `RowInv` are invariants of `Spec` | |
| `TypesCorrect` | `TypeOK` is, the columns that are sums included | |
| `RemainingSafe` | `RemainingWithinSold` is | |
| `ConnectionsReturned` | `ConnectionReleased` is | |
| `RefundKey` | `RefundHasTransaction` is | |
| `ItemKey` | `ItemsHaveTransaction` is | |
| `PaidBackExplained` | `RefundExplained` is | |
| `RemaindersExplained` | `RemainderExplained` is | |
| `NumbersDistinct` | `RefundNumbersDistinct` is | `MaxOpen = 1` |
| `LinesPriced` | `LinePriced` is | `MaxOpen = 1` |
| `TotalsMatch` | `TotalMatchesLines` is | `MaxOpen = 1`, `MaxFaults = 0` |
| `BooksBalance` | `QuietLedger` is | `MaxOpen = 1`, `MaxFaults = 0`, `PlainRequests` |
| `SaleKeepsBook` | `Spec` implements `SaleBook` (`ImplementsBook`) | `MaxOpen = 1`, `MaxFaults = 0`, `PlainRequests` |

Assumptions: `PoolAssumption`, `RefunderAssumption` (finitely many refunds, for the
count), `MaxFaultsAssumption`, `NullAssumption` (NULL is no number and no id),
`PriceAssumption`, `StatusAssumption`, `ItemAssumption` (finitely many lines), `CartAssumption`,
`EditAssumption` (quantities of
carts and edits are positive, as their DTOs demand), `RefundAssumption` (refund
quantities are naturals, a body has finitely many lines) and `OverlapAssumption`.

The hypotheses say where the code keeps its promises, and each is needed.
`MaxOpen = 1` is one request at a time: overlapping refunds take the same number, and
overlapping edits leave a line with one request's quantity and another's price.
`MaxFaults = 0` is no failing statement: a request that fails half way leaves lines
without totals. `PlainRequests` has a cart name a product once, a refund body have one line,
and an edit leave the product of its line alone: a refund of two lines posts its
amount twice, and "the first item of the product" is ambiguous
otherwise. The instance of `serial` satisfies all three, so they are not empty, and TLC
checks the properties there.

The argument for what remains. `RemainingWithinSold` is not inductive: a callback writes a difference
of two numbers its request read long ago, and a `save()` writes what it holds in
memory. `RemainingInv` adds that these held values are within what was sold too,
which holds because what was sold never changes for a line once inserted
(`AddFacts`: lines still to insert were sold with 0, so `sold` only grows) and because
`LineFact` records what validation established: the quantity asked for is at most the
remaining quantity that was read. `RowInv` joins types and these facts, with
`EditFacts` (an entity in memory was live, and its row is never again "none") and
`ItemFacts` (rows have a product; a row that was never inserted belongs to no sale).
`RowInvStep` shows it inductive, one lemma per action that writes item rows or takes
in a body; `WithinSoldKept` is the monotonicity lemma; `RemainingRows`,
`RemainingHeld` and `RemainingValidated` are the three parts of `RemainingInv`.

For the foreign keys, `GoneStep` shows that only a removal that met no refund row
takes the transaction away, `RefundRowStep` that only an insert that met the
transaction adds a refund row, and `OwnedStep` that no stale save gives an item back
to a removed sale: an inserted item row carries no relation, and a header save
attaches items only when it has restored the row itself.

Sums. The totals of a sale and the amount of a refund are folds over sets, and the library's
fold says what it is only through a function chosen for its recursion. The first part of
the module proves what a reader takes for granted: that such a function exists for
each finite set (`SumsExist`) and is the only one (`SumsUnique`), so that a sum
does not depend on the order in which elements are taken (`SumRemove`, `SumAdd`), and that equal
summands give equal sums (`SumSame`). Since no induction theorem can be instantiated here,
each of these takes a least set that it fails for and refutes it from the smaller ones (`LeastSet`).

The argument for amounts. `AmountInv` has the quantities of lines positive, so unit
values are integers and sums of them too: this is what `SumTypeOK` needs. `PaidInv`
says of the refund column, and of the sum a request read from it and holds, that some set of
refund rows adds up to it (`PaidBy`, where a refund of n lines may count up to n times); a callback adds
its own request's amount to what that request read, and `ProgressInv` knows that the request
has not posted that line yet. `RemainderInv` is the same of each line's remaining amount: `TakenFrom` names
the refunds whose lines were subtracted, `LeftFacts` what a request knows of the
line it read.

One request at a time. `SerialInv` says that a request in the middle of its steps is the
only one, so what it read is what the rows hold. `NumberInv` follows the count of
refunds from `RefundCount` to the insert; `PriceInv` and `EditsLive` the
product and quantity of a line from the cart or the edit to the row. `TotalInv` says of every step
of an addition or an edit how far the totals are behind the lines. `LedgerInv` does so for refunds:
`BegunInv`, `CartInv`, `HeldInv`, `LineInv` and `WorkInv` tie what the one
open request holds to the rows, and `BooksInv` says that the books balance
if the halves of a refund still to be written are added. `StartedInv` and
`RemainingInv` complete them. All of these were checked with TLC as invariants of the instance of `serial` first.

The refinement. `BookBase` collects the invariants that it rests on. `PlainView` and
`HalfView` say what the mapping shows while no refund, or one, is half written: the
rows, or the rows with that refund taken out. Each request then has its lemma: an
addition is `Sell` when its totals are written (`SellBook`); an edit is `Amend`, `Relabel` or, when it drops
lines, `Strike` (`EditBook`); a deletion is `Withdraw`, once
(`DeleteBook`). Of a refund, the item's update and the transaction's update
come in either order, and the later one is `TakeBack` (`UpdateBook`, `PostBook`); the
insertion before and the commit after show nothing new (`EarlyBook`, `InsertBook`,
`QuietStepBook`). `BookInit` and `BookStep` are the two halves of the refinement.
Nothing but liveness under fairness (`RefundAnswered`, `RefundItemised`) is left to TLC alone here.

### Writes lost to overlapping requests

`OverwrittenOnlyByOverlap` is stated once, in `Tables`, and proved of the three
systems that run over it:

| Theorem | Module |
|---|---|
| `CatalogueOverwritten` | `CatalogueProofs`: stores, opening hours, categories, products, modifier groups, discounts |
| `PeopleOverwritten` | `ContactsProofs`: users, customers, suppliers, contact information |
| `OperationsOverwritten` | `OperationsProofs`: stock, registers, attendance |

Assumptions: `BoundAssumption` (requests are numbers, NULL is none), the foreign keys
(`CatalogueAssumption`, `ForeignKeyAssumption`), `SchemaAssumption` (rows found at first have the
columns of their table), that they were made by none of the requests
considered, and the columns that the bodies may have (`GroupAssumption`,
`UserDtoAssumption`, `CashDtoAssumption`). Bodies, rows, faults, requests and how many are under
way at once are arbitrary.

The argument is about stale memory. The property alone is not inductive, as it says
nothing of what a request in the middle of a `save()` is about to write. `SaveInv` does.
Before `Reload`, each column the request holds is what the table holds, or was asked for
by a request that is linked to it, or is one that its body sets (`Fresh`, `Knows`).
After `Reload` a column found to differ was asked for by a linked request or is set by
the body; one found equal is equal yet, or was written by a request that overlapped
(`Compared`). A row that is gone, and that `save()` inserts again, is such a case too: a
removal asks for every column (`Removes`). `Changes` says what one step may do to a column, one lemma per statement
shows it (`InsertsChange`, `UpdatesChange`, `RemovesChange`, `WriteChange`), and `CellStays`, `KnowsStays`
and `ComparedStays` carry the knowledge of every other request over the step:
a request that changes a column is under way then, so it overlaps all that are.
`SaveStep` joins these; each action of a service is an instance of one of a handful of
lemmas (`BeginReads`, `GoSaves`, `ReloadStep`, `WriteStep`, `InsertThenStep`, `RemoveThenStep`, ...). What the services
add is what a request holds between the two: `Told` in `Catalogue` and `Operations`.
`updateModifier` is the long case: it keeps a group and its options through a loop of
statements of its own (`EditKnown`), and those it inserts itself must not be among the
ones it holds (`Made`). `editAttendance` keeps the row while it moves photos, and asks for the
photo columns only when the name is new.

### Columns and foreign keys

| Theorem | Module |
|---|---|
| `CatalogueTyped` | `CatalogueProofs`: `TypeOK` of `Catalogue` |
| `OperationsTyped` | `OperationsProofs`: `TypeOK` of `Operations` |

`TypeOK` says that columns hold what the entities declare, that every foreign key a row
holds is the key of a row there is (an option's group and product, a purchase's item, a
break's attendance, ...), and that a request which is not under way holds nothing. Assumptions:
`RowTypesAssumption` (rows found at first have the types, and their keys those of rows),
with those above; for photos `MillisecondAssumption` and `PhotosAssumption` (time is
numbered, and the photos there are were written before it ends).

The argument. Rows go from the tables into memory and back some awaits later, into tables that
others have changed, or under a key that was removed. `TypesInv` therefore types both
sides: every row of the tables and every row in memory (`RowsTyped`), and at each step
what else the request holds (`HeldTyped`: a body checked, a row to be inserted, the group and
the options in the loop of `updateModifier`). `Puts` is all that a statement may do to a
column: leave it, or store what memory holds of it, NULL where memory does not have it
(`InsertsPut`, `UpdatesPut`, `RemovesPut`, `WritesPut`). For the keys `ReferencesInv` is kept by the
statements themselves, which look at the keys of the rows they write (`ReferencesStay`) and,
when rows go, at those of all that stay. Without it a stale `save()` would be the
obvious way to a key of nobody: it does save the old key, and is refused. The range of
the photos' names needs `PhotoInv` as well, since a name may come from any request's
memory. `TypesInv` was checked with TLC first.

### Opening hours, discount codes and deletions

`CatalogueRules` proves, of `Catalogue`'s `Spec`:

| Theorem | States |
|---|---|
| `CatalogueDays` | `DayTwiceOnlyByOverlap`: two rows that POST put on one day of a store, and that no PATCH moved, come from requests that overlapped |
| `CatalogueCodes` | `ClashOnlyByOverlap`: two live discounts share the code asked for only where a chain of overlaps joins those who asked |
| `CatalogueChildren` | `DeletedTakesChildren`: of a discount or a group whose deletion was answered, no child lives but one that an overlapping request wrote |

Assumptions: `BoundAssumption`, `CatalogueAssumption` (the foreign keys are those of the
services composed, and no option, link or row of hours found at first has the key that a
request would give to one it makes), `DiscountDtoAssumption` (no body sets a discount's
deletion), `GroupAssumption` (the options of a body are a list) and `RowsAssumption` (NULL
is no key, the key of an attachment is its two columns, and no two live discounts share a
code at first).

The argument for days and codes. Both rules are checked by a look-up and broken by a write some awaits
later, so what is kept is what the request that looked still knows: it saw no such row,
so whoever made one since is under way with it. That is the last clause of `HoursTold`
(a request at its insert overlaps whoever put a row on that day of the store) and
`FreeCode` (a request that is about to insert or save a code is linked to whoever else asked for
it). A stale `save()` may also put back a code its request never asked for: `HeldCode` says of
what it holds that it is the code asked for, or that who asked since is linked to it.
`DaysApart` and `CodesApart` are the properties themselves, `OwnLive` and `AliveInv` say
that a row nobody asked to remove is there. `RowsInv` says of which tables the rows a request
holds are, so that each service writes its own (`OperationTurn`). `HoursEffect` and
`DiscountEffect` collect what a step may do to a row of hours and to a discount (the code of
at most one is asked for or put back), and each operation is shown to do no more. The
invariants `RowsInv`, `HoursInv` and `DiscountInv` were checked with TLC before, also on an
instance with four requests over discounts.

The argument for deletions. The parent is deleted in one statement and its children in
later ones, so `DeletedTakesChildren` says nothing of the time in between. `ChildInv`
does, of every parent that is deleted, by whom history says: each request that may yet
write a child of it (`Joins`) overlapped the deletion, and so did the writer of each child
that lives, unless the deletion has the child yet to take (`Takes`). For this to survive a
step, a request must not join a parent that is deleted already, nor write a child of a
parent that it has not joined. `ChildTold` holds what that needs of a request: the links
it is to delete belong to the discount they name (`LinksHeld`), the options that
`updateModifier` keeps through its loop belong to the group it edits (`EditHeld`,
`OwnOptions`), a row of the group that is saved at the end was live when it was read, and
is not asked to be deleted. A stale `save()` that brings a deleted parent back is no
exception: the property is about parents that are deleted. `AttachedInv` and `LinkMade`
say of keys whose they are. `DeletedEffect` is what a step may do to parents and children
(`ParentFine`, `ChildFine`, `JoinFine`, `TakeFine`); `DeletedStep` shows that it is
enough, and each operation is shown to do no more (`DiscountDeleted`, `GroupDeleted`,
...). `DeletedInv` was checked with TLC first.

### People and their contact information

`ContactsProofs` also proves, of `People`'s `Spec`:

| Theorem | States |
|---|---|
| `OneContact` | `OneContactEach`: every user, customer and supplier has one row of contact information, and each row is one person's |
| `ContactTwice` | `ContactTwiceOnlyByOverlap`: two users share an address or a number only where the requests that made them overlapped |
| `PeopleTyped` | `TypeOK` |

Assumptions: those above, `RowsAssumption` (the rows at first are numbered in each table, are
accepted by the tables, have one row of contact information for each person, and no two
users share an address or number) and `PeopleAssumption`.

The argument. A person and the contact information are two rows, written in one
statement, but an edit holds both and may save them after either was removed: the row
of contact information comes back with its key, the person with its own. That they come back
together, or not at all, is `HeldInv`: an edit holds exactly these two rows, and found
both or neither when it compared them. `StoredInv` names the owner of each row of contact
information that was ever there, by a function that only grows, so that a row that
comes back is its old owner's: ids are never used again (`NumberInv`). `KeysHold` and the
cascade do the rest. `TwiceInv` and `FreeBy` are the check for addresses: a request that is about to
insert a user knows that every user with that address was inserted by one that overlapped
it. `Effect` collects what one action does to all of these, `EffectKeeps` shows that
it is enough, and there is one lemma for each action.

### Sessions

`PeopleProofs` proves two properties of the `people` run:

| Theorem | States |
|---|---|
| `RefreshOnce` | `RefreshedOnce` is an invariant of `People`'s `Spec`: of two requests that spend one refresh token, one overlapped the other |
| `LogoutLasts` | `LoggedOutStaysOut` is: a record that a logout ended is back only where a request wrote it that overlapped the logout or began after it |

Assumptions: `PeopleAssumption` (the sessions found at first were made
by none of the requests) and `BoundAssumption` (NULL is no request). Rows, bodies, foreign keys and faults
are arbitrary.

The argument. Nothing makes reading and writing the record one step, so what holds
between requests one after the other has to come from their order. `OverlapInv` keeps
that: requests begin in the order of their numbers (`OrderInv`), those open together
know of one another (`MetInv`), and one that is open when another has ended overlapped
it or has a larger number (`LaterInv`). `PairInv` says that a pair in the record, or in the
hands of a request, was made by a request that has ended, so a new pair is never an old
one. Hence a pair that a refresh has spent is never in the record again (`AuthInv`), and
who still holds it read it before, while that refresh was open (`HeldInv`): the second
refresh overlapped the first. `OverlapStep` and `KeptApart` dispose of the actions that do
not touch a session, one lemma each shows that the actions of users, customers and
suppliers are of that kind (`ApartUser`, `ApartContact`, ...).

### Migrations

`MigrationsProofs` proves, for any sets of tables found at first, any versions of the files
and any number of interruptions:

| Theorem | States |
|---|---|
| `AttendanceNeverRuns` | `AttendanceBlocks`, an action property: once `init-attendance` is among the files no run commits |
| `SynchronisedForGood` | `SyncFreezesRecord`, an action property: once the schema is synchronised neither a run nor a revert commits |
| `SchemaTyped` | `TypeOK`: every table was found or is an entity's, every key joins two tables there are, a command under way is at a statement of a file of its version |
| `RecordTells` | `BuiltAsRecorded`: until a synchronisation, the tables beside those found at first are those the recorded migrations make, and the keys are theirs and some of those found |
| `FoundStay` | `FoundTablesKept`: a table found at first goes only if it is one of the three that an up skips when they exist |

Assumptions: `ExistingAssumption` (sets of names), `VersionAssumption` (this version holds
every file, and one without `init-attendance` none after it) and `MaxDeathsAssumption`.

The argument. `BlockedInv` says where a run can be: it records only files of the first six
(`RowsOf`), each once, and reaches the seventh at most up to its third statement. Turns do
it: `DueEarly` shows that no file past the seventh is due while the seventh is pending, and
`AttendanceStep` that its second statement is only accepted if `attendance_entity` exists,
and that then the third, which creates it, is not. So a run that has the seventh file
pending never comes to its end (`UpEnds`), whether the first six were recorded by an
earlier version or not. For the second theorem `SyncedInv` keeps the entities' keys in the
schema; `DownStatements` reads off the down of each of the first six that it drops keys
of one table and then a table, and `KeysInTheWay` names for each the key of another
table that refuses it. For the record, `UpFiles` and `DownFiles` read the files that
a command can come to; `UpTables`, `FilesApart` and `DownTakes` say what matters of
them: a file's keys are on its own tables, no two make one table, a down drops
all that its up made and nothing else. `BuiltInv` follows the view of a command: that
of a run has what the rows and the statements so far made (`UpBuilt`, `MakeStep`), that of
a revert lacks what its statements so far dropped (`DownBuilt`, `TakeStep`); both keep
`Firm`, the tables found that no up skips, which a migration that creates one of them
cannot be recorded with. It needs `TypeInv`, which is `TypeOK` with the shape of a
schema, and `BlockedInv`: past the seventh file two make `break_entity`.

### The stock ledger

`OperationsProofs` proves `LedgerKept`: `LedgerMatchesPurchases` is an invariant of
`Operations`'s `Spec`.

Assumptions: `BoundAssumption` (NULL is no request), `RequestAssumption`,
`ForeignKeyAssumption` (the foreign keys are those of the services composed),
`RowsAssumption` (the rows found at first were made by none of the requests, and their
purchases are in the ledger once) and `AreaAssumption` (the rows considered with the
requests of an area are of its tables). Items, quantities, bodies, faults and the number
of requests at once are arbitrary.

The argument. A purchase and its entry are two statements, and in between other
requests may save or delete the purchase. `MadeInv` ties a purchase to the request it is
named after; `EntryInv` says that a request's entry is its last statement and is about its
own purchase, so nobody enters a purchase twice; `BoughtInv` says that a request about
to make the entry holds what the row still says, if nobody else asked for anything of the row.
`SavingInv` says that an update saves a row which was there and asks for its item: after
its write, history names it, and the purchase is not left alone any more.
`KeptInv` is the property. `PurchasesStep` reduces each operation to what it does to
purchases left alone; `QuietStep` is the case of operations that do nothing to them, and
the two inserts, the DELETE with its cascade (`RemovalCascade`) and the write of
`save()` (`AfterWriteKeys`) have a lemma each. The cash drawer and attendance never
hold a purchase, as each keeps to its own tables (`WithinInv`). `LedgerIInv` was first checked with TLC on the instance
of `operations`.

### The photos of attendances

`OperationsProofs` proves `PhotosKept` (`PhotoLostExplained`) and `ProcessEnds`
(`ProcessEndsExplained`) as invariants of `Operations`'s `Spec`, for any number of
attendances, requests, faults and milliseconds, and for a process that may end under any
of them.

Assumptions: `PhotosAssumption` (the photos at first are numbered, and no two places of
the rows at first name the same one), and `BoundAssumption`, `RequestAssumption`,
`SchemaAssumption` and `AreaAssumption` as above.

The argument. A name has a place, a column of a row, and is followed from its upload on,
through the row in the table, the rows that requests hold and the unlinks under way.
`PlaceInv` says that all of these agree on the place as long as one upload has the name;
`NumberInv` that the file is there or somebody took the name, that is, called for it to be
unlinked. From then on `Owns` describes every request: `Agrees` says that one
which did not take the name holds it for its place exactly when the table does, unless a request
that took it explains the difference (`Explains`: it failed, or a chain of overlaps joins
the two); `Replaces` that one which took it is about to write another name over it or to remove the
row. `WriterInv` draws the conclusion for the table: whoever wrote a name that was
taken is explained, or one that took it is still under way. `BornInv` keeps the keys
of rows not yet inserted out of everybody's hands. For the end of the process, `TwiceInv` says that when two
requests took one name, one of those that took it failed or overlapped some
request, and `OtherInv` that an unlink which will find no file was not the
only one; `EndsInv` records that at the moment of the failure. `PhotoEffect` states what a step
of one request may do to all this; each operation is shown to have no other effect
(`StaffEffect`), and each part of the invariant to survive any such effect (`NumberStep` to
`OtherStep`). The two outcomes of an unlink are `UnlinkDoneKeeps` and
`UnlinkFailsKeeps`. `PhotoInv` and the effects were first checked with TLC on an
instance with three requests.

### Model-checked only

Of `Sales`: `RefundAnswered` and `RefundItemised`, liveness under the fairness of
`FairSpec`, out of reach of the prover. Every invariant that a passing run checks is also a
theorem, four of `Sales` under the conditions named above.

## What the models say of the code

Four statements of the repository are contradicted, each by a run that TLC violates:

- `RefundedWithinSold` (`refund/refund.service.spec.ts:125`): two overlapping refunds
  validate against one remaining quantity and together take back more units than
  were sold. So does one body that names a product twice.
- `RollbackUndoes` (`refund/refund.service.ts:105`): the rolled-back transaction is
  empty; the refund row and the callbacks' writes stay after the 422.
- `SignInFindsPerson` (`auth/auth.service.spec.ts:212`): signing in takes the id of the contact
  information for the id of the user. The two tables number their rows apart, and
  the first also counts customers and suppliers: after one customer, the next user
  cannot sign in.
- `PhotosApart` (`attendance/attendance.service.spec.ts:62`): the clock-in and the clock-out photo
  of one body are named after the millisecond they are written in, and the second
  takes the place of the first when it is the same one.

Behaviour the models follow and a maintainer should know of:

- Each callback adds the whole refund amount to `summaryValue`
  (`refund/refund.service.ts:69`): a refund of n lines posts n times its amount.
- `deleteItem` leaves the totals as they were (`transaction/transaction.service.ts:177`);
  `TotalMatchesLines` excludes it, `SaleBook` has `Strike` leave `due` alone.
- A changed quantity leaves what remains to refund as it was sold
  (`transaction/transaction.service.ts:163`).
- Overlapping refunds take the same number; overlapping edits can store the older
  total last; overlapping refunds and header edits can lose an amount.
- As many refunds at once as the pool has connections wait for one another for ever.
- The block that releases the connection begins after `startTransaction()`
  (`refund/refund.service.ts:62`). When that fails the refund is answered 422 and its
  connection never comes back: each such failure leaves the pool one less.
  `ConnectionReleased` says that this is the only way to lose one.
- Deleting an attendance that has a break or a wage removes its photos and is then
  refused; deleting it again unlinks files that are gone, which nobody handles: the
  process ends. An edit whose image has the wrong type also removes the old photo
  first, with the same sequel (`attendance/attendance.service.ts:312`).
- The details of an attendance count its breaks and wages by the last of each, the list
  does not load the breaks at all: worked hours and pay differ between the two.
- An updated purchase leaves its ledger row as it was, and a purchase whose second
  statement fails has none (`inventory/purchase/purchase.service.ts:189`, `:144`).
- A register can be closed again, cash goes into a closed one, and one can be opened
  beside another (`cash-drawer/cash-drawer.service.ts`).
- No discount is ever redeemed and no user ever updated: both requests always fail
  after their look-ups. A change of a discount's status, or of its body, leaves the
  status of its stores, which is the one that availability reads.
- A single discount without stores is deleted and answered "not found".
- A PATCH of opening hours without a store moves the row to any store there is, and a
  PATCH can put two rows on one day.
- Removing a user leaves the session record: the guard lets the token in for the rest of
  its hour.
- A customer's number is stored under a name the entity does not have, that is, nowhere.
- A run on a new database stops at `init-attendance`, which comes second and whose first key
  refers to a table it creates afterwards, and rolls everything back. With the start
  scripts' schema synchronisation no migration runs or reverts any more.
- On a database that already had one of `user_entity`, `contact_information_entity` and
  `inventory`, an early version records the migration without making that table, and the
  revert drops it with its rows unless the key of another table is in the way.
- `npm run migration:run`, `:revert`, `:show` and `:generate` call a script that
  `package.json` does not have.

## What is not modelled

- Lists, details, summaries and `findAll`, `findOne` of every service: they change no
  state, and what they read in one query is as of one moment.
- Analytics and the dashboard: SQL aggregation over the rows the other services write,
  with no state and no step that another request could see. A model would restate the
  SQL. (`analytics/sales/sales.repository.ts:32` uses `strftime`, which PostgreSQL lacks.)
- Infrastructure: start-up, configuration, logging, validation pipes, serialisation. The
  connection pool is in `SaleTables`, the columns of soft deletion in `Tables`.
- The picture of a product, written to disk aside. Access control by role, formatting of
  answers, mail.
- Over `Tables`, columns that no decision of the code depends on: one stands for those
  that are written together.

## Plan

Every component that writes has its module. What would come next:

1. Sales beside discounts and the cash drawer, if redemptions come to be recorded and
   registers to be charged.
