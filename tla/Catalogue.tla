------------------------------ MODULE Catalogue ------------------------------
(***************************************************************************)
(* What the stores sell and on which terms: stores with their opening      *)
(* hours, the menu, and the discounts, over the tables they share.         *)
(***************************************************************************)
EXTENDS Discounts, Stores, Menu

CONSTANTS
    Area,   \* the services whose requests are considered together
    Rows,   \* rows the tables hold at first, for each area
    Among   \* the requests considered in each area

VARIABLE area

vars == <<area, tableVars>>

CatalogueColumns ==
    [store |-> {"at", "name"},
     hours |-> {"at", "store", "day", "slots"},
     discount |-> {"at", "code", "status"},
     link |-> {"at", "discount", "store", "status"},
     category |-> {"at", "title"},
     product |-> {"at", "title", "category", "store"},
     group |-> {"at", "title"},
     option |-> {"at", "group", "product", "price"},
     attached |-> {"at", "group", "category"}]
CatalogueReferences == MenuReferences \cup
    {[table |-> "hours", column |-> "store", target |-> "store", rule |-> "cascade",
      optional |-> TRUE],
     [table |-> "link", column |-> "discount", target |-> "discount", rule |-> "refuse",
      optional |-> TRUE]}
CatalogueUniques == {[table |-> "store", column |-> "name"]}

\* What the entities declare of the columns, and that a link has a discount
\* and an attachment the two columns of its key.
ColumnTyped(k, c, v) ==
    /\ c = "at" => v \in {"live", "deleted"}
    /\ k[1] = "store" /\ c = "name" => v \in StoreName
    /\ k[1] = "hours" /\ c = "day" => v \in Day
    /\ k[1] = "hours" /\ c = "slots" => v \in Slots
    /\ k[1] = "discount" /\ c = "code" => v \in Code
    /\ k[1] = "discount" /\ c = "status" => v \in DiscountStatus
    /\ k[1] = "link" /\ c = "discount" => v # Null
    /\ k[1] = "attached" /\ c = "group" => v = k[2][1]
    /\ k[1] = "attached" /\ c = "category" => v = k[2][2]

\* The foreign keys are those of the services composed; the rows at first
\* were made by none of the requests considered.
ASSUME CatalogueAssumption ==
    /\ References = CatalogueReferences
    /\ \A a \in Area : /\ Among[a] \subseteq Request
                       /\ Schema(CatalogueColumns, Rows[a])
                       /\ \A k \in DOMAIN Rows[a] :
                             /\ k[1] = "option" => k[2] \notin Request \X Nat
                             /\ k[1] = "link" => k[2] \notin
                                  Request \X UNION {dto.stores : dto \in DiscountDto}
                             /\ k[1] = "hours" => k[2] \notin Request

\* NULL is no key, the key of an attachment is its two columns, and no two
\* live discounts share a code at first.
ASSUME RowsAssumption ==
    \A a \in Area : \A k \in DOMAIN Rows[a] :
       /\ k[2] # Null
       /\ k[1] = "attached" => k[2] = <<Rows[a][k].group, Rows[a][k].category>>
       /\ \A j \in DOMAIN Rows[a] \ {k} :
             (/\ j[1] = "discount" /\ k[1] = "discount"
              /\ Rows[a][j].at = "live" /\ Rows[a][k].at = "live")
                => Rows[a][j].code # Rows[a][k].code

\* Columns hold at first what the entities declare, and foreign keys refer to
\* rows there are.
ASSUME RowTypesAssumption ==
    \A a \in Area : /\ KeysHold(Rows[a], DOMAIN Rows[a])
                    /\ \A k \in DOMAIN Rows[a] :
                          /\ k[1] \in DOMAIN CatalogueColumns
                          /\ \A c \in DOMAIN Rows[a][k] : ColumnTyped(k, c, Rows[a][k][c])

Init ==
    /\ area \in Area
    /\ TablesInit(Rows[area])

\* Services that share no table but the stores' are considered apart.
Operation(r) ==
    \/ "stores" \in area /\ StoreOperation(r)
    \/ "hours" \in area /\ HoursOperation(r)
    \/ "discounts" \in area /\ DiscountOperation(r)
    \/ "products" \in area /\ (CategoryOperation(r) \/ ProductOperation(r))
    \/ "groups" \in area /\ (GroupOperation(r) \/ EntityWrite(r))
    \/ Fails(r)

Finished == /\ \A r \in Among[area] : step[r] \in Ended
            /\ UNCHANGED tableVars

Next ==
    /\ \/ \E r \in Among[area] : Operation(r)
       \/ Finished
    /\ UNCHANGED area

Spec == Init /\ [][Next]_vars

-----------------------------------------------------------------------------

\* Rows, requests and history are well formed in every service's table, and
\* every foreign key that a row holds is the key of a row.
TypeOK ==
    /\ TablesTypeOK /\ DiscountsTypeOK /\ StoresTypeOK /\ MenuTypeOK
    /\ KeysHold(db, DOMAIN db)

\* A deletion that was answered took with it every link of the discount, and
\* every option and attachment of the group, except what a request that
\* overlapped it wrote: the statements that follow the deletion of the parent
\* are no part of it.
DeletedTakesChildren ==
    \A t \in {<<"link", "discount">>, <<"option", "group">>, <<"attached", "group">>} :
        \A i \in Live(t[1]) :
            LET parent == <<t[2], Row(t[1], i)[t[2]]>>
                deleter == hist[parent].at.by
            IN  (/\ parent \in DOMAIN db /\ db[parent].at = "deleted"
                 /\ deleter # Null /\ step[deleter] = "ok")
                    => hist[<<t[1], i>>].at.writer \in met[deleter]

=============================================================================
