----------------------------- MODULE Operations -----------------------------
(***************************************************************************)
(* The daily running of a store: the stock it buys, the registers it opens *)
(* and closes, and the attendance of its staff.                            *)
(***************************************************************************)
EXTENDS Inventory, CashDrawer, Attendance

CONSTANTS
    Area,     \* the services whose requests are considered together
    Rows,     \* rows the tables hold at first, for each area
    Photos,   \* photos the rows of each area name
    Among     \* the requests considered in each area

VARIABLE area

vars == <<area, tableVars, photoVars>>

OperationsColumns ==
    [item |-> {"at", "title"},
     purchase |-> {"at", "item", "quantity"},
     stock |-> {"at", "item", "purchase", "addStock", "deductStock"},
     register |-> {"at", "closed", "counted"},
     cash |-> {"at", "register", "cashIn", "cashOut"},
     attendance |-> {"at", "clockOut", "in", "out"},
     break |-> {"at", "attendance", "value"},
     wage |-> {"at", "attendance", "value"}]
OperationsTables ==
    [inventory |-> {"item", "purchase", "stock"},
     cash |-> {"register", "cash"},
     attendance |-> {"attendance", "break", "wage"}]
OperationsReferences == InventoryReferences \cup CashReferences \cup AttendanceReferences

\* What the entities declare of the columns; every attendance has the photo
\* of its clock-in.
ColumnTyped(k, c, v) ==
    /\ c = "at" => v \in {"live", "deleted"}
    /\ k[1] = "purchase" /\ c = "quantity" => v \in Quantity
    /\ k[1] = "stock" /\ c = "addStock" => v \in Quantity \cup {0}
    /\ k[1] = "register" /\ c = "closed" => v \in Closing \cup {Null}
    /\ k[1] = "attendance" /\ c = "in" => v \in Nat
    /\ k[1] = "attendance" /\ c = "out" => v \in Nat \cup {Null}

\* The foreign keys are those of the services composed.
ASSUME RequestAssumption == \A a \in Area : Among[a] \subseteq Request
ASSUME ForeignKeyAssumption == References = OperationsReferences

\* The rows at first are nobody's, those of each area are of its tables, and
\* purchases are in the ledger.
ASSUME RowsAssumption ==
    LET rows == Rows["inventory"]
    IN  \A k \in DOMAIN rows :
           /\ k[2] \notin Request
           /\ k[1] = "stock" => rows[k].purchase \notin Request
           /\ k[1] = "purchase" =>
                {rows[j] : j \in {i \in DOMAIN rows : i[1] = "stock" /\ rows[i].purchase = k[2]}}
                  = {StockRow(rows[k].item, k[2], rows[k].quantity, 0)}
ASSUME SchemaAssumption == \A a \in Area : Schema(OperationsColumns, Rows[a])
ASSUME AreaAssumption ==
    /\ Area \subseteq DOMAIN OperationsTables
    /\ \A a \in Area : \A k \in DOMAIN Rows[a] : k[1] \in OperationsTables[a]

\* Columns hold at first what the entities declare, and foreign keys refer to
\* rows there are.
ASSUME RowTypesAssumption ==
    \A a \in Area : /\ KeysHold(Rows[a], DOMAIN Rows[a])
                    /\ \A k \in DOMAIN Rows[a] : \A c \in DOMAIN Rows[a][k] :
                          ColumnTyped(k, c, Rows[a][k][c])

\* Photos are numbered, and no two of the rows at first name the same one.
ASSUME PhotosAssumption ==
    \A a \in Area :
       /\ IsFiniteSet(Photos[a]) /\ Photos[a] = 1..Cardinality(Photos[a])
       /\ Cardinality(Photos[a]) <= LastMillisecond
       /\ \A k \in DOMAIN Rows[a] : k[1] = "attendance" =>
             /\ k[2] \notin Request
             /\ \A p \in Photo : Rows[a][k][p] \in {Null} \cup Photos[a]
       /\ \A j, k \in {i \in DOMAIN Rows[a] : i[1] = "attendance"} : \A p, q \in Photo :
             Rows[a][j][p] # Null /\ Rows[a][j][p] = Rows[a][k][q] => j = k /\ p = q

Init ==
    /\ area \in Area
    /\ TablesInit(Rows[area])
    /\ AttendanceInit(Photos[area])

Operation(r) ==
    \/ area = "attendance" /\ AttendanceOperation(r)
    \/ /\ \/ area = "inventory" /\ InventoryOperation(r)
          \/ area = "cash" /\ CashOperation(r)
          \/ area = "attendance" /\ EntryOperation(r)
          \/ EntityReload(r) \/ EntityWrite(r)
          \/ Fails(r)
       /\ UNCHANGED photoVars

Finished == /\ \A r \in Among[area] : step[r] \in Ended
            /\ UNCHANGED <<tableVars, photoVars>>

Next ==
    /\ \/ \E r \in Among[area] : Operation(r)
       \/ UnlinkDone
       \/ UnlinkFails
       \/ Finished
    /\ UNCHANGED area

Spec == Init /\ [][Next]_vars

-----------------------------------------------------------------------------

\* Rows, files, requests and history are well formed, and every foreign key
\* that a row holds is the key of a row.
TypeOK ==
    /\ TablesTypeOK /\ InventoryTypeOK /\ CashTypeOK /\ AttendanceTypeOK
    /\ KeysHold(db, DOMAIN db)

=============================================================================
