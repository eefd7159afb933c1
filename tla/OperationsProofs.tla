-------------------------- MODULE OperationsProofs --------------------------
(***************************************************************************)
(* What a request of the daily running of a store asked for is overwritten *)
(* only by one that a chain of overlaps joins to it; the ledger of stock   *)
(* has every purchase that was answered and left alone, once; and a photo  *)
(* that an attendance names is gone, or a call to unlink one finds no      *)
(* file, only where overlapping or failed requests account for it: for any *)
(* number of requests, any number of them at once, any items, quantities,  *)
(* photos and rows.  Every service here saves what it read in one          *)
(* statement before, except editAttendance, which holds the row while      *)
(* photos are moved.  Columns hold what the entities declare: what a       *)
(* request holds at each step has the types too, and every statement looks *)
(* the foreign keys up.                                                    *)
(***************************************************************************)
EXTENDS Operations, TablesProofs, FiniteSetTheorems

\* The steps at which a request holds rows it will save, those at which it
\* has compared them with the tables, and those at which it holds more.
Reading == {"entity.reload", "attendance.photos"}
Writing == {"entity.write"}
Telling == {"purchase.check", "attendance.insert", "entry.insert", "attendance.photos"}

\* The row that a request about to save a purchase, or an attendance, has
\* read, and the rows that requests are about to insert.
Told(r) ==
    /\ step[r] = "purchase.check" =>
          Knows(OperationsColumns, r,
                Single(<<"purchase", mem[r].dto.id>>, mem[r].dto.row), {})
    /\ step[r] = "attendance.insert" => DOMAIN mem[r].dto = OperationsColumns["attendance"]
    /\ step[r] = "entry.insert" => Schema(OperationsColumns, mem[r].rows)
    /\ step[r] = "attendance.photos" =>
          /\ mem[r].meant = {} /\ mem[r].dto.photos \subseteq Photo
          /\ \A k \in DOMAIN mem[r].rows : k[1] = "attendance"

OpSaveInv == SaveInv(OperationsColumns, Reading, Writing)
OverInv ==
    /\ area \in Area
    /\ OpSaveInv
    /\ \A r \in Request : Told(r)

LEMMA OpUnderWay == UnderWay(Reading, Writing)
BY DEF UnderWay, Reading, Writing

LEMMA OpForeign ==
    /\ \A f \in References : f.column \in OperationsColumns[f.table]
    /\ \A c : "register" \in ForeignColumns(<<"cash", c>>)
<1>1. \A f \in References : f.column \in OperationsColumns[f.table]
  BY ForeignKeyAssumption
     DEF OperationsReferences, InventoryReferences, CashReferences, AttendanceReferences,
         OperationsColumns
<1>2. ASSUME NEW c
      PROVE  "register" \in ForeignColumns(<<"cash", c>>)
  <2> DEFINE f == [table |-> "cash", column |-> "register", target |-> "register",
                   rule |-> "refuse", optional |-> TRUE]
  <2>1. f \in References
    BY ForeignKeyAssumption DEF OperationsReferences, CashReferences
  <2>2. <<"cash", c>>[1] = f.table /\ f.column = "register"
    OBVIOUS
  <2> HIDE DEF f
  <2> QED BY <2>1, <2>2 DEF ForeignColumns
<1> QED BY <1>1, <1>2

\* What a request was told stays true over a step of another one.
LEMMA ToldStays ==
    ASSUME OverInv, OpSaveInv', area' = area, NEW r \in Request, NEW s, Moves(r, s), Told(r)'
    PROVE  OverInv'
<1> SUFFICES ASSUME NEW q \in Request, q # r
             PROVE  Told(q)'
  BY DEF OverInv
<1>1. step'[q] = step[q] /\ Told(q)
  BY DEF Moves, OverInv
<1>2. CASE step[q] \notin Telling
  BY <1>1, <1>2 DEF Told, Telling
<1>3. CASE step[q] \in Telling
  <2>1. q \in Open' \ {r}
    BY <1>1, <1>3 DEF Open, Ended, Telling
  <2>2. mem'[q] = mem[q] /\ q \in met'[r] /\ MetGrows /\ Changes(r)
    BY <2>1 DEF Moves
  <2>3. ColumnInv(OperationsColumns) /\ ColumnInv(OperationsColumns)'
    BY DEF OverInv, OpSaveInv, SaveInv, SharedInv
  <2>4. ASSUME step[q] = "purchase.check"
        PROVE  Knows(OperationsColumns, q,
                     Single(<<"purchase", mem[q].dto.id>>, mem[q].dto.row), {})'
    <3>1. PICK rows : rows = Single(<<"purchase", mem[q].dto.id>>, mem[q].dto.row)
      OBVIOUS
    <3>2. Knows(OperationsColumns, q, rows, {})
      BY <1>1, <2>4, <3>1 DEF Told
    <3>3. Knows(OperationsColumns, q, rows, {})'
      BY <2>2, <2>3, <3>2, KnowsStays
    <3>4. rows = Single(<<"purchase", mem[q].dto.id>>, mem[q].dto.row)'
      BY <2>2, <3>1 DEF Single
    <3> QED BY <3>3, <3>4
  <2>5. ASSUME step[q] = "attendance.insert"
        PROVE  DOMAIN mem'[q].dto = OperationsColumns["attendance"]
    BY <1>1, <2>2, <2>5 DEF Told
  <2>6. ASSUME step[q] = "entry.insert"
        PROVE  Schema(OperationsColumns, mem'[q].rows)
    BY <1>1, <2>2, <2>6 DEF Told
  <2>7. ASSUME step[q] = "attendance.photos"
        PROVE  /\ mem'[q].meant = {} /\ mem'[q].dto.photos \subseteq Photo
               /\ \A k \in DOMAIN mem'[q].rows : k[1] = "attendance"
    BY <1>1, <2>2, <2>7 DEF Told
  <2> QED BY <1>1, <2>4, <2>5, <2>6, <2>7 DEF Told
<1> QED BY <1>2, <1>3

\* A request that goes on to a step at which it was told nothing.
LEMMA Quietly ==
    ASSUME OverInv, OpSaveInv', area' = area, NEW r \in Request, NEW s, Moves(r, s),
           s \notin Telling
    PROVE  OverInv'
<1>1. step'[r] = s
  BY DEF Moves
<1> QED BY <1>1, ToldStays DEF Told, Telling

\* It begins, or goes on, and only reads.
LEMMA Begun ==
    ASSUME OverInv, area' = area, NEW r \in Request, NEW s, NEW m, Begin(r, s, m),
           UNCHANGED <<db, hist>>,
           s \notin {"idle"} \cup Telling \cup Reading \cup Writing
    PROVE  OverInv'
<1>1. OpSaveInv' /\ Moves(r, s)
  BY BeginReads, OpUnderWay DEF OverInv, OpSaveInv
<1> QED BY <1>1, Quietly DEF Telling

LEMMA Gone ==
    ASSUME OverInv, area' = area, NEW r \in Open, NEW s, NEW m, Reads(r, s, m),
           s \notin {"idle"} \cup Telling \cup Reading \cup Writing
    PROVE  OverInv'
<1>1. OpSaveInv' /\ Moves(r, s)
  BY GoReads, OpUnderWay DEF OverInv, OpSaveInv, Reads
<1> QED BY <1>1, Quietly DEF Open, Telling

\* It begins with one row to save, as it was read but for some values.
LEMMA BegunToSave ==
    ASSUME OverInv, area' = area, NEW r \in Request, NEW k \in DOMAIN db, NEW row, NEW values,
           Begin(r, "entity.reload", Save(Single(k, Assigned(row, values)), DOMAIN values)),
           UNCHANGED <<db, hist>>, Fits(OperationsColumns, k, row),
           DOMAIN values \subseteq OperationsColumns[k[1]],
           \A c \in DOMAIN row : row[c] = db[k][c]
    PROVE  OverInv'
<1> DEFINE rows == Single(k, Assigned(row, values))
           m == Save(rows, DOMAIN values)
<1>1. ColumnInv(OperationsColumns)
  BY DEF OverInv, OpSaveInv, SaveInv, SharedInv
<1>2. Knows(OperationsColumns, r, rows, DOMAIN values)
  BY <1>1, KnowsOne
<1> HIDE DEF rows
<1>3. Memory(m).rows = rows /\ Memory(m).meant = DOMAIN values
  BY DEF Save, Memory, NoMem
<1>4. Begin(r, "entity.reload", m)
  BY DEF rows
<1> HIDE DEF m
<1>5. OpSaveInv' /\ Moves(r, "entity.reload")
  BY <1>2, <1>3, <1>4, BeginSaves, OpUnderWay DEF OverInv, OpSaveInv, Reading
<1> QED BY <1>5, Quietly DEF Telling

\* A statement is the first and last thing it does.
LEMMA BegunInserting ==
    ASSUME OverInv, area' = area, NEW r \in Request, Begin(r, "ok", NoMem), NEW rows,
           Inserts(r, rows), Schema(OperationsColumns, rows)
    PROVE  OverInv'
<1>1. ColumnInv(OperationsColumns)
  BY DEF OverInv, OpSaveInv, SaveInv, SharedInv
<1>2. ColumnInv(OperationsColumns)' /\ Changes(r)
  BY <1>1, InsertsChange
<1>3. OpSaveInv' /\ Moves(r, "ok")
  BY <1>2, BeginStep, OpUnderWay DEF OverInv, OpSaveInv, Reading, Writing, Telling
<1> QED BY <1>3, Quietly DEF Telling

LEMMA GoneInserting ==
    ASSUME OverInv, area' = area, NEW r \in Open, NEW rows, Schema(OperationsColumns, rows),
           NEW s, NEW m, InsertThen(r, rows, s, m),
           s \notin {"idle"} \cup Telling \cup Reading \cup Writing
    PROVE  OverInv'
<1>1. OpSaveInv' /\ (Moves(r, s) \/ Moves(r, "error"))
  BY InsertThenStep, OpUnderWay DEF OverInv, OpSaveInv
<1> QED BY <1>1, Quietly DEF Open, Telling

LEMMA GoneRemoving ==
    ASSUME OverInv, area' = area, NEW r \in Open, NEW keys \in SUBSET DOMAIN db,
           RemoveThen(r, keys, "ok", NoMem)
    PROVE  OverInv'
<1>1. OpSaveInv' /\ (Moves(r, "ok") \/ Moves(r, "error"))
  BY RemoveThenStep, OpUnderWay DEF OverInv, OpSaveInv, Reading, Writing, Telling
<1> QED BY <1>1, Quietly DEF Open, Telling

-----------------------------------------------------------------------------
(* The services, one action after the other.                               *)

LEMMA InventoryOver ==
    ASSUME OverInv, area' = area, NEW r \in Request, InventoryOperation(r)
    PROVE  OverInv'
<1> DEFINE C == OperationsColumns
<1>1. ColumnInv(C) /\ Told(r)
  BY DEF OverInv, OpSaveInv, SaveInv, SharedInv
<1>2. /\ DOMAIN NoMem \subseteq DOMAIN mem[r]
      /\ \A s : At(r, s) /\ s \notin {"idle"} \cup Ended => r \in Open
  BY DEF OverInv, OpSaveInv, SaveInv, SharedInv, HoldInv, At, Open
<1>3. CASE CreateInventoryItem(r)
  <2>1. PICK title \in ItemTitle :
          Begin(r, "ok", NoMem) /\ Inserts(r, Single(<<"item", r>>, ItemRow(title)))
    BY <1>3 DEF CreateInventoryItem
  <2>2. Schema(C, Single(<<"item", r>>, ItemRow(title)))
    BY DEF Schema, Single, ItemRow, OperationsColumns
  <2> QED BY <2>1, <2>2, BegunInserting
<1>4. CASE EditInventoryItem(r)
  <2>1. PICK i \in Live("item"), title \in ItemTitle :
          /\ Begin(r, "entity.reload",
                Save(Single(<<"item", i>>, Assigned(Row("item", i), [title |-> title])), {"title"}))
          /\ UNCHANGED <<db, hist, faults>>
    BY <1>4 DEF EditInventoryItem
  <2> DEFINE k == <<"item", i>>
             values == [title |-> title]
  <2>2. k \in DOMAIN db /\ Row("item", i) = db[k]
    BY <1>1, LiveKey
  <2>3. Fits(C, k, Row("item", i))
    BY <1>1, <2>2, RowFits
  <2>4. DOMAIN values = {"title"} /\ {"title"} \subseteq C[k[1]]
    BY DEF OperationsColumns
  <2> HIDE DEF k, values
  <2>5. Begin(r, "entity.reload", Save(Single(k, Assigned(Row("item", i), values)), DOMAIN values))
    BY <2>1, <2>4 DEF k, values
  <2> QED BY <2>1, <2>2, <2>3, <2>4, <2>5, BegunToSave
<1>5. CASE DeleteInventoryItems(r)
  <2>1. PICK ids \in SUBSET Ids("item") \ {{}} :
          Begin(r, "ok", NoMem) /\ Removes(r, {"item"} \X ids)
    BY <1>5 DEF DeleteInventoryItems
  <2>2. {"item"} \X ids \subseteq DOMAIN db
    BY <1>1, <2>1, IdsKeys
  <2>3. ColumnInv(C)' /\ Changes(r)
    BY <1>1, <2>1, <2>2, RemovesChange
  <2>4. OpSaveInv' /\ Moves(r, "ok")
    BY <2>1, <2>3, BeginStep, OpUnderWay DEF OverInv, OpSaveInv, Reading, Writing, Telling
  <2> QED BY <2>4, Quietly DEF Telling
<1>6. CASE AddPurchase(r) \/ DeletePurchases(r)
  <2>1. PICK s \in {"purchase.insert", "purchase.delete"} :
          \E m : Begin(r, s, m) /\ UNCHANGED <<db, hist>>
    BY <1>6 DEF AddPurchase, DeletePurchases
  <2> QED BY <2>1, Begun DEF Reading, Writing, Telling
<1>7. CASE AddPurchaseInsert(r)
  <2> DEFINE row == PurchaseRow(mem[r].dto.item, mem[r].dto.quantity)
  <2>1. InsertThen(r, Single(<<"purchase", r>>, row), "stock.insert", <<>>) /\ r \in Open
    BY <1>2, <1>7 DEF AddPurchaseInsert, Ended
  <2>2. Schema(C, Single(<<"purchase", r>>, row))
    BY DEF Schema, Single, PurchaseRow, OperationsColumns
  <2> QED BY <2>1, <2>2, GoneInserting DEF Reading, Writing, Telling
<1>8. CASE AddPurchaseStock(r)
  <2> DEFINE row == StockRow(mem[r].dto.item, r, mem[r].dto.quantity, 0)
  <2>1. InsertThen(r, Single(<<"stock", r>>, row), "ok", NoMem) /\ r \in Open
    BY <1>2, <1>8 DEF AddPurchaseStock, Ended
  <2>2. Schema(C, Single(<<"stock", r>>, row))
    BY DEF Schema, Single, StockRow, OperationsColumns
  <2> QED BY <2>1, <2>2, GoneInserting DEF Reading, Writing, Telling
<1>9. CASE UpdatePurchase(r)
  <2>1. PICK p \in Live("purchase") :
          /\ Begin(r, "purchase.check", [dto |-> [id |-> p, row |-> Row("purchase", p)]])
          /\ UNCHANGED <<db, hist, faults>>
    BY <1>9 DEF UpdatePurchase
  <2> DEFINE k == <<"purchase", p>>
             row == Row("purchase", p)
             m == [dto |-> [id |-> p, row |-> row]]
  <2>2. k \in DOMAIN db /\ row = db[k]
    BY <1>1, LiveKey
  <2>3. OpSaveInv' /\ Moves(r, "purchase.check") /\ mem'[r] = Memory(m)
    BY <2>1, BeginReads, OpUnderWay DEF OverInv, OpSaveInv, Reading, Writing, Telling
  <2>4. mem'[r].dto.id = p /\ mem'[r].dto.row = row
    BY <2>3 DEF Memory, NoMem
  <2>5. Fits(C, k, row) /\ Fresh(r, k, row, {})
    BY <1>1, <2>2, RowFits, ReadFresh
  <2>6. PICK rows : rows = Single(k, row)
    OBVIOUS
  <2>7. Knows(C, r, rows, {})
    BY <2>5, <2>6 DEF Knows, Single
  <2>8. MetGrows /\ step'[r] = "purchase.check"
    BY <2>3 DEF Moves
  <2>9. Knows(C, r, rows, {})'
    BY <1>1, <2>1, <2>7, <2>8, KnowsYet
  <2>10. rows = Single(<<"purchase", mem[r].dto.id>>, mem[r].dto.row)'
    BY <2>4, <2>6 DEF Single
  <2>11. Told(r)'
    BY <2>8, <2>9, <2>10 DEF Told
  <2> QED BY <2>3, <2>11, ToldStays
<1>10. CASE UpdatePurchaseCheck(r)
  <2>1. r \in Open /\ step[r] = "purchase.check"
    BY <1>2, <1>10 DEF UpdatePurchaseCheck, At, Ended
  <2>2. CASE Reads(r, "error", NoMem)
    BY <2>1, <2>2, Gone DEF Reading, Writing, Telling
  <2>3. CASE \E dto \in CreatePurchaseDto :
               Reads(r, "entity.reload",
                  Save(Single(<<"purchase", mem[r].dto.id>>, Assigned(mem[r].dto.row, dto)),
                       DOMAIN dto))
    <3>1. PICK dto \in CreatePurchaseDto :
               Reads(r, "entity.reload",
                  Save(Single(<<"purchase", mem[r].dto.id>>, Assigned(mem[r].dto.row, dto)),
                       DOMAIN dto))
      BY <2>3
    <3> DEFINE k == <<"purchase", mem[r].dto.id>>
               row == mem[r].dto.row
               rows == Single(k, Assigned(row, dto))
               m == Save(rows, DOMAIN dto)
    <3>2. Knows(C, r, Single(k, row), {})
      BY <1>1, <2>1 DEF Told
    <3>3. Fits(C, k, row) /\ (k \in DOMAIN hist => Fresh(r, k, row, {}))
      BY <3>2 DEF Knows, Single
    <3>4. DOMAIN dto \subseteq C[k[1]]
      BY DEF CreatePurchaseDto, OperationsColumns
    <3>5. Fits(C, k, Assigned(row, dto))
      BY <3>3, <3>4, AssignedFits
    <3>6. k \in DOMAIN hist => Fresh(r, k, Assigned(row, dto), DOMAIN dto)
      BY <3>3, AssignedFresh
    <3> HIDE DEF k
    <3>7. Knows(C, r, rows, DOMAIN dto)
      BY <3>5, <3>6 DEF Knows, Single
    <3> HIDE DEF rows
    <3>8. m = [rows |-> rows, meant |-> DOMAIN dto]
      BY DEF Save
    <3>9. Over(m, mem[r]).rows = rows /\ Over(m, mem[r]).meant = DOMAIN dto
      BY <3>8 DEF Over
    <3>10. Goto(r, "entity.reload", m) /\ UNCHANGED <<db, hist>>
      BY <3>1 DEF Reads, k, rows
    <3>11. Knows(C, r, Over(m, mem[r]).rows, Over(m, mem[r]).meant)
      BY <3>7, <3>9
    <3> HIDE DEF m
    <3>12. OpSaveInv' /\ Moves(r, "entity.reload")
      BY <2>1, <3>10, <3>11, GoSaves, OpUnderWay DEF OverInv, OpSaveInv, Reading
    <3> QED BY <3>12, Quietly DEF Telling
  <2> QED BY <1>10, <2>2, <2>3 DEF UpdatePurchaseCheck
<1>11. CASE DeletePurchasesDelete(r)
  <2> DEFINE ids == mem[r].dto \cap Ids("purchase")
  <2>1. RemoveThen(r, {"purchase"} \X ids, "ok", NoMem) /\ r \in Open
    BY <1>2, <1>11 DEF DeletePurchasesDelete, Ended
  <2>2. {"purchase"} \X ids \subseteq DOMAIN db
    BY <1>1, IdsKeys
  <2> QED BY <2>1, <2>2, GoneRemoving
<1> QED BY <1>3, <1>4, <1>5, <1>6, <1>7, <1>8, <1>9, <1>10, <1>11 DEF InventoryOperation

LEMMA CashOver ==
    ASSUME OverInv, area' = area, NEW r \in Request, CashOperation(r)
    PROVE  OverInv'
<1> DEFINE C == OperationsColumns
<1>1. ColumnInv(C)
  BY DEF OverInv, OpSaveInv, SaveInv, SharedInv
<1>2. CASE OpenRegister(r)
  <2>1. Begin(r, "ok", NoMem) /\ Inserts(r, Single(<<"register", r>>, RegisterRow))
    BY <1>2 DEF OpenRegister
  <2>2. Schema(C, Single(<<"register", r>>, RegisterRow))
    BY DEF Schema, Single, RegisterRow, OperationsColumns
  <2> QED BY <2>1, <2>2, BegunInserting
<1>3. CASE CloseRegister(r)
  <2>1. PICK i \in Live("register"), dto \in CloseRegisterDto :
          /\ Begin(r, "entity.reload",
                Save(Single(<<"register", i>>, Assigned(Row("register", i), dto)), DOMAIN dto))
          /\ UNCHANGED <<db, hist, faults>>
    BY <1>3 DEF CloseRegister
  <2> DEFINE k == <<"register", i>>
  <2>2. k \in DOMAIN db /\ Row("register", i) = db[k]
    BY <1>1, LiveKey
  <2>3. Fits(C, k, Row("register", i))
    BY <1>1, <2>2, RowFits
  <2>4. DOMAIN dto \subseteq C[k[1]]
    BY CashDtoAssumption DEF OperationsColumns
  <2> QED BY <2>1, <2>2, <2>3, <2>4, BegunToSave
<1>4. CASE AddCashManagement(r)
  <2>1. PICK i \in Ids("register"), dto \in CashManagementDto :
          Begin(r, "ok", NoMem) /\ Inserts(r, Single(<<"cash", r>>, CashRow(i, dto)))
    BY <1>4 DEF AddCashManagement
  <2>2. DOMAIN CashRow(i, dto) = {"at", "register", "cashIn", "cashOut"}
    BY CashDtoAssumption DEF CashRow, Over
  <2>3. Schema(C, Single(<<"cash", r>>, CashRow(i, dto)))
    BY <2>2 DEF Schema, Single, OperationsColumns
  <2> QED BY <2>1, <2>3, BegunInserting
<1>5. CASE EditCashManagement(r)
  <2>1. PICK c \in Live("cash"), dto \in CashManagementDto :
          /\ Begin(r, "entity.reload",
                Save(Single(<<"cash", c>>, AssignedCash(Only(Row("cash", c), CashColumns), dto)),
                     DOMAIN dto))
          /\ UNCHANGED <<db, hist, faults>>
    BY <1>5 DEF EditCashManagement
  <2> DEFINE k == <<"cash", c>>
             row == Only(Row("cash", c), CashColumns)
  <2>2. k \in DOMAIN db /\ Row("cash", c) = db[k]
    BY <1>1, LiveKey
  <2>3. CashColumns \subseteq C[k[1]] /\ C[k[1]] \ CashColumns = {"register"}
    BY DEF CashColumns, OperationsColumns
  <2>4. Fits(C, k, row)
    BY <2>3, LoadedFits, OpForeign
  <2>5. DOMAIN dto \subseteq C[k[1]]
    BY CashDtoAssumption DEF OperationsColumns
  <2>6. \A d \in DOMAIN row : row[d] = db[k][d]
    BY <2>2 DEF Only
  <2>7. Begin(r, "entity.reload", Save(Single(k, Assigned(row, dto)), DOMAIN dto))
    BY <2>1 DEF AssignedCash
  <2> HIDE DEF k, row
  <2> QED BY <2>1, <2>2, <2>4, <2>5, <2>6, <2>7, BegunToSave
<1> QED BY <1>2, <1>3, <1>4, <1>5 DEF CashOperation

LEMMA EntryOver ==
    ASSUME OverInv, area' = area, NEW r \in Request, EntryOperation(r)
    PROVE  OverInv'
<1> DEFINE C == OperationsColumns
<1>1. ColumnInv(C) /\ Told(r)
  BY DEF OverInv, OpSaveInv, SaveInv, SharedInv
<1>2. \A s : At(r, s) /\ s \notin {"idle"} \cup Ended => r \in Open
  BY DEF At, Open
<1>3. \A t \in {"break", "wage"} : C[t] = {"at", "attendance", "value"}
  BY DEF OperationsColumns
<1>4. ASSUME NEW t \in {"break", "wage"}, AddEntry(r, t)
      PROVE  OverInv'
  <2>1. PICK a \in Live("attendance"), v \in Value :
          /\ Begin(r, "entry.insert", [rows |-> Single(<<t, r>>, EntryRow(a, v))])
          /\ UNCHANGED <<db, hist, faults>>
    BY <1>4 DEF AddEntry
  <2> DEFINE m == [rows |-> Single(<<t, r>>, EntryRow(a, v))]
  <2>2. OpSaveInv' /\ Moves(r, "entry.insert") /\ mem'[r] = Memory(m)
    BY <2>1, BeginReads, OpUnderWay DEF OverInv, OpSaveInv, Reading, Writing, Telling
  <2>3. mem'[r].rows = Single(<<t, r>>, EntryRow(a, v))
    BY <2>2 DEF Memory, NoMem
  <2>4. Schema(C, Single(<<t, r>>, EntryRow(a, v)))
    BY <1>3 DEF Schema, Single, EntryRow
  <2>5. step'[r] = "entry.insert"
    BY <2>2 DEF Moves
  <2>6. Told(r)'
    BY <2>3, <2>4, <2>5 DEF Told
  <2> QED BY <2>2, <2>6, ToldStays
<1>5. ASSUME NEW t \in {"break", "wage"}, EditEntry(r, t)
      PROVE  OverInv'
  <2>1. PICK i \in Live(t), a \in Live("attendance"), v \in Value :
          LET values == [attendance |-> a, value |-> v]
          IN  /\ Begin(r, "entity.reload",
                    Save(Single(<<t, i>>, Assigned(Row(t, i), values)), DOMAIN values))
              /\ UNCHANGED <<db, hist, faults>>
    BY <1>5 DEF EditEntry
  <2> DEFINE k == <<t, i>>
             values == [attendance |-> a, value |-> v]
  <2>2. k \in DOMAIN db /\ Row(t, i) = db[k]
    BY <1>1, LiveKey
  <2>3. Fits(C, k, Row(t, i))
    BY <1>1, <2>2, RowFits
  <2>4. DOMAIN values \subseteq C[k[1]]
    BY <1>3
  <2> HIDE DEF values
  <2>5. /\ Begin(r, "entity.reload", Save(Single(k, Assigned(Row(t, i), values)), DOMAIN values))
        /\ UNCHANGED <<db, hist>>
    BY <2>1 DEF values
  <2> QED BY <2>2, <2>3, <2>4, <2>5, BegunToSave
<1>6. ASSUME NEW t \in {"break", "wage"}, DeleteEntry(r, t)
      PROVE  OverInv'
  <2>1. PICK m : Begin(r, "entry.remove", m) /\ UNCHANGED <<db, hist>>
    BY <1>6 DEF DeleteEntry
  <2> QED BY <2>1, Begun DEF Reading, Writing, Telling
<1>7. CASE AddEntryInsert(r)
  <2>1. InsertThen(r, mem[r].rows, "ok", NoMem) /\ r \in Open /\ step[r] = "entry.insert"
    BY <1>2, <1>7 DEF AddEntryInsert, Ended, At
  <2>2. Schema(C, mem[r].rows)
    BY <1>1, <2>1 DEF Told
  <2> QED BY <2>1, <2>2, GoneInserting DEF Reading, Writing, Telling
<1>8. CASE DeleteEntryRemove(r)
  <2>1. RemoveThen(r, {mem[r].dto} \cap DOMAIN db, "ok", NoMem) /\ r \in Open
    BY <1>2, <1>8 DEF DeleteEntryRemove, Ended
  <2> QED BY <2>1, GoneRemoving
<1> QED BY <1>4, <1>5, <1>6, <1>7, <1>8 DEF EntryOperation

LEMMA AttendanceOver ==
    ASSUME OverInv, area' = area, NEW r \in Request, AttendanceOperation(r)
    PROVE  OverInv'
<1> DEFINE C == OperationsColumns
<1>1. ColumnInv(C) /\ Told(r)
  BY DEF OverInv, OpSaveInv, SaveInv, SharedInv
<1>2. \A s : At(r, s) /\ s \notin {"idle"} \cup Ended => r \in Open
  BY DEF At, Open
<1>3. C["attendance"] = {"at", "clockOut", "in", "out"}
  BY DEF OperationsColumns
<1>4. CASE AddAttendance(r)
  <2>1. PICK c \in ClockOut \cup {Null}, photos \in {{"in"}, Photo} :
          \E names \in FreshNames(photos) :
            /\ \/ Begin(r, "attendance.insert", [dto |-> AttendanceRow(c, names)])
               \/ Begin(r, "error", NoMem)
            /\ UNCHANGED <<db, hist>>
    BY <1>4 DEF AddAttendance
  <2>2. PICK names \in FreshNames(photos) :
            /\ \/ Begin(r, "attendance.insert", [dto |-> AttendanceRow(c, names)])
               \/ Begin(r, "error", NoMem)
            /\ UNCHANGED <<db, hist>>
    BY <2>1
  <2>3. CASE Begin(r, "attendance.insert", [dto |-> AttendanceRow(c, names)])
    <3> DEFINE m == [dto |-> AttendanceRow(c, names)]
    <3>1. OpSaveInv' /\ Moves(r, "attendance.insert") /\ mem'[r] = Memory(m)
      BY <2>2, <2>3, BeginReads, OpUnderWay DEF OverInv, OpSaveInv, Reading, Writing, Telling
    <3>2. mem'[r].dto = AttendanceRow(c, names)
      BY <3>1 DEF Memory, NoMem
    <3>3. DOMAIN names = photos /\ photos \subseteq {"in", "out"}
      BY DEF FreshNames, Photo
    <3>4. DOMAIN AttendanceRow(c, names) = C["attendance"]
      BY <1>3, <3>3 DEF AttendanceRow, Over
    <3>5. step'[r] = "attendance.insert"
      BY <3>1 DEF Moves
    <3>6. Told(r)'
      BY <3>2, <3>4, <3>5 DEF Told
    <3> QED BY <3>1, <3>6, ToldStays
  <2>4. CASE Begin(r, "error", NoMem)
    BY <2>2, <2>4, Begun DEF Reading, Writing, Telling
  <2> QED BY <2>2, <2>3, <2>4
<1>5. CASE AddAttendanceInsert(r)
  <2> DEFINE rows == Single(<<"attendance", r>>, mem[r].dto)
  <2>1. InsertThen(r, rows, "ok", NoMem) /\ r \in Open /\ step[r] = "attendance.insert"
    BY <1>2, <1>5 DEF AddAttendanceInsert, Ended, At
  <2>2. DOMAIN mem[r].dto = C["attendance"]
    BY <1>1, <2>1 DEF Told
  <2>3. Schema(C, rows)
    BY <2>2 DEF Schema, Single
  <2> HIDE DEF rows
  <2> QED BY <2>1, <2>3, GoneInserting DEF Reading, Writing, Telling
<1>6. CASE EditAttendance(r)
  <2>1. PICK a \in Live("attendance"), c \in ClockOut \cup {Null}, photos \in SUBSET Photo :
          /\ Begin(r, "attendance.photos",
                [dto |-> [clockOut |-> c, photos |-> photos],
                 rows |-> Single(<<"attendance", a>>, Row("attendance", a))])
          /\ UNCHANGED <<db, hist>>
    BY <1>6 DEF EditAttendance
  <2> DEFINE k == <<"attendance", a>>
             dto == [clockOut |-> c, photos |-> photos]
             rows == Single(k, Row("attendance", a))
             m == [dto |-> dto, rows |-> rows]
  <2>2. k \in DOMAIN db /\ Row("attendance", a) = db[k]
    BY <1>1, LiveKey
  <2>3. Fits(C, k, Row("attendance", a)) /\ Fresh(r, k, Row("attendance", a), {})
    BY <1>1, <2>2, RowFits, ReadFresh
  <2>4. Knows(C, r, rows, {}) /\ \A j \in DOMAIN rows : j[1] = "attendance"
    BY <2>3 DEF Knows, Single
  <2> HIDE DEF rows
  <2>5. Memory(m).rows = rows /\ Memory(m).meant = {} /\ Memory(m).dto = dto
    BY DEF Memory, NoMem
  <2>6. /\ OpSaveInv' /\ Moves(r, "attendance.photos")
        /\ mem'[r] = Memory(m)
    <3>1. Begin(r, "attendance.photos", m) /\ UNCHANGED <<db, hist>>
      BY <2>1 DEF rows
    <3>2. Knows(C, r, Memory(m).rows, Memory(m).meant)
      BY <2>4, <2>5
    <3> HIDE DEF m
    <3> QED BY <3>1, <3>2, BeginSaves, OpUnderWay DEF OverInv, OpSaveInv, Reading
  <2>7. step'[r] = "attendance.photos"
    BY <2>6 DEF Moves
  <2>8. Told(r)'
    BY <2>4, <2>5, <2>6, <2>7 DEF Told
  <2> QED BY <2>6, <2>8, ToldStays
<1>7. CASE EditAttendancePhotos(r)
  <2> DEFINE dto == mem[r].dto
             held == mem[r].rows
             values == IF dto.clockOut = Null THEN <<>> ELSE [clockOut |-> dto.clockOut]
  <2>1. r \in Open /\ step[r] = "attendance.photos"
    BY <1>2, <1>7 DEF EditAttendancePhotos, At, Ended
  <2>2. CASE Reads(r, "error", NoMem)
    BY <2>1, <2>2, Gone DEF Reading, Writing, Telling
  <2>3. CASE \E names \in FreshNames(dto.photos) :
               Reads(r, "entity.reload",
                     Save([k \in DOMAIN held |-> Assigned(held[k], Over(names, values))],
                          dto.photos \cup DOMAIN values))
    <3>1. PICK names \in FreshNames(dto.photos) :
               Reads(r, "entity.reload",
                     Save([k \in DOMAIN held |-> Assigned(held[k], Over(names, values))],
                          dto.photos \cup DOMAIN values))
      BY <2>3
    <3> DEFINE meant == dto.photos \cup DOMAIN values
               given == Over(names, values)
               rows == [k \in DOMAIN held |-> Assigned(held[k], given)]
               m == Save(rows, meant)
    <3>2. Knows(C, r, held, {}) /\ \A k \in DOMAIN held : k[1] = "attendance"
      BY <1>1, <2>1 DEF OverInv, OpSaveInv, SaveInv, Keeps, Reading, Holds, Told
    <3>3. DOMAIN values \subseteq {"clockOut"}
      OBVIOUS
    <3>4. dto.photos \subseteq Photo
      BY <1>1, <2>1 DEF Told
    <3>5. DOMAIN given = meant /\ meant \subseteq C["attendance"]
      BY <1>3, <3>3, <3>4 DEF FreshNames, Over, Photo
    <3> HIDE DEF values, meant, given
    <3>6. Knows(C, r, rows, meant)
      <4> SUFFICES ASSUME NEW k \in DOMAIN held
                   PROVE  /\ Fits(C, k, Assigned(held[k], given))
                          /\ k \in DOMAIN hist => Fresh(r, k, Assigned(held[k], given), meant)
        BY DEF Knows
      <4>1. /\ Fits(C, k, held[k]) /\ DOMAIN given \subseteq C[k[1]]
            /\ k \in DOMAIN hist => Fresh(r, k, held[k], {})
        BY <3>2, <3>5 DEF Knows
      <4> QED BY <3>5, <4>1, AssignedFits, AssignedFresh
    <3> HIDE DEF rows
    <3>7. m = [rows |-> rows, meant |-> meant]
      BY DEF Save
    <3>8. Over(m, mem[r]).rows = rows /\ Over(m, mem[r]).meant = meant
      BY <3>7 DEF Over
    <3>9. Goto(r, "entity.reload", m) /\ UNCHANGED <<db, hist>>
      BY <3>1 DEF Reads, rows, meant, given, values
    <3>10. Knows(C, r, Over(m, mem[r]).rows, Over(m, mem[r]).meant)
      BY <3>6, <3>8
    <3> HIDE DEF m
    <3>11. OpSaveInv' /\ Moves(r, "entity.reload")
      BY <2>1, <3>9, <3>10, GoSaves, OpUnderWay DEF OverInv, OpSaveInv, Reading
    <3> QED BY <3>11, Quietly DEF Telling, Open
  <2> QED BY <1>7, <2>2, <2>3 DEF EditAttendancePhotos
<1>8. CASE DeleteAttendances(r)
  <2>1. PICK m : Begin(r, "attendance.unlink", m) /\ UNCHANGED <<db, hist>>
    BY <1>8 DEF DeleteAttendances
  <2> QED BY <2>1, Begun DEF Reading, Writing, Telling
<1>9. CASE DeleteAttendancesPhotos(r)
  <2>1. Reads(r, "attendance.remove", <<>>) /\ r \in Open
    BY <1>2, <1>9 DEF DeleteAttendancesPhotos, Ended
  <2> QED BY <2>1, Gone DEF Reading, Writing, Telling
<1>10. CASE DeleteAttendancesRemove(r)
  <2>1. RemoveThen(r, DOMAIN mem[r].rows \cap DOMAIN db, "ok", NoMem) /\ r \in Open
    BY <1>2, <1>10 DEF DeleteAttendancesRemove, Ended
  <2> QED BY <2>1, GoneRemoving
<1> QED BY <1>4, <1>5, <1>6, <1>7, <1>8, <1>9, <1>10 DEF AttendanceOperation

\* The process ends, and every request with it.
LEMMA UnlinkFailsOver ==
    ASSUME OverInv, area' = area, UnlinkFails
    PROVE  OverInv'
<1>1. /\ \A r \in Request : step'[r] = (IF r \in Open THEN "error" ELSE step[r])
      /\ \A r \in Request : mem'[r] = NoMem
      /\ DOMAIN step' = Request /\ DOMAIN mem' = Request
      /\ UNCHANGED <<db, hist, met>>
  BY DEF UnlinkFails
<1>2. \A r \in Request : step'[r] \in {"idle", "ok", "error"}
  BY <1>1 DEF Open, Ended
<1>3. Open' = {}
  BY <1>2 DEF Open, Ended
<1>4. MetInv /\ ColumnInv(OperationsColumns) /\ OverwrittenOnlyByOverlap
  BY DEF OverInv, OpSaveInv, SaveInv, SharedInv
<1>5. HoldInv'
  BY <1>1 DEF HoldInv, NoMem
<1>6. \A r \in Request : step'[r] = "idle" => met'[r] = {}
  BY <1>1, <1>4 DEF MetInv, Open
<1>7. MetInv'
  BY <1>1, <1>3, <1>4, <1>6 DEF MetInv
<1>8. ColumnInv(OperationsColumns)'
  BY <1>1, <1>4 DEF ColumnInv
<1>9. OverwrittenOnlyByOverlap'
  BY <1>1, <1>4 DEF OverwrittenOnlyByOverlap, Linked
<1>10. \A r \in Request : Keeps(OperationsColumns, Reading, Writing, r)'
  BY <1>2, OpUnderWay DEF Keeps, UnderWay
<1>11. \A r \in Request : Told(r)'
  BY <1>2 DEF Told
<1> QED BY <1>5, <1>7, <1>8, <1>9, <1>10, <1>11 DEF OverInv, OpSaveInv, SaveInv, SharedInv

LEMMA SameOver ==
    ASSUME OverInv, area' = area, UNCHANGED <<db, step, mem, met, hist>>
    PROVE  OverInv'
<1>1. OpSaveInv'
  BY SameStep DEF OverInv, OpSaveInv
<1>2. \A r \in Request : Told(r)'
  BY DEF OverInv, Told, Knows, Fits, Fresh, LinkedTo, Linked, ForeignColumns, Single, Schema
<1> QED BY <1>1, <1>2 DEF OverInv

LEMMA OperationOver ==
    ASSUME OverInv, area' = area, NEW r \in Request, Operation(r)
    PROVE  OverInv'
<1>1. \A s : At(r, s) /\ s \notin {"idle"} \cup Ended => r \in Open
  BY DEF At, Open
<1>2. CASE EntityReload(r)
  <2>1. step[r] \in Reading /\ Reload(r, "entity.write") /\ "entity.write" \in Writing
    BY <1>2 DEF EntityReload, At, Reading, Writing
  <2>2. OpSaveInv' /\ Moves(r, "entity.write")
    BY <2>1, ReloadStep, OpUnderWay DEF OverInv, OpSaveInv
  <2> QED BY <2>2, Quietly DEF Telling
<1>3. CASE EntityWrite(r)
  <2>1. step[r] \in Writing /\ Write(r, "ok", NoMem)
    BY <1>3 DEF EntityWrite, At, Writing
  <2>2. "ok" \notin {"idle"} \cup Reading \cup Writing
    BY DEF Reading, Writing
  <2>3. OpSaveInv' /\ (Moves(r, "ok") \/ Moves(r, "error"))
    BY <2>1, <2>2, WriteStep, OpUnderWay, OpForeign DEF OverInv, OpSaveInv
  <2> QED BY <2>3, Quietly DEF Telling
<1>4. CASE Fails(r)
  <2>1. Reads(r, "error", NoMem) \/ (Goto(r, "error", NoMem) /\ UNCHANGED <<db, hist>>)
    BY <1>4 DEF Fails
  <2>2. r \in Open
    BY <1>4 DEF Fails, Open
  <2>3. OpSaveInv' /\ Moves(r, "error")
    BY <1>4, <2>2, GoReads, OpUnderWay DEF Fails, OverInv, OpSaveInv, Reading, Writing
  <2> QED BY <2>3, Quietly DEF Telling
<1> QED BY <1>2, <1>3, <1>4, InventoryOver, CashOver, EntryOver, AttendanceOver DEF Operation

LEMMA OverInitially == Init => OverInv
<1> SUFFICES ASSUME Init
             PROVE  OverInv
  OBVIOUS
<1>1. area \in Area /\ Schema(OperationsColumns, Rows[area]) /\ TablesInit(Rows[area])
  BY SchemaAssumption DEF Init
<1>2. OpSaveInv
  BY <1>1, SaveInit, OpUnderWay DEF OpSaveInv
<1>3. \A r \in Request : Told(r)
  BY <1>1 DEF TablesInit, Told
<1> QED BY <1>1, <1>2, <1>3 DEF OverInv

LEMMA OverInductive == OverInv /\ [Next]_vars => OverInv'
<1> SUFFICES ASSUME OverInv, [Next]_vars
             PROVE  OverInv'
  OBVIOUS
<1>1. CASE UNCHANGED vars
  BY <1>1, SameOver DEF vars, tableVars
<1>2. CASE \E r \in Among[area] : Operation(r) /\ area' = area
  <2>1. Among[area] \subseteq Request
    BY RequestAssumption DEF OverInv
  <2> QED BY <1>2, <2>1, OperationOver
<1>3. CASE UnlinkDone /\ area' = area
  BY <1>3, SameOver DEF UnlinkDone, tableVars
<1>4. CASE UnlinkFails /\ area' = area
  BY <1>4, UnlinkFailsOver
<1>5. CASE Finished /\ area' = area
  BY <1>5, SameOver DEF Finished, tableVars
<1> QED BY <1>1, <1>2, <1>3, <1>4, <1>5 DEF Next

\* What a request asked for is overwritten only by a request that a chain of
\* overlaps joins to it.
THEOREM OperationsOverwritten == Spec => []OverwrittenOnlyByOverlap
<1>1. OverInv => OverwrittenOnlyByOverlap
  BY DEF OverInv, OpSaveInv, SaveInv, SharedInv
<1> QED BY <1>1, OverInitially, OverInductive, PTL DEF Spec

-----------------------------------------------------------------------------
(* The ledger of stock.                                                    *)

Saving == {"entity.reload", "entity.write"}

\* Keys are pairs, and history forgets none.
ShapeInv ==
    /\ HoldInv
    /\ DOMAIN db \subseteq DOMAIN hist
    /\ \A k \in DOMAIN db : k = <<k[1], k[2]>>

\* A purchase named after a request was made by it.
MadeInv ==
    \A r \in Request : <<"purchase", r>> \in DOMAIN hist => step[r] \in {"stock.insert"} \cup Ended

\* A purchase that request r updates was there, and is saved with its item;
\* besides purchases, items are saved.
SavesOld(r) ==
    /\ step[r] = "purchase.check" => <<"purchase", mem[r].dto.id>> \in DOMAIN hist
    /\ step[r] \in Saving =>
          \A k \in DOMAIN mem[r].rows :
              /\ k = <<k[1], k[2]>>
              /\ k[1] \in {"item", "purchase"}
              /\ k[1] = "purchase" => /\ k \in DOMAIN hist
                                       /\ "item" \in mem[r].meant
                                       /\ "item" \in DOMAIN mem[r].rows[k]
SavingInv == \A r \in Request : SavesOld(r)

\* Nobody but the request it is named after asked for a column of purchase p.
LeftAlone(p) ==
    \A c \in {"at", "item", "quantity"} : hist[<<"purchase", p>>][c].by \in {p, Null}

\* A request about to write the ledger knows what it bought.
BoughtInv ==
    \A r \in Request :
       (step[r] = "stock.insert" /\ <<"purchase", r>> \in DOMAIN db /\ LeftAlone(r))
         => /\ db[<<"purchase", r>>].item = mem[r].dto.item
            /\ db[<<"purchase", r>>].quantity = mem[r].dto.quantity

\* A request's ledger row is about its purchase, and is its last statement.
EntryInv ==
    \A k \in DOMAIN db :
        (k[1] = "stock" /\ (db[k].purchase \in Request \/ k[2] \in Request))
          => k[2] = db[k].purchase /\ step[k[2]] = "ok"

EntryKeys(p) == {k \in DOMAIN db : k[1] = "stock" /\ db[k].purchase = p}
EnteredOnce(p) ==
    {db[k] : k \in EntryKeys(p)}
      = {StockRow(db[<<"purchase", p>>].item, p, db[<<"purchase", p>>].quantity, 0)}
KeptInv ==
    \A k \in DOMAIN db :
        (/\ k[1] = "purchase" /\ LeftAlone(k[2])
         /\ k[2] \in Request => step[k[2]] = "ok")
          => EnteredOnce(k[2])

StockInv == ShapeInv /\ MadeInv /\ SavingInv /\ BoughtInv /\ EntryInv /\ KeptInv

-----------------------------------------------------------------------------
(* What steps and statements do, as far as these facts tell them apart.    *)

\* Of a column asked for, history has who asked.
LEMMA RecordBy ==
    ASSUME NEW r, NEW rows, NEW values, NEW meant, NEW wrote,
           Record(r, rows, values, meant, wrote),
           NEW k \in DOMAIN meant, NEW c \in DOMAIN values[k] \cap meant[k]
    PROVE  hist'[k][c].by = r
<1>1. hist'[k][c] = [val |-> IF c \in meant[k] THEN values[k][c] ELSE hist[k][c].val,
                     by |-> IF c \in meant[k] THEN r ELSE hist[k][c].by,
                     writer |-> IF c \in wrote[k] THEN r ELSE hist[k][c].writer]
  BY RecordRow
<1> QED BY <1>1

\* What requests hold stays true of them.
LEMMA RequestsStep ==
    ASSUME ShapeInv, MadeInv, SavingInv,
           NEW r \in Request, NEW s, StepsTo(r, s), step[r] \notin Ended,
           step[r] = "stock.insert" => s \in Ended,
           DOMAIN hist \subseteq DOMAIN hist',
           \A p : <<"purchase", p>> \in DOMAIN hist' =>
              <<"purchase", p>> \in DOMAIN hist \/ (p = r /\ s = "stock.insert"),
           SavesOld(r)'
    PROVE  /\ DOMAIN step' = Request /\ DOMAIN mem' = Request
           /\ \A q \in Request : DOMAIN NoMem \subseteq DOMAIN mem'[q]
           /\ MadeInv' /\ SavingInv'
           /\ \A q \in Request : step'[q] = IF q = r THEN s ELSE step[q]
<1>1. /\ DOMAIN step' = Request /\ DOMAIN mem' = Request
      /\ \A q \in Request : DOMAIN NoMem \subseteq DOMAIN mem'[q]
      /\ \A q \in Request : step'[q] = IF q = r THEN s ELSE step[q]
      /\ \A q \in Request \ {r} : mem'[q] = mem[q]
  BY DEF StepsTo, ShapeInv, HoldInv
<1>2. MadeInv'
  <2> SUFFICES ASSUME NEW q \in Request, <<"purchase", q>> \in DOMAIN hist'
               PROVE  step'[q] \in {"stock.insert"} \cup Ended
    BY DEF MadeInv
  <2>1. CASE <<"purchase", q>> \in DOMAIN hist
    BY <1>1, <2>1 DEF MadeInv
  <2>2. CASE <<"purchase", q>> \notin DOMAIN hist
    BY <1>1, <2>2
  <2> QED BY <2>1, <2>2
<1>3. SavingInv'
  <2> SUFFICES ASSUME NEW q \in Request, q # r
               PROVE  SavesOld(q)'
    BY DEF SavingInv
  <2>1. SavesOld(q) /\ step'[q] = step[q] /\ mem'[q] = mem[q]
    BY <1>1 DEF SavingInv
  <2> QED BY <2>1 DEF SavesOld
<1> QED BY <1>1, <1>2, <1>3

\* Neither the purchase p nor its entries change.
Undisturbed(p) ==
    /\ <<"purchase", p>> \in DOMAIN db
    /\ db'[<<"purchase", p>>] = db[<<"purchase", p>>]
    /\ hist'[<<"purchase", p>>] = hist[<<"purchase", p>>]
    /\ \A k : k \in EntryKeys(p)' <=> k \in EntryKeys(p)
    /\ \A k \in EntryKeys(p) : db'[k] = db[k]

LEMMA UndisturbedKept ==
    ASSUME KeptInv, NEW p, Undisturbed(p), LeftAlone(p)',
           p \in Request => step[p] = "ok"
    PROVE  EnteredOnce(p)'
<1> DEFINE k == <<"purchase", p>>
<1>1. k \in DOMAIN db /\ k[1] = "purchase" /\ k[2] = p
  BY DEF Undisturbed
<1>2. LeftAlone(p)
  BY DEF LeftAlone, Undisturbed
<1>3. EnteredOnce(p)
  BY <1>1, <1>2 DEF KeptInv
<1>4. EntryKeys(p)' = EntryKeys(p)
  BY DEF Undisturbed, EntryKeys
<1>5. {db'[j] : j \in EntryKeys(p)'} = {db[j] : j \in EntryKeys(p)}
  BY <1>4 DEF Undisturbed
<1>6. db'[k] = db[k]
  BY DEF Undisturbed
<1> QED BY <1>3, <1>5, <1>6 DEF EnteredOnce

\* A request that began after the purchase p is not the one that made it.
LEMMA MakerEnded ==
    ASSUME ShapeInv, MadeInv, NEW r \in Request, NEW s, step[r] \notin Ended,
           step[r] = "stock.insert" => s # "ok",
           \A q \in Request : step'[q] = IF q = r THEN s ELSE step[q],
           NEW p, <<"purchase", p>> \in DOMAIN db, p \in Request => step'[p] = "ok"
    PROVE  p \in Request => step[p] = "ok"
<1>1. <<"purchase", p>> \in DOMAIN hist
  BY DEF ShapeInv, HoldInv
<1> QED BY <1>1 DEF MadeInv, Ended

\* A step after which the purchases left alone are those there were, or the
\* one that the step makes, and the ledger has no other rows.
LEMMA PurchasesStep ==
    ASSUME StockInv, NEW r \in Request, NEW s, StepsTo(r, s), step[r] \notin Ended,
           step[r] = "stock.insert" => s = "error",
           SavesOld(r)',
           DOMAIN hist \subseteq DOMAIN hist',
           \A p : <<"purchase", p>> \in DOMAIN hist' =>
              <<"purchase", p>> \in DOMAIN hist \/ (p = r /\ s = "stock.insert"),
           \A k \in DOMAIN db' : k = <<k[1], k[2]>> /\ k \in DOMAIN hist',
           \A k \in DOMAIN db' : k[1] = "stock" => k \in DOMAIN db /\ db'[k] = db[k],
           \A p : <<"purchase", p>> \in DOMAIN db' /\ LeftAlone(p)' =>
              Undisturbed(p) \/ (p = r /\ s = "stock.insert"),
           s = "stock.insert" =>
              /\ db'[<<"purchase", r>>].item = mem'[r].dto.item
              /\ db'[<<"purchase", r>>].quantity = mem'[r].dto.quantity
    PROVE  StockInv'
<1> USE DEF StockInv
<1>1. /\ DOMAIN step' = Request /\ DOMAIN mem' = Request
      /\ \A q \in Request : DOMAIN NoMem \subseteq DOMAIN mem'[q]
      /\ MadeInv' /\ SavingInv'
      /\ \A q \in Request : step'[q] = IF q = r THEN s ELSE step[q]
  BY RequestsStep DEF Ended
<1>2. ShapeInv'
  BY <1>1 DEF ShapeInv, HoldInv
<1>3. BoughtInv'
  <2> SUFFICES ASSUME NEW q \in Request, q # r, step'[q] = "stock.insert",
                      <<"purchase", q>> \in DOMAIN db', LeftAlone(q)'
               PROVE  /\ db'[<<"purchase", q>>].item = mem'[q].dto.item
                      /\ db'[<<"purchase", q>>].quantity = mem'[q].dto.quantity
    BY <1>1 DEF BoughtInv
  <2>1. step[q] = "stock.insert" /\ mem'[q] = mem[q]
    BY <1>1 DEF StepsTo
  <2>2. Undisturbed(q)
    OBVIOUS
  <2>3. LeftAlone(q)
    BY <2>2 DEF LeftAlone, Undisturbed
  <2> QED BY <2>1, <2>2, <2>3 DEF BoughtInv, Undisturbed
<1>4. EntryInv'
  <2> SUFFICES ASSUME NEW k \in DOMAIN db', k[1] = "stock",
                      db'[k].purchase \in Request \/ k[2] \in Request
               PROVE  k[2] = db'[k].purchase /\ step'[k[2]] = "ok"
    BY DEF EntryInv
  <2>1. k \in DOMAIN db /\ db'[k] = db[k]
    OBVIOUS
  <2>2. k[2] = db[k].purchase /\ step[k[2]] = "ok" /\ k[2] \in Request
    BY <2>1 DEF EntryInv
  <2>3. k[2] # r
    BY <2>2 DEF Ended
  <2> QED BY <1>1, <2>1, <2>2, <2>3
<1>5. KeptInv'
  <2> SUFFICES ASSUME NEW k \in DOMAIN db', k[1] = "purchase", LeftAlone(k[2])',
                      k[2] \in Request => step'[k[2]] = "ok"
               PROVE  EnteredOnce(k[2])'
    BY DEF KeptInv
  <2>1. k = <<"purchase", k[2]>>
    OBVIOUS
  <2>2. Undisturbed(k[2])
    BY <1>1, <2>1
  <2>3. k[2] \in Request => step[k[2]] = "ok"
    BY <1>1, <2>2, MakerEnded DEF Undisturbed
  <2> QED BY <2>2, <2>3, UndisturbedKept
<1> QED BY <1>1, <1>2, <1>3, <1>4, <1>5

\* Purchases and ledger stay as they are; the keys of other rows are pairs.
Quiet ==
    /\ DOMAIN hist \subseteq DOMAIN hist'
    /\ \A p : <<"purchase", p>> \in DOMAIN hist' => <<"purchase", p>> \in DOMAIN hist
    /\ \A p : <<"purchase", p>> \in DOMAIN hist =>
                hist'[<<"purchase", p>>] = hist[<<"purchase", p>>]
    /\ \A k : k[1] \in {"purchase", "stock"} =>
                /\ k \in DOMAIN db' <=> k \in DOMAIN db
                /\ k \in DOMAIN db => db'[k] = db[k]
    /\ \A k \in DOMAIN db' : k = <<k[1], k[2]>> /\ k \in DOMAIN hist'

LEMMA SameQuiet ==
    ASSUME ShapeInv, UNCHANGED <<db, hist>>
    PROVE  Quiet
BY DEF ShapeInv, HoldInv, Quiet

LEMMA QuietUndisturbed ==
    ASSUME ShapeInv, Quiet, NEW p, <<"purchase", p>> \in DOMAIN db
    PROVE  Undisturbed(p)
<1> DEFINE k == <<"purchase", p>>
<1>1. k \in DOMAIN hist /\ k[1] = "purchase"
  BY DEF ShapeInv, HoldInv
<1>2. db'[k] = db[k] /\ hist'[k] = hist[k]
  BY <1>1 DEF Quiet
<1>3. \A j : j[1] = "stock" =>
          /\ j \in DOMAIN db' <=> j \in DOMAIN db
          /\ j \in DOMAIN db => db'[j] = db[j]
  BY DEF Quiet
<1> QED BY <1>2, <1>3 DEF Undisturbed, EntryKeys

LEMMA QuietStep ==
    ASSUME StockInv, NEW r \in Request, NEW s, StepsTo(r, s), step[r] \notin Ended,
           s # "stock.insert", step[r] = "stock.insert" => s = "error",
           Quiet, SavesOld(r)'
    PROVE  StockInv'
<1>1. \A p : <<"purchase", p>> \in DOMAIN db' => Undisturbed(p)
  BY QuietUndisturbed DEF Quiet, StockInv
<1>2. \A k \in DOMAIN db' : k[1] = "stock" => k \in DOMAIN db /\ db'[k] = db[k]
  BY DEF Quiet
<1> QED BY <1>1, <1>2, PurchasesStep DEF Quiet

-----------------------------------------------------------------------------
(* Statements.                                                             *)

LEMMA InsertsOne ==
    ASSUME NEW r, NEW k, NEW row, Inserts(r, Single(k, row))
    PROVE  /\ DOMAIN db' = DOMAIN db \cup {k}
           /\ db'[k] = row
           /\ \A j \in DOMAIN db \ {k} : db'[j] = db[j]
           /\ DOMAIN hist' = DOMAIN hist \cup {k}
           /\ \A j \in DOMAIN hist \ {k} : hist'[j] = hist[j]
<1> DEFINE rows == Single(k, row)
           all == [j \in DOMAIN rows |-> DOMAIN rows[j]]
<1>1. Record(r, Over(rows, db), rows, all, all)
  BY DEF Inserts
<1>2. DOMAIN all = {k}
  BY DEF Single
<1> HIDE DEF all
<1>3. db' = Over(rows, db) /\ DOMAIN hist' = DOMAIN hist \cup {k}
      /\ \A j \in DOMAIN hist \ {k} : hist'[j] = hist[j]
  BY <1>1, <1>2, RecordHist
<1>4. /\ DOMAIN Over(rows, db) = DOMAIN db \cup {k}
      /\ Over(rows, db)[k] = row
      /\ \A j \in DOMAIN db \ {k} : Over(rows, db)[j] = db[j]
  BY DEF Over, Single
<1> QED BY <1>3, <1>4

\* A row of another table is nothing to purchases and ledger.
LEMMA InsertsQuiet ==
    ASSUME ShapeInv, NEW r, NEW t, NEW i, NEW row, t \notin {"purchase", "stock"},
           Inserts(r, Single(<<t, i>>, row))
    PROVE  Quiet
<1> DEFINE k == <<t, i>>
<1>1. k[1] = t /\ k[2] = i
  OBVIOUS
<1> HIDE DEF k
<1>2. /\ DOMAIN db' = DOMAIN db \cup {k}
      /\ \A j \in DOMAIN db \ {k} : db'[j] = db[j]
      /\ DOMAIN hist' = DOMAIN hist \cup {k}
      /\ \A j \in DOMAIN hist \ {k} : hist'[j] = hist[j]
  BY InsertsOne DEF k
<1>3. k = <<k[1], k[2]>>
  BY <1>1 DEF k
<1>4. \A p : k # <<"purchase", p>>
  BY <1>1
<1>5. \A p : <<"purchase", p>> \in DOMAIN hist' => <<"purchase", p>> \in DOMAIN hist
  BY <1>2, <1>4
<1>6. \A p : <<"purchase", p>> \in DOMAIN hist =>
                hist'[<<"purchase", p>>] = hist[<<"purchase", p>>]
  BY <1>2, <1>4
<1>7. \A j : j[1] \in {"purchase", "stock"} =>
                /\ j \in DOMAIN db' <=> j \in DOMAIN db
                /\ j \in DOMAIN db => db'[j] = db[j]
  BY <1>1, <1>2
<1>8. \A j \in DOMAIN db' : j = <<j[1], j[2]>> /\ j \in DOMAIN hist'
  BY <1>2, <1>3 DEF ShapeInv, HoldInv
<1> QED BY <1>2, <1>5, <1>6, <1>7, <1>8 DEF Quiet

\* What a removal takes with it: ledger rows of purchases, and nothing else.
LEMMA RemovalCascade ==
    ASSUME NEW keys, NEW k \in Removal(keys) \ keys
    PROVE  /\ k \in DOMAIN db
           /\ k[1] = "stock"
           /\ <<"purchase", db[k].purchase>> \in keys
<1>1. PICK f \in References : /\ f.rule = "cascade" /\ k[1] = f.table
                               /\ <<f.target, db[k][f.column]>> \in keys
  BY DEF Removal
<1>2. f.table = "stock" /\ f.column = "purchase" /\ f.target = "purchase"
  BY <1>1, ForeignKeyAssumption
     DEF OperationsReferences, InventoryReferences, CashReferences, AttendanceReferences
<1> QED BY <1>1, <1>2 DEF Removal

LEMMA RemovesKeys ==
    ASSUME ShapeInv, NEW r, NEW keys, keys \subseteq DOMAIN db, Removes(r, keys)
    PROVE  /\ DOMAIN db' = DOMAIN db \ Removal(keys)
           /\ \A k \in DOMAIN db' : db'[k] = db[k]
           /\ DOMAIN hist' = DOMAIN hist
           /\ \A k \in DOMAIN hist \ Removal(keys) : hist'[k] = hist[k]
<1> DEFINE rest == DOMAIN db \ Removal(keys)
           sets == [k \in Removal(keys) |-> DOMAIN db[k]]
           values == [k \in Removal(keys) |-> [c \in DOMAIN db[k] |-> Null]]
<1>1. Record(r, Only(db, rest), values, sets, sets)
  BY DEF Removes
<1>2. DOMAIN sets = Removal(keys)
  OBVIOUS
<1> HIDE DEF sets, values
<1>3. db' = Only(db, rest) /\ DOMAIN hist' = DOMAIN hist \cup Removal(keys)
      /\ \A k \in DOMAIN hist \ Removal(keys) : hist'[k] = hist[k]
  BY <1>1, <1>2, RecordHist
<1>4. Removal(keys) \subseteq DOMAIN hist
  BY DEF Removal, ShapeInv, HoldInv
<1> QED BY <1>3, <1>4 DEF Only

\* The rows held under these names are in the tables.
LEMMA FoundKeys ==
    ASSUME ShapeInv, NEW t, NEW ids, ids \subseteq Ids(t)
    PROVE  {t} \X ids \subseteq DOMAIN db
<1> SUFFICES ASSUME NEW i \in ids
             PROVE  <<t, i>> \in DOMAIN db
  OBVIOUS
<1>1. PICK k \in DOMAIN db : k[1] = t /\ k[2] = i
  BY DEF Ids
<1>2. k = <<k[1], k[2]>>
  BY DEF ShapeInv, HoldInv
<1> QED BY <1>1, <1>2

-----------------------------------------------------------------------------
(* Operations that leave purchases and ledger as they are.                 *)

LEMMA NotSaving ==
    ASSUME ShapeInv, NEW r \in Request, NEW s, StepsTo(r, s),
           s \notin Saving \cup {"purchase.check"}
    PROVE  SavesOld(r)'
BY DEF ShapeInv, HoldInv, StepsTo, SavesOld

\* A request that a statement refuses, or that fails, ends.
LEMMA ErrorStep ==
    ASSUME StockInv, NEW r \in Request, NEW m, step[r] \notin Ended,
           Goto(r, "error", m), UNCHANGED <<db, hist>>
    PROVE  StockInv'
<1>1. StepsTo(r, "error")
  BY GotoSteps DEF StockInv, ShapeInv
<1>2. SavesOld(r)'
  BY <1>1, NotSaving DEF StockInv, Saving
<1>3. Quiet
  BY SameQuiet DEF StockInv
<1> QED BY <1>1, <1>2, <1>3, QuietStep

\* A request that began and only read.
LEMMA BegunStep ==
    ASSUME StockInv, NEW r \in Request, NEW s, NEW m, Begin(r, s, m),
           s # "stock.insert", UNCHANGED <<db, hist>>, SavesOld(r)'
    PROVE  StockInv'
<1>1. StepsTo(r, s) /\ step[r] = "idle"
  BY BeginSteps DEF StockInv, ShapeInv
<1>2. Quiet
  BY SameQuiet DEF StockInv
<1> QED BY <1>1, <1>2, QuietStep DEF Ended

LEMMA CreateInventoryItemStep ==
    ASSUME StockInv, NEW r \in Request, CreateInventoryItem(r)
    PROVE  StockInv'
<1>1. PICK title \in ItemTitle :
        Begin(r, "ok", NoMem) /\ Inserts(r, Single(<<"item", r>>, ItemRow(title)))
  BY DEF CreateInventoryItem
<1>2. StepsTo(r, "ok") /\ step[r] = "idle"
  BY <1>1, BeginSteps DEF StockInv, ShapeInv
<1>3. SavesOld(r)'
  BY <1>2, NotSaving DEF StockInv, Saving
<1>4. Quiet
  BY <1>1, InsertsQuiet DEF StockInv
<1> QED BY <1>2, <1>3, <1>4, QuietStep DEF Ended

LEMMA EditInventoryItemStep ==
    ASSUME StockInv, NEW r \in Request, EditInventoryItem(r)
    PROVE  StockInv'
<1>1. PICK i \in Live("item"), title \in ItemTitle :
        /\ Begin(r, "entity.reload",
              Save(Single(<<"item", i>>, Assigned(Row("item", i), [title |-> title])), {"title"}))
        /\ UNCHANGED <<db, hist, faults>>
  BY DEF EditInventoryItem
<1> DEFINE rows == Single(<<"item", i>>, Assigned(Row("item", i), [title |-> title]))
<1>2. StepsTo(r, "entity.reload") /\ mem'[r] = Memory(Save(rows, {"title"}))
  BY <1>1, BeginSteps DEF StockInv, ShapeInv
<1>3. DOMAIN rows = {<<"item", i>>}
  BY DEF Single
<1> HIDE DEF rows
<1>4. mem'[r].rows = rows
  BY <1>2 DEF Memory, Save, NoMem
<1>5. step'[r] = "entity.reload"
  BY <1>2 DEF StepsTo, StockInv, ShapeInv, HoldInv
<1>6. SavesOld(r)'
  BY <1>3, <1>4, <1>5 DEF SavesOld
<1> QED BY <1>1, <1>6, BegunStep

LEMMA DeleteInventoryItemsStep ==
    ASSUME StockInv, NEW r \in Request, DeleteInventoryItems(r)
    PROVE  StockInv'
<1> USE DEF StockInv
<1>1. PICK ids \in SUBSET Ids("item") \ {{}} :
        Begin(r, "ok", NoMem) /\ Removes(r, {"item"} \X ids)
  BY DEF DeleteInventoryItems
<1> DEFINE keys == {"item"} \X ids
<1>2. StepsTo(r, "ok") /\ step[r] = "idle"
  BY <1>1, BeginSteps DEF ShapeInv
<1>3. SavesOld(r)'
  BY <1>2, NotSaving DEF Saving
<1>4. keys \subseteq DOMAIN db
  BY <1>1, FoundKeys
<1>5. \A k \in keys : k[1] = "item"
  OBVIOUS
<1> HIDE DEF keys
<1>6. \A k \in Removal(keys) : k[1] \notin {"purchase", "stock"}
  <2> SUFFICES ASSUME NEW k \in Removal(keys), k \notin keys
               PROVE  FALSE
    BY <1>5
  <2>1. <<"purchase", db[k].purchase>> \in keys
    BY RemovalCascade
  <2> QED BY <1>5, <2>1
<1>7. /\ DOMAIN db' = DOMAIN db \ Removal(keys)
      /\ \A k \in DOMAIN db' : db'[k] = db[k]
      /\ DOMAIN hist' = DOMAIN hist
      /\ \A k \in DOMAIN hist \ Removal(keys) : hist'[k] = hist[k]
  BY <1>1, <1>4, RemovesKeys DEF keys
<1>8. Quiet
  <2>1. \A p : <<"purchase", p>> \notin Removal(keys)
    BY <1>6
  <2>2. \A k : k[1] \in {"purchase", "stock"} =>
                /\ k \in DOMAIN db' <=> k \in DOMAIN db
                /\ k \in DOMAIN db => db'[k] = db[k]
    BY <1>6, <1>7
  <2>3. \A k \in DOMAIN db' : k = <<k[1], k[2]>> /\ k \in DOMAIN hist'
    BY <1>7 DEF ShapeInv, HoldInv
  <2> QED BY <1>7, <2>1, <2>2, <2>3 DEF Quiet
<1> QED BY <1>2, <1>3, <1>8, QuietStep DEF Ended

LEMMA ReadingStep ==
    ASSUME StockInv, NEW r \in Request, AddPurchase(r) \/ UpdatePurchase(r) \/ DeletePurchases(r)
    PROVE  StockInv'
<1> USE DEF StockInv
<1>1. CASE AddPurchase(r)
  <2>1. PICK m : Begin(r, "purchase.insert", m) /\ UNCHANGED <<db, hist>>
    BY <1>1 DEF AddPurchase
  <2>2. SavesOld(r)'
    BY <2>1, BeginSteps, NotSaving DEF ShapeInv, Saving
  <2> QED BY <2>1, <2>2, BegunStep
<1>2. CASE UpdatePurchase(r)
  <2>1. PICK p \in Live("purchase") :
          /\ Begin(r, "purchase.check", [dto |-> [id |-> p, row |-> Row("purchase", p)]])
          /\ UNCHANGED <<db, hist, faults>>
    BY <1>2 DEF UpdatePurchase
  <2>2. StepsTo(r, "purchase.check")
        /\ mem'[r] = Memory([dto |-> [id |-> p, row |-> Row("purchase", p)]])
    BY <2>1, BeginSteps DEF ShapeInv
  <2>3. mem'[r].dto.id = p
    BY <2>2 DEF Memory, NoMem
  <2>4. {"purchase"} \X {p} \subseteq DOMAIN db
    BY <2>1, FoundKeys DEF Live
  <2>5. <<"purchase", p>> \in DOMAIN hist'
    BY <2>1, <2>4 DEF ShapeInv, HoldInv
  <2>6. step'[r] = "purchase.check"
    BY <2>2 DEF StepsTo, ShapeInv, HoldInv
  <2>7. SavesOld(r)'
    BY <2>3, <2>5, <2>6 DEF SavesOld, Saving
  <2> QED BY <2>1, <2>7, BegunStep
<1>3. CASE DeletePurchases(r)
  <2>1. PICK m : Begin(r, "purchase.delete", m) /\ UNCHANGED <<db, hist>>
    BY <1>3 DEF DeletePurchases
  <2>2. SavesOld(r)'
    BY <2>1, BeginSteps, NotSaving DEF ShapeInv, Saving
  <2> QED BY <2>1, <2>2, BegunStep
<1> QED BY <1>1, <1>2, <1>3

LEMMA UpdatePurchaseCheckStep ==
    ASSUME StockInv, NEW r \in Request, UpdatePurchaseCheck(r)
    PROVE  StockInv'
<1> USE DEF StockInv
<1>1. step[r] = "purchase.check"
  BY DEF UpdatePurchaseCheck, At
<1>2. CASE Reads(r, "error", NoMem)
  BY <1>1, <1>2, ErrorStep DEF Reads, Ended
<1>3. CASE \E dto \in CreatePurchaseDto :
             Reads(r, "entity.reload",
                Save(Single(<<"purchase", mem[r].dto.id>>, Assigned(mem[r].dto.row, dto)),
                     DOMAIN dto))
  <2> DEFINE k == <<"purchase", mem[r].dto.id>>
             row(dto) == Assigned(mem[r].dto.row, dto)
  <2>1. PICK dto \in CreatePurchaseDto :
          Reads(r, "entity.reload", Save(Single(k, row(dto)), DOMAIN dto))
    BY <1>3
  <2>2. DOMAIN dto = {"item", "quantity"}
    BY DEF CreatePurchaseDto
  <2>3. "item" \in DOMAIN row(dto)
    BY <2>2 DEF Assigned, Over
  <2>4. k \in DOMAIN hist /\ k = <<k[1], k[2]>> /\ k[1] = "purchase"
    BY <1>1 DEF SavingInv, SavesOld
  <2> HIDE DEF k, row
  <2> DEFINE m == Save(Single(k, row(dto)), DOMAIN dto)
  <2>5. /\ DOMAIN m = {"rows", "meant"}
        /\ m.rows = Single(k, row(dto))
        /\ m.meant = DOMAIN dto
    BY DEF Save
  <2>6. DOMAIN Single(k, row(dto)) = {k} /\ Single(k, row(dto))[k] = row(dto)
    BY DEF Single
  <2>7. Goto(r, "entity.reload", m) /\ UNCHANGED <<db, hist>>
    BY <2>1 DEF Reads
  <2> HIDE DEF m
  <2>8. StepsTo(r, "entity.reload") /\ mem'[r] = Over(m, mem[r])
    BY <2>7, GotoSteps DEF ShapeInv, Ended
  <2>9. mem'[r].rows = Single(k, row(dto)) /\ mem'[r].meant = DOMAIN dto
    BY <2>5, <2>8 DEF Over
  <2>10. step'[r] = "entity.reload"
    BY <2>8 DEF StepsTo, ShapeInv, HoldInv
  <2>11. SavesOld(r)'
    BY <2>2, <2>3, <2>4, <2>6, <2>7, <2>9, <2>10 DEF SavesOld
  <2>12. Quiet
    BY <2>7, SameQuiet
  <2> QED BY <1>1, <2>8, <2>11, <2>12, QuietStep DEF Ended
<1> QED BY <1>2, <1>3 DEF UpdatePurchaseCheck

LEMMA EntityReloadStep ==
    ASSUME StockInv, NEW r \in Request, EntityReload(r)
    PROVE  StockInv'
<1> USE DEF StockInv
<1> DEFINE m == [dirty |-> DirtyOf(mem[r].rows)]
<1>1. step[r] = "entity.reload" /\ Goto(r, "entity.write", m) /\ UNCHANGED <<db, hist>>
  BY DEF EntityReload, At, Reload, Reads
<1>2. DOMAIN m = {"dirty"}
  OBVIOUS
<1> HIDE DEF m
<1>3. StepsTo(r, "entity.write") /\ mem'[r] = Over(m, mem[r])
  BY <1>1, GotoSteps DEF ShapeInv, Ended
<1>4. "rows" \in DOMAIN mem[r] /\ "meant" \in DOMAIN mem[r]
  BY DEF ShapeInv, HoldInv, NoMem
<1>5. mem'[r].rows = mem[r].rows /\ mem'[r].meant = mem[r].meant
  BY <1>2, <1>3, <1>4 DEF Over
<1>6. step'[r] = "entity.write"
  BY <1>3 DEF StepsTo, ShapeInv, HoldInv
<1>7. SavesOld(r)
  BY DEF SavingInv
<1>8. SavesOld(r)'
  BY <1>1, <1>5, <1>6, <1>7 DEF SavesOld, Saving
<1>9. Quiet
  BY <1>1, SameQuiet
<1> QED BY <1>1, <1>3, <1>8, <1>9, QuietStep DEF Ended

-----------------------------------------------------------------------------
(* Operations that change purchases or the ledger.                         *)

\* The purchase is made, by the request it is named after.
LEMMA AddPurchaseInsertStep ==
    ASSUME StockInv, NEW r \in Request, AddPurchaseInsert(r)
    PROVE  StockInv'
<1> USE DEF StockInv
<1> DEFINE k == <<"purchase", r>>
           row == PurchaseRow(mem[r].dto.item, mem[r].dto.quantity)
<1>1. step[r] = "purchase.insert"
  BY DEF AddPurchaseInsert, At
<1>2. InsertThen(r, Single(k, row), "stock.insert", <<>>)
  BY DEF AddPurchaseInsert
<1>3. CASE Reads(r, "error", NoMem)
  BY <1>1, <1>3, ErrorStep DEF Reads, Ended
<1>4. CASE Inserts(r, Single(k, row)) /\ Goto(r, "stock.insert", <<>>)
  <2>1. k \notin DOMAIN hist
    BY <1>1 DEF MadeInv, Ended
  <2>2. row.item = mem[r].dto.item /\ row.quantity = mem[r].dto.quantity
    BY DEF PurchaseRow
  <2>3. k = <<k[1], k[2]>> /\ k[1] # "stock" /\ \A p : <<"purchase", p>> = k => p = r
    OBVIOUS
  <2> HIDE DEF row
  <2>4. /\ DOMAIN db' = DOMAIN db \cup {k}
        /\ db'[k] = row
        /\ \A j \in DOMAIN db \ {k} : db'[j] = db[j]
        /\ DOMAIN hist' = DOMAIN hist \cup {k}
        /\ \A j \in DOMAIN hist \ {k} : hist'[j] = hist[j]
    BY <1>4, InsertsOne
  <2>5. StepsTo(r, "stock.insert") /\ mem'[r] = Over(<<>>, mem[r])
    BY <1>4, GotoSteps DEF ShapeInv, Ended
  <2>6. mem'[r].dto = mem[r].dto
    BY <2>5 DEF Over, ShapeInv, HoldInv, NoMem
  <2>7. SavesOld(r)'
    BY <2>5, NotSaving DEF Saving
  <2> HIDE DEF k
  <2>8. \A j \in DOMAIN db' : j = <<j[1], j[2]>> /\ j \in DOMAIN hist'
    BY <2>3, <2>4 DEF ShapeInv, HoldInv
  <2>9. \A j \in DOMAIN db' : j[1] = "stock" => j \in DOMAIN db /\ db'[j] = db[j]
    BY <2>3, <2>4
  <2>10. ASSUME NEW p, <<"purchase", p>> \in DOMAIN db', p # r
         PROVE  Undisturbed(p)
    <3>1. <<"purchase", p>> \in DOMAIN db \ {k}
      BY <2>3, <2>4, <2>10
    <3>2. <<"purchase", p>> \in DOMAIN hist \ {k}
      BY <3>1 DEF ShapeInv, HoldInv
    <3>3. \A j : j \in EntryKeys(p)' <=> j \in EntryKeys(p)
      BY <2>3, <2>4 DEF EntryKeys
    <3>4. \A j \in EntryKeys(p) : db'[j] = db[j]
      BY <2>3, <2>4 DEF EntryKeys
    <3> QED BY <2>4, <3>1, <3>2, <3>3, <3>4 DEF Undisturbed
  <2>11. \A p : <<"purchase", p>> \in DOMAIN hist' =>
              <<"purchase", p>> \in DOMAIN hist \/ p = r
    BY <2>3, <2>4
  <2>12. db'[<<"purchase", r>>] = row
    BY <2>4 DEF k
  <2> QED BY <1>1, <2>2, <2>4, <2>5, <2>6, <2>7, <2>8, <2>9, <2>10, <2>11, <2>12, PurchasesStep
          DEF Ended
<1> QED BY <1>2, <1>3, <1>4 DEF InsertThen

\* The entry is made; there was none about this purchase.
LEMMA AddPurchaseStockStep ==
    ASSUME StockInv, NEW r \in Request, AddPurchaseStock(r)
    PROVE  StockInv'
<1> USE DEF StockInv
<1> DEFINE k == <<"stock", r>>
           row == StockRow(mem[r].dto.item, r, mem[r].dto.quantity, 0)
<1>1. step[r] = "stock.insert"
  BY DEF AddPurchaseStock, At
<1>2. InsertThen(r, Single(k, row), "ok", NoMem)
  BY DEF AddPurchaseStock
<1>3. CASE Reads(r, "error", NoMem)
  BY <1>1, <1>3, ErrorStep DEF Reads, Ended
<1>4. CASE Inserts(r, Single(k, row)) /\ Goto(r, "ok", NoMem)
  <2>1. row.purchase = r
    BY DEF StockRow
  <2>2. k = <<k[1], k[2]>> /\ k[1] = "stock" /\ k[2] = r /\ \A p : <<"purchase", p>> # k
    OBVIOUS
  <2>3. \A j \in DOMAIN db : j[1] = "stock" => j # k /\ db[j].purchase # r
    BY <1>1, <2>2 DEF EntryInv
  <2> HIDE DEF row
  <2>4. /\ DOMAIN db' = DOMAIN db \cup {k}
        /\ db'[k] = row
        /\ \A j \in DOMAIN db \ {k} : db'[j] = db[j]
        /\ DOMAIN hist' = DOMAIN hist \cup {k}
        /\ \A j \in DOMAIN hist \ {k} : hist'[j] = hist[j]
    BY <1>4, InsertsOne
  <2>5. StepsTo(r, "ok")
    BY <1>4, GotoSteps DEF ShapeInv
  <2>6. SavesOld(r)'
    BY <2>5, NotSaving DEF Saving
  <2> HIDE DEF k
  <2>7. \A p : <<"purchase", p>> \in DOMAIN hist' => <<"purchase", p>> \in DOMAIN hist
    BY <2>2, <2>4
  <2>8. /\ DOMAIN step' = Request /\ DOMAIN mem' = Request
        /\ \A q \in Request : DOMAIN NoMem \subseteq DOMAIN mem'[q]
        /\ MadeInv' /\ SavingInv'
        /\ \A q \in Request : step'[q] = IF q = r THEN "ok" ELSE step[q]
    BY <1>1, <2>4, <2>5, <2>6, <2>7, RequestsStep DEF Ended
  <2>9. ShapeInv'
    BY <2>2, <2>4, <2>8 DEF ShapeInv, HoldInv
  <2>10. \A p : <<"purchase", p>> \in DOMAIN db' =>
            /\ <<"purchase", p>> \in DOMAIN db
            /\ db'[<<"purchase", p>>] = db[<<"purchase", p>>]
            /\ hist'[<<"purchase", p>>] = hist[<<"purchase", p>>]
    <3> TAKE p
    <3> HAVE <<"purchase", p>> \in DOMAIN db'
    <3>1. <<"purchase", p>> \in DOMAIN db \ {k}
      BY <2>2, <2>4
    <3>2. <<"purchase", p>> \in DOMAIN hist \ {k}
      BY <3>1 DEF ShapeInv, HoldInv
    <3> QED BY <2>4, <3>1, <3>2
  <2>11. \A p : <<"purchase", p>> \in DOMAIN db' /\ LeftAlone(p)' => LeftAlone(p)
    BY <2>10 DEF LeftAlone
  <2>12. BoughtInv'
    <3> SUFFICES ASSUME NEW q \in Request, step'[q] = "stock.insert",
                        <<"purchase", q>> \in DOMAIN db', LeftAlone(q)'
                 PROVE  /\ db'[<<"purchase", q>>].item = mem'[q].dto.item
                        /\ db'[<<"purchase", q>>].quantity = mem'[q].dto.quantity
      BY DEF BoughtInv
    <3>1. step[q] = "stock.insert" /\ mem'[q] = mem[q]
      BY <2>5, <2>8 DEF StepsTo
    <3> QED BY <2>10, <2>11, <3>1 DEF BoughtInv
  <2>13. EntryInv'
    <3> SUFFICES ASSUME NEW j \in DOMAIN db', j[1] = "stock",
                        db'[j].purchase \in Request \/ j[2] \in Request
                 PROVE  j[2] = db'[j].purchase /\ step'[j[2]] = "ok"
      BY DEF EntryInv
    <3>1. CASE j = k
      BY <2>1, <2>2, <2>4, <2>8, <3>1
    <3>2. CASE j # k
      <4>1. j \in DOMAIN db /\ db'[j] = db[j]
        BY <2>4, <3>2
      <4>2. j[2] = db[j].purchase /\ step[j[2]] = "ok" /\ j[2] \in Request
        BY <4>1 DEF EntryInv
      <4> QED BY <2>8, <4>1, <4>2
    <3> QED BY <3>1, <3>2
  <2>14. KeptInv'
    <3> SUFFICES ASSUME NEW j \in DOMAIN db', j[1] = "purchase", LeftAlone(j[2])',
                        j[2] \in Request => step'[j[2]] = "ok"
                 PROVE  EnteredOnce(j[2])'
      BY DEF KeptInv
    <3> DEFINE p == j[2]
    <3>1. j = <<"purchase", p>>
      BY <2>9 DEF ShapeInv, HoldInv
    <3>2. <<"purchase", p>> \in DOMAIN db'
      BY <3>1
    <3> HIDE DEF p
    <3>3. CASE p = r
      <4>1. EntryKeys(r)' = {k}
        BY <2>1, <2>2, <2>3, <2>4 DEF EntryKeys
      <4>2. {db'[i] : i \in EntryKeys(r)'} = {row}
        BY <2>4, <4>1
      <4>3. LeftAlone(r)
        BY <2>11, <3>2, <3>3 DEF p
      <4>4. /\ db'[<<"purchase", r>>].item = mem[r].dto.item
            /\ db'[<<"purchase", r>>].quantity = mem[r].dto.quantity
        BY <1>1, <2>10, <3>2, <3>3, <4>3 DEF BoughtInv
      <4>5. row = StockRow(db'[<<"purchase", r>>].item, r, db'[<<"purchase", r>>].quantity, 0)
        BY <4>4 DEF row
      <4>6. EnteredOnce(r)'
        BY <4>2, <4>5 DEF EnteredOnce
      <4> QED BY <3>3, <4>6 DEF p
    <3>4. CASE p # r
      <4>1. \A i : i \in EntryKeys(p)' <=> i \in EntryKeys(p)
        BY <2>1, <2>2, <2>3, <2>4, <3>4 DEF EntryKeys
      <4>2. \A i \in EntryKeys(p) : db'[i] = db[i]
        BY <2>3, <2>4 DEF EntryKeys
      <4>3. Undisturbed(p)
        BY <2>10, <3>2, <4>1, <4>2 DEF Undisturbed
      <4>4. p \in Request => step[p] = "ok"
        BY <2>8, <3>4 DEF p
      <4>5. LeftAlone(p)'
        BY DEF p
      <4>6. EnteredOnce(p)'
        BY <4>3, <4>4, <4>5, UndisturbedKept
      <4> QED BY <4>6 DEF p
    <3> QED BY <3>3, <3>4
  <2> QED BY <2>8, <2>9, <2>12, <2>13, <2>14
<1> QED BY <1>2, <1>3, <1>4 DEF InsertThen

\* A purchase goes with its entries, and takes no other.
LEMMA DeletePurchasesDeleteStep ==
    ASSUME StockInv, NEW r \in Request, DeletePurchasesDelete(r)
    PROVE  StockInv'
<1> USE DEF StockInv
<1> DEFINE ids == mem[r].dto \cap Ids("purchase")
           keys == {"purchase"} \X ids
<1>1. step[r] = "purchase.delete" /\ RemoveThen(r, keys, "ok", NoMem)
  BY DEF DeletePurchasesDelete, At
<1>2. keys \subseteq DOMAIN db
  BY FoundKeys
<1>3. \A k \in keys : k[1] = "purchase"
  OBVIOUS
<1> HIDE DEF keys
<1>4. CASE Reads(r, "error", NoMem)
  BY <1>1, <1>4, ErrorStep DEF Reads, Ended
<1>5. CASE Removes(r, keys) /\ Goto(r, "ok", NoMem)
  <2>1. StepsTo(r, "ok")
    BY <1>5, GotoSteps DEF ShapeInv
  <2>2. SavesOld(r)'
    BY <2>1, NotSaving DEF Saving
  <2>3. /\ DOMAIN db' = DOMAIN db \ Removal(keys)
        /\ \A k \in DOMAIN db' : db'[k] = db[k]
        /\ DOMAIN hist' = DOMAIN hist
        /\ \A k \in DOMAIN hist \ Removal(keys) : hist'[k] = hist[k]
    BY <1>2, <1>5, RemovesKeys
  <2>4. \A k \in DOMAIN db' : k = <<k[1], k[2]>> /\ k \in DOMAIN hist'
    BY <2>3 DEF ShapeInv, HoldInv
  <2>5. ASSUME NEW p, <<"purchase", p>> \in DOMAIN db'
        PROVE  Undisturbed(p)
    <3>1. <<"purchase", p>> \in DOMAIN db \ Removal(keys)
      BY <2>3, <2>5
    <3>2. <<"purchase", p>> \in DOMAIN hist \ Removal(keys)
      BY <3>1 DEF ShapeInv, HoldInv
    <3>3. <<"purchase", p>> \notin keys
      BY <3>1 DEF Removal
    <3>4. ASSUME NEW k \in EntryKeys(p)
          PROVE  k \in DOMAIN db'
      <4>1. k \notin keys
        BY <1>3 DEF EntryKeys
      <4>2. k \notin Removal(keys)
        BY <3>3, <4>1, RemovalCascade DEF EntryKeys
      <4> QED BY <2>3, <4>2 DEF EntryKeys
    <3>5. \A k : k \in EntryKeys(p)' <=> k \in EntryKeys(p)
      BY <2>3, <3>4 DEF EntryKeys
    <3>6. \A k \in EntryKeys(p) : db'[k] = db[k]
      BY <2>3, <3>4
    <3> QED BY <2>3, <2>5, <3>1, <3>2, <3>5, <3>6 DEF Undisturbed
  <2> QED BY <1>1, <2>1, <2>2, <2>3, <2>4, <2>5, PurchasesStep DEF Ended
<1> QED BY <1>1, <1>4, <1>5 DEF RemoveThen

\* The rows after save() wrote: those it did not hold are as they were.
LEMMA AfterWriteKeys ==
    ASSUME NEW r
    PROVE  /\ DOMAIN AfterWrite(r) \subseteq DOMAIN db \cup DOMAIN mem[r].rows
           /\ DOMAIN db \subseteq DOMAIN AfterWrite(r)
           /\ \A k \in DOMAIN db \ DOMAIN mem[r].rows : AfterWrite(r)[k] = db[k]
           /\ \A k \in DOMAIN mem[r].rows \ DOMAIN mem[r].dirty :
                 DOMAIN mem[r].rows[k] \subseteq DOMAIN AfterWrite(r)[k]
<1> DEFINE rows == mem[r].rows
           dirty == mem[r].dirty
           new == DOMAIN rows \ DOMAIN dirty
           old == {k \in DOMAIN rows \ new : k \in DOMAIN db}
           changed == [k \in old |-> Over(Only(rows[k], dirty[k]), db[k])]
           inserted == [k \in new |-> Inserted(k, rows[k])]
<1>1. AfterWrite(r) = Over(inserted, Over(changed, db))
  BY DEF AfterWrite
<1>2. \A k \in DOMAIN rows : DOMAIN rows[k] \subseteq DOMAIN Inserted(k, rows[k])
  BY DEF Inserted, Over
<1>3. DOMAIN changed = old /\ DOMAIN inserted = new
  OBVIOUS
<1>4. \A k \in new : inserted[k] = Inserted(k, rows[k])
  OBVIOUS
<1> HIDE DEF changed, inserted
<1>5. /\ DOMAIN AfterWrite(r) = DOMAIN db \cup old \cup new
      /\ \A k \in DOMAIN db \ (old \cup new) : AfterWrite(r)[k] = db[k]
      /\ \A k \in new : AfterWrite(r)[k] = inserted[k]
  BY <1>1, <1>3 DEF Over
<1> QED BY <1>2, <1>4, <1>5

\* A purchase that save() writes is no longer left alone, and it never was
\* made by the request that saves it.
LEMMA EntityWriteStep ==
    ASSUME StockInv, NEW r \in Request, EntityWrite(r)
    PROVE  StockInv'
<1> USE DEF StockInv
<1> DEFINE rows == mem[r].rows
           dirty == mem[r].dirty
           after == AfterWrite(r)
           kept == DOMAIN rows \cap DOMAIN after
           new == [k \in kept |-> IF k \notin DOMAIN dirty THEN after[k] ELSE rows[k]]
           meant == [k \in kept |-> IF k \in DOMAIN hist THEN mem[r].meant ELSE DOMAIN new[k]]
           wrote == [k \in kept |-> IF k \notin DOMAIN dirty THEN DOMAIN new[k] ELSE dirty[k]]
<1>1. step[r] = "entity.write" /\ Write(r, "ok", NoMem)
  BY DEF EntityWrite, At
<1>2. CASE Reads(r, "error", NoMem)
  BY <1>1, <1>2, ErrorStep DEF Reads, Ended
<1>3. CASE Record(r, after, new, meant, wrote) /\ Goto(r, "ok", NoMem)
  <2>1. StepsTo(r, "ok")
    BY <1>3, GotoSteps DEF ShapeInv
  <2>2. SavesOld(r)'
    BY <2>1, NotSaving DEF Saving
  <2>3. \A k \in DOMAIN rows :
          /\ k = <<k[1], k[2]>>
          /\ k[1] \in {"item", "purchase"}
          /\ k[1] = "purchase" => /\ k \in DOMAIN hist
                                   /\ "item" \in mem[r].meant
                                   /\ "item" \in DOMAIN rows[k]
    BY <1>1 DEF SavingInv, SavesOld, Saving
  <2>4. /\ DOMAIN after \subseteq DOMAIN db \cup DOMAIN rows
        /\ DOMAIN db \subseteq DOMAIN after
        /\ \A k \in DOMAIN db \ DOMAIN rows : after[k] = db[k]
        /\ \A k \in DOMAIN rows \ DOMAIN dirty : DOMAIN rows[k] \subseteq DOMAIN after[k]
    BY AfterWriteKeys
  <2>5. \A k \in kept : k[1] = "purchase" => "item" \in DOMAIN new[k] \cap meant[k]
    BY <2>3, <2>4
  <2>6. DOMAIN meant = kept
    OBVIOUS
  <2> HIDE DEF new, meant, wrote, after
  <2>7. /\ db' = after
        /\ DOMAIN hist' = DOMAIN hist \cup kept
        /\ \A k \in DOMAIN hist \ kept : hist'[k] = hist[k]
        /\ \A k \in kept : \A c \in DOMAIN new[k] \cap meant[k] : hist'[k][c].by = r
    <3> HIDE DEF kept, rows, dirty
    <3>0. Record(r, after, new, meant, wrote)
      BY <1>3
    <3>1. db' = after
      BY <3>0, RecordHist
    <3>2. DOMAIN hist' = DOMAIN hist \cup DOMAIN meant
      BY <3>0, RecordHist
    <3>3. \A k \in DOMAIN hist \ DOMAIN meant : hist'[k] = hist[k]
      BY <3>0, RecordHist
    <3>4. \A k \in DOMAIN meant : \A c \in DOMAIN new[k] \cap meant[k] : hist'[k][c].by = r
      <4> SUFFICES ASSUME NEW k \in DOMAIN meant, NEW c \in DOMAIN new[k] \cap meant[k]
                   PROVE  hist'[k][c].by = r
        OBVIOUS
      <4> QED BY <3>0, RecordBy
    <3> QED BY <2>6, <3>1, <3>2, <3>3, <3>4
  <2>8. \A k \in kept : k[1] = "purchase" => hist'[k]["item"].by = r
    BY <2>5, <2>7
  <2>9. \A p : <<"purchase", p>> \in DOMAIN hist' => <<"purchase", p>> \in DOMAIN hist
    BY <2>3, <2>7
  <2>10. \A k \in DOMAIN db' : k = <<k[1], k[2]>> /\ k \in DOMAIN hist'
    BY <2>3, <2>4, <2>7 DEF ShapeInv, HoldInv
  <2>11. \A k : k[1] = "stock" => /\ k \in DOMAIN db' <=> k \in DOMAIN db
                                  /\ k \in DOMAIN db => db'[k] = db[k]
    BY <2>3, <2>4, <2>7
  <2>12. ASSUME NEW p, <<"purchase", p>> \in DOMAIN db', LeftAlone(p)'
         PROVE  Undisturbed(p)
    <3> DEFINE k == <<"purchase", p>>
    <3>1. k \in DOMAIN hist
      BY <2>9, <2>10, <2>12
    <3>2. k \notin kept
      <4> SUFFICES ASSUME k \in kept
                   PROVE  FALSE
        OBVIOUS
      <4>1. hist'[k]["item"].by = r
        BY <2>8
      <4>2. hist'[k]["item"].by \in {p, Null}
        BY <2>12 DEF LeftAlone
      <4>3. p = r
        BY <4>1, <4>2, BoundAssumption
      <4> QED BY <1>1, <3>1, <4>3 DEF MadeInv, Ended
    <3>3. k \in DOMAIN db \ DOMAIN rows
      BY <2>4, <2>7, <2>12, <3>2
    <3>4. hist'[k] = hist[k] /\ db'[k] = db[k] /\ k \in DOMAIN db
      BY <2>4, <2>7, <3>1, <3>2, <3>3
    <3>5. \A j : j \in EntryKeys(p)' <=> j \in EntryKeys(p)
      BY <2>11 DEF EntryKeys
    <3>6. \A j \in EntryKeys(p) : db'[j] = db[j]
      BY <2>11 DEF EntryKeys
    <3> QED BY <3>4, <3>5, <3>6 DEF Undisturbed
  <2> QED BY <1>1, <2>1, <2>2, <2>7, <2>9, <2>10, <2>11, <2>12, PurchasesStep DEF Ended
<1> QED BY <1>1, <1>2, <1>3 DEF Write

LEMMA StockStep ==
    ASSUME StockInv, NEW r \in Request,
           InventoryOperation(r) \/ EntityReload(r) \/ EntityWrite(r) \/ Fails(r)
    PROVE  StockInv'
<1>1. CASE InventoryOperation(r)
  BY <1>1, CreateInventoryItemStep, EditInventoryItemStep, DeleteInventoryItemsStep,
     AddPurchaseInsertStep, AddPurchaseStockStep, ReadingStep, UpdatePurchaseCheckStep,
     DeletePurchasesDeleteStep DEF InventoryOperation
<1>2. CASE Fails(r)
  BY <1>2, ErrorStep DEF Fails
<1> QED BY <1>1, <1>2, EntityReloadStep, EntityWriteStep

-----------------------------------------------------------------------------
(* Each service keeps to its own tables, those in T.                        *)

Within(T, rows) == \A k \in DOMAIN rows : k[1] \in T
WithinInv(T) == HoldInv /\ Within(T, db) /\ \A r \in Request : Within(T, mem[r].rows)

LEMMA WithinStep ==
    ASSUME NEW T, WithinInv(T), NEW r \in Request, NEW s, StepsTo(r, s),
           Within(T, mem'[r].rows), Within(T, db)'
    PROVE  WithinInv(T)'
BY DEF WithinInv, HoldInv, StepsTo

LEMMA WithinBegin ==
    ASSUME NEW T, WithinInv(T), NEW r \in Request, NEW s, NEW m, Begin(r, s, m),
           "rows" \in DOMAIN m => Within(T, m.rows), Within(T, db)'
    PROVE  WithinInv(T)'
<1>1. StepsTo(r, s) /\ mem'[r] = Memory(m)
  BY BeginSteps DEF WithinInv
<1>2. Memory(m).rows = IF "rows" \in DOMAIN m THEN m.rows ELSE <<>>
  BY DEF Memory, NoMem
<1>3. Within(T, mem'[r].rows)
  BY <1>1, <1>2 DEF Within
<1> QED BY <1>1, <1>3, WithinStep

LEMMA WithinGoto ==
    ASSUME NEW T, WithinInv(T), NEW r \in Request, NEW s, NEW m, Goto(r, s, m),
           "rows" \in DOMAIN m => Within(T, m.rows), Within(T, db)'
    PROVE  WithinInv(T)'
<1>1. StepsTo(r, s) /\ mem'[r] = IF s \in Ended THEN NoMem ELSE Over(m, mem[r])
  BY GotoSteps DEF WithinInv
<1>2. "rows" \in DOMAIN mem[r]
  BY DEF WithinInv, HoldInv, NoMem
<1>3. Over(m, mem[r]).rows = IF "rows" \in DOMAIN m THEN m.rows ELSE mem[r].rows
  BY <1>2 DEF Over
<1>4. NoMem.rows = <<>> /\ Within(T, mem[r].rows)
  BY DEF NoMem, WithinInv
<1>5. Within(T, mem'[r].rows)
  BY <1>1, <1>3, <1>4 DEF Within
<1> QED BY <1>1, <1>5, WithinStep

LEMMA WithinReads ==
    ASSUME NEW T, WithinInv(T), NEW r \in Request, NEW s, NEW m, Reads(r, s, m),
           "rows" \in DOMAIN m => Within(T, m.rows)
    PROVE  WithinInv(T)'
<1>1. Within(T, db)'
  BY DEF Reads, WithinInv, Within
<1> QED BY <1>1, WithinGoto DEF Reads

LEMMA WithinError ==
    ASSUME NEW T, WithinInv(T), NEW r \in Request, NEW s, Reads(r, s, NoMem)
    PROVE  WithinInv(T)'
<1>1. Within(T, NoMem.rows)
  BY DEF Within, NoMem
<1> QED BY <1>1, WithinReads

LEMMA WithinSingle ==
    ASSUME NEW T, NEW t \in T, NEW i, NEW row
    PROVE  Within(T, Single(<<t, i>>, row))
BY DEF Within, Single

LEMMA WithinInserts ==
    ASSUME NEW T, Within(T, db), NEW r, NEW rows, Within(T, rows), Inserts(r, rows)
    PROVE  Within(T, db)'
<1>1. db' = Over(rows, db)
  BY DEF Inserts, Record
<1> QED BY <1>1 DEF Within, Over

LEMMA WithinInsertThen ==
    ASSUME NEW T, WithinInv(T), NEW r \in Request, NEW rows, Within(T, rows), NEW s, NEW m,
           "rows" \notin DOMAIN m \/ m = NoMem, InsertThen(r, rows, s, m)
    PROVE  WithinInv(T)'
<1>1. CASE Reads(r, "error", NoMem)
  BY <1>1, WithinError
<1>2. CASE Inserts(r, rows) /\ Goto(r, s, m)
  <2>1. Within(T, db)'
    BY <1>2, WithinInserts DEF WithinInv
  <2>2. Within(T, NoMem.rows)
    BY DEF Within, NoMem
  <2> QED BY <1>2, <2>1, <2>2, WithinGoto
<1> QED BY <1>1, <1>2 DEF InsertThen

LEMMA WithinRemoveThen ==
    ASSUME NEW T, WithinInv(T), NEW r \in Request, NEW keys, RemoveThen(r, keys, "ok", NoMem)
    PROVE  WithinInv(T)'
<1>1. CASE Reads(r, "error", NoMem)
  BY <1>1, WithinError
<1>2. CASE Removes(r, keys) /\ Goto(r, "ok", NoMem)
  <2>1. db' = Only(db, DOMAIN db \ Removal(keys))
    BY <1>2 DEF Removes, Record
  <2>2. Within(T, db)' /\ Within(T, NoMem.rows)
    BY <2>1 DEF WithinInv, Within, Only, NoMem
  <2> QED BY <1>2, <2>2, WithinGoto
<1> QED BY <1>1, <1>2 DEF RemoveThen

\* A request that began, and holds rows of one other table.
LEMMA WithinHolds ==
    ASSUME NEW T, WithinInv(T), NEW r \in Request, NEW s, NEW t \in T, NEW i, NEW row, NEW meant,
           Begin(r, s, Save(Single(<<t, i>>, row), meant)), UNCHANGED db
    PROVE  WithinInv(T)'
<1> DEFINE m == Save(Single(<<t, i>>, row), meant)
<1>1. Within(T, m.rows)
  BY WithinSingle DEF Save
<1>2. Within(T, db)'
  BY DEF WithinInv, Within
<1> HIDE DEF m
<1> QED BY <1>1, <1>2, WithinBegin DEF m

LEMMA WithinInventory ==
    ASSUME NEW T, WithinInv(T), {"item", "purchase", "stock"} \subseteq T,
           NEW r \in Request, InventoryOperation(r)
    PROVE  WithinInv(T)'
<1> USE DEF WithinInv
<1>1. UNCHANGED db => Within(T, db)'
  BY DEF Within
<1>2. CASE CreateInventoryItem(r)
  <2>1. PICK title : Begin(r, "ok", NoMem) /\ Inserts(r, Single(<<"item", r>>, ItemRow(title)))
    BY <1>2 DEF CreateInventoryItem
  <2>2. Within(T, Single(<<"item", r>>, ItemRow(title)))
    BY WithinSingle
  <2>3. Within(T, db)'
    BY <2>1, <2>2, WithinInserts
  <2>4. Within(T, NoMem.rows)
    BY DEF Within, NoMem
  <2> QED BY <2>1, <2>3, <2>4, WithinBegin
<1>3. CASE EditInventoryItem(r)
  BY <1>3, WithinHolds DEF EditInventoryItem
<1>4. CASE DeleteInventoryItems(r)
  <2>1. PICK keys : Begin(r, "ok", NoMem) /\ Removes(r, keys)
    BY <1>4 DEF DeleteInventoryItems
  <2>2. db' = Only(db, DOMAIN db \ Removal(keys))
    BY <2>1 DEF Removes, Record
  <2>3. Within(T, db)' /\ Within(T, NoMem.rows)
    BY <2>2 DEF Within, Only, NoMem
  <2> QED BY <2>1, <2>3, WithinBegin
<1>5. CASE AddPurchase(r) \/ UpdatePurchase(r) \/ DeletePurchases(r)
  <2>1. PICK s, dto : Begin(r, s, [dto |-> dto]) /\ UNCHANGED db
    BY <1>5 DEF AddPurchase, UpdatePurchase, DeletePurchases
  <2>2. PICK m : Begin(r, s, m) /\ DOMAIN m = {"dto"}
    BY <2>1
  <2> QED BY <1>1, <2>1, <2>2, WithinBegin
<1>6. CASE AddPurchaseInsert(r)
  BY <1>6, WithinSingle, WithinInsertThen DEF AddPurchaseInsert
<1>7. CASE AddPurchaseStock(r)
  BY <1>7, WithinSingle, WithinInsertThen DEF AddPurchaseStock
<1>8. CASE UpdatePurchaseCheck(r)
  <2>1. CASE Reads(r, "error", NoMem)
    BY <2>1, WithinError
  <2>2. ASSUME NEW i, NEW row, NEW meant,
               Reads(r, "entity.reload", Save(Single(<<"purchase", i>>, row), meant))
        PROVE  WithinInv(T)'
    <3> DEFINE m == Save(Single(<<"purchase", i>>, row), meant)
    <3>1. Within(T, m.rows)
      BY WithinSingle DEF Save
    <3> HIDE DEF m
    <3> QED BY <2>2, <3>1, WithinReads DEF m
  <2> QED BY <1>8, <2>1, <2>2 DEF UpdatePurchaseCheck
<1>9. CASE DeletePurchasesDelete(r)
  BY <1>9, WithinRemoveThen DEF DeletePurchasesDelete
<1> QED BY <1>2, <1>3, <1>4, <1>5, <1>6, <1>7, <1>8, <1>9 DEF InventoryOperation

LEMMA WithinCash ==
    ASSUME NEW T, WithinInv(T), {"register", "cash"} \subseteq T,
           NEW r \in Request, CashOperation(r)
    PROVE  WithinInv(T)'
<1>1. ASSUME NEW t \in T, NEW row, Begin(r, "ok", NoMem),
             Inserts(r, Single(<<t, r>>, row))
      PROVE  WithinInv(T)'
  <2>1. Within(T, Single(<<t, r>>, row))
    BY WithinSingle
  <2>2. Within(T, db)'
    BY <1>1, <2>1, WithinInserts DEF WithinInv
  <2>3. Within(T, NoMem.rows)
    BY DEF Within, NoMem
  <2> QED BY <1>1, <2>2, <2>3, WithinBegin
<1>2. CASE OpenRegister(r)
  BY <1>1, <1>2 DEF OpenRegister
<1>3. CASE AddCashManagement(r)
  BY <1>1, <1>3 DEF AddCashManagement
<1>4. CASE CloseRegister(r)
  BY <1>4, WithinHolds DEF CloseRegister
<1>5. CASE EditCashManagement(r)
  BY <1>5, WithinHolds DEF EditCashManagement
<1> QED BY <1>2, <1>3, <1>4, <1>5 DEF CashOperation

LEMMA WithinAttendance ==
    ASSUME NEW T, WithinInv(T), "attendance" \in T, NEW r \in Request, AttendanceOperation(r)
    PROVE  WithinInv(T)'
<1> USE DEF WithinInv
<1>1. UNCHANGED db => Within(T, db)'
  BY DEF Within
<1>2. CASE AddAttendance(r)
  <2>1. UNCHANGED db
    BY <1>2 DEF AddAttendance
  <2>2. CASE Begin(r, "error", NoMem)
    <3>1. Within(T, NoMem.rows)
      BY DEF Within, NoMem
    <3> QED BY <1>1, <2>1, <2>2, <3>1, WithinBegin
  <2>3. CASE \E c, names : Begin(r, "attendance.insert", [dto |-> AttendanceRow(c, names)])
    <3>1. PICK m : Begin(r, "attendance.insert", m) /\ DOMAIN m = {"dto"}
      BY <2>3
    <3> QED BY <1>1, <2>1, <3>1, WithinBegin
  <2> QED BY <1>2, <2>2, <2>3 DEF AddAttendance
<1>3. CASE AddAttendanceInsert(r)
  BY <1>3, WithinSingle, WithinInsertThen DEF AddAttendanceInsert
<1>4. CASE EditAttendance(r)
  <2>1. PICK a, dto :
          Begin(r, "attendance.photos",
             [dto |-> dto, rows |-> Single(<<"attendance", a>>, Row("attendance", a))])
          /\ UNCHANGED db
    BY <1>4 DEF EditAttendance
  <2> DEFINE m == [dto |-> dto, rows |-> Single(<<"attendance", a>>, Row("attendance", a))]
  <2>2. Within(T, m.rows)
    BY WithinSingle
  <2> HIDE DEF m
  <2> QED BY <1>1, <2>1, <2>2, WithinBegin DEF m
<1>5. CASE EditAttendancePhotos(r)
  <2>1. CASE Reads(r, "error", NoMem)
    BY <2>1, WithinError
  <2>2. CASE \E rows, meant : /\ DOMAIN rows = DOMAIN mem[r].rows
                              /\ Reads(r, "entity.reload", Save(rows, meant))
    <3>1. PICK rows, meant : /\ DOMAIN rows = DOMAIN mem[r].rows
                             /\ Reads(r, "entity.reload", Save(rows, meant))
      BY <2>2
    <3> DEFINE m == Save(rows, meant)
    <3>2. Within(T, m.rows)
      BY <3>1 DEF Within, Save
    <3> HIDE DEF m
    <3> QED BY <3>1, <3>2, WithinReads DEF m
  <2>3. ASSUME NEW values, NEW meant,
               Reads(r, "entity.reload",
                  Save([k \in DOMAIN mem[r].rows |-> Assigned(mem[r].rows[k], values)], meant))
        PROVE  WithinInv(T)'
    <3> DEFINE rows == [k \in DOMAIN mem[r].rows |-> Assigned(mem[r].rows[k], values)]
    <3>1. DOMAIN rows = DOMAIN mem[r].rows /\ Reads(r, "entity.reload", Save(rows, meant))
      BY <2>3
    <3> HIDE DEF rows
    <3> QED BY <2>2, <3>1
  <2> QED BY <1>5, <2>1, <2>3 DEF EditAttendancePhotos
<1>6. CASE DeleteAttendances(r)
  <2>1. PICK ids :
          Begin(r, "attendance.unlink", [rows |-> [k \in {"attendance"} \X ids |-> db[k]]])
          /\ UNCHANGED db
    BY <1>6 DEF DeleteAttendances
  <2> DEFINE m == [rows |-> [k \in {"attendance"} \X ids |-> db[k]]]
  <2>2. Within(T, m.rows)
    BY DEF Within
  <2> HIDE DEF m
  <2> QED BY <1>1, <2>1, <2>2, WithinBegin DEF m
<1>7. CASE DeleteAttendancesPhotos(r)
  BY <1>7, WithinReads DEF DeleteAttendancesPhotos
<1>8. CASE DeleteAttendancesRemove(r)
  BY <1>8, WithinRemoveThen DEF DeleteAttendancesRemove
<1> QED BY <1>2, <1>3, <1>4, <1>5, <1>6, <1>7, <1>8 DEF AttendanceOperation

LEMMA WithinEntry ==
    ASSUME NEW T, WithinInv(T), {"break", "wage"} \subseteq T, NEW r \in Request, EntryOperation(r)
    PROVE  WithinInv(T)'
<1> USE DEF WithinInv
<1>1. UNCHANGED db => Within(T, db)'
  BY DEF Within
<1>2. ASSUME NEW t \in {"break", "wage"}, AddEntry(r, t)
      PROVE  WithinInv(T)'
  <2>1. PICK a, v : Begin(r, "entry.insert", [rows |-> Single(<<t, r>>, EntryRow(a, v))])
                    /\ UNCHANGED db
    BY <1>2 DEF AddEntry
  <2> DEFINE m == [rows |-> Single(<<t, r>>, EntryRow(a, v))]
  <2>2. Within(T, m.rows)
    BY WithinSingle
  <2> HIDE DEF m
  <2> QED BY <1>1, <2>1, <2>2, WithinBegin DEF m
<1>3. ASSUME NEW t \in {"break", "wage"}, EditEntry(r, t)
      PROVE  WithinInv(T)'
  BY <1>3, WithinHolds DEF EditEntry
<1>4. ASSUME NEW t \in {"break", "wage"}, DeleteEntry(r, t)
      PROVE  WithinInv(T)'
  <2>1. PICK m : Begin(r, "entry.remove", m) /\ DOMAIN m = {"dto"} /\ UNCHANGED db
    BY <1>4 DEF DeleteEntry
  <2> QED BY <1>1, <2>1, WithinBegin
<1>5. CASE AddEntryInsert(r)
  BY <1>5, WithinInsertThen DEF AddEntryInsert
<1>6. CASE DeleteEntryRemove(r)
  BY <1>6, WithinRemoveThen DEF DeleteEntryRemove
<1> QED BY <1>2, <1>3, <1>4, <1>5, <1>6 DEF EntryOperation

LEMMA WithinShared ==
    ASSUME NEW T, WithinInv(T), NEW r \in Request, EntityReload(r) \/ EntityWrite(r) \/ Fails(r)
    PROVE  WithinInv(T)'
<1>1. CASE EntityReload(r)
  BY <1>1, WithinReads DEF EntityReload, Reload
<1>2. CASE EntityWrite(r)
  <2>1. CASE Reads(r, "error", NoMem)
    BY <2>1, WithinError
  <2>2. CASE db' = AfterWrite(r) /\ Goto(r, "ok", NoMem)
    <3>1. Within(T, db)' /\ Within(T, NoMem.rows)
      BY <2>2, AfterWriteKeys DEF WithinInv, Within, NoMem
    <3> QED BY <2>2, <3>1, WithinGoto
  <2> QED BY <1>2, <2>1, <2>2 DEF EntityWrite, Write, Record
<1>3. CASE Fails(r)
  <2>1. Within(T, db)' /\ Within(T, NoMem.rows)
    BY <1>3 DEF Fails, WithinInv, Within, NoMem
  <2> QED BY <1>3, <2>1, WithinGoto DEF Fails
<1> QED BY <1>1, <1>2, <1>3

-----------------------------------------------------------------------------
(* The theorem.                                                            *)

\* No photo is unlinked by the services of the inventory.
LedgerIInv ==
    /\ area \in Area
    /\ WithinInv(OperationsTables[area])
    /\ area = "inventory" => StockInv /\ unlinks = {}

LEMMA WithinInit == Init => WithinInv(OperationsTables[area])
<1> SUFFICES ASSUME Init
             PROVE  WithinInv(OperationsTables[area])
  OBVIOUS
<1>1. /\ db = Rows[area] /\ area \in Area
      /\ step = [r \in Request |-> "idle"]
      /\ mem = [r \in Request |-> NoMem]
  BY DEF Init, TablesInit
<1>2. NoMem.rows = <<>>
  BY DEF NoMem
<1> QED BY <1>1, <1>2, AreaAssumption DEF WithinInv, HoldInv, Within

LEMMA LedgerInit == Init => LedgerIInv
<1> SUFFICES ASSUME Init, area = "inventory"
             PROVE  StockInv /\ unlinks = {}
  BY WithinInit DEF Init, LedgerIInv
<1> DEFINE rows == Rows["inventory"]
<1>1. /\ db = rows
      /\ step = [r \in Request |-> "idle"]
      /\ mem = [r \in Request |-> NoMem]
      /\ DOMAIN hist = DOMAIN rows
      /\ unlinks = {}
  BY DEF Init, TablesInit, AttendanceInit
<1>0. \A k \in DOMAIN rows : k = <<k[1], k[2]>>
  BY SchemaAssumption DEF Init, Schema
<1>2. \A k \in DOMAIN rows :
         /\ k = <<k[1], k[2]>>
         /\ k[2] \notin Request
         /\ k[1] = "stock" => rows[k].purchase \notin Request
         /\ k[1] = "purchase" =>
              {rows[j] : j \in {i \in DOMAIN rows : i[1] = "stock" /\ rows[i].purchase = k[2]}}
                = {StockRow(rows[k].item, k[2], rows[k].quantity, 0)}
  BY <1>0, RowsAssumption
<1> HIDE DEF rows
<1>3. ShapeInv
  BY <1>1, <1>2 DEF ShapeInv, HoldInv
<1>4. MadeInv
  BY <1>1, <1>2 DEF MadeInv
<1>5. SavingInv
  BY <1>1 DEF SavingInv, SavesOld, Saving
<1>6. BoughtInv
  BY <1>1 DEF BoughtInv
<1>7. EntryInv
  BY <1>1, <1>2 DEF EntryInv
<1>8. KeptInv
  <2> SUFFICES ASSUME NEW k \in DOMAIN db, k[1] = "purchase"
               PROVE  EnteredOnce(k[2])
    BY DEF KeptInv
  <2>1. k = <<"purchase", k[2]>>
    BY <1>1, <1>2
  <2> QED BY <1>1, <1>2, <2>1 DEF EnteredOnce, EntryKeys
<1> QED BY <1>1, <1>3, <1>4, <1>5, <1>6, <1>7, <1>8 DEF StockInv

LEMMA StockNext ==
    ASSUME area \in Area, area = "inventory", StockInv, unlinks = {}, [Next]_vars
    PROVE  StockInv' /\ unlinks' = {}
<1>1. CASE UNCHANGED <<tableVars, photoVars>>
  <2>1. UNCHANGED <<db, step, mem, hist, unlinks>>
    BY <1>1 DEF tableVars, photoVars
  <2>2. ShapeInv' /\ MadeInv'
    BY <2>1 DEF StockInv, ShapeInv, HoldInv, MadeInv
  <2>3. SavingInv'
    BY <2>1 DEF StockInv, SavingInv, SavesOld
  <2>4. BoughtInv'
    BY <2>1 DEF StockInv, BoughtInv, LeftAlone
  <2>5. EntryInv'
    BY <2>1 DEF StockInv, EntryInv
  <2>6. KeptInv'
    BY <2>1 DEF StockInv, KeptInv, LeftAlone, EnteredOnce, EntryKeys
  <2> QED BY <2>1, <2>2, <2>3, <2>4, <2>5, <2>6 DEF StockInv
<1>2. CASE \E r \in Among[area] : Operation(r)
  <2>1. PICK r \in Request : Operation(r)
    BY <1>2, RequestAssumption
  <2>2. /\ InventoryOperation(r) \/ EntityReload(r) \/ EntityWrite(r) \/ Fails(r)
        /\ UNCHANGED photoVars
    BY <2>1 DEF Operation
  <2> QED BY <2>2, StockStep DEF photoVars
<1>3. CASE UnlinkDone \/ UnlinkFails
  BY <1>3 DEF UnlinkDone, UnlinkFails
<1> QED BY <1>1, <1>2, <1>3 DEF Next, Finished, vars

LEMMA WithinNext ==
    ASSUME area \in Area, NEW T, T = OperationsTables[area], WithinInv(T), [Next]_vars
    PROVE  WithinInv(T)'
<1>1. CASE UNCHANGED <<tableVars, photoVars>>
  BY <1>1 DEF tableVars, WithinInv, HoldInv, Within
<1>2. CASE \E r \in Among[area] : Operation(r)
  <2>1. PICK r \in Request : Operation(r)
    BY <1>2, RequestAssumption
  <2>2. /\ area = "inventory" => T = {"item", "purchase", "stock"}
        /\ area = "cash" => T = {"register", "cash"}
        /\ area = "attendance" => T = {"attendance", "break", "wage"}
    BY DEF OperationsTables
  <2> QED BY <2>1, <2>2, WithinInventory, WithinCash, WithinAttendance, WithinEntry, WithinShared
          DEF Operation
<1>3. CASE UnlinkDone
  BY <1>3 DEF UnlinkDone, tableVars, WithinInv, HoldInv, Within
<1>4. CASE UnlinkFails
  <2>1. NoMem.rows = <<>>
    BY DEF NoMem
  <2> QED BY <1>4, <2>1 DEF UnlinkFails, WithinInv, HoldInv, Within
<1> QED BY <1>1, <1>2, <1>3, <1>4 DEF Next, Finished, vars

LEMMA LedgerNext == LedgerIInv /\ [Next]_vars => LedgerIInv'
<1>1. [Next]_vars => UNCHANGED area
  BY DEF Next, vars
<1>2. ASSUME LedgerIInv, [Next]_vars
      PROVE  LedgerIInv'
  <2>1. PICK T : T = OperationsTables[area]
    OBVIOUS
  <2>2. WithinInv(T)'
    BY <1>2, <2>1, WithinNext DEF LedgerIInv
  <2> QED BY <1>1, <1>2, <2>1, <2>2, StockNext DEF LedgerIInv
<1> QED BY <1>2

\* A purchase that was answered and that no other request touched is in the
\* ledger once, whatever runs beside it and whatever fails.
THEOREM LedgerKept == Spec => []LedgerMatchesPurchases
<1>1. ASSUME LedgerIInv, area # "inventory"
      PROVE  LedgerMatchesPurchases
  <2>1. "purchase" \notin OperationsTables[area]
    BY <1>1, AreaAssumption DEF LedgerIInv, OperationsTables
  <2> QED BY <1>1, <2>1 DEF LedgerIInv, WithinInv, Within, LedgerMatchesPurchases, Live, Ids
<1>2. StockInv => LedgerMatchesPurchases
  <2> SUFFICES ASSUME StockInv, NEW p \in Live("purchase"), LeftAlone(p),
                      p \in Request => step[p] = "ok"
               PROVE  {Row("stock", s) : s \in {t \in Ids("stock") : Row("stock", t).purchase = p}}
                        = {StockRow(Row("purchase", p).item, p, Row("purchase", p).quantity, 0)}
    BY DEF LedgerMatchesPurchases, LeftAlone
  <2> DEFINE k == <<"purchase", p>>
  <2>1. {"purchase"} \X {p} \subseteq DOMAIN db
    BY FoundKeys DEF Live, StockInv
  <2>2. k \in DOMAIN db /\ k[1] = "purchase" /\ k[2] = p
    BY <2>1
  <2>3. EnteredOnce(p)
    BY <2>2 DEF StockInv, KeptInv
  <2>4. {Row("stock", s) : s \in {t \in Ids("stock") : Row("stock", t).purchase = p}}
          = {db[j] : j \in EntryKeys(p)}
    <3>1. ASSUME NEW t \in Ids("stock"), Row("stock", t).purchase = p
          PROVE  <<"stock", t>> \in EntryKeys(p)
      <4>1. {"stock"} \X {t} \subseteq DOMAIN db
        BY FoundKeys DEF StockInv
      <4> QED BY <3>1, <4>1 DEF EntryKeys, Row
    <3>2. ASSUME NEW j \in EntryKeys(p)
          PROVE  j[2] \in Ids("stock") /\ Row("stock", j[2]) = db[j]
      <4>1. j \in DOMAIN db /\ j[1] = "stock" /\ j = <<j[1], j[2]>>
        BY DEF EntryKeys, StockInv, ShapeInv, HoldInv
      <4> QED BY <4>1 DEF Ids, Row
    <3>3. \A j \in EntryKeys(p) : db[j].purchase = p
      BY DEF EntryKeys
    <3> QED BY <3>1, <3>2, <3>3 DEF Row
  <2> QED BY <2>3, <2>4 DEF EnteredOnce, Row
<1>3. LedgerIInv => LedgerMatchesPurchases
  BY <1>1, <1>2 DEF LedgerIInv
<1> QED BY <1>3, LedgerInit, LedgerNext, PTL DEF Spec

-----------------------------------------------------------------------------
(* The files of the photos.                                                *)
(*                                                                         *)
(* A photo has a place, a column of a row, and a name.  Whoever takes the  *)
(* name is on record.  From then on a request that holds the name for its  *)
(* place while the table does not, or the other way round, is accounted    *)
(* for by one that took it: that one failed, or a chain of overlaps joins  *)
(* them.                                                                   *)

\* The steps at which a request holds rows read, those at which it calls for
\* photos to be unlinked, and those after its calls.
Holding == {"attendance.photos", "entity.reload", "entity.write", "attendance.unlink",
            "attendance.remove"}
Calling == {"attendance.photos", "attendance.unlink"}
Called == {"entity.reload", "entity.write", "attendance.remove"} \cup Ended

Place(k, p) == k[1] = "attendance" /\ p \in Photo
InTable(k, p, n) == k \in DOMAIN db /\ db[k][p] = n
Hand(r) ==
    IF step[r] \in Holding THEN mem[r].rows
    ELSE IF step[r] = "attendance.insert" THEN Single(<<"attendance", r>>, mem[r].dto)
    ELSE <<>>
InHand(r, k, p, n) == k \in DOMAIN Hand(r) /\ Hand(r)[k][p] = n
InCall(k, p, n) == \E u \in unlinks : u.of = <<k, p>> /\ u.name = n
Named(k, p, n) ==
    InTable(k, p, n) \/ (\E r \in Request : InHand(r, k, p, n)) \/ InCall(k, p, n)

\* Names of one upload; who took a name, and whom that accounts for.
Once(n) == n \in Nat \ shared
Takers(n) == {r \in Request : [by |-> r, name |-> n] \in taken}
Explains(n, r) == \E t \in Takers(n) : step[t] = "error" \/ Linked(t, r)

\* Names are of milliseconds that have passed; the file is there, or taken.
NumberInv ==
    /\ now \in Nat
    /\ \A k, p, n : Place(k, p) /\ Named(k, p, n) /\ n # Null =>
          n \in Nat /\ n <= now /\ (n \in files \/ Takers(n) # {})
    /\ \A n : Takers(n) # {} => n \in Nat /\ n <= now
\* Who has taken a name is past its calls, and calls are on record.
CallInv ==
    /\ \A r \in Request : \A n : r \in Takers(n) => step[r] \in Called
    /\ \A u \in unlinks : /\ u = [by |-> u.by, name |-> u.name, of |-> u.of]
                          /\ \E k, p : Place(k, p) /\ u.of = <<k, p>>
                          /\ u.name # Null /\ u.by \in Takers(u.name)
\* A name of one upload is of one place.
PlaceInv ==
    \A n : Once(n) =>
       \A j, k, p, q : (/\ Place(j, p) /\ Place(k, q)
                        /\ Named(j, p, n) /\ Named(k, q, n)) => j = k /\ p = q
\* A row named after a request was inserted by it.
BornKey(j) == <<"attendance", j>>
BornInv ==
    \A j \in Request :
       \/ step[j] \in Ended
       \/ /\ BornKey(j) \notin DOMAIN db
          /\ \A q \in Request : step[q] \in Holding => BornKey(j) \notin DOMAIN mem[q].rows

\* Reload found the column to differ.
Found(r, k, p) ==
    step[r] = "entity.write" /\ k \in DOMAIN mem[r].dirty /\ p \in mem[r].dirty[k]
\* What r holds of a name that was taken.
Agrees(r, n) ==
    \A k, p : Place(k, p) /\ k \in DOMAIN Hand(r) =>
       /\ r \notin Takers(n) => (InHand(r, k, p, n) <=> InTable(k, p, n)) \/ Explains(n, r)
       /\ Found(r, k, p) /\ InHand(r, k, p, n) => Explains(n, r)
\* Of the places of a name it took r holds the row, with another name, and
\* will write that; or remove the row.
Replaces(r, n) ==
    \A k, p : Place(k, p) /\ Named(k, p, n) =>
       /\ k \in DOMAIN Hand(r)
       /\ step[r] # "attendance.remove" => ~InHand(r, k, p, n)
       /\ (step[r] = "entity.write" /\ k \in DOMAIN mem[r].dirty /\ InTable(k, p, n))
             => Found(r, k, p) \/ hist[k][p].writer \in met[r]
\* What r holds is of the tables it works on.
Keyed(r) ==
    /\ step[r] = "attendance.photos" => \E k : DOMAIN mem[r].rows = {k}
    /\ step[r] \in Calling => \A k \in DOMAIN mem[r].rows : k[1] = "attendance"
    /\ step[r] = "entry.insert" => \A k \in DOMAIN mem[r].rows : k[1] # "attendance"
    /\ step[r] = "entry.remove" => mem[r].dto[1] # "attendance"

Owns(r) ==
    /\ \A n : Once(n) /\ Takers(n) # {} => Agrees(r, n)
    /\ \A n : Once(n) /\ r \in Takers(n) /\ r \in Open => Replaces(r, n)
    /\ step[r] = "attendance.remove" =>
          \A k, p, n : Place(k, p) /\ InHand(r, k, p, n) /\ n # Null => r \in Takers(n)
    /\ Keyed(r)

\* A name that was taken is in the table only where that is accounted for.
WriterInv ==
    \A n : Once(n) /\ Takers(n) # {} =>
       \A k, p : Place(k, p) /\ InTable(k, p, n) =>
          Explains(n, hist[k][p].writer) \/ Takers(n) \cap Open # {}
\* Two took one name.
TwiceInv ==
    \A n : Once(n) => \A s, t \in Takers(n) :
       s # t => \E b \in Takers(n) : step[b] = "error" \/ met[b] # {}
\* A call that will find no file was not the only one.
OtherInv ==
    \A u \in unlinks : Once(u.name) /\ u.name \notin files =>
       \E t \in Takers(u.name) : t # u.by

\* A process that ended: another one took the name, and one of the two had
\* failed or overlapped some request.
EndsInv ==
    \A l \in lost :
       \/ l.call.name \in shared
       \/ \E t \in Takers(l.call.name) :
             /\ t # l.call.by /\ l.call.by \in Request
             /\ \E q \in {t, l.call.by} : q \in l.failed \/ met[q] # {}

PhotoInv ==
    /\ NumberInv /\ CallInv /\ PlaceInv /\ BornInv
    /\ \A r \in Request : Owns(r)
    /\ WriterInv /\ TwiceInv /\ OtherInv

-----------------------------------------------------------------------------
(* What a step does.                                                       *)

\* Request r takes a step; the others are where they were.
Acts(r) ==
    /\ MetInv /\ MetInv' /\ MetGrows
    /\ step[r] \notin Ended
    /\ \A q \in Request \ {r} : step'[q] = step[q] /\ mem'[q] = mem[q]
    /\ \A q \in Open' \ {r} : q \in Open /\ r \in met'[q] /\ q \in met'[r]

\* Of the places of photos r writes what it holds, or removes the row.
TableEffect(r) ==
    \A k, p, n : Place(k, p) =>
       /\ InTable(k, p, n)' =>
             \/ InTable(k, p, n) /\ hist'[k][p].writer = hist[k][p].writer
             \/ /\ hist'[k][p].writer = r
                /\ step[r] \in {"attendance.insert", "entity.write"} /\ InHand(r, k, p, n)
                /\ InTable(k, p, n) => Found(r, k, p)
       /\ InTable(k, p, n) /\ ~InTable(k, p, n)' =>
             k \in DOMAIN Hand(r) /\ (step[r] = "attendance.remove" \/ ~InHand(r, k, p, n))
BornEffect(r) ==
    \A j \in Request :
       /\ BornKey(j) \in DOMAIN db' =>
             \/ BornKey(j) \in DOMAIN db
             \/ step[r] \in Holding /\ BornKey(j) \in DOMAIN mem[r].rows
             \/ j = r /\ step'[r] \in Ended
       /\ step'[r] \in Holding /\ BornKey(j) \in DOMAIN mem'[r].rows =>
             \/ BornKey(j) \in DOMAIN db
             \/ step[r] \in Holding /\ BornKey(j) \in DOMAIN mem[r].rows
\* It holds names it held, or read, or uploaded.
Uploaded(n) == n \in Nat /\ n <= now' /\ n \in files' /\ (n > now \/ n \in shared')
NameEffect(r) ==
    /\ now' \in Nat /\ now <= now' /\ files \subseteq files' /\ shared \subseteq shared'
    /\ \A k, p, n : Place(k, p) /\ InHand(r, k, p, n)' /\ n # Null =>
          InTable(k, p, n) \/ InHand(r, k, p, n) \/ Uploaded(n)
    /\ \A j, k, p, q, n : (/\ Place(j, p) /\ Place(k, q) /\ n \in Nat /\ n > now /\ n \notin shared'
                           /\ InHand(r, j, p, n)' /\ InHand(r, k, q, n)') => j = k /\ p = q
\* It calls for photos it holds to be unlinked.
CallEffect(r) ==
    /\ unlinks \subseteq unlinks' /\ taken \subseteq taken' /\ lost' = lost
    /\ \A n : \A q \in Request \ {r} : q \in Takers(n)' <=> q \in Takers(n)
    /\ \A n : r \in Takers(n) => r \in Takers(n)'
    /\ \A n : r \in Takers(n)' \ Takers(n) =>
          /\ step[r] \in Calling /\ step'[r] \in Called \ {"ok"} /\ n # Null
          /\ \E k, p : Place(k, p) /\ InHand(r, k, p, n)
    /\ \A u \in unlinks' \ unlinks :
          /\ u = [by |-> r, name |-> u.name, of |-> u.of]
          /\ u.name # Null /\ r \in Takers(u.name)' /\ r \notin Takers(u.name)
          /\ \E k, p : Place(k, p) /\ u.of = <<k, p>> /\ InHand(r, k, p, u.name)
    /\ step[r] \in Called => step'[r] \in Called
\* One that took a name and succeeds leaves it to those it overlapped.
DoneEffect(r) ==
    \A n : Once(n) /\ r \in Takers(n) /\ step'[r] = "ok" =>
       \A k, p : Place(k, p) /\ InTable(k, p, n)' => hist'[k][p].writer \in met'[r]

PhotoEffect(r) ==
    Acts(r) /\ TableEffect(r) /\ BornEffect(r) /\ NameEffect(r) /\ CallEffect(r) /\ DoneEffect(r)

LEMMA LinkedMet ==
    ASSUME NEW q, NEW r, Linked(q, r)
    PROVE  met[q] # {}
BY DEF Linked

LEMMA ExplainsStays ==
    ASSUME NEW r \in Request, PhotoEffect(r), NEW n, NEW q, Explains(n, q)
    PROVE  Explains(n, q)'
<1>1. PICK t \in Takers(n) : step[t] = "error" \/ Linked(t, q)
  BY DEF Explains
<1>2. t \in Request /\ t \in Takers(n)'
  BY <1>1 DEF Takers, PhotoEffect, CallEffect
<1>3. step[t] = "error" => step'[t] = "error"
  BY <1>2 DEF PhotoEffect, Acts, Ended
<1>4. Linked(t, q) => Linked(t, q)'
  BY <1>2, LinkedStays DEF PhotoEffect, Acts, MetGrows
<1> QED BY <1>1, <1>2, <1>3, <1>4 DEF Explains

\* Whoever r overlapped is accounted for, of a name that r took or that it
\* is accounted for itself.
LEMMA ExplainsOn ==
    ASSUME NEW r \in Request, PhotoEffect(r), NEW n, NEW q \in Open' \ {r},
           r \in Takers(n)' \/ Explains(n, r)
    PROVE  Explains(n, q)'
<1>1. q \in met'[r]
  BY DEF PhotoEffect, Acts
<1>2. CASE r \in Takers(n)'
  BY <1>1, <1>2 DEF Explains, Linked
<1>3. CASE Explains(n, r)
  <2>1. Explains(n, r)'
    BY <1>3, ExplainsStays
  <2>2. PICK t \in Takers(n)' : step'[t] = "error" \/ Linked(t, r)'
    BY <2>1 DEF Explains
  <2>3. Linked(t, r)' => Linked(t, q)'
    BY <1>1 DEF Linked
  <2> QED BY <2>2, <2>3 DEF Explains
<1> QED BY <1>2, <1>3

\* A name that was there before the step was named then.
LEMMA NamedBefore ==
    ASSUME NumberInv, NEW r \in Request, PhotoEffect(r), NEW k, NEW p, Place(k, p),
           NEW n, n # Null, Named(k, p, n)'
    PROVE  \/ Named(k, p, n)
           \/ InHand(r, k, p, n)' /\ Uploaded(n)
<1>2. CASE InTable(k, p, n)'
  BY <1>2 DEF PhotoEffect, TableEffect, Named
<1>3. CASE InHand(r, k, p, n)'
  BY <1>3 DEF PhotoEffect, NameEffect, Named
<1>4. ASSUME NEW q \in Request, q # r, InHand(q, k, p, n)'
      PROVE  Named(k, p, n)
  <2>1. Hand(q)' = Hand(q)
    BY <1>4 DEF PhotoEffect, Acts, Hand
  <2> QED BY <1>4, <2>1 DEF InHand, Named
<1>5. CASE InCall(k, p, n)'
  <2>1. PICK u \in unlinks' : u.of = <<k, p>> /\ u.name = n
    BY <1>5 DEF InCall
  <2>2. CASE u \in unlinks
    BY <2>1, <2>2 DEF InCall, Named
  <2>3. CASE u \notin unlinks
    <3>1. PICK j, q : u.of = <<j, q>> /\ InHand(r, j, q, n)
      BY <2>1, <2>3 DEF PhotoEffect, CallEffect
    <3>2. j = k /\ q = p
      BY <2>1, <3>1
    <3> QED BY <3>1, <3>2 DEF Named
  <2> QED BY <2>2, <2>3
<1> QED BY <1>2, <1>3, <1>4, <1>5 DEF Named

\* A name of one upload that was taken is none of those uploaded now.
LEMMA NamedOnce ==
    ASSUME NumberInv, NEW r \in Request, PhotoEffect(r), NEW k, NEW p, Place(k, p),
           NEW n, n <= now, Once(n)', Named(k, p, n)'
    PROVE  Named(k, p, n)
<1>1. n \in Nat /\ n \notin shared' /\ now \in Nat /\ n # Null
  BY BoundAssumption DEF Once, NumberInv
<1>2. ~Uploaded(n)
  BY <1>1 DEF Uploaded
<1> QED BY <1>1, <1>2, NamedBefore

-----------------------------------------------------------------------------
(* A request's step keeps the invariant.                                   *)

LEMMA NumberStep ==
    ASSUME NumberInv, NEW r \in Request, PhotoEffect(r)
    PROVE  NumberInv'
<1>1. now \in Nat /\ now' \in Nat /\ now <= now' /\ files \subseteq files'
  BY DEF NumberInv, PhotoEffect, NameEffect
<1>2. ASSUME NEW k, NEW p, NEW n, Place(k, p), Named(k, p, n)', n # Null
      PROVE  n \in Nat /\ n <= now' /\ (n \in files' \/ Takers(n)' # {})
  <2>1. CASE Named(k, p, n)
    <3>1. n \in Nat /\ n <= now /\ (n \in files \/ Takers(n) # {})
      BY <1>2, <2>1 DEF NumberInv
    <3>2. Takers(n) # {} => Takers(n)' # {}
      BY DEF PhotoEffect, CallEffect, Takers
    <3> QED BY <1>1, <3>1, <3>2
  <2>2. CASE Uploaded(n)
    BY <2>2 DEF Uploaded
  <2> QED BY <1>2, <2>1, <2>2, NamedBefore
<1>3. ASSUME NEW n, Takers(n)' # {}
      PROVE  n \in Nat /\ n <= now'
  <2>1. CASE Takers(n) # {}
    BY <1>1, <2>1 DEF NumberInv
  <2>2. CASE Takers(n) = {}
    <3>1. r \in Takers(n)' \ Takers(n)
      BY <1>3, <2>2 DEF PhotoEffect, CallEffect, Takers
    <3>2. PICK k, p : Place(k, p) /\ InHand(r, k, p, n) /\ n # Null
      BY <3>1 DEF PhotoEffect, CallEffect
    <3>3. Named(k, p, n)
      BY <3>2 DEF Named
    <3>4. n \in Nat /\ n <= now
      BY <3>2, <3>3 DEF NumberInv
    <3> QED BY <1>1, <3>4
  <2> QED BY <2>1, <2>2
<1> QED BY <1>1, <1>2, <1>3 DEF NumberInv, Place

LEMMA CallStep ==
    ASSUME CallInv, NEW r \in Request, PhotoEffect(r)
    PROVE  CallInv'
<1>1. ASSUME NEW q \in Request, NEW n, q \in Takers(n)'
      PROVE  step'[q] \in Called
  <2>1. CASE q # r
    BY <1>1, <2>1 DEF PhotoEffect, CallEffect, Acts, CallInv
  <2>2. CASE q = r
    BY <1>1, <2>2 DEF PhotoEffect, CallEffect, CallInv
  <2> QED BY <2>1, <2>2
<1>2. ASSUME NEW u \in unlinks'
      PROVE  /\ u = [by |-> u.by, name |-> u.name, of |-> u.of]
             /\ \E k, p : Place(k, p) /\ u.of = <<k, p>>
             /\ u.name # Null /\ u.by \in Takers(u.name)'
  <2>1. CASE u \in unlinks
    <3>1. /\ u = [by |-> u.by, name |-> u.name, of |-> u.of]
          /\ \E k, p : Place(k, p) /\ u.of = <<k, p>>
          /\ u.name # Null /\ u.by \in Takers(u.name)
      BY <2>1 DEF CallInv
    <3>2. u.by \in Takers(u.name)'
      BY <3>1 DEF PhotoEffect, CallEffect, Takers
    <3> QED BY <3>1, <3>2
  <2>2. CASE u \notin unlinks
    <3>1. /\ u = [by |-> r, name |-> u.name, of |-> u.of]
          /\ u.name # Null /\ r \in Takers(u.name)'
          /\ \E k, p : Place(k, p) /\ u.of = <<k, p>> /\ InHand(r, k, p, u.name)
      BY <1>2, <2>2 DEF PhotoEffect, CallEffect
    <3>2. u.by = r
      BY <3>1
    <3> QED BY <3>1, <3>2
  <2> QED BY <2>1, <2>2
<1> QED BY <1>1, <1>2 DEF CallInv, Place

LEMMA PlaceStep ==
    ASSUME NumberInv, PlaceInv, NEW r \in Request, PhotoEffect(r)
    PROVE  PlaceInv'
<1> SUFFICES ASSUME NEW n, Once(n)', NEW j, NEW k, NEW p, NEW q, Place(j, p), Place(k, q),
                    Named(j, p, n)', Named(k, q, n)'
             PROVE  j = k /\ p = q
  BY DEF PlaceInv, Place
<1>1. n \in Nat /\ n # Null /\ now \in Nat /\ n \notin shared' /\ Once(n)
  BY BoundAssumption DEF Once, NumberInv, PhotoEffect, NameEffect
<1>2. CASE n <= now
  BY <1>1, <1>2, NamedOnce DEF PlaceInv
<1>3. CASE n > now
  <2>1. ~Named(j, p, n) /\ ~Named(k, q, n)
    BY <1>1, <1>3 DEF NumberInv
  <2>2. InHand(r, j, p, n)' /\ InHand(r, k, q, n)'
    BY <1>1, <2>1, NamedBefore
  <2> QED BY <1>1, <1>3, <2>2 DEF PhotoEffect, NameEffect
<1> QED BY <1>1, <1>2, <1>3

LEMMA BornStep ==
    ASSUME BornInv, NEW r \in Request, PhotoEffect(r)
    PROVE  BornInv'
<1> SUFFICES ASSUME NEW j \in Request, step'[j] \notin Ended
             PROVE  /\ BornKey(j) \notin DOMAIN db'
                    /\ \A q \in Request :
                          step'[q] \in Holding => BornKey(j) \notin DOMAIN mem'[q].rows
  BY Zenon DEF BornInv, BornKey, Ended, Holding
<1>1. step[j] \notin Ended
  BY DEF PhotoEffect, Acts
<1>2. /\ BornKey(j) \notin DOMAIN db
      /\ \A q \in Request : step[q] \in Holding => BornKey(j) \notin DOMAIN mem[q].rows
  BY <1>1 DEF BornInv
<1>3. BornKey(j) \notin DOMAIN db'
  BY <1>2 DEF PhotoEffect, BornEffect
<1>4. ASSUME NEW q \in Request, step'[q] \in Holding
      PROVE  BornKey(j) \notin DOMAIN mem'[q].rows
  <2>1. CASE q = r
    BY <1>2, <1>4, <2>1 DEF PhotoEffect, BornEffect
  <2>2. CASE q # r
    BY <1>2, <1>4, <2>2 DEF PhotoEffect, Acts
  <2> QED BY <2>1, <2>2
<1> QED BY <1>3, <1>4

\* A name that was taken and changes place in the table is accounted for.
LEMMA MovedName ==
    ASSUME NEW r \in Request, PhotoEffect(r), Owns(r),
           NEW k, NEW p, Place(k, p), NEW n, Once(n), Takers(n) # {},
           InTable(k, p, n)' # InTable(k, p, n)
    PROVE  r \in Takers(n)' \/ Explains(n, r)
<1> SUFFICES ASSUME r \notin Takers(n)
             PROVE  Explains(n, r)
  BY DEF PhotoEffect, CallEffect
<1>1. Agrees(r, n) /\ n # Null
  BY BoundAssumption DEF Owns, Once
<1>2. CASE ~InTable(k, p, n) /\ InTable(k, p, n)'
  <2>1. InHand(r, k, p, n)
    BY <1>2 DEF PhotoEffect, TableEffect
  <2>2. k \in DOMAIN Hand(r)
    BY <2>1 DEF InHand
  <2> QED BY <1>1, <1>2, <2>1, <2>2 DEF Agrees
<1>3. CASE InTable(k, p, n) /\ ~InTable(k, p, n)'
  <2>1. k \in DOMAIN Hand(r) /\ (step[r] = "attendance.remove" \/ ~InHand(r, k, p, n))
    BY <1>3 DEF PhotoEffect, TableEffect
  <2>2. InHand(r, k, p, n) => step[r] # "attendance.remove"
    BY <1>1 DEF Owns
  <2> QED BY <1>1, <1>3, <2>1, <2>2 DEF Agrees
<1>4. InTable(k, p, n) \in BOOLEAN /\ InTable(k, p, n)' \in BOOLEAN
  BY DEF InTable
<1> QED BY <1>2, <1>3, <1>4

LEMMA AgreesStep ==
    ASSUME PhotoInv, NEW r \in Request, PhotoEffect(r), NEW q \in Request \ {r}, NEW n,
           Once(n)', Takers(n)' # {}
    PROVE  Agrees(q, n)'
<1>0. /\ step'[q] = step[q] /\ mem'[q] = mem[q] /\ Hand(q)' = Hand(q)
      /\ (q \in Takers(n))' = (q \in Takers(n))
  BY DEF PhotoEffect, Acts, Hand, CallEffect
<1> SUFFICES ASSUME NEW k, NEW p, Place(k, p), k \in DOMAIN Hand(q)
             PROVE  /\ (q \notin Takers(n))' =>
                          (InHand(q, k, p, n)' <=> InTable(k, p, n)') \/ Explains(n, q)'
                    /\ (Found(q, k, p)' /\ InHand(q, k, p, n)') => Explains(n, q)'
  BY <1>0 DEF Agrees, Place
<1>1. q \in Open' \ {r}
  <2>1. step[q] \in Holding \cup {"attendance.insert"}
    BY DEF Hand
  <2> QED BY <1>0, <2>1 DEF Open, Holding, Ended
<1>2. Once(n) /\ (InHand(q, k, p, n)' <=> InHand(q, k, p, n)) /\ (Found(q, k, p)' <=> Found(q, k, p))
  BY <1>0 DEF Once, InHand, Found, PhotoEffect, NameEffect
<1>3. CASE Takers(n) = {}
  <2>1. r \in Takers(n)'
    BY <1>3 DEF PhotoEffect, CallEffect, Takers
  <2>2. Explains(n, q)'
    BY <1>1, <2>1, ExplainsOn
  <2> QED BY <2>2
<1>4. CASE Takers(n) # {}
  <2>1. /\ q \notin Takers(n) => (InHand(q, k, p, n) <=> InTable(k, p, n)) \/ Explains(n, q)
        /\ Found(q, k, p) /\ InHand(q, k, p, n) => Explains(n, q)
    BY <1>2, <1>4 DEF PhotoInv, Owns, Agrees
  <2>2. Explains(n, q) => Explains(n, q)'
    BY ExplainsStays
  <2>3. InTable(k, p, n)' # InTable(k, p, n) => Explains(n, q)'
    <3>1. SUFFICES ASSUME InTable(k, p, n)' # InTable(k, p, n)
                   PROVE  Explains(n, q)'
      OBVIOUS
    <3>2. r \in Takers(n)' \/ Explains(n, r)
      BY <1>2, <1>4, <3>1, MovedName DEF PhotoInv
    <3> QED BY <1>1, <3>2, ExplainsOn
  <2>4. InTable(k, p, n) \in BOOLEAN /\ InTable(k, p, n)' \in BOOLEAN
    BY DEF InTable
  <2> QED BY <1>0, <1>2, <2>1, <2>2, <2>3, <2>4
<1> QED BY <1>3, <1>4

LEMMA ReplacesStep ==
    ASSUME PhotoInv, NEW r \in Request, PhotoEffect(r), NEW q \in Request \ {r}, NEW n,
           Once(n)', (q \in Takers(n))', (q \in Open)'
    PROVE  Replaces(q, n)'
<1>0. /\ step'[q] = step[q] /\ mem'[q] = mem[q] /\ Hand(q)' = Hand(q)
      /\ q \in Takers(n) /\ q \in Open /\ r \in met'[q] /\ met[q] \subseteq met'[q]
  BY DEF PhotoEffect, Acts, Hand, CallEffect, Open, MetGrows
<1>1. Once(n) /\ n <= now
  BY <1>0 DEF Once, PhotoEffect, NameEffect, PhotoInv, NumberInv
<1>2. Replaces(q, n)
  BY <1>0, <1>1 DEF PhotoInv, Owns
<1> SUFFICES ASSUME NEW k, NEW p, Place(k, p), Named(k, p, n)'
             PROVE  /\ k \in DOMAIN Hand(q)
                    /\ step[q] # "attendance.remove" => ~InHand(q, k, p, n)'
                    /\ (step[q] = "entity.write" /\ k \in DOMAIN mem[q].dirty /\ InTable(k, p, n)')
                          => Found(q, k, p)' \/ hist'[k][p].writer \in met'[q]
  BY <1>0 DEF Replaces, Place
<1>3. Named(k, p, n)
  BY <1>1, NamedOnce DEF PhotoInv
<1>4. (InHand(q, k, p, n)' <=> InHand(q, k, p, n)) /\ (Found(q, k, p)' <=> Found(q, k, p))
  BY <1>0 DEF InHand, Found
<1>5. /\ k \in DOMAIN Hand(q)
      /\ step[q] # "attendance.remove" => ~InHand(q, k, p, n)
      /\ (step[q] = "entity.write" /\ k \in DOMAIN mem[q].dirty /\ InTable(k, p, n))
            => Found(q, k, p) \/ hist[k][p].writer \in met[q]
  BY <1>2, <1>3 DEF Replaces
<1>6. InTable(k, p, n)' =>
         \/ InTable(k, p, n) /\ hist'[k][p].writer = hist[k][p].writer
         \/ hist'[k][p].writer = r
  BY DEF PhotoEffect, TableEffect
<1> QED BY <1>0, <1>4, <1>5, <1>6

LEMMA OwnsStep ==
    ASSUME PhotoInv, NEW r \in Request, PhotoEffect(r), NEW q \in Request \ {r}
    PROVE  Owns(q)'
<1>0. /\ step'[q] = step[q] /\ mem'[q] = mem[q] /\ Hand(q)' = Hand(q)
      /\ \A n : (q \in Takers(n))' = (q \in Takers(n))
  BY DEF PhotoEffect, Acts, Hand, CallEffect
<1>1. \A n : Once(n)' /\ Takers(n)' # {} => Agrees(q, n)'
  BY AgreesStep
<1>2. \A n : Once(n)' /\ (q \in Takers(n))' /\ (q \in Open)' => Replaces(q, n)'
  BY ReplacesStep
<1>3. ASSUME step[q] = "attendance.remove", NEW k, NEW p, NEW n, Place(k, p),
             InHand(q, k, p, n)', n # Null
      PROVE  (q \in Takers(n))'
  BY <1>0, <1>3 DEF PhotoInv, Owns, InHand
<1>4. Keyed(q)'
  <2>1. Keyed(q)
    BY DEF PhotoInv, Owns
  <2> QED BY <1>0, <2>1 DEF Keyed
<1> QED BY <1>0, <1>1, <1>2, <1>3, <1>4 DEF Owns, Place

LEMMA WriterStep ==
    ASSUME PhotoInv, NEW r \in Request, PhotoEffect(r)
    PROVE  WriterInv'
<1> SUFFICES ASSUME NEW n, Once(n)', Takers(n)' # {}, NEW k, NEW p, Place(k, p),
                    InTable(k, p, n)', (Takers(n) \cap Open)' = {}
             PROVE  Explains(n, hist[k][p].writer)'
  BY DEF WriterInv, Place
<1>0. Once(n)
  BY DEF Once, PhotoEffect, NameEffect
<1>1. CASE InTable(k, p, n) /\ hist'[k][p].writer = hist[k][p].writer
  <2>1. CASE Takers(n) = {}
    <3>1. r \in Takers(n)' \ Takers(n)
      BY <2>1 DEF PhotoEffect, CallEffect, Takers
    <3>2. step'[r] \in Called \ {"ok"}
      BY <3>1 DEF PhotoEffect, CallEffect
    <3>3. step'[r] = "error"
      BY <3>1, <3>2 DEF Open, Called, Ended
    <3> QED BY <3>1, <3>3 DEF Explains
  <2>2. CASE Takers(n) # {}
    <3>1. CASE Explains(n, hist[k][p].writer)
      <4>1. PICK w : w = hist[k][p].writer /\ w = hist'[k][p].writer
        BY <1>1
      <4>2. Explains(n, w)'
        BY <3>1, <4>1, ExplainsStays
      <4> QED BY <4>1, <4>2 DEF Explains, Linked
    <3>2. CASE ~Explains(n, hist[k][p].writer)
      <4>1. PICK t \in Takers(n) : t \in Open
        BY <1>0, <1>1, <2>2, <3>2 DEF PhotoInv, WriterInv
      <4>2. t \in Request /\ t \in Takers(n)' /\ step[t] \in Called
        BY <4>1 DEF Takers, PhotoEffect, CallEffect, PhotoInv, CallInv
      <4>3. t = r
        BY <4>1, <4>2 DEF PhotoEffect, Acts, Open
      <4>4. step'[r] \in Ended
        BY <4>2, <4>3 DEF PhotoEffect, CallEffect, Open, Called, Ended
      <4>5. step'[r] = "error" => Explains(n, hist[k][p].writer)'
        BY <4>2, <4>3 DEF Explains
      <4>6. ASSUME step'[r] = "ok"
            PROVE  Explains(n, hist[k][p].writer)'
        <5>1. hist'[k][p].writer \in met'[r]
          BY <1>0, <4>1, <4>3, <4>6 DEF PhotoEffect, DoneEffect
        <5>2. Linked(r, hist[k][p].writer)'
          BY <5>1 DEF Linked
        <5> QED BY <4>2, <4>3, <5>2 DEF Explains
      <4> QED BY <4>4, <4>5, <4>6 DEF Ended
    <3> QED BY <3>1, <3>2
  <2> QED BY <2>1, <2>2
<1>2. CASE /\ hist'[k][p].writer = r
           /\ step[r] \in {"attendance.insert", "entity.write"} /\ InHand(r, k, p, n)
           /\ InTable(k, p, n) => Found(r, k, p)
  <2>1. Named(k, p, n) /\ k \in DOMAIN Hand(r) /\ r \in Open
    BY <1>2 DEF Named, InHand, Open, Ended
  <2>2. r \notin Takers(n)
    BY <1>0, <1>2, <2>1 DEF PhotoInv, Owns, Replaces
  <2>3. Takers(n) # {}
    BY <1>2, <2>2 DEF PhotoEffect, CallEffect, Takers, Calling
  <2>4. Explains(n, r)
    BY <1>0, <1>2, <2>1, <2>2, <2>3 DEF PhotoInv, Owns, Agrees
  <2>5. Explains(n, r)'
    BY <2>4, ExplainsStays
  <2> QED BY <1>2, <2>5 DEF Explains, Linked
<1> QED BY <1>1, <1>2 DEF PhotoEffect, TableEffect

\* One that takes a name which was taken.
LEMMA TakenAgain ==
    ASSUME PhotoInv, NEW r \in Request, PhotoEffect(r), NEW n, Once(n),
           r \in Takers(n)' \ Takers(n), Takers(n) # {}
    PROVE  \E b \in Takers(n) : step[b] = "error" \/ met[b] # {}
<1>1. PICK k, p : Place(k, p) /\ InHand(r, k, p, n)
  BY DEF PhotoEffect, CallEffect
<1>2. r \notin Takers(n) /\ k \in DOMAIN Hand(r) /\ step[r] \in Calling
  BY <1>1 DEF InHand, PhotoEffect, CallEffect
<1>3. ASSUME NEW w, Explains(n, w)
      PROVE  \E b \in Takers(n) : step[b] = "error" \/ met[b] # {}
  BY <1>3, LinkedMet DEF Explains
<1>4. InTable(k, p, n) \/ Explains(n, r)
  BY <1>1, <1>2 DEF PhotoInv, Owns, Agrees
<1>5. CASE InTable(k, p, n)
  <2>1. Explains(n, hist[k][p].writer) \/ Takers(n) \cap Open # {}
    BY <1>1, <1>5 DEF PhotoInv, WriterInv
  <2>2. ASSUME NEW b \in Takers(n), b \in Open
        PROVE  met[b] # {}
    <3>1. b # r /\ r \in Open /\ b \in Request
      BY <1>2, <2>2 DEF Takers, Open, Calling, Ended
    <3> QED BY <2>2, <3>1 DEF PhotoEffect, Acts, MetInv
  <2> QED BY <1>3, <2>1, <2>2
<1> QED BY <1>3, <1>4, <1>5

LEMMA TwiceStep ==
    ASSUME PhotoInv, NEW r \in Request, PhotoEffect(r)
    PROVE  TwiceInv'
<1> SUFFICES ASSUME NEW n, Once(n)', NEW s \in Takers(n)', NEW t \in Takers(n)', s # t
             PROVE  \E b \in Takers(n)' : step'[b] = "error" \/ met'[b] # {}
  BY DEF TwiceInv
<1>0. Once(n) /\ Takers(n) \subseteq Takers(n)'
  BY DEF Once, PhotoEffect, NameEffect, CallEffect, Takers
<1>1. \A b \in Takers(n) : (step[b] = "error" => step'[b] = "error") /\ met[b] \subseteq met'[b]
  BY DEF Takers, PhotoEffect, Acts, MetGrows, Ended
<1>2. SUFFICES \E b \in Takers(n) : step[b] = "error" \/ met[b] # {}
  BY <1>0, <1>1
<1>3. CASE s \in Takers(n) /\ t \in Takers(n)
  BY <1>0, <1>3 DEF PhotoInv, TwiceInv
<1>4. CASE s \notin Takers(n) \/ t \notin Takers(n)
  <2>1. \A q \in Takers(n)' : q = r \/ q \in Takers(n)
    BY DEF PhotoEffect, CallEffect, Takers
  <2>2. r \in Takers(n)' \ Takers(n) /\ Takers(n) # {}
    BY <1>4, <2>1
  <2> QED BY <1>0, <2>2, TakenAgain
<1> QED BY <1>3, <1>4

LEMMA OtherStep ==
    ASSUME PhotoInv, NEW r \in Request, PhotoEffect(r)
    PROVE  OtherInv'
<1> SUFFICES ASSUME NEW u \in unlinks', Once(u.name)', u.name \notin files'
             PROVE  \E t \in Takers(u.name)' : t # u.by
  BY DEF OtherInv
<1>0. Once(u.name) /\ u.name \notin files /\ Takers(u.name) \subseteq Takers(u.name)'
  BY DEF Once, PhotoEffect, NameEffect, CallEffect, Takers
<1>1. CASE u \in unlinks
  BY <1>0, <1>1 DEF PhotoInv, OtherInv
<1>2. CASE u \notin unlinks
  <2>1. /\ u = [by |-> r, name |-> u.name, of |-> u.of]
        /\ u.name # Null /\ r \notin Takers(u.name)
        /\ \E k, p : Place(k, p) /\ u.of = <<k, p>> /\ InHand(r, k, p, u.name)
    BY <1>2 DEF PhotoEffect, CallEffect
  <2>2. PICK k, p : Place(k, p) /\ InHand(r, k, p, u.name)
    BY <2>1
  <2>3. Named(k, p, u.name)
    BY <2>2 DEF Named
  <2>4. Takers(u.name) # {}
    BY <1>0, <2>1, <2>2, <2>3 DEF PhotoInv, NumberInv
  <2>5. u.by = r
    BY <2>1
  <2> QED BY <1>0, <2>1, <2>4, <2>5
<1> QED BY <1>1, <1>2

LEMMA PhotoStep ==
    ASSUME PhotoInv, NEW r \in Request, PhotoEffect(r), Owns(r)'
    PROVE  PhotoInv'
<1>1. NumberInv' /\ CallInv' /\ PlaceInv' /\ BornInv'
  BY NumberStep, CallStep, PlaceStep, BornStep DEF PhotoInv
<1>2. \A q \in Request : Owns(q)'
  BY OwnsStep
<1> QED BY <1>1, <1>2, WriterStep, TwiceStep, OtherStep DEF PhotoInv

\* A process that ended did so for reasons that last.
LEMMA EndsStep ==
    ASSUME EndsInv, NEW r \in Request, PhotoEffect(r)
    PROVE  EndsInv'
<1> SUFFICES ASSUME NEW l \in lost, l.call.name \notin shared'
             PROVE  \E t \in Takers(l.call.name)' :
                       /\ t # l.call.by /\ l.call.by \in Request
                       /\ \E q \in {t, l.call.by} : q \in l.failed \/ met'[q] # {}
  BY DEF EndsInv, PhotoEffect, CallEffect
<1>1. l.call.name \notin shared /\ Takers(l.call.name) \subseteq Takers(l.call.name)'
  BY DEF PhotoEffect, NameEffect, CallEffect, Takers
<1>2. PICK t \in Takers(l.call.name) :
         /\ t # l.call.by /\ l.call.by \in Request
         /\ \E q \in {t, l.call.by} : q \in l.failed \/ met[q] # {}
  BY <1>1 DEF EndsInv
<1>3. \A q \in {t, l.call.by} : met[q] \subseteq met'[q]
  BY <1>2 DEF PhotoEffect, Acts, MetGrows, Takers
<1> QED BY <1>1, <1>2, <1>3

LEMMA EndsExplained ==
    ASSUME EndsInv
    PROVE  ProcessEndsExplained
<1> SUFFICES ASSUME NEW l \in lost, l.call.name \notin shared
             PROVE  \E t \in taken : /\ t.name = l.call.name
                                     /\ t.by # l.call.by
                                     /\ \E r \in {t.by, l.call.by} : r \in l.failed \/ met[r] # {}
  BY DEF ProcessEndsExplained
<1>1. PICK t \in Takers(l.call.name) :
         /\ t # l.call.by
         /\ \E q \in {t, l.call.by} : q \in l.failed \/ met[q] # {}
  BY DEF EndsInv
<1>2. PICK u \in taken : u = [by |-> t, name |-> l.call.name]
  BY DEF Takers
<1>3. u.by = t /\ u.name = l.call.name
  BY <1>2
<1> QED BY <1>1, <1>2, <1>3

\* A photo that is gone is accounted for.
LEMMA LostExplained ==
    ASSUME PhotoInv, NEW Columns, ColumnInv(Columns)
    PROVE  PhotoLostExplained
<1> SUFFICES ASSUME NEW a \in Live("attendance"), NEW p \in Photo,
                    Row("attendance", a)[p] # Null,
                    Row("attendance", a)[p] \notin files \cup shared
             PROVE  \E t \in taken :
                       /\ t.name = Row("attendance", a)[p]
                       /\ \/ step[t.by] # "ok"
                          \/ Linked(t.by, hist[<<"attendance", a>>][p].writer)
  BY DEF PhotoLostExplained
<1> PICK n : n = Row("attendance", a)[p]
  OBVIOUS
<1> DEFINE k == <<"attendance", a>>
<1>1. Place(k, p) /\ InTable(k, p, n)
  BY LiveKey DEF Place, InTable
<1>2. n \in Nat /\ Takers(n) # {}
  <2>1. Named(k, p, n)
    BY <1>1 DEF Named
  <2> QED BY <1>1, <2>1 DEF PhotoInv, NumberInv
<1>3. Explains(n, hist[k][p].writer) \/ Takers(n) \cap Open # {}
  BY <1>1, <1>2 DEF PhotoInv, WriterInv, Once
<1>4. PICK t \in Takers(n) : step[t] # "ok" \/ Linked(t, hist[k][p].writer)
  BY <1>3 DEF Explains, Open, Ended
<1>5. PICK u \in taken : u = [by |-> t, name |-> n]
  BY <1>4 DEF Takers
<1>6. u.by = t /\ u.name = n
  BY <1>5
<1> QED BY <1>4, <1>5, <1>6

-----------------------------------------------------------------------------
(* What each action does to places and names.                              *)

LEMMA ActsTo ==
    ASSUME OverInv, NEW r \in Request, NEW s, s # "idle", StepsTo(r, s),
           Begins(r) \/ GoesOn(r)
    PROVE  Acts(r) /\ step'[r] = s
<1>1. HoldInv /\ MetInv
  BY DEF OverInv, OpSaveInv, SaveInv, SharedInv
<1>2. /\ MetInv'
      /\ \A q \in Request : met[q] \subseteq met'[q]
      /\ \A q \in Request : step'[q] = IF q = r THEN s ELSE step[q]
      /\ \A q \in Open' \ {r} : q \in Open /\ mem'[q] = mem[q]
      /\ \A q \in Open \ {r} : r \in met'[q] /\ q \in met'[r]
  BY <1>1, OpenStep
<1>3. step[r] \notin Ended
  BY DEF Begins, GoesOn, Open, Ended
<1>4. \A q \in Request \ {r} : mem'[q] = mem[q]
  BY DEF StepsTo
<1> QED BY <1>1, <1>2, <1>3, <1>4 DEF Acts, MetGrows

\* Attendances stay as they are.
AtRest ==
    \A k : k[1] = "attendance" =>
       /\ k \in DOMAIN db' <=> k \in DOMAIN db
       /\ k \in DOMAIN db => db'[k] = db[k] /\ hist'[k] = hist[k]

LEMMA RestEffect ==
    ASSUME AtRest, NEW r \in Request,
           \A j \in Request : step'[r] \in Holding /\ BornKey(j) \in DOMAIN mem'[r].rows =>
              \/ BornKey(j) \in DOMAIN db
              \/ step[r] \in Holding /\ BornKey(j) \in DOMAIN mem[r].rows
    PROVE  TableEffect(r) /\ BornEffect(r)
<1>1. \A k, p, n : Place(k, p) =>
         /\ InTable(k, p, n)' <=> InTable(k, p, n)
         /\ InTable(k, p, n) => hist'[k][p].writer = hist[k][p].writer
  BY DEF AtRest, Place, InTable
<1>2. \A j \in Request : BornKey(j) \in DOMAIN db' => BornKey(j) \in DOMAIN db
  BY DEF AtRest, BornKey
<1> QED BY <1>1, <1>2 DEF TableEffect, BornEffect

\* The last step of a request.
LEMMA LastEffect ==
    ASSUME PhotoInv, NEW r \in Request, Acts(r), step'[r] \in Ended, UNCHANGED photoVars,
           TableEffect(r), BornEffect(r), DoneEffect(r)
    PROVE  PhotoEffect(r) /\ Owns(r)'
<1>1. Hand(r)' = <<>> /\ r \notin Open'
  BY DEF Hand, Open, Holding, Ended
<1>2. \A k, p, n : ~InHand(r, k, p, n)'
  BY <1>1 DEF InHand
<1>3. /\ UNCHANGED <<files, now, unlinks, shared, taken, lost>>
      /\ \A n : Takers(n)' = Takers(n)
  BY DEF photoVars, Takers
<1>4. NameEffect(r)
  BY <1>2, <1>3 DEF NameEffect, PhotoInv, NumberInv
<1>5. CallEffect(r)
  BY <1>3 DEF CallEffect, Called
<1>6. Owns(r)'
  BY <1>1 DEF Owns, Agrees, Keyed, Ended, Calling
<1> QED BY <1>4, <1>5, <1>6 DEF PhotoEffect

LEMMA LastAtRest ==
    ASSUME PhotoInv, NEW r \in Request, Acts(r), step'[r] \in Ended, UNCHANGED photoVars,
           AtRest, step'[r] = "error" \/ step[r] \notin Called
    PROVE  PhotoEffect(r) /\ Owns(r)'
<1>1. TableEffect(r) /\ BornEffect(r)
  BY RestEffect DEF Holding, Ended
<1>2. DoneEffect(r)
  BY DEF DoneEffect, PhotoInv, CallInv
<1> QED BY <1>1, <1>2, LastEffect

LEMMA ErrorEffect ==
    ASSUME OverInv, PhotoInv, NEW r \in Open, NEW m, Goto(r, "error", m),
           UNCHANGED <<db, hist>>, UNCHANGED photoVars
    PROVE  PhotoEffect(r) /\ Owns(r)'
<1>1. r \in Request /\ HoldInv
  BY DEF Open, OverInv, OpSaveInv, SaveInv, SharedInv
<1>2. Acts(r) /\ step'[r] = "error"
  BY <1>1, GotoSteps, ActsTo DEF GoesOn
<1>3. AtRest
  BY DEF AtRest
<1> QED BY <1>1, <1>2, <1>3, LastAtRest DEF Ended

\* It begins and holds attendances as the table has them, or none.
LEMMA BegunEffect ==
    ASSUME OverInv, PhotoInv, NEW r \in Request, NEW s, NEW m, Begin(r, s, m),
           UNCHANGED <<db, hist>>, UNCHANGED photoVars,
           s \notin Ended \cup {"idle", "entity.write", "attendance.remove", "attendance.insert"},
           \A k \in DOMAIN mem'[r].rows : k[1] = "attendance" =>
              k \in DOMAIN db /\ mem'[r].rows[k] = db[k],
           Keyed(r)'
    PROVE  PhotoEffect(r) /\ Owns(r)'
<1>1. HoldInv
  BY DEF OverInv, OpSaveInv, SaveInv, SharedInv
<1>2. Acts(r) /\ step'[r] = s /\ step[r] = "idle"
  BY <1>1, BeginSteps, ActsTo
<1>3. AtRest
  BY DEF AtRest
<1>4. \A j \in Request : BornKey(j) \in DOMAIN mem'[r].rows => BornKey(j) \in DOMAIN db
  BY DEF BornKey
<1>5. TableEffect(r) /\ BornEffect(r)
  BY <1>3, <1>4, RestEffect
<1>6. /\ UNCHANGED <<files, now, unlinks, shared, taken, lost>>
      /\ \A n : Takers(n)' = Takers(n) /\ r \notin Takers(n)
  BY <1>2 DEF photoVars, Takers, PhotoInv, CallInv, Called, Ended
<1>7. Hand(r)' = IF s \in Holding THEN mem'[r].rows ELSE <<>>
  BY <1>2 DEF Hand
<1>8. \A k, p, n : Place(k, p) /\ k \in DOMAIN Hand(r)' =>
         (InHand(r, k, p, n)' <=> InTable(k, p, n))
  BY <1>7 DEF InHand, InTable, Place
<1>9. \A k, p, n : Place(k, p) /\ InHand(r, k, p, n)' => InTable(k, p, n)
  BY <1>8 DEF InHand
<1>10. NameEffect(r)
  <2>1. now \in Nat
    BY DEF PhotoInv, NumberInv
  <2>2. ASSUME NEW k, NEW p, NEW n, n \in Nat, n > now, Place(k, p), InHand(r, k, p, n)'
        PROVE  FALSE
    <3>1. Named(k, p, n) /\ n # Null
      BY <1>9, <2>2, BoundAssumption DEF Named
    <3>2. n <= now
      BY <2>2, <3>1 DEF PhotoInv, NumberInv
    <3> QED BY <2>1, <2>2, <3>2
  <2> QED BY <1>6, <1>9, <2>1, <2>2 DEF NameEffect
<1>11. CallEffect(r)
  BY <1>2, <1>6 DEF CallEffect, Called, Ended
<1>12. DoneEffect(r)
  BY <1>6 DEF DoneEffect
<1>13. Owns(r)'
  <2>1. \A n : Agrees(r, n)'
    BY <1>2, <1>8 DEF Agrees, InTable, Found, Place
  <2> QED BY <1>2, <1>6, <2>1 DEF Owns
<1> QED BY <1>2, <1>5, <1>10, <1>11, <1>12, <1>13 DEF PhotoEffect

LEMMA GoneActs ==
    ASSUME OverInv, NEW r \in Open, NEW s, s # "idle", NEW m, Goto(r, s, m)
    PROVE  /\ r \in Request /\ Acts(r) /\ step'[r] = s
           /\ mem'[r] = IF s \in Ended THEN NoMem ELSE Over(m, mem[r])
<1>1. r \in Request /\ HoldInv
  BY DEF Open, OverInv, OpSaveInv, SaveInv, SharedInv
<1> QED BY <1>1, GotoSteps, ActsTo DEF GoesOn

\* Rows inserted: what the tables and history have of them, and of others.
LEMMA InsertedRows ==
    ASSUME OverInv, NEW r, NEW rows, Inserts(r, rows)
    PROVE  /\ DOMAIN db' = DOMAIN rows \cup DOMAIN db
           /\ \A k \in DOMAIN rows : /\ db'[k] = rows[k]
                                     /\ \A c \in DOMAIN rows[k] : hist'[k][c].writer = r
           /\ \A k \in DOMAIN db \ DOMAIN rows : db'[k] = db[k] /\ hist'[k] = hist[k]
<1> DEFINE all == [k \in DOMAIN rows |-> DOMAIN rows[k]]
           after == Over(rows, db)
<1>1. Record(r, after, rows, all, all)
  BY DEF Inserts
<1>2. DOMAIN all = DOMAIN rows /\ \A k \in DOMAIN rows : all[k] = DOMAIN rows[k]
  OBVIOUS
<1>3. /\ DOMAIN after = DOMAIN rows \cup DOMAIN db
      /\ \A k \in DOMAIN rows : after[k] = rows[k]
      /\ \A k \in DOMAIN db \ DOMAIN rows : after[k] = db[k]
  BY DEF Over
<1>4. DOMAIN db \subseteq DOMAIN hist
  BY DEF OverInv, OpSaveInv, SaveInv, SharedInv, ColumnInv
<1> HIDE DEF all, after
<1>5. db' = after /\ \A k \in DOMAIN hist \ DOMAIN rows : hist'[k] = hist[k]
  BY <1>1, <1>2, RecordHist
<1>6. ASSUME NEW k \in DOMAIN rows, NEW c \in DOMAIN rows[k]
      PROVE  hist'[k][c].writer = r
  <2>1. k \in DOMAIN all /\ c \in all[k]
    BY <1>2, <1>6
  <2>2. hist'[k][c] = [val |-> IF c \in all[k] THEN rows[k][c] ELSE hist[k][c].val,
                       by |-> IF c \in all[k] THEN r ELSE hist[k][c].by,
                       writer |-> IF c \in all[k] THEN r ELSE hist[k][c].writer]
    BY <1>1, <1>6, <2>1, RecordRow
  <2> QED BY <2>1, <2>2
<1> QED BY <1>3, <1>4, <1>5, <1>6

\* Rows removed; nothing refers to purchases but stock, so that attendances
\* go only when they are named.
LEMMA RemovedRows ==
    ASSUME OverInv, NEW r, NEW keys, keys \subseteq DOMAIN db, Removes(r, keys)
    PROVE  /\ DOMAIN db' = DOMAIN db \ Removal(keys)
           /\ \A k \in DOMAIN db' : db'[k] = db[k] /\ hist'[k] = hist[k]
           /\ \A k : k[1] = "attendance" => (k \in Removal(keys) <=> k \in keys)
<1> DEFINE rest == DOMAIN db \ Removal(keys)
           sets == [k \in Removal(keys) |-> DOMAIN db[k]]
           values == [k \in Removal(keys) |-> [c \in DOMAIN db[k] |-> Null]]
<1>1. Record(r, Only(db, rest), values, sets, sets)
  BY DEF Removes
<1>2. DOMAIN sets = Removal(keys)
  OBVIOUS
<1>3. DOMAIN db \subseteq DOMAIN hist
  BY DEF OverInv, OpSaveInv, SaveInv, SharedInv, ColumnInv
<1> HIDE DEF sets, values
<1>4. db' = Only(db, rest) /\ \A k \in DOMAIN hist \ Removal(keys) : hist'[k] = hist[k]
  BY <1>1, <1>2, RecordHist
<1>5. keys \subseteq Removal(keys) /\ \A k \in Removal(keys) \ keys : k[1] = "stock"
  BY RemovalCascade DEF Removal
<1> QED BY <1>3, <1>4, <1>5 DEF Only

\* A request that writes no attendance ends.
LEMMA EntriesEffect ==
    ASSUME OverInv, PhotoInv, NEW r \in Open, UNCHANGED photoVars,
           step[r] \notin Called,
           \/ \E rows : /\ InsertThen(r, rows, "ok", NoMem)
                        /\ \A k \in DOMAIN rows : k[1] # "attendance"
           \/ \E keys \in SUBSET DOMAIN db : /\ RemoveThen(r, keys, "ok", NoMem)
                                             /\ \A k \in keys : k[1] # "attendance"
    PROVE  PhotoEffect(r) /\ Owns(r)'
<1>1. CASE Reads(r, "error", NoMem)
  BY <1>1, ErrorEffect DEF Reads
<1>2. ASSUME NEW rows, Inserts(r, rows), Goto(r, "ok", NoMem),
             \A k \in DOMAIN rows : k[1] # "attendance"
      PROVE  PhotoEffect(r) /\ Owns(r)'
  <2>1. AtRest
    <3>1. /\ DOMAIN db' = DOMAIN rows \cup DOMAIN db
          /\ \A k \in DOMAIN db \ DOMAIN rows : db'[k] = db[k] /\ hist'[k] = hist[k]
      BY <1>2, InsertedRows
    <3> QED BY <1>2, <3>1 DEF AtRest
  <2>2. r \in Request /\ Acts(r) /\ step'[r] = "ok"
    BY <1>2, GoneActs
  <2> QED BY <2>1, <2>2, LastAtRest DEF Ended
<1>3. ASSUME NEW keys \in SUBSET DOMAIN db, Removes(r, keys), Goto(r, "ok", NoMem),
             \A k \in keys : k[1] # "attendance"
      PROVE  PhotoEffect(r) /\ Owns(r)'
  <2>1. AtRest
    <3>1. /\ DOMAIN db' = DOMAIN db \ Removal(keys)
          /\ \A k \in DOMAIN db' : db'[k] = db[k] /\ hist'[k] = hist[k]
          /\ \A k : k[1] = "attendance" => (k \in Removal(keys) <=> k \in keys)
      BY <1>3, RemovedRows
    <3> QED BY <1>3, <3>1 DEF AtRest
  <2>2. r \in Request /\ Acts(r) /\ step'[r] = "ok"
    BY <1>3, GoneActs
  <2> QED BY <2>1, <2>2, LastAtRest DEF Ended
<1> QED BY <1>1, <1>2, <1>3 DEF InsertThen, RemoveThen

LEMMA InsertEffect ==
    ASSUME OverInv, PhotoInv, NEW r \in Open, AddAttendanceInsert(r)
    PROVE  PhotoEffect(r) /\ Owns(r)'
<1> DEFINE k == <<"attendance", r>>
           rows == Single(k, mem[r].dto)
<1>1. step[r] = "attendance.insert" /\ UNCHANGED photoVars /\ InsertThen(r, rows, "ok", NoMem)
  BY DEF AddAttendanceInsert, At
<1>2. CASE Reads(r, "error", NoMem)
  BY <1>1, <1>2, ErrorEffect DEF Reads
<1>3. CASE Inserts(r, rows) /\ Goto(r, "ok", NoMem)
  <2>1. r \in Request /\ Acts(r) /\ step'[r] = "ok"
    BY <1>3, GoneActs
  <2>2. DOMAIN rows = {k} /\ rows[k] = mem[r].dto /\ Hand(r) = rows
    BY <1>1 DEF Single, Hand, Holding
  <2>3. Photo \subseteq DOMAIN mem[r].dto
    BY <1>1, <2>1 DEF OverInv, Told, OperationsColumns, Photo
  <2>4. k \notin DOMAIN db
    BY <1>1, <2>1 DEF PhotoInv, BornInv, BornKey, Ended
  <2> HIDE DEF rows
  <2>5. /\ DOMAIN db' = DOMAIN rows \cup DOMAIN db
        /\ \A j \in DOMAIN rows : /\ db'[j] = rows[j]
                                  /\ \A c \in DOMAIN rows[j] : hist'[j][c].writer = r
        /\ \A j \in DOMAIN db \ DOMAIN rows : db'[j] = db[j] /\ hist'[j] = hist[j]
    BY <1>3, InsertedRows
  <2>6. TableEffect(r)
    <3> SUFFICES ASSUME NEW j, NEW p, NEW n, Place(j, p)
                 PROVE  /\ InTable(j, p, n)' =>
                             \/ InTable(j, p, n) /\ hist'[j][p].writer = hist[j][p].writer
                             \/ /\ hist'[j][p].writer = r
                                /\ InHand(r, j, p, n)
                                /\ ~InTable(j, p, n)
                        /\ InTable(j, p, n) => InTable(j, p, n)'
      BY <1>1 DEF TableEffect, Place
    <3>1. CASE j = k
      <4>1. p \in DOMAIN rows[k]
        BY <2>2, <2>3 DEF Place
      <4> QED BY <2>2, <2>4, <2>5, <3>1, <4>1 DEF InTable, InHand
    <3>2. CASE j # k
      BY <2>2, <2>5, <3>2 DEF InTable
    <3> QED BY <3>1, <3>2
  <2>7. BornEffect(r)
    <3>1. \A j \in Request : BornKey(j) \in DOMAIN db' => BornKey(j) \in DOMAIN db \/ j = r
      BY <2>2, <2>5 DEF BornKey
    <3> QED BY <2>1, <3>1 DEF BornEffect, Ended, Holding
  <2>8. DoneEffect(r)
    BY <1>1, <2>1 DEF DoneEffect, PhotoInv, CallInv, Called, Ended
  <2> QED BY <1>1, <2>1, <2>6, <2>7, <2>8, LastEffect DEF Ended
<1> QED BY <1>1, <1>2, <1>3 DEF InsertThen

LEMMA RemoveEffect ==
    ASSUME OverInv, PhotoInv, NEW r \in Open, DeleteAttendancesRemove(r)
    PROVE  PhotoEffect(r) /\ Owns(r)'
<1> DEFINE keys == DOMAIN mem[r].rows \cap DOMAIN db
<1>1. /\ step[r] = "attendance.remove" /\ UNCHANGED photoVars
      /\ RemoveThen(r, keys, "ok", NoMem)
  BY DEF DeleteAttendancesRemove, At
<1>2. CASE Reads(r, "error", NoMem)
  BY <1>1, <1>2, ErrorEffect DEF Reads
<1>3. CASE Removes(r, keys) /\ Goto(r, "ok", NoMem)
  <2>1. r \in Request /\ Acts(r) /\ step'[r] = "ok"
    BY <1>3, GoneActs
  <2>2. Hand(r) = mem[r].rows /\ keys \subseteq DOMAIN db
    BY <1>1 DEF Hand, Holding
  <2>3. /\ DOMAIN db' = DOMAIN db \ Removal(keys)
        /\ \A k \in DOMAIN db' : db'[k] = db[k] /\ hist'[k] = hist[k]
        /\ \A k : k[1] = "attendance" => (k \in Removal(keys) <=> k \in keys)
    <3> HIDE DEF keys
    <3> QED BY <1>3, <2>2, RemovedRows
  <2>4. \A k, p, n : Place(k, p) =>
           InTable(k, p, n)' <=> InTable(k, p, n) /\ k \notin DOMAIN Hand(r)
    BY <2>2, <2>3 DEF Place, InTable
  <2>5. \A k, p, n : Place(k, p) /\ InTable(k, p, n)' => hist'[k] = hist[k]
    BY <2>3 DEF InTable
  <2>6. TableEffect(r)
    BY <1>1, <2>4, <2>5 DEF TableEffect
  <2>7. BornEffect(r)
    BY <2>1, <2>3 DEF BornEffect, Ended, Holding
  <2>8. DoneEffect(r)
    <3> SUFFICES ASSUME NEW n, Once(n), r \in Takers(n), NEW k, NEW p, Place(k, p),
                        InTable(k, p, n)'
                 PROVE  FALSE
      BY DEF DoneEffect, Place
    <3>1. InTable(k, p, n) /\ k \notin DOMAIN Hand(r)
      BY <2>4
    <3>2. Named(k, p, n)
      BY <3>1 DEF Named
    <3>3. Replaces(r, n)
      BY <2>1 DEF PhotoInv, Owns
    <3> QED BY <3>1, <3>2, <3>3 DEF Replaces
  <2> QED BY <1>1, <2>1, <2>6, <2>7, <2>8, LastEffect DEF Ended
<1> QED BY <1>1, <1>2, <1>3 DEF RemoveThen

\* The columns of an attendance that is to be saved.
LEMMA PhotoColumns ==
    ASSUME NEW k, k[1] = "attendance", NEW row, Fits(OperationsColumns, k, row)
    PROVE  Photo \subseteq DOMAIN row
<1>1. ForeignColumns(k) = {}
  BY ForeignKeyAssumption
     DEF ForeignColumns, OperationsReferences, InventoryReferences, CashReferences,
         AttendanceReferences
<1> QED BY <1>1 DEF Fits, OperationsColumns, Photo

LEMMA ReloadEffect ==
    ASSUME OverInv, PhotoInv, NEW r \in Open, EntityReload(r), UNCHANGED photoVars
    PROVE  PhotoEffect(r) /\ Owns(r)'
<1> DEFINE rows == mem[r].rows
           m == [dirty |-> DirtyOf(rows)]
<1>1. step[r] = "entity.reload" /\ Goto(r, "entity.write", m) /\ UNCHANGED <<db, hist>>
  BY DEF EntityReload, At, Reload, Reads
<1>2. /\ r \in Request /\ Acts(r) /\ step'[r] = "entity.write"
      /\ mem'[r] = Over(m, mem[r])
  BY <1>1, GoneActs DEF Ended
<1>3. mem'[r].rows = rows /\ mem'[r].dirty = DirtyOf(rows)
  <2>1. "rows" \in DOMAIN mem[r]
    BY <1>2 DEF OverInv, OpSaveInv, SaveInv, SharedInv, HoldInv, NoMem
  <2> QED BY <1>2, <2>1 DEF Over
<1>4. Hand(r) = rows /\ Hand(r)' = rows
  BY <1>1, <1>2, <1>3 DEF Hand, Holding
<1>5. \A k, p, n : /\ InHand(r, k, p, n)' <=> InHand(r, k, p, n)
                   /\ InTable(k, p, n)' <=> InTable(k, p, n)
  BY <1>1, <1>4 DEF InHand, InTable
<1>6. /\ UNCHANGED <<files, now, unlinks, shared, taken, lost>>
      /\ \A n : Takers(n)' = Takers(n)
  BY DEF photoVars, Takers
<1>7. TableEffect(r) /\ BornEffect(r)
  <2>1. AtRest
    BY <1>1 DEF AtRest
  <2> QED BY <1>1, <1>2, <1>3, <2>1, RestEffect DEF Holding
<1>8. NameEffect(r)
  <2>1. now \in Nat
    BY DEF PhotoInv, NumberInv
  <2>2. ASSUME NEW k, NEW p, NEW n, n \in Nat, n > now, Place(k, p), InHand(r, k, p, n)'
        PROVE  FALSE
    <3>1. Named(k, p, n) /\ n # Null
      BY <1>2, <1>5, <2>2, BoundAssumption DEF Named
    <3>2. n <= now
      BY <2>2, <3>1 DEF PhotoInv, NumberInv
    <3> QED BY <2>1, <2>2, <3>2
  <2> QED BY <1>5, <1>6, <2>1, <2>2 DEF NameEffect
<1>9. CallEffect(r)
  BY <1>2, <1>6 DEF CallEffect, Called
<1>10. DoneEffect(r)
  BY <1>2 DEF DoneEffect
<1>11. \A k \in DOMAIN rows : k[1] = "attendance" => Photo \subseteq DOMAIN rows[k]
  <2>1. \A k \in DOMAIN rows : Fits(OperationsColumns, k, rows[k])
    BY <1>1, <1>2 DEF OverInv, OpSaveInv, SaveInv, Keeps, Reading, Holds, Knows
  <2> QED BY <2>1, PhotoColumns
<1>12. \A k, p, n : Place(k, p) /\ k \in DOMAIN mem'[r].dirty =>
          /\ k \in DOMAIN rows
          /\ Found(r, k, p)' <=> rows[k][p] # db[k][p]
          /\ InTable(k, p, n) <=> db[k][p] = n
  BY <1>2, <1>3, <1>11 DEF Place, Found, DirtyOf, InTable
<1>13. ASSUME NEW n, Once(n)
       PROVE  /\ Takers(n) # {} => Agrees(r, n)'
              /\ r \in Takers(n) => Replaces(r, n)'
  <2>1. /\ Takers(n) # {} => Agrees(r, n)
        /\ r \in Takers(n) => Replaces(r, n)
    BY <1>2, <1>13 DEF PhotoInv, Owns
  <2>2. Explains(n, r) => Explains(n, r)'
    BY <1>2, <1>7, <1>8, <1>9, <1>10, ExplainsStays DEF PhotoEffect
  <2>3. \A k, p : Place(k, p) /\ Found(r, k, p)' /\ InHand(r, k, p, n) => ~InTable(k, p, n)
    BY <1>4, <1>12 DEF Found, InHand
  <2>4. \A k, p : Place(k, p) => (Named(k, p, n)' => Named(k, p, n))
    <3> SUFFICES ASSUME NEW k, NEW p, Place(k, p), Named(k, p, n)'
                 PROVE  Named(k, p, n)
      BY DEF Place
    <3>1. n # Null /\ ~Uploaded(n)
      BY <1>6, <1>13, BoundAssumption DEF Once, Uploaded, PhotoInv, NumberInv
    <3> QED BY <1>2, <1>7, <1>8, <1>9, <1>10, <3>1, NamedBefore DEF PhotoEffect, PhotoInv
  <2>5. ASSUME NEW k, NEW p, Place(k, p), InHand(r, k, p, n)
        PROVE  Named(k, p, n)
    BY <1>2, <2>5 DEF Named
  <2>6. Takers(n) # {} => Agrees(r, n)'
    BY <1>1, <1>2, <1>4, <1>5, <1>6, <2>1, <2>2, <2>3, <2>5 DEF Agrees, Replaces
  <2>7. r \in Takers(n) => Replaces(r, n)'
    BY <1>1, <1>2, <1>4, <1>5, <1>6, <1>12, <2>1, <2>4 DEF Replaces, InHand
  <2> QED BY <2>6, <2>7
<1>14. Owns(r)'
  BY <1>2, <1>6, <1>13 DEF Owns, Once, Keyed, Calling
<1> QED BY <1>2, <1>7, <1>8, <1>9, <1>10, <1>14 DEF PhotoEffect

\* What save() writes of the places of photos.
LEMMA WrittenRows ==
    ASSUME OverInv, NEW r \in Request, step[r] = "entity.write", EntityWrite(r),
           WriteAccepted(r)
    PROVE  /\ Goto(r, "ok", NoMem)
           /\ DOMAIN mem[r].dirty \subseteq DOMAIN mem[r].rows
           /\ \A k \in DOMAIN mem[r].rows \cap DOMAIN db : k \in DOMAIN mem[r].dirty
           /\ DOMAIN db' \subseteq DOMAIN db \cup DOMAIN mem[r].rows
           /\ DOMAIN db \subseteq DOMAIN db'
           /\ \A k \in DOMAIN db \ DOMAIN mem[r].rows : db'[k] = db[k] /\ hist'[k] = hist[k]
           /\ \A k \in DOMAIN mem[r].rows : k[1] = "attendance" => \A p \in Photo :
                 IF k \in DOMAIN db /\ p \notin mem[r].dirty[k]
                 THEN db'[k][p] = db[k][p] /\ hist'[k][p].writer = hist[k][p].writer
                 ELSE k \in DOMAIN db' => /\ db'[k][p] = mem[r].rows[k][p]
                                          /\ hist'[k][p].writer = r
<1> DEFINE C == OperationsColumns
           rows == mem[r].rows
           dirty == mem[r].dirty
           after == AfterWrite(r)
           kept == DOMAIN rows \cap DOMAIN after
           new == [k \in kept |-> IF k \notin DOMAIN dirty THEN after[k] ELSE rows[k]]
           meant == [k \in kept |-> IF k \in DOMAIN hist THEN mem[r].meant ELSE DOMAIN new[k]]
           wrote == [k \in kept |-> IF k \notin DOMAIN dirty THEN DOMAIN new[k] ELSE dirty[k]]
<1>1. Record(r, after, new, meant, wrote) /\ Goto(r, "ok", NoMem)
  BY DEF EntityWrite, Write
<1>2. ColumnInv(C) /\ Compared(C, r)
  BY DEF OverInv, OpSaveInv, SaveInv, SharedInv, Keeps, Writing
<1>3. /\ DOMAIN after = DOMAIN db \cup (DOMAIN rows \ DOMAIN dirty)
      /\ \A k \in DOMAIN after : DOMAIN after[k] = C[k[1]]
      /\ \A k \in DOMAIN rows \ DOMAIN dirty :
           k \notin DOMAIN db /\ \A c \in DOMAIN rows[k] : after[k][c] = rows[k][c]
      /\ \A k \in DOMAIN db : k \notin DOMAIN rows => after[k] = db[k]
      /\ \A k \in DOMAIN db \cap DOMAIN rows : \A c \in C[k[1]] :
           after[k][c] = IF c \in dirty[k] THEN rows[k][c] ELSE db[k][c]
  <2>1. \A f \in References : f.column \in C[f.table]
    BY OpForeign
  <2>2. r \in Request /\ WriteAccepted(r)
    OBVIOUS
  <2> HIDE DEF C
  <2> QED BY ONLY <1>2, <2>1, <2>2, AfterWriteRows
<1>4. \A k \in DOMAIN rows : k[1] = "attendance" => Photo \subseteq DOMAIN rows[k]
  BY <1>2, PhotoColumns DEF Compared
<1>5. Photo \subseteq C["attendance"]
  BY DEF OperationsColumns, Photo
<1>6. DOMAIN meant = kept
  OBVIOUS
<1>7. DOMAIN db \subseteq DOMAIN hist
  BY <1>2 DEF ColumnInv
<1>8. \A k \in kept : /\ new[k] = IF k \notin DOMAIN dirty THEN after[k] ELSE rows[k]
                      /\ wrote[k] = IF k \notin DOMAIN dirty THEN DOMAIN new[k] ELSE dirty[k]
  OBVIOUS
<1> HIDE DEF after, new, meant, wrote
<1>9. db' = after /\ \A k \in DOMAIN hist \ kept : hist'[k] = hist[k]
  <2> HIDE DEF kept
  <2> QED BY <1>1, <1>6, RecordHist
<1>10. \A k \in kept : \A c \in DOMAIN new[k] :
          hist'[k][c].writer = IF c \in wrote[k] THEN r ELSE hist[k][c].writer
  <2> SUFFICES ASSUME NEW k \in kept, NEW c \in DOMAIN new[k]
               PROVE  hist'[k][c].writer = IF c \in wrote[k] THEN r ELSE hist[k][c].writer
    OBVIOUS
  <2> HIDE DEF kept
  <2>1. hist'[k][c] = [val |-> IF c \in meant[k] THEN new[k][c] ELSE hist[k][c].val,
                       by |-> IF c \in meant[k] THEN r ELSE hist[k][c].by,
                       writer |-> IF c \in wrote[k] THEN r ELSE hist[k][c].writer]
    BY <1>1, <1>6, RecordRow
  <2> QED BY <2>1
<1>11. ASSUME NEW k \in DOMAIN rows, k[1] = "attendance", NEW p \in Photo
       PROVE  IF k \in DOMAIN db /\ p \notin dirty[k]
              THEN db'[k][p] = db[k][p] /\ hist'[k][p].writer = hist[k][p].writer
              ELSE k \in DOMAIN db' => /\ db'[k][p] = rows[k][p]
                                       /\ hist'[k][p].writer = r
  <2>1. p \in DOMAIN rows[k] /\ p \in C[k[1]]
    BY <1>4, <1>5, <1>11
  <2>2. CASE k \in DOMAIN db
    <3>1. k \in kept /\ k \in DOMAIN dirty
      BY <1>3, <2>2
    <3>2. p \in DOMAIN new[k] /\ wrote[k] = dirty[k]
      BY <1>8, <2>1, <3>1
    <3> QED BY <1>3, <1>9, <1>10, <2>1, <2>2, <3>1, <3>2
  <2>3. CASE k \notin DOMAIN db /\ k \in DOMAIN after
    <3>1. k \in kept /\ k \notin DOMAIN dirty
      BY <1>3, <2>3
    <3>2. p \in DOMAIN new[k] /\ wrote[k] = DOMAIN new[k]
      BY <1>3, <1>8, <2>1, <3>1
    <3> QED BY <1>3, <1>9, <1>10, <2>1, <2>3, <3>1, <3>2
  <2> QED BY <1>9, <2>2, <2>3
<1>12. DOMAIN dirty \subseteq DOMAIN rows
  BY <1>2 DEF Compared
<1> QED BY <1>1, <1>3, <1>7, <1>9, <1>11, <1>12

LEMMA WriteEffect ==
    ASSUME OverInv, PhotoInv, NEW r \in Open, EntityWrite(r), UNCHANGED photoVars
    PROVE  PhotoEffect(r) /\ Owns(r)'
<1>1. step[r] = "entity.write" /\ r \in Request
  BY DEF EntityWrite, At, Open
<1>2. CASE ~WriteAccepted(r)
  <2>1. Reads(r, "error", NoMem)
    BY <1>2 DEF EntityWrite, Write
  <2> QED BY <2>1, ErrorEffect DEF Reads
<1>3. CASE WriteAccepted(r)
  <2> DEFINE rows == mem[r].rows
             dirty == mem[r].dirty
  <2>1. /\ Goto(r, "ok", NoMem)
        /\ DOMAIN dirty \subseteq DOMAIN rows
        /\ \A k \in DOMAIN rows \cap DOMAIN db : k \in DOMAIN dirty
        /\ DOMAIN db' \subseteq DOMAIN db \cup DOMAIN rows
        /\ DOMAIN db \subseteq DOMAIN db'
        /\ \A k \in DOMAIN db \ DOMAIN rows : db'[k] = db[k] /\ hist'[k] = hist[k]
        /\ \A k \in DOMAIN rows : k[1] = "attendance" => \A p \in Photo :
              IF k \in DOMAIN db /\ p \notin dirty[k]
              THEN db'[k][p] = db[k][p] /\ hist'[k][p].writer = hist[k][p].writer
              ELSE k \in DOMAIN db' => db'[k][p] = rows[k][p] /\ hist'[k][p].writer = r
    BY <1>1, <1>3, WrittenRows
  <2>2. Acts(r) /\ step'[r] = "ok"
    BY <2>1, GoneActs
  <2>3. Hand(r) = rows
    BY <1>1 DEF Hand, Holding
  <2>4. ASSUME NEW k, NEW p, NEW n, Place(k, p)
        PROVE  /\ InTable(k, p, n)' =>
                    \/ InTable(k, p, n) /\ hist'[k][p].writer = hist[k][p].writer
                    \/ /\ hist'[k][p].writer = r /\ InHand(r, k, p, n)
                       /\ InTable(k, p, n) => Found(r, k, p)
               /\ InTable(k, p, n) /\ ~InTable(k, p, n)' =>
                    k \in DOMAIN Hand(r) /\ ~InHand(r, k, p, n)
               /\ InTable(k, p, n)' /\ Found(r, k, p) => InHand(r, k, p, n)
    <3>1. CASE k \notin DOMAIN rows
      BY <2>1, <3>1 DEF InTable, Found
    <3>2. CASE k \in DOMAIN rows /\ k \in DOMAIN db /\ p \notin dirty[k]
      BY <2>1, <2>4, <3>2 DEF InTable, Found, Place
    <3>3. CASE k \in DOMAIN rows /\ (k \in DOMAIN db => p \in dirty[k])
      <4>1. k \in DOMAIN db' => db'[k][p] = rows[k][p] /\ hist'[k][p].writer = r
        BY <2>1, <2>4, <3>3 DEF Place
      <4>2. k \in DOMAIN db => Found(r, k, p) /\ k \in DOMAIN db'
        BY <1>1, <2>1, <3>3 DEF Found
      <4> QED BY <2>3, <3>3, <4>1, <4>2 DEF InTable, InHand
    <3> QED BY <3>1, <3>2, <3>3
  <2>5. TableEffect(r)
    BY <1>1, <2>4 DEF TableEffect
  <2>6. BornEffect(r)
    BY <1>1, <2>1, <2>2 DEF BornEffect, Ended, Holding
  <2>7. DoneEffect(r)
    <3> SUFFICES ASSUME NEW n, Once(n), r \in Takers(n), NEW k, NEW p, Place(k, p),
                        InTable(k, p, n)'
                 PROVE  hist'[k][p].writer \in met'[r]
      BY DEF DoneEffect, Place
    <3>1. Replaces(r, n)
      BY <1>1 DEF PhotoInv, Owns
    <3>2. ~InHand(r, k, p, n)
      <4>1. InHand(r, k, p, n) => Named(k, p, n)
        BY <1>1 DEF Named
      <4> QED BY <1>1, <3>1, <4>1 DEF Replaces
    <3>3. InTable(k, p, n) /\ hist'[k][p].writer = hist[k][p].writer /\ ~Found(r, k, p)
      BY <2>4, <3>2
    <3>4. Named(k, p, n)
      BY <3>3 DEF Named
    <3>5. k \in DOMAIN rows /\ k \in DOMAIN dirty
      BY <2>1, <2>3, <3>1, <3>3, <3>4 DEF Replaces, InTable
    <3>6. hist[k][p].writer \in met[r]
      BY <1>1, <3>1, <3>3, <3>4, <3>5 DEF Replaces
    <3>7. met[r] \subseteq met'[r]
      BY <1>1, <2>2 DEF Acts, MetGrows
    <3> QED BY <3>3, <3>6, <3>7
  <2> QED BY <1>1, <2>2, <2>5, <2>6, <2>7, LastEffect DEF Ended
<1> QED BY <1>2, <1>3

UploadedAs(photos, names) ==
    /\ now' \in Nat /\ now <= now' /\ files \subseteq files' /\ shared \subseteq shared'
    /\ DOMAIN names = photos
    /\ \A p \in photos : Uploaded(names[p])
    /\ \A p, q \in photos : p # q /\ names[p] = names[q] => names[p] \in shared'

\* Photos uploaded have names of milliseconds since the last upload.
LEMMA UploadEffect ==
    ASSUME now \in Nat, NEW photos, photos \subseteq Photo, NEW names \in FreshNames(photos),
           Upload(names)
    PROVE  UploadedAs(photos, names)
<1> DEFINE used == {names[p] : p \in DOMAIN names}
           last == CHOOSE n \in used : \A i \in used : i <= n
<1>1. DOMAIN names = photos /\ \A p \in photos : names[p] \in Nat /\ now <= names[p]
  BY DEF FreshNames
<1>2. /\ files' = files \cup used
      /\ now' = IF used = {} THEN now ELSE last
      /\ shared' = shared \cup (used \cap {now})
                     \cup (IF Cardinality(used) < Cardinality(DOMAIN names) THEN used ELSE {})
  BY DEF Upload
<1>3. \A n \in used : n \in Nat /\ now <= n
  BY <1>1
<1>4. used # {} => last \in used /\ \A i \in used : i <= last
  <2>1. SUFFICES ASSUME used # {}
                 PROVE  \E n \in used : \A i \in used : i <= n
    OBVIOUS
  <2>2. PICK a \in photos : TRUE
    BY <1>1, <2>1
  <2>3. \E b \in photos : photos = {a, b}
    BY <2>2 DEF Photo
  <2>4. PICK b \in photos : photos = {a, b}
    BY <2>3
  <2>5. used = {names[a], names[b]}
    BY <1>1, <2>4
  <2>6. names[a] \in Nat /\ names[b] \in Nat
    BY <1>1, <2>2
  <2> QED BY <2>5, <2>6
<1>5. ASSUME NEW p \in photos, NEW q \in photos, p # q, names[p] = names[q]
      PROVE  names[p] \in shared'
  <2>1. photos = {p, q}
    BY <1>5 DEF Photo
  <2>2. used = {names[p]}
    BY <1>1, <1>5, <2>1
  <2>3. Cardinality(used) = 1
    BY <2>2, FS_Singleton
  <2>4. Cardinality(photos) = 2
    <3>1. IsFiniteSet({p}) /\ Cardinality({p}) = 1
      BY FS_Singleton
    <3>2. q \notin {p} /\ photos = {p} \cup {q}
      BY <1>5, <2>1
    <3> QED BY <3>1, <3>2, FS_AddElement
  <2> QED BY <1>1, <1>2, <2>2, <2>3, <2>4
<1>6. now' \in Nat /\ now <= now' /\ \A n \in used : n <= now'
  BY <1>2, <1>3, <1>4
<1>7. \A n \in used : n > now \/ n \in shared'
  BY <1>2, <1>3
<1>8. \A p \in photos : names[p] \in used
  BY <1>1
<1> HIDE DEF used, last
<1> QED BY <1>1, <1>2, <1>3, <1>5, <1>6, <1>7, <1>8 DEF Uploaded, UploadedAs

\* Photos of the rows it holds are called for.
LEMMA TakesEffect ==
    ASSUME PhotoInv, NEW r \in Request, step[r] \in Calling, step'[r] \in Called \ {"ok"},
           NEW photos \in SUBSET Photo, Takes(r, mem[r].rows, photos)
    PROVE  /\ CallEffect(r)
           /\ \A n : r \notin Takers(n)
           /\ \A n : r \in Takers(n)' <=>
                 \E k, p : Place(k, p) /\ p \in photos /\ InHand(r, k, p, n) /\ n # Null
<1> DEFINE rows == mem[r].rows
           called == {d \in (DOMAIN rows) \X photos : rows[d[1]][d[2]] # Null}
           calls == {[by |-> r, name |-> rows[c[1]][c[2]], of |-> c] : c \in called}
<1>1. /\ unlinks' = unlinks \cup calls
      /\ taken' = taken \cup {[by |-> u.by, name |-> u.name] : u \in calls}
      /\ lost' = lost
  BY DEF Takes
<1>2. /\ Hand(r) = rows
      /\ \A k \in DOMAIN rows : k[1] = "attendance"
  BY DEF Hand, Holding, Calling, PhotoInv, Owns, Keyed
<1>3. \A n : r \notin Takers(n)
  BY DEF PhotoInv, CallInv, Calling, Called, Ended
<1>4. ASSUME NEW u \in calls
      PROVE  /\ u = [by |-> r, name |-> u.name, of |-> u.of] /\ u.name # Null
             /\ \E k, p : /\ Place(k, p) /\ p \in photos /\ u.of = <<k, p>>
                          /\ InHand(r, k, p, u.name)
  <2>1. PICK c \in called : u = [by |-> r, name |-> rows[c[1]][c[2]], of |-> c]
    OBVIOUS
  <2>2. PICK k \in DOMAIN rows, p \in photos : c = <<k, p>>
    OBVIOUS
  <2>3. u.by = r /\ u.name = rows[k][p] /\ u.of = <<k, p>> /\ u.name # Null
    BY <2>1, <2>2
  <2>4. Place(k, p) /\ InHand(r, k, p, u.name)
    BY <1>2, <2>3 DEF Place, InHand
  <2> QED BY <2>1, <2>3, <2>4
<1>5. ASSUME NEW k, NEW p, NEW n, Place(k, p), p \in photos, InHand(r, k, p, n), n # Null
      PROVE  [by |-> r, name |-> n, of |-> <<k, p>>] \in calls
  <2>0. k \in DOMAIN rows /\ rows[k][p] = n
    BY <1>2, <1>5 DEF InHand
  <2>3. PICK c : c = <<k, p>>
    OBVIOUS
  <2>4. c[1] = k /\ c[2] = p /\ c \in (DOMAIN rows) \X photos
    BY <1>5, <2>0, <2>3
  <2>1. c \in called /\ c = <<k, p>> /\ rows[c[1]][c[2]] = n
    BY <1>5, <2>0, <2>3, <2>4
  <2>2. [by |-> r, name |-> n, of |-> <<k, p>>]
          = [by |-> r, name |-> rows[c[1]][c[2]], of |-> c]
    BY <2>1
  <2> HIDE DEF called
  <2>5. [by |-> r, name |-> rows[c[1]][c[2]], of |-> c] \in calls
    BY ONLY <2>1
  <2> QED BY ONLY <2>2, <2>5
<1> HIDE DEF calls
<1>6. \A q \in Request : \A n : q \in Takers(n)' <=>
         q \in Takers(n) \/ \E u \in calls : u.by = q /\ u.name = n
  BY <1>1 DEF Takers
<1>7. \A n : r \in Takers(n)' <=>
         \E k, p : Place(k, p) /\ p \in photos /\ InHand(r, k, p, n) /\ n # Null
  <2> SUFFICES ASSUME NEW n
               PROVE  r \in Takers(n)' <=>
                  \E k, p : Place(k, p) /\ p \in photos /\ InHand(r, k, p, n) /\ n # Null
    OBVIOUS
  <2>1. ASSUME r \in Takers(n)'
        PROVE  \E k, p : Place(k, p) /\ p \in photos /\ InHand(r, k, p, n) /\ n # Null
    BY <1>3, <1>4, <1>6, <2>1
  <2>2. ASSUME NEW k, NEW p, Place(k, p), p \in photos, InHand(r, k, p, n), n # Null
        PROVE  r \in Takers(n)'
    <3>1. PICK u : u = [by |-> r, name |-> n, of |-> <<k, p>>]
      OBVIOUS
    <3>2. u \in calls /\ u.by = r /\ u.name = n
      BY <1>5, <2>2, <3>1
    <3> QED BY <1>6, <3>2
  <2> QED BY <2>1, <2>2
<1>8. CallEffect(r)
  <2>1. \A n : \A q \in Request \ {r} : q \in Takers(n)' <=> q \in Takers(n)
    <3>1. \A u \in calls : u.by = r
      <4> SUFFICES ASSUME NEW u \in calls
                   PROVE  u.by = r
        OBVIOUS
      <4>1. u = [by |-> r, name |-> u.name, of |-> u.of]
        BY <1>4
      <4> QED BY <4>1
    <3> QED BY <1>6, <3>1
  <2>2. \A n : r \in Takers(n)' =>
           n # Null /\ \E k, p : Place(k, p) /\ InHand(r, k, p, n)
    BY <1>7
  <2>3. \A u \in unlinks' \ unlinks :
           /\ u = [by |-> r, name |-> u.name, of |-> u.of]
           /\ u.name # Null /\ r \in Takers(u.name)'
           /\ \E k, p : Place(k, p) /\ u.of = <<k, p>> /\ InHand(r, k, p, u.name)
    BY <1>1, <1>4, <1>7
  <2>4. unlinks \subseteq unlinks' /\ taken \subseteq taken' /\ lost' = lost
    BY <1>1
  <2> QED BY <1>3, <2>1, <2>2, <2>3, <2>4 DEF CallEffect, Place
<1> QED BY <1>3, <1>7, <1>8

\* What r holds after an upload: what it held, and names uploaded.
HoldsOnly(r, photos, names) ==
    /\ \A j, k \in DOMAIN Hand(r)' : j = k
    /\ \A k, p, n : Place(k, p) /\ InHand(r, k, p, n)' /\ n # Null =>
          InHand(r, k, p, n) \/ (p \in photos /\ n = names[p])

LEMMA UploadedNames ==
    ASSUME PhotoInv, NEW r \in Request, NEW photos, NEW names, UploadedAs(photos, names),
           HoldsOnly(r, photos, names)
    PROVE  NameEffect(r)
<1> USE DEF UploadedAs, HoldsOnly
<1>1. now \in Nat
  BY DEF PhotoInv, NumberInv
<1>2. ASSUME NEW j, NEW k, NEW p, NEW q, NEW n, Place(j, p), Place(k, q),
             n \in Nat, n > now, n \notin shared', InHand(r, j, p, n)', InHand(r, k, q, n)'
      PROVE  j = k /\ p = q
  <2>1. n # Null
    BY <1>2, BoundAssumption
  <2>2. ~InHand(r, j, p, n) /\ ~InHand(r, k, q, n)
    <3>1. ~Named(j, p, n) /\ ~Named(k, q, n)
      BY <1>1, <1>2, <2>1 DEF PhotoInv, NumberInv
    <3> QED BY <3>1 DEF Named
  <2>3. p \in photos /\ q \in photos /\ n = names[p] /\ n = names[q]
    BY <1>2, <2>1, <2>2
  <2>4. j = k
    BY <1>2 DEF InHand
  <2> QED BY <1>2, <2>3, <2>4
<1>3. \A k, p, n : Place(k, p) /\ InHand(r, k, p, n)' /\ n # Null =>
         InHand(r, k, p, n) \/ Uploaded(n)
  OBVIOUS
<1> QED BY <1>2, <1>3 DEF NameEffect

LEMMA AddEffect ==
    ASSUME OverInv, PhotoInv, NEW r \in Request, AddAttendance(r)
    PROVE  PhotoEffect(r) /\ Owns(r)'
<1>1. PICK c \in ClockOut \cup {Null}, photos \in {{"in"}, Photo} :
        \E names \in FreshNames(photos) :
          /\ \/ Begin(r, "attendance.insert", [dto |-> AttendanceRow(c, names)])
             \/ photos = {"in"} /\ Begin(r, "error", NoMem)
          /\ Upload(names)
          /\ UNCHANGED <<db, hist, faults, unlinks, taken, lost>>
  BY DEF AddAttendance
<1>2. PICK names \in FreshNames(photos) :
          /\ \/ Begin(r, "attendance.insert", [dto |-> AttendanceRow(c, names)])
             \/ Begin(r, "error", NoMem)
          /\ Upload(names)
          /\ UNCHANGED <<db, hist, unlinks, taken, lost>>
  BY <1>1
<1>3. photos \subseteq Photo /\ now \in Nat
  BY DEF Photo, PhotoInv, NumberInv
<1>4. UploadedAs(photos, names)
  BY <1>2, <1>3, UploadEffect
<1>5. HoldInv
  BY DEF OverInv, OpSaveInv, SaveInv, SharedInv
<1>6. /\ Acts(r) /\ step[r] = "idle"
      /\ \/ step'[r] = "attendance.insert" /\ mem'[r].dto = AttendanceRow(c, names)
         \/ step'[r] = "error"
  <2>1. Memory([dto |-> AttendanceRow(c, names)]).dto = AttendanceRow(c, names)
    BY DEF Memory, NoMem
  <2> QED BY <1>2, <1>5, <2>1, BeginSteps, ActsTo DEF Ended
<1>7. Hand(r)' = IF step'[r] = "error" THEN <<>>
                 ELSE Single(<<"attendance", r>>, AttendanceRow(c, names))
  BY <1>6 DEF Hand, Holding
<1>8. /\ \A k \in DOMAIN Hand(r)' : k = <<"attendance", r>>
      /\ \A k, p, n : Place(k, p) /\ InHand(r, k, p, n)' /\ n # Null =>
            p \in photos /\ n = names[p]
  <2>1. \A p \in Photo : AttendanceRow(c, names)[p] = IF p \in photos THEN names[p] ELSE Null
    BY <1>3, <1>4 DEF AttendanceRow, Over, Photo, UploadedAs
  <2> HIDE DEF AttendanceRow
  <2> QED BY <1>7, <2>1 DEF InHand, Single, Place
<1>9. \A n : Takers(n)' = Takers(n) /\ r \notin Takers(n)
  BY <1>2, <1>6 DEF Takers, PhotoInv, CallInv, Called, Ended
<1>10. TableEffect(r) /\ BornEffect(r)
  <2>1. AtRest
    BY <1>2 DEF AtRest
  <2> QED BY <1>6, <2>1, RestEffect DEF Holding
<1>11. NameEffect(r)
  <2>1. HoldsOnly(r, photos, names)
    BY <1>8 DEF HoldsOnly
  <2> QED BY <1>4, <2>1, UploadedNames
<1>12. CallEffect(r)
  BY <1>2, <1>6, <1>9 DEF CallEffect, Called, Ended
<1>13. DoneEffect(r)
  BY <1>9 DEF DoneEffect
<1>14. ASSUME NEW n, Once(n)', Takers(n)' # {}
       PROVE  Agrees(r, n)'
  <2>1. n \in Nat /\ n # Null /\ n <= now /\ n \notin shared'
    BY <1>9, <1>14, BoundAssumption DEF Once, PhotoInv, NumberInv
  <2>2. \A k, p : Place(k, p) => ~InHand(r, k, p, n)'
    <3>1. ~Uploaded(n)
      BY <1>3, <2>1 DEF Uploaded
    <3> QED BY <1>4, <1>8, <2>1, <3>1 DEF UploadedAs
  <2>3. \A k, p : k \in DOMAIN Hand(r)' => ~InTable(k, p, n)'
    BY <1>2, <1>6, <1>8 DEF InTable, PhotoInv, BornInv, BornKey, Ended
  <2> QED BY <2>2, <2>3 DEF Agrees
<1>15. Owns(r)'
  BY <1>6, <1>9, <1>14 DEF Owns, Keyed, Calling
<1> QED BY <1>6, <1>10, <1>11, <1>12, <1>13, <1>15 DEF PhotoEffect

\* After it called for photos, what r holds of the names it took and of others.
CalledFor(r, photos) ==
    \A n : /\ r \notin Takers(n)
           /\ r \in Takers(n)' <=>
                 \E k, p : Place(k, p) /\ p \in photos /\ InHand(r, k, p, n) /\ n # Null
HoldsYet(r, photos) ==
    /\ DOMAIN Hand(r)' = DOMAIN Hand(r)
    /\ \A k, p, n : Place(k, p) =>
          /\ p \notin photos => (InHand(r, k, p, n)' <=> InHand(r, k, p, n))
          /\ step'[r] = "attendance.remove" => (InHand(r, k, p, n)' <=> InHand(r, k, p, n))
          /\ step'[r] # "attendance.remove" /\ p \in photos /\ InHand(r, k, p, n)' =>
                n = Null \/ Uploaded(n)

LEMMA CalledOwns ==
    ASSUME PhotoInv, NEW r \in Request, PhotoEffect(r), UNCHANGED <<db, hist>>,
           step'[r] \in {"entity.reload", "attendance.remove"},
           NEW photos, CalledFor(r, photos), HoldsYet(r, photos),
           step'[r] = "attendance.remove" => photos = Photo
    PROVE  Owns(r)'
<1>1. \A k, p, n : InTable(k, p, n)' <=> InTable(k, p, n)
  BY DEF InTable
<1>2. \A n : Once(n)' => Once(n) /\ n # Null
  BY BoundAssumption DEF Once, PhotoEffect, NameEffect
<1>3. ASSUME NEW n, Once(n)', n <= now
      PROVE  ~Uploaded(n)
  BY <1>3 DEF Once, Uploaded, PhotoInv, NumberInv
<1>4. ASSUME NEW n, Once(n)', Takers(n)' # {}
      PROVE  Agrees(r, n)'
  <2>1. CASE r \in Takers(n)'
    BY <2>1 DEF Agrees, Found
  <2>2. CASE r \notin Takers(n)'
    <3>1. Takers(n) # {}
      BY <1>4, <2>2 DEF PhotoEffect, CallEffect, Takers
    <3>2. Agrees(r, n) /\ n <= now /\ ~Uploaded(n)
      BY <1>2, <1>3, <1>4, <3>1 DEF PhotoInv, Owns, NumberInv
    <3>3. Explains(n, r) => Explains(n, r)'
      BY ExplainsStays
    <3> SUFFICES ASSUME NEW k, NEW p, Place(k, p), k \in DOMAIN Hand(r)'
                 PROVE  (InHand(r, k, p, n)' <=> InTable(k, p, n)') \/ Explains(n, r)'
      BY DEF Agrees, Place, Found
    <3>4. (InHand(r, k, p, n) <=> InTable(k, p, n)) \/ Explains(n, r)
      BY <3>2 DEF Agrees, CalledFor, HoldsYet
    <3>5. CASE p \notin photos
      BY <1>1, <3>3, <3>4, <3>5 DEF HoldsYet
    <3>6. CASE p \in photos
      <4>1. ~InHand(r, k, p, n)
        BY <1>2, <1>4, <2>2, <3>6 DEF CalledFor
      <4>2. ~InHand(r, k, p, n)'
        BY <1>2, <1>4, <3>2, <3>6, <4>1 DEF HoldsYet
      <4> QED BY <1>1, <3>3, <3>4, <4>1, <4>2
    <3> QED BY <3>5, <3>6
  <2> QED BY <2>1, <2>2
<1>5. ASSUME NEW n, Once(n)', r \in Takers(n)'
      PROVE  Replaces(r, n)'
  <2>1. PICK j, q : Place(j, q) /\ q \in photos /\ InHand(r, j, q, n)
    BY <1>5 DEF CalledFor
  <2>2. Named(j, q, n) /\ n <= now
    <3>1. Named(j, q, n)
      BY <2>1 DEF Named
    <3> QED BY <1>2, <1>5, <2>1, <3>1 DEF PhotoInv, NumberInv
  <2> SUFFICES ASSUME NEW k, NEW p, Place(k, p), Named(k, p, n)'
               PROVE  /\ k \in DOMAIN Hand(r)'
                      /\ step'[r] # "attendance.remove" => ~InHand(r, k, p, n)'
    BY DEF Replaces, Place
  <2>3. k = j /\ p = q
    <3>1. Named(k, p, n)
      BY <1>5, <2>2, NamedOnce DEF PhotoInv
    <3> QED BY <1>2, <1>5, <2>1, <2>2, <3>1 DEF PhotoInv, PlaceInv
  <2>4. k \in DOMAIN Hand(r)'
    BY <2>1, <2>3 DEF HoldsYet, InHand
  <2>5. step'[r] # "attendance.remove" => ~InHand(r, k, p, n)'
    BY <1>2, <1>3, <1>5, <2>1, <2>2, <2>3 DEF HoldsYet
  <2> QED BY <2>4, <2>5
<1>6. step'[r] = "attendance.remove" =>
         \A k, p, n : Place(k, p) /\ InHand(r, k, p, n)' /\ n # Null => r \in Takers(n)'
  BY DEF CalledFor, HoldsYet, Place
<1> QED BY <1>4, <1>5, <1>6 DEF Owns, Keyed, Calling, Place

LEMMA DeletePhotosEffect ==
    ASSUME OverInv, PhotoInv, NEW r \in Open, DeleteAttendancesPhotos(r)
    PROVE  PhotoEffect(r) /\ Owns(r)'
<1>1. /\ step[r] = "attendance.unlink" /\ UNCHANGED <<db, hist>>
      /\ Goto(r, "attendance.remove", <<>>) /\ Takes(r, mem[r].rows, Photo)
      /\ UNCHANGED <<files, now, shared>>
  BY DEF DeleteAttendancesPhotos, At, Reads
<1>2. /\ r \in Request /\ Acts(r) /\ step'[r] = "attendance.remove"
      /\ mem'[r] = Over(<<>>, mem[r])
  BY <1>1, GoneActs DEF Ended
<1>3. mem'[r].rows = mem[r].rows
  <2>1. "rows" \in DOMAIN mem[r]
    BY <1>2 DEF OverInv, OpSaveInv, SaveInv, SharedInv, HoldInv, NoMem
  <2> QED BY <1>2, <2>1 DEF Over
<1>4. Hand(r) = mem[r].rows /\ Hand(r)' = Hand(r)
  BY <1>1, <1>2, <1>3 DEF Hand, Holding
<1>5. \A k, p, n : InHand(r, k, p, n)' <=> InHand(r, k, p, n)
  BY <1>4 DEF InHand
<1>6. CallEffect(r) /\ CalledFor(r, Photo)
  <2>1. step[r] \in Calling /\ step'[r] \in Called \ {"ok"} /\ Photo \in SUBSET Photo
    BY <1>1, <1>2 DEF Calling, Called, Ended
  <2> QED BY <1>1, <1>2, <2>1, TakesEffect DEF CalledFor
<1>7. TableEffect(r) /\ BornEffect(r)
  <2>1. AtRest
    BY <1>1 DEF AtRest
  <2> QED BY <1>1, <1>2, <1>3, <2>1, RestEffect DEF Holding
<1>8. NameEffect(r)
  <2>1. now \in Nat
    BY DEF PhotoInv, NumberInv
  <2>2. ASSUME NEW k, NEW p, NEW n, n \in Nat, n > now, Place(k, p), InHand(r, k, p, n)'
        PROVE  FALSE
    <3>1. Named(k, p, n) /\ n # Null
      BY <1>2, <1>5, <2>2, BoundAssumption DEF Named
    <3>2. n <= now
      BY <2>2, <3>1 DEF PhotoInv, NumberInv
    <3> QED BY <2>1, <2>2, <3>2
  <2> QED BY <1>1, <1>5, <2>1, <2>2 DEF NameEffect
<1>9. DoneEffect(r)
  BY <1>2 DEF DoneEffect
<1>10. PhotoEffect(r)
  BY <1>2, <1>6, <1>7, <1>8, <1>9 DEF PhotoEffect
<1>11. HoldsYet(r, Photo)
  BY <1>2, <1>4, <1>5 DEF HoldsYet
<1> QED BY <1>1, <1>2, <1>6, <1>10, <1>11, CalledOwns

LEMMA EditPhotosEffect ==
    ASSUME OverInv, PhotoInv, NEW r \in Open, EditAttendancePhotos(r)
    PROVE  PhotoEffect(r) /\ Owns(r)'
<1> DEFINE dto == mem[r].dto
           rows == mem[r].rows
           values == IF dto.clockOut = Null THEN <<>> ELSE [clockOut |-> dto.clockOut]
<1>1. step[r] = "attendance.photos" /\ r \in Request /\ now \in Nat
  BY DEF EditAttendancePhotos, At, Open, PhotoInv, NumberInv
<1>2. Hand(r) = rows /\ dto.photos \subseteq Photo /\ step[r] \in Calling
  BY <1>1 DEF Hand, Holding, OverInv, Told, Calling
<1>3. \A j, k \in DOMAIN rows : j = k
  BY <1>1 DEF PhotoInv, Owns, Keyed
<1>4. \A k \in DOMAIN rows : k[1] = "attendance" /\ Photo \subseteq DOMAIN rows[k]
  <2>1. \A k \in DOMAIN rows : k[1] = "attendance" /\ Fits(OperationsColumns, k, rows[k])
    BY <1>1 DEF OverInv, OpSaveInv, SaveInv, Keeps, Reading, Holds, Knows, Told
  <2> QED BY <2>1, PhotoColumns
<1>5. ASSUME NEW s, NEW m, Reads(r, s, m), s # "idle", s \in Called \ {"ok"},
             \A j \in Request : s \in Holding /\ BornKey(j) \in DOMAIN mem'[r].rows =>
                BornKey(j) \in DOMAIN rows,
             NEW photos \in SUBSET Photo, Takes(r, rows, photos),
             NEW news \in SUBSET Photo, NEW names \in FreshNames(news), Upload(names),
             HoldsOnly(r, news, names)
      PROVE  /\ PhotoEffect(r) /\ step'[r] = s /\ CalledFor(r, photos)
             /\ UploadedAs(news, names)
  <2>1. Acts(r) /\ step'[r] = s /\ UNCHANGED <<db, hist>>
    BY <1>5, GoneActs DEF Reads
  <2>2. UploadedAs(news, names)
    BY <1>1, <1>5, UploadEffect
  <2>3. NameEffect(r)
    BY <1>1, <1>5, <2>2, UploadedNames
  <2>4. CallEffect(r) /\ CalledFor(r, photos)
    BY <1>1, <1>2, <1>5, <2>1, TakesEffect DEF CalledFor
  <2>5. TableEffect(r) /\ BornEffect(r)
    <3>1. AtRest
      BY <2>1 DEF AtRest
    <3> QED BY <1>1, <1>5, <2>1, <3>1, RestEffect DEF Holding
  <2>6. DoneEffect(r)
    BY <1>5, <2>1 DEF DoneEffect
  <2> QED BY <2>1, <2>2, <2>3, <2>4, <2>5, <2>6 DEF PhotoEffect
<1>6. CASE \E names \in FreshNames(dto.photos) :
             /\ Takes(r, rows, dto.photos)
             /\ Upload(names)
             /\ Reads(r, "entity.reload",
                  Save([k \in DOMAIN rows |-> Assigned(rows[k], Over(names, values))],
                       dto.photos \cup DOMAIN values))
  <2>1. PICK names \in FreshNames(dto.photos) :
             /\ Takes(r, rows, dto.photos)
             /\ Upload(names)
             /\ Reads(r, "entity.reload",
                  Save([k \in DOMAIN rows |-> Assigned(rows[k], Over(names, values))],
                       dto.photos \cup DOMAIN values))
    BY <1>6
  <2> DEFINE given == Over(names, values)
             new == [k \in DOMAIN rows |-> Assigned(rows[k], given)]
             m == Save(new, dto.photos \cup DOMAIN values)
  <2>2. DOMAIN names = dto.photos
    BY DEF FreshNames
  <2>3. \A p \in Photo : /\ p \in DOMAIN given <=> p \in dto.photos
                         /\ p \in dto.photos => given[p] = names[p]
    BY <1>2, <2>2 DEF Over, Photo
  <2>4. ASSUME NEW k \in DOMAIN rows, NEW p \in Photo
        PROVE  new[k][p] = IF p \in dto.photos THEN names[p] ELSE rows[k][p]
    <3> HIDE DEF given
    <3> QED BY <1>4, <2>3, <2>4 DEF Assigned, Over
  <2>5. DOMAIN new = DOMAIN rows /\ m = [rows |-> new, meant |-> dto.photos \cup DOMAIN values]
    BY DEF Save
  <2> HIDE DEF new
  <2>6. Over(m, mem[r]).rows = new
    BY <2>5 DEF Over
  <2>7. Reads(r, "entity.reload", m)
    BY <2>1 DEF new
  <2> HIDE DEF m
  <2>8. mem'[r].rows = new /\ step'[r] = "entity.reload" /\ UNCHANGED <<db, hist>>
    BY <2>6, <2>7, GoneActs DEF Reads, Ended
  <2>9. Hand(r)' = new
    BY <2>8 DEF Hand, Holding
  <2>10. \A k, p, n : Place(k, p) =>
            /\ p \in dto.photos => (InHand(r, k, p, n)' => n = names[p])
            /\ p \notin dto.photos => (InHand(r, k, p, n)' <=> InHand(r, k, p, n))
    BY <1>2, <2>4, <2>5, <2>9 DEF InHand, Place
  <2>11. HoldsOnly(r, dto.photos, names)
    BY <1>3, <2>5, <2>9, <2>10 DEF HoldsOnly
  <2>12. /\ PhotoEffect(r) /\ CalledFor(r, dto.photos) /\ UploadedAs(dto.photos, names)
    <3>1. "entity.reload" # "idle" /\ "entity.reload" \in Called \ {"ok"}
      BY DEF Called
    <3>2. dto.photos \in SUBSET Photo
      BY <1>2
    <3> QED BY <1>5, <2>1, <2>5, <2>7, <2>8, <2>11, <3>1, <3>2
  <2>13. HoldsYet(r, dto.photos)
    BY <1>2, <2>5, <2>8, <2>9, <2>10, <2>12 DEF HoldsYet, UploadedAs
  <2> QED BY <1>1, <2>8, <2>12, <2>13, CalledOwns
<1>7. CASE \E bad \in dto.photos :
             LET before == IF bad = "out" THEN dto.photos \cap {"in"} ELSE {}
             IN  \E names \in FreshNames(before) :
                   /\ Takes(r, rows, before \cup {bad})
                   /\ Upload(names)
                   /\ Reads(r, "error", NoMem)
  <2>1. PICK bad \in dto.photos :
             LET before == IF bad = "out" THEN dto.photos \cap {"in"} ELSE {}
             IN  \E names \in FreshNames(before) :
                   /\ Takes(r, rows, before \cup {bad})
                   /\ Upload(names)
                   /\ Reads(r, "error", NoMem)
    BY <1>7
  <2>2. PICK before : before = IF bad = "out" THEN dto.photos \cap {"in"} ELSE {}
    OBVIOUS
  <2>3. PICK names \in FreshNames(before) :
             /\ Takes(r, rows, before \cup {bad})
             /\ Upload(names)
             /\ Reads(r, "error", NoMem)
    BY <2>1, <2>2
  <2>4. before \in SUBSET Photo /\ before \cup {bad} \in SUBSET Photo
    BY <1>2, <2>2
  <2>5. step'[r] = "error"
    BY <2>3, GoneActs DEF Reads
  <2>6. Hand(r)' = <<>>
    BY <2>5 DEF Hand, Holding
  <2>7. HoldsOnly(r, before, names)
    BY <2>6 DEF HoldsOnly, InHand
  <2>8. PhotoEffect(r)
    <3>1. "error" # "idle" /\ "error" \in Called \ {"ok"} /\ "error" \notin Holding
      BY DEF Called, Ended, Holding
    <3> QED BY <1>5, <2>3, <2>4, <2>7, <3>1
  <2>9. Owns(r)'
    BY <2>5, <2>6 DEF Owns, Agrees, Keyed, Open, Ended, Calling
  <2> QED BY <2>8, <2>9
<1> QED BY <1>1, <1>6, <1>7 DEF EditAttendancePhotos

\* The look-ups at which a request begins.
LEMMA LookUpEffect ==
    ASSUME OverInv, PhotoInv, NEW r \in Request,
           \/ EditAttendance(r) \/ DeleteAttendances(r)
           \/ /\ \E t \in {"break", "wage"} : AddEntry(r, t) \/ EditEntry(r, t) \/ DeleteEntry(r, t)
              /\ UNCHANGED photoVars
    PROVE  PhotoEffect(r) /\ Owns(r)'
<1>1. HoldInv /\ ColumnInv(OperationsColumns)
  BY DEF OverInv, OpSaveInv, SaveInv, SharedInv
<1>2. ASSUME NEW s, NEW m, Begin(r, s, m)
      PROVE  mem'[r] = Memory(m) /\ step'[r] = s
  BY <1>1, <1>2, BeginSteps DEF StepsTo, HoldInv
<1>3. CASE EditAttendance(r)
  <2>1. PICK a \in Live("attendance"), c \in ClockOut \cup {Null}, photos \in SUBSET Photo :
          /\ Begin(r, "attendance.photos",
                [dto |-> [clockOut |-> c, photos |-> photos],
                 rows |-> Single(<<"attendance", a>>, Row("attendance", a))])
          /\ UNCHANGED <<db, hist, faults, photoVars>>
    BY <1>3 DEF EditAttendance
  <2>2. <<"attendance", a>> \in DOMAIN db /\ Row("attendance", a) = db[<<"attendance", a>>]
    BY <1>1, LiveKey
  <2>3. /\ mem'[r].rows = Single(<<"attendance", a>>, Row("attendance", a))
        /\ step'[r] = "attendance.photos"
    <3> DEFINE m == [dto |-> [clockOut |-> c, photos |-> photos],
                     rows |-> Single(<<"attendance", a>>, Row("attendance", a))]
    <3>1. Memory(m).rows = m.rows
      BY DEF Memory, NoMem
    <3>2. mem'[r] = Memory(m) /\ step'[r] = "attendance.photos"
      BY <1>2, <2>1
    <3> QED BY <3>1, <3>2
  <2>4. DOMAIN mem'[r].rows = {<<"attendance", a>>}
    BY <2>3 DEF Single
  <2>5. Keyed(r)'
    BY <2>3, <2>4 DEF Keyed
  <2>6. \A k \in DOMAIN mem'[r].rows : k \in DOMAIN db /\ mem'[r].rows[k] = db[k]
    BY <2>2, <2>3 DEF Single
  <2> QED BY <2>1, <2>5, <2>6, BegunEffect DEF Ended
<1>4. CASE DeleteAttendances(r)
  <2>1. PICK ids \in SUBSET Live("attendance") \ {{}} :
          /\ Begin(r, "attendance.unlink",
                [rows |-> [k \in {"attendance"} \X ids |-> db[k]]])
          /\ UNCHANGED <<db, hist, faults, photoVars>>
    BY <1>4 DEF DeleteAttendances
  <2>2. {"attendance"} \X ids \subseteq DOMAIN db
    BY <1>1, IdsKeys DEF Live
  <2>3. /\ mem'[r].rows = [k \in {"attendance"} \X ids |-> db[k]]
        /\ step'[r] = "attendance.unlink"
    <3> DEFINE m == [rows |-> [k \in {"attendance"} \X ids |-> db[k]]]
    <3>1. Memory(m).rows = m.rows
      BY DEF Memory, NoMem
    <3>2. mem'[r] = Memory(m) /\ step'[r] = "attendance.unlink"
      BY <1>2, <2>1
    <3> QED BY <3>1, <3>2
  <2>4. Keyed(r)'
    BY <2>3 DEF Keyed
  <2>5. \A k \in DOMAIN mem'[r].rows : k \in DOMAIN db /\ mem'[r].rows[k] = db[k]
    BY <2>2, <2>3
  <2> QED BY <2>1, <2>4, <2>5, BegunEffect DEF Ended
<1>5. ASSUME NEW t \in {"break", "wage"}, AddEntry(r, t), UNCHANGED photoVars
      PROVE  PhotoEffect(r) /\ Owns(r)'
  <2>1. PICK row : /\ Begin(r, "entry.insert", [rows |-> Single(<<t, r>>, row)])
                   /\ UNCHANGED <<db, hist>>
    BY <1>5 DEF AddEntry
  <2>2. mem'[r].rows = Single(<<t, r>>, row) /\ step'[r] = "entry.insert"
    <3> DEFINE m == [rows |-> Single(<<t, r>>, row)]
    <3>1. Memory(m).rows = m.rows
      BY DEF Memory, NoMem
    <3>2. mem'[r] = Memory(m) /\ step'[r] = "entry.insert"
      BY <1>2, <2>1
    <3> QED BY <3>1, <3>2
  <2>3. \A k \in DOMAIN mem'[r].rows : k[1] # "attendance"
    BY <2>2 DEF Single
  <2>4. Keyed(r)'
    BY <2>2, <2>3 DEF Keyed, Calling
  <2> QED BY <1>5, <2>1, <2>3, <2>4, BegunEffect DEF Ended
<1>6. ASSUME NEW t \in {"break", "wage"}, EditEntry(r, t), UNCHANGED photoVars
      PROVE  PhotoEffect(r) /\ Owns(r)'
  <2>1. PICK i, row, meant : /\ Begin(r, "entity.reload", Save(Single(<<t, i>>, row), meant))
                             /\ UNCHANGED <<db, hist>>
    BY <1>6 DEF EditEntry
  <2>2. mem'[r].rows = Single(<<t, i>>, row) /\ step'[r] = "entity.reload"
    <3> DEFINE m == Save(Single(<<t, i>>, row), meant)
    <3>1. Memory(m).rows = Single(<<t, i>>, row)
      BY DEF Memory, NoMem, Save
    <3>2. mem'[r] = Memory(m) /\ step'[r] = "entity.reload"
      BY <1>2, <2>1
    <3> QED BY <3>1, <3>2
  <2>3. \A k \in DOMAIN mem'[r].rows : k[1] # "attendance"
    BY <2>2 DEF Single
  <2>4. Keyed(r)'
    BY <2>2, <2>3 DEF Keyed, Calling
  <2> QED BY <1>6, <2>1, <2>3, <2>4, BegunEffect DEF Ended
<1>7. ASSUME NEW t \in {"break", "wage"}, DeleteEntry(r, t), UNCHANGED photoVars
      PROVE  PhotoEffect(r) /\ Owns(r)'
  <2>1. PICK i : /\ Begin(r, "entry.remove", [dto |-> <<t, i>>])
                 /\ UNCHANGED <<db, hist>>
    BY <1>7 DEF DeleteEntry
  <2>2. mem'[r].rows = <<>> /\ mem'[r].dto = <<t, i>> /\ step'[r] = "entry.remove"
    <3> DEFINE m == [dto |-> <<t, i>>]
    <3>1. Memory(m).rows = <<>> /\ Memory(m).dto = <<t, i>>
      BY DEF Memory, NoMem
    <3>2. mem'[r] = Memory(m) /\ step'[r] = "entry.remove"
      BY <1>2, <2>1
    <3> QED BY <3>1, <3>2
  <2>3. DOMAIN mem'[r].rows = {}
    BY <2>2
  <2>4. Keyed(r)'
    BY <2>2 DEF Keyed, Calling
  <2> QED BY <1>7, <2>1, <2>3, <2>4, BegunEffect DEF Ended
<1> QED BY <1>3, <1>4, <1>5, <1>6, <1>7

\* A step of a service of the staff.
LEMMA StaffEffect ==
    ASSUME OverInv, PhotoInv, NEW r \in Request, area = "attendance", Operation(r)
    PROVE  PhotoEffect(r) /\ Owns(r)'
<1>1. \A s : At(r, s) /\ s \notin {"idle"} \cup Ended => r \in Open
  BY DEF At, Open
<1>2. CASE AttendanceOperation(r)
  <2>1. AddAttendanceInsert(r) \/ EditAttendancePhotos(r)
        \/ DeleteAttendancesPhotos(r) \/ DeleteAttendancesRemove(r) => r \in Open
    BY <1>1 DEF AddAttendanceInsert, EditAttendancePhotos, DeleteAttendancesPhotos,
                DeleteAttendancesRemove, Ended
  <2> QED BY <1>2, <2>1, AddEffect, InsertEffect, LookUpEffect, EditPhotosEffect,
             DeletePhotosEffect, RemoveEffect
          DEF AttendanceOperation
<1>3. CASE EntryOperation(r) /\ UNCHANGED photoVars
  <2>1. CASE AddEntryInsert(r)
    <3>1. step[r] = "entry.insert" /\ r \in Open /\ InsertThen(r, mem[r].rows, "ok", NoMem)
      BY <1>1, <2>1 DEF AddEntryInsert, At, Ended
    <3>2. \A k \in DOMAIN mem[r].rows : k[1] # "attendance"
      BY <3>1 DEF PhotoInv, Owns, Keyed
    <3>3. step[r] \notin Called
      BY <3>1 DEF Called, Ended
    <3> QED BY <1>3, <3>1, <3>2, <3>3, EntriesEffect
  <2>2. CASE DeleteEntryRemove(r)
    <3> DEFINE keys == {mem[r].dto} \cap DOMAIN db
    <3>1. step[r] = "entry.remove" /\ r \in Open /\ RemoveThen(r, keys, "ok", NoMem)
      BY <1>1, <2>2 DEF DeleteEntryRemove, At, Ended
    <3>2. \A k \in keys : k[1] # "attendance"
      BY <3>1 DEF PhotoInv, Owns, Keyed
    <3>3. step[r] \notin Called /\ keys \in SUBSET DOMAIN db
      BY <3>1 DEF Called, Ended
    <3> HIDE DEF keys
    <3> QED BY <1>3, <3>1, <3>2, <3>3, EntriesEffect
  <2> QED BY <1>3, <2>1, <2>2, LookUpEffect DEF EntryOperation
<1>4. CASE (EntityReload(r) \/ EntityWrite(r) \/ Fails(r)) /\ UNCHANGED photoVars
  <2>1. r \in Open
    BY <1>1, <1>4 DEF EntityReload, EntityWrite, Fails, Open, Ended
  <2>2. Fails(r) => Goto(r, "error", NoMem) /\ UNCHANGED <<db, hist>>
    BY DEF Fails
  <2> QED BY <1>4, <2>1, <2>2, ReloadEffect, WriteEffect, ErrorEffect
<1> QED BY <1>2, <1>3, <1>4 DEF Operation

-----------------------------------------------------------------------------
(* Calls that end, the first state, and the theorems.                      *)

LEMMA UnlinkDoneKeeps ==
    ASSUME PhotoInv, UnlinkDone
    PROVE  PhotoInv'
<1>1. PICK u \in unlinks : /\ u.name \in files
                           /\ files' = files \ {u.name}
                           /\ unlinks' = unlinks \ {u}
                           /\ UNCHANGED <<tableVars, now, shared, taken, lost>>
  BY DEF UnlinkDone
<1>2. UNCHANGED <<db, step, mem, met, hist, now, shared, taken>>
  BY <1>1 DEF tableVars
<1>3. /\ \A r : Hand(r)' = Hand(r)
      /\ \A n : Takers(n)' = Takers(n) /\ (Once(n)' <=> Once(n))
      /\ Open' = Open
  BY <1>2 DEF Hand, Takers, Once, Open
<1>4. \A k, p, n : /\ InTable(k, p, n)' <=> InTable(k, p, n)
                   /\ \A r : InHand(r, k, p, n)' <=> InHand(r, k, p, n)
                   /\ InCall(k, p, n)' => InCall(k, p, n)
  BY <1>1, <1>2, <1>3 DEF InTable, InHand, InCall
<1>5. \A k, p, n : Named(k, p, n)' => Named(k, p, n)
  BY <1>4 DEF Named
<1>6. \A n, r : Explains(n, r)' <=> Explains(n, r)
  BY <1>2, <1>3 DEF Explains, Linked
<1>7. u.by \in Takers(u.name) /\ u.name # Null
  BY <1>1 DEF PhotoInv, CallInv
<1>8. NumberInv'
  <2>1. \A n : n \in files => n \in files' \/ Takers(n) # {}
    BY <1>1, <1>7
  <2> QED BY <1>2, <1>3, <1>5, <2>1 DEF PhotoInv, NumberInv
<1>9. CallInv' /\ PlaceInv' /\ BornInv'
  BY <1>1, <1>2, <1>3, <1>5 DEF PhotoInv, CallInv, PlaceInv, BornInv
<1>10. ASSUME NEW r \in Request
       PROVE  Owns(r)'
  <2>1. Owns(r) /\ (Keyed(r)' <=> Keyed(r))
    BY <1>2 DEF PhotoInv, Keyed
  <2>2. \A k, p : Found(r, k, p)' <=> Found(r, k, p)
    BY <1>2 DEF Found
  <2>3. \A n : Agrees(r, n) => Agrees(r, n)'
    BY <1>3, <1>4, <1>6, <2>2 DEF Agrees
  <2>4. \A n : Replaces(r, n) => Replaces(r, n)'
    BY <1>2, <1>3, <1>4, <1>5, <2>2 DEF Replaces
  <2> QED BY <1>2, <1>3, <1>4, <2>1, <2>3, <2>4 DEF Owns
<1>11. WriterInv' /\ TwiceInv'
  BY <1>2, <1>3, <1>4, <1>6 DEF PhotoInv, WriterInv, TwiceInv
<1>12. ASSUME NEW v \in unlinks', Once(v.name), v.name \notin files'
       PROVE  \E t \in Takers(v.name) : t # v.by
  <2>1. v \in unlinks /\ v # u
    BY <1>1
  <2>2. CASE v.name \notin files
    BY <1>12, <2>1, <2>2 DEF PhotoInv, OtherInv
  <2>3. CASE v.name = u.name
    <3>1. CASE v.by # u.by
      BY <1>7, <2>3, <3>1
    <3>2. CASE v.by = u.by
      <4>1. v.of # u.of
        BY <1>1, <2>1, <2>3, <3>2 DEF PhotoInv, CallInv
      <4>2. PICK k, p : Place(k, p) /\ v.of = <<k, p>>
        BY <2>1 DEF PhotoInv, CallInv
      <4>3. PICK j, q : Place(j, q) /\ u.of = <<j, q>>
        BY <1>1 DEF PhotoInv, CallInv
      <4>4. Named(k, p, v.name) /\ Named(j, q, v.name)
        BY <1>1, <2>1, <2>3, <4>2, <4>3 DEF Named, InCall
      <4>5. k = j /\ p = q
        BY <1>12, <4>2, <4>3, <4>4 DEF PhotoInv, PlaceInv
      <4> QED BY <4>1, <4>2, <4>3, <4>5
    <3> QED BY <3>1, <3>2
  <2> QED BY <1>1, <1>12, <2>2, <2>3
<1>13. OtherInv'
  BY <1>3, <1>12 DEF OtherInv
<1> QED BY <1>8, <1>9, <1>10, <1>11, <1>13 DEF PhotoInv

LEMMA UnlinkFailsKeeps ==
    ASSUME HoldInv, PhotoInv, EndsInv, UnlinkFails
    PROVE  PhotoInv' /\ EndsInv'
<1>1. PICK u \in unlinks :
        /\ u.name \notin files
        /\ lost' = lost \cup {[call |-> u, failed |-> {r \in Request : step[r] = "error"}]}
        /\ unlinks' = {}
        /\ step' = [r \in Request |-> IF r \in Open THEN "error" ELSE step[r]]
        /\ mem' = [r \in Request |-> NoMem]
        /\ UNCHANGED <<db, hist, faults, met, files, now, shared, taken>>
  BY DEF UnlinkFails
<1>2. /\ \A r \in Request : /\ step'[r] \in Ended \cup {"idle"}
                            /\ step[r] \in Ended => step'[r] = step[r]
                            /\ r \in Open => step'[r] = "error"
      /\ Open' = {}
  BY <1>1 DEF Open, Ended
<1>3. /\ \A r \in Request : Hand(r)' = <<>>
      /\ \A n : Takers(n)' = Takers(n) /\ (Once(n)' <=> Once(n)) /\ Takers(n) \subseteq Request
  BY <1>1, <1>2 DEF Hand, Takers, Once, Holding, Ended
<1>4. \A k, p, n : /\ InTable(k, p, n)' <=> InTable(k, p, n)
                   /\ Named(k, p, n)' => Named(k, p, n)
  BY <1>1, <1>3 DEF InTable, InHand, InCall, Named
<1>5. \A n, r : Explains(n, r) => Explains(n, r)'
  BY <1>1, <1>2, <1>3 DEF Explains, Linked, Ended
<1>6. NumberInv' /\ PlaceInv'
  BY <1>1, <1>3, <1>4 DEF PhotoInv, NumberInv, PlaceInv
<1>7. CallInv'
  BY <1>1, <1>2, <1>3 DEF PhotoInv, CallInv, Called, Open, Ended
<1>8. BornInv'
  <2> SUFFICES ASSUME NEW j \in Request, step'[j] \notin Ended
               PROVE  /\ BornKey(j) \notin DOMAIN db'
                      /\ \A q \in Request :
                            step'[q] \in Holding => BornKey(j) \notin DOMAIN mem'[q].rows
    BY Zenon DEF BornInv, BornKey, Ended, Holding
  <2>1. step[j] \notin Ended
    BY <1>2
  <2>2. BornKey(j) \notin DOMAIN db'
    BY <1>1, <2>1 DEF PhotoInv, BornInv
  <2>3. \A q \in Request : step'[q] \notin Holding
    BY <1>2 DEF Holding, Ended
  <2> QED BY <2>2, <2>3
<1>9. \A r \in Request : Owns(r)'
  BY <1>2, <1>3 DEF Owns, Agrees, Keyed, Calling, Ended
<1>10. WriterInv'
  <2> SUFFICES ASSUME NEW n, Once(n), Takers(n) # {}, NEW k, NEW p, Place(k, p), InTable(k, p, n)
               PROVE  Explains(n, hist[k][p].writer)'
    BY <1>1, <1>3, <1>4 DEF WriterInv, Place
  <2>1. CASE Explains(n, hist[k][p].writer)
    <3>1. PICK w : w = hist[k][p].writer
      OBVIOUS
    <3>2. Explains(n, w)' /\ w = hist'[k][p].writer
      BY <1>1, <1>5, <2>1, <3>1
    <3> QED BY <3>2 DEF Explains, Linked
  <2>2. CASE Takers(n) \cap Open # {}
    BY <1>2, <1>3, <2>2 DEF Explains, Open
  <2> QED BY <2>1, <2>2 DEF PhotoInv, WriterInv
<1>11. TwiceInv'
  BY <1>1, <1>2, <1>3 DEF PhotoInv, TwiceInv, Ended
<1>12. OtherInv'
  BY <1>1 DEF OtherInv
<1>13. ASSUME u.name \notin shared
       PROVE  \E t \in Takers(u.name) :
                 /\ t # u.by /\ u.by \in Request
                 /\ \E q \in {t, u.by} : step[q] = "error" \/ met[q] # {}
  <2>1. u.by \in Takers(u.name) /\ Once(u.name) /\ u.by \in Request
    BY <1>3, <1>13 DEF PhotoInv, CallInv, NumberInv, Once
  <2>2. PICK t \in Takers(u.name) : t # u.by
    BY <1>1, <2>1 DEF PhotoInv, OtherInv
  <2>3. PICK b \in Takers(u.name) : step[b] = "error" \/ met[b] # {}
    BY <2>1, <2>2 DEF PhotoInv, TwiceInv
  <2> QED BY <2>1, <2>2, <2>3
<1>14. EndsInv'
  <2> SUFFICES ASSUME NEW l \in lost', l.call.name \notin shared
               PROVE  \E t \in Takers(l.call.name) :
                         /\ t # l.call.by /\ l.call.by \in Request
                         /\ \E q \in {t, l.call.by} : q \in l.failed \/ met[q] # {}
    BY <1>1, <1>3 DEF EndsInv
  <2>1. CASE l \in lost
    BY <2>1 DEF EndsInv
  <2>2. CASE l = [call |-> u, failed |-> {r \in Request : step[r] = "error"}]
    <3>1. l.call = u /\ \A q \in Request : step[q] = "error" => q \in l.failed
      BY <2>2
    <3> QED BY <1>3, <1>13, <3>1
  <2> QED BY <1>1, <2>1, <2>2
<1> QED BY <1>6, <1>7, <1>8, <1>9, <1>10, <1>11, <1>12, <1>14 DEF PhotoInv

LEMMA SamePhotos ==
    ASSUME UNCHANGED <<tableVars, photoVars>>, PhotoInv, EndsInv
    PROVE  PhotoInv' /\ EndsInv'
<1>1. UNCHANGED <<db, step, mem, met, hist, files, now, unlinks, shared, taken, lost>>
  BY DEF tableVars, photoVars
<1>2. /\ \A r : Hand(r)' = Hand(r)
      /\ \A n : Takers(n)' = Takers(n) /\ (Once(n)' <=> Once(n))
      /\ Open' = Open
  BY <1>1 DEF Hand, Takers, Once, Open
<1>3. \A k, p, n : /\ InTable(k, p, n)' <=> InTable(k, p, n)
                   /\ \A r : InHand(r, k, p, n)' <=> InHand(r, k, p, n)
                   /\ Named(k, p, n)' <=> Named(k, p, n)
  BY <1>1, <1>2 DEF InTable, InHand, InCall, Named
<1>4. \A n, r : Explains(n, r)' <=> Explains(n, r)
  BY <1>1, <1>2 DEF Explains, Linked
<1>5. NumberInv' /\ CallInv' /\ PlaceInv' /\ BornInv' /\ WriterInv' /\ TwiceInv' /\ OtherInv'
  BY <1>1, <1>2, <1>3, <1>4
     DEF PhotoInv, NumberInv, CallInv, PlaceInv, BornInv, WriterInv, TwiceInv, OtherInv
<1>6. ASSUME NEW r \in Request
      PROVE  Owns(r)'
  <2>1. Owns(r) /\ (Keyed(r)' <=> Keyed(r)) /\ \A k, p : Found(r, k, p)' <=> Found(r, k, p)
    BY <1>1 DEF PhotoInv, Keyed, Found
  <2>2. \A n : (Agrees(r, n) => Agrees(r, n)') /\ (Replaces(r, n) => Replaces(r, n)')
    BY <1>1, <1>2, <1>3, <1>4, <2>1 DEF Agrees, Replaces
  <2> QED BY <1>1, <1>2, <1>3, <2>1, <2>2 DEF Owns
<1>7. EndsInv'
  BY <1>1, <1>2 DEF EndsInv
<1> QED BY <1>5, <1>6, <1>7 DEF PhotoInv

LEMMA UnlinkDoneEnds ==
    ASSUME EndsInv, UnlinkDone
    PROVE  EndsInv'
<1>1. UNCHANGED <<met, shared, taken, lost>>
  BY DEF UnlinkDone, tableVars
<1> QED BY <1>1 DEF EndsInv, Takers

LEMMA PhotoInit ==
    ASSUME Init, area = "attendance"
    PROVE  PhotoInv /\ EndsInv
<1>1. /\ area \in Area /\ db = Rows[area] /\ files = Photos[area]
      /\ now = Cardinality(Photos[area])
      /\ unlinks = {} /\ shared = {} /\ taken = {} /\ lost = {}
      /\ step = [r \in Request |-> "idle"]
  BY DEF Init, TablesInit, AttendanceInit
<1>2. now \in Nat /\ files = 1..now
  BY <1>1, PhotosAssumption, FS_CardinalityType
<1>3. /\ \A r \in Request : step[r] = "idle" /\ Hand(r) = <<>>
      /\ \A n : Takers(n) = {}
  BY <1>1 DEF Hand, Takers, Holding
<1>4. \A k, p, n : Named(k, p, n) => InTable(k, p, n)
  BY <1>1, <1>3 DEF Named, InHand, InCall
<1>5. \A k \in DOMAIN db : k[1] = "attendance" =>
         k[2] \notin Request /\ \A p \in Photo : db[k][p] \in {Null} \cup files
  BY <1>1, PhotosAssumption
<1>6. NumberInv
  BY <1>2, <1>3, <1>4, <1>5 DEF NumberInv, Place, InTable
<1>7. CallInv
  BY <1>1, <1>3 DEF CallInv
<1>8. PlaceInv
  <2> SUFFICES ASSUME NEW n, Once(n), NEW j, NEW k, NEW p, NEW q, Place(j, p), Place(k, q),
                      Named(j, p, n), Named(k, q, n)
               PROVE  j = k /\ p = q
    BY DEF PlaceInv
  <2>1. /\ j \in DOMAIN db /\ j[1] = "attendance" /\ p \in Photo /\ db[j][p] = n
        /\ k \in DOMAIN db /\ k[1] = "attendance" /\ q \in Photo /\ db[k][q] = n
    BY <1>4 DEF Place, InTable
  <2>2. n # Null
    BY BoundAssumption DEF Once
  <2> QED BY <1>1, <2>1, <2>2, PhotosAssumption
<1>9. BornInv
  <2>1. ASSUME NEW j \in Request
        PROVE  BornKey(j) \notin DOMAIN db
    BY <1>5 DEF BornKey
  <2> QED BY <1>3, <2>1 DEF BornInv, Holding
<1>10. \A r \in Request : Owns(r)
  BY <1>3 DEF Owns, Keyed, Calling
<1>11. WriterInv /\ TwiceInv /\ OtherInv /\ EndsInv
  BY <1>1, <1>3 DEF WriterInv, TwiceInv, OtherInv, EndsInv
<1> QED BY <1>6, <1>7, <1>8, <1>9, <1>10, <1>11 DEF PhotoInv

\* Nobody else has photos.
PhotoIInv ==
    /\ OverInv
    /\ WithinInv(OperationsTables[area])
    /\ area = "attendance" => PhotoInv /\ EndsInv
    /\ area # "attendance" => unlinks = {} /\ lost = {}

LEMMA PhotoNext == PhotoIInv /\ [Next]_vars => PhotoIInv'
<1> SUFFICES ASSUME PhotoIInv, [Next]_vars
             PROVE  PhotoIInv'
  OBVIOUS
<1>1. OverInv' /\ area' = area /\ area \in Area
  BY OverInductive DEF PhotoIInv, OverInv, Next, vars
<1>2. WithinInv(OperationsTables[area])'
  <2>1. PICK T : T = OperationsTables[area]
    OBVIOUS
  <2>2. WithinInv(T)'
    BY <1>1, <2>1, WithinNext DEF PhotoIInv
  <2> QED BY <1>1, <2>1, <2>2
<1>3. /\ \/ UNCHANGED <<tableVars, photoVars>>
         \/ \E r \in Among[area] : Operation(r)
         \/ UnlinkDone
         \/ UnlinkFails
  BY DEF Next, Finished, vars
<1>4. ASSUME area = "attendance"
      PROVE  PhotoInv' /\ EndsInv'
  <2>1. PhotoInv /\ EndsInv /\ OverInv
    BY <1>4 DEF PhotoIInv
  <2>2. CASE UNCHANGED <<tableVars, photoVars>>
    BY <2>1, <2>2, SamePhotos
  <2>3. CASE \E r \in Among[area] : Operation(r)
    <3>1. PICK r \in Request : Operation(r)
      BY <1>1, <2>3, RequestAssumption
    <3>2. PhotoEffect(r) /\ Owns(r)'
      BY <1>4, <2>1, <3>1, StaffEffect
    <3> QED BY <2>1, <3>2, PhotoStep, EndsStep
  <2>4. CASE UnlinkDone
    BY <2>1, <2>4, UnlinkDoneKeeps, UnlinkDoneEnds
  <2>5. CASE UnlinkFails
    <3>1. HoldInv
      BY <2>1 DEF OverInv, OpSaveInv, SaveInv, SharedInv
    <3> QED BY <2>1, <2>5, <3>1, UnlinkFailsKeeps
  <2> QED BY <1>3, <2>2, <2>3, <2>4, <2>5
<1>5. ASSUME area # "attendance"
      PROVE  unlinks' = {} /\ lost' = {}
  <2>1. unlinks = {} /\ lost = {}
    BY <1>5 DEF PhotoIInv
  <2>2. UNCHANGED photoVars
    BY <1>3, <1>5, <2>1 DEF Operation, UnlinkDone, UnlinkFails
  <2> QED BY <2>1, <2>2 DEF photoVars
<1> QED BY <1>1, <1>2, <1>4, <1>5 DEF PhotoIInv

LEMMA PhotoInitially == Init => PhotoIInv
<1> SUFFICES ASSUME Init
             PROVE  PhotoIInv
  OBVIOUS
<1>1. unlinks = {} /\ lost = {}
  BY DEF Init, AttendanceInit
<1> QED BY <1>1, OverInitially, WithinInit, PhotoInit DEF PhotoIInv

\* An attendance names a photo that is gone only where an upload had its name
\* twice, or a request that unlinked it is still to change the row or failed,
\* or one that a chain of overlaps joins to such a request put the name back:
\* whatever the attendances, however many requests edit and delete them, and
\* whenever the process ends under them.
THEOREM PhotosKept == Spec => []PhotoLostExplained
<1>1. ASSUME PhotoIInv, area = "attendance"
      PROVE  PhotoLostExplained
  <2>1. PhotoInv /\ ColumnInv(OperationsColumns)
    BY <1>1 DEF PhotoIInv, OverInv, OpSaveInv, SaveInv, SharedInv
  <2> QED BY <2>1, LostExplained
<1>2. ASSUME PhotoIInv, area # "attendance"
      PROVE  PhotoLostExplained
  <2>1. "attendance" \notin OperationsTables[area]
    BY <1>2, AreaAssumption DEF PhotoIInv, OverInv, OperationsTables
  <2> QED BY <1>2, <2>1 DEF PhotoIInv, WithinInv, Within, PhotoLostExplained, Live, Ids
<1>3. PhotoIInv => PhotoLostExplained
  BY <1>1, <1>2
<1> QED BY <1>3, PhotoInitially, PhotoNext, PTL DEF Spec

\* The rejection of an unlink call ends the process only where two uploads
\* had taken the photo's name, or another request had gone for the photo too
\* and one of the two had failed or overlapped some request.
THEOREM ProcessEnds == Spec => []ProcessEndsExplained
<1>1. PhotoIInv => ProcessEndsExplained
  <2>1. ASSUME PhotoIInv, area = "attendance"
        PROVE  ProcessEndsExplained
    BY <2>1, EndsExplained DEF PhotoIInv
  <2>2. ASSUME PhotoIInv, area # "attendance"
        PROVE  ProcessEndsExplained
    BY <2>2 DEF PhotoIInv, ProcessEndsExplained
  <2> QED BY <2>1, <2>2
<1> QED BY <1>1, PhotoInitially, PhotoNext, PTL DEF Spec

-----------------------------------------------------------------------------
(* Types.                                                                  *)

\* A row of the tables, or one that is to be saved: the columns it lacks
\* would be NULL.
RowTyped(k, row) ==
    /\ k[1] \in DOMAIN OperationsColumns
    /\ \A c \in OperationsColumns[k[1]] : ColumnTyped(k, c, ColumnOf(row, c))
RowsTyped(rows) == \A k \in DOMAIN rows : RowTyped(k, rows[k])

\* What a request holds at step s.
HeldTyped(r, s, dto, rows) ==
    /\ RowsTyped(rows)
    /\ s \in {"purchase.insert", "stock.insert"} => dto.quantity \in Quantity
    /\ s = "purchase.check" => RowTyped(<<"purchase", dto.id>>, dto.row)
    /\ s = "attendance.insert" => RowTyped(<<"attendance", r>>, dto)

TypesInv ==
    /\ ReferencesInv /\ AtRestInv
    /\ RowsTyped(db)
    /\ \A r \in Request : HeldTyped(r, step[r], mem[r].dto, mem[r].rows)

\* Photos are named after milliseconds that have passed.
FilesInv ==
    /\ now \in 0..LastMillisecond
    /\ files \subseteq 0..now /\ shared \subseteq 0..now
    /\ \A u \in unlinks \cup {l.call : l \in lost} : [by |-> u.by, name |-> u.name] \in taken

LEMMA OpShared == OverInv => HoldInv /\ MetInv /\ ColumnInv(OperationsColumns)
BY DEF OverInv, OpSaveInv, SaveInv, SharedInv

LEMMA NoRowsTyped == RowsTyped(<<>>)
BY DEF RowsTyped

LEMMA AssignedTyped ==
    ASSUME NEW k, NEW row, RowTyped(k, row), NEW values,
           \A c \in DOMAIN values : ColumnTyped(k, c, values[c])
    PROVE  RowTyped(k, Assigned(row, values))
<1> SUFFICES ASSUME NEW c \in OperationsColumns[k[1]]
             PROVE  ColumnTyped(k, c, ColumnOf(Assigned(row, values), c))
  BY DEF RowTyped
<1>1. ColumnOf(Assigned(row, values), c) = IF c \in DOMAIN values THEN values[c] ELSE ColumnOf(row, c)
  BY ColumnOver DEF Assigned
<1> QED BY <1>1 DEF RowTyped

LEMMA OneTyped ==
    ASSUME NEW k, NEW row, RowTyped(k, row)
    PROVE  RowsTyped(Single(k, row))
BY DEF RowsTyped, Single

\* A row found in the tables.
LEMMA FoundTyped ==
    ASSUME OverInv, TypesInv, NEW t, NEW i \in Ids(t)
    PROVE  /\ <<t, i>> \in DOMAIN db /\ Row(t, i) = db[<<t, i>>]
           /\ RowTyped(<<t, i>>, Row(t, i))
<1>1. {t} \X {i} \subseteq DOMAIN db
  BY OpShared, IdsKeys
<1>2. <<t, i>> \in DOMAIN db
  BY <1>1
<1> QED BY <1>2 DEF TypesInv, RowsTyped, Row

\* The fields of what a request holds at its next step.
LEMMA MemoryFields ==
    ASSUME NEW m
    PROVE  /\ Memory(m).dto = IF "dto" \in DOMAIN m THEN m.dto ELSE Null
           /\ Memory(m).rows = IF "rows" \in DOMAIN m THEN m.rows ELSE <<>>
BY DEF Memory, NoMem

LEMMA OverFields ==
    ASSUME HoldInv, NEW r \in Request, NEW m
    PROVE  /\ Over(m, mem[r]).dto = IF "dto" \in DOMAIN m THEN m.dto ELSE mem[r].dto
           /\ Over(m, mem[r]).rows = IF "rows" \in DOMAIN m THEN m.rows ELSE mem[r].rows
BY DEF Over, HoldInv, NoMem

LEMMA OverNothing ==
    ASSUME HoldInv, NEW r \in Request
    PROVE  Over(<<>>, mem[r]).dto = mem[r].dto /\ Over(<<>>, mem[r]).rows = mem[r].rows
BY DEF Over, HoldInv, NoMem

\* At the end it holds nothing.
LEMMA EndTyped ==
    ASSUME NEW r, NEW s \in Ended
    PROVE  HeldTyped(r, s, NoMem.dto, NoMem.rows)
BY NoRowsTyped DEF HeldTyped, NoMem, Ended

-----------------------------------------------------------------------------
(* A step of a request, by what it does to the tables.                     *)

LEMMA TypesStep ==
    ASSUME TypesInv, OverInv, OverInv', NEW r \in Request, NEW s, StepsTo(r, s),
           NEW rows, RowsTyped(rows), Puts(OperationsColumns, rows), ReferencesInv', AtRestInv',
           HeldTyped(r, s, mem'[r].dto, mem'[r].rows)
    PROVE  TypesInv'
<1>0. ColumnInv(OperationsColumns)'
  BY OpShared, PTL
<1>1. ASSUME NEW k \in DOMAIN db'
      PROVE  RowTyped(k, db'[k])
  <2>1. k[1] \in DOMAIN OperationsColumns
    BY DEF Puts, TypesInv, RowsTyped, RowTyped
  <2>2. ASSUME NEW c \in OperationsColumns[k[1]]
        PROVE  ColumnTyped(k, c, ColumnOf(db'[k], c))
    <3>1. DOMAIN db'[k] = OperationsColumns[k[1]]
      BY <1>0 DEF ColumnInv, Schema
    <3>2. ColumnOf(db'[k], c) = db'[k][c]
      BY <3>1 DEF ColumnOf
    <3>3. CASE k \in DOMAIN db /\ db'[k][c] = db[k][c]
      <4>1. DOMAIN db[k] = OperationsColumns[k[1]]
        BY <3>3, OpShared DEF ColumnInv, Schema
      <4>2. ColumnTyped(k, c, ColumnOf(db[k], c)) /\ ColumnOf(db[k], c) = db[k][c]
        BY <3>3, <4>1 DEF TypesInv, RowsTyped, RowTyped, ColumnOf
      <4> QED BY <3>2, <3>3, <4>2
    <3>4. CASE k \in DOMAIN rows /\ db'[k][c] = ColumnOf(rows[k], c)
      BY <3>2, <3>4 DEF RowsTyped, RowTyped
    <3> QED BY <3>3, <3>4 DEF Puts
  <2> QED BY <2>1, <2>2 DEF RowTyped
<1>2. ASSUME NEW q \in Request
      PROVE  HeldTyped(q, step'[q], mem'[q].dto, mem'[q].rows)
  <2>1. HoldInv
    BY OpShared
  <2>2. q = r => step'[q] = s
    BY <2>1 DEF StepsTo, HoldInv
  <2>3. q # r => step'[q] = step[q] /\ mem'[q] = mem[q]
    BY <2>1 DEF StepsTo, HoldInv
  <2> QED BY <2>2, <2>3 DEF TypesInv
<1>3. RowsTyped(db')
  BY <1>1 DEF RowsTyped
<1> QED BY <1>2, <1>3 DEF TypesInv

LEMMA TypesBegun ==
    ASSUME TypesInv, OverInv, OverInv', NEW r \in Request, NEW s, NEW m, Begin(r, s, m),
           s # "idle", s \in Ended => m = NoMem,
           HeldTyped(r, s, Memory(m).dto, Memory(m).rows),
           NEW rows, RowsTyped(rows), Puts(OperationsColumns, rows), ReferencesInv', UNCHANGED faults
    PROVE  TypesInv'
<1>1. HoldInv
  BY OpShared
<1>2. StepsTo(r, s) /\ mem'[r] = Memory(m)
  BY <1>1, BeginSteps
<1>3. Memory(NoMem) = NoMem
  BY DEF Memory, NoMem
<1>4. AtRestInv'
  BY <1>1, <1>2, <1>3, RestStays DEF TypesInv, AtRestInv
<1> QED BY <1>2, <1>4, TypesStep

LEMMA TypesBegunReading ==
    ASSUME TypesInv, OverInv, OverInv', NEW r \in Request, NEW s, NEW m, Begin(r, s, m),
           UNCHANGED <<db, hist, faults>>,
           s # "idle", s \in Ended => m = NoMem,
           HeldTyped(r, s, Memory(m).dto, Memory(m).rows)
    PROVE  TypesInv'
<1>1. ReferencesInv' /\ Puts(OperationsColumns, db) /\ RowsTyped(db)
  BY ReadsPut DEF TypesInv
<1> QED BY <1>1, TypesBegun

LEMMA TypesGone ==
    ASSUME TypesInv, OverInv, OverInv', NEW r \in Open, NEW s, NEW m, Goto(r, s, m), s # "idle",
           s \notin Ended => HeldTyped(r, s, Over(m, mem[r]).dto, Over(m, mem[r]).rows),
           NEW rows, RowsTyped(rows), Puts(OperationsColumns, rows), ReferencesInv',
           faults' \in 0..MaxFaults
    PROVE  TypesInv'
<1>1. HoldInv /\ r \in Request
  BY OpShared DEF Open
<1>2. StepsTo(r, s) /\ mem'[r] = IF s \in Ended THEN NoMem ELSE Over(m, mem[r])
  BY <1>1, GotoSteps
<1>3. AtRestInv'
  BY <1>1, <1>2, RestStays DEF TypesInv
<1>4. HeldTyped(r, s, mem'[r].dto, mem'[r].rows)
  BY <1>2, EndTyped
<1> QED BY <1>1, <1>2, <1>3, <1>4, TypesStep

LEMMA TypesReading ==
    ASSUME TypesInv, OverInv, OverInv', NEW r \in Open, NEW s, NEW m, Reads(r, s, m), s # "idle",
           s \notin Ended => HeldTyped(r, s, Over(m, mem[r]).dto, Over(m, mem[r]).rows)
    PROVE  TypesInv'
<1>1. Goto(r, s, m) /\ UNCHANGED <<db, faults>>
  BY DEF Reads
<1>2. /\ ReferencesInv' /\ Puts(OperationsColumns, db) /\ RowsTyped(db)
      /\ faults' \in 0..MaxFaults
  BY <1>1, ReadsPut DEF TypesInv, AtRestInv
<1> QED BY <1>1, <1>2, TypesGone

LEMMA TypesRefused ==
    ASSUME TypesInv, OverInv, OverInv', NEW r \in Open, Reads(r, "error", NoMem)
    PROVE  TypesInv'
BY TypesReading DEF Ended

LEMMA TypesInserting ==
    ASSUME TypesInv, OverInv, OverInv', NEW r \in Open, NEW rows, NEW s, NEW m,
           InsertThen(r, rows, s, m), s # "idle", RowsTyped(rows),
           s \notin Ended => HeldTyped(r, s, Over(m, mem[r]).dto, Over(m, mem[r]).rows)
    PROVE  TypesInv'
<1>1. CASE Inserts(r, rows) /\ Goto(r, s, m)
  <2>1. ColumnInv(OperationsColumns)'
    BY OpShared, PTL
  <2>2. ReferencesInv' /\ Puts(OperationsColumns, rows) /\ UNCHANGED faults
    BY <1>1, <2>1, InsertsPut DEF TypesInv
  <2> QED BY <1>1, <2>2, TypesGone DEF TypesInv, AtRestInv
<1>2. CASE Reads(r, "error", NoMem)
  BY <1>2, TypesRefused
<1> QED BY <1>1, <1>2 DEF InsertThen

LEMMA TypesRemoving ==
    ASSUME TypesInv, OverInv, OverInv', NEW r \in Open, NEW keys, Removes(r, keys),
           NEW s, NEW m, Goto(r, s, m), s # "idle",
           s \notin Ended => HeldTyped(r, s, Over(m, mem[r]).dto, Over(m, mem[r]).rows)
    PROVE  TypesInv'
<1>1. /\ ReferencesInv' /\ Puts(OperationsColumns, db) /\ RowsTyped(db)
      /\ faults' \in 0..MaxFaults
  BY RemovesPut DEF TypesInv, AtRestInv
<1> QED BY <1>1, TypesGone

LEMMA TypesBegunRemoving ==
    ASSUME TypesInv, OverInv, OverInv', NEW r \in Request, NEW s, NEW m, Begin(r, s, m),
           NEW keys, Removes(r, keys), s # "idle", s \in Ended => m = NoMem,
           HeldTyped(r, s, Memory(m).dto, Memory(m).rows)
    PROVE  TypesInv'
<1>1. /\ ReferencesInv' /\ Puts(OperationsColumns, db) /\ RowsTyped(db) /\ UNCHANGED faults
  BY RemovesPut DEF TypesInv
<1> QED BY <1>1, TypesBegun

LEMMA TypesWriting ==
    ASSUME TypesInv, OverInv, OverInv', NEW r \in Open, step[r] \in Writing, NEW s, NEW m,
           Write(r, s, m), s # "idle",
           s \notin Ended => HeldTyped(r, s, Over(m, mem[r]).dto, Over(m, mem[r]).rows)
    PROVE  TypesInv'
<1>1. r \in Request
  BY DEF Open
<1>2. Compared(OperationsColumns, r) /\ ColumnInv(OperationsColumns)
  BY <1>1, OpShared DEF OverInv, OpSaveInv, SaveInv, Keeps
<1>3. PICK rows : rows = mem[r].rows
  OBVIOUS
<1>4. ReferencesInv' /\ Puts(OperationsColumns, rows) /\ UNCHANGED faults
  BY <1>1, <1>2, <1>3, OpForeign, WritesPut DEF TypesInv
<1>5. RowsTyped(rows) /\ faults' \in 0..MaxFaults
  BY <1>1, <1>3, <1>4 DEF TypesInv, HeldTyped, AtRestInv
<1>6. CASE Goto(r, s, m)
  BY <1>4, <1>5, <1>6, TypesGone
<1>7. CASE Goto(r, "error", NoMem)
  BY <1>4, <1>5, <1>7, TypesGone DEF Ended
<1> QED BY <1>6, <1>7 DEF Write, Reads

\* A request under way that goes on, and one that only compares what it holds.
LEMMA OnItsWay ==
    ASSUME OverInv, TypesInv, NEW r \in Request
    PROVE  /\ HoldInv /\ \A s : At(r, s) /\ s \notin {"idle"} \cup Ended => r \in Open /\ step[r] = s
           /\ HeldTyped(r, step[r], mem[r].dto, mem[r].rows) /\ RowsTyped(mem[r].rows)
BY OpShared DEF At, Open, TypesInv, HeldTyped

\* It begins with one row to save.
LEMMA TypesSaving ==
    ASSUME TypesInv, OverInv, OverInv', NEW r \in Request, NEW k, NEW row, RowTyped(k, row),
           NEW meant, Begin(r, "entity.reload", Save(Single(k, row), meant)),
           UNCHANGED <<db, hist, faults>>
    PROVE  TypesInv'
<1> DEFINE m == Save(Single(k, row), meant)
<1>1. Begin(r, "entity.reload", m) /\ DOMAIN m = {"rows", "meant"} /\ m.rows = Single(k, row)
  BY DEF Save
<1> HIDE DEF m
<1>2. HeldTyped(r, "entity.reload", Memory(m).dto, Memory(m).rows)
  BY <1>1, MemoryFields, OneTyped DEF HeldTyped
<1> QED BY <1>1, <1>2, TypesBegunReading DEF Ended

\* It goes on with rows to save.
LEMMA TypesGoneSaving ==
    ASSUME TypesInv, OverInv, OverInv', NEW r \in Open, NEW rows, RowsTyped(rows), NEW meant,
           Reads(r, "entity.reload", Save(rows, meant))
    PROVE  TypesInv'
<1>1. HoldInv /\ r \in Request
  BY OpShared DEF Open
<1> DEFINE m == Save(rows, meant)
<1>2. Reads(r, "entity.reload", m) /\ DOMAIN m = {"rows", "meant"} /\ m.rows = rows
  BY DEF Save
<1> HIDE DEF m
<1>3. HeldTyped(r, "entity.reload", Over(m, mem[r]).dto, Over(m, mem[r]).rows)
  BY <1>1, <1>2, OverFields DEF HeldTyped
<1> QED BY <1>2, <1>3, TypesReading DEF Ended

\* It begins and ends with one row inserted.
LEMMA TypesBegunInserting ==
    ASSUME TypesInv, OverInv, OverInv', NEW r \in Request, Begin(r, "ok", NoMem),
           NEW k, NEW row, RowTyped(k, row), Inserts(r, Single(k, row))
    PROVE  TypesInv'
<1>1. PICK rows : rows = Single(k, row)
  OBVIOUS
<1>2. RowsTyped(rows) /\ Inserts(r, rows)
  BY <1>1, OneTyped
<1>3. ColumnInv(OperationsColumns)'
  BY OpShared, PTL
<1>4. ReferencesInv' /\ Puts(OperationsColumns, rows) /\ UNCHANGED faults
  BY <1>2, <1>3, InsertsPut DEF TypesInv
<1>5. HeldTyped(r, "ok", Memory(NoMem).dto, Memory(NoMem).rows)
  BY EndTyped, MemoryFields DEF Ended, NoMem
<1> QED BY <1>2, <1>4, <1>5, TypesBegun

\* It ends with rows removed, or refused.
LEMMA TypesRemovedThen ==
    ASSUME TypesInv, OverInv, OverInv', NEW r \in Open, NEW keys, RemoveThen(r, keys, "ok", NoMem)
    PROVE  TypesInv'
BY TypesRemoving, TypesRefused DEF RemoveThen, Ended

-----------------------------------------------------------------------------
(* Stock.                                                                  *)

LEMMA InventoryTypes ==
    ASSUME TypesInv, OverInv, OverInv', NEW r \in Request, InventoryOperation(r)
    PROVE  TypesInv'
<1>1. /\ HoldInv /\ \A s : At(r, s) /\ s \notin {"idle"} \cup Ended => r \in Open /\ step[r] = s
      /\ HeldTyped(r, step[r], mem[r].dto, mem[r].rows) /\ RowsTyped(mem[r].rows)
  BY OnItsWay
<1>2. CASE CreateInventoryItem(r)
  <2>1. PICK title \in ItemTitle :
          Begin(r, "ok", NoMem) /\ Inserts(r, Single(<<"item", r>>, ItemRow(title)))
    BY <1>2 DEF CreateInventoryItem
  <2>2. RowTyped(<<"item", r>>, ItemRow(title))
    BY DEF RowTyped, ColumnTyped, OperationsColumns, ColumnOf, ItemRow
  <2> QED BY <2>1, <2>2, TypesBegunInserting
<1>3. CASE EditInventoryItem(r)
  <2>1. PICK i, title : i \in Live("item")
          /\ Begin(r, "entity.reload",
                Save(Single(<<"item", i>>, Assigned(Row("item", i), [title |-> title])), {"title"}))
          /\ UNCHANGED <<db, hist, faults>>
    BY <1>3 DEF EditInventoryItem
  <2>2. PICK values : values = [title |-> title]
    OBVIOUS
  <2>3. \A c \in DOMAIN values : ColumnTyped(<<"item", i>>, c, values[c])
    BY <2>2 DEF ColumnTyped
  <2>4. RowTyped(<<"item", i>>, Assigned(Row("item", i), values))
    BY <2>1, <2>3, FoundTyped, AssignedTyped DEF Live
  <2> QED BY <2>1, <2>2, <2>4, TypesSaving
<1>4. CASE DeleteInventoryItems(r)
  <2>1. PICK keys : Begin(r, "ok", NoMem) /\ Removes(r, keys)
    BY <1>4 DEF DeleteInventoryItems
  <2>2. HeldTyped(r, "ok", Memory(NoMem).dto, Memory(NoMem).rows)
    BY EndTyped, MemoryFields DEF Ended, NoMem
  <2> QED BY <2>1, <2>2, TypesBegunRemoving
<1>5. CASE AddPurchase(r)
  <2>1. PICK dto : /\ dto \in CreatePurchaseDto
                   /\ Begin(r, "purchase.insert", [dto |-> dto])
                   /\ UNCHANGED <<db, hist, faults>>
    BY <1>5 DEF AddPurchase
  <2>2. dto.quantity \in Quantity
    BY <2>1 DEF CreatePurchaseDto
  <2>3. HeldTyped(r, "purchase.insert", Memory([dto |-> dto]).dto, Memory([dto |-> dto]).rows)
    BY <2>2, MemoryFields, NoRowsTyped DEF HeldTyped
  <2> QED BY <2>1, <2>3, TypesBegunReading DEF Ended
<1>6. CASE AddPurchaseInsert(r)
  <2> DEFINE row == PurchaseRow(mem[r].dto.item, mem[r].dto.quantity)
  <2>1. /\ r \in Open /\ step[r] = "purchase.insert"
        /\ InsertThen(r, Single(<<"purchase", r>>, row), "stock.insert", <<>>)
    BY <1>1, <1>6 DEF AddPurchaseInsert, Ended
  <2>2. mem[r].dto.quantity \in Quantity
    BY <1>1, <2>1 DEF HeldTyped
  <2>3. RowTyped(<<"purchase", r>>, row)
    BY <2>2 DEF RowTyped, ColumnTyped, OperationsColumns, ColumnOf, PurchaseRow
  <2>4. HeldTyped(r, "stock.insert", Over(<<>>, mem[r]).dto, Over(<<>>, mem[r]).rows)
    BY <1>1, <2>2, OverNothing DEF HeldTyped
  <2> HIDE DEF row
  <2> QED BY <2>1, <2>3, <2>4, OneTyped, TypesInserting
<1>7. CASE AddPurchaseStock(r)
  <2> DEFINE row == StockRow(mem[r].dto.item, r, mem[r].dto.quantity, 0)
  <2>1. /\ r \in Open /\ step[r] = "stock.insert"
        /\ InsertThen(r, Single(<<"stock", r>>, row), "ok", NoMem)
    BY <1>1, <1>7 DEF AddPurchaseStock, Ended
  <2>2. mem[r].dto.quantity \in Quantity
    BY <1>1, <2>1 DEF HeldTyped
  <2>3. RowTyped(<<"stock", r>>, row)
    BY <2>2 DEF RowTyped, ColumnTyped, OperationsColumns, ColumnOf, StockRow
  <2> HIDE DEF row
  <2> QED BY <2>1, <2>3, OneTyped, TypesInserting DEF Ended
<1>8. CASE UpdatePurchase(r)
  <2>1. PICK p \in Live("purchase") :
          /\ Begin(r, "purchase.check", [dto |-> [id |-> p, row |-> Row("purchase", p)]])
          /\ UNCHANGED <<db, hist, faults>>
    BY <1>8 DEF UpdatePurchase
  <2>2. PICK row : row = Row("purchase", p) /\ RowTyped(<<"purchase", p>>, row)
    BY FoundTyped DEF Live
  <2> DEFINE m == [dto |-> [id |-> p, row |-> row]]
  <2>3. /\ DOMAIN m = {"dto"} /\ m.dto.row = row /\ m.dto.id = p
        /\ Begin(r, "purchase.check", m)
    BY <2>1, <2>2
  <2> HIDE DEF m
  <2>4. HeldTyped(r, "purchase.check", Memory(m).dto, Memory(m).rows)
    BY <2>2, <2>3, MemoryFields, NoRowsTyped DEF HeldTyped
  <2> QED BY <2>1, <2>3, <2>4, TypesBegunReading DEF Ended
<1>9. CASE UpdatePurchaseCheck(r)
  <2> DEFINE k == <<"purchase", mem[r].dto.id>>
  <2>1. r \in Open /\ step[r] = "purchase.check"
    BY <1>1, <1>9 DEF UpdatePurchaseCheck, Ended
  <2>2. CASE Reads(r, "error", NoMem)
    BY <2>1, <2>2, TypesRefused
  <2>3. CASE \E dto \in CreatePurchaseDto :
               Reads(r, "entity.reload",
                  Save(Single(k, Assigned(mem[r].dto.row, dto)), DOMAIN dto))
    <3>1. PICK dto \in CreatePurchaseDto :
               Reads(r, "entity.reload",
                  Save(Single(k, Assigned(mem[r].dto.row, dto)), DOMAIN dto))
      BY <2>3
    <3>2. RowTyped(k, mem[r].dto.row)
      BY <1>1, <2>1 DEF HeldTyped
    <3>3. k[1] = "purchase"
      OBVIOUS
    <3>4. \A c \in DOMAIN dto : ColumnTyped(k, c, dto[c])
      BY <3>3 DEF CreatePurchaseDto, ColumnTyped
    <3> HIDE DEF k
    <3>5. RowsTyped(Single(k, Assigned(mem[r].dto.row, dto)))
      BY <3>2, <3>4, AssignedTyped, OneTyped
    <3> QED BY <2>1, <3>1, <3>5, TypesGoneSaving
  <2> QED BY <1>9, <2>2, <2>3 DEF UpdatePurchaseCheck
<1>10. CASE DeletePurchases(r)
  <2>1. PICK ids : /\ Begin(r, "purchase.delete", [dto |-> ids])
                   /\ UNCHANGED <<db, hist, faults>>
    BY <1>10 DEF DeletePurchases
  <2>2. HeldTyped(r, "purchase.delete", Memory([dto |-> ids]).dto, Memory([dto |-> ids]).rows)
    BY MemoryFields, NoRowsTyped DEF HeldTyped
  <2> QED BY <2>1, <2>2, TypesBegunReading DEF Ended
<1>11. CASE DeletePurchasesDelete(r)
  <2>1. PICK keys : r \in Open /\ RemoveThen(r, keys, "ok", NoMem)
    BY <1>1, <1>11 DEF DeletePurchasesDelete, Ended
  <2> QED BY <2>1, TypesRemovedThen
<1> QED BY <1>2, <1>3, <1>4, <1>5, <1>6, <1>7, <1>8, <1>9, <1>10, <1>11 DEF InventoryOperation

-----------------------------------------------------------------------------
(* Registers and cash.                                                     *)

LEMMA CashTypes ==
    ASSUME TypesInv, OverInv, OverInv', NEW r \in Request, CashOperation(r)
    PROVE  TypesInv'
<1>1. CASE OpenRegister(r)
  <2>1. Begin(r, "ok", NoMem) /\ Inserts(r, Single(<<"register", r>>, RegisterRow))
    BY <1>1 DEF OpenRegister
  <2>2. RowTyped(<<"register", r>>, RegisterRow)
    BY DEF RowTyped, ColumnTyped, OperationsColumns, ColumnOf, RegisterRow
  <2> QED BY <2>1, <2>2, TypesBegunInserting
<1>2. CASE CloseRegister(r)
  <2>1. PICK i, dto : /\ i \in Live("register") /\ dto \in CloseRegisterDto
          /\ Begin(r, "entity.reload",
                Save(Single(<<"register", i>>, Assigned(Row("register", i), dto)), DOMAIN dto))
          /\ UNCHANGED <<db, hist, faults>>
    BY <1>2 DEF CloseRegister
  <2>2. DOMAIN dto = {"closed", "counted"} /\ dto.closed \in Closing
    BY <2>1, CashDtoAssumption DEF Closing
  <2>3. \A c \in DOMAIN dto : ColumnTyped(<<"register", i>>, c, dto[c])
    BY <2>2 DEF ColumnTyped
  <2>4. RowTyped(<<"register", i>>, Assigned(Row("register", i), dto))
    BY <2>1, <2>3, FoundTyped, AssignedTyped DEF Live
  <2> QED BY <2>1, <2>4, TypesSaving
<1>3. CASE AddCashManagement(r)
  <2>1. PICK i, dto : Begin(r, "ok", NoMem) /\ Inserts(r, Single(<<"cash", r>>, CashRow(i, dto)))
                      /\ dto \in CashManagementDto
    BY <1>3 DEF AddCashManagement
  <2>2. CashRow(i, dto).at = "live" /\ "at" \in DOMAIN CashRow(i, dto)
    BY <2>1, CashDtoAssumption DEF CashRow, Over
  <2>3. RowTyped(<<"cash", r>>, CashRow(i, dto))
    BY <2>2 DEF RowTyped, ColumnTyped, OperationsColumns, ColumnOf
  <2> QED BY <2>1, <2>3, TypesBegunInserting
<1>4. CASE EditCashManagement(r)
  <2>1. PICK c, dto : /\ c \in Live("cash") /\ dto \in CashManagementDto
          /\ Begin(r, "entity.reload",
                Save(Single(<<"cash", c>>, AssignedCash(Only(Row("cash", c), CashColumns), dto)),
                     DOMAIN dto))
          /\ UNCHANGED <<db, hist, faults>>
    BY <1>4 DEF EditCashManagement
  <2>2. RowTyped(<<"cash", c>>, Row("cash", c)) /\ DOMAIN Row("cash", c) = OperationsColumns["cash"]
    BY <2>1, FoundTyped, OpShared, LiveKey DEF Live
  <2>3. RowTyped(<<"cash", c>>, Only(Row("cash", c), CashColumns))
    BY <2>2 DEF RowTyped, ColumnTyped, OperationsColumns, ColumnOf, Only, CashColumns
  <2>4. \A d \in DOMAIN dto : ColumnTyped(<<"cash", c>>, d, dto[d])
    BY <2>1, CashDtoAssumption DEF ColumnTyped
  <2>5. RowTyped(<<"cash", c>>, AssignedCash(Only(Row("cash", c), CashColumns), dto))
    BY <2>3, <2>4, AssignedTyped DEF AssignedCash
  <2> QED BY <2>1, <2>5, TypesSaving
<1> QED BY <1>1, <1>2, <1>3, <1>4 DEF CashOperation

-----------------------------------------------------------------------------
(* Breaks, wages and attendances.                                          *)

LEMMA EntryTypes ==
    ASSUME TypesInv, OverInv, OverInv', NEW r \in Request, EntryOperation(r)
    PROVE  TypesInv'
<1>1. /\ HoldInv /\ \A s : At(r, s) /\ s \notin {"idle"} \cup Ended => r \in Open /\ step[r] = s
      /\ RowsTyped(mem[r].rows)
  BY OnItsWay
<1>2. ASSUME NEW t \in {"break", "wage"}, AddEntry(r, t)
      PROVE  TypesInv'
  <2>1. PICK a, v : /\ Begin(r, "entry.insert", [rows |-> Single(<<t, r>>, EntryRow(a, v))])
                    /\ UNCHANGED <<db, hist, faults>>
    BY <1>2 DEF AddEntry
  <2>2. RowTyped(<<t, r>>, EntryRow(a, v))
    BY DEF RowTyped, ColumnTyped, OperationsColumns, ColumnOf, EntryRow
  <2> DEFINE m == [rows |-> Single(<<t, r>>, EntryRow(a, v))]
  <2>3. /\ DOMAIN m = {"rows"} /\ RowsTyped(m.rows) /\ Begin(r, "entry.insert", m)
    BY <2>1, <2>2, OneTyped
  <2> HIDE DEF m
  <2>4. HeldTyped(r, "entry.insert", Memory(m).dto, Memory(m).rows)
    BY <2>3, MemoryFields DEF HeldTyped
  <2> QED BY <2>1, <2>3, <2>4, TypesBegunReading DEF Ended
<1>3. ASSUME NEW t \in {"break", "wage"}, EditEntry(r, t)
      PROVE  TypesInv'
  <2>1. PICK i, a, v :
          LET values == [attendance |-> a, value |-> v]
          IN  /\ i \in Live(t)
              /\ Begin(r, "entity.reload",
                    Save(Single(<<t, i>>, Assigned(Row(t, i), values)), DOMAIN values))
              /\ UNCHANGED <<db, hist, faults>>
    BY <1>3 DEF EditEntry
  <2> DEFINE values == [attendance |-> a, value |-> v]
  <2>2. \A c \in DOMAIN values : ColumnTyped(<<t, i>>, c, values[c])
    BY DEF ColumnTyped
  <2> HIDE DEF values
  <2>3. /\ i \in Live(t)
        /\ Begin(r, "entity.reload",
              Save(Single(<<t, i>>, Assigned(Row(t, i), values)), DOMAIN values))
        /\ UNCHANGED <<db, hist, faults>>
    BY <2>1 DEF values
  <2>4. RowTyped(<<t, i>>, Assigned(Row(t, i), values))
    BY <2>2, <2>3, FoundTyped, AssignedTyped DEF Live
  <2> QED BY <2>3, <2>4, TypesSaving
<1>4. ASSUME NEW t \in {"break", "wage"}, DeleteEntry(r, t)
      PROVE  TypesInv'
  <2>1. PICK k : /\ Begin(r, "entry.remove", [dto |-> k])
                 /\ UNCHANGED <<db, hist, faults>>
    BY <1>4 DEF DeleteEntry
  <2>2. HeldTyped(r, "entry.remove", Memory([dto |-> k]).dto, Memory([dto |-> k]).rows)
    BY MemoryFields, NoRowsTyped DEF HeldTyped
  <2> QED BY <2>1, <2>2, TypesBegunReading DEF Ended
<1>5. CASE AddEntryInsert(r)
  <2>1. r \in Open /\ InsertThen(r, mem[r].rows, "ok", NoMem)
    BY <1>1, <1>5 DEF AddEntryInsert, Ended
  <2> QED BY <1>1, <2>1, TypesInserting DEF Ended
<1>6. CASE DeleteEntryRemove(r)
  <2>1. PICK keys : r \in Open /\ RemoveThen(r, keys, "ok", NoMem)
    BY <1>1, <1>6 DEF DeleteEntryRemove, Ended
  <2> QED BY <2>1, TypesRemovedThen
<1> QED BY <1>2, <1>3, <1>4, <1>5, <1>6 DEF EntryOperation

\* Names of photos, by the columns that hold them.
LEMMA NamesTyped ==
    ASSUME FilesInv, NEW photos \in SUBSET Photo, NEW names \in FreshNames(photos)
    PROVE  DOMAIN names = photos /\ \A p \in photos : names[p] \in Nat
BY MillisecondAssumption DEF FilesInv, FreshNames

LEMMA AttendanceTypes ==
    ASSUME TypesInv, FilesInv, OverInv, OverInv', NEW r \in Request, AttendanceOperation(r)
    PROVE  TypesInv'
<1>1. /\ HoldInv /\ \A s : At(r, s) /\ s \notin {"idle"} \cup Ended => r \in Open /\ step[r] = s
      /\ HeldTyped(r, step[r], mem[r].dto, mem[r].rows) /\ RowsTyped(mem[r].rows)
  BY OnItsWay
<1>2. OperationsColumns["attendance"] = {"at", "clockOut", "in", "out"}
  BY DEF OperationsColumns
<1>3. CASE AddAttendance(r)
  <2>1. PICK c, photos, names :
          /\ photos \in SUBSET Photo /\ "in" \in photos /\ names \in FreshNames(photos)
          /\ \/ Begin(r, "attendance.insert", [dto |-> AttendanceRow(c, names)])
             \/ Begin(r, "error", NoMem)
          /\ UNCHANGED <<db, hist, faults>>
    BY <1>3 DEF AddAttendance, Photo
  <2>2. CASE Begin(r, "attendance.insert", [dto |-> AttendanceRow(c, names)])
    <3>1. DOMAIN names = photos /\ \A p \in photos : names[p] \in Nat
      BY <2>1, NamesTyped
    <3>2. PICK row : row = AttendanceRow(c, names)
      OBVIOUS
    <3>3. row.at = "live" /\ row["in"] \in Nat /\ row["out"] \in Nat \cup {Null}
      BY <2>1, <3>1, <3>2 DEF AttendanceRow, Over, Photo
    <3>4. DOMAIN row = {"at", "clockOut", "in", "out"}
      BY <2>1, <3>1, <3>2 DEF AttendanceRow, Over, Photo
    <3>5. <<"attendance", r>>[1] = "attendance"
      OBVIOUS
    <3>6. RowTyped(<<"attendance", r>>, row)
      BY <1>2, <3>3, <3>4, <3>5 DEF RowTyped, ColumnTyped, ColumnOf, OperationsColumns
    <3>7. HeldTyped(r, "attendance.insert", Memory([dto |-> row]).dto, Memory([dto |-> row]).rows)
      BY <3>6, MemoryFields, NoRowsTyped DEF HeldTyped
    <3> QED BY <2>1, <2>2, <3>2, <3>7, TypesBegunReading DEF Ended
  <2>3. CASE Begin(r, "error", NoMem)
    <3>1. HeldTyped(r, "error", Memory(NoMem).dto, Memory(NoMem).rows)
      BY EndTyped, MemoryFields DEF Ended, NoMem
    <3> QED BY <2>1, <2>3, <3>1, TypesBegunReading
  <2> QED BY <2>1, <2>2, <2>3
<1>4. CASE AddAttendanceInsert(r)
  <2>1. /\ r \in Open /\ step[r] = "attendance.insert"
        /\ InsertThen(r, Single(<<"attendance", r>>, mem[r].dto), "ok", NoMem)
    BY <1>1, <1>4 DEF AddAttendanceInsert, Ended
  <2>2. RowTyped(<<"attendance", r>>, mem[r].dto)
    BY <1>1, <2>1 DEF HeldTyped
  <2> QED BY <2>1, <2>2, OneTyped, TypesInserting DEF Ended
<1>5. CASE EditAttendance(r)
  <2>1. PICK a, dto : /\ a \in Live("attendance")
          /\ Begin(r, "attendance.photos",
                [dto |-> dto, rows |-> Single(<<"attendance", a>>, Row("attendance", a))])
          /\ UNCHANGED <<db, hist, faults>>
    BY <1>5 DEF EditAttendance
  <2>2. RowsTyped(Single(<<"attendance", a>>, Row("attendance", a)))
    BY <2>1, FoundTyped, OneTyped DEF Live
  <2> DEFINE m == [dto |-> dto, rows |-> Single(<<"attendance", a>>, Row("attendance", a))]
  <2>3. DOMAIN m = {"dto", "rows"} /\ RowsTyped(m.rows) /\ Begin(r, "attendance.photos", m)
    BY <2>1, <2>2
  <2> HIDE DEF m
  <2>4. HeldTyped(r, "attendance.photos", Memory(m).dto, Memory(m).rows)
    BY <2>3, MemoryFields DEF HeldTyped
  <2> QED BY <2>1, <2>3, <2>4, TypesBegunReading DEF Ended
<1>6. CASE EditAttendancePhotos(r)
  <2> DEFINE dto == mem[r].dto
             held == mem[r].rows
             values == IF dto.clockOut = Null THEN <<>> ELSE [clockOut |-> dto.clockOut]
  <2>1. r \in Open /\ step[r] = "attendance.photos"
    BY <1>1, <1>6 DEF EditAttendancePhotos, Ended
  <2>2. CASE Reads(r, "error", NoMem)
    BY <2>1, <2>2, TypesRefused
  <2>3. CASE \E names \in FreshNames(dto.photos) : \E meant :
               Reads(r, "entity.reload",
                     Save([k \in DOMAIN held |-> Assigned(held[k], Over(names, values))], meant))
    <3>1. PICK names, meant : /\ names \in FreshNames(dto.photos)
            /\ Reads(r, "entity.reload",
                     Save([k \in DOMAIN held |-> Assigned(held[k], Over(names, values))], meant))
      BY <2>3
    <3> DEFINE given == Over(names, values)
               rows == [k \in DOMAIN held |-> Assigned(held[k], given)]
    <3>2. dto.photos \subseteq Photo /\ \A k \in DOMAIN held : k[1] = "attendance"
      BY <2>1 DEF OverInv, Told
    <3>3. DOMAIN names = dto.photos /\ \A p \in dto.photos : names[p] \in Nat
      BY <3>1, <3>2, NamesTyped
    <3>4. DOMAIN values \subseteq {"clockOut"}
      OBVIOUS
    <3> HIDE DEF values
    <3>5. /\ DOMAIN given \subseteq Photo \cup {"clockOut"}
          /\ \A p \in Photo : p \in DOMAIN given => given[p] \in Nat
      BY <3>2, <3>3, <3>4 DEF Over, Photo
    <3> HIDE DEF given
    <3>6. ASSUME NEW k \in DOMAIN held
          PROVE  RowTyped(k, Assigned(held[k], given))
      <4>1. \A c \in DOMAIN given : ColumnTyped(k, c, given[c])
        BY <3>2, <3>5 DEF ColumnTyped, Photo
      <4>2. RowTyped(k, held[k])
        BY <1>1 DEF RowsTyped
      <4> QED BY <4>1, <4>2, AssignedTyped
    <3>7. RowsTyped(rows) /\ Reads(r, "entity.reload", Save(rows, meant))
      BY <3>1, <3>6 DEF RowsTyped, given
    <3> HIDE DEF rows
    <3> QED BY <2>1, <3>7, TypesGoneSaving
  <2> QED BY <1>6, <2>2, <2>3 DEF EditAttendancePhotos
<1>7. CASE DeleteAttendances(r)
  <2>1. PICK ids : /\ ids \subseteq Live("attendance")
                   /\ Begin(r, "attendance.unlink",
                        [rows |-> [k \in {"attendance"} \X ids |-> db[k]]])
                   /\ UNCHANGED <<db, hist, faults>>
    BY <1>7 DEF DeleteAttendances
  <2>2. {"attendance"} \X ids \subseteq DOMAIN db
    BY <2>1, OpShared, IdsKeys DEF Live
  <2> DEFINE rows == [k \in {"attendance"} \X ids |-> db[k]]
             m == [rows |-> rows]
  <2>3. RowsTyped(rows)
    BY <2>2 DEF RowsTyped, TypesInv
  <2> HIDE DEF rows
  <2>4. DOMAIN m = {"rows"} /\ RowsTyped(m.rows) /\ Begin(r, "attendance.unlink", m)
    BY <2>1, <2>3 DEF rows
  <2> HIDE DEF m
  <2>5. HeldTyped(r, "attendance.unlink", Memory(m).dto, Memory(m).rows)
    BY <2>4, MemoryFields DEF HeldTyped
  <2> QED BY <2>1, <2>4, <2>5, TypesBegunReading DEF Ended
<1>8. CASE DeleteAttendancesPhotos(r)
  <2>1. r \in Open /\ Reads(r, "attendance.remove", <<>>)
    BY <1>1, <1>8 DEF DeleteAttendancesPhotos, Ended
  <2>2. HeldTyped(r, "attendance.remove", Over(<<>>, mem[r]).dto, Over(<<>>, mem[r]).rows)
    BY <1>1, OverNothing DEF HeldTyped
  <2> QED BY <2>1, <2>2, TypesReading DEF Ended
<1>9. CASE DeleteAttendancesRemove(r)
  <2>1. PICK keys : r \in Open /\ RemoveThen(r, keys, "ok", NoMem)
    BY <1>1, <1>9 DEF DeleteAttendancesRemove, Ended
  <2> QED BY <2>1, TypesRemovedThen
<1> QED BY <1>3, <1>4, <1>5, <1>6, <1>7, <1>8, <1>9 DEF AttendanceOperation

-----------------------------------------------------------------------------
(* The files of the photos.                                                *)

\* No name is of a millisecond after the last upload.
LEMMA UploadFiles ==
    ASSUME FilesInv, NEW photos \in SUBSET Photo, NEW names \in FreshNames(photos), Upload(names)
    PROVE  /\ now' \in 0..LastMillisecond
           /\ files' \subseteq 0..now' /\ shared' \subseteq 0..now'
<1> DEFINE used == {names[p] : p \in DOMAIN names}
           last == CHOOSE n \in used : \A i \in used : i <= n
<1>1. now \in Nat /\ now <= LastMillisecond /\ files \subseteq 0..now /\ shared \subseteq 0..now
  BY MillisecondAssumption DEF FilesInv
<1>2. UploadedAs(photos, names)
  BY <1>1, UploadEffect
<1>3. /\ files' = files \cup used
      /\ now' = IF used = {} THEN now ELSE last
      /\ shared' \subseteq shared \cup used
  BY DEF Upload
<1>4. \A n \in used : n <= now' /\ n \in Nat /\ n <= LastMillisecond
  <2>1. \A p \in photos : names[p] \in Nat /\ names[p] <= LastMillisecond
    BY <1>1, MillisecondAssumption DEF FreshNames
  <2>2. \A p \in photos : names[p] <= now'
    BY <1>2 DEF UploadedAs, Uploaded
  <2> QED BY <1>2, <2>1, <2>2 DEF UploadedAs
<1>5. used # {} => last \in used
  <2>1. ASSUME used # {}
        PROVE  \E n \in used : \A i \in used : i <= n
    <3>1. PICK a \in photos : TRUE
      BY <1>2, <2>1 DEF UploadedAs
    <3>2. \E b \in photos : photos = {a, b}
      BY <3>1 DEF Photo
    <3>3. PICK b \in photos : photos = {a, b}
      BY <3>2
    <3>4. used = {names[a], names[b]}
      BY <1>2, <3>3 DEF UploadedAs
    <3>5. names[a] \in Nat /\ names[b] \in Nat
      BY <1>4, <3>4
    <3> QED BY <3>4, <3>5
  <2> QED BY <2>1
<1>6. now' \in Nat /\ now <= now'
  BY <1>2 DEF UploadedAs
<1> HIDE DEF used, last
<1>7. now' <= LastMillisecond
  BY <1>1, <1>3, <1>4, <1>5
<1>8. \A n \in files \cup shared \cup used : n \in 0..now'
  BY <1>1, <1>4, <1>6
<1>9. files' \subseteq 0..now' /\ shared' \subseteq 0..now'
  BY <1>3, <1>8
<1> QED BY <1>6, <1>7, <1>9, MillisecondAssumption

\* Calls are on record.
LEMMA TakesFiles ==
    ASSUME FilesInv, NEW r, NEW rows, NEW photos, Takes(r, rows, photos)
    PROVE  \A u \in unlinks' \cup {l.call : l \in lost'} :
              [by |-> u.by, name |-> u.name] \in taken'
<1> DEFINE calls == {[by |-> r, name |-> rows[c[1]][c[2]], of |-> c] :
                       c \in {d \in (DOMAIN rows) \X photos : rows[d[1]][d[2]] # Null}}
<1>1. /\ unlinks' = unlinks \cup calls
      /\ taken' = taken \cup {[by |-> u.by, name |-> u.name] : u \in calls}
      /\ lost' = lost
  BY DEF Takes
<1> HIDE DEF calls
<1> QED BY <1>1 DEF FilesInv

LEMMA FilesStep ==
    ASSUME OverInv, FilesInv, NEW r \in Request, Operation(r)
    PROVE  FilesInv'
<1>1. CASE UNCHANGED photoVars
  BY <1>1 DEF FilesInv, photoVars
<1>2. CASE AddAttendance(r)
  <2>1. PICK photos, names : /\ photos \in SUBSET Photo /\ names \in FreshNames(photos)
                             /\ Upload(names) /\ UNCHANGED <<unlinks, taken, lost>>
    BY <1>2 DEF AddAttendance, Photo
  <2> QED BY <2>1, UploadFiles DEF FilesInv
<1>3. CASE EditAttendancePhotos(r)
  <2>1. mem[r].dto.photos \subseteq Photo
    BY <1>3 DEF EditAttendancePhotos, At, OverInv, Told
  <2>2. PICK photos, all, names : /\ photos \in SUBSET Photo /\ names \in FreshNames(photos)
                                  /\ Upload(names) /\ Takes(r, mem[r].rows, all)
    BY <1>3, <2>1 DEF EditAttendancePhotos
  <2> QED BY <2>2, UploadFiles, TakesFiles DEF FilesInv
<1>4. CASE DeleteAttendancesPhotos(r)
  <2>1. Takes(r, mem[r].rows, Photo) /\ UNCHANGED <<files, now, shared>>
    BY <1>4 DEF DeleteAttendancesPhotos
  <2> QED BY <2>1, TakesFiles DEF FilesInv
<1>5. \/ UNCHANGED photoVars
      \/ AddAttendance(r) \/ EditAttendancePhotos(r) \/ DeleteAttendancesPhotos(r)
  BY DEF Operation, AttendanceOperation, AddAttendanceInsert, EditAttendance, DeleteAttendances,
         DeleteAttendancesRemove
<1> QED BY <1>1, <1>2, <1>3, <1>4, <1>5

LEMMA UnlinkFiles ==
    ASSUME FilesInv, UnlinkDone \/ UnlinkFails
    PROVE  FilesInv'
<1>1. CASE UnlinkDone
  <2>1. files' \subseteq files /\ unlinks' \subseteq unlinks /\ UNCHANGED <<now, shared, taken, lost>>
    BY <1>1 DEF UnlinkDone
  <2> QED BY <2>1 DEF FilesInv
<1>2. CASE UnlinkFails
  <2>1. PICK u \in unlinks : /\ lost' = lost \cup {[call |-> u,
                                                   failed |-> {r \in Request : step[r] = "error"}]}
                             /\ unlinks' = {} /\ UNCHANGED <<files, now, shared, taken>>
    BY <1>2 DEF UnlinkFails
  <2>2. \A l \in lost' : l \in lost \/ l.call = u
    BY <2>1
  <2> QED BY <2>1, <2>2 DEF FilesInv
<1> QED BY <1>1, <1>2

-----------------------------------------------------------------------------
(* The whole.                                                              *)

LEMMA OperationTypes ==
    ASSUME TypesInv, FilesInv, OverInv, OverInv', NEW r \in Request, Operation(r)
    PROVE  TypesInv'
<1>1. /\ HoldInv /\ \A s : At(r, s) /\ s \notin {"idle"} \cup Ended => r \in Open /\ step[r] = s
      /\ HeldTyped(r, step[r], mem[r].dto, mem[r].rows)
  BY OnItsWay
<1>2. CASE EntityReload(r)
  <2>1. r \in Open /\ Reload(r, "entity.write")
    BY <1>1, <1>2 DEF EntityReload, Ended
  <2> DEFINE m == [dirty |-> DirtyOf(mem[r].rows)]
  <2>2. Reads(r, "entity.write", m) /\ DOMAIN m = {"dirty"}
    BY <2>1 DEF Reload
  <2> HIDE DEF m
  <2>3. HeldTyped(r, "entity.write", Over(m, mem[r]).dto, Over(m, mem[r]).rows)
    BY <1>1, <2>2, OverFields DEF HeldTyped
  <2> QED BY <2>1, <2>2, <2>3, TypesReading DEF Ended
<1>3. CASE EntityWrite(r)
  <2>1. r \in Open /\ step[r] \in Writing /\ Write(r, "ok", NoMem)
    BY <1>1, <1>3 DEF EntityWrite, Ended, Writing
  <2> QED BY <2>1, TypesWriting DEF Ended
<1>4. CASE Fails(r)
  <2>1. /\ r \in Open /\ Goto(r, "error", NoMem) /\ UNCHANGED db
        /\ faults < MaxFaults /\ faults' = faults + 1
    BY <1>4 DEF Fails, Open
  <2>2. ReferencesInv' /\ Puts(OperationsColumns, db) /\ RowsTyped(db)
    BY <2>1, ReadsPut DEF TypesInv
  <2>3. faults' \in 0..MaxFaults
    BY <2>1, BoundAssumption DEF TypesInv, AtRestInv
  <2> QED BY <2>1, <2>2, <2>3, TypesGone DEF Ended
<1> QED BY <1>2, <1>3, <1>4, InventoryTypes, CashTypes, EntryTypes, AttendanceTypes DEF Operation

LEMMA TypesSame ==
    ASSUME TypesInv, UNCHANGED tableVars
    PROVE  TypesInv'
BY DEF TypesInv, tableVars, ReferencesInv, KeysHold, AtRestInv, RowsTyped

\* Requests that the end of the process ended hold nothing.
LEMMA UnlinkFailsTypes ==
    ASSUME TypesInv, UnlinkFails
    PROVE  TypesInv'
<1>1. /\ UNCHANGED <<db, faults>>
      /\ \A r \in Request : /\ mem'[r] = NoMem
                            /\ step'[r] = IF r \in Open THEN "error" ELSE step[r]
  BY DEF UnlinkFails
<1>2. \A r \in Request : step'[r] \in {"idle"} \cup Ended
  BY <1>1 DEF Open, Ended
<1>3. \A r \in Request : HeldTyped(r, step'[r], NoMem.dto, NoMem.rows)
  BY <1>2, NoRowsTyped DEF HeldTyped, NoMem, Ended
<1>4. ReferencesInv' /\ AtRestInv'
  BY <1>1 DEF TypesInv, ReferencesInv, KeysHold, AtRestInv
<1>5. RowsTyped(db)'
  BY <1>1 DEF TypesInv, RowsTyped
<1>6. \A r \in Request : HeldTyped(r, step'[r], mem'[r].dto, mem'[r].rows)
  BY <1>1, <1>3
<1> QED BY <1>4, <1>5, <1>6 DEF TypesInv, RowsTyped

LEMMA TypesInitially == Init => TypesInv /\ FilesInv
<1> SUFFICES ASSUME Init
             PROVE  TypesInv /\ FilesInv
  OBVIOUS
<1>1. PICK rows : /\ db = rows /\ TablesInit(rows) /\ area \in Area /\ rows = Rows[area]
  BY DEF Init, TablesInit
<1>2. /\ KeysHold(rows, DOMAIN rows) /\ Schema(OperationsColumns, rows)
      /\ \A k \in DOMAIN rows : \A c \in DOMAIN rows[k] : ColumnTyped(k, c, rows[k][c])
      /\ \A k \in DOMAIN rows : k[1] \in OperationsTables[area]
      /\ area \in DOMAIN OperationsTables
  BY <1>1, SchemaAssumption, RowTypesAssumption, AreaAssumption
<1>3. \A t \in OperationsTables[area] : t \in DOMAIN OperationsColumns
  BY <1>2 DEF OperationsTables, OperationsColumns
<1>4. ASSUME NEW k \in DOMAIN rows
      PROVE  RowTyped(k, rows[k])
  <2>1. DOMAIN rows[k] = OperationsColumns[k[1]]
    BY <1>2 DEF Schema
  <2> QED BY <1>2, <1>3, <2>1 DEF RowTyped, ColumnOf
<1>5. \A r \in Request : step[r] = "idle" /\ mem[r] = NoMem
  BY <1>1 DEF TablesInit
<1>6. \A r \in Request : HeldTyped(r, "idle", NoMem.dto, NoMem.rows)
  BY NoRowsTyped DEF HeldTyped, NoMem
<1>7. faults \in 0..MaxFaults
  BY <1>1, BoundAssumption DEF TablesInit
<1>8. TypesInv
  BY <1>1, <1>2, <1>4, <1>5, <1>6, <1>7 DEF TypesInv, ReferencesInv, AtRestInv, RowsTyped
<1>9. FilesInv
  <2>1. /\ IsFiniteSet(Photos[area]) /\ Photos[area] = 1..Cardinality(Photos[area])
        /\ Cardinality(Photos[area]) <= LastMillisecond
    BY <1>1, PhotosAssumption
  <2>2. Cardinality(Photos[area]) \in Nat
    BY <2>1, FS_CardinalityType
  <2>3. /\ files = Photos[area] /\ now = Cardinality(Photos[area])
        /\ unlinks = {} /\ shared = {} /\ lost = {}
    BY DEF Init, AttendanceInit
  <2> QED BY <2>1, <2>2, <2>3, MillisecondAssumption DEF FilesInv
<1> QED BY <1>8, <1>9

LEMMA TypesInductive == TypesInv /\ FilesInv /\ OverInv /\ OverInv' /\ [Next]_vars
                           => TypesInv' /\ FilesInv'
<1> SUFFICES ASSUME TypesInv, FilesInv, OverInv, OverInv', [Next]_vars
             PROVE  TypesInv' /\ FilesInv'
  OBVIOUS
<1>1. CASE UNCHANGED <<tableVars, photoVars>>
  BY <1>1, TypesSame DEF FilesInv, photoVars
<1>2. CASE \E r \in Among[area] : Operation(r)
  <2>1. Among[area] \subseteq Request
    BY RequestAssumption DEF OverInv
  <2> QED BY <1>2, <2>1, OperationTypes, FilesStep
<1>3. CASE UnlinkDone
  BY <1>3, TypesSame, UnlinkFiles DEF UnlinkDone
<1>4. CASE UnlinkFails
  BY <1>4, UnlinkFailsTypes, UnlinkFiles
<1> QED BY <1>1, <1>2, <1>3, <1>4 DEF Next, Finished, vars

\* A column that is a foreign key holds the key of a row.
LEMMA ForeignHolds ==
    ASSUME OverInv, TypesInv, NEW f \in OperationsReferences, NEW i \in Ids(f.table)
    PROVE  \/ Row(f.table, i)[f.column] = Null /\ f.optional
           \/ Row(f.table, i)[f.column] \in Ids(f.target)
<1>1. f \in References /\ ColumnInv(OperationsColumns)
  BY ForeignKeyAssumption, OpShared
<1> QED BY <1>1, Referred DEF TypesInv

LEMMA TypesFollow ==
    ASSUME PhotoIInv, TypesInv, FilesInv
    PROVE  TypeOK
<1>0. OverInv /\ WithinInv(OperationsTables[area]) /\ area \in Area
  BY DEF PhotoIInv, OverInv
<1>1. ASSUME NEW t, NEW i \in Ids(t)
      PROVE  \A c \in OperationsColumns[t] : ColumnTyped(<<t, i>>, c, Row(t, i)[c])
  <2>1. <<t, i>> \in DOMAIN db /\ RowTyped(<<t, i>>, Row(t, i)) /\ Row(t, i) = db[<<t, i>>]
    BY <1>0, FoundTyped
  <2>2. DOMAIN Row(t, i) = OperationsColumns[t]
    BY <1>0, <2>1, OpShared DEF ColumnInv, Schema
  <2>3. <<t, i>>[1] = t
    OBVIOUS
  <2> QED BY <2>1, <2>2, <2>3 DEF RowTyped, ColumnOf
<1>2. TablesTypeOK
  <2>1. ASSUME NEW k \in DOMAIN db
        PROVE  db[k].at \in {"live", "deleted"}
    <3>1. "at" \in OperationsColumns[k[1]] /\ RowTyped(k, db[k])
      BY DEF TypesInv, RowsTyped, RowTyped, OperationsColumns
    <3>2. DOMAIN db[k] = OperationsColumns[k[1]]
      BY <1>0, OpShared DEF ColumnInv, Schema
    <3> QED BY <3>1, <3>2 DEF RowTyped, ColumnTyped, ColumnOf
  <2> QED BY <1>0, <2>1, OpShared, TablesTyped DEF TypesInv
<1>3. InventoryTypeOK
  <2>1. ASSUME NEW p \in Ids("purchase")
        PROVE  Row("purchase", p).item \in Ids("item")
    <3> DEFINE f == [table |-> "purchase", column |-> "item", target |-> "item",
                     rule |-> "refuse", optional |-> FALSE]
    <3>1. f \in OperationsReferences
      BY DEF OperationsReferences, InventoryReferences
    <3>2. f.table = "purchase" /\ f.column = "item" /\ f.target = "item" /\ ~f.optional
      OBVIOUS
    <3> HIDE DEF f
    <3> QED BY <1>0, <3>1, <3>2, ForeignHolds
  <2>2. \A p \in Ids("purchase") : Row("purchase", p).quantity \in Quantity
    BY <1>1 DEF OperationsColumns, ColumnTyped
  <2>3. \A s \in Ids("stock") : Row("stock", s).addStock \in Quantity \cup {0}
    BY <1>1 DEF OperationsColumns, ColumnTyped
  <2> QED BY <2>1, <2>2, <2>3 DEF InventoryTypeOK
<1>4. CashTypeOK
  <2>1. ASSUME NEW c \in Ids("cash")
        PROVE  Row("cash", c).register \in Ids("register") \cup {Null}
    <3> DEFINE f == [table |-> "cash", column |-> "register", target |-> "register",
                     rule |-> "refuse", optional |-> TRUE]
    <3>1. f \in OperationsReferences
      BY DEF OperationsReferences, CashReferences
    <3>2. f.table = "cash" /\ f.column = "register" /\ f.target = "register"
      OBVIOUS
    <3> HIDE DEF f
    <3> QED BY <1>0, <3>1, <3>2, ForeignHolds
  <2>2. \A i \in Ids("register") : Row("register", i).closed \in Closing \cup {Null}
    BY <1>1 DEF OperationsColumns, ColumnTyped
  <2> QED BY <2>1, <2>2 DEF CashTypeOK
<1>5. AttendanceTypeOK
  <2>1. ASSUME NEW t \in {"break", "wage"}, NEW i \in Ids(t)
        PROVE  Row(t, i).attendance \in Ids("attendance")
    <3> DEFINE f == [table |-> t, column |-> "attendance", target |-> "attendance",
                     rule |-> "refuse", optional |-> FALSE]
    <3>1. f \in OperationsReferences
      BY DEF OperationsReferences, AttendanceReferences
    <3>2. f.table = t /\ f.column = "attendance" /\ f.target = "attendance" /\ ~f.optional
      OBVIOUS
    <3> HIDE DEF f
    <3> QED BY <1>0, <3>1, <3>2, ForeignHolds
  <2>2. ASSUME NEW a \in Ids("attendance")
        PROVE  /\ Row("attendance", a)["in"] \in 0..now
               /\ Row("attendance", a)["out"] \in {Null} \cup 0..now
    <3> DEFINE k == <<"attendance", a>>
    <3>1. k[1] = "attendance" /\ k \in DOMAIN db /\ Row("attendance", a) = db[k]
      BY <1>0, FoundTyped
    <3> HIDE DEF k
    <3>2. area = "attendance"
      <4>1. "attendance" \in OperationsTables[area]
        BY <1>0, <3>1 DEF WithinInv, Within
      <4> QED BY <1>0, <4>1, AreaAssumption DEF OperationsTables
    <3>3. \A p \in Photo : db[k][p] # Null => db[k][p] \in Nat /\ db[k][p] <= now
      BY <3>1, <3>2 DEF PhotoIInv, PhotoInv, NumberInv, Place, Named, InTable
    <3>4. db[k]["in"] \in Nat /\ db[k]["out"] \in Nat \cup {Null}
      BY <1>1, <3>1 DEF OperationsColumns, ColumnTyped
    <3>5. now \in Nat /\ Null \notin Nat
      BY BoundAssumption, MillisecondAssumption DEF FilesInv
    <3> QED BY <3>1, <3>3, <3>4, <3>5 DEF Photo
  <2> QED BY <2>1, <2>2, MillisecondAssumption DEF AttendanceTypeOK, FilesInv
<1> QED BY <1>2, <1>3, <1>4, <1>5 DEF TypeOK, TypesInv, ReferencesInv

\* Rows, files, requests and history of the daily running of a store are well
\* formed: columns hold what the entities declare, every key a row holds is
\* the key of a row, photos are named after milliseconds that have passed, and
\* whoever called for a photo to be unlinked is on record.
THEOREM OperationsTyped == Spec => []TypeOK
<1>1. PhotoIInv => OverInv
  BY DEF PhotoIInv
<1> QED BY <1>1, PhotoInitially, PhotoNext, TypesInitially, TypesInductive, TypesFollow, PTL
        DEF Spec

=============================================================================
