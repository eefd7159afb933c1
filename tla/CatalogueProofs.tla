-------------------------- MODULE CatalogueProofs --------------------------
(***************************************************************************)
(* What a request of the catalogue asked for is overwritten only by one    *)
(* that a chain of overlaps joins to it, for any number of requests, rows  *)
(* and bodies.  Most services read the rows they save in the statement     *)
(* before; updateModifier holds a group and its options over several       *)
(* statements of its own, so the invariant says what it knows of them at   *)
(* each step, and that the options it inserts are none of those it holds.  *)
(* Columns hold what the entities declare: what a request holds at each    *)
(* step has the types too, and every statement looks the foreign keys up.  *)
(***************************************************************************)
EXTENDS Catalogue, TablesProofs

\* The steps at which a request holds rows it will save, and those at which
\* it has compared them with the tables.
PlainReading == {"entity.reload", "product.check", "discount.reload", "discounts.reload",
                 "links.reload", "hours.reload"}
PlainWriting == {"entity.write", "discount.write", "discounts.write", "links.write",
                 "hours.write"}
Reading == PlainReading \cup {"edit.attach.reload", "edit.option.reload"}
Writing == PlainWriting \cup {"edit.attach", "edit.option.write"}

\* The steps of updateModifier, those of its loop over the options, and those
\* at which a request may have inserted options.
Editing == {"edit", "edit.detach", "edit.attach.reload", "edit.attach", "edit.attached",
            "edit.option", "edit.option.insert", "edit.option.reload", "edit.option.write"}
Looping == {"edit.option", "edit.option.insert", "edit.option.reload", "edit.option.write"}
Making == Looping \cup {"entity.write"} \cup Ended
Telling == {"mark", "product.insert", "hours.preload"} \cup Editing \cup Reading \cup Writing

OptionKey(r, n) == <<"option", <<r, n>>>>
IsSeq(s) == \E S : s \in Seq(S)
Priced == {"product", "price"}

\* The group and the options that updateModifier read are what the tables
\* hold, but for what it sets itself and what linked requests asked for.
EditKnown(r) ==
    LET dto == mem[r].dto
    IN  /\ DOMAIN dto = {"categories", "options", "id", "group", "existing"}
        /\ dto.options # Null => IsSeq(dto.options)
        /\ <<"group", dto.id>> \in DOMAIN hist
        /\ Knows(CatalogueColumns, r, Single(<<"group", dto.id>>, dto.group), {"title"})
        /\ Knows(CatalogueColumns, r, dto.existing, Priced)
        /\ \A k \in DOMAIN dto.existing :
              k \in DOMAIN hist /\ k[1] = "option" /\ \A n \in Nat : k # OptionKey(r, n)

\* What a request was told at the step before.
Told(r) ==
    LET dto == mem[r].dto
        rows == mem[r].rows
    IN  /\ step[r] = "mark" => dto[1] \in DOMAIN CatalogueColumns
        /\ step[r] = "product.insert" => DOMAIN dto = CatalogueColumns["product"]
        /\ step[r] = "hours.preload" => DOMAIN dto.values \subseteq CatalogueColumns["hours"]
        /\ step[r] \in Editing => EditKnown(r)
        /\ step[r] \in Looping => IsSeq(dto.options)
        /\ step[r] = "edit.option.insert" =>
              /\ Schema(CatalogueColumns, rows)
              /\ \E n \in Nat : DOMAIN rows = {OptionKey(r, n)}
        /\ step[r] \in {"edit.attach.reload", "edit.attach"} =>
              \A k \in DOMAIN rows : k[1] = "attached"
        /\ step[r] \in {"edit.option.reload", "edit.option.write"} =>
              /\ mem[r].meant = Priced
              /\ \A k \in DOMAIN rows : k[1] = "option"
        /\ step[r] \in (Reading \cup Writing) \ {"edit.attach.reload", "edit.attach"} =>
              DOMAIN rows \subseteq DOMAIN hist

\* Options named after a request are its own.
Made(r) == \A n \in Nat : OptionKey(r, n) \in DOMAIN hist => step[r] \in Making

CatSaveInv == SaveInv(CatalogueColumns, Reading, Writing)
CatInv ==
    /\ area \in Area
    /\ CatSaveInv
    /\ \A r \in Request : Told(r) /\ Made(r)

LEMMA CatUnderWay == UnderWay(Reading, Writing)
BY DEF UnderWay, Reading, Writing, PlainReading, PlainWriting

LEMMA CatShared == CatInv => HoldInv /\ MetInv /\ ColumnInv(CatalogueColumns)
BY DEF CatInv, CatSaveInv, SaveInv, SharedInv

\* The foreign keys, by table.
LEMMA CatReferences ==
    ASSUME NEW f \in References
    PROVE  /\ f.column \in CatalogueColumns[f.table]
           /\ f.rule = "cascade" => f.target = "store"
BY CatalogueAssumption DEF CatalogueReferences, MenuReferences, CatalogueColumns

LEMMA CatForeign ==
    ASSUME NEW i
    PROVE  /\ "store" \in ForeignColumns(<<"hours", i>>)
           /\ {"category", "store"} \subseteq ForeignColumns(<<"product", i>>)
           /\ "product" \in ForeignColumns(<<"option", i>>)
<1>1. ASSUME NEW t, NEW c, NEW f \in References, f.table = t, f.column = c
      PROVE  c \in ForeignColumns(<<t, i>>)
  <2>1. <<t, i>>[1] = t
    OBVIOUS
  <2> QED BY <1>1, <2>1 DEF ForeignColumns
<1>2. "store" \in ForeignColumns(<<"hours", i>>)
  <2> DEFINE f == [table |-> "hours", column |-> "store", target |-> "store", rule |-> "cascade",
                   optional |-> TRUE]
  <2>1. f \in References /\ f.table = "hours" /\ f.column = "store"
    BY CatalogueAssumption DEF CatalogueReferences
  <2> HIDE DEF f
  <2> QED BY <1>1, <2>1
<1>3. ASSUME NEW k \in {<<"product", "category", TRUE>>, <<"product", "store", FALSE>>,
                       <<"option", "product", FALSE>>}
      PROVE  k[2] \in ForeignColumns(<<k[1], i>>)
  <2> DEFINE f == [table |-> k[1], column |-> k[2], target |-> k[2], rule |-> "refuse",
                   optional |-> k[3]]
  <2>1. k \in {<<"product", "category", TRUE>>, <<"product", "store", FALSE>>,
               <<"option", "group", FALSE>>, <<"option", "product", FALSE>>,
               <<"attached", "group", FALSE>>, <<"attached", "category", FALSE>>}
    BY <1>3
  <2>2. f.table = k[1] /\ f.column = k[2]
    OBVIOUS
  <2>3. f \in MenuReferences
    BY <2>1 DEF MenuReferences
  <2>4. f \in References
    BY <2>3, CatalogueAssumption DEF CatalogueReferences
  <2> HIDE DEF f
  <2> QED BY <1>1, <2>2, <2>4
<1>4. /\ "category" \in ForeignColumns(<<"product", i>>)
      /\ "store" \in ForeignColumns(<<"product", i>>)
      /\ "product" \in ForeignColumns(<<"option", i>>)
  <2>1. <<"product", "category", TRUE>>[2] \in ForeignColumns(<<<<"product", "category", TRUE>>[1], i>>)
    BY <1>3
  <2>2. <<"product", "store", FALSE>>[2] \in ForeignColumns(<<<<"product", "store", FALSE>>[1], i>>)
    BY <1>3
  <2>3. <<"option", "product", FALSE>>[2] \in ForeignColumns(<<<<"option", "product", FALSE>>[1], i>>)
    BY <1>3
  <2> QED BY <2>1, <2>2, <2>3
<1> QED BY <1>2, <1>4

-----------------------------------------------------------------------------
(* Steps.                                                                  *)

LEMMA ToldNothing ==
    ASSUME NEW r, step'[r] \notin Telling
    PROVE  Told(r)'
<1>1. {"mark", "product.insert", "hours.preload", "edit.option.insert", "edit.attach.reload",
       "edit.attach", "edit.option.reload", "edit.option.write"} \subseteq Telling
  BY DEF Telling, Editing
<1>2. Editing \subseteq Telling /\ Reading \cup Writing \subseteq Telling
  BY DEF Telling
<1>3. Looping \subseteq Telling
  BY DEF Telling, Looping, Editing
<1> QED BY <1>1, <1>2, <1>3 DEF Told

\* History loses nothing, and gains no option but r's own.
Adds(r) ==
    /\ DOMAIN hist \subseteq DOMAIN hist'
    /\ \A q \in Request, n \in Nat :
          OptionKey(q, n) \in DOMAIN hist' \ DOMAIN hist => q = r /\ step'[r] \in Making

\* What a request was told stays true over a step of another one.
LEMMA ToldStays ==
    ASSUME CatInv, CatSaveInv', NEW r \in Request, NEW s, Moves(r, s), Adds(r),
           NEW q \in Request, q # r
    PROVE  Told(q)' /\ Made(q)'
<1> DEFINE C == CatalogueColumns
<1>1. step'[q] = step[q] /\ Told(q) /\ Made(q)
  BY DEF Moves, CatInv
<1>2. Made(q)'
  BY <1>1 DEF Made, Adds
<1>3. CASE step[q] \notin Telling
  <2>1. step'[q] \notin Telling
    BY <1>1, <1>3
  <2>2. Told(q)'
    BY <2>1, ToldNothing
  <2> QED BY <1>2, <2>2
<1>4. CASE step[q] \in Telling
  <2>1. q \in Open' \ {r}
    BY <1>1, <1>4 DEF Open, Ended, Telling, Editing, Reading, Writing, PlainReading, PlainWriting
  <2>2. mem'[q] = mem[q] /\ q \in met'[r] /\ MetGrows /\ Changes(r)
    BY <2>1 DEF Moves
  <2>3. ColumnInv(C) /\ ColumnInv(C)'
    BY DEF CatInv, CatSaveInv, SaveInv, SharedInv
  <2>4. ASSUME EditKnown(q)
        PROVE  EditKnown(q)'
    <3>1. PICK dto : dto = mem[q].dto
      OBVIOUS
    <3>2. PICK group : group = Single(<<"group", dto.id>>, dto.group)
      OBVIOUS
    <3>3. Knows(C, q, group, {"title"}) /\ Knows(C, q, dto.existing, Priced)
      BY <2>4, <3>1, <3>2 DEF EditKnown
    <3>4. Knows(C, q, group, {"title"})' /\ Knows(C, q, dto.existing, Priced)'
      BY ONLY <2>2, <2>3, <3>3, r \in Request, KnowsStays
    <3>5. DOMAIN hist \subseteq DOMAIN hist' /\ mem'[q].dto = dto
      BY <2>2, <3>1 DEF Adds
    <3>6. /\ DOMAIN dto = {"categories", "options", "id", "group", "existing"}
          /\ dto.options # Null => IsSeq(dto.options)
          /\ <<"group", dto.id>> \in DOMAIN hist
          /\ \A k \in DOMAIN dto.existing :
                k \in DOMAIN hist /\ k[1] = "option" /\ \A n \in Nat : k # OptionKey(q, n)
      BY <2>4, <3>1 DEF EditKnown
    <3>7. Knows(C, q, Single(<<"group", dto.id>>, dto.group), {"title"})'
      BY <3>2, <3>4
    <3> HIDE DEF C
    <3> QED BY <3>4, <3>5, <3>6, <3>7 DEF EditKnown, C
  <2>5. Told(q)'
    <3>1. DOMAIN hist \subseteq DOMAIN hist'
      BY DEF Adds
    <3> QED BY <1>1, <2>2, <2>4, <3>1 DEF Told
  <2> QED BY <1>2, <2>5
<1> QED BY <1>3, <1>4

\* A step of the whole: r knows what it was told, and its options are its own.
LEMMA CatStep ==
    ASSUME CatInv, CatSaveInv', area' = area, NEW r \in Request, NEW s, Moves(r, s), Adds(r),
           Told(r)', step[r] \in Making => s \in Making
    PROVE  CatInv'
<1>1. step'[r] = s
  BY DEF Moves
<1>2. Made(r)
  BY DEF CatInv
<1>3. Made(r)'
  BY <1>1, <1>2 DEF Made, Adds
<1> QED BY <1>3, ToldStays DEF CatInv

\* The next step of a request that is told nothing.
Plainly(r, s) == s \notin {"idle"} \cup Telling /\ (step[r] \in Making => s \in Making)

LEMMA Quietly ==
    ASSUME CatInv, CatSaveInv', area' = area, NEW r \in Request, NEW s, Moves(r, s), Adds(r),
           Plainly(r, s)
    PROVE  CatInv'
<1>1. step'[r] \notin Telling
  BY DEF Moves, Plainly
<1>2. Told(r)'
  BY <1>1, ToldNothing
<1> QED BY <1>2, CatStep DEF Plainly

LEMMA AddsNothing ==
    ASSUME DOMAIN hist' = DOMAIN hist
    PROVE  \A r \in Request : Adds(r)
BY DEF Adds

LEMMA Idle ==
    ASSUME CatInv, NEW r \in Request, NEW s, NEW m, Begin(r, s, m)
    PROVE  step[r] \notin Making
BY DEF Begin, Making, Looping, Ended

\* It ends, or fails.
LEMMA Ending ==
    ASSUME NEW r, NEW s \in Ended
    PROVE  Plainly(r, s) /\ s \notin {"idle"} \cup Reading \cup Writing
BY DEF Plainly, Ended, Making, Telling, Editing, Reading, Writing, PlainReading, PlainWriting

LEMMA PlainlySaves ==
    ASSUME NEW r, NEW s, Plainly(r, s)
    PROVE  s \notin {"idle"} \cup Reading \cup Writing
BY DEF Plainly, Telling

\* It begins, or goes on, and only reads.
LEMMA Begun ==
    ASSUME CatInv, area' = area, NEW r \in Request, NEW s, NEW m, Begin(r, s, m),
           UNCHANGED <<db, hist>>, s \notin {"idle"} \cup Telling
    PROVE  CatInv'
<1>1. Plainly(r, s)
  BY Idle DEF Plainly
<1>2. CatSaveInv' /\ Moves(r, s)
  BY <1>1, BeginReads, CatUnderWay, PlainlySaves DEF CatInv, CatSaveInv
<1> QED BY <1>1, <1>2, Quietly, AddsNothing

LEMMA BegunTold ==
    ASSUME CatInv, area' = area, NEW r \in Request, NEW s, NEW m, Begin(r, s, m),
           UNCHANGED <<db, hist>>, s \notin {"idle"} \cup Reading \cup Writing,
           mem'[r] = Memory(m) /\ step'[r] = s /\ MetGrows => Told(r)'
    PROVE  CatInv'
<1>1. CatSaveInv' /\ Moves(r, s) /\ mem'[r] = Memory(m)
  BY BeginReads, CatUnderWay DEF CatInv, CatSaveInv
<1>2. Told(r)'
  BY <1>1 DEF Moves
<1> QED BY <1>1, <1>2, CatStep, AddsNothing, Idle

LEMMA Gone ==
    ASSUME CatInv, area' = area, NEW r \in Open, NEW s, NEW m, Reads(r, s, m), Plainly(r, s)
    PROVE  CatInv'
<1>1. CatSaveInv' /\ Moves(r, s)
  BY GoReads, CatUnderWay, PlainlySaves DEF CatInv, CatSaveInv, Reads
<1>2. UNCHANGED hist
  BY DEF Reads
<1> QED BY <1>1, <1>2, Quietly, AddsNothing DEF Open

\* It begins, or goes on, with a statement that sets columns or removes rows.
LEMMA BegunWriting ==
    ASSUME CatInv, area' = area, NEW r \in Request, NEW s, NEW m, Begin(r, s, m),
           ColumnInv(CatalogueColumns)', Changes(r), DOMAIN hist' = DOMAIN hist,
           s \notin {"idle"} \cup Telling
    PROVE  CatInv'
<1>1. Plainly(r, s)
  BY Idle DEF Plainly
<1>2. CatSaveInv' /\ Moves(r, s)
  BY <1>1, BeginStep, CatUnderWay, PlainlySaves DEF CatInv, CatSaveInv
<1> QED BY <1>1, <1>2, Quietly, AddsNothing

LEMMA GoneWriting ==
    ASSUME CatInv, area' = area, NEW r \in Open, NEW s, NEW m, Goto(r, s, m),
           ColumnInv(CatalogueColumns)', Changes(r), DOMAIN hist' = DOMAIN hist, Plainly(r, s)
    PROVE  CatInv'
<1>1. CatSaveInv' /\ Moves(r, s)
  BY GoStep, CatUnderWay, PlainlySaves DEF CatInv, CatSaveInv
<1> QED BY <1>1, Quietly, AddsNothing DEF Open

LEMMA GoneUpdating ==
    ASSUME CatInv, area' = area, NEW r \in Open, NEW keys, NEW s, NEW m,
           Updates(r, keys, Deleted), Goto(r, s, m), Plainly(r, s),
           \A k \in keys : k[1] \in DOMAIN CatalogueColumns
    PROVE  CatInv'
<1>1. \A k \in keys : DOMAIN Deleted \subseteq CatalogueColumns[k[1]]
  BY DEF Deleted, CatalogueColumns
<1>2. ColumnInv(CatalogueColumns)' /\ Changes(r) /\ DOMAIN hist' = DOMAIN hist
  BY <1>1, CatShared, UpdatesChange, UpdatesSpare DEF Open
<1> QED BY <1>2, GoneWriting

LEMMA GoneRemoving ==
    ASSUME CatInv, area' = area, NEW r \in Open, NEW keys \in SUBSET DOMAIN db,
           Removes(r, keys), Goto(r, "ok", NoMem)
    PROVE  CatInv'
<1>1. ColumnInv(CatalogueColumns)' /\ Changes(r) /\ DOMAIN hist' = DOMAIN hist
  BY CatShared, RemovesChange, RemovesSpare DEF Open
<1> QED BY <1>1, GoneWriting, Ending DEF Ended

\* It inserts rows, none of them an option of another request.
LEMMA AddsRows ==
    ASSUME NEW r \in Request, NEW rows, Inserts(r, rows),
           \A k \in DOMAIN rows : k[1] # "option"
    PROVE  Adds(r)
<1>1. DOMAIN hist' = DOMAIN hist \cup DOMAIN rows
  BY InsertsSpare
<1> QED BY <1>1 DEF Adds, OptionKey

LEMMA BegunInserting ==
    ASSUME CatInv, area' = area, NEW r \in Request, Begin(r, "ok", NoMem), NEW rows,
           Inserts(r, rows), Schema(CatalogueColumns, rows), \A k \in DOMAIN rows : k[1] # "option"
    PROVE  CatInv'
<1>1. ColumnInv(CatalogueColumns)' /\ Changes(r) /\ Adds(r)
  BY CatShared, InsertsChange, AddsRows
<1>2. Plainly(r, "ok")
  BY Ending DEF Ended
<1>3. CatSaveInv' /\ Moves(r, "ok")
  BY <1>1, <1>2, BeginStep, CatUnderWay, PlainlySaves DEF CatInv, CatSaveInv
<1> QED BY <1>1, <1>2, <1>3, Quietly

LEMMA GoneInserting ==
    ASSUME CatInv, area' = area, NEW r \in Open, NEW rows, Schema(CatalogueColumns, rows),
           NEW s, NEW m, InsertThen(r, rows, s, m), Plainly(r, s),
           \A k \in DOMAIN rows : k[1] # "option"
    PROVE  CatInv'
<1>1. CASE Inserts(r, rows) /\ Goto(r, s, m)
  <2>1. ColumnInv(CatalogueColumns)' /\ Changes(r) /\ Adds(r)
    BY <1>1, CatShared, InsertsChange, AddsRows DEF Open
  <2>2. CatSaveInv' /\ Moves(r, s)
    BY <1>1, <2>1, GoStep, CatUnderWay, PlainlySaves DEF CatInv, CatSaveInv
  <2> QED BY <2>1, <2>2, Quietly DEF Open
<1>2. CASE Reads(r, "error", NoMem)
  BY <1>2, Gone, Ending DEF Ended
<1> QED BY <1>1, <1>2 DEF InsertThen

\* It is about to save rows that it has just read.
LEMMA ToldToSave ==
    ASSUME NEW r \in Request, NEW s \in PlainReading, Moves(r, s),
           \A k \in DOMAIN mem'[r].rows : k \in DOMAIN hist, UNCHANGED hist
    PROVE  Told(r)'
<1>1. s \notin Editing \cup {"mark", "product.insert", "hours.preload"}
  BY DEF PlainReading, Editing
<1>2. step'[r] = s
  BY DEF Moves
<1> QED BY <1>1, <1>2 DEF Told, Editing, Looping

LEMMA BegunToSave ==
    ASSUME CatInv, area' = area, NEW r \in Request, NEW s \in PlainReading, NEW m, Begin(r, s, m),
           UNCHANGED <<db, hist>>, NEW rows, NEW meant,
           Memory(m).rows = rows, Memory(m).meant = meant,
           Knows(CatalogueColumns, r, rows, meant), DOMAIN rows \subseteq DOMAIN hist
    PROVE  CatInv'
<1>1. Knows(CatalogueColumns, r, Memory(m).rows, Memory(m).meant) /\ s \in Reading
  BY DEF Reading
<1>2. CatSaveInv' /\ Moves(r, s) /\ mem'[r] = Memory(m)
  BY <1>1, BeginSaves, CatUnderWay DEF CatInv, CatSaveInv
<1>3. Told(r)'
  BY <1>2, ToldToSave
<1> QED BY <1>2, <1>3, CatStep, AddsNothing, Idle

LEMMA GoneToSave ==
    ASSUME CatInv, area' = area, NEW r \in Open, NEW s \in PlainReading, NEW m, Reads(r, s, m),
           NEW rows, NEW meant, Over(m, mem[r]).rows = rows, Over(m, mem[r]).meant = meant,
           Knows(CatalogueColumns, r, rows, meant), DOMAIN rows \subseteq DOMAIN hist,
           step[r] \notin Making
    PROVE  CatInv'
<1>1. Knows(CatalogueColumns, r, Over(m, mem[r]).rows, Over(m, mem[r]).meant) /\ s \in Reading
  BY DEF Reading
<1>2. Goto(r, s, m) /\ UNCHANGED <<db, hist>> /\ r \in Request
  BY DEF Reads, Open
<1>3. CatSaveInv' /\ Moves(r, s) /\ mem'[r] = Over(m, mem[r])
  BY <1>1, <1>2, GoSaves, CatUnderWay DEF CatInv, CatSaveInv
<1>4. Told(r)'
  BY <1>2, <1>3, ToldToSave
<1> QED BY <1>2, <1>3, <1>4, CatStep, AddsNothing

\* It compares them, and writes them.
LEMMA Reloaded ==
    ASSUME CatInv, area' = area, NEW r \in Request, step[r] \in PlainReading,
           NEW s \in PlainWriting, Reload(r, s)
    PROVE  CatInv'
<1>1. step[r] \in Reading /\ s \in Writing
  BY DEF Reading, Writing
<1>2. CatSaveInv' /\ Moves(r, s) /\ mem'[r] = Over([dirty |-> DirtyOf(mem[r].rows)], mem[r])
  BY <1>1, ReloadStep, CatUnderWay DEF CatInv, CatSaveInv
<1>3. UNCHANGED hist
  BY DEF Reload, Reads
<1>4. mem'[r].rows = mem[r].rows
  <2>1. DOMAIN NoMem \subseteq DOMAIN mem[r]
    BY CatShared DEF HoldInv
  <2> QED BY <1>2, <2>1 DEF Over, NoMem
<1>5. DOMAIN mem[r].rows \subseteq DOMAIN hist
  BY <1>1 DEF CatInv, Told, PlainReading
<1>6. s \notin Editing \cup {"mark", "product.insert", "hours.preload"} \cup Reading
  BY DEF PlainWriting, Editing, Reading, PlainReading
<1>7. Told(r)'
  <2>1. step'[r] = s
    BY <1>2 DEF Moves
  <2> QED BY <1>3, <1>4, <1>5, <1>6, <2>1 DEF Told, Editing, Looping
<1>8. step[r] \notin Making
  BY DEF PlainReading, Making, Looping, Ended
<1> QED BY <1>2, <1>3, <1>7, <1>8, CatStep, AddsNothing

LEMMA WriteAdds ==
    ASSUME CatInv, NEW r \in Request, step[r] \in Writing, NEW s, NEW m, Write(r, s, m)
    PROVE  Adds(r)
<1>1. Compared(CatalogueColumns, r) /\ ColumnInv(CatalogueColumns)
  BY CatShared DEF CatInv, CatSaveInv, SaveInv, Keeps
<1>2. DOMAIN hist \subseteq DOMAIN hist' /\ DOMAIN hist' \subseteq DOMAIN hist \cup DOMAIN mem[r].rows
  BY <1>1, CatReferences, WriteChange
<1>3. \A k \in DOMAIN mem[r].rows : k \in DOMAIN hist \/ k[1] = "attached"
  BY DEF CatInv, Told
<1> QED BY <1>2, <1>3 DEF Adds, OptionKey

LEMMA Written ==
    ASSUME CatInv, area' = area, NEW r \in Request, step[r] \in PlainWriting,
           NEW s, NEW m, Write(r, s, m), Plainly(r, s)
    PROVE  CatInv'
<1>1. step[r] \in Writing
  BY DEF Writing
<1>2. CatSaveInv' /\ (Moves(r, s) \/ Moves(r, "error"))
  BY <1>1, WriteStep, CatUnderWay, CatReferences, PlainlySaves DEF CatInv, CatSaveInv
<1>3. Adds(r)
  BY <1>1, WriteAdds
<1>4. Plainly(r, "error")
  BY Ending DEF Ended
<1> QED BY <1>2, <1>3, <1>4, Quietly

\* With one row it read, given other values.
LEMMA BegunWithRow ==
    ASSUME CatInv, area' = area, NEW r \in Request, NEW s \in PlainReading,
           NEW k \in DOMAIN db, NEW row, NEW values, NEW meant, meant = DOMAIN values,
           Begin(r, s, Save(Single(k, Assigned(row, values)), meant)), UNCHANGED <<db, hist>>,
           Fits(CatalogueColumns, k, row), DOMAIN values \subseteq CatalogueColumns[k[1]],
           \A c \in DOMAIN row : row[c] = db[k][c]
    PROVE  CatInv'
<1> DEFINE rows == Single(k, Assigned(row, values))
           m == Save(rows, meant)
<1>1. ColumnInv(CatalogueColumns)
  BY CatShared
<1>2. Knows(CatalogueColumns, r, rows, meant)
  BY <1>1, KnowsOne
<1>3. DOMAIN rows \subseteq DOMAIN hist
  BY <1>1 DEF Single, ColumnInv
<1> HIDE DEF rows
<1>4. Memory(m).rows = rows /\ Memory(m).meant = meant
  BY DEF Save, Memory, NoMem
<1>5. Begin(r, s, m)
  BY DEF rows
<1> HIDE DEF m
<1> QED BY <1>2, <1>3, <1>4, <1>5, BegunToSave

LEMMA GoneWithRow ==
    ASSUME CatInv, area' = area, NEW r \in Open, NEW s \in PlainReading, step[r] \notin Making,
           NEW k \in DOMAIN db, NEW row, NEW values, NEW meant, meant = DOMAIN values,
           Reads(r, s, Save(Single(k, Assigned(row, values)), meant)),
           Fits(CatalogueColumns, k, row), DOMAIN values \subseteq CatalogueColumns[k[1]],
           \A c \in DOMAIN row : row[c] = db[k][c]
    PROVE  CatInv'
<1> DEFINE rows == Single(k, Assigned(row, values))
           m == Save(rows, meant)
<1>1. ColumnInv(CatalogueColumns)
  BY CatShared
<1>2. Knows(CatalogueColumns, r, rows, meant)
  BY <1>1, KnowsOne
<1>3. DOMAIN rows \subseteq DOMAIN hist
  BY <1>1 DEF Single, ColumnInv
<1> HIDE DEF rows
<1>4. Over(m, mem[r]).rows = rows /\ Over(m, mem[r]).meant = meant
  BY DEF Save, Over
<1>5. Reads(r, s, m)
  BY DEF rows
<1> HIDE DEF m
<1> QED BY <1>2, <1>3, <1>4, <1>5, GoneToSave

\* With rows it read, to be deleted by a date.
LEMMA DeletedKnown ==
    ASSUME ColumnInv(CatalogueColumns), NEW r, NEW keys \in SUBSET DOMAIN db,
           \A k \in keys : k[1] \in DOMAIN CatalogueColumns,
           NEW rows, rows = [k \in keys |-> Assigned(db[k], Deleted)]
    PROVE  Knows(CatalogueColumns, r, rows, {"at"}) /\ DOMAIN rows \subseteq DOMAIN hist
<1>1. DOMAIN rows \subseteq DOMAIN hist
  BY DEF ColumnInv
<1> SUFFICES ASSUME NEW k \in keys
             PROVE  /\ Fits(CatalogueColumns, k, Assigned(db[k], Deleted))
                    /\ Fresh(r, k, Assigned(db[k], Deleted), {"at"})
  BY <1>1 DEF Knows
<1>2. Fits(CatalogueColumns, k, db[k]) /\ Fresh(r, k, db[k], {})
  BY RowFits, ReadFresh
<1>3. DOMAIN Deleted = {"at"} /\ {"at"} \subseteq CatalogueColumns[k[1]]
  BY DEF Deleted, CatalogueColumns
<1> QED BY <1>2, <1>3, AssignedFits, AssignedFresh

-----------------------------------------------------------------------------
(* The services, one action after the other.                               *)

LEMMA Under ==
    ASSUME NEW r \in Request
    PROVE  /\ \A s : At(r, s) => step[r] = s
           /\ step[r] \notin {"idle"} \cup Ended => r \in Open
BY DEF At, Open

LEMMA StoreCat ==
    ASSUME CatInv, area' = area, NEW r \in Request, StoreOperation(r)
    PROVE  CatInv'
<1> DEFINE C == CatalogueColumns
<1>1. ColumnInv(C)
  BY CatShared
<1>2. CASE CreateStore(r)
  <2>1. PICK dto \in CreateStoreDto :
          Begin(r, "ok", NoMem) /\ Inserts(r, Single(<<"store", r>>, StoreRow(dto.name)))
    BY <1>2 DEF CreateStore
  <2>2. /\ Schema(C, Single(<<"store", r>>, StoreRow(dto.name)))
        /\ \A k \in DOMAIN Single(<<"store", r>>, StoreRow(dto.name)) : k[1] # "option"
    BY DEF Schema, Single, StoreRow, CatalogueColumns
  <2> QED BY <2>1, <2>2, BegunInserting
<1>3. CASE UpdateStore(r)
  <2>1. PICK s \in Live("store"), dto \in CreateStoreDto :
          Begin(r, "ok", NoMem) /\ Updates(r, {<<"store", s>>}, dto)
    BY <1>3 DEF UpdateStore
  <2>2. \A k \in {<<"store", s>>} : DOMAIN dto \subseteq C[k[1]]
    BY DEF CreateStoreDto, CatalogueColumns
  <2>3. ColumnInv(C)' /\ Changes(r) /\ DOMAIN hist' = DOMAIN hist
    BY <1>1, <2>1, <2>2, UpdatesChange, UpdatesSpare
  <2>4. "ok" \notin {"idle"} \cup Telling
    BY Ending DEF Ended, Plainly
  <2> QED BY <2>1, <2>3, <2>4, BegunWriting
<1>4. CASE RemoveStores(r)
  <2>1. PICK ids \in SUBSET Ids("store") \ {{}} :
          Begin(r, "store.delete", [dto |-> ids]) /\ Removes(r, {"hours"} \X HoursOf(ids))
    BY <1>4 DEF RemoveStores
  <2>2. {"hours"} \X HoursOf(ids) \subseteq DOMAIN db
    BY <1>1, IdsKeys DEF HoursOf, Live
  <2>3. ColumnInv(C)' /\ Changes(r) /\ DOMAIN hist' = DOMAIN hist
    BY <1>1, <2>1, <2>2, RemovesChange, RemovesSpare
  <2>4. "store.delete" \notin {"idle"} \cup Telling
    BY DEF Telling, Editing, Reading, Writing, PlainReading, PlainWriting
  <2> QED BY <2>1, <2>3, <2>4, BegunWriting
<1>5. CASE RemoveStoresDelete(r)
  <2> DEFINE ids == mem[r].dto \cap Ids("store")
             keys == {"store"} \X ids
  <2>1. r \in Open
    BY <1>5, Under DEF RemoveStoresDelete, Ended
  <2>2. keys \subseteq DOMAIN db
    BY <1>1, IdsKeys
  <2>3. CASE Reads(r, "error", NoMem)
    BY <2>1, <2>3, Gone, Ending DEF Ended
  <2>4. CASE RemoveThen(r, keys, "ok", NoMem)
    BY <2>1, <2>2, <2>3, <2>4, GoneRemoving DEF RemoveThen
  <2> QED BY <1>5, <2>3, <2>4 DEF RemoveStoresDelete
<1> QED BY <1>2, <1>3, <1>4, <1>5 DEF StoreOperation

LEMMA HoursCat ==
    ASSUME CatInv, area' = area, NEW r \in Request, HoursOperation(r)
    PROVE  CatInv'
<1> DEFINE C == CatalogueColumns
<1>1. ColumnInv(C) /\ Told(r)
  BY CatShared DEF CatInv
<1>2. C["hours"] = {"at", "store", "day", "slots"}
  BY DEF CatalogueColumns
<1>3. CASE CreateHours(r)
  <2>1. PICK m : Begin(r, "hours.find", m) /\ UNCHANGED <<db, hist>>
    BY <1>3 DEF CreateHours
  <2>2. "hours.find" \notin {"idle"} \cup Telling
    BY DEF Telling, Editing, Reading, Writing, PlainReading, PlainWriting
  <2> QED BY <2>1, <2>2, Begun
<1>4. CASE CreateHoursFind(r)
  <2>1. r \in Open /\ step[r] = "hours.find"
    BY <1>4, Under DEF CreateHoursFind, Ended
  <2>2. step[r] \notin Making
    BY <2>1 DEF Making, Looping, Ended
  <2>3. CASE Reads(r, "hours.insert", <<>>)
    <3>1. Plainly(r, "hours.insert")
      BY <2>2 DEF Plainly, Telling, Editing, Reading, Writing, PlainReading, PlainWriting
    <3> QED BY <2>1, <2>3, <3>1, Gone
  <2>4. CASE \E h \in HoursOf({mem[r].dto.store}) :
                Reads(r, "hours.reload",
                  Save(Single(<<"hours", h>>,
                              Assigned(Only(Row("hours", h), HoursColumns),
                                       [slots |-> mem[r].dto.slots])),
                       {"slots"}))
    <3>1. PICK h \in Live("hours") :
                Reads(r, "hours.reload",
                  Save(Single(<<"hours", h>>,
                              Assigned(Only(Row("hours", h), HoursColumns),
                                       [slots |-> mem[r].dto.slots])),
                       {"slots"}))
      BY <2>4 DEF HoursOf
    <3> DEFINE k == <<"hours", h>>
               row == Only(Row("hours", h), HoursColumns)
               values == [slots |-> mem[r].dto.slots]
    <3>2. k \in DOMAIN db /\ Row("hours", h) = db[k]
      BY <1>1, LiveKey
    <3>3. Fits(C, k, row)
      <4>1. HoursColumns \subseteq C[k[1]] /\ C[k[1]] \ HoursColumns \subseteq {"store"}
        BY <1>2 DEF HoursColumns
      <4> QED BY <4>1, CatForeign, LoadedFits
    <3>4. \A c \in DOMAIN row : row[c] = db[k][c]
      BY <3>2 DEF Only
    <3>5. DOMAIN values = {"slots"} /\ {"slots"} \subseteq C[k[1]]
      BY <1>2
    <3>6. "hours.reload" \in PlainReading
      BY DEF PlainReading
    <3>7. Reads(r, "hours.reload", Save(Single(k, Assigned(row, values)), {"slots"}))
      BY <3>1
    <3> HIDE DEF k, row, values
    <3> QED BY <2>1, <2>2, <3>2, <3>3, <3>4, <3>5, <3>6, <3>7, GoneWithRow
  <2> QED BY <1>4, <2>3, <2>4 DEF CreateHoursFind
<1>5. CASE CreateHoursInsert(r)
  <2> DEFINE dto == mem[r].dto
             rows == Single(<<"hours", r>>, HoursRow(dto.store, dto.day, dto.slots))
  <2>1. r \in Open /\ InsertThen(r, rows, "ok", NoMem)
    BY <1>5, Under DEF CreateHoursInsert, Ended
  <2>2. Schema(C, rows) /\ \A k \in DOMAIN rows : k[1] # "option"
    BY <1>2 DEF Schema, Single, HoursRow
  <2> HIDE DEF rows
  <2> QED BY <2>1, <2>2, GoneInserting, Ending DEF Ended
<1>6. CASE UpdateHours(r)
  <2>1. PICK h \in Ids("hours"), s \in Live("store"), dto \in UpdateOpeningHoursDto :
          /\ Begin(r, "hours.preload", [dto |->
                [id |-> h, values |-> Over(IF dto.day = Null THEN <<>> ELSE [day |-> dto.day],
                                           [store |-> s, slots |-> dto.slots])]])
          /\ UNCHANGED <<db, hist>>
    BY <1>6 DEF UpdateHours
  <2> DEFINE day == IF dto.day = Null THEN <<>> ELSE [day |-> dto.day]
             values == Over(day, [store |-> s, slots |-> dto.slots])
             m == [dto |-> [id |-> h, values |-> values]]
  <2>2. DOMAIN day \subseteq {"day"}
    OBVIOUS
  <2>3. DOMAIN values \subseteq C["hours"]
    <3> HIDE DEF day
    <3> QED BY <1>2, <2>2 DEF Over
  <2>4. "hours.preload" \notin {"idle"} \cup Reading \cup Writing \cup Editing
    BY DEF Reading, Writing, PlainReading, PlainWriting, Editing
  <2>5. Begin(r, "hours.preload", m)
    BY <2>1
  <2> HIDE DEF values
  <2>6. Memory(m).dto.values = values
    BY DEF Memory, NoMem
  <2> HIDE DEF m
  <2>7. mem'[r] = Memory(m) /\ step'[r] = "hours.preload" => Told(r)'
    BY <2>3, <2>4, <2>6 DEF Told, Editing, Reading, Writing, Looping
  <2> QED BY <2>1, <2>4, <2>5, <2>7, BegunTold
<1>7. CASE UpdateHoursPreload(r)
  <2>1. r \in Open /\ step[r] = "hours.preload"
    BY <1>7, Under DEF UpdateHoursPreload, Ended
  <2>2. CASE Reads(r, "error", NoMem)
    BY <2>1, <2>2, Gone, Ending DEF Ended
  <2>3. CASE /\ mem[r].dto.id \in Live("hours")
             /\ Reads(r, "hours.reload",
                  Save(Single(<<"hours", mem[r].dto.id>>,
                              Assigned(Row("hours", mem[r].dto.id), mem[r].dto.values)),
                       DOMAIN mem[r].dto.values))
    <3> DEFINE k == <<"hours", mem[r].dto.id>>
               row == Row("hours", mem[r].dto.id)
               values == mem[r].dto.values
    <3>1. k \in DOMAIN db /\ row = db[k]
      BY <1>1, <2>3, LiveKey
    <3>2. Fits(C, k, row) /\ \A c \in DOMAIN row : row[c] = db[k][c]
      BY <1>1, <3>1, RowFits
    <3>3. DOMAIN values \subseteq C[k[1]]
      BY <1>1, <2>1 DEF Told
    <3>4. "hours.reload" \in PlainReading /\ step[r] \notin Making
      BY <2>1 DEF PlainReading, Making, Looping, Ended
    <3>5. Reads(r, "hours.reload", Save(Single(k, Assigned(row, values)), DOMAIN values))
      BY <2>3
    <3> HIDE DEF k, row, values
    <3> QED BY <2>1, <3>1, <3>2, <3>3, <3>4, <3>5, GoneWithRow
  <2> QED BY <1>7, <2>2, <2>3 DEF UpdateHoursPreload
<1>8. CASE HoursReload(r)
  BY <1>8, Under, Reloaded DEF HoursReload, PlainReading, PlainWriting
<1>9. CASE HoursWrite(r)
  BY <1>9, Under, Written, Ending DEF HoursWrite, PlainWriting, Ended
<1>10. CASE RemoveHours(r)
  <2>1. PICK ids \in SUBSET Ids("hours") \ {{}} :
          Begin(r, "ok", NoMem) /\ Removes(r, {"hours"} \X ids)
    BY <1>10 DEF RemoveHours
  <2>2. {"hours"} \X ids \subseteq DOMAIN db
    BY <1>1, <2>1, IdsKeys
  <2>3. ColumnInv(C)' /\ Changes(r) /\ DOMAIN hist' = DOMAIN hist
    BY <1>1, <2>1, <2>2, RemovesChange, RemovesSpare
  <2>4. "ok" \notin {"idle"} \cup Telling
    BY Ending DEF Ended, Plainly
  <2> QED BY <2>1, <2>3, <2>4, BegunWriting
<1> QED BY <1>3, <1>4, <1>5, <1>6, <1>7, <1>8, <1>9, <1>10 DEF HoursOperation

\* The links a request found, to be deleted by a date, perhaps none.
LEMMA GoneToUnlink ==
    ASSUME CatInv, area' = area, NEW r \in Open, step[r] \notin Making,
           NEW links \in SUBSET Ids("link"), NEW dto,
           Reads(r, "links.reload", SaveWith(dto, LinksDeleted(links), {"at"}))
    PROVE  CatInv'
<1> DEFINE rows == LinksDeleted(links)
           m == SaveWith(dto, rows, {"at"})
           keys == {"link"} \X links
<1>1. ColumnInv(CatalogueColumns)
  BY CatShared
<1>2. keys \subseteq DOMAIN db
  BY <1>1, IdsKeys
<1>3. \A k \in keys : k[1] \in DOMAIN CatalogueColumns
  BY DEF CatalogueColumns
<1>4. rows = [k \in keys |-> Assigned(db[k], Deleted)]
  BY DEF LinksDeleted
<1> HIDE DEF keys, rows
<1>5. Knows(CatalogueColumns, r, rows, {"at"}) /\ DOMAIN rows \subseteq DOMAIN hist
  BY <1>1, <1>2, <1>3, <1>4, DeletedKnown
<1>6. Over(m, mem[r]).rows = rows /\ Over(m, mem[r]).meant = {"at"}
  BY DEF SaveWith, Over
<1>7. Reads(r, "links.reload", m) /\ "links.reload" \in PlainReading
  BY DEF rows, PlainReading
<1> HIDE DEF m
<1> QED BY <1>5, <1>6, <1>7, GoneToSave

LEMMA DiscountCat ==
    ASSUME CatInv, area' = area, NEW r \in Request, DiscountOperation(r)
    PROVE  CatInv'
<1> DEFINE C == CatalogueColumns
           Quiet == {"discount.stores", "discount.insert", "discount.links", "discount.find",
                     "discount.diff", "links.stores", "links.insert", "discount.mark",
                     "discount.links.find"}
<1>1. ColumnInv(C)
  BY CatShared
<1>2. /\ C["discount"] = {"at", "code", "status"}
      /\ C["link"] = {"at", "discount", "store", "status"}
  BY DEF CatalogueColumns
<1>3. ASSUME NEW s \in Quiet
      PROVE  s \notin {"idle"} \cup Telling /\ s \notin Making
  BY DEF Telling, Editing, Reading, Writing, PlainReading, PlainWriting, Making, Looping, Ended
<1>4. \A s \in Quiet : step[r] \notin Making => Plainly(r, s)
  BY <1>3 DEF Plainly
<1>5. \A s \in Quiet : step[r] = s => r \in Open /\ step[r] \notin Making
  BY <1>3 DEF Open, Making
<1> HIDE DEF Quiet
<1>6. CASE AddDiscount(r) \/ UpdateDiscount(r) \/ AddDiscountTransaction(r) \/ DeleteDiscount(r)
  <2>1. PICK s \in {"discount.stores", "discount.find", "error", "discount.mark"} :
          \E m : Begin(r, s, m) /\ UNCHANGED <<db, hist>>
    BY <1>6 DEF AddDiscount, UpdateDiscount, AddDiscountTransaction, DeleteDiscount
  <2>2. s \in Quiet \cup {"error"}
    BY <2>1 DEF Quiet
  <2>3. s \notin {"idle"} \cup Telling
    BY <1>3, <2>2, Ending DEF Ended, Plainly
  <2> QED BY <2>1, <2>3, Begun
<1>7. CASE AddDiscountStores(r)
  <2>1. PICK m : Reads(r, "error", m) \/ Reads(r, "discount.insert", m)
    BY <1>7 DEF AddDiscountStores
  <2>2. step[r] = "discount.stores"
    BY <1>7 DEF AddDiscountStores, At
  <2>3. r \in Open /\ Plainly(r, "error") /\ Plainly(r, "discount.insert")
    BY <1>4, <1>5, <2>2, Ending DEF Quiet, Ended
  <2> QED BY <2>1, <2>3, Gone
<1>8. CASE AddDiscountInsert(r)
  <2> DEFINE rows == Single(<<"discount", r>>, DiscountRow(mem[r].dto.code, mem[r].dto.status))
  <2>1. InsertThen(r, rows, "discount.links", <<>>) /\ step[r] = "discount.insert"
    BY <1>8 DEF AddDiscountInsert, At
  <2>2. r \in Open /\ Plainly(r, "discount.links")
    BY <1>4, <1>5, <2>1 DEF Quiet
  <2>3. Schema(C, rows) /\ \A k \in DOMAIN rows : k[1] # "option"
    BY <1>2 DEF Schema, Single, DiscountRow
  <2> HIDE DEF rows
  <2> QED BY <2>1, <2>2, <2>3, GoneInserting
<1>9. ASSUME NEW d, NEW stores, NEW status
      PROVE  /\ Schema(C, NewLinks(r, d, stores, status))
             /\ \A k \in DOMAIN NewLinks(r, d, stores, status) : k[1] # "option"
  <2> DEFINE rows == NewLinks(r, d, stores, status)
  <2> SUFFICES ASSUME NEW k \in DOMAIN rows
               PROVE  /\ k = <<k[1], k[2]>> /\ DOMAIN rows[k] = C[k[1]]
                      /\ k[1] # "option"
    BY DEF Schema
  <2>1. PICK s \in stores : k = <<"link", <<r, s>>>>
    BY DEF NewLinks
  <2>2. rows[k] = LinkRow(d, k[2][2], status)
    BY DEF NewLinks
  <2> QED BY <1>2, <2>1, <2>2 DEF LinkRow
<1>10. CASE AddDiscountLinks(r) \/ UpdateDiscountLinks(r)
  <2>1. PICK d, stores, status : InsertThen(r, NewLinks(r, d, stores, status), "ok", NoMem)
    BY <1>10 DEF AddDiscountLinks, UpdateDiscountLinks
  <2>2. step[r] \in {"discount.links", "links.insert"}
    BY <1>10 DEF AddDiscountLinks, UpdateDiscountLinks, At
  <2>3. r \in Open
    BY <1>5, <2>2 DEF Quiet
  <2> QED BY <1>9, <2>1, <2>3, GoneInserting, Ending DEF Ended
<1>11. CASE UpdateDiscountFind(r)
  <2> DEFINE dto == mem[r].dto
             k == <<"discount", dto.id>>
             row == Row("discount", dto.id)
             values == [code |-> dto.code, status |-> dto.status]
  <2>1. step[r] = "discount.find"
    BY <1>11 DEF UpdateDiscountFind, At
  <2>2. r \in Open /\ step[r] \notin Making
    BY <1>5, <2>1 DEF Quiet
  <2>3. CASE Reads(r, "error", NoMem)
    BY <2>2, <2>3, Gone, Ending DEF Ended
  <2>4. CASE /\ dto.id \in Live("discount")
             /\ Reads(r, "discount.reload", Save(Single(k, Assigned(row, values)), {"code", "status"}))
    <3>1. k \in DOMAIN db /\ row = db[k]
      BY <1>1, <2>4, LiveKey
    <3>2. Fits(C, k, row) /\ \A c \in DOMAIN row : row[c] = db[k][c]
      BY <1>1, <3>1, RowFits
    <3>3. {"code", "status"} = DOMAIN values /\ DOMAIN values \subseteq C[k[1]]
      BY <1>2
    <3>4. "discount.reload" \in PlainReading
      BY DEF PlainReading
    <3>5. Reads(r, "discount.reload", Save(Single(k, Assigned(row, values)), {"code", "status"}))
      BY <2>4
    <3> HIDE DEF k, row, values
    <3> QED BY <2>2, <3>1, <3>2, <3>3, <3>4, <3>5, GoneWithRow
  <2> QED BY <1>11, <2>3, <2>4 DEF UpdateDiscountFind
<1>12. CASE DiscountReload(r) \/ LinksReload(r) \/ DeleteDiscountsReload(r)
  BY <1>12, Under, Reloaded
     DEF DiscountReload, LinksReload, DeleteDiscountsReload, PlainReading, PlainWriting
<1>13. CASE DiscountWrite(r) \/ LinksWrite(r) \/ DeleteDiscountsWrite(r)
  <2>1. step[r] \in {"discount.write", "links.write", "discounts.write"}
    BY <1>13 DEF DiscountWrite, LinksWrite, DeleteDiscountsWrite, At
  <2>2. step[r] \in PlainWriting /\ step[r] \notin Making
    BY <2>1 DEF PlainWriting, Making, Looping, Ended
  <2>3. PICK s \in {"ok", "discount.diff", "links.stores", "discount.links.find"} :
          Write(r, s, <<>>)
    BY <1>13 DEF DiscountWrite, LinksWrite, DeleteDiscountsWrite
  <2>4. s = "ok" \/ s \in Quiet
    BY <2>3 DEF Quiet
  <2>5. Plainly(r, s)
    BY <1>4, <2>2, <2>4, Ending DEF Ended
  <2> QED BY <2>2, <2>3, <2>5, Written
<1>14. CASE UpdateDiscountDiff(r)
  <2>1. step[r] = "discount.diff"
    BY <1>14 DEF UpdateDiscountDiff, At
  <2>2. r \in Open /\ step[r] \notin Making
    BY <1>5, <2>1 DEF Quiet
  <2>3. \E links \in SUBSET Ids("link") : \E dto :
          Reads(r, "links.reload", SaveWith(dto, LinksDeleted(links), {"at"}))
    BY <1>14 DEF UpdateDiscountDiff, LiveLinks, Live
  <2> QED BY <2>2, <2>3, GoneToUnlink
<1>15. CASE UpdateDiscountStores(r)
  <2>1. PICK m : Reads(r, "ok", m) \/ Reads(r, "links.insert", m)
    BY <1>15 DEF UpdateDiscountStores
  <2>2. step[r] = "links.stores"
    BY <1>15 DEF UpdateDiscountStores, At
  <2>3. r \in Open /\ Plainly(r, "ok") /\ Plainly(r, "links.insert")
    BY <1>4, <1>5, <2>2, Ending DEF Quiet, Ended
  <2> QED BY <2>1, <2>3, Gone
<1>16. CASE ChangeDiscountStatus(r)
  <2>1. PICK d \in Live("discount"), status \in StatusBody :
          /\ Begin(r, "discount.reload",
               Save(Single(<<"discount", d>>, Assigned(Row("discount", d), [status |-> status])),
                    {"status"}))
          /\ UNCHANGED <<db, hist>>
    BY <1>16 DEF ChangeDiscountStatus
  <2> DEFINE k == <<"discount", d>>
             row == Row("discount", d)
             values == [status |-> status]
  <2>2. k \in DOMAIN db /\ row = db[k]
    BY <1>1, LiveKey
  <2>3. Fits(C, k, row) /\ \A c \in DOMAIN row : row[c] = db[k][c]
    BY <1>1, <2>2, RowFits
  <2>4. {"status"} = DOMAIN values /\ DOMAIN values \subseteq C[k[1]]
    BY <1>2
  <2>5. "discount.reload" \in PlainReading
    BY DEF PlainReading
  <2>6. Begin(r, "discount.reload", Save(Single(k, Assigned(row, values)), {"status"}))
    BY <2>1
  <2> HIDE DEF k, row, values
  <2> QED BY <2>1, <2>2, <2>3, <2>4, <2>5, <2>6, BegunWithRow
<1>17. CASE DeleteDiscountMark(r)
  <2>1. /\ Updates(r, {"discount"} \X mem[r].dto.ids, Deleted)
        /\ Goto(r, "discount.links.find", <<>>) /\ step[r] = "discount.mark"
    BY <1>17 DEF DeleteDiscountMark, At
  <2>2. r \in Open /\ Plainly(r, "discount.links.find")
    BY <1>4, <1>5, <2>1 DEF Quiet
  <2>3. \A k \in {"discount"} \X mem[r].dto.ids : k[1] \in DOMAIN C
    BY DEF CatalogueColumns
  <2> QED BY <2>1, <2>2, <2>3, GoneUpdating
<1>18. CASE DeleteDiscounts(r)
  <2>1. PICK ids \in SUBSET Ids("discount") :
          /\ Begin(r, "discounts.reload",
               SaveWith([ids |-> ids, one |-> FALSE],
                        [k \in {"discount"} \X (ids \cap Live("discount")) |->
                            Assigned(db[k], Deleted)], {"at"}))
          /\ UNCHANGED <<db, hist>>
    BY <1>18 DEF DeleteDiscounts
  <2> DEFINE keys == {"discount"} \X (ids \cap Live("discount"))
             rows == [k \in keys |-> Assigned(db[k], Deleted)]
             m == SaveWith([ids |-> ids, one |-> FALSE], rows, {"at"})
  <2>2. keys \subseteq DOMAIN db
    <3>1. ids \cap Live("discount") \subseteq Ids("discount")
      BY DEF Live
    <3> QED BY <1>1, <3>1, IdsKeys
  <2>3. \A k \in keys : k[1] \in DOMAIN C
    BY DEF CatalogueColumns
  <2> HIDE DEF keys
  <2>4. Knows(C, r, rows, {"at"}) /\ DOMAIN rows \subseteq DOMAIN hist
    BY <1>1, <2>2, <2>3, DeletedKnown
  <2> HIDE DEF rows
  <2>5. Memory(m).rows = rows /\ Memory(m).meant = {"at"}
    BY DEF SaveWith, Memory, NoMem
  <2>6. Begin(r, "discounts.reload", m) /\ "discounts.reload" \in PlainReading
    BY <2>1 DEF rows, keys, PlainReading
  <2> HIDE DEF m
  <2> QED BY <2>1, <2>4, <2>5, <2>6, BegunToSave
<1>19. CASE DeleteDiscountLinks(r)
  <2>1. step[r] = "discount.links.find"
    BY <1>19 DEF DeleteDiscountLinks, At
  <2>2. r \in Open /\ step[r] \notin Making
    BY <1>5, <2>1 DEF Quiet
  <2>3. CASE Reads(r, "error", NoMem)
    BY <2>2, <2>3, Gone, Ending DEF Ended
  <2>4. CASE \E links \in SUBSET Ids("link") : \E dto :
          Reads(r, "links.reload", SaveWith(dto, LinksDeleted(links), {"at"}))
    BY <2>2, <2>4, GoneToUnlink
  <2>5. UNION {LiveLinks(d) : d \in mem[r].dto.ids} \in SUBSET Ids("link")
    BY DEF LiveLinks, Live
  <2> QED BY <1>19, <2>3, <2>4, <2>5 DEF DeleteDiscountLinks
<1> QED BY <1>6, <1>7, <1>8, <1>10, <1>11, <1>12, <1>13, <1>14, <1>15, <1>16, <1>17, <1>18, <1>19
        DEF DiscountOperation

\* It is about to mark a row as deleted.
LEMMA BegunToMark ==
    ASSUME CatInv, area' = area, NEW r \in Request, NEW t \in DOMAIN CatalogueColumns, NEW i,
           Begin(r, "mark", [dto |-> <<t, i>>]), UNCHANGED <<db, hist>>
    PROVE  CatInv'
<1> DEFINE m == [dto |-> <<t, i>>]
<1>1. "mark" \notin {"idle"} \cup Reading \cup Writing \cup Editing
  BY DEF Reading, Writing, PlainReading, PlainWriting, Editing
<1>2. Memory(m).dto[1] = t
  BY DEF Memory, NoMem
<1>3. Begin(r, "mark", m)
  OBVIOUS
<1> HIDE DEF m
<1>4. mem'[r] = Memory(m) /\ step'[r] = "mark" => Told(r)'
  BY <1>1, <1>2 DEF Told, Editing, Reading, Writing, Looping
<1> QED BY <1>1, <1>3, <1>4, BegunTold

LEMMA CategoryCat ==
    ASSUME CatInv, area' = area, NEW r \in Request, CategoryOperation(r)
    PROVE  CatInv'
<1> DEFINE C == CatalogueColumns
<1>1. ColumnInv(C)
  BY CatShared
<1>2. CASE AddCategory(r)
  <2>1. PICK dto \in CategoryDto :
          Begin(r, "ok", NoMem) /\ Inserts(r, Single(<<"category", r>>, CategoryRow(dto.title)))
    BY <1>2 DEF AddCategory
  <2>2. /\ Schema(C, Single(<<"category", r>>, CategoryRow(dto.title)))
        /\ \A k \in DOMAIN Single(<<"category", r>>, CategoryRow(dto.title)) : k[1] # "option"
    BY DEF Schema, Single, CategoryRow, CatalogueColumns
  <2> QED BY <2>1, <2>2, BegunInserting
<1>3. CASE EditCategory(r)
  <2>1. PICK c \in Live("category"), dto \in CategoryDto :
          /\ Begin(r, "entity.reload",
               Save(Single(<<"category", c>>, Assigned(Row("category", c), dto)), {"title"}))
          /\ UNCHANGED <<db, hist>>
    BY <1>3 DEF EditCategory
  <2> DEFINE k == <<"category", c>>
             row == Row("category", c)
  <2>2. k \in DOMAIN db /\ row = db[k]
    BY <1>1, LiveKey
  <2>3. Fits(C, k, row) /\ \A d \in DOMAIN row : row[d] = db[k][d]
    BY <1>1, <2>2, RowFits
  <2>4. {"title"} = DOMAIN dto /\ DOMAIN dto \subseteq C[k[1]]
    BY DEF CategoryDto, CatalogueColumns
  <2>5. "entity.reload" \in PlainReading
    BY DEF PlainReading
  <2>6. Begin(r, "entity.reload", Save(Single(k, Assigned(row, dto)), {"title"}))
    BY <2>1
  <2> HIDE DEF k, row
  <2> QED BY <2>1, <2>2, <2>3, <2>4, <2>5, <2>6, BegunWithRow
<1>4. CASE DeleteCategory(r)
  <2>1. PICK c \in Live("category") :
          Begin(r, "mark", [dto |-> <<"category", c>>]) /\ UNCHANGED <<db, hist>>
    BY <1>4 DEF DeleteCategory
  <2>2. "category" \in DOMAIN C
    BY DEF CatalogueColumns
  <2> QED BY <2>1, <2>2, BegunToMark
<1>5. CASE Mark(r)
  <2>1. /\ Updates(r, {mem[r].dto}, Deleted) /\ Goto(r, "ok", NoMem)
        /\ r \in Open /\ step[r] = "mark"
    BY <1>5, Under DEF Mark, Ended
  <2>2. \A k \in {mem[r].dto} : k[1] \in DOMAIN C
    BY <2>1 DEF CatInv, Told
  <2> QED BY <2>1, <2>2, GoneUpdating, Ending DEF Ended
<1>6. CASE EntityReload(r)
  BY <1>6, Under, Reloaded DEF EntityReload, PlainReading, PlainWriting
<1>7. CASE EntityWrite(r)
  BY <1>7, Under, Written, Ending DEF EntityWrite, PlainWriting, Ended
<1> QED BY <1>2, <1>3, <1>4, <1>5, <1>6, <1>7 DEF CategoryOperation

LEMMA ProductCat ==
    ASSUME CatInv, area' = area, NEW r \in Request, ProductOperation(r)
    PROVE  CatInv'
<1> DEFINE C == CatalogueColumns
<1>1. ColumnInv(C) /\ Told(r)
  BY CatShared DEF CatInv
<1>2. C["product"] = {"at", "title", "category", "store"}
  BY DEF CatalogueColumns
<1>3. CASE AddProduct(r)
  <2>1. PICK title, category, store :
          /\ Begin(r, "product.insert", [dto |-> ProductRow(title, category, store)])
          /\ UNCHANGED <<db, hist>>
    BY <1>3 DEF AddProduct
  <2> DEFINE m == [dto |-> ProductRow(title, category, store)]
  <2>2. "product.insert" \notin {"idle"} \cup Reading \cup Writing \cup Editing
    BY DEF Reading, Writing, PlainReading, PlainWriting, Editing
  <2>3. DOMAIN Memory(m).dto = C["product"]
    BY <1>2 DEF Memory, NoMem, ProductRow
  <2>4. Begin(r, "product.insert", m)
    BY <2>1
  <2> HIDE DEF m
  <2>5. mem'[r] = Memory(m) /\ step'[r] = "product.insert" => Told(r)'
    BY <2>2, <2>3 DEF Told, Editing, Reading, Writing, Looping
  <2> QED BY <2>1, <2>2, <2>4, <2>5, BegunTold
<1>4. CASE AddProductInsert(r)
  <2> DEFINE rows == Single(<<"product", r>>, mem[r].dto)
  <2>1. InsertThen(r, rows, "ok", NoMem) /\ r \in Open /\ step[r] = "product.insert"
    BY <1>4, Under DEF AddProductInsert, Ended
  <2>2. Schema(C, rows) /\ \A k \in DOMAIN rows : k[1] # "option"
    BY <1>1, <2>1 DEF Told, Schema, Single
  <2> HIDE DEF rows
  <2> QED BY <2>1, <2>2, GoneInserting, Ending DEF Ended
<1>5. CASE EditProduct(r)
  <2>1. PICK p \in Live("product"), dto \in EditProductDto(Ids("store"), Ids("category")) :
          /\ Begin(r, "product.check",
               Save(Single(<<"product", p>>,
                           Assigned(Only(Row("product", p), ProductColumns),
                                    Only(dto, {c \in DOMAIN dto : dto[c] # Null}))),
                    DOMAIN Only(dto, {c \in DOMAIN dto : dto[c] # Null})))
          /\ UNCHANGED <<db, hist>>
    BY <1>5 DEF EditProduct
  <2> DEFINE k == <<"product", p>>
             row == Only(Row("product", p), ProductColumns)
             values == Only(dto, {c \in DOMAIN dto : dto[c] # Null})
  <2>2. k \in DOMAIN db /\ Row("product", p) = db[k]
    BY <1>1, LiveKey
  <2>3. Fits(C, k, row)
    <3>1. ProductColumns \subseteq C[k[1]] /\ C[k[1]] \ ProductColumns \subseteq {"category", "store"}
      BY <1>2 DEF ProductColumns
    <3>2. {"category", "store"} \subseteq ForeignColumns(k)
      BY CatForeign
    <3> QED BY <3>1, <3>2, LoadedFits
  <2>4. \A c \in DOMAIN row : row[c] = db[k][c]
    BY <2>2 DEF Only
  <2>5. DOMAIN values \subseteq C[k[1]]
    <3>1. DOMAIN values \subseteq DOMAIN dto
      BY DEF Only
    <3>2. DOMAIN dto = {"title", "category", "store"}
      BY DEF EditProductDto
    <3> QED BY <1>2, <3>1, <3>2
  <2>6. "product.check" \in PlainReading
    BY DEF PlainReading
  <2>7. Begin(r, "product.check", Save(Single(k, Assigned(row, values)), DOMAIN values))
    BY <2>1
  <2> HIDE DEF k, row, values
  <2> QED BY <2>1, <2>2, <2>3, <2>4, <2>5, <2>6, <2>7, BegunWithRow
<1>6. CASE EditProductCheck(r)
  <2>1. r \in Open /\ step[r] = "product.check"
    BY <1>6, Under DEF EditProductCheck, Ended
  <2>2. CASE Reads(r, "error", <<>>)
    BY <2>1, <2>2, Gone, Ending DEF Ended
  <2>3. CASE Reads(r, "entity.reload", <<>>)
    <3>1. step[r] \in Reading /\ step[r] \notin Making /\ "entity.reload" \in PlainReading
      BY <2>1 DEF Reading, PlainReading, Making, Looping, Ended
    <3>2. Knows(C, r, mem[r].rows, mem[r].meant)
      BY <3>1 DEF CatInv, CatSaveInv, SaveInv, Keeps, Holds
    <3>3. DOMAIN mem[r].rows \subseteq DOMAIN hist
      BY <1>1, <2>1, <3>1 DEF Told
    <3>4. DOMAIN NoMem \subseteq DOMAIN mem[r]
      BY CatShared DEF HoldInv
    <3>5. Over(<<>>, mem[r]).rows = mem[r].rows /\ Over(<<>>, mem[r]).meant = mem[r].meant
      BY <3>4 DEF Over, NoMem
    <3> QED BY <2>1, <2>3, <3>1, <3>2, <3>3, <3>5, GoneToSave
  <2> QED BY <1>6, <2>2, <2>3 DEF EditProductCheck
<1>7. CASE DeleteProduct(r)
  <2>1. PICK p \in Live("product") :
          Begin(r, "mark", [dto |-> <<"product", p>>]) /\ UNCHANGED <<db, hist>>
    BY <1>7 DEF DeleteProduct
  <2>2. "product" \in DOMAIN C
    BY DEF CatalogueColumns
  <2> QED BY <2>1, <2>2, BegunToMark
<1> QED BY <1>3, <1>4, <1>5, <1>6, <1>7 DEF ProductOperation

-----------------------------------------------------------------------------
(* updateModifier: what it read it knows over the statements of its own.   *)

LEMMA NothingSpares ==
    ASSUME UNCHANGED <<db, hist>>, NEW r, NEW k \in DOMAIN hist, NEW meant
    PROVE  Spares(r, k, meant)
BY DEF Spares, Same

LEMMA EditStays ==
    ASSUME CatInv, ColumnInv(CatalogueColumns)', MetGrows, NEW r \in Request, EditKnown(r),
           DOMAIN hist \subseteq DOMAIN hist',
           \A k \in DOMAIN hist : k[1] = "group" => Spares(r, k, {"title"}),
           \A k \in DOMAIN hist : k[1] = "option" /\ (\A n \in Nat : k # OptionKey(r, n))
                                    => Spares(r, k, Priced),
           DOMAIN mem'[r].dto = DOMAIN mem[r].dto,
           mem'[r].dto.id = mem[r].dto.id, mem'[r].dto.group = mem[r].dto.group,
           mem'[r].dto.existing = mem[r].dto.existing,
           mem'[r].dto.options # Null => IsSeq(mem'[r].dto.options)
    PROVE  EditKnown(r)'
<1> DEFINE C == CatalogueColumns
<1>1. PICK dto : dto = mem[r].dto
  OBVIOUS
<1>2. PICK group : group = Single(<<"group", dto.id>>, dto.group)
  OBVIOUS
<1>3. PICK existing : existing = dto.existing
  OBVIOUS
<1>4. /\ DOMAIN dto = {"categories", "options", "id", "group", "existing"}
      /\ <<"group", dto.id>> \in DOMAIN hist
      /\ Knows(C, r, group, {"title"})
      /\ Knows(C, r, existing, Priced)
      /\ \A k \in DOMAIN existing :
            k \in DOMAIN hist /\ k[1] = "option" /\ \A n \in Nat : k # OptionKey(r, n)
  BY <1>1, <1>2, <1>3 DEF EditKnown
<1>5. /\ ColumnInv(C)
      /\ \A k \in DOMAIN hist : k \in DOMAIN hist' => DOMAIN hist'[k] = DOMAIN hist[k]
  BY CatShared DEF ColumnInv, Schema
<1> HIDE DEF C
<1>6. \A k \in DOMAIN group : k \in DOMAIN hist' => Spares(r, k, {"title"})
  <2>1. DOMAIN group = {<<"group", dto.id>>}
    BY <1>2 DEF Single
  <2>2. <<"group", dto.id>>[1] = "group"
    OBVIOUS
  <2> QED BY <1>4, <2>1, <2>2
<1>7. \A k \in DOMAIN existing : k \in DOMAIN hist' => Spares(r, k, Priced)
  BY <1>4
<1>8. Knows(C, r, group, {"title"})'
  BY <1>4, <1>5, <1>6, KnowsSpared
<1>9. Knows(C, r, existing, Priced)'
  BY <1>4, <1>5, <1>7, KnowsSpared
<1>10. group = Single(<<"group", mem[r].dto.id>>, mem[r].dto.group)'
  BY <1>1, <1>2 DEF Single
<1>11. existing = mem'[r].dto.existing /\ dto.id = mem'[r].dto.id
  BY <1>1, <1>3
<1>12. \A k \in DOMAIN existing : k \in DOMAIN hist'
  BY <1>4
<1>13. <<"group", mem'[r].dto.id>> \in DOMAIN hist'
  BY <1>4, <1>11
<1> QED BY <1>1, <1>4, <1>8, <1>9, <1>10, <1>11, <1>12, <1>13 DEF EditKnown, C

\* It reads, and holds what it held of the body, perhaps fewer options.
LEMMA EditReads ==
    ASSUME CatInv, NEW r \in Request, EditKnown(r), UNCHANGED <<db, hist>>, MetGrows,
           DOMAIN mem'[r].dto = DOMAIN mem[r].dto,
           mem'[r].dto.id = mem[r].dto.id, mem'[r].dto.group = mem[r].dto.group,
           mem'[r].dto.existing = mem[r].dto.existing,
           mem'[r].dto.options # Null => IsSeq(mem'[r].dto.options)
    PROVE  EditKnown(r)'
<1>1. ColumnInv(CatalogueColumns)
  BY CatShared
<1>2. ColumnInv(CatalogueColumns)'
  BY <1>1, NothingWritten
<1>3. \A k \in DOMAIN hist : Spares(r, k, {"title"}) /\ Spares(r, k, Priced)
  BY NothingSpares
<1> QED BY <1>2, <1>3, EditStays

\* Statements on other tables, or on options it does not hold.
LEMMA EditSpared ==
    ASSUME CatInv, ColumnInv(CatalogueColumns)', MetGrows, NEW r \in Request, EditKnown(r),
           DOMAIN hist \subseteq DOMAIN hist',
           \A k \in DOMAIN hist :
              (k[1] = "group" \/ (k[1] = "option" /\ \A n \in Nat : k # OptionKey(r, n)))
                => Spares(r, k, {}),
           mem'[r].dto = mem[r].dto
    PROVE  EditKnown(r)'
<1>1. \A k \in DOMAIN hist :
         (k[1] = "group" \/ (k[1] = "option" /\ \A n \in Nat : k # OptionKey(r, n)))
           => Spares(r, k, {"title"}) /\ Spares(r, k, Priced)
  BY DEF Spares
<1>2. mem[r].dto.options # Null => IsSeq(mem[r].dto.options)
  BY DEF EditKnown
<1> QED BY <1>1, <1>2, EditStays

LEMMA EditBegun ==
    ASSUME CatInv, area' = area, NEW r \in Request, UpdateModifier(r)
    PROVE  CatInv'
<1> DEFINE C == CatalogueColumns
<1>1. PICK g \in Live("group"), dto \in GroupEdit :
        /\ Begin(r, "edit",
             [dto |-> [categories |-> dto.categories, options |-> dto.options, id |-> g,
                       group |-> Assigned(Row("group", g), [title |-> "edited"]),
                       existing |-> <<>>]])
        /\ UNCHANGED <<db, hist>>
  BY DEF UpdateModifier
<1> DEFINE values == [title |-> "edited"]
           k == <<"group", g>>
           row == Row("group", g)
           body == [categories |-> dto.categories, options |-> dto.options, id |-> g,
                    group |-> Assigned(row, values), existing |-> <<>>]
           m == [dto |-> body]
<1>2. ColumnInv(C)
  BY CatShared
<1>3. k \in DOMAIN db /\ row = db[k]
  BY <1>2, LiveKey
<1>4. Fits(C, k, row) /\ \A c \in DOMAIN row : row[c] = db[k][c]
  BY <1>2, <1>3, RowFits
<1>5. DOMAIN values = {"title"} /\ DOMAIN values \subseteq C[k[1]]
  BY DEF CatalogueColumns
<1>6. "edit" \notin {"idle"} \cup Reading \cup Writing
  BY DEF Reading, Writing, PlainReading, PlainWriting
<1>7. dto.options # Null => IsSeq(dto.options)
  BY GroupAssumption DEF EditModifierGroupDto, IsSeq
<1>8. PICK rows : rows = Single(k, Assigned(row, values))
  OBVIOUS
<1>9. k \in DOMAIN hist
  BY <1>2, <1>3 DEF ColumnInv
<1>10. Begin(r, "edit", m)
  BY <1>1
<1> HIDE DEF values, row
<1>11. Knows(C, r, rows, {"title"}) /\ Knows(C, r, <<>>, Priced)
  <2>1. Knows(C, r, Single(k, Assigned(row, values)), DOMAIN values)
    BY <1>2, <1>3, <1>4, <1>5, KnowsOne
  <2>2. Knows(C, r, <<>>, Priced)
    BY DEF Knows
  <2> QED BY <1>5, <1>8, <2>1, <2>2
<1>12. Memory(m).dto = body
  BY DEF Memory, NoMem
<1> HIDE DEF m
<1>13. ASSUME mem'[r] = Memory(m), step'[r] = "edit", MetGrows
       PROVE  Told(r)'
  <2>1. Knows(C, r, rows, {"title"})' /\ Knows(C, r, <<>>, Priced)'
    BY <1>1, <1>2, <1>11, <1>13, KnowsYet
  <2>2. /\ DOMAIN mem'[r].dto = {"categories", "options", "id", "group", "existing"}
        /\ mem'[r].dto.options = dto.options /\ mem'[r].dto.id = g
        /\ mem'[r].dto.group = Assigned(row, values) /\ mem'[r].dto.existing = <<>>
    BY <1>12, <1>13
  <2>3. rows = Single(<<"group", mem[r].dto.id>>, mem[r].dto.group)'
    BY <1>8, <2>2 DEF Single
  <2>4. <<"group", mem'[r].dto.id>> \in DOMAIN hist'
    BY <1>1, <1>9, <2>2
  <2>5. EditKnown(r)'
    BY <1>7, <2>1, <2>2, <2>3, <2>4 DEF EditKnown
  <2> QED BY <1>6, <1>13, <2>5 DEF Told, Looping
<1> QED BY <1>1, <1>6, <1>10, <1>13, BegunTold

\* What every step of updateModifier starts from.
LEMMA EditAt ==
    ASSUME CatInv, NEW r \in Request, step[r] \in Editing
    PROVE  /\ r \in Open /\ EditKnown(r)
           /\ DOMAIN NoMem \subseteq DOMAIN mem[r]
           /\ mem[r].dto.options # Null => IsSeq(mem[r].dto.options)
<1>1. r \in Open
  BY DEF Open, Editing, Ended
<1>2. EditKnown(r)
  BY DEF CatInv, Told
<1> QED BY <1>1, <1>2, CatShared DEF HoldInv, EditKnown

LEMMA EditCategories ==
    ASSUME CatInv, area' = area, NEW r \in Request, UpdateModifierCategories(r)
    PROVE  CatInv'
<1>1. step[r] = "edit" /\ step[r] \in Editing
  BY DEF UpdateModifierCategories, At, Editing
<1>2. /\ r \in Open /\ EditKnown(r) /\ DOMAIN NoMem \subseteq DOMAIN mem[r]
      /\ mem[r].dto.options # Null => IsSeq(mem[r].dto.options)
  BY <1>1, EditAt
<1>3. CASE Reads(r, "error", <<>>)
  BY <1>2, <1>3, Gone, Ending DEF Ended
<1>4. CASE Reads(r, "edit.detach", <<>>)
  <2>1. "edit.detach" \notin {"idle"} \cup Reading \cup Writing
    BY DEF Reading, Writing, PlainReading, PlainWriting
  <2>2. Goto(r, "edit.detach", <<>>) /\ UNCHANGED <<db, hist>>
    BY <1>4 DEF Reads
  <2>3. CatSaveInv' /\ Moves(r, "edit.detach") /\ mem'[r] = Over(<<>>, mem[r])
    BY <1>2, <2>1, <2>2, GoReads, CatUnderWay DEF CatInv, CatSaveInv, Ended
  <2>4. mem'[r].dto = mem[r].dto
    BY <1>2, <2>3 DEF Over, NoMem
  <2>5. EditKnown(r)'
    BY <1>2, <2>2, <2>3, <2>4, EditReads DEF Moves
  <2>6. Told(r)'
    BY <2>1, <2>3, <2>5 DEF Moves, Told, Looping
  <2>7. step[r] \notin Making
    BY <1>1 DEF Making, Looping, Ended
  <2> QED BY <2>2, <2>3, <2>6, <2>7, CatStep, AddsNothing
<1> QED BY <1>3, <1>4 DEF UpdateModifierCategories

\* The attachments of the group go, and no other row goes with them.
LEMMA EditDetach ==
    ASSUME CatInv, area' = area, NEW r \in Request, UpdateModifierDetach(r)
    PROVE  CatInv'
<1> DEFINE C == CatalogueColumns
           keys == {"attached"} \X Attached(mem[r].dto.id)
           rows == Attach(mem[r].dto.id, mem[r].dto.categories)
           all == {"at", "group", "category"}
           m == Save(rows, all)
           s == "edit.attach.reload"
<1>1. /\ step[r] = "edit.detach" /\ step[r] \in Editing
      /\ Removes(r, keys) /\ Goto(r, s, m)
  BY DEF UpdateModifierDetach, At, Editing
<1>2. r \in Open /\ EditKnown(r) /\ DOMAIN NoMem \subseteq DOMAIN mem[r]
  BY <1>1, EditAt
<1>3. ColumnInv(C) /\ HoldInv
  BY CatShared
<1>4. keys \subseteq DOMAIN db
  BY <1>3, IdsKeys DEF Attached
<1>5. ColumnInv(C)' /\ Changes(r) /\ DOMAIN hist' = DOMAIN hist
  BY <1>1, <1>3, <1>4, RemovesChange, RemovesSpare
<1>6. Removal(keys) \subseteq keys
  BY CatReferences DEF Removal
<1>7. \A k \in DOMAIN hist : k[1] # "attached" => Spares(r, k, {})
  <2>1. \A k \in keys : k[1] = "attached"
    OBVIOUS
  <2> HIDE DEF keys
  <2> QED BY <1>1, <1>3, <1>4, <1>6, <2>1, RemovesSpare
<1>8. StepsTo(r, s) /\ GoesOn(r) /\ mem'[r] = Over(m, mem[r])
  BY <1>1, <1>2, <1>3, GotoSteps DEF GoesOn, Ended
<1>9. mem'[r].rows = rows /\ mem'[r].meant = all /\ mem'[r].dto = mem[r].dto
  <2> HIDE DEF rows, all
  <2>1. m = [rows |-> rows, meant |-> all]
    BY DEF Save
  <2> QED BY <1>2, <1>8, <2>1 DEF Over, NoMem
<1>10. step'[r] = s /\ s \notin Writing
  BY <1>3, <1>8 DEF HoldInv, StepsTo, Writing, PlainWriting
<1>11. PICK saved, meant : saved = rows /\ meant = all
  OBVIOUS
<1>12. \A k \in DOMAIN saved :
          /\ k[1] = "attached" /\ k = <<k[1], k[2]>>
          /\ DOMAIN saved[k] = C[k[1]] /\ C[k[1]] = meant
  <2>1. DOMAIN rows = {"attached"} \X ({mem[r].dto.id} \X mem[r].dto.categories)
    BY DEF Attach
  <2> SUFFICES ASSUME NEW k \in DOMAIN rows
               PROVE  /\ k[1] = "attached" /\ k = <<k[1], k[2]>>
                      /\ DOMAIN rows[k] = all /\ C[k[1]] = all
    BY <1>11
  <2>2. k[1] = "attached" /\ k = <<k[1], k[2]>>
    BY <2>1
  <2>3. rows[k] = AttachedRow(mem[r].dto.id, k[2][2])
    BY <2>1 DEF Attach
  <2> QED BY <2>2, <2>3 DEF AttachedRow, CatalogueColumns
<1>13. Keeps(C, Reading, Writing, r)'
  <2> HIDE DEF rows, all, C
  <2>1. \A k \in DOMAIN saved : k \in DOMAIN hist' => DOMAIN hist'[k] \ meant = {}
    BY <1>5, <1>12 DEF ColumnInv, Schema
  <2>2. \A k \in DOMAIN saved : Fits(C, k, saved[k])'
    BY <1>12 DEF Fits, ForeignColumns
  <2>3. Knows(C, r, saved, meant)'
    BY <2>1, <2>2 DEF Knows, Fresh
  <2>4. Holds(C, r)'
    BY <1>9, <1>11, <2>3 DEF Holds
  <2> QED BY <1>10, <2>4 DEF Keeps
<1>14. CatSaveInv' /\ Moves(r, s)
  <2>1. s # "idle"
    OBVIOUS
  <2> QED BY <1>5, <1>8, <1>13, <2>1, SaveStep, CatUnderWay DEF CatInv, CatSaveInv
<1>15. EditKnown(r)'
  BY <1>2, <1>5, <1>7, <1>9, <1>14, EditSpared DEF Moves
<1>16. Told(r)'
  <2>1. \A k \in DOMAIN rows : k[1] = "attached"
    BY <1>11, <1>12
  <2> HIDE DEF rows
  <2> QED BY <1>9, <1>10, <1>15, <2>1 DEF Told, Looping
<1>17. step[r] \notin Making
  BY <1>1 DEF Making, Looping, Ended
<1> QED BY <1>5, <1>14, <1>16, <1>17, CatStep, AddsNothing

\* It compares the attachments, or an option, with the tables.
LEMMA EditReloads ==
    ASSUME CatInv, area' = area, NEW r \in Request,
           UpdateModifierAttachReload(r) \/ UpdateModifierOptionReload(r)
    PROVE  CatInv'
<1>1. PICK s \in {"edit.attach", "edit.option.write"} :
        /\ step[r] = IF s = "edit.attach" THEN "edit.attach.reload" ELSE "edit.option.reload"
        /\ Reload(r, s)
  BY DEF UpdateModifierAttachReload, UpdateModifierOptionReload, At
<1>2. step[r] \in Reading /\ step[r] \in Editing /\ s \in Writing
  BY <1>1 DEF Reading, Writing, Editing
<1>3. r \in Open /\ EditKnown(r) /\ DOMAIN NoMem \subseteq DOMAIN mem[r]
  BY <1>2, EditAt
<1>4. CatSaveInv' /\ Moves(r, s) /\ mem'[r] = Over([dirty |-> DirtyOf(mem[r].rows)], mem[r])
  BY <1>1, <1>2, ReloadStep, CatUnderWay DEF CatInv, CatSaveInv
<1>5. UNCHANGED <<db, hist>>
  BY <1>1 DEF Reload, Reads
<1>6. mem'[r].rows = mem[r].rows /\ mem'[r].meant = mem[r].meant /\ mem'[r].dto = mem[r].dto
  BY <1>3, <1>4 DEF Over, NoMem
<1>7. EditKnown(r)'
  BY <1>3, <1>4, <1>5, <1>6, EditAt, <1>2, EditReads DEF Moves
<1>8. Told(r)
  BY DEF CatInv
<1>9. Told(r)'
  BY <1>1, <1>2, <1>4, <1>5, <1>6, <1>7, <1>8 DEF Moves, Told, Looping
<1>10. step[r] \in Making => s \in Making
  BY <1>1 DEF Making, Looping, Ended
<1> QED BY <1>4, <1>5, <1>9, <1>10, CatStep, AddsNothing

\* It writes them: rows of tables it holds nothing of, or columns of an
\* option that it sets itself.
LEMMA EditWrites ==
    ASSUME CatInv, area' = area, NEW r \in Request,
           UpdateModifierAttach(r) \/ UpdateModifierOptionWrite(r)
    PROVE  CatInv'
<1> DEFINE C == CatalogueColumns
<1>1. PICK s \in {"edit.attached", "edit.option"} :
        /\ step[r] = IF s = "edit.attached" THEN "edit.attach" ELSE "edit.option.write"
        /\ Write(r, s, <<>>)
  BY DEF UpdateModifierAttach, UpdateModifierOptionWrite, At
<1>2. /\ step[r] \in Writing /\ step[r] \in Editing
      /\ s \notin {"idle"} \cup Reading \cup Writing \cup Ended
      /\ step[r] \in Making => s \in Making
  BY <1>1 DEF Reading, Writing, PlainReading, PlainWriting, Editing, Making, Looping, Ended
<1>3. /\ r \in Open /\ EditKnown(r) /\ DOMAIN NoMem \subseteq DOMAIN mem[r]
      /\ mem[r].dto.options # Null => IsSeq(mem[r].dto.options)
  BY <1>2, EditAt
<1>4. Adds(r)
  BY <1>1, <1>2, WriteAdds
<1>5. CatSaveInv'
  BY <1>1, <1>2, WriteStep, CatUnderWay, CatReferences DEF CatInv, CatSaveInv
<1>6. CASE Moves(r, "error")
  BY <1>4, <1>5, <1>6, Quietly, Ending DEF Ended
<1>7. CASE Moves(r, s) /\ mem'[r] = Over(<<>>, mem[r])
  <2>1. mem'[r].dto = mem[r].dto
    BY <1>3, <1>7 DEF Over, NoMem
  <2>2. Compared(C, r) /\ ColumnInv(C)
    BY <1>2, CatShared DEF CatInv, CatSaveInv, SaveInv, Keeps
  <2>3. /\ ColumnInv(C)' /\ DOMAIN hist \subseteq DOMAIN hist'
        /\ \A k \in DOMAIN hist : k \notin DOMAIN mem[r].rows => Spares(r, k, {})
        /\ \A k \in DOMAIN hist : Spares(r, k, mem[r].meant)
    BY <1>1, <2>2, CatReferences, WriteChange
  <2>4. Told(r)
    BY DEF CatInv
  <2>6. EditKnown(r)'
    <3>1. CASE s = "edit.attached"
      <4>1. \A k \in DOMAIN mem[r].rows : k[1] = "attached"
        BY <1>1, <2>4, <3>1 DEF Told
      <4> QED BY <1>3, <1>7, <2>1, <2>3, <4>1, EditSpared DEF Moves
    <3>2. CASE s = "edit.option"
      <4>1. mem[r].meant = Priced /\ \A k \in DOMAIN mem[r].rows : k[1] = "option"
        BY <1>1, <2>4, <3>2 DEF Told
      <4>2. \A k \in DOMAIN hist : k[1] = "group" => Spares(r, k, {})
        BY <2>3, <4>1
      <4>3. \A k \in DOMAIN hist : k[1] = "group" => Spares(r, k, {"title"})
        BY <4>2 DEF Spares
      <4>4. \A k \in DOMAIN hist : Spares(r, k, Priced)
        BY <2>3, <4>1
      <4> QED BY <1>3, <1>7, <2>1, <2>3, <4>3, <4>4, EditStays DEF Moves
    <3> QED BY <3>1, <3>2
  <2>7. s \notin {"edit.option.insert", "edit.attach.reload", "edit.attach", "mark",
                  "product.insert", "hours.preload", "edit.option.reload", "edit.option.write"}
    OBVIOUS
  <2>8. Told(r)'
    <3>1. s \in Looping => IsSeq(mem'[r].dto.options)
      BY <1>1, <2>1, <2>4 DEF Told, Looping
    <3> QED BY <1>2, <1>7, <2>6, <2>7, <3>1 DEF Moves, Told
  <2> QED BY <1>2, <1>4, <1>5, <1>7, <2>8, CatStep
<1>8. (Moves(r, s) /\ mem'[r] = Over(<<>>, mem[r])) \/ Moves(r, "error")
  BY <1>1, <1>2, WriteStep, CatUnderWay, CatReferences DEF CatInv, CatSaveInv
<1> QED BY <1>6, <1>7, <1>8

\* The options of the group, as the tables hold them before it inserts any.
LEMMA EditExisting ==
    ASSUME CatInv, area' = area, NEW r \in Request, UpdateModifierExisting(r)
    PROVE  CatInv'
<1> DEFINE C == CatalogueColumns
           loaded == Loaded("option", LiveOptions(mem[r].dto.id), OptionColumns)
           body == [mem[r].dto EXCEPT !.existing = loaded]
           m == [dto |-> body]
<1>1. /\ step[r] \in {"edit", "edit.attached"} /\ step[r] \in Editing /\ step[r] \notin Making
      /\ Reads(r, "edit.option", m)
  BY DEF UpdateModifierExisting, At, Editing, Making, Looping, Ended
<1>2. /\ r \in Open /\ EditKnown(r) /\ DOMAIN NoMem \subseteq DOMAIN mem[r]
      /\ mem[r].dto.options # Null => IsSeq(mem[r].dto.options)
  BY <1>1, EditAt
<1>3. ColumnInv(C) /\ \A n \in Nat : OptionKey(r, n) \notin DOMAIN hist
  BY <1>1, CatShared DEF CatInv, Made
<1>4. "edit.option" \notin {"idle"} \cup Reading \cup Writing
  BY DEF Reading, Writing, PlainReading, PlainWriting
<1>5. /\ CatSaveInv' /\ Moves(r, "edit.option") /\ mem'[r] = Over(m, mem[r])
      /\ UNCHANGED <<db, hist>>
  BY <1>1, <1>2, <1>4, GoReads, CatUnderWay DEF CatInv, CatSaveInv, Reads, Ended
<1>6. PICK dto : dto = mem[r].dto
  OBVIOUS
<1>7. PICK group, existing : group = Single(<<"group", dto.id>>, dto.group) /\ existing = loaded
  OBVIOUS
<1>8. LiveOptions(mem[r].dto.id) \subseteq Ids("option")
  BY DEF LiveOptions, Live
<1>9. \A k \in DOMAIN existing :
         /\ k \in DOMAIN db /\ k[1] = "option" /\ k = <<"option", k[2]>>
         /\ existing[k] = Only(db[k], OptionColumns)
  <2>1. {"option"} \X LiveOptions(mem[r].dto.id) \subseteq DOMAIN db
    BY <1>3, <1>8, IdsKeys
  <2> QED BY <1>7, <2>1 DEF Loaded
<1>10. Knows(C, r, existing, Priced)
  <2> SUFFICES ASSUME NEW k \in DOMAIN existing
               PROVE  Fits(C, k, existing[k]) /\ Fresh(r, k, existing[k], Priced)
    BY DEF Knows
  <2>1. /\ k \in DOMAIN db /\ k[1] = "option" /\ k = <<"option", k[2]>>
        /\ existing[k] = Only(db[k], OptionColumns)
    BY <1>9
  <2>2. C["option"] = {"at", "group", "product", "price"}
    BY DEF CatalogueColumns
  <2>3. "product" \in ForeignColumns(k)
    BY <2>1, CatForeign
  <2>4. OptionColumns \subseteq C[k[1]] /\ C[k[1]] \ OptionColumns \subseteq ForeignColumns(k)
    BY <2>1, <2>2, <2>3 DEF OptionColumns
  <2>5. Fits(C, k, Only(db[k], OptionColumns))
    BY <2>1, <2>4, LoadedFits
  <2>6. Fresh(r, k, Only(db[k], OptionColumns), Priced)
    BY <2>1 DEF Fresh, Only
  <2> QED BY <2>1, <2>5, <2>6
<1>11. Knows(C, r, group, {"title"})
  BY <1>2, <1>6, <1>7 DEF EditKnown
<1>12. Knows(C, r, group, {"title"})' /\ Knows(C, r, existing, Priced)'
  BY <1>3, <1>5, <1>10, <1>11, KnowsYet DEF Moves
<1>13. /\ DOMAIN dto = {"categories", "options", "id", "group", "existing"}
       /\ <<"group", dto.id>> \in DOMAIN hist
  BY <1>2, <1>6 DEF EditKnown
<1>14. mem'[r].dto = [dto EXCEPT !.existing = existing]
  BY <1>5, <1>6, <1>7 DEF Over
<1>15. /\ DOMAIN mem'[r].dto = {"categories", "options", "id", "group", "existing"}
       /\ mem'[r].dto.options = dto.options /\ mem'[r].dto.id = dto.id
       /\ mem'[r].dto.group = dto.group /\ mem'[r].dto.existing = existing
  BY <1>13, <1>14
<1>16. \A k \in DOMAIN existing :
          k \in DOMAIN hist /\ k[1] = "option" /\ \A n \in Nat : k # OptionKey(r, n)
  BY <1>3, <1>9 DEF ColumnInv
<1>17. group = Single(<<"group", mem[r].dto.id>>, mem[r].dto.group)'
  BY <1>7, <1>15 DEF Single
<1>18. mem'[r].dto.options # Null => IsSeq(mem'[r].dto.options)
  BY <1>2, <1>6, <1>15
<1>19. EditKnown(r)'
  <2> HIDE DEF loaded, body, m
  <2> QED BY <1>5, <1>12, <1>13, <1>15, <1>16, <1>17, <1>18 DEF EditKnown
<1>20. Told(r)'
  <2>1. step'[r] = "edit.option"
    BY <1>5 DEF Moves
  <2>2. IsSeq(mem'[r].dto.options)
    BY <1>2, <1>6, <1>15 DEF UpdateModifierExisting
  <2> QED BY <1>4, <1>19, <2>1, <2>2 DEF Told
<1> QED BY <1>1, <1>2, <1>5, <1>20, CatStep, AddsNothing

\* The row of an option it holds, with another product and price.
LEMMA OptionKnown ==
    ASSUME NEW r, EditKnown(r), NEW k \in DOMAIN mem[r].dto.existing,
           NEW values, DOMAIN values = Priced, NEW rows,
           rows = Single(k, Assigned(mem[r].dto.existing[k], values))
    PROVE  /\ Knows(CatalogueColumns, r, rows, Priced)
           /\ \A j \in DOMAIN rows : j[1] = "option" /\ j \in DOMAIN hist
<1> DEFINE C == CatalogueColumns
<1>1. PICK row : row = mem[r].dto.existing[k]
  OBVIOUS
<1>2. k[1] = "option" /\ k \in DOMAIN hist
  BY DEF EditKnown
<1>3. Fits(C, k, row) /\ Fresh(r, k, row, Priced)
  BY <1>1, <1>2 DEF EditKnown, Knows
<1>4. Priced \subseteq C[k[1]]
  BY <1>2 DEF Priced, CatalogueColumns
<1> HIDE DEF C
<1>5. Fits(C, k, Assigned(row, values)) /\ Fresh(r, k, Assigned(row, values), Priced)
  BY <1>3, <1>4, AssignedFits, AssignedFresh
<1>6. DOMAIN rows = {k} /\ rows[k] = Assigned(row, values)
  BY <1>1 DEF Single
<1> QED BY <1>2, <1>5, <1>6 DEF Knows, C

\* One turn of the loop: the row it inserts is named after it, the row it
\* saves is one it holds.
LEMMA EditOption ==
    ASSUME CatInv, area' = area, NEW r \in Request, UpdateModifierOption(r)
    PROVE  CatInv'
<1> DEFINE C == CatalogueColumns
<1>1. step[r] = "edit.option" /\ mem[r].dto.options # <<>>
  BY DEF UpdateModifierOption, At
<1>2. step[r] \in Editing /\ step[r] \in Looping /\ Looping \subseteq Making
  BY <1>1 DEF Editing, Looping, Making
<1>3. r \in Open /\ EditKnown(r) /\ IsSeq(mem[r].dto.options)
  BY <1>2, EditAt DEF CatInv, Told
<1>4. PICK dto, line, rest, values :
        /\ dto = mem[r].dto /\ line = Head(dto.options)
        /\ rest = [dto EXCEPT !.options = Tail(@)]
        /\ values = [product |-> line.product, price |-> line.price]
  OBVIOUS
<1>5. /\ DOMAIN dto = {"categories", "options", "id", "group", "existing"}
      /\ IsSeq(Tail(dto.options)) /\ Len(dto.options) \in Nat
  BY <1>1, <1>3, <1>4 DEF EditKnown, IsSeq
<1>6. /\ DOMAIN rest = DOMAIN dto /\ rest.options = Tail(dto.options)
      /\ rest.id = dto.id /\ rest.group = dto.group /\ rest.existing = dto.existing
  BY <1>4, <1>5
<1>7. ASSUME CatSaveInv', NEW s \in Looping, Moves(r, s), UNCHANGED <<db, hist>>,
             mem'[r].dto = rest
      PROVE  EditKnown(r)' /\ IsSeq(mem'[r].dto.options)
  BY <1>3, <1>4, <1>5, <1>6, <1>7, EditReads DEF Moves
<1>8. CASE Reads(r, "error", NoMem)
  BY <1>3, <1>8, Gone, Ending DEF Ended
<1>9. ASSUME NEW rows, NEW m, m = SaveWith(rest, rows, {}),
             rows = Single(OptionKey(r, Len(dto.options)),
                           OptionRow(dto.id, line.product, line.price)),
             Reads(r, "edit.option.insert", m)
      PROVE  CatInv'
  <2>1. "edit.option.insert" \notin {"idle"} \cup Reading \cup Writing
    BY DEF Reading, Writing, PlainReading, PlainWriting
  <2>2. /\ CatSaveInv' /\ Moves(r, "edit.option.insert") /\ mem'[r] = Over(m, mem[r])
        /\ UNCHANGED <<db, hist>>
    BY <1>3, <1>9, <2>1, GoReads, CatUnderWay DEF CatInv, CatSaveInv, Reads, Ended
  <2>3. mem'[r].dto = rest /\ mem'[r].rows = rows
    BY <1>9, <2>2 DEF SaveWith, Over
  <2>4. EditKnown(r)' /\ IsSeq(mem'[r].dto.options)
    BY <1>7, <2>2, <2>3 DEF Looping
  <2>5. Schema(C, rows) /\ DOMAIN rows = {OptionKey(r, Len(dto.options))}
    <3>1. PICK key, row : /\ key = OptionKey(r, Len(dto.options))
                          /\ row = OptionRow(dto.id, line.product, line.price)
      OBVIOUS
    <3>2. DOMAIN rows = {key} /\ rows[key] = row
      BY <1>9, <3>1 DEF Single
    <3>3. key[1] = "option" /\ key = <<key[1], key[2]>>
      BY <3>1 DEF OptionKey
    <3>4. DOMAIN row = C["option"]
      BY <3>1 DEF OptionRow, CatalogueColumns
    <3> HIDE DEF C
    <3> QED BY <3>1, <3>2, <3>3, <3>4 DEF Schema
  <2>6. step'[r] = "edit.option.insert"
    BY <2>2 DEF Moves
  <2>7. Schema(C, mem'[r].rows) /\ \E n \in Nat : DOMAIN mem'[r].rows = {OptionKey(r, n)}
    BY <1>5, <2>3, <2>5
  <2> HIDE DEF C
  <2>8. Told(r)'
    BY <2>1, <2>4, <2>6, <2>7 DEF Told, Schema, C, OptionKey
  <2> QED BY <1>2, <1>3, <2>2, <2>8, CatStep, AddsNothing DEF Looping, Open
<1>10. ASSUME NEW k \in DOMAIN dto.existing, NEW rows, NEW m, m = SaveWith(rest, rows, Priced),
              rows = Single(k, Assigned(dto.existing[k], values)),
              Reads(r, "edit.option.reload", m)
       PROVE  CatInv'
  <2>1. "edit.option.reload" \in Reading /\ "edit.option.reload" \in Looping
    BY DEF Reading, Looping
  <2>2. Knows(C, r, rows, Priced) /\ \A j \in DOMAIN rows : j[1] = "option" /\ j \in DOMAIN hist
    BY <1>3, <1>4, <1>10, OptionKnown DEF Priced
  <2>3. Over(m, mem[r]).rows = rows /\ Over(m, mem[r]).meant = Priced /\ Over(m, mem[r]).dto = rest
    BY <1>10 DEF SaveWith, Over
  <2>4. /\ CatSaveInv' /\ Moves(r, "edit.option.reload") /\ mem'[r] = Over(m, mem[r])
        /\ UNCHANGED <<db, hist>>
    BY <1>3, <1>10, <2>1, <2>2, <2>3, GoSaves, CatUnderWay DEF CatInv, CatSaveInv, Reads
  <2>5. EditKnown(r)' /\ IsSeq(mem'[r].dto.options)
    BY <1>7, <2>1, <2>3, <2>4
  <2>6. step'[r] = "edit.option.reload"
    BY <2>4 DEF Moves
  <2>7. mem'[r].meant = Priced /\ \A j \in DOMAIN mem'[r].rows : j[1] = "option" /\ j \in DOMAIN hist'
    BY <2>2, <2>3, <2>4
  <2>8. Told(r)'
    BY <2>5, <2>6, <2>7 DEF Told
  <2> QED BY <1>2, <1>3, <2>1, <2>4, <2>8, CatStep, AddsNothing DEF Open
<1>11. CASE line.product \in Live("product") /\ line.optionId = Null
  <2>1. Reads(r, "edit.option.insert",
              SaveWith(rest, Single(OptionKey(r, Len(dto.options)),
                                    OptionRow(dto.id, line.product, line.price)), {}))
    BY <1>4, <1>11 DEF UpdateModifierOption, OptionKey
  <2> QED BY <1>9, <2>1
<1>12. CASE /\ line.product \in Live("product") /\ line.optionId # Null
            /\ <<"option", line.optionId>> \in DOMAIN dto.existing
  <2>1. DOMAIN values = Priced
    BY <1>4 DEF Priced
  <2>2. Reads(r, "edit.option.reload",
              SaveWith(rest, Single(<<"option", line.optionId>>,
                                    Assigned(dto.existing[<<"option", line.optionId>>], values)),
                       Priced))
    BY <1>4, <1>12, <2>1 DEF UpdateModifierOption
  <2> QED BY <1>10, <1>12, <2>2
<1>13. CASE \/ line.product \notin Live("product")
            \/ line.optionId # Null /\ <<"option", line.optionId>> \notin DOMAIN dto.existing
  BY <1>4, <1>8, <1>13 DEF UpdateModifierOption
<1> QED BY <1>11, <1>12, <1>13

\* It inserts the option: no row that it holds.
LEMMA EditInserts ==
    ASSUME CatInv, area' = area, NEW r \in Request, UpdateModifierOptionInsert(r)
    PROVE  CatInv'
<1> DEFINE C == CatalogueColumns
<1>1. /\ step[r] = "edit.option.insert" /\ InsertThen(r, mem[r].rows, "edit.option", <<>>)
  BY DEF UpdateModifierOptionInsert, At
<1>2. step[r] \in Editing /\ step[r] \in Looping
  BY <1>1 DEF Editing, Looping
<1>3. /\ r \in Open /\ EditKnown(r) /\ IsSeq(mem[r].dto.options)
      /\ DOMAIN NoMem \subseteq DOMAIN mem[r] /\ ColumnInv(C)
  BY <1>2, EditAt, CatShared DEF CatInv, Told
<1>4. Schema(C, mem[r].rows) /\ \E n \in Nat : DOMAIN mem[r].rows = {OptionKey(r, n)}
  BY <1>1 DEF CatInv, Told
<1>5. CASE Reads(r, "error", NoMem)
  BY <1>3, <1>5, Gone, Ending DEF Ended
<1>6. CASE Inserts(r, mem[r].rows) /\ Goto(r, "edit.option", <<>>)
  <2>1. ColumnInv(C)' /\ Changes(r)
    BY <1>3, <1>4, <1>6, InsertsChange DEF Open
  <2>2. /\ DOMAIN hist' = DOMAIN hist \cup DOMAIN mem[r].rows
        /\ \A k \in DOMAIN hist \ DOMAIN mem[r].rows : Spares(r, k, {})
    BY <1>6, InsertsSpare
  <2>3. "edit.option" \notin {"idle"} \cup Reading \cup Writing \cup Ended
    BY DEF Reading, Writing, PlainReading, PlainWriting, Ended
  <2>4. CatSaveInv' /\ Moves(r, "edit.option") /\ mem'[r] = Over(<<>>, mem[r])
    BY <1>3, <1>6, <2>1, <2>3, GoStep, CatUnderWay DEF CatInv, CatSaveInv
  <2>5. mem'[r].dto = mem[r].dto
    BY <1>3, <2>4 DEF Over, NoMem
  <2>6. step'[r] = "edit.option" /\ "edit.option" \in Making
    BY <2>4 DEF Moves, Making, Looping
  <2>7. Adds(r)
    <3>1. PICK n \in Nat : DOMAIN mem[r].rows = {OptionKey(r, n)}
      BY <1>4
    <3>2. ASSUME NEW q \in Request, NEW i \in Nat, OptionKey(q, i) \in DOMAIN hist' \ DOMAIN hist
          PROVE  q = r
      BY <2>2, <3>1, <3>2 DEF OptionKey
    <3> QED BY <2>2, <2>6, <3>2 DEF Adds
  <2>8. \A k \in DOMAIN hist :
           (k[1] = "group" \/ (k[1] = "option" /\ \A n \in Nat : k # OptionKey(r, n)))
             => Spares(r, k, {})
    <3>1. \A k \in DOMAIN mem[r].rows : k[1] = "option" /\ \E n \in Nat : k = OptionKey(r, n)
      BY <1>4 DEF OptionKey
    <3> QED BY <2>2, <3>1
  <2>9. EditKnown(r)'
    BY <1>3, <2>1, <2>2, <2>4, <2>5, <2>8, EditSpared DEF Moves
  <2>10. Told(r)'
    BY <1>3, <2>3, <2>5, <2>6, <2>9 DEF Told
  <2> QED BY <1>3, <2>4, <2>6, <2>7, <2>10, CatStep DEF Open
<1> QED BY <1>1, <1>5, <1>6 DEF InsertThen

\* The group it read first is compared with the tables last.
LEMMA EditGroup ==
    ASSUME CatInv, area' = area, NEW r \in Request, UpdateModifierGroup(r)
    PROVE  CatInv'
<1> DEFINE C == CatalogueColumns
<1>1. step[r] \in {"edit", "edit.attached", "edit.option"}
  BY DEF UpdateModifierGroup, At
<1>2. step[r] \in Editing
  BY <1>1 DEF Editing
<1>3. r \in Open /\ EditKnown(r)
  BY <1>2, EditAt
<1>4. PICK k, rows : k = <<"group", mem[r].dto.id>> /\ rows = Single(k, mem[r].dto.group)
  OBVIOUS
<1>5. PICK m : m = [dto |-> Null, rows |-> rows, meant |-> {"title"}, dirty |-> DirtyOf(rows)]
  OBVIOUS
<1>6. Reads(r, "entity.write", m)
  BY <1>4, <1>5 DEF UpdateModifierGroup
<1>7. Knows(C, r, rows, {"title"}) /\ k \in DOMAIN hist
  BY <1>3, <1>4 DEF EditKnown
<1>8. /\ Over(m, mem[r]).rows = rows /\ Over(m, mem[r]).meant = {"title"}
      /\ Over(m, mem[r]).dirty = DirtyOf(rows)
  BY <1>5 DEF Over
<1>9. "entity.write" \in Writing /\ "entity.write" \in Making
  BY DEF Writing, PlainWriting, Making
<1>10. /\ CatSaveInv' /\ Moves(r, "entity.write") /\ mem'[r] = Over(m, mem[r])
       /\ UNCHANGED <<db, hist>>
  BY <1>3, <1>6, <1>7, <1>8, <1>9, GoCompares, CatUnderWay DEF CatInv, CatSaveInv, Reads
<1>11. DOMAIN mem'[r].rows \subseteq DOMAIN hist'
  BY <1>4, <1>7, <1>8, <1>10 DEF Single
<1>12. Told(r)'
  <2>1. step'[r] = "entity.write"
    BY <1>10 DEF Moves
  <2> QED BY <1>11, <2>1 DEF Told, Editing, Looping
<1> QED BY <1>3, <1>9, <1>10, <1>12, CatStep, AddsNothing DEF Open

-----------------------------------------------------------------------------
(* addModifier and deleteModifier, and every step together.                *)

\* The options of a new group are named after the request.
LEMMA MakingOptions ==
    ASSUME CatInv, area' = area, NEW r \in Open, NEW rows, Schema(CatalogueColumns, rows),
           \A k \in DOMAIN rows : \E n : k = OptionKey(r, n),
           InsertThen(r, rows, "ok", NoMem)
    PROVE  CatInv'
<1>1. CASE Inserts(r, rows) /\ Goto(r, "ok", NoMem)
  <2>1. ColumnInv(CatalogueColumns)' /\ Changes(r) /\ DOMAIN hist' = DOMAIN hist \cup DOMAIN rows
    BY <1>1, CatShared, InsertsChange, InsertsSpare DEF Open
  <2>2. Plainly(r, "ok")
    BY Ending DEF Ended
  <2>3. CatSaveInv' /\ Moves(r, "ok")
    BY <1>1, <2>1, <2>2, GoStep, CatUnderWay, PlainlySaves DEF CatInv, CatSaveInv
  <2>4. step'[r] \in Making
    BY <2>3 DEF Moves, Making, Ended, Open
  <2>5. ASSUME NEW q \in Request, NEW i \in Nat, OptionKey(q, i) \in DOMAIN hist' \ DOMAIN hist
        PROVE  q = r
    BY <2>1, <2>5 DEF OptionKey
  <2>6. Adds(r)
    BY <2>1, <2>4, <2>5 DEF Adds
  <2> QED BY <2>2, <2>3, <2>6, Quietly DEF Open
<1>2. CASE Reads(r, "error", NoMem)
  BY <1>2, Gone, Ending DEF Ended
<1> QED BY <1>1, <1>2 DEF InsertThen

LEMMA NewGroupCat ==
    ASSUME CatInv, area' = area, NEW r \in Request,
           \/ AddModifier(r) \/ AddModifierProducts(r) \/ AddModifierInsert(r)
           \/ AddModifierAttach(r) \/ AddModifierOptions(r)
    PROVE  CatInv'
<1> DEFINE C == CatalogueColumns
           Quiet == {"group.products", "group.insert", "group.attach", "group.options"}
<1>1. /\ C["group"] = {"at", "title"} /\ C["attached"] = {"at", "group", "category"}
      /\ C["option"] = {"at", "group", "product", "price"}
  BY DEF CatalogueColumns
<1>2. ASSUME NEW s \in Quiet
      PROVE  s \notin {"idle"} \cup Telling /\ s \notin Making
  BY DEF Telling, Editing, Reading, Writing, PlainReading, PlainWriting, Making, Looping, Ended
<1>3. \A s \in Quiet : step[r] \notin Making => Plainly(r, s)
  BY <1>2 DEF Plainly
<1>4. \A s \in Quiet : step[r] = s => r \in Open /\ step[r] \notin Making
  BY <1>2 DEF Open, Making
<1>5. CASE AddModifier(r)
  <2>1. PICK m : Begin(r, "group.products", m) /\ UNCHANGED <<db, hist>>
    BY <1>5 DEF AddModifier
  <2> QED BY <1>2, <2>1, Begun
<1>6. CASE AddModifierProducts(r)
  <2>1. step[r] = "group.products" /\ (Reads(r, "group.insert", <<>>) \/ Reads(r, "error", <<>>))
    BY <1>6 DEF AddModifierProducts, At
  <2>2. r \in Open /\ Plainly(r, "group.insert") /\ Plainly(r, "error")
    BY <1>3, <1>4, <2>1, Ending DEF Ended
  <2> QED BY <2>1, <2>2, Gone
<1>7. CASE AddModifierInsert(r)
  <2> DEFINE rows == Single(<<"group", r>>, GroupRow("new"))
  <2>1. step[r] = "group.insert" /\ InsertThen(r, rows, "group.attach", <<>>)
    BY <1>7 DEF AddModifierInsert, At
  <2>2. r \in Open /\ Plainly(r, "group.attach")
    BY <1>3, <1>4, <2>1
  <2>3. Schema(C, rows) /\ \A k \in DOMAIN rows : k[1] # "option"
    BY <1>1 DEF Schema, Single, GroupRow
  <2> HIDE DEF rows
  <2> QED BY <2>1, <2>2, <2>3, GoneInserting
<1>8. CASE AddModifierAttach(r)
  <2> DEFINE rows == Attach(r, mem[r].dto.categories)
  <2>1. step[r] = "group.attach" /\ InsertThen(r, rows, "group.options", <<>>)
    BY <1>8 DEF AddModifierAttach, At
  <2>2. r \in Open /\ Plainly(r, "group.options")
    BY <1>3, <1>4, <2>1
  <2>3. \A k \in DOMAIN rows : /\ k[1] = "attached" /\ k = <<k[1], k[2]>>
                               /\ rows[k] = AttachedRow(r, k[2][2])
    BY DEF Attach
  <2> HIDE DEF rows
  <2>4. Schema(C, rows) /\ \A k \in DOMAIN rows : k[1] # "option"
    BY <1>1, <2>3 DEF Schema, AttachedRow
  <2> QED BY <2>1, <2>2, <2>4, GoneInserting
<1>9. CASE AddModifierOptions(r)
  <2> DEFINE options == mem[r].dto.options
             rows == [k \in {"option"} \X ({r} \X DOMAIN options) |->
                        OptionRow(r, options[k[2][2]].product, options[k[2][2]].price)]
  <2>1. step[r] = "group.options" /\ InsertThen(r, rows, "ok", NoMem)
    BY <1>9 DEF AddModifierOptions, At
  <2>2. r \in Open
    BY <1>4, <2>1
  <2>3. ASSUME NEW k \in DOMAIN rows
        PROVE  /\ k = OptionKey(r, k[2][2])
               /\ rows[k] = OptionRow(r, options[k[2][2]].product, options[k[2][2]].price)
    BY DEF OptionKey
  <2>4. \A k \in DOMAIN rows : DOMAIN rows[k] = C["option"]
    BY <1>1, <2>3 DEF OptionRow
  <2> HIDE DEF rows
  <2>5. \A k \in DOMAIN rows : k[1] = "option" /\ k = <<k[1], k[2]>>
    BY <2>3 DEF OptionKey
  <2>6. Schema(C, rows)
    BY <2>4, <2>5 DEF Schema
  <2> QED BY <2>1, <2>2, <2>3, <2>6, MakingOptions
<1> QED BY <1>5, <1>6, <1>7, <1>8, <1>9

LEMMA OldGroupCat ==
    ASSUME CatInv, area' = area, NEW r \in Request,
           \/ DeleteModifier(r) \/ DeleteModifierGroup(r) \/ DeleteModifierOptions(r)
           \/ DeleteModifierDetach(r)
    PROVE  CatInv'
<1> DEFINE Quiet == {"group.mark", "group.markOptions", "group.detach"}
<1>1. ASSUME NEW s \in Quiet
      PROVE  s \notin {"idle"} \cup Telling /\ s \notin Making
  BY DEF Telling, Editing, Reading, Writing, PlainReading, PlainWriting, Making, Looping, Ended
<1>2. \A s \in Quiet : step[r] \notin Making => Plainly(r, s)
  BY <1>1 DEF Plainly
<1>3. \A s \in Quiet : step[r] = s => r \in Open /\ step[r] \notin Making
  BY <1>1 DEF Open, Making
<1>4. CASE DeleteModifier(r)
  <2>1. PICK m : Begin(r, "group.mark", m) /\ UNCHANGED <<db, hist>>
    BY <1>4 DEF DeleteModifier
  <2> QED BY <1>1, <2>1, Begun
<1>5. CASE DeleteModifierGroup(r)
  <2>1. /\ step[r] = "group.mark" /\ Updates(r, {<<"group", mem[r].dto>>}, Deleted)
        /\ Goto(r, "group.markOptions", <<>>)
    BY <1>5 DEF DeleteModifierGroup, At
  <2>2. r \in Open /\ Plainly(r, "group.markOptions")
    BY <1>2, <1>3, <2>1
  <2>3. \A k \in {<<"group", mem[r].dto>>} : k[1] \in DOMAIN CatalogueColumns
    BY DEF CatalogueColumns
  <2> QED BY <2>1, <2>2, <2>3, GoneUpdating
<1>6. CASE DeleteModifierOptions(r)
  <2> DEFINE keys == {k \in DOMAIN db : k[1] = "option" /\ db[k].group = mem[r].dto}
  <2>1. /\ step[r] = "group.markOptions" /\ Updates(r, keys, Deleted)
        /\ Goto(r, "group.detach", <<>>)
    BY <1>6 DEF DeleteModifierOptions, At
  <2>2. r \in Open /\ Plainly(r, "group.detach")
    BY <1>2, <1>3, <2>1
  <2>3. \A k \in keys : k[1] \in DOMAIN CatalogueColumns
    BY DEF CatalogueColumns
  <2> HIDE DEF keys
  <2> QED BY <2>1, <2>2, <2>3, GoneUpdating
<1>7. CASE DeleteModifierDetach(r)
  <2> DEFINE keys == {"attached"} \X Attached(mem[r].dto)
  <2>1. /\ step[r] = "group.detach" /\ Removes(r, keys) /\ Goto(r, "ok", NoMem)
    BY <1>7 DEF DeleteModifierDetach, At
  <2>2. r \in Open
    BY <1>3, <2>1
  <2>3. keys \subseteq DOMAIN db
    BY CatShared, IdsKeys DEF Attached
  <2> QED BY <2>1, <2>2, <2>3, GoneRemoving
<1> QED BY <1>4, <1>5, <1>6, <1>7

LEMMA GroupCat ==
    ASSUME CatInv, area' = area, NEW r \in Request, GroupOperation(r)
    PROVE  CatInv'
BY NewGroupCat, OldGroupCat, EditBegun, EditCategories, EditDetach, EditReloads, EditWrites,
   EditExisting, EditOption, EditInserts, EditGroup DEF GroupOperation

LEMMA OperationCat ==
    ASSUME CatInv, area' = area, NEW r \in Request, Operation(r)
    PROVE  CatInv'
<1>1. CASE EntityWrite(r)
  BY <1>1, CategoryCat DEF CategoryOperation
<1>2. CASE Fails(r)
  <2>1. r \in Open /\ Goto(r, "error", NoMem) /\ UNCHANGED <<db, hist>>
    BY <1>2 DEF Fails, Open
  <2>2. ColumnInv(CatalogueColumns)' /\ Changes(r)
    BY <2>1, CatShared, NothingWritten
  <2> QED BY <2>1, <2>2, GoneWriting, Ending DEF Ended
<1> QED BY <1>1, <1>2, StoreCat, HoursCat, DiscountCat, CategoryCat, ProductCat, GroupCat
        DEF Operation

\* Nothing changes.
LEMMA SameCat ==
    ASSUME CatInv, area' = area, UNCHANGED <<db, step, mem, met, hist>>
    PROVE  CatInv'
<1>1. CatSaveInv'
  BY SameStep DEF CatInv, CatSaveInv
<1>2. ColumnInv(CatalogueColumns) /\ MetGrows
  BY CatShared DEF MetGrows
<1>3. ASSUME NEW r \in Request
      PROVE  Told(r)' /\ Made(r)'
  <2>1. Told(r) /\ Made(r) /\ mem'[r] = mem[r]
    BY DEF CatInv
  <2>2. ASSUME EditKnown(r)
        PROVE  EditKnown(r)'
    BY <1>2, <2>1, <2>2, EditReads DEF EditKnown
  <2> QED BY <2>1, <2>2 DEF Told, Made, Schema
<1> QED BY <1>1, <1>3 DEF CatInv

LEMMA CatInitially == Init => CatInv
<1> SUFFICES ASSUME Init
             PROVE  CatInv
  OBVIOUS
<1>1. /\ area \in Area /\ Schema(CatalogueColumns, Rows[area]) /\ TablesInit(Rows[area])
      /\ \A k \in DOMAIN Rows[area] : k[1] = "option" => k[2] \notin Request \X Nat
  BY CatalogueAssumption DEF Init
<1>2. CatSaveInv
  BY <1>1, SaveInit, CatUnderWay DEF CatSaveInv
<1>3. DOMAIN hist = DOMAIN Rows[area] /\ \A r \in Request : step[r] = "idle"
  BY <1>1 DEF TablesInit
<1>4. ASSUME NEW r \in Request
      PROVE  Told(r) /\ Made(r)
  <2>1. Made(r)
    BY <1>1, <1>3 DEF Made, OptionKey
  <2>2. Told(r)
    BY <1>3 DEF Told, Editing, Looping, Reading, Writing, PlainReading, PlainWriting
  <2> QED BY <2>1, <2>2
<1> QED BY <1>1, <1>2, <1>4 DEF CatInv

LEMMA CatInductive == CatInv /\ [Next]_vars => CatInv'
<1> SUFFICES ASSUME CatInv, [Next]_vars
             PROVE  CatInv'
  OBVIOUS
<1>1. CASE UNCHANGED vars
  BY <1>1, SameCat DEF vars, tableVars
<1>2. CASE \E r \in Among[area] : Operation(r) /\ area' = area
  <2>1. Among[area] \subseteq Request
    BY CatalogueAssumption DEF CatInv
  <2> QED BY <1>2, <2>1, OperationCat
<1>3. CASE Finished /\ area' = area
  BY <1>3, SameCat DEF Finished, tableVars
<1> QED BY <1>1, <1>2, <1>3 DEF Next

\* What a request of the catalogue asked for is overwritten only by a request
\* that a chain of overlaps joins to it.
THEOREM CatalogueOverwritten == Spec => []OverwrittenOnlyByOverlap
<1>1. CatInv => OverwrittenOnlyByOverlap
  BY DEF CatInv, CatSaveInv, SaveInv, SharedInv
<1> QED BY <1>1, CatInitially, CatInductive, PTL DEF Spec

-----------------------------------------------------------------------------
(* Types.                                                                  *)

\* A row is of a table there is, no discount has the id NULL, and the key of
\* an attachment is a pair.
KeyTyped(k) ==
    /\ k[1] \in DOMAIN CatalogueColumns
    /\ k[1] = "discount" => k[2] # Null
    /\ k[1] = "attached" => k[2] = <<k[2][1], k[2][2]>>

\* A row of the tables, or one that is to be saved: the columns it lacks
\* would be NULL.
RowTyped(k, row) ==
    KeyTyped(k) /\ \A c \in CatalogueColumns[k[1]] : ColumnTyped(k, c, ColumnOf(row, c))
RowsTyped(rows) == \A k \in DOMAIN rows : RowTyped(k, rows[k])

\* Bodies that have a code and a status, and those that name a discount.
Coded(dto) ==
    {"code", "status"} \subseteq DOMAIN dto /\ dto.code \in Code /\ dto.status \in DiscountStatus
Naming(dto) == "id" \in DOMAIN dto /\ dto.id # Null

\* What a request holds at step s.
HeldTyped(r, s, dto, rows) ==
    /\ RowsTyped(rows)
    /\ s \in {"discount.stores", "discount.insert", "discount.find"} => Coded(dto)
    /\ s \in {"discount.reload", "discount.write", "links.reload", "links.write"} =>
          dto = Null \/ Naming(dto)
    /\ s \in {"discount.find", "discount.diff", "links.stores", "links.insert"} => Naming(dto)
    /\ s \in {"hours.find", "hours.insert"} => dto.day \in Day /\ dto.slots \in Slots
    /\ s = "hours.preload" =>
          \A c \in DOMAIN dto.values : ColumnTyped(<<"hours", dto.id>>, c, dto.values[c])
    /\ s = "product.insert" => RowTyped(<<"product", r>>, dto)
    /\ s \in Editing => /\ RowTyped(<<"group", dto.id>>, dto.group)
                        /\ RowsTyped(dto.existing)

TypesInv ==
    /\ ReferencesInv /\ AtRestInv
    /\ RowsTyped(db)
    /\ \A r \in Request : HeldTyped(r, step[r], mem[r].dto, mem[r].rows)

LEMMA NoRowsTyped == RowsTyped(<<>>)
BY DEF RowsTyped

LEMMA AssignedTyped ==
    ASSUME NEW k, NEW row, RowTyped(k, row), NEW values,
           \A c \in DOMAIN values : ColumnTyped(k, c, values[c])
    PROVE  RowTyped(k, Assigned(row, values))
<1> SUFFICES ASSUME NEW c \in CatalogueColumns[k[1]]
             PROVE  ColumnTyped(k, c, ColumnOf(Assigned(row, values), c))
  BY DEF RowTyped
<1>1. ColumnOf(Assigned(row, values), c) = IF c \in DOMAIN values THEN values[c] ELSE ColumnOf(row, c)
  BY ColumnOver DEF Assigned
<1> QED BY <1>1 DEF RowTyped

LEMMA DeletedTyped ==
    ASSUME NEW k, NEW row, RowTyped(k, row)
    PROVE  RowTyped(k, Assigned(row, Deleted))
<1>1. \A c \in DOMAIN Deleted : ColumnTyped(k, c, Deleted[c])
  BY DEF Deleted, ColumnTyped
<1> QED BY <1>1, AssignedTyped

LEMMA OneTyped ==
    ASSUME NEW k, NEW row, RowTyped(k, row)
    PROVE  RowsTyped(Single(k, row))
BY DEF RowsTyped, Single

\* A row found in the tables.
LEMMA FoundTyped ==
    ASSUME CatInv, TypesInv, NEW t, NEW i, i \in Ids(t)
    PROVE  /\ <<t, i>> \in DOMAIN db /\ RowTyped(<<t, i>>, Row(t, i))
           /\ t = "discount" => i # Null
<1>1. {t} \X {i} \subseteq DOMAIN db
  BY CatShared, IdsKeys
<1>2. <<t, i>> \in DOMAIN db
  BY <1>1
<1>3. RowTyped(<<t, i>>, Row(t, i))
  BY <1>2 DEF TypesInv, RowsTyped, Row
<1> QED BY <1>2, <1>3 DEF RowTyped, KeyTyped

\* The fields of what a request holds at its next step.
LEMMA MemoryFields ==
    ASSUME NEW m
    PROVE  /\ Memory(m).dto = IF "dto" \in DOMAIN m THEN m.dto ELSE Null
           /\ Memory(m).rows = IF "rows" \in DOMAIN m THEN m.rows ELSE <<>>
BY DEF Memory, NoMem

LEMMA OverFields ==
    ASSUME HoldInv, NEW r \in Request, NEW m
    PROVE  /\ Over(m, mem[r]).dto = IF "dto" \in DOMAIN m THEN m.dto ELSE mem[r].dto
           /\ Over(m, mem[r]).rows = IF "rows" \in DOMAIN m THEN m.rows ELSE mem[r].rows
BY DEF Over, HoldInv, NoMem

LEMMA OverNothing ==
    ASSUME HoldInv, NEW r \in Request
    PROVE  Over(<<>>, mem[r]).dto = mem[r].dto /\ Over(<<>>, mem[r]).rows = mem[r].rows
BY DEF Over, HoldInv, NoMem

\* At the end it holds nothing.
LEMMA EndTyped ==
    ASSUME NEW r, NEW s \in Ended
    PROVE  HeldTyped(r, s, NoMem.dto, NoMem.rows)
BY NoRowsTyped DEF HeldTyped, NoMem, Ended, Editing

-----------------------------------------------------------------------------
(* A step of a request, by what it does to the tables.                     *)

LEMMA TypesStep ==
    ASSUME TypesInv, CatInv, CatInv', NEW r \in Request, NEW s, StepsTo(r, s),
           NEW rows, RowsTyped(rows), Puts(CatalogueColumns, rows), ReferencesInv', AtRestInv',
           HeldTyped(r, s, mem'[r].dto, mem'[r].rows)
    PROVE  TypesInv'
<1>0. ColumnInv(CatalogueColumns)'
  BY CatShared, PTL
<1>1. ASSUME NEW k \in DOMAIN db'
      PROVE  RowTyped(k, db'[k])
  <2>1. KeyTyped(k)
    BY DEF Puts, TypesInv, RowsTyped, RowTyped
  <2>2. ASSUME NEW c \in CatalogueColumns[k[1]]
        PROVE  ColumnTyped(k, c, ColumnOf(db'[k], c))
    <3>1. DOMAIN db'[k] = CatalogueColumns[k[1]]
      BY <1>0 DEF ColumnInv, Schema
    <3>2. ColumnOf(db'[k], c) = db'[k][c]
      BY <3>1 DEF ColumnOf
    <3>3. CASE k \in DOMAIN db /\ db'[k][c] = db[k][c]
      <4>1. DOMAIN db[k] = CatalogueColumns[k[1]]
        BY <3>3, CatShared DEF ColumnInv, Schema
      <4>2. ColumnTyped(k, c, ColumnOf(db[k], c)) /\ ColumnOf(db[k], c) = db[k][c]
        BY <3>3, <4>1 DEF TypesInv, RowsTyped, RowTyped, ColumnOf
      <4> QED BY <3>2, <3>3, <4>2
    <3>4. CASE k \in DOMAIN rows /\ db'[k][c] = ColumnOf(rows[k], c)
      BY <3>2, <3>4 DEF RowsTyped, RowTyped
    <3> QED BY <3>3, <3>4 DEF Puts
  <2> QED BY <2>1, <2>2 DEF RowTyped
<1>2. ASSUME NEW q \in Request
      PROVE  HeldTyped(q, step'[q], mem'[q].dto, mem'[q].rows)
  <2>1. HoldInv
    BY CatShared
  <2>2. q = r => step'[q] = s
    BY <2>1 DEF StepsTo, HoldInv
  <2>3. q # r => step'[q] = step[q] /\ mem'[q] = mem[q]
    BY <2>1 DEF StepsTo, HoldInv
  <2> QED BY <2>2, <2>3 DEF TypesInv
<1>3. RowsTyped(db')
  BY <1>1 DEF RowsTyped
<1> QED BY <1>2, <1>3 DEF TypesInv

LEMMA TypesBegun ==
    ASSUME TypesInv, CatInv, CatInv', NEW r \in Request, NEW s, NEW m, Begin(r, s, m),
           s # "idle", s \in Ended => m = NoMem,
           HeldTyped(r, s, Memory(m).dto, Memory(m).rows),
           NEW rows, RowsTyped(rows), Puts(CatalogueColumns, rows), ReferencesInv', UNCHANGED faults
    PROVE  TypesInv'
<1>1. HoldInv
  BY CatShared
<1>2. StepsTo(r, s) /\ mem'[r] = Memory(m)
  BY <1>1, BeginSteps
<1>3. Memory(NoMem) = NoMem
  BY DEF Memory, NoMem
<1>4. AtRestInv'
  BY <1>1, <1>2, <1>3, RestStays DEF TypesInv, AtRestInv
<1> QED BY <1>2, <1>4, TypesStep

LEMMA TypesBegunReading ==
    ASSUME TypesInv, CatInv, CatInv', NEW r \in Request, NEW s, NEW m, Begin(r, s, m),
           UNCHANGED <<db, hist, faults>>,
           s # "idle", s \in Ended => m = NoMem,
           HeldTyped(r, s, Memory(m).dto, Memory(m).rows)
    PROVE  TypesInv'
<1>1. ReferencesInv' /\ Puts(CatalogueColumns, db) /\ RowsTyped(db)
  BY ReadsPut DEF TypesInv
<1> QED BY <1>1, TypesBegun

LEMMA TypesGone ==
    ASSUME TypesInv, CatInv, CatInv', NEW r \in Open, NEW s, NEW m, Goto(r, s, m), s # "idle",
           s \notin Ended => HeldTyped(r, s, Over(m, mem[r]).dto, Over(m, mem[r]).rows),
           NEW rows, RowsTyped(rows), Puts(CatalogueColumns, rows), ReferencesInv',
           faults' \in 0..MaxFaults
    PROVE  TypesInv'
<1>1. HoldInv /\ r \in Request
  BY CatShared DEF Open
<1>2. StepsTo(r, s) /\ mem'[r] = IF s \in Ended THEN NoMem ELSE Over(m, mem[r])
  BY <1>1, GotoSteps
<1>3. AtRestInv'
  BY <1>1, <1>2, RestStays DEF TypesInv
<1>4. HeldTyped(r, s, mem'[r].dto, mem'[r].rows)
  BY <1>2, EndTyped
<1> QED BY <1>1, <1>2, <1>3, <1>4, TypesStep

LEMMA TypesReading ==
    ASSUME TypesInv, CatInv, CatInv', NEW r \in Open, NEW s, NEW m, Reads(r, s, m), s # "idle",
           s \notin Ended => HeldTyped(r, s, Over(m, mem[r]).dto, Over(m, mem[r]).rows)
    PROVE  TypesInv'
<1>1. Goto(r, s, m) /\ UNCHANGED <<db, faults>>
  BY DEF Reads
<1>2. /\ ReferencesInv' /\ Puts(CatalogueColumns, db) /\ RowsTyped(db)
      /\ faults' \in 0..MaxFaults
  BY <1>1, ReadsPut DEF TypesInv, AtRestInv
<1> QED BY <1>1, <1>2, TypesGone

LEMMA TypesRefused ==
    ASSUME TypesInv, CatInv, CatInv', NEW r \in Open, Reads(r, "error", NoMem)
    PROVE  TypesInv'
BY TypesReading DEF Ended

LEMMA TypesInserting ==
    ASSUME TypesInv, CatInv, CatInv', NEW r \in Open, NEW rows, NEW s, NEW m,
           InsertThen(r, rows, s, m), s # "idle", RowsTyped(rows),
           s \notin Ended => HeldTyped(r, s, Over(m, mem[r]).dto, Over(m, mem[r]).rows)
    PROVE  TypesInv'
<1>1. CASE Inserts(r, rows) /\ Goto(r, s, m)
  <2>1. ColumnInv(CatalogueColumns)'
    BY CatShared, PTL
  <2>2. ReferencesInv' /\ Puts(CatalogueColumns, rows) /\ UNCHANGED faults
    BY <1>1, <2>1, InsertsPut DEF TypesInv
  <2> QED BY <1>1, <2>2, TypesGone DEF TypesInv, AtRestInv
<1>2. CASE Reads(r, "error", NoMem)
  BY <1>2, TypesRefused
<1> QED BY <1>1, <1>2 DEF InsertThen

LEMMA UpdatesTyped ==
    ASSUME TypesInv, CatInv', NEW r, NEW keys, NEW values, Updates(r, keys, values),
           \A k \in keys : \A c \in DOMAIN values : ColumnTyped(k, c, values[c])
    PROVE  /\ ReferencesInv' /\ UNCHANGED faults
           /\ \E rows : RowsTyped(rows) /\ Puts(CatalogueColumns, rows)
<1> DEFINE rows == [k \in keys \cap DOMAIN db |-> Over(values, db[k])]
<1>1. ColumnInv(CatalogueColumns)'
  BY CatShared, PTL
<1>2. ReferencesInv' /\ UNCHANGED faults /\ Puts(CatalogueColumns, rows)
  BY <1>1, UpdatesPut DEF TypesInv
<1>3. ASSUME NEW k \in keys \cap DOMAIN db
      PROVE  RowTyped(k, Over(values, db[k]))
  <2>1. RowTyped(k, db[k])
    BY DEF TypesInv, RowsTyped
  <2>2. RowTyped(k, Assigned(db[k], values))
    BY <2>1, AssignedTyped
  <2> QED BY <2>2 DEF Assigned
<1>4. RowsTyped(rows)
  BY <1>3 DEF RowsTyped
<1> QED BY <1>2, <1>4

LEMMA TypesUpdating ==
    ASSUME TypesInv, CatInv, CatInv', NEW r \in Open, NEW keys, Updates(r, keys, Deleted),
           NEW s, NEW m, Goto(r, s, m), s # "idle",
           s \notin Ended => HeldTyped(r, s, Over(m, mem[r]).dto, Over(m, mem[r]).rows)
    PROVE  TypesInv'
<1>1. \A k \in keys : \A c \in DOMAIN Deleted : ColumnTyped(k, c, Deleted[c])
  BY DEF Deleted, ColumnTyped
<1>2. PICK rows : RowsTyped(rows) /\ Puts(CatalogueColumns, rows)
  BY <1>1, UpdatesTyped
<1>3. ReferencesInv' /\ faults' \in 0..MaxFaults
  BY <1>1, UpdatesTyped DEF TypesInv, AtRestInv
<1> QED BY <1>2, <1>3, TypesGone

LEMMA TypesRemoving ==
    ASSUME TypesInv, CatInv, CatInv', NEW r \in Open, NEW keys, Removes(r, keys),
           NEW s, NEW m, Goto(r, s, m), s # "idle",
           s \notin Ended => HeldTyped(r, s, Over(m, mem[r]).dto, Over(m, mem[r]).rows)
    PROVE  TypesInv'
<1>1. /\ ReferencesInv' /\ Puts(CatalogueColumns, db) /\ RowsTyped(db)
      /\ faults' \in 0..MaxFaults
  BY RemovesPut DEF TypesInv, AtRestInv
<1> QED BY <1>1, TypesGone

LEMMA TypesBegunRemoving ==
    ASSUME TypesInv, CatInv, CatInv', NEW r \in Request, NEW s, NEW m, Begin(r, s, m),
           NEW keys, Removes(r, keys), s # "idle", s \in Ended => m = NoMem,
           HeldTyped(r, s, Memory(m).dto, Memory(m).rows)
    PROVE  TypesInv'
<1>1. /\ ReferencesInv' /\ Puts(CatalogueColumns, db) /\ RowsTyped(db) /\ UNCHANGED faults
  BY RemovesPut DEF TypesInv
<1> QED BY <1>1, TypesBegun

LEMMA TypesWriting ==
    ASSUME TypesInv, CatInv, CatInv', NEW r \in Open, step[r] \in Writing, NEW s, NEW m,
           Write(r, s, m), s # "idle",
           s \notin Ended => HeldTyped(r, s, Over(m, mem[r]).dto, Over(m, mem[r]).rows)
    PROVE  TypesInv'
<1>1. r \in Request
  BY DEF Open
<1>2. Compared(CatalogueColumns, r) /\ ColumnInv(CatalogueColumns)
  BY <1>1, CatShared DEF CatInv, CatSaveInv, SaveInv, Keeps
<1>3. PICK rows : rows = mem[r].rows
  OBVIOUS
<1>4. ReferencesInv' /\ Puts(CatalogueColumns, rows) /\ UNCHANGED faults
  BY <1>1, <1>2, <1>3, CatReferences, WritesPut DEF TypesInv
<1>5. RowsTyped(rows) /\ faults' \in 0..MaxFaults
  BY <1>1, <1>3, <1>4 DEF TypesInv, HeldTyped, AtRestInv
<1>6. CASE Goto(r, s, m)
  BY <1>4, <1>5, <1>6, TypesGone
<1>7. CASE Goto(r, "error", NoMem)
  BY <1>4, <1>5, <1>7, TypesGone DEF Ended
<1> QED BY <1>6, <1>7 DEF Write, Reads

-----------------------------------------------------------------------------
(* Stores and opening hours.                                               *)

LEMMA StoreTypes ==
    ASSUME TypesInv, CatInv, CatInv', NEW r \in Request, StoreOperation(r)
    PROVE  TypesInv'
<1>1. CASE CreateStore(r)
  <2>1. PICK dto \in CreateStoreDto :
          /\ Begin(r, "ok", NoMem)
          /\ Inserts(r, Single(<<"store", r>>, StoreRow(dto.name)))
    BY <1>1 DEF CreateStore
  <2>2. RowTyped(<<"store", r>>, StoreRow(dto.name))
    BY DEF RowTyped, KeyTyped, ColumnTyped, CatalogueColumns, ColumnOf, StoreRow, CreateStoreDto
  <2>3. PICK rows : rows = Single(<<"store", r>>, StoreRow(dto.name))
    OBVIOUS
  <2>4. RowsTyped(rows) /\ Inserts(r, rows)
    BY <2>1, <2>2, <2>3, OneTyped
  <2>5. ColumnInv(CatalogueColumns)'
    BY CatShared, PTL
  <2>6. ReferencesInv' /\ Puts(CatalogueColumns, rows) /\ UNCHANGED faults
    BY <2>4, <2>5, InsertsPut DEF TypesInv
  <2>7. HeldTyped(r, "ok", Memory(NoMem).dto, Memory(NoMem).rows)
    BY EndTyped, MemoryFields DEF Ended, NoMem
  <2> QED BY <2>1, <2>4, <2>6, <2>7, TypesBegun
<1>2. CASE UpdateStore(r)
  <2>1. PICK s, dto : /\ dto \in CreateStoreDto
                      /\ Begin(r, "ok", NoMem) /\ Updates(r, {<<"store", s>>}, dto)
    BY <1>2 DEF UpdateStore
  <2>2. \A c \in DOMAIN dto : ColumnTyped(<<"store", s>>, c, dto[c])
    BY <2>1 DEF ColumnTyped, CreateStoreDto
  <2>3. PICK keys : keys = {<<"store", s>>}
    OBVIOUS
  <2>4. PICK rows : RowsTyped(rows) /\ Puts(CatalogueColumns, rows)
    BY <2>1, <2>2, <2>3, UpdatesTyped
  <2>5. ReferencesInv' /\ UNCHANGED faults
    BY <2>1, <2>2, <2>3, UpdatesTyped
  <2>6. HeldTyped(r, "ok", Memory(NoMem).dto, Memory(NoMem).rows)
    BY EndTyped, MemoryFields DEF Ended, NoMem
  <2> QED BY <2>1, <2>4, <2>5, <2>6, TypesBegun
<1>3. CASE RemoveStores(r)
  <2>1. PICK ids : Begin(r, "store.delete", [dto |-> ids]) /\ Removes(r, {"hours"} \X HoursOf(ids))
    BY <1>3 DEF RemoveStores
  <2>2. HeldTyped(r, "store.delete", Memory([dto |-> ids]).dto, Memory([dto |-> ids]).rows)
    BY MemoryFields, NoRowsTyped DEF HeldTyped, Editing
  <2> QED BY <2>1, <2>2, TypesBegunRemoving DEF Ended
<1>4. CASE RemoveStoresDelete(r)
  <2>1. r \in Open
    BY <1>4, Under DEF RemoveStoresDelete, Ended
  <2>2. CASE Reads(r, "error", NoMem)
    BY <2>1, <2>2, TypesRefused
  <2>3. CASE \E keys : Removes(r, keys) /\ Goto(r, "ok", NoMem)
    BY <2>1, <2>3, TypesRemoving DEF Ended
  <2> QED BY <1>4, <2>2, <2>3 DEF RemoveStoresDelete, RemoveThen
<1> QED BY <1>1, <1>2, <1>3, <1>4 DEF StoreOperation

\* A row of opening hours in memory.
LEMMA HoursTyped ==
    ASSUME CatInv, TypesInv, NEW h, h \in Live("hours"), NEW values,
           \A c \in DOMAIN values : ColumnTyped(<<"hours", h>>, c, values[c])
    PROVE  /\ RowTyped(<<"hours", h>>, Assigned(Row("hours", h), values))
           /\ RowTyped(<<"hours", h>>, Assigned(Only(Row("hours", h), HoursColumns), values))
<1>1. RowTyped(<<"hours", h>>, Row("hours", h))
  BY FoundTyped DEF Live
<1>2. DOMAIN Row("hours", h) = CatalogueColumns["hours"]
  BY CatShared, LiveKey
<1>3. \A c \in HoursColumns : c \in CatalogueColumns["hours"]
  BY DEF HoursColumns, CatalogueColumns
<1> DEFINE row == Row("hours", h)
           part == Only(row, HoursColumns)
<1>4. DOMAIN part = HoursColumns /\ \A c \in HoursColumns : part[c] = row[c]
  BY DEF Only
<1> HIDE DEF part
<1>5. \A c : ColumnOf(part, c) = IF c \in HoursColumns THEN ColumnOf(row, c) ELSE Null
  BY <1>2, <1>3, <1>4 DEF ColumnOf
<1>6. RowTyped(<<"hours", h>>, part)
  <2>1. \A c \in CatalogueColumns["hours"] \ HoursColumns : ColumnTyped(<<"hours", h>>, c, Null)
    BY DEF ColumnTyped, CatalogueColumns, HoursColumns
  <2>2. <<"hours", h>>[1] = "hours"
    OBVIOUS
  <2> QED BY <1>1, <1>5, <2>1, <2>2 DEF RowTyped
<1> QED BY <1>1, <1>6, AssignedTyped DEF part

LEMMA HoursTypes ==
    ASSUME TypesInv, CatInv, CatInv', NEW r \in Request, HoursOperation(r)
    PROVE  TypesInv'
<1>1. HoldInv /\ \A s : At(r, s) /\ s \notin {"idle"} \cup Ended => r \in Open /\ step[r] = s
  BY Under, CatShared
<1>2. HeldTyped(r, step[r], mem[r].dto, mem[r].rows)
  BY DEF TypesInv
<1>3. ASSUME NEW h, NEW row, RowTyped(<<"hours", h>>, row), NEW meant, r \in Open,
             Reads(r, "hours.reload", Save(Single(<<"hours", h>>, row), meant))
      PROVE  TypesInv'
  <2> DEFINE m == Save(Single(<<"hours", h>>, row), meant)
  <2>1. RowsTyped(Over(m, mem[r]).rows)
    <3>1. DOMAIN m = {"rows", "meant"} /\ m.rows = Single(<<"hours", h>>, row)
      BY DEF Save
    <3> HIDE DEF m
    <3> QED BY <1>1, <1>3, <3>1, OverFields, OneTyped
  <2>2. HeldTyped(r, "hours.reload", Over(m, mem[r]).dto, Over(m, mem[r]).rows)
    BY <2>1 DEF HeldTyped, Editing
  <2>3. Reads(r, "hours.reload", m)
    BY <1>3
  <2> HIDE DEF m
  <2> QED BY <1>3, <2>2, <2>3, TypesReading
<1>4. CASE CreateHours(r)
  <2>1. PICK dto : /\ dto \in CreateOpeningHoursDto(Live("store"))
                   /\ Begin(r, "hours.find", [dto |-> dto])
                   /\ UNCHANGED <<db, hist, faults>>
    BY <1>4 DEF CreateHours
  <2>2. dto.day \in Day /\ dto.slots \in Slots
    BY <2>1 DEF CreateOpeningHoursDto
  <2>3. HeldTyped(r, "hours.find", Memory([dto |-> dto]).dto, Memory([dto |-> dto]).rows)
    BY <2>2, MemoryFields, NoRowsTyped DEF HeldTyped, Editing
  <2> QED BY <2>1, <2>3, TypesBegunReading DEF Ended
<1>5. CASE CreateHoursFind(r)
  <2>1. r \in Open /\ step[r] = "hours.find"
    BY <1>1, <1>5 DEF CreateHoursFind, Ended
  <2>2. mem[r].dto.day \in Day /\ mem[r].dto.slots \in Slots
    BY <1>2, <2>1 DEF HeldTyped
  <2>3. CASE Reads(r, "hours.insert", <<>>)
    <3>1. HeldTyped(r, "hours.insert", Over(<<>>, mem[r]).dto, Over(<<>>, mem[r]).rows)
      BY <1>1, <1>2, <2>2, OverNothing DEF HeldTyped, Editing
    <3> QED BY <2>1, <2>3, <3>1, TypesReading DEF Ended
  <2>4. CASE \E h \in Live("hours") :
               Reads(r, "hours.reload",
                 Save(Single(<<"hours", h>>,
                             Assigned(Only(Row("hours", h), HoursColumns), [slots |-> mem[r].dto.slots])),
                      {"slots"}))
    <3>1. PICK h \in Live("hours") :
               Reads(r, "hours.reload",
                 Save(Single(<<"hours", h>>,
                             Assigned(Only(Row("hours", h), HoursColumns), [slots |-> mem[r].dto.slots])),
                      {"slots"}))
      BY <2>4
    <3>2. PICK values : values = [slots |-> mem[r].dto.slots]
      OBVIOUS
    <3>3. \A c \in DOMAIN values : ColumnTyped(<<"hours", h>>, c, values[c])
      BY <2>2, <3>2 DEF ColumnTyped
    <3>4. RowTyped(<<"hours", h>>, Assigned(Only(Row("hours", h), HoursColumns), values))
      BY <3>3, HoursTyped
    <3> QED BY <1>3, <2>1, <3>1, <3>2, <3>4
  <2> QED BY <1>5, <2>3, <2>4 DEF CreateHoursFind, HoursOf
<1>6. CASE CreateHoursInsert(r)
  <2> DEFINE row == HoursRow(mem[r].dto.store, mem[r].dto.day, mem[r].dto.slots)
  <2>1. r \in Open /\ step[r] = "hours.insert" /\ InsertThen(r, Single(<<"hours", r>>, row), "ok", NoMem)
    BY <1>1, <1>6 DEF CreateHoursInsert, Ended
  <2>2. mem[r].dto.day \in Day /\ mem[r].dto.slots \in Slots
    BY <1>2, <2>1 DEF HeldTyped
  <2>3. RowTyped(<<"hours", r>>, row)
    BY <2>2 DEF RowTyped, KeyTyped, ColumnTyped, CatalogueColumns, ColumnOf, HoursRow
  <2> HIDE DEF row
  <2> QED BY <2>1, <2>3, OneTyped, TypesInserting DEF Ended
<1>7. CASE UpdateHours(r)
  <2>1. PICK h, s, dto :
          /\ dto \in UpdateOpeningHoursDto
          /\ Begin(r, "hours.preload", [dto |->
               [id |-> h, values |-> Over(IF dto.day = Null THEN <<>> ELSE [day |-> dto.day],
                                          [store |-> s, slots |-> dto.slots])]])
          /\ UNCHANGED <<db, hist, faults>>
    BY <1>7 DEF UpdateHours
  <2> DEFINE some == IF dto.day = Null THEN <<>> ELSE [day |-> dto.day]
             base == [store |-> s, slots |-> dto.slots]
             values == Over(some, base)
  <2>2. \A c \in DOMAIN values : ColumnTyped(<<"hours", h>>, c, values[c])
    <3>1. dto.slots \in Slots /\ dto.day \in Day \cup {Null}
      BY <2>1 DEF UpdateOpeningHoursDto
    <3>2. DOMAIN some \subseteq {"day"} /\ ("day" \in DOMAIN some => some["day"] \in Day)
      BY <3>1
    <3>3. /\ DOMAIN base = {"store", "slots"} /\ base["slots"] \in Slots
      BY <3>1
    <3> HIDE DEF some, base
    <3>4. /\ DOMAIN values \subseteq {"day", "store", "slots"}
          /\ "day" \in DOMAIN values => values["day"] \in Day
          /\ "slots" \in DOMAIN values => values["slots"] \in Slots
      BY <3>2, <3>3 DEF Over
    <3> HIDE DEF values
    <3> QED BY <3>4 DEF ColumnTyped
  <2> DEFINE m == [dto |-> [id |-> h, values |-> values]]
  <2>3. /\ DOMAIN m = {"dto"} /\ m.dto.values = values /\ m.dto.id = h
        /\ Begin(r, "hours.preload", m)
    BY <2>1
  <2> HIDE DEF m, values
  <2>4. HeldTyped(r, "hours.preload", Memory(m).dto, Memory(m).rows)
    BY <2>2, <2>3, MemoryFields, NoRowsTyped DEF HeldTyped, Editing
  <2> QED BY <2>1, <2>3, <2>4, TypesBegunReading DEF Ended
<1>8. CASE UpdateHoursPreload(r)
  <2> DEFINE dto == mem[r].dto
  <2>1. r \in Open /\ step[r] = "hours.preload"
    BY <1>1, <1>8 DEF UpdateHoursPreload, Ended
  <2>2. \A c \in DOMAIN dto.values : ColumnTyped(<<"hours", dto.id>>, c, dto.values[c])
    BY <1>2, <2>1 DEF HeldTyped
  <2>3. CASE Reads(r, "error", NoMem)
    BY <2>1, <2>3, TypesRefused
  <2>4. CASE /\ dto.id \in Live("hours")
             /\ Reads(r, "hours.reload",
                  Save(Single(<<"hours", dto.id>>, Assigned(Row("hours", dto.id), dto.values)),
                       DOMAIN dto.values))
    <3>1. RowTyped(<<"hours", dto.id>>, Assigned(Row("hours", dto.id), dto.values))
      BY <2>2, <2>4, HoursTyped
    <3> QED BY <1>3, <2>1, <2>4, <3>1
  <2> QED BY <1>8, <2>3, <2>4 DEF UpdateHoursPreload
<1>9. CASE HoursReload(r)
  <2>1. r \in Open /\ step[r] = "hours.reload" /\ Reload(r, "hours.write")
    BY <1>1, <1>9 DEF HoursReload, Ended
  <2> DEFINE m == [dirty |-> DirtyOf(mem[r].rows)]
  <2>2. Reads(r, "hours.write", m) /\ DOMAIN m = {"dirty"}
    BY <2>1 DEF Reload
  <2> HIDE DEF m
  <2>3. HeldTyped(r, "hours.write", Over(m, mem[r]).dto, Over(m, mem[r]).rows)
    BY <1>1, <1>2, <2>2, OverFields DEF HeldTyped, Editing
  <2> QED BY <2>1, <2>2, <2>3, TypesReading DEF Ended
<1>10. CASE HoursWrite(r)
  <2>1. r \in Open /\ step[r] \in Writing /\ Write(r, "ok", NoMem)
    BY <1>1, <1>10 DEF HoursWrite, Ended, Writing, PlainWriting
  <2> QED BY <2>1, TypesWriting DEF Ended
<1>11. CASE RemoveHours(r)
  <2>1. PICK keys : Begin(r, "ok", NoMem) /\ Removes(r, keys)
    BY <1>11 DEF RemoveHours
  <2>2. HeldTyped(r, "ok", Memory(NoMem).dto, Memory(NoMem).rows)
    BY EndTyped, MemoryFields DEF Ended, NoMem
  <2> QED BY <2>1, <2>2, TypesBegunRemoving
<1> QED BY <1>4, <1>5, <1>6, <1>7, <1>8, <1>9, <1>10, <1>11 DEF HoursOperation

-----------------------------------------------------------------------------
(* Discounts.                                                              *)

LEMMA LinksTyped ==
    ASSUME CatInv, TypesInv, NEW links, links \subseteq Ids("link")
    PROVE  RowsTyped(LinksDeleted(links))
<1> SUFFICES ASSUME NEW k \in {"link"} \X links
             PROVE  RowTyped(k, Assigned(db[k], Deleted))
  BY DEF RowsTyped, LinksDeleted
<1>1. k \in DOMAIN db
  BY CatShared, IdsKeys
<1> QED BY <1>1, DeletedTyped DEF TypesInv, RowsTyped

LEMMA NewLinksTyped ==
    ASSUME NEW r, NEW d, d # Null, NEW stores, NEW status
    PROVE  RowsTyped(NewLinks(r, d, stores, status))
<1> SUFFICES ASSUME NEW k \in {<<"link", <<r, s>>>> : s \in stores}
             PROVE  RowTyped(k, LinkRow(d, k[2][2], status))
  BY DEF RowsTyped, NewLinks
<1>1. k[1] = "link"
  OBVIOUS
<1>2. PICK store : store = k[2][2]
  OBVIOUS
<1> QED BY <1>1, <1>2 DEF RowTyped, KeyTyped, ColumnTyped, CatalogueColumns, ColumnOf, LinkRow

LEMMA BodiesCoded ==
    ASSUME NEW dto \in DiscountDto
    PROVE  Coded(dto)
BY DiscountDtoAssumption DEF CreateDiscountDto, Coded, DiscountStatus

\* A new discount.
LEMMA DiscountAddedTypes ==
    ASSUME TypesInv, CatInv, CatInv', NEW r \in Request,
           \/ AddDiscount(r) \/ AddDiscountStores(r) \/ AddDiscountInsert(r)
           \/ AddDiscountLinks(r) \/ AddDiscountTransaction(r)
    PROVE  TypesInv'
<1>1. HoldInv /\ \A s : At(r, s) /\ s \notin {"idle"} \cup Ended => r \in Open /\ step[r] = s
  BY Under, CatShared
<1>2. HeldTyped(r, step[r], mem[r].dto, mem[r].rows)
  BY DEF TypesInv
<1>3. CASE AddDiscount(r)
  <2>1. PICK dto : /\ dto \in DiscountDto
                   /\ Begin(r, "discount.stores", [dto |-> dto])
                   /\ UNCHANGED <<db, hist, faults>>
    BY <1>3 DEF AddDiscount
  <2>2. HeldTyped(r, "discount.stores", Memory([dto |-> dto]).dto, Memory([dto |-> dto]).rows)
    BY <2>1, BodiesCoded, MemoryFields, NoRowsTyped DEF HeldTyped, Editing
  <2> QED BY <2>1, <2>2, TypesBegunReading DEF Ended
<1>4. CASE AddDiscountStores(r)
  <2>1. r \in Open /\ step[r] = "discount.stores" /\ Coded(mem[r].dto)
    BY <1>1, <1>2, <1>4 DEF AddDiscountStores, Ended, HeldTyped
  <2>2. CASE Reads(r, "error", NoMem)
    BY <2>1, <2>2, TypesRefused
  <2>3. CASE \E stores : Reads(r, "discount.insert", [dto |-> [mem[r].dto EXCEPT !.stores = stores]])
    <3>1. PICK stores : Reads(r, "discount.insert", [dto |-> [mem[r].dto EXCEPT !.stores = stores]])
      BY <2>3
    <3> DEFINE dto == [mem[r].dto EXCEPT !.stores = stores]
               m == [dto |-> dto]
    <3>2. Coded(dto)
      BY <2>1 DEF Coded
    <3>3. Reads(r, "discount.insert", m) /\ DOMAIN m = {"dto"} /\ m.dto = dto
      BY <3>1
    <3> HIDE DEF m, dto
    <3>4. HeldTyped(r, "discount.insert", Over(m, mem[r]).dto, Over(m, mem[r]).rows)
      BY <1>1, <1>2, <3>2, <3>3, OverFields DEF HeldTyped, Editing
    <3> QED BY <2>1, <3>3, <3>4, TypesReading DEF Ended
  <2> QED BY <1>4, <2>2, <2>3 DEF AddDiscountStores
<1>5. CASE AddDiscountInsert(r)
  <2> DEFINE row == DiscountRow(mem[r].dto.code, mem[r].dto.status)
  <2>1. /\ r \in Open /\ step[r] = "discount.insert" /\ Coded(mem[r].dto)
        /\ InsertThen(r, Single(<<"discount", r>>, row), "discount.links", <<>>)
    BY <1>1, <1>2, <1>5 DEF AddDiscountInsert, Ended, HeldTyped
  <2>2. r # Null
    BY BoundAssumption
  <2>3. RowTyped(<<"discount", r>>, row)
    BY <2>1, <2>2 DEF Coded, RowTyped, KeyTyped, ColumnTyped, CatalogueColumns, ColumnOf, DiscountRow
  <2> HIDE DEF row
  <2>4. HeldTyped(r, "discount.links", Over(<<>>, mem[r]).dto, Over(<<>>, mem[r]).rows)
    BY <1>1, <1>2, OverNothing DEF HeldTyped, Editing
  <2> QED BY <2>1, <2>3, <2>4, OneTyped, TypesInserting DEF Ended
<1>6. CASE AddDiscountLinks(r)
  <2>1. /\ r \in Open
        /\ InsertThen(r, NewLinks(r, r, mem[r].dto.stores, mem[r].dto.status), "ok", NoMem)
    BY <1>1, <1>6 DEF AddDiscountLinks, Ended
  <2>2. r # Null
    BY BoundAssumption
  <2> QED BY <2>1, <2>2, NewLinksTyped, TypesInserting DEF Ended
<1>7. CASE AddDiscountTransaction(r)
  <2>1. HeldTyped(r, "error", Memory(NoMem).dto, Memory(NoMem).rows)
    BY EndTyped, MemoryFields DEF Ended, NoMem
  <2> QED BY <1>7, <2>1, TypesBegunReading DEF AddDiscountTransaction
<1> QED BY <1>3, <1>4, <1>5, <1>6, <1>7

\* The statements of a save() of discounts and of links.
LEMMA DiscountSavedTypes ==
    ASSUME TypesInv, CatInv, CatInv', NEW r \in Request,
           \/ DiscountReload(r) \/ DiscountWrite(r) \/ LinksReload(r) \/ LinksWrite(r)
           \/ DeleteDiscountsReload(r) \/ DeleteDiscountsWrite(r)
    PROVE  TypesInv'
<1>1. HoldInv /\ \A s : At(r, s) /\ s \notin {"idle"} \cup Ended => r \in Open /\ step[r] = s
  BY Under, CatShared
<1>2. HeldTyped(r, step[r], mem[r].dto, mem[r].rows)
  BY DEF TypesInv
<1>3. ASSUME NEW s, r \in Open, Reload(r, s), s # "idle",
             HeldTyped(r, s, mem[r].dto, mem[r].rows)
      PROVE  TypesInv'
  <2> DEFINE m == [dirty |-> DirtyOf(mem[r].rows)]
  <2>1. Reads(r, s, m) /\ DOMAIN m = {"dirty"}
    BY <1>3 DEF Reload
  <2> HIDE DEF m
  <2>2. HeldTyped(r, s, Over(m, mem[r]).dto, Over(m, mem[r]).rows)
    BY <1>1, <1>3, <2>1, OverFields
  <2> QED BY <1>3, <2>1, <2>2, TypesReading
<1>4. CASE DiscountReload(r) \/ LinksReload(r) \/ DeleteDiscountsReload(r)
  <2>1. /\ r \in Open
        /\ \/ step[r] = "discount.reload" /\ Reload(r, "discount.write")
           \/ step[r] = "links.reload" /\ Reload(r, "links.write")
           \/ step[r] = "discounts.reload" /\ Reload(r, "discounts.write")
    BY <1>1, <1>4 DEF DiscountReload, LinksReload, DeleteDiscountsReload, Ended
  <2>2. step[r] = "discount.reload" => HeldTyped(r, "discount.write", mem[r].dto, mem[r].rows)
    BY <1>2 DEF HeldTyped, Editing
  <2>3. step[r] = "links.reload" => HeldTyped(r, "links.write", mem[r].dto, mem[r].rows)
    BY <1>2 DEF HeldTyped, Editing
  <2>4. HeldTyped(r, "discounts.write", mem[r].dto, mem[r].rows)
    BY <1>2 DEF HeldTyped, Editing
  <2> QED BY <1>3, <2>1, <2>2, <2>3, <2>4
<1>5. ASSUME NEW s, step[r] \in Writing, r \in Open, Write(r, s, <<>>), s # "idle",
             s \notin Ended => HeldTyped(r, s, mem[r].dto, mem[r].rows)
      PROVE  TypesInv'
  <2>1. s \notin Ended => HeldTyped(r, s, Over(<<>>, mem[r]).dto, Over(<<>>, mem[r]).rows)
    BY <1>1, <1>5, OverNothing
  <2> QED BY <1>5, <2>1, TypesWriting
<1>6. CASE DiscountWrite(r)
  <2>1. /\ r \in Open /\ step[r] = "discount.write" /\ step[r] \in Writing
        /\ \/ Write(r, "ok", <<>>)
           \/ mem[r].dto # Null /\ Write(r, "discount.diff", <<>>)
    BY <1>1, <1>6 DEF DiscountWrite, Ended, Writing, PlainWriting
  <2>2. mem[r].dto # Null => HeldTyped(r, "discount.diff", mem[r].dto, mem[r].rows)
    BY <1>2, <2>1 DEF HeldTyped, Editing
  <2> QED BY <1>5, <2>1, <2>2 DEF Ended
<1>7. CASE LinksWrite(r)
  <2>1. /\ r \in Open /\ step[r] = "links.write" /\ step[r] \in Writing
        /\ \/ Write(r, "ok", <<>>)
           \/ mem[r].dto # Null /\ Write(r, "links.stores", <<>>)
    BY <1>1, <1>7 DEF LinksWrite, Ended, Writing, PlainWriting
  <2>2. mem[r].dto # Null => HeldTyped(r, "links.stores", mem[r].dto, mem[r].rows)
    BY <1>2, <2>1 DEF HeldTyped, Editing
  <2> QED BY <1>5, <2>1, <2>2 DEF Ended
<1>8. CASE DeleteDiscountsWrite(r)
  <2>1. /\ r \in Open /\ step[r] = "discounts.write" /\ step[r] \in Writing
        /\ Write(r, "discount.links.find", <<>>)
    BY <1>1, <1>8 DEF DeleteDiscountsWrite, Ended, Writing, PlainWriting
  <2>2. HeldTyped(r, "discount.links.find", mem[r].dto, mem[r].rows)
    BY <1>2 DEF HeldTyped, Editing
  <2> QED BY <1>5, <2>1, <2>2
<1> QED BY <1>4, <1>6, <1>7, <1>8

\* A change of a discount.
LEMMA DiscountChangedTypes ==
    ASSUME TypesInv, CatInv, CatInv', NEW r \in Request,
           \/ UpdateDiscount(r) \/ UpdateDiscountFind(r) \/ UpdateDiscountDiff(r)
           \/ UpdateDiscountStores(r) \/ UpdateDiscountLinks(r) \/ ChangeDiscountStatus(r)
    PROVE  TypesInv'
<1>1. HoldInv /\ \A s : At(r, s) /\ s \notin {"idle"} \cup Ended => r \in Open /\ step[r] = s
  BY Under, CatShared
<1>2. HeldTyped(r, step[r], mem[r].dto, mem[r].rows)
  BY DEF TypesInv
<1>3. CASE UpdateDiscount(r)
  <2>1. PICK d, dto : /\ d \in Ids("discount") /\ dto \in DiscountDto
                      /\ Begin(r, "discount.find", [dto |-> UpdateDiscountDto(d, dto)])
                      /\ UNCHANGED <<db, hist, faults>>
    BY <1>3 DEF UpdateDiscount
  <2> DEFINE body == UpdateDiscountDto(d, dto)
  <2>2. d # Null /\ Coded(dto)
    BY <2>1, FoundTyped, BodiesCoded
  <2>3. Coded(body) /\ Naming(body)
    BY <2>2 DEF Coded, Naming, UpdateDiscountDto, Over
  <2> HIDE DEF body
  <2>4. HeldTyped(r, "discount.find", Memory([dto |-> body]).dto, Memory([dto |-> body]).rows)
    BY <2>3, MemoryFields, NoRowsTyped DEF HeldTyped, Editing
  <2>5. Begin(r, "discount.find", [dto |-> body])
    BY <2>1 DEF body
  <2> QED BY <2>1, <2>4, <2>5, TypesBegunReading DEF Ended
<1>4. CASE UpdateDiscountFind(r)
  <2> DEFINE dto == mem[r].dto
             values == [code |-> dto.code, status |-> dto.status]
             row == Assigned(Row("discount", dto.id), values)
             m == Save(Single(<<"discount", dto.id>>, row), {"code", "status"})
  <2>1. r \in Open /\ step[r] = "discount.find" /\ Coded(dto) /\ Naming(dto)
    BY <1>1, <1>2, <1>4 DEF UpdateDiscountFind, Ended, HeldTyped
  <2>2. CASE Reads(r, "error", NoMem)
    BY <2>1, <2>2, TypesRefused
  <2>3. CASE dto.id \in Live("discount") /\ Reads(r, "discount.reload", m)
    <3>1. RowTyped(<<"discount", dto.id>>, Row("discount", dto.id))
      BY <2>3, FoundTyped DEF Live
    <3>2. \A c \in DOMAIN values : ColumnTyped(<<"discount", dto.id>>, c, values[c])
      BY <2>1 DEF ColumnTyped, Coded
    <3>3. DOMAIN m = {"rows", "meant"} /\ m.rows = Single(<<"discount", dto.id>>, row)
      BY DEF Save
    <3> HIDE DEF values, m
    <3>4. RowTyped(<<"discount", dto.id>>, row)
      BY <3>1, <3>2, AssignedTyped
    <3> HIDE DEF row
    <3>5. HeldTyped(r, "discount.reload", Over(m, mem[r]).dto, Over(m, mem[r]).rows)
      BY <1>1, <2>1, <3>3, <3>4, OneTyped, OverFields DEF HeldTyped, Editing
    <3> QED BY <2>1, <2>3, <3>5, TypesReading
  <2> QED BY <1>4, <2>2, <2>3 DEF UpdateDiscountFind
<1>5. CASE UpdateDiscountDiff(r)
  <2>1. r \in Open /\ step[r] = "discount.diff" /\ Naming(mem[r].dto)
    BY <1>1, <1>2, <1>5 DEF UpdateDiscountDiff, Ended, HeldTyped
  <2>2. PICK lost, new : /\ lost \subseteq Ids("link")
                         /\ Reads(r, "links.reload",
                              SaveWith([mem[r].dto EXCEPT !.stores = new], LinksDeleted(lost), {"at"}))
    BY <1>5 DEF UpdateDiscountDiff, LiveLinks, Live
  <2> DEFINE dto == [mem[r].dto EXCEPT !.stores = new]
             m == SaveWith(dto, LinksDeleted(lost), {"at"})
  <2>3. Naming(dto)
    BY <2>1 DEF Naming
  <2>4. /\ DOMAIN m = {"dto", "rows", "meant"} /\ m.rows = LinksDeleted(lost) /\ m.dto = dto
        /\ Reads(r, "links.reload", m)
    BY <2>2 DEF SaveWith
  <2> HIDE DEF dto, m
  <2>5. RowsTyped(LinksDeleted(lost))
    BY <2>2, LinksTyped
  <2>6. HeldTyped(r, "links.reload", Over(m, mem[r]).dto, Over(m, mem[r]).rows)
    BY <1>1, <2>3, <2>4, <2>5, OverFields DEF HeldTyped, Editing
  <2> QED BY <2>1, <2>4, <2>6, TypesReading
<1>6. CASE UpdateDiscountStores(r)
  <2>1. r \in Open /\ step[r] = "links.stores" /\ Naming(mem[r].dto)
    BY <1>1, <1>2, <1>6 DEF UpdateDiscountStores, Ended, HeldTyped
  <2>2. CASE Reads(r, "ok", NoMem)
    BY <2>1, <2>2, TypesReading DEF Ended
  <2>3. CASE \E stores : Reads(r, "links.insert", [dto |-> [mem[r].dto EXCEPT !.stores = stores]])
    <3>1. PICK stores : Reads(r, "links.insert", [dto |-> [mem[r].dto EXCEPT !.stores = stores]])
      BY <2>3
    <3> DEFINE dto == [mem[r].dto EXCEPT !.stores = stores]
               m == [dto |-> dto]
    <3>2. Naming(dto)
      BY <2>1 DEF Naming
    <3>3. Reads(r, "links.insert", m) /\ DOMAIN m = {"dto"} /\ m.dto = dto
      BY <3>1
    <3> HIDE DEF m, dto
    <3>4. HeldTyped(r, "links.insert", Over(m, mem[r]).dto, Over(m, mem[r]).rows)
      BY <1>1, <1>2, <3>2, <3>3, OverFields DEF HeldTyped, Editing
    <3> QED BY <2>1, <3>3, <3>4, TypesReading DEF Ended
  <2> QED BY <1>6, <2>2, <2>3 DEF UpdateDiscountStores
<1>7. CASE UpdateDiscountLinks(r)
  <2>1. r \in Open /\ step[r] = "links.insert" /\ Naming(mem[r].dto)
    BY <1>1, <1>2, <1>7 DEF UpdateDiscountLinks, Ended, HeldTyped
  <2>2. InsertThen(r, NewLinks(r, mem[r].dto.id, mem[r].dto.stores, mem[r].dto.status), "ok", NoMem)
    BY <1>7 DEF UpdateDiscountLinks
  <2> QED BY <2>1, <2>2, NewLinksTyped, TypesInserting DEF Ended, Naming
<1>8. CASE ChangeDiscountStatus(r)
  <2>1. PICK d, status :
          /\ d \in Live("discount") /\ status \in StatusBody
          /\ Begin(r, "discount.reload",
               Save(Single(<<"discount", d>>, Assigned(Row("discount", d), [status |-> status])),
                    {"status"}))
          /\ UNCHANGED <<db, hist, faults>>
    BY <1>8 DEF ChangeDiscountStatus
  <2> DEFINE values == [status |-> status]
             row == Assigned(Row("discount", d), values)
             m == Save(Single(<<"discount", d>>, row), {"status"})
  <2>2. \A c \in DOMAIN values : ColumnTyped(<<"discount", d>>, c, values[c])
    BY <2>1, DiscountDtoAssumption DEF ColumnTyped
  <2>3. RowTyped(<<"discount", d>>, Row("discount", d))
    BY <2>1, FoundTyped DEF Live
  <2>4. /\ DOMAIN m = {"rows", "meant"} /\ m.rows = Single(<<"discount", d>>, row)
        /\ Begin(r, "discount.reload", m)
    BY <2>1 DEF Save
  <2> HIDE DEF values, m
  <2>5. RowTyped(<<"discount", d>>, row)
    BY <2>2, <2>3, AssignedTyped
  <2> HIDE DEF row
  <2>6. HeldTyped(r, "discount.reload", Memory(m).dto, Memory(m).rows)
    BY <2>4, <2>5, OneTyped, MemoryFields DEF HeldTyped, Editing
  <2> QED BY <2>1, <2>4, <2>6, TypesBegunReading DEF Ended
<1> QED BY <1>3, <1>4, <1>5, <1>6, <1>7, <1>8

\* A deletion.
LEMMA DiscountDeletedTypes ==
    ASSUME TypesInv, CatInv, CatInv', NEW r \in Request,
           \/ DeleteDiscount(r) \/ DeleteDiscountMark(r) \/ DeleteDiscounts(r)
           \/ DeleteDiscountLinks(r)
    PROVE  TypesInv'
<1>1. HoldInv /\ \A s : At(r, s) /\ s \notin {"idle"} \cup Ended => r \in Open /\ step[r] = s
  BY Under, CatShared
<1>2. HeldTyped(r, step[r], mem[r].dto, mem[r].rows)
  BY DEF TypesInv
<1>3. CASE DeleteDiscount(r)
  <2>1. PICK dto : Begin(r, "discount.mark", [dto |-> dto]) /\ UNCHANGED <<db, hist, faults>>
    BY <1>3 DEF DeleteDiscount
  <2>2. HeldTyped(r, "discount.mark", Memory([dto |-> dto]).dto, Memory([dto |-> dto]).rows)
    BY MemoryFields, NoRowsTyped DEF HeldTyped, Editing
  <2> QED BY <2>1, <2>2, TypesBegunReading DEF Ended
<1>4. CASE DeleteDiscountMark(r)
  <2>1. PICK keys : Updates(r, keys, Deleted) /\ Goto(r, "discount.links.find", <<>>)
    BY <1>4 DEF DeleteDiscountMark
  <2>2. r \in Open
    BY <1>1, <1>4 DEF DeleteDiscountMark, Ended
  <2>3. HeldTyped(r, "discount.links.find", Over(<<>>, mem[r]).dto, Over(<<>>, mem[r]).rows)
    BY <1>1, <1>2, OverNothing DEF HeldTyped, Editing
  <2> QED BY <2>1, <2>2, <2>3, TypesUpdating
<1>5. CASE DeleteDiscounts(r)
  <2>1. PICK found, dto :
          /\ found \subseteq Ids("discount")
          /\ Begin(r, "discounts.reload",
               SaveWith(dto, [k \in {"discount"} \X found |-> Assigned(db[k], Deleted)], {"at"}))
          /\ UNCHANGED <<db, hist, faults>>
    BY <1>5 DEF DeleteDiscounts, Live
  <2> DEFINE rows == [k \in {"discount"} \X found |-> Assigned(db[k], Deleted)]
             m == SaveWith(dto, rows, {"at"})
  <2>2. RowsTyped(rows)
    <3>1. {"discount"} \X found \subseteq DOMAIN db
      BY <2>1, CatShared, IdsKeys
    <3>2. \A k \in {"discount"} \X found : RowTyped(k, Assigned(db[k], Deleted))
      BY <3>1, DeletedTyped DEF TypesInv, RowsTyped
    <3> QED BY <3>2 DEF RowsTyped
  <2>3. /\ DOMAIN m = {"dto", "rows", "meant"} /\ m.rows = rows
        /\ Begin(r, "discounts.reload", m)
    BY <2>1 DEF SaveWith
  <2> HIDE DEF rows, m
  <2>4. HeldTyped(r, "discounts.reload", Memory(m).dto, Memory(m).rows)
    BY <2>2, <2>3, MemoryFields DEF HeldTyped, Editing
  <2> QED BY <2>1, <2>3, <2>4, TypesBegunReading DEF Ended
<1>6. CASE DeleteDiscountLinks(r)
  <2>1. r \in Open
    BY <1>1, <1>6 DEF DeleteDiscountLinks, Ended
  <2>2. CASE Reads(r, "error", NoMem)
    BY <2>1, <2>2, TypesRefused
  <2>3. CASE \E links : /\ links \subseteq Ids("link")
                        /\ Reads(r, "links.reload", SaveWith(Null, LinksDeleted(links), {"at"}))
    <3>1. PICK links : /\ links \subseteq Ids("link")
                       /\ Reads(r, "links.reload", SaveWith(Null, LinksDeleted(links), {"at"}))
      BY <2>3
    <3> DEFINE m == SaveWith(Null, LinksDeleted(links), {"at"})
    <3>2. /\ DOMAIN m = {"dto", "rows", "meant"} /\ m.rows = LinksDeleted(links) /\ m.dto = Null
          /\ Reads(r, "links.reload", m)
      BY <3>1 DEF SaveWith
    <3> HIDE DEF m
    <3>3. RowsTyped(LinksDeleted(links))
      BY <3>1, LinksTyped
    <3>4. HeldTyped(r, "links.reload", Over(m, mem[r]).dto, Over(m, mem[r]).rows)
      BY <1>1, <3>2, <3>3, OverFields DEF HeldTyped, Editing
    <3> QED BY <2>1, <3>2, <3>4, TypesReading
  <2>4. UNION {LiveLinks(d) : d \in mem[r].dto.ids} \subseteq Ids("link")
    BY DEF LiveLinks, Live
  <2> QED BY <1>6, <2>2, <2>3, <2>4 DEF DeleteDiscountLinks
<1> QED BY <1>3, <1>4, <1>5, <1>6

LEMMA DiscountTypes ==
    ASSUME TypesInv, CatInv, CatInv', NEW r \in Request, DiscountOperation(r)
    PROVE  TypesInv'
BY DiscountAddedTypes, DiscountSavedTypes, DiscountChangedTypes, DiscountDeletedTypes
   DEF DiscountOperation

-----------------------------------------------------------------------------
(* Categories, products and modifier groups.                               *)

LEMMA HeldNothing ==
    ASSUME NEW r, NEW s, NEW dto, NEW rows, RowsTyped(rows),
           s \in {"mark", "entity.reload", "entity.write", "product.check", "group.products",
                  "group.insert", "group.attach", "group.options", "group.mark",
                  "group.markOptions", "group.detach"}
    PROVE  HeldTyped(r, s, dto, rows)
BY DEF HeldTyped, Editing

LEMMA CategoryTypes ==
    ASSUME TypesInv, CatInv, CatInv', NEW r \in Request, CategoryOperation(r)
    PROVE  TypesInv'
<1>1. HoldInv /\ \A s : At(r, s) /\ s \notin {"idle"} \cup Ended => r \in Open /\ step[r] = s
  BY Under, CatShared
<1>2. HeldTyped(r, step[r], mem[r].dto, mem[r].rows) /\ RowsTyped(mem[r].rows)
  BY DEF TypesInv, HeldTyped
<1>3. CASE AddCategory(r)
  <2>1. PICK title : /\ Begin(r, "ok", NoMem)
                     /\ Inserts(r, Single(<<"category", r>>, CategoryRow(title)))
    BY <1>3 DEF AddCategory
  <2>2. RowTyped(<<"category", r>>, CategoryRow(title))
    BY DEF RowTyped, KeyTyped, ColumnTyped, CatalogueColumns, ColumnOf, CategoryRow
  <2>3. PICK rows : rows = Single(<<"category", r>>, CategoryRow(title))
    OBVIOUS
  <2>4. RowsTyped(rows) /\ Inserts(r, rows)
    BY <2>1, <2>2, <2>3, OneTyped
  <2>5. ColumnInv(CatalogueColumns)'
    BY CatShared, PTL
  <2>6. ReferencesInv' /\ Puts(CatalogueColumns, rows) /\ UNCHANGED faults
    BY <2>4, <2>5, InsertsPut DEF TypesInv
  <2>7. HeldTyped(r, "ok", Memory(NoMem).dto, Memory(NoMem).rows)
    BY EndTyped, MemoryFields DEF Ended, NoMem
  <2> QED BY <2>1, <2>4, <2>6, <2>7, TypesBegun
<1>4. CASE EditCategory(r)
  <2>1. PICK c, dto :
          /\ c \in Live("category") /\ dto \in CategoryDto
          /\ Begin(r, "entity.reload",
               Save(Single(<<"category", c>>, Assigned(Row("category", c), dto)), {"title"}))
          /\ UNCHANGED <<db, hist, faults>>
    BY <1>4 DEF EditCategory
  <2> DEFINE row == Assigned(Row("category", c), dto)
             m == Save(Single(<<"category", c>>, row), {"title"})
  <2>2. \A x \in DOMAIN dto : ColumnTyped(<<"category", c>>, x, dto[x])
    BY <2>1 DEF CategoryDto, ColumnTyped
  <2>3. RowTyped(<<"category", c>>, Row("category", c))
    BY <2>1, FoundTyped DEF Live
  <2>4. RowTyped(<<"category", c>>, row)
    BY <2>2, <2>3, AssignedTyped
  <2>5. /\ DOMAIN m = {"rows", "meant"} /\ m.rows = Single(<<"category", c>>, row)
        /\ Begin(r, "entity.reload", m)
    BY <2>1 DEF Save
  <2> HIDE DEF row, m
  <2>6. HeldTyped(r, "entity.reload", Memory(m).dto, Memory(m).rows)
    BY <2>4, <2>5, OneTyped, MemoryFields, HeldNothing
  <2> QED BY <2>1, <2>5, <2>6, TypesBegunReading DEF Ended
<1>5. CASE DeleteCategory(r)
  <2>1. PICK dto : Begin(r, "mark", [dto |-> dto]) /\ UNCHANGED <<db, hist, faults>>
    BY <1>5 DEF DeleteCategory
  <2>2. HeldTyped(r, "mark", Memory([dto |-> dto]).dto, Memory([dto |-> dto]).rows)
    BY MemoryFields, NoRowsTyped, HeldNothing
  <2> QED BY <2>1, <2>2, TypesBegunReading DEF Ended
<1>6. CASE Mark(r)
  <2>1. r \in Open
    BY <1>1, <1>6 DEF Mark, Ended
  <2> QED BY <1>6, <2>1, TypesUpdating DEF Mark, Ended
<1>7. CASE EntityReload(r)
  <2>1. r \in Open /\ Reload(r, "entity.write")
    BY <1>1, <1>7 DEF EntityReload, Ended
  <2> DEFINE m == [dirty |-> DirtyOf(mem[r].rows)]
  <2>2. Reads(r, "entity.write", m) /\ DOMAIN m = {"dirty"}
    BY <2>1 DEF Reload
  <2> HIDE DEF m
  <2>3. HeldTyped(r, "entity.write", Over(m, mem[r]).dto, Over(m, mem[r]).rows)
    BY <1>1, <1>2, <2>2, OverFields, HeldNothing
  <2> QED BY <2>1, <2>2, <2>3, TypesReading
<1>8. CASE EntityWrite(r)
  <2>1. r \in Open /\ step[r] \in Writing /\ Write(r, "ok", NoMem)
    BY <1>1, <1>8 DEF EntityWrite, Ended, Writing, PlainWriting
  <2> QED BY <2>1, TypesWriting DEF Ended
<1> QED BY <1>3, <1>4, <1>5, <1>6, <1>7, <1>8 DEF CategoryOperation

\* A part of a product in memory, with the columns a body sets.
LEMMA PartTyped ==
    ASSUME CatInv, TypesInv, NEW p, p \in Live("product"), NEW values,
           \A c \in DOMAIN values : ColumnTyped(<<"product", p>>, c, values[c])
    PROVE  RowTyped(<<"product", p>>, Assigned(Only(Row("product", p), ProductColumns), values))
<1>1. RowTyped(<<"product", p>>, Row("product", p))
  BY FoundTyped DEF Live
<1>2. DOMAIN Row("product", p) = CatalogueColumns["product"]
  BY CatShared, LiveKey
<1>3. \A c \in ProductColumns : c \in CatalogueColumns["product"]
  BY DEF ProductColumns, CatalogueColumns
<1> DEFINE row == Row("product", p)
           part == Only(row, ProductColumns)
<1>4. DOMAIN part = ProductColumns /\ \A c \in ProductColumns : part[c] = row[c]
  BY DEF Only
<1> HIDE DEF part
<1>5. \A c : ColumnOf(part, c) = IF c \in ProductColumns THEN ColumnOf(row, c) ELSE Null
  BY <1>2, <1>3, <1>4 DEF ColumnOf
<1>6. RowTyped(<<"product", p>>, part)
  <2>1. \A c \in CatalogueColumns["product"] \ ProductColumns :
           ColumnTyped(<<"product", p>>, c, Null)
    BY DEF ColumnTyped, CatalogueColumns, ProductColumns
  <2>2. <<"product", p>>[1] = "product"
    OBVIOUS
  <2> QED BY <1>1, <1>5, <2>1, <2>2 DEF RowTyped
<1> QED BY <1>6, AssignedTyped DEF part

LEMMA ProductTypes ==
    ASSUME TypesInv, CatInv, CatInv', NEW r \in Request, ProductOperation(r)
    PROVE  TypesInv'
<1>1. HoldInv /\ \A s : At(r, s) /\ s \notin {"idle"} \cup Ended => r \in Open /\ step[r] = s
  BY Under, CatShared
<1>2. HeldTyped(r, step[r], mem[r].dto, mem[r].rows) /\ RowsTyped(mem[r].rows)
  BY DEF TypesInv, HeldTyped
<1>3. CASE AddProduct(r)
  <2>1. PICK title, category, store :
          /\ Begin(r, "product.insert", [dto |-> ProductRow(title, category, store)])
          /\ UNCHANGED <<db, hist, faults>>
    BY <1>3 DEF AddProduct
  <2> DEFINE row == ProductRow(title, category, store)
  <2>2. RowTyped(<<"product", r>>, row)
    BY DEF RowTyped, KeyTyped, ColumnTyped, CatalogueColumns, ColumnOf, ProductRow
  <2> HIDE DEF row
  <2>3. HeldTyped(r, "product.insert", Memory([dto |-> row]).dto, Memory([dto |-> row]).rows)
    BY <2>2, MemoryFields, NoRowsTyped DEF HeldTyped, Editing
  <2>4. Begin(r, "product.insert", [dto |-> row])
    BY <2>1 DEF row
  <2> QED BY <2>1, <2>3, <2>4, TypesBegunReading DEF Ended
<1>4. CASE AddProductInsert(r)
  <2>1. /\ r \in Open /\ step[r] = "product.insert"
        /\ InsertThen(r, Single(<<"product", r>>, mem[r].dto), "ok", NoMem)
    BY <1>1, <1>4 DEF AddProductInsert, Ended
  <2>2. RowTyped(<<"product", r>>, mem[r].dto)
    BY <1>2, <2>1 DEF HeldTyped
  <2> QED BY <2>1, <2>2, OneTyped, TypesInserting DEF Ended
<1>5. CASE EditProduct(r)
  <2>1. PICK p, dto :
          /\ p \in Live("product") /\ dto \in EditProductDto(Ids("store"), Ids("category"))
          /\ Begin(r, "product.check",
               Save(Single(<<"product", p>>,
                           Assigned(Only(Row("product", p), ProductColumns),
                                    Only(dto, {c \in DOMAIN dto : dto[c] # Null}))),
                    DOMAIN Only(dto, {c \in DOMAIN dto : dto[c] # Null})))
          /\ UNCHANGED <<db, hist, faults>>
    BY <1>5 DEF EditProduct
  <2> DEFINE values == Only(dto, {c \in DOMAIN dto : dto[c] # Null})
             row == Assigned(Only(Row("product", p), ProductColumns), values)
             m == Save(Single(<<"product", p>>, row), DOMAIN values)
  <2>2. DOMAIN values \subseteq {"title", "category", "store"}
    BY <2>1 DEF EditProductDto, Only
  <2>3. /\ DOMAIN m = {"rows", "meant"} /\ m.rows = Single(<<"product", p>>, row)
        /\ Begin(r, "product.check", m)
    BY <2>1 DEF Save
  <2> HIDE DEF values, m
  <2>4. \A c \in DOMAIN values : ColumnTyped(<<"product", p>>, c, values[c])
    BY <2>2 DEF ColumnTyped
  <2>5. RowTyped(<<"product", p>>, row)
    BY <2>1, <2>4, PartTyped
  <2> HIDE DEF row
  <2>6. HeldTyped(r, "product.check", Memory(m).dto, Memory(m).rows)
    BY <2>3, <2>5, OneTyped, MemoryFields, HeldNothing
  <2> QED BY <2>1, <2>3, <2>6, TypesBegunReading DEF Ended
<1>6. CASE EditProductCheck(r)
  <2>1. /\ r \in Open /\ step[r] = "product.check"
        /\ \/ Reads(r, "entity.reload", <<>>)
           \/ Reads(r, "error", <<>>)
    BY <1>1, <1>6 DEF EditProductCheck, Ended
  <2>2. HeldTyped(r, "entity.reload", Over(<<>>, mem[r]).dto, Over(<<>>, mem[r]).rows)
    BY <1>1, <1>2, OverNothing, HeldNothing
  <2> QED BY <2>1, <2>2, TypesReading DEF Ended
<1>7. CASE DeleteProduct(r)
  <2>1. PICK dto : Begin(r, "mark", [dto |-> dto]) /\ UNCHANGED <<db, hist, faults>>
    BY <1>7 DEF DeleteProduct
  <2>2. HeldTyped(r, "mark", Memory([dto |-> dto]).dto, Memory([dto |-> dto]).rows)
    BY MemoryFields, NoRowsTyped, HeldNothing
  <2> QED BY <2>1, <2>2, TypesBegunReading DEF Ended
<1> QED BY <1>3, <1>4, <1>5, <1>6, <1>7 DEF ProductOperation

\* A new group.
LEMMA AttachTyped ==
    ASSUME NEW g, NEW categories
    PROVE  RowsTyped(Attach(g, categories))
<1> SUFFICES ASSUME NEW k \in {"attached"} \X ({g} \X categories)
             PROVE  RowTyped(k, AttachedRow(g, k[2][2]))
  BY DEF RowsTyped, Attach
<1>1. k[1] = "attached" /\ k[2] = <<k[2][1], k[2][2]>> /\ k[2][1] = g
  OBVIOUS
<1> QED BY <1>1 DEF RowTyped, KeyTyped, ColumnTyped, CatalogueColumns, ColumnOf, AttachedRow

LEMMA OptionTyped ==
    ASSUME NEW k, k[1] = "option", NEW g, NEW p, NEW price
    PROVE  RowTyped(k, OptionRow(g, p, price))
BY DEF RowTyped, KeyTyped, ColumnTyped, CatalogueColumns, ColumnOf, OptionRow

LEMMA GroupAddedTypes ==
    ASSUME TypesInv, CatInv, CatInv', NEW r \in Request,
           \/ AddModifier(r) \/ AddModifierProducts(r) \/ AddModifierInsert(r)
           \/ AddModifierAttach(r) \/ AddModifierOptions(r)
    PROVE  TypesInv'
<1>1. HoldInv /\ \A s : At(r, s) /\ s \notin {"idle"} \cup Ended => r \in Open /\ step[r] = s
  BY Under, CatShared
<1>2. HeldTyped(r, step[r], mem[r].dto, mem[r].rows) /\ RowsTyped(mem[r].rows)
  BY DEF TypesInv, HeldTyped
<1>3. ASSUME NEW s \in {"group.insert", "group.attach", "group.options"}
      PROVE  HeldTyped(r, s, Over(<<>>, mem[r]).dto, Over(<<>>, mem[r]).rows)
  BY <1>1, <1>2, OverNothing, HeldNothing
<1>4. CASE AddModifier(r)
  <2>1. PICK dto : Begin(r, "group.products", [dto |-> dto]) /\ UNCHANGED <<db, hist, faults>>
    BY <1>4 DEF AddModifier
  <2>2. HeldTyped(r, "group.products", Memory([dto |-> dto]).dto, Memory([dto |-> dto]).rows)
    BY MemoryFields, NoRowsTyped, HeldNothing
  <2> QED BY <2>1, <2>2, TypesBegunReading DEF Ended
<1>5. CASE AddModifierProducts(r)
  <2>1. /\ r \in Open
        /\ Reads(r, "group.insert", <<>>) \/ Reads(r, "error", <<>>)
    BY <1>1, <1>5 DEF AddModifierProducts, Ended
  <2> QED BY <1>3, <2>1, TypesReading DEF Ended
<1>6. CASE AddModifierInsert(r)
  <2>1. /\ r \in Open
        /\ InsertThen(r, Single(<<"group", r>>, GroupRow("new")), "group.attach", <<>>)
    BY <1>1, <1>6 DEF AddModifierInsert, Ended
  <2>2. RowTyped(<<"group", r>>, GroupRow("new"))
    BY DEF RowTyped, KeyTyped, ColumnTyped, CatalogueColumns, ColumnOf, GroupRow
  <2> QED BY <1>3, <2>1, <2>2, OneTyped, TypesInserting
<1>7. CASE AddModifierAttach(r)
  <2>1. r \in Open /\ InsertThen(r, Attach(r, mem[r].dto.categories), "group.options", <<>>)
    BY <1>1, <1>7 DEF AddModifierAttach, Ended
  <2> QED BY <1>3, <2>1, AttachTyped, TypesInserting
<1>8. CASE AddModifierOptions(r)
  <2>0. At(r, "group.options")
    BY <1>8, Zenon DEF AddModifierOptions
  <2>4. r \in Open
    BY <1>1, <2>0 DEF Ended
  <2> DEFINE options == mem[r].dto.options
             rows == [k \in {"option"} \X ({r} \X DOMAIN options) |->
                        OptionRow(r, options[k[2][2]].product, options[k[2][2]].price)]
  <2>1. InsertThen(r, rows, "ok", NoMem)
    BY <1>8, Zenon DEF AddModifierOptions
  <2>2. ASSUME NEW k \in {"option"} \X ({r} \X DOMAIN options)
        PROVE  RowTyped(k, OptionRow(r, options[k[2][2]].product, options[k[2][2]].price))
    <3>1. k[1] = "option"
      OBVIOUS
    <3> QED BY <3>1, OptionTyped
  <2>3. RowsTyped(rows)
    BY <2>2 DEF RowsTyped
  <2> HIDE DEF rows
  <2> QED BY <2>1, <2>3, <2>4, TypesInserting DEF Ended
<1> QED BY <1>4, <1>5, <1>6, <1>7, <1>8

\* A deletion of a group.
LEMMA GroupDeletedTypes ==
    ASSUME TypesInv, CatInv, CatInv', NEW r \in Request,
           \/ DeleteModifier(r) \/ DeleteModifierGroup(r) \/ DeleteModifierOptions(r)
           \/ DeleteModifierDetach(r)
    PROVE  TypesInv'
<1>1. HoldInv /\ \A s : At(r, s) /\ s \notin {"idle"} \cup Ended => r \in Open /\ step[r] = s
  BY Under, CatShared
<1>2. RowsTyped(mem[r].rows)
  BY DEF TypesInv, HeldTyped
<1>3. ASSUME NEW s \in {"group.markOptions", "group.detach"}
      PROVE  HeldTyped(r, s, Over(<<>>, mem[r]).dto, Over(<<>>, mem[r]).rows)
  BY <1>1, <1>2, OverNothing, HeldNothing
<1>4. CASE DeleteModifier(r)
  <2>1. PICK g : Begin(r, "group.mark", [dto |-> g]) /\ UNCHANGED <<db, hist, faults>>
    BY <1>4 DEF DeleteModifier
  <2>2. HeldTyped(r, "group.mark", Memory([dto |-> g]).dto, Memory([dto |-> g]).rows)
    BY MemoryFields, NoRowsTyped, HeldNothing
  <2> QED BY <2>1, <2>2, TypesBegunReading DEF Ended
<1>5. CASE DeleteModifierGroup(r)
  <2>1. PICK keys : Updates(r, keys, Deleted) /\ Goto(r, "group.markOptions", <<>>)
    BY <1>5 DEF DeleteModifierGroup
  <2>2. r \in Open
    BY <1>1, <1>5 DEF DeleteModifierGroup, Ended
  <2> QED BY <1>3, <2>1, <2>2, TypesUpdating
<1>6. CASE DeleteModifierOptions(r)
  <2>1. PICK keys : Updates(r, keys, Deleted) /\ Goto(r, "group.detach", <<>>)
    BY <1>6 DEF DeleteModifierOptions
  <2>2. r \in Open
    BY <1>1, <1>6 DEF DeleteModifierOptions, Ended
  <2> QED BY <1>3, <2>1, <2>2, TypesUpdating
<1>7. CASE DeleteModifierDetach(r)
  <2>1. PICK keys : Removes(r, keys) /\ Goto(r, "ok", NoMem)
    BY <1>7 DEF DeleteModifierDetach
  <2>2. r \in Open
    BY <1>1, <1>7 DEF DeleteModifierDetach, Ended
  <2> QED BY <2>1, <2>2, TypesRemoving DEF Ended
<1> QED BY <1>4, <1>5, <1>6, <1>7

\* A change of a group.
LEMMA EditHolds ==
    ASSUME TypesInv, CatInv, NEW r \in Request, step[r] \in Editing
    PROVE  /\ DOMAIN mem[r].dto = {"categories", "options", "id", "group", "existing"}
           /\ RowTyped(<<"group", mem[r].dto.id>>, mem[r].dto.group)
           /\ RowsTyped(mem[r].dto.existing) /\ RowsTyped(mem[r].rows)
BY DEF TypesInv, HeldTyped, CatInv, Told, EditKnown

LEMMA EditTyped ==
    ASSUME NEW r, NEW s \in Editing, NEW dto, NEW rows, RowsTyped(rows),
           RowTyped(<<"group", dto.id>>, dto.group), RowsTyped(dto.existing)
    PROVE  HeldTyped(r, s, dto, rows)
BY DEF HeldTyped, Editing

LEMMA GroupEditTypes ==
    ASSUME TypesInv, CatInv, CatInv', NEW r \in Request,
           \/ UpdateModifier(r) \/ UpdateModifierCategories(r) \/ UpdateModifierDetach(r)
           \/ UpdateModifierAttachReload(r) \/ UpdateModifierAttach(r)
           \/ UpdateModifierExisting(r) \/ UpdateModifierGroup(r)
    PROVE  TypesInv'
<1>1. HoldInv /\ \A s : At(r, s) /\ s \notin {"idle"} \cup Ended => r \in Open /\ step[r] = s
  BY Under, CatShared
<1>2. /\ {"edit", "edit.detach", "edit.attach.reload", "edit.attach", "edit.attached",
          "edit.option"} \subseteq Editing
      /\ \A s \in Editing : s # "idle" /\ s \notin Ended
  BY DEF Editing, Ended
<1>3. ASSUME NEW s \in Editing, step[r] \in Editing
      PROVE  HeldTyped(r, s, Over(<<>>, mem[r]).dto, Over(<<>>, mem[r]).rows)
  BY <1>1, <1>3, OverNothing, EditHolds, EditTyped
<1>4. CASE UpdateModifier(r)
  <2>1. PICK g, dto :
          /\ g \in Live("group") /\ dto \in GroupEdit
          /\ Begin(r, "edit", [dto |-> [categories |-> dto.categories, options |-> dto.options,
                 id |-> g, group |-> Assigned(Row("group", g), [title |-> "edited"]),
                 existing |-> <<>>]])
          /\ UNCHANGED <<db, hist, faults>>
    BY <1>4 DEF UpdateModifier
  <2> DEFINE first == Assigned(Row("group", g), [title |-> "edited"])
             body == [categories |-> dto.categories, options |-> dto.options,
                      id |-> g, group |-> first, existing |-> <<>>]
  <2>2. RowTyped(<<"group", g>>, first)
    <3> DEFINE values == [title |-> "edited"]
    <3>1. RowTyped(<<"group", g>>, Row("group", g))
      BY <2>1, FoundTyped DEF Live
    <3>2. \A c \in DOMAIN values : ColumnTyped(<<"group", g>>, c, values[c])
      BY DEF ColumnTyped
    <3> HIDE DEF values
    <3>3. RowTyped(<<"group", g>>, Assigned(Row("group", g), values))
      BY <3>1, <3>2, AssignedTyped
    <3> QED BY <3>3 DEF values
  <2>3. /\ body.id = g /\ body.group = first /\ body.existing = <<>>
        /\ Begin(r, "edit", [dto |-> body])
    BY <2>1
  <2> HIDE DEF body, first
  <2>4. HeldTyped(r, "edit", Memory([dto |-> body]).dto, Memory([dto |-> body]).rows)
    BY <1>2, <2>2, <2>3, MemoryFields, NoRowsTyped, EditTyped
  <2> QED BY <1>2, <2>1, <2>3, <2>4, TypesBegunReading
<1>5. CASE UpdateModifierCategories(r)
  <2>1. /\ r \in Open /\ step[r] \in Editing
        /\ Reads(r, "edit.detach", <<>>) \/ Reads(r, "error", <<>>)
    BY <1>1, <1>2, <1>5 DEF UpdateModifierCategories
  <2> QED BY <1>2, <1>3, <2>1, TypesReading DEF Ended
<1>6. CASE UpdateModifierDetach(r)
  <2> DEFINE rows == Attach(mem[r].dto.id, mem[r].dto.categories)
             m == Save(rows, {"at", "group", "category"})
  <2>1. r \in Open /\ step[r] \in Editing
    BY <1>1, <1>2, <1>6 DEF UpdateModifierDetach
  <2>2. PICK keys : Removes(r, keys)
    BY <1>6 DEF UpdateModifierDetach
  <2>3. /\ DOMAIN m = {"rows", "meant"} /\ m.rows = rows
        /\ Goto(r, "edit.attach.reload", m)
    BY <1>6 DEF UpdateModifierDetach, Save
  <2> HIDE DEF m
  <2>4. RowsTyped(rows)
    BY AttachTyped
  <2> HIDE DEF rows
  <2>5. HeldTyped(r, "edit.attach.reload", Over(m, mem[r]).dto, Over(m, mem[r]).rows)
    BY <1>1, <1>2, <2>1, <2>3, <2>4, OverFields, EditHolds, EditTyped
  <2> QED BY <1>2, <2>1, <2>2, <2>3, <2>5, TypesRemoving
<1>7. CASE UpdateModifierAttachReload(r)
  <2> DEFINE m == [dirty |-> DirtyOf(mem[r].rows)]
  <2>1. /\ r \in Open /\ step[r] \in Editing
        /\ Reads(r, "edit.attach", m) /\ DOMAIN m = {"dirty"}
    BY <1>1, <1>2, <1>7 DEF UpdateModifierAttachReload, Reload
  <2> HIDE DEF m
  <2>2. HeldTyped(r, "edit.attach", Over(m, mem[r]).dto, Over(m, mem[r]).rows)
    BY <1>1, <1>2, <2>1, OverFields, EditHolds, EditTyped
  <2> QED BY <1>2, <2>1, <2>2, TypesReading
<1>8. CASE UpdateModifierAttach(r)
  <2>1. /\ r \in Open /\ step[r] = "edit.attach" /\ step[r] \in Editing /\ step[r] \in Writing
        /\ Write(r, "edit.attached", <<>>)
    BY <1>1, <1>2, <1>8 DEF UpdateModifierAttach, Writing
  <2> QED BY <1>2, <1>3, <2>1, TypesWriting
<1>9. CASE UpdateModifierExisting(r)
  <2> DEFINE known == Loaded("option", LiveOptions(mem[r].dto.id), OptionColumns)
             dto == [mem[r].dto EXCEPT !.existing = known]
             m == [dto |-> dto]
  <2>1. r \in Open /\ step[r] \in Editing
    BY <1>1, <1>2, <1>9 DEF UpdateModifierExisting
  <2>2. Reads(r, "edit.option", m) /\ DOMAIN m = {"dto"} /\ m.dto = dto
    BY <1>9 DEF UpdateModifierExisting
  <2>3. dto.id = mem[r].dto.id /\ dto.group = mem[r].dto.group /\ dto.existing = known
    BY <2>1, EditHolds
  <2>4. RowsTyped(known)
    <3> DEFINE ids == LiveOptions(mem[r].dto.id)
    <3>1. {"option"} \X ids \subseteq DOMAIN db
      BY CatShared, IdsKeys DEF LiveOptions, Live
    <3> SUFFICES ASSUME NEW k \in {"option"} \X ids
                 PROVE  RowTyped(k, Only(db[k], OptionColumns))
      BY DEF RowsTyped, Loaded
    <3>2. k \in DOMAIN db /\ k[1] = "option"
      BY <3>1
    <3> HIDE DEF ids
    <3>3. RowTyped(k, db[k]) /\ DOMAIN db[k] = CatalogueColumns["option"]
      BY <3>2, CatShared DEF TypesInv, RowsTyped, ColumnInv, Schema
    <3>4. /\ DOMAIN Only(db[k], OptionColumns) = OptionColumns
          /\ "at" \in OptionColumns /\ Only(db[k], OptionColumns)["at"] = db[k]["at"]
      BY DEF Only, OptionColumns
    <3>5. ColumnTyped(k, "at", db[k]["at"])
      BY <3>2, <3>3 DEF RowTyped, ColumnOf, CatalogueColumns
    <3>6. ASSUME NEW c \in CatalogueColumns[k[1]]
          PROVE  ColumnTyped(k, c, ColumnOf(Only(db[k], OptionColumns), c))
      <4>1. c = "at" => ColumnOf(Only(db[k], OptionColumns), c) = db[k]["at"]
        BY <3>4 DEF ColumnOf
      <4> QED BY <3>2, <3>5, <4>1 DEF ColumnTyped
    <3> QED BY <3>3, <3>6 DEF RowTyped
  <2> HIDE DEF m, dto, known
  <2>5. HeldTyped(r, "edit.option", Over(m, mem[r]).dto, Over(m, mem[r]).rows)
    BY <1>1, <1>2, <2>1, <2>2, <2>3, <2>4, OverFields, EditHolds, EditTyped
  <2> QED BY <1>2, <2>1, <2>2, <2>5, TypesReading
<1>10. CASE UpdateModifierGroup(r)
  <2> DEFINE rows == Single(<<"group", mem[r].dto.id>>, mem[r].dto.group)
             m == [dto |-> Null, rows |-> rows, meant |-> {"title"}, dirty |-> DirtyOf(rows)]
  <2>1. r \in Open /\ step[r] \in Editing
    BY <1>1, <1>2, <1>10 DEF UpdateModifierGroup
  <2>2. Reads(r, "entity.write", m)
    BY <1>10 DEF UpdateModifierGroup
  <2>3. DOMAIN m = {"dto", "rows", "meant", "dirty"} /\ m.rows = rows
    OBVIOUS
  <2>4. RowsTyped(rows)
    BY <2>1, EditHolds, OneTyped
  <2> HIDE DEF m, rows
  <2>5. HeldTyped(r, "entity.write", Over(m, mem[r]).dto, Over(m, mem[r]).rows)
    BY <1>1, <2>3, <2>4, OverFields, HeldNothing
  <2> QED BY <2>1, <2>2, <2>5, TypesReading
<1> QED BY <1>4, <1>5, <1>6, <1>7, <1>8, <1>9, <1>10

\* The loop over the options.
LEMMA GroupOptionTypes ==
    ASSUME TypesInv, CatInv, CatInv', NEW r \in Request,
           \/ UpdateModifierOption(r) \/ UpdateModifierOptionInsert(r)
           \/ UpdateModifierOptionReload(r) \/ UpdateModifierOptionWrite(r)
    PROVE  TypesInv'
<1>1. HoldInv /\ \A s : At(r, s) /\ s \notin {"idle"} \cup Ended => r \in Open /\ step[r] = s
  BY Under, CatShared
<1>2. /\ {"edit.option", "edit.option.insert", "edit.option.reload", "edit.option.write"}
           \subseteq Editing
      /\ \A s \in Editing : s # "idle" /\ s \notin Ended
  BY DEF Editing, Ended
<1>3. ASSUME step[r] \in Editing
      PROVE  HeldTyped(r, "edit.option", Over(<<>>, mem[r]).dto, Over(<<>>, mem[r]).rows)
  BY <1>1, <1>2, <1>3, OverNothing, EditHolds, EditTyped
<1>4. CASE UpdateModifierOption(r)
  <2> DEFINE dto == mem[r].dto
             line == Head(dto.options)
             rest == [dto EXCEPT !.options = Tail(@)]
             key == <<"option", line.optionId>>
             values == [product |-> line.product, price |-> line.price]
  <2>1. r \in Open /\ step[r] \in Editing
    BY <1>1, <1>2, <1>4 DEF UpdateModifierOption
  <2>2. \/ Reads(r, "error", NoMem)
        \/ \E n : Reads(r, "edit.option.insert",
                    SaveWith(rest, Single(<<"option", <<r, n>>>>,
                                          OptionRow(dto.id, line.product, line.price)), {}))
        \/ /\ line.optionId = Null \/ key \in DOMAIN dto.existing
           /\ line.optionId # Null
           /\ Reads(r, "edit.option.reload",
                SaveWith(rest, Single(key, Assigned(dto.existing[key], values)), DOMAIN values))
    BY <1>4 DEF UpdateModifierOption
  <2>3. rest.id = dto.id /\ rest.group = dto.group /\ rest.existing = dto.existing
    BY <2>1, EditHolds
  <2> HIDE DEF rest
  <2>4. ASSUME NEW s \in Editing, NEW rows, RowsTyped(rows), NEW meant,
               Reads(r, s, SaveWith(rest, rows, meant))
        PROVE  TypesInv'
    <3> DEFINE m == SaveWith(rest, rows, meant)
    <3>1. DOMAIN m = {"dto", "rows", "meant"} /\ m.rows = rows /\ m.dto = rest /\ Reads(r, s, m)
      BY <2>4 DEF SaveWith
    <3> HIDE DEF m
    <3>2. HeldTyped(r, s, Over(m, mem[r]).dto, Over(m, mem[r]).rows)
      BY <1>1, <2>1, <2>3, <2>4, <3>1, OverFields, EditHolds, EditTyped
    <3> QED BY <1>2, <2>1, <3>1, <3>2, TypesReading
  <2>5. CASE Reads(r, "error", NoMem)
    BY <2>1, <2>5, TypesRefused
  <2>6. ASSUME NEW n, Reads(r, "edit.option.insert",
                    SaveWith(rest, Single(<<"option", <<r, n>>>>,
                                          OptionRow(dto.id, line.product, line.price)), {}))
        PROVE  TypesInv'
    <3> DEFINE made == <<"option", <<r, n>>>>
    <3>1. made[1] = "option"
      OBVIOUS
    <3> HIDE DEF made, dto, line
    <3>2. RowsTyped(Single(made, OptionRow(dto.id, line.product, line.price)))
      BY <3>1, OptionTyped, OneTyped
    <3> QED BY <1>2, <2>4, <2>6, <3>2 DEF made
  <2>7. CASE /\ key \in DOMAIN dto.existing
             /\ Reads(r, "edit.option.reload",
                  SaveWith(rest, Single(key, Assigned(dto.existing[key], values)), DOMAIN values))
    <3>1. RowTyped(key, dto.existing[key])
      BY <2>1, <2>7, EditHolds DEF RowsTyped
    <3>2. key[1] = "option" /\ DOMAIN values = {"product", "price"}
      OBVIOUS
    <3> HIDE DEF key, values, dto
    <3>3. \A c \in DOMAIN values : ColumnTyped(key, c, values[c])
      BY <3>2 DEF ColumnTyped
    <3>4. RowsTyped(Single(key, Assigned(dto.existing[key], values)))
      BY <3>1, <3>3, AssignedTyped, OneTyped
    <3> QED BY <1>2, <2>4, <2>7, <3>4
  <2> QED BY <2>2, <2>5, <2>6, <2>7
<1>5. CASE UpdateModifierOptionInsert(r)
  <2>1. /\ r \in Open /\ step[r] \in Editing
        /\ InsertThen(r, mem[r].rows, "edit.option", <<>>)
    BY <1>1, <1>2, <1>5 DEF UpdateModifierOptionInsert
  <2> QED BY <1>2, <1>3, <2>1, EditHolds, TypesInserting
<1>6. CASE UpdateModifierOptionReload(r)
  <2> DEFINE m == [dirty |-> DirtyOf(mem[r].rows)]
  <2>1. /\ r \in Open /\ step[r] \in Editing
        /\ Reads(r, "edit.option.write", m) /\ DOMAIN m = {"dirty"}
    BY <1>1, <1>2, <1>6 DEF UpdateModifierOptionReload, Reload
  <2> HIDE DEF m
  <2>2. HeldTyped(r, "edit.option.write", Over(m, mem[r]).dto, Over(m, mem[r]).rows)
    BY <1>1, <1>2, <2>1, OverFields, EditHolds, EditTyped
  <2> QED BY <1>2, <2>1, <2>2, TypesReading
<1>7. CASE UpdateModifierOptionWrite(r)
  <2>1. /\ r \in Open /\ step[r] \in Editing /\ step[r] \in Writing
        /\ Write(r, "edit.option", <<>>)
    BY <1>1, <1>2, <1>7 DEF UpdateModifierOptionWrite, Writing
  <2> QED BY <1>2, <1>3, <2>1, TypesWriting
<1> QED BY <1>4, <1>5, <1>6, <1>7

LEMMA GroupTypes ==
    ASSUME TypesInv, CatInv, CatInv', NEW r \in Request, GroupOperation(r)
    PROVE  TypesInv'
BY GroupAddedTypes, GroupDeletedTypes, GroupEditTypes, GroupOptionTypes DEF GroupOperation

-----------------------------------------------------------------------------
(* The whole.                                                              *)

LEMMA OperationTypes ==
    ASSUME TypesInv, CatInv, CatInv', NEW r \in Request, Operation(r)
    PROVE  TypesInv'
<1>1. CASE EntityWrite(r)
  BY <1>1, CategoryTypes DEF CategoryOperation
<1>2. CASE Fails(r)
  <2>1. /\ r \in Open /\ Goto(r, "error", NoMem) /\ UNCHANGED db
        /\ faults < MaxFaults /\ faults' = faults + 1
    BY <1>2 DEF Fails, Open
  <2>2. ReferencesInv' /\ Puts(CatalogueColumns, db) /\ RowsTyped(db)
    BY <2>1, ReadsPut DEF TypesInv
  <2>3. faults' \in 0..MaxFaults
    BY <2>1, BoundAssumption DEF TypesInv, AtRestInv
  <2> QED BY <2>1, <2>2, <2>3, TypesGone DEF Ended
<1> QED BY <1>1, <1>2, StoreTypes, HoursTypes, DiscountTypes, CategoryTypes, ProductTypes,
           GroupTypes DEF Operation

LEMMA TypesSame ==
    ASSUME TypesInv, UNCHANGED tableVars
    PROVE  TypesInv'
BY DEF TypesInv, tableVars, ReferencesInv, KeysHold, AtRestInv, RowsTyped

LEMMA TypesInitially == Init => TypesInv
<1> SUFFICES ASSUME Init
             PROVE  TypesInv
  OBVIOUS
<1>1. PICK rows : /\ db = rows /\ TablesInit(rows) /\ area \in Area /\ rows = Rows[area]
  BY DEF Init, TablesInit
<1>2. /\ KeysHold(rows, DOMAIN rows) /\ Schema(CatalogueColumns, rows)
      /\ \A k \in DOMAIN rows : \A c \in DOMAIN rows[k] : ColumnTyped(k, c, rows[k][c])
      /\ \A k \in DOMAIN rows :
            /\ k[1] \in DOMAIN CatalogueColumns /\ k[2] # Null
            /\ k[1] = "attached" => k[2] = <<rows[k].group, rows[k].category>>
  BY <1>1, CatalogueAssumption, RowsAssumption, RowTypesAssumption
<1>3. ASSUME NEW k \in DOMAIN rows
      PROVE  RowTyped(k, rows[k])
  <2>1. DOMAIN rows[k] = CatalogueColumns[k[1]]
    BY <1>2 DEF Schema
  <2>2. KeyTyped(k)
    <3>1. PICK g, c : g = rows[k].group /\ c = rows[k].category
      OBVIOUS
    <3>2. k[1] = "attached" => k[2] = <<g, c>>
      BY <1>2, <3>1
    <3> QED BY <1>2, <3>2 DEF KeyTyped
  <2> QED BY <1>2, <2>1, <2>2 DEF RowTyped, ColumnOf
<1>4. \A r \in Request : step[r] = "idle" /\ mem[r] = NoMem
  BY <1>1 DEF TablesInit
<1>5. \A r \in Request : HeldTyped(r, "idle", NoMem.dto, NoMem.rows)
  BY NoRowsTyped DEF HeldTyped, NoMem, Editing
<1>6. faults \in 0..MaxFaults
  BY <1>1, BoundAssumption DEF TablesInit
<1> QED BY <1>1, <1>2, <1>3, <1>4, <1>5, <1>6 DEF TypesInv, ReferencesInv, AtRestInv, RowsTyped

LEMMA TypesInductive == TypesInv /\ CatInv /\ CatInv' /\ [Next]_vars => TypesInv'
<1> SUFFICES ASSUME TypesInv, CatInv, CatInv', [Next]_vars
             PROVE  TypesInv'
  OBVIOUS
<1>1. CASE UNCHANGED vars \/ Finished
  BY <1>1, TypesSame DEF vars, Finished
<1>2. CASE \E r \in Among[area] : Operation(r)
  <2>1. Among[area] \subseteq Request
    BY CatalogueAssumption DEF CatInv
  <2> QED BY <1>2, <2>1, OperationTypes
<1> QED BY <1>1, <1>2 DEF Next

\* The keys that rows of table t hold in column c are those of rows of t2.
LEMMA ForeignHolds ==
    ASSUME CatInv, TypesInv, NEW f \in CatalogueReferences, NEW i \in Ids(f.table)
    PROVE  \/ Row(f.table, i)[f.column] = Null /\ f.optional
           \/ Row(f.table, i)[f.column] \in Ids(f.target)
<1>1. f \in References /\ ColumnInv(CatalogueColumns)
  BY CatalogueAssumption, CatShared
<1> QED BY <1>1, Referred DEF TypesInv

LEMMA TypesFollow ==
    ASSUME CatInv, TypesInv
    PROVE  TypeOK
<1>1. ASSUME NEW t, NEW i \in Ids(t)
      PROVE  \A c \in CatalogueColumns[t] : ColumnTyped(<<t, i>>, c, Row(t, i)[c])
  <2>1. <<t, i>> \in DOMAIN db /\ RowTyped(<<t, i>>, Row(t, i)) /\ Row(t, i) = db[<<t, i>>]
    BY FoundTyped DEF Row
  <2>2. DOMAIN Row(t, i) = CatalogueColumns[t]
    BY <2>1, CatShared DEF ColumnInv, Schema
  <2>3. <<t, i>>[1] = t
    OBVIOUS
  <2> QED BY <2>1, <2>2, <2>3 DEF RowTyped, ColumnOf
<1>2. TablesTypeOK
  <2>1. ASSUME NEW k \in DOMAIN db
        PROVE  db[k].at \in {"live", "deleted"}
    <3>1. RowTyped(k, db[k]) /\ DOMAIN db[k] = CatalogueColumns[k[1]]
      BY CatShared DEF TypesInv, RowsTyped, ColumnInv, Schema
    <3>2. k[1] \in DOMAIN CatalogueColumns
      BY <3>1 DEF RowTyped, KeyTyped
    <3> QED BY <3>1, <3>2 DEF RowTyped, ColumnOf, CatalogueColumns, ColumnTyped
  <2> QED BY <2>1, CatShared, TablesTyped DEF TypesInv
<1>3. DiscountsTypeOK
  <2>1. ASSUME NEW l \in Ids("link")
        PROVE  Row("link", l).discount \in Ids("discount")
    <3> DEFINE f == [table |-> "link", column |-> "discount", target |-> "discount",
                     rule |-> "refuse", optional |-> TRUE]
    <3>1. f \in CatalogueReferences
      BY DEF CatalogueReferences
    <3>2. f.table = "link" /\ f.column = "discount" /\ f.target = "discount"
      OBVIOUS
    <3> HIDE DEF f
    <3>3. \/ Row("link", l)["discount"] = Null \/ Row("link", l)["discount"] \in Ids("discount")
      BY <3>1, <3>2, ForeignHolds
    <3>4. Row("link", l)["discount"] # Null
      BY <1>1 DEF CatalogueColumns, ColumnTyped
    <3> QED BY <3>3, <3>4
  <2>2. ASSUME NEW d \in Ids("discount")
        PROVE  Row("discount", d).code \in Code /\ Row("discount", d).status \in DiscountStatus
    BY <1>1 DEF CatalogueColumns, ColumnTyped
  <2> QED BY <2>1, <2>2 DEF DiscountsTypeOK
<1>4. StoresTypeOK
  <2>1. ASSUME NEW h \in Ids("hours")
        PROVE  Row("hours", h).store \in Ids("store") \cup {Null}
    <3> DEFINE f == [table |-> "hours", column |-> "store", target |-> "store",
                     rule |-> "cascade", optional |-> TRUE]
    <3>1. f \in CatalogueReferences
      BY DEF CatalogueReferences
    <3>2. f.table = "hours" /\ f.column = "store" /\ f.target = "store"
      OBVIOUS
    <3> HIDE DEF f
    <3> QED BY <3>1, <3>2, ForeignHolds
  <2>2. \A s \in Ids("store") : Row("store", s).name \in StoreName
    BY <1>1 DEF CatalogueColumns, ColumnTyped
  <2>3. \A h \in Ids("hours") : Row("hours", h).day \in Day /\ Row("hours", h).slots \in Slots
    BY <1>1 DEF CatalogueColumns, ColumnTyped
  <2> QED BY <2>1, <2>2, <2>3 DEF StoresTypeOK
<1>5. MenuTypeOK
  <2>1. ASSUME NEW c \in {"group", "product"}, NEW o \in Ids("option")
        PROVE  Row("option", o)[c] \in Ids(c)
    <3> DEFINE f == [table |-> "option", column |-> c, target |-> c, rule |-> "refuse",
                     optional |-> FALSE]
    <3>1. f \in CatalogueReferences
      <4> DEFINE k == <<"option", c, FALSE>>
      <4>1. k[1] = "option" /\ k[2] = c /\ k[3] = FALSE
        OBVIOUS
      <4>2. k \in {<<"product", "category", TRUE>>, <<"product", "store", FALSE>>,
                   <<"option", "group", FALSE>>, <<"option", "product", FALSE>>,
                   <<"attached", "group", FALSE>>, <<"attached", "category", FALSE>>}
        OBVIOUS
      <4> HIDE DEF k
      <4>3. f = [table |-> k[1], column |-> k[2], target |-> k[2], rule |-> "refuse",
                 optional |-> k[3]]
        BY <4>1
      <4> QED BY <4>2, <4>3 DEF CatalogueReferences, MenuReferences
    <3>2. f.table = "option" /\ f.column = c /\ f.target = c /\ ~f.optional
      OBVIOUS
    <3> HIDE DEF f
    <3> QED BY <3>1, <3>2, ForeignHolds
  <2>2. ASSUME NEW a \in Ids("attached")
        PROVE  a = <<Row("attached", a).group, Row("attached", a).category>>
    <3> DEFINE k == <<"attached", a>>
    <3>1. k[1] = "attached" /\ k[2] = a
      OBVIOUS
    <3>2. Row("attached", a)["group"] = k[2][1] /\ Row("attached", a)["category"] = k[2][2]
      BY <1>1, <3>1 DEF CatalogueColumns, ColumnTyped
    <3>3. KeyTyped(k)
      BY FoundTyped DEF RowTyped
    <3> HIDE DEF k
    <3> QED BY <3>1, <3>2, <3>3 DEF KeyTyped
  <2> QED BY <2>1, <2>2 DEF MenuTypeOK
<1> QED BY <1>2, <1>3, <1>4, <1>5 DEF TypeOK, TypesInv, ReferencesInv

\* Rows, requests and history are well formed in every service's table: the
\* columns hold what the entities declare, every key a row holds is the key of
\* a row, and a request that is not under way holds nothing.
THEOREM CatalogueTyped == Spec => []TypeOK
BY CatInitially, CatInductive, TypesInitially, TypesInductive, TypesFollow, PTL DEF Spec

=============================================================================
