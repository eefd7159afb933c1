------------------------------- MODULE Tables -------------------------------
(***************************************************************************)
(* What every service of the back end shares: tables of rows that most     *)
(* services delete by a date (BaseEntity.deletedAt) and some by DELETE,    *)
(* requests that interleave at each await, and TypeORM's save().           *)
(*                                                                         *)
(* A row is a record of the columns the properties tell apart, with the    *)
(* column "at" standing for deletedAt.  A key is <<table, id>>; a row made *)
(* by a request takes an id named after the request.  save() of objects    *)
(* held in memory is two statements, as the library does it: Reload reads  *)
(* the rows, removed by date or not, and keeps the columns that differ     *)
(* from those in memory; Write updates those columns, or inserts the rows  *)
(* Reload did not find.  A column absent from the object in memory (a      *)
(* relation that was not loaded) is never written.                         *)
(***************************************************************************)
EXTENDS Naturals, FiniteSets, TLC

CONSTANTS
    Null,
    Request,     \* requests considered, numbered in the order they begin
    MaxOpen,     \* requests under way at once
    MaxFaults,   \* statements that fail, processes that die
    References,  \* foreign keys: [table, column, target, rule, optional]
    Uniques      \* unique columns: [table, column]

ASSUME BoundAssumption ==
    /\ Request \subseteq Nat /\ Null \notin Nat
    /\ MaxOpen \in Nat /\ MaxFaults \in Nat
ASSUME ReferenceAssumption ==
    References \subseteq [table : STRING, column : STRING, target : STRING,
                          rule : {"refuse", "cascade"}, optional : BOOLEAN]
ASSUME UniqueAssumption == Uniques \subseteq [table : STRING, column : STRING]

VARIABLES
    db,      \* rows by key
    step,    \* step of each request
    mem,     \* what it holds between two statements
    faults,  \* faults so far
    met,     \* history: the requests that were open together with it
    hist     \* history: of each column, the value last asked for, by whom,
             \* and the request that last wrote it

tableVars == <<db, step, mem, faults, met, hist>>

Ended == {"ok", "error"}
Open == {r \in Request : step[r] \notin {"idle"} \cup Ended}
NoMem == [dto |-> Null, rows |-> <<>>, meant |-> {}, dirty |-> <<>>]

\* Every row as first found: nobody asked for its values.
TablesInit(rows) ==
    /\ db = rows
    /\ step = [r \in Request |-> "idle"]
    /\ mem = [r \in Request |-> NoMem]
    /\ faults = 0
    /\ met = [r \in Request |-> {}]
    /\ hist = [k \in DOMAIN rows |->
                 [c \in DOMAIN rows[k] |-> [val |-> rows[k][c], by |-> Null, writer |-> Null]]]

-----------------------------------------------------------------------------
(* Rows.                                                                   *)

Ids(t) == {k[2] : k \in {j \in DOMAIN db : j[1] = t}}
Row(t, i) == db[<<t, i>>]
Live(t) == {i \in Ids(t) : Row(t, i).at = "live"}
Only(f, S) == [k \in S |-> f[k]]
\* What @@ and :> of module TLC are, with definitions the provers expand.
Over(f, g) == [k \in DOMAIN f \cup DOMAIN g |-> IF k \in DOMAIN f THEN f[k] ELSE g[k]]
Single(k, row) == [j \in {k} |-> row]
Loaded(t, ids, Columns) == [k \in {t} \X ids |-> Only(db[k], Columns)]
Assigned(row, values) == Over(values, row)

\* Rows under keys that are pairs, with the columns of their tables.
Schema(Columns, rows) ==
    \A k \in DOMAIN rows : k = <<k[1], k[2]>> /\ DOMAIN rows[k] = Columns[k[1]]

\* The tables rows accept the rows with these keys: what they refer to
\* exists, and no other row has their unique columns.
KeysHold(rows, keys) ==
    \A f \in References : \A k \in keys :
        k[1] = f.table =>
            \/ rows[k][f.column] = Null /\ f.optional
            \/ <<f.target, rows[k][f.column]>> \in DOMAIN rows
NoTwins(rows, keys) ==
    \A u \in Uniques : \A k \in keys :
        k[1] = u.table => \A j \in DOMAIN rows \ {k} :
            j[1] = u.table => rows[j][u.column] # rows[k][u.column]
Accepts(rows, keys) == KeysHold(rows, keys) /\ NoTwins(rows, keys)

-----------------------------------------------------------------------------
(* Requests.                                                               *)

\* What a request holds that has looked up m.
Memory(m) == [v \in DOMAIN NoMem |-> IF v \in DOMAIN m THEN m[v] ELSE NoMem[v]]

\* A request that its first look-ups turn away changes nothing and is not
\* begun; s is the step it takes next, m what it holds.
Begin(r, s, m) ==
    /\ step[r] = "idle"
    /\ \A q \in Request : q < r => step[q] # "idle"
    /\ Cardinality(Open) < MaxOpen
    /\ step' = [step EXCEPT ![r] = s]
    /\ mem' = [mem EXCEPT ![r] = Memory(m)]
    /\ met' = [q \in Request |-> IF q = r THEN Open
                                 ELSE IF q \in Open THEN met[q] \cup {r} ELSE met[q]]

At(r, s) == step[r] = s

Goto(r, s, m) ==
    /\ step' = [step EXCEPT ![r] = s]
    /\ mem' = [mem EXCEPT ![r] = IF s \in Ended THEN NoMem ELSE Over(m, mem[r])]
    /\ UNCHANGED met

\* A statement refused, a connection lost, the process gone: what was
\* written stays written.
Fails(r) ==
    /\ step[r] \notin {"idle"} \cup Ended
    /\ faults < MaxFaults
    /\ faults' = faults + 1
    /\ Goto(r, "error", NoMem)
    /\ UNCHANGED <<db, hist>>

Reads(r, s, m) == Goto(r, s, m) /\ UNCHANGED <<db, hist, faults>>

-----------------------------------------------------------------------------
(* Statements that write.                                                  *)

\* rows takes the place of what the tables held; meant[k] are the columns
\* the request was asked to set, wrote[k] those the statement sets.
Record(r, rows, values, meant, wrote) ==
    /\ db' = rows
    /\ LET past(k) == IF k \in DOMAIN hist THEN hist[k] ELSE <<>>
           new(k, c) == [val |-> IF c \in meant[k] THEN values[k][c] ELSE hist[k][c].val,
                         by |-> IF c \in meant[k] THEN r ELSE hist[k][c].by,
                         writer |-> IF c \in wrote[k] THEN r ELSE hist[k][c].writer]
       IN  hist' = Over([k \in DOMAIN meant |->
                           Over([c \in DOMAIN values[k] |-> new(k, c)], past(k))], hist)
    /\ UNCHANGED faults

\* INSERT of new rows, in one statement or one transaction of save().
Inserts(r, rows) ==
    /\ Accepts(Over(rows, db), DOMAIN rows)
    /\ LET all == [k \in DOMAIN rows |-> DOMAIN rows[k]]
       IN  Record(r, Over(rows, db), rows, all, all)

\* UPDATE of some columns of the rows with these keys, those there are.
Updates(r, keys, values) ==
    LET found == keys \cap DOMAIN db
        changed == [k \in found |-> Over(values, db[k])]
        sets == [k \in found |-> DOMAIN values]
    IN  /\ Accepts(Over(changed, db), found)
        /\ Record(r, Over(changed, db), [k \in found |-> values], sets, sets)

\* DELETE of the rows with these keys, and of the rows that cascade.
Removal(keys) ==
    keys \cup {k \in DOMAIN db : \E f \in References :
                 /\ f.rule = "cascade"
                 /\ k[1] = f.table
                 /\ <<f.target, db[k][f.column]>> \in keys}
RemovalAccepted(keys) ==
    LET rest == DOMAIN db \ Removal(keys)
    IN  KeysHold(Only(db, rest), rest)
\* A removal asks for every column of the row to be gone.
Removes(r, keys) ==
    LET gone == Removal(keys)
        sets == [k \in gone |-> DOMAIN db[k]]
    IN  /\ RemovalAccepted(keys)
        /\ Record(r, Only(db, DOMAIN db \ gone),
             [k \in gone |-> [c \in DOMAIN db[k] |-> Null]], sets, sets)

\* The same statements in the middle of a request: refused, it ends there.
InsertThen(r, rows, s, m) ==
    IF Accepts(Over(rows, db), DOMAIN rows) THEN Inserts(r, rows) /\ Goto(r, s, m)
    ELSE Reads(r, "error", NoMem)
RemoveThen(r, keys, s, m) ==
    IF RemovalAccepted(keys) THEN Removes(r, keys) /\ Goto(r, s, m)
    ELSE Reads(r, "error", NoMem)

Deleted == [at |-> "deleted"]

-----------------------------------------------------------------------------
(* save() of mem[r].rows.                                                  *)

Save(rows, meant) == [rows |-> rows, meant |-> meant]
SaveWith(dto, rows, meant) == [dto |-> dto, rows |-> rows, meant |-> meant]

\* Of the rows in memory that the tables have, deleted by a date or not, the
\* columns that differ.
DirtyOf(rows) ==
    [k \in DOMAIN rows \cap DOMAIN db |-> {c \in DOMAIN rows[k] : rows[k][c] # db[k][c]}]
Reload(r, s) == Reads(r, s, [dirty |-> DirtyOf(mem[r].rows)])

\* A column that is not in memory is NULL in a row that save() inserts.
\* The tables after the write, and whether PostgreSQL takes it.
ForeignColumns(k) == {f.column : f \in {g \in References : g.table = k[1]}}
Inserted(k, row) == Over(row, [c \in ForeignColumns(k) |-> Null])
AfterWrite(r) ==
    LET rows == mem[r].rows
        dirty == mem[r].dirty
        new == DOMAIN rows \ DOMAIN dirty
        old == {k \in DOMAIN rows \ new : k \in DOMAIN db}
        changed == [k \in old |-> Over(Only(rows[k], dirty[k]), db[k])]
    IN  Over([k \in new |-> Inserted(k, rows[k])], Over(changed, db))
WriteAccepted(r) ==
    LET keys == DOMAIN mem[r].rows
    IN  /\ \A k \in keys : k \notin DOMAIN mem[r].dirty => k \notin DOMAIN db
        /\ Accepts(AfterWrite(r), keys \cap DOMAIN AfterWrite(r))

Write(r, s, m) ==
    LET rows == mem[r].rows
        dirty == mem[r].dirty
        after == AfterWrite(r)
        kept == DOMAIN rows \cap DOMAIN after
        new == [k \in kept |-> IF k \notin DOMAIN dirty THEN after[k] ELSE rows[k]]
    IN  IF WriteAccepted(r)
        THEN /\ Record(r, after, new,
                  [k \in kept |-> IF k \in DOMAIN hist THEN mem[r].meant ELSE DOMAIN new[k]],
                  [k \in kept |-> IF k \notin DOMAIN dirty THEN DOMAIN new[k] ELSE dirty[k]])
             /\ Goto(r, s, m)
        ELSE Reads(r, "error", NoMem)

\* save() of one entity as the last thing a request does.
EntityReload(r) ==
    /\ At(r, "entity.reload")
    /\ Reload(r, "entity.write")

EntityWrite(r) ==
    /\ At(r, "entity.write")
    /\ Write(r, "ok", NoMem)

-----------------------------------------------------------------------------
(* Types, and the property every service shares.                           *)

\* Keys, rows, requests and history fit together.
TablesTypeOK ==
    /\ DOMAIN db \subseteq DOMAIN hist
    /\ \A k \in DOMAIN db : /\ db[k].at \in {"live", "deleted"}
                            /\ DOMAIN db[k] \subseteq DOMAIN hist[k]
    /\ \A r \in Request : /\ met[r] \subseteq Request \ {r}
                          /\ \A q \in met[r] : r \in met[q]
                          /\ step[r] \in {"idle"} \cup Ended => mem[r] = NoMem
    /\ faults \in 0..MaxFaults

\* The requests overlapped, or a chain of requests joins them of which each
\* overlapped the next: r is in every set with all that q overlapped and all
\* that its own members did.
Linked(q, r) ==
    \A S \in SUBSET Request :
        (met[q] \subseteq S /\ \A s \in S : met[s] \subseteq S) => r \in S

\* A column holds something else than the last request that set it asked
\* for, or a removed row is back, only where a request linked to that one
\* by overlapping wrote what it had in memory.  save() writes whole objects,
\* so a request that sets one column can put back any other, and one that
\* read what was put back can put it back again.  What a request asked for
\* that overlapped no other is never lost.
OverwrittenOnlyByOverlap ==
    \A k \in DOMAIN db : \A c \in DOMAIN db[k] :
        LET last == hist[k][c]
        IN  db[k][c] # last.val => last.by # Null /\ Linked(last.by, last.writer)

=============================================================================
