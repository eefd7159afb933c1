---------------------------- MODULE TablesProofs ----------------------------
(***************************************************************************)
(* What every service's proof needs of the tables it shares: which columns *)
(* a statement changes, who is on record for it, and what a request that   *)
(* holds rows in memory still knows of them after a step of another one;   *)
(* and what a statement leaves in the columns and foreign keys.            *)
(* Columns is the set of columns of each table of a composition.           *)
(***************************************************************************)
EXTENDS Tables, TLAPS

-----------------------------------------------------------------------------
(* Facts that hold in every composition.                                   *)

\* Every request has a step and the fields of what it holds.
HoldInv ==
    /\ DOMAIN step = Request
    /\ DOMAIN mem = Request
    /\ \A r \in Request : DOMAIN NoMem \subseteq DOMAIN mem[r]

\* Requests that are open together know of one another.
MetInv ==
    /\ DOMAIN met = Request
    /\ \A r \in Request : met[r] \subseteq Request \ {r}
    /\ \A q, r \in Request : q \in met[r] => r \in met[q]
    /\ \A q, r \in Open : q # r => q \in met[r]
    /\ \A r \in Request : step[r] = "idle" => met[r] = {}

\* Rows have the columns of their table, and history forgets none of them.
ColumnInv(Columns) ==
    /\ DOMAIN db \subseteq DOMAIN hist
    /\ Schema(Columns, db) /\ Schema(Columns, hist)
    /\ \A k \in DOMAIN hist : \A c \in DOMAIN hist[k] : hist[k][c].by \in Request \cup {Null}

SharedInv(Columns) ==
    HoldInv /\ MetInv /\ ColumnInv(Columns) /\ OverwrittenOnlyByOverlap

-----------------------------------------------------------------------------
(* What a request that is to save rows knows of them.                      *)

\* Whoever last asked for the column is linked to r.
LinkedTo(k, c, r) ==
    hist[k][c].by # Null /\ Linked(hist[k][c].by, r)

\* row is what the tables hold under k, but for the columns in meant and
\* for those that a request linked to r asked for.
Fresh(r, k, row, meant) ==
    \A c \in DOMAIN hist[k] \ meant :
        \/ k \in DOMAIN db /\ (c \in DOMAIN row => row[c] = db[k][c])
        \/ LinkedTo(k, c, r)

\* row has columns of k's table; save() fills in the others with NULL.
Fits(Columns, k, row) ==
    /\ k = <<k[1], k[2]>>
    /\ DOMAIN row \subseteq Columns[k[1]]
    /\ Columns[k[1]] \subseteq DOMAIN row \cup ForeignColumns(k)

\* Before Reload.
Knows(Columns, r, rows, meant) ==
    \A k \in DOMAIN rows :
       /\ Fits(Columns, k, rows[k])
       /\ k \in DOMAIN hist => Fresh(r, k, rows[k], meant)
Holds(Columns, r) == Knows(Columns, r, mem[r].rows, mem[r].meant)

\* After Reload: what is about to be written of the columns that r was not
\* asked to set is another request's only if that one is linked to r; a
\* column found equal to the one in memory is so yet, or overlapped.
Differs(r, k, c) ==
    LET rows == mem[r].rows
        dirty == mem[r].dirty
    IN  IF k \notin DOMAIN dirty THEN c \notin mem[r].meant => LinkedTo(k, c, r)
        ELSE IF c \in dirty[k]
        THEN c \in DOMAIN rows[k] /\ (c \notin mem[r].meant => LinkedTo(k, c, r))
        ELSE (c \in DOMAIN rows[k] /\ k \in DOMAIN db) =>
               rows[k][c] = db[k][c] \/ hist[k][c].writer \in met[r]
Compared(Columns, r) ==
    LET rows == mem[r].rows
        dirty == mem[r].dirty
    IN  /\ DOMAIN dirty \subseteq DOMAIN rows
        /\ \A k \in DOMAIN rows :
             /\ Fits(Columns, k, rows[k])
             /\ k \in DOMAIN dirty => dirty[k] \subseteq DOMAIN rows[k]
             /\ k \in DOMAIN hist => \A c \in DOMAIN hist[k] : Differs(r, k, c)

-----------------------------------------------------------------------------
(* Chains of requests that overlap.                                        *)

LEMMA MetLinked ==
    ASSUME NEW q, NEW r, r \in met[q]
    PROVE  Linked(q, r)
BY DEF Linked

LEMMA LinkedOn ==
    ASSUME NEW q, NEW r, NEW s, Linked(q, r), s \in met[r]
    PROVE  Linked(q, s)
BY DEF Linked

\* A chain goes on where another one begins.
LEMMA LinkedChain ==
    ASSUME NEW q, NEW r, NEW s, Linked(q, r), Linked(r, s)
    PROVE  Linked(q, s)
<1> SUFFICES ASSUME NEW S \in SUBSET Request, met[q] \subseteq S,
                    \A t \in S : met[t] \subseteq S
             PROVE  s \in S
  BY DEF Linked
<1>1. r \in S
  BY DEF Linked
<1>2. met[r] \subseteq S
  BY <1>1
<1> QED BY <1>2 DEF Linked

\* Requests that overlap no longer than before stay linked.
LEMMA LinkedStays ==
    ASSUME NEW q \in Request, NEW r, Linked(q, r),
           \A t \in Request : met[t] \subseteq met'[t]
    PROVE  Linked(q, r)'
<1> SUFFICES ASSUME NEW S \in SUBSET Request, met'[q] \subseteq S,
                    \A t \in S : met'[t] \subseteq S
             PROVE  r \in S
  BY DEF Linked
<1>1. met[q] \subseteq S /\ \A t \in S : met[t] \subseteq S
  OBVIOUS
<1> QED BY <1>1 DEF Linked

-----------------------------------------------------------------------------
(* Steps of a request.                                                     *)

\* Request r takes a step to step s; nothing else moves.
StepsTo(r, s) ==
    /\ step' = [step EXCEPT ![r] = s]
    /\ DOMAIN mem' = DOMAIN mem
    /\ DOMAIN NoMem \subseteq DOMAIN mem'[r]
    /\ \A q \in Request \ {r} : mem'[q] = mem[q]

Begins(r) ==
    /\ step[r] = "idle"
    /\ \A q \in Request : q < r => step[q] # "idle"
    /\ met' = [q \in Request |-> IF q = r THEN Open
                                 ELSE IF q \in Open THEN met[q] \cup {r} ELSE met[q]]

GoesOn(r) == r \in Open /\ UNCHANGED met

LEMMA BeginSteps ==
    ASSUME HoldInv, NEW r \in Request, NEW s, NEW m, Begin(r, s, m)
    PROVE  StepsTo(r, s) /\ Begins(r) /\ step[r] = "idle" /\ mem'[r] = Memory(m)
<1>1. DOMAIN Memory(m) = DOMAIN NoMem
  BY DEF Memory
<1> QED BY <1>1 DEF Begin, StepsTo, Begins, HoldInv

LEMMA GotoSteps ==
    ASSUME HoldInv, NEW r \in Request, NEW s, NEW m, Goto(r, s, m)
    PROVE  /\ StepsTo(r, s)
           /\ UNCHANGED met
           /\ mem'[r] = IF s \in Ended THEN NoMem ELSE Over(m, mem[r])
<1>1. DOMAIN NoMem \subseteq DOMAIN Over(m, mem[r])
  BY DEF HoldInv, Over
<1> QED BY <1>1 DEF Goto, StepsTo, HoldInv

\* What overlapped stays so; besides r, the requests that are open were.
LEMMA OpenStep ==
    ASSUME HoldInv, MetInv, NEW r \in Request, NEW s, s # "idle", StepsTo(r, s),
           Begins(r) \/ GoesOn(r)
    PROVE  /\ HoldInv' /\ MetInv'
           /\ \A q \in Request : met[q] \subseteq met'[q]
           /\ \A q \in Request : step'[q] = IF q = r THEN s ELSE step[q]
           /\ \A q \in Open' \ {r} : q \in Open /\ mem'[q] = mem[q]
           /\ \A q \in Open \ {r} : r \in met'[q] /\ q \in met'[r]
<1>1. \A q \in Request : step'[q] = IF q = r THEN s ELSE step[q]
  BY DEF HoldInv, StepsTo
<1>2. HoldInv'
  <2>1. DOMAIN step' = Request /\ DOMAIN mem' = Request
    BY DEF HoldInv, StepsTo
  <2>2. \A q \in Request : DOMAIN NoMem \subseteq DOMAIN mem'[q]
    BY DEF HoldInv, StepsTo
  <2> QED BY <2>1, <2>2 DEF HoldInv, NoMem
<1>3. \A q \in Open' \ {r} : q \in Open /\ mem'[q] = mem[q]
  BY <1>1 DEF Open, StepsTo
<1>4. CASE Begins(r)
  <2>1. r \notin Open /\ met[r] = {} /\ Open \subseteq Request
    BY <1>4 DEF Begins, Open, MetInv
  <2>2. \A q \in Request : r \notin met[q]
    BY <2>1 DEF MetInv
  <2>3. met'[r] = Open
    BY <1>4 DEF Begins
  <2>4. \A q \in Request \ {r} : met'[q] = IF q \in Open THEN met[q] \cup {r} ELSE met[q]
    BY <1>4 DEF Begins
  <2>5. \A q \in Request : met[q] \subseteq met'[q]
    BY <2>1, <2>3, <2>4
  <2>6. \A q \in Open \ {r} : r \in met'[q] /\ q \in met'[r]
    BY <2>1, <2>3, <2>4
  <2>7. ASSUME NEW q \in Request
        PROVE  met'[q] \subseteq Request \ {q}
    <3>1. met[q] \subseteq Request \ {q}
      BY DEF MetInv
    <3>2. CASE q = r
      BY <2>1, <2>3, <3>2
    <3>3. CASE q # r
      <4>1. r \in Request \ {q}
        BY <3>3
      <4>2. met'[q] \subseteq met[q] \cup {r}
        BY <2>4, <3>3
      <4> QED BY <3>1, <4>1, <4>2
    <3> QED BY <3>2, <3>3
  <2>8. ASSUME NEW p \in Request, NEW q \in Request, p \in met'[q]
        PROVE  q \in met'[p]
    <3>1. CASE q = r
      BY <2>1, <2>3, <2>4, <2>8, <3>1
    <3>2. CASE q # r /\ p = r
      BY <2>2, <2>3, <2>4, <2>8, <3>2
    <3>3. CASE q # r /\ p # r
      <4>1. p \in met[q]
        BY <2>4, <2>8, <3>3
      <4> QED BY <2>5, <4>1 DEF MetInv
    <3> QED BY <3>1, <3>2, <3>3
  <2>9. \A p, q \in Open' : p # q => p \in met'[q]
    <3> SUFFICES ASSUME NEW p \in Open', NEW q \in Open', p # q
                 PROVE  p \in met'[q]
      OBVIOUS
    <3>1. p \in Request /\ q \in Request
      BY DEF Open
    <3>2. CASE p = r \/ q = r
      BY <1>3, <2>6, <3>2
    <3>3. CASE p # r /\ q # r
      BY <1>3, <2>5, <3>1, <3>3 DEF MetInv
    <3> QED BY <3>2, <3>3
  <2>10. \A q \in Request : step'[q] = "idle" => met'[q] = {}
    BY <1>1, <2>4 DEF MetInv, Open
  <2>11. DOMAIN met' = Request
    BY <1>4 DEF Begins
  <2>12. MetInv'
    BY ONLY <2>7, <2>8, <2>9, <2>10, <2>11 DEF MetInv
  <2> QED BY <1>1, <1>2, <1>3, <2>5, <2>6, <2>12
<1>5. CASE GoesOn(r)
  <2>1. met' = met /\ r \in Open
    BY <1>5 DEF GoesOn
  <2>2. Open' \subseteq Open
    BY <1>3, <2>1
  <2>3. \A q \in Open \ {r} : r \in met'[q] /\ q \in met'[r]
    BY <2>1 DEF MetInv
  <2>4. \A q \in Request : step'[q] = "idle" => met'[q] = {}
    BY <1>1, <2>1 DEF MetInv
  <2>5. MetInv'
    BY <2>1, <2>2, <2>4 DEF MetInv
  <2> QED BY <1>1, <1>2, <1>3, <2>1, <2>3, <2>5
<1> QED BY <1>4, <1>5

-----------------------------------------------------------------------------
(* What one step changes of a column, and who is on record for it.         *)

\* Column c of row k is as it was, and so is its history.
Same(k, c) ==
    /\ k \in DOMAIN hist
    /\ hist'[k][c].by = hist[k][c].by
    /\ hist'[k][c].val = hist[k][c].val
    /\ hist'[k][c].writer = hist[k][c].writer
    /\ k \in DOMAIN db' <=> k \in DOMAIN db
    /\ k \in DOMAIN db => db'[k][c] = db[k][c]

\* r asked for the column, and what it holds was written by r, or by a
\* request that r overlapped.
AskedBy(r, k, c) ==
    /\ hist'[k][c].by = r
    /\ \/ hist'[k][c].writer = r
       \/ /\ k \in DOMAIN db /\ k \in DOMAIN db'
          /\ db'[k][c] = db[k][c]
          /\ hist'[k][c].writer = hist[k][c].writer
    /\ (k \in DOMAIN db' /\ db'[k][c] # hist'[k][c].val) => hist'[k][c].writer \in met'[r]

\* r wrote what it had in memory of a column it was not asked to set.
PutBackBy(r, k, c) ==
    /\ k \in DOMAIN hist
    /\ hist'[k][c].by = hist[k][c].by
    /\ hist'[k][c].writer = r
    /\ LinkedTo(k, c, r)

Changes(r) ==
    \A k \in DOMAIN hist' : \A c \in DOMAIN hist'[k] :
        Same(k, c) \/ AskedBy(r, k, c) \/ PutBackBy(r, k, c)

\* r asked for none of the columns of row k but those in meant.
Spares(r, k, meant) ==
    \A c \in DOMAIN hist'[k] \ meant : Same(k, c) \/ PutBackBy(r, k, c)

\* What overlapped before the step did after it.
MetGrows == \A q \in Request : met[q] \subseteq met'[q]

\* After a step of q the columns a linked request asked for are still such
\* columns, and what q changed has become one, for a request r that q overlaps.
LEMMA CellStays ==
    ASSUME NEW Columns, ColumnInv(Columns), MetGrows,
           NEW q \in Request, NEW r, r \in met'[q],
           NEW k, NEW c,
           k \in DOMAIN hist => c \in DOMAIN hist[k],
           Same(k, c) \/ AskedBy(q, k, c) \/ PutBackBy(q, k, c)
    PROVE  /\ k \in DOMAIN hist /\ LinkedTo(k, c, r) => LinkedTo(k, c, r)'
           /\ LinkedTo(k, c, r)' \/ Same(k, c)
<1>1. Linked(q, r)'
  BY DEF Linked
<1>2. ASSUME k \in DOMAIN hist, hist'[k][c].by = hist[k][c].by, NEW s, LinkedTo(k, c, s)
      PROVE  hist'[k][c].by # Null /\ Linked(hist[k][c].by, s)'
  <2>1. hist[k][c].by \in Request /\ Linked(hist[k][c].by, s)
    BY <1>2 DEF LinkedTo, ColumnInv, Schema
  <2>2. PICK p \in Request : p = hist[k][c].by
    BY <2>1
  <2>3. Linked(p, s)'
    BY <2>1, <2>2, LinkedStays DEF MetGrows
  <2> QED BY <1>2, <2>1, <2>2, <2>3, BoundAssumption
<1>3. CASE Same(k, c)
  <2>1. k \in DOMAIN hist /\ hist'[k][c].by = hist[k][c].by
    BY <1>3 DEF Same
  <2> QED BY <1>2, <1>3, <2>1 DEF LinkedTo
<1>4. CASE AskedBy(q, k, c)
  <2>1. hist'[k][c].by = q /\ q # Null
    BY <1>4, BoundAssumption DEF AskedBy
  <2> QED BY <1>1, <2>1 DEF LinkedTo
<1>5. CASE PutBackBy(q, k, c)
  <2>1. k \in DOMAIN hist /\ hist'[k][c].by = hist[k][c].by /\ LinkedTo(k, c, q)
    BY <1>5 DEF PutBackBy
  <2>2. hist'[k][c].by # Null /\ Linked(hist[k][c].by, q)'
    BY <1>2, <2>1
  <2>3. Linked(hist[k][c].by, r)'
    BY <1>1, <2>2 DEF Linked
  <2> QED BY <2>1, <2>2, <2>3 DEF LinkedTo
<1> QED BY <1>3, <1>4, <1>5

\* What r knows of a row stays true over a step of a request it overlaps.
LEMMA FreshStays ==
    ASSUME NEW Columns, ColumnInv(Columns), ColumnInv(Columns)', MetGrows,
           NEW q \in Request, NEW r, r \in met'[q], Changes(q),
           NEW k \in DOMAIN hist', NEW row, NEW meant,
           k \in DOMAIN hist => Fresh(r, k, row, meant)
    PROVE  Fresh(r, k, row, meant)'
<1> SUFFICES ASSUME NEW c \in DOMAIN hist'[k], c \notin meant, ~LinkedTo(k, c, r)'
             PROVE  k \in DOMAIN db' /\ (c \in DOMAIN row => row[c] = db'[k][c])
  BY DEF Fresh
<1>1. Same(k, c) \/ AskedBy(q, k, c) \/ PutBackBy(q, k, c)
  BY DEF Changes
<1>2. k \in DOMAIN hist => c \in DOMAIN hist[k]
  BY DEF ColumnInv, Schema
<1>3. Same(k, c) /\ ~LinkedTo(k, c, r)
  BY <1>1, <1>2, CellStays DEF Same
<1>4. k \in DOMAIN db /\ (c \in DOMAIN row => row[c] = db[k][c])
  BY <1>2, <1>3 DEF Fresh, Same
<1> QED BY <1>3, <1>4 DEF Same

LEMMA KnowsStays ==
    ASSUME NEW Columns, ColumnInv(Columns), ColumnInv(Columns)', MetGrows,
           NEW q \in Request, NEW r, r \in met'[q], Changes(q),
           NEW rows, NEW meant, Knows(Columns, r, rows, meant)
    PROVE  Knows(Columns, r, rows, meant)'
<1> SUFFICES ASSUME NEW k \in DOMAIN rows, k \in DOMAIN hist'
             PROVE  Fresh(r, k, rows[k], meant)'
  BY DEF Knows, Fits, ForeignColumns
<1>1. PICK row : row = rows[k]
  OBVIOUS
<1>2. k \in DOMAIN hist => Fresh(r, k, row, meant)
  BY <1>1 DEF Knows
<1>3. Fresh(r, k, row, meant)'
  BY <1>2, FreshStays
<1> QED BY <1>1, <1>3 DEF Fresh

\* Over a step of its own, if the step asks for no other column.
LEMMA KnowsSpared ==
    ASSUME NEW Columns, ColumnInv(Columns), MetGrows, NEW r, NEW rows, NEW meant,
           Knows(Columns, r, rows, meant),
           \A k \in DOMAIN rows : k \in DOMAIN hist' => Spares(r, k, meant),
           \A k \in DOMAIN hist : k \in DOMAIN hist' => DOMAIN hist'[k] = DOMAIN hist[k]
    PROVE  Knows(Columns, r, rows, meant)'
<1> SUFFICES ASSUME NEW k \in DOMAIN rows, k \in DOMAIN hist', NEW c \in DOMAIN hist'[k] \ meant,
                    ~LinkedTo(k, c, r)'
             PROVE  k \in DOMAIN db' /\ (c \in DOMAIN rows[k] => rows[k][c] = db'[k][c])
  BY DEF Knows, Fits, ForeignColumns, Fresh
<1>1. Same(k, c) \/ PutBackBy(r, k, c)
  BY DEF Spares
<1>2. k \in DOMAIN hist /\ c \in DOMAIN hist[k] /\ hist'[k][c].by = hist[k][c].by
  BY <1>1 DEF Same, PutBackBy
<1>3. Fresh(r, k, rows[k], meant)
  BY <1>2 DEF Knows
<1>4. ~LinkedTo(k, c, r)
  <2> SUFFICES ASSUME LinkedTo(k, c, r)
               PROVE  FALSE
    OBVIOUS
  <2>1. hist[k][c].by \in Request /\ Linked(hist[k][c].by, r)
    BY <1>2 DEF LinkedTo, ColumnInv
  <2>2. PICK p \in Request : p = hist[k][c].by
    BY <2>1
  <2>3. Linked(p, r)'
    BY <2>1, <2>2, LinkedStays DEF MetGrows
  <2> QED BY <1>2, <2>2, <2>3 DEF LinkedTo
<1>5. k \in DOMAIN db /\ (c \in DOMAIN rows[k] => rows[k][c] = db[k][c])
  BY <1>2, <1>3, <1>4 DEF Fresh
<1>6. Same(k, c)
  BY <1>1, <1>4 DEF PutBackBy
<1> QED BY <1>5, <1>6 DEF Same

LEMMA HoldsStays ==
    ASSUME NEW Columns, ColumnInv(Columns), ColumnInv(Columns)', MetGrows,
           NEW q \in Request, NEW r, r \in met'[q], Changes(q),
           mem'[r] = mem[r], Holds(Columns, r)
    PROVE  Holds(Columns, r)'
<1>1. PICK rows, meant : rows = mem[r].rows /\ meant = mem[r].meant
  OBVIOUS
<1>2. Knows(Columns, r, rows, meant)
  BY <1>1 DEF Holds
<1>3. Knows(Columns, r, rows, meant)'
  BY <1>2, KnowsStays
<1> QED BY <1>1, <1>3 DEF Holds

LEMMA ComparedStays ==
    ASSUME NEW Columns, ColumnInv(Columns), ColumnInv(Columns)', MetGrows,
           NEW q \in Request, NEW r \in Request, r \in met'[q], q \in met'[r], Changes(q),
           mem'[r] = mem[r], Compared(Columns, r)
    PROVE  Compared(Columns, r)'
<1> SUFFICES ASSUME NEW k \in DOMAIN mem[r].rows, NEW c \in DOMAIN hist'[k],
                    k \in DOMAIN hist'
             PROVE  Differs(r, k, c)'
  BY DEF Compared, Fits
<1>1. Same(k, c) \/ AskedBy(q, k, c) \/ PutBackBy(q, k, c)
  BY DEF Changes
<1>2. k \in DOMAIN hist => c \in DOMAIN hist[k] /\ Differs(r, k, c)
  BY DEF ColumnInv, Schema, Compared
<1>3. k \in DOMAIN mem[r].dirty /\ c \in mem[r].dirty[k] => c \in DOMAIN mem[r].rows[k]
  BY DEF Compared
<1>4. CASE k \notin DOMAIN mem[r].dirty
  BY <1>1, <1>2, <1>4, CellStays DEF Differs, Same
<1>5. CASE k \in DOMAIN mem[r].dirty /\ c \in mem[r].dirty[k]
  BY <1>1, <1>2, <1>3, <1>5, CellStays DEF Differs, Same
<1>6. CASE k \in DOMAIN mem[r].dirty /\ c \notin mem[r].dirty[k]
  <2>1. met[r] \subseteq met'[r]
    BY DEF MetGrows
  <2>2. k \in DOMAIN db => Differs(r, k, c)
    BY <1>2 DEF ColumnInv, Schema
  <2>3. hist'[k][c].writer \in met'[r] \/ k \notin DOMAIN db'
          \/ (/\ k \in DOMAIN db /\ db'[k][c] = db[k][c]
              /\ hist'[k][c].writer = hist[k][c].writer)
    BY <1>1 DEF Same, AskedBy, PutBackBy
  <2> QED BY <1>6, <2>1, <2>2, <2>3 DEF Differs
<1> QED BY <1>4, <1>5, <1>6

\* The property itself, over a step of any request.
LEMMA OverwrittenStays ==
    ASSUME NEW Columns, ColumnInv(Columns), ColumnInv(Columns)', MetGrows,
           OverwrittenOnlyByOverlap, NEW q \in Request, Changes(q)
    PROVE  OverwrittenOnlyByOverlap'
<1> SUFFICES ASSUME NEW k \in DOMAIN db', NEW c \in DOMAIN db'[k],
                    db'[k][c] # hist'[k][c].val
             PROVE  LinkedTo(k, c, hist[k][c].writer)'
  BY DEF OverwrittenOnlyByOverlap, LinkedTo
<1>1. k \in DOMAIN hist' /\ c \in DOMAIN hist'[k]
  BY DEF ColumnInv, Schema
<1>2. PICK w : w = hist'[k][c].writer
  OBVIOUS
<1> SUFFICES LinkedTo(k, c, w)'
  BY <1>2 DEF LinkedTo
<1>3. ASSUME k \in DOMAIN hist, hist'[k][c].by = hist[k][c].by, LinkedTo(k, c, w)
      PROVE  LinkedTo(k, c, w)'
  <2>1. c \in DOMAIN hist[k]
    BY <1>1, <1>3 DEF ColumnInv, Schema
  <2>2. hist[k][c].by \in Request /\ Linked(hist[k][c].by, w)
    BY <1>3, <2>1 DEF LinkedTo, ColumnInv, Schema
  <2>3. PICK p \in Request : p = hist[k][c].by
    BY <2>2
  <2>4. Linked(p, w)'
    BY <2>2, <2>3, LinkedStays DEF MetGrows
  <2> QED BY <1>3, <2>3, <2>4, BoundAssumption DEF LinkedTo
<1>4. CASE Same(k, c)
  <2>1. k \in DOMAIN db /\ c \in DOMAIN db[k] /\ k \in DOMAIN hist
    BY <1>1, <1>4 DEF Same, ColumnInv, Schema
  <2>2. LinkedTo(k, c, w)
    BY <1>2, <1>4, <2>1 DEF Same, OverwrittenOnlyByOverlap, LinkedTo
  <2> QED BY <1>3, <1>4, <2>1, <2>2 DEF Same
<1>5. CASE AskedBy(q, k, c)
  <2>1. hist'[k][c].by = q /\ q # Null /\ w \in met'[q]
    BY <1>2, <1>5, BoundAssumption DEF AskedBy
  <2>2. Linked(q, w)'
    BY <2>1 DEF Linked
  <2> QED BY <2>1, <2>2 DEF LinkedTo
<1>6. CASE PutBackBy(q, k, c)
  BY <1>2, <1>3, <1>6 DEF PutBackBy
<1> QED BY <1>1, <1>4, <1>5, <1>6 DEF Changes

-----------------------------------------------------------------------------
(* Statements.                                                             *)

LEMMA NothingWritten ==
    ASSUME NEW Columns, ColumnInv(Columns), NEW r, UNCHANGED <<db, hist>>
    PROVE  ColumnInv(Columns)' /\ Changes(r)
<1>1. ColumnInv(Columns)'
  BY DEF ColumnInv, Schema
<1>2. Changes(r)
  BY DEF Changes, Same
<1> QED BY <1>1, <1>2

\* History gains the keys written.
LEMMA RecordHist ==
    ASSUME NEW r, NEW rows, NEW values, NEW meant, NEW wrote,
           Record(r, rows, values, meant, wrote)
    PROVE  /\ db' = rows
           /\ DOMAIN hist' = DOMAIN hist \cup DOMAIN meant
           /\ \A k \in DOMAIN hist \ DOMAIN meant : hist'[k] = hist[k]
<1>1. PICK written : DOMAIN written = DOMAIN meant /\ db' = rows /\ hist' = Over(written, hist)
  BY DEF Record
<1> QED BY <1>1 DEF Over

\* Of a row written, history has who asked for each column and who wrote it.
LEMMA RecordRow ==
    ASSUME NEW r, NEW rows, NEW values, NEW meant, NEW wrote,
           Record(r, rows, values, meant, wrote),
           NEW k \in DOMAIN meant
    PROVE  /\ DOMAIN hist'[k] =
                DOMAIN values[k] \cup IF k \in DOMAIN hist THEN DOMAIN hist[k] ELSE {}
           /\ \A c \in DOMAIN values[k] : hist'[k][c] =
                [val |-> IF c \in meant[k] THEN values[k][c] ELSE hist[k][c].val,
                 by |-> IF c \in meant[k] THEN r ELSE hist[k][c].by,
                 writer |-> IF c \in wrote[k] THEN r ELSE hist[k][c].writer]
           /\ k \in DOMAIN hist => \A c \in DOMAIN hist[k] \ DOMAIN values[k] :
                hist'[k][c] = hist[k][c]
<1> DEFINE past(j) == IF j \in DOMAIN hist THEN hist[j] ELSE <<>>
           new(j, d) == [val |-> IF d \in meant[j] THEN values[j][d] ELSE hist[j][d].val,
                         by |-> IF d \in meant[j] THEN r ELSE hist[j][d].by,
                         writer |-> IF d \in wrote[j] THEN r ELSE hist[j][d].writer]
           cols(j) == [d \in DOMAIN values[j] |-> new(j, d)]
           written == [j \in DOMAIN meant |-> Over(cols(j), past(j))]
<1>1. hist' = Over(written, hist)
  BY DEF Record
<1>2. hist'[k] = Over(cols(k), past(k))
  BY <1>1 DEF Over
<1>3. DOMAIN cols(k) = DOMAIN values[k] /\ \A c \in DOMAIN values[k] : cols(k)[c] = new(k, c)
  OBVIOUS
<1>4. DOMAIN past(k) = IF k \in DOMAIN hist THEN DOMAIN hist[k] ELSE {}
  OBVIOUS
<1>5. k \in DOMAIN hist => past(k) = hist[k]
  OBVIOUS
<1> HIDE DEF cols, past
<1>6. /\ DOMAIN Over(cols(k), past(k)) = DOMAIN cols(k) \cup DOMAIN past(k)
      /\ \A c \in DOMAIN cols(k) : Over(cols(k), past(k))[c] = cols(k)[c]
      /\ \A c \in DOMAIN past(k) \ DOMAIN cols(k) : Over(cols(k), past(k))[c] = past(k)[c]
  BY DEF Over
<1>7. DOMAIN hist'[k] =
        DOMAIN values[k] \cup IF k \in DOMAIN hist THEN DOMAIN hist[k] ELSE {}
  BY <1>2, <1>3, <1>4, <1>6
<1>8. \A c \in DOMAIN values[k] : hist'[k][c] = new(k, c)
  BY <1>2, <1>3, <1>6
<1>9. k \in DOMAIN hist => \A c \in DOMAIN hist[k] \ DOMAIN values[k] :
        hist'[k][c] = hist[k][c]
  BY <1>2, <1>3, <1>4, <1>5, <1>6
<1> QED BY <1>7, <1>8, <1>9

\* A statement that sets every column it names of the rows with these keys.
LEMMA Asked ==
    ASSUME NEW Columns, ColumnInv(Columns), NEW r \in Request,
           NEW rows, NEW values, NEW sets,
           Record(r, rows, values, sets, sets),
           \A k \in DOMAIN sets :
              /\ DOMAIN values[k] = sets[k] /\ sets[k] \subseteq Columns[k[1]]
              /\ k \in DOMAIN hist \/ (k \in DOMAIN rows /\ sets[k] = Columns[k[1]])
              /\ k \in DOMAIN rows => \A c \in sets[k] : rows[k][c] = values[k][c]
              /\ k \in DOMAIN rows => \A c \in DOMAIN rows[k] \ sets[k] :
                                         k \in DOMAIN db /\ rows[k][c] = db[k][c]
              /\ k \notin DOMAIN rows => sets[k] = Columns[k[1]],
           \A k \in (DOMAIN rows \cup DOMAIN db) \ DOMAIN sets :
              k \in DOMAIN rows /\ k \in DOMAIN db /\ rows[k] = db[k],
           Schema(Columns, rows)
    PROVE  ColumnInv(Columns)' /\ Changes(r)
<1>1. /\ db' = rows
      /\ DOMAIN hist' = DOMAIN hist \cup DOMAIN sets
      /\ \A k \in DOMAIN hist \ DOMAIN sets : hist'[k] = hist[k]
  <2>1. Record(r, rows, values, sets, sets)
    OBVIOUS
  <2> QED BY ONLY <2>1, RecordHist
<1>2. ASSUME NEW k \in DOMAIN sets
      PROVE  /\ DOMAIN hist'[k] = Columns[k[1]]
             /\ \A c \in sets[k] : /\ hist'[k][c].by = r
                                   /\ hist'[k][c].writer = r
                                   /\ hist'[k][c].val = values[k][c]
             /\ \A c \in Columns[k[1]] \ sets[k] : hist'[k][c] = hist[k][c]
  <2>1. /\ DOMAIN hist'[k] =
             DOMAIN values[k] \cup IF k \in DOMAIN hist THEN DOMAIN hist[k] ELSE {}
        /\ \A c \in DOMAIN values[k] : hist'[k][c] =
             [val |-> IF c \in sets[k] THEN values[k][c] ELSE hist[k][c].val,
              by |-> IF c \in sets[k] THEN r ELSE hist[k][c].by,
              writer |-> IF c \in sets[k] THEN r ELSE hist[k][c].writer]
        /\ k \in DOMAIN hist => \A c \in DOMAIN hist[k] \ DOMAIN values[k] :
             hist'[k][c] = hist[k][c]
    BY RecordRow
  <2>2. DOMAIN values[k] = sets[k] /\ sets[k] \subseteq Columns[k[1]]
    OBVIOUS
  <2>3. k \in DOMAIN hist => DOMAIN hist[k] = Columns[k[1]]
    BY DEF ColumnInv, Schema
  <2>4. k \in DOMAIN hist \/ sets[k] = Columns[k[1]]
    OBVIOUS
  <2>5. DOMAIN hist'[k] = Columns[k[1]]
    BY <2>1, <2>2, <2>3, <2>4
  <2>6. ASSUME NEW c \in sets[k]
        PROVE  hist'[k][c].by = r /\ hist'[k][c].writer = r /\ hist'[k][c].val = values[k][c]
    <3>1. c \in DOMAIN values[k]
      BY <2>2
    <3>2. hist'[k][c] = [val |-> values[k][c], by |-> r, writer |-> r]
      BY <2>1, <3>1
    <3> QED BY <3>2
  <2>7. ASSUME NEW c \in Columns[k[1]] \ sets[k]
        PROVE  hist'[k][c] = hist[k][c]
    BY <2>1, <2>2, <2>3, <2>4
  <2> QED BY <2>5, <2>6, <2>7
<1>3. ColumnInv(Columns)'
  <2>1. DOMAIN rows \subseteq DOMAIN hist'
    BY <1>1 DEF ColumnInv, Schema
  <2>2. \A k \in DOMAIN hist' : k = <<k[1], k[2]>> /\ DOMAIN hist'[k] = Columns[k[1]]
    BY <1>1, <1>2 DEF ColumnInv, Schema
  <2>3. ASSUME NEW k \in DOMAIN hist', NEW c \in DOMAIN hist'[k]
        PROVE  hist'[k][c].by \in Request \cup {Null}
    BY <1>1, <1>2, <2>2, <2>3 DEF ColumnInv, Schema
  <2> QED BY <1>1, <2>1, <2>2, <2>3 DEF ColumnInv, Schema
<1>4. ASSUME NEW k \in DOMAIN hist', NEW c \in DOMAIN hist'[k]
      PROVE  Same(k, c) \/ AskedBy(r, k, c)
  <2>1. CASE k \notin DOMAIN sets
    <3>1. k \in DOMAIN hist /\ hist'[k] = hist[k]
      BY <1>1, <2>1
    <3>2. k \in DOMAIN db' <=> k \in DOMAIN db
      BY <1>1, <2>1
    <3>3. k \in DOMAIN db => db'[k][c] = db[k][c]
      BY <1>1, <2>1
    <3> QED BY <3>1, <3>2, <3>3 DEF Same
  <2>2. CASE k \in DOMAIN sets /\ c \in sets[k]
    BY <1>1, <1>2, <2>2 DEF AskedBy
  <2>3. CASE k \in DOMAIN sets /\ c \notin sets[k]
    <3>1. c \in Columns[k[1]] \ sets[k]
      BY <1>3, <2>3 DEF ColumnInv, Schema
    <3>2. k \in DOMAIN hist /\ hist'[k][c] = hist[k][c]
      BY <1>2, <2>3, <3>1
    <3>3. k \in DOMAIN rows /\ c \in DOMAIN rows[k] \ sets[k]
      BY <2>3, <3>1 DEF Schema
    <3>4. k \in DOMAIN db /\ rows[k][c] = db[k][c]
      BY <2>3, <3>3
    <3> QED BY <1>1, <3>2, <3>3, <3>4 DEF Same
  <2> QED BY <2>1, <2>2, <2>3
<1> QED BY <1>3, <1>4 DEF Changes

LEMMA InsertsChange ==
    ASSUME NEW Columns, ColumnInv(Columns), NEW r \in Request, NEW rows, Inserts(r, rows),
           Schema(Columns, rows)
    PROVE  ColumnInv(Columns)' /\ Changes(r)
<1> DEFINE all == [k \in DOMAIN rows |-> DOMAIN rows[k]]
           after == Over(rows, db)
<1>1. Record(r, after, rows, all, all)
  BY DEF Inserts
<1>2. DOMAIN all = DOMAIN rows /\ \A k \in DOMAIN rows : all[k] = DOMAIN rows[k]
  OBVIOUS
<1>3. /\ DOMAIN after = DOMAIN rows \cup DOMAIN db
      /\ \A k \in DOMAIN rows : after[k] = rows[k]
      /\ \A k \in DOMAIN db \ DOMAIN rows : after[k] = db[k]
  BY DEF Over
<1>4. \A k \in DOMAIN db : k = <<k[1], k[2]>> /\ DOMAIN db[k] = Columns[k[1]]
  BY DEF ColumnInv, Schema
<1> HIDE DEF all, after
<1>5. Schema(Columns, after)
  BY <1>3, <1>4 DEF Schema
<1>6. \A k \in DOMAIN all :
         /\ DOMAIN rows[k] = all[k] /\ all[k] \subseteq Columns[k[1]]
         /\ k \in DOMAIN after /\ all[k] = Columns[k[1]]
         /\ k \in DOMAIN after => \A c \in all[k] : after[k][c] = rows[k][c]
         /\ k \in DOMAIN after => \A c \in DOMAIN after[k] \ all[k] :
                                    k \in DOMAIN db /\ after[k][c] = db[k][c]
         /\ k \notin DOMAIN after => all[k] = Columns[k[1]]
  BY <1>2, <1>3, <1>5 DEF Schema
<1>7. \A k \in (DOMAIN after \cup DOMAIN db) \ DOMAIN all :
         k \in DOMAIN after /\ k \in DOMAIN db /\ after[k] = db[k]
  BY <1>2, <1>3
<1> QED BY <1>1, <1>5, <1>6, <1>7, Asked

LEMMA UpdatesChange ==
    ASSUME NEW Columns, ColumnInv(Columns), NEW r \in Request, NEW keys, NEW values,
           Updates(r, keys, values),
           \A k \in keys : DOMAIN values \subseteq Columns[k[1]]
    PROVE  ColumnInv(Columns)' /\ Changes(r)
<1> DEFINE found == keys \cap DOMAIN db
           changed == [k \in found |-> Over(values, db[k])]
           after == Over(changed, db)
           set == [k \in found |-> values]
           sets == [k \in found |-> DOMAIN values]
<1>1. Record(r, after, set, sets, sets)
  BY DEF Updates
<1>2. /\ DOMAIN sets = found
      /\ \A k \in found : sets[k] = DOMAIN values /\ set[k] = values
  OBVIOUS
<1>3. /\ DOMAIN after = DOMAIN db
      /\ \A k \in found : after[k] = Over(values, db[k])
      /\ \A k \in DOMAIN db \ found : after[k] = db[k]
  BY DEF Over
<1>4. ASSUME NEW k \in found
      PROVE  /\ DOMAIN after[k] = DOMAIN values \cup DOMAIN db[k]
             /\ \A c \in DOMAIN values : after[k][c] = values[c]
             /\ \A c \in DOMAIN db[k] \ DOMAIN values : after[k][c] = db[k][c]
  BY <1>3 DEF Over
<1>5. found \subseteq keys /\ found \subseteq DOMAIN db
  OBVIOUS
<1>6. /\ \A k \in DOMAIN db : k = <<k[1], k[2]>> /\ DOMAIN db[k] = Columns[k[1]]
      /\ DOMAIN db \subseteq DOMAIN hist
  BY DEF ColumnInv, Schema
<1> HIDE DEF found, sets, set, after
<1>7. Schema(Columns, after)
  BY <1>3, <1>4, <1>5, <1>6 DEF Schema
<1>8. ASSUME NEW k \in DOMAIN sets
      PROVE  /\ DOMAIN set[k] = sets[k] /\ sets[k] \subseteq Columns[k[1]]
             /\ k \in DOMAIN hist
             /\ k \in DOMAIN after
             /\ \A c \in sets[k] : after[k][c] = set[k][c]
             /\ \A c \in DOMAIN after[k] \ sets[k] :
                  k \in DOMAIN db /\ after[k][c] = db[k][c]
  BY <1>2, <1>3, <1>4, <1>5, <1>6
<1>9. \A k \in (DOMAIN after \cup DOMAIN db) \ DOMAIN sets :
         k \in DOMAIN after /\ k \in DOMAIN db /\ after[k] = db[k]
  BY <1>2, <1>3
<1> QED BY <1>1, <1>7, <1>8, <1>9, Asked

LEMMA RemovesChange ==
    ASSUME NEW Columns, ColumnInv(Columns), NEW r \in Request, NEW keys,
           keys \subseteq DOMAIN db, Removes(r, keys)
    PROVE  ColumnInv(Columns)' /\ Changes(r)
<1> DEFINE gone == Removal(keys)
           rest == DOMAIN db \ gone
           after == Only(db, rest)
           none == [k \in gone |-> [c \in DOMAIN db[k] |-> Null]]
           sets == [k \in gone |-> DOMAIN db[k]]
<1>1. Record(r, after, none, sets, sets)
  BY DEF Removes
<1>2. /\ DOMAIN sets = gone
      /\ \A k \in gone : sets[k] = DOMAIN db[k] /\ DOMAIN none[k] = DOMAIN db[k]
  OBVIOUS
<1>3. /\ DOMAIN after = DOMAIN db \ gone
      /\ \A k \in DOMAIN db \ gone : after[k] = db[k]
  BY DEF Only
<1>4. gone \subseteq DOMAIN db
  BY DEF Removal
<1>5. /\ \A k \in DOMAIN db : k = <<k[1], k[2]>> /\ DOMAIN db[k] = Columns[k[1]]
      /\ DOMAIN db \subseteq DOMAIN hist
  BY DEF ColumnInv, Schema
<1> HIDE DEF gone, none, sets, after
<1>6. Schema(Columns, after)
  BY <1>3, <1>5 DEF Schema
<1>7. ASSUME NEW k \in DOMAIN sets
      PROVE  /\ DOMAIN none[k] = sets[k] /\ sets[k] = Columns[k[1]]
             /\ k \in DOMAIN hist /\ k \notin DOMAIN after
  BY <1>2, <1>3, <1>4, <1>5
<1>8. \A k \in (DOMAIN after \cup DOMAIN db) \ DOMAIN sets :
         k \in DOMAIN after /\ k \in DOMAIN db /\ after[k] = db[k]
  BY <1>2, <1>3
<1> QED BY <1>1, <1>6, <1>7, <1>8, Asked

\* Rows that a statement does not name stay as they are; history gains the
\* rows inserted, and no others.
LEMMA RecordSpares ==
    ASSUME NEW r, NEW rows, NEW values, NEW meant, NEW wrote,
           Record(r, rows, values, meant, wrote),
           NEW k \in DOMAIN hist \ DOMAIN meant,
           k \in DOMAIN rows <=> k \in DOMAIN db,
           k \in DOMAIN db => rows[k] = db[k]
    PROVE  Spares(r, k, {})
<1>1. hist'[k] = hist[k] /\ db' = rows
  BY ONLY Record(r, rows, values, meant, wrote), k \in DOMAIN hist \ DOMAIN meant, RecordHist
<1> QED BY <1>1 DEF Spares, Same

LEMMA InsertsSpare ==
    ASSUME NEW r, NEW rows, Inserts(r, rows)
    PROVE  /\ DOMAIN hist' = DOMAIN hist \cup DOMAIN rows
           /\ \A k \in DOMAIN hist \ DOMAIN rows : Spares(r, k, {})
<1> DEFINE all == [k \in DOMAIN rows |-> DOMAIN rows[k]]
           after == Over(rows, db)
<1>1. Record(r, after, rows, all, all)
  BY DEF Inserts
<1>2. DOMAIN all = DOMAIN rows
  OBVIOUS
<1>3. /\ DOMAIN after = DOMAIN rows \cup DOMAIN db
      /\ \A k \in DOMAIN db \ DOMAIN rows : after[k] = db[k]
  BY DEF Over
<1> HIDE DEF all, after
<1>4. DOMAIN hist' = DOMAIN hist \cup DOMAIN rows
  BY <1>1, <1>2, RecordHist
<1>5. \A k \in DOMAIN hist \ DOMAIN rows : Spares(r, k, {})
  BY <1>1, <1>2, <1>3, RecordSpares
<1> QED BY <1>4, <1>5

LEMMA UpdatesSpare ==
    ASSUME NEW Columns, ColumnInv(Columns), NEW r, NEW keys, NEW values, Updates(r, keys, values)
    PROVE  /\ DOMAIN hist' = DOMAIN hist
           /\ \A k \in DOMAIN hist \ keys : Spares(r, k, {})
<1> DEFINE found == keys \cap DOMAIN db
           changed == [k \in found |-> Over(values, db[k])]
           after == Over(changed, db)
           set == [k \in found |-> values]
           sets == [k \in found |-> DOMAIN values]
<1>1. Record(r, after, set, sets, sets)
  BY DEF Updates
<1>2. DOMAIN sets = found
  OBVIOUS
<1>3. /\ DOMAIN after = DOMAIN db
      /\ \A k \in DOMAIN db \ found : after[k] = db[k]
  BY DEF Over
<1>4. found \subseteq keys /\ found \subseteq DOMAIN hist
  BY DEF ColumnInv
<1> HIDE DEF found, sets, set, after
<1>5. DOMAIN hist' = DOMAIN hist
  BY <1>1, <1>2, <1>4, RecordHist
<1>6. \A k \in DOMAIN hist \ keys : Spares(r, k, {})
  BY <1>1, <1>2, <1>3, <1>4, RecordSpares
<1> QED BY <1>5, <1>6

LEMMA RemovesSpare ==
    ASSUME NEW Columns, ColumnInv(Columns), NEW r, NEW keys,
           keys \subseteq DOMAIN db, Removes(r, keys)
    PROVE  /\ DOMAIN hist' = DOMAIN hist
           /\ \A k \in DOMAIN hist \ Removal(keys) : Spares(r, k, {})
<1> DEFINE gone == Removal(keys)
           after == Only(db, DOMAIN db \ gone)
           none == [k \in gone |-> [c \in DOMAIN db[k] |-> Null]]
           sets == [k \in gone |-> DOMAIN db[k]]
<1>1. Record(r, after, none, sets, sets)
  BY DEF Removes
<1>2. DOMAIN sets = gone
  OBVIOUS
<1>3. /\ DOMAIN after = DOMAIN db \ gone
      /\ \A k \in DOMAIN db \ gone : after[k] = db[k]
  BY DEF Only
<1>4. gone \subseteq DOMAIN hist
  BY DEF Removal, ColumnInv
<1> HIDE DEF gone, none, sets, after
<1>5. DOMAIN hist' = DOMAIN hist
  BY <1>1, <1>2, <1>4, RecordHist
<1>6. \A k \in DOMAIN hist \ gone : Spares(r, k, {})
  BY <1>1, <1>2, <1>3, RecordSpares
<1> QED BY <1>5, <1>6 DEF gone

\* The tables after save() wrote what Reload found to differ.
LEMMA AfterWriteRows ==
    ASSUME NEW Columns, ColumnInv(Columns),
           \A f \in References : f.column \in Columns[f.table],
           NEW r \in Request, Compared(Columns, r), WriteAccepted(r)
    PROVE  LET rows == mem[r].rows
               dirty == mem[r].dirty
               after == AfterWrite(r)
           IN  /\ DOMAIN after = DOMAIN db \cup (DOMAIN rows \ DOMAIN dirty)
               /\ \A k \in DOMAIN after : DOMAIN after[k] = Columns[k[1]]
               /\ \A k \in DOMAIN rows \ DOMAIN dirty :
                    k \notin DOMAIN db /\ \A c \in DOMAIN rows[k] : after[k][c] = rows[k][c]
               /\ \A k \in DOMAIN db : k \notin DOMAIN rows => after[k] = db[k]
               /\ \A k \in DOMAIN db \cap DOMAIN rows : \A c \in Columns[k[1]] :
                    after[k][c] = IF c \in dirty[k] THEN rows[k][c] ELSE db[k][c]
<1> DEFINE rows == mem[r].rows
           dirty == mem[r].dirty
           new == DOMAIN rows \ DOMAIN dirty
           old == {k \in DOMAIN rows \ new : k \in DOMAIN db}
           changed == [k \in old |-> Over(Only(rows[k], dirty[k]), db[k])]
           added == [k \in new |-> Inserted(k, rows[k])]
           after == AfterWrite(r)
<1>1. after = Over(added, Over(changed, db))
  BY DEF AfterWrite
<1>2. new \cap DOMAIN db = {}
  BY DEF WriteAccepted
<1>3. /\ DOMAIN added = new
      /\ \A k \in new : added[k] = Inserted(k, rows[k])
  OBVIOUS
<1>4. /\ DOMAIN changed = old
      /\ \A k \in old : changed[k] = Over(Only(rows[k], dirty[k]), db[k])
  OBVIOUS
<1>5. /\ old = DOMAIN rows \cap DOMAIN db
      /\ new \subseteq DOMAIN rows
  BY <1>2
<1> HIDE DEF added, changed, after
<1>6. /\ DOMAIN after = DOMAIN db \cup new
      /\ \A k \in new : after[k] = Inserted(k, rows[k])
      /\ \A k \in old : after[k] = Over(Only(rows[k], dirty[k]), db[k])
      /\ \A k \in DOMAIN db \ DOMAIN rows : after[k] = db[k]
  BY <1>1, <1>2, <1>3, <1>4, <1>5 DEF Over
<1>7. ASSUME NEW k \in new
      PROVE  /\ DOMAIN Inserted(k, rows[k]) = Columns[k[1]]
             /\ \A c \in DOMAIN rows[k] : Inserted(k, rows[k])[c] = rows[k][c]
  <2>1. Fits(Columns, k, rows[k])
    BY DEF Compared
  <2>2. ForeignColumns(k) \subseteq Columns[k[1]]
    BY DEF ForeignColumns
  <2>3. /\ DOMAIN Inserted(k, rows[k]) = DOMAIN rows[k] \cup ForeignColumns(k)
        /\ \A c \in DOMAIN rows[k] : Inserted(k, rows[k])[c] = rows[k][c]
    BY DEF Inserted, Over
  <2> QED BY <2>1, <2>2, <2>3 DEF Fits
<1>8. ASSUME NEW k \in old
      PROVE  /\ DOMAIN after[k] = Columns[k[1]]
             /\ \A c \in Columns[k[1]] :
                  after[k][c] = IF c \in dirty[k] THEN rows[k][c] ELSE db[k][c]
  <2>1. dirty[k] \subseteq DOMAIN rows[k] /\ Fits(Columns, k, rows[k])
    BY DEF Compared
  <2>2. DOMAIN db[k] = Columns[k[1]]
    BY DEF ColumnInv, Schema
  <2>3. /\ DOMAIN after[k] = dirty[k] \cup DOMAIN db[k]
        /\ \A c \in DOMAIN after[k] :
              after[k][c] = IF c \in dirty[k] THEN rows[k][c] ELSE db[k][c]
    <3>1. after[k] = Over(Only(rows[k], dirty[k]), db[k])
      BY <1>6
    <3>2. DOMAIN Only(rows[k], dirty[k]) = dirty[k]
      BY DEF Only
    <3>3. \A c \in dirty[k] : Only(rows[k], dirty[k])[c] = rows[k][c]
      BY DEF Only
    <3> QED BY <3>1, <3>2, <3>3 DEF Over
  <2> QED BY <2>1, <2>2, <2>3 DEF Fits
<1>9. \A k \in DOMAIN after : DOMAIN after[k] = Columns[k[1]]
  BY <1>5, <1>6, <1>7, <1>8 DEF ColumnInv, Schema
<1> QED BY <1>2, <1>5, <1>6, <1>7, <1>8, <1>9 DEF after

LEMMA WriteChange ==
    ASSUME NEW Columns, ColumnInv(Columns),
           \A f \in References : f.column \in Columns[f.table],
           NEW r \in Request, Compared(Columns, r), NEW s, NEW m, Write(r, s, m)
    PROVE  /\ ColumnInv(Columns)' /\ Changes(r)
           /\ DOMAIN hist \subseteq DOMAIN hist'
           /\ DOMAIN hist' \subseteq DOMAIN hist \cup DOMAIN mem[r].rows
           /\ \A k \in DOMAIN hist : k \notin DOMAIN mem[r].rows => Spares(r, k, {})
           /\ \A k \in DOMAIN hist : Spares(r, k, mem[r].meant)
<1>1. CASE ~WriteAccepted(r)
  <2>1. UNCHANGED <<db, hist>>
    BY <1>1 DEF Write, Reads
  <2>2. \A k \in DOMAIN hist : Spares(r, k, {}) /\ Spares(r, k, mem[r].meant)
    BY <2>1 DEF Spares, Same
  <2> QED BY <2>1, <2>2, NothingWritten
<1>2. CASE WriteAccepted(r)
  <2> DEFINE rows == mem[r].rows
             dirty == mem[r].dirty
             after == AfterWrite(r)
             kept == DOMAIN rows \cap DOMAIN after
             new == [k \in kept |-> IF k \notin DOMAIN dirty THEN after[k] ELSE rows[k]]
             meant == [k \in kept |-> IF k \in DOMAIN hist THEN mem[r].meant ELSE DOMAIN new[k]]
             wrote == [k \in kept |-> IF k \notin DOMAIN dirty THEN DOMAIN new[k] ELSE dirty[k]]
  <2>1. Record(r, after, new, meant, wrote) /\ met' = met
    BY <1>2 DEF Write, Goto
  <2>2. /\ DOMAIN after = DOMAIN db \cup (DOMAIN rows \ DOMAIN dirty)
        /\ \A k \in DOMAIN after : DOMAIN after[k] = Columns[k[1]]
        /\ \A k \in DOMAIN rows \ DOMAIN dirty :
             k \notin DOMAIN db /\ \A c \in DOMAIN rows[k] : after[k][c] = rows[k][c]
        /\ \A k \in DOMAIN db : k \notin DOMAIN rows => after[k] = db[k]
        /\ \A k \in DOMAIN db \cap DOMAIN rows : \A c \in Columns[k[1]] :
             after[k][c] = IF c \in dirty[k] THEN rows[k][c] ELSE db[k][c]
    BY ONLY ColumnInv(Columns), \A f \in References : f.column \in Columns[f.table],
       r \in Request, Compared(Columns, r), <1>2, AfterWriteRows
  <2>3. /\ DOMAIN meant = kept
        /\ \A k \in kept :
             /\ new[k] = IF k \notin DOMAIN dirty THEN after[k] ELSE rows[k]
             /\ meant[k] = IF k \in DOMAIN hist THEN mem[r].meant ELSE DOMAIN new[k]
             /\ wrote[k] = IF k \notin DOMAIN dirty THEN DOMAIN new[k] ELSE dirty[k]
    OBVIOUS
  <2> HIDE DEF after, new, meant, wrote
  <2>4. /\ db' = after
        /\ DOMAIN hist' = DOMAIN hist \cup kept
        /\ \A k \in DOMAIN hist \ kept : hist'[k] = hist[k]
    <3> HIDE DEF kept
    <3> QED BY <2>1, <2>3, RecordHist
  <2>5. ASSUME NEW k \in kept
        PROVE  /\ DOMAIN hist'[k] =
                    DOMAIN new[k] \cup IF k \in DOMAIN hist THEN DOMAIN hist[k] ELSE {}
               /\ \A c \in DOMAIN new[k] : hist'[k][c] =
                    [val |-> IF c \in meant[k] THEN new[k][c] ELSE hist[k][c].val,
                     by |-> IF c \in meant[k] THEN r ELSE hist[k][c].by,
                     writer |-> IF c \in wrote[k] THEN r ELSE hist[k][c].writer]
               /\ k \in DOMAIN hist => \A c \in DOMAIN hist[k] \ DOMAIN new[k] :
                    hist'[k][c] = hist[k][c]
    <3> HIDE DEF kept
    <3> QED BY <2>1, <2>3, RecordRow
  <2>6. ASSUME NEW k \in kept
        PROVE  /\ DOMAIN new[k] \subseteq Columns[k[1]]
               /\ k \notin DOMAIN dirty => DOMAIN new[k] = Columns[k[1]]
               /\ k \in DOMAIN dirty => /\ k \in DOMAIN db /\ k \in DOMAIN hist
                                     /\ dirty[k] \subseteq DOMAIN rows[k]
                                     /\ new[k] = rows[k]
               /\ k \in DOMAIN hist => DOMAIN hist[k] = Columns[k[1]]
               /\ DOMAIN hist'[k] = Columns[k[1]]
    <3>1. Fits(Columns, k, rows[k]) /\ (k \in DOMAIN dirty => dirty[k] \subseteq DOMAIN rows[k])
      BY DEF Compared
    <3>2. k \in DOMAIN hist => DOMAIN hist[k] = Columns[k[1]]
      BY DEF ColumnInv, Schema
    <3>3. k \in DOMAIN dirty => k \in DOMAIN db /\ k \in DOMAIN hist
      BY <2>2 DEF ColumnInv, Schema
    <3>4. k \notin DOMAIN dirty => DOMAIN new[k] = Columns[k[1]]
      BY <2>2, <2>3
    <3>5. k \in DOMAIN dirty => new[k] = rows[k]
      BY <2>3
    <3>6. DOMAIN new[k] \subseteq Columns[k[1]]
      BY <3>1, <3>4, <3>5 DEF Fits
    <3>7. DOMAIN hist'[k] = Columns[k[1]]
      BY <2>5, <3>2, <3>3, <3>4, <3>6
    <3> QED BY <3>1, <3>2, <3>3, <3>4, <3>5, <3>6, <3>7
  <2>7. ASSUME NEW k \in kept, NEW c \in Columns[k[1]]
        PROVE  \/ Same(k, c) \/ PutBackBy(r, k, c)
               \/ AskedBy(r, k, c) /\ (k \in DOMAIN hist => c \in mem[r].meant)
    <3>1. k \in DOMAIN hist => Differs(r, k, c)
      BY <2>6 DEF Compared
    <3>2. k \in DOMAIN db'
      BY <2>4
    <3>3. CASE k \notin DOMAIN dirty
      <4>1. /\ c \in DOMAIN new[k] /\ new[k] = after[k] /\ c \in wrote[k]
            /\ meant[k] = IF k \in DOMAIN hist THEN mem[r].meant ELSE DOMAIN new[k]
        BY <2>3, <2>6, <3>3
      <4>2. hist'[k][c] = [val |-> IF c \in meant[k] THEN after[k][c] ELSE hist[k][c].val,
                           by |-> IF c \in meant[k] THEN r ELSE hist[k][c].by,
                           writer |-> r]
        BY <2>5, <4>1
      <4>3. CASE c \in meant[k]
        BY <2>4, <4>1, <4>2, <4>3 DEF AskedBy
      <4>4. CASE c \notin meant[k]
        <5>1. k \in DOMAIN hist /\ c \notin mem[r].meant
          BY <4>1, <4>4
        <5> QED BY <3>1, <3>3, <4>2, <4>4, <5>1 DEF PutBackBy, Differs
      <4> QED BY <4>3, <4>4
    <3>4. CASE k \in DOMAIN dirty /\ c \in dirty[k]
      <4>1. /\ c \in DOMAIN new[k] /\ new[k] = rows[k] /\ c \in wrote[k]
            /\ meant[k] = mem[r].meant /\ k \in DOMAIN hist /\ k \in DOMAIN db
        BY <2>3, <2>6, <3>4
      <4>2. hist'[k][c] = [val |-> IF c \in meant[k] THEN rows[k][c] ELSE hist[k][c].val,
                           by |-> IF c \in meant[k] THEN r ELSE hist[k][c].by,
                           writer |-> r]
        BY <2>5, <4>1
      <4>3. db'[k][c] = rows[k][c]
        BY <2>2, <2>4, <3>4, <4>1
      <4>4. CASE c \in meant[k]
        BY <4>1, <4>2, <4>3, <4>4 DEF AskedBy
      <4>5. CASE c \notin meant[k]
        BY <3>1, <3>4, <4>1, <4>2, <4>5 DEF PutBackBy, Differs
      <4> QED BY <4>4, <4>5
    <3>5. CASE k \in DOMAIN dirty /\ c \notin dirty[k]
      <4>1. /\ new[k] = rows[k] /\ c \notin wrote[k]
            /\ meant[k] = mem[r].meant /\ k \in DOMAIN hist /\ k \in DOMAIN db
        BY <2>3, <2>6, <3>5
      <4>2. db'[k][c] = db[k][c]
        BY <2>2, <2>4, <3>5, <4>1
      <4>3. CASE c \notin DOMAIN rows[k]
        <5>1. hist'[k][c] = hist[k][c]
          BY <2>5, <2>6, <4>1, <4>3
        <5> QED BY <3>2, <4>1, <4>2, <5>1 DEF Same
      <4>4. CASE c \in DOMAIN rows[k]
        <5>1. hist'[k][c] = [val |-> IF c \in meant[k] THEN rows[k][c] ELSE hist[k][c].val,
                             by |-> IF c \in meant[k] THEN r ELSE hist[k][c].by,
                             writer |-> hist[k][c].writer]
          BY <2>5, <4>1, <4>4
        <5>2. CASE c \notin meant[k]
          BY <3>2, <4>1, <4>2, <5>1, <5>2 DEF Same
        <5>3. CASE c \in meant[k]
          <6>1. rows[k][c] = db[k][c] \/ hist[k][c].writer \in met[r]
            BY <3>1, <3>5, <4>1, <4>4 DEF Differs
          <6> QED BY <2>1, <3>2, <4>1, <4>2, <5>1, <5>3, <6>1 DEF AskedBy
        <5> QED BY <5>2, <5>3
      <4> QED BY <4>3, <4>4
    <3> QED BY <3>3, <3>4, <3>5
  <2>8. ASSUME NEW k \in DOMAIN hist \ kept, NEW c \in DOMAIN hist[k]
        PROVE  Same(k, c)
    <3>1. hist'[k] = hist[k]
      BY <2>4
    <3>2. k \in DOMAIN db <=> k \in DOMAIN db'
      BY <2>2, <2>4
    <3>3. k \in DOMAIN db => db'[k] = db[k]
      BY <2>2, <2>4
    <3> QED BY <3>1, <3>2, <3>3 DEF Same
  <2>9. Changes(r)
    <3> SUFFICES ASSUME NEW k \in DOMAIN hist', NEW c \in DOMAIN hist'[k]
                 PROVE  Same(k, c) \/ AskedBy(r, k, c) \/ PutBackBy(r, k, c)
      BY DEF Changes
    <3>1. CASE k \in kept
      BY <2>6, <2>7, <3>1
    <3>2. CASE k \notin kept
      BY <2>4, <2>8, <3>2
    <3> QED BY <3>1, <3>2
  <2>10. ColumnInv(Columns)'
    <3>1. \A k \in DOMAIN hist' : k = <<k[1], k[2]>> /\ DOMAIN hist'[k] = Columns[k[1]]
      BY <2>4, <2>6 DEF ColumnInv, Schema, Compared, Fits
    <3>2. DOMAIN db' \subseteq DOMAIN hist'
      BY <2>2, <2>4 DEF ColumnInv, Schema
    <3>3. ASSUME NEW k \in DOMAIN hist', NEW c \in DOMAIN hist'[k]
          PROVE  hist'[k][c].by \in Request \cup {Null}
      <4>1. Same(k, c) \/ AskedBy(r, k, c) \/ PutBackBy(r, k, c)
        BY <2>9 DEF Changes
      <4>2. k \in DOMAIN hist => c \in DOMAIN hist[k]
        BY <3>1 DEF ColumnInv, Schema
      <4> QED BY <4>1, <4>2 DEF Same, AskedBy, PutBackBy, ColumnInv, Schema
    <3>4. \A k \in DOMAIN db' : DOMAIN db'[k] = Columns[k[1]]
      BY <2>2, <2>4
    <3> QED BY <3>1, <3>2, <3>3, <3>4 DEF ColumnInv, Schema
  <2>11. /\ DOMAIN hist \subseteq DOMAIN hist'
         /\ DOMAIN hist' \subseteq DOMAIN hist \cup DOMAIN rows
    BY <2>4
  <2>12. ASSUME NEW k \in DOMAIN hist, k \notin DOMAIN rows
         PROVE  Spares(r, k, {})
    <3>1. k \in DOMAIN hist \ kept /\ hist'[k] = hist[k]
      BY <2>4, <2>12
    <3> QED BY <2>8, <3>1 DEF Spares
  <2>13. ASSUME NEW k \in DOMAIN hist
         PROVE  Spares(r, k, mem[r].meant)
    <3>1. CASE k \in kept
      <4>1. DOMAIN hist'[k] = Columns[k[1]]
        BY <2>6, <3>1
      <4> QED BY <2>7, <3>1, <4>1 DEF Spares
    <3>2. CASE k \notin kept
      <4>1. k \in DOMAIN hist \ kept /\ hist'[k] = hist[k]
        BY <2>4, <3>2
      <4> QED BY <2>8, <4>1 DEF Spares
    <3> QED BY <3>1, <3>2
  <2> QED BY <2>9, <2>10, <2>11, <2>12, <2>13
<1> QED BY <1>1, <1>2

-----------------------------------------------------------------------------
(* Rows that were read.                                                    *)

\* A row read and given other values is what the tables hold but for these.
LEMMA ReadFresh ==
    ASSUME NEW r, NEW k \in DOMAIN db, NEW row, NEW meant,
           \A c \in DOMAIN row \ meant : row[c] = db[k][c]
    PROVE  Fresh(r, k, row, meant)
BY DEF Fresh

LEMMA AssignedFresh ==
    ASSUME NEW r, NEW k, NEW row, NEW values, NEW first, NEW meant,
           Fresh(r, k, row, first), first \subseteq meant, DOMAIN values \subseteq meant
    PROVE  Fresh(r, k, Assigned(row, values), meant)
BY DEF Fresh, Assigned, Over

LEMMA AssignedFits ==
    ASSUME NEW Columns, NEW k, NEW row, NEW values,
           Fits(Columns, k, row), DOMAIN values \subseteq Columns[k[1]]
    PROVE  Fits(Columns, k, Assigned(row, values))
BY DEF Fits, Assigned, Over

\* All columns of a row, or all but some that are foreign keys.
LEMMA RowFits ==
    ASSUME NEW Columns, ColumnInv(Columns), NEW k \in DOMAIN db
    PROVE  Fits(Columns, k, db[k])
BY DEF Fits, ColumnInv, Schema

LEMMA LoadedFits ==
    ASSUME NEW Columns, NEW k, k = <<k[1], k[2]>>, NEW row, NEW loaded,
           loaded \subseteq Columns[k[1]],
           Columns[k[1]] \ loaded \subseteq ForeignColumns(k)
    PROVE  Fits(Columns, k, Only(row, loaded))
BY DEF Fits, Only

LEMMA KnowsOne ==
    ASSUME NEW Columns, ColumnInv(Columns), NEW r, NEW k \in DOMAIN db,
           NEW row, NEW values, Fits(Columns, k, row), DOMAIN values \subseteq Columns[k[1]],
           \A c \in DOMAIN row : row[c] = db[k][c]
    PROVE  Knows(Columns, r, Single(k, Assigned(row, values)), DOMAIN values)
<1>1. Fits(Columns, k, Assigned(row, values))
  BY AssignedFits
<1>2. Fresh(r, k, row, {})
  BY ReadFresh
<1>3. Fresh(r, k, Assigned(row, values), DOMAIN values)
  BY <1>2, AssignedFresh
<1> QED BY <1>1, <1>3 DEF Knows, Single

-----------------------------------------------------------------------------
(* A step of any request.  Reading are the steps at which a request holds  *)
(* rows to save, Writing those at which it has compared them.              *)

Keeps(Columns, Reading, Writing, r) ==
    /\ step[r] \in Reading => Holds(Columns, r)
    /\ step[r] \in Writing => Compared(Columns, r)

SaveInv(Columns, Reading, Writing) ==
    /\ SharedInv(Columns)
    /\ \A r \in Request : Keeps(Columns, Reading, Writing, r)

UnderWay(Reading, Writing) ==
    /\ {"idle", "ok", "error"} \cap (Reading \cup Writing) = {}
    /\ Reading \cap Writing = {}

\* What the other requests know of a step that r takes to step s.
Moves(r, s) ==
    /\ StepsTo(r, s)
    /\ MetGrows /\ Changes(r)
    /\ \A q \in Request : step'[q] = IF q = r THEN s ELSE step[q]
    /\ \A q \in Open' \ {r} :
          q \in Open /\ mem'[q] = mem[q] /\ r \in met'[q] /\ q \in met'[r]

LEMMA SaveStep ==
    ASSUME NEW Columns, NEW Reading, NEW Writing, UnderWay(Reading, Writing),
           SaveInv(Columns, Reading, Writing),
           NEW r \in Request, NEW s, s # "idle", StepsTo(r, s), Begins(r) \/ GoesOn(r),
           ColumnInv(Columns)', Changes(r), Keeps(Columns, Reading, Writing, r)'
    PROVE  SaveInv(Columns, Reading, Writing)' /\ Moves(r, s)
<1>1. HoldInv /\ MetInv /\ ColumnInv(Columns) /\ OverwrittenOnlyByOverlap
  BY DEF SaveInv, SharedInv
<1>2. /\ HoldInv' /\ MetInv'
      /\ MetGrows
      /\ \A q \in Request : step'[q] = IF q = r THEN s ELSE step[q]
      /\ \A q \in Open' \ {r} : q \in Open /\ mem'[q] = mem[q]
      /\ \A q \in Open \ {r} : r \in met'[q] /\ q \in met'[r]
  BY <1>1, OpenStep DEF MetGrows
<1>3. OverwrittenOnlyByOverlap'
  BY <1>1, <1>2, OverwrittenStays
<1>4. ASSUME NEW q \in Request, q # r
      PROVE  Keeps(Columns, Reading, Writing, q)'
  <2>1. step'[q] = step[q]
    BY <1>2, <1>4
  <2>2. CASE step[q] \notin Reading \cup Writing
    BY <2>1, <2>2 DEF Keeps
  <2>3. CASE step[q] \in Reading \cup Writing
    <3>1. q \in Open' \ {r} /\ q \in Open \ {r}
      BY <1>4, <2>1, <2>3 DEF Open, Ended, UnderWay
    <3>2. mem'[q] = mem[q] /\ r \in met'[q] /\ q \in met'[r]
      BY <1>2, <3>1
    <3>3. Keeps(Columns, Reading, Writing, q)
      BY DEF SaveInv
    <3>4. step[q] \in Reading => Holds(Columns, q)'
      BY <1>1, <1>2, <3>2, <3>3, HoldsStays DEF Keeps
    <3>5. step[q] \in Writing => Compared(Columns, q)'
      BY <1>1, <1>2, <3>2, <3>3, ComparedStays DEF Keeps
    <3> QED BY <2>1, <3>4, <3>5 DEF Keeps
  <2> QED BY <2>2, <2>3
<1>5. SaveInv(Columns, Reading, Writing)'
  BY <1>2, <1>3, <1>4 DEF SaveInv, SharedInv
<1> QED BY <1>2, <1>5 DEF Moves

\* A request that begins or goes on, with what its statement changed, and is
\* not about to save.
LEMMA BeginStep ==
    ASSUME NEW Columns, NEW Reading, NEW Writing, UnderWay(Reading, Writing),
           SaveInv(Columns, Reading, Writing),
           NEW r \in Request, NEW s, NEW m, s \notin {"idle"} \cup Reading \cup Writing,
           Begin(r, s, m), ColumnInv(Columns)', Changes(r)
    PROVE  SaveInv(Columns, Reading, Writing)' /\ Moves(r, s) /\ mem'[r] = Memory(m)
<1>1. HoldInv
  BY DEF SaveInv, SharedInv
<1>2. StepsTo(r, s) /\ Begins(r) /\ mem'[r] = Memory(m)
  BY <1>1, BeginSteps
<1>3. step'[r] = s
  BY <1>1, <1>2 DEF HoldInv, StepsTo
<1>4. Keeps(Columns, Reading, Writing, r)'
  BY <1>3 DEF Keeps
<1> QED BY <1>2, <1>4, SaveStep

LEMMA GoStep ==
    ASSUME NEW Columns, NEW Reading, NEW Writing, UnderWay(Reading, Writing),
           SaveInv(Columns, Reading, Writing),
           NEW r \in Open, NEW s, NEW m, s \notin {"idle"} \cup Reading \cup Writing,
           Goto(r, s, m), ColumnInv(Columns)', Changes(r)
    PROVE  /\ SaveInv(Columns, Reading, Writing)' /\ Moves(r, s)
           /\ mem'[r] = IF s \in Ended THEN NoMem ELSE Over(m, mem[r])
<1>1. HoldInv /\ r \in Request
  BY DEF SaveInv, SharedInv, Open
<1>2. StepsTo(r, s) /\ GoesOn(r) /\ mem'[r] = IF s \in Ended THEN NoMem ELSE Over(m, mem[r])
  BY <1>1, GotoSteps DEF GoesOn
<1>3. step'[r] = s
  BY <1>1, <1>2 DEF HoldInv, StepsTo
<1>4. Keeps(Columns, Reading, Writing, r)'
  BY <1>3 DEF Keeps
<1> QED BY <1>1, <1>2, <1>4, SaveStep

\* Nothing but a read.
LEMMA BeginReads ==
    ASSUME NEW Columns, NEW Reading, NEW Writing, UnderWay(Reading, Writing),
           SaveInv(Columns, Reading, Writing),
           NEW r \in Request, NEW s, NEW m, s \notin {"idle"} \cup Reading \cup Writing,
           Begin(r, s, m), UNCHANGED <<db, hist>>
    PROVE  SaveInv(Columns, Reading, Writing)' /\ Moves(r, s) /\ mem'[r] = Memory(m)
<1>1. ColumnInv(Columns)
  BY DEF SaveInv, SharedInv
<1>2. ColumnInv(Columns)' /\ Changes(r)
  BY <1>1, NothingWritten
<1> QED BY <1>2, BeginStep

LEMMA GoReads ==
    ASSUME NEW Columns, NEW Reading, NEW Writing, UnderWay(Reading, Writing),
           SaveInv(Columns, Reading, Writing),
           NEW r \in Open, NEW s, NEW m, s \notin {"idle"} \cup Reading \cup Writing,
           Goto(r, s, m), UNCHANGED <<db, hist>>
    PROVE  /\ SaveInv(Columns, Reading, Writing)' /\ Moves(r, s)
           /\ mem'[r] = IF s \in Ended THEN NoMem ELSE Over(m, mem[r])
<1>1. ColumnInv(Columns)
  BY DEF SaveInv, SharedInv
<1>2. ColumnInv(Columns)' /\ Changes(r)
  BY <1>1, NothingWritten
<1> QED BY <1>2, GoStep

\* What r knows of rows stays true while nothing is written.
LEMMA KnowsYet ==
    ASSUME NEW Columns, ColumnInv(Columns), MetGrows, UNCHANGED <<db, hist>>,
           NEW r, NEW rows, NEW meant, Knows(Columns, r, rows, meant)
    PROVE  Knows(Columns, r, rows, meant)'
<1> SUFFICES ASSUME NEW k \in DOMAIN rows, k \in DOMAIN hist
             PROVE  Fits(Columns, k, rows[k])' /\ Fresh(r, k, rows[k], meant)'
  BY DEF Knows
<1>1. Fits(Columns, k, rows[k]) /\ Fresh(r, k, rows[k], meant)
  BY DEF Knows
<1>2. ASSUME NEW c \in DOMAIN hist[k], LinkedTo(k, c, r)
      PROVE  LinkedTo(k, c, r)'
  <2>1. hist[k][c].by \in Request /\ Linked(hist[k][c].by, r)
    BY <1>2 DEF LinkedTo, ColumnInv, Schema
  <2>2. PICK p \in Request : p = hist[k][c].by
    BY <2>1
  <2>3. Linked(p, r)'
    BY <2>1, <2>2, LinkedStays DEF MetGrows
  <2> QED BY <1>2, <2>2, <2>3 DEF LinkedTo
<1>3. Fresh(r, k, rows[k], meant)'
  BY <1>1, <1>2 DEF Fresh
<1> QED BY <1>1, <1>3 DEF Fits, ForeignColumns

\* What is compared with the tables now.
LEMMA ComparedNow ==
    ASSUME NEW Columns, ColumnInv(Columns), MetGrows, UNCHANGED <<db, hist>>,
           NEW r, NEW rows, NEW meant, Knows(Columns, r, rows, meant),
           mem'[r].rows = rows, mem'[r].meant = meant, mem'[r].dirty = DirtyOf(rows)
    PROVE  Compared(Columns, r)'
<1>1. Knows(Columns, r, rows, meant)'
  BY KnowsYet
<1>2. PICK dirty : dirty = DirtyOf(rows)
  OBVIOUS
<1>3. /\ DOMAIN dirty = DOMAIN rows \cap DOMAIN db
      /\ \A k \in DOMAIN dirty : dirty[k] = {c \in DOMAIN rows[k] : rows[k][c] # db[k][c]}
  BY <1>2 DEF DirtyOf
<1>4. ASSUME NEW k \in DOMAIN rows, k \in DOMAIN hist, NEW c \in DOMAIN hist[k]
      PROVE  Differs(r, k, c)'
  <2>1. Fresh(r, k, rows[k], meant)'
    BY <1>1, <1>4 DEF Knows
  <2>2. \/ c \in meant
        \/ k \in DOMAIN db /\ (c \in DOMAIN rows[k] => rows[k][c] = db[k][c])
        \/ LinkedTo(k, c, r)'
    BY <1>4, <2>1 DEF Fresh
  <2> QED BY <1>2, <1>3, <2>2 DEF Differs
<1>5. \A k \in DOMAIN rows : Fits(Columns, k, rows[k])'
  BY <1>1 DEF Knows
<1> QED BY <1>2, <1>3, <1>4, <1>5 DEF Compared

\* A request begins, or goes on, with rows to save.
LEMMA BeginSaves ==
    ASSUME NEW Columns, NEW Reading, NEW Writing, UnderWay(Reading, Writing),
           SaveInv(Columns, Reading, Writing),
           NEW r \in Request, NEW s \in Reading, NEW m, Begin(r, s, m), UNCHANGED <<db, hist>>,
           Knows(Columns, r, Memory(m).rows, Memory(m).meant)
    PROVE  SaveInv(Columns, Reading, Writing)' /\ Moves(r, s) /\ mem'[r] = Memory(m)
<1>1. HoldInv /\ MetInv /\ ColumnInv(Columns)
  BY DEF SaveInv, SharedInv
<1>2. StepsTo(r, s) /\ Begins(r) /\ mem'[r] = Memory(m)
  BY <1>1, BeginSteps
<1>3. step'[r] = s /\ s # "idle" /\ s \notin Writing
  BY <1>1, <1>2 DEF HoldInv, StepsTo, UnderWay
<1>4. MetGrows
  BY <1>1, <1>2, <1>3, OpenStep DEF MetGrows
<1>5. ColumnInv(Columns)' /\ Changes(r)
  BY <1>1, NothingWritten
<1>6. mem'[r].rows = Memory(m).rows /\ mem'[r].meant = Memory(m).meant
  BY <1>2
<1>7. PICK rows, meant : rows = Memory(m).rows /\ meant = Memory(m).meant
  OBVIOUS
<1>8. Knows(Columns, r, rows, meant)'
  BY <1>1, <1>4, <1>7, KnowsYet
<1>9. Holds(Columns, r)'
  BY <1>6, <1>7, <1>8 DEF Holds
<1>10. Keeps(Columns, Reading, Writing, r)'
  BY <1>3, <1>9 DEF Keeps
<1> QED BY <1>2, <1>3, <1>5, <1>10, SaveStep

LEMMA GoSaves ==
    ASSUME NEW Columns, NEW Reading, NEW Writing, UnderWay(Reading, Writing),
           SaveInv(Columns, Reading, Writing),
           NEW r \in Open, NEW s \in Reading, NEW m, Goto(r, s, m), UNCHANGED <<db, hist>>,
           Knows(Columns, r, Over(m, mem[r]).rows, Over(m, mem[r]).meant)
    PROVE  SaveInv(Columns, Reading, Writing)' /\ Moves(r, s) /\ mem'[r] = Over(m, mem[r])
<1>1. HoldInv /\ MetInv /\ ColumnInv(Columns) /\ r \in Request
  BY DEF SaveInv, SharedInv, Open
<1>2. StepsTo(r, s) /\ GoesOn(r) /\ mem'[r] = Over(m, mem[r])
  BY <1>1, GotoSteps DEF GoesOn, UnderWay, Ended
<1>3. step'[r] = s /\ s # "idle" /\ s \notin Writing
  BY <1>1, <1>2 DEF HoldInv, StepsTo, UnderWay
<1>4. MetGrows
  BY <1>2 DEF MetGrows, GoesOn
<1>5. ColumnInv(Columns)' /\ Changes(r)
  BY <1>1, NothingWritten
<1>6. PICK rows, meant : rows = Over(m, mem[r]).rows /\ meant = Over(m, mem[r]).meant
  OBVIOUS
<1>7. Knows(Columns, r, rows, meant)'
  BY <1>1, <1>4, <1>6, KnowsYet
<1>8. Holds(Columns, r)'
  BY <1>2, <1>6, <1>7 DEF Holds
<1>9. Keeps(Columns, Reading, Writing, r)'
  BY <1>3, <1>8 DEF Keeps
<1> QED BY <1>1, <1>2, <1>3, <1>5, <1>9, SaveStep

\* A request compares what it holds, or what it has just put together.
LEMMA GoCompares ==
    ASSUME NEW Columns, NEW Reading, NEW Writing, UnderWay(Reading, Writing),
           SaveInv(Columns, Reading, Writing),
           NEW r \in Open, NEW s \in Writing, NEW m, Goto(r, s, m), UNCHANGED <<db, hist>>,
           NEW rows, NEW meant, Knows(Columns, r, rows, meant),
           Over(m, mem[r]).rows = rows, Over(m, mem[r]).meant = meant,
           Over(m, mem[r]).dirty = DirtyOf(rows)
    PROVE  SaveInv(Columns, Reading, Writing)' /\ Moves(r, s) /\ mem'[r] = Over(m, mem[r])
<1>1. HoldInv /\ MetInv /\ ColumnInv(Columns) /\ r \in Request
  BY DEF SaveInv, SharedInv, Open
<1>2. StepsTo(r, s) /\ GoesOn(r) /\ mem'[r] = Over(m, mem[r])
  BY <1>1, GotoSteps DEF GoesOn, UnderWay, Ended
<1>3. step'[r] = s /\ s # "idle" /\ s \notin Reading
  BY <1>1, <1>2 DEF HoldInv, StepsTo, UnderWay
<1>4. MetGrows
  BY <1>2 DEF MetGrows, GoesOn
<1>5. ColumnInv(Columns)' /\ Changes(r)
  BY <1>1, NothingWritten
<1>6. Compared(Columns, r)'
  BY <1>1, <1>2, <1>4, ComparedNow
<1>7. Keeps(Columns, Reading, Writing, r)'
  BY <1>3, <1>6 DEF Keeps
<1> QED BY <1>1, <1>2, <1>3, <1>5, <1>7, SaveStep

LEMMA ReloadStep ==
    ASSUME NEW Columns, NEW Reading, NEW Writing, UnderWay(Reading, Writing),
           SaveInv(Columns, Reading, Writing),
           NEW r \in Request, step[r] \in Reading, NEW s \in Writing, Reload(r, s)
    PROVE  /\ SaveInv(Columns, Reading, Writing)' /\ Moves(r, s)
           /\ mem'[r] = Over([dirty |-> DirtyOf(mem[r].rows)], mem[r])
<1> DEFINE m == [dirty |-> DirtyOf(mem[r].rows)]
<1>1. r \in Open
  BY DEF Open, UnderWay, Ended
<1>2. Goto(r, s, m) /\ UNCHANGED <<db, hist>>
  BY DEF Reload, Reads
<1>3. Knows(Columns, r, mem[r].rows, mem[r].meant)
  BY DEF SaveInv, Keeps, Holds
<1>4. DOMAIN NoMem \subseteq DOMAIN mem[r]
  BY DEF SaveInv, SharedInv, HoldInv
<1>5. /\ Over(m, mem[r]).rows = mem[r].rows /\ Over(m, mem[r]).meant = mem[r].meant
      /\ Over(m, mem[r]).dirty = DirtyOf(mem[r].rows)
  BY <1>4 DEF Over, NoMem
<1> QED BY <1>1, <1>2, <1>3, <1>5, GoCompares

-----------------------------------------------------------------------------
(* Statements in the middle of a request.                                  *)

LEMMA WriteStep ==
    ASSUME NEW Columns, NEW Reading, NEW Writing, UnderWay(Reading, Writing),
           SaveInv(Columns, Reading, Writing),
           \A f \in References : f.column \in Columns[f.table],
           NEW r \in Request, step[r] \in Writing,
           NEW s, NEW m, s \notin {"idle"} \cup Reading \cup Writing, Write(r, s, m)
    PROVE  /\ SaveInv(Columns, Reading, Writing)'
           /\ \/ /\ Moves(r, s)
                 /\ mem'[r] = IF s \in Ended THEN NoMem ELSE Over(m, mem[r])
              \/ Moves(r, "error")
<1>1. r \in Open /\ "error" \notin {"idle"} \cup Reading \cup Writing
  BY DEF Open, UnderWay, Ended
<1>2. ColumnInv(Columns) /\ Compared(Columns, r)
  BY DEF SaveInv, SharedInv, Keeps
<1>3. ColumnInv(Columns)' /\ Changes(r)
  BY <1>2, WriteChange
<1>4. Goto(r, s, m) \/ Goto(r, "error", NoMem)
  BY DEF Write, Reads
<1>5. CASE Goto(r, s, m)
  BY <1>1, <1>3, <1>5, GoStep
<1>6. CASE Goto(r, "error", NoMem)
  BY <1>1, <1>3, <1>6, GoStep
<1> QED BY <1>4, <1>5, <1>6

LEMMA InsertThenStep ==
    ASSUME NEW Columns, NEW Reading, NEW Writing, UnderWay(Reading, Writing),
           SaveInv(Columns, Reading, Writing),
           NEW r \in Open, NEW rows, Schema(Columns, rows),
           NEW s, NEW m, s \notin {"idle"} \cup Reading \cup Writing, InsertThen(r, rows, s, m)
    PROVE  /\ SaveInv(Columns, Reading, Writing)'
           /\ \/ /\ Moves(r, s)
                 /\ mem'[r] = IF s \in Ended THEN NoMem ELSE Over(m, mem[r])
              \/ Moves(r, "error")
<1>1. r \in Request /\ "error" \notin {"idle"} \cup Reading \cup Writing
  BY DEF Open, UnderWay
<1>2. CASE Inserts(r, rows) /\ Goto(r, s, m)
  <2>1. ColumnInv(Columns)
    BY DEF SaveInv, SharedInv
  <2>2. ColumnInv(Columns)' /\ Changes(r)
    BY <1>1, <1>2, <2>1, InsertsChange
  <2> QED BY <1>2, <2>2, GoStep
<1>3. CASE Reads(r, "error", NoMem)
  BY <1>1, <1>3, GoReads DEF Reads
<1> QED BY <1>2, <1>3 DEF InsertThen

LEMMA RemoveThenStep ==
    ASSUME NEW Columns, NEW Reading, NEW Writing, UnderWay(Reading, Writing),
           SaveInv(Columns, Reading, Writing),
           NEW r \in Open, NEW keys \in SUBSET DOMAIN db,
           NEW s, NEW m, s \notin {"idle"} \cup Reading \cup Writing, RemoveThen(r, keys, s, m)
    PROVE  /\ SaveInv(Columns, Reading, Writing)'
           /\ \/ /\ Moves(r, s)
                 /\ mem'[r] = IF s \in Ended THEN NoMem ELSE Over(m, mem[r])
              \/ Moves(r, "error")
<1>1. r \in Request /\ "error" \notin {"idle"} \cup Reading \cup Writing
  BY DEF Open, UnderWay
<1>2. CASE Removes(r, keys) /\ Goto(r, s, m)
  <2>1. ColumnInv(Columns)
    BY DEF SaveInv, SharedInv
  <2>2. ColumnInv(Columns)' /\ Changes(r)
    BY <1>1, <1>2, <2>1, RemovesChange
  <2> QED BY <1>2, <2>2, GoStep
<1>3. CASE Reads(r, "error", NoMem)
  BY <1>1, <1>3, GoReads DEF Reads
<1> QED BY <1>2, <1>3 DEF RemoveThen

\* No step of a request: the tables, and what requests hold, stay.
LEMMA SameStep ==
    ASSUME NEW Columns, NEW Reading, NEW Writing, SaveInv(Columns, Reading, Writing),
           UNCHANGED <<db, step, mem, met, hist>>
    PROVE  SaveInv(Columns, Reading, Writing)'
<1>1. HoldInv' /\ MetInv'
  BY DEF SaveInv, SharedInv, HoldInv, MetInv, Open
<1>2. ColumnInv(Columns)'
  BY DEF SaveInv, SharedInv, ColumnInv, Schema
<1>3. OverwrittenOnlyByOverlap'
  BY DEF SaveInv, SharedInv, OverwrittenOnlyByOverlap, Linked
<1>4. \A r \in Request : Keeps(Columns, Reading, Writing, r)'
  BY DEF SaveInv, Keeps, Holds, Knows, Fits, Fresh, LinkedTo, Linked, Compared, Differs,
         ForeignColumns
<1> QED BY <1>1, <1>2, <1>3, <1>4 DEF SaveInv, SharedInv

\* Rows as first found.
LEMMA SaveInit ==
    ASSUME NEW Columns, NEW Reading, NEW Writing, UnderWay(Reading, Writing),
           NEW rows, Schema(Columns, rows), TablesInit(rows)
    PROVE  SaveInv(Columns, Reading, Writing)
<1>1. \A r \in Request : step[r] = "idle" /\ mem[r] = NoMem /\ met[r] = {}
  BY DEF TablesInit
<1>2. HoldInv /\ MetInv
  BY <1>1 DEF TablesInit, HoldInv, MetInv, Open
<1>3. ASSUME NEW k \in DOMAIN rows
      PROVE  /\ DOMAIN hist[k] = DOMAIN rows[k]
             /\ \A c \in DOMAIN rows[k] : hist[k][c].by = Null /\ hist[k][c].val = rows[k][c]
  BY DEF TablesInit
<1>4. db = rows /\ DOMAIN hist = DOMAIN rows
  BY DEF TablesInit
<1>5. ColumnInv(Columns)
  BY <1>3, <1>4 DEF ColumnInv, Schema
<1>6. OverwrittenOnlyByOverlap
  BY <1>3, <1>4 DEF OverwrittenOnlyByOverlap
<1>7. \A r \in Request : Keeps(Columns, Reading, Writing, r)
  BY <1>1 DEF Keeps, UnderWay
<1> QED BY <1>2, <1>5, <1>6, <1>7 DEF SaveInv, SharedInv

\* The rows found under these ids are in the tables.
LEMMA IdsKeys ==
    ASSUME NEW Columns, ColumnInv(Columns), NEW t, NEW ids, ids \subseteq Ids(t)
    PROVE  {t} \X ids \subseteq DOMAIN db
<1> SUFFICES ASSUME NEW i \in ids
             PROVE  <<t, i>> \in DOMAIN db
  OBVIOUS
<1>1. PICK k \in DOMAIN db : k[1] = t /\ k[2] = i
  BY DEF Ids
<1>2. k = <<k[1], k[2]>>
  BY DEF ColumnInv, Schema
<1> QED BY <1>1, <1>2

LEMMA LiveKey ==
    ASSUME NEW Columns, ColumnInv(Columns), NEW t, NEW i \in Live(t)
    PROVE  /\ <<t, i>> \in DOMAIN db /\ Row(t, i) = db[<<t, i>>]
           /\ DOMAIN Row(t, i) = Columns[t]
<1>1. {t} \X {i} \subseteq DOMAIN db
  BY IdsKeys DEF Live
<1>2. <<t, i>> \in DOMAIN db
  BY <1>1
<1> QED BY <1>2 DEF Row, ColumnInv, Schema

-----------------------------------------------------------------------------
(* What a statement leaves in the tables.                                  *)

\* A column that a row in memory does not have is NULL once it is inserted.
ColumnOf(row, c) == IF c \in DOMAIN row THEN row[c] ELSE Null

\* A column of a row is what it was, or what rows hold of it.
Puts(Columns, rows) ==
    \A k \in DOMAIN db' :
       /\ k \in DOMAIN db \cup DOMAIN rows
       /\ \A c \in Columns[k[1]] :
             \/ k \in DOMAIN db /\ db'[k][c] = db[k][c]
             \/ k \in DOMAIN rows /\ db'[k][c] = ColumnOf(rows[k], c)

\* Every row refers to rows there are.
ReferencesInv == KeysHold(db, DOMAIN db)

\* Requests that are not under way hold nothing.
AtRestInv ==
    /\ \A r \in Request : step[r] \in {"idle"} \cup Ended => mem[r] = NoMem
    /\ faults \in 0..MaxFaults

LEMMA ColumnOver ==
    ASSUME NEW f, NEW g, NEW c
    PROVE  ColumnOf(Over(f, g), c) = IF c \in DOMAIN f THEN f[c] ELSE ColumnOf(g, c)
BY DEF ColumnOf, Over

\* Tables that grew, or changed, under keys that were looked at.
LEMMA ReferencesStay ==
    ASSUME ReferencesInv, NEW keys, DOMAIN db \subseteq DOMAIN db',
           \A k \in DOMAIN db' \ keys : k \in DOMAIN db /\ db'[k] = db[k],
           KeysHold(db', keys)
    PROVE  ReferencesInv'
<1> SUFFICES ASSUME NEW f \in References, NEW k \in DOMAIN db', k[1] = f.table
             PROVE  \/ db'[k][f.column] = Null /\ f.optional
                    \/ <<f.target, db'[k][f.column]>> \in DOMAIN db'
  BY DEF ReferencesInv, KeysHold
<1>1. CASE k \in keys
  BY <1>1 DEF KeysHold
<1>2. CASE k \notin keys
  BY <1>2 DEF ReferencesInv, KeysHold
<1> QED BY <1>1, <1>2

LEMMA InsertsPut ==
    ASSUME NEW Columns, ColumnInv(Columns)', ReferencesInv, NEW r, NEW rows, Inserts(r, rows)
    PROVE  ReferencesInv' /\ Puts(Columns, rows) /\ UNCHANGED faults
<1>1. db' = Over(rows, db) /\ UNCHANGED faults /\ KeysHold(Over(rows, db), DOMAIN rows)
  BY DEF Inserts, Record, Accepts
<1>2. /\ DOMAIN db' = DOMAIN rows \cup DOMAIN db
      /\ \A k \in DOMAIN rows : db'[k] = rows[k]
      /\ \A k \in DOMAIN db \ DOMAIN rows : db'[k] = db[k]
  BY <1>1 DEF Over
<1>3. ReferencesInv'
  BY <1>1, <1>2, ReferencesStay
<1>4. \A k \in DOMAIN db' : DOMAIN db'[k] = Columns[k[1]]
  BY DEF ColumnInv, Schema
<1> QED BY <1>1, <1>2, <1>3, <1>4 DEF Puts, ColumnOf

LEMMA UpdatesPut ==
    ASSUME NEW Columns, ColumnInv(Columns)', ReferencesInv, NEW r, NEW keys, NEW values,
           Updates(r, keys, values)
    PROVE  /\ ReferencesInv' /\ UNCHANGED faults
           /\ Puts(Columns, [k \in keys \cap DOMAIN db |-> Over(values, db[k])])
<1> DEFINE found == keys \cap DOMAIN db
           changed == [k \in found |-> Over(values, db[k])]
<1>1. /\ db' = Over(changed, db) /\ UNCHANGED faults
      /\ KeysHold(Over(changed, db), found)
  BY DEF Updates, Record, Accepts
<1>2. /\ DOMAIN changed = found
      /\ \A k \in found : changed[k] = Over(values, db[k])
  OBVIOUS
<1> HIDE DEF changed
<1>3. /\ DOMAIN db' = DOMAIN db
      /\ \A k \in found : db'[k] = changed[k]
      /\ \A k \in DOMAIN db \ found : db'[k] = db[k]
  BY <1>1, <1>2 DEF Over
<1>4. ReferencesInv'
  <2> HIDE DEF found
  <2> QED BY <1>1, <1>3, ReferencesStay
<1>5. \A k \in DOMAIN db' : DOMAIN db'[k] = Columns[k[1]]
  BY DEF ColumnInv, Schema
<1>6. Puts(Columns, changed)
  <2> HIDE DEF found
  <2> QED BY <1>2, <1>3, <1>5 DEF Puts, ColumnOf
<1> QED BY <1>1, <1>4, <1>6 DEF changed

LEMMA RemovesPut ==
    ASSUME NEW Columns, NEW r, NEW keys, Removes(r, keys)
    PROVE  ReferencesInv' /\ Puts(Columns, db) /\ UNCHANGED faults
<1> DEFINE rest == DOMAIN db \ Removal(keys)
<1>1. db' = Only(db, rest) /\ UNCHANGED faults /\ KeysHold(Only(db, rest), rest)
  BY DEF Removes, RemovalAccepted, Record
<1>2. DOMAIN db' = rest /\ \A k \in rest : db'[k] = db[k]
  BY <1>1 DEF Only
<1>3. ReferencesInv'
  BY <1>1, <1>2 DEF ReferencesInv
<1> QED BY <1>1, <1>2, <1>3 DEF Puts

LEMMA ReadsPut ==
    ASSUME NEW Columns, ReferencesInv, UNCHANGED db
    PROVE  ReferencesInv' /\ Puts(Columns, db)
BY DEF ReferencesInv, KeysHold, Puts

LEMMA WritesPut ==
    ASSUME NEW Columns, ColumnInv(Columns), ReferencesInv,
           \A f \in References : f.column \in Columns[f.table],
           NEW r \in Request, Compared(Columns, r), NEW s, NEW m, Write(r, s, m)
    PROVE  ReferencesInv' /\ Puts(Columns, mem[r].rows) /\ UNCHANGED faults
<1>1. CASE ~WriteAccepted(r)
  <2>1. Reads(r, "error", NoMem)
    BY <1>1 DEF Write
  <2> QED BY <2>1 DEF Reads, ReferencesInv, KeysHold, Puts
<1>2. CASE WriteAccepted(r)
  <2> DEFINE rows == mem[r].rows
             dirty == mem[r].dirty
             after == AfterWrite(r)
             new == DOMAIN rows \ DOMAIN dirty
  <2>1. db' = after /\ UNCHANGED faults
    BY <1>2 DEF Write, Record
  <2>2. /\ DOMAIN after = DOMAIN db \cup (DOMAIN rows \ DOMAIN dirty)
        /\ \A k \in DOMAIN after : DOMAIN after[k] = Columns[k[1]]
        /\ \A k \in DOMAIN rows \ DOMAIN dirty :
             k \notin DOMAIN db /\ \A c \in DOMAIN rows[k] : after[k][c] = rows[k][c]
        /\ \A k \in DOMAIN db : k \notin DOMAIN rows => after[k] = db[k]
        /\ \A k \in DOMAIN db \cap DOMAIN rows : \A c \in Columns[k[1]] :
             after[k][c] = IF c \in dirty[k] THEN rows[k][c] ELSE db[k][c]
    BY ONLY ColumnInv(Columns), \A f \in References : f.column \in Columns[f.table],
       r \in Request, Compared(Columns, r), <1>2, AfterWriteRows
  <2>3. ASSUME NEW k \in new
        PROVE  after[k] = Inserted(k, rows[k])
    <3> DEFINE old == {j \in DOMAIN rows \ new : j \in DOMAIN db}
               changed == [j \in old |-> Over(Only(rows[j], dirty[j]), db[j])]
               added == [j \in new |-> Inserted(j, rows[j])]
    <3>1. after = Over(added, Over(changed, db))
      BY DEF AfterWrite
    <3>2. k \in DOMAIN added /\ added[k] = Inserted(k, rows[k])
      OBVIOUS
    <3> HIDE DEF added, changed, after
    <3> QED BY <3>1, <3>2 DEF Over
  <2>4. KeysHold(after, DOMAIN rows \cap DOMAIN after)
    BY <1>2 DEF WriteAccepted, Accepts
  <2> HIDE DEF after
  <2>5. ReferencesInv'
    <3> DEFINE keys == DOMAIN rows \cap DOMAIN after
    <3>1. DOMAIN db \subseteq DOMAIN db' /\ KeysHold(db', keys)
      BY <2>1, <2>2, <2>4
    <3>2. \A k \in DOMAIN db' \ keys : k \in DOMAIN db /\ db'[k] = db[k]
      BY <2>1, <2>2
    <3> HIDE DEF keys
    <3> QED BY <3>1, <3>2, ReferencesStay
  <2>6. ASSUME NEW k \in new, NEW c \in Columns[k[1]]
        PROVE  after[k][c] = ColumnOf(rows[k], c)
    <3>1. c \in DOMAIN after[k] /\ after[k] = Inserted(k, rows[k])
      BY <2>2, <2>3
    <3> QED BY <3>1 DEF Inserted, Over, ColumnOf
  <2>7. ASSUME NEW k \in DOMAIN db \cap DOMAIN rows, NEW c \in Columns[k[1]]
        PROVE  after[k][c] = db[k][c] \/ after[k][c] = ColumnOf(rows[k], c)
    <3>1. k \in DOMAIN dirty /\ dirty[k] \subseteq DOMAIN rows[k]
      BY <2>2 DEF Compared
    <3> QED BY <2>2, <3>1 DEF ColumnOf
  <2> QED BY <2>1, <2>2, <2>5, <2>6, <2>7 DEF Puts
<1> QED BY <1>1, <1>2

\* What a request holds at its next step.
LEMMA RestStays ==
    ASSUME HoldInv, AtRestInv, NEW r \in Request, NEW s, StepsTo(r, s),
           s \in {"idle"} \cup Ended => mem'[r] = NoMem, faults' \in 0..MaxFaults
    PROVE  AtRestInv'
<1> SUFFICES ASSUME NEW q \in Request, step'[q] \in {"idle"} \cup Ended
             PROVE  mem'[q] = NoMem
  BY DEF AtRestInv
<1>1. step'[q] = IF q = r THEN s ELSE step[q]
  BY DEF StepsTo, HoldInv
<1>2. q # r => mem'[q] = mem[q]
  BY DEF StepsTo
<1> QED BY <1>1, <1>2 DEF AtRestInv

\* What the tables, the requests and the history have in common.
LEMMA TablesTyped ==
    ASSUME NEW Columns, ColumnInv(Columns), MetInv, AtRestInv,
           \A k \in DOMAIN db : db[k].at \in {"live", "deleted"}
    PROVE  TablesTypeOK
<1>1. DOMAIN db \subseteq DOMAIN hist
  BY DEF ColumnInv
<1>2. \A k \in DOMAIN db : DOMAIN db[k] \subseteq DOMAIN hist[k]
  BY <1>1 DEF ColumnInv, Schema
<1>3. \A r \in Request : met[r] \subseteq Request \ {r} /\ \A q \in met[r] : r \in met[q]
  BY DEF MetInv
<1> QED BY <1>1, <1>2, <1>3 DEF TablesTypeOK, AtRestInv

\* A key that a row of the tables holds.
LEMMA Referred ==
    ASSUME NEW Columns, ColumnInv(Columns), ReferencesInv, NEW f \in References,
           NEW i \in Ids(f.table)
    PROVE  \/ Row(f.table, i)[f.column] = Null /\ f.optional
           \/ Row(f.table, i)[f.column] \in Ids(f.target)
<1> DEFINE k == <<f.table, i>>
<1>1. k \in DOMAIN db /\ k[1] = f.table
  BY DEF Ids, ColumnInv, Schema
<1>2. Row(f.table, i) = db[k]
  BY DEF Row
<1> HIDE DEF k
<1>3. \/ db[k][f.column] = Null /\ f.optional
      \/ <<f.target, db[k][f.column]>> \in DOMAIN db
  BY <1>1 DEF ReferencesInv, KeysHold
<1>4. PICK v : v = db[k][f.column]
  OBVIOUS
<1>5. <<f.target, v>> \in DOMAIN db => v \in Ids(f.target)
  BY DEF Ids
<1> QED BY <1>2, <1>3, <1>4, <1>5

=============================================================================
