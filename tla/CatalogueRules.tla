---------------------------- MODULE CatalogueRules ----------------------------
(***************************************************************************)
(* What the catalogue's services look up before they write, and hold to no *)
(* longer than that: one row of opening hours for a store and a day, one   *)
(* live discount for a code.  Two rows that break such a rule come from    *)
(* requests that overlapped, for any number of requests, rows and bodies.  *)
(* A request that looked and found nothing knows for as long as it is open *)
(* that what breaks the rule since was written by one it overlaps; that is *)
(* the invariant, one for each rule, beside what a step leaves as it was.  *)
(* The last part is about what a deletion leaves of the children: who may  *)
(* yet write a child of a deleted parent overlapped the deletion.          *)
(***************************************************************************)
EXTENDS CatalogueProofs

\* The tables of the rows that a request is to save at step s.
SavedTables(s) ==
    IF s \in {"entity.reload", "product.check"} THEN {"category", "product"}
    ELSE IF s = "entity.write" THEN {"category", "product", "group"}
    ELSE IF s \in {"links.reload", "links.write"} THEN {"link"}
    ELSE IF s \in {"hours.reload", "hours.write"} THEN {"hours"}
    ELSE {"discount"}

\* The rows that a request is to save, or to mark, are of the tables they
\* should be of.
Carrying == PlainReading \cup PlainWriting \cup {"mark"}
RowsHeld(r) ==
    /\ step[r] \in PlainReading \cup PlainWriting =>
          \A k \in DOMAIN mem[r].rows : k[1] \in SavedTables(step[r])
    /\ step[r] = "mark" => mem[r].dto[1] \in {"category", "product"}
RowsInv == \A r \in Request : RowsHeld(r)

-----------------------------------------------------------------------------
(* One row of opening hours for a store and a day.                         *)

HoursKey(j) == <<"hours", j>>

\* Request j inserted the row, and nobody has asked since for another store
\* or day, or for its removal.
OwnDay(j) ==
    /\ HoursKey(j) \in DOMAIN hist
    /\ \A c \in {"store", "day"} : hist[HoursKey(j)][c].by = j

HoursNamed ==
    /\ HoursKey(Null) \notin DOMAIN hist
    /\ \A j \in Request : HoursKey(j) \in DOMAIN hist => step[j] \in Ended
OwnLive ==
    \A j \in Request : OwnDay(j) => HoursKey(j) \in DOMAIN db /\ db[HoursKey(j)].at = "live"
DaysApart ==
    \A i, j \in Request :
        (/\ i # j /\ OwnDay(i) /\ OwnDay(j)
         /\ \A c \in {"store", "day"} : db[HoursKey(i)][c] = db[HoursKey(j)][c])
            => i \in met[j]

\* What POST and PATCH hold of such a row, and what POST found missing.
HoursTold(r) ==
    LET dto == mem[r].dto
        rows == mem[r].rows
        meant == mem[r].meant
    IN  /\ step[r] = "hours.preload" => "at" \notin DOMAIN dto.values
        /\ step[r] \in {"hours.reload", "hours.write"} =>
              /\ "at" \notin meant /\ \A k \in DOMAIN rows : meant \subseteq DOMAIN rows[k]
              /\ \A j \in Request : HoursKey(j) \in DOMAIN rows /\ OwnDay(j) =>
                    \A c \in {"at", "store", "day"} \ meant :
                        c \in DOMAIN rows[HoursKey(j)] =>
                            rows[HoursKey(j)][c] = db[HoursKey(j)][c]
        /\ step[r] = "hours.insert" =>
              \A j \in Request :
                 (/\ OwnDay(j)
                  /\ db[HoursKey(j)].store = dto.store /\ db[HoursKey(j)].day = dto.day)
                     => j \in met[r]

HoursInv ==
    /\ HoursNamed /\ OwnLive /\ DaysApart
    /\ \A r \in Request : HoursTold(r)

-----------------------------------------------------------------------------
(* One live discount for a code.                                           *)

DiscountKey(d) == <<"discount", d>>

\* Discount d was last asked to be live and to have the code x, and it is so.
Wants(d, x) ==
    LET k == DiscountKey(d)
    IN  k \in DOMAIN hist /\ hist[k].at.val = "live" /\ hist[k].code.val = x
Says(d, x) ==
    LET k == DiscountKey(d)
    IN  k \in DOMAIN db /\ db[k].at = "live" /\ db[k].code = x /\ Wants(d, x)

\* The requests that asked for the two codes are linked.
BothLinked(d, e) == LinkedTo(DiscountKey(d), "code", hist[DiscountKey(e)].code.by)

\* A deletion that was not asked for is not in the tables.
AliveInv ==
    /\ DiscountKey(Null) \notin DOMAIN hist
    /\ \A k \in DOMAIN db :
          k[1] = "discount" => db[k].at = "live" \/ hist[k].at.val # "live"
CodesApart ==
    \A d, e \in Ids("discount") :
        LET x == Row("discount", e).code
        IN  d # e /\ Says(d, x) /\ Says(e, x) => BothLinked(d, e)

\* Whoever else has the code x asked for it in a request linked to r.
FreeCode(r, x, d) ==
    \A e \in Ids("discount") \ {d} : Says(e, x) => LinkedTo(DiscountKey(e), "code", r)

\* Of a code that r holds and was not asked to set.
HeldCode(r, x, d) ==
    Wants(d, x) => \A e \in Ids("discount") \ {d} :
                      Says(e, x) => BothLinked(d, e) \/ LinkedTo(DiscountKey(e), "code", r)

\* A discount that r is to save, live; the code is free if r was asked to set it.
Holding(r, k) ==
    LET d == k[2]
        row == mem[r].rows[k]
    IN  /\ DOMAIN mem[r].rows = {k} /\ k = DiscountKey(d)
        /\ {"at", "code"} \subseteq DOMAIN row /\ row.at = "live"
        /\ \/ mem[r].meant = {"code", "status"} /\ FreeCode(r, row.code, d)
           \/ mem[r].meant = {"status"} /\ HeldCode(r, row.code, d)

DiscountTold(r) ==
    LET dto == mem[r].dto
        rows == mem[r].rows
    IN  /\ step[r] \in {"discount.stores", "discount.insert"} =>
              "code" \in DOMAIN dto /\ FreeCode(r, dto.code, r)
        /\ step[r] = "discount.find" => FreeCode(r, dto.code, dto.id)
        /\ step[r] \in {"discount.reload", "discount.write"} =>
              \E k \in DOMAIN rows : Holding(r, k)
        /\ step[r] \in {"discounts.reload", "discounts.write"} =>
              /\ mem[r].meant = {"at"}
              /\ \A k \in DOMAIN rows : "at" \in DOMAIN rows[k] /\ rows[k].at = "deleted"

DiscountInv ==
    /\ AliveInv /\ CodesApart
    /\ \A r \in Request : DiscountTold(r)

-----------------------------------------------------------------------------
(* What a statement leaves as it was, and who is on record for the rest.   *)

\* Row k is as it was, and so is its history.
Kept(k) ==
    /\ k \in DOMAIN db' <=> k \in DOMAIN db
    /\ k \in DOMAIN hist' <=> k \in DOMAIN hist
    /\ k \in DOMAIN db => db'[k] = db[k]
    /\ k \in DOMAIN hist => hist'[k] = hist[k]

LEMMA ReadsKeep ==
    ASSUME UNCHANGED <<db, hist>>
    PROVE  \A k : Kept(k)
BY DEF Kept

LEMMA RecordKeeps ==
    ASSUME NEW r, NEW rows, NEW values, NEW meant, NEW wrote,
           Record(r, rows, values, meant, wrote),
           NEW k, k \notin DOMAIN meant,
           k \in DOMAIN rows <=> k \in DOMAIN db,
           k \in DOMAIN db => rows[k] = db[k]
    PROVE  Kept(k)
<1>1. /\ db' = rows
      /\ DOMAIN hist' = DOMAIN hist \cup DOMAIN meant
      /\ \A j \in DOMAIN hist \ DOMAIN meant : hist'[j] = hist[j]
  BY ONLY Record(r, rows, values, meant, wrote), RecordHist
<1> QED BY <1>1 DEF Kept

\* INSERT: the rows are in the tables as given, and r is on record.
LEMMA InsertsKeep ==
    ASSUME NEW r, NEW rows, Inserts(r, rows)
    PROVE  /\ \A k : k \notin DOMAIN rows => Kept(k)
           /\ \A k \in DOMAIN rows :
                /\ k \in DOMAIN db' /\ db'[k] = rows[k] /\ k \in DOMAIN hist'
                /\ \A c \in DOMAIN rows[k] : /\ hist'[k][c].val = rows[k][c]
                                             /\ hist'[k][c].by = r
                                             /\ hist'[k][c].writer = r
<1> DEFINE all == [k \in DOMAIN rows |-> DOMAIN rows[k]]
           after == Over(rows, db)
<1>1. Record(r, after, rows, all, all)
  BY DEF Inserts
<1>2. DOMAIN all = DOMAIN rows /\ \A k \in DOMAIN rows : all[k] = DOMAIN rows[k]
  OBVIOUS
<1>3. /\ DOMAIN after = DOMAIN rows \cup DOMAIN db
      /\ \A k \in DOMAIN rows : after[k] = rows[k]
      /\ \A k \in DOMAIN db \ DOMAIN rows : after[k] = db[k]
  BY DEF Over
<1> HIDE DEF all, after
<1>4. db' = after /\ DOMAIN hist' = DOMAIN hist \cup DOMAIN rows
  BY <1>1, <1>2, RecordHist
<1>5. \A k : k \notin DOMAIN rows => Kept(k)
  BY <1>1, <1>2, <1>3, RecordKeeps
<1>6. ASSUME NEW k \in DOMAIN rows, NEW c \in DOMAIN rows[k]
      PROVE  /\ hist'[k][c].val = rows[k][c]
             /\ hist'[k][c].by = r /\ hist'[k][c].writer = r
  <2>1. k \in DOMAIN all /\ c \in all[k]
    BY <1>2
  <2>2. hist'[k][c] = [val |-> IF c \in all[k] THEN rows[k][c] ELSE hist[k][c].val,
                       by |-> IF c \in all[k] THEN r ELSE hist[k][c].by,
                       writer |-> IF c \in all[k] THEN r ELSE hist[k][c].writer]
    BY <1>1, <2>1, RecordRow
  <2> QED BY <2>1, <2>2
<1> QED BY <1>3, <1>4, <1>5, <1>6

\* UPDATE of the rows there are.
LEMMA UpdatesKeep ==
    ASSUME NEW r, NEW keys, NEW values, Updates(r, keys, values)
    PROVE  /\ DOMAIN db' = DOMAIN db
           /\ \A k : k \notin keys \cap DOMAIN db => Kept(k)
           /\ \A k \in keys \cap DOMAIN db :
                /\ db'[k] = Over(values, db[k]) /\ k \in DOMAIN hist'
                /\ \A c \in DOMAIN values : /\ hist'[k][c].val = values[c]
                                            /\ hist'[k][c].by = r
                                            /\ hist'[k][c].writer = r
                /\ k \in DOMAIN hist => \A c \in DOMAIN hist[k] \ DOMAIN values :
                                           hist'[k][c] = hist[k][c]
<1> DEFINE found == keys \cap DOMAIN db
           changed == [k \in found |-> Over(values, db[k])]
           after == Over(changed, db)
           set == [k \in found |-> values]
           sets == [k \in found |-> DOMAIN values]
<1>1. Record(r, after, set, sets, sets)
  BY DEF Updates
<1>2. /\ DOMAIN sets = found
      /\ \A k \in found : sets[k] = DOMAIN values /\ set[k] = values
  OBVIOUS
<1>3. /\ DOMAIN after = DOMAIN db
      /\ \A k \in found : after[k] = Over(values, db[k])
      /\ \A k \in DOMAIN db \ found : after[k] = db[k]
  BY DEF Over
<1> HIDE DEF found, sets, set, after
<1>4. db' = after /\ DOMAIN hist' = DOMAIN hist \cup found
  BY <1>1, <1>2, RecordHist
<1>5. \A k : k \notin found => Kept(k)
  BY <1>1, <1>2, <1>3, RecordKeeps
<1>6. ASSUME NEW k \in found
      PROVE  /\ \A c \in DOMAIN values : /\ hist'[k][c].val = values[c]
                                         /\ hist'[k][c].by = r
                                         /\ hist'[k][c].writer = r
             /\ k \in DOMAIN hist => \A c \in DOMAIN hist[k] \ DOMAIN values :
                                        hist'[k][c] = hist[k][c]
  <2>1. k \in DOMAIN sets /\ set[k] = values /\ sets[k] = DOMAIN values
    BY <1>2
  <2>2. /\ \A c \in DOMAIN set[k] : hist'[k][c] =
             [val |-> IF c \in sets[k] THEN set[k][c] ELSE hist[k][c].val,
              by |-> IF c \in sets[k] THEN r ELSE hist[k][c].by,
              writer |-> IF c \in sets[k] THEN r ELSE hist[k][c].writer]
        /\ k \in DOMAIN hist => \A c \in DOMAIN hist[k] \ DOMAIN set[k] :
             hist'[k][c] = hist[k][c]
    BY <1>1, <2>1, RecordRow
  <2>3. ASSUME NEW c \in DOMAIN values
        PROVE  /\ hist'[k][c].val = values[c]
               /\ hist'[k][c].by = r /\ hist'[k][c].writer = r
    <3>1. c \in DOMAIN set[k] /\ c \in sets[k] /\ set[k][c] = values[c]
      BY <2>1
    <3>2. hist'[k][c] = [val |-> IF c \in sets[k] THEN set[k][c] ELSE hist[k][c].val,
                         by |-> IF c \in sets[k] THEN r ELSE hist[k][c].by,
                         writer |-> IF c \in sets[k] THEN r ELSE hist[k][c].writer]
      BY <2>2, <3>1
    <3> QED BY <3>1, <3>2
  <2> QED BY <2>1, <2>2, <2>3
<1>7. found = keys \cap DOMAIN db
  BY DEF found
<1>8. \A k \in found : db'[k] = Over(values, db[k]) /\ k \in DOMAIN hist'
  BY <1>3, <1>4
<1> QED BY <1>3, <1>4, <1>5, <1>6, <1>7, <1>8

\* DELETE: r is on record for every column of a row that went.
LEMMA RemovesKeep ==
    ASSUME NEW r, NEW keys, Removes(r, keys)
    PROVE  /\ \A k : k \notin Removal(keys) => Kept(k)
           /\ \A k \in Removal(keys) :
                /\ k \notin DOMAIN db'
                /\ k \in DOMAIN hist'
                /\ \A c \in DOMAIN db[k] : /\ hist'[k][c].val = Null
                                           /\ hist'[k][c].by = r
                                           /\ hist'[k][c].writer = r
<1> DEFINE gone == Removal(keys)
           after == Only(db, DOMAIN db \ gone)
           none == [k \in gone |-> [c \in DOMAIN db[k] |-> Null]]
           sets == [k \in gone |-> DOMAIN db[k]]
<1>1. Record(r, after, none, sets, sets)
  BY DEF Removes
<1>2. /\ DOMAIN sets = gone
      /\ \A k \in gone : sets[k] = DOMAIN db[k] /\ DOMAIN none[k] = DOMAIN db[k]
      /\ \A k \in gone : \A c \in DOMAIN db[k] : none[k][c] = Null
  OBVIOUS
<1>3. /\ DOMAIN after = DOMAIN db \ gone
      /\ \A k \in DOMAIN db \ gone : after[k] = db[k]
  BY DEF Only
<1> HIDE DEF gone, none, sets, after
<1>4. db' = after /\ DOMAIN hist' = DOMAIN hist \cup gone
  BY <1>1, <1>2, RecordHist
<1>5. \A k : k \notin gone => Kept(k)
  BY <1>1, <1>2, <1>3, RecordKeeps
<1>6. ASSUME NEW k \in gone, NEW c \in DOMAIN db[k]
      PROVE  hist'[k][c].val = Null /\ hist'[k][c].by = r /\ hist'[k][c].writer = r
  <2>1. k \in DOMAIN sets /\ c \in sets[k] /\ c \in DOMAIN none[k] /\ none[k][c] = Null
    BY <1>2
  <2>2. hist'[k][c] = [val |-> IF c \in sets[k] THEN none[k][c] ELSE hist[k][c].val,
                       by |-> IF c \in sets[k] THEN r ELSE hist[k][c].by,
                       writer |-> IF c \in sets[k] THEN r ELSE hist[k][c].writer]
    BY <1>1, <2>1, RecordRow
  <2> QED BY <2>1, <2>2
<1>7. \A k \in gone : k \notin DOMAIN db' /\ k \in DOMAIN hist'
  BY <1>3, <1>4
<1>8. gone = Removal(keys)
  BY DEF gone
<1> QED BY <1>5, <1>6, <1>7, <1>8

\* save(): a row is as it was, or it has what r found to differ, or it is new
\* or back; r is on record for what it was asked to set and for what it wrote.
SavedBy(Columns, r, k) ==
    LET row == mem[r].rows[k]
        dirty == mem[r].dirty
        meant == mem[r].meant
    IN  /\ k \in DOMAIN db' /\ k \in DOMAIN hist'
        /\ k \in DOMAIN db <=> k \in DOMAIN dirty
        /\ k \in DOMAIN db =>
              \A c \in Columns[k[1]] :
                 db'[k][c] = IF c \in dirty[k] THEN row[c] ELSE db[k][c]
        /\ k \notin DOMAIN db => \A c \in DOMAIN row : db'[k][c] = row[c]
        /\ k \in DOMAIN hist =>
              \A c \in Columns[k[1]] :
                 /\ c \in meant /\ c \in DOMAIN row =>
                       hist'[k][c].by = r /\ hist'[k][c].val = row[c]
                 /\ c \notin meant =>
                       hist'[k][c].by = hist[k][c].by /\ hist'[k][c].val = hist[k][c].val
        /\ k \notin DOMAIN hist =>
              \A c \in DOMAIN row : hist'[k][c].by = r /\ hist'[k][c].val = row[c]
        /\ \A c \in Columns[k[1]] :
              hist'[k][c].writer =
                 IF k \in DOMAIN db /\ c \notin dirty[k] THEN hist[k][c].writer ELSE r

LEMMA WritesKeep ==
    ASSUME NEW Columns, ColumnInv(Columns),
           \A f \in References : f.column \in Columns[f.table],
           NEW r \in Request, Compared(Columns, r), NEW s, NEW m, Write(r, s, m)
    PROVE  /\ \A k : k \notin DOMAIN mem[r].rows => Kept(k)
           /\ \A k \in DOMAIN mem[r].rows : Kept(k) \/ SavedBy(Columns, r, k)
           /\ \/ Reads(r, "error", NoMem)
              \/ /\ Goto(r, s, m)
                 /\ \A k \in DOMAIN mem[r].rows \cap DOMAIN db : SavedBy(Columns, r, k)
<1>1. CASE ~WriteAccepted(r)
  <2>1. Reads(r, "error", NoMem)
    BY <1>1 DEF Write
  <2> QED BY <2>1, ReadsKeep DEF Reads
<1>2. CASE WriteAccepted(r)
  <2> DEFINE rows == mem[r].rows
             dirty == mem[r].dirty
             after == AfterWrite(r)
             kept == DOMAIN rows \cap DOMAIN after
             new == [k \in kept |-> IF k \notin DOMAIN dirty THEN after[k] ELSE rows[k]]
             meant == [k \in kept |-> IF k \in DOMAIN hist THEN mem[r].meant ELSE DOMAIN new[k]]
             wrote == [k \in kept |-> IF k \notin DOMAIN dirty THEN DOMAIN new[k] ELSE dirty[k]]
  <2>1. Record(r, after, new, meant, wrote)
    BY <1>2 DEF Write
  <2>2. /\ DOMAIN after = DOMAIN db \cup (DOMAIN rows \ DOMAIN dirty)
        /\ \A k \in DOMAIN after : DOMAIN after[k] = Columns[k[1]]
        /\ \A k \in DOMAIN rows \ DOMAIN dirty :
             k \notin DOMAIN db /\ \A c \in DOMAIN rows[k] : after[k][c] = rows[k][c]
        /\ \A k \in DOMAIN db : k \notin DOMAIN rows => after[k] = db[k]
        /\ \A k \in DOMAIN db \cap DOMAIN rows : \A c \in Columns[k[1]] :
             after[k][c] = IF c \in dirty[k] THEN rows[k][c] ELSE db[k][c]
    BY ONLY ColumnInv(Columns), \A f \in References : f.column \in Columns[f.table],
       r \in Request, Compared(Columns, r), <1>2, AfterWriteRows
  <2>3. /\ DOMAIN meant = kept
        /\ \A k \in kept :
             /\ new[k] = IF k \notin DOMAIN dirty THEN after[k] ELSE rows[k]
             /\ meant[k] = IF k \in DOMAIN hist THEN mem[r].meant ELSE DOMAIN new[k]
             /\ wrote[k] = IF k \notin DOMAIN dirty THEN DOMAIN new[k] ELSE dirty[k]
    OBVIOUS
  <2> HIDE DEF after, new, meant, wrote
  <2>4. db' = after /\ DOMAIN hist' = DOMAIN hist \cup kept
    <3> HIDE DEF kept
    <3> QED BY <2>1, <2>3, RecordHist
  <2>5. \A k : k \notin kept => Kept(k)
    <3> SUFFICES ASSUME NEW k, k \notin kept
                 PROVE  Kept(k)
      OBVIOUS
    <3>1. k \notin DOMAIN meant
      BY <2>3
    <3>2. (k \in DOMAIN after <=> k \in DOMAIN db) /\ (k \in DOMAIN db => after[k] = db[k])
      BY <2>2
    <3> QED BY <2>1, <3>1, <3>2, RecordKeeps
  <2>6. ASSUME NEW k \in kept
        PROVE  SavedBy(Columns, r, k)
    <3>1. \A c \in DOMAIN new[k] : hist'[k][c] =
             [val |-> IF c \in meant[k] THEN new[k][c] ELSE hist[k][c].val,
              by |-> IF c \in meant[k] THEN r ELSE hist[k][c].by,
              writer |-> IF c \in wrote[k] THEN r ELSE hist[k][c].writer]
      <4>1. k \in DOMAIN meant
        BY <2>3
      <4> QED BY ONLY <2>1, <4>1, RecordRow
    <3>2. k \in DOMAIN hist => \A c \in DOMAIN hist[k] \ DOMAIN new[k] :
             hist'[k][c] = hist[k][c]
      <4>1. k \in DOMAIN meant
        BY <2>3
      <4> QED BY ONLY <2>1, <4>1, RecordRow
    <3>3. /\ Fits(Columns, k, rows[k])
          /\ k \in DOMAIN dirty => dirty[k] \subseteq DOMAIN rows[k]
      BY DEF Compared
    <3>4. /\ k \in DOMAIN dirty <=> k \in DOMAIN db
          /\ k \in DOMAIN db => k \in DOMAIN hist
          /\ k \in DOMAIN hist => DOMAIN hist[k] = Columns[k[1]]
          /\ DOMAIN rows[k] \subseteq Columns[k[1]]
      BY <2>2, <3>3 DEF ColumnInv, Schema, Fits
    <3>5. CASE k \in DOMAIN dirty
      <4>1. /\ new[k] = rows[k] /\ wrote[k] = dirty[k] /\ meant[k] = mem[r].meant
            /\ k \in DOMAIN hist /\ k \in DOMAIN db
        BY <2>3, <3>4, <3>5
      <4>2. ASSUME NEW c \in Columns[k[1]]
            PROVE  /\ c \in meant[k] /\ c \in DOMAIN rows[k] =>
                         hist'[k][c].by = r /\ hist'[k][c].val = rows[k][c]
                   /\ c \notin meant[k] =>
                         hist'[k][c].by = hist[k][c].by /\ hist'[k][c].val = hist[k][c].val
                   /\ hist'[k][c].writer = IF c \notin dirty[k] THEN hist[k][c].writer ELSE r
        <5>1. CASE c \in DOMAIN rows[k]
          <6>1. hist'[k][c] =
                 [val |-> IF c \in meant[k] THEN rows[k][c] ELSE hist[k][c].val,
                  by |-> IF c \in meant[k] THEN r ELSE hist[k][c].by,
                  writer |-> IF c \in dirty[k] THEN r ELSE hist[k][c].writer]
            BY <3>1, <4>1, <5>1
          <6> QED BY <5>1, <6>1
        <5>2. CASE c \notin DOMAIN rows[k]
          <6>1. hist'[k][c] = hist[k][c] /\ c \notin dirty[k]
            BY <3>2, <3>3, <3>4, <3>5, <4>1, <5>2
          <6> QED BY <5>2, <6>1
        <5> QED BY <5>1, <5>2
      <4>3. \A c \in Columns[k[1]] :
              db'[k][c] = IF c \in dirty[k] THEN rows[k][c] ELSE db[k][c]
        BY <2>2, <2>4, <4>1
      <4>4. k \in DOMAIN db' /\ k \in DOMAIN hist'
        BY <2>4
      <4> QED BY <3>5, <4>1, <4>2, <4>3, <4>4 DEF SavedBy
    <3>6. CASE k \notin DOMAIN dirty
      <4>1. /\ new[k] = after[k] /\ wrote[k] = Columns[k[1]] /\ DOMAIN new[k] = Columns[k[1]]
            /\ meant[k] = IF k \in DOMAIN hist THEN mem[r].meant ELSE Columns[k[1]]
            /\ \A c \in DOMAIN rows[k] : after[k][c] = rows[k][c]
            /\ k \notin DOMAIN db
        BY <2>2, <2>3, <3>4, <3>6
      <4>2. ASSUME NEW c \in Columns[k[1]]
            PROVE  /\ c \in meant[k] /\ c \in DOMAIN rows[k] =>
                         hist'[k][c].by = r /\ hist'[k][c].val = rows[k][c]
                   /\ c \notin meant[k] =>
                         hist'[k][c].by = hist[k][c].by /\ hist'[k][c].val = hist[k][c].val
                   /\ hist'[k][c].writer = r
        <5>1. hist'[k][c] =
               [val |-> IF c \in meant[k] THEN after[k][c] ELSE hist[k][c].val,
                by |-> IF c \in meant[k] THEN r ELSE hist[k][c].by,
                writer |-> IF c \in wrote[k] THEN r ELSE hist[k][c].writer]
          BY <3>1, <4>1
        <5> QED BY <4>1, <5>1
      <4>3. k \in DOMAIN db' /\ k \in DOMAIN hist' /\ db'[k] = after[k]
        BY <2>4
      <4> QED BY <3>4, <3>6, <4>1, <4>2, <4>3 DEF SavedBy
    <3> QED BY <3>5, <3>6
  <2>7. Goto(r, s, m)
    BY <1>2 DEF Write
  <2>8. DOMAIN rows \cap DOMAIN db \subseteq kept
    BY <2>2
  <2> QED BY <2>5, <2>6, <2>7, <2>8
<1> QED BY <1>1, <1>2

-----------------------------------------------------------------------------
(* A step of a service: where it leads, the tables it may write, and what  *)
(* the request carries after it.                                           *)

Turn(r, S, T) ==
    /\ StepsTo(r, step'[r]) /\ (Begins(r) \/ GoesOn(r))
    /\ step'[r] \in S
    /\ \A k : k[1] \notin T => Kept(k)
    /\ RowsHeld(r)'

LEMMA TurnBegins ==
    ASSUME CatInv, NEW r \in Request, NEW s, NEW m, Begin(r, s, m), NEW S, s \in S,
           NEW T, \A k : k[1] \notin T => Kept(k),
           step'[r] = s /\ mem'[r] = Memory(m) => RowsHeld(r)'
    PROVE  Turn(r, S, T)
<1>1. HoldInv
  BY CatShared
<1>2. StepsTo(r, s) /\ Begins(r) /\ mem'[r] = Memory(m)
  BY <1>1, BeginSteps
<1>3. step'[r] = s
  BY <1>1, <1>2 DEF HoldInv, StepsTo
<1> QED BY <1>2, <1>3 DEF Turn

LEMMA TurnGoes ==
    ASSUME CatInv, NEW r \in Open, NEW s, NEW m, Goto(r, s, m), NEW S, s \in S,
           NEW T, \A k : k[1] \notin T => Kept(k),
           (step'[r] = s /\ (s \notin Ended => mem'[r] = Over(m, mem[r]))) => RowsHeld(r)'
    PROVE  Turn(r, S, T)
<1>1. HoldInv /\ r \in Request
  BY CatShared DEF Open
<1>2. StepsTo(r, s) /\ GoesOn(r) /\ mem'[r] = IF s \in Ended THEN NoMem ELSE Over(m, mem[r])
  BY <1>1, GotoSteps DEF GoesOn
<1>3. step'[r] = s
  BY <1>1, <1>2 DEF HoldInv, StepsTo
<1> QED BY <1>2, <1>3 DEF Turn

\* It carries nothing.
LEMMA EmptyHanded ==
    ASSUME NEW r, step'[r] \notin Carrying
    PROVE  RowsHeld(r)'
BY DEF RowsHeld, Carrying

LEMMA EndedEmpty == \A s \in Ended : s \notin Carrying
BY DEF Ended, Carrying, PlainReading, PlainWriting

LEMMA TurnBegun ==
    ASSUME CatInv, NEW r \in Request, NEW s, NEW m, Begin(r, s, m), s \notin Carrying,
           NEW S, s \in S, NEW T, \A k : k[1] \notin T => Kept(k)
    PROVE  Turn(r, S, T)
BY TurnBegins, EmptyHanded

LEMMA TurnGone ==
    ASSUME CatInv, NEW r \in Open, NEW s, NEW m, Goto(r, s, m), s \notin Carrying,
           NEW S, s \in S, NEW T, \A k : k[1] \notin T => Kept(k)
    PROVE  Turn(r, S, T)
BY TurnGoes, EmptyHanded

\* It only reads.
LEMMA TurnBegunReading ==
    ASSUME CatInv, NEW r \in Request, NEW s, NEW m, Begin(r, s, m), s \notin Carrying,
           UNCHANGED <<db, hist>>, NEW S, s \in S, NEW T
    PROVE  Turn(r, S, T)
BY TurnBegun, ReadsKeep

LEMMA TurnReading ==
    ASSUME CatInv, NEW r \in Open, NEW s, NEW m, Reads(r, s, m), s \notin Carrying,
           NEW S, s \in S, NEW T
    PROVE  Turn(r, S, T)
BY TurnGone, ReadsKeep DEF Reads

\* It inserts rows of these tables, or is refused.
LEMMA TurnInserting ==
    ASSUME CatInv, NEW r \in Open, NEW rows, NEW s, NEW m, InsertThen(r, rows, s, m),
           s \notin Carrying, NEW S, s \in S, "error" \in S,
           NEW T, \A k \in DOMAIN rows : k[1] \in T
    PROVE  Turn(r, S, T)
<1>1. CASE Inserts(r, rows) /\ Goto(r, s, m)
  <2>1. \A k : k[1] \notin T => Kept(k)
    BY <1>1, InsertsKeep
  <2> QED BY <1>1, <2>1, TurnGone
<1>2. CASE Reads(r, "error", NoMem)
  BY <1>2, TurnReading, EndedEmpty DEF Ended
<1> QED BY <1>1, <1>2 DEF InsertThen

LEMMA TurnUpdating ==
    ASSUME CatInv, NEW r \in Open, NEW keys, NEW values, Updates(r, keys, values),
           NEW s, NEW m, Goto(r, s, m), s \notin Carrying, NEW S, s \in S,
           NEW T, \A k \in keys : k[1] \in T
    PROVE  Turn(r, S, T)
<1>1. \A k : k[1] \notin T => Kept(k)
  BY UpdatesKeep
<1> QED BY <1>1, TurnGone

\* The rows that cascade are opening hours.
LEMMA RemovalTables ==
    ASSUME NEW keys, NEW k \in Removal(keys) \ keys
    PROVE  k[1] = "hours" /\ <<"store", db[k].store>> \in keys
<1>1. PICK f \in References :
         /\ f.rule = "cascade" /\ k[1] = f.table
         /\ <<f.target, db[k][f.column]>> \in keys
  BY DEF Removal
<1>2. f \in CatalogueReferences
  BY <1>1, CatalogueAssumption
<1>3. f.table = "hours" /\ f.target = "store" /\ f.column = "store"
  <2>1. \A g \in MenuReferences : g.rule = "refuse"
    BY DEF MenuReferences
  <2> QED BY <1>1, <1>2, <2>1 DEF CatalogueReferences
<1> QED BY <1>1, <1>3

LEMMA RemovesTables ==
    ASSUME NEW r, NEW keys, Removes(r, keys), NEW T, \A k \in keys : k[1] \in T,
           "hours" \in T \/ "store" \notin T
    PROVE  \A k : k[1] \notin T => Kept(k)
<1> SUFFICES ASSUME NEW k, k[1] \notin T
             PROVE  Kept(k)
  OBVIOUS
<1>1. k \notin Removal(keys)
  <2>1. k \notin keys
    OBVIOUS
  <2>2. ASSUME k \in Removal(keys)
        PROVE  FALSE
    <3>1. k[1] = "hours" /\ <<"store", db[k].store>> \in keys
      BY <2>1, <2>2, RemovalTables
    <3>2. "store" \in T
      BY <3>1
    <3> QED BY <3>1, <3>2
  <2> QED BY <2>2
<1> QED BY <1>1, RemovesKeep

\* It takes rows to save along.
LEMMA TurnBegunToSave ==
    ASSUME CatInv, NEW r \in Request, NEW s \in PlainReading, NEW m, Begin(r, s, m),
           UNCHANGED <<db, hist>>, NEW S, s \in S, NEW T,
           \A k \in DOMAIN Memory(m).rows : k[1] \in SavedTables(s)
    PROVE  Turn(r, S, T)
<1>1. step'[r] = s /\ mem'[r] = Memory(m) => RowsHeld(r)'
  BY DEF RowsHeld, PlainReading, PlainWriting
<1> QED BY <1>1, TurnBegins, ReadsKeep

LEMMA TurnToSave ==
    ASSUME CatInv, NEW r \in Open, NEW s \in PlainReading \cup PlainWriting, NEW m,
           Reads(r, s, m), NEW S, s \in S, NEW T,
           \A k \in DOMAIN Over(m, mem[r]).rows : k[1] \in SavedTables(s)
    PROVE  Turn(r, S, T)
<1>1. s \notin Ended /\ s # "mark"
  BY DEF PlainReading, PlainWriting, Ended
<1>2. step'[r] = s /\ mem'[r] = Over(m, mem[r]) => RowsHeld(r)'
  BY <1>1 DEF RowsHeld
<1> QED BY <1>1, <1>2, TurnGoes, ReadsKeep DEF Reads

LEMMA TurnReloading ==
    ASSUME CatInv, RowsInv, NEW r \in Request, step[r] \in PlainReading, NEW s \in PlainWriting,
           Reload(r, s), SavedTables(step[r]) \subseteq SavedTables(s), NEW S, s \in S, NEW T
    PROVE  Turn(r, S, T)
<1> DEFINE m == [dirty |-> DirtyOf(mem[r].rows)]
<1>1. r \in Open
  BY DEF Open, PlainReading, Ended
<1>2. DOMAIN NoMem \subseteq DOMAIN mem[r]
  BY CatShared DEF HoldInv
<1>3. Over(m, mem[r]).rows = mem[r].rows
  BY <1>2 DEF Over, NoMem
<1>4. \A k \in DOMAIN mem[r].rows : k[1] \in SavedTables(s)
  BY DEF RowsInv, RowsHeld
<1>5. Reads(r, s, m)
  BY DEF Reload
<1> HIDE DEF m
<1> QED BY <1>1, <1>3, <1>4, <1>5, TurnToSave

LEMMA TurnWriting ==
    ASSUME CatInv, RowsInv, NEW r \in Request, step[r] \in PlainWriting, NEW s, NEW m,
           Write(r, s, m), s \notin Carrying, NEW S, s \in S, "error" \in S,
           NEW T, SavedTables(step[r]) \subseteq T
    PROVE  Turn(r, S, T)
<1>1. r \in Open
  BY DEF Open, PlainWriting, Ended
<1>2. Compared(CatalogueColumns, r) /\ ColumnInv(CatalogueColumns)
  BY CatShared DEF CatInv, CatSaveInv, SaveInv, Keeps, Writing
<1>3. \A k : k \notin DOMAIN mem[r].rows => Kept(k)
  BY <1>2, CatReferences, WritesKeep
<1>4. \A k : k[1] \notin T => Kept(k)
  BY <1>3 DEF RowsInv, RowsHeld
<1>5. CASE Goto(r, s, m)
  BY <1>1, <1>4, <1>5, TurnGone
<1>6. CASE Goto(r, "error", NoMem)
  BY <1>1, <1>4, <1>6, TurnGone, EndedEmpty DEF Ended
<1> QED BY <1>5, <1>6 DEF Write, Reads

-----------------------------------------------------------------------------
(* The services.                                                           *)

StoreSteps == {"store.delete"} \cup Ended
HoursSteps == {"hours.find", "hours.insert", "hours.preload", "hours.reload", "hours.write"}
                \cup Ended
DiscountSteps ==
    {"discount.stores", "discount.insert", "discount.links", "discount.find", "discount.reload",
     "discount.write", "discount.diff", "links.reload", "links.write", "links.stores",
     "links.insert", "discount.mark", "discount.links.find", "discounts.reload",
     "discounts.write"} \cup Ended
MenuSteps ==
    {"mark", "entity.reload", "entity.write", "product.insert", "product.check",
     "group.products", "group.insert", "group.attach", "group.options", "group.mark",
     "group.markOptions", "group.detach"} \cup Editing \cup Ended
MenuTables == {"category", "product", "group", "option", "attached"}

LEMMA EndedSteps ==
    /\ Ended \subseteq StoreSteps /\ Ended \subseteq HoursSteps
    /\ Ended \subseteq DiscountSteps /\ Ended \subseteq MenuSteps
BY DEF StoreSteps, HoursSteps, DiscountSteps, MenuSteps

LEMMA StoreTurn ==
    ASSUME CatInv, NEW r \in Request, StoreOperation(r)
    PROVE  Turn(r, StoreSteps, {"store", "hours"})
<1> DEFINE T == {"store", "hours"}
<1>1. "ok" \in StoreSteps /\ "error" \in StoreSteps /\ "ok" \notin Carrying /\ "error" \notin Carrying
  BY EndedSteps, EndedEmpty DEF Ended
<1>2. "store.delete" \in StoreSteps /\ "store.delete" \notin Carrying
  BY DEF StoreSteps, Carrying, PlainReading, PlainWriting
<1>3. CASE CreateStore(r)
  <2>1. PICK rows : Begin(r, "ok", NoMem) /\ Inserts(r, rows) /\ DOMAIN rows = {<<"store", r>>}
    BY <1>3 DEF CreateStore, Single
  <2>2. \A k : k[1] \notin T => Kept(k)
    BY <2>1, InsertsKeep
  <2> QED BY <1>1, <2>1, <2>2, TurnBegun
<1>4. CASE UpdateStore(r)
  <2>1. PICK s, dto : Begin(r, "ok", NoMem) /\ Updates(r, {<<"store", s>>}, dto)
    BY <1>4 DEF UpdateStore
  <2>2. \A k : k[1] \notin T => Kept(k)
    BY <2>1, UpdatesKeep
  <2> QED BY <1>1, <2>1, <2>2, TurnBegun
<1>5. CASE RemoveStores(r)
  <2>1. PICK ids : Begin(r, "store.delete", [dto |-> ids]) /\ Removes(r, {"hours"} \X HoursOf(ids))
    BY <1>5 DEF RemoveStores
  <2>2. \A k \in {"hours"} \X HoursOf(ids) : k[1] \in T
    OBVIOUS
  <2>3. \A k : k[1] \notin T => Kept(k)
    BY <2>1, <2>2, RemovesTables
  <2> QED BY <1>2, <2>1, <2>3, TurnBegun
<1>6. CASE RemoveStoresDelete(r)
  <2>1. r \in Open
    BY <1>6, Under DEF RemoveStoresDelete, Ended
  <2>2. CASE Reads(r, "error", NoMem)
    BY <1>1, <2>1, <2>2, TurnReading
  <2>3. CASE \E ids : Removes(r, {"store"} \X ids) /\ Goto(r, "ok", NoMem)
    <3>1. PICK ids : Removes(r, {"store"} \X ids) /\ Goto(r, "ok", NoMem)
      BY <2>3
    <3>2. \A k \in {"store"} \X ids : k[1] \in T
      OBVIOUS
    <3>3. \A k : k[1] \notin T => Kept(k)
      BY <3>1, <3>2, RemovesTables
    <3> QED BY <1>1, <2>1, <3>1, <3>3, TurnGone
  <2> QED BY <1>6, <2>2, <2>3 DEF RemoveStoresDelete, RemoveThen
<1> QED BY <1>3, <1>4, <1>5, <1>6 DEF StoreOperation

LEMMA HoursTurn ==
    ASSUME CatInv, RowsInv, NEW r \in Request, HoursOperation(r)
    PROVE  Turn(r, HoursSteps, {"hours"})
<1> DEFINE T == {"hours"}
<1>1. "ok" \in HoursSteps /\ "error" \in HoursSteps /\ "ok" \notin Carrying /\ "error" \notin Carrying
  BY EndedSteps, EndedEmpty DEF Ended
<1>2. /\ {"hours.find", "hours.insert", "hours.preload", "hours.reload", "hours.write"}
           \subseteq HoursSteps
      /\ {"hours.find", "hours.insert", "hours.preload"} \cap Carrying = {}
      /\ "hours.reload" \in PlainReading /\ "hours.write" \in PlainWriting
  BY DEF HoursSteps, Carrying, PlainReading, PlainWriting
<1>3. SavedTables("hours.reload") = T /\ SavedTables("hours.write") = T
  BY DEF SavedTables
<1>4. ASSUME NEW s, At(r, s), s \in {"hours.find", "hours.insert", "hours.preload", "hours.reload",
                                     "hours.write"}
      PROVE  r \in Open /\ step[r] = s
  BY <1>4, Under DEF Ended
<1>5. ASSUME NEW h, NEW row, NEW meant, r \in Open,
             Reads(r, "hours.reload", Save(Single(<<"hours", h>>, row), meant))
      PROVE  Turn(r, HoursSteps, T)
  <2> DEFINE m == Save(Single(<<"hours", h>>, row), meant)
  <2>1. \A k \in DOMAIN Over(m, mem[r]).rows : k[1] \in SavedTables("hours.reload")
    BY <1>3 DEF Over, Save, Single
  <2>2. Reads(r, "hours.reload", m)
    BY <1>5
  <2> HIDE DEF m
  <2> QED BY <1>2, <1>5, <2>1, <2>2, TurnToSave
<1>6. CASE CreateHours(r) \/ UpdateHours(r)
  <2>1. PICK s \in {"hours.find", "hours.preload"} :
          \E m : Begin(r, s, m) /\ UNCHANGED <<db, hist>>
    BY <1>6 DEF CreateHours, UpdateHours
  <2>2. PICK m : Begin(r, s, m) /\ UNCHANGED <<db, hist>>
    BY <2>1
  <2> QED BY <1>2, <2>2, TurnBegunReading
<1>7. CASE CreateHoursFind(r)
  <2>1. r \in Open
    BY <1>4, <1>7 DEF CreateHoursFind
  <2>2. CASE Reads(r, "hours.insert", <<>>)
    BY <1>2, <2>1, <2>2, TurnReading
  <2>3. CASE \E h, row : Reads(r, "hours.reload", Save(Single(<<"hours", h>>, row), {"slots"}))
    BY <1>5, <2>1, <2>3
  <2> QED BY <1>7, <2>2, <2>3 DEF CreateHoursFind
<1>8. CASE CreateHoursInsert(r)
  <2>1. PICK row : InsertThen(r, Single(<<"hours", r>>, row), "ok", NoMem)
    BY <1>8 DEF CreateHoursInsert
  <2>2. \A k \in DOMAIN Single(<<"hours", r>>, row) : k[1] \in T
    BY DEF Single
  <2>3. r \in Open
    BY <1>4, <1>8 DEF CreateHoursInsert
  <2> QED BY <1>1, <2>1, <2>2, <2>3, TurnInserting
<1>9. CASE UpdateHoursPreload(r)
  <2>1. r \in Open
    BY <1>4, <1>9 DEF UpdateHoursPreload
  <2>2. CASE Reads(r, "error", NoMem)
    BY <1>1, <2>1, <2>2, TurnReading
  <2>3. CASE \E row : Reads(r, "hours.reload",
                            Save(Single(<<"hours", mem[r].dto.id>>, row), DOMAIN mem[r].dto.values))
    BY <1>5, <2>1, <2>3
  <2> QED BY <1>9, <2>2, <2>3 DEF UpdateHoursPreload
<1>10. CASE HoursReload(r)
  <2>1. step[r] = "hours.reload"
    BY <1>4, <1>10 DEF HoursReload
  <2> QED BY <1>2, <1>3, <1>10, <2>1, TurnReloading DEF HoursReload
<1>11. CASE HoursWrite(r)
  <2>1. step[r] = "hours.write"
    BY <1>4, <1>11 DEF HoursWrite
  <2> QED BY <1>1, <1>2, <1>3, <1>11, <2>1, TurnWriting DEF HoursWrite
<1>12. CASE RemoveHours(r)
  <2>1. PICK ids : Begin(r, "ok", NoMem) /\ Removes(r, {"hours"} \X ids)
    BY <1>12 DEF RemoveHours
  <2>2. \A k \in {"hours"} \X ids : k[1] \in T
    OBVIOUS
  <2>3. \A k : k[1] \notin T => Kept(k)
    BY <2>1, <2>2, RemovesTables
  <2> QED BY <1>1, <2>1, <2>3, TurnBegun
<1> QED BY <1>6, <1>7, <1>8, <1>9, <1>10, <1>11, <1>12 DEF HoursOperation

LEMMA DiscountTurn ==
    ASSUME CatInv, RowsInv, NEW r \in Request, DiscountOperation(r)
    PROVE  Turn(r, DiscountSteps, {"discount", "link"})
<1> DEFINE T == {"discount", "link"}
           Quiet == {"discount.stores", "discount.insert", "discount.links", "discount.find",
                     "discount.diff", "links.stores", "links.insert", "discount.mark",
                     "discount.links.find", "ok", "error"}
<1>1. Quiet \subseteq DiscountSteps /\ Quiet \cap Carrying = {}
  BY DEF DiscountSteps, Ended, Carrying, PlainReading, PlainWriting
<1>2. /\ {"discount.reload", "discount.write", "discounts.reload", "discounts.write",
          "links.reload", "links.write"} \subseteq DiscountSteps
      /\ {"discount.reload", "discounts.reload", "links.reload"} \subseteq PlainReading
      /\ {"discount.write", "discounts.write", "links.write"} \subseteq PlainWriting
  BY DEF DiscountSteps, PlainReading, PlainWriting
<1>3. /\ \A s \in {"discount.reload", "discount.write", "discounts.reload", "discounts.write"} :
            SavedTables(s) = {"discount"}
      /\ \A s \in {"links.reload", "links.write"} : SavedTables(s) = {"link"}
  BY DEF SavedTables
<1>4. ASSUME NEW s, At(r, s), s \notin {"idle"} \cup Ended
      PROVE  r \in Open /\ step[r] = s
  BY <1>4, Under
<1>5. ASSUME NEW s \in Quiet, NEW m, Begin(r, s, m), UNCHANGED <<db, hist>>
      PROVE  Turn(r, DiscountSteps, T)
  <2> HIDE DEF Quiet
  <2> QED BY <1>1, <1>5, TurnBegunReading
<1>6. ASSUME NEW s \in Quiet, NEW m, r \in Open, Reads(r, s, m)
      PROVE  Turn(r, DiscountSteps, T)
  <2> HIDE DEF Quiet
  <2> QED BY <1>1, <1>6, TurnReading
<1>8. ASSUME NEW s \in {"discount.reload", "discounts.reload", "links.reload"}, NEW m, r \in Open,
             Reads(r, s, m), DOMAIN m \subseteq {"dto", "rows", "meant"}, "rows" \in DOMAIN m,
             \A k \in DOMAIN m.rows : k[1] \in SavedTables(s)
      PROVE  Turn(r, DiscountSteps, T)
  <2>1. \A k \in DOMAIN Over(m, mem[r]).rows : k[1] \in SavedTables(s)
    BY <1>8 DEF Over
  <2> QED BY <1>2, <1>8, <2>1, TurnToSave
<1>9. ASSUME NEW s \in {"discount.reload", "discounts.reload"}, NEW m, Begin(r, s, m),
             UNCHANGED <<db, hist>>, "rows" \in DOMAIN m,
             \A k \in DOMAIN m.rows : k[1] \in SavedTables(s)
      PROVE  Turn(r, DiscountSteps, T)
  <2>1. \A k \in DOMAIN Memory(m).rows : k[1] \in SavedTables(s)
    BY <1>9 DEF Memory, NoMem
  <2> QED BY <1>2, <1>9, <2>1, TurnBegunToSave
<1>10. ASSUME NEW s \in {"discount.reload", "discounts.reload", "links.reload"}, At(r, s),
              NEW t \in {"discount.write", "discounts.write", "links.write"}, Reload(r, t),
              SavedTables(s) \subseteq SavedTables(t)
       PROVE  Turn(r, DiscountSteps, T)
  BY <1>2, <1>10, TurnReloading DEF At
<1>11. ASSUME NEW s \in {"discount.write", "discounts.write", "links.write"}, At(r, s),
              NEW t \in Quiet, NEW m, Write(r, t, m)
       PROVE  Turn(r, DiscountSteps, T)
  <2>1. SavedTables(s) \subseteq T
    BY <1>3
  <2>2. t \in DiscountSteps /\ t \notin Carrying /\ "error" \in DiscountSteps
    BY <1>1
  <2> QED BY <1>2, <1>11, <2>1, <2>2, TurnWriting DEF At
<1>12. CASE AddDiscount(r) \/ UpdateDiscount(r) \/ AddDiscountTransaction(r) \/ DeleteDiscount(r)
  <2>1. PICK s \in {"discount.stores", "discount.find", "error", "discount.mark"} :
          \E m : Begin(r, s, m) /\ UNCHANGED <<db, hist>>
    BY <1>12 DEF AddDiscount, UpdateDiscount, AddDiscountTransaction, DeleteDiscount
  <2> QED BY <1>5, <2>1
<1>13. CASE AddDiscountStores(r) \/ UpdateDiscountStores(r)
  <2>1. PICK s \in {"error", "ok", "discount.insert", "links.insert"} : \E m : Reads(r, s, m)
    BY <1>13 DEF AddDiscountStores, UpdateDiscountStores
  <2>2. r \in Open
    BY <1>4, <1>13 DEF AddDiscountStores, UpdateDiscountStores, Ended
  <2> QED BY <1>6, <2>1, <2>2
<1>14. CASE AddDiscountInsert(r)
  <2> DEFINE row(k) == DiscountRow(mem[r].dto.code, mem[r].dto.status)
             rows == Single(<<"discount", r>>, DiscountRow(mem[r].dto.code, mem[r].dto.status))
  <2>1. r \in Open /\ InsertThen(r, rows, "discount.links", <<>>)
    BY <1>4, <1>14 DEF AddDiscountInsert, Ended
  <2>2. \A k \in DOMAIN rows : k[1] \in T
    BY DEF Single
  <2>3. /\ "discount.links" \in DiscountSteps /\ "discount.links" \notin Carrying
        /\ "error" \in DiscountSteps
    BY <1>1
  <2> HIDE DEF rows
  <2> QED BY <2>1, <2>2, <2>3, TurnInserting
<1>15. CASE AddDiscountLinks(r) \/ UpdateDiscountLinks(r)
  <2>1. PICK d, stores, status : InsertThen(r, NewLinks(r, d, stores, status), "ok", NoMem)
    BY <1>15 DEF AddDiscountLinks, UpdateDiscountLinks
  <2>2. \A k \in DOMAIN NewLinks(r, d, stores, status) : k[1] \in T
    BY DEF NewLinks
  <2>3. r \in Open
    BY <1>4, <1>15 DEF AddDiscountLinks, UpdateDiscountLinks, Ended
  <2>4. "ok" \in DiscountSteps /\ "ok" \notin Carrying /\ "error" \in DiscountSteps
    BY <1>1
  <2> QED BY <2>1, <2>2, <2>3, <2>4, TurnInserting
<1>16. CASE UpdateDiscountFind(r)
  <2>1. r \in Open
    BY <1>4, <1>16 DEF UpdateDiscountFind, Ended
  <2>2. CASE Reads(r, "error", NoMem)
    BY <1>6, <2>1, <2>2
  <2>3. CASE \E row : Reads(r, "discount.reload",
                        Save(Single(<<"discount", mem[r].dto.id>>, row), {"code", "status"}))
    <3>1. PICK row : Reads(r, "discount.reload",
                        Save(Single(<<"discount", mem[r].dto.id>>, row), {"code", "status"}))
      BY <2>3
    <3> DEFINE m == Save(Single(<<"discount", mem[r].dto.id>>, row), {"code", "status"})
    <3>2. /\ DOMAIN m \subseteq {"dto", "rows", "meant"} /\ "rows" \in DOMAIN m
          /\ \A k \in DOMAIN m.rows : k[1] \in SavedTables("discount.reload")
      BY <1>3 DEF Save, Single
    <3> HIDE DEF m
    <3> QED BY <1>8, <2>1, <3>1, <3>2 DEF m
  <2> QED BY <1>16, <2>2, <2>3 DEF UpdateDiscountFind
<1>17. CASE DiscountReload(r) \/ LinksReload(r) \/ DeleteDiscountsReload(r)
  BY <1>3, <1>10, <1>17 DEF DiscountReload, LinksReload, DeleteDiscountsReload
<1>18. CASE DiscountWrite(r) \/ LinksWrite(r) \/ DeleteDiscountsWrite(r)
  <2>1. PICK s \in {"discount.write", "discounts.write", "links.write"},
             t \in {"ok", "discount.diff", "links.stores", "discount.links.find"} :
          At(r, s) /\ \E m : Write(r, t, m)
    BY <1>18 DEF DiscountWrite, LinksWrite, DeleteDiscountsWrite
  <2> QED BY <1>11, <2>1
<1>19. ASSUME NEW dto, NEW links, r \in Open,
              Reads(r, "links.reload", SaveWith(dto, LinksDeleted(links), {"at"}))
       PROVE  Turn(r, DiscountSteps, T)
  <2> DEFINE m == SaveWith(dto, LinksDeleted(links), {"at"})
  <2>1. /\ DOMAIN m \subseteq {"dto", "rows", "meant"} /\ "rows" \in DOMAIN m
        /\ \A k \in DOMAIN m.rows : k[1] \in SavedTables("links.reload")
    BY <1>3 DEF SaveWith, LinksDeleted
  <2>2. Reads(r, "links.reload", m)
    BY <1>19
  <2> HIDE DEF m
  <2> QED BY <1>8, <1>19, <2>1, <2>2
<1>20. CASE UpdateDiscountDiff(r)
  <2>1. PICK dto, links : Reads(r, "links.reload", SaveWith(dto, LinksDeleted(links), {"at"}))
    BY <1>20 DEF UpdateDiscountDiff
  <2> QED BY <1>4, <1>19, <1>20, <2>1 DEF UpdateDiscountDiff, Ended
<1>21. CASE DeleteDiscountLinks(r)
  <2>1. r \in Open
    BY <1>4, <1>21 DEF DeleteDiscountLinks, Ended
  <2>2. CASE Reads(r, "error", NoMem)
    BY <1>6, <2>1, <2>2
  <2>3. CASE \E links : Reads(r, "links.reload", SaveWith(Null, LinksDeleted(links), {"at"}))
    BY <1>19, <2>1, <2>3
  <2> QED BY <1>21, <2>2, <2>3 DEF DeleteDiscountLinks
<1>22. CASE ChangeDiscountStatus(r)
  <2>1. PICK d, row : /\ Begin(r, "discount.reload", Save(Single(<<"discount", d>>, row), {"status"}))
                      /\ UNCHANGED <<db, hist>>
    BY <1>22 DEF ChangeDiscountStatus
  <2> DEFINE m == Save(Single(<<"discount", d>>, row), {"status"})
  <2>2. /\ "rows" \in DOMAIN m
        /\ \A k \in DOMAIN m.rows : k[1] \in SavedTables("discount.reload")
    BY <1>3 DEF Save, Single
  <2> HIDE DEF m
  <2> QED BY <1>9, <2>1, <2>2 DEF m
<1>23. CASE DeleteDiscounts(r)
  <2>1. PICK ids, found :
          /\ Begin(r, "discounts.reload",
               SaveWith([ids |-> ids, one |-> FALSE],
                        [k \in {"discount"} \X found |-> Assigned(db[k], Deleted)], {"at"}))
          /\ UNCHANGED <<db, hist>>
    BY <1>23 DEF DeleteDiscounts
  <2> DEFINE m == SaveWith([ids |-> ids, one |-> FALSE],
                        [k \in {"discount"} \X found |-> Assigned(db[k], Deleted)], {"at"})
  <2>2. /\ "rows" \in DOMAIN m
        /\ \A k \in DOMAIN m.rows : k[1] \in SavedTables("discounts.reload")
    BY <1>3 DEF SaveWith
  <2> HIDE DEF m
  <2> QED BY <1>9, <2>1, <2>2 DEF m
<1>24. CASE DeleteDiscountMark(r)
  <2>1. /\ Updates(r, {"discount"} \X mem[r].dto.ids, Deleted)
        /\ Goto(r, "discount.links.find", <<>>) /\ r \in Open
    BY <1>4, <1>24 DEF DeleteDiscountMark, Ended
  <2>2. \A k \in {"discount"} \X mem[r].dto.ids : k[1] \in T
    OBVIOUS
  <2>3. "discount.links.find" \in DiscountSteps /\ "discount.links.find" \notin Carrying
    BY <1>1
  <2> QED BY <2>1, <2>2, <2>3, TurnUpdating
<1> QED BY <1>12, <1>13, <1>14, <1>15, <1>16, <1>17, <1>18, <1>20, <1>21, <1>22, <1>23, <1>24
        DEF DiscountOperation

LEMMA CategoryTurn ==
    ASSUME CatInv, RowsInv, NEW r \in Request, CategoryOperation(r)
    PROVE  Turn(r, MenuSteps, MenuTables)
<1>1. /\ {"ok", "error", "mark", "entity.reload", "entity.write"} \subseteq MenuSteps
      /\ {"ok", "error"} \cap Carrying = {}
      /\ "entity.reload" \in PlainReading /\ "entity.write" \in PlainWriting
  BY DEF MenuSteps, Ended, Carrying, PlainReading, PlainWriting
<1>2. /\ SavedTables("entity.reload") = {"category", "product"}
      /\ SavedTables("entity.write") = {"category", "product", "group"}
      /\ {"category", "product", "group"} \subseteq MenuTables
  BY DEF SavedTables, MenuTables
<1>3. CASE AddCategory(r)
  <2>1. PICK row : Begin(r, "ok", NoMem) /\ Inserts(r, Single(<<"category", r>>, row))
    BY <1>3 DEF AddCategory
  <2>2. \A k : k[1] \notin MenuTables => Kept(k)
    <3>1. \A k \in DOMAIN Single(<<"category", r>>, row) : k[1] \in MenuTables
      BY <1>2 DEF Single
    <3> QED BY <2>1, <3>1, InsertsKeep
  <2> QED BY <1>1, <2>1, <2>2, TurnBegun
<1>4. CASE EditCategory(r)
  <2>1. PICK c, row : /\ Begin(r, "entity.reload", Save(Single(<<"category", c>>, row), {"title"}))
                      /\ UNCHANGED <<db, hist>>
    BY <1>4 DEF EditCategory
  <2> DEFINE m == Save(Single(<<"category", c>>, row), {"title"})
  <2>2. \A k \in DOMAIN Memory(m).rows : k[1] \in SavedTables("entity.reload")
    BY <1>2 DEF Memory, NoMem, Save, Single
  <2> HIDE DEF m
  <2> QED BY <1>1, <2>1, <2>2, TurnBegunToSave DEF m
<1>5. CASE DeleteCategory(r)
  <2>1. PICK c : Begin(r, "mark", [dto |-> <<"category", c>>]) /\ UNCHANGED <<db, hist>>
    BY <1>5 DEF DeleteCategory
  <2>2. step'[r] = "mark" /\ mem'[r] = Memory([dto |-> <<"category", c>>]) => RowsHeld(r)'
    BY DEF RowsHeld, Memory, NoMem, PlainReading, PlainWriting
  <2> QED BY <1>1, <2>1, <2>2, TurnBegins, ReadsKeep
<1>6. CASE Mark(r)
  <2>1. /\ Updates(r, {mem[r].dto}, Deleted) /\ Goto(r, "ok", NoMem)
        /\ r \in Open /\ step[r] = "mark"
    BY <1>6, Under DEF Mark, Ended
  <2>2. \A k \in {mem[r].dto} : k[1] \in MenuTables
    BY <1>2, <2>1 DEF RowsInv, RowsHeld
  <2> QED BY <1>1, <2>1, <2>2, TurnUpdating
<1>7. CASE EntityReload(r)
  <2>1. step[r] = "entity.reload" /\ Reload(r, "entity.write")
    BY <1>7, Under DEF EntityReload
  <2>2. SavedTables(step[r]) \subseteq SavedTables("entity.write")
    BY <1>2, <2>1
  <2> QED BY <1>1, <2>1, <2>2, TurnReloading
<1>8. CASE EntityWrite(r)
  <2>1. step[r] = "entity.write" /\ Write(r, "ok", NoMem)
    BY <1>8, Under DEF EntityWrite
  <2>2. SavedTables(step[r]) \subseteq MenuTables
    BY <1>2, <2>1
  <2> QED BY <1>1, <2>1, <2>2, TurnWriting
<1> QED BY <1>3, <1>4, <1>5, <1>6, <1>7, <1>8 DEF CategoryOperation

LEMMA ProductTurn ==
    ASSUME CatInv, RowsInv, NEW r \in Request, ProductOperation(r)
    PROVE  Turn(r, MenuSteps, MenuTables)
<1>1. /\ {"ok", "error", "mark", "entity.reload", "product.insert", "product.check"} \subseteq MenuSteps
      /\ {"ok", "error", "product.insert"} \cap Carrying = {}
      /\ {"entity.reload", "product.check"} \subseteq PlainReading
  BY DEF MenuSteps, Ended, Carrying, PlainReading, PlainWriting
<1>2. /\ \A s \in {"entity.reload", "product.check"} : SavedTables(s) = {"category", "product"}
      /\ {"category", "product"} \subseteq MenuTables
  BY DEF SavedTables, MenuTables
<1>3. CASE AddProduct(r)
  <2>1. PICK m : Begin(r, "product.insert", m) /\ UNCHANGED <<db, hist>>
    BY <1>3 DEF AddProduct
  <2> QED BY <1>1, <2>1, TurnBegunReading
<1>4. CASE AddProductInsert(r)
  <2>1. r \in Open /\ InsertThen(r, Single(<<"product", r>>, mem[r].dto), "ok", NoMem)
    BY <1>4, Under DEF AddProductInsert, Ended
  <2>2. \A k \in DOMAIN Single(<<"product", r>>, mem[r].dto) : k[1] \in MenuTables
    BY <1>2 DEF Single
  <2> QED BY <1>1, <2>1, <2>2, TurnInserting
<1>5. CASE EditProduct(r)
  <2>1. PICK p, row, meant : /\ Begin(r, "product.check", Save(Single(<<"product", p>>, row), meant))
                             /\ UNCHANGED <<db, hist>>
    BY <1>5 DEF EditProduct
  <2> DEFINE m == Save(Single(<<"product", p>>, row), meant)
  <2>2. \A k \in DOMAIN Memory(m).rows : k[1] \in SavedTables("product.check")
    BY <1>2 DEF Memory, NoMem, Save, Single
  <2> HIDE DEF m
  <2> QED BY <1>1, <2>1, <2>2, TurnBegunToSave DEF m
<1>6. CASE EditProductCheck(r)
  <2>1. r \in Open /\ step[r] = "product.check"
    BY <1>6, Under DEF EditProductCheck, Ended
  <2>2. CASE Reads(r, "error", <<>>)
    BY <1>1, <2>1, <2>2, TurnReading
  <2>3. CASE Reads(r, "entity.reload", <<>>)
    <3>1. DOMAIN NoMem \subseteq DOMAIN mem[r]
      BY CatShared DEF HoldInv
    <3>2. Over(<<>>, mem[r]).rows = mem[r].rows
      BY <3>1 DEF Over, NoMem
    <3>3. \A k \in DOMAIN Over(<<>>, mem[r]).rows : k[1] \in SavedTables("entity.reload")
      BY <1>1, <1>2, <2>1, <3>2 DEF RowsInv, RowsHeld
    <3> QED BY <1>1, <2>1, <2>3, <3>3, TurnToSave
  <2> QED BY <1>6, <2>2, <2>3 DEF EditProductCheck
<1>7. CASE DeleteProduct(r)
  <2>1. PICK p : Begin(r, "mark", [dto |-> <<"product", p>>]) /\ UNCHANGED <<db, hist>>
    BY <1>7 DEF DeleteProduct
  <2>2. step'[r] = "mark" /\ mem'[r] = Memory([dto |-> <<"product", p>>]) => RowsHeld(r)'
    BY DEF RowsHeld, Memory, NoMem, PlainReading, PlainWriting
  <2> QED BY <1>1, <2>1, <2>2, TurnBegins, ReadsKeep
<1> QED BY <1>3, <1>4, <1>5, <1>6, <1>7 DEF ProductOperation

LEMMA GroupTurn ==
    ASSUME CatInv, RowsInv, NEW r \in Request, GroupOperation(r)
    PROVE  Turn(r, MenuSteps, MenuTables)
<1> DEFINE Quiet == {"group.products", "group.insert", "group.attach", "group.options",
                     "group.mark", "group.markOptions", "group.detach", "ok", "error"} \cup Editing
<1>1. Quiet \subseteq MenuSteps /\ Quiet \cap Carrying = {}
  BY DEF MenuSteps, Ended, Carrying, PlainReading, PlainWriting, Editing
<1>2. {"group", "option", "attached"} \subseteq MenuTables /\ "hours" \notin MenuTables
  BY DEF MenuTables
<1>3. \A s \in {"edit", "edit.detach", "edit.attach.reload", "edit.attach", "edit.attached",
                "edit.option", "edit.option.insert", "edit.option.reload", "edit.option.write"} :
         s \in Quiet
  BY DEF Editing
<1>4. {"group.products", "group.insert", "group.attach", "group.options", "group.mark",
       "group.markOptions", "group.detach", "ok", "error"} \subseteq Quiet
  OBVIOUS
<1> HIDE DEF Quiet
<1>5. ASSUME NEW s, At(r, s), s \notin {"idle"} \cup Ended
      PROVE  r \in Open
  BY <1>5, Under
<1>6. ASSUME NEW s \in Quiet, NEW m, Begin(r, s, m), UNCHANGED <<db, hist>>
      PROVE  Turn(r, MenuSteps, MenuTables)
  BY <1>1, <1>6, TurnBegunReading
<1>7. ASSUME NEW s \in Quiet, NEW m, r \in Open, Reads(r, s, m)
      PROVE  Turn(r, MenuSteps, MenuTables)
  BY <1>1, <1>7, TurnReading
<1>8. ASSUME NEW s \in Quiet, NEW rows, NEW m, r \in Open, InsertThen(r, rows, s, m),
             \A k \in DOMAIN rows : k[1] \in MenuTables
      PROVE  Turn(r, MenuSteps, MenuTables)
  BY <1>1, <1>4, <1>8, TurnInserting
<1>9. ASSUME NEW s \in Quiet, NEW ids, NEW m, r \in Open,
             Removes(r, {"attached"} \X ids), Goto(r, s, m)
      PROVE  Turn(r, MenuSteps, MenuTables)
  <2>1. \A k \in {"attached"} \X ids : k[1] \in {"attached"}
    OBVIOUS
  <2>2. \A k : k[1] \notin {"attached"} => Kept(k)
    BY <1>9, <2>1, RemovesTables
  <2>3. \A k : k[1] \notin MenuTables => Kept(k)
    BY <1>2, <2>2
  <2> QED BY <1>1, <1>9, <2>3, TurnGone
<1>10. CASE AddModifier(r) \/ UpdateModifier(r) \/ DeleteModifier(r)
  <2>1. PICK s \in {"group.products", "edit", "group.mark"} :
          \E m : Begin(r, s, m) /\ UNCHANGED <<db, hist>>
    BY <1>10 DEF AddModifier, UpdateModifier, DeleteModifier
  <2> QED BY <1>3, <1>4, <1>6, <2>1
<1>11. CASE \/ AddModifierProducts(r) \/ UpdateModifierCategories(r)
            \/ UpdateModifierAttachReload(r) \/ UpdateModifierExisting(r)
            \/ UpdateModifierOptionReload(r)
  <2>1. PICK s \in {"group.insert", "error", "edit.detach", "edit.attach", "edit.option",
                    "edit.option.write"} : \E m : Reads(r, s, m)
    BY <1>11 DEF AddModifierProducts, UpdateModifierCategories, UpdateModifierAttachReload,
                 UpdateModifierExisting, UpdateModifierOptionReload, Reload
  <2>2. r \in Open
    BY <1>5, <1>11 DEF AddModifierProducts, UpdateModifierCategories,
                 UpdateModifierAttachReload, UpdateModifierExisting, UpdateModifierOptionReload,
                 Ended
  <2> QED BY <1>3, <1>4, <1>7, <2>1, <2>2
<1>12. CASE AddModifierInsert(r)
  <2>1. r \in Open /\ InsertThen(r, Single(<<"group", r>>, GroupRow("new")), "group.attach", <<>>)
    BY <1>5, <1>12 DEF AddModifierInsert, Ended
  <2>2. \A k \in DOMAIN Single(<<"group", r>>, GroupRow("new")) : k[1] \in MenuTables
    BY <1>2 DEF Single
  <2> QED BY <1>4, <1>8, <2>1, <2>2
<1>13. CASE AddModifierAttach(r)
  <2>1. r \in Open /\ InsertThen(r, Attach(r, mem[r].dto.categories), "group.options", <<>>)
    BY <1>5, <1>13 DEF AddModifierAttach, Ended
  <2>2. \A k \in DOMAIN Attach(r, mem[r].dto.categories) : k[1] \in MenuTables
    BY <1>2 DEF Attach
  <2> QED BY <1>4, <1>8, <2>1, <2>2
<1>14. CASE AddModifierOptions(r)
  <2> DEFINE options == mem[r].dto.options
             rows == [k \in {"option"} \X ({r} \X DOMAIN options) |->
                        OptionRow(r, options[k[2][2]].product, options[k[2][2]].price)]
  <2>1. r \in Open /\ InsertThen(r, rows, "ok", NoMem)
    BY <1>5, <1>14 DEF AddModifierOptions, Ended
  <2>2. \A k \in DOMAIN rows : k[1] \in MenuTables
    BY <1>2
  <2> HIDE DEF rows
  <2> QED BY <1>4, <1>8, <2>1, <2>2
<1>15. CASE UpdateModifierDetach(r)
  <2>1. PICK ids, m : Removes(r, {"attached"} \X ids) /\ Goto(r, "edit.attach.reload", m)
    BY <1>15 DEF UpdateModifierDetach
  <2>2. r \in Open
    BY <1>5, <1>15 DEF UpdateModifierDetach, Ended
  <2> QED BY <1>3, <1>9, <2>1, <2>2
<1>16. ASSUME NEW s \in {"edit.attach", "edit.option.write"}, At(r, s), NEW t \in Quiet, NEW m,
              Write(r, t, m)
       PROVE  Turn(r, MenuSteps, MenuTables)
  <2>1. r \in Open /\ step[r] = s
    BY <1>16, Under DEF Ended
  <2>2. Compared(CatalogueColumns, r) /\ ColumnInv(CatalogueColumns)
    BY <1>16, <2>1, CatShared DEF CatInv, CatSaveInv, SaveInv, Keeps, Writing
  <2>3. \A k : k \notin DOMAIN mem[r].rows => Kept(k)
    BY <1>16, <2>2, CatReferences, WritesKeep
  <2>4. \A k \in DOMAIN mem[r].rows : k[1] \in MenuTables
    BY <1>2, <2>1 DEF CatInv, Told
  <2>5. \A k : k[1] \notin MenuTables => Kept(k)
    BY <2>3, <2>4
  <2>6. CASE Goto(r, t, m)
    BY <1>1, <2>1, <2>5, <2>6, TurnGone
  <2>7. CASE Goto(r, "error", NoMem)
    BY <1>1, <1>4, <2>1, <2>5, <2>7, TurnGone
  <2> QED BY <1>16, <2>6, <2>7 DEF Write, Reads
<1>17. CASE UpdateModifierAttach(r) \/ UpdateModifierOptionWrite(r)
  BY <1>3, <1>16, <1>17 DEF UpdateModifierAttach, UpdateModifierOptionWrite
<1>18. CASE UpdateModifierOption(r)
  <2>1. PICK s \in {"error", "edit.option.insert", "edit.option.reload"} : \E m : Reads(r, s, m)
    BY <1>18 DEF UpdateModifierOption
  <2>2. r \in Open
    BY <1>5, <1>18 DEF UpdateModifierOption, Ended
  <2> QED BY <1>3, <1>4, <1>7, <2>1, <2>2
<1>19. CASE UpdateModifierOptionInsert(r)
  <2>1. r \in Open /\ InsertThen(r, mem[r].rows, "edit.option", <<>>)
    BY <1>5, <1>19 DEF UpdateModifierOptionInsert, Ended
  <2>2. \A k \in DOMAIN mem[r].rows : k[1] \in MenuTables
    BY <1>2, <1>19, Under DEF UpdateModifierOptionInsert, CatInv, Told, OptionKey
  <2> QED BY <1>3, <1>8, <2>1, <2>2
<1>20. CASE UpdateModifierGroup(r)
  <2> DEFINE rows == Single(<<"group", mem[r].dto.id>>, mem[r].dto.group)
             m == [dto |-> Null, rows |-> rows, meant |-> {"title"}, dirty |-> DirtyOf(rows)]
  <2>1. r \in Open /\ Reads(r, "entity.write", m)
    BY <1>5, <1>20 DEF UpdateModifierGroup, Ended
  <2>2. \A k \in DOMAIN Over(m, mem[r]).rows : k[1] \in SavedTables("entity.write")
    BY DEF Over, Single, SavedTables
  <2>3. "entity.write" \in PlainReading \cup PlainWriting /\ "entity.write" \in MenuSteps
    BY DEF PlainWriting, MenuSteps
  <2> HIDE DEF m
  <2> QED BY <2>1, <2>2, <2>3, TurnToSave
<1>21. CASE DeleteModifierGroup(r)
  <2>1. /\ Updates(r, {<<"group", mem[r].dto>>}, Deleted) /\ Goto(r, "group.markOptions", <<>>)
        /\ r \in Open
    BY <1>5, <1>21 DEF DeleteModifierGroup, Ended
  <2>2. \A k \in {<<"group", mem[r].dto>>} : k[1] \in MenuTables
    BY <1>2
  <2> QED BY <1>1, <1>4, <2>1, <2>2, TurnUpdating
<1>22. CASE DeleteModifierOptions(r)
  <2> DEFINE keys == {k \in DOMAIN db : k[1] = "option" /\ db[k].group = mem[r].dto}
  <2>1. Updates(r, keys, Deleted) /\ Goto(r, "group.detach", <<>>) /\ r \in Open
    BY <1>5, <1>22 DEF DeleteModifierOptions, Ended
  <2>2. \A k \in keys : k[1] \in MenuTables
    BY <1>2
  <2> HIDE DEF keys
  <2> QED BY <1>1, <1>4, <2>1, <2>2, TurnUpdating
<1>23. CASE DeleteModifierDetach(r)
  <2>1. PICK ids : Removes(r, {"attached"} \X ids) /\ Goto(r, "ok", NoMem)
    BY <1>23 DEF DeleteModifierDetach
  <2>2. r \in Open
    BY <1>5, <1>23 DEF DeleteModifierDetach, Ended
  <2> QED BY <1>4, <1>9, <2>1, <2>2
<1> QED BY <1>10, <1>11, <1>12, <1>13, <1>14, <1>15, <1>17, <1>18, <1>19, <1>20, <1>21, <1>22,
           <1>23 DEF GroupOperation

LEMMA FailsTurn ==
    ASSUME CatInv, NEW r \in Request, Fails(r), NEW S, Ended \subseteq S, NEW T
    PROVE  Turn(r, S, T)
<1>1. r \in Open /\ Goto(r, "error", NoMem) /\ UNCHANGED <<db, hist>>
  BY DEF Fails, Open
<1>2. "error" \in S /\ "error" \notin Carrying
  BY EndedEmpty DEF Ended
<1> QED BY <1>1, <1>2, TurnGone, ReadsKeep

LEMMA OperationTurn ==
    ASSUME CatInv, RowsInv, NEW r \in Request, Operation(r)
    PROVE  \/ StoreOperation(r) /\ Turn(r, StoreSteps, {"store", "hours"})
           \/ HoursOperation(r) /\ Turn(r, HoursSteps, {"hours"})
           \/ DiscountOperation(r) /\ Turn(r, DiscountSteps, {"discount", "link"})
           \/ Turn(r, MenuSteps, MenuTables)
<1>1. CASE EntityWrite(r)
  BY <1>1, CategoryTurn DEF CategoryOperation
<1>2. CASE Fails(r)
  BY <1>2, FailsTurn, EndedSteps
<1> QED BY <1>1, <1>2, StoreTurn, HoursTurn, DiscountTurn, CategoryTurn, ProductTurn, GroupTurn
        DEF Operation

LEMMA RowsStay ==
    ASSUME RowsInv, NEW r \in Request, HoldInv, NEW S, NEW T, Turn(r, S, T)
    PROVE  /\ RowsInv'
           /\ \A q \in Request \ {r} : step'[q] = step[q] /\ mem'[q] = mem[q]
<1>1. \A q \in Request \ {r} : step'[q] = step[q] /\ mem'[q] = mem[q]
  BY DEF Turn, StepsTo, HoldInv
<1>2. ASSUME NEW q \in Request
      PROVE  RowsHeld(q)'
  <2>1. CASE q = r
    BY <2>1 DEF Turn
  <2>2. CASE q # r
    BY <1>1, <2>2 DEF RowsInv, RowsHeld
  <2> QED BY <2>1, <2>2
<1> QED BY <1>1, <1>2 DEF RowsInv

\* What the other requests see of it.
LEMMA TurnMoves ==
    ASSUME CatInv, NEW r \in Request, NEW S, NEW T, Turn(r, S, T), "idle" \notin S
    PROVE  /\ HoldInv' /\ MetInv' /\ MetGrows
           /\ step[r] \notin Ended
           /\ \A q \in Request \ {r} : step'[q] = step[q] /\ mem'[q] = mem[q]
           /\ \A q \in Open' \ {r} : r \in met'[q] /\ q \in met'[r]
<1>1. HoldInv /\ MetInv
  BY CatShared
<1>2. /\ HoldInv' /\ MetInv'
      /\ MetGrows
      /\ \A q \in Open' \ {r} : q \in Open
      /\ \A q \in Open \ {r} : r \in met'[q] /\ q \in met'[r]
  BY <1>1, OpenStep DEF Turn, MetGrows
<1>3. step[r] \notin Ended
  BY DEF Turn, Begins, GoesOn, Open, Ended
<1>4. \A q \in Request \ {r} : step'[q] = step[q] /\ mem'[q] = mem[q]
  BY <1>1 DEF Turn, StepsTo, HoldInv
<1> QED BY <1>2, <1>3, <1>4

-----------------------------------------------------------------------------
(* Opening hours.                                                          *)

\* What a step may do to the rows of opening hours: a row that is its
\* maker's own was so, and stays where it was, or r inserts it.
HoursEffect(r) ==
    /\ \A j \in Request \cup {Null} :
          HoursKey(j) \in DOMAIN hist' \ DOMAIN hist => j = r /\ step'[r] \in Ended
    /\ \A j \in Request : OwnDay(j)' =>
          LET k == HoursKey(j)
          IN  \/ /\ OwnDay(j) /\ k \in DOMAIN db'
                 /\ \A c \in {"at", "store", "day"} : db'[k][c] = db[k][c]
              \/ /\ j = r /\ step[r] = "hours.insert" /\ k \notin DOMAIN hist
                 /\ k \in DOMAIN db' /\ db'[k].at = "live"
                 /\ db'[k].store = mem[r].dto.store /\ db'[k].day = mem[r].dto.day

LEMMA HoursKept ==
    ASSUME HoursInv, NEW j \in Request, Kept(HoursKey(j)), OwnDay(j)'
    PROVE  /\ OwnDay(j) /\ HoursKey(j) \in DOMAIN db'
           /\ \A c \in {"at", "store", "day"} : db'[HoursKey(j)][c] = db[HoursKey(j)][c]
<1>1. OwnDay(j)
  BY DEF Kept, OwnDay
<1>2. HoursKey(j) \in DOMAIN db
  BY <1>1 DEF HoursInv, OwnLive
<1> QED BY <1>1, <1>2 DEF Kept

LEMMA HoursAlone ==
    ASSUME HoursInv, NEW r, NEW T, "hours" \notin T, \A k : k[1] \notin T => Kept(k)
    PROVE  HoursEffect(r)
<1>1. \A j : Kept(HoursKey(j))
  BY DEF HoursKey
<1>2. \A j : HoursKey(j) \in DOMAIN hist' => HoursKey(j) \in DOMAIN hist
  BY <1>1 DEF Kept
<1> QED BY <1>1, <1>2, HoursKept DEF HoursEffect

LEMMA HoursRemoved ==
    ASSUME CatInv, HoursInv, NEW r \in Request, step[r] \notin Ended,
           NEW keys \in SUBSET DOMAIN db, Removes(r, keys)
    PROVE  HoursEffect(r)
<1>1. ColumnInv(CatalogueColumns)
  BY CatShared
<1>2. DOMAIN hist' = DOMAIN hist
  BY <1>1, RemovesSpare
<1>3. ASSUME NEW j \in Request, OwnDay(j)'
      PROVE  /\ OwnDay(j) /\ HoursKey(j) \in DOMAIN db'
             /\ \A c \in {"at", "store", "day"} : db'[HoursKey(j)][c] = db[HoursKey(j)][c]
  <2>1. HoursKey(j) \in DOMAIN hist /\ j # r
    BY <1>2, <1>3 DEF OwnDay, HoursInv, HoursNamed
  <2>2. HoursKey(j) \notin Removal(keys)
    <3> SUFFICES ASSUME HoursKey(j) \in Removal(keys)
                 PROVE  FALSE
      OBVIOUS
    <3>1. HoursKey(j) \in DOMAIN db
      BY DEF Removal
    <3>2. "store" \in DOMAIN db[HoursKey(j)]
      BY <1>1, <3>1 DEF ColumnInv, Schema, CatalogueColumns, HoursKey
    <3>3. hist'[HoursKey(j)]["store"].by = r
      BY <3>2, RemovesKeep
    <3> QED BY <1>3, <2>1, <3>3 DEF OwnDay, HoursKey
  <2>3. Kept(HoursKey(j))
    BY <2>2, RemovesKeep
  <2> QED BY <1>3, <2>3, HoursKept
<1> QED BY <1>2, <1>3 DEF HoursEffect

LEMMA HoursToldNothing ==
    ASSUME NEW r, step'[r] \notin {"hours.preload", "hours.reload", "hours.write", "hours.insert"}
    PROVE  HoursTold(r)'
BY DEF HoursTold

LEMMA HoursStep ==
    ASSUME CatInv, HoursInv, NEW r \in Request, NEW S, NEW T, Turn(r, S, T), "idle" \notin S,
           HoursEffect(r), HoursTold(r)'
    PROVE  HoursInv'
<1>1. /\ MetInv /\ MetInv' /\ MetGrows /\ step[r] \notin Ended
      /\ \A q \in Request \ {r} : step'[q] = step[q] /\ mem'[q] = mem[q]
      /\ \A q \in Open' \ {r} : r \in met'[q] /\ q \in met'[r]
  BY TurnMoves, CatShared
<1>2. HoursNamed'
  <2>1. HoursKey(Null) \notin DOMAIN hist'
    <3>1. Null # r
      BY BoundAssumption
    <3>2. HoursKey(Null) \notin DOMAIN hist
      BY DEF HoursInv, HoursNamed
    <3> QED BY <3>1, <3>2 DEF HoursEffect
  <2>2. ASSUME NEW j \in Request, HoursKey(j) \in DOMAIN hist'
        PROVE  step'[j] \in Ended
    <3>1. CASE HoursKey(j) \in DOMAIN hist
      <4>1. step[j] \in Ended
        BY <3>1 DEF HoursInv, HoursNamed
      <4> QED BY <1>1, <4>1
    <3>2. CASE HoursKey(j) \notin DOMAIN hist
      BY <2>2, <3>2 DEF HoursEffect
    <3> QED BY <3>1, <3>2
  <2> QED BY <2>1, <2>2 DEF HoursNamed, HoursKey
<1>3. OwnLive'
  BY DEF HoursInv, OwnLive, HoursEffect, HoursKey
<1>4. ASSUME NEW i \in Request, NEW j \in Request, i # j, OwnDay(i)', OwnDay(j)',
             \A c \in {"store", "day"} : db'[HoursKey(i)][c] = db'[HoursKey(j)][c]
      PROVE  i \in met'[j]
  <2> DEFINE Old(h) == /\ OwnDay(h)
                       /\ \A c \in {"store", "day"} : db'[HoursKey(h)][c] = db[HoursKey(h)][c]
             New(h) == /\ h = r /\ step[r] = "hours.insert"
                       /\ db'[HoursKey(h)].store = mem[r].dto.store
                       /\ db'[HoursKey(h)].day = mem[r].dto.day
  <2>1. \A h \in {i, j} : Old(h) \/ New(h)
    BY <1>4 DEF HoursEffect
  <2>2. ASSUME NEW h \in Request, Old(h), step[r] = "hours.insert",
               db'[HoursKey(h)].store = mem[r].dto.store, db'[HoursKey(h)].day = mem[r].dto.day
        PROVE  h \in met[r] /\ r \in met[h]
    <3>1. h \in met[r]
      BY <2>2 DEF HoursInv, HoursTold
    <3> QED BY <1>1, <3>1 DEF MetInv
  <2>3. CASE Old(i) /\ Old(j)
    <3>1. i \in met[j]
      BY <1>4, <2>3 DEF HoursInv, DaysApart
    <3> QED BY <1>1, <3>1 DEF MetGrows
  <2>4. CASE New(i) /\ Old(j)
    <3>1. i \in met[j]
      BY <1>4, <2>2, <2>4
    <3> QED BY <1>1, <3>1 DEF MetGrows
  <2>5. CASE Old(i) /\ New(j)
    <3>1. i \in met[j]
      BY <1>4, <2>2, <2>5
    <3> QED BY <1>1, <3>1 DEF MetGrows
  <2> QED BY <1>4, <2>1, <2>3, <2>4, <2>5
<1>5. DaysApart'
  BY <1>4 DEF DaysApart, HoursKey
<1>6. ASSUME NEW q \in Request, q # r
      PROVE  HoursTold(q)'
  <2>1. step'[q] = step[q] /\ mem'[q] = mem[q] /\ HoursTold(q) /\ Told(q)
    BY <1>1, <1>6 DEF HoursInv, CatInv
  <2>2. step[q] = "hours.preload" => "at" \notin DOMAIN mem[q].dto.values
    BY <2>1 DEF HoursTold
  <2>3. ASSUME step[q] \in {"hours.reload", "hours.write"}
        PROVE  /\ "at" \notin mem[q].meant
               /\ \A k \in DOMAIN mem[q].rows : mem[q].meant \subseteq DOMAIN mem[q].rows[k]
               /\ \A j \in Request : HoursKey(j) \in DOMAIN mem[q].rows /\ OwnDay(j)' =>
                    \A c \in {"at", "store", "day"} \ mem[q].meant :
                        c \in DOMAIN mem[q].rows[HoursKey(j)] =>
                            mem[q].rows[HoursKey(j)][c] = db'[HoursKey(j)][c]
    <3>1. DOMAIN mem[q].rows \subseteq DOMAIN hist
      BY <2>1, <2>3 DEF Told, Reading, Writing, PlainReading, PlainWriting
    <3>2. \A j \in Request : HoursKey(j) \in DOMAIN mem[q].rows /\ OwnDay(j)' =>
             OwnDay(j) /\ \A c \in {"at", "store", "day"} : db'[HoursKey(j)][c] = db[HoursKey(j)][c]
      BY <3>1 DEF HoursEffect
    <3> QED BY <2>1, <2>3, <3>2 DEF HoursTold
  <2>4. ASSUME step[q] = "hours.insert", NEW j \in Request, OwnDay(j)',
               db'[HoursKey(j)].store = mem[q].dto.store, db'[HoursKey(j)].day = mem[q].dto.day
        PROVE  j \in met'[q]
    <3>1. CASE OwnDay(j) /\ \A c \in {"at", "store", "day"} : db'[HoursKey(j)][c] = db[HoursKey(j)][c]
      <4>1. j \in met[q]
        BY <2>1, <2>4, <3>1 DEF HoursTold
      <4> QED BY <1>1, <4>1 DEF MetGrows
    <3>2. CASE j = r
      <4>1. q \in Open' \ {r}
        BY <1>6, <2>1, <2>4 DEF Open, Ended
      <4> QED BY <1>1, <3>2, <4>1
    <3> QED BY <2>4, <3>1, <3>2 DEF HoursEffect
  <2> QED BY <2>1, <2>2, <2>3, <2>4 DEF HoursTold, HoursKey
<1> QED BY <1>2, <1>3, <1>5, <1>6 DEF HoursInv

-----------------------------------------------------------------------------
(* Where a request is after a step.                                        *)

LEMMA BegunAt ==
    ASSUME CatInv, NEW r \in Request, NEW s, NEW m, Begin(r, s, m)
    PROVE  step[r] = "idle" /\ step'[r] = s /\ mem'[r] = Memory(m)
BY CatShared, BeginSteps DEF HoldInv, StepsTo

LEMMA GoneTo ==
    ASSUME CatInv, NEW r \in Request, NEW s, NEW m, Goto(r, s, m)
    PROVE  /\ step'[r] = s
           /\ s \notin Ended => mem'[r] = Over(m, mem[r])
           /\ DOMAIN NoMem \subseteq DOMAIN mem[r]
BY CatShared, GotoSteps DEF HoldInv, StepsTo

LEMMA HoursRead ==
    ASSUME HoursInv, NEW r, UNCHANGED <<db, hist>>
    PROVE  /\ HoursEffect(r)
           /\ \A j : OwnDay(j)' => OwnDay(j)
<1>1. \A k : k[1] \notin {} => Kept(k)
  BY ReadsKeep
<1>2. "hours" \notin {}
  OBVIOUS
<1>3. HoursEffect(r)
  BY <1>1, <1>2, HoursAlone
<1> QED BY <1>3 DEF OwnDay

\* r is to save one row, all of which but what it sets itself it has just read.
LEMMA HoursToldRow ==
    ASSUME NEW r, UNCHANGED <<db, hist>>, step'[r] \in {"hours.reload", "hours.write"},
           NEW h, NEW row, NEW values, "at" \notin DOMAIN values,
           \A c \in DOMAIN row : row[c] = db[HoursKey(h)][c],
           mem'[r].rows = Single(HoursKey(h), Assigned(row, values)),
           mem'[r].meant = DOMAIN values
    PROVE  HoursTold(r)'
<1>1. /\ DOMAIN mem'[r].rows = {HoursKey(h)}
      /\ mem'[r].rows[HoursKey(h)] = Assigned(row, values)
  BY DEF Single
<1>2. /\ DOMAIN values \subseteq DOMAIN Assigned(row, values)
      /\ \A c \in DOMAIN Assigned(row, values) \ DOMAIN values :
            c \in DOMAIN row /\ Assigned(row, values)[c] = row[c]
  BY DEF Assigned, Over
<1>3. \A j \in Request : HoursKey(j) \in DOMAIN mem'[r].rows =>
         \A c \in {"at", "store", "day"} \ mem'[r].meant :
             c \in DOMAIN mem'[r].rows[HoursKey(j)] =>
                 mem'[r].rows[HoursKey(j)][c] = db'[HoursKey(j)][c]
  BY <1>1, <1>2
<1> QED BY <1>1, <1>2, <1>3 DEF HoursTold, HoursKey

LEMMA HoursWritten ==
    ASSUME CatInv, HoursInv, NEW r \in Request, step[r] = "hours.write", NEW s, NEW m,
           Write(r, s, m)
    PROVE  HoursEffect(r)
<1> DEFINE rows == mem[r].rows
           C == CatalogueColumns
<1>1. ColumnInv(C) /\ Compared(C, r) /\ Told(r)
  BY CatShared DEF CatInv, CatSaveInv, SaveInv, Keeps, Writing, PlainWriting
<1>2. DOMAIN rows \subseteq DOMAIN hist
  BY <1>1 DEF Told, Writing, PlainWriting
<1>3. /\ \A k : k \notin DOMAIN rows => Kept(k)
      /\ \A k \in DOMAIN rows : Kept(k) \/ SavedBy(C, r, k)
  BY <1>1, CatReferences, WritesKeep
<1>4. \A j : HoursKey(j) \in DOMAIN hist' => HoursKey(j) \in DOMAIN hist
  BY <1>2, <1>3 DEF Kept
<1>5. ASSUME NEW j \in Request, OwnDay(j)'
      PROVE  /\ OwnDay(j) /\ HoursKey(j) \in DOMAIN db'
             /\ \A c \in {"at", "store", "day"} : db'[HoursKey(j)][c] = db[HoursKey(j)][c]
  <2> DEFINE k == HoursKey(j)
  <2>1. k \in DOMAIN hist /\ j # r
    <3>1. k \in DOMAIN hist
      BY <1>4, <1>5 DEF OwnDay, HoursKey
    <3> QED BY <3>1 DEF HoursInv, HoursNamed, Ended
  <2>2. CASE Kept(k)
    BY <1>5, <2>2, HoursKept
  <2>3. CASE k \in DOMAIN rows /\ SavedBy(C, r, k)
    <3>1. "at" \notin mem[r].meant /\ mem[r].meant \subseteq DOMAIN rows[k]
      BY <2>3 DEF HoursInv, HoursTold
    <3>2. {"at", "store", "day"} \subseteq C[k[1]]
      BY DEF CatalogueColumns, HoursKey
    <3>3. ASSUME NEW c \in {"store", "day"}
          PROVE  c \notin mem[r].meant /\ hist[k][c].by = j
      <4>1. hist'[k][c].by = j
        BY <1>5 DEF OwnDay, HoursKey
      <4>2. c \notin mem[r].meant
        <5>1. ASSUME c \in mem[r].meant
              PROVE  FALSE
          <6>1. c \in DOMAIN rows[k] /\ c \in C[k[1]]
            BY <3>1, <3>2, <5>1
          <6>2. hist'[k][c].by = r
            BY <2>1, <2>3, <5>1, <6>1 DEF SavedBy
          <6> QED BY <2>1, <4>1, <6>2
        <5> QED BY <5>1
      <4>3. c \in C[k[1]]
        BY <3>2
      <4>4. hist'[k][c].by = hist[k][c].by
        BY <2>1, <2>3, <4>2, <4>3 DEF SavedBy
      <4> QED BY <4>1, <4>2, <4>4
    <3>4. OwnDay(j)
      BY <2>1, <3>3 DEF OwnDay
    <3>5. k \in DOMAIN db
      BY <3>4 DEF HoursInv, OwnLive
    <3>6. ASSUME NEW c \in {"at", "store", "day"}
          PROVE  db'[k][c] = db[k][c]
      <4>1. c \notin mem[r].meant /\ c \in C[k[1]]
        BY <3>1, <3>2, <3>3
      <4>2. /\ k \in DOMAIN mem[r].dirty
            /\ db'[k][c] = IF c \in mem[r].dirty[k] THEN rows[k][c] ELSE db[k][c]
        BY <2>3, <3>5, <4>1 DEF SavedBy
      <4>3. mem[r].dirty[k] \subseteq DOMAIN rows[k]
        BY <1>1, <2>3, <4>2 DEF Compared
      <4>4. c \in DOMAIN rows[k] => rows[k][c] = db[k][c]
        BY <2>3, <3>4, <4>1 DEF HoursInv, HoursTold
      <4> QED BY <4>2, <4>3, <4>4
    <3> QED BY <2>3, <3>4, <3>6 DEF SavedBy
  <2> QED BY <1>3, <2>2, <2>3
<1> QED BY <1>4, <1>5 DEF HoursEffect

LEMMA HoursWorks ==
    ASSUME CatInv, RowsInv, HoursInv, NEW r \in Request, HoursOperation(r)
    PROVE  HoursEffect(r) /\ HoursTold(r)'
<1> DEFINE C == CatalogueColumns
<1>1. ColumnInv(C) /\ C["hours"] = {"at", "store", "day", "slots"}
  BY CatShared DEF CatalogueColumns
<1>2. CASE CreateHours(r)
  <2>1. PICK m : Begin(r, "hours.find", m) /\ UNCHANGED <<db, hist>>
    BY <1>2 DEF CreateHours
  <2>2. step'[r] = "hours.find"
    BY <2>1, BegunAt
  <2> QED BY <2>1, <2>2, HoursRead, HoursToldNothing
<1>3. CASE CreateHoursFind(r)
  <2> DEFINE dto == mem[r].dto
             found == {h \in HoursOf({dto.store}) : Row("hours", h).day = dto.day}
  <2>1. CASE found = {} /\ Reads(r, "hours.insert", <<>>)
    <3>1. /\ Goto(r, "hours.insert", <<>>) /\ UNCHANGED <<db, hist>>
          /\ "hours.insert" \notin Ended
      BY <2>1 DEF Reads, Ended
    <3>2. /\ step'[r] = "hours.insert" /\ mem'[r] = Over(<<>>, mem[r])
          /\ DOMAIN NoMem \subseteq DOMAIN mem[r]
      BY <3>1, GoneTo
    <3>3. mem'[r].dto = dto
      BY <3>2 DEF Over, NoMem
    <3>4. ASSUME NEW j \in Request, OwnDay(j)', db'[HoursKey(j)].store = dto.store,
                 db'[HoursKey(j)].day = dto.day
          PROVE  FALSE
      <4>1. HoursKey(j) \in DOMAIN db /\ db[HoursKey(j)].at = "live"
        BY <3>1, <3>4, HoursRead DEF HoursInv, OwnLive
      <4>2. j \in Live("hours") /\ Row("hours", j) = db[HoursKey(j)]
        BY <4>1 DEF Live, Ids, Row, HoursKey
      <4>3. j \in found
        BY <3>1, <3>4, <4>2 DEF HoursOf
      <4> QED BY <2>1, <4>3
    <3>5. HoursTold(r)'
      BY <3>2, <3>3, <3>4 DEF HoursTold, HoursKey
    <3> QED BY <3>1, <3>5, HoursRead
  <2>2. CASE \E h \in found :
                Reads(r, "hours.reload",
                  Save(Single(<<"hours", h>>,
                              Assigned(Only(Row("hours", h), HoursColumns), [slots |-> dto.slots])),
                       {"slots"}))
    <3>1. PICK h :
                Reads(r, "hours.reload",
                  Save(Single(<<"hours", h>>,
                              Assigned(Only(Row("hours", h), HoursColumns), [slots |-> dto.slots])),
                       {"slots"}))
      BY <2>2
    <3> DEFINE row == Only(Row("hours", h), HoursColumns)
               values == [slots |-> dto.slots]
               m == Save(Single(HoursKey(h), Assigned(row, values)), {"slots"})
    <3>2. /\ Goto(r, "hours.reload", m) /\ UNCHANGED <<db, hist>>
          /\ "hours.reload" \notin Ended
      BY <3>1 DEF Reads, Ended, HoursKey
    <3>3. \A c \in DOMAIN row : row[c] = db[HoursKey(h)][c]
      BY DEF Only, Row, HoursKey
    <3>4. DOMAIN values = {"slots"}
      OBVIOUS
    <3> HIDE DEF row, values
    <3>5. step'[r] = "hours.reload" /\ mem'[r] = Over(m, mem[r])
      BY <3>2, GoneTo
    <3>6. /\ mem'[r].rows = Single(HoursKey(h), Assigned(row, values))
          /\ mem'[r].meant = DOMAIN values
      BY <3>4, <3>5 DEF Over, Save
    <3> QED BY <3>2, <3>3, <3>4, <3>5, <3>6, HoursRead, HoursToldRow
  <2> QED BY <1>3, <2>1, <2>2 DEF CreateHoursFind
<1>4. CASE CreateHoursInsert(r)
  <2> DEFINE dto == mem[r].dto
             row == HoursRow(dto.store, dto.day, dto.slots)
             rows == Single(HoursKey(r), row)
  <2>1. step[r] = "hours.insert" /\ InsertThen(r, rows, "ok", NoMem)
    BY <1>4 DEF CreateHoursInsert, At, HoursKey
  <2>2. CASE Reads(r, "error", NoMem)
    <3>1. Goto(r, "error", NoMem) /\ UNCHANGED <<db, hist>>
      BY <2>2 DEF Reads
    <3>2. step'[r] = "error"
      BY <3>1, GoneTo
    <3> QED BY <3>1, <3>2, HoursRead, HoursToldNothing
  <2>3. CASE Inserts(r, rows) /\ Goto(r, "ok", NoMem)
    <3>1. DOMAIN rows = {HoursKey(r)} /\ rows[HoursKey(r)] = row
      BY DEF Single
    <3>2. row.at = "live" /\ row.store = dto.store /\ row.day = dto.day
      BY DEF HoursRow
    <3> HIDE DEF row, rows
    <3>3. step'[r] = "ok"
      BY <2>3, GoneTo
    <3>4. /\ \A k : k # HoursKey(r) => Kept(k)
          /\ HoursKey(r) \in DOMAIN db' /\ db'[HoursKey(r)] = row
      BY <2>3, <3>1, InsertsKeep
    <3>5. HoursKey(r) \notin DOMAIN hist
      BY <2>1 DEF HoursInv, HoursNamed, Ended
    <3>6. \A j : HoursKey(j) = HoursKey(r) => j = r
      BY DEF HoursKey
    <3>7. \A j \in Request \cup {Null} : HoursKey(j) \in DOMAIN hist' \ DOMAIN hist => j = r
      BY <3>4, <3>6 DEF Kept
    <3>8. ASSUME NEW j \in Request, j # r, OwnDay(j)'
          PROVE  /\ OwnDay(j) /\ HoursKey(j) \in DOMAIN db'
                 /\ \A c \in {"at", "store", "day"} : db'[HoursKey(j)][c] = db[HoursKey(j)][c]
      BY <3>4, <3>6, <3>8, HoursKept
    <3>9. HoursEffect(r)
      BY <2>1, <3>2, <3>3, <3>4, <3>5, <3>7, <3>8 DEF HoursEffect, Ended
    <3> QED BY <3>3, <3>9, HoursToldNothing
  <2> QED BY <2>1, <2>2, <2>3 DEF InsertThen
<1>5. CASE UpdateHours(r)
  <2>1. PICK h, s, dto :
          /\ Begin(r, "hours.preload", [dto |->
                [id |-> h, values |-> Over(IF dto.day = Null THEN <<>> ELSE [day |-> dto.day],
                                           [store |-> s, slots |-> dto.slots])]])
          /\ UNCHANGED <<db, hist>>
    BY <1>5 DEF UpdateHours
  <2> DEFINE day == IF dto.day = Null THEN <<>> ELSE [day |-> dto.day]
             values == Over(day, [store |-> s, slots |-> dto.slots])
             m == [dto |-> [id |-> h, values |-> values]]
  <2>2. "at" \notin DOMAIN values
    <3>1. DOMAIN day \subseteq {"day"}
      OBVIOUS
    <3> HIDE DEF day
    <3> QED BY <3>1 DEF Over
  <2>3. Begin(r, "hours.preload", m)
    BY <2>1
  <2> HIDE DEF values
  <2>4. Memory(m).dto.values = values
    BY DEF Memory, NoMem
  <2> HIDE DEF m
  <2>5. step'[r] = "hours.preload" /\ mem'[r] = Memory(m)
    BY <2>3, BegunAt
  <2>6. HoursTold(r)'
    BY <2>2, <2>4, <2>5 DEF HoursTold
  <2> QED BY <2>1, <2>6, HoursRead
<1>6. CASE UpdateHoursPreload(r)
  <2>1. step[r] = "hours.preload"
    BY <1>6 DEF UpdateHoursPreload, At
  <2>2. CASE Reads(r, "error", NoMem)
    <3>1. Goto(r, "error", NoMem) /\ UNCHANGED <<db, hist>>
      BY <2>2 DEF Reads
    <3>2. step'[r] = "error"
      BY <3>1, GoneTo
    <3> QED BY <3>1, <3>2, HoursRead, HoursToldNothing
  <2>3. CASE Reads(r, "hours.reload",
                  Save(Single(<<"hours", mem[r].dto.id>>,
                              Assigned(Row("hours", mem[r].dto.id), mem[r].dto.values)),
                       DOMAIN mem[r].dto.values))
    <3> DEFINE h == mem[r].dto.id
               row == Row("hours", mem[r].dto.id)
               values == mem[r].dto.values
               m == Save(Single(HoursKey(h), Assigned(row, values)), DOMAIN values)
    <3>1. /\ Goto(r, "hours.reload", m) /\ UNCHANGED <<db, hist>>
          /\ "hours.reload" \notin Ended
      BY <2>3 DEF Reads, Ended, HoursKey
    <3>2. \A c \in DOMAIN row : row[c] = db[HoursKey(h)][c]
      BY DEF Row, HoursKey
    <3>3. "at" \notin DOMAIN values
      BY <2>1 DEF HoursInv, HoursTold
    <3> HIDE DEF h, row, values
    <3>5. step'[r] = "hours.reload" /\ mem'[r] = Over(m, mem[r])
      BY <3>1, GoneTo
    <3>6. /\ mem'[r].rows = Single(HoursKey(h), Assigned(row, values))
          /\ mem'[r].meant = DOMAIN values
      BY <3>5 DEF Over, Save
    <3> QED BY <3>1, <3>2, <3>3, <3>5, <3>6, HoursRead, HoursToldRow
  <2> QED BY <1>6, <2>2, <2>3 DEF UpdateHoursPreload
<1>7. CASE HoursReload(r)
  <2> DEFINE m == [dirty |-> DirtyOf(mem[r].rows)]
  <2>1. /\ step[r] = "hours.reload" /\ Goto(r, "hours.write", m) /\ UNCHANGED <<db, hist>>
        /\ "hours.write" \notin Ended
    BY <1>7 DEF HoursReload, At, Reload, Reads, Ended
  <2>2. DOMAIN m = {"dirty"}
    OBVIOUS
  <2> HIDE DEF m
  <2>3. /\ step'[r] = "hours.write" /\ mem'[r] = Over(m, mem[r])
        /\ DOMAIN NoMem \subseteq DOMAIN mem[r]
    BY <2>1, GoneTo
  <2>4. mem'[r].rows = mem[r].rows /\ mem'[r].meant = mem[r].meant
    BY <2>2, <2>3 DEF Over, NoMem
  <2>5. HoursTold(r)
    BY DEF HoursInv
  <2>6. \A j \in Request : OwnDay(j)' => OwnDay(j)
    BY <2>1, HoursRead
  <2>7. HoursTold(r)'
    BY <2>1, <2>3, <2>4, <2>5, <2>6 DEF HoursTold, HoursKey
  <2> QED BY <2>1, <2>7, HoursRead
<1>8. CASE HoursWrite(r)
  <2>1. step[r] = "hours.write" /\ Write(r, "ok", NoMem)
    BY <1>8 DEF HoursWrite, At
  <2>2. step'[r] \in {"ok", "error"}
    BY <2>1, GoneTo DEF Write, Reads
  <2> QED BY <2>1, <2>2, HoursWritten, HoursToldNothing
<1>9. CASE RemoveHours(r)
  <2>1. PICK ids \in SUBSET Ids("hours") : Begin(r, "ok", NoMem) /\ Removes(r, {"hours"} \X ids)
    BY <1>9 DEF RemoveHours
  <2>2. {"hours"} \X ids \subseteq DOMAIN db
    BY <1>1, <2>1, IdsKeys
  <2>3. step[r] = "idle" /\ step'[r] = "ok"
    BY <2>1, BegunAt
  <2> QED BY <2>1, <2>2, <2>3, HoursRemoved, HoursToldNothing DEF Ended
<1> QED BY <1>2, <1>3, <1>4, <1>5, <1>6, <1>7, <1>8, <1>9 DEF HoursOperation

\* The stores' removal takes the opening hours along.
LEMMA StoreWorks ==
    ASSUME CatInv, HoursInv, NEW r \in Request, step[r] \notin Ended, StoreOperation(r)
    PROVE  HoursEffect(r)
<1>1. ColumnInv(CatalogueColumns)
  BY CatShared
<1>2. "hours" \notin {"store"}
  OBVIOUS
<1>3. CASE CreateStore(r)
  <2>1. PICK rows : Inserts(r, rows) /\ DOMAIN rows = {<<"store", r>>}
    BY <1>3 DEF CreateStore, Single
  <2>2. \A k : k[1] \notin {"store"} => Kept(k)
    BY <2>1, InsertsKeep
  <2> QED BY <1>2, <2>2, HoursAlone
<1>4. CASE UpdateStore(r)
  <2>1. PICK s, dto : Updates(r, {<<"store", s>>}, dto)
    BY <1>4 DEF UpdateStore
  <2>2. \A k : k[1] \notin {"store"} => Kept(k)
    BY <2>1, UpdatesKeep
  <2> QED BY <1>2, <2>2, HoursAlone
<1>5. CASE RemoveStores(r)
  <2>1. PICK ids : Removes(r, {"hours"} \X HoursOf(ids))
    BY <1>5 DEF RemoveStores
  <2>2. {"hours"} \X HoursOf(ids) \subseteq DOMAIN db
    BY <1>1, IdsKeys DEF HoursOf, Live
  <2> QED BY <2>1, <2>2, HoursRemoved
<1>6. CASE RemoveStoresDelete(r)
  <2> DEFINE ids == mem[r].dto \cap Ids("store")
  <2>1. CASE Reads(r, "error", NoMem)
    BY <2>1, HoursRead DEF Reads
  <2>2. CASE Removes(r, {"store"} \X ids)
    <3>1. {"store"} \X ids \subseteq DOMAIN db
      BY <1>1, IdsKeys
    <3> QED BY <2>2, <3>1, HoursRemoved
  <2> QED BY <1>6, <2>1, <2>2 DEF RemoveStoresDelete, RemoveThen
<1> QED BY <1>3, <1>4, <1>5, <1>6 DEF StoreOperation

-----------------------------------------------------------------------------
(* Every step keeps both.                                                  *)

HoursIndInv == CatInv /\ RowsInv /\ HoursInv

LEMMA HoursOperationStep ==
    ASSUME HoursIndInv, NEW r \in Request, Operation(r)
    PROVE  RowsInv' /\ HoursInv'
<1> USE DEF HoursIndInv
<1>1. HoursInv /\ CatInv /\ RowsInv /\ HoldInv
  BY CatShared
<1>2. ASSUME NEW S, NEW T, Turn(r, S, T), S \cap {"idle", "hours.preload", "hours.reload",
             "hours.write", "hours.insert"} = {}, "hours" \notin T
      PROVE  RowsInv' /\ HoursInv'
  <2>1. HoursEffect(r) /\ HoursTold(r)'
    BY <1>2, HoursAlone, HoursToldNothing DEF Turn
  <2> QED BY <1>1, <1>2, <2>1, HoursStep, RowsStay
<1>3. CASE StoreOperation(r) /\ Turn(r, StoreSteps, {"store", "hours"})
  <2>1. "idle" \notin StoreSteps
    BY DEF StoreSteps, Ended
  <2>2. HoursTold(r)'
    BY <1>3, HoursToldNothing DEF Turn, StoreSteps, Ended
  <2>3. HoursEffect(r)
    BY <1>1, <1>3, <2>1, TurnMoves, StoreWorks
  <2> QED BY <1>1, <1>3, <2>1, <2>2, <2>3, HoursStep, RowsStay
<1>4. CASE HoursOperation(r) /\ Turn(r, HoursSteps, {"hours"})
  <2>1. "idle" \notin HoursSteps
    BY DEF HoursSteps, Ended
  <2> QED BY <1>1, <1>4, <2>1, HoursWorks, HoursStep, RowsStay
<1>5. CASE Turn(r, DiscountSteps, {"discount", "link"})
  <2>1. DiscountSteps \cap {"idle", "hours.preload", "hours.reload", "hours.write",
                            "hours.insert"} = {}
    BY DEF DiscountSteps, Ended
  <2> QED BY <1>2, <1>5, <2>1
<1>6. CASE Turn(r, MenuSteps, MenuTables)
  <2>1. MenuSteps \cap {"idle", "hours.preload", "hours.reload", "hours.write",
                        "hours.insert"} = {} /\ "hours" \notin MenuTables
    BY DEF MenuSteps, MenuTables, Editing, Looping, Ended
  <2> QED BY <1>2, <1>6, <2>1
<1> QED BY <1>1, <1>3, <1>4, <1>5, <1>6, OperationTurn

LEMMA HoursSame ==
    ASSUME HoursIndInv, UNCHANGED <<db, step, mem, met, hist>>
    PROVE  RowsInv' /\ HoursInv'
<1>1. RowsInv'
  BY DEF HoursIndInv, RowsInv, RowsHeld
<1>2. HoursNamed' /\ OwnLive' /\ DaysApart'
  BY DEF HoursIndInv, HoursInv, HoursNamed, OwnLive, DaysApart, OwnDay, HoursKey
<1>3. ASSUME NEW r \in Request
      PROVE  HoursTold(r)'
  <2>1. HoursTold(r) /\ mem'[r] = mem[r] /\ step'[r] = step[r] /\ met'[r] = met[r]
    BY DEF HoursIndInv, HoursInv
  <2>2. \A j \in Request : OwnDay(j)' <=> OwnDay(j)
    BY DEF OwnDay, HoursKey
  <2> QED BY <2>1, <2>2 DEF HoursTold, HoursKey
<1> QED BY <1>1, <1>2, <1>3 DEF HoursInv

LEMMA HoursInitially == Init => HoursIndInv
<1> SUFFICES ASSUME Init
             PROVE  HoursIndInv
  OBVIOUS
<1>1. /\ area \in Area /\ TablesInit(Rows[area])
      /\ \A k \in DOMAIN Rows[area] : k[2] # Null /\ (k[1] = "hours" => k[2] \notin Request)
  BY CatalogueAssumption, RowsAssumption DEF Init
<1>2. DOMAIN hist = DOMAIN Rows[area] /\ \A r \in Request : step[r] = "idle"
  BY <1>1 DEF TablesInit
<1>3. RowsInv
  BY <1>2 DEF RowsInv, RowsHeld, PlainReading, PlainWriting
<1>4. HoursKey(Null) \notin DOMAIN hist /\ \A j \in Request : HoursKey(j) \notin DOMAIN hist
  BY <1>1, <1>2 DEF HoursKey
<1>5. \A j \in Request : ~OwnDay(j)
  BY <1>4 DEF OwnDay
<1>6. \A r \in Request : HoursTold(r)
  BY <1>2 DEF HoursTold
<1>7. HoursInv
  BY <1>4, <1>5, <1>6 DEF HoursInv, HoursNamed, OwnLive, DaysApart
<1> QED BY <1>3, <1>7, CatInitially DEF HoursIndInv

LEMMA HoursInductive == HoursIndInv /\ [Next]_vars => HoursIndInv'
<1> SUFFICES ASSUME HoursIndInv, [Next]_vars
             PROVE  HoursIndInv'
  OBVIOUS
<1>1. CatInv'
  BY CatInductive DEF HoursIndInv
<1>2. CASE UNCHANGED vars
  BY <1>1, <1>2, HoursSame DEF vars, tableVars, HoursIndInv
<1>3. CASE \E r \in Among[area] : Operation(r)
  <2>1. Among[area] \subseteq Request
    BY CatalogueAssumption DEF HoursIndInv, CatInv
  <2> QED BY <1>1, <1>3, <2>1, HoursOperationStep DEF HoursIndInv
<1>4. CASE Finished
  BY <1>1, <1>4, HoursSame DEF Finished, tableVars, HoursIndInv
<1> QED BY <1>2, <1>3, <1>4 DEF Next

\* Two rows that POST put on one day of a store, and that no PATCH moved
\* since, come from requests that overlapped.
THEOREM CatalogueDays == Spec => []DayTwiceOnlyByOverlap
<1>1. HoursIndInv => DayTwiceOnlyByOverlap
  <2> SUFFICES ASSUME HoursIndInv, NEW h \in Live("hours"), NEW i \in Live("hours"), h # i,
                      Row("hours", h).store = Row("hours", i).store,
                      Row("hours", h).day = Row("hours", i).day,
                      \A j \in {h, i} : \A c \in {"store", "day"} : hist[<<"hours", j>>][c].by = j
               PROVE  h \in met[i]
    BY DEF DayTwiceOnlyByOverlap
  <2>1. ColumnInv(CatalogueColumns) /\ HoursInv
    BY CatShared DEF HoursIndInv
  <2>2. \A j \in {h, i} : /\ HoursKey(j) \in DOMAIN db /\ HoursKey(j) \in DOMAIN hist
                          /\ Row("hours", j) = db[HoursKey(j)]
    BY <2>1, LiveKey DEF HoursKey, ColumnInv
  <2>3. ASSUME NEW j \in {h, i}
        PROVE  j \in Request /\ OwnDay(j)
    <3>1. "store" \in DOMAIN hist[HoursKey(j)]
      BY <2>1, <2>2 DEF ColumnInv, Schema, CatalogueColumns, HoursKey
    <3>2. hist[HoursKey(j)]["store"].by \in Request \cup {Null}
      BY <2>1, <2>2, <3>1 DEF ColumnInv
    <3>3. hist[HoursKey(j)]["store"].by = j
      BY DEF HoursKey
    <3>4. j # Null
      BY <2>1, <2>2 DEF HoursInv, HoursNamed
    <3> QED BY <2>2, <3>2, <3>3, <3>4 DEF OwnDay, HoursKey
  <2>4. \A c \in {"store", "day"} : db[HoursKey(h)][c] = db[HoursKey(i)][c]
    BY <2>2
  <2> QED BY <2>1, <2>3, <2>4 DEF HoursInv, DaysApart
<1> QED BY <1>1, HoursInitially, HoursInductive, PTL DEF Spec

-----------------------------------------------------------------------------
(* Discounts.                                                              *)

\* Who is linked to whom goes both ways, and only between requests.
LEMMA LinkedBack ==
    ASSUME MetInv, NEW q \in Request, NEW r, Linked(q, r)
    PROVE  r \in Request /\ Linked(r, q)
<1>1. r \in Request
  <2>1. met[q] \subseteq Request /\ \A s \in Request : met[s] \subseteq Request
    BY DEF MetInv
  <2> QED BY <2>1 DEF Linked
<1>2. ASSUME NEW S \in SUBSET Request, met[r] \subseteq S, \A s \in S : met[s] \subseteq S,
             q \notin S
      PROVE  FALSE
  <2> DEFINE rest == Request \ (S \cup {r})
  <2>1. ASSUME NEW s \in Request \ S, s # r
        PROVE  met[s] \subseteq rest
    <3> SUFFICES ASSUME NEW t \in met[s]
                 PROVE  t \in rest
      OBVIOUS
    <3>1. t \in Request /\ s \in met[t]
      BY DEF MetInv
    <3> QED BY <1>2, <2>1, <3>1
  <2>2. CASE q = r
    <3>1. PICK s \in met[q] : TRUE
      <4>1. ASSUME met[q] = {}
            PROVE  FALSE
        <5>1. r \in {}
          BY <4>1 DEF Linked
        <5> QED BY <5>1
      <4> QED BY <4>1
    <3>2. s \in S /\ s \in Request /\ q \in met[s]
      BY <1>2, <2>2, <3>1 DEF MetInv
    <3> QED BY <1>2, <3>2
  <2>3. CASE q # r
    <3>1. met[q] \subseteq rest /\ \A s \in rest : met[s] \subseteq rest
      BY <1>2, <2>1, <2>3
    <3>2. r \in rest
      BY <3>1 DEF Linked
    <3> QED BY <3>2
  <2> QED BY <2>2, <2>3
<1> QED BY <1>1, <1>2 DEF Linked

LEMMA LinkedBackThen ==
    (MetInv => \A q \in Request : \A r : Linked(q, r) => r \in Request /\ Linked(r, q))'
<1>1. MetInv => \A q \in Request : \A r : Linked(q, r) => r \in Request /\ Linked(r, q)
  BY LinkedBack
<1> QED BY <1>1, PTL

\* Two columns whose last requests are linked to r are linked.
LEMMA BothSides ==
    ASSUME MetInv, ColumnInv(CatalogueColumns),
           NEW d, DiscountKey(d) \in DOMAIN hist, NEW e, DiscountKey(e) \in DOMAIN hist
    PROVE  /\ BothLinked(d, e) => BothLinked(e, d)
           /\ \A r : LinkedTo(DiscountKey(d), "code", r) /\ LinkedTo(DiscountKey(e), "code", r)
                        => BothLinked(d, e)
<1>1. \A i \in {d, e} : hist[DiscountKey(i)].code.by \in Request \cup {Null}
  BY DEF ColumnInv, Schema, CatalogueColumns, DiscountKey
<1>2. Null \notin Request
  BY BoundAssumption
<1>3. BothLinked(d, e) => BothLinked(e, d)
  BY <1>1, <1>2, LinkedBack DEF BothLinked, LinkedTo
<1>4. ASSUME NEW r, LinkedTo(DiscountKey(d), "code", r), LinkedTo(DiscountKey(e), "code", r)
      PROVE  BothLinked(d, e)
  <2>1. Linked(r, hist[DiscountKey(e)].code.by)
    BY <1>1, <1>4, LinkedBack DEF LinkedTo
  <2> QED BY <1>4, <2>1, LinkedChain DEF BothLinked, LinkedTo
<1> QED BY <1>3, <1>4

LEMMA SaysId ==
    ASSUME NEW d, NEW x, Says(d, x)
    PROVE  d \in Ids("discount") /\ Row("discount", d).code = x /\ DiscountKey(d) \in DOMAIN hist
BY DEF Says, Wants, Ids, Row, DiscountKey

\* What a step may do to a discount: none more wants a code; or r asked for
\* it, which was free; or r puts back the code that r held.
Settled(d) ==
    \A x : /\ Wants(d, x)' =>
                 Wants(d, x) /\ hist'[DiscountKey(d)].code.by = hist[DiscountKey(d)].code.by
           /\ Says(d, x)' => Says(d, x)
AskedFor(r, d) ==
    \A x : Wants(d, x)' => hist'[DiscountKey(d)].code.by = r /\ FreeCode(r, x, d)
PutBack(r, d) ==
    \A x : /\ Wants(d, x)' =>
                 Wants(d, x) /\ hist'[DiscountKey(d)].code.by = hist[DiscountKey(d)].code.by
           /\ Says(d, x)' => \/ Says(d, x)
                             \/ LinkedTo(DiscountKey(d), "code", r) /\ HeldCode(r, x, d)

\* Of one discount at most the code is asked for or put back.
DiscountEffect(r) ==
    /\ AliveInv'
    /\ \E d : /\ \A e : e # d => Settled(e)
              /\ AskedFor(r, d) \/ PutBack(r, d)

LEMMA SettledPut ==
    ASSUME NEW r, NEW d, Settled(d)
    PROVE  PutBack(r, d)
BY DEF Settled, PutBack

LEMMA LinkedStep ==
    ASSUME NEW b, NEW r, Linked(b, r)', NEW q, q \in met'[r]
    PROVE  Linked(b, q)'
BY DEF Linked

\* A request that r overlaps finds the code with whom it was, or with one
\* linked to it.
LEMMA SaysStays ==
    ASSUME MetInv', MetGrows, ColumnInv(CatalogueColumns),
           NEW r \in Request, DiscountEffect(r), NEW q, q \in met'[r],
           NEW e, NEW x, Says(e, x)'
    PROVE  \/ /\ Says(e, x)
              /\ hist'[DiscountKey(e)].code.by = hist[DiscountKey(e)].code.by
           \/ LinkedTo(DiscountKey(e), "code", q)'
<1>1. PICK d : /\ \A i : i # d => Settled(i)
               /\ AskedFor(r, d) \/ PutBack(r, d)
  BY DEF DiscountEffect
<1>2. Wants(e, x)'
  BY DEF Says
<1>3. Null # r /\ Linked(r, q)'
  BY BoundAssumption DEF Linked
<1>4. AskedFor(r, e) \/ PutBack(r, e)
  BY <1>1, SettledPut
<1>5. CASE AskedFor(r, e)
  BY <1>2, <1>3, <1>5 DEF AskedFor, LinkedTo, DiscountKey
<1>6. CASE PutBack(r, e)
  <2>1. /\ Wants(e, x) /\ hist'[DiscountKey(e)].code.by = hist[DiscountKey(e)].code.by
        /\ Says(e, x) \/ LinkedTo(DiscountKey(e), "code", r)
    BY <1>2, <1>6 DEF PutBack
  <2>2. CASE LinkedTo(DiscountKey(e), "code", r)
    <3>1. PICK b : b = hist[DiscountKey(e)].code.by
      OBVIOUS
    <3>2. b \in Request /\ b # Null /\ Linked(b, r)
      BY <2>1, <2>2, <3>1 DEF LinkedTo, Wants, ColumnInv, Schema, CatalogueColumns, DiscountKey
    <3>3. Linked(b, r)'
      BY <3>2, LinkedStays DEF MetGrows
    <3>4. Linked(b, q)'
      BY <3>3, LinkedStep
    <3> QED BY <2>1, <3>1, <3>2, <3>4 DEF LinkedTo, DiscountKey
  <2> QED BY <2>1, <2>2
<1> QED BY <1>4, <1>5, <1>6

\* What was linked stays linked where the request on record is the same.
LEMMA CodeLinked ==
    ASSUME MetGrows, ColumnInv(CatalogueColumns), NEW e, DiscountKey(e) \in DOMAIN hist,
           hist'[DiscountKey(e)].code.by = hist[DiscountKey(e)].code.by,
           NEW r, LinkedTo(DiscountKey(e), "code", r)
    PROVE  LinkedTo(DiscountKey(e), "code", r)'
<1>1. PICK b : b = hist[DiscountKey(e)].code.by
  OBVIOUS
<1>2. b \in Request /\ b # Null /\ Linked(b, r)
  BY <1>1 DEF LinkedTo, ColumnInv, Schema, CatalogueColumns, DiscountKey
<1>3. Linked(b, r)'
  BY <1>2, LinkedStays DEF MetGrows
<1> QED BY <1>1, <1>2, <1>3 DEF LinkedTo, DiscountKey

LEMMA BothLinkedStays ==
    ASSUME MetGrows, ColumnInv(CatalogueColumns), NEW d, NEW e,
           DiscountKey(d) \in DOMAIN hist,
           \A i \in {d, e} : hist'[DiscountKey(i)].code.by = hist[DiscountKey(i)].code.by,
           BothLinked(d, e)
    PROVE  BothLinked(d, e)'
<1>1. PICK b : b = hist[DiscountKey(e)].code.by
  OBVIOUS
<1>2. LinkedTo(DiscountKey(d), "code", b)
  BY <1>1 DEF BothLinked
<1>3. LinkedTo(DiscountKey(d), "code", b)'
  BY <1>2, CodeLinked
<1>4. b = hist'[DiscountKey(e)].code.by
  BY <1>1
<1> QED BY <1>3, <1>4 DEF BothLinked, DiscountKey

LEMMA FreeCodeStays ==
    ASSUME MetInv', MetGrows, ColumnInv(CatalogueColumns),
           NEW r \in Request, DiscountEffect(r), NEW q, q \in met'[r],
           NEW x, NEW d, FreeCode(q, x, d)
    PROVE  FreeCode(q, x, d)'
<1> SUFFICES ASSUME NEW e, e # d, Says(e, x)'
             PROVE  LinkedTo(DiscountKey(e), "code", q)'
  BY DEF FreeCode
<1>1. CASE /\ Says(e, x)
           /\ hist'[DiscountKey(e)].code.by = hist[DiscountKey(e)].code.by
  <2>1. LinkedTo(DiscountKey(e), "code", q) /\ DiscountKey(e) \in DOMAIN hist
    BY <1>1, SaysId DEF FreeCode
  <2> QED BY <1>1, <2>1, CodeLinked
<1> QED BY <1>1, SaysStays

LEMMA HeldCodeStays ==
    ASSUME MetInv', MetGrows, ColumnInv(CatalogueColumns),
           NEW r \in Request, DiscountEffect(r), NEW q, q \in met'[r],
           NEW x, NEW d, HeldCode(q, x, d)
    PROVE  HeldCode(q, x, d)'
<1> SUFFICES ASSUME Wants(d, x)', NEW e, e # d, Says(e, x)'
             PROVE  BothLinked(d, e)' \/ LinkedTo(DiscountKey(e), "code", q)'
  BY DEF HeldCode
<1>1. PICK i : /\ \A j : j # i => Settled(j)
               /\ AskedFor(r, i) \/ PutBack(r, i)
  BY DEF DiscountEffect
<1>2. AskedFor(r, d) \/ PutBack(r, d)
  BY <1>1, SettledPut
<1>3. CASE /\ Says(e, x)
           /\ hist'[DiscountKey(e)].code.by = hist[DiscountKey(e)].code.by
  <2>1. DiscountKey(e) \in DOMAIN hist /\ e \in Ids("discount")
    BY <1>3, SaysId
  <2>2. CASE AskedFor(r, d)
    <3>1. LinkedTo(DiscountKey(e), "code", r)
      BY <1>3, <2>1, <2>2 DEF AskedFor, FreeCode
    <3>2. LinkedTo(DiscountKey(e), "code", r)'
      BY <1>3, <2>1, <3>1, CodeLinked
    <3>3. PICK b : b = hist'[DiscountKey(e)].code.by
      OBVIOUS
    <3>4. b # Null /\ Linked(b, r)'
      BY <3>2, <3>3 DEF LinkedTo, DiscountKey
    <3>5. Linked(b, q)'
      BY <3>4, LinkedStep
    <3> QED BY <3>3, <3>4, <3>5 DEF LinkedTo, DiscountKey
  <2>3. CASE PutBack(r, d)
    <3>1. Wants(d, x) /\ hist'[DiscountKey(d)].code.by = hist[DiscountKey(d)].code.by
      BY <2>3 DEF PutBack
    <3>2. DiscountKey(d) \in DOMAIN hist
      BY <3>1 DEF Wants
    <3>3. CASE BothLinked(d, e)
      BY <1>3, <3>1, <3>2, <3>3, BothLinkedStays
    <3>4. CASE LinkedTo(DiscountKey(e), "code", q)
      BY <1>3, <2>1, <3>4, CodeLinked
    <3> QED BY <1>3, <2>1, <3>1, <3>3, <3>4 DEF HeldCode
  <2> QED BY <1>2, <2>2, <2>3
<1> QED BY <1>3, SaysStays

LEMMA CodesStayApart ==
    ASSUME MetInv, MetGrows, ColumnInv(CatalogueColumns), CodesApart,
           NEW r \in Request, DiscountEffect(r),
           ColumnInv(CatalogueColumns)', MetInv'
    PROVE  CodesApart'
<1>1. PICK i : /\ \A e : e # i => Settled(e)
               /\ AskedFor(r, i) \/ PutBack(r, i)
  BY DEF DiscountEffect
<1>2. ASSUME NEW d, NEW e, NEW x, d # e, Settled(d), AskedFor(r, e) \/ PutBack(r, e),
             Says(d, x)', Says(e, x)'
      PROVE  BothLinked(d, e)' /\ BothLinked(e, d)'
  <2>1. /\ Says(d, x) /\ hist'[DiscountKey(d)].code.by = hist[DiscountKey(d)].code.by
        /\ Wants(e, x)' /\ d \in Ids("discount") /\ DiscountKey(d) \in DOMAIN hist
    BY <1>2, SaysId DEF Settled, Says
  <2>2. DiscountKey(d) \in DOMAIN hist' /\ DiscountKey(e) \in DOMAIN hist'
    BY <1>2 DEF Says, Wants, DiscountKey
  <2>3. BothLinked(d, e)'
    <3>1. CASE AskedFor(r, e)
      <4>1. hist'[DiscountKey(e)].code.by = r /\ LinkedTo(DiscountKey(d), "code", r)
        BY <1>2, <2>1, <3>1 DEF AskedFor, FreeCode
      <4>2. LinkedTo(DiscountKey(d), "code", r)'
        BY <2>1, <4>1, CodeLinked
      <4> QED BY <4>1, <4>2 DEF BothLinked, DiscountKey
    <3>2. CASE PutBack(r, e)
      <4>1. /\ Wants(e, x) /\ hist'[DiscountKey(e)].code.by = hist[DiscountKey(e)].code.by
            /\ DiscountKey(e) \in DOMAIN hist
            /\ Says(e, x) \/ (LinkedTo(DiscountKey(e), "code", r) /\ HeldCode(r, x, e))
        BY <1>2, <2>1, <3>2 DEF PutBack, Wants
      <4>2. BothLinked(d, e)
        <5>1. CASE Says(e, x)
          <6>1. e \in Ids("discount") /\ Row("discount", e).code = x
            BY <5>1, SaysId
          <6> QED BY <1>2, <2>1, <5>1, <6>1 DEF CodesApart
        <5>2. CASE LinkedTo(DiscountKey(e), "code", r) /\ HeldCode(r, x, e)
          <6>1. BothLinked(e, d) \/ LinkedTo(DiscountKey(d), "code", r)
            BY <1>2, <2>1, <4>1, <5>2 DEF HeldCode
          <6> QED BY <2>1, <4>1, <5>2, <6>1, BothSides
        <5> QED BY <4>1, <5>1, <5>2
      <4> QED BY <2>1, <4>1, <4>2, BothLinkedStays
    <3> QED BY <1>2, <3>1, <3>2
  <2>4. BothLinked(e, d)'
    <3>2. hist'[DiscountKey(d)].code.by \in Request \cup {Null}
      BY <2>2 DEF ColumnInv, Schema, CatalogueColumns, DiscountKey
    <3>3. PICK b : b = hist'[DiscountKey(d)].code.by
      OBVIOUS
    <3>4. PICK c : c = hist'[DiscountKey(e)].code.by
      OBVIOUS
    <3>5. b \in Request /\ Linked(b, c)'
      BY <2>3, <3>2, <3>3, <3>4 DEF BothLinked, LinkedTo, DiscountKey
    <3>6. c \in Request /\ Linked(c, b)'
      BY <3>5, LinkedBackThen
    <3>7. Null \notin Request
      BY BoundAssumption
    <3> QED BY <3>3, <3>4, <3>6, <3>7 DEF BothLinked, LinkedTo, DiscountKey
  <2> QED BY <2>3, <2>4
<1>3. ASSUME NEW d, NEW e, NEW x, d # e, Says(d, x)', Says(e, x)'
      PROVE  BothLinked(d, e)'
  <2>1. CASE d # i
    BY <1>1, <1>2, <1>3, <2>1, SettledPut
  <2>2. CASE e # i
    BY <1>1, <1>2, <1>3, <2>2, SettledPut
  <2> QED BY <1>3, <2>1, <2>2
<1> QED BY <1>3 DEF CodesApart, Says, Wants, BothLinked, LinkedTo, DiscountKey, Row

LEMMA DiscountStep ==
    ASSUME CatInv, DiscountInv, ColumnInv(CatalogueColumns)',
           NEW r \in Request, NEW S, NEW T, Turn(r, S, T), "idle" \notin S,
           DiscountEffect(r), DiscountTold(r)'
    PROVE  DiscountInv'
<1>1. /\ MetInv /\ MetInv' /\ MetGrows /\ ColumnInv(CatalogueColumns)
      /\ \A q \in Request \ {r} : step'[q] = step[q] /\ mem'[q] = mem[q]
      /\ \A q \in Open' \ {r} : q \in met'[r]
  BY TurnMoves, CatShared
<1>2. CodesApart'
  BY <1>1, CodesStayApart DEF DiscountInv
<1>3. AliveInv'
  BY DEF DiscountEffect
<1>4. ASSUME NEW q \in Request, q # r
      PROVE  DiscountTold(q)'
  <2>1. step'[q] = step[q] /\ mem'[q] = mem[q] /\ DiscountTold(q)
    BY <1>1, <1>4 DEF DiscountInv
  <2>2. CASE q \notin met'[r]
    <3>1. step'[q] \in {"idle"} \cup Ended
      BY <1>1, <1>4, <2>2 DEF Open
    <3> QED BY <3>1 DEF DiscountTold, Ended
  <2>3. CASE q \in met'[r]
    <3>1. \A x, d : FreeCode(q, x, d) => FreeCode(q, x, d)'
      BY <1>1, <2>3, FreeCodeStays
    <3>2. \A x, d : HeldCode(q, x, d) => HeldCode(q, x, d)'
      BY <1>1, <2>3, HeldCodeStays
    <3>3. PICK dto : dto = mem[q].dto
      OBVIOUS
    <3>4. PICK rows : rows = mem[q].rows
      OBVIOUS
    <3>5. PICK c : c = dto.code
      OBVIOUS
    <3>6. PICK i : i = dto.id
      OBVIOUS
    <3>7. step[q] \in {"discount.stores", "discount.insert"} => FreeCode(q, c, q)'
      BY <2>1, <3>1, <3>3, <3>5 DEF DiscountTold
    <3>8. step[q] = "discount.find" => FreeCode(q, c, i)'
      BY <2>1, <3>1, <3>3, <3>5, <3>6 DEF DiscountTold
    <3>9. ASSUME NEW k \in DOMAIN rows, Holding(q, k)
          PROVE  Holding(q, k)'
      <4>1. PICK x : x = rows[k].code
        OBVIOUS
      <4>2. PICK d : d = k[2]
        OBVIOUS
      <4>3. /\ mem[q].meant = {"code", "status"} => FreeCode(q, x, d)'
            /\ mem[q].meant = {"status"} => HeldCode(q, x, d)'
        BY <3>1, <3>2, <3>4, <3>9, <4>1, <4>2 DEF Holding
      <4> QED BY <2>1, <3>4, <3>9, <4>1, <4>2, <4>3 DEF Holding, DiscountKey, FreeCode, HeldCode
    <3> QED BY <2>1, <3>3, <3>4, <3>5, <3>6, <3>7, <3>8, <3>9 DEF DiscountTold
  <2> QED BY <2>2, <2>3
<1> QED BY <1>2, <1>3, <1>4 DEF DiscountInv

\* Steps that leave the discounts alone.
LEMMA KeptSettled ==
    ASSUME NEW d, Kept(DiscountKey(d))
    PROVE  Settled(d)
BY DEF Kept, Settled, Says, Wants, DiscountKey

\* Each discount is as it was, or r asked for its deletion.
LEMMA DiscountsGone ==
    ASSUME CatInv, DiscountInv, NEW r,
           \A k : k[1] = "discount" => Kept(k) \/ (k \in DOMAIN hist /\ hist'[k].at.val = "deleted")
    PROVE  DiscountEffect(r)
<1>1. \A d : DiscountKey(d)[1] = "discount"
  BY DEF DiscountKey
<1>2. DiscountKey(Null) \notin DOMAIN hist'
  BY <1>1 DEF DiscountInv, AliveInv, Kept
<1>3. ASSUME NEW k \in DOMAIN db', k[1] = "discount"
      PROVE  db'[k].at = "live" \/ hist'[k].at.val # "live"
  <2>1. CASE Kept(k)
    <3>1. k \in DOMAIN db /\ k \in DOMAIN hist
      BY <1>3, <2>1, CatShared DEF Kept, ColumnInv
    <3> QED BY <1>3, <2>1, <3>1 DEF Kept, DiscountInv, AliveInv
  <2>2. CASE hist'[k].at.val = "deleted"
    BY <2>2
  <2> QED BY <1>3, <2>1, <2>2
<1>4. AliveInv'
  BY <1>2, <1>3 DEF AliveInv, DiscountKey
<1>5. ASSUME NEW d
      PROVE  Settled(d)
  <2>1. CASE Kept(DiscountKey(d))
    BY <2>1, KeptSettled
  <2>2. CASE hist'[DiscountKey(d)].at.val = "deleted"
    BY <2>2 DEF Settled, Says, Wants, DiscountKey
  <2> QED BY <1>1, <2>1, <2>2
<1>6. \A d : PutBack(r, d)
  BY <1>5, SettledPut
<1> QED BY <1>4, <1>5, <1>6 DEF DiscountEffect

LEMMA DiscountAlone ==
    ASSUME CatInv, DiscountInv, NEW r, NEW T, "discount" \notin T, \A k : k[1] \notin T => Kept(k)
    PROVE  DiscountEffect(r)
BY DiscountsGone

LEMMA DiscountRead ==
    ASSUME CatInv, DiscountInv, NEW r, UNCHANGED <<db, hist>>
    PROVE  DiscountEffect(r)
<1>1. \A k : k[1] \notin {"link"} => Kept(k)
  BY ReadsKeep
<1> QED BY <1>1, DiscountAlone

LEMMA CodesRead ==
    ASSUME CatInv, MetGrows, UNCHANGED <<db, hist>>, NEW r, NEW x, NEW d
    PROVE  /\ FreeCode(r, x, d) => FreeCode(r, x, d)'
           /\ HeldCode(r, x, d) => HeldCode(r, x, d)'
<1>1. ColumnInv(CatalogueColumns)
  BY CatShared
<1>2. \A e : (Says(e, x)' <=> Says(e, x)) /\ (Wants(e, x)' <=> Wants(e, x))
  BY DEF Says, Wants, DiscountKey
<1>3. ASSUME NEW e, DiscountKey(e) \in DOMAIN hist, LinkedTo(DiscountKey(e), "code", r)
      PROVE  LinkedTo(DiscountKey(e), "code", r)'
  BY <1>1, <1>3, CodeLinked
<1>4. ASSUME NEW e, DiscountKey(d) \in DOMAIN hist, BothLinked(d, e)
      PROVE  BothLinked(d, e)'
  BY <1>1, <1>4, BothLinkedStays
<1>5. ASSUME FreeCode(r, x, d), NEW e, e # d, Says(e, x)'
      PROVE  LinkedTo(DiscountKey(e), "code", r)'
  BY <1>2, <1>3, <1>5, SaysId DEF FreeCode
<1>6. ASSUME HeldCode(r, x, d), Wants(d, x)', NEW e, e # d, Says(e, x)'
      PROVE  BothLinked(d, e)' \/ LinkedTo(DiscountKey(e), "code", r)'
  <2>1. DiscountKey(d) \in DOMAIN hist
    BY <1>2, <1>6 DEF Wants
  <2> QED BY <1>2, <1>3, <1>4, <1>6, <2>1, SaysId DEF HeldCode
<1> QED BY <1>5, <1>6 DEF FreeCode, HeldCode

LEMMA DiscountToldNothing ==
    ASSUME NEW r, step'[r] \notin {"discount.stores", "discount.insert", "discount.find",
               "discount.reload", "discount.write", "discounts.reload", "discounts.write"}
    PROVE  DiscountTold(r)'
BY DEF DiscountTold

\* r is to save one discount.
LEMMA HoldingRow ==
    ASSUME CatInv, MetGrows, UNCHANGED <<db, hist>>,
           NEW r, step'[r] \in {"discount.reload", "discount.write"},
           NEW d, NEW row, mem'[r].rows = Single(DiscountKey(d), row),
           {"at", "code"} \subseteq DOMAIN row, row.at = "live",
           \/ mem'[r].meant = {"code", "status"} /\ FreeCode(r, row.code, d)
           \/ mem'[r].meant = {"status"} /\ HeldCode(r, row.code, d)
    PROVE  DiscountTold(r)'
<1>1. PICK i : i = d
  OBVIOUS
<1>2. PICK x : x = row.code
  OBVIOUS
<1>3. /\ mem'[r].meant = {"code", "status"} => FreeCode(r, x, i)'
      /\ mem'[r].meant = {"status"} => HeldCode(r, x, i)'
  <2>1. {"code", "status"} # {"status"}
    OBVIOUS
  <2> QED BY <1>1, <1>2, <2>1, CodesRead
<1>4. PICK k : k = DiscountKey(i)
  OBVIOUS
<1>5. /\ DOMAIN mem'[r].rows = {k} /\ mem'[r].rows[k] = row
      /\ k = DiscountKey(k[2]) /\ k[2] = i
  BY <1>1, <1>4 DEF Single, DiscountKey
<1>6. Holding(r, k)'
  BY <1>2, <1>3, <1>5 DEF Holding, DiscountKey, FreeCode, HeldCode
<1> QED BY <1>5, <1>6 DEF DiscountTold

LEMMA DiscountWritten ==
    ASSUME CatInv, DiscountInv, NEW r \in Request, step[r] = "discount.write", NEW s, NEW m,
           Write(r, s, m)
    PROVE  DiscountEffect(r)
<1> DEFINE rows == mem[r].rows
           C == CatalogueColumns
           dirty == mem[r].dirty
<1>1. ColumnInv(C) /\ Compared(C, r) /\ Told(r)
  BY CatShared DEF CatInv, CatSaveInv, SaveInv, Keeps, Writing, PlainWriting
<1>2. PICK k \in DOMAIN rows : Holding(r, k)
  BY DEF DiscountInv, DiscountTold
<1>3. PICK d : d = k[2]
  OBVIOUS
<1>4. /\ k = DiscountKey(d) /\ DOMAIN rows = {k} /\ {"at", "code"} \subseteq DOMAIN rows[k]
      /\ rows[k].at = "live" /\ {"at", "code"} \subseteq C[k[1]]
  BY <1>2, <1>3 DEF Holding, CatalogueColumns, DiscountKey
<1>5. /\ \A j : j # k => Kept(j)
      /\ Kept(k) \/ SavedBy(C, r, k)
  BY <1>1, <1>4, CatReferences, WritesKeep
<1>6. CASE Kept(k)
  <2>1. \A j : j[1] \notin {"link"} => Kept(j)
    BY <1>5, <1>6
  <2> QED BY <2>1, DiscountAlone
<1>7. CASE SavedBy(C, r, k)
  <2>1. k \in DOMAIN hist /\ DOMAIN hist[k] = C[k[1]]
    BY <1>1, <1>4 DEF Told, Writing, PlainWriting, ColumnInv, Schema
  <2>2. "at" \notin mem[r].meant
    BY <1>2 DEF Holding
  <2>3. /\ hist'[k].at.val = hist[k].at.val
        /\ k \in DOMAIN db' /\ k \in DOMAIN hist'
        /\ db'[k].at \in {"live"} \cup (IF k \in DOMAIN db THEN {db[k].at} ELSE {})
    BY <1>4, <1>7, <2>1, <2>2 DEF SavedBy
  <2>4. DiscountKey(Null) \notin DOMAIN hist'
    <3>1. DiscountKey(Null) # k
      BY <1>4, <2>1 DEF DiscountInv, AliveInv, DiscountKey
    <3> QED BY <1>5, <3>1 DEF DiscountInv, AliveInv, Kept
  <2>5. ASSUME NEW j \in DOMAIN db', j[1] = "discount"
        PROVE  db'[j].at = "live" \/ hist'[j].at.val # "live"
    <3>1. CASE j = k
      BY <2>3, <2>5, <3>1 DEF DiscountInv, AliveInv
    <3>2. CASE j # k
      <4>1. Kept(j) /\ j \in DOMAIN db /\ j \in DOMAIN hist
        BY <1>1, <1>5, <2>5, <3>2 DEF Kept, ColumnInv
      <4> QED BY <2>5, <4>1 DEF Kept, DiscountInv, AliveInv
    <3> QED BY <3>1, <3>2
  <2>6. AliveInv'
    BY <2>4, <2>5 DEF AliveInv, DiscountKey
  <2>7. \A e : e # d => Settled(e)
    BY <1>4, <1>5, KeptSettled DEF DiscountKey
  <2>8. CASE mem[r].meant = {"code", "status"} /\ FreeCode(r, rows[k].code, d)
    <3>1. hist'[k].code.by = r /\ hist'[k].code.val = rows[k].code
      BY <1>4, <1>7, <2>1, <2>8 DEF SavedBy
    <3>2. AskedFor(r, d)
      BY <1>4, <2>8, <3>1 DEF AskedFor, Wants, DiscountKey
    <3> QED BY <2>6, <2>7, <3>2 DEF DiscountEffect
  <2>9. CASE mem[r].meant = {"status"} /\ HeldCode(r, rows[k].code, d)
    <3>1. /\ hist'[k].code.by = hist[k].code.by /\ hist'[k].code.val = hist[k].code.val
          /\ "code" \notin mem[r].meant
      BY <1>4, <1>7, <2>1, <2>9 DEF SavedBy
    <3>2. \A x : Wants(d, x)' => Wants(d, x)
      BY <1>4, <2>1, <2>3, <3>1 DEF Wants, DiscountKey
    <3>3. ASSUME NEW x, Says(d, x)'
          PROVE  Says(d, x) \/ (LinkedTo(k, "code", r) /\ HeldCode(r, x, d))
      <4>1. Wants(d, x) /\ db'[k].code = x
        BY <1>4, <3>2, <3>3 DEF Says, DiscountKey
      <4>2. Differs(r, k, "code")
        BY <1>1, <1>4, <2>1 DEF Compared
      <4>3. CASE k \in DOMAIN db
        <5>1. db[k].at = "live"
          BY <1>4, <4>1, <4>3 DEF Wants, DiscountInv, AliveInv, DiscountKey
        <5>2. k \in DOMAIN dirty /\ x = IF "code" \in dirty[k] THEN rows[k].code ELSE db[k].code
          BY <1>4, <1>7, <4>1, <4>3 DEF SavedBy
        <5>3. CASE "code" \in dirty[k]
          BY <2>9, <3>1, <4>2, <5>2, <5>3 DEF Differs
        <5>4. CASE "code" \notin dirty[k]
          BY <1>4, <4>1, <4>3, <5>1, <5>2, <5>4 DEF Says
        <5> QED BY <5>3, <5>4
      <4>4. CASE k \notin DOMAIN db
        <5>1. x = rows[k].code
          BY <1>4, <1>7, <4>1, <4>4 DEF SavedBy
        <5>2. k \notin DOMAIN dirty
          BY <1>7, <4>4 DEF SavedBy
        <5> QED BY <2>9, <3>1, <4>2, <5>1, <5>2 DEF Differs
      <4> QED BY <4>3, <4>4
    <3>4. PutBack(r, d)
      BY <1>4, <3>1, <3>2, <3>3 DEF PutBack
    <3> QED BY <2>6, <2>7, <3>4 DEF DiscountEffect
  <2> QED BY <1>2, <1>3, <2>8, <2>9 DEF Holding
<1> QED BY <1>5, <1>6, <1>7

LEMMA DiscountsWritten ==
    ASSUME CatInv, RowsInv, DiscountInv, NEW r \in Request, step[r] = "discounts.write",
           NEW s, NEW m, Write(r, s, m)
    PROVE  DiscountEffect(r)
<1> DEFINE rows == mem[r].rows
           C == CatalogueColumns
<1>1. ColumnInv(C) /\ Compared(C, r) /\ Told(r)
  BY CatShared DEF CatInv, CatSaveInv, SaveInv, Keeps, Writing, PlainWriting
<1>2. /\ mem[r].meant = {"at"}
      /\ \A k \in DOMAIN rows : "at" \in DOMAIN rows[k] /\ rows[k].at = "deleted"
  BY DEF DiscountInv, DiscountTold
<1>3. DOMAIN rows \subseteq DOMAIN hist /\ \A k \in DOMAIN rows : "at" \in C[k[1]]
  <2>1. \A k \in DOMAIN rows : k[1] = "discount"
    BY DEF RowsInv, RowsHeld, PlainWriting, SavedTables
  <2> QED BY <1>1, <2>1 DEF Told, Writing, PlainWriting, CatalogueColumns
<1>4. /\ \A k : k \notin DOMAIN rows => Kept(k)
      /\ \A k \in DOMAIN rows : Kept(k) \/ SavedBy(C, r, k)
  BY <1>1, CatReferences, WritesKeep
<1>5. \A k \in DOMAIN rows : SavedBy(C, r, k) => k \in DOMAIN hist' /\ hist'[k].at.val = "deleted"
  BY <1>2, <1>3 DEF SavedBy
<1>6. \A k : Kept(k) \/ (k \in DOMAIN hist /\ hist'[k].at.val = "deleted")
  BY <1>3, <1>4, <1>5
<1> QED BY <1>6, DiscountsGone

LEMMA DiscountInserted ==
    ASSUME CatInv, DiscountInv, NEW r \in Request, NEW row,
           row.at = "live", DOMAIN row = CatalogueColumns["discount"],
           Inserts(r, Single(DiscountKey(r), row)), FreeCode(r, row.code, r)
    PROVE  DiscountEffect(r)
<1> DEFINE rows == Single(DiscountKey(r), row)
           k == DiscountKey(r)
<1>1. DOMAIN rows = {k} /\ rows[k] = row
  BY DEF Single
<1>2. {"at", "code"} \subseteq DOMAIN row
  BY DEF CatalogueColumns
<1> HIDE DEF rows, k
<1>3. /\ \A j : j # k => Kept(j)
      /\ db'[k] = row /\ hist'[k].code.by = r /\ hist'[k].code.val = row.code
  <2>1. Inserts(r, rows)
    BY DEF rows
  <2> QED BY <1>1, <1>2, <2>1, InsertsKeep
<1>4. \A e : e # r => Settled(e)
  BY <1>3, KeptSettled DEF k, DiscountKey
<1>5. DiscountKey(Null) \notin DOMAIN hist'
  <2>1. DiscountKey(Null) # k
    BY BoundAssumption DEF k, DiscountKey
  <2> QED BY <1>3, <2>1 DEF DiscountInv, AliveInv, Kept
<1>6. ASSUME NEW j \in DOMAIN db', j[1] = "discount"
      PROVE  db'[j].at = "live" \/ hist'[j].at.val # "live"
  <2>1. CASE j = k
    BY <1>3, <2>1
  <2>2. CASE j # k
    <3>1. Kept(j) /\ j \in DOMAIN db /\ j \in DOMAIN hist
      BY <1>3, <1>6, <2>2, CatShared DEF Kept, ColumnInv
    <3> QED BY <1>6, <3>1 DEF Kept, DiscountInv, AliveInv
  <2> QED BY <2>1, <2>2
<1>7. AliveInv'
  BY <1>5, <1>6 DEF AliveInv, DiscountKey
<1>8. AskedFor(r, r)
  BY <1>3 DEF AskedFor, Wants, k, DiscountKey
<1> QED BY <1>4, <1>7, <1>8 DEF DiscountEffect

\* A code that checkDiscountCode finds free is free.
LEMMA FoundFree ==
    ASSUME CatInv, DiscountInv, NEW code, NEW d, CodeFree(code, d), NEW r, NEW i,
           d # i => i = r /\ d = Null
    PROVE  FreeCode(r, code, i)
<1> SUFFICES ASSUME NEW e \in Ids("discount") \ {i}, Says(e, code)
             PROVE  FALSE
  BY DEF FreeCode
<1>1. e \in Live("discount") /\ Row("discount", e).code = code
  BY DEF Says, Live, Row, DiscountKey
<1>2. e # Null
  BY SaysId DEF DiscountInv, AliveInv
<1> QED BY <1>1, <1>2 DEF CodeFree

LEMMA DiscountWorks ==
    ASSUME CatInv, RowsInv, DiscountInv, MetGrows, NEW r \in Request, DiscountOperation(r)
    PROVE  DiscountEffect(r) /\ DiscountTold(r)'
<1> DEFINE C == CatalogueColumns
           Quiet == {"discount.links", "discount.diff", "links.reload", "links.write",
                     "links.stores", "links.insert", "discount.mark", "discount.links.find",
                     "ok", "error"}
           Apart == {"discount.stores", "discount.insert", "discount.find", "discount.reload",
                     "discount.write", "discounts.reload", "discounts.write"}
<1>1. ColumnInv(C) /\ C["discount"] = {"at", "code", "status"} /\ DiscountTold(r)
  BY CatShared DEF CatalogueColumns, DiscountInv
<1>2. Quiet \cap Apart = {} /\ Apart \cap Ended = {}
  BY DEF Ended
<1>3. ASSUME NEW s \in Quiet, NEW m, Begin(r, s, m)
      PROVE  DiscountTold(r)'
  BY <1>2, <1>3, BegunAt, DiscountToldNothing
<1>4. ASSUME NEW s \in Quiet, NEW m, Goto(r, s, m)
      PROVE  DiscountTold(r)'
  BY <1>2, <1>4, GoneTo, DiscountToldNothing
<1>5. ASSUME NEW s \in Quiet, NEW m, Reads(r, s, m)
      PROVE  DiscountEffect(r) /\ DiscountTold(r)'
  <2>1. Goto(r, s, m) /\ UNCHANGED <<db, hist>>
    BY <1>5 DEF Reads
  <2> HIDE DEF Quiet
  <2> QED BY <1>4, <2>1, DiscountRead
<1>6. ASSUME NEW s \in Apart, NEW m, Reads(r, s, m)
      PROVE  /\ DiscountEffect(r) /\ step'[r] = s /\ mem'[r] = Over(m, mem[r])
             /\ DOMAIN NoMem \subseteq DOMAIN mem[r]
             /\ UNCHANGED <<db, hist>>
  <2>1. Goto(r, s, m) /\ UNCHANGED <<db, hist>> /\ s \notin Ended
    BY <1>2, <1>6 DEF Reads
  <2> HIDE DEF Apart
  <2> QED BY <2>1, GoneTo, DiscountRead
<1>7. ASSUME NEW s \in Quiet, NEW m, NEW rows, InsertThen(r, rows, s, m),
             \A k \in DOMAIN rows : k[1] = "link"
      PROVE  DiscountEffect(r) /\ DiscountTold(r)'
  <2>1. CASE Inserts(r, rows) /\ Goto(r, s, m)
    <3>1. \A k : k[1] \notin {"link"} => Kept(k)
      BY <1>7, <2>1, InsertsKeep
    <3>2. DiscountEffect(r)
      BY <3>1, DiscountAlone
    <3> HIDE DEF Quiet
    <3> QED BY <1>4, <2>1, <3>2
  <2>2. CASE Reads(r, "error", NoMem)
    BY <1>5, <2>2
  <2> QED BY <1>7, <2>1, <2>2 DEF InsertThen
<1>8. ASSUME NEW s \in Quiet, NEW m, Write(r, s, m)
      PROVE  DiscountTold(r)'
  <2>1. Goto(r, s, m) \/ Goto(r, "error", NoMem)
    BY <1>8 DEF Write, Reads
  <2> QED BY <1>4, <2>1
<1>9. CASE AddDiscount(r)
  <2>1. PICK dto \in DiscountDto :
          CodeFree(dto.code, Null) /\ Begin(r, "discount.stores", [dto |-> dto]) /\ UNCHANGED <<db, hist>>
    BY <1>9 DEF AddDiscount
  <2>2. "code" \in DOMAIN dto
    BY DiscountDtoAssumption DEF CreateDiscountDto
  <2>3. step'[r] = "discount.stores" /\ mem'[r] = Memory([dto |-> dto])
    BY <2>1, BegunAt
  <2>4. mem'[r].dto = dto
    BY <2>3 DEF Memory, NoMem
  <2>5. FreeCode(r, dto.code, r)'
    BY <2>1, FoundFree, CodesRead
  <2>6. DiscountTold(r)'
    BY <2>2, <2>3, <2>4, <2>5 DEF DiscountTold, FreeCode
  <2> QED BY <2>1, <2>6, DiscountRead
<1>10. CASE AddDiscountStores(r)
  <2>1. step[r] = "discount.stores"
    BY <1>10 DEF AddDiscountStores, At
  <2>2. CASE Reads(r, "error", NoMem)
    BY <1>5, <2>2
  <2>3. CASE \E stores :
               Reads(r, "discount.insert", [dto |-> [mem[r].dto EXCEPT !.stores = stores]])
    <3>1. PICK stores :
               Reads(r, "discount.insert", [dto |-> [mem[r].dto EXCEPT !.stores = stores]])
      BY <2>3
    <3> DEFINE m == [dto |-> [mem[r].dto EXCEPT !.stores = stores]]
    <3>2. /\ DiscountEffect(r) /\ step'[r] = "discount.insert" /\ mem'[r] = Over(m, mem[r])
          /\ UNCHANGED <<db, hist>>
      BY <1>6, <3>1
    <3>3. mem'[r].dto = [mem[r].dto EXCEPT !.stores = stores]
      BY <3>2 DEF Over
    <3>4. "code" \in DOMAIN mem[r].dto /\ FreeCode(r, mem[r].dto.code, r)
      BY <1>1, <2>1 DEF DiscountTold
    <3>5. PICK x : x = mem[r].dto.code
      OBVIOUS
    <3>6. "code" \in DOMAIN mem'[r].dto /\ mem'[r].dto.code = x
      BY <3>3, <3>4, <3>5
    <3>7. FreeCode(r, x, r)'
      BY <3>2, <3>4, <3>5, CodesRead
    <3>8. DiscountTold(r)'
      BY <3>2, <3>6, <3>7 DEF DiscountTold, FreeCode
    <3> QED BY <3>2, <3>8
  <2> QED BY <1>10, <2>2, <2>3 DEF AddDiscountStores
<1>11. CASE AddDiscountInsert(r)
  <2> DEFINE row == DiscountRow(mem[r].dto.code, mem[r].dto.status)
  <2>1. step[r] = "discount.insert" /\ InsertThen(r, Single(DiscountKey(r), row), "discount.links", <<>>)
    BY <1>11 DEF AddDiscountInsert, At, DiscountKey
  <2>2. CASE Reads(r, "error", NoMem)
    BY <1>5, <2>2
  <2>3. CASE Inserts(r, Single(DiscountKey(r), row)) /\ Goto(r, "discount.links", <<>>)
    <3>1. row.at = "live" /\ DOMAIN row = C["discount"] /\ row.code = mem[r].dto.code
      BY <1>1 DEF DiscountRow
    <3>2. FreeCode(r, row.code, r)
      BY <1>1, <2>1, <3>1 DEF DiscountTold
    <3> HIDE DEF row
    <3>3. DiscountEffect(r)
      BY <2>3, <3>1, <3>2, DiscountInserted
    <3> QED BY <1>4, <2>3, <3>3
  <2> QED BY <2>1, <2>2, <2>3 DEF InsertThen
<1>12. CASE AddDiscountLinks(r) \/ UpdateDiscountLinks(r)
  <2>1. PICK d, stores, status : InsertThen(r, NewLinks(r, d, stores, status), "ok", NoMem)
    BY <1>12 DEF AddDiscountLinks, UpdateDiscountLinks
  <2>2. \A k \in DOMAIN NewLinks(r, d, stores, status) : k[1] = "link"
    BY DEF NewLinks
  <2> QED BY <1>7, <2>1, <2>2
<1>13. CASE UpdateDiscount(r)
  <2>1. PICK d \in Ids("discount"), dto \in DiscountDto :
          /\ CodeFree(dto.code, d) /\ Begin(r, "discount.find", [dto |-> UpdateDiscountDto(d, dto)])
          /\ UNCHANGED <<db, hist>>
    BY <1>13 DEF UpdateDiscount
  <2>2. "code" \in DOMAIN dto
    BY DiscountDtoAssumption DEF CreateDiscountDto
  <2>3. UpdateDiscountDto(d, dto).code = dto.code /\ UpdateDiscountDto(d, dto).id = d
    BY <2>2 DEF UpdateDiscountDto, Over
  <2>4. step'[r] = "discount.find" /\ mem'[r] = Memory([dto |-> UpdateDiscountDto(d, dto)])
    BY <2>1, BegunAt
  <2>5. mem'[r].dto = UpdateDiscountDto(d, dto)
    BY <2>4 DEF Memory, NoMem
  <2>6. FreeCode(r, dto.code, d)'
    BY <2>1, FoundFree, CodesRead
  <2>7. DiscountTold(r)'
    BY <2>3, <2>4, <2>5, <2>6 DEF DiscountTold, FreeCode
  <2> QED BY <2>1, <2>7, DiscountRead
<1>14. CASE UpdateDiscountFind(r)
  <2> DEFINE d == mem[r].dto.id
             row == Assigned(Row("discount", d),
                             [code |-> mem[r].dto.code, status |-> mem[r].dto.status])
             m == Save(Single(DiscountKey(d), row), {"code", "status"})
  <2>1. step[r] = "discount.find"
    BY <1>14 DEF UpdateDiscountFind, At
  <2>2. CASE Reads(r, "error", NoMem)
    BY <1>5, <2>2
  <2>3. CASE d \in Live("discount") /\ Reads(r, "discount.reload", m)
    <3>1. /\ DiscountEffect(r) /\ step'[r] = "discount.reload" /\ mem'[r] = Over(m, mem[r])
          /\ UNCHANGED <<db, hist>>
      BY <1>6, <2>3
    <3>2. mem'[r].rows = Single(DiscountKey(d), row) /\ mem'[r].meant = {"code", "status"}
      BY <3>1 DEF Over, Save
    <3>3. DOMAIN Row("discount", d) = C["discount"] /\ Row("discount", d).at = "live"
      BY <1>1, <2>3, LiveKey DEF Live
    <3>4. {"at", "code"} \subseteq DOMAIN row /\ row.at = "live" /\ row.code = mem[r].dto.code
      BY <1>1, <3>3 DEF Assigned, Over
    <3>5. FreeCode(r, row.code, d)
      BY <1>1, <2>1, <3>4 DEF DiscountTold
    <3> HIDE DEF row, d
    <3> QED BY <3>1, <3>2, <3>4, <3>5, HoldingRow
  <2> QED BY <1>14, <2>2, <2>3 DEF UpdateDiscountFind, DiscountKey
<1>15. CASE DiscountReload(r) \/ DeleteDiscountsReload(r)
  <2> DEFINE m == [dirty |-> DirtyOf(mem[r].rows)]
  <2>1. PICK s \in {"discount.write", "discounts.write"} :
          /\ s = "discount.write" => step[r] = "discount.reload"
          /\ s = "discounts.write" => step[r] = "discounts.reload"
          /\ Reads(r, s, m)
    BY <1>15 DEF DiscountReload, DeleteDiscountsReload, At, Reload
  <2>2. DOMAIN m = {"dirty"}
    OBVIOUS
  <2> HIDE DEF m
  <2>3. /\ DiscountEffect(r) /\ step'[r] = s /\ mem'[r] = Over(m, mem[r])
        /\ DOMAIN NoMem \subseteq DOMAIN mem[r] /\ UNCHANGED <<db, hist>>
    BY <1>6, <2>1
  <2>4. mem'[r].rows = mem[r].rows /\ mem'[r].meant = mem[r].meant
    BY <2>2, <2>3 DEF Over, NoMem
  <2>5. CASE s = "discount.write"
    <3>1. PICK k \in DOMAIN mem[r].rows : Holding(r, k)
      BY <1>1, <2>1, <2>5 DEF DiscountTold
    <3>2. PICK d : d = k[2]
      OBVIOUS
    <3>3. PICK x : x = mem[r].rows[k].code
      OBVIOUS
    <3>4. /\ FreeCode(r, x, d) => FreeCode(r, x, d)'
          /\ HeldCode(r, x, d) => HeldCode(r, x, d)'
      BY <2>3, CodesRead
    <3>5. Holding(r, k)'
      BY <2>4, <3>1, <3>2, <3>3, <3>4 DEF Holding, DiscountKey, FreeCode, HeldCode
    <3>6. k \in DOMAIN mem'[r].rows
      BY <2>4
    <3>7. DiscountTold(r)'
      BY <2>3, <2>5, <3>5, <3>6 DEF DiscountTold
    <3> QED BY <2>3, <3>7
  <2>6. CASE s = "discounts.write"
    <3>1. DiscountTold(r)'
      BY <1>1, <2>1, <2>3, <2>4, <2>6 DEF DiscountTold
    <3> QED BY <2>3, <3>1
  <2> QED BY <2>5, <2>6
<1>16. CASE DiscountWrite(r)
  <2>1. PICK s \in Quiet : step[r] = "discount.write" /\ Write(r, s, <<>>)
    BY <1>16 DEF DiscountWrite, At
  <2> HIDE DEF Quiet
  <2> QED BY <1>8, <2>1, DiscountWritten
<1>17. CASE DeleteDiscountsWrite(r)
  <2>1. step[r] = "discounts.write" /\ Write(r, "discount.links.find", <<>>)
    BY <1>17 DEF DeleteDiscountsWrite, At
  <2> QED BY <1>8, <2>1, DiscountsWritten
<1>18. CASE LinksWrite(r)
  <2>1. PICK s \in Quiet : step[r] = "links.write" /\ Write(r, s, <<>>)
    BY <1>18 DEF LinksWrite, At
  <2>2. \A k \in DOMAIN mem[r].rows : k[1] = "link"
    BY <2>1 DEF RowsInv, RowsHeld, PlainWriting, SavedTables
  <2>3. Compared(C, r)
    BY <2>1, CatShared DEF CatInv, CatSaveInv, SaveInv, Keeps, Writing, PlainWriting
  <2>4. \A k : k[1] \notin {"link"} => Kept(k)
    <3> HIDE DEF Quiet
    <3>1. \A k : k \notin DOMAIN mem[r].rows => Kept(k)
      BY <1>1, <2>1, <2>3, CatReferences, WritesKeep
    <3> QED BY <2>2, <3>1
  <2> HIDE DEF Quiet
  <2> QED BY <1>8, <2>1, <2>4, DiscountAlone
<1>19. CASE UpdateDiscountDiff(r) \/ LinksReload(r) \/ UpdateDiscountStores(r) \/ DeleteDiscountLinks(r)
  <2>1. PICK s \in {"links.reload", "links.write", "ok", "links.insert", "error"} :
          \E m : Reads(r, s, m)
    BY <1>19 DEF UpdateDiscountDiff, LinksReload, UpdateDiscountStores, DeleteDiscountLinks, Reload
  <2>2. s \in Quiet
    OBVIOUS
  <2> HIDE DEF Quiet
  <2> QED BY <1>5, <2>1, <2>2
<1>20. CASE ChangeDiscountStatus(r)
  <2>1. PICK d \in Live("discount"), status \in StatusBody :
          /\ Begin(r, "discount.reload",
               Save(Single(<<"discount", d>>, Assigned(Row("discount", d), [status |-> status])),
                    {"status"}))
          /\ UNCHANGED <<db, hist>>
    BY <1>20 DEF ChangeDiscountStatus
  <2> DEFINE row == Assigned(Row("discount", d), [status |-> status])
             m == Save(Single(DiscountKey(d), row), {"status"})
  <2>2. step'[r] = "discount.reload" /\ mem'[r] = Memory(m)
    BY <2>1, BegunAt DEF DiscountKey
  <2>3. mem'[r].rows = Single(DiscountKey(d), row) /\ mem'[r].meant = {"status"}
    BY <2>2 DEF Memory, NoMem, Save
  <2>4. /\ DiscountKey(d) \in DOMAIN db /\ Row("discount", d) = db[DiscountKey(d)]
        /\ DOMAIN Row("discount", d) = C["discount"] /\ Row("discount", d).at = "live"
    BY <1>1, LiveKey DEF Live, DiscountKey
  <2>5. {"at", "code"} \subseteq DOMAIN row /\ row.at = "live" /\ row.code = db[DiscountKey(d)].code
    BY <1>1, <2>4 DEF Assigned, Over
  <2>6. HeldCode(r, row.code, d)
    <3>1. ASSUME Wants(d, row.code), NEW e \in Ids("discount") \ {d}, Says(e, row.code)
          PROVE  BothLinked(d, e)
      <4>1. Says(d, row.code) /\ d \in Ids("discount")
        BY <2>4, <2>5, <3>1 DEF Says, Live
      <4>2. Row("discount", e).code = row.code
        BY <3>1, SaysId
      <4> QED BY <3>1, <4>1, <4>2 DEF DiscountInv, CodesApart
    <3> QED BY <3>1 DEF HeldCode
  <2> HIDE DEF row
  <2>7. DiscountTold(r)'
    BY <2>1, <2>2, <2>3, <2>5, <2>6, HoldingRow
  <2> QED BY <2>1, <2>7, DiscountRead
<1>21. CASE AddDiscountTransaction(r) \/ DeleteDiscount(r)
  <2>1. PICK s \in {"error", "discount.mark"} : \E m : Begin(r, s, m) /\ UNCHANGED <<db, hist>>
    BY <1>21 DEF AddDiscountTransaction, DeleteDiscount
  <2>2. s \in Quiet
    OBVIOUS
  <2> HIDE DEF Quiet
  <2> QED BY <1>3, <2>1, <2>2, DiscountRead
<1>22. CASE DeleteDiscountMark(r)
  <2> DEFINE keys == {"discount"} \X mem[r].dto.ids
  <2>1. Updates(r, keys, Deleted) /\ Goto(r, "discount.links.find", <<>>)
    BY <1>22 DEF DeleteDiscountMark
  <2>2. "at" \in DOMAIN Deleted /\ Deleted["at"] = "deleted"
    BY DEF Deleted
  <2> HIDE DEF keys
  <2>3. \A k : Kept(k) \/ (k \in DOMAIN db /\ hist'[k].at.val = "deleted")
    BY <2>1, <2>2, UpdatesKeep
  <2>4. \A k : Kept(k) \/ (k \in DOMAIN hist /\ hist'[k].at.val = "deleted")
    BY <1>1, <2>3 DEF ColumnInv
  <2> QED BY <1>4, <2>1, <2>4, DiscountsGone
<1>23. CASE DeleteDiscounts(r)
  <2>1. PICK ids, found :
          /\ Begin(r, "discounts.reload",
               SaveWith([ids |-> ids, one |-> FALSE],
                        [k \in {"discount"} \X found |-> Assigned(db[k], Deleted)], {"at"}))
          /\ UNCHANGED <<db, hist>>
    BY <1>23 DEF DeleteDiscounts
  <2> DEFINE rows == [k \in {"discount"} \X found |-> Assigned(db[k], Deleted)]
             m == SaveWith([ids |-> ids, one |-> FALSE], rows, {"at"})
  <2>2. \A k \in DOMAIN rows : "at" \in DOMAIN rows[k] /\ rows[k].at = "deleted"
    BY DEF Assigned, Over, Deleted
  <2> HIDE DEF rows
  <2>3. step'[r] = "discounts.reload" /\ mem'[r] = Memory(m)
    BY <2>1, BegunAt DEF rows
  <2>4. mem'[r].rows = rows /\ mem'[r].meant = {"at"}
    BY <2>3 DEF Memory, NoMem, SaveWith
  <2>5. DiscountTold(r)'
    BY <2>2, <2>3, <2>4 DEF DiscountTold
  <2> QED BY <2>1, <2>5, DiscountRead
<1> QED BY <1>9, <1>10, <1>11, <1>12, <1>13, <1>14, <1>15, <1>16, <1>17, <1>18, <1>19, <1>20,
           <1>21, <1>22, <1>23 DEF DiscountOperation

DiscountIndInv == CatInv /\ RowsInv /\ DiscountInv

LEMMA DiscountOperationStep ==
    ASSUME DiscountIndInv, CatInv', NEW r \in Request, Operation(r)
    PROVE  RowsInv' /\ DiscountInv'
<1>1. CatInv /\ RowsInv /\ DiscountInv /\ HoldInv /\ ColumnInv(CatalogueColumns)'
  <2>1. CatInv => ColumnInv(CatalogueColumns)
    BY CatShared
  <2>2. CatInv' => ColumnInv(CatalogueColumns)'
    BY DEF CatInv, CatSaveInv, SaveInv, SharedInv
  <2> QED BY <2>2, CatShared DEF DiscountIndInv
<1>2. ASSUME NEW S, NEW T, Turn(r, S, T), "discount" \notin T,
             S \cap {"idle", "discount.stores", "discount.insert", "discount.find",
                     "discount.reload", "discount.write", "discounts.reload",
                     "discounts.write"} = {}
      PROVE  RowsInv' /\ DiscountInv'
  <2>1. DiscountTold(r)'
    BY <1>2, DiscountToldNothing DEF Turn
  <2>2. DiscountEffect(r)
    BY <1>1, <1>2, DiscountAlone DEF Turn
  <2> QED BY <1>1, <1>2, <2>1, <2>2, DiscountStep, RowsStay
<1>3. CASE Turn(r, StoreSteps, {"store", "hours"})
  BY <1>2, <1>3 DEF StoreSteps, Ended
<1>4. CASE Turn(r, HoursSteps, {"hours"})
  BY <1>2, <1>4 DEF HoursSteps, Ended
<1>5. CASE DiscountOperation(r) /\ Turn(r, DiscountSteps, {"discount", "link"})
  <2>1. "idle" \notin DiscountSteps
    BY DEF DiscountSteps, Ended
  <2>2. MetGrows
    BY <1>1, <1>5, <2>1, TurnMoves
  <2> QED BY <1>1, <1>5, <2>1, <2>2, DiscountWorks, DiscountStep, RowsStay
<1>6. CASE Turn(r, MenuSteps, MenuTables)
  BY <1>2, <1>6 DEF MenuSteps, MenuTables, Editing, Looping, Ended
<1> QED BY <1>1, <1>3, <1>4, <1>5, <1>6, OperationTurn

LEMMA DiscountSame ==
    ASSUME DiscountIndInv, UNCHANGED <<db, step, mem, met, hist>>
    PROVE  RowsInv' /\ DiscountInv'
<1>1. RowsInv'
  BY DEF DiscountIndInv, RowsInv, RowsHeld
<1>2. AliveInv' /\ CodesApart'
  <2>1. /\ Ids("discount")' = Ids("discount")
        /\ \A e : Row("discount", e)' = Row("discount", e)
        /\ \A d, x : Says(d, x)' <=> Says(d, x)
    BY DEF Ids, Row, Says, Wants, DiscountKey
  <2>2. \A d, e : BothLinked(d, e)' <=> BothLinked(d, e)
    BY DEF BothLinked, LinkedTo, Linked, DiscountKey
  <2>3. CodesApart'
    BY <2>1, <2>2 DEF DiscountIndInv, DiscountInv, CodesApart, Says, Wants, BothLinked, LinkedTo,
                      DiscountKey
  <2> QED BY <2>3 DEF DiscountIndInv, DiscountInv, AliveInv, DiscountKey
<1>3. ASSUME NEW r \in Request
      PROVE  DiscountTold(r)'
  <2>1. DiscountTold(r) /\ mem'[r] = mem[r] /\ step'[r] = step[r]
    BY DEF DiscountIndInv, DiscountInv
  <2>2. /\ \A x, d : FreeCode(r, x, d)' <=> FreeCode(r, x, d)
        /\ \A x, d : HeldCode(r, x, d)' <=> HeldCode(r, x, d)
    BY DEF FreeCode, HeldCode, Ids, Says, Wants, BothLinked, LinkedTo, Linked, DiscountKey
  <2>3. \A k : Holding(r, k) => Holding(r, k)'
    BY <2>1, <2>2 DEF Holding, DiscountKey, FreeCode, HeldCode
  <2> QED BY <2>1, <2>2, <2>3 DEF DiscountTold, FreeCode
<1> QED BY <1>1, <1>2, <1>3 DEF DiscountInv

LEMMA DiscountInitially == Init => DiscountIndInv
<1> SUFFICES ASSUME Init
             PROVE  DiscountIndInv
  OBVIOUS
<1>1. /\ area \in Area /\ TablesInit(Rows[area]) /\ CatInv
      /\ \A k \in DOMAIN Rows[area] :
           /\ k[2] # Null
           /\ \A j \in DOMAIN Rows[area] \ {k} :
                (/\ j[1] = "discount" /\ k[1] = "discount"
                 /\ Rows[area][j].at = "live" /\ Rows[area][k].at = "live")
                   => Rows[area][j].code # Rows[area][k].code
  BY CatInitially, RowsAssumption DEF Init
<1>2. /\ db = Rows[area] /\ DOMAIN hist = DOMAIN db
      /\ \A r \in Request : step[r] = "idle"
      /\ \A k \in DOMAIN db : \A c \in DOMAIN db[k] : hist[k][c].val = db[k][c]
  BY <1>1 DEF TablesInit
<1>3. RowsInv
  BY <1>2 DEF RowsInv, RowsHeld, PlainReading, PlainWriting
<1>4. AliveInv
  <2>1. \A k \in DOMAIN db : k[1] = "discount" => hist[k].at.val = db[k].at
    BY <1>1, <1>2, CatShared DEF ColumnInv, Schema, CatalogueColumns
  <2> QED BY <1>1, <1>2, <2>1 DEF AliveInv, DiscountKey
<1>5. CodesApart
  <2> SUFFICES ASSUME NEW d, NEW e, d # e, NEW x, Says(d, x), Says(e, x)
               PROVE  FALSE
    BY DEF CodesApart
  <2>1. \A i \in {d, e} : /\ DiscountKey(i) \in DOMAIN Rows[area]
                          /\ Rows[area][DiscountKey(i)].at = "live"
                          /\ Rows[area][DiscountKey(i)].code = x
    BY <1>2 DEF Says
  <2>2. /\ DiscountKey(d) # DiscountKey(e)
        /\ DiscountKey(d)[1] = "discount" /\ DiscountKey(e)[1] = "discount"
    BY DEF DiscountKey
  <2> QED BY <1>1, <2>1, <2>2
<1>6. \A r \in Request : DiscountTold(r)
  BY <1>2 DEF DiscountTold
<1> QED BY <1>1, <1>3, <1>4, <1>5, <1>6 DEF DiscountIndInv, DiscountInv

LEMMA DiscountInductive == DiscountIndInv /\ [Next]_vars => DiscountIndInv'
<1> SUFFICES ASSUME DiscountIndInv, [Next]_vars
             PROVE  DiscountIndInv'
  OBVIOUS
<1>1. CatInv'
  BY CatInductive DEF DiscountIndInv
<1>2. CASE UNCHANGED vars
  BY <1>1, <1>2, DiscountSame DEF vars, tableVars, DiscountIndInv
<1>3. CASE \E r \in Among[area] : Operation(r)
  <2>1. Among[area] \subseteq Request
    BY CatalogueAssumption DEF DiscountIndInv, CatInv
  <2> QED BY <1>1, <1>3, <2>1, DiscountOperationStep DEF DiscountIndInv
<1>4. CASE Finished
  BY <1>1, <1>4, DiscountSame DEF Finished, tableVars, DiscountIndInv
<1> QED BY <1>2, <1>3, <1>4 DEF Next

\* Two live discounts that nobody asked to delete, and whose codes are the
\* ones last asked for, share a code only where the requests that asked for
\* it are joined by a chain of overlaps.
THEOREM CatalogueCodes == Spec => []ClashOnlyByOverlap
<1>1. DiscountIndInv => ClashOnlyByOverlap
  <2> SUFFICES ASSUME DiscountIndInv,
                      NEW d \in Live("discount"), NEW e \in Live("discount"), d # e,
                      Row("discount", d).code = Row("discount", e).code,
                      \A i \in {d, e} :
                         /\ hist[<<"discount", i>>]["at"].val = "live"
                         /\ hist[<<"discount", i>>]["code"].val = Row("discount", i).code
               PROVE  /\ hist[<<"discount", d>>]["code"].by # Null
                      /\ Linked(hist[<<"discount", d>>]["code"].by, hist[<<"discount", e>>]["code"].by)
    BY DEF ClashOnlyByOverlap
  <2>1. ColumnInv(CatalogueColumns) /\ CodesApart
    BY CatShared DEF DiscountIndInv, DiscountInv
  <2> DEFINE x == Row("discount", e).code
  <2>2. \A i \in {d, e} : /\ DiscountKey(i) \in DOMAIN db /\ DiscountKey(i) \in DOMAIN hist
                          /\ Row("discount", i) = db[DiscountKey(i)]
    BY <2>1, LiveKey DEF DiscountKey, ColumnInv
  <2>3. \A i \in {d, e} : Says(i, x) /\ i \in Ids("discount")
    BY <2>2 DEF Says, Wants, DiscountKey, Live
  <2>4. BothLinked(d, e)
    BY <2>1, <2>3 DEF CodesApart
  <2> QED BY <2>4 DEF BothLinked, LinkedTo, DiscountKey
<1> QED BY <1>1, DiscountInitially, DiscountInductive, PTL DEF Spec


-----------------------------------------------------------------------------
(* Discounts and groups that are deleted, and their children.              *)

GroupKey(g) == <<"group", g>>
LinkKey(r, s) == <<"link", <<r, s>>>>
BodyStores == UNION {dto.stores : dto \in DiscountDto}
ParentTables == {"discount", "group"}
ChildTables == {"link", "option", "attached"}

\* Row k belongs to the parent P, a discount or a group.
TiedTo(k, P) ==
    /\ k \in DOMAIN db
    /\ \/ k[1] = "link" /\ P = DiscountKey(db[k].discount)
       \/ k[1] \in {"option", "attached"} /\ P = GroupKey(db[k].group)
LiveChild(k, P) == TiedTo(k, P) /\ db[k].at = "live"

\* Request w changes a discount and its links.
Updating == {"discount.reload", "discount.write", "links.reload", "links.write"}
Revising(w) ==
    \/ step[w] \in {"discount.diff", "links.stores", "links.insert"}
    \/ step[w] \in Updating /\ mem[w].dto # Null

\* It may write a child of P in a step to come.
Joins(w, P) ==
    \/ step[w] = "discount.links" /\ P = DiscountKey(w)
    \/ Revising(w) /\ P = DiscountKey(mem[w].dto.id)
    \/ step[w] \in {"group.attach", "group.options"} /\ P = GroupKey(w)
    \/ step[w] \in Editing /\ P = GroupKey(mem[w].dto.id)

\* Request d is to delete the child k of P, or fails before.
Takes(d, P, k) ==
    \/ /\ step[d] = "discount.links.find" /\ k[1] = "link"
       /\ \E i \in mem[d].dto.ids : P = DiscountKey(i)
    \/ /\ step[d] \in {"links.reload", "links.write"} /\ mem[d].dto = Null
       /\ k \in DOMAIN mem[d].rows
       /\ step[d] = "links.write" => k \in DOMAIN mem[d].dirty /\ "at" \in mem[d].dirty[k]
    \/ step[d] = "group.markOptions" /\ k[1] # "link" /\ P = GroupKey(mem[d].dto)
    \/ step[d] = "group.detach" /\ k[1] = "attached" /\ P = GroupKey(mem[d].dto)

\* Of a parent that d deleted, who may yet write a child overlapped d, and so
\* did who wrote a child that lives and that d is not to delete.
ChildInv ==
    \A P \in DOMAIN db : P[1] \in ParentTables /\ db[P].at = "deleted" =>
       \A d \in Request : hist[P].at.by = d =>
          /\ \A w \in Request : Joins(w, P) => w \in met[d]
          /\ step[d] # "error" =>
                \A k \in DOMAIN db :
                   LiveChild(k, P) => hist[k].at.writer \in met[d] \/ Takes(d, P, k)

AttachedInv == \A k \in DOMAIN db : k[1] = "attached" => db[k].group = k[2][1]
LinkMade == \A r \in Request, s \in BodyStores : LinkKey(r, s) \in DOMAIN db => step[r] \in Ended

\* What a request knows of the parents and the children that it holds: the
\* body of a change to a discount names the discount and stores, ...
Named(r) ==
    LET dto == mem[r].dto
    IN  {"id", "stores"} \subseteq DOMAIN dto /\ dto.stores \subseteq BodyStores
\* ... the links it is to delete, ...
LinksHeld(r) ==
    LET rows == mem[r].rows
    IN  \A k \in DOMAIN rows : /\ {"at", "discount"} \subseteq DOMAIN rows[k]
                               /\ rows[k].at = "deleted" /\ k[1] = "link"
                               /\ TiedTo(k, DiscountKey(rows[k].discount))
\* ... the group it edits with its options, ...
EditHeld(r) ==
    LET dto == mem[r].dto
    IN  /\ "at" \in DOMAIN dto.group /\ dto.group.at = "live"
        /\ \A k \in DOMAIN dto.existing :
              /\ k[1] = "option" /\ TiedTo(k, GroupKey(dto.id))
              /\ "group" \in DOMAIN dto.existing[k] /\ dto.existing[k].group = dto.id
\* ... those it inserted, and the rows of the group it is to write.
OwnOptions(r) ==
    \A n \in Nat : OptionKey(r, n) \in DOMAIN db => TiedTo(OptionKey(r, n), GroupKey(mem[r].dto.id))
OfGroup(r) ==
    LET rows == mem[r].rows
    IN  \A k \in DOMAIN rows : "group" \in DOMAIN rows[k] /\ rows[k].group = mem[r].dto.id
ChildTold(r) ==
    LET dto == mem[r].dto
        rows == mem[r].rows
    IN  /\ step[r] \in {"discount.stores", "discount.insert", "discount.links"} =>
              "stores" \in DOMAIN dto /\ dto.stores \subseteq BodyStores
        /\ step[r] = "discount.find" \/ Revising(r) => Named(r)
        /\ step[r] \in {"discounts.reload", "discounts.write"} =>
              \A k \in DOMAIN rows : \E i \in dto.ids : k = DiscountKey(i)
        /\ step[r] \in {"links.reload", "links.write"} => LinksHeld(r)
        /\ step[r] \in {"group.products", "group.insert", "group.attach", "group.options"} =>
              IsSeq(dto.options)
        /\ step[r] \in Editing => EditHeld(r)
        /\ step[r] \in Looping => OwnOptions(r)
        /\ step[r] \in {"edit.attach.reload", "edit.attach", "edit.option.insert",
                        "edit.option.reload", "edit.option.write"} => OfGroup(r)
        /\ step[r] \in {"edit.attach.reload", "edit.attach"} =>
              \A k \in DOMAIN rows : k[2][1] = dto.id
        /\ step[r] \in {"edit.option.reload", "edit.option.write"} =>
              \A k \in DOMAIN rows : k[1] = "option" /\ TiedTo(k, GroupKey(dto.id))
        /\ step[r] = "entity.write" =>
              \A k \in DOMAIN rows : k[1] = "group" =>
                 "at" \in DOMAIN rows[k] /\ rows[k].at = "live" /\ mem[r].meant = {"title"}

DeletedInv ==
    /\ ChildInv /\ AttachedInv /\ LinkMade
    /\ \A r \in Request : ChildTold(r)

-----------------------------------------------------------------------------
(* What a step of r may do.                                                *)

\* A parent that is deleted was, or r deleted it and is to delete its children.
ParentFine(r, P) ==
    P \in DOMAIN db' /\ db'[P].at = "deleted" =>
       \/ P \in DOMAIN db /\ db[P].at = "deleted" /\ hist'[P].at.by = hist[P].at.by
       \/ /\ hist'[P].at.by = r /\ ~Joins(r, P)'
          /\ \A k : TiedTo(k, P)' => Takes(r, P, k)'

\* A child that lives did, or r wrote it; links and options keep their parent,
\* and the new ones are r's.
ChildFine(r, k) ==
    /\ \A P : LiveChild(k, P)' =>
          \/ LiveChild(k, P) /\ hist'[k].at.writer = hist[k].at.writer
          \/ hist'[k].at.writer = r /\ Joins(r, P)
    /\ \A P : k[1] # "attached" /\ TiedTo(k, P) => TiedTo(k, P)'
    /\ k \in DOMAIN db' /\ k[1] = "attached" => db'[k].group = k[2][1]
    /\ k \in DOMAIN db' \ DOMAIN db =>
          /\ \A j \in Request, s \in BodyStores : k = LinkKey(j, s) => j = r /\ step'[r] \in Ended
          /\ \A j \in Request, n \in Nat : k = OptionKey(j, n) => j = r

\* r joins no parent that is deleted.
JoinFine(r) ==
    \A P : Joins(r, P)' => Joins(r, P) \/ (P \in DOMAIN db' => db'[P].at = "live")

\* What r was to delete it still is, or it did.
TakeFine(r) ==
    step'[r] # "error" =>
       \A P, k : Takes(r, P, k) /\ LiveChild(k, P) /\ LiveChild(k, P)' => Takes(r, P, k)'

DeletedEffect(r) ==
    /\ \A P : P[1] \in ParentTables => ParentFine(r, P)
    /\ \A k : k[1] \in ChildTables => ChildFine(r, k)
    /\ JoinFine(r) /\ TakeFine(r)

\* The steps at which a request joins a parent, is to delete children, or
\* knows something of either.
JoinSteps == {"discount.links", "discount.diff", "links.stores", "links.insert",
              "group.attach", "group.options"} \cup Updating \cup Editing
TakeSteps == {"discount.links.find", "links.reload", "links.write", "group.markOptions",
              "group.detach"}
TellSteps == JoinSteps \cup
    {"discount.stores", "discount.insert", "discount.find", "discounts.reload",
     "discounts.write", "group.products", "group.insert", "entity.write"}

LEMMA NoJoin ==
    ASSUME NEW w, step[w] \notin JoinSteps
    PROVE  \A P : ~Joins(w, P)
BY DEF Joins, JoinSteps, Revising

LEMMA NoJoinThen ==
    ASSUME NEW w, step'[w] \notin JoinSteps
    PROVE  \A P : ~Joins(w, P)'
BY DEF Joins, JoinSteps, Revising

LEMMA JoinOpen ==
    ASSUME NEW w \in Request, NEW P, Joins(w, P)'
    PROVE  w \in Open'
<1>1. step'[w] \in JoinSteps
  BY NoJoinThen
<1> QED BY <1>1 DEF JoinSteps, Updating, Editing, Open, Ended

LEMMA NothingTaken ==
    ASSUME NEW r, step[r] \notin TakeSteps
    PROVE  TakeFine(r)
BY DEF TakeFine, Takes, TakeSteps

LEMMA FailsTaking ==
    ASSUME NEW r, step'[r] = "error"
    PROVE  TakeFine(r)
BY DEF TakeFine

LEMMA NothingTold ==
    ASSUME NEW r, step'[r] \notin TellSteps
    PROVE  ChildTold(r)'
BY DEF ChildTold, TellSteps, JoinSteps, Updating, Editing, Looping, Revising

LEMMA NoJoinFine ==
    ASSUME NEW r, step'[r] \notin JoinSteps
    PROVE  JoinFine(r)
BY NoJoinThen DEF JoinFine

LEMMA KeptParent ==
    ASSUME CatInv, NEW P, Kept(P), NEW r
    PROVE  ParentFine(r, P)
BY CatShared DEF ParentFine, Kept, ColumnInv

LEMMA KeptChild ==
    ASSUME CatInv, AttachedInv, NEW k, Kept(k), NEW r
    PROVE  ChildFine(r, k)
<1>1. \A P : (TiedTo(k, P)' <=> TiedTo(k, P)) /\ (LiveChild(k, P)' <=> LiveChild(k, P))
  BY DEF Kept, TiedTo, LiveChild, DiscountKey, GroupKey
<1>2. k \in DOMAIN db => hist'[k] = hist[k]
  BY CatShared DEF Kept, ColumnInv
<1>3. \A P : LiveChild(k, P) => k \in DOMAIN db
  BY DEF LiveChild, TiedTo
<1> QED BY <1>1, <1>2, <1>3 DEF ChildFine, Kept, AttachedInv

LEMMA ChildInvStays ==
    ASSUME CatInv, ChildInv, NEW r \in Request, NEW S, NEW T, Turn(r, S, T), "idle" \notin S,
           DeletedEffect(r)
    PROVE  ChildInv'
<1>1. /\ MetGrows /\ step[r] \notin Ended
      /\ \A q \in Request \ {r} : step'[q] = step[q] /\ mem'[q] = mem[q]
      /\ \A q \in Open' \ {r} : q \in met'[r]
  BY TurnMoves
<1>2. SUFFICES ASSUME NEW P, P \in DOMAIN db', P[1] \in ParentTables, db'[P].at = "deleted",
                      NEW d \in Request, hist'[P].at.by = d
               PROVE  /\ \A w \in Request : Joins(w, P)' => w \in met'[d]
                      /\ step'[d] # "error" =>
                           \A k \in DOMAIN db' : LiveChild(k, P)' =>
                              hist'[k].at.writer \in met'[d] \/ Takes(d, P, k)'
  BY DEF ChildInv
<1>3. ParentFine(r, P)
  BY <1>2 DEF DeletedEffect
<1>4. CASE /\ hist'[P].at.by = r /\ ~Joins(r, P)'
           /\ \A k : TiedTo(k, P)' => Takes(r, P, k)'
  <2>1. ASSUME NEW w \in Request, Joins(w, P)'
        PROVE  w \in met'[d]
    BY <1>1, <1>2, <1>4, <2>1, JoinOpen
  <2>2. \A k : LiveChild(k, P)' => Takes(d, P, k)'
    BY <1>2, <1>4 DEF LiveChild
  <2> QED BY <2>1, <2>2
<1>5. CASE P \in DOMAIN db /\ db[P].at = "deleted" /\ hist'[P].at.by = hist[P].at.by
  <2>1. /\ \A w \in Request : Joins(w, P) => w \in met[d]
        /\ step[d] # "error" =>
             \A k \in DOMAIN db : LiveChild(k, P) =>
                hist[k].at.writer \in met[d] \/ Takes(d, P, k)
    BY <1>2, <1>5 DEF ChildInv
  <2>2. met[d] \subseteq met'[d]
    BY <1>1 DEF MetGrows
  <2>3. ASSUME NEW w \in Request, Joins(w, P)'
        PROVE  w \in met'[d]
    <3>1. Joins(w, P)
      <4>1. CASE w = r
        BY <1>2, <2>3, <4>1 DEF DeletedEffect, JoinFine
      <4>2. CASE w # r
        BY <1>1, <2>3, <4>2 DEF Joins, Revising, DiscountKey, GroupKey
      <4> QED BY <4>1, <4>2
    <3> QED BY <2>1, <2>2, <3>1
  <2>4. ASSUME step'[d] # "error", NEW k \in DOMAIN db', LiveChild(k, P)'
        PROVE  hist'[k].at.writer \in met'[d] \/ Takes(d, P, k)'
    <3>1. k[1] \in ChildTables
      BY <2>4 DEF LiveChild, TiedTo, ChildTables
    <3>2. CASE hist'[k].at.writer = r /\ Joins(r, P)
      BY <2>1, <2>2, <3>2
    <3>3. CASE LiveChild(k, P) /\ hist'[k].at.writer = hist[k].at.writer
      <4>1. step[d] # "error" /\ k \in DOMAIN db
        BY <1>1, <2>4, <3>3 DEF Ended, LiveChild, TiedTo
      <4>2. CASE hist[k].at.writer \in met[d]
        BY <2>2, <3>3, <4>2
      <4>3. CASE Takes(d, P, k)
        <5>1. CASE d = r
          BY <2>4, <3>3, <4>3, <5>1 DEF DeletedEffect, TakeFine
        <5>2. CASE d # r
          BY <1>1, <4>3, <5>2 DEF Takes, DiscountKey, GroupKey
        <5> QED BY <5>1, <5>2
      <4> QED BY <2>1, <3>3, <4>1, <4>2, <4>3
    <3> QED BY <2>4, <3>1, <3>2, <3>3 DEF DeletedEffect, ChildFine
  <2> QED BY <2>3, <2>4
<1> QED BY <1>2, <1>3, <1>4, <1>5 DEF ParentFine

LEMMA ChildToldStays ==
    ASSUME NEW r, DeletedEffect(r), NEW q \in Request, q # r,
           step'[q] = step[q], mem'[q] = mem[q], ChildTold(q)
    PROVE  ChildTold(q)'
<1>1. \A k, P : k[1] # "attached" /\ TiedTo(k, P) => TiedTo(k, P)'
  BY DEF DeletedEffect, ChildFine, TiedTo, ChildTables
<1>2. ASSUME NEW n \in Nat, OptionKey(q, n) \in DOMAIN db'
      PROVE  OptionKey(q, n) \in DOMAIN db
  <2>1. OptionKey(q, n)[1] \in ChildTables
    BY DEF OptionKey, ChildTables
  <2>2. PICK k : k = OptionKey(q, n)
    OBVIOUS
  <2> QED BY <1>2, <2>1, <2>2 DEF DeletedEffect, ChildFine
<1>3. PICK dto : dto = mem[q].dto
  OBVIOUS
<1>4. PICK rows : rows = mem[q].rows
  OBVIOUS
<1>5. PICK g : g = dto.id
  OBVIOUS
<1>6. Revising(q)' <=> Revising(q)
  BY DEF Revising
<1>7. \A k, x : k[1] = "link" /\ TiedTo(k, DiscountKey(x)) => TiedTo(k, DiscountKey(x))'
  BY <1>1
<1>8. \A k : k[1] = "option" /\ TiedTo(k, GroupKey(g)) => TiedTo(k, GroupKey(g))'
  BY <1>1
<1>9. step[q] \in Looping =>
         \A n \in Nat : OptionKey(q, n) \in DOMAIN db' => TiedTo(OptionKey(q, n), GroupKey(g))'
  <2>1. \A n \in Nat : OptionKey(q, n)[1] = "option"
    BY DEF OptionKey
  <2>2. step[q] \in Looping =>
          \A n \in Nat : OptionKey(q, n) \in DOMAIN db => TiedTo(OptionKey(q, n), GroupKey(g))
    BY <1>3, <1>5 DEF ChildTold, OwnOptions
  <2>3. ASSUME step[q] \in Looping, NEW n \in Nat, OptionKey(q, n) \in DOMAIN db'
        PROVE  TiedTo(OptionKey(q, n), GroupKey(g))'
    <3>1. PICK k : k = OptionKey(q, n)
      OBVIOUS
    <3>2. k[1] = "option" /\ TiedTo(k, GroupKey(g))
      BY <1>2, <2>1, <2>2, <2>3, <3>1
    <3> QED BY <1>8, <3>1, <3>2 DEF OptionKey
  <2> QED BY <2>3
<1>10. /\ LinksHeld(q) => LinksHeld(q)'
       /\ EditHeld(q) => EditHeld(q)'
       /\ (step[q] \in Looping => OwnOptions(q)')
       /\ (OfGroup(q) => OfGroup(q)')
       /\ (Named(q) => Named(q)')
  BY <1>3, <1>4, <1>5, <1>7, <1>8, <1>9
     DEF LinksHeld, EditHeld, OwnOptions, OfGroup, Named, OptionKey, DiscountKey, GroupKey
<1>11. step[q] \in {"edit.option.reload", "edit.option.write"} =>
         \A k \in DOMAIN rows : k[1] = "option" /\ TiedTo(k, GroupKey(g))'
  BY <1>3, <1>4, <1>5, <1>8 DEF ChildTold
<1>12. step[q] \in {"edit.option.reload", "edit.option.write"} =>
         \A k \in DOMAIN mem'[q].rows : k[1] = "option" /\ TiedTo(k, GroupKey(mem[q].dto.id))'
  BY <1>3, <1>4, <1>5, <1>11 DEF GroupKey
<1>13. IsSeq(mem[q].dto.options) => IsSeq(mem[q].dto.options)'
  BY DEF IsSeq
<1>14. /\ step'[q] \in {"links.reload", "links.write"} => LinksHeld(q)'
       /\ step'[q] = "discount.find" \/ Revising(q)' => Named(q)'
       /\ step'[q] \in Editing => EditHeld(q)'
       /\ step'[q] \in Looping => OwnOptions(q)'
       /\ step'[q] \in {"edit.attach.reload", "edit.attach", "edit.option.insert",
                        "edit.option.reload", "edit.option.write"} => OfGroup(q)'
  BY <1>6, <1>10 DEF ChildTold
<1> QED BY <1>12, <1>13, <1>14 DEF ChildTold

LEMMA DeletedStep ==
    ASSUME CatInv, DeletedInv, NEW r \in Request, NEW S, NEW T, Turn(r, S, T), "idle" \notin S,
           DeletedEffect(r), ChildTold(r)'
    PROVE  DeletedInv'
<1>1. /\ step[r] \notin Ended
      /\ \A q \in Request \ {r} : step'[q] = step[q] /\ mem'[q] = mem[q]
  BY TurnMoves
<1>2. ChildInv'
  BY ChildInvStays DEF DeletedInv
<1>3. AttachedInv'
  BY DEF AttachedInv, DeletedEffect, ChildFine, ChildTables
<1>4. ASSUME NEW j \in Request, NEW s \in BodyStores, LinkKey(j, s) \in DOMAIN db'
      PROVE  step'[j] \in Ended
  <2>1. LinkKey(j, s)[1] \in ChildTables
    BY DEF LinkKey, ChildTables
  <2>2. CASE LinkKey(j, s) \in DOMAIN db
    BY <1>1, <2>2 DEF DeletedInv, LinkMade
  <2>3. CASE LinkKey(j, s) \notin DOMAIN db
    BY <1>4, <2>1, <2>3 DEF DeletedEffect, ChildFine
  <2> QED BY <2>2, <2>3
<1>5. LinkMade'
  BY <1>4 DEF LinkMade, LinkKey
<1>6. ASSUME NEW q \in Request
      PROVE  ChildTold(q)'
  <2>1. CASE q = r
    BY <2>1
  <2>2. CASE q # r
    BY <1>1, <2>2, ChildToldStays DEF DeletedInv
  <2> QED BY <2>1, <2>2
<1> QED BY <1>2, <1>3, <1>5, <1>6 DEF DeletedInv

LEMMA DeletedAlone ==
    ASSUME CatInv, DeletedInv, NEW r, \A k : k[1] \in ParentTables \cup ChildTables => Kept(k),
           JoinFine(r), TakeFine(r)
    PROVE  DeletedEffect(r)
BY KeptParent, KeptChild DEF DeletedEffect, DeletedInv

\* A step of a service that has to do with neither parents nor children.
LEMMA DeletedQuiet ==
    ASSUME CatInv, DeletedInv, NEW r, \A k : k[1] \in ParentTables \cup ChildTables => Kept(k),
           step[r] \notin TakeSteps, step'[r] \notin TellSteps
    PROVE  DeletedEffect(r) /\ ChildTold(r)'
<1>1. step'[r] \notin JoinSteps
  BY DEF TellSteps
<1> QED BY <1>1, NoJoinFine, NothingTaken, NothingTold, DeletedAlone

LEMMA StoreDeleted ==
    ASSUME CatInv, DeletedInv, NEW r \in Request,
           \/ StoreOperation(r) /\ Turn(r, StoreSteps, {"store", "hours"})
           \/ HoursOperation(r) /\ Turn(r, HoursSteps, {"hours"})
    PROVE  DeletedEffect(r) /\ ChildTold(r)'
<1>1. \A k : k[1] \in ParentTables \cup ChildTables => Kept(k)
  BY DEF Turn, ParentTables, ChildTables
<1>2. step[r] \in {"idle", "store.delete"} \cup HoursSteps
  BY DEF StoreOperation, CreateStore, UpdateStore, RemoveStores, RemoveStoresDelete,
         HoursOperation, CreateHours, CreateHoursFind, CreateHoursInsert, UpdateHours,
         UpdateHoursPreload, HoursReload, HoursWrite, RemoveHours, Begin, At, HoursSteps
<1>3. step'[r] \in StoreSteps \cup HoursSteps
  BY DEF Turn
<1>4. step[r] \notin TakeSteps
  BY <1>2 DEF TakeSteps, HoursSteps, Ended
<1>5. step'[r] \notin TellSteps
  BY <1>3 DEF TellSteps, JoinSteps, Updating, Editing, HoursSteps, StoreSteps, Ended
<1> QED BY <1>1, <1>4, <1>5, DeletedQuiet

\* Rows of a table that is neither.
LEMMA TablesApart ==
    ASSUME NEW r,
           \/ \E k, row : Inserts(r, Single(k, row)) /\ k[1] \in {"category", "product"}
           \/ \E k : Updates(r, {k}, Deleted) /\ k[1] \in {"category", "product"}
           \/ UNCHANGED <<db, hist>>
    PROVE  \A k : k[1] \in ParentTables \cup ChildTables => Kept(k)
<1> SUFFICES ASSUME NEW k, k[1] \in ParentTables \cup ChildTables
             PROVE  Kept(k)
  OBVIOUS
<1>1. k[1] \notin {"category", "product"}
  BY DEF ParentTables, ChildTables
<1>2. CASE \E i, row : Inserts(r, Single(i, row)) /\ i[1] \in {"category", "product"}
  <2>1. PICK i, row : Inserts(r, Single(i, row)) /\ i[1] \in {"category", "product"}
    BY <1>2
  <2>2. k \notin DOMAIN Single(i, row)
    BY <1>1, <2>1 DEF Single
  <2> QED BY <2>1, <2>2, InsertsKeep
<1>3. CASE \E i : Updates(r, {i}, Deleted) /\ i[1] \in {"category", "product"}
  <2>1. PICK i : Updates(r, {i}, Deleted) /\ i[1] \in {"category", "product"}
    BY <1>3
  <2> QED BY <1>1, <2>1, UpdatesKeep
<1> QED BY <1>2, <1>3, ReadsKeep

LEMMA MenuDeleted ==
    ASSUME CatInv, RowsInv, DeletedInv, NEW r \in Request,
           (CategoryOperation(r) /\ ~EntityWrite(r)) \/ ProductOperation(r)
    PROVE  DeletedEffect(r) /\ ChildTold(r)'
<1>1. CASE AddCategory(r) \/ EditCategory(r) \/ DeleteCategory(r)
           \/ AddProduct(r) \/ EditProduct(r) \/ DeleteProduct(r)
  <2>1. PICK s \in {"ok", "entity.reload", "mark", "product.insert", "product.check"} :
          \E m : Begin(r, s, m)
    BY <1>1 DEF AddCategory, EditCategory, DeleteCategory, AddProduct, EditProduct, DeleteProduct
  <2>2. \/ \E k, row : Inserts(r, Single(k, row)) /\ k[1] \in {"category", "product"}
        \/ UNCHANGED <<db, hist>>
    <3>1. CASE AddCategory(r)
      <4>1. PICK row : Inserts(r, Single(<<"category", r>>, row))
        BY <3>1 DEF AddCategory
      <4>2. <<"category", r>>[1] = "category"
        OBVIOUS
      <4> QED BY <4>1, <4>2
    <3> QED BY <1>1, <3>1 DEF EditCategory, DeleteCategory, AddProduct, EditProduct, DeleteProduct
  <2>3. step[r] = "idle" /\ step'[r] = s
    BY <2>1, BegunAt
  <2>4. \A k : k[1] \in ParentTables \cup ChildTables => Kept(k)
    BY <2>2, TablesApart
  <2>5. step[r] \notin TakeSteps /\ step'[r] \notin TellSteps
    BY <2>1, <2>3 DEF TakeSteps, TellSteps, JoinSteps, Updating, Editing
  <2> QED BY <2>4, <2>5, DeletedQuiet
<1>2. CASE AddProductInsert(r) \/ Mark(r) \/ EditProductCheck(r)
  <2>1. step[r] \in {"product.insert", "mark", "product.check"}
    BY <1>2 DEF AddProductInsert, Mark, EditProductCheck, At
  <2>2. PICK s \in {"ok", "entity.reload", "error"} : \E m : Goto(r, s, m)
    BY <1>2 DEF AddProductInsert, Mark, EditProductCheck, InsertThen, Reads
  <2>3. step'[r] = s
    BY <2>2, GoneTo
  <2>4. \/ \E k, row : Inserts(r, Single(k, row)) /\ k[1] \in {"category", "product"}
        \/ \E k : Updates(r, {k}, Deleted) /\ k[1] \in {"category", "product"}
        \/ UNCHANGED <<db, hist>>
    <3>1. CASE AddProductInsert(r)
      <4>1. Inserts(r, Single(<<"product", r>>, mem[r].dto)) \/ UNCHANGED <<db, hist>>
        BY <3>1 DEF AddProductInsert, InsertThen, Reads
      <4>2. <<"product", r>>[1] = "product"
        OBVIOUS
      <4> QED BY <4>1, <4>2
    <3>2. CASE Mark(r)
      <4>1. Updates(r, {mem[r].dto}, Deleted) /\ step[r] = "mark"
        BY <3>2 DEF Mark, At
      <4> QED BY <4>1 DEF RowsInv, RowsHeld
    <3> QED BY <1>2, <3>1, <3>2 DEF EditProductCheck, Reads
  <2>5. \A k : k[1] \in ParentTables \cup ChildTables => Kept(k)
    BY <2>4, TablesApart
  <2>6. step[r] \notin TakeSteps /\ step'[r] \notin TellSteps
    BY <2>1, <2>2, <2>3 DEF TakeSteps, TellSteps, JoinSteps, Updating, Editing
  <2> QED BY <2>5, <2>6, DeletedQuiet
<1>3. CASE EntityReload(r)
  <2> DEFINE m == [dirty |-> DirtyOf(mem[r].rows)]
  <2>1. step[r] = "entity.reload" /\ Reads(r, "entity.write", m)
    BY <1>3 DEF EntityReload, Reload, At
  <2>2. DOMAIN m = {"dirty"}
    OBVIOUS
  <2> HIDE DEF m
  <2>3. /\ step'[r] = "entity.write" /\ mem'[r] = Over(m, mem[r])
        /\ DOMAIN NoMem \subseteq DOMAIN mem[r] /\ UNCHANGED <<db, hist>>
    BY <2>1, GoneTo DEF Reads, Ended
  <2>4. mem'[r].rows = mem[r].rows
    BY <2>2, <2>3 DEF Over, NoMem
  <2>5. \A k \in DOMAIN mem'[r].rows : k[1] \in {"category", "product"}
    BY <2>1, <2>4 DEF RowsInv, RowsHeld, PlainReading, SavedTables
  <2>6. ChildTold(r)'
    BY <2>3, <2>5 DEF ChildTold, Updating, Editing, Looping, Revising
  <2>7. step[r] \notin TakeSteps /\ step'[r] \notin JoinSteps
    BY <2>1, <2>3 DEF TakeSteps, JoinSteps, Updating, Editing
  <2>8. \A k : k[1] \in ParentTables \cup ChildTables => Kept(k)
    BY <2>3, TablesApart
  <2> QED BY <2>6, <2>7, <2>8, NoJoinFine, NothingTaken, DeletedAlone
<1> QED BY <1>1, <1>2, <1>3 DEF CategoryOperation, ProductOperation

LEMMA FailsDeleted ==
    ASSUME CatInv, DeletedInv, NEW r \in Request, Fails(r)
    PROVE  DeletedEffect(r) /\ ChildTold(r)'
<1>1. step'[r] = "error" /\ UNCHANGED <<db, hist>>
  BY GoneTo DEF Fails
<1>2. step'[r] \notin TellSteps /\ step'[r] \notin JoinSteps
  BY <1>1 DEF TellSteps, JoinSteps, Updating, Editing
<1> QED BY <1>1, <1>2, ReadsKeep, NoJoinFine, FailsTaking, NothingTold, DeletedAlone

\* save() of a parent that r found live and was not asked to delete.
LEMMA ParentSaved ==
    ASSUME CatInv, NEW r, NEW P, P[1] \in ParentTables, SavedBy(CatalogueColumns, r, P),
           "at" \in DOMAIN mem[r].rows[P], mem[r].rows[P].at = "live", "at" \notin mem[r].meant
    PROVE  ParentFine(r, P)
<1>1. "at" \in CatalogueColumns[P[1]]
  BY DEF CatalogueColumns, ParentTables
<1>2. CASE P \in DOMAIN db
  <2>1. P \in DOMAIN hist
    BY <1>2, CatShared DEF ColumnInv
  <2> QED BY <1>1, <1>2, <2>1 DEF SavedBy, ParentFine
<1>3. CASE P \notin DOMAIN db
  BY <1>3 DEF SavedBy, ParentFine
<1> QED BY <1>2, <1>3

\* What a request compared with the tables, written or not.
LEMMA WritesHeld ==
    ASSUME CatInv, NEW r \in Request, step[r] \in Writing, NEW s, NEW m, Write(r, s, m)
    PROVE  /\ \A k : k \notin DOMAIN mem[r].rows => Kept(k)
           /\ \A k \in DOMAIN mem[r].rows : Kept(k) \/ SavedBy(CatalogueColumns, r, k)
           /\ \/ Reads(r, "error", NoMem)
              \/ /\ Goto(r, s, m)
                 /\ \A k \in DOMAIN mem[r].rows \cap DOMAIN db : SavedBy(CatalogueColumns, r, k)
<1>1. Compared(CatalogueColumns, r) /\ ColumnInv(CatalogueColumns)
  BY CatShared DEF CatInv, CatSaveInv, SaveInv, Keeps
<1> QED BY <1>1, CatReferences, WritesKeep

LEMMA EntityDeleted ==
    ASSUME CatInv, RowsInv, DeletedInv, NEW r \in Request, EntityWrite(r)
    PROVE  DeletedEffect(r) /\ ChildTold(r)'
<1>1. step[r] = "entity.write" /\ Write(r, "ok", NoMem)
  BY DEF EntityWrite, At
<1>2. /\ \A k : k \notin DOMAIN mem[r].rows => Kept(k)
      /\ \A k \in DOMAIN mem[r].rows : Kept(k) \/ SavedBy(CatalogueColumns, r, k)
  BY <1>1, WritesHeld DEF Writing, PlainWriting
<1>3. \A k \in DOMAIN mem[r].rows : k[1] \in {"category", "product", "group"}
  BY <1>1 DEF RowsInv, RowsHeld, PlainWriting, SavedTables
<1>4. \A k \in DOMAIN mem[r].rows : k[1] = "group" =>
         "at" \in DOMAIN mem[r].rows[k] /\ mem[r].rows[k].at = "live" /\ mem[r].meant = {"title"}
  BY <1>1 DEF DeletedInv, ChildTold
<1>5. step'[r] \in {"ok", "error"}
  BY <1>1, GoneTo DEF Write, Reads
<1>6. ASSUME NEW P, P[1] \in ParentTables
      PROVE  ParentFine(r, P)
  <2>1. CASE Kept(P)
    BY <2>1, KeptParent
  <2>2. CASE P \in DOMAIN mem[r].rows /\ SavedBy(CatalogueColumns, r, P)
    <3>1. P[1] = "group"
      BY <1>3, <1>6, <2>2 DEF ParentTables
    <3>2. "at" \notin mem[r].meant
      BY <1>4, <2>2, <3>1
    <3> QED BY <1>4, <1>6, <2>2, <3>1, <3>2, ParentSaved
  <2> QED BY <1>2, <2>1, <2>2
<1>7. \A k : k[1] \in ChildTables => ChildFine(r, k)
  BY <1>2, <1>3, KeptChild DEF ChildTables, DeletedInv
<1>8. step[r] \notin TakeSteps /\ step'[r] \notin JoinSteps /\ step'[r] \notin TellSteps
  BY <1>1, <1>5 DEF TakeSteps, TellSteps, JoinSteps, Updating, Editing
<1> QED BY <1>6, <1>7, <1>8, NoJoinFine, NothingTaken, NothingTold DEF DeletedEffect

-----------------------------------------------------------------------------
(* Discounts.                                                              *)

\* What a request holds after a statement, field by field.
Fields == {"dto", "rows", "meant", "dirty"}

LEMMA BegunHolding ==
    ASSUME CatInv, NEW r \in Request, NEW s, NEW m, Begin(r, s, m)
    PROVE  /\ step[r] = "idle" /\ step'[r] = s
           /\ \A f \in Fields : mem'[r][f] = IF f \in DOMAIN m THEN m[f] ELSE NoMem[f]
<1>1. step[r] = "idle" /\ step'[r] = s /\ mem'[r] = Memory(m)
  BY BegunAt
<1>2. Fields = DOMAIN NoMem
  BY DEF Fields, NoMem
<1> QED BY <1>1, <1>2 DEF Memory

LEMMA GoneHolding ==
    ASSUME CatInv, NEW r \in Request, NEW s, NEW m, Goto(r, s, m), s \notin Ended
    PROVE  /\ step'[r] = s
           /\ \A f \in Fields : mem'[r][f] = IF f \in DOMAIN m THEN m[f] ELSE mem[r][f]
<1>1. /\ step'[r] = s /\ mem'[r] = Over(m, mem[r])
      /\ DOMAIN NoMem \subseteq DOMAIN mem[r]
  BY GoneTo
<1> QED BY <1>1 DEF Over, NoMem, Fields

LEMMA DeletedReading ==
    ASSUME CatInv, DeletedInv, NEW r, UNCHANGED <<db, hist>>, JoinFine(r), TakeFine(r)
    PROVE  DeletedEffect(r)
BY ReadsKeep, DeletedAlone

\* A request that goes on with the discount, or the group, that it changes.
LEMMA RevisingOn ==
    ASSUME NEW r, Revising(r), Revising(r)', mem'[r].dto.id = mem[r].dto.id
    PROVE  JoinFine(r)
BY DEF JoinFine, Joins, Revising, Updating, Editing, DiscountKey, GroupKey

LEMMA EditingOn ==
    ASSUME NEW r, step[r] \in Editing, step'[r] \in Editing, mem'[r].dto.id = mem[r].dto.id
    PROVE  JoinFine(r)
BY DEF JoinFine, Joins, Revising, Updating, Editing, DiscountKey, GroupKey

LEMMA DiscountBegun ==
    ASSUME CatInv, DeletedInv, NEW r \in Request,
           \/ AddDiscount(r) \/ UpdateDiscount(r) \/ ChangeDiscountStatus(r)
           \/ AddDiscountTransaction(r) \/ DeleteDiscount(r) \/ DeleteDiscounts(r)
    PROVE  DeletedEffect(r) /\ ChildTold(r)'
<1>1. ASSUME UNCHANGED <<db, hist>>, step[r] = "idle", \A P : ~Joins(r, P)'
      PROVE  DeletedEffect(r)
  <2>1. step[r] \notin TakeSteps
    BY <1>1 DEF TakeSteps
  <2>2. JoinFine(r)
    BY <1>1 DEF JoinFine
  <2> QED BY <1>1, <2>1, <2>2, NothingTaken, DeletedReading
<1>2. ASSUME NEW dto \in DiscountDto, NEW body, NEW s \in {"discount.stores", "discount.find"},
             Begin(r, s, [dto |-> body]), UNCHANGED <<db, hist>>,
             s = "discount.stores" => body = dto,
             s = "discount.find" => \E d : body = UpdateDiscountDto(d, dto)
      PROVE  DeletedEffect(r) /\ ChildTold(r)'
  <2>1. "stores" \in DOMAIN dto /\ dto.stores \subseteq BodyStores
    BY DiscountDtoAssumption DEF CreateDiscountDto, BodyStores
  <2>2. s = "discount.find" => /\ {"id", "stores"} \subseteq DOMAIN body
                               /\ body.stores \subseteq BodyStores
    <3>1. ASSUME NEW d
          PROVE  /\ {"id", "stores"} \subseteq DOMAIN UpdateDiscountDto(d, dto)
                 /\ UpdateDiscountDto(d, dto).stores = dto.stores
      BY <2>1 DEF UpdateDiscountDto, Over
    <3> QED BY <1>2, <2>1, <3>1
  <2>3. PICK m : m = [dto |-> body]
    OBVIOUS
  <2>4. step[r] = "idle" /\ step'[r] = s /\ mem'[r].dto = body
    BY <1>2, <2>3, BegunHolding DEF Fields
  <2>5. ChildTold(r)'
    BY <1>2, <2>1, <2>2, <2>4
       DEF ChildTold, Named, Updating, Editing, Looping, Revising, BodyStores
  <2>6. step'[r] \notin JoinSteps
    BY <2>4 DEF JoinSteps, Updating, Editing
  <2> QED BY <1>1, <1>2, <2>4, <2>5, <2>6, NoJoinThen
<1>3. CASE AddDiscount(r)
  <2>1. PICK dto \in DiscountDto :
          UNCHANGED <<db, hist>> /\ Begin(r, "discount.stores", [dto |-> dto])
    BY <1>3 DEF AddDiscount
  <2> QED BY <1>2, <2>1
<1>4. CASE UpdateDiscount(r)
  <2>1. PICK d \in Ids("discount"), dto \in DiscountDto :
          /\ UNCHANGED <<db, hist>>
          /\ Begin(r, "discount.find", [dto |-> UpdateDiscountDto(d, dto)])
    BY <1>4 DEF UpdateDiscount
  <2>2. PICK body : body = UpdateDiscountDto(d, dto)
    OBVIOUS
  <2> QED BY <1>2, <2>1, <2>2
<1>5. CASE ChangeDiscountStatus(r)
  <2>1. PICK m : /\ UNCHANGED <<db, hist>> /\ Begin(r, "discount.reload", m)
                 /\ \E rows, meant : m = Save(rows, meant)
    BY <1>5 DEF ChangeDiscountStatus
  <2>2. "dto" \notin DOMAIN m
    BY <2>1 DEF Save
  <2>3. step[r] = "idle" /\ step'[r] = "discount.reload" /\ mem'[r].dto = Null
    BY <2>1, <2>2, BegunHolding DEF Fields, NoMem
  <2>4. \A P : ~Joins(r, P)'
    BY <2>3 DEF Joins, Revising, Updating, Editing
  <2>5. ChildTold(r)'
    BY <2>3 DEF ChildTold, Updating, Editing, Looping, Revising
  <2> QED BY <1>1, <2>1, <2>3, <2>4, <2>5
<1>6. CASE AddDiscountTransaction(r) \/ DeleteDiscount(r)
  <2>1. PICK s \in {"error", "discount.mark"} : \E m : Begin(r, s, m) /\ UNCHANGED <<db, hist>>
    BY <1>6 DEF AddDiscountTransaction, DeleteDiscount
  <2>2. step[r] = "idle" /\ step'[r] = s /\ UNCHANGED <<db, hist>>
    BY <2>1, BegunHolding
  <2>3. step[r] \notin TakeSteps /\ step'[r] \notin TellSteps
    BY <2>1, <2>2 DEF TakeSteps, TellSteps, JoinSteps, Updating, Editing
  <2> QED BY <2>2, <2>3, ReadsKeep, DeletedQuiet
<1>7. CASE DeleteDiscounts(r)
  <2>1. PICK ids \in SUBSET Ids("discount") :
          /\ Begin(r, "discounts.reload",
               SaveWith([ids |-> ids, one |-> FALSE],
                        [k \in {"discount"} \X (ids \cap Live("discount")) |->
                           Assigned(db[k], Deleted)], {"at"}))
          /\ UNCHANGED <<db, hist>>
    BY <1>7 DEF DeleteDiscounts
  <2> DEFINE rows == [k \in {"discount"} \X (ids \cap Live("discount")) |->
                        Assigned(db[k], Deleted)]
  <2>2. \A k \in DOMAIN rows : \E i \in ids : k = DiscountKey(i)
    BY DEF DiscountKey
  <2> HIDE DEF rows
  <2>3. PICK m : m = SaveWith([ids |-> ids, one |-> FALSE], rows, {"at"})
    OBVIOUS
  <2>4. DOMAIN m = {"dto", "rows", "meant"} /\ m.rows = rows /\ m.dto.ids = ids
    BY <2>3 DEF SaveWith
  <2>5. /\ step[r] = "idle" /\ step'[r] = "discounts.reload"
        /\ mem'[r].rows = rows /\ mem'[r].dto.ids = ids
    BY <2>1, <2>3, <2>4, BegunHolding DEF Fields, rows
  <2>6. ChildTold(r)'
    BY <2>2, <2>5 DEF ChildTold, Updating, Editing, Looping, Revising, DiscountKey
  <2>7. step'[r] \notin JoinSteps
    BY <2>5 DEF JoinSteps, Updating, Editing
  <2> QED BY <1>1, <2>1, <2>5, <2>6, <2>7, NoJoinThen
<1> QED BY <1>3, <1>4, <1>5, <1>6, <1>7

\* The links that r inserts: of the discount it made, or changes, under keys
\* that nobody used before.
LEMMA LinksInserted ==
    ASSUME CatInv, DeletedInv, NEW r \in Request, step[r] \notin Ended \cup TakeSteps,
           NEW d, NEW stores, stores \subseteq BodyStores, NEW status,
           Inserts(r, NewLinks(r, d, stores, status)), Goto(r, "ok", NoMem),
           Joins(r, DiscountKey(d))
    PROVE  DeletedEffect(r) /\ ChildTold(r)'
<1> DEFINE rows == NewLinks(r, d, stores, status)
<1>1. /\ DOMAIN rows = {LinkKey(r, s) : s \in stores}
      /\ \A k \in DOMAIN rows : rows[k].at = "live" /\ rows[k].discount = d
                                /\ "at" \in DOMAIN rows[k]
  BY DEF NewLinks, LinkKey, LinkRow
<1> HIDE DEF rows
<1>2. /\ \A k : k \notin DOMAIN rows => Kept(k)
      /\ \A k \in DOMAIN rows : k \in DOMAIN db' /\ db'[k] = rows[k] /\ hist'[k].at.writer = r
  BY <1>1, InsertsKeep DEF rows
<1>3. step'[r] = "ok"
  BY GoneTo
<1>4. \A k \in DOMAIN rows : k \notin DOMAIN db
  BY <1>1 DEF DeletedInv, LinkMade
<1>5. \A P : P[1] \in ParentTables => P \notin DOMAIN rows
  BY <1>1 DEF ParentTables, LinkKey
<1>6. ASSUME NEW k \in DOMAIN rows
      PROVE  ChildFine(r, k)
  <2>1. PICK s \in stores : k = LinkKey(r, s)
    BY <1>1
  <2>2. k[1] = "link" /\ k = <<"link", <<r, s>>>>
    BY <2>1 DEF LinkKey
  <2>3. \A P : LiveChild(k, P)' => hist'[k].at.writer = r /\ Joins(r, P)
    BY <1>1, <1>2, <2>2 DEF LiveChild, TiedTo, DiscountKey, GroupKey
  <2>4. \A j : \A x : k = LinkKey(j, x) => j = r
    BY <2>2 DEF LinkKey
  <2>5. \A j : \A n : k # OptionKey(j, n)
    BY <2>2 DEF OptionKey
  <2> QED BY <1>3, <1>4, <2>2, <2>3, <2>4, <2>5 DEF ChildFine, TiedTo, Ended
<1>7. step'[r] \notin TellSteps /\ step'[r] \notin JoinSteps
  BY <1>3 DEF TellSteps, JoinSteps, Updating, Editing
<1> QED BY <1>2, <1>5, <1>6, <1>7, KeptParent, KeptChild, NoJoinFine, NothingTaken, NothingTold
        DEF DeletedEffect, DeletedInv

\* A statement that the tables refuse.
LEMMA RefusedDeleted ==
    ASSUME CatInv, DeletedInv, NEW r \in Request, Reads(r, "error", NoMem)
    PROVE  DeletedEffect(r) /\ ChildTold(r)'
<1>1. step'[r] = "error" /\ UNCHANGED <<db, hist>>
  BY GoneTo DEF Reads
<1>2. step'[r] \notin TellSteps /\ step'[r] \notin JoinSteps
  BY <1>1 DEF TellSteps, JoinSteps, Updating, Editing
<1> QED BY <1>1, <1>2, NoJoinFine, FailsTaking, NothingTold, DeletedReading

LEMMA DiscountAdded ==
    ASSUME CatInv, DeletedInv, NEW r \in Request,
           AddDiscountStores(r) \/ AddDiscountInsert(r) \/ AddDiscountLinks(r)
    PROVE  DeletedEffect(r) /\ ChildTold(r)'
<1> DEFINE dto == mem[r].dto
<1>1. step[r] \in {"discount.stores", "discount.insert", "discount.links"}
  BY DEF AddDiscountStores, AddDiscountInsert, AddDiscountLinks, At
<1>2. "stores" \in DOMAIN dto /\ dto.stores \subseteq BodyStores
  BY <1>1 DEF DeletedInv, ChildTold
<1>3. step[r] \notin Ended \cup TakeSteps
  BY <1>1 DEF Ended, TakeSteps
<1>4. CASE AddDiscountStores(r)
  <2>1. CASE Reads(r, "error", NoMem)
    BY <2>1, RefusedDeleted
  <2>2. CASE \E stores \in SUBSET dto.stores :
               Reads(r, "discount.insert", [dto |-> [dto EXCEPT !.stores = stores]])
    <3>1. PICK stores \in SUBSET dto.stores :
               Reads(r, "discount.insert", [dto |-> [dto EXCEPT !.stores = stores]])
      BY <2>2
    <3>2. PICK m : m = [dto |-> [dto EXCEPT !.stores = stores]]
      OBVIOUS
    <3>3. UNCHANGED <<db, hist>> /\ Goto(r, "discount.insert", m)
      BY <3>1, <3>2 DEF Reads
    <3>4. step'[r] = "discount.insert" /\ mem'[r].dto = m.dto
      BY <3>2, <3>3, GoneHolding DEF Fields, Ended
    <3>5. "stores" \in DOMAIN m.dto /\ m.dto.stores \subseteq BodyStores
      BY <1>2, <3>2
    <3>6. ChildTold(r)'
      BY <3>4, <3>5 DEF ChildTold, Updating, Editing, Looping, Revising, BodyStores
    <3>7. step'[r] \notin JoinSteps
      BY <3>4 DEF JoinSteps, Updating, Editing
    <3> QED BY <1>3, <3>3, <3>6, <3>7, NoJoinFine, NothingTaken, DeletedReading
  <2> QED BY <1>4, <2>1, <2>2 DEF AddDiscountStores, AvailableStores
<1>5. CASE AddDiscountInsert(r)
  <2> DEFINE row == DiscountRow(dto.code, dto.status)
  <2>1. CASE Reads(r, "error", NoMem)
    BY <2>1, RefusedDeleted
  <2>2. CASE Inserts(r, Single(DiscountKey(r), row)) /\ Goto(r, "discount.links", <<>>)
    <3> DEFINE rows == Single(DiscountKey(r), row)
    <3>1. DOMAIN rows = {DiscountKey(r)} /\ rows[DiscountKey(r)] = row /\ row.at = "live"
      BY DEF Single, DiscountRow
    <3> HIDE DEF rows, row
    <3>2. Inserts(r, rows)
      BY <2>2 DEF rows
    <3>3. /\ \A k : k # DiscountKey(r) => Kept(k)
          /\ db'[DiscountKey(r)].at = "live"
      BY <3>1, <3>2, InsertsKeep
    <3>4. step'[r] = "discount.links" /\ mem'[r].dto = dto
      BY <2>2, GoneHolding DEF Fields, Ended
    <3>5. \A P : Joins(r, P)' => P = DiscountKey(r)
      BY <3>4 DEF Joins, Revising, Updating, Editing, DiscountKey
    <3>6. JoinFine(r)
      BY <3>3, <3>5 DEF JoinFine
    <3>7. ChildTold(r)'
      BY <1>2, <3>4 DEF ChildTold, Updating, Editing, Looping, Revising, BodyStores
    <3>8. \A k : k[1] \in ChildTables => ChildFine(r, k)
      BY <3>3, KeptChild DEF ChildTables, DiscountKey, DeletedInv
    <3>9. ParentFine(r, DiscountKey(r))
      BY <3>3 DEF ParentFine
    <3>10. \A P : ParentFine(r, P)
      BY <3>3, <3>9, KeptParent
    <3> QED BY <1>3, <3>6, <3>7, <3>8, <3>10, NothingTaken DEF DeletedEffect
  <2> QED BY <1>5, <2>1, <2>2 DEF AddDiscountInsert, InsertThen, DiscountKey
<1>6. CASE AddDiscountLinks(r)
  <2>1. CASE Reads(r, "error", NoMem)
    BY <2>1, RefusedDeleted
  <2>2. CASE Inserts(r, NewLinks(r, r, dto.stores, dto.status)) /\ Goto(r, "ok", NoMem)
    <3>1. Joins(r, DiscountKey(r))
      BY <1>6 DEF AddDiscountLinks, At, Joins
    <3> HIDE DEF dto
    <3> QED BY <1>2, <1>3, <2>2, <3>1, LinksInserted
  <2> QED BY <1>6, <2>1, <2>2 DEF AddDiscountLinks, InsertThen
<1> QED BY <1>4, <1>5, <1>6

\* The links that a request is to delete, as it finds them.
LEMMA LinksFound ==
    ASSUME CatInv, NEW r, UNCHANGED <<db, hist>>, NEW links \in SUBSET Ids("link"),
           mem'[r].rows = LinksDeleted(links)
    PROVE  LinksHeld(r)'
<1> DEFINE rows == LinksDeleted(links)
<1>1. ColumnInv(CatalogueColumns)
  BY CatShared
<1>2. DOMAIN rows = {"link"} \X links /\ {"link"} \X links \subseteq DOMAIN db
  BY <1>1, IdsKeys DEF LinksDeleted
<1>3. ASSUME NEW k \in {"link"} \X links
      PROVE  /\ {"at", "discount"} \subseteq DOMAIN rows[k]
             /\ rows[k].at = "deleted" /\ rows[k].discount = db[k].discount /\ k[1] = "link"
  <2>1. {"at", "discount"} \subseteq DOMAIN db[k]
    BY <1>1, <1>2 DEF ColumnInv, Schema, CatalogueColumns
  <2>2. rows[k] = Over(Deleted, db[k])
    BY DEF LinksDeleted, Assigned
  <2> QED BY <2>1, <2>2 DEF Over, Deleted
<1> HIDE DEF rows
<1>4. mem'[r].rows = rows /\ db' = db
  BY DEF rows
<1> QED BY <1>2, <1>3, <1>4 DEF LinksHeld, TiedTo, DiscountKey

\* A change to a discount goes from one step to the next with its body.
LEMMA RevisingTold ==
    ASSUME NEW r, Revising(r), Named(r), Revising(r)', mem'[r].dto = mem[r].dto,
           step'[r] \in {"links.reload", "links.write"} => LinksHeld(r)'
    PROVE  JoinFine(r) /\ ChildTold(r)'
<1>1. JoinFine(r)
  BY RevisingOn
<1>2. Named(r)'
  BY DEF Named, BodyStores
<1> QED BY <1>1, <1>2 DEF ChildTold, Updating, Editing, Looping, Revising

LEMMA DiscountChanged ==
    ASSUME CatInv, RowsInv, DiscountInv, DeletedInv, NEW r \in Request,
           \/ UpdateDiscountFind(r) \/ DiscountReload(r) \/ DiscountWrite(r)
    PROVE  DeletedEffect(r) /\ ChildTold(r)'
<1> DEFINE dto == mem[r].dto
<1>1. step[r] \in {"discount.find", "discount.reload", "discount.write"}
  BY DEF UpdateDiscountFind, DiscountReload, DiscountWrite, At
<1>2. step[r] \notin Ended \cup TakeSteps
  BY <1>1 DEF Ended, TakeSteps
<1>3. step[r] = "discount.find" \/ Revising(r) => Named(r)
  BY DEF DeletedInv, ChildTold
<1>4. ASSUME step'[r] \in {"discount.reload", "discount.write"},
             mem'[r].dto = dto, step[r] # "discount.find"
      PROVE  JoinFine(r) /\ ChildTold(r)'
  <2>1. CASE dto = Null
    <3>1. \A P : ~Joins(r, P)'
      BY <1>4, <2>1 DEF Joins, Revising, Updating, Editing
    <3>2. ChildTold(r)'
      BY <1>4, <2>1 DEF ChildTold, Updating, Editing, Looping, Revising
    <3> QED BY <3>1, <3>2 DEF JoinFine
  <2>2. CASE dto # Null
    <3>1. Revising(r) /\ Revising(r)'
      BY <1>1, <1>4, <2>2 DEF Revising, Updating
    <3>2. step'[r] \notin {"links.reload", "links.write"}
      BY <1>4
    <3> QED BY <1>3, <1>4, <3>1, <3>2, RevisingTold
  <2> QED BY <2>1, <2>2
<1>5. CASE UpdateDiscountFind(r)
  <2> DEFINE row == Assigned(Row("discount", dto.id), [code |-> dto.code, status |-> dto.status])
  <2>1. CASE Reads(r, "error", NoMem)
    BY <2>1, RefusedDeleted
  <2>2. CASE /\ dto.id \in Live("discount")
             /\ Reads(r, "discount.reload", Save(Single(DiscountKey(dto.id), row), {"code", "status"}))
    <3>1. PICK m : m = Save(Single(DiscountKey(dto.id), row), {"code", "status"})
      OBVIOUS
    <3>2. "dto" \notin DOMAIN m /\ UNCHANGED <<db, hist>> /\ Goto(r, "discount.reload", m)
      BY <2>2, <3>1 DEF Reads, Save
    <3>3. step'[r] = "discount.reload" /\ mem'[r].dto = dto
      BY <3>2, GoneHolding DEF Fields, Ended
    <3>4. db[DiscountKey(dto.id)].at = "live"
      BY <2>2 DEF Live, Row, DiscountKey
    <3>5. \A P : Joins(r, P)' => P = DiscountKey(dto.id)
      BY <3>3 DEF Joins, Revising, Updating, Editing, DiscountKey
    <3>6. JoinFine(r)
      BY <3>2, <3>4, <3>5 DEF JoinFine
    <3>7. Named(r)
      BY <1>3, <1>5 DEF UpdateDiscountFind, At
    <3>8. Named(r)'
      BY <3>3, <3>7 DEF Named, BodyStores
    <3>9. ChildTold(r)'
      BY <3>3, <3>8 DEF ChildTold, Updating, Editing, Looping, Revising
    <3> QED BY <1>2, <3>2, <3>6, <3>9, NothingTaken, DeletedReading
  <2> QED BY <1>5, <2>1, <2>2 DEF UpdateDiscountFind, DiscountKey
<1>6. CASE DiscountReload(r)
  <2>1. PICK m : m = [dirty |-> DirtyOf(mem[r].rows)]
    OBVIOUS
  <2>2. /\ "dto" \notin DOMAIN m /\ UNCHANGED <<db, hist>> /\ Goto(r, "discount.write", m)
        /\ step[r] = "discount.reload"
    BY <1>6, <2>1 DEF DiscountReload, Reload, Reads, At
  <2>3. step'[r] = "discount.write" /\ mem'[r].dto = dto
    BY <2>2, GoneHolding DEF Fields, Ended
  <2> QED BY <1>2, <1>4, <2>2, <2>3, NothingTaken, DeletedReading
<1>7. CASE DiscountWrite(r)
  <2>1. /\ step[r] = "discount.write"
        /\ Write(r, IF dto = Null THEN "ok" ELSE "discount.diff", <<>>)
    BY <1>7 DEF DiscountWrite, At
  <2>2. PICK s : s = IF dto = Null THEN "ok" ELSE "discount.diff"
    OBVIOUS
  <2>3. /\ \A k : k \notin DOMAIN mem[r].rows => Kept(k)
        /\ \A k \in DOMAIN mem[r].rows : Kept(k) \/ SavedBy(CatalogueColumns, r, k)
        /\ Reads(r, "error", NoMem) \/ Goto(r, s, <<>>)
    BY <2>1, <2>2, WritesHeld DEF Writing, PlainWriting
  <2>4. CASE Reads(r, "error", NoMem)
    BY <2>4, RefusedDeleted
  <2>5. CASE Goto(r, s, <<>>)
    <3>1. PICK k \in DOMAIN mem[r].rows : Holding(r, k)
      BY <2>1 DEF DiscountInv, DiscountTold
    <3>2. /\ DOMAIN mem[r].rows = {k} /\ k[1] = "discount"
          /\ "at" \in DOMAIN mem[r].rows[k] /\ mem[r].rows[k].at = "live" /\ "at" \notin mem[r].meant
      BY <3>1 DEF Holding, DiscountKey
    <3>3. \A P : ParentFine(r, P)
      <4>1. SavedBy(CatalogueColumns, r, k) => ParentFine(r, k)
        BY <3>2, ParentSaved DEF ParentTables
      <4>2. \A P : Kept(P) => ParentFine(r, P)
        BY KeptParent
      <4> QED BY <2>3, <3>2, <4>1, <4>2
    <3>4. \A j : j[1] \in ChildTables => ChildFine(r, j)
      BY <2>3, <3>2, KeptChild DEF ChildTables, DeletedInv
    <3>5. CASE dto = Null
      <4>1. step'[r] = "ok"
        BY <2>2, <2>5, <3>5, GoneTo
      <4>2. step'[r] \notin TellSteps /\ step'[r] \notin JoinSteps
        BY <4>1 DEF TellSteps, JoinSteps, Updating, Editing
      <4> QED BY <1>2, <3>3, <3>4, <4>2, NoJoinFine, NothingTaken, NothingTold DEF DeletedEffect
    <3>6. CASE dto # Null
      <4>1. step'[r] = "discount.diff" /\ mem'[r].dto = dto
        BY <2>2, <2>5, <3>6, GoneHolding DEF Fields, Ended
      <4>2. Revising(r) /\ Revising(r)' /\ step'[r] \notin {"links.reload", "links.write"}
        BY <2>1, <3>6, <4>1 DEF Revising, Updating
      <4>3. JoinFine(r) /\ ChildTold(r)'
        BY <1>3, <4>1, <4>2, RevisingTold
      <4> QED BY <1>2, <3>3, <3>4, <4>3, NothingTaken DEF DeletedEffect
    <3> QED BY <3>5, <3>6
  <2> QED BY <2>3, <2>4, <2>5
<1> QED BY <1>5, <1>6, <1>7

LEMMA LinksWritten ==
    ASSUME CatInv, RowsInv, DeletedInv, NEW r \in Request, LinksWrite(r)
    PROVE  DeletedEffect(r) /\ ChildTold(r)'
<1> DEFINE dto == mem[r].dto
           rows == mem[r].rows
           dirty == mem[r].dirty
<1>1. /\ step[r] = "links.write"
      /\ Write(r, IF dto = Null THEN "ok" ELSE "links.stores", <<>>)
  BY DEF LinksWrite, At
<1>2. LinksHeld(r) /\ (Revising(r) => Named(r))
  BY <1>1 DEF DeletedInv, ChildTold
<1>3. PICK s : s = IF dto = Null THEN "ok" ELSE "links.stores"
  OBVIOUS
<1>4. /\ \A k : k \notin DOMAIN rows => Kept(k)
      /\ \/ Reads(r, "error", NoMem)
         \/ /\ Goto(r, s, <<>>)
            /\ \A k \in DOMAIN rows \cap DOMAIN db : SavedBy(CatalogueColumns, r, k)
  BY <1>1, <1>3, WritesHeld DEF Writing, PlainWriting
<1>5. CASE Reads(r, "error", NoMem)
  BY <1>5, RefusedDeleted
<1>6. CASE /\ Goto(r, s, <<>>)
           /\ \A k \in DOMAIN rows \cap DOMAIN db : SavedBy(CatalogueColumns, r, k)
  <2>1. ASSUME NEW k \in DOMAIN rows
        PROVE  /\ k \in DOMAIN db /\ k[1] = "link" /\ k \in DOMAIN db'
               /\ db'[k].discount = db[k].discount
               /\ db'[k].at = IF "at" \in dirty[k] THEN "deleted" ELSE db[k].at
               /\ "at" \notin dirty[k] => hist'[k].at.writer = hist[k].at.writer
    <3>1. /\ k[1] = "link" /\ k \in DOMAIN db /\ rows[k].at = "deleted"
          /\ rows[k].discount = db[k].discount
      BY <1>2 DEF LinksHeld, TiedTo, DiscountKey
    <3>2. {"at", "discount"} \subseteq CatalogueColumns[k[1]]
      BY <3>1 DEF CatalogueColumns
    <3>3. SavedBy(CatalogueColumns, r, k)
      BY <1>6, <3>1
    <3> QED BY <3>1, <3>2, <3>3 DEF SavedBy
  <2>2. \A P : P[1] \in ParentTables => Kept(P)
    BY <1>4, <2>1 DEF ParentTables
  <2>3. ASSUME NEW k \in DOMAIN rows
        PROVE  ChildFine(r, k)
    <3>1. \A P : TiedTo(k, P)' <=> TiedTo(k, P)
      BY <2>1, <2>3 DEF TiedTo, DiscountKey, GroupKey
    <3>2. \A P : LiveChild(k, P)' =>
            LiveChild(k, P) /\ hist'[k].at.writer = hist[k].at.writer
      BY <2>1, <2>3, <3>1 DEF LiveChild
    <3> QED BY <2>1, <2>3, <3>1, <3>2 DEF ChildFine
  <2>4. TakeFine(r)
    <3>1. \A P, k : Takes(r, P, k) => k \in DOMAIN rows /\ "at" \in dirty[k]
      BY <1>1 DEF Takes
    <3>2. \A P, k : Takes(r, P, k) => db'[k].at = "deleted"
      BY <2>1, <3>1
    <3> QED BY <3>2 DEF TakeFine, LiveChild
  <2>5. JoinFine(r) /\ ChildTold(r)'
    <3>1. CASE dto = Null
      <4>1. step'[r] = "ok"
        BY <1>3, <1>6, <3>1, GoneTo
      <4>2. step'[r] \notin TellSteps /\ step'[r] \notin JoinSteps
        BY <4>1 DEF TellSteps, JoinSteps, Updating, Editing
      <4> QED BY <4>2, NoJoinFine, NothingTold
    <3>2. CASE dto # Null
      <4>1. step'[r] = "links.stores" /\ mem'[r].dto = dto
        BY <1>3, <1>6, <3>2, GoneHolding DEF Fields, Ended
      <4>2. Revising(r) /\ Revising(r)' /\ step'[r] \notin {"links.reload", "links.write"}
        BY <1>1, <3>2, <4>1 DEF Revising, Updating
      <4> QED BY <1>2, <4>1, <4>2, RevisingTold
    <3> QED BY <3>1, <3>2
  <2> QED BY <1>4, <2>2, <2>3, <2>4, <2>5, KeptParent, KeptChild DEF DeletedEffect, DeletedInv
<1> QED BY <1>4, <1>5, <1>6

LEMMA LinksReloaded ==
    ASSUME CatInv, DeletedInv, NEW r \in Request, LinksReload(r)
    PROVE  DeletedEffect(r) /\ ChildTold(r)'
<1> DEFINE dto == mem[r].dto
           rows == mem[r].rows
<1>1. PICK m : m = [dirty |-> DirtyOf(rows)]
  OBVIOUS
<1>2. /\ DOMAIN m = {"dirty"} /\ m.dirty = DirtyOf(rows) /\ step[r] = "links.reload"
      /\ UNCHANGED <<db, hist>> /\ Goto(r, "links.write", m)
  BY <1>1 DEF LinksReload, Reload, Reads, At
<1>3. /\ step'[r] = "links.write" /\ mem'[r].dto = dto /\ mem'[r].rows = rows
      /\ mem'[r].dirty = DirtyOf(rows)
  BY <1>2, GoneHolding DEF Fields, Ended
<1>4. LinksHeld(r) /\ (Revising(r) => Named(r))
  BY <1>2 DEF DeletedInv, ChildTold
<1>5. LinksHeld(r)'
  BY <1>2, <1>3, <1>4 DEF LinksHeld, TiedTo, DiscountKey, GroupKey
<1>6. TakeFine(r)
  <2> SUFFICES ASSUME NEW P, NEW k, Takes(r, P, k), LiveChild(k, P)
               PROVE  Takes(r, P, k)'
    BY DEF TakeFine
  <2>1. dto = Null /\ k \in DOMAIN rows
    BY <1>2 DEF Takes
  <2>2. k \in DOMAIN db /\ db[k].at = "live" /\ rows[k].at = "deleted" /\ "at" \in DOMAIN rows[k]
    BY <1>4, <2>1 DEF LiveChild, TiedTo, LinksHeld
  <2>3. k \in DOMAIN DirtyOf(rows) /\ "at" \in DirtyOf(rows)[k]
    BY <2>1, <2>2 DEF DirtyOf
  <2> QED BY <1>3, <2>1, <2>3 DEF Takes
<1>7. CASE dto = Null
  <2>1. \A P : ~Joins(r, P)'
    BY <1>3, <1>7 DEF Joins, Revising, Updating, Editing
  <2>2. ChildTold(r)'
    BY <1>3, <1>5, <1>7 DEF ChildTold, Updating, Editing, Looping, Revising
  <2>3. JoinFine(r)
    BY <2>1 DEF JoinFine
  <2> QED BY <1>2, <1>6, <2>2, <2>3, DeletedReading
<1>8. CASE dto # Null
  <2>1. Revising(r) /\ Revising(r)'
    BY <1>2, <1>3, <1>8 DEF Revising, Updating
  <2>2. JoinFine(r) /\ ChildTold(r)'
    BY <1>3, <1>4, <1>5, <2>1, RevisingTold
  <2> QED BY <1>2, <1>6, <2>2, DeletedReading
<1> QED BY <1>7, <1>8

LEMMA LinksChanged ==
    ASSUME CatInv, DeletedInv, NEW r \in Request,
           UpdateDiscountDiff(r) \/ UpdateDiscountStores(r) \/ UpdateDiscountLinks(r)
    PROVE  DeletedEffect(r) /\ ChildTold(r)'
<1> DEFINE dto == mem[r].dto
<1>1. step[r] \in {"discount.diff", "links.stores", "links.insert"}
  BY DEF UpdateDiscountDiff, UpdateDiscountStores, UpdateDiscountLinks, At
<1>2. Revising(r) /\ step[r] \notin Ended \cup TakeSteps
  BY <1>1 DEF Revising, Ended, TakeSteps
<1>3. {"id", "stores"} \subseteq DOMAIN dto /\ dto.stores \subseteq BodyStores
  BY <1>2 DEF DeletedInv, ChildTold, Named
<1>4. ASSUME NEW stores \in SUBSET dto.stores, step'[r] \in {"links.reload", "links.insert"},
             mem'[r].dto = [dto EXCEPT !.stores = stores],
             step'[r] = "links.reload" => LinksHeld(r)'
      PROVE  JoinFine(r) /\ ChildTold(r)'
  <2>1. mem'[r].dto.id = dto.id /\ Named(r)'
    BY <1>3, <1>4 DEF Named, BodyStores
  <2>2. JoinFine(r)
    BY <1>2, <1>4, <2>1 DEF JoinFine, Joins, Revising, Updating, Editing, DiscountKey, GroupKey
  <2>3. ChildTold(r)'
    BY <1>4, <2>1 DEF ChildTold, Updating, Editing, Looping, Revising
  <2> QED BY <2>2, <2>3
<1>5. CASE UpdateDiscountDiff(r)
  <2>1. PICK stores \in SUBSET dto.stores, links \in SUBSET LiveLinks(dto.id) :
          Reads(r, "links.reload",
                SaveWith([dto EXCEPT !.stores = stores], LinksDeleted(links), {"at"}))
    BY <1>5 DEF UpdateDiscountDiff
  <2>2. PICK m : m = SaveWith([dto EXCEPT !.stores = stores], LinksDeleted(links), {"at"})
    OBVIOUS
  <2>3. /\ DOMAIN m = {"dto", "rows", "meant"} /\ m.rows = LinksDeleted(links)
        /\ m.dto = [dto EXCEPT !.stores = stores]
    BY <2>2 DEF SaveWith
  <2>4. UNCHANGED <<db, hist>> /\ Goto(r, "links.reload", m)
    BY <2>1, <2>2 DEF Reads
  <2>5. /\ step'[r] = "links.reload" /\ mem'[r].dto = m.dto
        /\ mem'[r].rows = LinksDeleted(links)
    BY <2>3, <2>4, GoneHolding DEF Fields, Ended
  <2>6. links \subseteq Ids("link")
    BY DEF LiveLinks, Live
  <2>7. LinksHeld(r)'
    BY <2>4, <2>5, <2>6, LinksFound
  <2>8. JoinFine(r) /\ ChildTold(r)'
    BY <1>4, <2>3, <2>5, <2>7
  <2> QED BY <1>2, <2>4, <2>8, NothingTaken, DeletedReading
<1>6. CASE UpdateDiscountStores(r)
  <2>1. CASE Reads(r, "ok", NoMem)
    <3>1. step'[r] = "ok" /\ UNCHANGED <<db, hist>>
      BY <2>1, GoneTo DEF Reads
    <3>2. step'[r] \notin TellSteps
      BY <3>1 DEF TellSteps, JoinSteps, Updating, Editing
    <3> QED BY <1>2, <3>1, <3>2, ReadsKeep, DeletedQuiet
  <2>2. CASE \E stores \in SUBSET dto.stores :
               Reads(r, "links.insert", [dto |-> [dto EXCEPT !.stores = stores]])
    <3>1. PICK stores \in SUBSET dto.stores :
               Reads(r, "links.insert", [dto |-> [dto EXCEPT !.stores = stores]])
      BY <2>2
    <3>2. PICK m : m = [dto |-> [dto EXCEPT !.stores = stores]]
      OBVIOUS
    <3>3. UNCHANGED <<db, hist>> /\ Goto(r, "links.insert", m)
      BY <3>1, <3>2 DEF Reads
    <3>4. step'[r] = "links.insert" /\ mem'[r].dto = m.dto
      BY <3>2, <3>3, GoneHolding DEF Fields, Ended
    <3>5. JoinFine(r) /\ ChildTold(r)'
      BY <1>4, <3>2, <3>4
    <3> QED BY <1>2, <3>3, <3>5, NothingTaken, DeletedReading
  <2> QED BY <1>6, <2>1, <2>2 DEF UpdateDiscountStores, AvailableStores
<1>7. CASE UpdateDiscountLinks(r)
  <2>1. CASE Reads(r, "error", NoMem)
    BY <2>1, RefusedDeleted
  <2>2. CASE Inserts(r, NewLinks(r, dto.id, dto.stores, dto.status)) /\ Goto(r, "ok", NoMem)
    <3>1. Joins(r, DiscountKey(dto.id))
      BY <1>2 DEF Joins
    <3>2. PICK d, stores, status : d = dto.id /\ stores = dto.stores /\ status = dto.status
      OBVIOUS
    <3> QED BY <1>2, <1>3, <2>2, <3>1, <3>2, LinksInserted
  <2> QED BY <1>7, <2>1, <2>2 DEF UpdateDiscountLinks, InsertThen
<1> QED BY <1>5, <1>6, <1>7

\* A discount that r deletes by a date is on record, and its links are next.
LEMMA DiscountMarked ==
    ASSUME CatInv, DeletedInv, NEW r \in Request, step[r] \notin TakeSteps,
           Goto(r, "discount.links.find", <<>>),
           \A k : \/ Kept(k)
                  \/ \E i \in mem[r].dto.ids : k = DiscountKey(i) /\ hist'[k].at.by = r
    PROVE  DeletedEffect(r) /\ ChildTold(r)'
<1>1. step'[r] = "discount.links.find" /\ mem'[r].dto = mem[r].dto
  BY GoneHolding DEF Fields, Ended
<1>2. step'[r] \notin TellSteps /\ step'[r] \notin JoinSteps
  BY <1>1 DEF TellSteps, JoinSteps, Updating, Editing
<1>3. ASSUME NEW i \in mem[r].dto.ids, hist'[DiscountKey(i)].at.by = r
      PROVE  ParentFine(r, DiscountKey(i))
  <2>1. PICK P : P = DiscountKey(i)
    OBVIOUS
  <2>2. \A k : TiedTo(k, P)' => k[1] = "link"
    BY <2>1 DEF TiedTo, DiscountKey, GroupKey
  <2>3. \A k : TiedTo(k, P)' => Takes(r, P, k)'
    BY <1>1, <2>1, <2>2 DEF Takes, DiscountKey, GroupKey
  <2>4. ~Joins(r, P)'
    BY <1>2, NoJoinThen
  <2>5. ParentFine(r, P)
    BY <1>3, <2>1, <2>3, <2>4 DEF ParentFine
  <2> QED BY <2>1, <2>5
<1>4. \A P : ParentFine(r, P)
  BY <1>3, KeptParent
<1>5. \A k : k[1] \in ChildTables => ChildFine(r, k)
  BY KeptChild DEF ChildTables, DiscountKey, DeletedInv
<1> QED BY <1>2, <1>4, <1>5, NoJoinFine, NothingTaken, NothingTold DEF DeletedEffect

LEMMA DiscountsDeleted ==
    ASSUME CatInv, RowsInv, DiscountInv, DeletedInv, NEW r \in Request,
           \/ DeleteDiscountMark(r) \/ DeleteDiscountsReload(r) \/ DeleteDiscountsWrite(r)
           \/ DeleteDiscountLinks(r)
    PROVE  DeletedEffect(r) /\ ChildTold(r)'
<1> DEFINE dto == mem[r].dto
           rows == mem[r].rows
<1>1. CASE DeleteDiscountMark(r)
  <2> DEFINE keys == {"discount"} \X dto.ids
  <2>1. /\ step[r] = "discount.mark" /\ Updates(r, keys, Deleted)
        /\ Goto(r, "discount.links.find", <<>>)
    BY <1>1 DEF DeleteDiscountMark, At
  <2>2. "at" \in DOMAIN Deleted
    BY DEF Deleted
  <2>3. \A k \in keys : \E i \in dto.ids : k = DiscountKey(i)
    BY DEF DiscountKey
  <2> HIDE DEF keys
  <2>4. \A k : Kept(k) \/ (k \in keys /\ hist'[k].at.by = r)
    BY <2>1, <2>2, UpdatesKeep
  <2>5. step[r] \notin TakeSteps
    BY <2>1 DEF TakeSteps
  <2> QED BY <2>1, <2>3, <2>4, <2>5, DiscountMarked
<1>2. CASE DeleteDiscountsReload(r)
  <2>1. PICK m : m = [dirty |-> DirtyOf(rows)]
    OBVIOUS
  <2>2. /\ DOMAIN m = {"dirty"} /\ step[r] = "discounts.reload"
        /\ UNCHANGED <<db, hist>> /\ Goto(r, "discounts.write", m)
    BY <1>2, <2>1 DEF DeleteDiscountsReload, Reload, Reads, At
  <2>3. step'[r] = "discounts.write" /\ mem'[r].dto = dto /\ mem'[r].rows = rows
    BY <2>2, GoneHolding DEF Fields, Ended
  <2>4. \A k \in DOMAIN rows : \E i \in dto.ids : k = DiscountKey(i)
    BY <2>2 DEF DeletedInv, ChildTold
  <2>5. ChildTold(r)'
    BY <2>3, <2>4 DEF ChildTold, Updating, Editing, Looping, Revising, DiscountKey
  <2>6. step[r] \notin TakeSteps /\ step'[r] \notin JoinSteps
    BY <2>2, <2>3 DEF TakeSteps, JoinSteps, Updating, Editing
  <2> QED BY <2>2, <2>5, <2>6, NoJoinFine, NothingTaken, DeletedReading
<1>3. CASE DeleteDiscountsWrite(r)
  <2>1. step[r] = "discounts.write" /\ Write(r, "discount.links.find", <<>>)
    BY <1>3 DEF DeleteDiscountsWrite, At
  <2>2. /\ \A k : k \notin DOMAIN rows => Kept(k)
        /\ \A k \in DOMAIN rows : Kept(k) \/ SavedBy(CatalogueColumns, r, k)
        /\ Reads(r, "error", NoMem) \/ Goto(r, "discount.links.find", <<>>)
    BY <2>1, WritesHeld DEF Writing, PlainWriting
  <2>3. CASE Reads(r, "error", NoMem)
    BY <2>3, RefusedDeleted
  <2>4. CASE Goto(r, "discount.links.find", <<>>)
    <3>1. /\ \A k \in DOMAIN rows : \E i \in dto.ids : k = DiscountKey(i)
          /\ \A k \in DOMAIN rows : "at" \in DOMAIN rows[k]
          /\ mem[r].meant = {"at"}
      BY <2>1 DEF DeletedInv, ChildTold, DiscountInv, DiscountTold
    <3>2. ASSUME NEW k \in DOMAIN rows, SavedBy(CatalogueColumns, r, k)
          PROVE  hist'[k].at.by = r
      <4>1. "at" \in CatalogueColumns[k[1]]
        BY <3>1 DEF CatalogueColumns, DiscountKey
      <4> QED BY <3>1, <3>2, <4>1 DEF SavedBy
    <3>3. \A k : Kept(k) \/ \E i \in dto.ids : k = DiscountKey(i) /\ hist'[k].at.by = r
      BY <2>2, <3>1, <3>2
    <3>4. step[r] \notin TakeSteps
      BY <2>1 DEF TakeSteps
    <3> QED BY <2>4, <3>3, <3>4, DiscountMarked
  <2> QED BY <2>2, <2>3, <2>4
<1>4. CASE DeleteDiscountLinks(r)
  <2> DEFINE links == UNION {LiveLinks(d) : d \in dto.ids}
  <2>1. step[r] = "discount.links.find"
    BY <1>4 DEF DeleteDiscountLinks, At
  <2>2. CASE Reads(r, "error", NoMem)
    BY <2>2, RefusedDeleted
  <2>3. CASE Reads(r, "links.reload", SaveWith(Null, LinksDeleted(links), {"at"}))
    <3>1. PICK m : m = SaveWith(Null, LinksDeleted(links), {"at"})
      OBVIOUS
    <3>2. DOMAIN m = {"dto", "rows", "meant"} /\ m.rows = LinksDeleted(links) /\ m.dto = Null
      BY <3>1 DEF SaveWith
    <3>3. UNCHANGED <<db, hist>> /\ Goto(r, "links.reload", m)
      BY <2>3, <3>1 DEF Reads
    <3>4. links \in SUBSET Ids("link") /\ \A i \in dto.ids : LiveLinks(i) \subseteq links
      BY DEF LiveLinks, Live
    <3> HIDE DEF links
    <3>5. step'[r] = "links.reload" /\ mem'[r].dto = Null /\ mem'[r].rows = LinksDeleted(links)
      BY <3>2, <3>3, GoneHolding DEF Fields, Ended
    <3>6. LinksHeld(r)'
      BY <3>3, <3>4, <3>5, LinksFound
    <3>7. ChildTold(r)'
      BY <3>5, <3>6 DEF ChildTold, Updating, Editing, Looping, Revising
    <3>8. JoinFine(r)
      BY <3>5 DEF JoinFine, Joins, Revising, Updating, Editing
    <3>9. TakeFine(r)
      <4> SUFFICES ASSUME NEW P, NEW k, Takes(r, P, k), LiveChild(k, P)
                   PROVE  Takes(r, P, k)'
        BY DEF TakeFine
      <4>1. PICK i \in dto.ids : P = DiscountKey(i) /\ k[1] = "link"
        BY <2>1 DEF Takes
      <4>2. k \in DOMAIN db /\ db[k].at = "live" /\ db[k].discount = i
        BY <4>1 DEF LiveChild, TiedTo, DiscountKey
      <4>3. k = <<"link", k[2]>>
        BY <4>1, <4>2, CatShared DEF ColumnInv, Schema
      <4>4. k[2] \in LiveLinks(i)
        BY <4>1, <4>2, <4>3 DEF LiveLinks, Live, Ids, Row
      <4>5. k \in DOMAIN LinksDeleted(links)
        BY <3>4, <4>1, <4>3, <4>4 DEF LinksDeleted
      <4> QED BY <3>5, <4>5 DEF Takes
    <3> QED BY <3>3, <3>7, <3>8, <3>9, DeletedReading
  <2> QED BY <1>4, <2>2, <2>3 DEF DeleteDiscountLinks
<1> QED BY <1>1, <1>2, <1>3, <1>4

LEMMA DiscountDeleted ==
    ASSUME CatInv, RowsInv, DiscountInv, DeletedInv, NEW r \in Request, DiscountOperation(r)
    PROVE  DeletedEffect(r) /\ ChildTold(r)'
<1>1. CASE \/ AddDiscount(r) \/ UpdateDiscount(r) \/ ChangeDiscountStatus(r)
           \/ AddDiscountTransaction(r) \/ DeleteDiscount(r) \/ DeleteDiscounts(r)
  BY <1>1, DiscountBegun
<1>2. CASE AddDiscountStores(r) \/ AddDiscountInsert(r) \/ AddDiscountLinks(r)
  BY <1>2, DiscountAdded
<1>3. CASE UpdateDiscountFind(r) \/ DiscountReload(r) \/ DiscountWrite(r)
  BY <1>3, DiscountChanged
<1>4. CASE UpdateDiscountDiff(r) \/ UpdateDiscountStores(r) \/ UpdateDiscountLinks(r)
  BY <1>4, LinksChanged
<1>5. CASE \/ DeleteDiscountMark(r) \/ DeleteDiscountsReload(r) \/ DeleteDiscountsWrite(r)
           \/ DeleteDiscountLinks(r)
  BY <1>5, DiscountsDeleted
<1> QED BY <1>1, <1>2, <1>3, <1>4, <1>5, LinksReloaded, LinksWritten DEF DiscountOperation

-----------------------------------------------------------------------------
(* Modifier groups.                                                        *)

\* The rows that r inserts for the group that it made.
LEMMA ChildrenInserted ==
    ASSUME CatInv, DeletedInv, NEW r \in Request, step[r] \in {"group.attach", "group.options"},
           NEW rows, Inserts(r, rows), step'[r] \in {"group.options", "ok"},
           \A k \in DOMAIN rows :
              /\ "at" \in DOMAIN rows[k] /\ rows[k].group = r
              /\ \/ k[1] = "attached" /\ k[2][1] = r
                 \/ k \notin DOMAIN db /\ \E n : k = OptionKey(r, n)
    PROVE  DeletedEffect(r)
<1>1. /\ \A k : k \notin DOMAIN rows => Kept(k)
      /\ \A k \in DOMAIN rows : k \in DOMAIN db' /\ db'[k].group = r /\ hist'[k].at.writer = r
  BY InsertsKeep
<1>2. \A k \in DOMAIN rows : k[1] \in {"attached", "option"}
  BY DEF OptionKey
<1>3. \A P : P[1] \in ParentTables => ParentFine(r, P)
  BY <1>1, <1>2, KeptParent DEF ParentTables
<1>4. Joins(r, GroupKey(r))
  BY DEF Joins
<1>5. ASSUME NEW k \in DOMAIN rows
      PROVE  ChildFine(r, k)
  <2>1. \A P : TiedTo(k, P)' => P = GroupKey(r)
    BY <1>1, <1>2 DEF TiedTo, GroupKey, DiscountKey
  <2>2. \A P : LiveChild(k, P)' => hist'[k].at.writer = r /\ Joins(r, P)
    BY <1>1, <1>4, <2>1 DEF LiveChild
  <2>3. \A P : k[1] # "attached" => ~TiedTo(k, P)
    BY DEF TiedTo, OptionKey
  <2>4. \A j, s : k # LinkKey(j, s)
    BY <1>2 DEF LinkKey
  <2>5. \A j, n : k = OptionKey(j, n) => j = r
    BY DEF OptionKey
  <2>6. k[1] = "attached" => db'[k].group = k[2][1]
    BY <1>1 DEF OptionKey
  <2> QED BY <2>2, <2>3, <2>4, <2>5, <2>6 DEF ChildFine
<1>6. JoinFine(r)
  BY DEF JoinFine, Joins, Revising, Updating, Editing
<1>7. step[r] \notin TakeSteps
  BY DEF TakeSteps
<1> QED BY <1>1, <1>3, <1>5, <1>6, <1>7, KeptChild, NothingTaken DEF DeletedEffect, DeletedInv

LEMMA GroupAdded ==
    ASSUME CatInv, DeletedInv, NEW r \in Request,
           \/ AddModifier(r) \/ AddModifierProducts(r) \/ AddModifierInsert(r)
           \/ AddModifierAttach(r) \/ AddModifierOptions(r)
    PROVE  DeletedEffect(r) /\ ChildTold(r)'
<1> DEFINE dto == mem[r].dto
           Adding == {"group.products", "group.insert", "group.attach", "group.options"}
<1>1. ASSUME step'[r] \in Adding, IsSeq(mem'[r].dto.options)
      PROVE  ChildTold(r)'
  <2>1. IsSeq(mem[r].dto.options)'
    BY <1>1 DEF IsSeq
  <2> QED BY <1>1, <2>1 DEF ChildTold, Updating, Editing, Looping, Revising
<1>2. step[r] \in Adding => IsSeq(dto.options)
  BY DEF DeletedInv, ChildTold
<1>3. CASE AddModifier(r)
  <2>1. PICK body \in GroupDto : /\ Begin(r, "group.products", [dto |-> body])
                                 /\ UNCHANGED <<db, hist>>
    BY <1>3 DEF AddModifier
  <2>2. IsSeq(body.options)
    BY GroupAssumption DEF CreateModifierGroupDto, IsSeq
  <2>3. PICK m : m = [dto |-> body]
    OBVIOUS
  <2>4. step[r] = "idle" /\ step'[r] = "group.products" /\ mem'[r].dto = body
    BY <2>1, <2>3, BegunHolding DEF Fields
  <2>5. step[r] \notin TakeSteps /\ step'[r] \notin JoinSteps
    BY <2>4 DEF TakeSteps, JoinSteps, Updating, Editing
  <2> QED BY <1>1, <2>1, <2>2, <2>4, <2>5, NoJoinFine, NothingTaken, DeletedReading
<1>4. CASE AddModifierProducts(r)
  <2>1. step[r] = "group.products" /\ (Reads(r, "group.insert", <<>>) \/ Reads(r, "error", <<>>))
    BY <1>4 DEF AddModifierProducts, At
  <2>2. CASE Reads(r, "error", <<>>)
    <3>1. step'[r] = "error" /\ UNCHANGED <<db, hist>>
      BY <2>2, GoneTo DEF Reads
    <3>2. step'[r] \notin TellSteps /\ step'[r] \notin JoinSteps
      BY <3>1 DEF TellSteps, JoinSteps, Updating, Editing
    <3> QED BY <3>1, <3>2, NoJoinFine, FailsTaking, NothingTold, DeletedReading
  <2>3. CASE Reads(r, "group.insert", <<>>)
    <3>1. UNCHANGED <<db, hist>> /\ Goto(r, "group.insert", <<>>)
      BY <2>3 DEF Reads
    <3>2. step'[r] = "group.insert" /\ mem'[r].dto = dto
      BY <3>1, GoneHolding DEF Fields, Ended
    <3>3. step[r] \notin TakeSteps /\ step'[r] \notin JoinSteps
      BY <2>1, <3>2 DEF TakeSteps, JoinSteps, Updating, Editing
    <3> QED BY <1>1, <1>2, <2>1, <3>1, <3>2, <3>3, NoJoinFine, NothingTaken, DeletedReading
  <2> QED BY <2>1, <2>2, <2>3
<1>5. CASE AddModifierInsert(r)
  <2>1. CASE Reads(r, "error", NoMem)
    BY <2>1, RefusedDeleted
  <2>2. CASE Inserts(r, Single(GroupKey(r), GroupRow("new"))) /\ Goto(r, "group.attach", <<>>)
    <3> DEFINE rows == Single(GroupKey(r), GroupRow("new"))
    <3>1. DOMAIN rows = {GroupKey(r)} /\ rows[GroupKey(r)].at = "live"
      BY DEF Single, GroupRow
    <3> HIDE DEF rows
    <3>2. Inserts(r, rows)
      BY <2>2 DEF rows
    <3>3. /\ \A k : k # GroupKey(r) => Kept(k)
          /\ db'[GroupKey(r)].at = "live"
      BY <3>1, <3>2, InsertsKeep
    <3>4. step'[r] = "group.attach" /\ mem'[r].dto = dto /\ step[r] = "group.insert"
      BY <1>5, <2>2, GoneHolding DEF Fields, Ended, AddModifierInsert, At
    <3>5. \A P : Joins(r, P)' => P = GroupKey(r)
      BY <3>4 DEF Joins, Revising, Updating, Editing, GroupKey
    <3>6. JoinFine(r)
      BY <3>3, <3>5 DEF JoinFine
    <3>7. ChildTold(r)'
      BY <1>1, <1>2, <3>4
    <3>8. \A k : k[1] \in ChildTables => ChildFine(r, k)
      BY <3>3, KeptChild DEF ChildTables, GroupKey, DeletedInv
    <3>9. ParentFine(r, GroupKey(r))
      BY <3>3 DEF ParentFine
    <3>10. \A P : ParentFine(r, P)
      BY <3>3, <3>9, KeptParent
    <3>11. step[r] \notin TakeSteps
      BY <3>4 DEF TakeSteps
    <3> QED BY <3>6, <3>7, <3>8, <3>10, <3>11, NothingTaken DEF DeletedEffect
  <2> QED BY <1>5, <2>1, <2>2 DEF AddModifierInsert, InsertThen, GroupKey
<1>6. CASE AddModifierAttach(r)
  <2> DEFINE rows == Attach(r, dto.categories)
  <2>1. CASE Reads(r, "error", NoMem)
    BY <2>1, RefusedDeleted
  <2>2. CASE Inserts(r, rows) /\ Goto(r, "group.options", <<>>)
    <3>1. \A k \in DOMAIN rows : /\ "at" \in DOMAIN rows[k] /\ rows[k].group = r
                                 /\ k[1] = "attached" /\ k[2][1] = r
      BY DEF Attach, AttachedRow
    <3>2. step[r] = "group.attach"
      BY <1>6 DEF AddModifierAttach, At
    <3> HIDE DEF rows
    <3>3. step'[r] = "group.options" /\ mem'[r].dto = dto
      BY <2>2, GoneHolding DEF Fields, Ended
    <3>4. DeletedEffect(r)
      BY <2>2, <3>1, <3>2, <3>3, ChildrenInserted
    <3> QED BY <1>1, <1>2, <3>2, <3>3, <3>4
  <2> QED BY <1>6, <2>1, <2>2 DEF AddModifierAttach, InsertThen
<1>7. CASE AddModifierOptions(r)
  <2> DEFINE options == dto.options
             rows == [k \in {"option"} \X ({r} \X DOMAIN options) |->
                        OptionRow(r, options[k[2][2]].product, options[k[2][2]].price)]
  <2>1. step[r] = "group.options" /\ InsertThen(r, rows, "ok", NoMem)
    BY <1>7, Zenon DEF AddModifierOptions, At
  <2>2. CASE Reads(r, "error", NoMem)
    BY <2>2, RefusedDeleted
  <2>3. CASE Inserts(r, rows) /\ Goto(r, "ok", NoMem)
    <3>1. step[r] = "group.options"
      BY <2>1
    <3>2. \A k \in DOMAIN rows : "at" \in DOMAIN rows[k] /\ rows[k].group = r
      <4>1. \A p, price : /\ "at" \in DOMAIN OptionRow(r, p, price)
                          /\ OptionRow(r, p, price).group = r
        BY DEF OptionRow
      <4>2. \A k \in DOMAIN rows : \E p, price : rows[k] = OptionRow(r, p, price)
        OBVIOUS
      <4> HIDE DEF rows
      <4>3. ASSUME NEW k \in DOMAIN rows
            PROVE  "at" \in DOMAIN rows[k] /\ rows[k].group = r
        <5>1. PICK p, price : rows[k] = OptionRow(r, p, price)
          BY <4>2
        <5> QED BY <4>1, <5>1
      <4> QED BY <4>3
    <3>3. DOMAIN options \subseteq Nat
      BY <1>2, <3>1 DEF IsSeq
    <3>4. \A k \in DOMAIN rows : \E n \in Nat : k = OptionKey(r, n)
      BY <3>3 DEF OptionKey
    <3> HIDE DEF rows
    <3>5. \A k \in DOMAIN rows : k \notin DOMAIN db
      BY <3>1, <3>4, CatShared DEF CatInv, Made, Making, Looping, Ended, ColumnInv
    <3>6. step'[r] = "ok"
      BY <2>3, GoneTo
    <3>7. DeletedEffect(r)
      BY <2>3, <3>1, <3>2, <3>4, <3>5, <3>6, ChildrenInserted
    <3>8. step'[r] \notin TellSteps
      BY <3>6 DEF TellSteps, JoinSteps, Updating, Editing
    <3> QED BY <3>7, <3>8, NothingTold
  <2> HIDE DEF rows
  <2> QED BY <2>1, <2>2, <2>3 DEF InsertThen
<1> QED BY <1>3, <1>4, <1>5, <1>6, <1>7

\* An option of a group stays an option of that group.
OptionsTied == \A k, P : k[1] = "option" /\ TiedTo(k, P) => TiedTo(k, P)'

LEMMA OptionsStay ==
    ASSUME NEW r, \A k : k[1] \in ChildTables => ChildFine(r, k)
    PROVE  OptionsTied
BY DEF OptionsTied, ChildFine, ChildTables

LEMMA OptionsKept ==
    ASSUME \A k : k[1] = "option" => Kept(k)
    PROVE  OptionsTied
BY DEF OptionsTied, Kept, TiedTo, DiscountKey, GroupKey

\* A change to a group goes from one step to the next.
SameEdit(r) ==
    LET dto == mem[r].dto
    IN  mem'[r].dto.id = dto.id /\ mem'[r].dto.group = dto.group

LEMMA EditTold ==
    ASSUME NEW r, step[r] \in Editing, step'[r] \in Editing, SameEdit(r), OptionsTied,
           EditHeld(r)' , step'[r] \in Looping => OwnOptions(r)',
           step'[r] \in {"edit.attach.reload", "edit.attach", "edit.option.insert",
                         "edit.option.reload", "edit.option.write"} => OfGroup(r)',
           step'[r] \in {"edit.attach.reload", "edit.attach"} =>
              \A k \in DOMAIN mem'[r].rows : k[2][1] = mem[r].dto.id,
           step'[r] \in {"edit.option.reload", "edit.option.write"} =>
              \A k \in DOMAIN mem'[r].rows :
                 k[1] = "option" /\ TiedTo(k, GroupKey(mem[r].dto.id))
    PROVE  JoinFine(r) /\ ChildTold(r)'
<1>1. JoinFine(r)
  BY EditingOn DEF SameEdit
<1>2. PICK g : g = mem[r].dto.id
  OBVIOUS
<1>3. mem'[r].dto.id = g
  BY <1>2 DEF SameEdit
<1>4. step'[r] \in {"edit.option.reload", "edit.option.write"} =>
         \A k \in DOMAIN mem'[r].rows : k[1] = "option" /\ TiedTo(k, GroupKey(g))
  BY <1>2
<1>5. step'[r] \in {"edit.option.reload", "edit.option.write"} =>
         \A k \in DOMAIN mem'[r].rows : k[1] = "option" /\ TiedTo(k, GroupKey(g))'
  BY <1>4 DEF OptionsTied
<1>6. step'[r] \in {"edit.option.reload", "edit.option.write"} =>
         \A k \in DOMAIN mem'[r].rows : k[1] = "option" /\ TiedTo(k, GroupKey(mem[r].dto.id))'
  BY <1>3, <1>5 DEF GroupKey
<1> QED BY <1>1, <1>2, <1>3, <1>6 DEF ChildTold, Updating, Editing, Looping, Revising

\* The options it read and those it inserted are yet options of the group.
LEMMA EditHeldStays ==
    ASSUME NEW r, SameEdit(r), OptionsTied, EditHeld(r),
           mem'[r].dto.existing = mem[r].dto.existing
    PROVE  EditHeld(r)'
<1>1. PICK g : g = mem[r].dto.id
  OBVIOUS
<1>2. PICK rows : rows = mem[r].dto.existing
  OBVIOUS
<1>3. \A k \in DOMAIN rows : TiedTo(k, GroupKey(g))'
  BY <1>1, <1>2 DEF EditHeld, OptionsTied
<1> QED BY <1>1, <1>2, <1>3 DEF EditHeld, SameEdit, GroupKey

LEMMA OwnOptionsStay ==
    ASSUME NEW r, SameEdit(r), OptionsTied, OwnOptions(r),
           \A n \in Nat : OptionKey(r, n) \in DOMAIN db' \ DOMAIN db =>
              TiedTo(OptionKey(r, n), GroupKey(mem[r].dto.id))'
    PROVE  OwnOptions(r)'
<1>1. PICK g : g = mem[r].dto.id
  OBVIOUS
<1>2. ASSUME NEW n \in Nat, OptionKey(r, n) \in DOMAIN db'
      PROVE  TiedTo(OptionKey(r, n), GroupKey(g))'
  <2>1. PICK k : k = OptionKey(r, n)
    OBVIOUS
  <2>2. k[1] = "option"
    BY <2>1 DEF OptionKey
  <2>3. CASE k \in DOMAIN db
    <3>1. TiedTo(k, GroupKey(g))
      BY <1>1, <2>1, <2>3 DEF OwnOptions
    <3>2. TiedTo(k, GroupKey(g))'
      BY <2>2, <3>1 DEF OptionsTied
    <3> QED BY <2>1, <3>2 DEF OptionKey
  <2>4. CASE k \notin DOMAIN db
    BY <1>1, <1>2, <2>1, <2>4 DEF OptionKey, GroupKey, SameEdit
  <2> QED BY <2>3, <2>4
<1> QED BY <1>1, <1>2 DEF OwnOptions, SameEdit, GroupKey, OptionKey

LEMMA EditAsked ==
    ASSUME CatInv, DeletedInv, NEW r \in Request, UpdateModifier(r)
    PROVE  DeletedEffect(r) /\ ChildTold(r)'
<1>1. PICK g \in Live("group"), dto \in GroupEdit :
        /\ Begin(r, "edit",
             [dto |-> [categories |-> dto.categories, options |-> dto.options, id |-> g,
                       group |-> Assigned(Row("group", g), [title |-> "edited"]),
                       existing |-> <<>>]])
        /\ UNCHANGED <<db, hist>>
  BY DEF UpdateModifier
<1>2. PICK first : first = Assigned(Row("group", g), [title |-> "edited"])
  OBVIOUS
<1>3. /\ GroupKey(g) \in DOMAIN db /\ Row("group", g) = db[GroupKey(g)]
      /\ DOMAIN Row("group", g) = {"at", "title"} /\ Row("group", g).at = "live"
  <2>1. ColumnInv(CatalogueColumns) /\ CatalogueColumns["group"] = {"at", "title"}
    BY CatShared DEF CatalogueColumns
  <2> QED BY <2>1, LiveKey DEF GroupKey, Live
<1>4. "at" \in DOMAIN first /\ first.at = "live"
  BY <1>2, <1>3 DEF Assigned, Over
<1>5. PICK m : m = [dto |-> [categories |-> dto.categories, options |-> dto.options, id |-> g,
                             group |-> first, existing |-> <<>>]]
  OBVIOUS
<1>6. /\ step[r] = "idle" /\ step'[r] = "edit" /\ mem'[r].dto.id = g
      /\ mem'[r].dto.group = first /\ mem'[r].dto.existing = <<>>
  BY <1>1, <1>2, <1>5, BegunHolding DEF Fields
<1>7. EditHeld(r)'
  BY <1>4, <1>6 DEF EditHeld
<1>8. ChildTold(r)'
  BY <1>6, <1>7 DEF ChildTold, Updating, Editing, Looping, Revising
<1>9. \A P : Joins(r, P)' => P = GroupKey(g)
  BY <1>6 DEF Joins, Revising, Updating, Editing, GroupKey
<1>10. JoinFine(r)
  BY <1>1, <1>3, <1>9 DEF JoinFine
<1>11. step[r] \notin TakeSteps
  BY <1>6 DEF TakeSteps
<1> QED BY <1>1, <1>8, <1>10, <1>11, NothingTaken, DeletedReading

LEMMA EditReloaded ==
    ASSUME CatInv, DeletedInv, NEW r \in Request,
           UpdateModifierCategories(r) \/ UpdateModifierAttachReload(r) \/ UpdateModifierOptionReload(r)
    PROVE  DeletedEffect(r) /\ ChildTold(r)'
<1> DEFINE dto == mem[r].dto
           rows == mem[r].rows
<1>1. step[r] \in {"edit", "edit.attach.reload", "edit.option.reload"}
  BY DEF UpdateModifierCategories, UpdateModifierAttachReload, UpdateModifierOptionReload, At
<1>2. step[r] \in Editing /\ step[r] \notin TakeSteps
  BY <1>1 DEF Editing, TakeSteps
<1>3. EditHeld(r) /\ (step[r] \in Looping => OwnOptions(r))
  BY <1>2 DEF DeletedInv, ChildTold
<1>4. CASE step'[r] = "error" /\ UNCHANGED <<db, hist>>
  <2>1. step'[r] \notin TellSteps /\ step'[r] \notin JoinSteps
    BY <1>4 DEF TellSteps, JoinSteps, Updating, Editing
  <2> QED BY <1>4, <2>1, NoJoinFine, FailsTaking, NothingTold, DeletedReading
<1>5. CASE /\ \/ step[r] = "edit" /\ step'[r] = "edit.detach"
              \/ step[r] = "edit.attach.reload" /\ step'[r] = "edit.attach"
              \/ step[r] = "edit.option.reload" /\ step'[r] = "edit.option.write"
           /\ mem'[r].dto = dto /\ mem'[r].rows = rows /\ UNCHANGED <<db, hist>>
  <2>1. SameEdit(r) /\ OptionsTied
    BY <1>5, ReadsKeep, OptionsKept DEF SameEdit
  <2>2. EditHeld(r)'
    BY <1>3, <1>5, <2>1, EditHeldStays
  <2>3. step'[r] \in Looping => OwnOptions(r)'
    BY <1>3, <1>5, <2>1, OwnOptionsStay DEF Looping
  <2>4. step'[r] # "edit.detach" => OfGroup(r)
    BY <1>5 DEF DeletedInv, ChildTold
  <2>5. step'[r] # "edit.detach" => OfGroup(r)'
    BY <1>5, <2>4 DEF OfGroup
  <2>6. /\ step'[r] = "edit.attach" => \A k \in DOMAIN mem'[r].rows : k[2][1] = dto.id
        /\ step'[r] = "edit.option.write" =>
              \A k \in DOMAIN mem'[r].rows : k[1] = "option" /\ TiedTo(k, GroupKey(dto.id))
    BY <1>5 DEF DeletedInv, ChildTold
  <2>7. step'[r] \in Editing
    BY <1>5 DEF Editing
  <2>8. JoinFine(r) /\ ChildTold(r)'
    BY <1>2, <1>5, <2>1, <2>2, <2>3, <2>5, <2>6, <2>7, EditTold
  <2> QED BY <1>2, <1>5, <2>8, NothingTaken, DeletedReading
<1>6. ASSUME NEW s, NEW m, Reads(r, s, m), s \notin Ended, DOMAIN m \subseteq {"dirty"}
      PROVE  step'[r] = s /\ mem'[r].dto = dto /\ mem'[r].rows = rows /\ UNCHANGED <<db, hist>>
  <2>1. Goto(r, s, m) /\ UNCHANGED <<db, hist>>
    BY <1>6 DEF Reads
  <2> QED BY <1>6, <2>1, GoneHolding DEF Fields
<1>7. CASE UpdateModifierCategories(r)
  <2>1. step[r] = "edit" /\ (Reads(r, "edit.detach", <<>>) \/ Reads(r, "error", <<>>))
    BY <1>7 DEF UpdateModifierCategories, At
  <2>2. CASE Reads(r, "error", <<>>)
    BY <1>4, <2>2, GoneTo DEF Reads
  <2>3. CASE Reads(r, "edit.detach", <<>>)
    <3>1. /\ step'[r] = "edit.detach" /\ mem'[r].dto = dto /\ mem'[r].rows = rows
          /\ UNCHANGED <<db, hist>>
      BY <1>6, <2>3 DEF Ended
    <3> QED BY <1>5, <2>1, <3>1
  <2> QED BY <2>1, <2>2, <2>3
<1>8. CASE UpdateModifierAttachReload(r) \/ UpdateModifierOptionReload(r)
  <2>1. PICK m : m = [dirty |-> DirtyOf(rows)]
    OBVIOUS
  <2>2. \/ step[r] = "edit.attach.reload" /\ Reads(r, "edit.attach", m)
        \/ step[r] = "edit.option.reload" /\ Reads(r, "edit.option.write", m)
    BY <1>8, <2>1 DEF UpdateModifierAttachReload, UpdateModifierOptionReload, Reload, At
  <2>3. DOMAIN m \subseteq {"dirty"}
    BY <2>1
  <2>4. /\ mem'[r].dto = dto /\ mem'[r].rows = rows /\ UNCHANGED <<db, hist>>
        /\ \/ step[r] = "edit.attach.reload" /\ step'[r] = "edit.attach"
           \/ step[r] = "edit.option.reload" /\ step'[r] = "edit.option.write"
    BY <1>6, <2>2, <2>3 DEF Ended
  <2> QED BY <1>5, <2>4
<1> QED BY <1>7, <1>8

LEMMA OptionsRead ==
    ASSUME CatInv, DeletedInv, NEW r \in Request, UpdateModifierExisting(r)
    PROVE  DeletedEffect(r) /\ ChildTold(r)'
<1> DEFINE dto == mem[r].dto
           found == Loaded("option", LiveOptions(dto.id), OptionColumns)
<1>1. step[r] \in {"edit", "edit.attached"}
  BY DEF UpdateModifierExisting, At
<1>2. step[r] \in Editing /\ step[r] \notin TakeSteps \cup Making
  BY <1>1 DEF Editing, TakeSteps, Making, Looping, Ended
<1>3. EditHeld(r) /\ EditKnown(r)
  BY <1>2, EditAt DEF DeletedInv, ChildTold
<1>4. PICK m : m = [dto |-> [dto EXCEPT !.existing = found]]
  OBVIOUS
<1>5. UNCHANGED <<db, hist>> /\ Goto(r, "edit.option", m)
  BY <1>4 DEF UpdateModifierExisting, Reads
<1>6. /\ step'[r] = "edit.option" /\ SameEdit(r) /\ mem'[r].dto.existing = found
  <2>1. step'[r] = "edit.option" /\ mem'[r].dto = m.dto
    BY <1>4, <1>5, GoneHolding DEF Fields, Ended
  <2> QED BY <1>3, <1>4, <2>1 DEF SameEdit, EditKnown
<1>7. OptionsTied /\ step'[r] \in Editing
  BY <1>5, <1>6, ReadsKeep, OptionsKept DEF Editing
<1>8. ASSUME NEW k \in DOMAIN found
      PROVE  /\ k[1] = "option" /\ TiedTo(k, GroupKey(dto.id))
             /\ "group" \in DOMAIN found[k] /\ found[k].group = dto.id
  <2>1. /\ k = <<"option", k[2]>> /\ k[2] \in LiveOptions(dto.id)
        /\ found[k] = Only(db[k], OptionColumns)
    BY DEF Loaded
  <2>2. k \in DOMAIN db /\ Row("option", k[2]) = db[k]
    BY <2>1, CatShared, LiveKey DEF LiveOptions
  <2>3. db[k].group = dto.id
    BY <2>1, <2>2 DEF LiveOptions
  <2> QED BY <2>1, <2>2, <2>3 DEF TiedTo, Only, OptionColumns
<1> HIDE DEF found
<1>9. EditHeld(r)'
  <2>1. PICK g : g = dto.id
    OBVIOUS
  <2>2. \A k \in DOMAIN found : TiedTo(k, GroupKey(g))'
    BY <1>7, <1>8, <2>1 DEF OptionsTied
  <2> QED BY <1>3, <1>6, <1>8, <2>1, <2>2 DEF EditHeld, SameEdit, GroupKey
<1>10. \A n \in Nat : OptionKey(r, n) \notin DOMAIN db'
  BY <1>2, <1>5, CatShared DEF CatInv, Made, ColumnInv
<1>11. OwnOptions(r)'
  BY <1>10 DEF OwnOptions, OptionKey
<1>12. JoinFine(r) /\ ChildTold(r)'
  BY <1>2, <1>6, <1>7, <1>9, <1>11, EditTold
<1> QED BY <1>2, <1>5, <1>12, NothingTaken, DeletedReading

LEMMA OptionChosen ==
    ASSUME CatInv, DeletedInv, NEW r \in Request, UpdateModifierOption(r)
    PROVE  DeletedEffect(r) /\ ChildTold(r)'
<1>1. step[r] = "edit.option"
  BY DEF UpdateModifierOption, At
<1>2. step[r] \in Editing \cap Looping /\ step[r] \notin TakeSteps
  BY <1>1 DEF Editing, Looping, TakeSteps
<1>3. EditHeld(r) /\ OwnOptions(r) /\ EditKnown(r)
  BY <1>2, EditAt DEF DeletedInv, ChildTold
<1>4. PICK dto, line, rest, values :
        /\ dto = mem[r].dto /\ line = Head(dto.options)
        /\ rest = [dto EXCEPT !.options = Tail(@)]
        /\ values = [product |-> line.product, price |-> line.price]
  OBVIOUS
<1>5. rest.id = dto.id /\ rest.group = dto.group /\ rest.existing = dto.existing
  BY <1>3, <1>4 DEF EditKnown
<1>6. ASSUME NEW s \in {"edit.option.insert", "edit.option.reload"}, NEW key, NEW row, NEW meant,
             Reads(r, s, SaveWith(rest, Single(key, row), meant)),
             "group" \in DOMAIN row, row.group = dto.id,
             s = "edit.option.reload" => key[1] = "option" /\ TiedTo(key, GroupKey(dto.id))
      PROVE  DeletedEffect(r) /\ ChildTold(r)'
  <2>1. PICK m, rows : m = SaveWith(rest, rows, meant) /\ rows = Single(key, row)
    OBVIOUS
  <2>2. /\ DOMAIN m = {"dto", "rows", "meant"} /\ m.dto = rest /\ m.rows = rows
        /\ DOMAIN rows = {key} /\ rows[key] = row
    BY <2>1 DEF SaveWith, Single
  <2>3. UNCHANGED <<db, hist>> /\ Goto(r, s, m)
    BY <1>6, <2>1 DEF Reads
  <2>4. step'[r] = s /\ mem'[r].dto = rest /\ mem'[r].rows = rows
    BY <2>2, <2>3, GoneHolding DEF Fields, Ended
  <2>5. SameEdit(r) /\ OptionsTied /\ mem'[r].dto.existing = mem[r].dto.existing
    BY <1>4, <1>5, <2>3, <2>4, ReadsKeep, OptionsKept DEF SameEdit
  <2>6. EditHeld(r)' /\ OwnOptions(r)'
    BY <1>3, <2>3, <2>5, EditHeldStays, OwnOptionsStay
  <2>7. OfGroup(r)'
    BY <1>5, <1>6, <2>2, <2>4 DEF OfGroup
  <2>8. s = "edit.option.reload" =>
          \A k \in DOMAIN mem'[r].rows : k[1] = "option" /\ TiedTo(k, GroupKey(mem[r].dto.id))
    BY <1>4, <1>6, <2>2, <2>4
  <2>9. step'[r] \in Editing /\ step'[r] \notin {"edit.attach.reload", "edit.attach"}
    BY <2>4 DEF Editing
  <2>10. JoinFine(r) /\ ChildTold(r)'
    BY <1>2, <2>4, <2>5, <2>6, <2>7, <2>8, <2>9, EditTold
  <2> QED BY <1>2, <2>3, <2>10, NothingTaken, DeletedReading
<1>7. CASE line.product \in Live("product") /\ line.optionId = Null
  <2>1. PICK row : row = OptionRow(dto.id, line.product, line.price)
    OBVIOUS
  <2>2. "group" \in DOMAIN row /\ row.group = dto.id
    BY <2>1 DEF OptionRow
  <2>3. Reads(r, "edit.option.insert",
              SaveWith(rest, Single(OptionKey(r, Len(dto.options)), row), {}))
    BY <1>4, <1>7, <2>1 DEF UpdateModifierOption, OptionKey
  <2> QED BY <1>6, <2>2, <2>3
<1>8. CASE /\ line.product \in Live("product") /\ line.optionId # Null
           /\ <<"option", line.optionId>> \in DOMAIN dto.existing
  <2>1. PICK k \in DOMAIN dto.existing : k = <<"option", line.optionId>>
    BY <1>8
  <2>2. PICK row : row = Assigned(dto.existing[k], values)
    OBVIOUS
  <2>3. /\ k[1] = "option" /\ TiedTo(k, GroupKey(dto.id))
        /\ "group" \in DOMAIN dto.existing[k] /\ dto.existing[k].group = dto.id
    BY <1>3, <1>4 DEF EditHeld
  <2>4. "group" \in DOMAIN row /\ row.group = dto.id
    BY <1>4, <2>2, <2>3 DEF Assigned, Over
  <2>5. DOMAIN values = Priced
    BY <1>4 DEF Priced
  <2>6. Reads(r, "edit.option.reload",
              SaveWith(rest, Single(<<"option", line.optionId>>,
                                    Assigned(dto.existing[<<"option", line.optionId>>], values)),
                       Priced))
    BY <1>4, <1>8, <2>5 DEF UpdateModifierOption
  <2>7. Reads(r, "edit.option.reload", SaveWith(rest, Single(k, row), Priced))
    BY <2>1, <2>2, <2>6
  <2> QED BY <1>6, <2>3, <2>4, <2>7
<1>9. CASE \/ line.product \notin Live("product")
           \/ line.optionId # Null /\ <<"option", line.optionId>> \notin DOMAIN dto.existing
  <2>1. Reads(r, "error", NoMem)
    BY <1>4, <1>9 DEF UpdateModifierOption
  <2> QED BY <2>1, RefusedDeleted
<1> QED BY <1>7, <1>8, <1>9

LEMMA GroupToSave ==
    ASSUME CatInv, DeletedInv, NEW r \in Request, UpdateModifierGroup(r)
    PROVE  DeletedEffect(r) /\ ChildTold(r)'
<1>1. step[r] \in {"edit", "edit.attached", "edit.option"}
  BY DEF UpdateModifierGroup, At
<1>2. step[r] \in Editing /\ step[r] \notin TakeSteps
  BY <1>1 DEF Editing, TakeSteps
<1>3. "at" \in DOMAIN mem[r].dto.group /\ mem[r].dto.group.at = "live"
  BY <1>2 DEF DeletedInv, ChildTold, EditHeld
<1>4. PICK k, group, rows : /\ k = GroupKey(mem[r].dto.id) /\ group = mem[r].dto.group
                            /\ rows = Single(k, group)
  OBVIOUS
<1>5. PICK m : m = [dto |-> Null, rows |-> rows, meant |-> {"title"}, dirty |-> DirtyOf(rows)]
  OBVIOUS
<1>6. UNCHANGED <<db, hist>> /\ Goto(r, "entity.write", m)
  BY <1>4, <1>5 DEF UpdateModifierGroup, Reads, GroupKey
<1>7. /\ step'[r] = "entity.write" /\ mem'[r].rows = rows /\ mem'[r].meant = {"title"}
  BY <1>5, <1>6, GoneHolding DEF Fields, Ended
<1>8. DOMAIN rows = {k} /\ rows[k] = group
  BY <1>4 DEF Single
<1>9. ChildTold(r)'
  BY <1>3, <1>4, <1>7, <1>8 DEF ChildTold, Updating, Editing, Looping, Revising
<1>10. step'[r] \notin JoinSteps
  BY <1>7 DEF JoinSteps, Updating, Editing
<1> QED BY <1>2, <1>6, <1>9, <1>10, NoJoinFine, NothingTaken, DeletedReading

\* DELETE of attachments takes nothing else with it.
LEMMA Detached ==
    ASSUME CatInv, DeletedInv, NEW r \in Request, NEW ids, Removes(r, {"attached"} \X ids)
    PROVE  /\ \A P : P[1] \in ParentTables => ParentFine(r, P)
           /\ \A k : k[1] \in ChildTables => ChildFine(r, k)
           /\ \A k \in {"attached"} \X ids : k \notin DOMAIN db'
           /\ OptionsTied
<1> DEFINE keys == {"attached"} \X ids
<1>1. \A k \in keys : k[1] = "attached"
  OBVIOUS
<1> HIDE DEF keys
<1>2. keys \subseteq Removal(keys)
  BY DEF Removal
<1>3. \A k \in Removal(keys) : k[1] = "attached"
  <2>1. ASSUME NEW k \in Removal(keys), k \notin keys
        PROVE  FALSE
    <3>1. PICK j \in keys : j = <<"store", db[k].store>>
      BY <2>1, RemovalTables
    <3> QED BY <1>1, <3>1
  <2> QED BY <1>1, <2>1
<1>4. Removes(r, keys)
  BY DEF keys
<1>5. /\ \A k : k \notin Removal(keys) => Kept(k)
      /\ \A k \in Removal(keys) : k \notin DOMAIN db'
  BY <1>4, RemovesKeep
<1>6. /\ \A k : k[1] # "attached" => Kept(k)
      /\ \A k : Kept(k) \/ (k[1] = "attached" /\ k \notin DOMAIN db')
      /\ \A k \in keys : k \notin DOMAIN db'
  BY <1>2, <1>3, <1>5
<1>7. ASSUME NEW k, k[1] = "attached", k \notin DOMAIN db'
      PROVE  ChildFine(r, k)
  BY <1>7 DEF ChildFine, LiveChild, TiedTo
<1>8. \A k : ChildFine(r, k)
  BY <1>6, <1>7, KeptChild DEF DeletedInv
<1> QED BY <1>6, <1>8, KeptParent, OptionsKept DEF ParentTables, keys

LEMMA AttachmentsGone ==
    ASSUME CatInv, DeletedInv, NEW r \in Request, UpdateModifierDetach(r)
    PROVE  DeletedEffect(r) /\ ChildTold(r)'
<1>1. PICK g, rows, cats : /\ g = mem[r].dto.id /\ cats = mem[r].dto.categories
                           /\ rows = Attach(g, cats)
  OBVIOUS
<1>2. PICK m : m = Save(rows, {"at", "group", "category"})
  OBVIOUS
<1>3. /\ step[r] = "edit.detach" /\ Removes(r, {"attached"} \X Attached(g))
      /\ Goto(r, "edit.attach.reload", m)
  BY <1>1, <1>2 DEF UpdateModifierDetach, At
<1>4. DOMAIN m = {"rows", "meant"} /\ m.rows = rows
  BY <1>2 DEF Save
<1>5. /\ step'[r] = "edit.attach.reload" /\ mem'[r].dto = mem[r].dto /\ mem'[r].rows = rows
  BY <1>3, <1>4, GoneHolding DEF Fields, Ended
<1>6. /\ \A P : P[1] \in ParentTables => ParentFine(r, P)
      /\ \A k : k[1] \in ChildTables => ChildFine(r, k)
      /\ OptionsTied
  BY <1>3, Detached
<1>7. step[r] \in Editing /\ step[r] \notin TakeSteps /\ step'[r] \in Editing \ Looping
  BY <1>3, <1>5 DEF Editing, Looping, TakeSteps
<1>8. SameEdit(r) /\ EditHeld(r)
  BY <1>5, <1>7 DEF SameEdit, DeletedInv, ChildTold
<1>9. EditHeld(r)'
  BY <1>5, <1>6, <1>8, EditHeldStays
<1>10. \A k \in DOMAIN rows : "group" \in DOMAIN rows[k] /\ rows[k].group = g /\ k[2][1] = g
  BY <1>1 DEF Attach, AttachedRow
<1>11. OfGroup(r)'
  BY <1>1, <1>5, <1>10 DEF OfGroup
<1>12. JoinFine(r) /\ ChildTold(r)'
  BY <1>1, <1>5, <1>6, <1>7, <1>8, <1>9, <1>10, <1>11, EditTold
<1> QED BY <1>6, <1>7, <1>12, NothingTaken DEF DeletedEffect

LEMMA AttachmentsWritten ==
    ASSUME CatInv, DeletedInv, NEW r \in Request, UpdateModifierAttach(r)
    PROVE  DeletedEffect(r) /\ ChildTold(r)'
<1> DEFINE rows == mem[r].rows
           dirty == mem[r].dirty
<1>1. PICK g : g = mem[r].dto.id
  OBVIOUS
<1>2. step[r] = "edit.attach" /\ Write(r, "edit.attached", <<>>)
  BY DEF UpdateModifierAttach, At
<1>3. step[r] \in Editing /\ step[r] \notin TakeSteps
  BY <1>2 DEF Editing, TakeSteps
<1>4. EditHeld(r) /\ OfGroup(r) /\ \A k \in DOMAIN rows : k[1] = "attached" /\ k[2][1] = g
  BY <1>1, <1>2 DEF DeletedInv, ChildTold, Editing, CatInv, Told
<1>5. /\ \A k : k \notin DOMAIN rows => Kept(k)
      /\ \A k \in DOMAIN rows : Kept(k) \/ SavedBy(CatalogueColumns, r, k)
      /\ Reads(r, "error", NoMem) \/ Goto(r, "edit.attached", <<>>)
  BY <1>2, WritesHeld DEF Writing
<1>6. CASE Reads(r, "error", NoMem)
  BY <1>6, RefusedDeleted
<1>7. CASE Goto(r, "edit.attached", <<>>)
  <2>1. step'[r] = "edit.attached" /\ mem'[r].dto = mem[r].dto
    BY <1>7, GoneHolding DEF Fields, Ended
  <2>2. Joins(r, GroupKey(g))
    BY <1>1, <1>3 DEF Joins
  <2>3. ASSUME NEW k \in DOMAIN rows, SavedBy(CatalogueColumns, r, k)
        PROVE  ChildFine(r, k)
    <3>1. /\ k[1] = "attached" /\ k[2][1] = g /\ "group" \in DOMAIN rows[k] /\ rows[k].group = g
          /\ k \in DOMAIN db => db[k].group = g
      BY <1>1, <1>4 DEF OfGroup, DeletedInv, AttachedInv
    <3>2. {"at", "group"} \subseteq CatalogueColumns[k[1]]
      BY <3>1 DEF CatalogueColumns
    <3>3. db'[k].group = g
      BY <2>3, <3>1, <3>2 DEF SavedBy
    <3>4. \A P : LiveChild(k, P)' => P = GroupKey(g)
      BY <3>1, <3>3 DEF LiveChild, TiedTo, GroupKey
    <3>5. CASE k \in DOMAIN db /\ "at" \notin dirty[k]
      <4>1. db'[k].at = db[k].at /\ hist'[k].at.writer = hist[k].at.writer
        BY <2>3, <3>2, <3>5 DEF SavedBy
      <4>2. \A P : LiveChild(k, P)' => LiveChild(k, P)
        BY <3>1, <3>4, <3>5, <4>1 DEF LiveChild, TiedTo
      <4> QED BY <3>1, <3>3, <3>5, <4>1, <4>2 DEF ChildFine
    <3>6. CASE k \notin DOMAIN db \/ "at" \in dirty[k]
      <4>1. hist'[k].at.writer = r
        BY <2>3, <3>2, <3>6 DEF SavedBy
      <4>2. \A P : LiveChild(k, P)' => hist'[k].at.writer = r /\ Joins(r, P)
        BY <2>2, <3>4, <4>1
      <4>3. \A j, x : k # LinkKey(j, x) /\ k # OptionKey(j, x)
        BY <3>1 DEF LinkKey, OptionKey
      <4> QED BY <3>1, <3>3, <4>2, <4>3 DEF ChildFine
    <3> QED BY <3>5, <3>6
  <2>4. \A k : k[1] # "attached" => Kept(k)
    BY <1>4, <1>5
  <2>5. \A k : ChildFine(r, k)
    BY <1>5, <2>3, KeptChild DEF DeletedInv
  <2>6. \A P : P[1] \in ParentTables => ParentFine(r, P)
    BY <2>4, KeptParent DEF ParentTables
  <2>7. OptionsTied /\ SameEdit(r) /\ step'[r] \in Editing \ Looping
    BY <2>1, <2>4, OptionsKept DEF SameEdit, Editing, Looping
  <2>8. EditHeld(r)'
    BY <1>4, <2>1, <2>7, EditHeldStays
  <2>9. JoinFine(r) /\ ChildTold(r)'
    BY <1>3, <2>1, <2>7, <2>8, EditTold
  <2> QED BY <1>3, <2>5, <2>6, <2>9, NothingTaken DEF DeletedEffect
<1> QED BY <1>5, <1>6, <1>7

\* An option that the request inserts for the group that it edits.
LEMMA OptionInserted ==
    ASSUME CatInv, DeletedInv, NEW r \in Request, UpdateModifierOptionInsert(r)
    PROVE  DeletedEffect(r) /\ ChildTold(r)'
<1>1. PICK g, rows : g = mem[r].dto.id /\ rows = mem[r].rows
  OBVIOUS
<1>2. step[r] = "edit.option.insert" /\ InsertThen(r, rows, "edit.option", <<>>)
  BY <1>1 DEF UpdateModifierOptionInsert, At
<1>3. step[r] \in Editing /\ step[r] \in Looping /\ step[r] \notin TakeSteps
  BY <1>2 DEF Editing, Looping, TakeSteps
<1>4. EditHeld(r) /\ OwnOptions(r) /\ OfGroup(r)
  BY <1>2, <1>3 DEF DeletedInv, ChildTold
<1>5. /\ Schema(CatalogueColumns, rows)
      /\ \E n \in Nat : DOMAIN rows = {OptionKey(r, n)}
  BY <1>1, <1>2 DEF CatInv, Told
<1>6. PICK n \in Nat : DOMAIN rows = {OptionKey(r, n)}
  BY <1>5
<1>7. PICK k : k = OptionKey(r, n)
  OBVIOUS
<1>8. /\ DOMAIN rows = {k} /\ k[1] = "option" /\ "at" \in DOMAIN rows[k]
      /\ "group" \in DOMAIN rows[k] /\ rows[k].group = g
  <2>1. DOMAIN rows = {k} /\ k[1] = "option"
    BY <1>6, <1>7 DEF OptionKey
  <2>2. DOMAIN rows[k] = CatalogueColumns["option"]
    BY <1>5, <2>1 DEF Schema
  <2>3. "at" \in CatalogueColumns["option"]
    BY DEF CatalogueColumns
  <2> QED BY <1>1, <1>4, <2>1, <2>2, <2>3 DEF OfGroup
<1>9. CASE Reads(r, "error", NoMem)
  BY <1>9, RefusedDeleted
<1>10. CASE Inserts(r, rows) /\ Goto(r, "edit.option", <<>>)
  <2>1. step'[r] = "edit.option" /\ mem'[r].dto = mem[r].dto
    BY <1>10, GoneHolding DEF Fields, Ended
  <2>2. /\ \A j : j # k => Kept(j)
        /\ k \in DOMAIN db' /\ db'[k].group = g /\ hist'[k].at.writer = r
    BY <1>8, <1>10, InsertsKeep
  <2>3. Joins(r, GroupKey(g))
    BY <1>1, <1>3 DEF Joins
  <2>4. \A P : TiedTo(k, P)' <=> P = GroupKey(g)
    BY <1>8, <2>2 DEF TiedTo, GroupKey
  <2>5. \A P : TiedTo(k, P) => P = GroupKey(g)
    <3>1. k \in DOMAIN db => TiedTo(k, GroupKey(g))
      BY <1>1, <1>4, <1>7 DEF OwnOptions
    <3> QED BY <1>8, <3>1 DEF TiedTo, GroupKey
  <2>6. ChildFine(r, k)
    <3>1. \A j, s : k # LinkKey(j, s)
      BY <1>8 DEF LinkKey
    <3>2. \A j, i : k = OptionKey(j, i) => j = r
      BY <1>7 DEF OptionKey
    <3>3. \A P : LiveChild(k, P)' => hist'[k].at.writer = r /\ Joins(r, P)
      BY <2>2, <2>3, <2>4 DEF LiveChild
    <3> QED BY <1>8, <2>4, <2>5, <3>1, <3>2, <3>3 DEF ChildFine
  <2>7. \A j : ChildFine(r, j)
    BY <2>2, <2>6, KeptChild DEF DeletedInv
  <2>8. \A P : P[1] \in ParentTables => ParentFine(r, P)
    BY <1>8, <2>2, KeptParent DEF ParentTables
  <2>9. OptionsTied /\ SameEdit(r) /\ step'[r] \in Editing
    BY <2>1, <2>7, OptionsStay DEF SameEdit, Editing
  <2>10. EditHeld(r)'
    BY <1>4, <2>1, <2>9, EditHeldStays
  <2>11. ASSUME NEW i \in Nat, OptionKey(r, i) \in DOMAIN db' \ DOMAIN db
         PROVE  TiedTo(OptionKey(r, i), GroupKey(mem[r].dto.id))'
    <3>1. OptionKey(r, i) = k
      BY <2>2, <2>11 DEF Kept
    <3>2. TiedTo(k, GroupKey(g))'
      BY <2>4
    <3>3. mem'[r].dto.id = g
      BY <1>1, <2>1
    <3> QED BY <3>1, <3>2, <3>3 DEF OptionKey, GroupKey
  <2>12. OwnOptions(r)'
    <3>1. \A i \in Nat : OptionKey(r, i) \in DOMAIN db' \ DOMAIN db =>
             TiedTo(OptionKey(r, i), GroupKey(mem[r].dto.id))'
      BY <2>11
    <3> QED BY <1>4, <2>9, <3>1, OwnOptionsStay
  <2>13. JoinFine(r) /\ ChildTold(r)'
    BY <1>3, <2>1, <2>9, <2>10, <2>12, EditTold
  <2> QED BY <1>3, <2>7, <2>8, <2>13, NothingTaken DEF DeletedEffect
<1> QED BY <1>2, <1>9, <1>10 DEF InsertThen

\* An option that it holds and saves.
LEMMA OptionSaved ==
    ASSUME CatInv, DeletedInv, NEW r \in Request, UpdateModifierOptionWrite(r)
    PROVE  DeletedEffect(r) /\ ChildTold(r)'
<1>1. PICK g, rows, dirty : g = mem[r].dto.id /\ rows = mem[r].rows /\ dirty = mem[r].dirty
  OBVIOUS
<1>2. step[r] = "edit.option.write" /\ Write(r, "edit.option", <<>>)
  BY DEF UpdateModifierOptionWrite, At
<1>3. step[r] \in Editing /\ step[r] \in Looping /\ step[r] \notin TakeSteps
  BY <1>2 DEF Editing, Looping, TakeSteps
<1>4. /\ EditHeld(r) /\ OwnOptions(r)
      /\ \A k \in DOMAIN rows : /\ "group" \in DOMAIN rows[k] /\ rows[k].group = g
                                /\ k[1] = "option" /\ TiedTo(k, GroupKey(g))
  BY <1>1, <1>2, <1>3 DEF DeletedInv, ChildTold, OfGroup
<1>5. /\ \A k : k \notin DOMAIN rows => Kept(k)
      /\ \A k \in DOMAIN rows : Kept(k) \/ SavedBy(CatalogueColumns, r, k)
      /\ Reads(r, "error", NoMem) \/ Goto(r, "edit.option", <<>>)
  BY <1>1, <1>2, WritesHeld DEF Writing
<1>6. CASE Reads(r, "error", NoMem)
  BY <1>6, RefusedDeleted
<1>7. CASE Goto(r, "edit.option", <<>>)
  <2>1. step'[r] = "edit.option" /\ mem'[r].dto = mem[r].dto
    BY <1>7, GoneHolding DEF Fields, Ended
  <2>2. Joins(r, GroupKey(g))
    BY <1>1, <1>3 DEF Joins
  <2>3. ASSUME NEW k \in DOMAIN rows, SavedBy(CatalogueColumns, r, k)
        PROVE  ChildFine(r, k)
    <3>1. k[1] = "option" /\ k \in DOMAIN db /\ db[k].group = g /\ rows[k].group = g
      BY <1>4 DEF TiedTo, GroupKey
    <3>2. {"at", "group"} \subseteq CatalogueColumns[k[1]]
      BY <3>1 DEF CatalogueColumns
    <3>3. k \in DOMAIN db' /\ db'[k].group = g
      BY <1>1, <2>3, <3>1, <3>2 DEF SavedBy
    <3>4. \A P : (TiedTo(k, P)' <=> P = GroupKey(g)) /\ (TiedTo(k, P) <=> P = GroupKey(g))
      BY <3>1, <3>3 DEF TiedTo, GroupKey
    <3>5. \/ db'[k].at = db[k].at /\ hist'[k].at.writer = hist[k].at.writer
          \/ hist'[k].at.writer = r
      BY <2>3, <3>1, <3>2 DEF SavedBy
    <3>6. \A P : LiveChild(k, P)' => \/ LiveChild(k, P) /\ hist'[k].at.writer = hist[k].at.writer
                                     \/ hist'[k].at.writer = r /\ Joins(r, P)
      BY <2>2, <3>4, <3>5 DEF LiveChild
    <3> QED BY <3>1, <3>4, <3>6 DEF ChildFine
  <2>4. \A k : ChildFine(r, k)
    BY <1>5, <2>3, KeptChild DEF DeletedInv
  <2>5. \A P : P[1] \in ParentTables => ParentFine(r, P)
    BY <1>4, <1>5, KeptParent DEF ParentTables
  <2>6. OptionsTied /\ SameEdit(r) /\ step'[r] \in Editing
    BY <2>1, <2>4, OptionsStay DEF SameEdit, Editing
  <2>7. EditHeld(r)'
    BY <1>4, <2>1, <2>6, EditHeldStays
  <2>8. DOMAIN db' \subseteq DOMAIN db
    <3>1. \A k : k \in DOMAIN db' => k \in DOMAIN db
      BY <1>4, <1>5 DEF Kept, TiedTo
    <3> QED BY <3>1
  <2>9. OwnOptions(r)'
    BY <1>4, <2>6, <2>8, OwnOptionsStay
  <2>10. JoinFine(r) /\ ChildTold(r)'
    BY <1>3, <2>1, <2>6, <2>7, <2>9, EditTold
  <2> QED BY <1>3, <2>4, <2>5, <2>10, NothingTaken DEF DeletedEffect
<1> QED BY <1>5, <1>6, <1>7

\* DELETE of a group takes its options and its attachments in steps to come.
LEMMA GroupMarked ==
    ASSUME CatInv, DeletedInv, NEW r \in Request, DeleteModifierGroup(r)
    PROVE  DeletedEffect(r) /\ ChildTold(r)'
<1>1. PICK P, g : g = mem[r].dto /\ P = GroupKey(g)
  OBVIOUS
<1>2. /\ step[r] = "group.mark" /\ Updates(r, {P}, Deleted)
      /\ Goto(r, "group.markOptions", <<>>)
  BY <1>1 DEF DeleteModifierGroup, At, GroupKey
<1>3. step'[r] = "group.markOptions" /\ mem'[r].dto = g
  BY <1>1, <1>2, GoneHolding DEF Fields, Ended
<1>4. step[r] \notin TakeSteps /\ step'[r] \notin TellSteps /\ step'[r] \notin JoinSteps
  BY <1>2, <1>3 DEF TakeSteps, TellSteps, JoinSteps, Updating, Editing
<1>5. /\ \A k : k # P => Kept(k)
      /\ Kept(P) \/ hist'[P].at.by = r
  BY <1>2, UpdatesKeep DEF Deleted
<1>6. ~Joins(r, P)'
  BY <1>4, NoJoinThen
<1>7. \A k : TiedTo(k, P)' => k[1] # "link"
  BY <1>1 DEF TiedTo, GroupKey, DiscountKey
<1>8. \A k : TiedTo(k, P)' => Takes(r, P, k)'
  BY <1>1, <1>3, <1>7 DEF Takes, GroupKey
<1>9. ParentFine(r, P)
  BY <1>5, <1>6, <1>8, KeptParent DEF ParentFine
<1>10. \A Q : ParentFine(r, Q)
  BY <1>5, <1>9, KeptParent
<1>11. \A k : k[1] \in ChildTables => ChildFine(r, k)
  BY <1>1, <1>5, KeptChild DEF ChildTables, GroupKey, DeletedInv
<1> QED BY <1>4, <1>10, <1>11, NoJoinFine, NothingTaken, NothingTold DEF DeletedEffect

LEMMA OptionsMarked ==
    ASSUME CatInv, DeletedInv, NEW r \in Request, DeleteModifierOptions(r)
    PROVE  DeletedEffect(r) /\ ChildTold(r)'
<1> DEFINE keys == {k \in DOMAIN db : k[1] = "option" /\ db[k].group = mem[r].dto}
<1>1. PICK g : g = mem[r].dto
  OBVIOUS
<1>2. /\ step[r] = "group.markOptions" /\ Updates(r, keys, Deleted)
      /\ Goto(r, "group.detach", <<>>)
  BY DEF DeleteModifierOptions, At
<1>3. /\ \A k \in keys : k \in DOMAIN db /\ k[1] = "option"
      /\ \A k \in DOMAIN db : k[1] = "option" /\ db[k].group = g => k \in keys
  BY <1>1
<1> HIDE DEF keys
<1>4. step'[r] = "group.detach" /\ mem'[r].dto = g
  BY <1>1, <1>2, GoneHolding DEF Fields, Ended
<1>5. step'[r] \notin TellSteps /\ step'[r] \notin JoinSteps
  BY <1>4 DEF TellSteps, JoinSteps, Updating, Editing
<1>6. /\ \A k : k \notin keys \cap DOMAIN db => Kept(k)
      /\ \A k \in keys \cap DOMAIN db : db'[k] = Over(Deleted, db[k])
      /\ DOMAIN db' = DOMAIN db
  BY <1>2, UpdatesKeep
<1>7. ASSUME NEW k \in keys
      PROVE  ChildFine(r, k) /\ db'[k].at = "deleted"
  <2>1. k \in DOMAIN db /\ k \in DOMAIN db' /\ k[1] = "option" /\ db'[k] = Over(Deleted, db[k])
    BY <1>3, <1>6
  <2>2. "group" \in DOMAIN db[k]
    BY <2>1, CatShared DEF ColumnInv, Schema, CatalogueColumns
  <2>3. db'[k].at = "deleted" /\ db'[k].group = db[k].group
    BY <2>1, <2>2 DEF Over, Deleted
  <2>4. \A P : TiedTo(k, P) => TiedTo(k, P)'
    BY <2>1, <2>3 DEF TiedTo, GroupKey
  <2>5. \A P : ~LiveChild(k, P)'
    BY <2>3 DEF LiveChild
  <2> QED BY <2>1, <2>3, <2>4, <2>5 DEF ChildFine
<1>8. \A k : ChildFine(r, k)
  BY <1>6, <1>7, KeptChild DEF DeletedInv
<1>9. \A P : P[1] \in ParentTables => ParentFine(r, P)
  BY <1>3, <1>6, KeptParent DEF ParentTables
<1>10. TakeFine(r)
  <2> SUFFICES ASSUME NEW P, NEW k, Takes(r, P, k), LiveChild(k, P), LiveChild(k, P)'
               PROVE  Takes(r, P, k)'
    BY DEF TakeFine
  <2>1. k[1] # "link" /\ P = GroupKey(g)
    BY <1>1, <1>2 DEF Takes
  <2>2. k \in DOMAIN db /\ k[1] \in {"option", "attached"} /\ db[k].group = g
    BY <2>1 DEF LiveChild, TiedTo, GroupKey
  <2>3. k[1] # "option"
    BY <1>3, <1>7, <2>2 DEF LiveChild
  <2>4. k[1] = "attached"
    BY <2>2, <2>3
  <2> QED BY <1>4, <2>1, <2>4 DEF Takes, GroupKey
<1> QED BY <1>5, <1>8, <1>9, <1>10, NoJoinFine, NothingTold DEF DeletedEffect

LEMMA GroupDetached ==
    ASSUME CatInv, DeletedInv, NEW r \in Request, DeleteModifierDetach(r)
    PROVE  DeletedEffect(r) /\ ChildTold(r)'
<1>1. PICK g, ids : g = mem[r].dto /\ ids = Attached(g)
  OBVIOUS
<1>2. step[r] = "group.detach" /\ Removes(r, {"attached"} \X ids) /\ Goto(r, "ok", NoMem)
  BY <1>1 DEF DeleteModifierDetach, At
<1>3. step'[r] = "ok"
  BY <1>2, GoneTo
<1>4. step'[r] \notin TellSteps /\ step'[r] \notin JoinSteps
  BY <1>3 DEF TellSteps, JoinSteps, Updating, Editing
<1>5. /\ \A P : P[1] \in ParentTables => ParentFine(r, P)
      /\ \A k : k[1] \in ChildTables => ChildFine(r, k)
      /\ \A k \in {"attached"} \X ids : k \notin DOMAIN db'
  BY <1>2, Detached
<1>6. TakeFine(r)
  <2> SUFFICES ASSUME NEW P, NEW k, Takes(r, P, k), LiveChild(k, P), LiveChild(k, P)'
               PROVE  FALSE
    BY DEF TakeFine
  <2>1. k[1] = "attached" /\ P = GroupKey(g)
    BY <1>1, <1>2 DEF Takes
  <2>2. k \in DOMAIN db /\ db[k].group = g /\ k \in DOMAIN db'
    BY <2>1 DEF LiveChild, TiedTo, GroupKey
  <2>3. k = <<"attached", k[2]>>
    BY <2>1, <2>2, CatShared DEF ColumnInv, Schema
  <2>4. k[2] \in Attached(g)
    BY <2>1, <2>2, <2>3 DEF Attached, Ids, Row
  <2>5. k \in {"attached"} \X ids
    BY <1>1, <2>3, <2>4
  <2> QED BY <1>5, <2>2, <2>5
<1> QED BY <1>4, <1>5, <1>6, NoJoinFine, NothingTold DEF DeletedEffect

LEMMA GroupDeleted ==
    ASSUME CatInv, DeletedInv, NEW r \in Request, GroupOperation(r)
    PROVE  DeletedEffect(r) /\ ChildTold(r)'
<1>1. CASE DeleteModifier(r)
  <2>1. step[r] = "idle" /\ step'[r] = "group.mark" /\ UNCHANGED <<db, hist>>
    BY <1>1, BegunAt DEF DeleteModifier, Begin
  <2>2. step[r] \notin TakeSteps /\ step'[r] \notin TellSteps
    BY <2>1 DEF TakeSteps, TellSteps, JoinSteps, Updating, Editing
  <2> QED BY <2>1, <2>2, ReadsKeep, DeletedQuiet
<1>2. CASE \/ AddModifier(r) \/ AddModifierProducts(r) \/ AddModifierInsert(r)
           \/ AddModifierAttach(r) \/ AddModifierOptions(r)
  BY <1>2, GroupAdded
<1>3. CASE UpdateModifier(r)
  BY <1>3, EditAsked
<1>4. CASE \/ UpdateModifierCategories(r) \/ UpdateModifierAttachReload(r)
           \/ UpdateModifierOptionReload(r)
  BY <1>4, EditReloaded
<1>5. CASE UpdateModifierDetach(r) \/ UpdateModifierAttach(r)
  BY <1>5, AttachmentsGone, AttachmentsWritten
<1>6. CASE UpdateModifierExisting(r) \/ UpdateModifierOption(r) \/ UpdateModifierGroup(r)
  BY <1>6, OptionsRead, OptionChosen, GroupToSave
<1>7. CASE UpdateModifierOptionInsert(r) \/ UpdateModifierOptionWrite(r)
  BY <1>7, OptionInserted, OptionSaved
<1>8. CASE DeleteModifierGroup(r) \/ DeleteModifierOptions(r) \/ DeleteModifierDetach(r)
  BY <1>8, GroupMarked, OptionsMarked, GroupDetached
<1> QED BY <1>1, <1>2, <1>3, <1>4, <1>5, <1>6, <1>7, <1>8 DEF GroupOperation

-----------------------------------------------------------------------------
(* The children of what was deleted.                                       *)

DeletedIndInv == DiscountIndInv /\ DeletedInv

LEMMA DeletedOperationStep ==
    ASSUME DeletedIndInv, NEW r \in Request, Operation(r)
    PROVE  DeletedInv'
<1>1. CatInv /\ RowsInv /\ DiscountInv /\ DeletedInv
  BY DEF DeletedIndInv, DiscountIndInv
<1>2. /\ "idle" \notin StoreSteps /\ "idle" \notin HoursSteps
      /\ "idle" \notin DiscountSteps /\ "idle" \notin MenuSteps
  BY DEF StoreSteps, HoursSteps, DiscountSteps, MenuSteps, Editing, Ended
<1>3. ASSUME NEW S, NEW T, Turn(r, S, T), "idle" \notin S, DeletedEffect(r) /\ ChildTold(r)'
      PROVE  DeletedInv'
  BY <1>1, <1>3, DeletedStep
<1>4. CASE StoreOperation(r)
  BY <1>1, <1>2, <1>3, <1>4, StoreTurn, StoreDeleted
<1>5. CASE HoursOperation(r)
  BY <1>1, <1>2, <1>3, <1>5, HoursTurn, StoreDeleted
<1>6. CASE DiscountOperation(r)
  BY <1>1, <1>2, <1>3, <1>6, DiscountTurn, DiscountDeleted
<1>7. CASE CategoryOperation(r) \/ ProductOperation(r) \/ EntityWrite(r)
  <2>1. Turn(r, MenuSteps, MenuTables)
    BY <1>1, <1>7, CategoryTurn, ProductTurn DEF CategoryOperation
  <2>2. DeletedEffect(r) /\ ChildTold(r)'
    BY <1>1, <1>7, EntityDeleted, MenuDeleted
  <2> QED BY <1>2, <1>3, <2>1, <2>2
<1>8. CASE GroupOperation(r)
  BY <1>1, <1>2, <1>3, <1>8, GroupTurn, GroupDeleted
<1>9. CASE Fails(r)
  BY <1>1, <1>2, <1>3, <1>9, FailsTurn, FailsDeleted, EndedSteps
<1> QED BY <1>4, <1>5, <1>6, <1>7, <1>8, <1>9 DEF Operation

LEMMA DeletedSame ==
    ASSUME DeletedInv, UNCHANGED <<db, step, mem, met, hist>>
    PROVE  DeletedInv'
<1>1. /\ \A k, P : (TiedTo(k, P)' <=> TiedTo(k, P)) /\ (LiveChild(k, P)' <=> LiveChild(k, P))
      /\ \A w, P : Joins(w, P)' <=> Joins(w, P)
      /\ \A d, P, k : Takes(d, P, k)' <=> Takes(d, P, k)
  BY DEF TiedTo, LiveChild, Joins, Takes, Revising, DiscountKey, GroupKey
<1>2. ChildInv'
  BY <1>1 DEF DeletedInv, ChildInv
<1>3. AttachedInv' /\ LinkMade'
  BY DEF DeletedInv, AttachedInv, LinkMade, LinkKey
<1>4. ASSUME NEW r \in Request
      PROVE  ChildTold(r)'
  <2>1. PICK dto, rows : dto = mem[r].dto /\ rows = mem[r].rows
    OBVIOUS
  <2>2. ChildTold(r) /\ (Revising(r)' <=> Revising(r))
    BY DEF DeletedInv, Revising
  <2>3. /\ LinksHeld(r) => LinksHeld(r)'
        /\ EditHeld(r) => EditHeld(r)'
        /\ OwnOptions(r) => OwnOptions(r)'
        /\ OfGroup(r) => OfGroup(r)'
        /\ Named(r) => Named(r)'
    BY <1>1 DEF LinksHeld, EditHeld, OwnOptions, OfGroup, Named, OptionKey, DiscountKey, GroupKey
  <2>4. /\ IsSeq(mem[r].dto.options) => IsSeq(mem[r].dto.options)'
        /\ \A k : TiedTo(k, GroupKey(mem[r].dto.id)) => TiedTo(k, GroupKey(mem[r].dto.id))'
    BY <1>1 DEF IsSeq, GroupKey
  <2> QED BY <2>2, <2>3, <2>4 DEF ChildTold, DiscountKey
<1> QED BY <1>2, <1>3, <1>4 DEF DeletedInv

LEMMA DeletedInitially == Init => DeletedInv
<1> SUFFICES ASSUME Init
             PROVE  DeletedInv
  OBVIOUS
<1>1. /\ area \in Area /\ TablesInit(Rows[area]) /\ CatInv
      /\ \A k \in DOMAIN Rows[area] :
           /\ k[1] = "attached" => k[2] = <<Rows[area][k].group, Rows[area][k].category>>
           /\ k[1] = "link" => k[2] \notin Request \X BodyStores
  BY CatInitially, RowsAssumption, CatalogueAssumption DEF Init, BodyStores
<1>2. /\ db = Rows[area] /\ DOMAIN hist = DOMAIN db
      /\ \A r \in Request : step[r] = "idle"
      /\ \A k \in DOMAIN db : \A c \in DOMAIN db[k] : hist[k][c].by = Null
  BY <1>1 DEF TablesInit
<1>3. \A k \in DOMAIN db : k[1] \in ParentTables => hist[k].at.by = Null
  <2>1. \A k \in DOMAIN db : k[1] \in ParentTables => "at" \in DOMAIN db[k]
    BY <1>1, CatShared DEF ColumnInv, Schema, CatalogueColumns, ParentTables
  <2> QED BY <1>2, <2>1
<1>4. ChildInv
  BY <1>3, BoundAssumption DEF ChildInv
<1>5. AttachedInv
  BY <1>1, <1>2 DEF AttachedInv
<1>6. LinkMade
  <2>1. ASSUME NEW r \in Request, NEW s \in BodyStores, LinkKey(r, s) \in DOMAIN db
        PROVE  FALSE
    <3>1. PICK k \in DOMAIN Rows[area] : k = LinkKey(r, s)
      BY <1>2, <2>1
    <3>2. k[1] = "link" /\ k[2] = <<r, s>>
      BY <3>1 DEF LinkKey
    <3>3. k[2] \notin Request \X BodyStores
      BY <1>1, <3>2
    <3>4. <<r, s>> \in Request \X BodyStores
      BY <2>1
    <3> QED BY <3>2, <3>3, <3>4
  <2> QED BY <2>1 DEF LinkMade
<1>7. \A r \in Request : ChildTold(r)
  BY <1>2 DEF ChildTold, Updating, Editing, Looping, Revising
<1> QED BY <1>4, <1>5, <1>6, <1>7 DEF DeletedInv

LEMMA DeletedInductive == DeletedIndInv /\ [Next]_vars => DeletedIndInv'
<1> SUFFICES ASSUME DeletedIndInv, [Next]_vars
             PROVE  DeletedIndInv'
  OBVIOUS
<1>1. DiscountIndInv'
  BY DiscountInductive DEF DeletedIndInv
<1>2. CASE UNCHANGED vars
  BY <1>1, <1>2, DeletedSame DEF vars, tableVars, DeletedIndInv
<1>3. CASE \E r \in Among[area] : Operation(r)
  <2>1. Among[area] \subseteq Request
    BY CatalogueAssumption DEF DeletedIndInv, DiscountIndInv, CatInv
  <2> QED BY <1>1, <1>3, <2>1, DeletedOperationStep DEF DeletedIndInv
<1>4. CASE Finished
  BY <1>1, <1>4, DeletedSame DEF Finished, tableVars, DeletedIndInv
<1> QED BY <1>2, <1>3, <1>4 DEF Next

\* A deletion that was answered left no link of the discount, and no option
\* or attachment of the group, but what a request that overlapped it wrote:
\* deleteDiscount, deleteDiscounts and deleteModifier write the parent and
\* its children in statements of their own.
THEOREM CatalogueChildren == Spec => []DeletedTakesChildren
<1>1. DeletedIndInv => DeletedTakesChildren
  <2> SUFFICES ASSUME DeletedIndInv,
                      NEW t \in {<<"link", "discount">>, <<"option", "group">>,
                                 <<"attached", "group">>},
                      NEW i \in Live(t[1]), NEW parent,
                      parent = <<t[2], Row(t[1], i)[t[2]]>>,
                      parent \in DOMAIN db, db[parent].at = "deleted",
                      hist[parent].at.by # Null, step[hist[parent].at.by] = "ok"
               PROVE  hist[<<t[1], i>>].at.writer \in met[hist[parent].at.by]
    BY DEF DeletedTakesChildren
  <2>1. ColumnInv(CatalogueColumns) /\ ChildInv
    BY CatShared DEF DeletedIndInv, DiscountIndInv, DeletedInv
  <2>2. PICK k, d : k = <<t[1], i>> /\ d = hist[parent].at.by
    OBVIOUS
  <2>3. k \in DOMAIN db /\ Row(t[1], i) = db[k] /\ k[1] = t[1]
    BY <2>1, <2>2, LiveKey
  <2>4. db[k].at = "live"
    BY <2>3 DEF Live
  <2>5. LiveChild(k, parent) /\ parent[1] \in ParentTables
    BY <2>3, <2>4 DEF LiveChild, TiedTo, DiscountKey, GroupKey, ParentTables
  <2>6. d \in Request
    <3>1. "at" \in DOMAIN hist[parent] /\ parent \in DOMAIN hist
      BY <2>1, <2>5 DEF ColumnInv, Schema, CatalogueColumns, ParentTables
    <3>2. hist[parent]["at"].by \in Request \cup {Null}
      BY <2>1, <3>1 DEF ColumnInv
    <3> QED BY <2>2, <3>2
  <2>7. step[d] = "ok"
    BY <2>2
  <2>8. ~Takes(d, parent, k)
    BY <2>7 DEF Takes
  <2> QED BY <2>1, <2>2, <2>3, <2>5, <2>6, <2>7, <2>8 DEF ChildInv
<1>2. Init => DeletedIndInv
  BY DiscountInitially, DeletedInitially DEF DeletedIndInv
<1> QED BY <1>1, <1>2, DeletedInductive, PTL DEF Spec

=============================================================================
