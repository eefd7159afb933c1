--------------------------- MODULE ContactsProofs ---------------------------
(***************************************************************************)
(* That every user, customer and supplier has one row of contact           *)
(* information through removals and edits that overlap, that what a        *)
(* request asked of them is overwritten only by one a chain of overlaps    *)
(* joins to it, and that two users share an address only if the requests   *)
(* that made them overlapped: for any number of requests, rows and bodies. *)
(***************************************************************************)
EXTENDS People, TablesProofs, FiniteSetTheorems

\* The steps at which a request holds the rows of a person it will save, and
\* at which it has compared them with the tables.
Reading == {"person.reload"}
Writing == {"person.write"}
Saving == {"person.reload", "person.write"}
PeopleSaveInv == SaveInv(PeopleColumns, Reading, Writing)

\* The rows of a table that were ever there are numbered.
Ever(t) == {k \in DOMAIN hist : k[1] = t}
NumberInv == \A t \in DOMAIN PeopleColumns : \E n \in Nat : Ever(t) = {t} \X (1..n)

DateInv ==
    \A k \in DOMAIN db : /\ db[k].at \in {"live", "deleted"}
                         /\ k[1] \in {"store", "contact"} => db[k].at = "live"

\* owner has the person of each row of contact information that was ever
\* there: the two are in the tables together, or neither is.
OwnerIn(owner) ==
    /\ DOMAIN owner = Ever("contact")
    /\ \A j \in DOMAIN owner : owner[j] \in DOMAIN hist /\ owner[j][1] \in Owners
    /\ \A i, j \in DOMAIN owner : owner[i] = owner[j] => i = j
    /\ \A j \in DOMAIN owner : j \in DOMAIN db <=> owner[j] \in DOMAIN db
    /\ \A j \in DOMAIN owner : j \in DOMAIN db => \A t \in Owners :
          db[j][t] = IF t = owner[j][1] THEN owner[j][2] ELSE Null
    /\ \A k \in DOMAIN db : k[1] \in Owners => \E j \in DOMAIN owner : owner[j] = k

StoredInv(owner) == NumberInv /\ DateInv /\ KeysHold(db, DOMAIN db) /\ OwnerIn(owner)

\* An edit holds a person and its contact information, and found both in the
\* tables or neither.
Edited(p, j, rows) ==
    /\ p[1] \in {"customer", "supplier"}
    /\ DOMAIN rows = {j, p}
    /\ DOMAIN rows[j] = {"at", "email", "mobile", p[1]}
    /\ rows[j].at = "live" /\ rows[j][p[1]] = p[2]
    /\ {"at"} \subseteq DOMAIN rows[p] /\ rows[p].at \in {"live", "deleted"}
HeldBy(owner, r) ==
    \E j \in DOMAIN owner :
       /\ Edited(owner[j], j, mem[r].rows)
       /\ step[r] = "person.write" => DOMAIN mem[r].dirty \in {{}, {j, owner[j]}}
HeldInv(owner) == \A r \in Request : step[r] \in Saving => HeldBy(owner, r)

-----------------------------------------------------------------------------
(* The tables and their keys.                                              *)

LEMMA PeopleUnderWay == UnderWay(Reading, Writing)
BY DEF UnderWay, Reading, Writing

LEMMA ForeignKeys ==
    /\ \A f \in References : f.rule = "cascade" =>
          f.table = "contact" /\ f.column \in Owners /\ f.target = f.column
    /\ \A f \in References : \/ f.table = "contact" /\ f.column \in Owners /\ f.target = f.column
                             \/ /\ f.table \in {"customer", "supplier"}
                                /\ f.column = "store" /\ f.target = "store"
    /\ \A t \in Owners : \E f \in References :
          f.table = "contact" /\ f.column = t /\ f.target = t /\ f.rule = "cascade"
    /\ \A t \in {"customer", "supplier"} : \E f \in References :
          f.table = t /\ f.column = "store" /\ f.target = "store"
    /\ \A f \in References : f.column \in PeopleColumns[f.table]
<1>1. \A f \in AccountReferences \cup ContactReferences :
         \/ /\ f.table = "contact" /\ f.column \in Owners /\ f.target = f.column
            /\ f.rule = "cascade"
         \/ /\ f.table \in {"customer", "supplier"} /\ f.rule = "refuse"
            /\ f.column = "store" /\ f.target = "store"
  BY DEF AccountReferences, ContactReferences, Owners
<1>2. ASSUME NEW t \in Owners
      PROVE  \E f \in AccountReferences \cup ContactReferences :
                f.table = "contact" /\ f.column = t /\ f.target = t /\ f.rule = "cascade"
  <2> DEFINE f == [table |-> "contact", column |-> t, target |-> t, rule |-> "cascade",
                   optional |-> TRUE]
  <2>1. f \in AccountReferences \cup ContactReferences
    BY DEF AccountReferences, ContactReferences, Owners
  <2>2. f.table = "contact" /\ f.column = t /\ f.target = t /\ f.rule = "cascade"
    OBVIOUS
  <2> HIDE DEF f
  <2> QED BY <2>1, <2>2
<1>3. ASSUME NEW t \in {"customer", "supplier"}
      PROVE  \E f \in AccountReferences \cup ContactReferences :
                f.table = t /\ f.column = "store" /\ f.target = "store"
  <2> DEFINE f == [table |-> t, column |-> "store", target |-> "store", rule |-> "refuse",
                   optional |-> t = "supplier"]
  <2>1. f \in ContactReferences
    BY DEF ContactReferences
  <2>2. f.table = t /\ f.column = "store" /\ f.target = "store"
    OBVIOUS
  <2> HIDE DEF f
  <2> QED BY <2>1, <2>2
<1>4. References = AccountReferences \cup ContactReferences
  BY ForeignKeyAssumption DEF PeopleReferences
<1>5. /\ Owners \subseteq PeopleColumns["contact"]
      /\ "store" \in PeopleColumns["customer"] /\ "store" \in PeopleColumns["supplier"]
  BY DEF PeopleColumns, Owners
<1> QED BY <1>1, <1>2, <1>3, <1>4, <1>5

LEMMA ForeignOf ==
    /\ \A j : j[1] = "contact" => ForeignColumns(j) = Owners
    /\ \A k : k[1] \in {"customer", "supplier"} => ForeignColumns(k) = {"store"}
<1>1. ASSUME NEW j, j[1] = "contact"
      PROVE  ForeignColumns(j) = Owners
  <2>1. \A c : c \in ForeignColumns(j) <=> \E f \in References : f.table = "contact" /\ f.column = c
    BY <1>1 DEF ForeignColumns
  <2>2. \A f \in References : f.table = "contact" => f.column \in Owners
    BY ForeignKeys
  <2>3. \A t \in Owners : \E f \in References : f.table = "contact" /\ f.column = t
    BY ForeignKeys
  <2> QED BY <2>1, <2>2, <2>3
<1>2. ASSUME NEW k, k[1] \in {"customer", "supplier"}
      PROVE  ForeignColumns(k) = {"store"}
  <2>1. \A c : c \in ForeignColumns(k) <=> \E f \in References : f.table = k[1] /\ f.column = c
    BY DEF ForeignColumns
  <2>2. \A f \in References : f.table \in {"customer", "supplier"} => f.column = "store"
    BY ForeignKeys
  <2>3. \A t \in {"customer", "supplier"} : \E f \in References : f.table = t /\ f.column = "store"
    BY ForeignKeys
  <2> QED BY <1>2, <2>1, <2>2, <2>3
<1> QED BY <1>1, <1>2

\* The next number of a table was never used.
LEMMA NextFresh ==
    ASSUME NumberInv, NEW t \in DOMAIN PeopleColumns
    PROVE  /\ NextId(t) \in Nat \ {0}
           /\ Ever(t) = {t} \X (1..(NextId(t) - 1))
           /\ <<t, NextId(t)>> \notin DOMAIN hist
<1>1. PICK n \in Nat : Ever(t) = {t} \X (1..n)
  BY DEF NumberInv
<1> DEFINE f == [i \in 1..n |-> <<t, i>>]
<1>2. f \in Bijection(1..n, Ever(t))
  <2>1. f \in [1..n -> Ever(t)]
    BY <1>1
  <2>2. \A i, j \in 1..n : f[i] = f[j] => i = j
    OBVIOUS
  <2>3. \A k \in Ever(t) : \E i \in 1..n : f[i] = k
    <3> SUFFICES ASSUME NEW k \in Ever(t) PROVE \E i \in 1..n : f[i] = k
      OBVIOUS
    <3>1. k = <<t, k[2]>> /\ k[2] \in 1..n
      BY <1>1
    <3> QED BY <3>1
  <2> HIDE DEF f
  <2> QED BY <2>1, <2>2, <2>3 DEF Bijection, Injection, Surjection, IsInjective
<1>3. Cardinality(Ever(t)) = n
  BY <1>2, FS_CountingElements DEF ExistsBijection
<1>4. NextId(t) = n + 1
  BY <1>3 DEF NextId, Ever
<1>5. <<t, n + 1>> \notin Ever(t)
  BY <1>1
<1> QED BY <1>1, <1>4, <1>5 DEF Ever

\* Numbers are no NULL.
LEMMA Numbered ==
    ASSUME NumberInv, NEW k \in DOMAIN hist, k[1] \in DOMAIN PeopleColumns
    PROVE  k = <<k[1], k[2]>> /\ k[2] # Null
<1>1. PICK n \in Nat : Ever(k[1]) = {k[1]} \X (1..n)
  BY DEF NumberInv
<1>2. k \in Ever(k[1])
  BY DEF Ever
<1> QED BY <1>1, <1>2, BoundAssumption

LEMMA OwnersAre ==
    Owners \subseteq DOMAIN PeopleColumns /\ "contact" \in DOMAIN PeopleColumns
    /\ "contact" \notin Owners /\ Owners \subseteq PeopleColumns["contact"]
BY DEF Owners, PeopleColumns

-----------------------------------------------------------------------------
(* What statements do to persons and their contact information.            *)

\* Rows that a statement leaves as they are refer to rows that are there yet.
LEMMA KeysStay ==
    ASSUME KeysHold(db, DOMAIN db), NEW keys, KeysHold(db', keys),
           DOMAIN db \subseteq DOMAIN db',
           \A k \in DOMAIN db' \ keys : k \in DOMAIN db /\ db'[k] = db[k]
    PROVE  KeysHold(db, DOMAIN db)'
BY DEF KeysHold

LEMMA StoredSame ==
    ASSUME NEW owner, StoredInv(owner), UNCHANGED <<db, hist>>
    PROVE  StoredInv(owner)'
<1>1. NumberInv' /\ DateInv' /\ KeysHold(db, DOMAIN db)'
  BY DEF StoredInv, NumberInv, Ever, DateInv, KeysHold
<1>2. OwnerIn(owner)'
  BY DEF StoredInv, OwnerIn, Ever
<1> QED BY <1>1, <1>2 DEF StoredInv

\* The row of somebody new and that of the contact information.
LEMMA WithContactRows ==
    ASSUME NumberInv, NEW t \in Owners, NEW row, NEW email, NEW mobile
    PROVE  LET p == <<t, NextId(t)>>
               j == <<"contact", NextId("contact")>>
               rows == WithContact(t, row, email, mobile)
           IN  /\ DOMAIN rows = {p, j} /\ p # j
               /\ p \notin DOMAIN hist /\ j \notin DOMAIN hist
               /\ p[2] # Null
               /\ rows[p] = row
               /\ DOMAIN rows[j] = PeopleColumns["contact"]
               /\ rows[j].at = "live" /\ rows[j].email = email /\ rows[j].mobile = mobile
               /\ \A s \in Owners : rows[j][s] = IF s = t THEN p[2] ELSE Null
<1> DEFINE p == <<t, NextId(t)>>
           j == <<"contact", NextId("contact")>>
           rows == WithContact(t, row, email, mobile)
           contact == ContactRow(t, NextId(t), email, mobile)
<1>1. /\ p \notin DOMAIN hist /\ j \notin DOMAIN hist /\ NextId(t) # Null
  BY NextFresh, OwnersAre, BoundAssumption
<1>2. p # j
  BY OwnersAre
<1>3. DOMAIN rows = {p, j} /\ rows[p] = row /\ rows[j] = contact
  BY <1>2 DEF WithContact, Over, Single
<1>4. DOMAIN contact = PeopleColumns["contact"]
  BY DEF ContactRow, Over, Single, PeopleColumns, Owners
<1>5. contact.at = "live" /\ contact.email = email /\ contact.mobile = mobile
  BY DEF ContactRow, Over, Single, Owners
<1>6. \A s \in Owners : contact[s] = IF s = t THEN NextId(t) ELSE Null
  BY DEF ContactRow, Over, Single, Owners
<1> QED BY <1>1, <1>2, <1>3, <1>4, <1>5, <1>6

LEMMA StoredInserts ==
    ASSUME ColumnInv(PeopleColumns), NEW owner, StoredInv(owner), NEW r,
           NEW t \in Owners, NEW row, row.at = "live", NEW email, NEW mobile,
           Inserts(r, WithContact(t, row, email, mobile))
    PROVE  \E new : /\ StoredInv(new)'
                    /\ DOMAIN owner \subseteq DOMAIN new
                    /\ \A j \in DOMAIN owner : new[j] = owner[j]
<1>1. PICK n : n = NextId(t)
  OBVIOUS
<1>2. PICK m : m = NextId("contact")
  OBVIOUS
<1>3. PICK rows : rows = WithContact(t, row, email, mobile)
  OBVIOUS
<1> DEFINE p == <<t, n>>
           j == <<"contact", m>>
           new == Over(Single(j, p), owner)
<1>4. /\ DOMAIN rows = {p, j} /\ p # j
      /\ p \notin DOMAIN hist /\ j \notin DOMAIN hist
      /\ n # Null
      /\ rows[p].at = "live" /\ rows[j].at = "live"
      /\ \A s \in Owners : rows[j][s] = IF s = t THEN n ELSE Null
  BY <1>1, <1>2, <1>3, WithContactRows DEF StoredInv
<1>5. db' = Over(rows, db) /\ Accepts(Over(rows, db), DOMAIN rows)
  BY <1>3 DEF Inserts, Record
<1>6. DOMAIN hist' = DOMAIN hist \cup {p, j}
  BY <1>3, <1>4, InsertsSpare
<1>7. /\ DOMAIN db' = DOMAIN db \cup {p, j}
      /\ \A k \in DOMAIN db : k \notin {p, j} /\ db'[k] = db[k]
      /\ db'[p] = rows[p] /\ db'[j] = rows[j]
  <2>1. DOMAIN db \subseteq DOMAIN hist
    BY DEF ColumnInv
  <2> QED BY <1>4, <1>5, <2>1 DEF Over
<1>8. NumberInv'
  <2> SUFFICES ASSUME NEW u \in DOMAIN PeopleColumns
               PROVE  \E i \in Nat : Ever(u)' = {u} \X (1..i)
    BY DEF NumberInv
  <2>1. u \notin {t, "contact"} => Ever(u)' = Ever(u)
    BY <1>6 DEF Ever
  <2>2. ASSUME NEW i \in Nat \ {0}, u \in {t, "contact"}, Ever(u) = {u} \X (1..(i - 1)),
               i = IF u = t THEN n ELSE m
        PROVE  Ever(u)' = {u} \X (1..i)
    <3>1. t # "contact"
      BY OwnersAre
    <3>2. Ever(u)' = Ever(u) \cup {<<u, i>>}
      BY <1>6, <2>2, <3>1 DEF Ever
    <3>3. 1..i = 1..(i - 1) \cup {i}
      OBVIOUS
    <3> QED BY <2>2, <3>2, <3>3
  <2>3. t # "contact" /\ t \in DOMAIN PeopleColumns
    BY OwnersAre
  <2>4. /\ n \in Nat \ {0} /\ Ever(t) = {t} \X (1..(n - 1))
        /\ m \in Nat \ {0} /\ Ever("contact") = {"contact"} \X (1..(m - 1))
    BY <1>1, <1>2, <2>3, OwnersAre, NextFresh DEF StoredInv
  <2>5. u \notin {t, "contact"} => \E i \in Nat : Ever(u) = {u} \X (1..i)
    BY DEF StoredInv, NumberInv
  <2> QED BY <2>1, <2>2, <2>3, <2>4, <2>5
<1>9. DateInv'
  BY <1>4, <1>7 DEF StoredInv, DateInv
<1>10. KeysHold(db, DOMAIN db)'
  BY <1>4, <1>5, <1>7, KeysStay DEF StoredInv, Accepts
<1>11. /\ DOMAIN new = DOMAIN owner \cup {j} /\ new[j] = p
       /\ \A i \in DOMAIN owner : i # j /\ new[i] = owner[i]
  <2>1. j \notin DOMAIN owner
    BY <1>4 DEF StoredInv, OwnerIn, Ever
  <2> QED BY <2>1 DEF Over, Single
<1> HIDE DEF new
<1>12. OwnerIn(new)'
  <2>1. OwnerIn(owner) /\ t # "contact" /\ p[1] = t /\ j[1] = "contact"
    BY OwnersAre DEF StoredInv
  <2> HIDE DEF p, j
  <2>2. DOMAIN new = Ever("contact")'
    BY <1>6, <1>11, <2>1 DEF OwnerIn, Ever
  <2>3. \A i \in DOMAIN new : new[i] \in DOMAIN hist' /\ new[i][1] \in Owners
    BY <1>6, <1>11, <2>1 DEF OwnerIn
  <2>4. \A i \in DOMAIN owner : owner[i] # p
    BY <1>4, <2>1 DEF OwnerIn
  <2>5. \A i, k \in DOMAIN new : new[i] = new[k] => i = k
    BY <1>11, <2>1, <2>4 DEF OwnerIn
  <2>6. \A i \in DOMAIN new : i \in DOMAIN db' <=> new[i] \in DOMAIN db'
    BY <1>4, <1>7, <1>11, <2>1, <2>4 DEF OwnerIn, Ever
  <2>7. \A i \in DOMAIN new : i \in DOMAIN db' => \A s \in Owners :
           db'[i][s] = IF s = new[i][1] THEN new[i][2] ELSE Null
    <3>1. p[2] = n
      BY DEF p
    <3>2. \A i \in DOMAIN owner : i \in DOMAIN db' => i \in DOMAIN db /\ db'[i] = db[i]
      BY <1>4, <1>7, <1>11, <2>1 DEF OwnerIn, Ever
    <3>3. ASSUME NEW i \in DOMAIN owner, i \in DOMAIN db', NEW s \in Owners
          PROVE  db'[i][s] = IF s = new[i][1] THEN new[i][2] ELSE Null
      BY <1>11, <2>1, <3>2, <3>3 DEF OwnerIn
    <3> QED BY <1>4, <1>7, <1>11, <2>1, <3>1, <3>3
  <2>8. \A k \in DOMAIN db' : k[1] \in Owners => \E i \in DOMAIN new : new[i] = k
    BY <1>7, <1>11, <2>1, OwnersAre DEF OwnerIn
  <2> QED BY <2>2, <2>3, <2>5, <2>6, <2>7, <2>8 DEF OwnerIn
<1> QED BY <1>8, <1>9, <1>10, <1>11, <1>12 DEF StoredInv

LEMMA UpdatedRows ==
    ASSUME NEW r, NEW keys, NEW values, Updates(r, keys, values)
    PROVE  /\ DOMAIN db' = DOMAIN db
           /\ \A k \in DOMAIN db \ keys : db'[k] = db[k]
           /\ \A k \in DOMAIN db \cap keys : db'[k] = Over(values, db[k])
           /\ KeysHold(db', keys \cap DOMAIN db)
<1> DEFINE found == keys \cap DOMAIN db
           changed == [k \in found |-> Over(values, db[k])]
<1>1. db' = Over(changed, db) /\ KeysHold(Over(changed, db), found)
  BY DEF Updates, Record, Accepts
<1>2. DOMAIN changed = found /\ \A k \in found : changed[k] = Over(values, db[k])
  OBVIOUS
<1> HIDE DEF changed
<1> QED BY <1>1, <1>2 DEF Over

\* Customers are deleted by a date.
LEMMA StoredUpdates ==
    ASSUME ColumnInv(PeopleColumns), NEW owner, StoredInv(owner), NEW r, NEW ids,
           Updates(r, {"customer"} \X ids, Deleted)
    PROVE  StoredInv(owner)'
<1> DEFINE keys == {"customer"} \X ids
<1>1. /\ DOMAIN db' = DOMAIN db
      /\ \A k \in DOMAIN db \ keys : db'[k] = db[k]
      /\ \A k \in DOMAIN db \cap keys : db'[k] = Over(Deleted, db[k])
      /\ KeysHold(db', keys \cap DOMAIN db)
  BY UpdatedRows
<1>2. DOMAIN hist' = DOMAIN hist
  BY UpdatesSpare
<1>3. \A k \in keys : k[1] = "customer"
  OBVIOUS
<1> HIDE DEF keys
<1>4. \A k \in DOMAIN db \cap keys : db'[k].at = "deleted"
  BY <1>1 DEF Over, Deleted
<1>5. \A k \in DOMAIN db : k[1] = "contact" => db'[k] = db[k]
  BY <1>1, <1>3
<1>6. NumberInv'
  BY <1>2 DEF StoredInv, NumberInv, Ever
<1>7. DateInv'
  BY <1>1, <1>3, <1>4 DEF StoredInv, DateInv
<1>8. KeysHold(db, DOMAIN db)'
  <2>1. \A k \in DOMAIN db' \ (keys \cap DOMAIN db) : k \in DOMAIN db /\ db'[k] = db[k]
    BY <1>1
  <2> QED BY <1>1, <2>1, KeysStay DEF StoredInv
<1>9. OwnerIn(owner)'
  BY <1>1, <1>2, <1>5 DEF StoredInv, OwnerIn, Ever
<1> QED BY <1>6, <1>7, <1>8, <1>9 DEF StoredInv

\* Users and suppliers are deleted, and their contact information with them.
LEMMA PeopleRemoval ==
    ASSUME ColumnInv(PeopleColumns), NEW owner, StoredInv(owner), NEW t \in Owners,
           NEW keys \in SUBSET DOMAIN db, \A k \in keys : k[1] = t
    PROVE  /\ \A k \in DOMAIN db : k[1] # "contact" => (k \in Removal(keys) <=> k \in keys)
           /\ \A j \in DOMAIN owner : j \in DOMAIN db => (j \in Removal(keys) <=> owner[j] \in keys)
<1>1. t # "contact" /\ t \in DOMAIN PeopleColumns
  BY OwnersAre
<1>2. \A k \in DOMAIN db : k[1] # "contact" => (k \in Removal(keys) <=> k \in keys)
  BY ForeignKeys DEF Removal
<1>3. ASSUME NEW j \in DOMAIN owner, j \in DOMAIN db
      PROVE  j \in Removal(keys) <=> owner[j] \in keys
  <2>1. j[1] = "contact" /\ owner[j] \in DOMAIN hist /\ owner[j][1] \in Owners
    BY DEF StoredInv, OwnerIn, Ever
  <2>2. \A s \in Owners : db[j][s] = IF s = owner[j][1] THEN owner[j][2] ELSE Null
    BY <1>3 DEF StoredInv, OwnerIn
  <2>3. owner[j] = <<owner[j][1], owner[j][2]>>
    BY <2>1, OwnersAre, Numbered DEF StoredInv
  <2>4. \A s : <<s, Null>> \notin keys
    <3>1. \A k \in keys : k[2] # Null
      BY <1>1, Numbered DEF StoredInv, ColumnInv
    <3> QED BY <3>1
  <2>5. \A s \in Owners : <<s, db[j][s]>> \in keys <=> s = owner[j][1] /\ owner[j] \in keys
    BY <2>2, <2>3, <2>4
  <2>6. (\E f \in References : /\ f.rule = "cascade"
                               /\ j[1] = f.table
                               /\ <<f.target, db[j][f.column]>> \in keys)
          <=> \E s \in Owners : <<s, db[j][s]>> \in keys
    <3>1. ASSUME NEW f \in References, f.rule = "cascade", <<f.target, db[j][f.column]>> \in keys
          PROVE  \E s \in Owners : <<s, db[j][s]>> \in keys
      BY <3>1, ForeignKeys
    <3>2. ASSUME NEW s \in Owners, <<s, db[j][s]>> \in keys
          PROVE  \E f \in References : /\ f.rule = "cascade"
                                       /\ j[1] = f.table
                                       /\ <<f.target, db[j][f.column]>> \in keys
      <4>1. PICK f \in References :
               f.table = "contact" /\ f.column = s /\ f.target = s /\ f.rule = "cascade"
        BY ForeignKeys
      <4> QED BY <2>1, <3>2, <4>1
    <3> QED BY <3>1, <3>2
  <2>7. j \notin keys
    BY <1>1, <2>1
  <2>8. j \in Removal(keys) <=>
          \E f \in References : /\ f.rule = "cascade"
                                /\ j[1] = f.table
                                /\ <<f.target, db[j][f.column]>> \in keys
    BY <1>3, <2>7 DEF Removal
  <2> QED BY <2>1, <2>5, <2>6, <2>8
<1> QED BY <1>2, <1>3

LEMMA StoredRemoves ==
    ASSUME ColumnInv(PeopleColumns), NEW owner, StoredInv(owner), NEW t \in Owners,
           NEW keys \in SUBSET DOMAIN db, \A k \in keys : k[1] = t, NEW r, Removes(r, keys)
    PROVE  StoredInv(owner)'
<1> DEFINE rest == DOMAIN db \ Removal(keys)
<1>1. db' = Only(db, rest) /\ KeysHold(Only(db, rest), rest)
  BY DEF Removes, Record, RemovalAccepted
<1>2. DOMAIN db' = rest /\ \A k \in rest : db'[k] = db[k]
  BY <1>1 DEF Only
<1>3. DOMAIN hist' = DOMAIN hist
  BY RemovesSpare
<1>4. /\ \A k \in DOMAIN db : k[1] # "contact" => (k \in rest <=> k \notin keys)
      /\ \A j \in DOMAIN owner : j \in DOMAIN db => (j \in rest <=> owner[j] \notin keys)
  BY PeopleRemoval
<1>5. rest \subseteq DOMAIN db
  OBVIOUS
<1> HIDE DEF rest
<1>6. NumberInv' /\ DateInv' /\ KeysHold(db, DOMAIN db)'
  BY <1>1, <1>2, <1>3, <1>5 DEF StoredInv, NumberInv, Ever, DateInv
<1>7. OwnerIn(owner)'
  <2>1. OwnerIn(owner)
    BY DEF StoredInv
  <2>2. \A j \in DOMAIN owner : owner[j][1] # "contact"
    BY <2>1, OwnersAre DEF OwnerIn
  <2>3. \A j \in DOMAIN owner : j \in DOMAIN db' <=> owner[j] \in DOMAIN db'
    BY <1>2, <1>4, <1>5, <2>1, <2>2 DEF OwnerIn
  <2>4. \A j \in DOMAIN owner : j \in DOMAIN db' => \A s \in Owners :
           db'[j][s] = IF s = owner[j][1] THEN owner[j][2] ELSE Null
    BY <1>2, <1>5, <2>1 DEF OwnerIn
  <2>5. \A k \in DOMAIN db' : k[1] \in Owners => \E j \in DOMAIN owner : owner[j] = k
    BY <1>2, <1>5, <2>1 DEF OwnerIn
  <2> QED BY <1>3, <2>1, <2>3, <2>4, <2>5 DEF OwnerIn, Ever
<1> QED BY <1>6, <1>7 DEF StoredInv

\* save() of what an edit holds: both rows are there, and some of their
\* columns change; or both are inserted again; or neither is there.
LEMMA StoredWrites ==
    ASSUME ColumnInv(PeopleColumns), NEW owner, StoredInv(owner), NEW r \in Request,
           step[r] = "person.write", HeldBy(owner, r), Compared(PeopleColumns, r),
           Write(r, "ok", NoMem)
    PROVE  /\ StoredInv(owner)'
           /\ \A k \in DOMAIN db' \ DOMAIN mem[r].rows :
                k \in DOMAIN db /\ db'[k] = db[k] /\ hist'[k] = hist[k]
<1> DEFINE rows == mem[r].rows
           dirty == mem[r].dirty
           after == AfterWrite(r)
<1>1. CASE ~WriteAccepted(r)
  <2>1. UNCHANGED <<db, hist>>
    BY <1>1 DEF Write, Reads
  <2> QED BY <2>1, StoredSame
<1>2. CASE WriteAccepted(r)
  <2>1. PICK j \in DOMAIN owner : /\ Edited(owner[j], j, rows)
                                  /\ DOMAIN dirty \in {{}, {j, owner[j]}}
    BY DEF HeldBy
  <2>2. PICK p : p = owner[j]
    OBVIOUS
  <2>3. /\ j[1] = "contact" /\ p[1] \in Owners /\ p # j
        /\ j \in DOMAIN hist /\ p \in DOMAIN hist
        /\ j \in DOMAIN db <=> p \in DOMAIN db
        /\ p[1] \in {"customer", "supplier"}
    BY <2>1, <2>2, OwnersAre DEF StoredInv, OwnerIn, Ever, Edited
  <2>4. /\ DOMAIN rows = {j, p}
        /\ DOMAIN rows[j] = {"at", "email", "mobile", p[1]}
        /\ rows[j].at = "live" /\ rows[j][p[1]] = p[2]
        /\ "at" \in DOMAIN rows[p] /\ rows[p].at \in {"live", "deleted"}
    BY <2>1, <2>2 DEF Edited
  <2>5. PICK new, meant, wrote :
           /\ Record(r, after, new, meant, wrote)
           /\ DOMAIN meant = DOMAIN rows \cap DOMAIN after
    BY <1>2 DEF Write
  <2>6. db' = after /\ Accepts(after, DOMAIN rows \cap DOMAIN after)
    BY <1>2, <2>5 DEF Record, WriteAccepted
  <2>7. /\ DOMAIN after = DOMAIN db \cup (DOMAIN rows \ DOMAIN dirty)
        /\ \A k \in DOMAIN after : DOMAIN after[k] = PeopleColumns[k[1]]
        /\ \A k \in DOMAIN rows \ DOMAIN dirty :
             k \notin DOMAIN db /\ \A c \in DOMAIN rows[k] : after[k][c] = rows[k][c]
        /\ \A k \in DOMAIN db : k \notin DOMAIN rows => after[k] = db[k]
        /\ \A k \in DOMAIN db \cap DOMAIN rows : \A c \in PeopleColumns[k[1]] :
             after[k][c] = IF c \in dirty[k] THEN rows[k][c] ELSE db[k][c]
    <3>1. PICK C : C = PeopleColumns
      OBVIOUS
    <3>2. \A f \in References : f.column \in C[f.table]
      BY <3>1, ForeignKeys
    <3>3. ColumnInv(C) /\ Compared(C, r)
      BY <3>1
    <3>4. /\ DOMAIN after = DOMAIN db \cup (DOMAIN rows \ DOMAIN dirty)
          /\ \A k \in DOMAIN after : DOMAIN after[k] = C[k[1]]
          /\ \A k \in DOMAIN rows \ DOMAIN dirty :
               k \notin DOMAIN db /\ \A c \in DOMAIN rows[k] : after[k][c] = rows[k][c]
          /\ \A k \in DOMAIN db : k \notin DOMAIN rows => after[k] = db[k]
          /\ \A k \in DOMAIN db \cap DOMAIN rows : \A c \in C[k[1]] :
               after[k][c] = IF c \in dirty[k] THEN rows[k][c] ELSE db[k][c]
      BY ONLY <1>2, <3>2, <3>3, r \in Request, AfterWriteRows
    <3> QED BY <3>1, <3>4
  <2>8. \A k \in DOMAIN rows \ DOMAIN dirty : after[k] = Inserted(k, rows[k])
    <3> DEFINE fresh == DOMAIN rows \ DOMAIN dirty
               inserted == [k \in fresh |-> Inserted(k, rows[k])]
    <3>1. \E rest : after = Over(inserted, rest)
      BY DEF AfterWrite
    <3>2. DOMAIN inserted = fresh /\ \A k \in fresh : inserted[k] = Inserted(k, rows[k])
      OBVIOUS
    <3> HIDE DEF inserted
    <3> QED BY <3>1, <3>2 DEF Over
  <2> HIDE DEF rows, dirty, after
  <2>9. DOMAIN hist' = DOMAIN hist /\ \A k \in DOMAIN hist \ DOMAIN rows : hist'[k] = hist[k]
    <3>1. /\ DOMAIN hist' = DOMAIN hist \cup DOMAIN meant
          /\ \A k \in DOMAIN hist \ DOMAIN meant : hist'[k] = hist[k]
      BY <2>5, RecordHist
    <3> QED BY <2>3, <2>4, <2>5, <3>1
  <2>10. \A k \in DOMAIN after \ {j, p} : k \in DOMAIN db /\ after[k] = db[k]
    BY <2>4, <2>7
  <2>11. DOMAIN dirty = {} \/ DOMAIN dirty = {j, p}
    BY <2>1, <2>2
  <2>12. /\ j \in DOMAIN after <=> p \in DOMAIN after
         /\ \A k \in DOMAIN db : k \in DOMAIN after
    BY <2>3, <2>4, <2>7, <2>11
  <2>13. /\ {"at"} \cup Owners \subseteq PeopleColumns[j[1]]
         /\ "at" \in PeopleColumns[p[1]]
    BY <2>3 DEF PeopleColumns, Owners
  <2>14. j \in DOMAIN db => /\ db[j].at = "live"
                            /\ \A s \in Owners : db[j][s] = IF s = p[1] THEN p[2] ELSE Null
    BY <2>2, <2>3 DEF StoredInv, OwnerIn, DateInv
  <2>15. ASSUME j \in DOMAIN after
         PROVE  /\ after[j].at = "live"
                /\ \A s \in Owners : after[j][s] = IF s = p[1] THEN p[2] ELSE Null
    <3>1. CASE j \in DOMAIN db
      <4>1. dirty[j] \subseteq DOMAIN rows[j]
        <5>1. j \in DOMAIN dirty
          BY <2>4, <2>7, <3>1
        <5> QED BY <2>4, <5>1 DEF Compared, rows, dirty
      <4>2. \A c \in PeopleColumns[j[1]] :
              after[j][c] = IF c \in dirty[j] THEN rows[j][c] ELSE db[j][c]
        BY <2>4, <2>7, <3>1
      <4>3. Owners \cap DOMAIN rows[j] = {p[1]}
        BY <2>3, <2>4 DEF Owners
      <4> QED BY <2>4, <2>13, <2>14, <3>1, <4>1, <4>2, <4>3
    <3>2. CASE j \notin DOMAIN db
      <4>1. after[j] = Inserted(j, rows[j])
        BY <2>4, <2>7, <2>8, <2>15, <3>2
      <4>2. /\ \A c \in DOMAIN rows[j] : after[j][c] = rows[j][c]
            /\ \A c \in Owners \ DOMAIN rows[j] : after[j][c] = Null
        BY <2>3, <4>1, ForeignOf DEF Inserted, Over
      <4>3. Owners \cap DOMAIN rows[j] = {p[1]}
        BY <2>3, <2>4 DEF Owners
      <4> QED BY <2>4, <4>2, <4>3
    <3> QED BY <3>1, <3>2
  <2>16. ASSUME p \in DOMAIN after
         PROVE  after[p].at \in {"live", "deleted"}
    <3>1. CASE p \in DOMAIN db
      <4>1. after[p].at = IF "at" \in dirty[p] THEN rows[p].at ELSE db[p].at
        BY <2>4, <2>7, <2>13, <3>1
      <4> QED BY <2>4, <3>1, <4>1 DEF StoredInv, DateInv
    <3>2. CASE p \notin DOMAIN db
      BY <2>4, <2>7, <2>16, <3>2
    <3> QED BY <3>1, <3>2
  <2>17. NumberInv'
    BY <2>9 DEF StoredInv, NumberInv, Ever
  <2>18. DateInv'
    <3> SUFFICES ASSUME NEW k \in DOMAIN after
                 PROVE  /\ after[k].at \in {"live", "deleted"}
                        /\ k[1] \in {"store", "contact"} => after[k].at = "live"
      BY <2>6 DEF DateInv
    <3>1. CASE k \notin {j, p}
      BY <2>10, <3>1 DEF StoredInv, DateInv
    <3>2. CASE k = j
      BY <2>15, <3>2
    <3>3. CASE k = p
      BY <2>3, <2>16, <3>3
    <3> QED BY <3>1, <3>2, <3>3
  <2>19. KeysHold(db, DOMAIN db)'
    BY <2>4, <2>6, <2>10, <2>12, KeysStay DEF StoredInv, Accepts
  <2>20. OwnerIn(owner)'
    <3>1. OwnerIn(owner)
      BY DEF StoredInv
    <3>2. \A i \in DOMAIN owner : i # j => owner[i] # p /\ i # p
      BY <2>2, <2>3, <3>1, OwnersAre DEF OwnerIn, Ever
    <3>3. \A i \in DOMAIN owner : owner[i] # j
      BY <2>3, <3>1, OwnersAre DEF OwnerIn
    <3>4. \A i \in DOMAIN owner : i \in DOMAIN after <=> owner[i] \in DOMAIN after
      <4> SUFFICES ASSUME NEW i \in DOMAIN owner
                   PROVE  i \in DOMAIN after <=> owner[i] \in DOMAIN after
        OBVIOUS
      <4>1. CASE i = j
        BY <2>2, <2>12, <4>1
      <4>2. CASE i # j
        <5>1. owner[i] \notin {j, p} /\ i \notin {j, p}
          BY <3>2, <3>3, <4>2
        <5>2. /\ i \in DOMAIN after <=> i \in DOMAIN db
              /\ owner[i] \in DOMAIN after <=> owner[i] \in DOMAIN db
          BY <2>10, <2>12, <5>1
        <5> QED BY <3>1, <5>2 DEF OwnerIn
      <4> QED BY <4>1, <4>2
    <3>5. ASSUME NEW i \in DOMAIN owner, i \in DOMAIN after, NEW s \in Owners
          PROVE  after[i][s] = IF s = owner[i][1] THEN owner[i][2] ELSE Null
      <4>1. CASE i = j
        BY <2>2, <2>15, <3>5, <4>1
      <4>2. CASE i # j
        BY <2>10, <3>1, <3>2, <3>5, <4>2 DEF OwnerIn
      <4> QED BY <4>1, <4>2
    <3>6. \A k \in DOMAIN after : k[1] \in Owners => \E i \in DOMAIN owner : owner[i] = k
      BY <2>2, <2>3, <2>10, <3>1, OwnersAre DEF OwnerIn
    <3> QED BY <2>6, <2>9, <3>1, <3>4, <3>5, <3>6 DEF OwnerIn, Ever
  <2>21. \A k \in DOMAIN db' \ DOMAIN rows : k \in DOMAIN db /\ db'[k] = db[k] /\ hist'[k] = hist[k]
    <3>1. DOMAIN db \subseteq DOMAIN hist
      BY DEF ColumnInv
    <3> QED BY <2>4, <2>6, <2>9, <2>10, <3>1
  <2> QED BY <2>17, <2>18, <2>19, <2>20, <2>21 DEF StoredInv, rows
<1> QED BY <1>1, <1>2

-----------------------------------------------------------------------------
(* The invariant, and what a step of a request does to it.                 *)

\* The steps at which a request holds the address and number of a user it
\* found that nobody has.
Forming == {"signup.name", "user.insert"}

OfUser(rows, j) == j \in DOMAIN rows /\ j[1] = "contact" /\ rows[j].user # Null
FreeBy(r) ==
    \A j \in DOMAIN db : OfUser(db, j) =>
       \/ hist[j]["email"].writer \in met[r]
       \/ db[j].email # mem[r].dto.email /\ db[j].mobile # mem[r].dto.mobile

\* ContactTwiceOnlyByOverlap, with the requests named.
TwiceInv ==
    \A i, j \in DOMAIN db :
       (/\ OfUser(db, i) /\ OfUser(db, j) /\ i # j
        /\ db[i].email = db[j].email \/ db[i].mobile = db[j].mobile)
          => /\ hist[j]["email"].writer \in Request
             /\ hist[i]["email"].writer \in met[hist[j]["email"].writer]

RestInv ==
    /\ area \in Area
    /\ \A r \in Request : step[r] \in {"idle"} \cup Ended => mem[r] = NoMem
    /\ faults \in 0..MaxFaults

ContactInv ==
    /\ RestInv /\ PeopleSaveInv /\ TwiceInv
    /\ \A r \in Request : step[r] \in Forming => FreeBy(r)
    /\ \E owner : StoredInv(owner) /\ HeldInv(owner)

\* Contact information of users is as it was, but for a row inserted.
UsersKept ==
    \A j \in DOMAIN db' : OfUser(db', j) => /\ j \in DOMAIN db
                                            /\ db'[j] = db[j] /\ hist'[j] = hist[j]
NewUser(r) ==
    \E n :
       /\ \A j \in DOMAIN db' : (OfUser(db', j) /\ j # n) =>
             j \in DOMAIN db /\ db'[j] = db[j] /\ hist'[j] = hist[j]
       /\ hist'[n]["email"].writer = r
       /\ db'[n].email = mem[r].dto.email /\ db'[n].mobile = mem[r].dto.mobile

Extends(new, owner) ==
    DOMAIN owner \subseteq DOMAIN new /\ \A j \in DOMAIN owner : new[j] = owner[j]

Effect(owner, r) ==
    /\ PeopleSaveInv' /\ \E s : Moves(r, s)
    /\ \E new : StoredInv(new)' /\ Extends(new, owner)
                /\ (step'[r] \in Saving => HeldBy(new, r)')
    /\ UsersKept \/ (step[r] = "user.insert" /\ NewUser(r))
    /\ step'[r] \in Forming => FreeBy(r)'
    /\ step'[r] \in {"idle"} \cup Ended => mem'[r] = NoMem
    /\ faults' \in 0..MaxFaults

\* Other requests hold what they held.
LEMMA HeldStays ==
    ASSUME NEW owner, NEW new, Extends(new, owner), NEW q, HeldBy(owner, q),
           mem'[q] = mem[q], step'[q] = step[q]
    PROVE  HeldBy(new, q)'
<1>1. PICK j \in DOMAIN owner :
         /\ Edited(owner[j], j, mem[q].rows)
         /\ step[q] = "person.write" => DOMAIN mem[q].dirty \in {{}, {j, owner[j]}}
  BY DEF HeldBy
<1>2. j \in DOMAIN new /\ new[j] = owner[j]
  BY DEF Extends
<1> QED BY <1>1, <1>2 DEF HeldBy, Edited

LEMMA EffectKeeps ==
    ASSUME ContactInv, NEW owner, StoredInv(owner), HeldInv(owner),
           NEW r \in Request, Effect(owner, r), area' = area
    PROVE  ContactInv'
<1>1. PICK s : Moves(r, s)
  BY DEF Effect
<1>2. PICK new : /\ StoredInv(new)' /\ Extends(new, owner)
                 /\ step'[r] \in Saving => HeldBy(new, r)'
  BY DEF Effect
<1>3. /\ MetGrows
      /\ \A q \in Request \ {r} : step'[q] = step[q] /\ mem'[q] = mem[q]
      /\ \A q \in Open' \ {r} : r \in met'[q]
  BY <1>1 DEF Moves, StepsTo
<1>4. RestInv'
  BY <1>3 DEF Effect, RestInv, ContactInv
<1>5. HeldInv(new)'
  <2> SUFFICES ASSUME NEW q \in Request, step'[q] \in Saving
               PROVE  HeldBy(new, q)'
    BY DEF HeldInv
  <2>1. CASE q = r
    BY <1>2, <2>1
  <2>2. CASE q # r
    <3>1. step'[q] = step[q] /\ mem'[q] = mem[q] /\ HeldBy(owner, q)
      BY <1>3, <2>2 DEF HeldInv
    <3> QED BY <1>2, <3>1, HeldStays
  <2> QED BY <2>1, <2>2
<1>6. /\ MetInv /\ MetInv'
      /\ \A q \in Request : met[q] \subseteq met'[q]
  BY <1>3 DEF ContactInv, Effect, PeopleSaveInv, SaveInv, SharedInv, MetGrows
<1>7. ASSUME NEW q \in Request, step'[q] \in Forming
      PROVE  FreeBy(q)'
  <2>1. CASE q = r
    BY <1>7, <2>1 DEF Effect
  <2>2. CASE q # r
    <3>1. step[q] \in Forming /\ mem'[q] = mem[q] /\ FreeBy(q)
      BY <1>3, <1>7, <2>2 DEF ContactInv
    <3>2. q \in Open' \ {r}
      BY <1>7, <2>2 DEF Open, Ended, Forming
    <3>3. r \in met'[q] /\ met[q] \subseteq met'[q]
      BY <1>3, <1>6, <3>2
    <3> SUFFICES ASSUME NEW j \in DOMAIN db', OfUser(db', j)
                 PROVE  \/ hist'[j]["email"].writer \in met'[q]
                        \/ /\ db'[j].email # mem'[q].dto.email
                           /\ db'[j].mobile # mem'[q].dto.mobile
      BY DEF FreeBy
    <3>4. CASE j \in DOMAIN db /\ db'[j] = db[j] /\ hist'[j] = hist[j]
      <4>1. OfUser(db, j)
        BY <3>4 DEF OfUser
      <4> QED BY <3>1, <3>3, <3>4, <4>1 DEF FreeBy
    <3>5. CASE hist'[j]["email"].writer = r
      BY <3>3, <3>5
    <3> QED BY <3>4, <3>5 DEF Effect, UsersKept, NewUser
  <2> QED BY <2>1, <2>2
<1>8. TwiceInv'
  <2>1. ASSUME NEW i \in DOMAIN db', NEW j \in DOMAIN db',
               OfUser(db', i), OfUser(db', j), i # j,
               db'[i].email = db'[j].email \/ db'[i].mobile = db'[j].mobile,
               i \in DOMAIN db /\ db'[i] = db[i] /\ hist'[i] = hist[i],
               j \in DOMAIN db /\ db'[j] = db[j] /\ hist'[j] = hist[j]
        PROVE  /\ hist'[j]["email"].writer \in Request
               /\ hist'[i]["email"].writer \in met'[hist'[j]["email"].writer]
    <3>1. OfUser(db, i) /\ OfUser(db, j)
      BY <2>1 DEF OfUser
    <3>2. /\ hist[j]["email"].writer \in Request
          /\ hist[i]["email"].writer \in met[hist[j]["email"].writer]
      BY <2>1, <3>1 DEF ContactInv, TwiceInv
    <3> QED BY <1>6, <2>1, <3>2
  <2>2. CASE UsersKept
    BY <2>1, <2>2 DEF TwiceInv, UsersKept
  <2>3. CASE step[r] = "user.insert" /\ NewUser(r)
    <3>1. PICK n :
            /\ \A j \in DOMAIN db' : (OfUser(db', j) /\ j # n) =>
                  j \in DOMAIN db /\ db'[j] = db[j] /\ hist'[j] = hist[j]
            /\ hist'[n]["email"].writer = r
            /\ db'[n].email = mem[r].dto.email /\ db'[n].mobile = mem[r].dto.mobile
      BY <2>3 DEF NewUser
    <3>2. ASSUME NEW j \in DOMAIN db', OfUser(db', j), j # n,
                 db'[n].email = db'[j].email \/ db'[n].mobile = db'[j].mobile
          PROVE  LET w == hist'[j]["email"].writer
                 IN  w \in Request /\ w \in met'[r] /\ r \in met'[w]
      <4>1. j \in DOMAIN db /\ db'[j] = db[j] /\ hist'[j] = hist[j]
        BY <3>1, <3>2
      <4>2. OfUser(db, j) /\ FreeBy(r)
        BY <2>3, <3>2, <4>1 DEF OfUser, ContactInv, Forming
      <4>3. hist[j]["email"].writer \in met[r]
        BY <3>1, <3>2, <4>1, <4>2 DEF FreeBy
      <4> QED BY <1>6, <4>1, <4>3 DEF MetInv
    <3> SUFFICES ASSUME NEW i \in DOMAIN db', NEW j \in DOMAIN db',
                        OfUser(db', i), OfUser(db', j), i # j,
                        db'[i].email = db'[j].email \/ db'[i].mobile = db'[j].mobile
                 PROVE  /\ hist'[j]["email"].writer \in Request
                        /\ hist'[i]["email"].writer \in met'[hist'[j]["email"].writer]
      BY DEF TwiceInv
    <3>3. CASE i = n
      BY <3>1, <3>2, <3>3
    <3>4. CASE j = n
      BY <3>1, <3>2, <3>4
    <3>5. CASE i # n /\ j # n
      BY <2>1, <3>1, <3>5
    <3> QED BY <3>3, <3>4, <3>5
  <2> QED BY <2>2, <2>3 DEF Effect
<1> QED BY <1>2, <1>4, <1>5, <1>7, <1>8 DEF ContactInv, Effect

-----------------------------------------------------------------------------
(* What the operations have in common.                                     *)

\* What a request does that ends no edit and forms no user.
LEMMA Plainly ==
    ASSUME NEW owner, NEW new, StoredInv(new)', Extends(new, owner), NEW r \in Request, NEW s,
           PeopleSaveInv', Moves(r, s), s \notin {"idle"} \cup Saving \cup Forming,
           UsersKept \/ (step[r] = "user.insert" /\ NewUser(r)),
           s \in Ended => mem'[r] = NoMem, faults' \in 0..MaxFaults
    PROVE  Effect(owner, r)
<1>1. step'[r] = s
  BY DEF Moves
<1>2. \E t : Moves(r, t)
  OBVIOUS
<1>3. \E n : StoredInv(n)' /\ Extends(n, owner) /\ (step'[r] \in Saving => HeldBy(n, r)')
  BY <1>1
<1> QED BY <1>1, <1>2, <1>3 DEF Effect

\* Tables that are as they were.
LEMMA Untouched ==
    ASSUME ColumnInv(PeopleColumns), UNCHANGED <<db, hist>>
    PROVE  UsersKept
BY DEF UsersKept, OfUser

LEMMA BegunPlainly ==
    ASSUME ContactInv, NEW owner, StoredInv(owner), NEW r \in Request, NEW s, NEW m,
           Begin(r, s, m), UNCHANGED <<db, hist, faults>>,
           s \notin {"idle"} \cup Saving \cup Forming, s \in Ended => m = NoMem
    PROVE  Effect(owner, r)
<1>1. PeopleSaveInv' /\ Moves(r, s) /\ mem'[r] = Memory(m)
  BY BeginReads, PeopleUnderWay DEF ContactInv, PeopleSaveInv, Reading, Writing, Saving
<1>2. Memory(NoMem) = NoMem
  BY DEF Memory, NoMem
<1>3. StoredInv(owner)' /\ UsersKept
  BY StoredSame, Untouched DEF ContactInv, PeopleSaveInv, SaveInv, SharedInv
<1>4. faults' \in 0..MaxFaults
  BY DEF ContactInv, RestInv
<1> QED BY <1>1, <1>2, <1>3, <1>4, Plainly DEF Extends

LEMMA GonePlainly ==
    ASSUME ContactInv, NEW owner, StoredInv(owner), NEW r \in Open, NEW s, NEW m,
           Goto(r, s, m), UNCHANGED <<db, hist>>, faults' \in 0..MaxFaults,
           s \notin {"idle"} \cup Saving \cup Forming
    PROVE  Effect(owner, r)
<1>1. /\ PeopleSaveInv' /\ Moves(r, s)
      /\ s \in Ended => mem'[r] = NoMem
  BY GoReads, PeopleUnderWay DEF ContactInv, PeopleSaveInv, Reading, Writing, Saving
<1>2. StoredInv(owner)' /\ UsersKept
  BY StoredSame, Untouched DEF ContactInv, PeopleSaveInv, SaveInv, SharedInv
<1>3. r \in Request
  BY DEF Open
<1> QED BY <1>1, <1>2, <1>3, Plainly DEF Extends

LEMMA ReadPlainly ==
    ASSUME ContactInv, NEW owner, StoredInv(owner), NEW r \in Open, NEW s, NEW m,
           Reads(r, s, m), s \notin {"idle"} \cup Saving \cup Forming
    PROVE  Effect(owner, r)
<1>1. Goto(r, s, m) /\ UNCHANGED <<db, hist>> /\ faults' \in 0..MaxFaults
  BY DEF Reads, ContactInv, RestInv
<1> QED BY <1>1, GonePlainly

\* A request that ends holds nothing any more.
LEMMA EndedHolds ==
    ASSUME ContactInv, NEW r \in Open, NEW m, Goto(r, "ok", m)
    PROVE  mem'[r] = NoMem
<1>1. r \in Request /\ HoldInv
  BY DEF Open, ContactInv, PeopleSaveInv, SaveInv, SharedInv
<1> QED BY <1>1, GotoSteps DEF Ended

\* At a step in the middle of it, a request is open.
LEMMA AtOpen ==
    ASSUME NEW r \in Request, NEW s, At(r, s), s \notin {"idle", "ok", "error"}
    PROVE  r \in Open
BY DEF At, Open, Ended


-----------------------------------------------------------------------------
(* Users.                                                                  *)

\* Nobody has what was asked for when a request looked.
LEMMA FreeFound ==
    ASSUME ContactInv, NEW owner, StoredInv(owner), NEW r, NEW dto, ContactFree(dto),
           UNCHANGED <<db, hist>>,
           mem'[r].dto.email = dto.email, mem'[r].dto.mobile = dto.mobile
    PROVE  FreeBy(r)'
<1> SUFFICES ASSUME NEW j \in DOMAIN db, OfUser(db, j)
             PROVE  db[j].email # dto.email /\ db[j].mobile # dto.mobile
  BY DEF FreeBy, OfUser
<1>1. j[1] = "contact" /\ j = <<j[1], j[2]>> /\ db[j].at = "live"
  BY DEF OfUser, StoredInv, DateInv, ContactInv, PeopleSaveInv, SaveInv, SharedInv, ColumnInv,
         Schema
<1>2. j[2] \in Live("contact") /\ Row("contact", j[2]) = db[j]
  BY <1>1 DEF Live, Ids, Row
<1> QED BY <1>2 DEF ContactFree

\* A request that takes up what a user asked for, and goes on.
LEMMA BegunForming ==
    ASSUME ContactInv, NEW owner, StoredInv(owner), NEW r \in Request,
           NEW dto \in UserDto, ContactFree(dto), NEW s \in Forming, NEW pass,
           Begin(r, s, [dto |-> Over(dto, [pass |-> pass])]), UNCHANGED <<db, hist, faults>>
    PROVE  Effect(owner, r)
<1> DEFINE m == [dto |-> Over(dto, [pass |-> pass])]
<1>1. PeopleSaveInv' /\ Moves(r, s) /\ mem'[r] = Memory(m)
  BY BeginReads, PeopleUnderWay DEF ContactInv, PeopleSaveInv, Reading, Writing, Forming
<1>2. Memory(m).dto = Over(dto, [pass |-> pass])
  BY DEF Memory, NoMem
<1>3. {"email", "mobile"} \subseteq DOMAIN dto
  BY UserDtoAssumption
<1>4. mem'[r].dto.email = dto.email /\ mem'[r].dto.mobile = dto.mobile
  BY <1>1, <1>2, <1>3 DEF Over
<1>5. FreeBy(r)'
  BY <1>4, FreeFound
<1>6. StoredInv(owner)' /\ UsersKept
  BY StoredSame, Untouched DEF ContactInv, PeopleSaveInv, SaveInv, SharedInv
<1>7. step'[r] = s /\ faults' \in 0..MaxFaults
  BY <1>1 DEF Moves, ContactInv, RestInv
<1>8. \E n : StoredInv(n)' /\ Extends(n, owner) /\ (step'[r] \in Saving => HeldBy(n, r)')
  BY <1>6, <1>7 DEF Extends, Forming, Saving
<1>9. \E t : Moves(r, t)
  BY <1>1
<1> QED BY <1>1, <1>5, <1>6, <1>7, <1>8, <1>9 DEF Effect, Forming, Ended

LEMMA SignupNameEffect ==
    ASSUME ContactInv, NEW owner, StoredInv(owner), NEW r \in Request, SignupName(r)
    PROVE  Effect(owner, r)
<1>1. r \in Open /\ step[r] = "signup.name"
  BY AtOpen DEF SignupName, At
<1>2. CASE Reads(r, "error", <<>>)
  BY <1>1, <1>2, ReadPlainly DEF Saving, Forming
<1>3. CASE Reads(r, "user.insert", <<>>)
  <2>1. Goto(r, "user.insert", <<>>) /\ UNCHANGED <<db, hist, faults>>
    BY <1>3 DEF Reads
  <2>2. PICK m : m = <<>>
    OBVIOUS
  <2>3. PeopleSaveInv' /\ Moves(r, "user.insert") /\ mem'[r] = Over(<<>>, mem[r])
    BY <1>1, <2>1, GoReads, PeopleUnderWay
       DEF ContactInv, PeopleSaveInv, Reading, Writing, Ended
  <2>4. mem'[r].dto = mem[r].dto
    <3>1. DOMAIN NoMem \subseteq DOMAIN mem[r]
      BY DEF ContactInv, PeopleSaveInv, SaveInv, SharedInv, HoldInv
    <3>2. "dto" \in DOMAIN mem[r]
      BY <3>1 DEF NoMem
    <3>3. DOMAIN <<>> = {}
      OBVIOUS
    <3> QED BY <2>3, <3>2, <3>3 DEF Over
  <2>5. FreeBy(r)'
    <3>1. FreeBy(r) /\ met'[r] = met[r]
      BY <1>1, <2>1 DEF ContactInv, Forming, Goto
    <3> QED BY <2>1, <2>4, <3>1 DEF FreeBy, OfUser
  <2>6. StoredInv(owner)' /\ UsersKept
    BY <2>1, StoredSame, Untouched DEF ContactInv, PeopleSaveInv, SaveInv, SharedInv
  <2>7. step'[r] = "user.insert" /\ faults' \in 0..MaxFaults
    BY <2>1, <2>3 DEF Moves, ContactInv, RestInv
  <2>8. \E n : StoredInv(n)' /\ Extends(n, owner) /\ (step'[r] \in Saving => HeldBy(n, r)')
    BY <2>6, <2>7 DEF Extends, Saving
  <2>9. \E t : Moves(r, t)
    BY <2>3
  <2> QED BY <2>3, <2>5, <2>6, <2>7, <2>8, <2>9 DEF Effect, Forming, Ended
<1> QED BY <1>2, <1>3 DEF SignupName

\* The rows of somebody new, and those that were there.
LEMMA NewRows ==
    ASSUME NumberInv, NEW t \in Owners, NEW row, DOMAIN row = PeopleColumns[t],
           NEW email, NEW mobile
    PROVE  Schema(PeopleColumns, WithContact(t, row, email, mobile))
<1> DEFINE p == <<t, NextId(t)>>
           j == <<"contact", NextId("contact")>>
           rows == WithContact(t, row, email, mobile)
<1>1. DOMAIN rows = {p, j} /\ rows[p] = row /\ DOMAIN rows[j] = PeopleColumns["contact"]
  BY WithContactRows
<1>2. p = <<p[1], p[2]>> /\ j = <<j[1], j[2]>> /\ p[1] = t /\ j[1] = "contact"
  OBVIOUS
<1> HIDE DEF rows, p, j
<1>3. Schema(PeopleColumns, rows)
  BY <1>1, <1>2 DEF Schema
<1> QED BY <1>3 DEF rows

\* r inserted the row of somebody of table t and the contact information.
Joined(r, t, email, mobile) ==
    \E p, j :
       /\ p[1] = t
       /\ DOMAIN db' = DOMAIN db \cup {p, j}
       /\ \A k \in DOMAIN db : db'[k] = db[k] /\ hist'[k] = hist[k]
       /\ hist'[j]["email"].writer = r
       /\ db'[j].email = email /\ db'[j].mobile = mobile
       /\ t # "user" => db'[j].user = Null

LEMMA PersonInserted ==
    ASSUME ColumnInv(PeopleColumns), NumberInv, NEW r, NEW t \in Owners, NEW row,
           NEW email, NEW mobile, Inserts(r, WithContact(t, row, email, mobile))
    PROVE  Joined(r, t, email, mobile)
<1> DEFINE p == <<t, NextId(t)>>
           j == <<"contact", NextId("contact")>>
<1>1. PICK rows : rows = WithContact(t, row, email, mobile)
  OBVIOUS
<1>2. /\ DOMAIN rows = {p, j} /\ p \notin DOMAIN hist /\ j \notin DOMAIN hist
      /\ DOMAIN rows[j] = PeopleColumns["contact"]
      /\ rows[j].email = email /\ rows[j].mobile = mobile
      /\ t # "user" => rows[j].user = Null
      /\ p[1] = t
  <2>1. /\ DOMAIN rows = {p, j} /\ p \notin DOMAIN hist /\ j \notin DOMAIN hist
        /\ DOMAIN rows[j] = PeopleColumns["contact"]
        /\ rows[j].email = email /\ rows[j].mobile = mobile
        /\ \A s \in Owners : rows[j][s] = IF s = t THEN p[2] ELSE Null
    BY <1>1, WithContactRows
  <2>2. "user" \in Owners /\ p[1] = t
    BY DEF Owners
  <2> HIDE DEF p, j
  <2> QED BY <2>1, <2>2
<1> HIDE DEF p, j
<1>3. DOMAIN db \subseteq DOMAIN hist
  BY DEF ColumnInv
<1>4. PICK all : /\ all = [k \in DOMAIN rows |-> DOMAIN rows[k]]
                 /\ Record(r, Over(rows, db), rows, all, all)
  BY <1>1 DEF Inserts
<1>5. DOMAIN all = {p, j} /\ all[j] = DOMAIN rows[j]
  BY <1>2, <1>4
<1>6. /\ db' = Over(rows, db)
      /\ \A k \in DOMAIN hist \ {p, j} : hist'[k] = hist[k]
  BY <1>4, <1>5, RecordHist
<1>7. "email" \in DOMAIN rows[j]
  BY <1>2 DEF PeopleColumns
<1>8. hist'[j]["email"] = [val |-> email, by |-> r, writer |-> r]
  <2>1. \A c \in DOMAIN rows[j] : hist'[j][c] =
           [val |-> IF c \in all[j] THEN rows[j][c] ELSE hist[j][c].val,
            by |-> IF c \in all[j] THEN r ELSE hist[j][c].by,
            writer |-> IF c \in all[j] THEN r ELSE hist[j][c].writer]
    BY <1>4, <1>5, RecordRow
  <2>2. hist'[j]["email"] = [val |-> rows[j]["email"], by |-> r, writer |-> r]
    BY <1>5, <1>7, <2>1
  <2> QED BY <1>2, <2>2
<1>9. /\ DOMAIN db' = DOMAIN db \cup {p, j}
      /\ \A k \in DOMAIN db : db'[k] = db[k] /\ hist'[k] = hist[k]
      /\ db'[j] = rows[j]
  BY <1>2, <1>3, <1>6 DEF Over
<1>10. hist'[j]["email"].writer = r
  BY <1>8
<1> QED BY <1>2, <1>9, <1>10 DEF Joined

\* The rows of a user are inserted, or refused.
LEMMA UserInsertEffect ==
    ASSUME ContactInv, NEW owner, StoredInv(owner), NEW r \in Request, UserInsert(r)
    PROVE  Effect(owner, r)
<1> DEFINE given == UserRow(mem[r].dto.username, mem[r].dto.pass, "active")
<1>0. PICK row, email, mobile :
         row = given /\ email = mem[r].dto.email /\ mobile = mem[r].dto.mobile
  OBVIOUS
<1> DEFINE rows == WithContact("user", row, email, mobile)
<1>1. r \in Open /\ step[r] = "user.insert" /\ InsertThen(r, rows, "ok", NoMem)
  BY <1>0, AtOpen DEF UserInsert, At
<1>2. ColumnInv(PeopleColumns) /\ NumberInv
  BY DEF ContactInv, PeopleSaveInv, SaveInv, SharedInv, StoredInv
<1>3. "user" \in Owners /\ DOMAIN row = PeopleColumns["user"] /\ row.at = "live"
  BY <1>0 DEF Owners, UserRow, PeopleColumns
<1>4. CASE Reads(r, "error", NoMem)
  BY <1>1, <1>4, ReadPlainly DEF Saving, Forming
<1>5. CASE Inserts(r, rows) /\ Goto(r, "ok", NoMem)
  <2>1. Schema(PeopleColumns, rows)
    BY <1>2, <1>3, NewRows
  <2>2. ColumnInv(PeopleColumns)' /\ Changes(r)
    BY <1>2, <1>5, <2>1, InsertsChange
  <2>3. PeopleSaveInv' /\ Moves(r, "ok")
    BY <1>1, <1>5, <2>2, GoStep, PeopleUnderWay DEF ContactInv, PeopleSaveInv, Reading, Writing
  <2>4. PICK new : StoredInv(new)' /\ Extends(new, owner)
    BY <1>2, <1>3, <1>5, StoredInserts DEF Extends
  <2>5. PICK p, j :
           /\ p[1] = "user"
           /\ DOMAIN db' = DOMAIN db \cup {p, j}
           /\ \A k \in DOMAIN db : db'[k] = db[k] /\ hist'[k] = hist[k]
           /\ hist'[j]["email"].writer = r
           /\ db'[j].email = email /\ db'[j].mobile = mobile
           /\ "user" # "user" => db'[j].user = Null
    <3>1. Joined(r, "user", email, mobile)
      BY <1>2, <1>3, <1>5, PersonInserted
    <3> QED BY <3>1 DEF Joined
  <2>6. \A k \in DOMAIN db' : (OfUser(db', k) /\ k # j) =>
           k \in DOMAIN db /\ db'[k] = db[k] /\ hist'[k] = hist[k]
    BY <2>5 DEF OfUser
  <2>7. NewUser(r)
    BY <1>0, <2>5, <2>6 DEF NewUser
  <2>8. mem'[r] = NoMem
    BY <1>1, <1>5, EndedHolds
  <2>9. faults' \in 0..MaxFaults
    BY <1>5 DEF Inserts, Record, ContactInv, RestInv
  <2> QED BY <1>1, <2>3, <2>4, <2>7, <2>8, <2>9, Plainly DEF Saving, Forming
<1> QED BY <1>1, <1>4, <1>5 DEF InsertThen

\* So are the rows of a customer or a supplier.
LEMMA InsertPersonEffect ==
    ASSUME ContactInv, NEW owner, StoredInv(owner), NEW r \in Request,
           NEW t \in {"customer", "supplier"}, NEW row, NEW mobile,
           DOMAIN row = PeopleColumns[t], row.at = "live", InsertPerson(r, t, row, mobile)
    PROVE  Effect(owner, r)
<1> DEFINE email == mem[r].dto.email
           rows == WithContact(t, row, email, mobile)
<1>1. r \in Open /\ InsertThen(r, rows, "ok", NoMem)
  BY AtOpen DEF InsertPerson
<1>2. ColumnInv(PeopleColumns) /\ NumberInv
  BY DEF ContactInv, PeopleSaveInv, SaveInv, SharedInv, StoredInv
<1>3. t \in Owners /\ t # "user" /\ t # "contact"
  BY DEF Owners
<1> HIDE DEF email
<1>4. CASE Reads(r, "error", NoMem)
  BY <1>1, <1>4, ReadPlainly DEF Saving, Forming
<1>5. CASE Inserts(r, rows) /\ Goto(r, "ok", NoMem)
  <2>1. Schema(PeopleColumns, rows)
    BY <1>2, <1>3, NewRows
  <2>2. ColumnInv(PeopleColumns)' /\ Changes(r)
    BY <1>2, <1>5, <2>1, InsertsChange
  <2>3. PeopleSaveInv' /\ Moves(r, "ok")
    BY <1>1, <1>5, <2>2, GoStep, PeopleUnderWay DEF ContactInv, PeopleSaveInv, Reading, Writing
  <2>4. PICK new : StoredInv(new)' /\ Extends(new, owner)
    BY <1>2, <1>3, <1>5, StoredInserts DEF Extends
  <2>5. PICK p, j :
           /\ p[1] = t
           /\ DOMAIN db' = DOMAIN db \cup {p, j}
           /\ \A k \in DOMAIN db : db'[k] = db[k] /\ hist'[k] = hist[k]
           /\ hist'[j]["email"].writer = r
           /\ db'[j].email = email /\ db'[j].mobile = mobile
           /\ t # "user" => db'[j].user = Null
    <3>1. Joined(r, t, email, mobile)
      BY <1>2, <1>3, <1>5, PersonInserted
    <3> QED BY <3>1 DEF Joined
  <2>6. UsersKept
    BY <1>3, <2>5 DEF OfUser, UsersKept
  <2>7. mem'[r] = NoMem
    BY <1>1, <1>5, EndedHolds
  <2>8. faults' \in 0..MaxFaults
    BY <1>5 DEF Inserts, Record, ContactInv, RestInv
  <2> QED BY <2>3, <2>4, <2>6, <2>7, <2>8, Plainly DEF Saving, Forming
<1> QED BY <1>1, <1>4, <1>5 DEF InsertThen

\* Users and suppliers are removed by their keys.
LEMMA RemovedEffect ==
    ASSUME ContactInv, NEW owner, StoredInv(owner), NEW r \in Open, NEW t \in Owners,
           NEW ids, ids \subseteq Ids(t), RemoveThen(r, {t} \X ids, "ok", NoMem)
    PROVE  Effect(owner, r)
<1> DEFINE keys == {t} \X ids
<1>1. ColumnInv(PeopleColumns) /\ r \in Request
  BY DEF ContactInv, PeopleSaveInv, SaveInv, SharedInv, Open
<1>2. keys \in SUBSET DOMAIN db /\ \A k \in keys : k[1] = t
  BY <1>1, IdsKeys
<1> HIDE DEF keys
<1>3. CASE Reads(r, "error", NoMem)
  BY <1>3, ReadPlainly DEF Saving, Forming
<1>4. CASE Removes(r, keys) /\ Goto(r, "ok", NoMem)
  <2>1. ColumnInv(PeopleColumns)' /\ Changes(r)
    BY <1>1, <1>2, <1>4, RemovesChange
  <2>2. PeopleSaveInv' /\ Moves(r, "ok")
    BY <1>4, <2>1, GoStep, PeopleUnderWay DEF ContactInv, PeopleSaveInv, Reading, Writing
  <2>3. StoredInv(owner)'
    BY <1>1, <1>2, <1>4, StoredRemoves
  <2>4. PICK gone : /\ gone = Removal(keys) /\ db' = Only(db, DOMAIN db \ gone)
                    /\ \A k \in DOMAIN hist \ gone : hist'[k] = hist[k]
    <3>1. PICK gone, values, sets :
            /\ gone = Removal(keys) /\ DOMAIN sets = gone
            /\ Record(r, Only(db, DOMAIN db \ gone), values, sets, sets)
      BY <1>4 DEF Removes
    <3>2. \A k \in DOMAIN hist \ DOMAIN sets : hist'[k] = hist[k]
      BY <3>1, RecordHist
    <3> QED BY <3>1, <3>2 DEF Record
  <2>5. DOMAIN db \subseteq DOMAIN hist
    BY <1>1 DEF ColumnInv
  <2>6. UsersKept
    BY <2>4, <2>5 DEF UsersKept, OfUser, Only
  <2>7. mem'[r] = NoMem
    BY <1>4, EndedHolds
  <2>8. faults' \in 0..MaxFaults
    BY <1>4 DEF Removes, Record, ContactInv, RestInv
  <2> QED BY <1>1, <2>2, <2>3, <2>6, <2>7, <2>8, Plainly DEF Saving, Forming, Extends
<1> QED BY <1>3, <1>4 DEF RemoveThen, keys

\* Customers are marked as deleted.
LEMMA MarkedEffect ==
    ASSUME ContactInv, NEW owner, StoredInv(owner), NEW r \in Request, DeleteCustomersMark(r)
    PROVE  Effect(owner, r)
<1> DEFINE keys == {"customer"} \X mem[r].dto
<1>1. ColumnInv(PeopleColumns)
  BY DEF ContactInv, PeopleSaveInv, SaveInv, SharedInv
<1>2. r \in Open /\ Updates(r, keys, Deleted) /\ Goto(r, "ok", NoMem)
  BY AtOpen DEF DeleteCustomersMark
<1>3. \A k \in keys : k[1] = "customer" /\ DOMAIN Deleted \subseteq PeopleColumns[k[1]]
  BY DEF Deleted, PeopleColumns
<1>4. StoredInv(owner)'
  BY <1>1, <1>2, StoredUpdates
<1> HIDE DEF keys
<1>5. ColumnInv(PeopleColumns)' /\ Changes(r)
  BY <1>1, <1>2, <1>3, UpdatesChange
<1>6. PeopleSaveInv' /\ Moves(r, "ok")
  BY <1>2, <1>5, GoStep, PeopleUnderWay DEF ContactInv, PeopleSaveInv, Reading, Writing
<1>7. /\ DOMAIN db' = DOMAIN db
      /\ \A k \in DOMAIN db \ keys : db'[k] = db[k]
  BY <1>2, UpdatedRows
<1>8. \A k \in DOMAIN hist \ keys : hist'[k] = hist[k]
  <2>1. PICK rows, values, sets :
           DOMAIN sets = keys \cap DOMAIN db /\ Record(r, rows, values, sets, sets)
    BY <1>2 DEF Updates
  <2>2. \A k \in DOMAIN hist \ DOMAIN sets : hist'[k] = hist[k]
    BY <2>1, RecordHist
  <2> QED BY <2>1, <2>2
<1>9. UsersKept
  <2>1. DOMAIN db \subseteq DOMAIN hist
    BY <1>1 DEF ColumnInv
  <2> QED BY <1>3, <1>7, <1>8, <2>1 DEF UsersKept, OfUser
<1>10. mem'[r] = NoMem
  BY <1>2, EndedHolds
<1>11. faults' \in 0..MaxFaults
  BY <1>2 DEF Updates, Record, ContactInv, RestInv
<1> QED BY <1>4, <1>6, <1>9, <1>10, <1>11, Plainly DEF Saving, Forming, Extends

-----------------------------------------------------------------------------
(* Edits of customers and suppliers.                                       *)

\* What an edit finds is a person and its contact information.
LEMMA Found ==
    ASSUME ColumnInv(PeopleColumns), NEW owner, StoredInv(owner),
           NEW t \in {"customer", "supplier"}, NEW i \in Live(t)
    PROVE  LET p == <<t, i>>
               j == <<"contact", ContactOf(t, i)>>
           IN  /\ p \in DOMAIN db /\ j \in DOMAIN db /\ db[j].at = "live"
               /\ j \in DOMAIN owner /\ owner[j] = p
               /\ db[j][t] = i
<1> DEFINE p == <<t, i>>
           Is(c) == c \in Ids("contact") /\ Row("contact", c)[t] = i
<1>1. OwnerIn(owner) /\ DateInv /\ NumberInv
  BY DEF StoredInv
<1>2. p \in DOMAIN db /\ p[1] = t /\ p[2] = i /\ t \in Owners /\ t \in DOMAIN PeopleColumns
  BY LiveKey, OwnersAre DEF Owners
<1>3. PICK j \in DOMAIN owner : owner[j] = p
  BY <1>1, <1>2 DEF OwnerIn
<1>4. j \in DOMAIN db /\ j[1] = "contact" /\ j = <<j[1], j[2]>> /\ db[j][t] = i
  BY <1>1, <1>2, <1>3 DEF OwnerIn, Ever, ColumnInv, Schema
<1>5. Is(j[2])
  BY <1>4 DEF Ids, Row
<1>6. PICK c : c = ContactOf(t, i)
  OBVIOUS
<1>7. Is(c)
  BY <1>5, <1>6 DEF ContactOf
<1> DEFINE k == <<"contact", c>>
<1>8. k \in DOMAIN db /\ k[1] = "contact" /\ db[k][t] = i
  BY <1>7 DEF Ids, Row, ColumnInv, Schema
<1> HIDE DEF k, p
<1>9. k \in DOMAIN owner /\ db[k].at = "live"
  BY <1>1, <1>8 DEF OwnerIn, Ever, ColumnInv, DateInv
<1>10. i # Null
  <2>1. p \in DOMAIN hist
    BY <1>2 DEF ColumnInv
  <2> QED BY <1>1, <1>2, <2>1, Numbered
<1>11. t = owner[k][1] /\ i = owner[k][2]
  BY <1>1, <1>2, <1>8, <1>9, <1>10 DEF OwnerIn
<1>12. owner[k] = <<owner[k][1], owner[k][2]>>
  BY <1>1, <1>2, <1>9, <1>11, Numbered DEF OwnerIn
<1>13. owner[k] = p
  BY <1>11, <1>12 DEF p
<1> QED BY <1>2, <1>6, <1>8, <1>9, <1>13 DEF k, p

\* What an edit holds of a row that it read.
LEMMA EditKnows ==
    ASSUME ColumnInv(PeopleColumns), NEW r, NEW k \in DOMAIN db, NEW loaded, NEW values, NEW meant,
           loaded \subseteq PeopleColumns[k[1]],
           PeopleColumns[k[1]] \ loaded \subseteq ForeignColumns(k),
           DOMAIN values \subseteq PeopleColumns[k[1]], DOMAIN values \subseteq meant
    PROVE  LET row == Assigned(Only(db[k], loaded), values)
           IN  Fits(PeopleColumns, k, row) /\ Fresh(r, k, row, meant)
<1>1. k = <<k[1], k[2]>>
  BY DEF ColumnInv, Schema
<1>2. PICK row : row = Only(db[k], loaded)
  OBVIOUS
<1>3. PICK C : C = PeopleColumns
  OBVIOUS
<1>4. Fits(C, k, row)
  BY <1>1, <1>2, <1>3, LoadedFits
<1>5. Fits(C, k, Assigned(row, values))
  BY <1>3, <1>4, AssignedFits
<1>6. \A c \in DOMAIN row \ {} : row[c] = db[k][c]
  BY <1>2 DEF Only
<1>7. Fresh(r, k, row, {})
  BY <1>6, ReadFresh
<1>8. Fresh(r, k, Assigned(row, values), meant)
  BY <1>7, AssignedFresh
<1> QED BY <1>2, <1>3, <1>5, <1>8

LEMMA EditPersonEffect ==
    ASSUME ContactInv, NEW owner, StoredInv(owner), NEW r \in Request,
           NEW t \in {"customer", "supplier"}, NEW columns, EditPerson(r, t, columns)
    PROVE  Effect(owner, r)
<1> DEFINE C == PeopleColumns
<1>1. ColumnInv(C)
  BY DEF ContactInv, PeopleSaveInv, SaveInv, SharedInv
<1>2. PICK i \in Live(t), dto \in PersonEdit :
         LET values == Part(dto, columns)
         IN  /\ Begin(r, "person.reload", Save(EditedHeld(t, i, values), DOMAIN values))
             /\ UNCHANGED <<db, hist, faults>>
  BY DEF EditPerson
<1>3. PICK values : values = Part(dto, columns)
  OBVIOUS
<1>4. PICK j : j = <<"contact", ContactOf(t, i)>>
  OBVIOUS
<1>5. PICK p : p = <<t, i>>
  OBVIOUS
<1>6. /\ p \in DOMAIN db /\ j \in DOMAIN db /\ db[j].at = "live"
      /\ j \in DOMAIN owner /\ owner[j] = p
      /\ db[j][t] = i /\ p[1] = t /\ p[2] = i /\ j[1] = "contact"
  BY <1>1, <1>4, <1>5, Found
<1>7. PICK mine : mine = Part(values, {"store", "text"})
  OBVIOUS
<1>8. PICK theirs : theirs = Part(values, {"email", "mobile"})
  OBVIOUS
<1>9. /\ DOMAIN mine \subseteq DOMAIN values \cap {"store", "text"}
      /\ DOMAIN theirs \subseteq DOMAIN values \cap {"email", "mobile"}
  BY <1>7, <1>8 DEF Part, Only
<1>10. PICK held : held = Assigned(Only(db[p], {"at", "text"}), mine)
  OBVIOUS
<1>11. PICK contact : contact = Assigned(Only(db[j], {"at", "email", "mobile", t}), theirs)
  OBVIOUS
<1>12. PICK rows : rows = EditedHeld(t, i, values)
  OBVIOUS
<1>13. DOMAIN rows = {p, j} /\ rows[p] = held /\ rows[j] = contact
  <2>1. HeldPerson(t, i, mine) = held /\ HeldContact(t, ContactOf(t, i), theirs) = contact
    BY <1>4, <1>5, <1>10, <1>11 DEF HeldPerson, HeldContact, Row
  <2>2. rows = Over(Single(p, held), Single(j, contact))
    BY <1>4, <1>5, <1>7, <1>8, <1>12, <2>1 DEF EditedHeld
  <2>3. p # j
    BY <1>6
  <2> QED BY <2>2, <2>3 DEF Over, Single
<1>14. Edited(p, j, rows)
  <2>1. DOMAIN contact = {"at", "email", "mobile", t}
    BY <1>9, <1>11 DEF Assigned, Over, Only
  <2>2. contact.at = "live" /\ contact[t] = i
    BY <1>6, <1>9, <1>11 DEF Assigned, Over, Only
  <2>3. "at" \in DOMAIN held /\ held.at = db[p].at
    BY <1>9, <1>10 DEF Assigned, Over, Only
  <2>4. db[p].at \in {"live", "deleted"}
    BY <1>6 DEF StoredInv, DateInv
  <2> QED BY <1>6, <1>13, <2>1, <2>2, <2>3, <2>4 DEF Edited
<1>15. Knows(C, r, rows, DOMAIN values)
  <2>1. Fits(C, p, held) /\ Fresh(r, p, held, DOMAIN values)
    <3>1. /\ {"at", "text"} \subseteq C[p[1]] /\ C[p[1]] \ {"at", "text"} = {"store"}
          /\ {"store", "text"} \subseteq C[p[1]]
      BY <1>6 DEF PeopleColumns
    <3>2. ForeignColumns(p) = {"store"}
      BY <1>6, ForeignOf
    <3> QED BY <1>1, <1>6, <1>9, <1>10, <3>1, <3>2, EditKnows
  <2>2. Fits(C, j, contact) /\ Fresh(r, j, contact, DOMAIN values)
    <3>1. /\ {"at", "email", "mobile", t} \subseteq C[j[1]]
          /\ C[j[1]] \ {"at", "email", "mobile", t} \subseteq Owners
      BY <1>6 DEF PeopleColumns, Owners
    <3>2. ForeignColumns(j) = Owners
      BY <1>6, ForeignOf
    <3> QED BY <1>1, <1>6, <1>9, <1>11, <3>1, <3>2, EditKnows
  <2> QED BY <1>13, <2>1, <2>2 DEF Knows
<1> DEFINE m == Save(rows, DOMAIN values)
<1>16. Memory(m).rows = rows /\ Memory(m).meant = DOMAIN values
  BY DEF Save, Memory, NoMem
<1>17. Begin(r, "person.reload", m) /\ UNCHANGED <<db, hist, faults>>
  BY <1>2, <1>3, <1>12
<1> HIDE DEF m
<1>18. PeopleSaveInv' /\ Moves(r, "person.reload") /\ mem'[r] = Memory(m)
  BY <1>15, <1>16, <1>17, BeginSaves, PeopleUnderWay DEF ContactInv, PeopleSaveInv, Reading
<1>19. step'[r] = "person.reload" /\ mem'[r].rows = rows /\ faults' \in 0..MaxFaults
  BY <1>16, <1>17, <1>18 DEF Moves, ContactInv, RestInv
<1>20. StoredInv(owner)' /\ UsersKept
  BY <1>1, <1>17, StoredSame, Untouched
<1>21. HeldBy(owner, r)'
  BY <1>6, <1>14, <1>19 DEF HeldBy
<1>22. \E new : StoredInv(new)' /\ Extends(new, owner) /\ (step'[r] \in Saving => HeldBy(new, r)')
  BY <1>20, <1>21 DEF Extends
<1>23. \E s : Moves(r, s)
  BY <1>18
<1> QED BY <1>18, <1>19, <1>20, <1>22, <1>23 DEF Effect, Forming, Ended

LEMMA PersonReloadEffect ==
    ASSUME ContactInv, NEW owner, StoredInv(owner), HeldInv(owner), NEW r \in Request,
           PersonReload(r)
    PROVE  Effect(owner, r)
<1>1. step[r] = "person.reload" /\ Reload(r, "person.write")
  BY DEF PersonReload, At
<1>2. UNCHANGED <<db, hist, faults>>
  BY <1>1 DEF Reload, Reads
<1>3. PICK m : m = [dirty |-> DirtyOf(mem[r].rows)]
  OBVIOUS
<1>4. PeopleSaveInv' /\ Moves(r, "person.write") /\ mem'[r] = Over(m, mem[r])
  BY <1>1, <1>3, ReloadStep, PeopleUnderWay DEF ContactInv, PeopleSaveInv, Reading, Writing
<1>5. PICK j \in DOMAIN owner : Edited(owner[j], j, mem[r].rows)
  BY <1>1 DEF HeldInv, HeldBy, Saving
<1>6. mem'[r].rows = mem[r].rows /\ mem'[r].dirty = DirtyOf(mem[r].rows)
  <2>1. DOMAIN NoMem \subseteq DOMAIN mem[r]
    BY DEF ContactInv, PeopleSaveInv, SaveInv, SharedInv, HoldInv
  <2>2. {"rows", "dirty"} \subseteq DOMAIN mem[r]
    BY <2>1 DEF NoMem
  <2> QED BY <1>3, <1>4, <2>2 DEF Over
<1>7. DOMAIN mem'[r].dirty = DOMAIN mem[r].rows \cap DOMAIN db
  BY <1>6 DEF DirtyOf
<1>8. DOMAIN mem'[r].dirty \in {{}, {j, owner[j]}}
  <2>1. DOMAIN mem[r].rows = {j, owner[j]}
    BY <1>5 DEF Edited
  <2>2. j \in DOMAIN db <=> owner[j] \in DOMAIN db
    BY DEF StoredInv, OwnerIn
  <2> QED BY <1>7, <2>1, <2>2
<1>9. HeldBy(owner, r)'
  BY <1>5, <1>6, <1>8 DEF HeldBy
<1>10. StoredInv(owner)' /\ UsersKept
  BY <1>2, StoredSame, Untouched DEF ContactInv, PeopleSaveInv, SaveInv, SharedInv
<1>11. \E new : StoredInv(new)' /\ Extends(new, owner) /\ (step'[r] \in Saving => HeldBy(new, r)')
  BY <1>9, <1>10 DEF Extends
<1>12. step'[r] = "person.write" /\ faults' \in 0..MaxFaults
  BY <1>2, <1>4 DEF Moves, ContactInv, RestInv
<1>13. \E s : Moves(r, s)
  BY <1>4
<1> QED BY <1>4, <1>10, <1>11, <1>12, <1>13 DEF Effect, Forming, Ended

LEMMA PersonWriteEffect ==
    ASSUME ContactInv, NEW owner, StoredInv(owner), HeldInv(owner), NEW r \in Request,
           PersonWrite(r)
    PROVE  Effect(owner, r)
<1>1. step[r] = "person.write" /\ Write(r, "ok", NoMem)
  BY DEF PersonWrite, At
<1>2. HeldBy(owner, r)
  BY <1>1 DEF HeldInv, Saving
<1>3. ColumnInv(PeopleColumns) /\ Compared(PeopleColumns, r)
  BY <1>1 DEF ContactInv, PeopleSaveInv, SaveInv, SharedInv, Keeps, Writing
<1>4. /\ StoredInv(owner)'
      /\ \A k \in DOMAIN db' \ DOMAIN mem[r].rows :
            k \in DOMAIN db /\ db'[k] = db[k] /\ hist'[k] = hist[k]
  BY <1>1, <1>2, <1>3, StoredWrites
<1>5. PICK s \in {"ok", "error"} : PeopleSaveInv' /\ Moves(r, s)
  <2>1. /\ step[r] \in Writing
        /\ "ok" \notin {"idle"} \cup Reading \cup Writing
    BY <1>1 DEF Reading, Writing
  <2>2. PICK C : C = PeopleColumns
    OBVIOUS
  <2>3. \A f \in References : f.column \in C[f.table]
    BY <2>2, ForeignKeys
  <2>4. SaveInv(C, Reading, Writing)
    BY <2>2 DEF ContactInv, PeopleSaveInv
  <2>5. SaveInv(C, Reading, Writing)' /\ (Moves(r, "ok") \/ Moves(r, "error"))
    BY <1>1, <2>1, <2>3, <2>4, WriteStep, PeopleUnderWay
  <2> QED BY <2>2, <2>5 DEF PeopleSaveInv
<1>6. mem'[r] = NoMem /\ faults' = faults
  <2>1. (Goto(r, "ok", NoMem) \/ Goto(r, "error", NoMem)) /\ faults' = faults
    BY <1>1 DEF Write, Reads, Record
  <2>2. DOMAIN mem = Request
    BY DEF ContactInv, PeopleSaveInv, SaveInv, SharedInv, HoldInv
  <2> QED BY <2>1, <2>2 DEF Goto, Ended
<1>7. UsersKept
  <2> SUFFICES ASSUME NEW k \in DOMAIN db', OfUser(db', k)
               PROVE  k \in DOMAIN db /\ db'[k] = db[k] /\ hist'[k] = hist[k]
    BY DEF UsersKept
  <2>1. PICK j \in DOMAIN owner : Edited(owner[j], j, mem[r].rows)
    BY <1>2 DEF HeldBy
  <2>2. CASE k \notin DOMAIN mem[r].rows
    BY <1>4, <2>2
  <2>3. CASE k = owner[j]
    BY <2>1, <2>3 DEF OfUser, Edited
  <2>4. CASE k = j
    <3>1. \A u \in Owners : db'[j][u] = IF u = owner[j][1] THEN owner[j][2] ELSE Null
      BY <1>4, <2>4 DEF StoredInv, OwnerIn
    <3>2. db'[j].user = Null
      BY <2>1, <3>1 DEF Edited, Owners
    <3> QED BY <2>4, <3>2 DEF OfUser
  <2> QED BY <2>1, <2>2, <2>3, <2>4 DEF Edited
<1>8. faults' \in 0..MaxFaults
  BY <1>6 DEF ContactInv, RestInv
<1> QED BY <1>4, <1>5, <1>6, <1>7, <1>8, Plainly DEF Saving, Forming, Extends

-----------------------------------------------------------------------------
(* Every operation, and the invariant.                                     *)

LEMMA UserEffect ==
    ASSUME ContactInv, NEW owner, StoredInv(owner), NEW r \in Request,
           UserOperation(r)
    PROVE  Effect(owner, r)
<1>1. CASE Signup(r) \/ AddUser(r)
  <2>1. PICK dto, s, pass :
          /\ dto \in UserDto /\ s \in Forming /\ ContactFree(dto)
          /\ Begin(r, s, [dto |-> Over(dto, [pass |-> pass])])
          /\ UNCHANGED <<db, hist, faults>>
    BY <1>1 DEF Signup, AddUser, Forming
  <2> QED BY <2>1, BegunForming
<1>2. CASE UpdateUser(r)
  <2>1. Begin(r, "error", NoMem) /\ UNCHANGED <<db, hist, faults>>
    BY <1>2 DEF UpdateUser
  <2> QED BY <2>1, BegunPlainly DEF Saving, Forming
<1>3. CASE RemoveUsers(r)
  <2>1. PICK ids : Begin(r, "user.remove", [dto |-> ids]) /\ UNCHANGED <<db, hist, faults>>
    BY <1>3 DEF RemoveUsers
  <2> QED BY <2>1, BegunPlainly DEF Saving, Forming, Ended
<1>4. CASE RemoveUsersDelete(r)
  <2>1. PICK ids : ids = mem[r].dto \cap Ids("user")
    OBVIOUS
  <2>2. RemoveThen(r, {"user"} \X ids, "ok", NoMem) /\ r \in Open
    BY <1>4, <2>1, AtOpen DEF RemoveUsersDelete
  <2>3. ids \subseteq Ids("user") /\ "user" \in Owners
    BY <2>1 DEF Owners
  <2> QED BY <2>2, <2>3, RemovedEffect
<1> QED BY <1>1, <1>2, <1>3, <1>4, SignupNameEffect, UserInsertEffect DEF UserOperation

LEMMA AddPersonEffect ==
    ASSUME ContactInv, NEW owner, StoredInv(owner), NEW r \in Request, NEW t, AddPerson(r, t)
    PROVE  Effect(owner, r)
<1>1. PICK m : Begin(r, "person.insert", m) /\ UNCHANGED <<db, hist, faults>>
  BY DEF AddPerson
<1> QED BY <1>1, BegunPlainly DEF Saving, Forming, Ended

LEMMA CustomerEffect ==
    ASSUME ContactInv, NEW owner, StoredInv(owner), NEW r \in Request, CustomerOperation(r)
    PROVE  Effect(owner, r)
<1>1. CASE AddCustomer(r)
  BY <1>1, AddPersonEffect DEF AddCustomer
<1>2. CASE AddCustomerInsert(r)
  <2>1. PICK row : row = CustomerRow(mem[r].dto.store, "new")
    OBVIOUS
  <2>2. DOMAIN row = PeopleColumns["customer"] /\ row.at = "live"
    BY <2>1 DEF CustomerRow, PeopleColumns
  <2> QED BY <1>2, <2>1, <2>2, InsertPersonEffect DEF AddCustomerInsert
<1>3. CASE EditCustomer(r)
  BY <1>3, EditPersonEffect DEF EditCustomer
<1>4. CASE DeleteCustomers(r)
  <2>1. PICK m : Begin(r, "customer.mark", m) /\ UNCHANGED <<db, hist, faults>>
    BY <1>4 DEF DeleteCustomers
  <2> QED BY <2>1, BegunPlainly DEF Saving, Forming, Ended
<1> QED BY <1>1, <1>2, <1>3, <1>4, MarkedEffect DEF CustomerOperation

LEMMA SupplierEffect ==
    ASSUME ContactInv, NEW owner, StoredInv(owner), NEW r \in Request, SupplierOperation(r)
    PROVE  Effect(owner, r)
<1>1. CASE AddSupplier(r)
  BY <1>1, AddPersonEffect DEF AddSupplier
<1>2. CASE AddSupplierInsert(r)
  <2>1. PICK row, mobile : /\ row = SupplierRow(mem[r].dto.store, "new")
                           /\ mobile = mem[r].dto.mobile
    OBVIOUS
  <2>2. DOMAIN row = PeopleColumns["supplier"] /\ row.at = "live"
    BY <2>1 DEF SupplierRow, PeopleColumns
  <2> QED BY <1>2, <2>1, <2>2, InsertPersonEffect DEF AddSupplierInsert
<1>3. CASE EditSupplier(r)
  BY <1>3, EditPersonEffect DEF EditSupplier
<1>4. CASE RemoveSuppliers(r)
  <2>1. PICK m : Begin(r, "supplier.remove", m) /\ UNCHANGED <<db, hist, faults>>
    BY <1>4 DEF RemoveSuppliers
  <2> QED BY <2>1, BegunPlainly DEF Saving, Forming, Ended
<1>5. CASE RemoveSuppliersDelete(r)
  <2>1. PICK ids : ids = mem[r].dto \cap Ids("supplier")
    OBVIOUS
  <2>2. RemoveThen(r, {"supplier"} \X ids, "ok", NoMem) /\ r \in Open
    BY <1>5, <2>1, AtOpen DEF RemoveSuppliersDelete
  <2>3. ids \subseteq Ids("supplier") /\ "supplier" \in Owners
    BY <2>1 DEF Owners
  <2> QED BY <2>2, <2>3, RemovedEffect
<1> QED BY <1>1, <1>2, <1>3, <1>4, <1>5 DEF SupplierOperation

\* Sessions are no rows.
LEMMA SessionEffect ==
    ASSUME ContactInv, NEW owner, StoredInv(owner), NEW r \in Request, SessionOperation(r)
    PROVE  Effect(owner, r)
<1>1. CASE SignIn(r) \/ Refresh(r) \/ Logout(r)
  <2>1. PICK s \in {"signin.user", "refresh.save", "logout.delete"} :
          \E m : Begin(r, s, m) /\ UNCHANGED <<db, hist, faults>>
    BY <1>1 DEF SignIn, Refresh, Logout, ReadsSession
  <2> QED BY <2>1, BegunPlainly DEF Saving, Forming, Ended
<1>2. CASE SignInUser(r)
  <2>1. PICK s \in {"signin.save", "error"} : Reads(r, s, <<>>)
    BY <1>2 DEF SignInUser
  <2>2. r \in Open
    BY <1>2, AtOpen DEF SignInUser
  <2> QED BY <2>1, <2>2, ReadPlainly DEF Saving, Forming
<1>3. CASE SignInSave(r) \/ RefreshSave(r) \/ LogoutDelete(r)
  <2>1. Reads(r, "ok", NoMem)
    BY <1>3 DEF SignInSave, RefreshSave, LogoutDelete, SetsSession
  <2>2. r \in Open
    BY <1>3, AtOpen DEF SignInSave, RefreshSave, LogoutDelete
  <2> QED BY <2>1, <2>2, ReadPlainly DEF Saving, Forming
<1> QED BY <1>1, <1>2, <1>3 DEF SessionOperation

LEMMA OperationEffect ==
    ASSUME ContactInv, NEW owner, StoredInv(owner), HeldInv(owner), NEW r \in Request, Operation(r)
    PROVE  Effect(owner, r)
<1>1. CASE Fails(r)
  <2>1. /\ r \in Open /\ Goto(r, "error", NoMem) /\ UNCHANGED <<db, hist>>
        /\ faults < MaxFaults /\ faults' = faults + 1
    BY <1>1 DEF Fails, Open
  <2>2. faults' \in 0..MaxFaults
    BY <2>1, BoundAssumption DEF ContactInv, RestInv
  <2> QED BY <2>1, <2>2, GonePlainly DEF Saving, Forming
<1> QED BY <1>1, SessionEffect, UserEffect, CustomerEffect, SupplierEffect,
           PersonReloadEffect, PersonWriteEffect DEF Operation

\* Sessions and their history may change while the tables do not.
LEMMA ContactsSame ==
    ASSUME ContactInv, UNCHANGED <<area, tableVars>>
    PROVE  ContactInv'
<1>1. UNCHANGED <<db, step, mem, faults, met, hist, area>>
  BY DEF tableVars
<1>2. PeopleSaveInv'
  BY <1>1, SameStep DEF ContactInv, PeopleSaveInv
<1>3. RestInv'
  BY <1>1 DEF ContactInv, RestInv
<1>4. TwiceInv'
  BY <1>1 DEF ContactInv, TwiceInv, OfUser
<1>5. ASSUME NEW r \in Request, step'[r] \in Forming
      PROVE  FreeBy(r)'
  BY <1>1, <1>5 DEF ContactInv, FreeBy, OfUser
<1>6. PICK owner : StoredInv(owner) /\ HeldInv(owner)
  BY DEF ContactInv
<1>7. StoredInv(owner)'
  BY <1>1, <1>6, StoredSame
<1>8. HeldInv(owner)'
  BY <1>1, <1>6 DEF HeldInv, HeldBy, Edited
<1> QED BY <1>2, <1>3, <1>4, <1>5, <1>7, <1>8 DEF ContactInv

LEMMA ContactsInductive == ContactInv /\ [Next]_vars => ContactInv'
<1> SUFFICES ASSUME ContactInv, [Next]_vars
             PROVE  ContactInv'
  OBVIOUS
<1>1. CASE UNCHANGED vars
  BY <1>1, ContactsSame DEF vars
<1>2. CASE \E r \in Among[area] : Operation(r) /\ area' = area
  <2>1. PICK r \in Among[area] : Operation(r) /\ area' = area
    BY <1>2
  <2>2. r \in Request
    BY PeopleAssumption DEF ContactInv, RestInv
  <2>3. PICK owner : StoredInv(owner) /\ HeldInv(owner)
    BY DEF ContactInv
  <2> QED BY <2>1, <2>2, <2>3, OperationEffect, EffectKeeps
<1>3. CASE (Expires \/ Finished) /\ area' = area
  BY <1>3, ContactsSame DEF Expires, Finished
<1> QED BY <1>1, <1>2, <1>3 DEF Next

-----------------------------------------------------------------------------
(* At first.                                                               *)

\* The person of each row of contact information found at first.
PersonOf(rows, j) ==
    LET t == CHOOSE s \in Owners : rows[j][s] # Null
    IN  <<t, rows[j][t]>>

LEMMA OwnerFirst ==
    ASSUME NumberInv, KeysHold(db, DOMAIN db), OneContactIn(db), DOMAIN hist = DOMAIN db,
           NEW owner, owner = [j \in Ever("contact") |-> PersonOf(db, j)]
    PROVE  OwnerIn(owner)
<1>1. DOMAIN owner = Ever("contact") /\ Ever("contact") = {j \in DOMAIN db : j[1] = "contact"}
  BY DEF Ever
<1>2. ASSUME NEW j \in DOMAIN owner
      PROVE  /\ owner[j] = <<owner[j][1], owner[j][2]>>
             /\ owner[j][1] \in Owners /\ owner[j] \in DOMAIN db
             /\ \A s \in Owners : db[j][s] = IF s = owner[j][1] THEN owner[j][2] ELSE Null
             /\ db[j][owner[j][1]] = owner[j][2]
  <2>1. PICK t \in Owners : {s \in Owners : db[j][s] # Null} = {t}
    BY <1>1 DEF OneContactIn
  <2>2. PICK u : u = CHOOSE s \in Owners : db[j][s] # Null
    OBVIOUS
  <2>3. u \in Owners /\ db[j][u] # Null
    BY <2>1, <2>2
  <2>4. u = t
    BY <2>1, <2>3
  <2>5. owner[j] = <<t, db[j][t]>>
    BY <2>2, <2>4 DEF PersonOf
  <2>6. PICK f \in References : f.table = "contact" /\ f.column = t /\ f.target = t
    BY ForeignKeys
  <2>7. <<t, db[j][t]>> \in DOMAIN db
    BY <1>1, <2>3, <2>4, <2>6 DEF KeysHold
  <2>8. \A s \in Owners : s # t => db[j][s] = Null
    BY <2>1
  <2> QED BY <2>5, <2>7, <2>8
<1>3. ASSUME NEW i \in DOMAIN owner, NEW j \in DOMAIN owner, owner[i] = owner[j]
      PROVE  i = j
  <2>1. PICK c : ContactKeys(db, owner[i][1], owner[i][2]) = {c}
    BY <1>2 DEF OneContactIn
  <2>2. i \in ContactKeys(db, owner[i][1], owner[i][2])
    BY <1>1, <1>2 DEF ContactKeys
  <2>3. j \in ContactKeys(db, owner[i][1], owner[i][2])
    BY <1>1, <1>2, <1>3 DEF ContactKeys
  <2> QED BY <2>1, <2>2, <2>3
<1>4. ASSUME NEW k \in DOMAIN db, k[1] \in Owners
      PROVE  \E j \in DOMAIN owner : owner[j] = k
  <2>1. PICK c : ContactKeys(db, k[1], k[2]) = {c}
    BY <1>4 DEF OneContactIn
  <2>2. c \in DOMAIN owner /\ db[c][k[1]] = k[2]
    BY <1>1, <2>1 DEF ContactKeys
  <2>3. k = <<k[1], k[2]>> /\ k[2] # Null
    BY <1>4, Numbered, OwnersAre
  <2>4. k[1] = owner[c][1] /\ k[2] = owner[c][2]
    BY <1>2, <1>4, <2>2, <2>3
  <2>5. owner[c] = k
    BY <1>2, <2>2, <2>3, <2>4
  <2> QED BY <2>2, <2>5
<1>5. \A j \in DOMAIN owner : j \in DOMAIN db
  BY <1>1
<1> QED BY <1>1, <1>2, <1>3, <1>4, <1>5 DEF OwnerIn

LEMMA ContactsInitially == Init => ContactInv
<1> SUFFICES ASSUME Init
             PROVE  ContactInv
  OBVIOUS
<1>1. area \in Area /\ TablesInit(Rows[area]) /\ db = Rows[area]
  BY DEF Init, TablesInit
<1>2. PeopleSaveInv
  BY <1>1, SaveInit, SchemaAssumption, PeopleUnderWay DEF PeopleSaveInv
<1>3. /\ DOMAIN hist = DOMAIN db /\ step = [r \in Request |-> "idle"]
      /\ mem = [r \in Request |-> NoMem] /\ faults = 0
  BY <1>1 DEF TablesInit
<1>4. RestInv
  BY <1>1, <1>3, BoundAssumption DEF RestInv
<1>5. /\ IsFiniteSet(DOMAIN db)
      /\ \A t \in DOMAIN PeopleColumns :
            LET own == {k \in DOMAIN db : k[1] = t}
            IN  own = {t} \X (1..Cardinality(own))
      /\ \A k \in DOMAIN db : db[k].at \in {"live", "deleted"}
      /\ \A k \in DOMAIN db : k[1] \in {"store", "contact"} => db[k].at = "live"
      /\ Accepts(db, DOMAIN db)
      /\ OneContactIn(db)
      /\ \A j, k \in DOMAIN db :
            (j # k /\ j[1] = "contact" /\ k[1] = "contact" /\ db[j].user # Null /\ db[k].user # Null)
               => db[j].email # db[k].email /\ db[j].mobile # db[k].mobile
  BY <1>1, RowsAssumption
<1>6. NumberInv
  <2> SUFFICES ASSUME NEW t \in DOMAIN PeopleColumns
               PROVE  \E n \in Nat : Ever(t) = {t} \X (1..n)
    BY DEF NumberInv
  <2>1. PICK own : own = {k \in DOMAIN db : k[1] = t}
    OBVIOUS
  <2>2. own = {t} \X (1..Cardinality(own))
    BY <1>5, <2>1
  <2>3. IsFiniteSet(own)
    BY <1>5, <2>1, FS_Subset
  <2>4. Cardinality(own) \in Nat
    BY <2>3, FS_CardinalityType
  <2>5. Ever(t) = own
    BY <1>3, <2>1 DEF Ever
  <2> QED BY <2>2, <2>4, <2>5
<1>7. DateInv /\ KeysHold(db, DOMAIN db)
  BY <1>5 DEF DateInv, Accepts
<1> DEFINE persons == [j \in Ever("contact") |-> PersonOf(db, j)]
<1> HIDE DEF persons
<1>8. PICK owner : owner = persons
  OBVIOUS
<1>9. StoredInv(owner)
  BY <1>3, <1>5, <1>6, <1>7, <1>8, OwnerFirst DEF StoredInv, persons
<1>10. HeldInv(owner) /\ \A r \in Request : step[r] \notin Forming
  BY <1>3 DEF HeldInv, Saving, Forming
<1>11. TwiceInv
  BY <1>5 DEF TwiceInv, OfUser
<1> QED BY <1>2, <1>4, <1>9, <1>10, <1>11 DEF ContactInv

-----------------------------------------------------------------------------
(* What follows.                                                           *)

\* What a request asked for is overwritten only by a request that a chain of
\* overlaps joins to it.
THEOREM PeopleOverwritten == Spec => []OverwrittenOnlyByOverlap
<1>1. ContactInv => OverwrittenOnlyByOverlap
  BY DEF ContactInv, PeopleSaveInv, SaveInv, SharedInv
<1> QED BY <1>1, ContactsInitially, ContactsInductive, PTL DEF Spec

\* Two users share an address or a number only if the requests that made them
\* overlapped.
THEOREM ContactTwice == Spec => []ContactTwiceOnlyByOverlap
<1>1. ContactInv => ContactTwiceOnlyByOverlap
  <2> SUFFICES ASSUME ContactInv, NEW c \in Live("contact"), NEW d \in Live("contact"),
                      c # d, Row("contact", c).user # Null, Row("contact", d).user # Null,
                      \/ Row("contact", c).email = Row("contact", d).email
                      \/ Row("contact", c).mobile = Row("contact", d).mobile
               PROVE  hist[<<"contact", c>>].email.writer
                         \in met[hist[<<"contact", d>>].email.writer]
    BY DEF ContactTwiceOnlyByOverlap
  <2>1. ColumnInv(PeopleColumns) /\ TwiceInv
    BY DEF ContactInv, PeopleSaveInv, SaveInv, SharedInv
  <2>2. PICK i, j : i = <<"contact", c>> /\ j = <<"contact", d>>
    OBVIOUS
  <2>3. /\ i \in DOMAIN db /\ Row("contact", c) = db[i]
        /\ j \in DOMAIN db /\ Row("contact", d) = db[j]
    BY <2>1, <2>2, LiveKey
  <2>4. i # j /\ OfUser(db, i) /\ OfUser(db, j)
    BY <2>2, <2>3 DEF OfUser
  <2>5. hist[i]["email"].writer \in met[hist[j]["email"].writer]
    BY <2>1, <2>3, <2>4 DEF TwiceInv
  <2> QED BY <2>2, <2>5
<1> QED BY <1>1, ContactsInitially, ContactsInductive, PTL DEF Spec

LEMMA OneContactFollows ==
    ASSUME ContactInv
    PROVE  OneContactEach
<1>1. PICK owner : StoredInv(owner)
  BY DEF ContactInv
<1>2. OwnerIn(owner) /\ NumberInv /\ DOMAIN db \subseteq DOMAIN hist
  BY <1>1 DEF StoredInv, ContactInv, PeopleSaveInv, SaveInv, SharedInv, ColumnInv
<1>3. ASSUME NEW j \in DOMAIN owner
      PROVE  owner[j] = <<owner[j][1], owner[j][2]>> /\ owner[j][2] # Null
  BY <1>2, Numbered, OwnersAre DEF OwnerIn
<1>4. ASSUME NEW k \in DOMAIN db, k[1] \in Owners
      PROVE  \E c \in DOMAIN db : ContactKeys(db, k[1], k[2]) = {c}
  <2>1. PICK j \in DOMAIN owner : owner[j] = k
    BY <1>2, <1>4 DEF OwnerIn
  <2>2. j \in DOMAIN db /\ j[1] = "contact" /\ db[j][k[1]] = k[2]
    BY <1>2, <1>4, <2>1 DEF OwnerIn, Ever
  <2>3. ASSUME NEW c \in DOMAIN db, c[1] = "contact", db[c][k[1]] = k[2]
        PROVE  c = j
    <3>1. c \in DOMAIN owner
      BY <1>2, <2>3 DEF OwnerIn, Ever
    <3>2. k[2] # Null
      BY <1>3, <2>1
    <3>3. k[1] = owner[c][1] /\ k[2] = owner[c][2]
      BY <1>2, <1>4, <2>3, <3>1, <3>2 DEF OwnerIn
    <3>4. owner[c] = owner[j]
      BY <1>3, <2>1, <3>1, <3>3
    <3> QED BY <1>2, <3>1, <3>4 DEF OwnerIn
  <2>4. ContactKeys(db, k[1], k[2]) = {j}
    BY <2>2, <2>3 DEF ContactKeys
  <2> QED BY <2>2, <2>4
<1>5. ASSUME NEW k \in DOMAIN db, k[1] = "contact"
      PROVE  \E t \in Owners : {s \in Owners : db[k][s] # Null} = {t}
  <2>1. k \in DOMAIN owner
    BY <1>2, <1>5 DEF OwnerIn, Ever
  <2>2. \A s \in Owners : db[k][s] = IF s = owner[k][1] THEN owner[k][2] ELSE Null
    BY <1>2, <2>1 DEF OwnerIn
  <2>3. owner[k][1] \in Owners /\ owner[k][2] # Null
    BY <1>2, <1>3, <2>1 DEF OwnerIn
  <2> QED BY <2>2, <2>3
<1> QED BY <1>4, <1>5 DEF OneContactEach, OneContactIn

\* Every user, customer and supplier has one row of contact information, and
\* none is shared.
THEOREM OneContact == Spec => []OneContactEach
<1>1. ContactInv => OneContactEach
  BY OneContactFollows
<1> QED BY <1>1, ContactsInitially, ContactsInductive, PTL DEF Spec

-----------------------------------------------------------------------------
(* Types.                                                                  *)

SessionInv == \A u \in DOMAIN session : session[u] \in {Null, 0} \cup Request

LEMMA SessionsInductive == ContactInv /\ SessionInv /\ [Next]_vars => SessionInv'
<1> SUFFICES ASSUME ContactInv, SessionInv, [Next]_vars
             PROVE  SessionInv'
  OBVIOUS
<1>1. CASE session' = session
  BY <1>1 DEF SessionInv
<1>2. CASE \E u, p : p \in {Null} \cup Request /\ session' = [session EXCEPT ![u] = p]
  BY <1>2 DEF SessionInv
<1>3. CASE \E r \in Among[area] : SessionOperation(r)
  <2>1. PICK r \in Among[area] : SessionOperation(r)
    BY <1>3
  <2>2. r \in Request
    BY PeopleAssumption DEF ContactInv, RestInv
  <2>3. CASE SignIn(r) \/ SignInUser(r) \/ Refresh(r) \/ Logout(r)
    BY <1>1, <2>3 DEF SignIn, SignInUser, Refresh, Logout, ReadsSession, accountVars
  <2>4. CASE SignInSave(r) \/ RefreshSave(r) \/ LogoutDelete(r)
    BY <1>2, <2>2, <2>4 DEF SignInSave, RefreshSave, LogoutDelete, SetsSession
  <2> QED BY <2>1, <2>3, <2>4 DEF SessionOperation
<1>4. CASE Expires
  BY <1>2, <1>4 DEF Expires
<1>5. CASE (\E r \in Among[area] : Operation(r)) /\ UNCHANGED accountVars
  BY <1>1, <1>5 DEF accountVars
<1>6. CASE UNCHANGED vars \/ Finished
  BY <1>1, <1>6 DEF vars, accountVars, Finished
<1> QED BY <1>3, <1>4, <1>5, <1>6 DEF Next, Operation

LEMMA TypesFollow ==
    ASSUME ContactInv, SessionInv
    PROVE  TypeOK
<1>1. PICK owner : StoredInv(owner)
  BY DEF ContactInv
<1>2. ColumnInv(PeopleColumns) /\ MetInv /\ DateInv /\ KeysHold(db, DOMAIN db)
  BY <1>1 DEF ContactInv, PeopleSaveInv, SaveInv, SharedInv, StoredInv
<1>3. TablesTypeOK
  <2>1. DOMAIN db \subseteq DOMAIN hist
    BY <1>2 DEF ColumnInv
  <2>2. \A k \in DOMAIN db : /\ db[k].at \in {"live", "deleted"}
                             /\ DOMAIN db[k] \subseteq DOMAIN hist[k]
    BY <1>2, <2>1 DEF ColumnInv, Schema, DateInv
  <2>3. \A r \in Request : met[r] \subseteq Request \ {r} /\ \A q \in met[r] : r \in met[q]
    BY <1>2 DEF MetInv
  <2> QED BY <2>1, <2>2, <2>3 DEF TablesTypeOK, ContactInv, RestInv
<1>4. ASSUME NEW t \in {"customer", "supplier"}, NEW i \in Ids(t)
      PROVE  Row(t, i).store \in Live("store") \cup {Null}
  <2>1. <<t, i>> \in DOMAIN db
    BY <1>2 DEF Ids, ColumnInv, Schema
  <2> DEFINE key == <<t, i>>
  <2>2. key[1] = t
    OBVIOUS
  <2> HIDE DEF key
  <2>3. PICK f \in References : f.table = t /\ f.column = "store" /\ f.target = "store"
    BY ForeignKeys
  <2>4. PICK s : s = db[key].store
    OBVIOUS
  <2>5. s = Null \/ <<"store", s>> \in DOMAIN db
    BY <1>2, <2>1, <2>2, <2>3, <2>4 DEF KeysHold, key
  <2>6. <<"store", s>> \in DOMAIN db => s \in Live("store")
    <3> SUFFICES ASSUME <<"store", s>> \in DOMAIN db
                 PROVE  s \in Live("store")
      OBVIOUS
    <3>1. PICK j : j = <<"store", s>> /\ j[1] = "store" /\ j[2] = s
      OBVIOUS
    <3>2. db[j].at = "live" /\ s \in Ids("store")
      BY <1>2, <3>1 DEF DateInv, Ids
    <3> QED BY <3>1, <3>2 DEF Live, Row
  <2> QED BY <2>4, <2>5, <2>6 DEF Row, key
<1> QED BY <1>3, <1>4, OneContactFollows DEF TypeOK, SessionInv

\* Rows, requests, sessions and history are well formed: every row has the
\* columns of its table, every key it holds is the key of a row.
THEOREM PeopleTyped == Spec => []TypeOK
<1>1. Init => SessionInv
  <2> SUFFICES ASSUME Init PROVE SessionInv
    OBVIOUS
  <2>1. session = SignedIn[area] /\ area \in Area
    BY DEF Init, AccountsInit
  <2> QED BY <2>1, PeopleAssumption DEF SessionInv
<1>2. ContactInv /\ SessionInv => TypeOK
  BY TypesFollow
<1> QED BY <1>1, <1>2, ContactsInitially, ContactsInductive, SessionsInductive, PTL DEF Spec

=============================================================================
