-------------------------- MODULE MigrationsProofs --------------------------
(***************************************************************************)
(* That no run of the migrations commits once init-attendance is among     *)
(* them, that no run and no revert does once the schema was synchronised,  *)
(* and that until then the database holds what the rows say and keeps the  *)
(* tables it had, whatever those were and whatever was run before.         *)
(***************************************************************************)
EXTENDS Migrations, TLAPS

\* No migration is recorded twice.
Distinct(rows) == \A i, j \in 1..Len(rows) : rows[i] = rows[j] => i = j

\* The rows a version with these files can have: of the first six.
RowsOf(F) == {rows \in Seq(F \cap (1..6)) : Distinct(rows)}

\* Where a run can be: at most at the seventh file, there at most at its third
\* statement, and there the table it is to create exists.  A revert is at the
\* migration recorded last.
UpBlocked ==
    /\ run.migration \in files \cap (1..7)
    /\ run.migration \notin Range(run.rows)
    /\ run.migration = 7 =>
         /\ run.next \in 1..3
         /\ run.next = 3 => "attendance_entity" \in run.schema.tables

DownBlocked ==
    /\ recorded # <<>>
    /\ run.rows = recorded
    /\ run.migration = recorded[Len(recorded)]

RunBlocked ==
    /\ run = Idle \/ run.do \in {"up", "down"}
    /\ run # Idle => run.rows \in RowsOf(files) /\ run.next \in Nat
    /\ run.do = "up" => UpBlocked
    /\ run.do = "down" => DownBlocked

BlockedInv ==
    /\ files \in Version
    /\ recorded \in RowsOf(files)
    /\ RunBlocked

-----------------------------------------------------------------------------
(* Rows and turns. *)

LEMMA RowsMore ==
    ASSUME NEW F, NEW rows \in RowsOf(F), NEW m \in F \cap (1..6), m \notin Range(rows)
    PROVE  /\ Append(rows, m) \in RowsOf(F)
           /\ Range(Append(rows, m)) = Range(rows) \cup {m}
<1> DEFINE S == F \cap (1..6)
<1>1. rows \in Seq(S) /\ Distinct(rows)
  BY DEF RowsOf
<1> HIDE DEF S
<1>2. m \in S
  BY DEF S
<1>3. /\ Append(rows, m) \in Seq(S)
      /\ Len(rows) \in Nat
      /\ Len(Append(rows, m)) = Len(rows) + 1
      /\ \A i \in 1..Len(rows) : Append(rows, m)[i] = rows[i]
      /\ Append(rows, m)[Len(rows) + 1] = m
  BY <1>1, <1>2
<1>4. DOMAIN rows = 1..Len(rows) /\ DOMAIN Append(rows, m) = 1..(Len(rows) + 1)
  BY <1>1, <1>2
<1>5. \A i \in 1..Len(rows) : rows[i] # m
  BY <1>4 DEF Range
<1>6. Distinct(Append(rows, m))
  BY <1>1, <1>3, <1>5 DEF Distinct
<1>7. Range(Append(rows, m)) = Range(rows) \cup {m}
  BY <1>3, <1>4 DEF Range
<1> QED BY <1>3, <1>6, <1>7 DEF RowsOf, S

LEMMA RowsLess ==
    ASSUME NEW F, NEW rows \in RowsOf(F), rows # <<>>
    PROVE  LET front == SubSeq(rows, 1, Len(rows) - 1)
               m == rows[Len(rows)]
           IN  /\ front \in RowsOf(F)
               /\ m \in F \cap (1..6)
               /\ m \notin Range(front)
               /\ Range(rows) = Range(front) \cup {m}
               /\ Len(rows) \in Nat
               /\ Len(front) = Len(rows) - 1
<1> DEFINE S == F \cap (1..6)
           front == SubSeq(rows, 1, Len(rows) - 1)
           m == rows[Len(rows)]
<1>1. rows \in Seq(S) /\ Distinct(rows)
  BY DEF RowsOf
<1> HIDE DEF S
<1>2. /\ Len(rows) \in Nat \ {0}
      /\ DOMAIN rows = 1..Len(rows)
      /\ \A i \in 1..Len(rows) : rows[i] \in S
  BY <1>1
<1>3. /\ front \in Seq(S)
      /\ Len(front) = Len(rows) - 1
      /\ DOMAIN front = 1..(Len(rows) - 1)
      /\ \A i \in 1..(Len(rows) - 1) : front[i] = rows[i]
  BY <1>1, <1>2
<1> HIDE DEF front
<1>4. Distinct(front)
  BY <1>1, <1>2, <1>3 DEF Distinct
<1>5. m \in S
  BY <1>2
<1>6. m \notin Range(front)
  BY <1>1, <1>2, <1>3 DEF Distinct, Range
<1>7. Range(rows) = Range(front) \cup {m}
  BY <1>2, <1>3 DEF Range
<1>8. front \in RowsOf(F)
  BY <1>3, <1>4 DEF RowsOf, S
<1>9. Len(rows) \in Nat /\ Len(front) = Len(rows) - 1 /\ m \in F \cap (1..6)
  BY <1>2, <1>3, <1>5 DEF S
<1> QED BY <1>6, <1>7, <1>8, <1>9 DEF front

LEMMA RowsRange ==
    ASSUME NEW F, NEW rows \in RowsOf(F)
    PROVE  /\ Range(rows) \subseteq F \cap (1..6)
           /\ rows \in Seq(F)
<1> DEFINE S == F \cap (1..6)
<1>1. rows \in Seq(S)
  BY DEF RowsOf
<1>2. S \subseteq F
  OBVIOUS
<1> HIDE DEF S
<1>3. Range(rows) \subseteq S
  BY <1>1 DEF Range
<1>4. rows \in Seq(F)
  BY <1>1, <1>2
<1> QED BY <1>3, <1>4 DEF S

LEMMA NoRows == <<>> \in RowsOf({}) /\ \A F : <<>> \in RowsOf(F) /\ Range(<<>>) = {}
<1>1. \A F : <<>> \in Seq(F \cap (1..6))
  OBVIOUS
<1>2. Distinct(<<>>)
  BY DEF Distinct
<1>3. Range(<<>>) = {}
  BY DEF Range
<1> QED BY <1>1, <1>2, <1>3 DEF RowsOf

LEMMA RowsLength == ASSUME NEW F, NEW rows \in RowsOf(F) PROVE Len(rows) \in Nat
  BY DEF RowsOf

LEMMA RowsGrow ==
    ASSUME NEW F, NEW G, F \subseteq G
    PROVE  RowsOf(F) \subseteq RowsOf(G)
<1> DEFINE S == F \cap (1..6)
           T == G \cap (1..6)
<1>1. S \subseteq T
  OBVIOUS
<1> HIDE DEF S, T
<1>2. Seq(S) \subseteq Seq(T)
  BY <1>1
<1> QED BY <1>2 DEF RowsOf, S, T

LEMMA MigrationCount == Len(Migration) = 20 /\ DOMAIN Migration = 1..20
  BY DEF Migration

\* The turns of the files.
TurnOf == <<1, 3, 4, 5, 6, 7, 2, 8, 9, 10, 11, 9, 12, 13, 14, 15, 16, 17, 18, 19>>

LEMMA TurnNumbers ==
    \A m \in 1..20 : Migration[m].turn = TurnOf[m] /\ TurnOf[m] \in Nat
<1> SUFFICES ASSUME NEW m \in 1..20 PROVE Migration[m].turn = TurnOf[m] /\ TurnOf[m] \in Nat
  OBVIOUS
<1>1. CASE m = 1
  BY <1>1 DEF Migration, InitUser, TurnOf
<1>2. CASE m = 2
  BY <1>2 DEF Migration, InitCustomer, TurnOf
<1>3. CASE m = 3
  BY <1>3 DEF Migration, InitCategory, TurnOf
<1>4. CASE m = 4
  BY <1>4 DEF Migration, InitProduct, TurnOf
<1>5. CASE m = 5
  BY <1>5 DEF Migration, InitTransaction, TurnOf
<1>6. CASE m = 6
  BY <1>6 DEF Migration, InitInventory, TurnOf
<1>7. CASE m = 7
  BY <1>7 DEF Migration, InitAttendance, TurnOf
<1>8. CASE m = 8
  BY <1>8 DEF Migration, InitOpeningHours, TurnOf
<1>9. CASE m = 9
  BY <1>9 DEF Migration, InitStores, TurnOf
<1>10. CASE m = 10
  BY <1>10 DEF Migration, InitDiscounts, TurnOf
<1>11. CASE m = 11
  BY <1>11 DEF Migration, InitDiscountStores, TurnOf
<1>12. CASE m = 12
  BY <1>12 DEF Migration, InitDiscountTransactions, TurnOf
<1>13. CASE m = 13
  BY <1>13 DEF Migration, InitWage, TurnOf
<1>14. CASE m = 14
  BY <1>14 DEF Migration, InitBreak, TurnOf
<1>15. CASE m = 15
  BY <1>15 DEF Migration, InitTransactionItem, TurnOf
<1>16. CASE m = 16
  BY <1>16 DEF Migration, InitSupplier, TurnOf
<1>17. CASE m = 17
  BY <1>17 DEF Migration, InitModifierGroups, TurnOf
<1>18. CASE m = 18
  BY <1>18 DEF Migration, InitModifierOptions, TurnOf
<1>19. CASE m = 19
  BY <1>19 DEF Migration, InitModifierGroupsCategory, TurnOf
<1>20. CASE m = 20
  BY <1>20 DEF Migration, InitRefund, TurnOf
<1> QED BY <1>1, <1>2, <1>3, <1>4, <1>5, <1>6, <1>7, <1>8, <1>9, <1>10, <1>11, <1>12, <1>13, <1>14, <1>15, <1>16, <1>17, <1>18, <1>19, <1>20

\* Only init-user comes before init-attendance.
LEMMA Turns ==
    /\ Migration[7].turn = 2
    /\ \A m \in 1..20 : m \notin {1, 7} => Migration[m].turn > 2
  BY TurnNumbers DEF TurnOf

\* What a run can come to: one of the first seven, and where init-attendance is
\* pending only that or init-user.
LEMMA DueEarly ==
    ASSUME NEW rows \in RowsOf(files), files \in Version, NEW m \in Due(rows)
    PROVE  m \in files \cap (1..7) /\ m \notin Range(rows)
<1>1. m \in files /\ m \notin Range(rows)
  BY DEF Due, Pending
<1>2. files \subseteq 1..20 /\ (files \subseteq 1..6 \/ 7 \in files)
  BY VersionAssumption, MigrationCount
<1>3. CASE files \subseteq 1..6
  BY <1>1, <1>3
<1>4. CASE 7 \in files
  <2>1. 7 \notin Range(rows)
    BY RowsRange
  <2>2. 7 \in Pending(rows)
    BY <1>4, <2>1 DEF Pending
  <2>3. Migration[m].turn <= Migration[7].turn
    BY <2>2 DEF Due
  <2>4. m \in {1, 7}
    <3> SUFFICES ASSUME m \notin {1, 7} PROVE FALSE
      OBVIOUS
    <3>1. Migration[m].turn > 2
      BY <1>1, <1>2, Turns
    <3>2. Migration[m].turn \in Nat
      BY <1>1, <1>2, TurnNumbers
    <3> QED BY <2>3, <3>1, <3>2, Turns
  <2> QED BY <1>1, <2>4
<1> QED BY <1>2, <1>3, <1>4

-----------------------------------------------------------------------------
(* No run gets past init-attendance. *)

\* The statements of init-attendance up to the one that is never accepted.
LEMMA AttendanceStatements ==
    /\ Migration[7] = InitAttendance
    /\ Len(InitAttendance.up) = 5
    /\ InitAttendance.up[1] = Create("break_entity", {"attendanceId"})
    /\ InitAttendance.up[2] = Key("break_entity", "attendanceId", "attendance_entity")
    /\ InitAttendance.up[3] = Create("attendance_entity", {"storeId", "userId"})
<1>1. Migration[7] = InitAttendance
  BY DEF Migration
<1> QED
  BY <1>1 DEF InitAttendance

\* A run at init-attendance that has a statement accepted stays before the
\* third one, or comes to it with the table there.
LEMMA AttendanceStep ==
    ASSUME run.do = "up", run.migration = 7, UpBlocked,
           Accepts(run.schema, Statement)
    PROVE  /\ ~AtLast
           /\ run.next + 1 \in 1..3
           /\ run.next + 1 = 3 =>
                "attendance_entity" \in Apply(run.schema, Statement).tables
<1>1. Statements = InitAttendance.up
  BY AttendanceStatements DEF Statements
<1>2. run.next \in 1..3
  BY DEF UpBlocked
<1>3. ~AtLast
  BY <1>1, <1>2, AttendanceStatements DEF AtLast
<1>4. CASE run.next = 3
  <2>1. Statement.do = "create" /\ Statement.table = "attendance_entity"
    BY <1>1, <1>4, AttendanceStatements DEF Statement, Create
  <2>2. "attendance_entity" \in run.schema.tables
    BY <1>4 DEF UpBlocked
  <2> QED BY <2>1, <2>2 DEF Accepts
<1>5. CASE run.next = 2
  <2>1. Statement.do = "key" /\ Statement.to = "attendance_entity"
    BY <1>1, <1>5, AttendanceStatements DEF Statement, Key
  <2>2. "attendance_entity" \in run.schema.tables
    BY <2>1 DEF Accepts
  <2>4. Apply(run.schema, Statement).tables = run.schema.tables
    BY <2>1 DEF Apply
  <2> QED BY <1>3, <1>5, <2>2, <2>4
<1>6. CASE run.next = 1
  BY <1>3, <1>6
<1> QED BY <1>2, <1>4, <1>5, <1>6

\* The rows after a migration of a run, and after a revert.
LEMMA AfterUp ==
    ASSUME BlockedInv, run.do = "up", run.migration # 7
    PROVE  /\ RowsAfter \in RowsOf(files)
           /\ Range(RowsAfter) = Range(run.rows) \cup {run.migration}
<1>1. run.rows \in RowsOf(files) /\ UpBlocked
  BY DEF BlockedInv, RunBlocked, Idle
<1>2. run.migration \in files \cap (1..6) /\ run.migration \notin Range(run.rows)
  BY <1>1 DEF UpBlocked
<1>3. RowsAfter = Append(run.rows, run.migration)
  BY DEF RowsAfter
<1> QED BY <1>1, <1>2, <1>3, RowsMore

LEMMA AfterDown ==
    ASSUME BlockedInv, run.do = "down"
    PROVE  /\ RowsAfter \in RowsOf(files)
           /\ run.rows = recorded
           /\ run.migration \in files \cap (1..6)
           /\ run.migration \notin Range(RowsAfter)
           /\ Range(recorded) = Range(RowsAfter) \cup {run.migration}
           /\ Len(recorded) \in Nat
           /\ Len(RowsAfter) = Len(recorded) - 1
<1>1. recorded \in RowsOf(files) /\ DownBlocked
  BY DEF BlockedInv, RunBlocked
<1>2. /\ recorded # <<>> /\ run.rows = recorded /\ run.migration = recorded[Len(recorded)]
  BY <1>1 DEF DownBlocked
<1>3. RowsAfter = SubSeq(recorded, 1, Len(recorded) - 1)
  BY <1>2 DEF RowsAfter
<1> QED BY <1>1, <1>2, <1>3, RowsLess

\* A run that commits leaves nothing pending, and so had no init-attendance.
LEMMA UpEnds ==
    ASSUME BlockedInv, Commit, run.do = "up"
    PROVE  7 \notin files /\ run.migration # 7
<1>1. UpBlocked
  BY DEF BlockedInv, RunBlocked
<1>2. run.migration # 7
  BY <1>1, AttendanceStep DEF Commit
<1>3. RowsAfter \in RowsOf(files)
  BY <1>2, AfterUp
<1>4. 7 \notin Range(RowsAfter)
  BY <1>3, RowsRange
<1>5. Pending(RowsAfter) = {}
  BY DEF Commit
<1> QED BY <1>2, <1>4, <1>5 DEF Pending

LEMMA BlockedInit == Init => BlockedInv
<1> SUFFICES ASSUME Init PROVE BlockedInv
  OBVIOUS
<1>1. run = Idle /\ recorded = <<>> /\ files \in Version
  BY DEF Init
<1>2. RunBlocked
  BY <1>1 DEF RunBlocked, Idle
<1> QED BY <1>1, <1>2, NoRows DEF BlockedInv

\* One step per action keeps a run blocked.
LEMMA BlockedStep == BlockedInv /\ [Next]_vars => BlockedInv'
<1> SUFFICES ASSUME BlockedInv, [Next]_vars PROVE BlockedInv'
  OBVIOUS
<1>t. files \in Version /\ recorded \in RowsOf(files) /\ RunBlocked
  BY DEF BlockedInv
<1>i. run' = Idle => RunBlocked'
  BY DEF RunBlocked, Idle
<1>r. RunBlocked' <=>
        /\ run' = Idle \/ run'.do \in {"up", "down"}
        /\ run' # Idle => run'.rows \in RowsOf(files') /\ run'.next \in Nat
        /\ run'.do = "up" => UpBlocked'
        /\ run'.do = "down" => DownBlocked'
  BY DEF RunBlocked, Idle
<1>1. CASE Checkout
  <2>1. run' = Idle /\ recorded' = recorded /\ files' \in Version /\ files \subseteq files'
    BY <1>1 DEF Checkout
  <2>2. recorded' \in RowsOf(files')
    BY <1>t, <2>1, RowsGrow
  <2> QED BY <1>i, <2>1, <2>2 DEF BlockedInv
<1>2. CASE SyncSchema
  BY <1>2, <1>t, <1>i DEF SyncSchema, BlockedInv
<1>3. CASE RunBegin
  <2>1. PICK m \in Due(recorded) : run' = Begin("up", m)
    BY <1>3 DEF RunBegin
  <2>2. /\ run'.do = "up" /\ run'.migration = m /\ run'.next = 1 /\ run'.rows = recorded
        /\ UNCHANGED <<recorded, files>>
    BY <1>3, <2>1 DEF RunBegin, Begin
  <2>3. m \in files \cap (1..7) /\ m \notin Range(recorded)
    BY <1>t, DueEarly
  <2>4. UpBlocked'
    BY <2>2, <2>3 DEF UpBlocked
  <2> QED BY <1>t, <1>r, <2>2, <2>4 DEF BlockedInv
<1>4. CASE RevertBegin
  <2>1. /\ run'.do = "down" /\ run'.migration = recorded[Len(recorded)] /\ run'.next = 1
        /\ run'.rows = recorded /\ recorded # <<>> /\ UNCHANGED <<recorded, files>>
    BY <1>4 DEF RevertBegin, Begin
  <2>2. DownBlocked'
    BY <2>1 DEF DownBlocked
  <2> QED BY <1>t, <1>r, <2>1, <2>2 DEF BlockedInv
<1>5. CASE Execute
  <2>1. /\ recorded' = recorded /\ files' = files /\ run # Idle
        /\ Accepts(run.schema, Statement)
    BY <1>5 DEF Execute
  <2>2. CASE ~AtLast /\ run' = GoOn(run.rows, run.migration, run.next + 1)
    <3>1. /\ run'.do = run.do /\ run'.migration = run.migration
          /\ run'.next = run.next + 1 /\ run'.rows = run.rows
          /\ run'.schema = Apply(run.schema, Statement)
      BY <2>2 DEF GoOn
    <3>2. run.do = "up" => UpBlocked'
      <4> SUFFICES ASSUME run.do = "up" PROVE UpBlocked'
        OBVIOUS
      <4>1. UpBlocked
        BY <1>t DEF RunBlocked
      <4>2. CASE run.migration = 7
        BY <2>1, <3>1, <4>1, <4>2, AttendanceStep DEF UpBlocked
      <4>3. CASE run.migration # 7
        BY <2>1, <3>1, <4>1, <4>3 DEF UpBlocked
      <4> QED BY <4>2, <4>3
    <3>3. run.do = "down" => DownBlocked'
      BY <1>t, <2>1, <3>1 DEF RunBlocked, DownBlocked
    <3>4. run'.rows \in RowsOf(files') /\ run'.next \in Nat
      BY <1>t, <2>1, <3>1 DEF RunBlocked
    <3>5. run'.do \in {"up", "down"}
      BY <1>t, <2>1, <3>1 DEF RunBlocked
    <3> QED BY <1>t, <1>r, <2>1, <3>1, <3>2, <3>3, <3>4, <3>5 DEF BlockedInv
  <2>3. CASE /\ AtLast /\ run.do = "up"
             /\ \E m \in Due(RowsAfter) : run' = GoOn(RowsAfter, m, 1)
    <3>1. PICK m \in Due(RowsAfter) : run' = GoOn(RowsAfter, m, 1)
      BY <2>3
    <3>2. run'.do = "up" /\ run'.migration = m /\ run'.next = 1 /\ run'.rows = RowsAfter
      BY <2>3, <3>1 DEF GoOn
    <3>3. run.migration # 7
      BY <1>t, <2>1, <2>3, AttendanceStep DEF RunBlocked
    <3>4. RowsAfter \in RowsOf(files)
      BY <2>3, <3>3, AfterUp
    <3>5. m \in files \cap (1..7) /\ m \notin Range(RowsAfter)
      BY <1>t, <3>4, DueEarly
    <3>6. UpBlocked'
      BY <2>1, <3>2, <3>5 DEF UpBlocked
    <3> QED BY <1>t, <1>r, <2>1, <3>2, <3>4, <3>6 DEF BlockedInv
  <2> QED BY <1>5, <2>2, <2>3 DEF Execute
<1>6. CASE Commit
  <2>1. run' = Idle /\ files' = files /\ recorded' = RowsAfter /\ run # Idle
    BY <1>6 DEF Commit
  <2>2. run.do \in {"up", "down"}
    BY <1>t, <2>1 DEF RunBlocked
  <2>3. CASE run.do = "up"
    <3>1. run.migration # 7
      BY <1>6, <2>3, UpEnds
    <3>2. RowsAfter \in RowsOf(files)
      BY <2>3, <3>1, AfterUp
    <3> QED BY <1>t, <1>i, <2>1, <3>2 DEF BlockedInv
  <2>4. CASE run.do = "down"
    <3>1. RowsAfter \in RowsOf(files)
      BY <2>4, AfterDown
    <3> QED BY <1>t, <1>i, <2>1, <3>1 DEF BlockedInv
  <2> QED BY <1>t, <2>2, <2>3, <2>4 DEF RunBlocked
<1>7. CASE Refused
  BY <1>7, <1>t, <1>i DEF Refused, BlockedInv
<1>8. CASE Dies
  BY <1>8, <1>t, <1>i DEF Dies, BlockedInv
<1>9. CASE UNCHANGED vars
  BY <1>9, <1>t DEF vars, BlockedInv, RunBlocked, UpBlocked, DownBlocked
<1> QED BY <1>1, <1>2, <1>3, <1>4, <1>5, <1>6, <1>7, <1>8, <1>9 DEF Next

\* Whatever tables were found at first and whatever versions there were before:
\* once init-attendance is among the files no run commits.
THEOREM AttendanceNeverRuns == Spec => AttendanceBlocks
<1>1. BlockedInv /\ [Next]_vars => [7 \in files => Len(recorded') <= Len(recorded)]_vars
  <2> SUFFICES ASSUME BlockedInv, [Next]_vars, 7 \in files
               PROVE  Len(recorded') <= Len(recorded)
    OBVIOUS
  <2>1. Len(recorded) \in Nat
    BY RowsLength DEF BlockedInv
  <2>2. CASE Commit
    <3>1. recorded' = RowsAfter /\ run # Idle
      BY <2>2 DEF Commit
    <3>2. run.do # "up"
      BY <2>2, UpEnds
    <3>3. run.do = "down"
      BY <3>1, <3>2 DEF BlockedInv, RunBlocked
    <3> QED BY <2>1, <3>1, <3>3, AfterDown
  <2>3. CASE UNCHANGED recorded
    BY <2>1, <2>3
  <2> QED
    BY <2>2, <2>3
       DEF Next, Checkout, SyncSchema, RunBegin, RevertBegin, Execute, Refused, Dies, vars
<1> QED BY <1>1, BlockedInit, BlockedStep, PTL DEF Spec, AttendanceBlocks

-----------------------------------------------------------------------------
(* After a synchronisation.  No run leaves nothing pending and commits, as *)
(* above; a revert drops keys of one table and then comes to a table that  *)
(* keys of other entities refer to.                                        *)

\* For the migrations a revert can be at: the table whose keys its down
\* drops, the statement that is refused, the table this would drop, and the key
\* that stands in its way.
DownTable ==
    <<"contact_information_entity", "customer_entity", "category_entity",
      "product_entity", "transaction_entity", "inventory">>
RefusedAt == <<2, 2, 1, 3, 4, 1>>
Kept ==
    <<"user_entity", "customer_entity", "category_entity",
      "product_entity", "transaction_entity", "inventory">>
InTheWay ==
    <<[table |-> "attendance_entity", column |-> "userId", to |-> "user_entity"],
      [table |-> "transaction_entity", column |-> "customer", to |-> "customer_entity"],
      [table |-> "product_entity", column |-> "category", to |-> "category_entity"],
      [table |-> "modifier_options_entity", column |-> "product", to |-> "product_entity"],
      [table |-> "transaction_item_entity", column |-> "transaction", to |-> "transaction_entity"],
      [table |-> "stock_control", column |-> "inventoryItemID", to |-> "inventory"]>>

SyncedInv ==
    synced =>
      /\ files = DOMAIN Migration
      /\ "keys" \in DOMAIN schema
      /\ EntityKey \subseteq schema.keys
      /\ run.do = "down" =>
           /\ run.migration \in 1..6
           /\ run.next \in 1..RefusedAt[run.migration]
           /\ "keys" \in DOMAIN run.schema
           /\ \A k \in EntityKey :
                 k.table # DownTable[run.migration] => k \in run.schema.keys

LEMMA KeysInTheWay ==
    ASSUME NEW m \in 1..6
    PROVE  /\ InTheWay[m] \in EntityKey
           /\ InTheWay[m].to = Kept[m]
           /\ InTheWay[m].table \notin {Kept[m], DownTable[m]}
<1>1. m \in {1, 2, 3, 4, 5, 6}
  OBVIOUS
<1>2. InTheWay[m] \in {InTheWay[n] : n \in {1, 2, 3, 4, 5, 6}}
  BY <1>1
<1>3. \A n \in {1, 2, 3, 4, 5, 6} : InTheWay[n] \in EntityKey
  BY DEF InTheWay, EntityKey, BreakKey, AttendanceKey, WageKey, CustomerKey, SupplierKey,
         ContactKey, RefundKey, RefundItemKey, ModifierOptionKey, GroupCategoryKey,
         StockKey, PurchaseKey, HoursKey, CashKey, RegisterKey, ProductKey, ItemKey,
         TransactionKey, DiscountTransactionKey, DiscountStoreKey, Relation
<1> QED BY <1>1, <1>3 DEF InTheWay, Kept, DownTable

\* Before the statement that is refused a down only drops keys of its table.
LEMMA DownStatements ==
    ASSUME NEW m \in 1..6, NEW i \in 1..RefusedAt[m]
    PROVE  /\ i < RefusedAt[m] =>
                /\ \E c : Migration[m].down[i] = DropKey(DownTable[m], c)
                /\ i # Len(Migration[m].down)
           /\ i = RefusedAt[m] => Migration[m].down[i] = Drop(Kept[m])
<1> USE DEF RefusedAt, DownTable, Kept
<1>1. CASE m = 1
  <2>1. Migration[m].down =
          <<DropKey("contact_information_entity", "userId"),
           Drop("user_entity"),
           Drop("contact_information_entity")>>
    BY <1>1 DEF Migration, InitUser
  <2> QED BY <1>1, <2>1
<1>2. CASE m = 2
  <2>1. Migration[m].down =
          <<DropKey("customer_entity", "store"),
           Drop("customer_entity")>>
    BY <1>2 DEF Migration, InitCustomer
  <2> QED BY <1>2, <2>1
<1>3. CASE m = 3
  <2>1. Migration[m].down =
          <<Drop("category_entity")>>
    BY <1>3 DEF Migration, InitCategory
  <2> QED BY <1>3, <2>1
<1>4. CASE m = 4
  <2>1. Migration[m].down =
          <<DropKey("product_entity", "category"),
           DropKey("product_entity", "store"),
           Drop("product_entity")>>
    BY <1>4 DEF Migration, InitProduct
  <2> QED BY <1>4, <2>1
<1>5. CASE m = 5
  <2>1. Migration[m].down =
          <<DropKey("transaction_entity", "customer"),
           DropKey("transaction_entity", "store"),
           DropKey("transaction_entity", "staff"),
           Drop("transaction_entity")>>
    BY <1>5 DEF Migration, InitTransaction
  <2> QED BY <1>5, <2>1
<1>6. CASE m = 6
  <2>1. Migration[m].down =
          <<Drop("inventory")>>
    BY <1>6 DEF Migration, InitInventory
  <2> QED BY <1>6, <2>1
<1> QED BY <1>1, <1>2, <1>3, <1>4, <1>5, <1>6

LEMMA DropFields ==
    /\ \A t, c : DropKey(t, c).do = "dropKey" /\ DropKey(t, c).table = t
    /\ \A t : Drop(t).do = "drop" /\ Drop(t).table = t
<1>1. \A t, c, e : Key(t, c, e) =
        [do |-> "key", table |-> t, columns |-> {}, column |-> c, to |-> e]
  BY DEF Key
<1>2. ASSUME NEW t, NEW c PROVE DropKey(t, c).do = "dropKey" /\ DropKey(t, c).table = t
  BY <1>1 DEF DropKey
<1>3. \A t : Drop(t).do = "drop" /\ Drop(t).table = t
  BY DEF Drop, Create
<1> QED BY <1>2, <1>3

\* A statement of a revert that is accepted drops a key of the migration's
\* table and is not the last one.
LEMMA RevertStep ==
    ASSUME SyncedInv, synced, run.do = "down", Accepts(run.schema, Statement)
    PROVE  /\ ~AtLast
           /\ run.next + 1 \in 1..RefusedAt[run.migration]
           /\ "keys" \in DOMAIN Apply(run.schema, Statement)
           /\ \A k \in EntityKey : k.table # DownTable[run.migration] =>
                 k \in Apply(run.schema, Statement).keys
<1> DEFINE m == run.migration
<1>1. /\ m \in 1..6 /\ run.next \in 1..RefusedAt[m]
      /\ "keys" \in DOMAIN run.schema
      /\ \A k \in EntityKey : k.table # DownTable[m] => k \in run.schema.keys
  BY DEF SyncedInv
<1>2. Statements = Migration[m].down /\ Statement = Migration[m].down[run.next]
  BY DEF Statements, Statement
<1>3. run.next # RefusedAt[m]
  <2> SUFFICES ASSUME run.next = RefusedAt[m] PROVE FALSE
    OBVIOUS
  <2>1. Statement = Drop(Kept[m])
    BY <1>1, <1>2, DownStatements
  <2>2. Statement.do = "drop" /\ Statement.table = Kept[m]
    BY <2>1, DropFields, Zenon
  <2>3. InTheWay[m] \in run.schema.keys /\ InTheWay[m].to = Kept[m]
        /\ InTheWay[m].table # Kept[m]
    BY <1>1, KeysInTheWay
  <2>4. \A k \in run.schema.keys : k.to = Statement.table => k.table = Statement.table
    BY <2>2 DEF Accepts
  <2> QED BY <2>2, <2>3, <2>4
<1>4. RefusedAt[m] \in Nat
  BY <1>1 DEF RefusedAt
<1>5. run.next < RefusedAt[m]
  BY <1>1, <1>3, <1>4
<1>6. PICK c : Statement = DropKey(DownTable[m], c)
  BY <1>1, <1>2, <1>5, DownStatements
<1>7. Statement.do = "dropKey" /\ Statement.table = DownTable[m]
  BY <1>6, DropFields, Zenon
<1>8. ~AtLast
  BY <1>1, <1>2, <1>5, DownStatements DEF AtLast
<1>9. Apply(run.schema, Statement) =
        [run.schema EXCEPT !.keys =
           {k \in @ : ~(k.table = Statement.table /\ k.column = Statement.column)}]
  BY <1>7 DEF Apply
<1>10. /\ "keys" \in DOMAIN Apply(run.schema, Statement)
       /\ \A k \in run.schema.keys : k.table # DownTable[m] =>
             k \in Apply(run.schema, Statement).keys
  BY <1>1, <1>7, <1>9
<1> QED BY <1>1, <1>4, <1>5, <1>8, <1>10

LEMMA SyncedInit == Init => SyncedInv
  BY DEF Init, SyncedInv

\* After it neither a run nor a revert commits.
LEMMA SyncedEnds ==
    ASSUME BlockedInv, SyncedInv, synced
    PROVE  ~Commit
<1> SUFFICES ASSUME Commit PROVE FALSE
  OBVIOUS
<1>1. run # Idle /\ Accepts(run.schema, Statement) /\ AtLast
  BY DEF Commit
<1>2. 7 \in files
  BY MigrationCount DEF SyncedInv
<1>3. run.do = "down"
  BY <1>1, <1>2, UpEnds DEF BlockedInv, RunBlocked
<1> QED BY <1>1, <1>3, RevertStep

\* What a synchronisation has made stays, and a revert under way keeps to it.
LEMMA SyncedStep == BlockedInv /\ SyncedInv /\ [Next]_vars => SyncedInv'
<1> SUFFICES ASSUME BlockedInv, SyncedInv, [Next]_vars PROVE SyncedInv'
  OBVIOUS
<1>1. CASE Checkout
  <2> SUFFICES ASSUME synced PROVE FALSE
    BY <1>1 DEF Checkout, SyncedInv
  <2>1. PICK later \in Version : files \subseteq later /\ files # later
    BY <1>1 DEF Checkout
  <2>2. files = DOMAIN Migration
    BY DEF SyncedInv
  <2> QED BY <2>1, <2>2, VersionAssumption
<1>2. CASE SyncSchema
  BY <1>2 DEF SyncSchema, Idle, SyncedInv
<1>3. CASE RunBegin
  <2>1. run'.do = "up" /\ UNCHANGED <<schema, files, synced>>
    BY <1>3 DEF RunBegin, Begin
  <2> QED BY <2>1 DEF SyncedInv
<1>4. CASE RevertBegin
  <2> SUFFICES ASSUME synced PROVE SyncedInv'
    BY <1>4 DEF RevertBegin, SyncedInv
  <2> DEFINE m == recorded[Len(recorded)]
  <2>1. /\ run'.migration = m /\ run'.next = 1 /\ run'.schema = schema
        /\ recorded # <<>>
    BY <1>4 DEF RevertBegin, Begin
  <2>2. m \in 1..6
    BY <2>1, RowsLess DEF BlockedInv
  <2> HIDE DEF m
  <2>3. 1 \in 1..RefusedAt[m]
    BY <2>2 DEF RefusedAt
  <2> QED BY <1>4, <2>1, <2>2, <2>3 DEF RevertBegin, SyncedInv
<1>5. CASE Execute
  <2> SUFFICES ASSUME synced PROVE SyncedInv'
    BY <1>5 DEF Execute, SyncedInv
  <2>1. run'.do = run.do
    BY <1>5 DEF Execute, GoOn
  <2>2. CASE run.do = "down"
    <3>1. run' = GoOn(run.rows, run.migration, run.next + 1)
      BY <1>5, <2>2 DEF Execute
    <3>2. /\ run'.migration = run.migration /\ run'.next = run.next + 1
          /\ run'.schema = Apply(run.schema, Statement)
      BY <3>1 DEF GoOn
    <3> QED BY <1>5, <2>2, <3>2, RevertStep DEF Execute, SyncedInv
  <2>3. CASE run.do # "down"
    BY <1>5, <2>1, <2>3 DEF Execute, SyncedInv
  <2> QED BY <2>2, <2>3
<1>6. CASE Commit
  <2>1. ~synced /\ synced' = synced
    BY <1>6, SyncedEnds DEF Commit
  <2> QED BY <2>1 DEF SyncedInv
<1>7. CASE Refused
  BY <1>7 DEF Refused, Idle, SyncedInv
<1>8. CASE Dies
  BY <1>8 DEF Dies, Idle, SyncedInv
<1>9. CASE UNCHANGED vars
  BY <1>9 DEF vars, SyncedInv
<1> QED BY <1>1, <1>2, <1>3, <1>4, <1>5, <1>6, <1>7, <1>8, <1>9 DEF Next

\* However a database came to be, once a start script has synchronised it
\* neither a run nor a revert of the migrations commits.
THEOREM SynchronisedForGood == Spec => SyncFreezesRecord
<1>1. BlockedInv /\ SyncedInv /\ [Next]_vars => [synced => UNCHANGED recorded]_vars
  BY SyncedEnds
     DEF Next, Checkout, SyncSchema, RunBegin, RevertBegin, Execute, Refused, Dies, vars
<1> QED
  BY <1>1, BlockedInit, BlockedStep, SyncedInit, SyncedStep, PTL
     DEF Spec, SyncFreezesRecord

-----------------------------------------------------------------------------
(* What is in the database: the types, and the record.                     *)

\* The tables that each migration a run can record makes and its down drops.
TablesOf ==
    <<{"user_entity", "contact_information_entity"}, {"customer_entity"},
      {"category_entity"}, {"product_entity"}, {"transaction_entity"}, {"inventory"}>>

\* The tables that an up skips when they are there.
Skipped == {"user_entity", "contact_information_entity", "inventory"}

Kind(q) == q.do \in {"create", "createMissing", "key", "dropKey", "drop"}

LEMMA StatementFields ==
    /\ \A t, cs : Create(t, cs).do = "create" /\ Create(t, cs).table = t
    /\ \A t, cs : /\ CreateMissing(t, cs).do = "createMissing"
                  /\ CreateMissing(t, cs).table = t
    /\ \A t, c, e : /\ Key(t, c, e).do = "key" /\ Key(t, c, e).table = t
                    /\ Key(t, c, e).column = c /\ Key(t, c, e).to = e
    /\ \A t, c : DropKey(t, c).do = "dropKey" /\ DropKey(t, c).table = t
    /\ \A t : Drop(t).do = "drop" /\ Drop(t).table = t
<1>1. \A t, cs : Create(t, cs).do = "create" /\ Create(t, cs).table = t
  BY DEF Create
<1>2. \A t, cs : /\ CreateMissing(t, cs).do = "createMissing"
                 /\ CreateMissing(t, cs).table = t
  BY DEF Create, CreateMissing
<1>3. \A t, c, e : /\ Key(t, c, e).do = "key" /\ Key(t, c, e).table = t
                   /\ Key(t, c, e).column = c /\ Key(t, c, e).to = e
  BY DEF Key
<1> QED BY <1>1, <1>2, <1>3, DropFields

\* The statements of the files that a run can come to.
LEMMA UpFiles ==
    /\ Migration[1].up = <<CreateMissing("user_entity", {}),
            CreateMissing("contact_information_entity", {"userId"}),
            Key("contact_information_entity", "userId", "user_entity")>>
    /\ Migration[2].up = <<Create("customer_entity", {"store"}),
            Key("customer_entity", "store", "store")>>
    /\ Migration[3].up = <<Create("category_entity", {})>>
    /\ Migration[4].up = <<Create("product_entity", {"category", "store"}),
            Key("product_entity", "category", "category_entity"),
            Key("product_entity", "store", "store")>>
    /\ Migration[5].up = <<Create("transaction_entity", {"customer", "staff", "store"}),
            Key("transaction_entity", "customer", "customer_entity"),
            Key("transaction_entity", "staff", "user_entity"),
            Key("transaction_entity", "store", "store")>>
    /\ Migration[6].up = <<CreateMissing("inventory", {"storeID"}),
            Key("inventory", "storeID", "store")>>
    /\ Migration[7].up = <<Create("break_entity", {"attendanceId"}),
            Key("break_entity", "attendanceId", "attendance_entity"),
            Create("attendance_entity", {"storeId", "userId"}),
            Key("attendance_entity", "storeId", "store"),
            Key("attendance_entity", "userId", "user_entity")>>
<1>1. Migration[1].up = InitUser.up /\ Migration[2].up = InitCustomer.up
      /\ Migration[3].up = InitCategory.up /\ Migration[4].up = InitProduct.up
      /\ Migration[5].up = InitTransaction.up /\ Migration[6].up = InitInventory.up
      /\ Migration[7].up = InitAttendance.up
  BY DEF Migration
<1> QED BY <1>1 DEF InitUser, InitCustomer, InitCategory, InitProduct, InitTransaction,
                   InitInventory, InitAttendance

LEMMA DownFiles ==
    /\ Migration[1].down = <<DropKey("contact_information_entity", "userId"),
            Drop("user_entity"), Drop("contact_information_entity")>>
    /\ Migration[2].down = <<DropKey("customer_entity", "store"), Drop("customer_entity")>>
    /\ Migration[3].down = <<Drop("category_entity")>>
    /\ Migration[4].down = <<DropKey("product_entity", "category"),
            DropKey("product_entity", "store"), Drop("product_entity")>>
    /\ Migration[5].down = <<DropKey("transaction_entity", "customer"),
            DropKey("transaction_entity", "store"),
            DropKey("transaction_entity", "staff"), Drop("transaction_entity")>>
    /\ Migration[6].down = <<Drop("inventory")>>
<1>1. Migration[1].down = InitUser.down /\ Migration[2].down = InitCustomer.down
      /\ Migration[3].down = InitCategory.down /\ Migration[4].down = InitProduct.down
      /\ Migration[5].down = InitTransaction.down /\ Migration[6].down = InitInventory.down
  BY DEF Migration
<1> QED BY <1>1 DEF InitUser, InitCustomer, InitCategory, InitProduct, InitTransaction,
                   InitInventory

\* Every table that a run can come to create is an entity's.
LEMMA EntityTables ==
    /\ {"user_entity", "contact_information_entity", "customer_entity", "category_entity",
        "product_entity", "transaction_entity", "inventory", "break_entity",
        "attendance_entity"} \subseteq EntityTable
    /\ \A k \in EntityKey : {k.table, k.to} \subseteq EntityTable
    /\ \A c \in EntityColumn : c[1] \in EntityTable
<1>1. \A k \in EntityKey : {k.table, k.to} \subseteq EntityTable
  BY DEF EntityTable
<1>2. {Relation("contact_information_entity", "userId", "user_entity"),
       Relation("product_entity", "category", "category_entity"),
       Relation("transaction_entity", "customer", "customer_entity"),
       Relation("stock_control", "inventoryItemID", "inventory"),
       Relation("break_entity", "attendanceId", "attendance_entity")} \subseteq EntityKey
  BY DEF EntityKey, BreakKey, ContactKey, StockKey, ProductKey, TransactionKey
<1>3. \A t, c, u : Relation(t, c, u).table = t /\ Relation(t, c, u).to = u
  BY DEF Relation
<1> HIDE DEF EntityKey
<1>4. {"user_entity", "contact_information_entity", "customer_entity", "category_entity",
       "product_entity", "transaction_entity", "inventory", "break_entity",
       "attendance_entity"} \subseteq EntityTable
  BY <1>1, <1>2, <1>3
<1>5. \A c \in EntityColumn : c[1] \in EntityTable
  BY <1>1, <1>4 DEF EntityColumn
<1> QED BY <1>1, <1>4, <1>5

\* An up creates tables of entities, and keys.
LEMMA UpMakes ==
    ASSUME NEW m \in 1..7
    PROVE  /\ Len(Migration[m].up) \in Nat \ {0}
           /\ DOMAIN Migration[m].up = 1..Len(Migration[m].up)
           /\ \A i \in 1..Len(Migration[m].up) :
                /\ Migration[m].up[i].do \in {"create", "createMissing", "key"}
                /\ Migration[m].up[i].table \in EntityTable
                /\ Migration[m].up[i].do = "createMissing" =>
                      Migration[m].up[i].table \in Skipped
<1>1. CASE m = 1
  <2>1. /\ Len(Migration[1].up) = 3 /\ DOMAIN Migration[1].up = 1..3
        /\ Migration[1].up[1] = CreateMissing("user_entity", {})
        /\ Migration[1].up[2] = CreateMissing("contact_information_entity", {"userId"})
        /\ Migration[1].up[3] = Key("contact_information_entity", "userId", "user_entity")
    BY UpFiles
  <2>2. ASSUME NEW i \in 1..3 PROVE i \in {1, 2, 3}
    OBVIOUS
  <2> QED BY <1>1, <2>1, <2>2, StatementFields, EntityTables DEF Skipped
<1>2. CASE m = 2
  <2>1. /\ Len(Migration[2].up) = 2 /\ DOMAIN Migration[2].up = 1..2
        /\ Migration[2].up[1] = Create("customer_entity", {"store"})
        /\ Migration[2].up[2] = Key("customer_entity", "store", "store")
    BY UpFiles
  <2>2. ASSUME NEW i \in 1..2 PROVE i \in {1, 2}
    OBVIOUS
  <2> QED BY <1>2, <2>1, <2>2, StatementFields, EntityTables DEF Skipped
<1>3. CASE m = 3
  <2>1. /\ Len(Migration[3].up) = 1 /\ DOMAIN Migration[3].up = 1..1
        /\ Migration[3].up[1] = Create("category_entity", {})
    BY UpFiles
  <2>2. ASSUME NEW i \in 1..1 PROVE i \in {1}
    OBVIOUS
  <2> QED BY <1>3, <2>1, <2>2, StatementFields, EntityTables DEF Skipped
<1>4. CASE m = 4
  <2>1. /\ Len(Migration[4].up) = 3 /\ DOMAIN Migration[4].up = 1..3
        /\ Migration[4].up[1] = Create("product_entity", {"category", "store"})
        /\ Migration[4].up[2] = Key("product_entity", "category", "category_entity")
        /\ Migration[4].up[3] = Key("product_entity", "store", "store")
    BY UpFiles
  <2>2. ASSUME NEW i \in 1..3 PROVE i \in {1, 2, 3}
    OBVIOUS
  <2> QED BY <1>4, <2>1, <2>2, StatementFields, EntityTables DEF Skipped
<1>5. CASE m = 5
  <2>1. /\ Len(Migration[5].up) = 4 /\ DOMAIN Migration[5].up = 1..4
        /\ Migration[5].up[1] = Create("transaction_entity", {"customer", "staff", "store"})
        /\ Migration[5].up[2] = Key("transaction_entity", "customer", "customer_entity")
        /\ Migration[5].up[3] = Key("transaction_entity", "staff", "user_entity")
        /\ Migration[5].up[4] = Key("transaction_entity", "store", "store")
    BY UpFiles
  <2>2. ASSUME NEW i \in 1..4 PROVE i \in {1, 2, 3, 4}
    OBVIOUS
  <2> QED BY <1>5, <2>1, <2>2, StatementFields, EntityTables DEF Skipped
<1>6. CASE m = 6
  <2>1. /\ Len(Migration[6].up) = 2 /\ DOMAIN Migration[6].up = 1..2
        /\ Migration[6].up[1] = CreateMissing("inventory", {"storeID"})
        /\ Migration[6].up[2] = Key("inventory", "storeID", "store")
    BY UpFiles
  <2>2. ASSUME NEW i \in 1..2 PROVE i \in {1, 2}
    OBVIOUS
  <2> QED BY <1>6, <2>1, <2>2, StatementFields, EntityTables DEF Skipped
<1>7. CASE m = 7
  <2>1. /\ Len(Migration[7].up) = 5 /\ DOMAIN Migration[7].up = 1..5
        /\ Migration[7].up[1] = Create("break_entity", {"attendanceId"})
        /\ Migration[7].up[2] = Key("break_entity", "attendanceId", "attendance_entity")
        /\ Migration[7].up[3] = Create("attendance_entity", {"storeId", "userId"})
        /\ Migration[7].up[4] = Key("attendance_entity", "storeId", "store")
        /\ Migration[7].up[5] = Key("attendance_entity", "userId", "user_entity")
    BY UpFiles
  <2>2. ASSUME NEW i \in 1..5 PROVE i \in {1, 2, 3, 4, 5}
    OBVIOUS
  <2> QED BY <1>7, <2>1, <2>2, StatementFields, EntityTables DEF Skipped
<1> QED BY <1>1, <1>2, <1>3, <1>4, <1>5, <1>6, <1>7

\* A down takes back what the up of its file made, and drops all its tables.
LEMMA DownTakes ==
    ASSUME NEW m \in 1..6
    PROVE  /\ Len(Migration[m].down) \in Nat \ {0}
           /\ \A i \in 1..Len(Migration[m].down) :
                /\ Migration[m].down[i].do \in {"dropKey", "drop"}
                /\ Migration[m].down[i].table \in TablesOf[m]
           /\ \A t \in TablesOf[m] : \E i \in 1..Len(Migration[m].down) :
                Migration[m].down[i].do = "drop" /\ Migration[m].down[i].table = t
<1>1. CASE m = 1
  <2>1. /\ Len(Migration[1].down) = 3 /\ DOMAIN Migration[1].down = 1..3
        /\ Migration[1].down[1] = DropKey("contact_information_entity", "userId")
        /\ Migration[1].down[2] = Drop("user_entity")
        /\ Migration[1].down[3] = Drop("contact_information_entity")
    BY DownFiles
  <2>2. ASSUME NEW i \in 1..3 PROVE i \in {1, 2, 3}
    OBVIOUS
  <2> QED BY <1>1, <2>1, <2>2, StatementFields DEF TablesOf
<1>2. CASE m = 2
  <2>1. /\ Len(Migration[2].down) = 2 /\ DOMAIN Migration[2].down = 1..2
        /\ Migration[2].down[1] = DropKey("customer_entity", "store")
        /\ Migration[2].down[2] = Drop("customer_entity")
    BY DownFiles
  <2>2. ASSUME NEW i \in 1..2 PROVE i \in {1, 2}
    OBVIOUS
  <2> QED BY <1>2, <2>1, <2>2, StatementFields DEF TablesOf
<1>3. CASE m = 3
  <2>1. /\ Len(Migration[3].down) = 1 /\ DOMAIN Migration[3].down = 1..1
        /\ Migration[3].down[1] = Drop("category_entity")
    BY DownFiles
  <2>2. ASSUME NEW i \in 1..1 PROVE i \in {1}
    OBVIOUS
  <2> QED BY <1>3, <2>1, <2>2, StatementFields DEF TablesOf
<1>4. CASE m = 4
  <2>1. /\ Len(Migration[4].down) = 3 /\ DOMAIN Migration[4].down = 1..3
        /\ Migration[4].down[1] = DropKey("product_entity", "category")
        /\ Migration[4].down[2] = DropKey("product_entity", "store")
        /\ Migration[4].down[3] = Drop("product_entity")
    BY DownFiles
  <2>2. ASSUME NEW i \in 1..3 PROVE i \in {1, 2, 3}
    OBVIOUS
  <2> QED BY <1>4, <2>1, <2>2, StatementFields DEF TablesOf
<1>5. CASE m = 5
  <2>1. /\ Len(Migration[5].down) = 4 /\ DOMAIN Migration[5].down = 1..4
        /\ Migration[5].down[1] = DropKey("transaction_entity", "customer")
        /\ Migration[5].down[2] = DropKey("transaction_entity", "store")
        /\ Migration[5].down[3] = DropKey("transaction_entity", "staff")
        /\ Migration[5].down[4] = Drop("transaction_entity")
    BY DownFiles
  <2>2. ASSUME NEW i \in 1..4 PROVE i \in {1, 2, 3, 4}
    OBVIOUS
  <2> QED BY <1>5, <2>1, <2>2, StatementFields DEF TablesOf
<1>6. CASE m = 6
  <2>1. /\ Len(Migration[6].down) = 1 /\ DOMAIN Migration[6].down = 1..1
        /\ Migration[6].down[1] = Drop("inventory")
    BY DownFiles
  <2>2. ASSUME NEW i \in 1..1 PROVE i \in {1}
    OBVIOUS
  <2> QED BY <1>6, <2>1, <2>2, StatementFields DEF TablesOf
<1> QED BY <1>1, <1>2, <1>3, <1>4, <1>5, <1>6

\* A table of one file is no other file's.
LEMMA FilesApart ==
    ASSUME NEW m \in 1..6, NEW n \in 1..6, m # n
    PROVE  TablesOf[m] \cap TablesOf[n] = {}
<1>1. m \in {1, 2, 3, 4, 5, 6} /\ n \in {1, 2, 3, 4, 5, 6}
  OBVIOUS
<1> QED BY <1>1 DEF TablesOf

\* What is said of a file's statements, by their place.
LEMMA MadeAt ==
    ASSUME NEW m \in 1..7
    PROVE  /\ \A q \in Made(m) : \E i \in 1..Len(Migration[m].up) :
                q = Migration[m].up[i] /\ q.do \in {"create", "createMissing"}
           /\ \A i \in 1..Len(Migration[m].up) :
                Migration[m].up[i].do \in {"create", "createMissing"} =>
                   Migration[m].up[i] \in Made(m)
           /\ \A q \in MadeKeys(m) : \E i \in 1..Len(Migration[m].up) :
                q = Migration[m].up[i] /\ q.do = "key"
           /\ \A i \in 1..Len(Migration[m].up) :
                Migration[m].up[i].do = "key" => Migration[m].up[i] \in MadeKeys(m)
<1>1. DOMAIN Migration[m].up = 1..Len(Migration[m].up)
  BY UpMakes
<1> QED BY <1>1 DEF Made, MadeKeys

\* The up of a file makes the tables that its down drops, and keys on them.
LEMMA UpTables ==
    ASSUME NEW m \in 1..6
    PROVE  /\ {q.table : q \in Made(m)} = TablesOf[m]
           /\ \A q \in MadeKeys(m) : q.table \in TablesOf[m]
<1>0. \A i \in 1..Len(Migration[m].up) :
        /\ Migration[m].up[i].do \in {"create", "createMissing", "key"}
        /\ Migration[m].up[i].table \in TablesOf[m]
  <2>1. CASE m = 1
    <3>1. Len(Migration[1].up) = 3
          /\ Migration[1].up[1] = CreateMissing("user_entity", {})
          /\ Migration[1].up[2] = CreateMissing("contact_information_entity", {"userId"})
          /\ Migration[1].up[3] = Key("contact_information_entity", "userId", "user_entity")
      BY UpFiles
    <3>2. ASSUME NEW i \in 1..3 PROVE i \in {1, 2, 3}
      OBVIOUS
    <3> QED BY <2>1, <3>1, <3>2, StatementFields DEF TablesOf
  <2>2. CASE m = 2
    <3>1. Len(Migration[2].up) = 2
          /\ Migration[2].up[1] = Create("customer_entity", {"store"})
          /\ Migration[2].up[2] = Key("customer_entity", "store", "store")
      BY UpFiles
    <3>2. ASSUME NEW i \in 1..2 PROVE i \in {1, 2}
      OBVIOUS
    <3> QED BY <2>2, <3>1, <3>2, StatementFields DEF TablesOf
  <2>3. CASE m = 3
    <3>1. Len(Migration[3].up) = 1
          /\ Migration[3].up[1] = Create("category_entity", {})
      BY UpFiles
    <3>2. ASSUME NEW i \in 1..1 PROVE i \in {1}
      OBVIOUS
    <3> QED BY <2>3, <3>1, <3>2, StatementFields DEF TablesOf
  <2>4. CASE m = 4
    <3>1. Len(Migration[4].up) = 3
          /\ Migration[4].up[1] = Create("product_entity", {"category", "store"})
          /\ Migration[4].up[2] = Key("product_entity", "category", "category_entity")
          /\ Migration[4].up[3] = Key("product_entity", "store", "store")
      BY UpFiles
    <3>2. ASSUME NEW i \in 1..3 PROVE i \in {1, 2, 3}
      OBVIOUS
    <3> QED BY <2>4, <3>1, <3>2, StatementFields DEF TablesOf
  <2>5. CASE m = 5
    <3>1. Len(Migration[5].up) = 4
          /\ Migration[5].up[1] = Create("transaction_entity", {"customer", "staff", "store"})
          /\ Migration[5].up[2] = Key("transaction_entity", "customer", "customer_entity")
          /\ Migration[5].up[3] = Key("transaction_entity", "staff", "user_entity")
          /\ Migration[5].up[4] = Key("transaction_entity", "store", "store")
      BY UpFiles
    <3>2. ASSUME NEW i \in 1..4 PROVE i \in {1, 2, 3, 4}
      OBVIOUS
    <3> QED BY <2>5, <3>1, <3>2, StatementFields DEF TablesOf
  <2>6. CASE m = 6
    <3>1. Len(Migration[6].up) = 2
          /\ Migration[6].up[1] = CreateMissing("inventory", {"storeID"})
          /\ Migration[6].up[2] = Key("inventory", "storeID", "store")
      BY UpFiles
    <3>2. ASSUME NEW i \in 1..2 PROVE i \in {1, 2}
      OBVIOUS
    <3> QED BY <2>6, <3>1, <3>2, StatementFields DEF TablesOf
  <2> QED BY <2>1, <2>2, <2>3, <2>4, <2>5, <2>6
<1>1. \A t \in TablesOf[m] : \E i \in 1..Len(Migration[m].up) :
        /\ Migration[m].up[i].do \in {"create", "createMissing"}
        /\ Migration[m].up[i].table = t
  <2>1. CASE m = 1
    <3>1. Len(Migration[1].up) = 3
          /\ Migration[1].up[1] = CreateMissing("user_entity", {})
          /\ Migration[1].up[2] = CreateMissing("contact_information_entity", {"userId"})
          /\ Migration[1].up[3] = Key("contact_information_entity", "userId", "user_entity")
      BY UpFiles
    <3>2. ASSUME NEW i \in 1..3 PROVE i \in {1, 2, 3}
      OBVIOUS
    <3> QED BY <2>1, <3>1, <3>2, StatementFields DEF TablesOf
  <2>2. CASE m = 2
    <3>1. Len(Migration[2].up) = 2
          /\ Migration[2].up[1] = Create("customer_entity", {"store"})
          /\ Migration[2].up[2] = Key("customer_entity", "store", "store")
      BY UpFiles
    <3>2. ASSUME NEW i \in 1..2 PROVE i \in {1, 2}
      OBVIOUS
    <3> QED BY <2>2, <3>1, <3>2, StatementFields DEF TablesOf
  <2>3. CASE m = 3
    <3>1. Len(Migration[3].up) = 1
          /\ Migration[3].up[1] = Create("category_entity", {})
      BY UpFiles
    <3>2. ASSUME NEW i \in 1..1 PROVE i \in {1}
      OBVIOUS
    <3> QED BY <2>3, <3>1, <3>2, StatementFields DEF TablesOf
  <2>4. CASE m = 4
    <3>1. Len(Migration[4].up) = 3
          /\ Migration[4].up[1] = Create("product_entity", {"category", "store"})
          /\ Migration[4].up[2] = Key("product_entity", "category", "category_entity")
          /\ Migration[4].up[3] = Key("product_entity", "store", "store")
      BY UpFiles
    <3>2. ASSUME NEW i \in 1..3 PROVE i \in {1, 2, 3}
      OBVIOUS
    <3> QED BY <2>4, <3>1, <3>2, StatementFields DEF TablesOf
  <2>5. CASE m = 5
    <3>1. Len(Migration[5].up) = 4
          /\ Migration[5].up[1] = Create("transaction_entity", {"customer", "staff", "store"})
          /\ Migration[5].up[2] = Key("transaction_entity", "customer", "customer_entity")
          /\ Migration[5].up[3] = Key("transaction_entity", "staff", "user_entity")
          /\ Migration[5].up[4] = Key("transaction_entity", "store", "store")
      BY UpFiles
    <3>2. ASSUME NEW i \in 1..4 PROVE i \in {1, 2, 3, 4}
      OBVIOUS
    <3> QED BY <2>5, <3>1, <3>2, StatementFields DEF TablesOf
  <2>6. CASE m = 6
    <3>1. Len(Migration[6].up) = 2
          /\ Migration[6].up[1] = CreateMissing("inventory", {"storeID"})
          /\ Migration[6].up[2] = Key("inventory", "storeID", "store")
      BY UpFiles
    <3>2. ASSUME NEW i \in 1..2 PROVE i \in {1, 2}
      OBVIOUS
    <3> QED BY <2>6, <3>1, <3>2, StatementFields DEF TablesOf
  <2> QED BY <2>1, <2>2, <2>3, <2>4, <2>5, <2>6
<1>2. /\ \A q \in Made(m) : \E i \in 1..Len(Migration[m].up) :
             q = Migration[m].up[i] /\ q.do \in {"create", "createMissing"}
      /\ \A i \in 1..Len(Migration[m].up) :
            Migration[m].up[i].do \in {"create", "createMissing"} =>
               Migration[m].up[i] \in Made(m)
      /\ \A q \in MadeKeys(m) : \E i \in 1..Len(Migration[m].up) :
            q = Migration[m].up[i] /\ q.do = "key"
  <2>1. m \in 1..7
    OBVIOUS
  <2> QED BY <2>1, MadeAt
<1>3. \A q \in Made(m) : q.table \in TablesOf[m]
  BY <1>0, <1>2
<1>4. \A t \in TablesOf[m] : \E q \in Made(m) : q.table = t
  BY <1>1, <1>2
<1>5. \A q \in MadeKeys(m) : q.table \in TablesOf[m]
  BY <1>0, <1>2
<1> QED BY <1>3, <1>4, <1>5

-----------------------------------------------------------------------------

\* A schema with its three parts.
SchemaInv(s) ==
    /\ s = [tables |-> s.tables, columns |-> s.columns, keys |-> s.keys]
    /\ SchemaOK(s)

\* The statement that the run is at.
RunTyped ==
    run # Idle =>
      /\ SchemaInv(run.schema)
      /\ run.next \in 1..Len(Statements)

TypeInv ==
    /\ existing \in Existing
    /\ SchemaInv(schema)
    /\ synced \in BOOLEAN
    /\ deaths \in 0..MaxDeaths
    /\ RunTyped

\* A statement that is accepted leaves a schema, if the table it makes is an
\* entity's.
LEMMA ApplyTyped ==
    ASSUME NEW s, NEW q, SchemaInv(s), Kind(q), Accepts(s, q),
           q.do \in {"create", "createMissing"} => q.table \in EntityTable
    PROVE  SchemaInv(Apply(s, q))
<1> DEFINE t == q.table
<1> USE DEF SchemaInv, SchemaOK
<1>1. CASE q.do = "createMissing" /\ t \in s.tables
  BY <1>1 DEF Apply
<1>2. CASE q.do \in {"create", "createMissing"} /\ t \notin s.tables
  <2> DEFINE new == {<<t, c>> : c \in q.columns}
  <2>1. Apply(s, q) = [tables |-> s.tables \cup {t}, columns |-> s.columns \cup new,
                       keys |-> s.keys]
    BY <1>2 DEF Apply
  <2>2. \A c \in new : c[1] = t
    OBVIOUS
  <2> HIDE DEF new
  <2> QED BY <1>2, <2>1, <2>2
<1>3. CASE q.do = "key"
  <2> DEFINE k == [table |-> t, column |-> q.column, to |-> q.to]
  <2>1. Apply(s, q) = [tables |-> s.tables, columns |-> s.columns, keys |-> s.keys \cup {k}]
    BY <1>3 DEF Apply
  <2>2. {k.table, k.to} \subseteq s.tables
    BY <1>3 DEF Accepts
  <2> HIDE DEF k
  <2> QED BY <2>1, <2>2
<1>4. CASE q.do = "dropKey"
  <2> DEFINE rest == {k \in s.keys : ~(k.table = q.table /\ k.column = q.column)}
  <2>1. Apply(s, q) = [tables |-> s.tables, columns |-> s.columns, keys |-> rest]
    BY <1>4 DEF Apply
  <2>2. rest \subseteq s.keys
    OBVIOUS
  <2> HIDE DEF rest
  <2> QED BY <2>1, <2>2
<1>5. CASE q.do = "drop"
  <2>1. Apply(s, q) = [tables |-> s.tables \ {t}, columns |-> s.columns \ Of(t, s.columns),
                       keys |-> s.keys \ KeysOn(s, t)]
    BY <1>5 DEF Apply
  <2>2. \A c \in s.columns \ Of(t, s.columns) : c[1] \in s.tables \ {t}
    BY DEF Of
  <2>3. \A k \in s.keys \ KeysOn(s, t) : {k.table, k.to} \subseteq s.tables \ {t}
    BY <1>5 DEF Accepts, KeysOn
  <2> QED BY <2>1, <2>2, <2>3
<1>6. CASE q.do = "create" /\ t \in s.tables
  BY <1>6 DEF Accepts
<1> QED BY <1>1, <1>2, <1>3, <1>4, <1>5, <1>6 DEF Kind

\* What the statement under way can be.
LEMMA StatementTyped ==
    ASSUME TypeInv, BlockedInv, run # Idle
    PROVE  /\ Kind(Statement)
           /\ Statement.do \in {"create", "createMissing"} => Statement.table \in EntityTable
           /\ run.do = "up" =>
                /\ Statement = Migration[run.migration].up[run.next]
                /\ run.next \in 1..Len(Migration[run.migration].up)
                /\ Statement.do \in {"create", "createMissing", "key"}
                /\ Statement.do = "createMissing" => Statement.table \in Skipped
           /\ run.do = "down" =>
                /\ run.migration \in 1..6
                /\ Statement = Migration[run.migration].down[run.next]
                /\ run.next \in 1..Len(Migration[run.migration].down)
                /\ Statement.do \in {"dropKey", "drop"}
                /\ Statement.table \in TablesOf[run.migration]
<1> DEFINE m == run.migration
           i == run.next
<1>0. run.do \in {"up", "down"} /\ i \in 1..Len(Statements)
  BY DEF TypeInv, RunTyped, BlockedInv, RunBlocked
<1>1. CASE run.do = "up"
  <2>1. Statements = Migration[m].up /\ Statement = Migration[m].up[i]
    BY <1>1 DEF Statements, Statement
  <2>2. m \in 1..7
    BY <1>1 DEF BlockedInv, RunBlocked, UpBlocked
  <2>3. /\ i \in 1..Len(Migration[m].up)
        /\ Statement.do \in {"create", "createMissing", "key"}
        /\ Statement.table \in EntityTable
        /\ Statement.do = "createMissing" => Statement.table \in Skipped
    BY <1>0, <2>1, <2>2, UpMakes
  <2> QED BY <1>1, <2>1, <2>3 DEF Kind
<1>2. CASE run.do = "down"
  <2>1. Statements = Migration[m].down /\ Statement = Migration[m].down[i]
    BY <1>2 DEF Statements, Statement
  <2>2. m \in 1..6
    BY <1>2, AfterDown
  <2>3. /\ i \in 1..Len(Migration[m].down)
        /\ Statement.do \in {"dropKey", "drop"} /\ Statement.table \in TablesOf[m]
    BY <1>0, <2>1, <2>2, DownTakes
  <2> QED BY <1>2, <2>1, <2>2, <2>3 DEF Kind
<1> QED BY <1>0, <1>1, <1>2

\* The first statement of a file that a run or a revert comes to.
LEMMA FirstTyped ==
    ASSUME run'.next = 1,
           \/ run'.do = "up" /\ run'.migration \in 1..7
           \/ run'.do = "down" /\ run'.migration \in 1..6
    PROVE  run'.next \in 1..Len(Statements')
<1>1. Statements' = Migration[run'.migration].up \/ Statements' = Migration[run'.migration].down
  BY DEF Statements
<1>2. CASE run'.do = "up"
  <2>1. Statements' = Migration[run'.migration].up /\ run'.migration \in 1..7
    BY <1>2 DEF Statements
  <2>2. \A m \in 1..7 : 1 \in 1..Len(Migration[m].up)
    BY UpMakes
  <2> QED BY <2>1, <2>2
<1>3. CASE run'.do = "down"
  <2>1. Statements' = Migration[run'.migration].down /\ run'.migration \in 1..6
    BY <1>3 DEF Statements
  <2>2. \A m \in 1..6 : 1 \in 1..Len(Migration[m].down)
    BY DownTakes
  <2> QED BY <2>1, <2>2
<1> QED BY <1>2, <1>3

\* Where a run or a revert is.
AtFile ==
    run # Idle => \/ run.do = "up" /\ run.migration \in 1..7
                  \/ run.do = "down" /\ run.migration \in 1..6

LEMMA InFiles == BlockedInv => AtFile
<1> SUFFICES ASSUME BlockedInv, run # Idle
             PROVE  \/ run.do = "up" /\ run.migration \in 1..7
                    \/ run.do = "down" /\ run.migration \in 1..6
  BY DEF AtFile
<1>1. run.do \in {"up", "down"}
  BY DEF BlockedInv, RunBlocked
<1>2. run.do = "up" => run.migration \in 1..7
  BY DEF BlockedInv, RunBlocked, UpBlocked
<1> QED BY <1>1, <1>2, AfterDown

LEMMA TypeInit == Init => TypeInv
<1> SUFFICES ASSUME Init PROVE TypeInv
  OBVIOUS
<1>1. run = Idle /\ existing \in Existing /\ synced = FALSE /\ deaths = 0
  BY DEF Init
<1>2. SchemaInv(schema)
  BY DEF Init, SchemaInv, SchemaOK, FoundKeys
<1>3. deaths \in 0..MaxDeaths
  BY <1>1, MaxDeathsAssumption
<1>4. synced \in BOOLEAN
  BY <1>1, Zenon
<1>5. RunTyped
  BY <1>1 DEF RunTyped
<1> QED BY <1>1, <1>2, <1>3, <1>4, <1>5 DEF TypeInv

\* The parts of a schema that a synchronisation makes.
LEMMA SyncTyped ==
    ASSUME TypeInv, SyncSchema
    PROVE  SchemaInv(schema')
<1> DEFINE T == schema.tables \cup EntityTable
           C == {c \in schema.columns : c[1] \notin EntityTable} \cup EntityColumn
           K == {k \in schema.keys : k.table \notin EntityTable} \cup EntityKey
<1>1. schema' = [tables |-> T, columns |-> C, keys |-> K]
  BY DEF SyncSchema
<1>2. SchemaOK(schema)
  BY DEF TypeInv, SchemaInv
<1>3. T \subseteq existing \cup EntityTable
  BY <1>2 DEF SchemaOK
<1>4. \A c \in C : c[1] \in T
  BY <1>2, EntityTables DEF SchemaOK
<1>5. \A k \in K : {k.table, k.to} \subseteq T
  BY <1>2, EntityTables DEF SchemaOK
<1> HIDE DEF T, C, K
<1> QED BY <1>1, <1>3, <1>4, <1>5 DEF SchemaInv, SchemaOK

LEMMA TypeStep == TypeInv /\ BlockedInv /\ BlockedInv' /\ [Next]_vars => TypeInv'
<1> SUFFICES ASSUME TypeInv, BlockedInv, BlockedInv', [Next]_vars PROVE TypeInv'
  OBVIOUS
<1>0. existing' = existing
  BY DEF Next, Checkout, SyncSchema, RunBegin, RevertBegin, Execute, Commit, Refused, Dies, vars
<1>t. /\ existing \in Existing /\ SchemaInv(schema)
      /\ synced \in BOOLEAN /\ deaths \in 0..MaxDeaths /\ RunTyped
  BY DEF TypeInv
<1>i. run' = Idle => RunTyped'
  BY DEF RunTyped, Idle
<1>u. TypeInv' <=>
        /\ existing' \in Existing /\ SchemaInv(schema')
        /\ synced' \in BOOLEAN /\ deaths' \in 0..MaxDeaths /\ RunTyped'
  BY <1>0 DEF TypeInv, SchemaInv, SchemaOK
<1>r. RunTyped' <=>
        (run' # Idle => SchemaInv(run'.schema) /\ run'.next \in 1..Len(Statements'))
  BY <1>0 DEF RunTyped, SchemaInv, SchemaOK, Idle
<1>b. run' # Idle => \/ run'.do = "up" /\ run'.migration \in 1..7
                     \/ run'.do = "down" /\ run'.migration \in 1..6
  <2>1. AtFile'
    BY InFiles, PTL
  <2> QED BY <2>1 DEF AtFile, Idle
<1>1. CASE Checkout
  BY <1>0, <1>1, <1>t, <1>i, <1>u DEF Checkout
<1>2. CASE SyncSchema
  <2>1. run' = Idle /\ synced' = TRUE /\ UNCHANGED deaths
    BY <1>2 DEF SyncSchema
  <2>2. SchemaInv(schema')
    BY <1>2, SyncTyped
  <2> QED BY <1>0, <1>t, <1>i, <1>u, <2>1, <2>2
<1>3. CASE RunBegin \/ RevertBegin
  <2>1. /\ run'.do \in {"up", "down"} /\ run'.schema = schema /\ run'.next = 1
        /\ UNCHANGED <<schema, synced, deaths>>
    BY <1>3 DEF RunBegin, RevertBegin, Begin
  <2>2. run' # Idle
    BY <2>1 DEF Idle
  <2>3. run'.next \in 1..Len(Statements')
    BY <1>b, <2>1, <2>2, FirstTyped
  <2>4. RunTyped'
    BY <1>r, <1>t, <2>1, <2>3
  <2> QED BY <1>0, <1>t, <1>u, <2>1, <2>4
<1>5. CASE Execute
  <2>1. /\ run # Idle /\ Accepts(run.schema, Statement)
        /\ UNCHANGED <<schema, synced, deaths>>
    BY <1>5 DEF Execute
  <2>2. SchemaInv(Apply(run.schema, Statement))
    BY <1>t, <2>1, ApplyTyped, StatementTyped DEF RunTyped
  <2>3. run.next \in 1..Len(Statements) /\ run.do \in {"up", "down"}
    BY <1>t, <2>1 DEF RunTyped, BlockedInv, RunBlocked
  <2>4. CASE ~AtLast /\ run' = GoOn(run.rows, run.migration, run.next + 1)
    <3>1. /\ run'.do = run.do /\ run'.migration = run.migration
          /\ run'.schema = Apply(run.schema, Statement) /\ run'.next = run.next + 1
      BY <2>4 DEF GoOn
    <3>2. Statements' = Statements
      BY <3>1 DEF Statements
    <3>3. run'.next \in 1..Len(Statements')
      BY <2>3, <2>4, <3>1, <3>2 DEF AtLast
    <3>4. RunTyped'
      BY <1>r, <2>2, <3>1, <3>3
    <3> QED BY <1>0, <1>t, <1>u, <2>1, <3>4
  <2>5. CASE \E m \in Due(RowsAfter) : run' = GoOn(RowsAfter, m, 1)
    <3>1. /\ run'.do \in {"up", "down"}
          /\ run'.schema = Apply(run.schema, Statement) /\ run'.next = 1
      BY <2>3, <2>5 DEF GoOn
    <3>2. run' # Idle
      BY <3>1 DEF Idle
    <3>3. run'.next \in 1..Len(Statements')
      BY <1>b, <3>1, <3>2, FirstTyped
    <3>4. RunTyped'
      BY <1>r, <2>2, <3>1, <3>3
    <3> QED BY <1>0, <1>t, <1>u, <2>1, <3>4
  <2> QED BY <1>5, <2>4, <2>5 DEF Execute
<1>6. CASE Commit
  <2>1. /\ run # Idle /\ Accepts(run.schema, Statement)
        /\ schema' = Apply(run.schema, Statement) /\ run' = Idle
        /\ UNCHANGED <<synced, deaths>>
    BY <1>6 DEF Commit
  <2>2. SchemaInv(Apply(run.schema, Statement))
    BY <1>t, <2>1, ApplyTyped, StatementTyped DEF RunTyped
  <2> QED BY <1>0, <1>t, <1>i, <1>u, <2>1, <2>2
<1>7. CASE Refused
  BY <1>0, <1>7, <1>t, <1>i, <1>u DEF Refused
<1>8. CASE Dies
  <2>1. deaths' \in 0..MaxDeaths
    BY <1>8, <1>t, MaxDeathsAssumption DEF Dies
  <2> QED BY <1>0, <1>8, <1>t, <1>i, <1>u, <2>1 DEF Dies
<1>9. CASE UNCHANGED vars
  <2>1. UNCHANGED <<existing, schema, synced, run, deaths>>
    BY <1>9 DEF vars
  <2>2. Statements' = Statements
    BY <2>1 DEF Statements
  <2>3. RunTyped'
    BY <1>r, <1>t, <2>1, <2>2 DEF RunTyped
  <2> QED BY <1>t, <1>u, <2>1, <2>3
<1> QED BY <1>1, <1>2, <1>3, <1>5, <1>6, <1>7, <1>8, <1>9 DEF Next

\* For every set of tables found at first, whatever versions there were and
\* however often a command is interrupted: every key joins two tables there
\* are and every table is an entity's or was found, in the database and in the
\* view of a run or revert under way.
THEOREM SchemaTyped == Spec => []TypeOK
<1>1. TypeInv /\ BlockedInv => TypeOK
  <2> SUFFICES ASSUME TypeInv, BlockedInv PROVE TypeOK
    OBVIOUS
  <2>1. files \in Version /\ recorded \in Seq(files)
    BY RowsRange DEF BlockedInv
  <2>2. ASSUME run # Idle
        PROVE  /\ run.do \in {"up", "down"} /\ SchemaOK(run.schema)
               /\ run.rows \in Seq(files) /\ run.migration \in files
               /\ run.next \in 1..Len(Statements)
    <3>1. run.do \in {"up", "down"} /\ run.rows \in RowsOf(files)
      BY <2>2 DEF BlockedInv, RunBlocked
    <3>2. SchemaOK(run.schema) /\ run.next \in 1..Len(Statements)
      BY <2>2 DEF TypeInv, RunTyped, SchemaInv
    <3>3. run.migration \in files
      BY <3>1, AfterDown DEF BlockedInv, RunBlocked, UpBlocked
    <3> QED BY <3>1, <3>2, <3>3, RowsRange
  <2> QED BY <2>1, <2>2 DEF TypeInv, SchemaInv, TypeOK
<1> QED BY <1>1, TypeInit, TypeStep, BlockedInit, BlockedStep, PTL DEF Spec

-----------------------------------------------------------------------------
(* The record.  A run adds the tables and keys of one file after another;  *)
(* a revert takes away those of the last one and no others, since no two   *)
(* files make one table and every file's keys are on its own tables.  What *)
(* was found stays: an up that does not skip a table was refused where the *)
(* table was found, so that no down drops it.                              *)

\* What the first i statements of a file's up make, and what those of its
\* down drop.
UpTablesTo(m, i) ==
    {Migration[m].up[j].table :
       j \in {j \in 1..i : Migration[m].up[j].do \in {"create", "createMissing"}}}
UpKeysTo(m, i) ==
    {KeyOf(Migration[m].up[j]) : j \in {j \in 1..i : Migration[m].up[j].do = "key"}}
DroppedTo(m, i) ==
    {Migration[m].down[j].table : j \in {j \in 1..i : Migration[m].down[j].do = "drop"}}

\* The tables found that no up skips.
Firm == existing \ Skipped

\* The view of a run has what the files recorded and its statements so far
\* made; that of a revert lacks what its statements so far dropped.
UpBuilt(R, m, i, s) ==
    LET T == TablesMade(R) \cup UpTablesTo(m, i)
        K == KeysMade(R) \cup UpKeysTo(m, i)
    IN  /\ s.tables \ existing = T \ existing
        /\ T \subseteq s.tables
        /\ K \subseteq s.keys
        /\ s.keys \subseteq K \cup FoundKeys
        /\ Firm \subseteq s.tables
        /\ T \cap Firm = {}

DownBuilt(R, m, i, s) ==
    LET T == TablesMade(R) \ DroppedTo(m, i)
    IN  /\ s.tables \ existing = T \ existing
        /\ T \subseteq s.tables
        /\ KeysMade(R \ {m}) \subseteq s.keys
        /\ s.keys \subseteq KeysMade(R) \cup FoundKeys
        /\ \A k \in s.keys : k.table \notin DroppedTo(m, i)
        /\ Firm \subseteq s.tables
        /\ TablesMade(R) \cap Firm = {}

\* The committed schema has what the files recorded made.
Built(R, s) ==
    /\ s.tables \ existing = TablesMade(R) \ existing
    /\ TablesMade(R) \subseteq s.tables
    /\ KeysMade(R) \subseteq s.keys
    /\ s.keys \subseteq KeysMade(R) \cup FoundKeys
    /\ Firm \subseteq s.tables
    /\ TablesMade(R) \cap Firm = {}

RunBuilt ==
    /\ run.do = "up" => UpBuilt(Range(run.rows), run.migration, run.next - 1, run.schema)
    /\ run.do = "down" => DownBuilt(Range(run.rows), run.migration, run.next - 1, run.schema)

BuiltInv ==
    /\ Firm \subseteq schema.tables
    /\ ~synced => Built(Range(recorded), schema) /\ RunBuilt

LEMMA NoneMade ==
    /\ TablesMade({}) = {} /\ KeysMade({}) = {}
    /\ \A m : UpTablesTo(m, 0) = {} /\ UpKeysTo(m, 0) = {} /\ DroppedTo(m, 0) = {}
<1>1. 1..0 = {}
  OBVIOUS
<1> QED BY <1>1 DEF TablesMade, KeysMade, UpTablesTo, UpKeysTo, DroppedTo

\* What a whole up makes.
LEMMA WholeUp ==
    ASSUME NEW m \in 1..7
    PROVE  /\ {q.table : q \in Made(m)} = UpTablesTo(m, Len(Migration[m].up))
           /\ {KeyOf(q) : q \in MadeKeys(m)} = UpKeysTo(m, Len(Migration[m].up))
<1> DEFINE n == Len(Migration[m].up)
<1>2. {q.table : q \in Made(m)} = UpTablesTo(m, n)
  <2>1. ASSUME NEW q \in Made(m) PROVE q.table \in UpTablesTo(m, n)
    <3>1. PICK i \in 1..n : q = Migration[m].up[i] /\ q.do \in {"create", "createMissing"}
      BY MadeAt
    <3> QED BY <3>1 DEF UpTablesTo
  <2>2. ASSUME NEW i \in 1..n, Migration[m].up[i].do \in {"create", "createMissing"}
        PROVE  Migration[m].up[i].table \in {q.table : q \in Made(m)}
    <3>1. Migration[m].up[i] \in Made(m)
      BY <2>2, MadeAt
    <3> QED BY <3>1
  <2> QED BY <2>1, <2>2 DEF UpTablesTo
<1>3. {KeyOf(q) : q \in MadeKeys(m)} = UpKeysTo(m, n)
  <2>1. ASSUME NEW q \in MadeKeys(m) PROVE KeyOf(q) \in UpKeysTo(m, n)
    <3>1. PICK i \in 1..n : q = Migration[m].up[i] /\ q.do = "key"
      BY MadeAt
    <3> QED BY <3>1 DEF UpKeysTo
  <2>2. ASSUME NEW i \in 1..n, Migration[m].up[i].do = "key"
        PROVE  KeyOf(Migration[m].up[i]) \in {KeyOf(q) : q \in MadeKeys(m)}
    <3>1. Migration[m].up[i] \in MadeKeys(m)
      BY <2>2, MadeAt
    <3> QED BY <3>1
  <2> QED BY <2>1, <2>2 DEF UpKeysTo
<1> QED BY <1>2, <1>3

\* One file more.
LEMMA FileMore ==
    ASSUME NEW R, NEW m
    PROVE  /\ TablesMade(R \cup {m}) = TablesMade(R) \cup {q.table : q \in Made(m)}
           /\ KeysMade(R \cup {m}) = KeysMade(R) \cup {KeyOf(q) : q \in MadeKeys(m)}
  BY DEF TablesMade, KeysMade

\* One statement more.
LEMMA OneMore ==
    ASSUME NEW m, NEW i \in Nat \ {0}
    PROVE  /\ UpTablesTo(m, i) = UpTablesTo(m, i - 1) \cup
                (IF Migration[m].up[i].do \in {"create", "createMissing"}
                   THEN {Migration[m].up[i].table} ELSE {})
           /\ UpKeysTo(m, i) = UpKeysTo(m, i - 1) \cup
                (IF Migration[m].up[i].do = "key" THEN {KeyOf(Migration[m].up[i])} ELSE {})
           /\ DroppedTo(m, i) = DroppedTo(m, i - 1) \cup
                (IF Migration[m].down[i].do = "drop" THEN {Migration[m].down[i].table} ELSE {})
<1>1. 1..i = 1..(i - 1) \cup {i}
  OBVIOUS
<1>2. UpTablesTo(m, i) = UpTablesTo(m, i - 1) \cup
                (IF Migration[m].up[i].do \in {"create", "createMissing"}
                   THEN {Migration[m].up[i].table} ELSE {})
  BY <1>1 DEF UpTablesTo
<1>3. UpKeysTo(m, i) = UpKeysTo(m, i - 1) \cup
                (IF Migration[m].up[i].do = "key" THEN {KeyOf(Migration[m].up[i])} ELSE {})
  BY <1>1 DEF UpKeysTo
<1>4. DroppedTo(m, i) = DroppedTo(m, i - 1) \cup
                (IF Migration[m].down[i].do = "drop" THEN {Migration[m].down[i].table} ELSE {})
  BY <1>1 DEF DroppedTo
<1> QED BY <1>2, <1>3, <1>4

\* The tables of the file a revert takes back are those the other files do
\* not have; their keys are on their tables.
LEMMA FileLast ==
    ASSUME NEW R, R \subseteq 1..6, NEW m \in 1..6, m \notin R
    PROVE  /\ TablesMade(R \cup {m}) = TablesMade(R) \cup TablesOf[m]
           /\ TablesMade(R) \cap TablesOf[m] = {}
           /\ \A k \in KeysMade(R) : k.table \notin TablesOf[m]
           /\ \A k \in KeysMade(R \cup {m}) : k \in KeysMade(R) \/ k.table \in TablesOf[m]
           /\ DroppedTo(m, Len(Migration[m].down)) = TablesOf[m]
           /\ KeysMade(R) \subseteq KeysMade(R \cup {m})
<1>1. \A n \in 1..6 : /\ {q.table : q \in Made(n)} = TablesOf[n]
                      /\ \A q \in MadeKeys(n) : q.table \in TablesOf[n]
  BY UpTables
<1>2. \A n \in R : n \in 1..6 /\ n # m
  OBVIOUS
<1>3. TablesMade(R \cup {m}) = TablesMade(R) \cup TablesOf[m]
  BY <1>1, FileMore
<1>4. \A t \in TablesMade(R) : t \notin TablesOf[m]
  <2> SUFFICES ASSUME NEW n \in R, NEW t \in TablesOf[n] PROVE t \notin TablesOf[m]
    BY <1>1, <1>2 DEF TablesMade
  <2> QED BY <1>2, FilesApart
<1>5. \A k \in KeysMade(R) : k.table \notin TablesOf[m]
  <2> SUFFICES ASSUME NEW n \in R, NEW q \in MadeKeys(n)
               PROVE  KeyOf(q).table \notin TablesOf[m]
    BY DEF KeysMade
  <2>1. KeyOf(q).table = q.table
    BY DEF KeyOf
  <2>2. q.table \in TablesOf[n]
    BY <1>1, <1>2
  <2> QED BY <1>2, <2>1, <2>2, FilesApart
<1>6. \A q : KeyOf(q).table = q.table
  BY DEF KeyOf
<1>7. \A k \in {KeyOf(q) : q \in MadeKeys(m)} : k.table \in TablesOf[m]
  BY <1>1, <1>6
<1>8. KeysMade(R \cup {m}) = KeysMade(R) \cup {KeyOf(q) : q \in MadeKeys(m)}
  BY FileMore
<1>9. DroppedTo(m, Len(Migration[m].down)) = TablesOf[m]
  <2>1. ASSUME NEW t \in TablesOf[m] PROVE t \in DroppedTo(m, Len(Migration[m].down))
    <3>1. PICK i \in 1..Len(Migration[m].down) :
            Migration[m].down[i].do = "drop" /\ Migration[m].down[i].table = t
      BY DownTakes
    <3> QED BY <3>1 DEF DroppedTo
  <2>2. \A i \in 1..Len(Migration[m].down) : Migration[m].down[i].table \in TablesOf[m]
    BY DownTakes
  <2>3. \A t \in DroppedTo(m, Len(Migration[m].down)) : t \in TablesOf[m]
    BY <2>2 DEF DroppedTo
  <2> QED BY <2>1, <2>3
<1> QED BY <1>3, <1>4, <1>5, <1>7, <1>8, <1>9

\* What an accepted statement of each kind leaves of the tables and the keys.
LEMMA ApplyBuilds ==
    ASSUME NEW s, NEW q, SchemaInv(s), Accepts(s, q)
    PROVE  /\ q.do \in {"create", "createMissing"} =>
                /\ Apply(s, q).tables = s.tables \cup {q.table}
                /\ Apply(s, q).keys = s.keys
           /\ q.do = "key" =>
                /\ Apply(s, q).tables = s.tables
                /\ Apply(s, q).keys = s.keys \cup {KeyOf(q)}
           /\ q.do = "dropKey" =>
                /\ Apply(s, q).tables = s.tables
                /\ Apply(s, q).keys = {k \in s.keys : ~(k.table = q.table /\ k.column = q.column)}
           /\ q.do = "drop" =>
                /\ Apply(s, q).tables = s.tables \ {q.table}
                /\ Apply(s, q).keys = {k \in s.keys : k.table # q.table}
<1> DEFINE t == q.table
<1>0. s = [tables |-> s.tables, columns |-> s.columns, keys |-> s.keys]
  BY DEF SchemaInv
<1>1. CASE q.do = "createMissing" /\ t \in s.tables
  BY <1>1 DEF Apply
<1>2. CASE q.do \in {"create", "createMissing"} /\ t \notin s.tables
  <2>1. Apply(s, q) = [tables |-> s.tables \cup {t},
                       columns |-> s.columns \cup {<<t, c>> : c \in q.columns},
                       keys |-> s.keys]
    BY <1>0, <1>2 DEF Apply
  <2> QED BY <1>2, <2>1
<1>3. CASE q.do = "key"
  BY <1>3 DEF Apply, KeyOf
<1>4. CASE q.do = "dropKey"
  <2> DEFINE rest == {k \in s.keys : ~(k.table = q.table /\ k.column = q.column)}
  <2>1. Apply(s, q) = [tables |-> s.tables, columns |-> s.columns, keys |-> rest]
    BY <1>0, <1>4 DEF Apply
  <2> QED BY <1>4, <2>1
<1>5. CASE q.do = "drop"
  <2>1. Apply(s, q) = [tables |-> s.tables \ {t}, columns |-> s.columns \ Of(t, s.columns),
                       keys |-> s.keys \ KeysOn(s, t)]
    BY <1>5 DEF Apply
  <2>2. s.keys \ KeysOn(s, t) = {k \in s.keys : k.table # t}
    BY DEF KeysOn
  <2> QED BY <1>5, <2>1, <2>2
<1>6. CASE q.do = "create" /\ t \in s.tables
  BY <1>6 DEF Accepts
<1>7. CASE q.do \notin {"create", "createMissing", "key", "dropKey", "drop"}
  BY <1>7
<1> QED BY <1>1, <1>2, <1>3, <1>4, <1>5, <1>6, <1>7

\* A statement of a run adds to the view what it makes.
LEMMA MakeStep ==
    ASSUME TypeInv, BlockedInv, RunBuilt, run # Idle, run.do = "up",
           Accepts(run.schema, Statement)
    PROVE  UpBuilt(Range(run.rows), run.migration, run.next, Apply(run.schema, Statement))
<1> DEFINE R == Range(run.rows)
           m == run.migration
           i == run.next
           s == run.schema
           q == Migration[m].up[i]
           T == TablesMade(R) \cup UpTablesTo(m, i - 1)
           K == KeysMade(R) \cup UpKeysTo(m, i - 1)
           a == Apply(s, q)
<1>1. /\ Statement = q /\ i \in Nat \ {0} /\ q.do \in {"create", "createMissing", "key"}
      /\ q.do = "createMissing" => q.table \in Skipped
  <2>1. /\ Statement = Migration[run.migration].up[run.next]
        /\ Statement.do \in {"create", "createMissing", "key"}
        /\ Statement.do = "createMissing" => Statement.table \in Skipped
    BY StatementTyped
  <2>2. run.next \in 1..Len(Statements)
    BY DEF TypeInv, RunTyped
  <2> QED BY <2>1, <2>2
<1>2. SchemaInv(s)
  BY DEF TypeInv, RunTyped
<1>3. /\ s.tables \ existing = T \ existing
      /\ T \subseteq s.tables
      /\ K \subseteq s.keys
      /\ s.keys \subseteq K \cup FoundKeys
      /\ Firm \subseteq s.tables
      /\ T \cap Firm = {}
  BY DEF RunBuilt, UpBuilt
<1>4. Accepts(s, q)
  BY <1>1
<1>5. /\ UpTablesTo(m, i) = UpTablesTo(m, i - 1) \cup
           (IF q.do \in {"create", "createMissing"} THEN {q.table} ELSE {})
      /\ UpKeysTo(m, i) = UpKeysTo(m, i - 1) \cup (IF q.do = "key" THEN {KeyOf(q)} ELSE {})
  BY <1>1, OneMore
<1>u. ASSUME NEW t, NEW k, t \subseteq a.tables, a.tables \ existing = t \ existing,
             t = TablesMade(R) \cup UpTablesTo(m, i), k = KeysMade(R) \cup UpKeysTo(m, i),
             k \subseteq a.keys, a.keys \subseteq k \cup FoundKeys,
             Firm \subseteq a.tables, t \cap Firm = {}
      PROVE  UpBuilt(R, m, i, a)
  BY <1>u DEF UpBuilt
<1>6. CASE q.do \in {"create", "createMissing"}
  <2>1. a.tables = s.tables \cup {q.table} /\ a.keys = s.keys
    BY <1>2, <1>4, <1>6, ApplyBuilds
  <2>2. /\ TablesMade(R) \cup UpTablesTo(m, i) = T \cup {q.table}
        /\ KeysMade(R) \cup UpKeysTo(m, i) = K
    BY <1>5, <1>6
  <2>3. q.table \notin Firm
    <3>1. CASE q.do = "create"
      BY <1>3, <1>4, <3>1 DEF Accepts
    <3>2. CASE q.do = "createMissing"
      BY <1>1, <3>2 DEF Firm
    <3> QED BY <1>6, <3>1, <3>2
  <2> HIDE DEF q, T, K, R, a
  <2>4. /\ T \cup {q.table} \subseteq a.tables
        /\ a.tables \ existing = (T \cup {q.table}) \ existing
        /\ K \subseteq a.keys /\ a.keys \subseteq K \cup FoundKeys
        /\ Firm \subseteq a.tables /\ (T \cup {q.table}) \cap Firm = {}
    BY <1>3, <2>1, <2>3
  <2>5. UpBuilt(R, m, i, a)
    BY <1>u, <2>2, <2>4
  <2> QED BY <1>1, <2>5 DEF R, a
<1>7. CASE q.do = "key"
  <2>1. a.tables = s.tables /\ a.keys = s.keys \cup {KeyOf(q)}
    BY <1>2, <1>4, <1>7, ApplyBuilds
  <2>2. /\ TablesMade(R) \cup UpTablesTo(m, i) = T
        /\ KeysMade(R) \cup UpKeysTo(m, i) = K \cup {KeyOf(q)}
    BY <1>5, <1>7
  <2> HIDE DEF q, T, K, R, a
  <2>4. /\ T \subseteq a.tables /\ a.tables \ existing = T \ existing
        /\ K \cup {KeyOf(q)} \subseteq a.keys
        /\ a.keys \subseteq (K \cup {KeyOf(q)}) \cup FoundKeys
        /\ Firm \subseteq a.tables /\ T \cap Firm = {}
    BY <1>3, <2>1
  <2>5. UpBuilt(R, m, i, a)
    BY <1>u, <2>2, <2>4
  <2> QED BY <1>1, <2>5 DEF R, a
<1> QED BY <1>1, <1>6, <1>7

\* At its last statement a run has made all of the file.
LEMMA MakeEnd ==
    ASSUME TypeInv, BlockedInv, RunBuilt, run # Idle, run.do = "up", AtLast,
           run.migration # 7, Accepts(run.schema, Statement)
    PROVE  Built(Range(RowsAfter), Apply(run.schema, Statement))
<1> DEFINE R == Range(run.rows)
           m == run.migration
           s == Apply(run.schema, Statement)
<1>1. UpBuilt(R, m, run.next, s)
  BY MakeStep
<1>2. m \in 1..7
  BY InFiles DEF AtFile
<1>3. run.next = Len(Migration[m].up)
  BY DEF AtLast, Statements
<1>4. Range(RowsAfter) = R \cup {m}
  BY AfterUp
<1>5. /\ TablesMade(R) \cup UpTablesTo(m, run.next) = TablesMade(R \cup {m})
      /\ KeysMade(R) \cup UpKeysTo(m, run.next) = KeysMade(R \cup {m})
  BY <1>2, <1>3, WholeUp, FileMore
<1> HIDE DEF R, m, s
<1>6. Built(R \cup {m}, s)
  BY <1>1, <1>5 DEF UpBuilt, Built
<1> QED BY <1>4, <1>6 DEF R, m, s

\* A statement of a revert takes from the view what it drops, and nothing of
\* the other files.
LEMMA TakeStep ==
    ASSUME TypeInv, BlockedInv, RunBuilt, run # Idle, run.do = "down",
           Accepts(run.schema, Statement)
    PROVE  DownBuilt(Range(run.rows), run.migration, run.next, Apply(run.schema, Statement))
<1> DEFINE R == Range(run.rows)
           m == run.migration
           i == run.next
           s == run.schema
           q == Migration[m].down[i]
           a == Apply(s, q)
<1>1. /\ Statement = q /\ m \in 1..6 /\ i \in Nat \ {0}
      /\ q.do \in {"dropKey", "drop"} /\ q.table \in TablesOf[m]
  <2>1. /\ m \in 1..6 /\ Statement = q /\ i \in 1..Len(Migration[m].down)
        /\ Statement.do \in {"dropKey", "drop"} /\ Statement.table \in TablesOf[m]
    BY StatementTyped
  <2>2. Len(Migration[m].down) \in Nat
    BY <2>1, DownTakes
  <2> HIDE DEF q, m
  <2> QED BY <2>1, <2>2
<1>2. SchemaInv(s)
  BY DEF TypeInv, RunTyped
<1>3. /\ s.tables \ existing = (TablesMade(R) \ DroppedTo(m, i - 1)) \ existing
      /\ TablesMade(R) \ DroppedTo(m, i - 1) \subseteq s.tables
      /\ KeysMade(R \ {m}) \subseteq s.keys
      /\ s.keys \subseteq KeysMade(R) \cup FoundKeys
      /\ \A k \in s.keys : k.table \notin DroppedTo(m, i - 1)
      /\ Firm \subseteq s.tables
      /\ TablesMade(R) \cap Firm = {}
  BY DEF RunBuilt, DownBuilt
<1>4. Accepts(s, q)
  BY <1>1
<1>5. DroppedTo(m, i) = DroppedTo(m, i - 1) \cup (IF q.do = "drop" THEN {q.table} ELSE {})
  BY <1>1, OneMore
<1>6. /\ \A k \in KeysMade(R \ {m}) : k.table # q.table
      /\ q.table \in TablesMade(R)
  <2>1. /\ m \notin Range(RowsAfter) /\ R = Range(RowsAfter) \cup {m}
        /\ RowsAfter \in RowsOf(files)
    BY AfterDown
  <2>2. Range(RowsAfter) \subseteq 1..6 /\ R \ {m} = Range(RowsAfter)
    BY <2>1, RowsRange
  <2> DEFINE F == Range(RowsAfter)
  <2>3. F \subseteq 1..6 /\ m \notin F /\ R = F \cup {m} /\ R \ {m} = F
    BY <2>1, <2>2
  <2>4. m \in 1..6 /\ q.table \in TablesOf[m]
    BY <1>1
  <2> HIDE DEF F, R, m, q
  <2>5. /\ TablesMade(F \cup {m}) = TablesMade(F) \cup TablesOf[m]
        /\ \A k \in KeysMade(F) : k.table \notin TablesOf[m]
    BY <2>3, <2>4, FileLast
  <2> QED BY <2>3, <2>4, <2>5
<1>7. CASE q.do = "dropKey"
  <2>1. /\ a.tables = s.tables
        /\ a.keys = {k \in s.keys : ~(k.table = q.table /\ k.column = q.column)}
    BY <1>2, <1>4, <1>7, ApplyBuilds
  <2>2. DroppedTo(m, i) = DroppedTo(m, i - 1)
    BY <1>5, <1>7
  <2> HIDE DEF q, R, m, i, s, a
  <2>3. DownBuilt(R, m, i, a)
    BY <1>3, <1>6, <2>1, <2>2 DEF DownBuilt
  <2> QED BY <1>1, <2>3 DEF R, m, i, s, a
<1>8. CASE q.do = "drop"
  <2>1. /\ a.tables = s.tables \ {q.table}
        /\ a.keys = {k \in s.keys : k.table # q.table}
    BY <1>2, <1>4, <1>8, ApplyBuilds
  <2>2. DroppedTo(m, i) = DroppedTo(m, i - 1) \cup {q.table}
    BY <1>5, <1>8
  <2> HIDE DEF q, R, m, i, s, a
  <2>3. DownBuilt(R, m, i, a)
    BY <1>3, <1>6, <2>1, <2>2 DEF DownBuilt
  <2> QED BY <1>1, <2>3 DEF R, m, i, s, a
<1>9. q.do \in {"dropKey", "drop"}
  BY <1>1
<1> HIDE DEF q
<1> QED BY <1>7, <1>8, <1>9

\* At its last statement a revert has dropped all of the file.
LEMMA TakeEnd ==
    ASSUME TypeInv, BlockedInv, RunBuilt, run # Idle, run.do = "down", AtLast,
           Accepts(run.schema, Statement)
    PROVE  Built(Range(RowsAfter), Apply(run.schema, Statement))
<1> DEFINE R == Range(RowsAfter)
           m == run.migration
           s == Apply(run.schema, Statement)
<1>1. DownBuilt(Range(run.rows), m, run.next, s)
  BY TakeStep
<1>2. /\ m \in 1..6 /\ m \notin R /\ Range(run.rows) = R \cup {m}
      /\ RowsAfter \in RowsOf(files)
  BY AfterDown
<1>3. R \subseteq 1..6
  BY <1>2, RowsRange
<1>4. run.next = Len(Migration[m].down)
  BY DEF AtLast, Statements
<1> HIDE DEF R, m, s
<1>5. /\ TablesMade(R \cup {m}) = TablesMade(R) \cup TablesOf[m]
      /\ TablesMade(R) \cap TablesOf[m] = {}
      /\ \A k \in KeysMade(R \cup {m}) : k \in KeysMade(R) \/ k.table \in TablesOf[m]
      /\ DroppedTo(m, run.next) = TablesOf[m]
  BY <1>2, <1>3, <1>4, FileLast
<1>6. (R \cup {m}) \ {m} = R
  BY <1>2
<1>7. /\ s.tables \ existing = (TablesMade(R \cup {m}) \ TablesOf[m]) \ existing
      /\ TablesMade(R \cup {m}) \ TablesOf[m] \subseteq s.tables
      /\ KeysMade(R) \subseteq s.keys
      /\ s.keys \subseteq KeysMade(R \cup {m}) \cup FoundKeys
      /\ \A k \in s.keys : k.table \notin TablesOf[m]
      /\ Firm \subseteq s.tables
      /\ TablesMade(R \cup {m}) \cap Firm = {}
  BY <1>1, <1>2, <1>5, <1>6 DEF DownBuilt
<1>8. TablesMade(R \cup {m}) \ TablesOf[m] = TablesMade(R)
  BY <1>5
<1>9. s.keys \subseteq KeysMade(R) \cup FoundKeys
  BY <1>5, <1>7
<1>10. TablesMade(R) \cap Firm = {}
  BY <1>7, <1>8
<1>11. Built(R, s)
  BY <1>7, <1>8, <1>9, <1>10 DEF Built
<1> QED BY <1>11 DEF R, s

LEMMA BuiltInit == Init => BuiltInv
<1> SUFFICES ASSUME Init PROVE BuiltInv
  OBVIOUS
<1>1. schema.tables = existing /\ schema.keys = FoundKeys /\ recorded = <<>> /\ run = Idle
  BY DEF Init
<1>2. RunBuilt
  BY <1>1 DEF RunBuilt, Idle
<1>3. Range(recorded) = {}
  BY <1>1, NoRows
<1> QED BY <1>1, <1>2, <1>3, NoneMade DEF BuiltInv, Built, Firm

\* A statement takes no table that was found from the database.
LEMMA BuiltStep ==
    BuiltInv /\ TypeInv /\ BlockedInv /\ SyncedInv /\ [Next]_vars => BuiltInv'
<1> SUFFICES ASSUME BuiltInv, TypeInv, BlockedInv, SyncedInv, [Next]_vars PROVE BuiltInv'
  OBVIOUS
<1>0. existing' = existing /\ Firm' = Firm /\ FoundKeys' = FoundKeys
  <2>1. existing' = existing
    BY DEF Next, Checkout, SyncSchema, RunBegin, RevertBegin, Execute, Commit, Refused, Dies,
           vars
  <2> QED BY <2>1 DEF Firm, FoundKeys
<1>i. run' = Idle => RunBuilt'
  BY DEF RunBuilt, Idle
<1>b. Firm \subseteq schema.tables /\ (~synced => Built(Range(recorded), schema) /\ RunBuilt)
  BY DEF BuiltInv
<1>B. BuiltInv' <=>
        /\ Firm \subseteq schema'.tables
        /\ ~synced' => Built(Range(recorded'), schema') /\ RunBuilt'
  BY <1>0 DEF BuiltInv, Built
<1>R. RunBuilt' <=>
        /\ run'.do = "up" =>
             UpBuilt(Range(run'.rows), run'.migration, run'.next - 1, run'.schema)
        /\ run'.do = "down" =>
             DownBuilt(Range(run'.rows), run'.migration, run'.next - 1, run'.schema)
  BY <1>0 DEF RunBuilt, UpBuilt, DownBuilt
<1>1. CASE Checkout \/ Refused \/ Dies
  BY <1>1, <1>b, <1>B, <1>i DEF Checkout, Refused, Dies
<1>2. CASE SyncSchema
  <2>1. synced' = TRUE /\ schema.tables \subseteq schema'.tables
    BY <1>2 DEF SyncSchema
  <2> QED BY <1>b, <1>B, <2>1
<1>3. CASE RunBegin
  <2>1. PICK m : run' = Begin("up", m)
    BY <1>3 DEF RunBegin
  <2>2. /\ UNCHANGED <<schema, recorded, synced>> /\ run'.do = "up" /\ run'.rows = recorded
        /\ run'.schema = schema /\ run'.migration = m /\ run'.next - 1 = 0
    BY <1>3, <2>1 DEF RunBegin, Begin
  <2>3. ~synced => UpBuilt(Range(recorded), m, 0, schema)
    BY <1>b, NoneMade DEF UpBuilt, Built
  <2>4. ~synced => RunBuilt'
    BY <1>R, <2>2, <2>3
  <2> QED BY <1>b, <1>B, <2>2, <2>4
<1>4. CASE RevertBegin
  <2> DEFINE m == recorded[Len(recorded)]
             R == Range(recorded)
  <2>1. /\ UNCHANGED <<schema, recorded, synced>> /\ run'.do = "down" /\ run'.rows = recorded
        /\ run'.schema = schema /\ run'.migration = m /\ run'.next - 1 = 0
    BY <1>4 DEF RevertBegin, Begin
  <2>2. KeysMade(R \ {m}) \subseteq KeysMade(R)
    BY DEF KeysMade
  <2> HIDE DEF m, R
  <2>3. ~synced => DownBuilt(R, m, 0, schema)
    BY <1>b, <2>2, NoneMade DEF DownBuilt, Built, R
  <2>4. ~synced => RunBuilt'
    BY <1>R, <2>1, <2>3 DEF R
  <2> QED BY <1>b, <1>B, <2>1, <2>4
<1>5. CASE Execute
  <2>1. /\ run # Idle /\ Accepts(run.schema, Statement) /\ UNCHANGED <<schema, recorded, synced>>
    BY <1>5 DEF Execute
  <2>2. run.do \in {"up", "down"} /\ run.next \in Nat \ {0}
    BY <2>1 DEF TypeInv, RunTyped, BlockedInv, RunBlocked
  <2> SUFFICES ASSUME ~synced PROVE RunBuilt'
    BY <1>b, <1>B, <2>1
  <2>3. CASE run' = GoOn(run.rows, run.migration, run.next + 1)
    <3>1. /\ run'.do = run.do /\ run'.migration = run.migration /\ run'.rows = run.rows
          /\ run'.schema = Apply(run.schema, Statement) /\ run'.next - 1 = run.next
      BY <2>2, <2>3 DEF GoOn
    <3> QED BY <1>b, <1>R, <2>1, <3>1, MakeStep, TakeStep
  <2>4. CASE AtLast /\ run.do = "up" /\ \E m \in Due(RowsAfter) : run' = GoOn(RowsAfter, m, 1)
    <3>1. PICK m : run' = GoOn(RowsAfter, m, 1)
      BY <2>4
    <3>2. /\ run'.do = "up" /\ run'.migration = m /\ run'.rows = RowsAfter
          /\ run'.schema = Apply(run.schema, Statement) /\ run'.next - 1 = 0
      BY <2>4, <3>1 DEF GoOn
    <3>3. run.migration # 7
      BY <2>1, <2>4, AttendanceStep DEF BlockedInv, RunBlocked
    <3>4. Built(Range(RowsAfter), Apply(run.schema, Statement))
      BY <1>b, <2>1, <2>4, <3>3, MakeEnd
    <3>5. UpBuilt(Range(RowsAfter), m, 0, Apply(run.schema, Statement))
      BY <3>4, NoneMade DEF UpBuilt, Built
    <3> QED BY <1>R, <3>2, <3>5
  <2> QED BY <1>5, <2>3, <2>4 DEF Execute
<1>6. CASE Commit
  <2>1. /\ run # Idle /\ Accepts(run.schema, Statement) /\ AtLast
        /\ schema' = Apply(run.schema, Statement) /\ run' = Idle
        /\ recorded' = RowsAfter /\ synced' = synced
    BY <1>6 DEF Commit
  <2>2. ~synced
    BY <1>6, SyncedEnds
  <2>3. CASE run.do = "up"
    <3>1. run.migration # 7
      BY <1>6, <2>3, UpEnds
    <3>2. Built(Range(RowsAfter), Apply(run.schema, Statement))
      BY <1>b, <2>1, <2>2, <2>3, <3>1, MakeEnd
    <3> QED BY <1>B, <1>i, <2>1, <3>2 DEF Built
  <2>4. CASE run.do = "down"
    <3>1. Built(Range(RowsAfter), Apply(run.schema, Statement))
      BY <1>b, <2>1, <2>2, <2>4, TakeEnd
    <3> QED BY <1>B, <1>i, <2>1, <3>1 DEF Built
  <2> QED BY <2>1, <2>3, <2>4 DEF BlockedInv, RunBlocked
<1>7. CASE UNCHANGED vars
  <2>1. UNCHANGED <<schema, recorded, synced, run>>
    BY <1>7 DEF vars
  <2>2. ~synced => RunBuilt'
    BY <1>b, <1>R, <2>1 DEF RunBuilt
  <2> QED BY <1>b, <1>B, <2>1, <2>2
<1> QED BY <1>1, <1>2, <1>3, <1>4, <1>5, <1>6, <1>7 DEF Next

\* For every set of tables found at first, and however versions are checked
\* out and runs and reverts are made, refused or cut short: until a start script
\* synchronises the schema, the tables beside those found are the ones that the
\* recorded migrations make, and the keys are theirs and some of those found.
THEOREM RecordTells == Spec => []BuiltAsRecorded
<1>1. BuiltInv => BuiltAsRecorded
  BY DEF BuiltInv, Built, BuiltAsRecorded
<1> QED BY <1>1, TypeInit, TypeStep, BlockedInit, BlockedStep, SyncedInit, SyncedStep,
           BuiltInit, BuiltStep, PTL DEF Spec

\* For every set of tables found at first and whatever is run and cut short:
\* but for the three tables that an up skips, what was found is never dropped.
THEOREM FoundStay == Spec => []FoundTablesKept
<1>1. BuiltInv => FoundTablesKept
  BY DEF BuiltInv, FoundTablesKept, Firm, Skipped
<1> QED BY <1>1, TypeInit, TypeStep, BlockedInit, BlockedStep, SyncedInit, SyncedStep,
           BuiltInit, BuiltStep, PTL DEF Spec

=============================================================================
