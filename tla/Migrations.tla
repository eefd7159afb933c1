----------------------------- MODULE Migrations -----------------------------
(***************************************************************************)
(* The schema of the database as the TypeORM command line changes it with  *)
(* migration:run, migration:revert and schema:sync.  TypeORM runs every    *)
(* pending migration by its turn, or the down of the last one recorded,    *)
(* statement by statement in one transaction; a start script synchronises  *)
(* the schema with the entities.                                           *)
(***************************************************************************)
EXTENDS SchemaFiles, EntityKeys, FiniteSets, Functions

CONSTANTS
    Existing,   \* the sets of tables an earlier synchronisation may have left
    Version,    \* the sets of migration files that versions of the program hold
    MaxDeaths   \* bound on runs cut short from outside

ASSUME ExistingAssumption == \A T \in Existing : T \subseteq STRING
ASSUME MaxDeathsAssumption == MaxDeaths \in Nat

\* This version holds every file.  The files were added in the order of the
\* timestamps of their names: one without init-attendance has no file after it.
ASSUME VersionAssumption ==
    /\ DOMAIN Migration \in Version
    /\ \A v \in Version : v \subseteq DOMAIN Migration
    /\ \A v \in Version : v \subseteq 1..6 \/ 7 \in v

VARIABLES
    existing,  \* the tables there were at first
    schema,    \* the committed schema: tables, columns, keys
    recorded,  \* rows of the table "migrations" in the order of their ids
    files,     \* migration files of the version checked out
    synced,    \* whether a start script has synchronised the schema
    run,       \* the transaction under way
    deaths     \* runs cut short

vars == <<existing, schema, recorded, files, synced, run, deaths>>

Of(t, pairs) == {p \in pairs : p[1] = t}
KeysOn(s, t) == {k \in s.keys : k.table = t}

-----------------------------------------------------------------------------

\* Whether PostgreSQL, or TypeORM before it, accepts a statement.
Accepts(s, q) ==
    CASE q.do = "create" -> q.table \notin s.tables
      [] q.do = "createMissing" -> TRUE
      [] q.do = "createUntyped" -> FALSE
      [] q.do = "key" -> /\ {q.table, q.to} \subseteq s.tables
                         /\ <<q.table, q.column>> \in s.columns
                         /\ ~\E k \in KeysOn(s, q.table) : k.column = q.column
      [] q.do = "dropKey" -> \E k \in KeysOn(s, q.table) : k.column = q.column
      [] q.do = "drop" -> /\ q.table \in s.tables
                          /\ \A k \in s.keys : k.to = q.table => k.table = q.table

Apply(s, q) ==
    CASE q.do = "createMissing" /\ q.table \in s.tables -> s
      [] q.do \in {"create", "createMissing"} /\ q.table \notin s.tables ->
           [s EXCEPT !.tables = @ \cup {q.table},
                     !.columns = @ \cup {<<q.table, c>> : c \in q.columns}]
      [] q.do = "key" ->
           [tables |-> s.tables, columns |-> s.columns,
            keys |-> s.keys \cup {[table |-> q.table, column |-> q.column, to |-> q.to]}]
      [] q.do = "dropKey" ->
           [s EXCEPT !.keys = {k \in @ : ~(k.table = q.table /\ k.column = q.column)}]
      [] q.do = "drop" ->
           [tables |-> s.tables \ {q.table}, columns |-> s.columns \ Of(q.table, s.columns),
            keys |-> s.keys \ KeysOn(s, q.table)]

Idle == [do |-> "idle"]

\* Files with no row, and those of them whose turn it is: two may share one.
Pending(rows) == files \ Range(rows)
Due(rows) == {m \in Pending(rows) :
                \A n \in Pending(rows) : Migration[m].turn <= Migration[n].turn}

\* The transaction's own view: its schema and rows, the migration it is at and
\* the statement it makes next.
Begin(direction, m) ==
    [do |-> direction, schema |-> schema, rows |-> recorded, migration |-> m, next |-> 1]

Statements == IF run.do = "up" THEN Migration[run.migration].up
                               ELSE Migration[run.migration].down

Statement == Statements[run.next]
AtLast == run.next = Len(Statements)

\* The rows once the migration is done.
RowsAfter == IF run.do = "up" THEN Append(run.rows, run.migration)
             ELSE SubSeq(run.rows, 1, Len(run.rows) - 1)

\* The statement is made; statement n of migration m is next.
GoOn(rows, m, n) ==
    [do |-> run.do, schema |-> Apply(run.schema, Statement), rows |-> rows,
     migration |-> m, next |-> n]

\* Keys that the synchronisation made between the tables found.
FoundKeys == {k \in EntityKey : {k.table, k.to} \subseteq existing}

Init ==
    /\ existing \in Existing
    /\ schema = [tables |-> existing,
                 columns |-> {c \in EntityColumn : c[1] \in existing}, keys |-> FoundKeys]
    /\ recorded = <<>>
    /\ files \in Version
    /\ synced = FALSE
    /\ run = Idle
    /\ deaths = 0

\* A later version is checked out.
Checkout ==
    /\ run = Idle
    /\ \E later \in Version : /\ files \subseteq later
                              /\ files # later
                              /\ files' = later
    /\ UNCHANGED <<existing, schema, recorded, synced, run, deaths>>

\* Mutant of SyncSchema: the relations of the entities make no constraints.
SyncSchemaUnconstrained ==
    /\ run = Idle
    /\ files = DOMAIN Migration
    /\ schema' = [tables |-> schema.tables \cup EntityTable,
                  columns |-> {c \in schema.columns : c[1] \notin EntityTable} \cup EntityColumn,
                  keys |-> {k \in schema.keys : k.table \notin EntityTable}]
    /\ synced' = TRUE
    /\ UNCHANGED <<existing, recorded, files, run, deaths>>

\* sync-schema, with the entities of this version: the tables, columns and
\* keys of the entities, and no other key on their tables.
SyncSchema ==
    /\ run = Idle
    /\ files = DOMAIN Migration
    /\ schema' = [tables |-> schema.tables \cup EntityTable,
                  columns |-> {c \in schema.columns : c[1] \notin EntityTable} \cup EntityColumn,
                  keys |-> {k \in schema.keys : k.table \notin EntityTable} \cup EntityKey]
    /\ synced' = TRUE
    /\ UNCHANGED <<existing, recorded, files, run, deaths>>

\* migration:run with something pending.
RunBegin ==
    /\ run = Idle
    /\ \E m \in Due(recorded) : run' = Begin("up", m)
    /\ UNCHANGED <<existing, schema, recorded, files, synced, deaths>>

\* migration:revert takes back the last migration recorded.
RevertBegin ==
    /\ run = Idle
    /\ recorded # <<>>
    /\ run' = Begin("down", recorded[Len(recorded)])
    /\ UNCHANGED <<existing, schema, recorded, files, synced, deaths>>

\* A statement that is accepted and is not the transaction's last.
Execute ==
    /\ run # Idle
    /\ Accepts(run.schema, Statement)
    /\ \/ /\ ~AtLast
          /\ run' = GoOn(run.rows, run.migration, run.next + 1)
       \/ /\ AtLast
          /\ run.do = "up"
          /\ \E m \in Due(RowsAfter) : run' = GoOn(RowsAfter, m, 1)
    /\ UNCHANGED <<existing, schema, recorded, files, synced, deaths>>

\* The last statement, the rows of the table "migrations", the commit.
Commit ==
    /\ run # Idle
    /\ Accepts(run.schema, Statement)
    /\ AtLast
    /\ run.do = "up" => Pending(RowsAfter) = {}
    /\ recorded' = RowsAfter
    /\ schema' = Apply(run.schema, Statement)
    /\ run' = Idle
    /\ UNCHANGED <<existing, files, synced, deaths>>

\* A statement that is refused rolls the transaction back.
Refused ==
    /\ run # Idle
    /\ ~Accepts(run.schema, Statement)
    /\ run' = Idle
    /\ UNCHANGED <<existing, schema, recorded, files, synced, deaths>>

\* The command is interrupted: the server rolls back.
Dies ==
    /\ run # Idle
    /\ deaths < MaxDeaths
    /\ deaths' = deaths + 1
    /\ run' = Idle
    /\ UNCHANGED <<existing, schema, recorded, files, synced>>

Next == \/ Checkout \/ SyncSchema \/ RunBegin \/ RevertBegin
        \/ Execute \/ Commit \/ Refused \/ Dies

Spec == Init /\ [][Next]_vars

-----------------------------------------------------------------------------

\* The tables and keys that the up of a migration makes, and those of a set of
\* migrations.
Made(m) == {q \in {Migration[m].up[i] : i \in DOMAIN Migration[m].up} :
              q.do \in {"create", "createMissing"}}
MadeKeys(m) == {q \in {Migration[m].up[i] : i \in DOMAIN Migration[m].up} : q.do = "key"}
KeyOf(q) == [table |-> q.table, column |-> q.column, to |-> q.to]
TablesMade(R) == UNION {{q.table : q \in Made(m)} : m \in R}
KeysMade(R) == UNION {{KeyOf(q) : q \in MadeKeys(m)} : m \in R}

\* Every table was found at first or is an entity's, and every key joins two
\* tables there are.
SchemaOK(s) ==
    /\ s.tables \subseteq existing \cup EntityTable
    /\ \A c \in s.columns : c[1] \in s.tables
    /\ \A k \in s.keys : {k.table, k.to} \subseteq s.tables

\* The schema, in the database and in the view of a transaction, is one the
\* program can use: no migration leaves a table that no entity is mapped to.
\* Versions, rows and counters are in range.
TypeOK ==
    /\ existing \in Existing
    /\ SchemaOK(schema)
    /\ files \in Version
    /\ recorded \in Seq(files)
    /\ synced \in BOOLEAN
    /\ deaths \in 0..MaxDeaths
    /\ run # Idle => /\ run.do \in {"up", "down"}
                     /\ SchemaOK(run.schema)
                     /\ run.rows \in Seq(files)
                     /\ run.migration \in files
                     /\ run.next \in 1..Len(Statements)

\* Through any sequence of versions, runs, reverts and interruptions the rows
\* tell what is in the database: before the first synchronisation, the tables
\* beside those found at first are the ones the recorded migrations make, and
\* the keys are theirs and some of those found.
BuiltAsRecorded ==
    ~synced =>
      LET R == Range(recorded)
      IN  /\ schema.tables \ existing = TablesMade(R) \ existing
          /\ TablesMade(R) \subseteq schema.tables
          /\ KeysMade(R) \subseteq schema.keys
          /\ schema.keys \subseteq KeysMade(R) \cup FoundKeys

\* The down of a migration drops no table that its up did not create, but for
\* the three that the up skips when they are there: these, with their rows, a
\* revert may take from a database that had them before the first migration.
FoundTablesKept ==
    existing \ schema.tables
      \subseteq {"user_entity", "contact_information_entity", "inventory"}

\* From the version that brings init-attendance on no run commits, whatever
\* tables a database holds and whatever was recorded before: its turn comes
\* right after init-user, and its first key refers to a table created after it.
AttendanceBlocks == [][7 \in files => Len(recorded') <= Len(recorded)]_vars

\* Once a start script has synchronised the schema neither a run nor a revert
\* succeeds any more: a table to be created is there already, a table to be
\* dropped is referred to by the keys of other entities.
SyncFreezesRecord == [][synced => UNCHANGED recorded]_vars

=============================================================================
