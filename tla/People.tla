------------------------------- MODULE People -------------------------------
(***************************************************************************)
(* Everybody the back end knows by contact information: users with their   *)
(* sessions, customers and suppliers.                                      *)
(***************************************************************************)
EXTENDS Contacts

CONSTANTS
    Area,       \* the services whose requests are considered together
    Rows,       \* rows the tables hold at first, for each area
    SignedIn,   \* sessions at first, for each area
    Among       \* the requests considered in each area

VARIABLE area

vars == <<area, tableVars, accountVars>>

PeopleColumns ==
    [store |-> {"at"},
     user |-> {"at", "username", "pass", "status"},
     contact |-> {"at", "email", "mobile", "user", "customer", "supplier"},
     customer |-> {"at", "store", "text"},
     supplier |-> {"at", "store", "text"}]
PeopleReferences == AccountReferences \cup ContactReferences

\* The sessions found at first were made by none of the requests considered.
ASSUME PeopleAssumption ==
    \A a \in Area : /\ Among[a] \subseteq Request
                    /\ \A u \in DOMAIN SignedIn[a] : SignedIn[a][u] \in {Null, 0} \ Request
\* The rows at first are numbered in each table, none removed by its key, and
\* as the tables accept them; no two users share an address or a number.
ASSUME SchemaAssumption == \A a \in Area : Schema(PeopleColumns, Rows[a])
ASSUME RowsAssumption ==
    \A a \in Area :
       /\ IsFiniteSet(DOMAIN Rows[a])
       /\ \A t \in DOMAIN PeopleColumns :
             LET own == {k \in DOMAIN Rows[a] : k[1] = t}
             IN  own = {t} \X (1..Cardinality(own))
       /\ \A k \in DOMAIN Rows[a] : Rows[a][k].at \in {"live", "deleted"}
       /\ \A k \in DOMAIN Rows[a] : k[1] \in {"store", "contact"} => Rows[a][k].at = "live"
       /\ Accepts(Rows[a], DOMAIN Rows[a])
       /\ OneContactIn(Rows[a])
       /\ \A j, k \in DOMAIN Rows[a] :
             (/\ j # k /\ j[1] = "contact" /\ k[1] = "contact"
              /\ Rows[a][j].user # Null /\ Rows[a][k].user # Null)
                => /\ Rows[a][j].email # Rows[a][k].email
                   /\ Rows[a][j].mobile # Rows[a][k].mobile
ASSUME ForeignKeyAssumption == References = PeopleReferences /\ Uniques = AccountUniques

Init ==
    /\ area \in Area
    /\ TablesInit(Rows[area])
    /\ AccountsInit(SignedIn[area])

\* A process that dies in a refresh leaves the record as it is.
Operation(r) ==
    \/ "sessions" \in area /\ SessionOperation(r)
    \/ /\ \/ "users" \in area /\ UserOperation(r)
          \/ "customers" \in area /\ CustomerOperation(r)
          \/ "suppliers" \in area /\ SupplierOperation(r)
          \/ area \cap {"customers", "suppliers"} # {} /\ (PersonReload(r) \/ PersonWrite(r))
          \/ Fails(r)
       /\ UNCHANGED accountVars

Finished == /\ \A r \in Among[area] : step[r] \in Ended
            /\ UNCHANGED <<tableVars, accountVars>>

Next ==
    /\ \/ \E r \in Among[area] : Operation(r)
       \/ "sessions" \in area /\ Expires
       \/ Finished
    /\ UNCHANGED area

Spec == Init /\ [][Next]_vars

-----------------------------------------------------------------------------

\* Every user, customer and supplier has one row of contact information, and
\* none is shared: they are made and removed together, and a save() of what an
\* edit held puts both back, or neither.
OneContactEach == OneContactIn(db)

\* Rows, requests, sessions and history are well formed.
TypeOK ==
    /\ TablesTypeOK /\ OneContactEach
    /\ \A t \in {"customer", "supplier"} : \A i \in Ids(t) :
          Row(t, i).store \in Live("store") \cup {Null}
    /\ \A u \in DOMAIN session : session[u] \in {Null, 0} \cup Request

=============================================================================
