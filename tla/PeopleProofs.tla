---------------------------- MODULE PeopleProofs ----------------------------
(***************************************************************************)
(* That a pair of tokens is refreshed twice, and a session is back after a *)
(* logout, only by requests that overlap: for any number of requests, any  *)
(* number of them at once, and any rows, sessions and bodies.              *)
(***************************************************************************)
EXTENDS People, TLAPS

Holding == {"refresh.save", "logout.delete"}   \* a record was read

TypeInv ==
    /\ area \in Area
    /\ DOMAIN step = Request
    /\ DOMAIN mem = Request
    /\ DOMAIN auth = Request

\* Requests begin in the order of their numbers.
OrderInv == \A q, r \in Request : q < r /\ step[r] # "idle" => step[q] # "idle"

\* Requests that are open together know of one another.
MetInv == \A q, r \in Open : q # r => q \in met[r] /\ r \in met[q]

\* A request open when another has ended overlapped it or began after it.
LaterInv == \A r \in Request, s \in Open : step[r] \in Ended => s \in met[r] \/ s > r

\* A pair was made by a request that has ended, or before any began.
Made(pair) == pair # Null /\ (pair \in Request => step[pair] \in Ended)

PairInv ==
    /\ \A u \in DOMAIN session : session[u] # Null => Made(session[u])
    /\ \A r \in Request : step[r] \in Holding =>
          mem[r].dto.user \in DOMAIN session /\ Made(mem[r].dto.pair)

\* Only a request that has ended did something to a session.  The pair a
\* refresh took is never in the record again.
AuthInv ==
    \A r \in Request :
       /\ auth[r].kind # "none" => step[r] \in Ended
       /\ auth[r].kind \in {"refresh", "logout"} => auth[r].user \in DOMAIN session
       /\ auth[r].kind = "refresh" => /\ Made(auth[r].pair)
                                       /\ session[auth[r].user] # auth[r].pair

\* A request that holds a pair already taken overlapped the one that took it.
HeldInv ==
    \A q, r \in Request :
       (/\ auth[q].kind = "refresh" /\ step[r] = "refresh.save"
        /\ mem[r].dto.user = auth[q].user /\ mem[r].dto.pair = auth[q].pair)
          => q \in met[r] /\ r \in met[q]

OverlapInv == TypeInv /\ OrderInv /\ MetInv /\ LaterInv
SessionInv == OverlapInv /\ PairInv /\ AuthInv /\ HeldInv /\ RefreshedOnce /\ LoggedOutStaysOut

-----------------------------------------------------------------------------
(* Steps of a request, as far as these facts tell them apart.              *)

\* Request r takes a step to step s; nothing else moves.
StepsTo(r, s) ==
    /\ step' = [step EXCEPT ![r] = s]
    /\ DOMAIN mem' = DOMAIN mem
    /\ \A q \in Request \ {r} : mem'[q] = mem[q]

Begins(r) ==
    /\ step[r] = "idle"
    /\ \A q \in Request : q < r => step[q] # "idle"
    /\ met' = [q \in Request |-> IF q = r THEN Open
                                 ELSE IF q \in Open THEN met[q] \cup {r} ELSE met[q]]

GoesOn(r) == r \in Open /\ UNCHANGED met

\* A step of a request that takes no record in hand and leaves sessions be.
Apart(r) ==
    /\ \E s : s # "idle" /\ s \notin Holding /\ StepsTo(r, s)
    /\ Begins(r) \/ GoesOn(r)
    /\ UNCHANGED <<area, accountVars>>

LEMMA BeginApart ==
    ASSUME TypeInv, NEW r \in Request, NEW s, NEW m, Begin(r, s, m)
    PROVE  StepsTo(r, s) /\ Begins(r)
BY DEF Begin, StepsTo, Begins, TypeInv

LEMMA GotoApart ==
    ASSUME TypeInv, NEW r \in Request, NEW s, NEW m, Goto(r, s, m)
    PROVE  StepsTo(r, s) /\ UNCHANGED met
BY DEF Goto, StepsTo, TypeInv

\* Requests keep knowing of one another whatever step one of them takes.
LEMMA OverlapStep ==
    ASSUME OverlapInv, NEW r \in Request, NEW s, s # "idle", StepsTo(r, s),
           Begins(r) \/ GoesOn(r), UNCHANGED area, DOMAIN auth' = DOMAIN auth
    PROVE  /\ OverlapInv'
           /\ \A q, t \in Request : step[q] # "idle" /\ t \in met[q] => t \in met'[q]
           /\ \A q \in Request : step[q] \in Ended => step'[q] = step[q]
<1>1. /\ \A q \in Request : step'[q] = IF q = r THEN s ELSE step[q]
      /\ TypeInv'
  BY DEF OverlapInv, TypeInv, StepsTo
<1>2. \A q \in Request : q \in Open' => q = r \/ q \in Open
  BY <1>1 DEF Open
<1>3. OrderInv'
  BY <1>1, BoundAssumption DEF OverlapInv, OrderInv, Begins, GoesOn, Open
<1>4. CASE Begins(r)
  <2>1. \A q, t \in Request : step[q] # "idle" /\ t \in met[q] => t \in met'[q]
    BY <1>4 DEF Begins
  <2>2. \A q \in Open : q # r /\ q \in met'[r] /\ r \in met'[q]
    BY <1>4 DEF Begins, Open
  <2>3. MetInv'
    BY <1>2, <2>1, <2>2 DEF OverlapInv, MetInv, Open
  <2>4. \A q \in Request : step[q] \in Ended => step'[q] = step[q] /\ r > q
    <3>1. \A q \in Request : step[q] \in Ended => q # r /\ step[q] # "idle"
      BY <1>4 DEF Begins, Ended
    <3>2. \A q \in Request : step[q] \in Ended => ~(r < q)
      BY <1>4, <3>1 DEF OverlapInv, OrderInv, Begins
    <3> QED BY <1>1, <3>1, <3>2, BoundAssumption
  <2>5. LaterInv'
    <3> SUFFICES ASSUME NEW q \in Request, NEW t \in Open', step'[q] \in Ended
                 PROVE  t \in met'[q] \/ t > q
      BY DEF LaterInv
    <3>1. t \in Request /\ (t = r \/ t \in Open)
      BY <1>2 DEF Open
    <3>2. CASE q = r
      <4>1. t # r
        BY <1>1, <3>1, <3>2 DEF Open, Ended
      <4> QED BY <2>2, <3>1, <3>2, <4>1
    <3>3. CASE q # r
      <4>1. step[q] \in Ended
        BY <1>1, <3>3
      <4>2. t \in met[q] => t \in met'[q]
        BY <2>1, <3>1, <4>1 DEF Ended
      <4> QED BY <2>4, <3>1, <4>1, <4>2 DEF OverlapInv, LaterInv
    <3> QED BY <3>2, <3>3
  <2> QED BY <1>1, <1>3, <2>1, <2>3, <2>4, <2>5 DEF OverlapInv
<1>5. CASE GoesOn(r)
  <2>1. r \in Open /\ met' = met
    BY <1>5 DEF GoesOn
  <2>2. \A q \in Request : q \in Open' => q \in Open
    BY <1>2, <2>1
  <2>3. MetInv'
    BY <2>1, <2>2 DEF OverlapInv, MetInv, Open
  <2>4. \A q \in Request : step[q] \in Ended => step'[q] = step[q]
    BY <1>1, <2>1 DEF Open
  <2>5. LaterInv'
    <3> SUFFICES ASSUME NEW q \in Request, NEW t \in Open', step'[q] \in Ended
                 PROVE  t \in met'[q] \/ t > q
      BY DEF LaterInv
    <3>1. t \in Request /\ t \in Open /\ t # q
      BY <1>1, <2>2 DEF Open
    <3>2. CASE q = r
      BY <2>1, <3>1, <3>2 DEF OverlapInv, MetInv
    <3>3. CASE q # r
      BY <1>1, <2>1, <3>1, <3>3 DEF OverlapInv, LaterInv
    <3> QED BY <3>2, <3>3
  <2> QED BY <1>1, <1>3, <2>1, <2>3, <2>4, <2>5 DEF OverlapInv
<1> QED BY <1>4, <1>5

-----------------------------------------------------------------------------
(* Every step of users, customers and suppliers is apart.                  *)

LEMMA ApartBegin ==
    ASSUME TypeInv, NEW r \in Request, NEW s, NEW m, Begin(r, s, m),
           s # "idle", s \notin Holding, UNCHANGED <<area, accountVars>>
    PROVE  Apart(r)
BY BeginApart DEF Apart

LEMMA ApartGoto ==
    ASSUME TypeInv, NEW r \in Request, NEW s, NEW m, Goto(r, s, m), r \in Open,
           s # "idle", s \notin Holding, UNCHANGED <<area, accountVars>>
    PROVE  Apart(r)
BY GotoApart DEF Apart, GoesOn

LEMMA ApartUser ==
    ASSUME TypeInv, NEW r \in Request, UserOperation(r), UNCHANGED <<area, accountVars>>
    PROVE  Apart(r)
<1>1. CASE Signup(r)
  <2>1. PICK dto \in UserDto : Begin(r, "signup.name", [dto |-> Over(dto, [pass |-> "hash"])])
    BY <1>1 DEF Signup
  <2> QED BY <2>1, ApartBegin DEF Holding
<1>2. CASE SignupName(r)
  <2>1. PICK s \in {"error", "user.insert"} : Goto(r, s, <<>>) /\ r \in Open
    BY <1>2 DEF SignupName, Reads, At, Open, Ended
  <2> QED BY <2>1, ApartGoto DEF Holding
<1>3. CASE AddUser(r)
  <2>1. PICK dto \in UserDto : Begin(r, "user.insert", [dto |-> Over(dto, [pass |-> "plain"])])
    BY <1>3 DEF AddUser
  <2> QED BY <2>1, ApartBegin DEF Holding
<1>4. CASE UserInsert(r)
  <2>1. r \in Open /\ \E s \in Ended : Goto(r, s, NoMem)
    BY <1>4 DEF UserInsert, InsertThen, Reads, At, Open, Ended
  <2> QED BY <2>1, ApartGoto DEF Holding, Ended
<1>5. CASE UpdateUser(r)
  BY <1>5, ApartBegin DEF UpdateUser, Holding
<1>6. CASE RemoveUsers(r)
  <2>1. PICK ids : Begin(r, "user.remove", [dto |-> ids])
    BY <1>6 DEF RemoveUsers
  <2> QED BY <2>1, ApartBegin DEF Holding
<1>7. CASE RemoveUsersDelete(r)
  <2>1. r \in Open /\ \E s \in Ended : Goto(r, s, NoMem)
    BY <1>7 DEF RemoveUsersDelete, RemoveThen, Reads, At, Open, Ended
  <2> QED BY <2>1, ApartGoto DEF Holding, Ended
<1> QED
  BY <1>1, <1>2, <1>3, <1>4, <1>5, <1>6, <1>7 DEF UserOperation

LEMMA ApartPerson ==
    ASSUME TypeInv, NEW r \in Request, NEW t, UNCHANGED <<area, accountVars>>
    PROVE  /\ AddPerson(r, t) => Apart(r)
           /\ \A row, mobile : InsertPerson(r, t, row, mobile) => Apart(r)
           /\ \A columns : EditPerson(r, t, columns) => Apart(r)
           /\ PersonReload(r) => Apart(r)
           /\ PersonWrite(r) => Apart(r)
<1>1. ASSUME AddPerson(r, t) PROVE Apart(r)
  <2>1. PICK m : Begin(r, "person.insert", m)
    BY <1>1 DEF AddPerson
  <2> QED BY <2>1, ApartBegin DEF Holding
<1>2. ASSUME NEW row, NEW mobile, InsertPerson(r, t, row, mobile) PROVE Apart(r)
  <2>1. r \in Open /\ \E s \in Ended : Goto(r, s, NoMem)
    BY <1>2 DEF InsertPerson, InsertThen, Reads, At, Open, Ended
  <2> QED BY <2>1, ApartGoto DEF Holding, Ended
<1>3. ASSUME NEW columns, EditPerson(r, t, columns) PROVE Apart(r)
  <2>1. PICK m : Begin(r, "person.reload", m)
    BY <1>3 DEF EditPerson
  <2> QED BY <2>1, ApartBegin DEF Holding
<1>4. ASSUME PersonReload(r) PROVE Apart(r)
  <2>1. r \in Open /\ \E m : Goto(r, "person.write", m)
    BY <1>4 DEF PersonReload, Reload, Reads, At, Open, Ended
  <2> QED BY <2>1, ApartGoto DEF Holding
<1>5. ASSUME PersonWrite(r) PROVE Apart(r)
  <2>1. r \in Open /\ \E s \in Ended : Goto(r, s, NoMem)
    BY <1>5 DEF PersonWrite, Write, Reads, At, Open, Ended
  <2> QED BY <2>1, ApartGoto DEF Holding, Ended
<1> QED BY <1>1, <1>2, <1>3, <1>4, <1>5

LEMMA ApartContact ==
    ASSUME TypeInv, NEW r \in Request, UNCHANGED <<area, accountVars>>,
           CustomerOperation(r) \/ SupplierOperation(r)
    PROVE  Apart(r)
<1>1. CASE AddCustomer(r) \/ AddCustomerInsert(r) \/ EditCustomer(r)
  BY <1>1, ApartPerson DEF AddCustomer, AddCustomerInsert, EditCustomer
<1>2. CASE AddSupplier(r) \/ AddSupplierInsert(r) \/ EditSupplier(r)
  BY <1>2, ApartPerson DEF AddSupplier, AddSupplierInsert, EditSupplier
<1>3. CASE DeleteCustomers(r)
  <2>1. PICK m : Begin(r, "customer.mark", m)
    BY <1>3 DEF DeleteCustomers
  <2> QED BY <2>1, ApartBegin DEF Holding
<1>4. CASE DeleteCustomersMark(r)
  <2>1. r \in Open /\ Goto(r, "ok", NoMem)
    BY <1>4 DEF DeleteCustomersMark, At, Open, Ended
  <2> QED BY <2>1, ApartGoto DEF Holding
<1>5. CASE RemoveSuppliers(r)
  <2>1. PICK m : Begin(r, "supplier.remove", m)
    BY <1>5 DEF RemoveSuppliers
  <2> QED BY <2>1, ApartBegin DEF Holding
<1>6. CASE RemoveSuppliersDelete(r)
  <2>1. r \in Open /\ \E s \in Ended : Goto(r, s, NoMem)
    BY <1>6 DEF RemoveSuppliersDelete, RemoveThen, Reads, At, Open, Ended
  <2> QED BY <2>1, ApartGoto DEF Holding, Ended
<1> QED
  BY <1>1, <1>2, <1>3, <1>4, <1>5, <1>6 DEF CustomerOperation, SupplierOperation

LEMMA ApartFails ==
    ASSUME TypeInv, NEW r \in Request, Fails(r), UNCHANGED <<area, accountVars>>
    PROVE  Apart(r)
<1>1. r \in Open /\ Goto(r, "error", NoMem)
  BY DEF Fails, Open
<1> QED BY <1>1, ApartGoto DEF Holding

-----------------------------------------------------------------------------
(* Every step keeps the invariant.                                         *)

\* What a step keeps when it leaves sessions and their history be: all but
\* what concerns the request that moves.
LEMMA SessionsKept ==
    ASSUME SessionInv, NEW r \in Request, NEW s, s # "idle", StepsTo(r, s),
           Begins(r) \/ GoesOn(r), UNCHANGED <<area, accountVars>>
    PROVE  /\ OverlapInv' /\ AuthInv' /\ RefreshedOnce' /\ LoggedOutStaysOut'
           /\ \A p : Made(p) => Made(p)'
           /\ \A q \in Request : step'[q] = IF q = r THEN s ELSE step[q]
           /\ \A q, t \in Request : step[q] # "idle" /\ t \in met[q] => t \in met'[q]
<1>1. session' = session /\ auth' = auth
  BY DEF accountVars
<1>2. /\ OverlapInv'
      /\ \A q, t \in Request : step[q] # "idle" /\ t \in met[q] => t \in met'[q]
      /\ \A q \in Request : step[q] \in Ended => step'[q] = step[q]
  BY <1>1, OverlapStep DEF SessionInv
<1>3. \A p : Made(p) => Made(p)'
  BY <1>2 DEF Made
<1>4. AuthInv'
  BY <1>1, <1>2, <1>3 DEF SessionInv, AuthInv
<1>5. RefreshedOnce'
  BY <1>1, <1>2 DEF SessionInv, AuthInv, RefreshedOnce, Ended
<1>6. LoggedOutStaysOut'
  <2> SUFFICES ASSUME NEW q \in Request, auth[q].kind = "logout",
                      session[auth[q].user] # Null,
                      ~(session[auth[q].user] > q)
               PROVE  session[auth[q].user] \in met'[q]
    BY <1>1 DEF LoggedOutStaysOut
  <2>1. session[auth[q].user] \in met[q]
    BY DEF SessionInv, LoggedOutStaysOut
  <2>2. step[q] # "idle"
    BY DEF SessionInv, AuthInv, Ended
  <2>3. q # r \/ GoesOn(r)
    BY <2>2 DEF Begins
  <2> QED BY <2>1, <2>3 DEF Begins, GoesOn
<1>7. \A q \in Request : step'[q] = IF q = r THEN s ELSE step[q]
  BY DEF StepsTo, SessionInv, OverlapInv, TypeInv
<1> QED BY <1>2, <1>3, <1>4, <1>5, <1>6, <1>7

LEMMA KeptApart ==
    ASSUME SessionInv, NEW r \in Request, Apart(r)
    PROVE  SessionInv'
<1>1. PICK s : s # "idle" /\ s \notin Holding /\ StepsTo(r, s)
  BY DEF Apart
<1>2. Begins(r) \/ GoesOn(r)
  BY DEF Apart
<1>3. session' = session /\ auth' = auth /\ area' = area
  BY DEF Apart, accountVars
<1>4. UNCHANGED <<area, accountVars>>
  BY DEF Apart
<1>5. /\ OverlapInv' /\ AuthInv' /\ RefreshedOnce' /\ LoggedOutStaysOut'
      /\ \A p : Made(p) => Made(p)'
      /\ \A q \in Request : step'[q] = IF q = r THEN s ELSE step[q]
      /\ \A q, t \in Request : step[q] # "idle" /\ t \in met[q] => t \in met'[q]
  BY <1>1, <1>2, <1>4, SessionsKept
<1>6. \A q \in Request : step'[q] \in Holding =>
         q # r /\ step[q] = step'[q] /\ mem'[q] = mem[q]
  BY <1>1, <1>5 DEF StepsTo
<1>7. PairInv'
  BY <1>3, <1>5, <1>6 DEF SessionInv, PairInv
<1>8. HeldInv'
  <2> SUFFICES ASSUME NEW q \in Request, NEW t \in Request,
                      auth[q].kind = "refresh", step'[t] = "refresh.save",
                      mem'[t].dto.user = auth[q].user, mem'[t].dto.pair = auth[q].pair
               PROVE  q \in met'[t] /\ t \in met'[q]
    BY <1>3 DEF HeldInv
  <2>1. q \in met[t] /\ t \in met[q]
    BY <1>6 DEF SessionInv, HeldInv, Holding
  <2>2. step[q] # "idle" /\ step[t] # "idle"
    BY <1>6 DEF SessionInv, AuthInv, Ended, Holding
  <2> QED BY <1>5, <2>1, <2>2
<1> QED BY <1>5, <1>7, <1>8 DEF SessionInv

\* A request begins that reads a record: its pair was taken by nobody yet.
LEMMA KeptReads ==
    ASSUME SessionInv, NEW r \in Request, NEW s \in Holding, ReadsSession(r, s),
           UNCHANGED area
    PROVE  SessionInv'
<1>1. PICK u \in DOMAIN session :
         /\ session[u] # Null
         /\ Begin(r, s, [dto |-> [user |-> u, pair |-> session[u]]])
         /\ UNCHANGED accountVars
  BY DEF ReadsSession
<1>2. StepsTo(r, s) /\ Begins(r)
  BY <1>1, BeginApart DEF SessionInv, OverlapInv
<1>3. session' = session /\ auth' = auth
  BY <1>1 DEF accountVars
<1>4. mem'[r].dto = [user |-> u, pair |-> session[u]]
  BY <1>1 DEF Begin, SessionInv, OverlapInv, TypeInv, NoMem, Memory
<1>5. /\ OverlapInv' /\ AuthInv' /\ RefreshedOnce' /\ LoggedOutStaysOut'
      /\ \A p : Made(p) => Made(p)'
      /\ \A q \in Request : step'[q] = IF q = r THEN s ELSE step[q]
      /\ \A q, t \in Request : step[q] # "idle" /\ t \in met[q] => t \in met'[q]
  BY <1>1, <1>2, SessionsKept DEF Holding
<1>6. PairInv'
  <2>1. Made(session[u])'
    BY <1>1, <1>3, <1>5 DEF SessionInv, PairInv
  <2>2. \A q \in Request \ {r} : step'[q] = step[q] /\ mem'[q] = mem[q]
    BY <1>2, <1>5 DEF StepsTo
  <2> QED BY <1>3, <1>4, <1>5, <2>1, <2>2 DEF SessionInv, PairInv
<1>7. HeldInv'
  <2> SUFFICES ASSUME NEW q \in Request, NEW t \in Request,
                      auth[q].kind = "refresh", step'[t] = "refresh.save",
                      mem'[t].dto.user = auth[q].user, mem'[t].dto.pair = auth[q].pair
               PROVE  q \in met'[t] /\ t \in met'[q]
    BY <1>3 DEF HeldInv
  <2>1. t # r
    <3> SUFFICES ASSUME t = r PROVE FALSE
      OBVIOUS
    <3>1. auth[q].user = u /\ auth[q].pair = session[u]
      BY <1>4
    <3> QED BY <3>1 DEF SessionInv, AuthInv
  <2>2. step[t] = "refresh.save" /\ mem'[t] = mem[t]
    BY <1>2, <1>5, <2>1 DEF StepsTo
  <2>3. q \in met[t] /\ t \in met[q]
    BY <2>2 DEF SessionInv, HeldInv
  <2>4. step[q] # "idle" /\ step[t] # "idle"
    BY <2>2 DEF SessionInv, AuthInv, Ended
  <2> QED BY <1>5, <2>3, <2>4
<1> QED BY <1>5, <1>6, <1>7 DEF SessionInv

\* A request that writes or deletes the record, as the last thing it does.
LEMMA KeptSets ==
    ASSUME SessionInv, NEW r \in Request, NEW u, NEW pair, NEW kind, NEW used,
           SetsSession(r, u, pair, kind, used), r \in Open, UNCHANGED area,
           \/ kind = "signin" /\ pair = r
           \/ kind = "logout" /\ pair = Null /\ u \in DOMAIN session
           \/ /\ kind = "refresh" /\ pair = r
              /\ u \in DOMAIN session /\ Made(used)
              /\ \A q \in Request :
                    auth[q].kind = "refresh" /\ auth[q].user = u /\ auth[q].pair = used
                       => q \in met[r] /\ r \in met[q]
    PROVE  SessionInv'
<1>1. /\ session' = [session EXCEPT ![u] = pair]
      /\ auth' = [auth EXCEPT ![r] = [kind |-> kind, user |-> u, pair |-> used]]
      /\ Goto(r, "ok", NoMem)
  BY DEF SetsSession, Reads
<1>2. /\ StepsTo(r, "ok") /\ met' = met /\ GoesOn(r)
      /\ DOMAIN auth' = DOMAIN auth
  BY <1>1, GotoApart DEF SessionInv, OverlapInv, GoesOn
<1>3. OverlapInv'
  BY <1>2, OverlapStep DEF SessionInv
<1>4. \A q \in Request : step'[q] = IF q = r THEN "ok" ELSE step[q]
  BY <1>2 DEF StepsTo, SessionInv, OverlapInv, TypeInv
<1>5. \A q \in Request :
         /\ q # r => auth'[q] = auth[q]
         /\ auth'[r] = [kind |-> kind, user |-> u, pair |-> used]
  BY <1>1 DEF SessionInv, OverlapInv, TypeInv
<1>6. \A v \in DOMAIN session : session'[v] = IF v = u THEN pair ELSE session[v]
  BY <1>1
<1>7. DOMAIN session' = DOMAIN session
  BY <1>1
<1>8. \A p : Made(p) => Made(p)' /\ p # r
  BY <1>4 DEF Made, Open, Ended
<1>9. Made(r)'
  BY <1>4, BoundAssumption DEF Made, Ended
<1>10. PairInv'
  <2>1. \A v \in DOMAIN session : session'[v] # Null => Made(session[v])'
    BY <1>6, <1>7, <1>8, <1>9 DEF SessionInv, PairInv
  <2>2. \A q \in Request : step'[q] \in Holding =>
           step[q] = step'[q] /\ mem'[q] = mem[q]
    BY <1>2, <1>4 DEF StepsTo, Holding
  <2> QED BY <1>7, <1>8, <2>1, <2>2 DEF SessionInv, PairInv
<1>11. AuthInv'
  <2> SUFFICES ASSUME NEW q \in Request
               PROVE  /\ auth'[q].kind # "none" => step'[q] \in Ended
                      /\ auth'[q].kind \in {"refresh", "logout"} =>
                            auth'[q].user \in DOMAIN session
                      /\ auth'[q].kind = "refresh" =>
                            /\ Made(auth[q].pair)'
                            /\ session'[auth'[q].user] # auth'[q].pair
    BY <1>7 DEF AuthInv
  <2>1. CASE q = r
    <3>1. auth'[q].kind = kind /\ auth'[q].user = u /\ auth'[q].pair = used
      BY <1>5, <2>1
    <3>2. step'[q] \in Ended
      BY <1>4, <2>1 DEF Ended
    <3>3. kind = "refresh" => session'[u] = r /\ Made(used)' /\ used # r
      BY <1>6, <1>8
    <3>4. kind \in {"refresh", "logout"} => u \in DOMAIN session
      OBVIOUS
    <3> QED BY <3>1, <3>2, <3>3, <3>4
  <2>2. CASE q # r
    <3>1. /\ auth[q].kind # "none" => step[q] \in Ended
          /\ auth[q].kind \in {"refresh", "logout"} => auth[q].user \in DOMAIN session
          /\ auth[q].kind = "refresh" => /\ Made(auth[q].pair)
                                          /\ session[auth[q].user] # auth[q].pair
      BY DEF SessionInv, AuthInv
    <3>2. auth'[q] = auth[q] /\ step'[q] = step[q]
      BY <1>4, <1>5, <2>2
    <3>3. auth[q].kind = "refresh" => Made(auth[q].pair)' /\ auth[q].pair \notin {r, Null}
      BY <1>8, <3>1, <3>2 DEF Made
    <3>4. auth[q].kind = "refresh" => session'[auth[q].user] # auth[q].pair
      BY <1>6, <3>1, <3>3
    <3> QED BY <3>1, <3>2, <3>3, <3>4
  <2> QED BY <2>1, <2>2
<1>12. HeldInv'
  <2> SUFFICES ASSUME NEW q \in Request, NEW t \in Request,
                      auth'[q].kind = "refresh", step'[t] = "refresh.save",
                      mem'[t].dto.user = auth'[q].user, mem'[t].dto.pair = auth'[q].pair
               PROVE  q \in met[t] /\ t \in met[q]
    BY <1>2 DEF HeldInv
  <2>1. t # r /\ step[t] = "refresh.save" /\ mem'[t] = mem[t] /\ t \in Open
    BY <1>2, <1>4 DEF StepsTo, Open, Ended
  <2>2. CASE q = r
    BY <2>1, <2>2 DEF SessionInv, OverlapInv, MetInv
  <2>3. CASE q # r
    BY <1>5, <2>1, <2>3 DEF SessionInv, HeldInv
  <2> QED BY <2>2, <2>3
<1>13. RefreshedOnce'
  <2> SUFFICES ASSUME NEW q \in Request, NEW t \in Request, q # t,
                      auth'[q].kind = "refresh", auth'[q] = auth'[t]
               PROVE  q \in met[t]
    BY <1>2 DEF RefreshedOnce
  <2>1. CASE q # r /\ t # r
    BY <1>5, <2>1 DEF SessionInv, RefreshedOnce
  <2>2. CASE q = r
    <3>1. kind = "refresh" /\ auth[t] = [kind |-> kind, user |-> u, pair |-> used]
      BY <1>5, <2>2
    <3> QED BY <2>2, <3>1
  <2>3. CASE t = r
    <3>1. kind = "refresh" /\ auth[q] = [kind |-> kind, user |-> u, pair |-> used]
      BY <1>5, <2>3
    <3> QED BY <2>3, <3>1
  <2> QED BY <2>1, <2>2, <2>3
<1>14. LoggedOutStaysOut'
  <2> SUFFICES ASSUME NEW q \in Request, auth'[q].kind = "logout",
                      session'[auth'[q].user] # Null
               PROVE  \/ session'[auth'[q].user] > q
                      \/ session'[auth'[q].user] \in met[q]
    BY <1>2 DEF LoggedOutStaysOut
  <2>1. CASE q = r
    BY <1>5, <1>6, <2>1
  <2>2. CASE q # r
    <3>1. /\ auth'[q] = auth[q] /\ step[q] \in Ended
          /\ auth[q].user \in DOMAIN session
      BY <1>5, <2>2 DEF SessionInv, AuthInv
    <3>2. CASE auth[q].user = u
      <4>1. session'[auth[q].user] = r
        BY <1>6, <3>1, <3>2
      <4> QED BY <3>1, <4>1 DEF SessionInv, OverlapInv, LaterInv
    <3>3. CASE auth[q].user # u
      BY <1>6, <3>1, <3>3 DEF SessionInv, LoggedOutStaysOut
    <3> QED BY <3>2, <3>3
  <2> QED BY <2>1, <2>2
<1> QED BY <1>3, <1>10, <1>11, <1>12, <1>13, <1>14 DEF SessionInv

LEMMA KeptSession ==
    ASSUME SessionInv, NEW r \in Request, SessionOperation(r), UNCHANGED area
    PROVE  SessionInv'
<1> USE DEF At
<1>1. TypeInv
  BY DEF SessionInv, OverlapInv
<1>2. CASE SignIn(r)
  <2>1. /\ \E m : Begin(r, "signin.user", m)
        /\ UNCHANGED <<area, accountVars>>
    BY <1>2 DEF SignIn
  <2>2. Apart(r)
    BY <1>1, <2>1, ApartBegin DEF Holding
  <2> QED BY <2>2, KeptApart
<1>3. CASE SignInUser(r)
  <2>1. PICK s \in {"signin.save", "error"} : Goto(r, s, <<>>)
    BY <1>3 DEF SignInUser, Reads
  <2>2. r \in Open /\ UNCHANGED <<area, accountVars>>
    BY <1>3 DEF SignInUser, Open, Ended
  <2>3. Apart(r)
    BY <1>1, <2>1, <2>2, ApartGoto DEF Holding
  <2> QED BY <2>3, KeptApart
<1>4. CASE SignInSave(r)
  <2>1. r \in Open /\ SetsSession(r, mem[r].dto.user, r, "signin", Null)
    BY <1>4 DEF SignInSave, Open, Ended
  <2> QED BY <2>1, KeptSets
<1>5. CASE Refresh(r) \/ Logout(r)
  <2>1. \E s \in Holding : ReadsSession(r, s)
    BY <1>5 DEF Refresh, Logout, Holding
  <2> QED BY <2>1, KeptReads
<1>6. CASE RefreshSave(r)
  <2> DEFINE u == mem[r].dto.user
             p == mem[r].dto.pair
  <2>1. r \in Open /\ SetsSession(r, u, r, "refresh", p)
    BY <1>6 DEF RefreshSave, Open, Ended
  <2>2. u \in DOMAIN session /\ Made(p)
    BY <1>6 DEF RefreshSave, SessionInv, PairInv, Holding
  <2>3. \A q \in Request :
           auth[q].kind = "refresh" /\ auth[q].user = u /\ auth[q].pair = p
              => q \in met[r] /\ r \in met[q]
    BY <1>6 DEF RefreshSave, SessionInv, HeldInv
  <2> HIDE DEF u, p
  <2> QED BY <2>1, <2>2, <2>3, KeptSets
<1>7. CASE LogoutDelete(r)
  <2>1. /\ r \in Open
        /\ SetsSession(r, mem[r].dto.user, Null, "logout", mem[r].dto.pair)
    BY <1>7 DEF LogoutDelete, Open, Ended
  <2>2. mem[r].dto.user \in DOMAIN session
    BY <1>7 DEF LogoutDelete, SessionInv, PairInv, Holding
  <2> QED BY <2>1, <2>2, KeptSets
<1> QED
  BY <1>2, <1>3, <1>4, <1>5, <1>6, <1>7 DEF SessionOperation

\* A step that moves no request and leaves each record as it is or empty.
LEMMA KeptIdle ==
    ASSUME SessionInv, UNCHANGED <<area, step, mem, met, auth>>,
           DOMAIN session' = DOMAIN session,
           \A u \in DOMAIN session : session'[u] \in {session[u], Null}
    PROVE  SessionInv'
<1>1. OverlapInv'
  BY DEF SessionInv, OverlapInv, TypeInv, OrderInv, MetInv, LaterInv, Open
<1>2. \A p : Made(p) => Made(p)' /\ p # Null
  BY DEF Made
<1>3. PairInv'
  BY <1>2 DEF SessionInv, PairInv
<1>4. AuthInv'
  BY <1>2 DEF SessionInv, AuthInv
<1>5. HeldInv' /\ RefreshedOnce'
  BY DEF SessionInv, HeldInv, RefreshedOnce
<1>6. LoggedOutStaysOut'
  BY DEF SessionInv, AuthInv, LoggedOutStaysOut
<1> QED BY <1>1, <1>3, <1>4, <1>5, <1>6 DEF SessionInv

LEMMA SessionInit == Init => SessionInv
<1> SUFFICES ASSUME Init PROVE SessionInv
  OBVIOUS
<1>1. /\ area \in Area
      /\ step = [r \in Request |-> "idle"]
      /\ DOMAIN mem = Request
      /\ session = SignedIn[area]
      /\ auth = [r \in Request |-> NoAuth]
  BY DEF Init, TablesInit, AccountsInit
<1>2. \A r \in Request : step[r] = "idle" /\ auth[r].kind = "none" /\ r \notin Open
  BY <1>1 DEF NoAuth, Open
<1>3. OverlapInv
  BY <1>1, <1>2 DEF OverlapInv, TypeInv, OrderInv, MetInv, LaterInv, Open, Ended
<1>4. PairInv
  BY <1>1, <1>2, PeopleAssumption DEF PairInv, Made, Holding
<1>5. AuthInv /\ HeldInv /\ RefreshedOnce /\ LoggedOutStaysOut
  BY <1>2 DEF AuthInv, HeldInv, RefreshedOnce, LoggedOutStaysOut
<1> QED BY <1>3, <1>4, <1>5 DEF SessionInv

LEMMA SessionStep == SessionInv /\ [Next]_vars => SessionInv'
<1> SUFFICES ASSUME SessionInv, [Next]_vars PROVE SessionInv'
  OBVIOUS
<1>1. TypeInv
  BY DEF SessionInv, OverlapInv
<1>2. ASSUME NEW r \in Among[area], Operation(r), UNCHANGED area PROVE SessionInv'
  <2>1. r \in Request
    BY <1>1, <1>2, PeopleAssumption DEF TypeInv
  <2>2. CASE SessionOperation(r)
    BY <1>2, <2>1, <2>2, KeptSession
  <2>3. CASE UNCHANGED accountVars /\ ~SessionOperation(r)
    <3>1. UNCHANGED <<area, accountVars>>
      BY <1>2, <2>3
    <3>2. Apart(r)
      BY <1>1, <1>2, <2>1, <2>3, <3>1, ApartUser, ApartContact, ApartPerson, ApartFails
      DEF Operation
    <3> QED BY <2>1, <3>2, KeptApart
  <2> QED BY <1>2, <2>2, <2>3 DEF Operation
<1>3. CASE Expires /\ UNCHANGED area
  <2>1. UNCHANGED <<area, step, mem, met, auth>>
    BY <1>3 DEF Expires, tableVars
  <2>2. /\ DOMAIN session' = DOMAIN session
        /\ \A u \in DOMAIN session : session'[u] \in {session[u], Null}
    BY <1>3 DEF Expires
  <2> QED BY <2>1, <2>2, KeptIdle
<1>4. CASE (Finished /\ UNCHANGED area) \/ UNCHANGED vars
  BY <1>4, KeptIdle DEF Finished, vars, tableVars, accountVars
<1> QED BY <1>2, <1>3, <1>4 DEF Next

\* Two requests make new pairs from one refresh token only if they overlap,
\* although nothing makes generateNewTokenService's reading and writing of
\* the record one step: a pair that was spent is never in the record again.
THEOREM RefreshOnce == Spec => []RefreshedOnce
<1>1. SessionInv => RefreshedOnce
  BY DEF SessionInv
<1> QED BY <1>1, SessionInit, SessionStep, PTL DEF Spec

\* After a logout the record is there again only where a request wrote it
\* that overlapped the logout or began after it.
THEOREM LogoutLasts == Spec => []LoggedOutStaysOut
<1>1. SessionInv => LoggedOutStaysOut
  BY DEF SessionInv
<1> QED BY <1>1, SessionInit, SessionStep, PTL DEF Spec

=============================================================================
