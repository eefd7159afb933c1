------------------------------ MODULE Accounts ------------------------------
(***************************************************************************)
(* AuthService, AuthRedisService, AuthGuard and UsersService.  A user has  *)
(* one row of contact information, made with it in one transaction and     *)
(* removed with it by the key.  Signing in stores a record with a pair of  *)
(* tokens under the user's id in Redis; a refresh replaces it, a logout    *)
(* deletes it.  The pair is named after the request that made it.          *)
(***************************************************************************)
EXTENDS Tables

CONSTANT UserDto   \* bodies

ASSUME UserDtoAssumption ==
    \A dto \in UserDto : DOMAIN dto = {"email", "mobile", "username"}

VARIABLES
    session,   \* the pair of tokens Redis holds for each user
    auth       \* history: what each request did to a session

accountVars == <<session, auth>>

UserRow(username, pass, status) ==
    [at |-> "live", username |-> username, pass |-> pass, status |-> status]
ContactRow(owner, id, email, mobile) ==
    Over(Single(owner, id),
         [at |-> "live", email |-> email, mobile |-> mobile,
          user |-> Null, customer |-> Null, supplier |-> Null])
AccountReferences ==
    {[table |-> "contact", column |-> "user", target |-> "user", rule |-> "cascade",
      optional |-> TRUE]}
AccountUniques == {[table |-> "user", column |-> "username"]}

\* Ids are numbered in each table on its own; none is used again.
NextId(t) == Cardinality({k \in DOMAIN hist : k[1] = t}) + 1

NoAuth == [kind |-> "none", user |-> Null, pair |-> Null]
AccountsInit(signedIn) ==
    /\ session = signedIn
    /\ auth = [r \in Request |-> NoAuth]

-----------------------------------------------------------------------------
(* Sign-up and the administrator's form.                                   *)

\* What a slip would be: the address is not compared.
ContactFreeOfNumber(dto) ==
    \A c \in Live("contact") : Row("contact", c).mobile # dto.mobile

\* Nobody, customers and suppliers included, has this address or number.
ContactFree(dto) ==
    \A c \in Live("contact") : /\ Row("contact", c).email # dto.email
                               /\ Row("contact", c).mobile # dto.mobile

Signup(r) ==
    \E dto \in UserDto :
        /\ ContactFree(dto)
        /\ Begin(r, "signup.name", [dto |-> Over(dto, [pass |-> "hash"])])
        /\ UNCHANGED <<db, hist, faults>>

\* The name first, then the hash of the password is awaited.
SignupName(r) ==
    /\ At(r, "signup.name")
    /\ Reads(r, IF \E u \in Live("user") : Row("user", u).username = mem[r].dto.username
                THEN "error" ELSE "user.insert", <<>>)

\* The password is kept as it came.
AddUser(r) ==
    \E dto \in UserDto :
        /\ ContactFree(dto)
        /\ Begin(r, "user.insert", [dto |-> Over(dto, [pass |-> "plain"])])
        /\ UNCHANGED <<db, hist, faults>>

\* The row of somebody new with that of the contact information.
WithContact(t, row, email, mobile) ==
    Over(Single(<<t, NextId(t)>>, row),
         Single(<<"contact", NextId("contact")>>, ContactRow(t, NextId(t), email, mobile)))

\* What a slip would be: contact information of nobody.
UserInsertApart(r) ==
    /\ At(r, "user.insert")
    /\ LET dto == mem[r].dto
       IN  InsertThen(r,
             Over(Single(<<"user", NextId("user")>>, UserRow(dto.username, dto.pass, "active")),
                  Single(<<"contact", NextId("contact")>>,
                         ContactRow("user", Null, dto.email, dto.mobile))), "ok", NoMem)

UserInsert(r) ==
    /\ At(r, "user.insert")
    /\ LET dto == mem[r].dto
       IN  InsertThen(r,
             WithContact("user", UserRow(dto.username, dto.pass, "active"),
                         dto.email, dto.mobile), "ok", NoMem)

\* The body saved has no id, so it is inserted, and no username: refused.
UpdateUser(r) ==
    /\ Ids("user") # {}
    /\ Begin(r, "error", NoMem)
    /\ UNCHANGED <<db, hist, faults>>

\* deleteUserService, deleteUsersByIdsService: the rows, not the session.
RemoveUsers(r) ==
    \E ids \in SUBSET Ids("user") \ {{}} :
        /\ Begin(r, "user.remove", [dto |-> ids])
        /\ UNCHANGED <<db, hist, faults>>

RemoveUsersDelete(r) ==
    /\ At(r, "user.remove")
    /\ RemoveThen(r, {"user"} \X (mem[r].dto \cap Ids("user")), "ok", NoMem)

UserOperation(r) ==
    \/ Signup(r) \/ SignupName(r) \/ AddUser(r) \/ UserInsert(r)
    \/ UpdateUser(r) \/ RemoveUsers(r) \/ RemoveUsersDelete(r)

-----------------------------------------------------------------------------
(* Sessions.  Each step below is one command sent to Redis or PostgreSQL.  *)

\* A person signs in; the row found is one with the same address.
SignIn(r) ==
    \E c, found \in Live("contact") :
        /\ Row("contact", c).user # Null
        /\ Row("contact", c).email = Row("contact", found).email
        /\ Begin(r, "signin.user", [dto |-> [user |-> Row("contact", c).user, id |-> found]])
        /\ UNCHANGED <<db, hist, faults, accountVars>>

\* The user looked for is the one with the id of the contact information;
\* the password is that person's if the user is.
SignInUser(r) ==
    /\ At(r, "signin.user")
    /\ LET dto == mem[r].dto
           known == dto.id \in Live("user") /\ Row("user", dto.id).status = "active"
       IN  Reads(r, IF known /\ dto.id = dto.user /\ Row("user", dto.id).pass = "hash"
                    THEN "signin.save" ELSE "error", <<>>)
    /\ UNCHANGED accountVars

SetsSession(r, u, pair, kind, used) ==
    /\ session' = [session EXCEPT ![u] = pair]
    /\ auth' = [auth EXCEPT ![r] = [kind |-> kind, user |-> u, pair |-> used]]
    /\ Reads(r, "ok", NoMem)

SignInSave(r) ==
    /\ At(r, "signin.save")
    /\ SetsSession(r, mem[r].dto.user, r, "signin", Null)

\* The record is read; only its own refresh token, or access token for a
\* logout, goes on.
ReadsSession(r, s) ==
    \E u \in DOMAIN session :
        /\ session[u] # Null
        /\ Begin(r, s, [dto |-> [user |-> u, pair |-> session[u]]])
        /\ UNCHANGED <<db, hist, faults, accountVars>>

Refresh(r) == ReadsSession(r, "refresh.save")

\* What a slip would be: the record keeps the pair it had.
RefreshKeeping(r) ==
    /\ At(r, "refresh.save")
    /\ SetsSession(r, mem[r].dto.user, mem[r].dto.pair, "refresh", mem[r].dto.pair)

\* Sent, not awaited; nothing asks whether the record is still the same.
RefreshSave(r) ==
    /\ At(r, "refresh.save")
    /\ SetsSession(r, mem[r].dto.user, r, "refresh", mem[r].dto.pair)

Logout(r) == ReadsSession(r, "logout.delete")

\* What a slip would be: a record deleted under another key.
LogoutElsewhere(r) ==
    /\ At(r, "logout.delete")
    /\ SetsSession(r, mem[r].dto.user, session[mem[r].dto.user], "logout", mem[r].dto.pair)

LogoutDelete(r) ==
    /\ At(r, "logout.delete")
    /\ SetsSession(r, mem[r].dto.user, Null, "logout", mem[r].dto.pair)

\* An hour after it was written.
Expires ==
    \E u \in DOMAIN session :
        /\ session[u] # Null
        /\ session' = [session EXCEPT ![u] = Null]
        /\ UNCHANGED <<tableVars, auth>>

SessionOperation(r) ==
    \/ SignIn(r) \/ SignInUser(r) \/ SignInSave(r)
    \/ Refresh(r) \/ RefreshSave(r)
    \/ Logout(r) \/ LogoutDelete(r)

-----------------------------------------------------------------------------

\* Whoever is known has one row of contact information, and each of these
\* rows is one person's.
Owners == {"user", "customer", "supplier"}
ContactKeys(rows, t, i) == {k \in DOMAIN rows : k[1] = "contact" /\ rows[k][t] = i}
OneContactIn(rows) ==
    /\ \A k \in DOMAIN rows : k[1] \in Owners =>
          \E c \in DOMAIN rows : ContactKeys(rows, k[1], k[2]) = {c}
    /\ \A k \in DOMAIN rows : k[1] = "contact" =>
          \E t \in Owners : {s \in Owners : rows[k][s] # Null} = {t}

\* The address and the number are looked for and then inserted, under a
\* unique index that names the user too and so never applies.  Two users
\* share one only where the requests that made them overlapped.
ContactTwiceOnlyByOverlap ==
    \A c, d \in Live("contact") :
        LET p == Row("contact", c)
            q == Row("contact", d)
        IN  (/\ c # d /\ p.user # Null /\ q.user # Null
             /\ p.email = q.email \/ p.mobile = q.mobile)
                => hist[<<"contact", c>>].email.writer \in met[hist[<<"contact", d>>].email.writer]

\* Of a refresh token two requests make new pairs only if they overlapped.
RefreshedOnce ==
    \A q, r \in Request :
        (q # r /\ auth[q].kind = "refresh" /\ auth[q] = auth[r]) => q \in met[r]

\* After a logout was answered the record is there again only where it was
\* written by a request that overlapped the logout, or began after it.
LoggedOutStaysOut ==
    \A r \in Request :
        (auth[r].kind = "logout" /\ session[auth[r].user] # Null) =>
            session[auth[r].user] > r \/ session[auth[r].user] \in met[r]

\* The user a sign-in looks up is the one the address belongs to.
SignInFindsPerson ==
    \A r \in Request : At(r, "signin.user") =>
        LET dto == mem[r].dto
        IN  dto.id \in Live("contact") =>
              Row("contact", dto.id).user = Null \/ Row("contact", dto.id).user = dto.id

=============================================================================
