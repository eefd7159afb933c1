----------------------------- MODULE CashDrawer -----------------------------
(***************************************************************************)
(* CashDrawerService: registers that are opened and closed, and the cash   *)
(* put into and taken out of them.  Opening looks nothing up; closing and  *)
(* editing read a row and save it.  A register can be closed again, and    *)
(* cash moved in a closed one.  Nothing is ever deleted.                   *)
(***************************************************************************)
EXTENDS Tables

CONSTANTS
    CloseRegisterDto,   \* bodies: [closed, counted]
    CashManagementDto   \* bodies: some of cashIn, cashOut

ASSUME CashDtoAssumption ==
    /\ \A dto \in CloseRegisterDto : DOMAIN dto = {"closed", "counted"}
    /\ \A dto \in CashManagementDto : DOMAIN dto \subseteq {"cashIn", "cashOut"}

RegisterRow == [at |-> "live", closed |-> Null, counted |-> 0]
CashRow(register, cash) ==
    Over(cash, [at |-> "live", register |-> register, cashIn |-> Null, cashOut |-> Null])
Closing == {dto.closed : dto \in CloseRegisterDto}
CashColumns == {"at", "cashIn", "cashOut"}   \* the register is not loaded
CashReferences ==
    {[table |-> "cash", column |-> "register", target |-> "register", rule |-> "refuse",
      optional |-> TRUE]}

\* The store and the user are foreign keys that do not change here.
OpenRegister(r) ==
    /\ Begin(r, "ok", NoMem)
    /\ Inserts(r, Single(<<"register", r>>, RegisterRow))

\* The date and the count that a body has are assigned to what was read.
CloseRegister(r) ==
    \E i \in Live("register"), dto \in CloseRegisterDto :
        /\ Begin(r, "entity.reload",
              Save(Single(<<"register", i>>, Assigned(Row("register", i), dto)), DOMAIN dto))
        /\ UNCHANGED <<db, hist, faults>>

AddCashManagement(r) ==
    \E i \in Ids("register"), dto \in CashManagementDto :
        /\ Begin(r, "ok", NoMem)
        /\ Inserts(r, Single(<<"cash", r>>, CashRow(i, dto)))

\* What a slip would be: an amount that the body leaves out is emptied.
AssignedCashWhole(row, dto) == Assigned(row, Over(dto, [cashIn |-> Null, cashOut |-> Null]))

\* create() leaves out what the body does not have, and so does the
\* assignment.
AssignedCash(row, dto) == Assigned(row, dto)

EditCashManagement(r) ==
    \E c \in Live("cash"), dto \in CashManagementDto :
        /\ Begin(r, "entity.reload",
              Save(Single(<<"cash", c>>, AssignedCash(Only(Row("cash", c), CashColumns), dto)),
                   DOMAIN dto))
        /\ UNCHANGED <<db, hist, faults>>

CashOperation(r) ==
    \/ OpenRegister(r) \/ CloseRegister(r)
    \/ AddCashManagement(r) \/ EditCashManagement(r)

-----------------------------------------------------------------------------

\* Columns of registers and of the cash in them hold what the entities
\* declare.
CashTypeOK ==
    /\ \A i \in Ids("register") : Row("register", i).closed \in Closing \cup {Null}
    /\ \A c \in Ids("cash") : Row("cash", c).register \in Ids("register") \cup {Null}

=============================================================================
