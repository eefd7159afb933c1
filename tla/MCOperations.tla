---------------------------- MODULE MCOperations ----------------------------
(* Two items, of one of which there is a purchase; a register with cash;   *)
(* two attendances, one with both photos and a break.                      *)
EXTENDS Operations

MCRows ==
    [inventory |-> (<<"item", 11>> :> ItemRow("old")) @@ (<<"item", 12>> :> ItemRow("old"))
        @@ (<<"purchase", 11>> :> PurchaseRow(11, 1))
        @@ (<<"stock", 11>> :> StockRow(11, 11, 1, 0)),
     cash |-> (<<"register", 11>> :> RegisterRow)
        @@ (<<"cash", 11>> :> CashRow(11, [cashIn |-> 1])),
     attendance |-> (<<"attendance", 11>> :> AttendanceRow(Null, [in |-> 1, out |-> 2]))
        @@ (<<"attendance", 12>> :> AttendanceRow(Null, [in |-> 3]))
        @@ (<<"break", 11>> :> EntryRow(11, "old"))]

MCArea == DOMAIN MCRows
MCPhotos == [inventory |-> {}, cash |-> {}, attendance |-> 1..3]
MCAmong == [inventory |-> 1..3, cash |-> 1..3, attendance |-> 1..2]

MCCloseRegisterDto == {[closed |-> "noon", counted |-> 0], [closed |-> "night", counted |-> 5]}
MCCashManagementDto == {[cashIn |-> 2], [cashOut |-> 3], [cashIn |-> 4, cashOut |-> 4]}

=============================================================================
