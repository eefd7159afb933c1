------------------------------- MODULE Stores -------------------------------
(***************************************************************************)
(* StoresService and OpeningHoursService.  Stores are inserted, updated    *)
(* and removed by single statements, the removal after that of the         *)
(* opening hours.  An opening-hours row belongs to a store and a day; POST *)
(* looks for the row of the day and saves it or inserts one, PATCH saves a *)
(* row under any day and store the body names.                             *)
(***************************************************************************)
EXTENDS Tables

CONSTANTS
    StoreName,   \* names of stores, under a unique index
    Day,         \* days of the week
    Slots        \* time slots of a day

StoreRow(name) == [at |-> "live", name |-> name]
HoursRow(store, day, slots) ==
    [at |-> "live", store |-> store, day |-> day, slots |-> slots]
CreateStoreDto == [name : StoreName]
CreateOpeningHoursDto(stores) == [store : stores, day : Day, slots : Slots]
\* A body without a day, Null here, keeps the day.
UpdateOpeningHoursDto == [day : Day \cup {Null}, slots : Slots]
HoursColumns == {"at", "day", "slots"}   \* the relation store is not loaded
HoursOf(stores) == {h \in Live("hours") : Row("hours", h).store \in stores}

-----------------------------------------------------------------------------
(* Stores.                                                                 *)

\* A name that is taken is refused by the index and answered as a conflict.
CreateStore(r) ==
    \E dto \in CreateStoreDto :
        /\ Begin(r, "ok", NoMem)
        /\ Inserts(r, Single(<<"store", r>>, StoreRow(dto.name)))

\* update, then findOne for the answer: an unknown id is told afterwards.
UpdateStore(r) ==
    \E s \in Live("store"), dto \in CreateStoreDto :
        /\ Begin(r, "ok", NoMem)
        /\ Updates(r, {<<"store", s>>}, dto)

\* remove and removeBulk: the hours go in a statement before the stores.
RemoveStores(r) ==
    \E ids \in SUBSET Ids("store") \ {{}} :
        /\ Begin(r, "store.delete", [dto |-> ids])
        /\ Removes(r, {"hours"} \X HoursOf(ids))

RemoveStoresDelete(r) ==
    /\ At(r, "store.delete")
    /\ LET keys == {"store"} \X (mem[r].dto \cap Ids("store"))
       IN  IF keys = {} THEN Reads(r, "error", NoMem)
           ELSE RemoveThen(r, keys, "ok", NoMem)

-----------------------------------------------------------------------------
(* Opening hours.                                                          *)

CreateHours(r) ==
    \E dto \in CreateOpeningHoursDto(Live("store")) :
        /\ Begin(r, "hours.find", [dto |-> dto])
        /\ UNCHANGED <<db, hist, faults>>

\* What a slip would be: the row of the day is not looked for.
CreateHoursFindNone(r) ==
    /\ At(r, "hours.find")
    /\ Reads(r, "hours.insert", <<>>)

\* The row of the day, or none: that decides between an update and an insert.
CreateHoursFind(r) ==
    /\ At(r, "hours.find")
    /\ LET dto == mem[r].dto
           found == {h \in HoursOf({dto.store}) : Row("hours", h).day = dto.day}
       IN  \/ found = {} /\ Reads(r, "hours.insert", <<>>)
           \/ \E h \in found :
                Reads(r, "hours.reload",
                  Save(Single(<<"hours", h>>,
                              Assigned(Only(Row("hours", h), HoursColumns), [slots |-> dto.slots])),
                       {"slots"}))

CreateHoursInsert(r) ==
    /\ At(r, "hours.insert")
    /\ LET dto == mem[r].dto
       IN  InsertThen(r, Single(<<"hours", r>>, HoursRow(dto.store, dto.day, dto.slots)), "ok", NoMem)

\* A body without a storeID looks a store up under no condition at all and
\* gets any one.
UpdateHours(r) ==
    \E h \in Ids("hours"), s \in Live("store"), dto \in UpdateOpeningHoursDto :
        /\ Begin(r, "hours.preload", [dto |->
              [id |-> h, values |-> Over(IF dto.day = Null THEN <<>> ELSE [day |-> dto.day],
                                         [store |-> s, slots |-> dto.slots])]])
        /\ UNCHANGED <<db, hist, faults>>

UpdateHoursPreload(r) ==
    /\ At(r, "hours.preload")
    /\ LET dto == mem[r].dto
       IN  IF dto.id \notin Live("hours") THEN Reads(r, "error", NoMem)
           ELSE Reads(r, "hours.reload",
                  Save(Single(<<"hours", dto.id>>, Assigned(Row("hours", dto.id), dto.values)),
                       DOMAIN dto.values))

HoursReload(r) ==
    /\ At(r, "hours.reload")
    /\ Reload(r, "hours.write")

HoursWrite(r) ==
    /\ At(r, "hours.write")
    /\ Write(r, "ok", NoMem)

RemoveHours(r) ==
    \E ids \in SUBSET Ids("hours") \ {{}} :
        /\ Begin(r, "ok", NoMem)
        /\ Removes(r, {"hours"} \X ids)

-----------------------------------------------------------------------------

StoreOperation(r) ==
    \/ CreateStore(r) \/ UpdateStore(r) \/ RemoveStores(r) \/ RemoveStoresDelete(r)

HoursOperation(r) ==
    \/ CreateHours(r) \/ CreateHoursFind(r) \/ CreateHoursInsert(r)
    \/ UpdateHours(r) \/ UpdateHoursPreload(r) \/ HoursReload(r) \/ HoursWrite(r)
    \/ RemoveHours(r)

-----------------------------------------------------------------------------

\* Columns of stores and opening hours hold what the entities declare.
StoresTypeOK ==
    /\ \A s \in Ids("store") : Row("store", s).name \in StoreName
    /\ \A h \in Ids("hours") : /\ Row("hours", h).store \in Ids("store") \cup {Null}
                                /\ Row("hours", h).day \in Day
                                /\ Row("hours", h).slots \in Slots

\* POST keeps one row for a store and a day.  Two rows that POST put on one
\* day, and that no PATCH moved since, come from requests that overlapped.
DayTwiceOnlyByOverlap ==
    \A h, i \in Live("hours") :
        (/\ h # i
         /\ Row("hours", h).store = Row("hours", i).store
         /\ Row("hours", h).day = Row("hours", i).day
         /\ \A j \in {h, i} : \A c \in {"store", "day"} : hist[<<"hours", j>>][c].by = j)
            => h \in met[i]

=============================================================================
