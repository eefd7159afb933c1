------------------------------ MODULE Discounts ------------------------------
(***************************************************************************)
(* DiscountService and DiscountUtils: a discount, the rows that offer it   *)
(* in a store (links), and the code that must name one live discount.      *)
(* Each request checks the code, or finds the discount, and then writes    *)
(* the discount and its links in statements of their own.                  *)
(***************************************************************************)
EXTENDS Tables

CONSTANTS
    Code,         \* discount codes
    DiscountDto,  \* bodies: [code, status, stores]
    StatusBody    \* statuses PATCH .../status may ask for

DiscountStatus == {"active", "expired", "archived", "scheduled"}
CreateDiscountDto(stores) ==
    [code : Code, status : {"active", "expired"}, stores : SUBSET stores]
UpdateDiscountDto(d, dto) == Over([id |-> d], dto)
ASSUME DiscountDtoAssumption ==
    /\ DiscountDto \subseteq CreateDiscountDto(UNION {d.stores : d \in DiscountDto})
    /\ StatusBody \subseteq DiscountStatus

DiscountRow(code, status) == [at |-> "live", code |-> code, status |-> status]
LinkRow(d, store, status) ==
    [at |-> "live", discount |-> d, store |-> store, status |-> status]

\* checkDiscountCode: live discounts other than d with this code.
CodeFree(code, d) == \A o \in Live("discount") \ {d} : Row("discount", o).code # code
\* checkAvailableStore: those of the stores asked for that exist.
AvailableStores(ids) == ids \cap Live("store")
LiveLinks(d) == {l \in Live("link") : Row("link", l).discount = d}

NewLinks(r, d, stores, status) ==
    [k \in {<<"link", <<r, s>>>> : s \in stores} |-> LinkRow(d, k[2][2], status)]
\* What a slip would be: a deleted link expires too.
LinksExpired(links) ==
    [k \in {"link"} \X links |-> Assigned(db[k], Over([status |-> "expired"], Deleted))]
LinksDeleted(links) ==
    [k \in {"link"} \X links |-> Assigned(db[k], Deleted)]

-----------------------------------------------------------------------------
(* addDiscount.                                                            *)

AddDiscount(r) ==
    \E dto \in DiscountDto :
        /\ CodeFree(dto.code, Null)
        /\ Begin(r, "discount.stores", [dto |-> dto])
        /\ UNCHANGED <<db, hist, faults>>

\* None of the stores exists: an answer of its own, nothing written.
AddDiscountStores(r) ==
    /\ At(r, "discount.stores")
    /\ LET stores == AvailableStores(mem[r].dto.stores)
       IN  IF stores = {} THEN Reads(r, "error", NoMem)
           ELSE Reads(r, "discount.insert", [dto |-> [mem[r].dto EXCEPT !.stores = stores]])

AddDiscountInsert(r) ==
    /\ At(r, "discount.insert")
    /\ InsertThen(r, Single(<<"discount", r>>, DiscountRow(mem[r].dto.code, mem[r].dto.status)),
                  "discount.links", <<>>)

AddDiscountLinks(r) ==
    /\ At(r, "discount.links")
    /\ InsertThen(r, NewLinks(r, r, mem[r].dto.stores, mem[r].dto.status), "ok", NoMem)

-----------------------------------------------------------------------------
(* updateDiscount.                                                         *)

\* What a slip would be: a code that is not checked when it is changed.
UpdateDiscountUnchecked(r) ==
    \E d \in Ids("discount"), dto \in DiscountDto :
        /\ Begin(r, "discount.find", [dto |-> UpdateDiscountDto(d, dto)])
        /\ UNCHANGED <<db, hist, faults>>

UpdateDiscount(r) ==
    \E d \in Ids("discount"), dto \in DiscountDto :
        /\ CodeFree(dto.code, d)
        /\ Begin(r, "discount.find", [dto |-> UpdateDiscountDto(d, dto)])
        /\ UNCHANGED <<db, hist, faults>>

\* getDiscountById, then the body assigned over what it returned.
UpdateDiscountFind(r) ==
    /\ At(r, "discount.find")
    /\ LET dto == mem[r].dto
       IN  IF dto.id \notin Live("discount") THEN Reads(r, "error", NoMem)
           ELSE Reads(r, "discount.reload",
                  Save(Single(<<"discount", dto.id>>,
                              Assigned(Row("discount", dto.id),
                                       [code |-> dto.code, status |-> dto.status])),
                       {"code", "status"}))

DiscountReload(r) ==
    /\ At(r, "discount.reload")
    /\ Reload(r, "discount.write")

\* A change of status ends here: the links keep the status they have.
DiscountWrite(r) ==
    /\ At(r, "discount.write")
    /\ Write(r, IF mem[r].dto = Null THEN "ok" ELSE "discount.diff", <<>>)

\* updateDiscountStores: the live links, compared with the stores asked for.
UpdateDiscountDiff(r) ==
    /\ At(r, "discount.diff")
    /\ LET dto == mem[r].dto
           links == LiveLinks(dto.id)
           lost == {l \in links : Row("link", l).store \notin dto.stores}
           new == dto.stores \ {Row("link", l).store : l \in links}
       IN  Reads(r, "links.reload",
                 SaveWith([dto EXCEPT !.stores = new], LinksDeleted(lost), {"at"}))

LinksReload(r) ==
    /\ At(r, "links.reload")
    /\ Reload(r, "links.write")

LinksWrite(r) ==
    /\ At(r, "links.write")
    /\ Write(r, IF mem[r].dto = Null THEN "ok" ELSE "links.stores", <<>>)

UpdateDiscountStores(r) ==
    /\ At(r, "links.stores")
    /\ LET stores == AvailableStores(mem[r].dto.stores)
       IN  IF stores = {} THEN Reads(r, "ok", NoMem)
           ELSE Reads(r, "links.insert", [dto |-> [mem[r].dto EXCEPT !.stores = stores]])

UpdateDiscountLinks(r) ==
    /\ At(r, "links.insert")
    /\ InsertThen(r, NewLinks(r, mem[r].dto.id, mem[r].dto.stores, mem[r].dto.status),
                  "ok", NoMem)

-----------------------------------------------------------------------------
(* changeDiscountStatus: the whole discount as it was read, with a status. *)

ChangeDiscountStatus(r) ==
    \E d \in Live("discount"), status \in StatusBody :
        /\ Begin(r, "discount.reload",
             Save(Single(<<"discount", d>>, Assigned(Row("discount", d), [status |-> status])),
                  {"status"}))
        /\ UNCHANGED <<db, hist, faults>>

\* addDiscountTransaction: the discount, the store's link, the minimum and the
\* limits are looked up, and whatever they are the request ends in an error:
\* it reads .data of an answer that has none before it writes anything.
AddDiscountTransaction(r) ==
    /\ Begin(r, "error", NoMem)
    /\ UNCHANGED <<db, hist, faults>>

-----------------------------------------------------------------------------
(* deleteDiscountById, deleteDiscountByIds.                                *)

DeleteDiscount(r) ==
    \E d \in Live("discount") :
        /\ Begin(r, "discount.mark", [dto |-> [ids |-> {d}, one |-> TRUE]])
        /\ UNCHANGED <<db, hist, faults>>

DeleteDiscountMark(r) ==
    /\ At(r, "discount.mark")
    /\ Updates(r, {"discount"} \X mem[r].dto.ids, Deleted)
    /\ Goto(r, "discount.links.find", <<>>)

\* The bulk form saves the discounts it found with a deletion date.
DeleteDiscounts(r) ==
    \E ids \in SUBSET Ids("discount") :
        LET found == ids \cap Live("discount")
        IN  /\ found # {}
            /\ Begin(r, "discounts.reload",
                 SaveWith([ids |-> ids, one |-> FALSE],
                          [k \in {"discount"} \X found |-> Assigned(db[k], Deleted)], {"at"}))
            /\ UNCHANGED <<db, hist, faults>>

DeleteDiscountsReload(r) ==
    /\ At(r, "discounts.reload")
    /\ Reload(r, "discounts.write")

\* What a slip would be: the bulk form deletes the discounts only.
DeleteDiscountsWriteOnly(r) ==
    /\ At(r, "discounts.write")
    /\ Write(r, "ok", <<>>)

DeleteDiscountsWrite(r) ==
    /\ At(r, "discounts.write")
    /\ Write(r, "discount.links.find", <<>>)

\* A single discount without a link is answered "not found", deleted or not.
DeleteDiscountLinks(r) ==
    /\ At(r, "discount.links.find")
    /\ LET links == UNION {LiveLinks(d) : d \in mem[r].dto.ids}
       IN  IF links = {} /\ mem[r].dto.one THEN Reads(r, "error", NoMem)
           ELSE Reads(r, "links.reload", SaveWith(Null, LinksDeleted(links), {"at"}))

-----------------------------------------------------------------------------

DiscountOperation(r) ==
    \/ AddDiscount(r) \/ AddDiscountStores(r) \/ AddDiscountInsert(r) \/ AddDiscountLinks(r)
    \/ UpdateDiscount(r) \/ UpdateDiscountFind(r) \/ DiscountReload(r) \/ DiscountWrite(r)
    \/ UpdateDiscountDiff(r) \/ LinksReload(r) \/ LinksWrite(r)
    \/ UpdateDiscountStores(r) \/ UpdateDiscountLinks(r)
    \/ ChangeDiscountStatus(r) \/ AddDiscountTransaction(r)
    \/ DeleteDiscount(r) \/ DeleteDiscountMark(r)
    \/ DeleteDiscounts(r) \/ DeleteDiscountsReload(r) \/ DeleteDiscountsWrite(r)
    \/ DeleteDiscountLinks(r)

-----------------------------------------------------------------------------

\* Columns of discounts and links hold what the entities declare.
DiscountsTypeOK ==
    /\ \A d \in Ids("discount") : /\ Row("discount", d).code \in Code
                                  /\ Row("discount", d).status \in DiscountStatus
    /\ \A l \in Ids("link") : Row("link", l).discount \in Ids("discount")

\* checkDiscountCode has no unique index behind it.  Two live discounts that
\* nobody asked to delete, and whose codes are the ones last asked for, share
\* a code only where the requests that asked for it are linked by overlaps.
\* (A save() that puts back an older code is OverwrittenOnlyByOverlap's.)
ClashOnlyByOverlap ==
    \A d, e \in Live("discount") :
        LET last(i, c) == hist[<<"discount", i>>][c]
        IN  (/\ d # e /\ Row("discount", d).code = Row("discount", e).code
             /\ \A i \in {d, e} : /\ last(i, "at").val = "live"
                                  /\ last(i, "code").val = Row("discount", i).code)
                => /\ last(d, "code").by # Null
                   /\ Linked(last(d, "code").by, last(e, "code").by)

=============================================================================
