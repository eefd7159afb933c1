-------------------------------- MODULE Menu --------------------------------
(***************************************************************************)
(* CategoryService, ProductService and ModifierGroupService.  A product    *)
(* belongs to a store and perhaps to a category; a modifier group is       *)
(* attached to categories by rows with a two-column key and offers         *)
(* products by its options.  Groups, options, products and categories are  *)
(* deleted by a date, the attachments by DELETE.                           *)
(***************************************************************************)
EXTENDS Tables, Sequences

CONSTANTS
    Title,      \* what a category, product or group may be called
    GroupDto,   \* POST bodies: [categories, options]
    GroupEdit   \* PUT bodies: [categories, options], Null where left out

\* An element of an option list: the id of an option or Null, and a product.
Lines(options) == {options[i] : i \in DOMAIN options}
OptionsDto(options) ==
    \A line \in Lines(options) : DOMAIN line = {"optionId", "product", "price"}
CreateModifierGroupDto(e) ==
    /\ e.categories # {} /\ e.options # <<>>
    /\ e.options \in Seq(Lines(e.options)) /\ OptionsDto(e.options)
    /\ \A line \in Lines(e.options) : line.optionId = Null
EditModifierGroupDto(e) ==
    e.options # Null => e.options \in Seq(Lines(e.options)) /\ OptionsDto(e.options)
ASSUME GroupAssumption ==
    /\ \A e \in GroupDto : CreateModifierGroupDto(e)
    /\ \A e \in GroupEdit : EditModifierGroupDto(e)

CategoryDto == [title : Title]
CreateProductDto(stores, categories) ==
    [title : Title, category : categories \cup {Null}, store : stores]
EditProductDto(stores, categories) ==
    [title : Title, category : categories \cup {Null}, store : stores \cup {Null}]

CategoryRow(title) == [at |-> "live", title |-> title]
ProductRow(title, category, store) ==
    [at |-> "live", title |-> title, category |-> category, store |-> store]
ProductColumns == {"at", "title"}   \* its relations are not loaded
GroupRow(title) == [at |-> "live", title |-> title]
OptionRow(g, p, price) == [at |-> "live", group |-> g, product |-> p, price |-> price]
OptionColumns == {"at", "group", "price"}
AttachedRow(g, c) == [at |-> "live", group |-> g, category |-> c]

LiveOptions(g) == {o \in Live("option") : Row("option", o).group = g}
Attached(g) == {a \in Ids("attached") : Row("attached", a).group = g}
\* What a slip would be: the two columns of the key the wrong way round.
AttachSwapped(g, categories) ==
    [k \in {"attached"} \X (categories \X {g}) |-> AttachedRow(g, k[2][1])]
Attach(g, categories) ==
    [k \in {"attached"} \X ({g} \X categories) |-> AttachedRow(g, k[2][2])]

-----------------------------------------------------------------------------
(* Categories.                                                             *)

AddCategory(r) ==
    \E dto \in CategoryDto :
        /\ Begin(r, "ok", NoMem)
        /\ Inserts(r, Single(<<"category", r>>, CategoryRow(dto.title)))

EditCategory(r) ==
    \E c \in Live("category"), dto \in CategoryDto :
        /\ Begin(r, "entity.reload",
             Save(Single(<<"category", c>>, Assigned(Row("category", c), dto)), {"title"}))
        /\ UNCHANGED <<db, hist, faults>>

DeleteCategory(r) ==
    \E c \in Live("category") :
        /\ Begin(r, "mark", [dto |-> <<"category", c>>])
        /\ UNCHANGED <<db, hist, faults>>

\* The end of the deletions of a category and of a product: UPDATE by id.
Mark(r) ==
    /\ At(r, "mark")
    /\ Updates(r, {mem[r].dto}, Deleted)
    /\ Goto(r, "ok", NoMem)

-----------------------------------------------------------------------------
(* Products.                                                               *)

AddProduct(r) ==
    \E dto \in CreateProductDto(Live("store"), Live("category")) :
        /\ Begin(r, "product.insert", [dto |-> ProductRow(dto.title, dto.category, dto.store)])
        /\ UNCHANGED <<db, hist, faults>>

AddProductInsert(r) ==
    /\ At(r, "product.insert")
    /\ InsertThen(r, Single(<<"product", r>>, mem[r].dto), "ok", NoMem)

\* The product first, then the category and the store the body names.
EditProduct(r) ==
    \E p \in Live("product"), dto \in EditProductDto(Ids("store"), Ids("category")) :
        LET values == Only(dto, {c \in DOMAIN dto : dto[c] # Null})
        IN  /\ Begin(r, "product.check",
                 Save(Single(<<"product", p>>,
                             Assigned(Only(Row("product", p), ProductColumns), values)),
                      DOMAIN values))
            /\ UNCHANGED <<db, hist, faults>>

EditProductCheck(r) ==
    /\ At(r, "product.check")
    /\ LET rows == mem[r].rows
           Known(t) == \A k \in DOMAIN rows : t \in DOMAIN rows[k] => rows[k][t] \in Live(t)
       IN  Reads(r, IF Known("category") /\ Known("store") THEN "entity.reload" ELSE "error", <<>>)

DeleteProduct(r) ==
    \E p \in Live("product") :
        /\ Begin(r, "mark", [dto |-> <<"product", p>>])
        /\ UNCHANGED <<db, hist, faults>>

-----------------------------------------------------------------------------
(* addModifier.                                                            *)

ProductsOf(options) == {line.product : line \in Lines(options)}

AddModifier(r) ==
    \E dto \in GroupDto :
        /\ dto.categories \subseteq Live("category")
        /\ Begin(r, "group.products", [dto |-> dto])
        /\ UNCHANGED <<db, hist, faults>>

\* Found one by one in a list without repetition, or the body is turned away.
AddModifierProducts(r) ==
    /\ At(r, "group.products")
    /\ LET options == mem[r].dto.options
           found == ProductsOf(options) \cap Live("product")
       IN  Reads(r, IF Cardinality(found) = Len(options) THEN "group.insert" ELSE "error", <<>>)

AddModifierInsert(r) ==
    /\ At(r, "group.insert")
    /\ InsertThen(r, Single(<<"group", r>>, GroupRow("new")), "group.attach", <<>>)

AddModifierAttach(r) ==
    /\ At(r, "group.attach")
    /\ InsertThen(r, Attach(r, mem[r].dto.categories), "group.options", <<>>)

AddModifierOptions(r) ==
    /\ At(r, "group.options")
    /\ LET options == mem[r].dto.options
       IN  InsertThen(r, [k \in {"option"} \X ({r} \X DOMAIN options) |->
                            OptionRow(r, options[k[2][2]].product, options[k[2][2]].price)],
                      "ok", NoMem)

-----------------------------------------------------------------------------
(* updateModifier: the attachments are replaced, the options are saved one *)
(* at a time, and the group is saved last, whole, as it was first read.    *)

UpdateModifier(r) ==
    \E g \in Live("group"), dto \in GroupEdit :
        LET first == Assigned(Row("group", g), [title |-> "edited"])
        IN  /\ Begin(r, "edit", [dto |-> [categories |-> dto.categories, options |-> dto.options,
                                      id |-> g, group |-> first, existing |-> <<>>]])
            /\ UNCHANGED <<db, hist, faults>>

\* Where the body has categories they are looked up, all of them.
UpdateModifierCategories(r) ==
    /\ At(r, "edit")
    /\ mem[r].dto.categories # Null
    /\ Reads(r, IF mem[r].dto.categories \subseteq Live("category")
                THEN "edit.detach" ELSE "error", <<>>)

UpdateModifierDetach(r) ==
    /\ At(r, "edit.detach")
    /\ Removes(r, {"attached"} \X Attached(mem[r].dto.id))
    /\ Goto(r, "edit.attach.reload",
            Save(Attach(mem[r].dto.id, mem[r].dto.categories), {"at", "group", "category"}))

UpdateModifierAttachReload(r) ==
    /\ At(r, "edit.attach.reload")
    /\ Reload(r, "edit.attach")

UpdateModifierAttach(r) ==
    /\ At(r, "edit.attach")
    /\ Write(r, "edit.attached", <<>>)

\* The options of the group are read once, before the loop.
UpdateModifierExisting(r) ==
    /\ \/ At(r, "edit.attached")
       \/ At(r, "edit") /\ mem[r].dto.categories = Null
    /\ mem[r].dto.options # Null
    /\ Reads(r, "edit.option", [dto |-> [mem[r].dto EXCEPT !.existing =
                                 Loaded("option", LiveOptions(mem[r].dto.id), OptionColumns)]])

\* One turn of the loop: an unknown option or product ends the request.
UpdateModifierOption(r) ==
    /\ At(r, "edit.option")
    /\ mem[r].dto.options # <<>>
    /\ LET dto == mem[r].dto
           line == Head(dto.options)
           rest == [dto EXCEPT !.options = Tail(@)]
           key == <<"option", line.optionId>>
           values == [product |-> line.product, price |-> line.price]
       IN  CASE \/ line.product \notin Live("product")
                \/ line.optionId # Null /\ key \notin DOMAIN dto.existing ->
                  Reads(r, "error", NoMem)
             [] line.product \in Live("product") /\ line.optionId = Null ->
                  Reads(r, "edit.option.insert",
                    SaveWith(rest, Single(<<"option", <<r, Len(dto.options)>>>>,
                                          OptionRow(dto.id, line.product, line.price)), {}))
             [] OTHER ->
                  Reads(r, "edit.option.reload",
                    SaveWith(rest, Single(key, Assigned(dto.existing[key], values)),
                             DOMAIN values))

UpdateModifierOptionInsert(r) ==
    /\ At(r, "edit.option.insert")
    /\ InsertThen(r, mem[r].rows, "edit.option", <<>>)

UpdateModifierOptionReload(r) ==
    /\ At(r, "edit.option.reload")
    /\ Reload(r, "edit.option.write")

UpdateModifierOptionWrite(r) ==
    /\ At(r, "edit.option.write")
    /\ Write(r, "edit.option", <<>>)

\* Nothing is left but the group, saved as it was read, with the title.
UpdateModifierGroup(r) ==
    /\ \/ At(r, "edit") /\ mem[r].dto.categories = Null /\ mem[r].dto.options = Null
       \/ At(r, "edit.attached") /\ mem[r].dto.options = Null
       \/ At(r, "edit.option") /\ mem[r].dto.options = <<>>
    /\ LET rows == Single(<<"group", mem[r].dto.id>>, mem[r].dto.group)
       IN  Reads(r, "entity.write",
                 [dto |-> Null, rows |-> rows, meant |-> {"title"}, dirty |-> DirtyOf(rows)])

-----------------------------------------------------------------------------
(* deleteModifier: three statements, one after the other.                  *)

DeleteModifier(r) ==
    \E g \in Live("group") :
        /\ Begin(r, "group.mark", [dto |-> g])
        /\ UNCHANGED <<db, hist, faults>>

DeleteModifierGroup(r) ==
    /\ At(r, "group.mark")
    /\ Updates(r, {<<"group", mem[r].dto>>}, Deleted)
    /\ Goto(r, "group.markOptions", <<>>)

DeleteModifierOptions(r) ==
    /\ At(r, "group.markOptions")
    /\ Updates(r, {k \in DOMAIN db : k[1] = "option" /\ db[k].group = mem[r].dto}, Deleted)
    /\ Goto(r, "group.detach", <<>>)

DeleteModifierDetach(r) ==
    /\ At(r, "group.detach")
    /\ Removes(r, {"attached"} \X Attached(mem[r].dto))
    /\ Goto(r, "ok", NoMem)

-----------------------------------------------------------------------------

CategoryOperation(r) ==
    \/ AddCategory(r) \/ EditCategory(r) \/ DeleteCategory(r)
    \/ Mark(r) \/ EntityReload(r) \/ EntityWrite(r)

ProductOperation(r) ==
    \/ AddProduct(r) \/ AddProductInsert(r)
    \/ EditProduct(r) \/ EditProductCheck(r) \/ DeleteProduct(r)

GroupOperation(r) ==
    \/ AddModifier(r) \/ AddModifierProducts(r) \/ AddModifierInsert(r)
    \/ AddModifierAttach(r) \/ AddModifierOptions(r)
    \/ UpdateModifier(r) \/ UpdateModifierCategories(r) \/ UpdateModifierDetach(r)
    \/ UpdateModifierAttachReload(r) \/ UpdateModifierAttach(r)
    \/ UpdateModifierExisting(r) \/ UpdateModifierOption(r) \/ UpdateModifierOptionInsert(r)
    \/ UpdateModifierOptionReload(r) \/ UpdateModifierOptionWrite(r)
    \/ UpdateModifierGroup(r)
    \/ DeleteModifier(r) \/ DeleteModifierGroup(r) \/ DeleteModifierOptions(r)
    \/ DeleteModifierDetach(r)

MenuReferences ==
    {[table |-> k[1], column |-> k[2], target |-> k[2], rule |-> "refuse", optional |-> k[3]] :
       k \in {<<"product", "category", TRUE>>, <<"product", "store", FALSE>>,
              <<"option", "group", FALSE>>, <<"option", "product", FALSE>>,
              <<"attached", "group", FALSE>>, <<"attached", "category", FALSE>>}}

\* Rows of the menu refer to rows that exist, deleted by a date or not.
MenuTypeOK ==
    /\ \A o \in Ids("option") : /\ Row("option", o).group \in Ids("group")
                                /\ Row("option", o).product \in Ids("product")
    /\ \A a \in Ids("attached") : a = <<Row("attached", a).group, Row("attached", a).category>>

=============================================================================
