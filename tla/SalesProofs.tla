---------------------------- MODULE SalesProofs ----------------------------
(***************************************************************************)
(* Theorems about Sales, for every value of its constants; those about     *)
(* requests that do not overlap assume MaxOpen = 1.                        *)
(***************************************************************************)
EXTENDS Sales, FiniteSetTheorems, TLAPS

-----------------------------------------------------------------------------
(* The sums of the library's folds over a finite set: that one exists, is  *)
(* the only one and is the same whichever element is taken first.  Each is *)
(* shown on a least counterexample, by the order of strict subsets.        *)

\* g sums f over the subsets of U, the way the library's folds do.
Sums(g, f, U) ==
    g = [s \in SUBSET U |->
           IF s = {} THEN 0 ELSE f[CHOOSE x \in s : TRUE] + g[s \ {CHOOSE x \in s : TRUE}]]

LEMMA SumDef ==
  ASSUME NEW f, NEW U
  PROVE  SumFunctionOnSet(f, U) = (CHOOSE g : Sums(g, f, U))[U]
  BY DEF SumFunctionOnSet, FoldFunctionOnSet, MapThenFoldSet, Sums

\* A set of finite sets that is not empty has a least one.
LEMMA LeastSet ==
  ASSUME NEW U, IsFiniteSet(U), NEW B, B \subseteq SUBSET U, B # {}
  PROVE  \E s \in B : \A t \in SUBSET s : t # s => t \notin B
  <1>1. IsWellFoundedOn(StrictSubsetOrdering(U), SUBSET U)
    BY FS_StrictSubsetOrderingWellFounded, FS_FiniteSubsetsOfFinite
  <1>2. PICK s \in B : \A t \in B : ~ (<<t, s>> \in StrictSubsetOrdering(U))
    BY <1>1, WFMin
  <1>3. ASSUME NEW t \in SUBSET s, t # s, t \in B PROVE FALSE
    BY <1>2, <1>3 DEF StrictSubsetOrdering
  <1> QED
    BY <1>3

LEMMA SumsUnique ==
  ASSUME NEW f, NEW U, IsFiniteSet(U), NEW g, Sums(g, f, U), NEW W \in SUBSET U,
         NEW h, Sums(h, f, W), NEW s \in SUBSET W
  PROVE  g[s] = h[s]
  <1> DEFINE B == {t \in SUBSET W : g[t] # h[t]}
  <1>1. ASSUME B # {} PROVE FALSE
    <2>1. IsFiniteSet(W)
      BY FS_Subset
    <2>2. PICK t \in B : \A u \in SUBSET t : u # t => u \notin B
      <3> HIDE DEF B
      <3>1. B \subseteq SUBSET W
        BY DEF B
      <3> QED
        BY <1>1, <2>1, <3>1, LeastSet
    <2>3. t # {}
      BY <2>2 DEF Sums
    <2> DEFINE x == CHOOSE x \in t : TRUE
    <2>4. x \in t
      BY <2>3
    <2>5. t \ {x} \in SUBSET W /\ t \ {x} # t /\ t \ {x} \in SUBSET U
      BY <2>2, <2>4
    <2>6. g[t \ {x}] = h[t \ {x}]
      BY <2>2, <2>5
    <2>7. g[t] = f[x] + g[t \ {x}] /\ h[t] = f[x] + h[t \ {x}]
      BY <2>2, <2>3 DEF Sums
    <2> QED
      BY <2>2, <2>6, <2>7
  <1> QED
    BY <1>1

LEMMA SumsExist ==
  ASSUME NEW f, NEW U, IsFiniteSet(U)
  PROVE  \E g : Sums(g, f, U)
  <1> DEFINE B == {s \in SUBSET U : ~\E g : Sums(g, f, s)}
             G(s) == CHOOSE g : Sums(g, f, s)
  <1>1. ASSUME B # {} PROVE FALSE
    <2>1. PICK s \in B : \A t \in SUBSET s : t # s => t \notin B
      <3>1. B \subseteq SUBSET U
        OBVIOUS
      <3> HIDE DEF B
      <3> QED
        BY <1>1, <3>1, LeastSet
    <2>2. s \in SUBSET U /\ ~\E g : Sums(g, f, s)
      BY <2>1
    <2>3. \A t \in SUBSET s : t # s => Sums(G(t), f, t)
      BY <2>1
    <2> HIDE DEF B, G
    <2> DEFINE c(t) == CHOOSE x \in t : TRUE
               g == [t \in SUBSET s |->
                       IF t = {} THEN 0 ELSE f[c(t)] + G(t \ {c(t)})[t \ {c(t)}]]
    <2>4. ASSUME NEW t \in SUBSET s, t # {}
          PROVE  /\ t \ {c(t)} \in SUBSET s
                 /\ t \ {c(t)} # s /\ t \ {c(t)} # t
                 /\ t \ {c(t)} \in SUBSET t
      BY <2>4
    <2>5. ASSUME NEW t \in SUBSET s, t # s PROVE g[t] = G(t)[t]
      <3>1. Sums(G(t), f, t)
        BY <2>3, <2>5
      <3>2. CASE t = {}
        <4>1. G(t)[t] = 0
          BY <3>1, <3>2 DEF Sums
        <4> QED
          BY <3>2, <4>1
      <3>3. CASE t # {}
        <4> DEFINE u == t \ {c(t)}
        <4>1. u \in SUBSET s /\ u # s /\ u \in SUBSET t
          BY <2>4, <3>3
        <4>2. Sums(G(u), f, u)
          BY <2>3, <4>1
        <4>3. IsFiniteSet(t)
          BY <2>2, FS_Subset
        <4> HIDE DEF u
        <4>4. G(t)[u] = G(u)[u]
          BY <3>1, <4>1, <4>2, <4>3, SumsUnique
        <4>5. G(t)[t] = f[c(t)] + G(t)[u]
          BY <3>1, <3>3 DEF Sums, u
        <4>6. g[t] = f[c(t)] + G(u)[u]
          BY <3>3 DEF u
        <4> QED
          BY <4>4, <4>5, <4>6
      <3> QED
        BY <3>2, <3>3
    <2>6. ASSUME NEW t \in SUBSET s
          PROVE  g[t] = IF t = {} THEN 0 ELSE f[c(t)] + g[t \ {c(t)}]
      <3>1. CASE t = {}
        BY <3>1
      <3>2. CASE t # {}
        <4>1. g[t \ {c(t)}] = G(t \ {c(t)})[t \ {c(t)}]
          BY <2>4, <2>5, <3>2
        <4> QED
          BY <3>2, <4>1
      <3> QED
        BY <3>1, <3>2
    <2>7. g = [t \in SUBSET s |-> g[t]]
      OBVIOUS
    <2> HIDE DEF g
    <2>8. Sums(g, f, s)
      BY <2>6, <2>7, Zenon DEF Sums
    <2> QED
      BY <2>2, <2>8
  <1> QED
    BY <1>1

\* The library's sum, one element at a time.
LEMMA SumEmpty ==
  ASSUME NEW f
  PROVE  SumFunctionOnSet(f, {}) = 0
  <1> DEFINE E == {}
  <1>1. IsFiniteSet(E)
    BY FS_EmptySet
  <1>2. PICK h : Sums(h, f, E)
    BY <1>1, SumsExist
  <1> DEFINE g == CHOOSE g : Sums(g, f, E)
  <1>3. Sums(g, f, E)
    BY <1>2
  <1>4. SumFunctionOnSet(f, E) = g[E]
    BY SumDef
  <1>5. g[E] = 0
    <2> HIDE DEF g
    <2> QED
      BY <1>3 DEF Sums
  <1> QED
    BY <1>4, <1>5

LEMMA SumChosen ==
  ASSUME NEW f, NEW S, IsFiniteSet(S), S # {}
  PROVE  \E x \in S : SumFunctionOnSet(f, S) = f[x] + SumFunctionOnSet(f, S \ {x})
  <1> DEFINE x == CHOOSE x \in S : TRUE
             T == S \ {x}
             g == CHOOSE g : Sums(g, f, S)
             h == CHOOSE h : Sums(h, f, T)
  <1>1. x \in S
    OBVIOUS
  <1>2. T \in SUBSET S
    OBVIOUS
  <1> HIDE DEF T, g, h
  <1>3. IsFiniteSet(T)
    BY <1>2, FS_Subset
  <1>4. Sums(g, f, S)
    BY SumsExist DEF g
  <1>5. Sums(h, f, T)
    BY <1>3, SumsExist DEF h
  <1>6. g[T] = h[T]
    BY <1>2, <1>4, <1>5, SumsUnique
  <1>7. g[S] = f[x] + g[T]
    BY <1>4 DEF Sums, T
  <1>8. SumFunctionOnSet(f, S) = g[S]
    BY SumDef DEF g
  <1>9. SumFunctionOnSet(f, T) = h[T]
    BY SumDef DEF h
  <1>10. SumFunctionOnSet(f, S) = f[x] + SumFunctionOnSet(f, T)
    BY <1>6, <1>7, <1>8, <1>9
  <1> QED
    BY <1>1, <1>10 DEF T

LEMMA SumType ==
  ASSUME NEW f, NEW S, IsFiniteSet(S), \A x \in S : f[x] \in Int
  PROVE  SumFunctionOnSet(f, S) \in Int
  <1> DEFINE B == {t \in SUBSET S : SumFunctionOnSet(f, t) \notin Int}
  <1>1. ASSUME B # {} PROVE FALSE
    <2>1. PICK t \in B : \A u \in SUBSET t : u # t => u \notin B
      <3>1. B \subseteq SUBSET S
        OBVIOUS
      <3> HIDE DEF B
      <3> QED
        BY <1>1, <3>1, LeastSet
    <2>2. t # {}
      BY <2>1, SumEmpty
    <2>3. t \in SUBSET S /\ IsFiniteSet(t)
      BY <2>1, FS_Subset
    <2>4. PICK x \in t : SumFunctionOnSet(f, t) = f[x] + SumFunctionOnSet(f, t \ {x})
      BY <2>2, <2>3, SumChosen
    <2>5. SumFunctionOnSet(f, t \ {x}) \in Int
      BY <2>1, <2>3
    <2> QED
      BY <2>1, <2>3, <2>4, <2>5
  <1> QED
    BY <1>1

\* Whichever element is taken first.
LEMMA SumRemove ==
  ASSUME NEW f, NEW S, IsFiniteSet(S), \A x \in S : f[x] \in Int, NEW y \in S
  PROVE  SumFunctionOnSet(f, S) = f[y] + SumFunctionOnSet(f, S \ {y})
  <1> DEFINE Sum(t) == SumFunctionOnSet(f, t)
             B == {t \in SUBSET S : \E z \in t : Sum(t) # f[z] + Sum(t \ {z})}
  <1>1. ASSUME B # {} PROVE FALSE
    <2>1. PICK t \in B : \A u \in SUBSET t : u # t => u \notin B
      <3>1. B \subseteq SUBSET S
        OBVIOUS
      <3> HIDE DEF B
      <3> QED
        BY <1>1, <3>1, LeastSet
    <2>2. PICK z \in t : Sum(t) # f[z] + Sum(t \ {z})
      BY <2>1
    <2>3. t \in SUBSET S /\ IsFiniteSet(t) /\ t # {}
      BY <2>1, <2>2, FS_Subset
    <2>4. PICK x \in t : Sum(t) = f[x] + Sum(t \ {x})
      BY <2>3, SumChosen
    <2>5. \A u \in SUBSET t : u # t => \A v \in u : Sum(u) = f[v] + Sum(u \ {v})
      BY <2>1, <2>3
    <2>6. \A u \in SUBSET t : IsFiniteSet(u)
      BY <2>3, FS_Subset
    <2>7. \A u \in SUBSET t : Sum(u) \in Int
      <3> SUFFICES ASSUME NEW u \in SUBSET t PROVE Sum(u) \in Int
        OBVIOUS
      <3>1. \A v \in u : f[v] \in Int
        BY <2>3
      <3> QED
        BY <2>6, <3>1, SumType
    <2> HIDE DEF B, Sum
    <2>8. x # z
      BY <2>2, <2>4
    <2>9. Sum(t \ {x}) = f[z] + Sum((t \ {x}) \ {z})
      BY <2>5, <2>8
    <2>10. Sum(t \ {z}) = f[x] + Sum((t \ {z}) \ {x})
      BY <2>5, <2>8
    <2>11. (t \ {x}) \ {z} = (t \ {z}) \ {x}
      OBVIOUS
    <2> DEFINE rest == Sum((t \ {x}) \ {z})
    <2>12. f[x] \in Int /\ f[z] \in Int /\ rest \in Int
      BY <2>3, <2>7
    <2>13. Sum(t \ {x}) = f[z] + rest /\ Sum(t \ {z}) = f[x] + rest
      BY <2>9, <2>10, <2>11
    <2> HIDE DEF rest
    <2>14. f[x] + (f[z] + rest) = f[z] + (f[x] + rest)
      BY <2>12
    <2> QED
      BY <2>2, <2>4, <2>13, <2>14
  <1> QED
    BY <1>1

LEMMA SumAdd ==
  ASSUME NEW f, NEW S, IsFiniteSet(S), NEW y, y \notin S, \A x \in S \cup {y} : f[x] \in Int
  PROVE  SumFunctionOnSet(f, S \cup {y}) = f[y] + SumFunctionOnSet(f, S)
  <1> DEFINE T == S \cup {y}
  <1>1. IsFiniteSet(T) /\ y \in T /\ T \ {y} = S
    BY FS_AddElement
  <1>2. \A x \in T : f[x] \in Int
    OBVIOUS
  <1> HIDE DEF T
  <1>3. SumFunctionOnSet(f, T) = f[y] + SumFunctionOnSet(f, T \ {y})
    BY <1>1, <1>2, SumRemove
  <1> QED
    BY <1>1, <1>3 DEF T

\* Only the values on the set count.
LEMMA SumSame ==
  ASSUME NEW f, NEW g, NEW S, IsFiniteSet(S), \A x \in S : f[x] = g[x] /\ f[x] \in Int
  PROVE  SumFunctionOnSet(f, S) = SumFunctionOnSet(g, S)
  <1> DEFINE B == {t \in SUBSET S : SumFunctionOnSet(f, t) # SumFunctionOnSet(g, t)}
  <1>1. ASSUME B # {} PROVE FALSE
    <2>1. PICK t \in B : \A u \in SUBSET t : u # t => u \notin B
      <3>1. B \subseteq SUBSET S
        OBVIOUS
      <3> HIDE DEF B
      <3> QED
        BY <1>1, <3>1, LeastSet
    <2>2. t # {}
      BY <2>1, SumEmpty
    <2>3. t \in SUBSET S /\ IsFiniteSet(t)
      BY <2>1, FS_Subset
    <2>4. PICK x \in t : SumFunctionOnSet(f, t) = f[x] + SumFunctionOnSet(f, t \ {x})
      BY <2>2, <2>3, SumChosen
    <2>5. SumFunctionOnSet(f, t \ {x}) = SumFunctionOnSet(g, t \ {x})
      BY <2>1, <2>3
    <2>6. \A v \in t : g[v] \in Int
      BY <2>3
    <2>7. SumFunctionOnSet(g, t) = g[x] + SumFunctionOnSet(g, t \ {x})
      BY <2>3, <2>6, SumRemove
    <2> QED
      BY <2>1, <2>3, <2>4, <2>5, <2>7
  <1> QED
    BY <1>1

-----------------------------------------------------------------------------
(* Types of rows and requests, and the facts they rest on.                 *)

\* The tables are empty and no request has begun: the invariant holds.
LEMMA InitRowInv == Init => RowInv
  <1> SUFFICES ASSUME Init PROVE RowInv
    OBVIOUS
  <1> USE DEF Init, TablesInit, ServiceInit, RefundInit
  <1>1. RowTypeOK
    BY NullAssumption DEF RowTypeOK, TransactionRow, Presence, Status, ItemRow, NoItem,
       AddSteps, EditSteps, DeleteSteps, RefundSteps, TaskSteps, ItemColumn
  <1>2. AddFacts
    BY DEF AddFacts
  <1>3. ItemFacts
    BY DEF ItemFacts, NoItem
  <1>4. EditFacts
    BY DEF EditFacts, NoSeen, Status
  <1>5. RefundFacts
    BY DEF RefundFacts, NoLines
  <1> QED
    BY <1>1, <1>2, <1>3, <1>4, <1>5 DEF RowInv

\* An inserted line is a row of the table.
LEMMA NewItemType ==
  ASSUME NEW cart \in Cart, NEW i \in DOMAIN cart, NEW price \in PriceOf[cart[i].product]
  PROVE  /\ i \in Item
         /\ NewItem(cart[i], price) \in ItemRow
         /\ cart[i].product \in Product
         /\ cart[i].quantity \in Nat \ {0}
         /\ price \in Nat
  <1>1. /\ i \in Item
        /\ cart[i] \in [product : Product, quantity : Nat \ {0}, discount : Nat,
                        isRefund : BOOLEAN]
    BY CartAssumption
  <1>2. price \in Nat
    BY <1>1, PriceAssumption
  <1>3. price * cart[i].quantity \in Int
    BY <1>1, <1>2
  <1> QED
    BY <1>1, <1>2, <1>3 DEF NewItem, ItemRow, Presence

\* An amended line is a row of the table, live when the loaded one is.
LEMMA AmendedType ==
  ASSUME NEW row \in ItemRow, NEW dto \in EditDto, row.product \in Product,
         NEW price \in PriceOf[IF dto.product = Null THEN row.product ELSE dto.product]
  PROVE  /\ Amended(row, dto, price) \in ItemRow
         /\ Amended(row, dto, price).at = row.at
         /\ Amended(row, dto, price).product \in Product
         /\ Amended(row, dto, price).remainingQuantity = row.remainingQuantity
  <1> DEFINE product == IF dto.product = Null THEN row.product ELSE dto.product
             quantity == IF dto.quantity = Null THEN row.quantity ELSE dto.quantity
             flagged == IF dto.isRefund = Null THEN row
                        ELSE [row EXCEPT !.isRefund = dto.isRefund]
  <1>1. /\ dto.product \in Product \cup {Null}
        /\ dto.quantity \in (Nat \ {0}) \cup {Null}
        /\ dto.isRefund \in BOOLEAN \cup {Null}
    BY EditAssumption
  <1>2. product \in Product /\ quantity \in Int /\ price \in Nat
    BY <1>1, PriceAssumption DEF ItemRow
  <1>3. price * quantity \in Int
    BY <1>2
  <1>4. /\ flagged \in ItemRow
        /\ flagged.at = row.at
        /\ flagged.product = row.product
        /\ flagged.remainingQuantity = row.remainingQuantity
    BY <1>1 DEF ItemRow
  <1>5. row.discount \in Int
    BY DEF ItemRow
  <1>6. CASE dto.product = Null /\ dto.quantity = Null
    BY <1>4, <1>6 DEF Amended
  <1>7. CASE ~(dto.product = Null /\ dto.quantity = Null)
    <2>1. Amended(row, dto, price)
            = [flagged EXCEPT !.product = product, !.quantity = quantity,
                              !.value = price * quantity,
                              !.netPrice = price * quantity - row.discount]
      BY <1>7 DEF Amended
    <2>2. price * quantity - row.discount \in Int
      BY <1>3, <1>5
    <2> HIDE DEF product, quantity, flagged
    <2> QED
      BY <2>1, <2>2, <1>2, <1>3, <1>4 DEF ItemRow
  <1> QED
    BY <1>6, <1>7

-----------------------------------------------------------------------------
(* Every step preserves the types and the facts.  The actions that write   *)
(* item rows or bring in a request's body come first, one lemma each.      *)

\* addTransaction inserts the transaction row with a cart still to insert.
LEMMA AddSaveRow ==
  ASSUME RowInv, AddSave, UNCHANGED refundVars
  PROVE  RowInv'
  <1> USE DEF RowInv, AddSave, editVars, refundVars
  <1>1. PICK cart \in Cart, status \in StatusInput :
           addCart' = cart /\ addLeft' = DOMAIN cart /\ txn' = [at |-> "live", status |-> status]
    OBVIOUS
  <1>2. DOMAIN cart \subseteq Item /\ status \in Status
    BY CartAssumption, StatusAssumption
  <1>3. RowTypeOK'
    BY <1>1, <1>2 DEF RowTypeOK, TransactionRow, Presence, AddSteps
  <1>4. AddFacts'
    BY <1>1, <1>2 DEF AddFacts
  <1>5. ItemFacts' /\ EditFacts' /\ RefundFacts'
    BY DEF ItemFacts, EditFacts, RefundFacts, LineFact
  <1> QED
    BY <1>3, <1>4, <1>5

\* Its loop inserts a line of the cart, a row sold with what it holds.
LEMMA AddItemRow ==
  ASSUME RowInv, NEW i \in Item, AddItem(i), UNCHANGED refundVars
  PROVE  RowInv'
  <1> USE DEF RowInv, AddItem, editVars, refundVars
  <1>1. addCart \in Cart /\ i \in DOMAIN addCart
    BY DEF AddFacts
  <1>2. PICK price \in PriceOf[addCart[i].product] :
           /\ item' = [item EXCEPT ![i] = NewItem(addCart[i], price)]
           /\ sold' = [sold EXCEPT ![i] = [quantity |-> addCart[i].quantity, price |-> price]]
    OBVIOUS
  <1>3. /\ NewItem(addCart[i], price) \in ItemRow
        /\ addCart[i].product \in Product
        /\ addCart[i].quantity \in Nat
        /\ price \in Nat
    BY <1>1, NewItemType
  <1>4. /\ item' \in [Item -> ItemRow]
        /\ sold' \in [Item -> [quantity : Nat, price : Nat]]
        /\ \A j \in Item : j # i => item'[j] = item[j] /\ sold'[j] = sold[j]
        /\ item'[i] = NewItem(addCart[i], price)
    BY <1>2, <1>3 DEF RowTypeOK
  <1>5. item'[i].at = "live" /\ item'[i].product \in Product
    BY <1>3, <1>4 DEF NewItem
  <1>6. RowTypeOK'
    BY <1>4 DEF RowTypeOK, AddSteps
  <1>7. AddFacts'
    BY <1>4 DEF AddFacts, RowTypeOK
  <1>8. ItemFacts'
    BY <1>4, <1>5 DEF ItemFacts
  <1>9. EditFacts'
    <2> SUFFICES \A j \in Item : item[j].at # "none" => item'[j].at # "none"
      BY DEF EditFacts
    <2> QED
      BY <1>4, <1>5
  <1>10. RefundFacts'
    BY DEF RefundFacts, LineFact
  <1> QED
    BY <1>6, <1>7, <1>8, <1>9, <1>10

\* An edit has read the live rows, whose items are rows ever since.
LEMMA EditReadRow ==
  ASSUME RowInv, NEW e \in Editor, EditRead(e), UNCHANGED refundVars
  PROVE  RowInv'
  <1> USE DEF RowInv, EditRead, addVars, tableVars, rowVars, refundVars
  <1>1. PICK dto \in EditDto :
         /\ editDto' = [editDto EXCEPT ![e] = dto]
         /\ editStep' = [editStep EXCEPT ![e] =
              IF txn.at # "live" THEN "error"
              ELSE IF dto.transactionItemId # Null THEN "item"
              ELSE IF dto.deleteItem # {} THEN "drop"
              ELSE "headerReload"]
         /\ editSeen' = [editSeen EXCEPT ![e] =
              [status |-> IF dto.status = Null THEN txn.status ELSE dto.status,
               totalValue |-> totalValue, refund |-> refundTotal, items |-> LiveItems,
               lose |-> {}, gain |-> {}]]
    OBVIOUS
  <1>2. dto.transactionItemId \in Item \cup {Null} /\ dto.status \in Status \cup {Null}
    BY EditAssumption
  <1>3. RowTypeOK'
    BY <1>1 DEF RowTypeOK, EditSteps
  <1>4. EditFacts'
    <2>1. DOMAIN editSeen' = Editor
      BY <1>1 DEF EditFacts
    <2>2. /\ editDto'[e] = dto
          /\ editStep'[e] = "item" => dto.transactionItemId # Null
          /\ editStep'[e] \notin {"reload", "save"}
      BY <1>1 DEF RowTypeOK
    <2>3. /\ editSeen'[e].status = IF dto.status = Null THEN txn.status ELSE dto.status
          /\ editSeen'[e].items = LiveItems
          /\ editSeen'[e].gain = {}
      BY <1>1 DEF EditFacts
    <2>4. \A f \in Editor : f # e => /\ editDto'[f] = editDto[f]
                                     /\ editStep'[f] = editStep[f]
                                     /\ editSeen'[f] = editSeen[f]
      BY <1>1 DEF RowTypeOK, EditFacts
    <2>5. \A i \in LiveItems : item[i].at # "none"
      BY DEF LiveItems
    <2>6. editSeen'[e].status \in Status
      BY <1>2, <2>3 DEF RowTypeOK, TransactionRow
    <2> QED
      BY <1>2, <2>1, <2>2, <2>3, <2>4, <2>5, <2>6 DEF EditFacts
  <1>5. AddFacts' /\ ItemFacts' /\ RefundFacts'
    BY DEF AddFacts, ItemFacts, RefundFacts, LineFact
  <1> QED
    BY <1>3, <1>4, <1>5

\* It has amended a live row in memory.
LEMMA EditLoadItemRow ==
  ASSUME RowInv, NEW e \in Editor, EditLoadItem(e), UNCHANGED refundVars
  PROVE  RowInv'
  <1> USE DEF RowInv, EditLoadItem, addVars, tableVars, rowVars, refundVars
  <1> DEFINE i == editDto[e].transactionItemId
             p == IF editDto[e].product = Null THEN item[i].product ELSE editDto[e].product
  <1>1. editDto[e] \in EditDto /\ i \in Item
    BY DEF EditFacts
  <1>2. AddFacts' /\ ItemFacts' /\ RefundFacts'
    BY DEF AddFacts, ItemFacts, RefundFacts, LineFact
  <1>3. CASE item[i].at = "live"
    <2>1. PICK price \in PriceOf[p] :
            editItem' = [editItem EXCEPT ![e] = Amended(item[i], editDto[e], price)]
      BY <1>3
    <2>2. editStep' = [editStep EXCEPT ![e] = "reload"]
      BY <1>3
    <2>3. item[i] \in ItemRow /\ item[i].product \in Product
      BY <1>1, <1>3 DEF RowTypeOK, ItemFacts
    <2>4. /\ Amended(item[i], editDto[e], price) \in ItemRow
          /\ Amended(item[i], editDto[e], price).at = "live"
          /\ Amended(item[i], editDto[e], price).product \in Product
      BY <1>1, <1>3, <2>3, AmendedType
    <2>5. RowTypeOK'
      BY <2>1, <2>2, <2>4 DEF RowTypeOK, EditSteps
    <2>6. EditFacts'
      BY <1>1, <1>3, <2>1, <2>2, <2>4 DEF EditFacts, RowTypeOK
    <2> QED
      BY <1>2, <2>5, <2>6
  <1>4. CASE item[i].at # "live"
    <2>1. RowTypeOK'
      BY <1>4 DEF RowTypeOK, EditSteps
    <2>2. EditFacts'
      BY <1>4 DEF EditFacts, RowTypeOK
    <2> QED
      BY <1>2, <2>1, <2>2
  <1> QED
    BY <1>3, <1>4

\* The row a save() leaves when it updates a row.
LEMMA EditSaveItemRow ==
  ASSUME RowInv, NEW e \in Editor, EditSaveItem(e), UNCHANGED refundVars
  PROVE  RowInv'
  <1> USE DEF RowInv, EditSaveItem, addVars, refundVars
  <1> DEFINE i == editDto[e].transactionItemId
             row == item[i]
             mem == editItem[e]
             Written(c) == IF c \in editDirty[e] THEN mem[c] ELSE row[c]
             orphan == [mem EXCEPT !.owned = FALSE]
             updated == [row EXCEPT
                 !.at = Written("at"), !.product = Written("product"),
                 !.quantity = Written("quantity"), !.value = Written("value"),
                 !.discount = Written("discount"), !.netPrice = Written("netPrice"),
                 !.remainingQuantity = Written("remainingQuantity"),
                 !.remainingAmount = Written("remainingAmount"),
                 !.isRefund = Written("isRefund")]
  <1>1. /\ i \in Item
        /\ mem \in ItemRow /\ mem.at = "live" /\ mem.product \in Product
        /\ row \in ItemRow /\ row.at # "none" /\ row.product \in Product
    BY DEF RowTypeOK, EditFacts, ItemFacts
  <1>2. orphan \in ItemRow /\ orphan.at = "live" /\ orphan.product \in Product
    BY <1>1 DEF ItemRow
  <1>3. updated \in ItemRow /\ updated.at # "none" /\ updated.product \in Product
    <2>1. Written("at") \in Presence \ {"none"} /\ Written("product") \in Product
      BY <1>1 DEF ItemRow, Presence
    <2>2. /\ Written("quantity") \in Int
          /\ Written("value") \in Int
          /\ Written("discount") \in Int
          /\ Written("netPrice") \in Int
          /\ Written("remainingQuantity") \in Int
          /\ Written("remainingAmount") \in Int
          /\ Written("isRefund") \in BOOLEAN
      BY <1>1 DEF ItemRow
    <2> HIDE DEF Written, row
    <2> QED
      BY <1>1, <2>1, <2>2 DEF ItemRow
  <1>4. \/ item' = [item EXCEPT ![i] = orphan]
        \/ item' = item
        \/ item' = [item EXCEPT ![i] = updated]
    OBVIOUS
  <1> HIDE DEF orphan, updated, row, mem, Written, EditSaveItem
  <1>5. /\ item' \in [Item -> ItemRow]
        /\ \A j \in Item : j # i => item'[j] = item[j]
        /\ item'[i].at # "none" /\ item'[i].product \in Product
    BY <1>1, <1>2, <1>3, <1>4 DEF RowTypeOK, row
  <1>6. /\ editStep' = [editStep EXCEPT ![e] = "sum"]
        /\ UNCHANGED <<txn, totalValue, refundTotal, sold, refund, held, faults, delStep>>
        /\ UNCHANGED <<editDto, editSeen, editItem, editDirty, editSum, addVars>>
    BY DEF EditSaveItem
  <1>7. RowTypeOK'
    BY <1>5, <1>6 DEF RowTypeOK, EditSteps
  <1>8. AddFacts' /\ RefundFacts'
    BY <1>6 DEF AddFacts, RefundFacts, LineFact
  <1>9. ItemFacts'
    BY <1>5 DEF ItemFacts
  <1>10. EditFacts'
    <2>1. \A j \in Item : item[j].at # "none" => item'[j].at # "none"
      BY <1>5
    <2>2. /\ editStep'[e] = "sum"
          /\ \A f \in Editor : f # e => editStep'[f] = editStep[f]
          /\ editStep[e] = "save"
      BY <1>6 DEF EditSaveItem, RowTypeOK
    <2> QED
      BY <1>6, <2>1, <2>2 DEF EditFacts
  <1> QED
    BY <1>7, <1>8, <1>9, <1>10

\* A step that keeps every row a row, owned only if there is one, keeps what
\* is known of the rows.
LEMMA RowsKept ==
  ASSUME RowInv, item' \in [Item -> ItemRow],
         \A i \in Item : /\ item[i].at # "none" => item'[i].at # "none"
                         /\ item'[i].at = "none" => ~item'[i].owned
                         /\ item'[i].product = item[i].product
                         /\ item[i].at = "none" => item'[i].at = "none"
  PROVE  /\ ItemFacts'
         /\ UNCHANGED <<editStep, editDto, editSeen, editItem>> => EditFacts'
  BY DEF RowInv, ItemFacts, EditFacts

\* Striking lines off stamps live rows only.
LEMMA EditDropRow ==
  ASSUME RowInv, NEW e \in Editor, EditDrop(e), UNCHANGED refundVars
  PROVE  RowInv'
  <1> USE DEF RowInv, EditDrop, addVars, refundVars
  <1>1. \A i \in Item :
          item'[i] = IF i \in editDto[e].deleteItem /\ item[i].at = "live"
                     THEN [item[i] EXCEPT !.at = "deleted"] ELSE item[i]
    OBVIOUS
  <1>2. \A i \in Item : item[i] \in ItemRow
    BY DEF RowTypeOK
  <1>3. \A i \in Item : item'[i] \in ItemRow
    BY <1>1, <1>2 DEF ItemRow, Presence
  <1>4. item' \in [Item -> ItemRow]
    BY <1>3
  <1>5. \A i \in Item : /\ item[i].at # "none" => item'[i].at # "none"
                        /\ item'[i].at = "none" => ~item'[i].owned
                        /\ item'[i].product = item[i].product
                        /\ item[i].at = "none" => item'[i].at = "none"
    BY <1>1, <1>2 DEF ItemRow, ItemFacts
  <1>6. RowTypeOK'
    BY <1>4 DEF RowTypeOK, EditSteps
  <1>7. ItemFacts'
    BY <1>4, <1>5, RowsKept
  <1>8. EditFacts'
    BY <1>5 DEF EditFacts, RowTypeOK
  <1>9. AddFacts' /\ RefundFacts'
    BY DEF AddFacts, RefundFacts, LineFact
  <1> QED
    BY <1>6, <1>7, <1>8, <1>9

\* save(transaction) attaches and detaches rows, and makes none.
LEMMA EditHeaderSaveRow ==
  ASSUME RowInv, NEW e \in Editor, EditHeaderSave(e), UNCHANGED refundVars
  PROVE  RowInv'
  <1> USE DEF RowInv, EditHeaderSave, addVars, refundVars
  <1> DEFINE seen == editSeen[e]
  <1>1. txn' \in TransactionRow
    BY DEF RowTypeOK, TransactionRow, Presence, EditFacts
  <1>2. \A i \in Item :
          item'[i] = IF i \in seen.lose THEN [item[i] EXCEPT !.owned = FALSE]
                     ELSE IF i \in seen.gain /\ txn'.at # "gone"
                          THEN [item[i] EXCEPT !.owned = (item[i].at # "gone")]
                     ELSE item[i]
    OBVIOUS
  <1>3. \A i \in Item : item[i] \in ItemRow
    BY DEF RowTypeOK
  <1>4. \A i \in Item \cap seen.gain : item[i].at # "none"
    BY DEF EditFacts
  <1>5. \A i \in Item : item'[i] \in ItemRow
    <2> SUFFICES ASSUME NEW i \in Item PROVE item'[i] \in ItemRow
      OBVIOUS
    <2> DEFINE row == item[i]
    <2>1. \E b \in BOOLEAN : item'[i] = [row EXCEPT !.owned = b] \/ item'[i] = row
      BY <1>2
    <2>2. row \in ItemRow
      BY <1>3
    <2> HIDE DEF row, EditHeaderSave, RowInv
    <2> QED
      BY <2>1, <2>2 DEF ItemRow
  <1>6. item' \in [Item -> ItemRow]
    BY <1>5
  <1>7. \A i \in Item : /\ item'[i].at = item[i].at
                        /\ item'[i].product = item[i].product
                        /\ item'[i].at = "none" => ~item'[i].owned
    BY <1>2, <1>3, <1>4 DEF ItemRow, ItemFacts
  <1>8. RowTypeOK'
    BY <1>1, <1>6 DEF RowTypeOK, EditSteps
  <1>9. ItemFacts'
    BY <1>6, <1>7, RowsKept
  <1>10. EditFacts'
    BY <1>7 DEF EditFacts, RowTypeOK
  <1>11. AddFacts' /\ RefundFacts'
    BY DEF AddFacts, RefundFacts, LineFact
  <1> QED
    BY <1>8, <1>9, <1>10, <1>11

\* Removing the sale takes its rows away, and makes none.
LEMMA DeleteRemoveRow ==
  ASSUME RowInv, NEW d \in Deleter, DeleteRemove(d), UNCHANGED refundVars
  PROVE  RowInv'
  <1> USE DEF RowInv, DeleteRemove, addVars, editVars, refundVars
  <1>1. CASE RefundRows # {}
    BY <1>1 DEF RowTypeOK, DeleteSteps, AddFacts, ItemFacts, EditFacts, RefundFacts, LineFact
  <1>2. CASE RefundRows = {}
    <2>1. \A i \in Item :
            item'[i] = IF item[i].owned THEN [item[i] EXCEPT !.at = "gone"] ELSE item[i]
      BY <1>2
    <2>2. \A i \in Item : item[i] \in ItemRow
      BY DEF RowTypeOK
    <2>3. \A i \in Item : item'[i] \in ItemRow
      BY <2>1, <2>2 DEF ItemRow, Presence
    <2>4. item' \in [Item -> ItemRow]
      BY <1>2, <2>3
    <2>5. \A i \in Item : /\ item[i].at # "none" => item'[i].at # "none"
                          /\ item'[i].at = "none" => ~item'[i].owned
                          /\ item'[i].product = item[i].product
                          /\ item[i].at = "none" => item'[i].at = "none"
      BY <2>1, <2>2 DEF ItemRow, ItemFacts
    <2>6. RowTypeOK'
      BY <1>2, <2>4 DEF RowTypeOK, DeleteSteps, TransactionRow, Presence
    <2>7. ItemFacts' /\ EditFacts'
      BY <2>4, <2>5, RowsKept
    <2>8. AddFacts' /\ RefundFacts'
      BY DEF AddFacts, RefundFacts, LineFact
    <2> QED
      BY <2>6, <2>7, <2>8
  <1> QED
    BY <1>1, <1>2

\* The refund: what it validates is within what remains.
LEMMA RefundReadRow ==
  ASSUME RowInv, NEW r \in Refunder, RefundRead(r), UNCHANGED serviceVars
  PROVE  RowInv'
  <1> USE DEF RowInv, RefundRead, tableVars, rowVars, serviceVars, addVars, editVars
  <1>1. /\ refStep' = [refStep EXCEPT ![r] = refStep'[r]]
        /\ refStep'[r] \in {"count", "error"}
        /\ \A s \in Refunder : s # r => refStep'[s] = refStep[s] /\ lines'[s] = lines[s]
        /\ DOMAIN lines' = Refunder
    BY DEF RowTypeOK, RefundFacts
  <1>2. RowTypeOK'
    BY <1>1 DEF RowTypeOK, RefundSteps
  <1>3. \A l \in DOMAIN lines'[r] : LineFact(lines'[r][l])
    <2>1. PICK dto \in RefundDto, first \in [Product -> Item] :
            LET Found(l) == first[dto[l].product] \in LiveItems
                            /\ item[first[dto[l].product]].product = dto[l].product
                valid == /\ Refundable
                         /\ \A l \in DOMAIN dto :
                              Found(l) /\ Enough(dto[l], item[first[dto[l].product]])
            IN  lines' = [lines EXCEPT ![r] =
                  IF valid THEN [l \in DOMAIN dto |->
                                   ValidLine(dto[l], item[first[dto[l].product]])]
                  ELSE NoLines]
      OBVIOUS
    <2> DEFINE row(l) == item[first[dto[l].product]]
    <2>2. CASE lines'[r] = NoLines
      BY <2>2 DEF NoLines
    <2>3. CASE /\ lines'[r] = [l \in DOMAIN dto |-> ValidLine(dto[l], row(l))]
               /\ \A l \in DOMAIN dto : Enough(dto[l], row(l))
      <3> SUFFICES ASSUME NEW l \in DOMAIN dto PROVE LineFact(ValidLine(dto[l], row(l)))
        BY <2>3
      <3>1. dto[l].quantity \in Nat /\ dto[l].product \in Product
        BY RefundAssumption
      <3>2. row(l) \in ItemRow
        BY <3>1 DEF RowTypeOK
      <3>3. row(l).remainingQuantity \in Int /\ row(l).remainingAmount \in Int
        BY <3>2 DEF ItemRow
      <3>4. dto[l].quantity <= row(l).remainingQuantity
        BY <2>3 DEF Enough
      <3> HIDE DEF row
      <3> QED
        BY <3>1, <3>3, <3>4 DEF LineFact, ValidLine
    <2> QED
      BY <2>1, <2>2, <2>3 DEF RefundFacts
  <1>4. RefundFacts'
    <2>1. task' = task /\ RefundFacts /\ refStep[r] = "idle"
      OBVIOUS
    <2> HIDE DEF RefundRead, RowInv
    <2>2. \A s \in Refunder : \A l \in Line : task'[s][l] = "update" => s # r
      BY <1>1, <2>1 DEF RefundFacts
    <2>3. \A s \in Refunder : \A l \in DOMAIN lines'[s] : LineFact(lines'[s][l])
      BY <1>1, <1>3, <2>1 DEF RefundFacts
    <2>4. \A s \in Refunder : refStep'[s] = "idle" => \A l \in Line : task'[s][l] # "update"
      BY <1>1, <2>1 DEF RefundFacts
    <2>5. \A s \in Refunder : \A l \in Line : task'[s][l] = "update" => l \in DOMAIN lines'[s]
      BY <1>1, <2>1, <2>2 DEF RefundFacts
    <2> QED
      BY <1>1, <2>3, <2>4, <2>5 DEF RefundFacts, LineFact
  <1>5. AddFacts' /\ ItemFacts' /\ EditFacts'
    BY DEF AddFacts, ItemFacts, EditFacts
  <1> QED
    BY <1>2, <1>4, <1>5

\* A refund number is a natural number: the count of a finite set and 1.
LEMMA RefundCountRow ==
  ASSUME RowInv, NEW r \in Refunder, RefundCount(r), UNCHANGED serviceVars
  PROVE  RowInv'
  <1> USE DEF RowInv, RefundCount, tableVars, rowVars, serviceVars, addVars, editVars
  <1>1. FindQuantityRefundToday \in Nat
    BY RefunderAssumption, FS_Subset, FS_CardinalityType DEF FindQuantityRefundToday, RefundRows
  <1>2. RowTypeOK'
    BY <1>1 DEF RowTypeOK, RefundSteps
  <1>3. AddFacts' /\ ItemFacts' /\ EditFacts' /\ RefundFacts'
    BY DEF RowTypeOK, AddFacts, ItemFacts, EditFacts, RefundFacts, LineFact
  <1> QED
    BY <1>2, <1>3

\* What a callback writes into a line it validated.
LEMMA LeftType ==
  ASSUME NEW line, LineFact(line), line.remainingQuantity # 0
  PROVE  /\ LeftOf(line) \in Nat
         /\ LeftOf(line) <= line.remainingQuantity
         /\ (line.remainingAmount \div line.remainingQuantity) * LeftOf(line) \in Int
  <1> DEFINE quantity == line.quantity
             remaining == line.remainingQuantity
             amount == line.remainingAmount
  <1>1. /\ quantity \in Nat /\ remaining \in Nat /\ amount \in Int
        /\ quantity <= remaining /\ remaining # 0
    BY DEF LineFact
  <1> HIDE DEF quantity, remaining, amount
  <1>2. remaining - quantity \in Nat /\ remaining - quantity <= remaining
    BY <1>1
  <1>3. amount \div remaining \in Int
    BY <1>1
  <1>4. (amount \div remaining) * (remaining - quantity) \in Int
    <2> DEFINE unit == amount \div remaining
               left == remaining - quantity
    <2>1. unit \in Int /\ left \in Int
      BY <1>2, <1>3
    <2> HIDE DEF unit, left
    <2>2. unit * left \in Int
      BY <2>1
    <2> QED
      BY <2>2 DEF unit, left
  <1> QED
    BY <1>2, <1>4 DEF LeftOf, quantity, remaining, amount

\* A callback writes numbers into the rows of its product.
LEMMA TaskUpdateRow ==
  ASSUME RowInv, NEW r \in Refunder, NEW l \in Line, TaskUpdate(r, l), UNCHANGED serviceVars
  PROVE  RowInv'
  <1> USE DEF RowInv, TaskUpdate, serviceVars, addVars, editVars
  <1> DEFINE line == lines[r][l]
             amount == (line.remainingAmount \div line.remainingQuantity) * LeftOf(line)
             Hit(i) == /\ item[i].at \in {"live", "deleted"}
                       /\ item[i].owned
                       /\ item[i].product = line.product
  <1>1. LineFact(line) /\ line.remainingQuantity # 0
    BY DEF RefundFacts
  <1>2. LeftOf(line) \in Int /\ amount \in Int
    <2> HIDE DEF line, TaskUpdate, RowInv
    <2> QED
      BY <1>1, LeftType
  <1>3. \A i \in Item :
          item'[i] = IF Hit(i)
                     THEN [item[i] EXCEPT !.remainingQuantity = LeftOf(line),
                                          !.remainingAmount = amount,
                                          !.isRefund = (LeftOf(line) = 0)]
                     ELSE item[i]
    OBVIOUS
  <1>4. \A i \in Item : item[i] \in ItemRow
    BY DEF RowTypeOK
  <1> HIDE DEF amount, line, Hit, TaskUpdate, RowInv
  <1>5. \A i \in Item : item'[i] \in ItemRow
    <2> SUFFICES ASSUME NEW i \in Item PROVE item'[i] \in ItemRow
      OBVIOUS
    <2>1. CASE ~Hit(i)
      BY <1>3, <1>4, <2>1
    <2>2. CASE Hit(i)
      <3> DEFINE left == LeftOf(line)
                 row == item[i]
      <3>1. /\ left \in Int /\ row \in ItemRow /\ (left = 0) \in BOOLEAN
            /\ item'[i] = [row EXCEPT !.remainingQuantity = left, !.remainingAmount = amount,
                                      !.isRefund = (left = 0)]
        BY <1>2, <1>3, <1>4, <2>2
      <3> HIDE DEF left, row
      <3> QED
        BY <1>2, <3>1 DEF ItemRow
    <2> QED
      BY <2>1, <2>2
  <1> USE DEF TaskUpdate, RowInv
  <1>6. item' \in [Item -> ItemRow]
    BY <1>5
  <1>7. \A i \in Item : /\ item'[i].at = item[i].at
                        /\ item'[i].product = item[i].product
                        /\ item'[i].owned = item[i].owned
    BY <1>3, <1>4 DEF ItemRow
  <1>8. RowTypeOK'
    BY <1>6 DEF RowTypeOK, TaskSteps
  <1>9. ItemFacts' /\ EditFacts'
    BY <1>6, <1>7, RowsKept DEF ItemFacts
  <1>10. AddFacts'
    BY DEF AddFacts
  <1>11. RefundFacts'
    <2>1. /\ lines' = lines /\ refStep' = refStep
          /\ task' = [task EXCEPT ![r][l] = "save"]
          /\ task \in [Refunder -> [Line -> TaskSteps]]
      BY DEF RowTypeOK
    <2>2. RefundFacts
      OBVIOUS
    <2> HIDE DEF TaskUpdate, RowInv
    <2>3. \A s \in Refunder : \A k \in Line : task'[s][k] = "update" => task[s][k] = "update"
      BY <2>1
    <2>4. \A s \in Refunder : \A k \in DOMAIN lines'[s] : LineFact(lines'[s][k])
      BY <2>1, <2>2 DEF RefundFacts
    <2> QED
      BY <2>1, <2>2, <2>3, <2>4 DEF RefundFacts, LineFact
  <1> QED
    BY <1>8, <1>9, <1>10, <1>11

\* The status a refund posts is one of the enumeration.
LEMMA RefundPostRow ==
  ASSUME RowInv, NEW r \in Refunder, RefundPost(r), UNCHANGED serviceVars
  PROVE  RowInv'
  <1> USE DEF RowInv, RefundPost, serviceVars, addVars, editVars
  <1>1. StatusAfter(r) \in Status
    BY DEF StatusAfter, Status
  <1>2. txn' \in TransactionRow
    BY <1>1 DEF RowTypeOK, TransactionRow
  <1>3. RowTypeOK'
    BY <1>2 DEF RowTypeOK, RefundSteps
  <1>4. AddFacts' /\ ItemFacts' /\ EditFacts' /\ RefundFacts'
    BY DEF RowTypeOK, AddFacts, ItemFacts, EditFacts, RefundFacts, LineFact
  <1> QED
    BY <1>3, <1>4

\* Every step of every request preserves types and facts.
LEMMA RowInvStep == RowInv /\ [Next]_vars => RowInv'
  <1> SUFFICES ASSUME RowInv, [Next]_vars PROVE RowInv'
    OBVIOUS
  <1>1. ASSUME AddStepsOf, UNCHANGED refundVars PROVE RowInv'
    <2>1. ASSUME AddSum PROVE RowInv'
      <3> USE <2>1, <1>1 DEF AddSum, RowInv, tableVars, rowVars, addVars, editVars,
               serviceVars, refundVars
      <3>1. RowTypeOK'
        BY DEF RowTypeOK, AddSteps, EditSteps, DeleteSteps, RefundSteps, TaskSteps,
           ItemColumn, TransactionRow, Presence, RefundFacts, EditFacts
      <3>2. AddFacts' /\ ItemFacts' /\ EditFacts' /\ RefundFacts'
        BY DEF RowTypeOK, AddFacts, ItemFacts, EditFacts, RefundFacts, LineFact, LiveItems, Pending
      <3> QED
        BY <3>1, <3>2
    <2>2. ASSUME AddTotals PROVE RowInv'
      <3> USE <2>2, <1>1 DEF AddTotals, RowInv, tableVars, rowVars, addVars, editVars,
               serviceVars, refundVars
      <3>1. RowTypeOK'
        BY DEF RowTypeOK, AddSteps, EditSteps, DeleteSteps, RefundSteps, TaskSteps,
           ItemColumn, TransactionRow, Presence, RefundFacts, EditFacts
      <3>2. AddFacts' /\ ItemFacts' /\ EditFacts' /\ RefundFacts'
        BY DEF RowTypeOK, AddFacts, ItemFacts, EditFacts, RefundFacts, LineFact, LiveItems, Pending
      <3> QED
        BY <3>1, <3>2
    <2>3. ASSUME AddFails PROVE RowInv'
      <3> USE <2>3, <1>1 DEF AddFails, RowInv, tableVars, rowVars, addVars, editVars,
               serviceVars, refundVars
      <3>1. RowTypeOK'
        BY DEF RowTypeOK, AddSteps, EditSteps, DeleteSteps, RefundSteps, TaskSteps,
           ItemColumn, TransactionRow, Presence, RefundFacts, EditFacts
      <3>2. AddFacts' /\ ItemFacts' /\ EditFacts' /\ RefundFacts'
        BY DEF RowTypeOK, AddFacts, ItemFacts, EditFacts, RefundFacts, LineFact, LiveItems, Pending
      <3> QED
        BY <3>1, <3>2
    <2> QED
      BY <1>1, <2>1, <2>2, <2>3, AddSaveRow, AddItemRow DEF AddStepsOf
  <1>2. ASSUME NEW e \in Editor, EditStepsOf(e), UNCHANGED refundVars PROVE RowInv'
    <2>1. ASSUME EditReload(e) PROVE RowInv'
      <3> USE <2>1, <1>2 DEF EditReload, RowInv, tableVars, rowVars, addVars, editVars,
               serviceVars, refundVars
      <3>1. RowTypeOK'
        BY DEF RowTypeOK, AddSteps, EditSteps, DeleteSteps, RefundSteps, TaskSteps,
           ItemColumn, TransactionRow, Presence, RefundFacts, EditFacts
      <3>2. AddFacts' /\ ItemFacts' /\ EditFacts' /\ RefundFacts'
        BY DEF RowTypeOK, AddFacts, ItemFacts, EditFacts, RefundFacts, LineFact, LiveItems, Pending
      <3> QED
        BY <3>1, <3>2
    <2>2. ASSUME EditSum(e) PROVE RowInv'
      <3> USE <2>2, <1>2 DEF EditSum, RowInv, tableVars, rowVars, addVars, editVars,
               serviceVars, refundVars
      <3>1. RowTypeOK'
        BY DEF RowTypeOK, AddSteps, EditSteps, DeleteSteps, RefundSteps, TaskSteps,
           ItemColumn, TransactionRow, Presence, RefundFacts, EditFacts
      <3>2. AddFacts' /\ ItemFacts' /\ EditFacts' /\ RefundFacts'
        BY DEF RowTypeOK, AddFacts, ItemFacts, EditFacts, RefundFacts, LineFact, LiveItems, Pending
      <3> QED
        BY <3>1, <3>2
    <2>3. ASSUME EditTotals(e) PROVE RowInv'
      <3> USE <2>3, <1>2 DEF EditTotals, RowInv, tableVars, rowVars, addVars, editVars,
               serviceVars, refundVars
      <3>1. RowTypeOK'
        BY DEF RowTypeOK, AddSteps, EditSteps, DeleteSteps, RefundSteps, TaskSteps,
           ItemColumn, TransactionRow, Presence, RefundFacts, EditFacts
      <3>2. AddFacts' /\ ItemFacts' /\ EditFacts' /\ RefundFacts'
        BY DEF RowTypeOK, AddFacts, ItemFacts, EditFacts, RefundFacts, LineFact, LiveItems, Pending
      <3> QED
        BY <3>1, <3>2
    <2>4. ASSUME EditHeaderReload(e) PROVE RowInv'
      <3> USE <2>4, <1>2 DEF EditHeaderReload, RowInv, tableVars, rowVars, addVars, editVars,
               serviceVars, refundVars
      <3>1. RowTypeOK'
        BY DEF RowTypeOK, AddSteps, EditSteps, DeleteSteps, RefundSteps, TaskSteps,
           ItemColumn, TransactionRow, Presence, RefundFacts, EditFacts
      <3>2. AddFacts' /\ ItemFacts' /\ EditFacts' /\ RefundFacts'
        BY DEF RowTypeOK, AddFacts, ItemFacts, EditFacts, RefundFacts, LineFact, LiveItems, Pending
      <3> QED
        BY <3>1, <3>2
    <2>5. ASSUME EditFails(e) PROVE RowInv'
      <3> USE <2>5, <1>2 DEF EditFails, RowInv, tableVars, rowVars, addVars, editVars,
               serviceVars, refundVars
      <3>1. RowTypeOK'
        BY DEF RowTypeOK, AddSteps, EditSteps, DeleteSteps, RefundSteps, TaskSteps,
           ItemColumn, TransactionRow, Presence, RefundFacts, EditFacts
      <3>2. AddFacts' /\ ItemFacts' /\ EditFacts' /\ RefundFacts'
        BY DEF RowTypeOK, AddFacts, ItemFacts, EditFacts, RefundFacts, LineFact, LiveItems, Pending
      <3> QED
        BY <3>1, <3>2
    <2> QED
      BY <1>2, <2>1, <2>2, <2>3, <2>4, <2>5, EditReadRow, EditLoadItemRow, EditSaveItemRow,
         EditDropRow, EditHeaderSaveRow DEF EditStepsOf
  <1>3. ASSUME NEW d \in Deleter, DeleteStepsOf(d), UNCHANGED refundVars PROVE RowInv'
    <2>1. ASSUME DeleteRead(d) PROVE RowInv'
      <3> USE <2>1, <1>3 DEF DeleteRead, RowInv, tableVars, rowVars, addVars, editVars,
               serviceVars, refundVars
      <3>1. RowTypeOK'
        BY DEF RowTypeOK, AddSteps, EditSteps, DeleteSteps, RefundSteps, TaskSteps,
           ItemColumn, TransactionRow, Presence, RefundFacts, EditFacts
      <3>2. AddFacts' /\ ItemFacts' /\ EditFacts' /\ RefundFacts'
        BY DEF RowTypeOK, AddFacts, ItemFacts, EditFacts, RefundFacts, LineFact, LiveItems, Pending
      <3> QED
        BY <3>1, <3>2
    <2>2. ASSUME DeleteMark(d) PROVE RowInv'
      <3> USE <2>2, <1>3 DEF DeleteMark, RowInv, tableVars, rowVars, addVars, editVars,
               serviceVars, refundVars
      <3>1. RowTypeOK'
        BY DEF RowTypeOK, AddSteps, EditSteps, DeleteSteps, RefundSteps, TaskSteps,
           ItemColumn, TransactionRow, Presence, RefundFacts, EditFacts
      <3>2. AddFacts' /\ ItemFacts' /\ EditFacts' /\ RefundFacts'
        BY DEF RowTypeOK, AddFacts, ItemFacts, EditFacts, RefundFacts, LineFact, LiveItems, Pending
      <3> QED
        BY <3>1, <3>2
    <2>3. ASSUME DeleteFails(d) PROVE RowInv'
      <3> USE <2>3, <1>3 DEF DeleteFails, RowInv, tableVars, rowVars, addVars, editVars,
               serviceVars, refundVars
      <3>1. RowTypeOK'
        BY DEF RowTypeOK, AddSteps, EditSteps, DeleteSteps, RefundSteps, TaskSteps,
           ItemColumn, TransactionRow, Presence, RefundFacts, EditFacts
      <3>2. AddFacts' /\ ItemFacts' /\ EditFacts' /\ RefundFacts'
        BY DEF RowTypeOK, AddFacts, ItemFacts, EditFacts, RefundFacts, LineFact, LiveItems, Pending
      <3> QED
        BY <3>1, <3>2
    <2> QED
      BY <1>3, <2>1, <2>2, <2>3, DeleteRemoveRow DEF DeleteStepsOf
  <1>4. ASSUME NEW r \in Refunder, RefundStepsOf(r), UNCHANGED serviceVars PROVE RowInv'
    <2>1. ASSUME RefundConnect(r) PROVE RowInv'
      <3> USE <2>1, <1>4 DEF RefundConnect, RowInv, tableVars, rowVars, addVars, editVars,
               serviceVars, refundVars
      <3>1. RowTypeOK'
        BY DEF RowTypeOK, AddSteps, EditSteps, DeleteSteps, RefundSteps, TaskSteps,
           ItemColumn, TransactionRow, Presence, RefundFacts, EditFacts
      <3>2. AddFacts' /\ ItemFacts' /\ EditFacts' /\ RefundFacts'
        BY DEF RowTypeOK, AddFacts, ItemFacts, EditFacts, RefundFacts, LineFact, LiveItems, Pending
      <3> QED
        BY <3>1, <3>2
    <2>2. ASSUME RefundInsert(r) PROVE RowInv'
      <3> USE <2>2, <1>4 DEF RefundInsert, RowInv, tableVars, rowVars, addVars, editVars,
               serviceVars, refundVars
      <3>1. RowTypeOK'
        BY DEF RowTypeOK, AddSteps, EditSteps, DeleteSteps, RefundSteps, TaskSteps,
           ItemColumn, TransactionRow, Presence, RefundFacts, EditFacts
      <3>2. AddFacts' /\ ItemFacts' /\ EditFacts' /\ RefundFacts'
        BY DEF RowTypeOK, AddFacts, ItemFacts, EditFacts, RefundFacts, LineFact, LiveItems, Pending
      <3> QED
        BY <3>1, <3>2
    <2>3. ASSUME RefundCommit(r) PROVE RowInv'
      <3> USE <2>3, <1>4 DEF RefundCommit, RowInv, tableVars, rowVars, addVars, editVars,
               serviceVars, refundVars
      <3>1. RowTypeOK'
        BY DEF RowTypeOK, AddSteps, EditSteps, DeleteSteps, RefundSteps, TaskSteps,
           ItemColumn, TransactionRow, Presence, RefundFacts, EditFacts
      <3>2. AddFacts' /\ ItemFacts' /\ EditFacts' /\ RefundFacts'
        BY DEF RowTypeOK, AddFacts, ItemFacts, EditFacts, RefundFacts, LineFact, LiveItems, Pending
      <3> QED
        BY <3>1, <3>2
    <2>4. ASSUME RefundFails(r) PROVE RowInv'
      <3> USE <2>4, <1>4 DEF RefundFails, RowInv, tableVars, rowVars, addVars, editVars,
               serviceVars, refundVars
      <3>1. RowTypeOK'
        BY DEF RowTypeOK, AddSteps, EditSteps, DeleteSteps, RefundSteps, TaskSteps,
           ItemColumn, TransactionRow, Presence, RefundFacts, EditFacts
      <3>2. AddFacts' /\ ItemFacts' /\ EditFacts' /\ RefundFacts'
        BY DEF RowTypeOK, AddFacts, ItemFacts, EditFacts, RefundFacts, LineFact, LiveItems, Pending
      <3> QED
        BY <3>1, <3>2
    <2>5. ASSUME RefundRollback(r) PROVE RowInv'
      <3> USE <2>5, <1>4 DEF RefundRollback, RowInv, tableVars, rowVars, addVars, editVars,
               serviceVars, refundVars
      <3>1. RowTypeOK'
        BY DEF RowTypeOK, AddSteps, EditSteps, DeleteSteps, RefundSteps, TaskSteps,
           ItemColumn, TransactionRow, Presence, RefundFacts, EditFacts
      <3>2. AddFacts' /\ ItemFacts' /\ EditFacts' /\ RefundFacts'
        BY DEF RowTypeOK, AddFacts, ItemFacts, EditFacts, RefundFacts, LineFact, LiveItems, Pending
      <3> QED
        BY <3>1, <3>2
    <2>6. ASSUME RefundDies(r) PROVE RowInv'
      <3> USE <2>6, <1>4 DEF RefundDies, RowInv, tableVars, rowVars, addVars, editVars,
               serviceVars, refundVars
      <3>1. RowTypeOK'
        BY DEF RowTypeOK, AddSteps, EditSteps, DeleteSteps, RefundSteps, TaskSteps,
           ItemColumn, TransactionRow, Presence, RefundFacts, EditFacts
      <3>2. AddFacts' /\ ItemFacts' /\ EditFacts' /\ RefundFacts'
        BY DEF RowTypeOK, AddFacts, ItemFacts, EditFacts, RefundFacts, LineFact, LiveItems, Pending
      <3> QED
        BY <3>1, <3>2
    <2>7. ASSUME NEW l \in Line, TaskSave(r, l) PROVE RowInv'
      <3> USE <2>7, <1>4 DEF TaskSave, RowInv, tableVars, rowVars, addVars, editVars,
               serviceVars, refundVars
      <3>1. RowTypeOK'
        BY DEF RowTypeOK, AddSteps, EditSteps, DeleteSteps, RefundSteps, TaskSteps,
           ItemColumn, TransactionRow, Presence, RefundFacts, EditFacts
      <3>2. AddFacts' /\ ItemFacts' /\ EditFacts' /\ RefundFacts'
        BY DEF RowTypeOK, AddFacts, ItemFacts, EditFacts, RefundFacts, LineFact, LiveItems, Pending
      <3> QED
        BY <3>1, <3>2
    <2>8. ASSUME RefundStart(r) PROVE RowInv'
      <3> USE <2>8, <1>4 DEF RefundStart, RowInv, tableVars, rowVars, addVars, editVars,
               serviceVars, refundVars
      <3>1. RowTypeOK'
        BY DEF RowTypeOK, AddSteps, EditSteps, DeleteSteps, RefundSteps, TaskSteps,
           ItemColumn, TransactionRow, Presence, RefundFacts, EditFacts
      <3>2. AddFacts' /\ ItemFacts' /\ EditFacts' /\ RefundFacts'
        BY DEF RowTypeOK, AddFacts, ItemFacts, EditFacts, RefundFacts, LineFact, LiveItems, Pending
      <3> QED
        BY <3>1, <3>2
    <2> QED
      BY <1>4, <2>1, <2>2, <2>3, <2>4, <2>5, <2>6, <2>7, <2>8, RefundReadRow, RefundCountRow,
         TaskUpdateRow, RefundPostRow DEF RefundStepsOf
  <1>5. CASE UNCHANGED vars
    BY <1>5 DEF vars, tableVars, rowVars, addVars, editVars, serviceVars, refundVars, RowInv,
       RowTypeOK, AddFacts, ItemFacts, EditFacts, RefundFacts, LineFact
  <1> QED
    BY <1>1, <1>2, <1>3, <1>4, <1>5 DEF Next, Finished

\* The rows and the local variables of every request have their types, and
\* relate as the facts say, in every reachable state.
THEOREM TypeCorrect == Spec => [](RowTypeOK /\ RowInv)
  <1>1. RowInv => RowTypeOK
    BY DEF RowInv
  <1> QED
    BY <1>1, InitRowInv, RowInvStep, PTL DEF Spec

-----------------------------------------------------------------------------
(* Which steps may change what the remaining quantities depend on.         *)

\* Only the loop of addTransaction changes what lines were sold with.
LEMMA SoldStep ==
  ASSUME [Next]_vars
  PROVE  sold' = sold \/ \E i \in Item : AddItem(i)
  <1>1. ASSUME AddStepsOf PROVE sold' = sold \/ \E i \in Item : AddItem(i)
    BY <1>1 DEF AddStepsOf, AddSave, AddSum, AddTotals, AddFails, tableVars, rowVars
  <1>2. ASSUME NEW e \in Editor, EditStepsOf(e) PROVE sold' = sold
    BY <1>2 DEF EditStepsOf, EditRead, EditLoadItem, EditReload, EditSaveItem, EditSum,
       EditTotals, EditDrop, EditHeaderReload, EditHeaderSave, EditFails, tableVars, rowVars
  <1>3. ASSUME NEW d \in Deleter, DeleteStepsOf(d) PROVE sold' = sold
    BY <1>3 DEF DeleteStepsOf, DeleteRead, DeleteMark, DeleteRemove, DeleteFails,
       tableVars, rowVars
  <1>4. ASSUME NEW r \in Refunder, RefundStepsOf(r) PROVE sold' = sold
    BY <1>4 DEF RefundStepsOf, RefundRead, RefundCount, RefundConnect, RefundStart,
       RefundInsert,
       TaskUpdate, TaskSave, RefundPost, RefundCommit, RefundFails, RefundRollback,
       RefundDies, tableVars, rowVars
  <1>5. ASSUME UNCHANGED vars PROVE sold' = sold
    BY <1>5 DEF vars, tableVars, rowVars
  <1> QED
    BY <1>1, <1>2, <1>3, <1>4, <1>5 DEF Next, Finished

\* Three actions write a remaining quantity.
LEMMA ItemStep ==
  ASSUME RowInv, [Next]_vars
  PROVE  \/ \A i \in Item : item'[i].remainingQuantity = item[i].remainingQuantity
         \/ \E i \in Item : AddItem(i)
         \/ \E e \in Editor : EditSaveItem(e)
         \/ \E r \in Refunder, l \in Line : TaskUpdate(r, l)
  <1> DEFINE Same == \A i \in Item : item'[i].remainingQuantity = item[i].remainingQuantity
  <1>0. \A i \in Item : item[i] \in ItemRow
    BY DEF RowInv, RowTypeOK
  <1>1. ASSUME AddStepsOf PROVE Same \/ \E i \in Item : AddItem(i)
    BY <1>1 DEF AddStepsOf, AddSave, AddSum, AddTotals, AddFails, tableVars, rowVars
  <1>2. ASSUME NEW e \in Editor, EditStepsOf(e) PROVE Same \/ EditSaveItem(e)
    <2>1. CASE EditDrop(e)
      BY <1>0, <2>1 DEF EditDrop, ItemRow
    <2>2. CASE EditHeaderSave(e)
      BY <1>0, <2>2 DEF EditHeaderSave, ItemRow
    <2> QED
      BY <1>2, <2>1, <2>2 DEF EditStepsOf, EditRead, EditLoadItem, EditReload, EditSum,
         EditTotals, EditHeaderReload, EditFails, tableVars, rowVars
  <1>3. ASSUME NEW d \in Deleter, DeleteStepsOf(d) PROVE Same
    <2>1. CASE DeleteRemove(d)
      BY <1>0, <2>1 DEF DeleteRemove, ItemRow
    <2> QED
      BY <1>3, <2>1 DEF DeleteStepsOf, DeleteRead, DeleteMark, DeleteFails, tableVars, rowVars
  <1>4. ASSUME NEW r \in Refunder, RefundStepsOf(r)
        PROVE  Same \/ \E l \in Line : TaskUpdate(r, l)
    BY <1>4 DEF RefundStepsOf, RefundRead, RefundCount, RefundConnect, RefundStart,
       RefundInsert,
       TaskSave, RefundPost, RefundCommit, RefundFails, RefundRollback,
       RefundDies, tableVars, rowVars
  <1>5. ASSUME UNCHANGED vars PROVE Same
    BY <1>5 DEF vars, tableVars, rowVars
  <1> QED
    BY <1>1, <1>2, <1>3, <1>4, <1>5 DEF Next, Finished

\* An edit holds the item row it loaded until its save() is done.
LEMMA EditItemStep ==
  ASSUME RowInv, [Next]_vars, NEW e \in Editor, editStep'[e] \in {"reload", "save"}
  PROVE  \/ editStep[e] \in {"reload", "save"} /\ editItem'[e] = editItem[e]
         \/ EditLoadItem(e)
  <1> DEFINE Kept == editStep[e] \in {"reload", "save"} /\ editItem'[e] = editItem[e]
  <1> USE DEF RowInv, RowTypeOK
  <1>1. ASSUME AddStepsOf PROVE Kept
    BY <1>1 DEF AddStepsOf, AddSave, AddItem, AddSum, AddTotals, AddFails, editVars
  <1>2. ASSUME NEW f \in Editor, EditStepsOf(f) PROVE Kept \/ EditLoadItem(e)
    BY <1>2 DEF EditStepsOf, EditRead, EditLoadItem, EditReload, EditSaveItem, EditSum,
       EditTotals, EditDrop, EditHeaderReload, EditHeaderSave, EditFails
  <1>3. ASSUME NEW d \in Deleter, DeleteStepsOf(d) PROVE Kept
    BY <1>3 DEF DeleteStepsOf, DeleteRead, DeleteMark, DeleteRemove, DeleteFails, editVars
  <1>4. ASSUME UNCHANGED serviceVars PROVE Kept
    BY <1>4 DEF serviceVars, editVars
  <1>5. ASSUME UNCHANGED vars PROVE Kept
    BY <1>5 DEF vars, serviceVars, editVars
  <1> QED
    BY <1>1, <1>2, <1>3, <1>4, <1>5 DEF Next, Finished

\* Only the read of a refund sets its validated lines.
LEMMA LinesStep ==
  ASSUME [Next]_vars
  PROVE  lines' = lines \/ \E r \in Refunder : RefundRead(r) /\ UNCHANGED serviceVars
  <1>1. ASSUME NEW r \in Refunder, RefundStepsOf(r) PROVE lines' = lines \/ RefundRead(r)
    BY <1>1 DEF RefundStepsOf, RefundCount, RefundConnect, RefundStart, RefundInsert,
       TaskUpdate, TaskSave, RefundPost, RefundCommit, RefundFails, RefundRollback, RefundDies
  <1> QED
    BY <1>1 DEF Next, Finished, vars, refundVars

-----------------------------------------------------------------------------
(* What remains of a line.                                                 *)

\* What was sold only grows, so a quantity within it stays within it.
LEMMA WithinSoldKept ==
  ASSUME RowInv, [Next]_vars, NEW q, WithinSold(q)
  PROVE  WithinSold(q)'
  <1>1. PICK i \in Item : q \in Nat /\ q <= sold[i].quantity
    BY DEF WithinSold
  <1>2. CASE sold' = sold
    BY <1>1, <1>2 DEF WithinSold
  <1>3. ASSUME NEW j \in Item, AddItem(j) PROVE WithinSold(q)'
    <2>1. /\ sold[j].quantity = 0
          /\ addCart \in Cart /\ j \in DOMAIN addCart
      BY <1>3 DEF AddItem, RowInv, AddFacts
    <2>2. PICK price \in PriceOf[addCart[j].product] :
            sold' = [sold EXCEPT ![j] = [quantity |-> addCart[j].quantity, price |-> price]]
      BY <1>3 DEF AddItem
    <2>3. addCart[j].quantity \in Nat
      BY <2>1, <2>2, NewItemType
    <2>4. sold[i].quantity <= sold'[i].quantity /\ sold'[i].quantity \in Nat
      BY <2>1, <2>2, <2>3 DEF RowInv, RowTypeOK
    <2>5. sold[i].quantity \in Nat
      BY DEF RowInv, RowTypeOK
    <2>6. q <= sold'[i].quantity
      BY <1>1, <2>4, <2>5
    <2> QED
      BY <1>1, <2>6 DEF WithinSold
  <1> QED
    BY <1>2, <1>3, SoldStep

\* Nothing was sold and nothing remains at first.
LEMMA InitRemaining == Init => RemainingInv
  BY DEF Init, TablesInit, ServiceInit, RefundInit, RemainingInv, RemainingWithinSold,
     WithinSold, NoItem, NoLines

\* Every stored quantity that remains stays within what was sold: three
\* actions write one, from a cart, from memory and from a validated line.
LEMMA RemainingRows ==
  ASSUME RowInv, RemainingInv, [Next]_vars
  PROVE  RemainingWithinSold'
  <1>0. \A i \in Item : WithinSold(item[i].remainingQuantity)
    BY DEF RemainingInv, RemainingWithinSold
  <1>1. CASE \A i \in Item : item'[i].remainingQuantity = item[i].remainingQuantity
    <2> SUFFICES ASSUME NEW i \in Item PROVE WithinSold(item[i].remainingQuantity)'
      BY DEF RemainingWithinSold
    <2>1. PICK q : q = item[i].remainingQuantity
      OBVIOUS
    <2>2. WithinSold(q)'
      BY <1>0, <2>1, WithinSoldKept
    <2> QED
      BY <1>1, <2>1, <2>2 DEF WithinSold
  <1>2. ASSUME NEW j \in Item, AddItem(j) PROVE RemainingWithinSold'
    <2>1. addCart \in Cart /\ j \in DOMAIN addCart
      BY <1>2 DEF AddItem, RowInv, AddFacts
    <2>2. PICK price \in PriceOf[addCart[j].product] :
            /\ item' = [item EXCEPT ![j] = NewItem(addCart[j], price)]
            /\ sold' = [sold EXCEPT ![j] = [quantity |-> addCart[j].quantity, price |-> price]]
      BY <1>2 DEF AddItem
    <2>3. addCart[j].quantity \in Nat
      BY <2>1, <2>2, NewItemType
    <2>4. /\ item'[j].remainingQuantity = addCart[j].quantity
          /\ sold'[j].quantity = addCart[j].quantity
      BY <2>2 DEF RowInv, RowTypeOK, NewItem
    <2>5. WithinSold(item[j].remainingQuantity)'
      BY <2>3, <2>4 DEF WithinSold
    <2>6. ASSUME NEW i \in Item, i # j PROVE WithinSold(item[i].remainingQuantity)'
      <3>1. item'[i] = item[i]
        BY <2>2, <2>6 DEF RowInv, RowTypeOK
      <3>2. PICK q : q = item[i].remainingQuantity
        OBVIOUS
      <3>3. WithinSold(q)'
        BY <1>0, <3>2, WithinSoldKept
      <3> QED
        BY <3>1, <3>2, <3>3 DEF WithinSold
    <2> QED
      BY <2>5, <2>6 DEF RemainingWithinSold
  <1>3. ASSUME NEW e \in Editor, EditSaveItem(e) PROVE RemainingWithinSold'
    <2> SUFFICES ASSUME NEW i \in Item PROVE WithinSold(item[i].remainingQuantity)'
      BY DEF RemainingWithinSold
    <2>1. /\ item[i] \in ItemRow
          /\ editItem[e] \in ItemRow
          /\ editStep[e] = "save"
          /\ DOMAIN item = Item
      BY <1>3 DEF EditSaveItem, RowInv, RowTypeOK
    <2>2. \/ item'[i].remainingQuantity = item[i].remainingQuantity
          \/ item'[i].remainingQuantity = editItem[e].remainingQuantity
      <3> DEFINE k == editDto[e].transactionItemId
                 row == item[k]
                 mem == editItem[e]
                 Written(c) == IF c \in editDirty[e] THEN mem[c] ELSE row[c]
                 orphan == [mem EXCEPT !.owned = FALSE]
                 updated == [row EXCEPT
                     !.at = Written("at"), !.product = Written("product"),
                     !.quantity = Written("quantity"), !.value = Written("value"),
                     !.discount = Written("discount"), !.netPrice = Written("netPrice"),
                     !.remainingQuantity = Written("remainingQuantity"),
                     !.remainingAmount = Written("remainingAmount"),
                     !.isRefund = Written("isRefund")]
      <3>1. k \in Item /\ row \in ItemRow
        BY <2>1 DEF RowInv, RowTypeOK, EditFacts
      <3>2. \/ item' = [item EXCEPT ![k] = orphan]
            \/ item' = item
            \/ item' = [item EXCEPT ![k] = updated]
        BY <1>3 DEF EditSaveItem
      <3>3. orphan.remainingQuantity = mem.remainingQuantity
        BY <2>1 DEF ItemRow
      <3>4. /\ updated.remainingQuantity = Written("remainingQuantity")
            /\ Written("remainingQuantity") \in {mem.remainingQuantity, row.remainingQuantity}
        <4>1. Written("remainingQuantity") \in {mem.remainingQuantity, row.remainingQuantity}
          OBVIOUS
        <4> HIDE DEF Written, row
        <4> QED
          BY <3>1, <4>1 DEF ItemRow
      <3> HIDE DEF orphan, updated, mem, Written, k
      <3> QED
        BY <2>1, <3>1, <3>2, <3>3, <3>4 DEF mem
    <2>3. WithinSold(editItem[e].remainingQuantity)
      BY <2>1 DEF RemainingInv
    <2>4. PICK q : q = item'[i].remainingQuantity
      OBVIOUS
    <2>5. WithinSold(q)'
      BY <1>0, <2>2, <2>3, <2>4, WithinSoldKept
    <2> QED
      BY <2>4, <2>5 DEF WithinSold
  <1>4. ASSUME NEW r \in Refunder, NEW l \in Line, TaskUpdate(r, l) PROVE RemainingWithinSold'
    <2> SUFFICES ASSUME NEW i \in Item PROVE WithinSold(item[i].remainingQuantity)'
      BY DEF RemainingWithinSold
    <2> DEFINE line == lines[r][l]
    <2>1. /\ l \in DOMAIN lines[r]
          /\ LineFact(line)
          /\ line.remainingQuantity # 0
          /\ item[i] \in ItemRow
      BY <1>4 DEF TaskUpdate, RowInv, RefundFacts, RowTypeOK
    <2>2. LeftOf(line) \in Nat /\ LeftOf(line) <= line.remainingQuantity
      <3> HIDE DEF line
      <3> QED
        BY <2>1, LeftType
    <2>3. WithinSold(line.remainingQuantity)
      BY <2>1 DEF RemainingInv
    <2>4. WithinSold(LeftOf(line))
      <3>1. PICK j \in Item : line.remainingQuantity <= sold[j].quantity
        BY <2>3 DEF WithinSold
      <3>2. sold[j].quantity \in Nat /\ line.remainingQuantity \in Nat
        BY <2>1 DEF RowInv, RowTypeOK, LineFact
      <3>3. LeftOf(line) <= sold[j].quantity
        BY <2>2, <3>1, <3>2
      <3> QED
        BY <2>2, <3>3 DEF WithinSold
    <2>5. \/ item'[i].remainingQuantity = item[i].remainingQuantity
          \/ item'[i].remainingQuantity = LeftOf(line)
      BY <1>4, <2>1 DEF TaskUpdate, ItemRow
    <2>6. PICK q : q = item'[i].remainingQuantity
      OBVIOUS
    <2>7. WithinSold(q)'
      BY <1>0, <2>4, <2>5, <2>6, WithinSoldKept
    <2> QED
      BY <2>6, <2>7 DEF WithinSold
  <1> QED
    BY <1>1, <1>2, <1>3, <1>4, ItemStep

\* So does the quantity a save() holds in memory.
LEMMA RemainingHeld ==
  ASSUME RowInv, RemainingInv, [Next]_vars,
         NEW e \in Editor, editStep'[e] \in {"reload", "save"}
  PROVE  WithinSold(editItem[e].remainingQuantity)'
  <1>1. PICK q : q = editItem'[e].remainingQuantity
    OBVIOUS
  <1>2. CASE editStep[e] \in {"reload", "save"} /\ editItem'[e] = editItem[e]
    <2>1. WithinSold(q)
      BY <1>1, <1>2 DEF RemainingInv
    <2> QED
      BY <1>1, <2>1, WithinSoldKept DEF WithinSold
  <1>3. CASE EditLoadItem(e)
    <2> DEFINE i == editDto[e].transactionItemId
               p == IF editDto[e].product = Null THEN item[i].product ELSE editDto[e].product
    <2>1. /\ editStep[e] = "item" /\ editDto[e] \in EditDto /\ i \in Item
          /\ item[i].at = "live"
      BY <1>3 DEF EditLoadItem, RowInv, RowTypeOK, EditFacts
    <2>2. PICK price \in PriceOf[p] : editItem'[e] = Amended(item[i], editDto[e], price)
      BY <1>3, <2>1 DEF EditLoadItem, RowInv, RowTypeOK
    <2>3. item[i] \in ItemRow /\ item[i].product \in Product
      BY <2>1 DEF RowInv, RowTypeOK, ItemFacts
    <2>4. q = item[i].remainingQuantity
      BY <1>1, <2>1, <2>2, <2>3, AmendedType
    <2>5. WithinSold(q)
      BY <2>1, <2>4 DEF RemainingInv, RemainingWithinSold
    <2> QED
      BY <1>1, <2>5, WithinSoldKept DEF WithinSold
  <1> QED
    BY <1>2, <1>3, EditItemStep

\* And the one a refund validated.
LEMMA RemainingValidated ==
  ASSUME RowInv, RemainingInv, [Next]_vars, NEW r \in Refunder, NEW l \in DOMAIN lines'[r]
  PROVE  WithinSold(lines[r][l].remainingQuantity)'
  <1>1. PICK q : q = lines'[r][l].remainingQuantity
    OBVIOUS
  <1>2. SUFFICES WithinSold(q)
    BY <1>1, WithinSoldKept DEF WithinSold
  <1>3. CASE l \in DOMAIN lines[r] /\ lines'[r] = lines[r]
    BY <1>1, <1>3 DEF RemainingInv
  <1>4. ASSUME RefundRead(r) PROVE WithinSold(q)
    <2>1. PICK dto \in RefundDto, first \in [Product -> Item] :
            LET Found(k) == first[dto[k].product] \in LiveItems
                            /\ item[first[dto[k].product]].product = dto[k].product
                valid == /\ Refundable
                         /\ \A k \in DOMAIN dto :
                              Found(k) /\ Enough(dto[k], item[first[dto[k].product]])
            IN  lines' = [lines EXCEPT ![r] =
                  IF valid THEN [k \in DOMAIN dto |->
                                   ValidLine(dto[k], item[first[dto[k].product]])]
                  ELSE NoLines]
      BY <1>4 DEF RefundRead
    <2>2. \/ lines'[r] = [k \in DOMAIN dto |-> ValidLine(dto[k], item[first[dto[k].product]])]
          \/ lines'[r] = NoLines
      BY <2>1 DEF RowInv, RefundFacts
    <2>3. l \in DOMAIN dto /\ lines'[r][l] = ValidLine(dto[l], item[first[dto[l].product]])
      BY <2>2 DEF NoLines
    <2>4. first[dto[l].product] \in Item
      BY <2>3, RefundAssumption
    <2>5. q = item[first[dto[l].product]].remainingQuantity
      BY <1>1, <2>3 DEF ValidLine
    <2> QED
      BY <2>4, <2>5 DEF RemainingInv, RemainingWithinSold
  <1>5. ASSUME NEW s \in Refunder, s # r, RefundRead(s) PROVE lines'[r] = lines[r]
    BY <1>5 DEF RefundRead, RowInv, RefundFacts
  <1> QED
    BY <1>3, <1>4, <1>5, LinesStep

\* What remains to refund of a line never falls below 0 and never exceeds
\* what was sold, for any carts, bodies, numbers of requests and faults.
THEOREM RemainingSafe == Spec => []RemainingWithinSold
  <1>1. RowInv /\ RemainingInv /\ [Next]_vars => RemainingInv'
    BY RemainingRows, RemainingHeld, RemainingValidated DEF RemainingInv
  <1>2. RemainingInv => RemainingWithinSold
    BY DEF RemainingInv
  <1> QED
    BY <1>1, <1>2, InitRowInv, InitRemaining, RowInvStep, PTL DEF Spec

-----------------------------------------------------------------------------
(* How far a refund is, connections and foreign keys.                      *)

LEMMA ProgressInit == Init => ProgressInv
  BY DEF Init, TablesInit, RefundInit, ProgressInv

LEMMA ProgressStep == RowInv /\ ProgressInv /\ [Next]_vars => ProgressInv'
  <1> SUFFICES ASSUME RowInv, ProgressInv, [Next]_vars PROVE ProgressInv'
    OBVIOUS
  <1>1. ASSUME UNCHANGED <<refund, refundVars>> PROVE ProgressInv'
    BY <1>1 DEF ProgressInv, refundVars
  <1>2. ASSUME AddStepsOf, UNCHANGED refundVars PROVE ProgressInv'
    BY <1>1, <1>2 DEF AddStepsOf, AddSave, AddItem, AddSum, AddTotals, AddFails,
       tableVars, rowVars
  <1>3. ASSUME NEW e \in Editor, EditStepsOf(e), UNCHANGED refundVars PROVE ProgressInv'
    BY <1>1, <1>3 DEF EditStepsOf, EditRead, EditLoadItem, EditReload, EditSaveItem, EditSum,
       EditTotals, EditDrop, EditHeaderReload, EditHeaderSave, EditFails, tableVars, rowVars
  <1>4. ASSUME NEW d \in Deleter, DeleteStepsOf(d), UNCHANGED refundVars PROVE ProgressInv'
    BY <1>1, <1>4 DEF DeleteStepsOf, DeleteRead, DeleteMark, DeleteRemove, DeleteFails,
       tableVars, rowVars
  <1>5. ASSUME NEW r \in Refunder, RefundStepsOf(r) PROVE ProgressInv'
    <2> DEFINE Of(s) ==
          /\ refStep[s] \in {"idle", "count", "connect", "start", "insert"} =>
               refund[s] = 0 /\ \A l \in Line : task[s][l] = "none"
          /\ refStep[s] \in {"connect", "start", "insert"} => refNumber[s] > 0
          /\ refStep[s] = "post" => refund[s] # 0
          /\ \A l \in Line : task[s][l] # "none" => l \in DOMAIN lines[s] /\ refund[s] # 0
    <2>0. /\ refund \in [Refunder -> Nat]
          /\ refNumber \in [Refunder -> Nat]
          /\ refStep \in [Refunder -> RefundSteps]
          /\ task \in [Refunder -> [Line -> TaskSteps]]
          /\ DOMAIN lines = Refunder
          /\ \A s \in Refunder : Of(s)
      BY DEF RowInv, RowTypeOK, RefundFacts, ProgressInv
    <2>1. /\ \A s \in Refunder : s # r =>
               UNCHANGED <<refStep[s], refund[s], task[s], refNumber[s], lines[s]>>
          /\ Of(r)'
      <3>1. CASE RefundRead(r)
        BY <2>0, <3>1 DEF RefundRead, tableVars, rowVars
      <3>2. CASE RefundCount(r)
        <4>1. Cardinality(RefundRows) \in Nat
          BY RefunderAssumption, FS_Subset, FS_CardinalityType DEF RefundRows
        <4> QED
          BY <2>0, <3>2, <4>1 DEF RefundCount, FindQuantityRefundToday, tableVars, rowVars
      <3>3. CASE RefundInsert(r)
        BY <2>0, <3>3 DEF RefundInsert
      <3>4. CASE \/ RefundConnect(r) \/ RefundStart(r) \/ RefundPost(r)
                 \/ RefundCommit(r) \/ RefundRollback(r)
        BY <2>0, <3>4 DEF RefundConnect, RefundStart, RefundPost, RefundCommit,
           RefundRollback, rowVars
      <3>5. CASE RefundFails(r)
        BY <2>0, <3>5 DEF RefundFails, rowVars
      <3>6. CASE RefundDies(r)
        BY <2>0, <3>6 DEF RefundDies, rowVars, Pending
      <3>7. ASSUME NEW l \in Line, TaskUpdate(r, l) \/ TaskSave(r, l)
            PROVE  /\ \A s \in Refunder : s # r =>
                        UNCHANGED <<refStep[s], refund[s], task[s], refNumber[s], lines[s]>>
                   /\ Of(r)'
        <4>1. /\ UNCHANGED <<refStep, refund, refNumber, lines>>
              /\ task[r][l] \in {"update", "save"}
              /\ \E t \in {"save", "saved"} : task' = [task EXCEPT ![r][l] = t]
          BY <3>7 DEF TaskUpdate, TaskSave, tableVars, rowVars
        <4>2. /\ \A s \in Refunder : s # r => task'[s] = task[s]
              /\ \A k \in Line : k # l => task'[r][k] = task[r][k]
              /\ task[r][l] # "none"
          BY <2>0, <4>1
        <4> QED
          BY <2>0, <4>1, <4>2
      <3> QED
        BY <1>5, <3>1, <3>2, <3>3, <3>4, <3>5, <3>6, <3>7 DEF RefundStepsOf
    <2> QED
      BY <2>0, <2>1 DEF ProgressInv
  <1>6. ASSUME UNCHANGED vars PROVE ProgressInv'
    BY <1>1, <1>6 DEF vars, tableVars, rowVars
  <1> QED
    BY <1>2, <1>3, <1>4, <1>5, <1>6 DEF Next, Finished

\* Only a refund's own steps touch the connections, the refund steps and the
\* refund rows, and a step meets at most one fault.
LEMMA HeldStep ==
  ASSUME [Next]_vars
  PROVE  /\ \/ UNCHANGED <<held, refStep, refund>>
            \/ \E r \in Refunder : RefundStepsOf(r)
         /\ faults' = faults \/ faults' = faults + 1
  <1> DEFINE Same == UNCHANGED <<held, refStep, refund>>
  <1> DEFINE Faulty == faults' = faults \/ faults' = faults + 1
  <1>1. ASSUME AddStepsOf, UNCHANGED refundVars PROVE Same /\ Faulty
    BY <1>1 DEF AddStepsOf, AddSave, AddItem, AddSum, AddTotals, AddFails, Fault, tableVars,
       rowVars, refundVars
  <1>2. ASSUME NEW e \in Editor, EditStepsOf(e), UNCHANGED refundVars PROVE Same /\ Faulty
    BY <1>2 DEF EditStepsOf, EditRead, EditLoadItem, EditReload, EditSaveItem, EditSum,
       EditTotals, EditDrop, EditHeaderReload, EditHeaderSave, EditFails, Fault, tableVars,
       rowVars, refundVars
  <1>3. ASSUME NEW d \in Deleter, DeleteStepsOf(d), UNCHANGED refundVars PROVE Same /\ Faulty
    BY <1>3 DEF DeleteStepsOf, DeleteRead, DeleteMark, DeleteRemove, DeleteFails, Fault,
       tableVars, rowVars, refundVars
  <1>4. ASSUME UNCHANGED vars PROVE Same /\ Faulty
    BY <1>4 DEF vars, tableVars, rowVars, refundVars
  <1>5. ASSUME NEW r \in Refunder, RefundStepsOf(r) PROVE Faulty
    <2>1. CASE RefundRead(r) \/ RefundCount(r)
      BY <2>1 DEF RefundRead, RefundCount, tableVars
    <2>2. ASSUME NEW l \in Line PROVE TaskUpdate(r, l) \/ TaskSave(r, l) => Faulty
      BY DEF TaskUpdate, TaskSave, tableVars
    <2>3. CASE RefundFails(r) \/ RefundDies(r)
      BY <2>3 DEF RefundFails, RefundDies, Fault
    <2> QED
      BY <1>5, <2>1, <2>2, <2>3 DEF RefundStepsOf, RefundConnect, RefundStart, RefundInsert,
         RefundPost, RefundCommit, RefundRollback
  <1> QED
    BY <1>1, <1>2, <1>3, <1>4, <1>5 DEF Next, Finished

\* A refund's step leaks no connection but its own, and only by a fault
\* before its row is inserted.
LEMMA LeakStep ==
  ASSUME RowInv, ProgressInv, ConnectionReleased, NEW r \in Refunder, RefundStepsOf(r)
  PROVE  /\ Connected' \subseteq held'
         /\ \A s \in Leaking' : refStep'[s] = "error" /\ refund'[s] = 0
         /\ \/ Leaking' \subseteq Leaking
            \/ Leaking' \subseteq Leaking \cup {r} /\ Fault
  <1>0. /\ refStep \in [Refunder -> RefundSteps]
        /\ refund \in [Refunder -> Nat]
        /\ held \subseteq Refunder
    BY DEF RowInv, RowTypeOK
  <1>1. refStep[r] \in {"count", "connect", "start"} => refund[r] = 0
    BY DEF ProgressInv
  <1> USE <1>0 DEF ConnectionReleased, Connected, Leaking
  <1>2. CASE RefundRead(r)
    <2>1. /\ refStep[r] = "idle"
          /\ \E s \in {"count", "error"} : refStep' = [refStep EXCEPT ![r] = s]
          /\ UNCHANGED <<held, refund>>
      BY <1>2 DEF RefundRead, tableVars, rowVars
    <2> QED
      BY <2>1
  <1>3. CASE RefundCount(r) \/ RefundConnect(r) \/ RefundStart(r)
    BY <1>3 DEF RefundCount, RefundConnect, RefundStart, tableVars, rowVars
  <1>4. CASE RefundInsert(r)
    BY <1>4 DEF RefundInsert
  <1>5. CASE RefundPost(r)
    BY <1>5 DEF RefundPost
  <1>6. CASE RefundCommit(r) \/ RefundRollback(r)
    BY <1>6 DEF RefundCommit, RefundRollback, rowVars
  <1>7. CASE RefundFails(r)
    BY <1>1, <1>7 DEF RefundFails, rowVars
  <1>8. CASE RefundDies(r)
    BY <1>8 DEF RefundDies, rowVars
  <1>9. ASSUME NEW l \in Line, TaskUpdate(r, l) \/ TaskSave(r, l)
        PROVE  UNCHANGED <<held, refStep, refund>>
    <2>1. TaskUpdate(r, l) => UNCHANGED <<held, refStep, refund>>
      BY DEF TaskUpdate
    <2>2. TaskSave(r, l) => UNCHANGED <<held, refStep, refund>>
      BY DEF TaskSave, tableVars, rowVars
    <2> QED
      BY <1>9, <2>1, <2>2
  <1> QED
    BY <1>2, <1>3, <1>4, <1>5, <1>6, <1>7, <1>8, <1>9 DEF RefundStepsOf

LEMMA ReleasedStep ==
  ASSUME RowInv, ProgressInv, ConnectionReleased, faults \in Nat, [Next]_vars
  PROVE  ConnectionReleased' /\ faults' \in Nat
  <1>1. IsFiniteSet(Leaking) /\ Cardinality(Leaking) \in Nat
    BY RefunderAssumption, FS_Subset, FS_CardinalityType DEF Leaking, RowInv, RowTypeOK
  <1>2. faults' \in Nat /\ faults <= faults'
    BY HeldStep
  <1>3. CASE UNCHANGED <<held, refStep, refund>>
    <2>1. Connected' = Connected /\ Leaking' = Leaking
      BY <1>3 DEF Connected, Leaking
    <2>2. Cardinality(Leaking) <= faults'
      BY <1>1, <1>2 DEF ConnectionReleased
    <2> QED
      BY <1>2, <1>3, <2>1, <2>2 DEF ConnectionReleased
  <1>4. ASSUME NEW r \in Refunder, RefundStepsOf(r) PROVE Cardinality(Leaking') <= faults'
    <2>1. CASE Leaking' \subseteq Leaking
      <3>1. Cardinality(Leaking') <= Cardinality(Leaking) /\ Cardinality(Leaking') \in Nat
        BY <1>1, <2>1, FS_Subset, FS_CardinalityType
      <3> QED
        BY <1>1, <1>2, <3>1 DEF ConnectionReleased
    <2>2. CASE Leaking' \subseteq Leaking \cup {r} /\ Fault
      <3>1. /\ IsFiniteSet(Leaking \cup {r})
            /\ Cardinality(Leaking \cup {r}) <= Cardinality(Leaking) + 1
            /\ Cardinality(Leaking \cup {r}) \in Nat
        BY <1>1, FS_AddElement, FS_CardinalityType
      <3>2. /\ Cardinality(Leaking') <= Cardinality(Leaking \cup {r})
            /\ Cardinality(Leaking') \in Nat
        BY <2>2, <3>1, FS_Subset, FS_CardinalityType
      <3> QED
        BY <1>1, <2>2, <3>1, <3>2 DEF ConnectionReleased, Fault
    <2> QED
      BY <1>4, <2>1, <2>2, LeakStep
  <1> QED
    BY <1>2, <1>3, <1>4, HeldStep, LeakStep DEF ConnectionReleased

\* In every reachable state, however many refunds overlap, fail and die, a
\* connection is kept by every refund inside its try block and otherwise only
\* by refunds that failed before their row, at most one for each failure.
THEOREM ConnectionsReturned == Spec => []ConnectionReleased
  <1> DEFINE Inv == ConnectionReleased /\ faults \in Nat
  <1>1. Init => Inv
    <2>1. Init => held = {} /\ Connected = {} /\ faults = 0
      BY DEF Init, TablesInit, RefundInit, Connected
    <2> QED
      BY <2>1, FS_EmptySet DEF ConnectionReleased, Leaking
  <1>2. RowInv /\ ProgressInv /\ Inv /\ [Next]_vars => Inv'
    BY ReleasedStep
  <1> QED
    BY <1>1, <1>2, InitRowInv, RowInvStep, ProgressInit, ProgressStep, PTL DEF Spec

\* Only a removal takes the transaction row away.
LEMMA GoneStep ==
  ASSUME RowInv, [Next]_vars, txn'.at = "gone"
  PROVE  txn.at = "gone" \/ \E d \in Deleter : DeleteRemove(d) /\ RefundRows = {}
  <1> USE DEF RowInv, RowTypeOK, TransactionRow
  <1>1. CASE AddStepsOf
    BY <1>1 DEF AddStepsOf, AddSave, AddItem, AddSum, AddTotals, AddFails, tableVars, rowVars
  <1>2. ASSUME NEW e \in Editor, EditStepsOf(e) PROVE txn.at = "gone"
    <2>1. CASE EditHeaderSave(e)
      BY <2>1 DEF EditHeaderSave
    <2>2. CASE EditSaveItem(e)
      BY <2>2 DEF EditSaveItem
    <2> HIDE DEF RowInv
    <2> QED
      BY <1>2, <2>1, <2>2 DEF EditStepsOf, EditRead, EditLoadItem, EditReload, EditSum,
         EditTotals, EditDrop, EditHeaderReload, EditFails, tableVars, rowVars
  <1>3. ASSUME NEW d \in Deleter, DeleteStepsOf(d)
        PROVE  txn.at = "gone" \/ (DeleteRemove(d) /\ RefundRows = {})
    <2>1. CASE DeleteRemove(d)
      <3>1. RefundRows = {} \/ txn' = txn
        BY <2>1 DEF DeleteRemove
      <3> QED
        BY <2>1, <3>1
    <2>2. CASE DeleteMark(d)
      BY <2>2 DEF DeleteMark
    <2> QED
      BY <1>3, <2>1, <2>2 DEF DeleteStepsOf, DeleteRead, DeleteFails, tableVars, rowVars
  <1>4. ASSUME NEW r \in Refunder, RefundStepsOf(r) PROVE txn.at = "gone"
    BY <1>4 DEF RefundStepsOf, RefundRead, RefundCount, RefundConnect, RefundStart,
       RefundInsert,
       TaskUpdate, TaskSave, RefundPost, RefundCommit, RefundFails, RefundRollback,
       RefundDies, tableVars, rowVars
  <1>5. ASSUME UNCHANGED vars PROVE txn.at = "gone"
    BY <1>5 DEF vars, tableVars, rowVars
  <1> QED
    BY <1>1, <1>2, <1>3, <1>4, <1>5 DEF Next, Finished

\* Only the insert of a refund, which needs the transaction row, changes the
\* refund rows.
LEMMA RefundRowStep ==
  ASSUME [Next]_vars
  PROVE  \/ refund' = refund
         \/ /\ txn' = txn
            /\ txn.at # "gone"
            /\ \E r \in Refunder : refund' = [refund EXCEPT ![r] = refNumber[r]]
  <1> DEFINE Inserted == /\ txn' = txn
                         /\ txn.at # "gone"
                         /\ \E r \in Refunder : refund' = [refund EXCEPT ![r] = refNumber[r]]
  <1>1. ASSUME AddStepsOf PROVE refund' = refund
    BY <1>1 DEF AddStepsOf, AddSave, AddItem, AddSum, AddTotals, AddFails, tableVars, rowVars
  <1>2. ASSUME NEW e \in Editor, EditStepsOf(e) PROVE refund' = refund
    BY <1>2 DEF EditStepsOf, EditRead, EditLoadItem, EditReload, EditSaveItem, EditSum,
       EditTotals, EditDrop, EditHeaderReload, EditHeaderSave, EditFails, tableVars, rowVars
  <1>3. ASSUME NEW d \in Deleter, DeleteStepsOf(d) PROVE refund' = refund
    BY <1>3 DEF DeleteStepsOf, DeleteRead, DeleteMark, DeleteRemove, DeleteFails,
       tableVars, rowVars
  <1>4. ASSUME NEW r \in Refunder, RefundStepsOf(r) PROVE refund' = refund \/ Inserted
    BY <1>4 DEF RefundStepsOf, RefundRead, RefundCount, RefundConnect, RefundStart,
       RefundInsert,
       TaskUpdate, TaskSave, RefundPost, RefundCommit, RefundFails, RefundRollback,
       RefundDies, tableVars, rowVars
  <1>5. ASSUME UNCHANGED vars PROVE refund' = refund
    BY <1>5 DEF vars, tableVars, rowVars
  <1> QED
    BY <1>1, <1>2, <1>3, <1>4, <1>5 DEF Next, Finished

\* A refund row has its transaction in every reachable state: insert and
\* removal exclude one another for any number of refunds and removals.
THEOREM RefundKey == Spec => []RefundHasTransaction
  <1>1. Init => RefundHasTransaction
    BY DEF Init, TablesInit, RefundHasTransaction
  <1>2. RowInv /\ RefundHasTransaction /\ [Next]_vars => RefundHasTransaction'
    <2> SUFFICES ASSUME RowInv, RefundHasTransaction, [Next]_vars, txn'.at = "gone"
                 PROVE  RefundRows' = {}
      BY DEF RefundHasTransaction
    <2>1. RefundRows = {}
      BY GoneStep DEF RefundHasTransaction
    <2>2. CASE refund' = refund
      BY <2>1, <2>2 DEF RefundRows
    <2>3. CASE txn' = txn /\ txn.at # "gone"
      BY <2>3
    <2> QED
      BY <2>2, <2>3, RefundRowStep
  <1> QED
    BY <1>1, <1>2, InitRowInv, RowInvStep, PTL DEF Spec

\* While the transaction row is gone, no step gives a row back to it.
LEMMA OwnedStep ==
  ASSUME RowInv, [Next]_vars, txn.at = "gone", txn'.at = "gone",
         NEW i \in Item, item[i].at \in {"live", "deleted"} => ~item[i].owned,
         item'[i].at \in {"live", "deleted"}
  PROVE  ~item'[i].owned
  <1>0. /\ item \in [Item -> ItemRow]
        /\ item[i].at = "none" => ~item[i].owned
        /\ item[i] \in ItemRow
    BY DEF RowInv, RowTypeOK, ItemFacts
  <1>1. ASSUME AddStepsOf PROVE ~item'[i].owned
    BY <1>1 DEF AddStepsOf, AddSave, AddItem, AddSum, AddTotals, AddFails, tableVars, rowVars
  <1>2. ASSUME NEW e \in Editor, EditStepsOf(e) PROVE ~item'[i].owned
    <2>1. CASE EditSaveItem(e)
      <3> DEFINE k == editDto[e].transactionItemId
                 row == item[k]
                 mem == editItem[e]
                 Written(c) == IF c \in editDirty[e] THEN mem[c] ELSE row[c]
                 orphan == [mem EXCEPT !.owned = FALSE]
                 updated == [row EXCEPT
                     !.at = Written("at"), !.product = Written("product"),
                     !.quantity = Written("quantity"), !.value = Written("value"),
                     !.discount = Written("discount"), !.netPrice = Written("netPrice"),
                     !.remainingQuantity = Written("remainingQuantity"),
                     !.remainingAmount = Written("remainingAmount"),
                     !.isRefund = Written("isRefund")]
      <3>1. k \in Item /\ row \in ItemRow /\ mem \in ItemRow /\ row.at # "none"
        BY <2>1 DEF EditSaveItem, RowInv, RowTypeOK, EditFacts
      <3>2. \/ item' = [item EXCEPT ![k] = orphan]
            \/ item' = item
            \/ item' = [item EXCEPT ![k] = updated] /\ row.at # "gone"
        BY <2>1 DEF EditSaveItem
      <3>3. orphan.owned = FALSE
        BY <3>1 DEF ItemRow
      <3>4. updated.owned = row.owned
        <4> HIDE DEF Written, row
        <4> QED
          BY <3>1 DEF ItemRow
      <3>5. row.at # "gone" => row.at \in {"live", "deleted"}
        BY <3>1 DEF ItemRow, Presence
      <3> HIDE DEF orphan, updated, mem, Written, k
      <3> QED
        BY <1>0, <3>1, <3>2, <3>3, <3>4, <3>5
    <2>2. CASE EditDrop(e)
      BY <1>0, <2>2 DEF EditDrop, ItemRow
    <2>3. CASE EditHeaderSave(e)
      BY <1>0, <2>3 DEF EditHeaderSave, ItemRow, Presence
    <2> QED
      BY <1>2, <2>1, <2>2, <2>3 DEF EditStepsOf, EditRead, EditLoadItem, EditReload, EditSum,
         EditTotals, EditHeaderReload, EditFails, tableVars, rowVars
  <1>3. ASSUME NEW d \in Deleter, DeleteStepsOf(d) PROVE ~item'[i].owned
    <2>1. CASE DeleteRemove(d)
      BY <1>0, <2>1 DEF DeleteRemove, ItemRow
    <2> QED
      BY <1>3, <2>1 DEF DeleteStepsOf, DeleteRead, DeleteMark, DeleteFails, tableVars, rowVars
  <1>4. ASSUME NEW r \in Refunder, RefundStepsOf(r) PROVE ~item'[i].owned
    <2>1. ASSUME NEW l \in Line, TaskUpdate(r, l) PROVE ~item'[i].owned
      <3> DEFINE line == lines[r][l]
                 left == LeftOf(line)
                 rest == (line.remainingAmount \div line.remainingQuantity) * left
      <3>1. \/ item'[i] = item[i]
            \/ item'[i] = [item[i] EXCEPT !.remainingQuantity = left,
                             !.remainingAmount = rest, !.isRefund = (left = 0)]
        BY <2>1 DEF TaskUpdate
      <3> HIDE DEF left, rest
      <3> QED
        BY <1>0, <3>1 DEF ItemRow
    <2> QED
      BY <1>4, <2>1 DEF RefundStepsOf, RefundRead, RefundCount, RefundConnect,
         RefundStart, RefundInsert,
         TaskSave, RefundPost, RefundCommit, RefundFails, RefundRollback,
         RefundDies, tableVars, rowVars
  <1>5. ASSUME UNCHANGED vars PROVE ~item'[i].owned
    BY <1>5 DEF vars, tableVars, rowVars
  <1> QED
    BY <1>1, <1>2, <1>3, <1>4, <1>5 DEF Next, Finished

\* A removed sale leaves no item row that refers to it: the cascade of the
\* removal and the saves of stale items never leave a reference behind.
THEOREM ItemKey == Spec => []ItemsHaveTransaction
  <1>1. Init => ItemsHaveTransaction
    BY DEF Init, TablesInit, ItemsHaveTransaction
  <1>2. RowInv /\ ItemsHaveTransaction /\ [Next]_vars => ItemsHaveTransaction'
    <2> SUFFICES ASSUME RowInv, ItemsHaveTransaction, [Next]_vars, txn'.at = "gone",
                        NEW i \in Item, item'[i].at \in {"live", "deleted"}
                 PROVE  ~item'[i].owned
      BY DEF ItemsHaveTransaction
    <2>1. CASE txn.at = "gone"
      BY <2>1, OwnedStep DEF ItemsHaveTransaction
    <2>2. ASSUME NEW d \in Deleter, DeleteRemove(d), RefundRows = {} PROVE ~item'[i].owned
      <3>1. item[i] \in ItemRow
        BY DEF RowInv, RowTypeOK
      <3> QED
        BY <2>2, <3>1 DEF DeleteRemove, ItemRow
    <2> QED
      BY <2>1, <2>2, GoneStep
  <1> QED
    BY <1>1, <1>2, InitRowInv, RowInvStep, PTL DEF Spec

-----------------------------------------------------------------------------
(* One request at a time (MaxOpen = 1).                                    *)

\* A request begins in its turn; every other step of it is its being under
\* way, and neither has anything else under way that was not before.
LEMMA EditOpen ==
  ASSUME RowInv, NEW e \in Editor, EditStepsOf(e), UNCHANGED refundVars
  PROVE  /\ Open' \subseteq Open \cup {<<"edit", e>>}
         /\ addStep' = addStep
         /\ (EditRead(e) /\ Turn) \/ EditBusy(e)
  <1>1. \A f \in Editor : f # e => editStep'[f] = editStep[f]
    BY DEF RowInv, RowTypeOK, EditStepsOf, EditRead, EditLoadItem, EditReload, EditSaveItem,
       EditSum, EditTotals, EditDrop, EditHeaderReload, EditHeaderSave, EditFails
  <1>2. delStep' = delStep /\ addStep' = addStep
    BY DEF EditStepsOf, EditRead, EditLoadItem, EditReload, EditSaveItem,
       EditSum, EditTotals, EditDrop, EditHeaderReload, EditHeaderSave, EditFails, addVars
  <1>3. (EditRead(e) /\ Turn) \/ EditBusy(e)
    BY DEF EditStepsOf, EditRead, EditLoadItem, EditReload, EditSaveItem, EditBusy,
       EditSum, EditTotals, EditDrop, EditHeaderReload, EditHeaderSave, EditFails
  <1>4. \A x \in Open' : x \in Open \cup {<<"edit", e>>}
    BY <1>1, <1>2 DEF Open, EditBusy, DeleteBusy, RefundBusy, Pending, refundVars
  <1> QED
    BY <1>2, <1>3, <1>4

LEMMA DeleteOpen ==
  ASSUME RowInv, NEW d \in Deleter, DeleteStepsOf(d), UNCHANGED refundVars
  PROVE  /\ Open' \subseteq Open \cup {<<"delete", d>>}
         /\ addStep' = addStep
         /\ (DeleteRead(d) /\ Turn) \/ DeleteBusy(d)
  <1>1. \A c \in Deleter : c # d => delStep'[c] = delStep[c]
    BY DEF RowInv, RowTypeOK, DeleteStepsOf, DeleteRead, DeleteMark, DeleteRemove, DeleteFails
  <1>2. editStep' = editStep /\ addStep' = addStep
    BY DEF DeleteStepsOf, DeleteRead, DeleteMark, DeleteRemove, DeleteFails, addVars, editVars
  <1>3. (DeleteRead(d) /\ Turn) \/ DeleteBusy(d)
    BY DEF DeleteStepsOf, DeleteRead, DeleteMark, DeleteRemove, DeleteFails, DeleteBusy
  <1>4. \A x \in Open' : x \in Open \cup {<<"delete", d>>}
    BY <1>1, <1>2 DEF Open, EditBusy, DeleteBusy, RefundBusy, Pending, refundVars
  <1> QED
    BY <1>2, <1>3, <1>4

LEMMA RefundOpen ==
  ASSUME RowInv, NEW r \in Refunder, RefundStepsOf(r), UNCHANGED serviceVars
  PROVE  /\ Open' \subseteq Open \cup {<<"refund", r>>}
         /\ addStep' = addStep
         /\ (RefundRead(r) /\ Turn) \/ RefundBusy(r)
  <1>1. \A s \in Refunder : s # r => refStep'[s] = refStep[s] /\ task'[s] = task[s]
    BY DEF RowInv, RowTypeOK, RefundStepsOf, RefundRead, RefundCount, RefundConnect,
       RefundStart,
       RefundInsert, TaskUpdate, TaskSave, RefundPost, RefundCommit, RefundFails,
       RefundRollback, RefundDies
  <1>2. editStep' = editStep /\ addStep' = addStep /\ delStep' = delStep
    BY DEF serviceVars, addVars, editVars
  <1>3. (RefundRead(r) /\ Turn) \/ RefundBusy(r)
    BY DEF RefundStepsOf, RefundRead, RefundCount, RefundConnect, RefundStart,
       RefundBusy, Pending,
       RefundInsert, TaskUpdate, TaskSave, RefundPost, RefundCommit, RefundFails,
       RefundRollback, RefundDies
  <1>4. \A x \in Open' : x \in Open \cup {<<"refund", r>>}
    BY <1>1, <1>2 DEF Open, EditBusy, DeleteBusy, RefundBusy, Pending
  <1> QED
    BY <1>2, <1>3, <1>4

\* With nothing else under way and POST /transaction ended, a request begins.
LEMMA TurnAlone ==
  ASSUME MaxOpen = 1, SerialInv, Turn
  PROVE  Open = {} /\ addStep \in {"ok", "error"}
  <1>1. Open = {} \/ \E x : Open = {x}
    BY DEF SerialInv
  <1>2. IsFiniteSet(Open)
    BY <1>1, FS_EmptySet, FS_Singleton
  <1>3. Cardinality(Open) < 1 /\ Cardinality(Open) \in Nat
    BY <1>2, FS_CardinalityType DEF Turn
  <1>4. Open = {}
    BY <1>2, <1>3, FS_EmptySet
  <1> QED
    BY <1>4 DEF Turn

LEMMA InitSerial == Init => SerialInv
  BY DEF Init, ServiceInit, RefundInit, SerialInv, Open, EditBusy, DeleteBusy, RefundBusy,
     Pending

LEMMA SerialStep == MaxOpen = 1 /\ RowInv /\ SerialInv /\ [Next]_vars => SerialInv'
  <1> SUFFICES ASSUME MaxOpen = 1, RowInv, SerialInv, [Next]_vars PROVE SerialInv'
    OBVIOUS
  <1>1. ASSUME AddStepsOf, UNCHANGED refundVars PROVE SerialInv'
    <2>1. addStep \notin {"ok", "error"}
      BY <1>1 DEF AddStepsOf, AddSave, AddItem, AddSum, AddTotals, AddFails
    <2>2. Open = {}
      BY <2>1 DEF SerialInv
    <2>3. editStep' = editStep /\ delStep' = delStep
      BY <1>1 DEF AddStepsOf, AddSave, AddItem, AddSum, AddTotals, AddFails, editVars
    <2>4. Open' = Open
      BY <1>1, <2>3 DEF Open, EditBusy, DeleteBusy, RefundBusy, Pending, refundVars
    <2> QED
      BY <2>2, <2>4 DEF SerialInv
  <1>2. ASSUME NEW x, Open' \subseteq Open \cup {x}, addStep' = addStep, Turn \/ x \in Open
        PROVE  SerialInv'
    <2>1. CASE Turn
      BY <1>2, <2>1, TurnAlone DEF SerialInv
    <2>2. CASE x \in Open
      BY <1>2, <2>2 DEF SerialInv
    <2> QED
      BY <1>2, <2>1, <2>2
  <1>3. ASSUME NEW e \in Editor, EditStepsOf(e), UNCHANGED refundVars PROVE SerialInv'
    <2>1. EditBusy(e) => <<"edit", e>> \in Open
      BY DEF Open
    <2> QED
      BY <1>2, <1>3, <2>1, EditOpen
  <1>4. ASSUME NEW d \in Deleter, DeleteStepsOf(d), UNCHANGED refundVars PROVE SerialInv'
    <2>1. DeleteBusy(d) => <<"delete", d>> \in Open
      BY DEF Open
    <2> QED
      BY <1>2, <1>4, <2>1, DeleteOpen
  <1>5. ASSUME NEW r \in Refunder, RefundStepsOf(r), UNCHANGED serviceVars PROVE SerialInv'
    <2>1. RefundBusy(r) => <<"refund", r>> \in Open
      BY DEF Open
    <2> QED
      BY <1>2, <1>5, <2>1, RefundOpen
  <1>6. ASSUME UNCHANGED vars PROVE SerialInv'
    BY <1>6 DEF SerialInv, Open, EditBusy, DeleteBusy, RefundBusy, Pending, vars,
       serviceVars, addVars, editVars, refundVars
  <1> QED
    BY <1>1, <1>3, <1>4, <1>5, <1>6 DEF Next, Finished

LEMMA InitNumber == Init => NumberInv
  BY DEF Init, TablesInit, RefundInit, NumberInv, RefundNumbersDistinct, RefundRows

\* A step that leaves the refund rows alone and begins no insert keeps what
\* is known of the numbers.
LEMMA NumberKept ==
  ASSUME NumberInv, refund' = refund,
         \A r \in Refunder :
           /\ refStep'[r] \in {"idle", "count", "connect", "start", "insert"} =>
                refStep[r] \in {"idle", "count", "connect", "start", "insert"}
           /\ refStep'[r] \in {"connect", "start", "insert"} =>
                /\ refStep[r] \in {"connect", "start", "insert"}
                /\ refNumber'[r] = refNumber[r]
  PROVE  NumberInv'
  BY DEF NumberInv, RefundNumbersDistinct, RefundRows

LEMMA NumberStep == RowInv /\ SerialInv /\ NumberInv /\ [Next]_vars => NumberInv'
  <1> SUFFICES ASSUME RowInv, SerialInv, NumberInv, [Next]_vars PROVE NumberInv'
    OBVIOUS
  <1>0. /\ IsFiniteSet(RefundRows)
        /\ Cardinality(RefundRows) \in Nat
        /\ \A r \in Refunder : refund[r] \in Nat
        /\ refund \in [Refunder -> Nat]
        /\ refNumber \in [Refunder -> Nat]
        /\ refStep \in [Refunder -> RefundSteps]
    BY RefunderAssumption, FS_Subset, FS_CardinalityType DEF RefundRows, RowInv, RowTypeOK
  <1>1. ASSUME UNCHANGED <<refund, refundVars>> PROVE NumberInv'
    BY <1>1, NumberKept DEF refundVars
  <1>2. ASSUME AddStepsOf, UNCHANGED refundVars PROVE NumberInv'
    BY <1>1, <1>2 DEF AddStepsOf, AddSave, AddItem, AddSum, AddTotals, AddFails,
       tableVars, rowVars
  <1>3. ASSUME NEW e \in Editor, EditStepsOf(e), UNCHANGED refundVars PROVE NumberInv'
    BY <1>1, <1>3 DEF EditStepsOf, EditRead, EditLoadItem, EditReload, EditSaveItem, EditSum,
       EditTotals, EditDrop, EditHeaderReload, EditHeaderSave, EditFails, tableVars, rowVars
  <1>4. ASSUME NEW d \in Deleter, DeleteStepsOf(d), UNCHANGED refundVars PROVE NumberInv'
    BY <1>1, <1>4 DEF DeleteStepsOf, DeleteRead, DeleteMark, DeleteRemove, DeleteFails,
       tableVars, rowVars
  <1>5. ASSUME NEW r \in Refunder, RefundStepsOf(r) PROVE NumberInv'
    <2>1. CASE RefundCount(r)
      <3>1. /\ refund' = refund
            /\ refNumber' = [refNumber EXCEPT ![r] = Cardinality(RefundRows) + 1]
            /\ refStep' = [refStep EXCEPT ![r] = "connect"]
            /\ refStep[r] = "count"
        BY <2>1 DEF RefundCount, FindQuantityRefundToday, tableVars, rowVars
      <3> QED
        BY <1>0, <3>1 DEF NumberInv, RefundNumbersDistinct, RefundRows
    <2>2. CASE RefundInsert(r)
      <3> DEFINE n == Cardinality(RefundRows)
      <3>1. /\ refund' = [refund EXCEPT ![r] = n + 1]
            /\ refund[r] = 0
            /\ refStep' = [refStep EXCEPT ![r] = "post"]
            /\ refNumber' = refNumber
        BY <2>2 DEF RefundInsert, NumberInv
      <3>2. n \in Nat /\ \A s \in RefundRows : refund[s] <= n
        BY <1>0 DEF NumberInv
      <3> HIDE DEF n
      <3>3. /\ RefundRows' = RefundRows \cup {r}
            /\ r \notin RefundRows
        BY <1>0, <3>1, <3>2 DEF RefundRows
      <3>4. Cardinality(RefundRows') = n + 1
        BY <1>0, <3>3, FS_AddElement DEF n
      <3>5. \A s \in Refunder : s # r => refStep[s] \notin {"connect", "start", "insert"}
        <4>1. <<"refund", r>> \in Open
          BY <2>2 DEF Open, RefundBusy, RefundInsert
        <4>2. ASSUME NEW s \in Refunder, refStep[s] \in {"connect", "start", "insert"} PROVE s = r
          <5>1. <<"refund", s>> \in Open
            BY <4>2 DEF Open, RefundBusy
          <5> QED
            BY <4>1, <5>1 DEF SerialInv
        <4> QED
          BY <4>2
      <3>6. RefundNumbersDistinct'
        <4> SUFFICES ASSUME NEW p \in RefundRows', NEW q \in RefundRows', p # q
                     PROVE  refund'[p] # refund'[q]
          BY DEF RefundNumbersDistinct
        <4>1. /\ p \in RefundRows /\ q \in RefundRows => refund[p] # refund[q]
              /\ p \in Refunder /\ q \in Refunder
          BY <3>3 DEF NumberInv, RefundNumbersDistinct, RefundRows
        <4> QED
          BY <1>0, <3>1, <3>2, <3>3, <4>1
      <3>7. \A s \in RefundRows' : refund'[s] <= Cardinality(RefundRows')
        <4> SUFFICES ASSUME NEW s \in RefundRows' PROVE refund'[s] <= n + 1
          BY <3>4
        <4>1. s \in Refunder
          BY DEF RefundRows
        <4> QED
          BY <1>0, <3>1, <3>2, <3>3, <4>1
      <3> QED
        BY <1>0, <3>1, <3>5, <3>6, <3>7 DEF NumberInv
    <2>3. CASE RefundRead(r)
      <3>1. /\ refStep[r] = "idle"
            /\ \E s \in {"count", "error"} : refStep' = [refStep EXCEPT ![r] = s]
            /\ UNCHANGED <<refund, refNumber>>
        BY <2>3 DEF RefundRead, tableVars, rowVars
      <3> QED
        BY <1>0, <3>1, NumberKept
    <2>4. CASE RefundConnect(r) \/ RefundStart(r)
      BY <1>0, <2>4, NumberKept DEF RefundConnect, RefundStart, rowVars
    <2>5. CASE RefundPost(r) \/ RefundCommit(r) \/ RefundRollback(r)
      BY <1>0, <2>5, NumberKept DEF RefundPost, RefundCommit, RefundRollback, rowVars
    <2>6. CASE RefundFails(r) \/ RefundDies(r)
      BY <1>0, <2>6, NumberKept DEF RefundFails, RefundDies, rowVars
    <2>7. ASSUME NEW l \in Line, TaskUpdate(r, l) \/ TaskSave(r, l) PROVE NumberInv'
      BY <2>7, NumberKept DEF TaskUpdate, TaskSave, tableVars, rowVars
    <2> QED
      BY <1>5, <2>1, <2>2, <2>3, <2>4, <2>5, <2>6, <2>7 DEF RefundStepsOf
  <1>6. ASSUME UNCHANGED vars PROVE NumberInv'
    BY <1>1, <1>6 DEF vars, tableVars, rowVars
  <1> QED
    BY <1>2, <1>3, <1>4, <1>5, <1>6 DEF Next, Finished

\* When requests do not overlap no two refund rows have one number, however
\* many refunds are made, refused, rolled back or cut short on the way.
THEOREM NumbersDistinct ==
  ASSUME MaxOpen = 1
  PROVE  Spec => []RefundNumbersDistinct
  <1>1. RowInv /\ SerialInv /\ [Next]_vars => SerialInv'
    BY SerialStep
  <1>2. NumberInv => RefundNumbersDistinct
    BY DEF NumberInv
  <1> QED
    BY <1>1, <1>2, InitRowInv, InitSerial, InitNumber, RowInvStep, NumberStep, PTL DEF Spec

-----------------------------------------------------------------------------
(* Prices, with one request at a time.                                     *)

\* A line is priced when it is sold and when it is amended.
LEMMA NewItemPriced ==
  ASSUME NEW cart \in Cart, NEW i \in DOMAIN cart, NEW price \in PriceOf[cart[i].product]
  PROVE  Priced(NewItem(cart[i], price))
  BY DEF Priced, NewItem

LEMMA AmendedPriced ==
  ASSUME NEW row \in ItemRow, Priced(row), NEW dto \in EditDto,
         NEW price \in PriceOf[IF dto.product = Null THEN row.product ELSE dto.product]
  PROVE  Priced(Amended(row, dto, price))
  <1> DEFINE product == IF dto.product = Null THEN row.product ELSE dto.product
             quantity == IF dto.quantity = Null THEN row.quantity ELSE dto.quantity
             flagged == IF dto.isRefund = Null THEN row
                        ELSE [row EXCEPT !.isRefund = dto.isRefund]
             value == price * quantity
             net == value - row.discount
             amended == [flagged EXCEPT !.product = product, !.quantity = quantity,
                                        !.value = value, !.netPrice = net]
  <1>1. /\ flagged.product = row.product
        /\ flagged.quantity = row.quantity
        /\ flagged.value = row.value
        /\ flagged.netPrice = row.netPrice
        /\ flagged.discount = row.discount
        /\ {"product", "quantity", "value", "netPrice", "discount"} \subseteq DOMAIN flagged
    BY DEF ItemRow
  <1>2. CASE dto.product = Null /\ dto.quantity = Null
    <2>1. Amended(row, dto, price) = flagged
      BY <1>2 DEF Amended
    <2> QED
      BY <1>1, <2>1 DEF Priced
  <1>3. CASE ~(dto.product = Null /\ dto.quantity = Null)
    <2>1. Amended(row, dto, price) = amended
      BY <1>3 DEF Amended
    <2>2. price \in PriceOf[product]
      OBVIOUS
    <2>3. value = price * quantity /\ net = value - row.discount
      OBVIOUS
    <2> HIDE DEF product, quantity, flagged, value, net
    <2>4. /\ amended.product = product
          /\ amended.quantity = quantity
          /\ amended.value = value
          /\ amended.netPrice = net
          /\ amended.discount = row.discount
      BY <1>1
    <2> HIDE DEF amended
    <2> QED
      BY <2>1, <2>2, <2>3, <2>4 DEF Priced
  <1> QED
    BY <1>2, <1>3

\* Whether a row is priced lies in five of its columns.
LEMMA PricedSame ==
  ASSUME NEW row, NEW copy, Priced(row),
         /\ copy.product = row.product
         /\ copy.quantity = row.quantity
         /\ copy.value = row.value
         /\ copy.netPrice = row.netPrice
         /\ copy.discount = row.discount
  PROVE  Priced(copy)
  BY DEF Priced

\* Lines are priced in the item rows.
RowsPriced == \A i \in Item : item[i].at \in {"live", "deleted"} => Priced(item[i])

\* The steps that write item rows.
ItemWrites ==
    \/ \E i \in Item : AddItem(i)
    \/ \E e \in Editor : EditSaveItem(e) \/ EditDrop(e) \/ EditHeaderSave(e)
    \/ \E d \in Deleter : DeleteRemove(d)
    \/ \E r \in Refunder, l \in Line : TaskUpdate(r, l)

LEMMA ItemWritesOnly ==
  ASSUME [Next]_vars
  PROVE  item' = item \/ ItemWrites
  <1>1. ASSUME AddStepsOf PROVE item' = item \/ ItemWrites
    BY <1>1 DEF AddStepsOf, AddSave, AddSum, AddTotals, AddFails, tableVars, rowVars, ItemWrites
  <1>2. ASSUME NEW e \in Editor, EditStepsOf(e) PROVE item' = item \/ ItemWrites
    BY <1>2 DEF EditStepsOf, EditRead, EditLoadItem, EditReload, EditSum,
       EditTotals, EditHeaderReload, EditFails, tableVars, rowVars, ItemWrites
  <1>3. ASSUME NEW d \in Deleter, DeleteStepsOf(d) PROVE item' = item \/ ItemWrites
    BY <1>3 DEF DeleteStepsOf, DeleteRead, DeleteMark, DeleteFails, tableVars, rowVars,
       ItemWrites
  <1>4. ASSUME NEW r \in Refunder, RefundStepsOf(r) PROVE item' = item \/ ItemWrites
    BY <1>4 DEF RefundStepsOf, RefundRead, RefundCount, RefundConnect, RefundStart,
       RefundInsert,
       TaskSave, RefundPost, RefundCommit, RefundFails, RefundRollback,
       RefundDies, tableVars, rowVars, ItemWrites
  <1>5. ASSUME UNCHANGED vars PROVE item' = item
    BY <1>5 DEF vars, tableVars, rowVars
  <1> QED
    BY <1>1, <1>2, <1>3, <1>4, <1>5 DEF Next, Finished

\* An edit that is alone saves the very row it holds.
LEMMA SavedPriced ==
  ASSUME RowInv, PriceInv, NEW e \in Editor, EditSaveItem(e)
  PROVE  RowsPriced'
  <1> DEFINE i == editDto[e].transactionItemId
             row == item[i]
             mem == editItem[e]
             Written(c) == IF c \in editDirty[e] THEN mem[c] ELSE row[c]
             updated == [row EXCEPT
                 !.at = Written("at"), !.product = Written("product"),
                 !.quantity = Written("quantity"), !.value = Written("value"),
                 !.discount = Written("discount"), !.netPrice = Written("netPrice"),
                 !.remainingQuantity = Written("remainingQuantity"),
                 !.remainingAmount = Written("remainingAmount"),
                 !.isRefund = Written("isRefund")]
  <1>1. /\ i \in Item /\ row \in ItemRow /\ mem \in ItemRow
        /\ editStep[e] = "save"
        /\ item \in [Item -> ItemRow]
    BY DEF EditSaveItem, RowInv, RowTypeOK, EditFacts
  <1>2. /\ Priced(mem)
        /\ row.at = "live"
        /\ editDirty[e] = {c \in ItemColumn : mem[c] # row[c]}
    BY <1>1 DEF PriceInv
  <1>3. "insert" \notin editDirty[e]
    BY <1>2 DEF ItemColumn
  <1>4. item' = [item EXCEPT ![i] = updated]
    BY <1>2, <1>3 DEF EditSaveItem
  <1>5. /\ Written("product") = mem.product
        /\ Written("quantity") = mem.quantity
        /\ Written("value") = mem.value
        /\ Written("discount") = mem.discount
        /\ Written("netPrice") = mem.netPrice
    BY <1>2 DEF ItemColumn
  <1>6. /\ updated.product = mem.product
        /\ updated.quantity = mem.quantity
        /\ updated.value = mem.value
        /\ updated.discount = mem.discount
        /\ updated.netPrice = mem.netPrice
    <2> HIDE DEF Written, row, mem
    <2> QED
      BY <1>1, <1>5 DEF ItemRow
  <1> HIDE DEF updated, mem
  <1>7. Priced(updated)
    BY <1>2, <1>6, PricedSame
  <1>8. \A j \in Item : item'[j] = IF j = i THEN updated ELSE item[j]
    BY <1>1, <1>4
  <1>9. \A j \in Item : item[j].at \in {"live", "deleted"} => Priced(item[j])
    BY DEF PriceInv
  <1> HIDE DEF i
  <1>10. \A j \in Item : item'[j].at \in {"live", "deleted"} => Priced(item'[j])
    BY <1>7, <1>8, <1>9
  <1> QED
    BY <1>10 DEF RowsPriced, Priced

LEMMA RowsPricedStep ==
  ASSUME RowInv, PriceInv, [Next]_vars
  PROVE  RowsPriced'
  <1>0. /\ item \in [Item -> ItemRow]
        /\ \A i \in Item : item[i] \in ItemRow
        /\ RowsPriced
    BY DEF RowInv, RowTypeOK, PriceInv, RowsPriced
  <1>1. ASSUME \A i \in Item :
                 /\ item'[i].at \in {"live", "deleted"} => item[i].at \in {"live", "deleted"}
                 /\ item'[i].product = item[i].product
                 /\ item'[i].quantity = item[i].quantity
                 /\ item'[i].value = item[i].value
                 /\ item'[i].netPrice = item[i].netPrice
                 /\ item'[i].discount = item[i].discount
        PROVE  RowsPriced'
    BY <1>0, <1>1 DEF RowsPriced, Priced
  <1>2. CASE item' = item
    BY <1>0, <1>2 DEF RowsPriced, Priced
  <1>3. ASSUME NEW i \in Item, AddItem(i) PROVE RowsPriced'
    <2>1. addCart \in Cart /\ i \in DOMAIN addCart
      BY <1>3 DEF AddItem, RowInv, AddFacts
    <2>2. PICK price \in PriceOf[addCart[i].product] :
             item' = [item EXCEPT ![i] = NewItem(addCart[i], price)]
      BY <1>3 DEF AddItem
    <2>3. Priced(NewItem(addCart[i], price))
      BY <2>1, NewItemPriced
    <2> QED
      BY <1>0, <2>2, <2>3 DEF RowsPriced, Priced
  <1>4. ASSUME NEW e \in Editor, EditDrop(e) PROVE RowsPriced'
    <2>1. \A i \in Item : item'[i] = item[i] \/
                          (item[i].at = "live" /\ item'[i] = [item[i] EXCEPT !.at = "deleted"])
      BY <1>4 DEF EditDrop
    <2> QED
      BY <1>0, <1>1, <2>1 DEF ItemRow
  <1>5. ASSUME NEW e \in Editor, EditHeaderSave(e) PROVE RowsPriced'
    <2>1. \A i \in Item : \/ item'[i] = item[i]
                          \/ item'[i] = [item[i] EXCEPT !.owned = FALSE]
                          \/ item'[i] = [item[i] EXCEPT !.owned = (item[i].at # "gone")]
      BY <1>5 DEF EditHeaderSave
    <2> QED
      BY <1>0, <1>1, <2>1 DEF ItemRow
  <1>6. ASSUME NEW d \in Deleter, DeleteRemove(d) PROVE RowsPriced'
    <2>1. item' = item \/ \A i \in Item : \/ item'[i] = item[i]
                                          \/ item'[i] = [item[i] EXCEPT !.at = "gone"]
      BY <1>6 DEF DeleteRemove
    <2> QED
      BY <1>0, <1>1, <2>1 DEF ItemRow
  <1>7. ASSUME NEW r \in Refunder, NEW l \in Line, TaskUpdate(r, l) PROVE RowsPriced'
    <2> DEFINE line == lines[r][l]
               left == LeftOf(line)
               rest == (line.remainingAmount \div line.remainingQuantity) * left
    <2>1. \A i \in Item :
            \/ item'[i] = item[i]
            \/ item'[i] = [item[i] EXCEPT !.remainingQuantity = left,
                             !.remainingAmount = rest, !.isRefund = (left = 0)]
      BY <1>7 DEF TaskUpdate
    <2> HIDE DEF left, rest
    <2>2. ASSUME NEW i \in Item
          PROVE  /\ item'[i].at \in {"live", "deleted"} => item[i].at \in {"live", "deleted"}
                 /\ item'[i].product = item[i].product
                 /\ item'[i].quantity = item[i].quantity
                 /\ item'[i].value = item[i].value
                 /\ item'[i].netPrice = item[i].netPrice
                 /\ item'[i].discount = item[i].discount
      <3>1. item[i] \in ItemRow
        BY <1>0
      <3> QED
        BY <2>1, <3>1 DEF ItemRow
    <2> QED
      BY <1>1, <2>2
  <1> QED
    BY <1>2, <1>3, <1>4, <1>5, <1>6, <1>7, SavedPriced, ItemWritesOnly DEF ItemWrites

\* While a request that is alone holds a line in memory no other step writes
\* item rows.
LEMMA HeldAlone ==
  ASSUME RowInv, SerialInv, [Next]_vars, NEW e \in Editor,
         editStep[e] \in {"reload", "save"}, editStep'[e] \in {"reload", "save"}
  PROVE  item' = item
  <1>1. <<"edit", e>> \in Open
    BY DEF Open, EditBusy
  <1>2. \A x \in Open : x = <<"edit", e>>
    BY <1>1 DEF SerialInv
  <1>3. ~\E i \in Item : AddItem(i)
    BY <1>1 DEF SerialInv, AddItem
  <1>4. ASSUME NEW f \in Editor, EditSaveItem(f) \/ EditDrop(f) \/ EditHeaderSave(f)
        PROVE  FALSE
    <2>1. <<"edit", f>> \in Open
      BY <1>4 DEF Open, EditBusy, EditSaveItem, EditDrop, EditHeaderSave
    <2>2. f = e
      BY <1>2, <2>1
    <2> QED
      BY <1>4, <2>2 DEF EditSaveItem, EditDrop, EditHeaderSave, RowInv, RowTypeOK
  <1>5. ASSUME NEW d \in Deleter, DeleteRemove(d) PROVE FALSE
    <2>1. <<"delete", d>> \in Open
      BY <1>5 DEF Open, DeleteBusy, DeleteRemove
    <2> QED
      BY <1>2, <2>1
  <1>6. ASSUME NEW r \in Refunder, NEW l \in Line, TaskUpdate(r, l) PROVE FALSE
    <2>1. <<"refund", r>> \in Open
      BY <1>6 DEF Open, RefundBusy, Pending, TaskUpdate
    <2> QED
      BY <1>2, <2>1
  <1> QED
    BY <1>3, <1>4, <1>5, <1>6, ItemWritesOnly DEF ItemWrites

\* What an edit holds between its load and its save changes with its step.
LEMMA HeldSame ==
  ASSUME RowInv, [Next]_vars, NEW e \in Editor,
         editStep[e] \in {"reload", "save"}, editStep'[e] \in {"reload", "save"}
  PROVE  \/ EditReload(e)
         \/ UNCHANGED <<editStep[e], editDto[e], editDirty[e]>>
  <1> DEFINE Same == UNCHANGED <<editStep[e], editDto[e], editDirty[e]>>
  <1> USE DEF RowInv, RowTypeOK
  <1>1. ASSUME AddStepsOf PROVE Same
    BY <1>1 DEF AddStepsOf, AddSave, AddItem, AddSum, AddTotals, AddFails, editVars
  <1>2. ASSUME NEW f \in Editor, EditStepsOf(f) PROVE Same \/ EditReload(e)
    BY <1>2 DEF EditStepsOf, EditRead, EditLoadItem, EditReload, EditSaveItem, EditSum,
       EditTotals, EditDrop, EditHeaderReload, EditHeaderSave, EditFails
  <1>3. ASSUME NEW d \in Deleter, DeleteStepsOf(d) PROVE Same
    BY <1>3 DEF DeleteStepsOf, DeleteRead, DeleteMark, DeleteRemove, DeleteFails, editVars
  <1>4. ASSUME UNCHANGED serviceVars PROVE Same
    BY <1>4 DEF serviceVars, editVars
  <1>5. ASSUME UNCHANGED vars PROVE Same
    BY <1>5 DEF vars, serviceVars, editVars
  <1> QED
    BY <1>1, <1>2, <1>3, <1>4, <1>5 DEF Next, Finished

\* What an edit holds is a priced copy of a live row.
HoldsPriced(e) ==
    LET row == item[editDto[e].transactionItemId]
    IN  /\ Priced(editItem[e])
        /\ row.at = "live"
        /\ editStep[e] = "save" =>
             editDirty[e] = {c \in ItemColumn : editItem[e][c] # row[c]}

LEMMA HoldsStep ==
  ASSUME RowInv, SerialInv, PriceInv, [Next]_vars, NEW e \in Editor,
         editStep'[e] \in {"reload", "save"}
  PROVE  HoldsPriced(e)'
  <1>1. CASE EditLoadItem(e)
    <2> DEFINE i == editDto[e].transactionItemId
               p == IF editDto[e].product = Null THEN item[i].product
                    ELSE editDto[e].product
    <2>1. /\ i \in Item /\ editDto[e] \in EditDto
          /\ item[i] \in ItemRow
          /\ editItem \in [Editor -> ItemRow]
          /\ editStep \in [Editor -> EditSteps]
      BY <1>1 DEF EditLoadItem, RowInv, RowTypeOK, EditFacts
    <2>2. item[i].at = "live" /\ editStep'[e] = "reload"
      BY <1>1, <2>1 DEF EditLoadItem
    <2>3. PICK price \in PriceOf[p] :
            editItem' = [editItem EXCEPT ![e] = Amended(item[i], editDto[e], price)]
      BY <1>1, <2>2 DEF EditLoadItem
    <2>4. Priced(item[i])
      BY <2>1, <2>2 DEF PriceInv
    <2>5. Priced(Amended(item[i], editDto[e], price))
      BY <2>1, <2>4, AmendedPriced
    <2>6. editItem'[e] = Amended(item[i], editDto[e], price)
      BY <2>1, <2>3
    <2>7. item' = item /\ editDto' = editDto
      BY <1>1 DEF EditLoadItem, tableVars, rowVars
    <2> QED
      BY <2>2, <2>5, <2>6, <2>7 DEF HoldsPriced, Priced
  <1>2. CASE editStep[e] \in {"reload", "save"} /\ editItem'[e] = editItem[e]
    <2>1. HoldsPriced(e)
      BY <1>2 DEF PriceInv, HoldsPriced
    <2>2. item' = item
      BY <1>2, HeldAlone
    <2>3. CASE EditReload(e)
      <3> DEFINE row == item[editDto[e].transactionItemId]
      <3>1. /\ editDto' = editDto
            /\ editDirty' = [editDirty EXCEPT ![e] =
                 IF row.at = "gone" THEN {"insert"}
                 ELSE {c \in ItemColumn : editItem[e][c] # row[c]}]
        BY <2>3 DEF EditReload
      <3>2. row.at = "live"
        BY <2>1 DEF HoldsPriced
      <3>3. editDirty \in [Editor -> SUBSET (ItemColumn \cup
                              {"insert", "status", "totalValue", "refund"})]
        BY DEF RowInv, RowTypeOK
      <3>4. editDirty'[e] = {c \in ItemColumn : editItem[e][c] # row[c]}
        BY <3>1, <3>2, <3>3
      <3> QED
        BY <1>2, <2>1, <2>2, <3>1, <3>4 DEF HoldsPriced, Priced
    <2>4. CASE UNCHANGED <<editStep[e], editDto[e], editDirty[e]>>
      BY <1>2, <2>1, <2>2, <2>4 DEF HoldsPriced, Priced
    <2> QED
      BY <1>2, <2>3, <2>4, HeldSame
  <1> QED
    BY <1>1, <1>2, EditItemStep

LEMMA InitPrice == Init => PriceInv
  BY DEF Init, TablesInit, ServiceInit, PriceInv, NoItem

LEMMA PriceStep == RowInv /\ SerialInv /\ PriceInv /\ [Next]_vars => PriceInv'
  <1> SUFFICES ASSUME RowInv, SerialInv, PriceInv, [Next]_vars PROVE PriceInv'
    OBVIOUS
  <1>1. RowsPriced'
    BY RowsPricedStep
  <1>2. \A e \in Editor : editStep'[e] \in {"reload", "save"} => HoldsPriced(e)'
    BY HoldsStep
  <1> QED
    BY <1>1, <1>2 DEF PriceInv, RowsPriced, HoldsPriced

\* When requests do not overlap every line keeps the price of its product
\* times its quantity, whatever is edited, refunded or fails half-way.
THEOREM LinesPriced ==
  ASSUME MaxOpen = 1
  PROVE  Spec => []LinePriced
  <1>1. RowInv /\ SerialInv /\ [Next]_vars => SerialInv'
    BY SerialStep
  <1>2. PriceInv => LinePriced
    BY DEF PriceInv, LinePriced, LiveItems
  <1> QED
    BY <1>1, <1>2, InitRowInv, InitSerial, InitPrice, RowInvStep, PriceStep, PTL DEF Spec

-----------------------------------------------------------------------------
(* Amounts.                                                                *)

\* The sum over lines that are there is an amount.
LEMMA DetailInt ==
  ASSUME RowInv, LiveItems # {}
  PROVE  SumTransactionItemDetail \in Int
  <1> DEFINE net == [i \in Item |-> item[i].netPrice]
  <1>1. \A i \in LiveItems : net[i] \in Int
    BY DEF LiveItems, RowInv, RowTypeOK, ItemRow
  <1>2. IsFiniteSet(LiveItems)
    BY ItemAssumption, FS_Subset DEF LiveItems
  <1> HIDE DEF net
  <1>3. SumFunctionOnSet(net, LiveItems) \in Int
    BY <1>1, <1>2, SumType
  <1> QED
    BY <1>3 DEF SumTransactionItemDetail, net

\* The sum over the live lines is an amount, or NULL.
LEMMA DetailType ==
  ASSUME RowInv
  PROVE  SumTransactionItemDetail \in Int \cup {Null}
  BY DetailInt DEF SumTransactionItemDetail

\* The amount of a refund is the sum over its lines.
LEMMA AmountType ==
  ASSUME NEW list, \A l \in DOMAIN list : l \in Line /\ list[l].refundAmount \in Int
  PROVE  /\ SumFunction([l \in DOMAIN list |-> list[l].refundAmount]) \in Int
         /\ Cardinality(DOMAIN list) \in Nat
  <1> DEFINE D == DOMAIN list
             amount == [l \in D |-> list[l].refundAmount]
  <1>1. IsFiniteSet(D)
    BY RefundAssumption, FS_Subset
  <1>2. DOMAIN amount = D /\ \A l \in D : amount[l] \in Int
    OBVIOUS
  <1> HIDE DEF amount
  <1>3. SumFunctionOnSet(amount, D) \in Int
    BY <1>1, <1>2, SumType
  <1>4. SumFunction(amount) \in Int
    BY <1>2, <1>3 DEF SumFunction
  <1>5. Cardinality(D) \in Nat
    BY <1>1, FS_CardinalityType
  <1> QED
    BY <1>4, <1>5 DEF amount

LEMMA RefundAmountType ==
  ASSUME NEW r \in Refunder,
         \A l \in DOMAIN lines[r] : l \in Line /\ lines[r][l].refundAmount \in Int
  PROVE  RefundAmount(r) \in Int /\ SummaryValue(r) \in Int
  BY AmountType DEF RefundAmount, SummaryValue

\* A quantity a line is sold with or amended to is at least 1.
QuantityInv ==
    /\ \A i \in Item : item[i].at # "none" => item[i].quantity > 0
    /\ \A e \in Editor : editStep[e] \in {"reload", "save"} => editItem[e].quantity > 0

LEMMA AmendedQuantity ==
  ASSUME NEW row \in ItemRow, row.quantity > 0, NEW dto \in EditDto, NEW price
  PROVE  Amended(row, dto, price).quantity > 0
  <1>1. dto.quantity \in (Nat \ {0}) \cup {Null}
    BY EditAssumption
  <1> QED
    BY <1>1 DEF Amended, ItemRow

\* Whatever a step writes to an item row is a quantity in a row or in memory.
LEMMA QuantityStep ==
  ASSUME RowInv, QuantityInv, [Next]_vars
  PROVE  QuantityInv'
  <1>0. /\ item \in [Item -> ItemRow]
        /\ \A i \in Item : item[i] \in ItemRow
    BY DEF RowInv, RowTypeOK
  <1> DEFINE Rows == \A i \in Item : item[i].at # "none" => item[i].quantity > 0
  <1>1. ASSUME \A i \in Item : /\ item'[i].quantity = item[i].quantity
                               /\ item'[i].at # "none" => item[i].at # "none"
        PROVE  Rows'
    BY <1>1 DEF QuantityInv
  <1>2. ASSUME NEW i \in Item, AddItem(i) PROVE Rows'
    <2>1. addCart \in Cart /\ i \in DOMAIN addCart
      BY <1>2 DEF AddItem, RowInv, AddFacts
    <2>2. PICK price \in PriceOf[addCart[i].product] :
             item' = [item EXCEPT ![i] = NewItem(addCart[i], price)]
      BY <1>2 DEF AddItem
    <2>3. addCart[i].quantity \in Nat \ {0}
      BY <2>1, <2>2, NewItemType
    <2>4. NewItem(addCart[i], price).quantity > 0
      BY <2>3 DEF NewItem
    <2> QED
      BY <1>0, <2>2, <2>4 DEF QuantityInv
  <1>3. ASSUME NEW e \in Editor, EditSaveItem(e) PROVE Rows'
    <2> DEFINE i == editDto[e].transactionItemId
               row == item[i]
               mem == editItem[e]
               Written(c) == IF c \in editDirty[e] THEN mem[c] ELSE row[c]
               orphan == [mem EXCEPT !.owned = FALSE]
               updated == [row EXCEPT
                   !.at = Written("at"), !.product = Written("product"),
                   !.quantity = Written("quantity"), !.value = Written("value"),
                   !.discount = Written("discount"), !.netPrice = Written("netPrice"),
                   !.remainingQuantity = Written("remainingQuantity"),
                   !.remainingAmount = Written("remainingAmount"),
                   !.isRefund = Written("isRefund")]
    <2>1. /\ i \in Item /\ mem \in ItemRow /\ row \in ItemRow
          /\ row.at # "none"
          /\ mem.quantity > 0 /\ row.quantity > 0
      BY <1>3 DEF EditSaveItem, RowInv, RowTypeOK, EditFacts, QuantityInv
    <2>2. \/ item' = [item EXCEPT ![i] = orphan]
          \/ item' = item
          \/ item' = [item EXCEPT ![i] = updated]
      BY <1>3 DEF EditSaveItem
    <2>3. orphan.quantity = mem.quantity
      BY <2>1 DEF ItemRow
    <2>4. Written("quantity") > 0
      BY <2>1
    <2>5. updated.quantity = Written("quantity")
      <3> HIDE DEF Written, row
      <3> QED
        BY <2>1 DEF ItemRow
    <2> HIDE DEF orphan, updated, Written, row, mem
    <2> QED
      BY <1>0, <2>1, <2>2, <2>3, <2>4, <2>5 DEF QuantityInv, row
  <1>4. ASSUME NEW e \in Editor, EditDrop(e) \/ EditHeaderSave(e) PROVE Rows'
    <2>1. \A i \in Item : /\ item'[i].quantity = item[i].quantity
                          /\ item'[i].at # "none" => item[i].at # "none"
      BY <1>0, <1>4 DEF EditDrop, EditHeaderSave, ItemRow
    <2> QED
      BY <1>1, <2>1
  <1>5. ASSUME NEW d \in Deleter, DeleteRemove(d) PROVE Rows'
    <2>1. \A i \in Item : /\ item'[i].quantity = item[i].quantity
                          /\ item'[i].at # "none" => item[i].at # "none"
      BY <1>0, <1>5 DEF DeleteRemove, ItemRow, RowInv, ItemFacts
    <2> QED
      BY <1>1, <2>1
  <1>6. ASSUME NEW r \in Refunder, NEW l \in Line, TaskUpdate(r, l) PROVE Rows'
    <2> DEFINE line == lines[r][l]
               left == LeftOf(line)
               rest == (line.remainingAmount \div line.remainingQuantity) * left
    <2>1. \A i \in Item :
            \/ item'[i] = item[i]
            \/ item'[i] = [item[i] EXCEPT !.remainingQuantity = left,
                             !.remainingAmount = rest, !.isRefund = (left = 0)]
      BY <1>6 DEF TaskUpdate
    <2> HIDE DEF left, rest
    <2>2. \A i \in Item : /\ item'[i].quantity = item[i].quantity
                          /\ item'[i].at # "none" => item[i].at # "none"
      BY <1>0, <2>1 DEF ItemRow
    <2> QED
      BY <1>1, <2>2
  <1>7. Rows'
    <2>1. item' = item => Rows'
      BY DEF QuantityInv
    <2> QED
      BY <1>2, <1>3, <1>4, <1>5, <1>6, <2>1, ItemWritesOnly DEF ItemWrites
  <1>8. ASSUME NEW e \in Editor, editStep'[e] \in {"reload", "save"}
        PROVE  editItem'[e].quantity > 0
    <2>1. CASE EditLoadItem(e)
      <3> DEFINE i == editDto[e].transactionItemId
                 p == IF editDto[e].product = Null THEN item[i].product
                      ELSE editDto[e].product
      <3>1. /\ i \in Item /\ editDto[e] \in EditDto
            /\ editItem \in [Editor -> ItemRow]
            /\ editStep \in [Editor -> EditSteps]
        BY <2>1 DEF EditLoadItem, RowInv, RowTypeOK, EditFacts
      <3>2. item[i].at = "live"
        BY <1>8, <2>1, <3>1 DEF EditLoadItem
      <3>3. PICK price \in PriceOf[p] :
              editItem' = [editItem EXCEPT ![e] = Amended(item[i], editDto[e], price)]
        BY <2>1, <3>2 DEF EditLoadItem
      <3>4. Amended(item[i], editDto[e], price).quantity > 0
        BY <1>0, <3>1, <3>2, AmendedQuantity DEF QuantityInv
      <3> QED
        BY <3>1, <3>3, <3>4
    <2>2. CASE editStep[e] \in {"reload", "save"} /\ editItem'[e] = editItem[e]
      BY <2>2 DEF QuantityInv
    <2> QED
      BY <1>8, <2>1, <2>2, EditItemStep
  <1> QED
    BY <1>7, <1>8 DEF QuantityInv

\* The steps that compute, store or load an amount.
AmountWrites ==
    \/ (AddSum \/ AddTotals) /\ UNCHANGED refundVars
    \/ \E e \in Editor : /\ \/ EditRead(e) \/ EditSum(e) \/ EditTotals(e)
                            \/ EditHeaderReload(e) \/ EditHeaderSave(e)
                         /\ UNCHANGED refundVars
    \/ \E r \in Refunder : (RefundRead(r) \/ RefundPost(r)) /\ UNCHANGED serviceVars

amountVars == <<totalValue, refundTotal, addSum, editSum, editSeen, refSeen, lines>>

LEMMA AmountWritesOnly ==
  ASSUME [Next]_vars
  PROVE  UNCHANGED amountVars \/ AmountWrites
  <1> USE DEF amountVars
  <1>1. ASSUME AddStepsOf, UNCHANGED refundVars PROVE UNCHANGED amountVars \/ AmountWrites
    BY <1>1 DEF AddStepsOf, AddSave, AddItem, AddFails, tableVars, rowVars, editVars, refundVars,
       AmountWrites
  <1>2. ASSUME NEW e \in Editor, EditStepsOf(e), UNCHANGED refundVars
        PROVE  UNCHANGED amountVars \/ AmountWrites
    BY <1>2 DEF EditStepsOf, EditLoadItem, EditReload, EditSaveItem, EditDrop, EditFails,
       tableVars, rowVars, addVars, refundVars, AmountWrites
  <1>3. ASSUME NEW d \in Deleter, DeleteStepsOf(d), UNCHANGED refundVars
        PROVE  UNCHANGED amountVars
    BY <1>3 DEF DeleteStepsOf, DeleteRead, DeleteMark, DeleteRemove, DeleteFails,
       tableVars, rowVars, addVars, editVars, refundVars
  <1>4. ASSUME NEW r \in Refunder, RefundStepsOf(r), UNCHANGED serviceVars
        PROVE  UNCHANGED amountVars \/ AmountWrites
    BY <1>4 DEF RefundStepsOf, RefundCount, RefundConnect, RefundStart, RefundInsert,
       TaskUpdate,
       TaskSave, RefundCommit, RefundFails, RefundRollback, RefundDies,
       tableVars, rowVars, serviceVars, addVars, editVars, AmountWrites
  <1>5. ASSUME UNCHANGED vars PROVE UNCHANGED amountVars
    BY <1>5 DEF vars, tableVars, rowVars, serviceVars, addVars, editVars, refundVars
  <1> QED
    BY <1>1, <1>2, <1>3, <1>4, <1>5 DEF Next, Finished

\* The amounts of the lines a refund validates are integers.
LEMMA ReadAmounts ==
  ASSUME RowInv, AmountInv, NEW r \in Refunder, RefundRead(r), NEW s \in Refunder
  PROVE  \A l \in DOMAIN lines'[s] : l \in Line /\ lines'[s][l].refundAmount \in Int
  <1>1. PICK dto \in RefundDto, first \in [Product -> Item] :
          /\ \/ lines' = [lines EXCEPT ![r] = NoLines]
             \/ lines' = [lines EXCEPT ![r] =
                            [l \in DOMAIN dto |->
                               ValidLine(dto[l], item[first[dto[l].product]])]]
          /\ lines'[r] # NoLines =>
               \A l \in DOMAIN dto : first[dto[l].product] \in LiveItems
    BY DEF RefundRead, RowInv, RefundFacts
  <1>2. DOMAIN lines = Refunder
    BY DEF RowInv, RefundFacts
  <1>3. CASE s # r \/ lines'[r] = NoLines
    BY <1>1, <1>2, <1>3 DEF AmountInv, NoLines
  <1>4. CASE s = r /\ lines'[r] # NoLines
    <2>1. lines'[s] = [l \in DOMAIN dto |-> ValidLine(dto[l], item[first[dto[l].product]])]
      BY <1>1, <1>2, <1>4
    <2> SUFFICES ASSUME NEW l \in DOMAIN dto
                 PROVE  l \in Line /\ lines'[s][l].refundAmount \in Int
      BY <2>1
    <2> DEFINE row == item[first[dto[l].product]]
    <2>2. l \in Line /\ dto[l].quantity \in Nat
      BY RefundAssumption
    <2>3. /\ row.value \in Int
          /\ row.quantity \in Int /\ row.quantity > 0
      BY <1>1, <1>4 DEF LiveItems, RowInv, RowTypeOK, ItemRow, AmountInv
    <2>4. lines'[s][l] = ValidLine(dto[l], row)
      BY <2>1
    <2> HIDE DEF row
    <2>5. (row.value \div row.quantity) * dto[l].quantity \in Int
      BY <2>2, <2>3
    <2> QED
      BY <2>2, <2>4, <2>5 DEF ValidLine
  <1> QED
    BY <1>3, <1>4

LEMMA AmountInit == Init => AmountInv
  <1> SUFFICES ASSUME Init PROVE AmountInv
    OBVIOUS
  <1> USE DEF Init, TablesInit, ServiceInit, RefundInit
  <1>1. \A r \in Refunder : \A l \in DOMAIN lines[r] :
           l \in Line /\ lines[r][l].refundAmount \in Int
    BY DEF NoLines
  <1>2. \A r \in Refunder : RefundAmount(r) \in Int
    BY <1>1, RefundAmountType
  <1> QED
    BY <1>1, <1>2 DEF AmountInv, SumTypeOK, NoItem, NoSeen

LEMMA AmountStep == RowInv /\ AmountInv /\ [Next]_vars => AmountInv'
  <1> SUFFICES ASSUME RowInv, AmountInv, [Next]_vars PROVE AmountInv'
    OBVIOUS
  <1> DEFINE Amount == Int \cup {Null}
             Stored == /\ totalValue \in Amount
                       /\ refundTotal \in Int
                       /\ addSum \in Amount
                       /\ editSum \in [Editor -> Amount]
             Held == \A e \in Editor : /\ editSeen[e].totalValue \in Amount
                                       /\ editSeen[e].refund \in Int
             Seen == /\ DOMAIN refSeen = Refunder
                     /\ \A r \in Refunder : refSeen[r].refund \in Int
             Lines == \A r \in Refunder : \A l \in DOMAIN lines[r] :
                         l \in Line /\ lines[r][l].refundAmount \in Int
  <1>1. Stored /\ Held /\ Seen /\ Lines
    BY DEF AmountInv, SumTypeOK
  <1>2. QuantityInv'
    <2>1. QuantityInv
      BY DEF AmountInv, QuantityInv
    <2> QED
      BY <2>1, QuantityStep
  <1>3. /\ DOMAIN editSeen = Editor
        /\ SumTransactionItemDetail \in Amount
        /\ \A r \in Refunder : SummaryValue(r) \in Int
    BY <1>1, DetailType, RefundAmountType DEF RowInv, EditFacts
  <1>4. SUFFICES Stored' /\ Held' /\ Seen' /\ Lines'
    <2>1. ASSUME Lines', NEW r \in Refunder PROVE RefundAmount(r)' \in Int
      BY <2>1, AmountType DEF RefundAmount
    <2> QED
      BY <1>2, <1>4, <2>1 DEF AmountInv, SumTypeOK, QuantityInv
  <1>5. CASE UNCHANGED amountVars
    BY <1>1, <1>5 DEF amountVars
  <1>6. CASE (AddSum \/ AddTotals) /\ UNCHANGED refundVars
    BY <1>1, <1>3, <1>6 DEF AddSum, AddTotals, TransactionUpdate, tableVars, rowVars, editVars,
       refundVars
  <1>7. ASSUME NEW e \in Editor, EditRead(e) \/ EditHeaderReload(e), UNCHANGED refundVars
        PROVE  Stored' /\ Held' /\ Seen' /\ Lines'
    <2>1. UNCHANGED <<totalValue, refundTotal, addSum, editSum>>
      BY <1>7 DEF EditRead, EditHeaderReload, tableVars, rowVars, addVars
    <2>2. /\ \A f \in Editor : f # e => editSeen'[f] = editSeen[f]
          /\ editSeen'[e].totalValue \in {totalValue, editSeen[e].totalValue}
          /\ editSeen'[e].refund \in {refundTotal, editSeen[e].refund}
      BY <1>3, <1>7 DEF EditRead, EditHeaderReload
    <2> QED
      BY <1>1, <1>7, <2>1, <2>2 DEF refundVars
  <1>8. ASSUME NEW e \in Editor, EditSum(e) \/ EditTotals(e) \/ EditHeaderSave(e),
               UNCHANGED refundVars
        PROVE  Stored' /\ Held' /\ Seen' /\ Lines'
    BY <1>1, <1>3, <1>8 DEF EditSum, EditTotals, EditHeaderSave, TransactionUpdate, tableVars,
       rowVars, addVars, refundVars
  <1>9. ASSUME NEW r \in Refunder, RefundRead(r), UNCHANGED serviceVars
        PROVE  Stored' /\ Held' /\ Seen' /\ Lines'
    <2>1. Lines'
      BY <1>9, ReadAmounts
    <2>2. refSeen' = [refSeen EXCEPT ![r] =
             [status |-> txn.status, totalValue |-> totalValue, refund |-> refundTotal]]
      BY <1>9 DEF RefundRead
    <2>3. UNCHANGED <<totalValue, refundTotal, addSum, editSum, editSeen>>
      BY <1>9 DEF RefundRead, tableVars, rowVars, serviceVars, addVars, editVars
    <2> QED
      BY <1>1, <2>1, <2>2, <2>3
  <1>10. ASSUME NEW r \in Refunder, RefundPost(r), UNCHANGED serviceVars
        PROVE  Stored' /\ Held' /\ Seen' /\ Lines'
    BY <1>1, <1>3, <1>10 DEF RefundPost, Paid, serviceVars, addVars, editVars
  <1> QED
    BY <1>5, <1>6, <1>7, <1>8, <1>9, <1>10, AmountWritesOnly DEF AmountWrites

\* Every state has its types, for any requests: rows are rows of the tables
\* and every sum, quotient and product of amounts is an amount.
THEOREM TypesCorrect == Spec => []TypeOK
  <1>1. RowInv /\ AmountInv => TypeOK
    BY DEF RowInv, AmountInv, TypeOK
  <1> QED
    BY <1>1, InitRowInv, RowInvStep, AmountInit, AmountStep, PTL DEF Spec

-----------------------------------------------------------------------------
(* What the refunds paid back.                                             *)

\* What some refunds of a set paid stays what they paid while they keep
\* their lines, and a refund beside them adds its own.
LEMMA PaidByKept ==
  ASSUME AmountInv, NEW amount, NEW A \in SUBSET Refunder, NEW B \in SUBSET Refunder,
         PaidBy(amount, A), A \subseteq B, \A r \in A : lines'[r] = lines[r]
  PROVE  \E S \in SUBSET B :
           amount = SumFunctionOnSet([r \in Refunder |-> SummaryValue(r)'], S)
  <1> DEFINE f == [r \in Refunder |-> SummaryValue(r)]
             g == [r \in Refunder |-> SummaryValue(r)']
  <1>1. PICK S \in SUBSET A : amount = SumFunctionOnSet(f, S)
    BY DEF PaidBy
  <1>2. IsFiniteSet(S)
    BY RefunderAssumption, FS_Subset
  <1>3. \A r \in S : SummaryValue(r) \in Int
    BY RefundAmountType DEF AmountInv
  <1>4. \A r \in S : SummaryValue(r)' = SummaryValue(r)
    BY DEF SummaryValue, RefundAmount
  <1>5. \A r \in S : f[r] = g[r] /\ f[r] \in Int
    BY <1>3, <1>4
  <1> HIDE DEF f, g
  <1>6. SumFunctionOnSet(f, S) = SumFunctionOnSet(g, S)
    BY <1>2, <1>5, SumSame
  <1> QED
    BY <1>1, <1>6 DEF g

LEMMA PaidByMore ==
  ASSUME AmountInv, NEW amount, NEW r \in Refunder, NEW A \in SUBSET Refunder, r \in A,
         PaidBy(amount, A \ {r})
  PROVE  PaidBy(amount + SummaryValue(r), A)
  <1> DEFINE f == [s \in Refunder |-> SummaryValue(s)]
  <1>1. PICK S \in SUBSET (A \ {r}) : amount = SumFunctionOnSet(f, S)
    BY DEF PaidBy
  <1>2. IsFiniteSet(S)
    BY RefunderAssumption, FS_Subset
  <1>3. \A s \in S \cup {r} : f[s] \in Int
    BY RefundAmountType DEF AmountInv
  <1>4. f[r] = SummaryValue(r)
    OBVIOUS
  <1> HIDE DEF f
  <1>5. SumFunctionOnSet(f, S \cup {r}) = f[r] + SumFunctionOnSet(f, S)
    BY <1>2, <1>3, SumAdd
  <1>6. SumFunctionOnSet(f, S) \in Int
    BY <1>2, <1>3, SumType
  <1>7. amount + SummaryValue(r) = SumFunctionOnSet(f, S \cup {r})
    BY <1>1, <1>3, <1>4, <1>5, <1>6
  <1> QED
    BY <1>7 DEF PaidBy, f

LEMMA PaidInit == Init => PaidInv
  <1> SUFFICES ASSUME Init PROVE PaidInv
    OBVIOUS
  <1>1. ASSUME NEW rows PROVE PaidBy(0, rows)
    <2>1. {} \in SUBSET rows
      OBVIOUS
    <2>2. 0 = SumFunctionOnSet([r \in Refunder |-> SummaryValue(r)], {})
      BY SumEmpty
    <2> QED
      BY <2>1, <2>2 DEF PaidBy
  <1> QED
    BY <1>1 DEF Init, TablesInit, ServiceInit, RefundInit, NoSeen, PaidInv

\* Rows of refunds stay, with the lines of their refunds.
LEMMA RowsStay ==
  ASSUME RowInv, ProgressInv, [Next]_vars
  PROVE  /\ RefundRows \subseteq RefundRows'
         /\ \A r \in RefundRows : lines'[r] = lines[r]
         /\ \A r \in Refunder : RefundInsert(r) \/ (r \in RefundRows' => r \in RefundRows)
  <1>0. /\ refund \in [Refunder -> Nat]
        /\ DOMAIN lines = Refunder
    BY DEF RowInv, RowTypeOK, RefundFacts
  <1>1. \A r \in RefundRows : refStep[r] \notin {"idle", "count", "connect", "start", "insert"}
    BY DEF RefundRows, ProgressInv
  <1>2. \A r \in RefundRows : lines'[r] = lines[r]
    <2>1. ASSUME NEW r \in Refunder, RefundRead(r)
          PROVE  refStep[r] = "idle" /\ \E list : lines' = [lines EXCEPT ![r] = list]
      BY <2>1, Zenon DEF RefundRead
    <2> QED
      BY <1>0, <1>1, <2>1, LinesStep DEF RefundRows
  <1>3. refund' = refund \/ \E r \in Refunder : RefundInsert(r)
    <2>1. ASSUME NEW r \in Refunder, RefundStepsOf(r)
          PROVE  refund' = refund \/ RefundInsert(r)
      BY <2>1 DEF RefundStepsOf, RefundRead, RefundCount, RefundConnect, RefundStart,
         TaskUpdate, TaskSave, RefundPost, RefundCommit, RefundFails, RefundRollback,
         RefundDies, tableVars, rowVars
    <2>2. ASSUME AddStepsOf PROVE refund' = refund
      BY <2>2 DEF AddStepsOf, AddSave, AddItem, AddSum, AddTotals, AddFails, tableVars, rowVars
    <2>3. ASSUME NEW e \in Editor, EditStepsOf(e) PROVE refund' = refund
      BY <2>3 DEF EditStepsOf, EditRead, EditLoadItem, EditReload, EditSaveItem, EditSum,
         EditTotals, EditDrop, EditHeaderReload, EditHeaderSave, EditFails, tableVars, rowVars
    <2>4. ASSUME NEW d \in Deleter, DeleteStepsOf(d) PROVE refund' = refund
      BY <2>4 DEF DeleteStepsOf, DeleteRead, DeleteMark, DeleteRemove, DeleteFails,
         tableVars, rowVars
    <2>5. ASSUME UNCHANGED vars PROVE refund' = refund
      BY <2>5 DEF vars, tableVars, rowVars
    <2> QED
      BY <2>1, <2>2, <2>3, <2>4, <2>5 DEF Next, Finished
  <1>4. CASE refund' = refund
    BY <1>2, <1>4 DEF RefundRows
  <1>5. ASSUME NEW r \in Refunder, RefundInsert(r)
        PROVE  /\ RefundRows \subseteq RefundRows'
               /\ \A s \in Refunder : s = r \/ (s \in RefundRows' => s \in RefundRows)
    <2>1. /\ refund' = [refund EXCEPT ![r] = refNumber[r]]
          /\ refNumber[r] > 0
          /\ refNumber[r] \in Nat
      BY <1>5 DEF RefundInsert, ProgressInv, RowInv, RowTypeOK
    <2> QED
      BY <1>0, <2>1 DEF RefundRows
  <1> QED
    BY <1>2, <1>3, <1>4, <1>5

LEMMA PaidStep == RowInv /\ AmountInv /\ ProgressInv /\ PaidInv /\ [Next]_vars => PaidInv'
  <1> SUFFICES ASSUME RowInv, AmountInv, ProgressInv, PaidInv, [Next]_vars PROVE PaidInv'
    OBVIOUS
  <1> DEFINE Now(amount, rows) ==
               \E S \in SUBSET rows :
                  amount = SumFunctionOnSet([r \in Refunder |-> SummaryValue(r)'], S)
  <1>1. /\ RefundRows \subseteq RefundRows'
        /\ \A r \in RefundRows : lines'[r] = lines[r]
        /\ \A r \in Refunder : RefundInsert(r) \/ (r \in RefundRows' => r \in RefundRows)
    BY RowsStay
  <1>2. RefundRows \in SUBSET Refunder /\ RefundRows' \in SUBSET Refunder
    BY DEF RefundRows
  <1>3. ASSUME NEW amount, PaidBy(amount, RefundRows) PROVE Now(amount, RefundRows')
    BY <1>1, <1>2, <1>3, PaidByKept
  <1>4. ASSUME NEW amount, NEW r \in Refunder, PaidBy(amount, RefundRows \ {r})
        PROVE  Now(amount, RefundRows' \ {r})
    <2> DEFINE A == RefundRows \ {r}
               B == RefundRows' \ {r}
    <2>1. /\ A \in SUBSET Refunder /\ B \in SUBSET Refunder /\ A \subseteq B
          /\ \A s \in A : lines'[s] = lines[s]
      BY <1>1, <1>2
    <2>2. PaidBy(amount, A)
      BY <1>4
    <2> HIDE DEF A, B
    <2>3. Now(amount, B)
      BY <2>1, <2>2, PaidByKept
    <2> QED
      BY <2>3 DEF B
  <1> HIDE DEF Now
  <1>5. /\ Now(refundTotal, RefundRows')
        /\ \A e \in Editor : Now(editSeen[e].refund, RefundRows')
        /\ \A r \in Refunder : Now(refSeen[r].refund, RefundRows' \ {r})
    BY <1>3, <1>4 DEF PaidInv
  <1>6. SUFFICES /\ Now(refundTotal', RefundRows')
                 /\ \A e \in Editor : Now(editSeen'[e].refund, RefundRows')
                 /\ \A r \in Refunder : Now(refSeen'[r].refund, RefundRows' \ {r})
    BY <1>6 DEF PaidInv, PaidBy, Now
  <1>7. CASE UNCHANGED amountVars
    BY <1>5, <1>7 DEF amountVars
  <1>8. CASE (AddSum \/ AddTotals) /\ UNCHANGED refundVars
    BY <1>5, <1>8 DEF AddSum, AddTotals, tableVars, rowVars, editVars, refundVars
  <1>9. ASSUME NEW e \in Editor, UNCHANGED refundVars,
               EditRead(e) \/ EditHeaderReload(e) \/ EditSum(e) \/ EditTotals(e) \/ EditHeaderSave(e)
        PROVE  /\ Now(refundTotal', RefundRows')
               /\ \A f \in Editor : Now(editSeen'[f].refund, RefundRows')
               /\ \A r \in Refunder : Now(refSeen'[r].refund, RefundRows' \ {r})
    <2>1. DOMAIN editSeen = Editor
      BY DEF RowInv, EditFacts
    <2>2. /\ \A f \in Editor : editSeen'[f].refund \in {editSeen[f].refund, refundTotal}
          /\ refundTotal' \in {refundTotal, editSeen[e].refund}
      BY <1>9, <2>1 DEF EditRead, EditHeaderReload, EditSum, EditTotals, EditHeaderSave,
         tableVars, rowVars
    <2> QED
      BY <1>5, <1>9, <2>2 DEF refundVars
  <1>10. ASSUME NEW r \in Refunder, UNCHANGED serviceVars, RefundRead(r)
        PROVE  /\ Now(refundTotal', RefundRows')
               /\ \A f \in Editor : Now(editSeen'[f].refund, RefundRows')
               /\ \A s \in Refunder : Now(refSeen'[s].refund, RefundRows' \ {s})
    <2>1. /\ refundTotal' = refundTotal /\ editSeen' = editSeen
          /\ RefundRows' = RefundRows
          /\ r \notin RefundRows
      BY <1>10 DEF RefundRead, RefundRows, ProgressInv, serviceVars, editVars, tableVars, rowVars
    <2>2. \A s \in Refunder : \/ refSeen'[s].refund = refSeen[s].refund
                              \/ s = r /\ refSeen'[s].refund = refundTotal
      BY <1>10 DEF RefundRead, AmountInv
    <2>3. RefundRows' \ {r} = RefundRows'
      BY <2>1
    <2> QED
      BY <1>5, <2>1, <2>2, <2>3
  <1>11. ASSUME NEW r \in Refunder, UNCHANGED serviceVars, RefundPost(r)
        PROVE  /\ Now(refundTotal', RefundRows')
               /\ \A f \in Editor : Now(editSeen'[f].refund, RefundRows')
               /\ \A s \in Refunder : Now(refSeen'[s].refund, RefundRows' \ {s})
    <2>1. /\ refundTotal' = refSeen[r].refund + SummaryValue(r)
          /\ editSeen' = editSeen /\ refSeen' = refSeen
          /\ r \in RefundRows
      BY <1>11 DEF RefundPost, Paid, RefundRows, ProgressInv, serviceVars, editVars
    <2>2. PaidBy(refSeen[r].refund + SummaryValue(r), RefundRows)
      BY <1>2, <2>1, PaidByMore DEF PaidInv
    <2>3. Now(refSeen[r].refund + SummaryValue(r), RefundRows')
      BY <1>3, <2>2
    <2> QED
      BY <1>5, <2>1, <2>3
  <1> QED
    BY <1>7, <1>8, <1>9, <1>10, <1>11, AmountWritesOnly DEF AmountWrites

\* However refunds, edits and removals overlap and fail, the amount stored as
\* paid back is the sum of what some set of refunds with a row posted.
THEOREM PaidBackExplained == Spec => []RefundExplained
  <1>1. PaidInv => RefundExplained
    BY DEF PaidInv, PaidBy, RefundExplained
  <1> QED
    BY <1>1, InitRowInv, RowInvStep, AmountInit, AmountStep, ProgressInit, ProgressStep,
       PaidInit, PaidStep, PTL DEF Spec

-----------------------------------------------------------------------------
(* What remains of a line.                                                 *)

\* Only the loop of addTransaction makes an item row.
LEMMA RowMade ==
  ASSUME RowInv, [Next]_vars, NEW i \in Item, item[i].at = "none", item'[i].at # "none"
  PROVE  AddItem(i)
  <1>0. /\ item \in [Item -> ItemRow]
        /\ \A j \in Item : item[j] \in ItemRow
    BY DEF RowInv, RowTypeOK
  <1>1. ASSUME NEW j \in Item, AddItem(j) PROVE AddItem(i)
    BY <1>0, <1>1 DEF AddItem
  <1>2. ASSUME NEW e \in Editor, EditSaveItem(e) PROVE FALSE
    <2>1. /\ editDto[e].transactionItemId \in Item
          /\ item[editDto[e].transactionItemId].at # "none"
      BY <1>2 DEF EditSaveItem, RowInv, EditFacts
    <2>2. \A j \in Item : j # editDto[e].transactionItemId => item'[j] = item[j]
      BY <1>0, <1>2, <2>1 DEF EditSaveItem
    <2> QED
      BY <2>1, <2>2
  <1>3. ASSUME NEW e \in Editor, EditDrop(e) \/ EditHeaderSave(e) PROVE FALSE
    BY <1>0, <1>3 DEF EditDrop, EditHeaderSave, ItemRow
  <1>4. ASSUME NEW d \in Deleter, DeleteRemove(d) PROVE FALSE
    BY <1>0, <1>4 DEF DeleteRemove, ItemRow, RowInv, ItemFacts
  <1>5. ASSUME NEW r \in Refunder, NEW l \in Line, TaskUpdate(r, l) PROVE FALSE
    <2>1. item'[i] = item[i]
      BY <1>5 DEF TaskUpdate
    <2> QED
      BY <2>1
  <1> QED
    BY <1>1, <1>2, <1>3, <1>4, <1>5, ItemWritesOnly DEF ItemWrites

\* A row that is there stays a row.
LEMMA RowKept ==
  ASSUME RowInv, [Next]_vars, NEW i \in Item, item[i].at # "none"
  PROVE  item'[i].at # "none"
  <1>0. /\ item \in [Item -> ItemRow]
        /\ \A j \in Item : item[j] \in ItemRow
    BY DEF RowInv, RowTypeOK
  <1>1. ASSUME NEW j \in Item, AddItem(j) PROVE item'[i].at # "none"
    BY <1>0, <1>1 DEF AddItem, NewItem
  <1>2. ASSUME NEW e \in Editor, EditSaveItem(e) PROVE item'[i].at # "none"
    <2> DEFINE k == editDto[e].transactionItemId
               row == item[k]
               mem == editItem[e]
               Written(c) == IF c \in editDirty[e] THEN mem[c] ELSE row[c]
               orphan == [mem EXCEPT !.owned = FALSE]
               updated == [row EXCEPT
                   !.at = Written("at"), !.product = Written("product"),
                   !.quantity = Written("quantity"), !.value = Written("value"),
                   !.discount = Written("discount"), !.netPrice = Written("netPrice"),
                   !.remainingQuantity = Written("remainingQuantity"),
                   !.remainingAmount = Written("remainingAmount"),
                   !.isRefund = Written("isRefund")]
    <2>1. /\ k \in Item /\ mem \in ItemRow /\ row \in ItemRow
          /\ mem.at # "none" /\ row.at # "none"
      BY <1>2 DEF EditSaveItem, RowInv, RowTypeOK, EditFacts
    <2>2. \/ item' = [item EXCEPT ![k] = orphan]
          \/ item' = item
          \/ item' = [item EXCEPT ![k] = updated]
      BY <1>2 DEF EditSaveItem
    <2>3. orphan.at = mem.at
      BY <2>1 DEF ItemRow
    <2>4. updated.at = Written("at")
      <3> HIDE DEF Written, row
      <3> QED
        BY <2>1 DEF ItemRow
    <2>5. Written("at") # "none"
      BY <2>1
    <2> HIDE DEF orphan, updated, Written, row, mem
    <2> QED
      BY <1>0, <2>1, <2>2, <2>3, <2>4, <2>5
  <1>3. ASSUME NEW e \in Editor, EditDrop(e) \/ EditHeaderSave(e) PROVE item'[i].at # "none"
    BY <1>0, <1>3 DEF EditDrop, EditHeaderSave, ItemRow
  <1>4. ASSUME NEW d \in Deleter, DeleteRemove(d) PROVE item'[i].at # "none"
    BY <1>0, <1>4 DEF DeleteRemove, ItemRow
  <1>5. ASSUME NEW r \in Refunder, NEW l \in Line, TaskUpdate(r, l) PROVE item'[i].at # "none"
    <2> DEFINE line == lines[r][l]
               left == LeftOf(line)
               rest == (line.remainingAmount \div line.remainingQuantity) * left
    <2>1. \/ item'[i] = item[i]
          \/ item'[i] = [item[i] EXCEPT !.remainingQuantity = left,
                           !.remainingAmount = rest, !.isRefund = (left = 0)]
      BY <1>5 DEF TaskUpdate
    <2> HIDE DEF left, rest
    <2> QED
      BY <1>0, <2>1 DEF ItemRow
  <1> QED
    BY <1>1, <1>2, <1>3, <1>4, <1>5, ItemWritesOnly DEF ItemWrites

LEMMA LeftInit == Init => LeftFacts
  BY DEF Init, TablesInit, ServiceInit, LeftFacts, NoItem

LEMMA LeftStep == RowInv /\ LeftFacts /\ [Next]_vars => LeftFacts'
  <1> SUFFICES ASSUME RowInv, LeftFacts, [Next]_vars PROVE LeftFacts'
    OBVIOUS
  <1>0. item \in [Item -> ItemRow] /\ addLeft \subseteq Item
    BY DEF RowInv, RowTypeOK
  <1>1. CASE AddStepsOf
    <2>1. CASE AddSave
      <3>1. item' = item /\ addStep' = "items" /\ addStep = "idle" /\ addLeft' \subseteq Item
        BY <2>1, CartAssumption DEF AddSave
      <3> QED
        BY <3>1 DEF LeftFacts
    <2>2. ASSUME NEW i \in Item, AddItem(i) PROVE LeftFacts'
      BY <1>0, <2>2 DEF AddItem, LeftFacts
    <2>3. CASE AddSum \/ AddTotals \/ AddFails
      BY <2>3 DEF AddSum, AddTotals, AddFails, LeftFacts
    <2> QED
      BY <1>1, <2>1, <2>2, <2>3 DEF AddStepsOf
  <1>2. CASE UNCHANGED addVars /\ ~\E i \in Item : AddItem(i)
    <2>1. \A i \in Item : item[i].at = "none" => item'[i].at = "none"
      BY <1>2, RowMade
    <2> QED
      BY <1>0, <1>2, <2>1 DEF LeftFacts, addVars
  <1>3. UNCHANGED addVars => ~\E i \in Item : AddItem(i)
    BY DEF addVars, AddItem
  <1>4. AddStepsOf \/ UNCHANGED addVars
    <2>1. ASSUME NEW e \in Editor, EditStepsOf(e) PROVE UNCHANGED addVars
      BY <2>1 DEF EditStepsOf, EditRead, EditLoadItem, EditReload, EditSaveItem, EditSum,
         EditTotals, EditDrop, EditHeaderReload, EditHeaderSave, EditFails
    <2>2. ASSUME NEW d \in Deleter, DeleteStepsOf(d) PROVE UNCHANGED addVars
      BY <2>2 DEF DeleteStepsOf, DeleteRead, DeleteMark, DeleteRemove, DeleteFails
    <2> QED
      BY <2>1, <2>2 DEF Next, Finished, vars, serviceVars
  <1> QED
    BY <1>1, <1>2, <1>3, <1>4

\* What a callback wrote stays written, in the lines it wrote it from.
LEMMA WrittenStay ==
  ASSUME RowInv, ProgressInv, [Next]_vars
  PROVE  /\ WrittenLines \subseteq WrittenLines'
         /\ \A rl \in WrittenLines : lines'[rl[1]] = lines[rl[1]]
  <1>0. /\ task \in [Refunder -> [Line -> TaskSteps]]
        /\ RefundRows \subseteq RefundRows'
        /\ \A r \in RefundRows : r \in Refunder /\ lines'[r] = lines[r]
    BY RowsStay DEF RowInv, RowTypeOK, RefundRows
  <1> DEFINE Kept == \A r \in RefundRows, l \in Line :
                        task[r][l] \in {"save", "saved", "lost"} =>
                          task'[r][l] \in {"save", "saved", "lost"}
  <1>1. ASSUME NEW r \in Refunder, RefundStepsOf(r) PROVE Kept
    <2>1. CASE RefundInsert(r)
      <3>1. r \notin RefundRows /\ \A s \in Refunder : s # r => task'[s] = task[s]
        BY <1>0, <2>1 DEF RefundInsert, RefundRows, ProgressInv
      <3> QED
        BY <1>0, <3>1
    <2>2. CASE RefundDies(r)
      BY <1>0, <2>2 DEF RefundDies, Pending
    <2>3. ASSUME NEW l \in Line, TaskUpdate(r, l) \/ TaskSave(r, l) PROVE Kept
      <3>1. \E t \in {"save", "saved"} : task' = [task EXCEPT ![r][l] = t]
        BY <2>3 DEF TaskUpdate, TaskSave
      <3> QED
        BY <1>0, <3>1
    <2>4. CASE UNCHANGED task
      BY <2>4
    <2> QED
      BY <1>1, <2>1, <2>2, <2>3, <2>4 DEF RefundStepsOf, RefundRead, RefundCount,
         RefundConnect, RefundStart,
         RefundPost, RefundCommit, RefundFails, RefundRollback
  <1>2. UNCHANGED refundVars => Kept
    BY DEF refundVars
  <1>3. Kept
    BY <1>1, <1>2 DEF Next, Finished, vars
  <1> QED
    BY <1>0, <1>3 DEF WrittenLines

\* A quantity explained once stays explained.
LEMMA TakenKept ==
  ASSUME RowInv, ProgressInv, LeftFacts, [Next]_vars, NEW q, TakenFrom(q)
  PROVE  TakenFrom(q)'
  <1>1. PICK i \in Item, S \in SUBSET WrittenLines :
          item[i].at # "none" /\ q = sold[i].quantity - SumFunctionOnSet(LineQuantity, S)
    BY DEF TakenFrom
  <1>2. /\ S \in SUBSET WrittenLines'
        /\ \A rl \in S : lines'[rl[1]] = lines[rl[1]]
    BY WrittenStay
  <1>3. item'[i].at # "none"
    BY <1>1, RowKept
  <1>4. sold'[i] = sold[i]
    <2>1. ASSUME NEW j \in Item, AddItem(j) PROVE sold'[i] = sold[i]
      <3>1. i # j
        BY <1>1, <2>1 DEF AddItem, LeftFacts
      <3> QED
        BY <2>1, <3>1 DEF AddItem, RowInv, RowTypeOK
    <2> QED
      BY <2>1, SoldStep
  <1>5. /\ IsFiniteSet(S)
        /\ \A rl \in S : /\ rl \in Refunder \X Line
                         /\ LineQuantity[rl] \in Int
                         /\ LineQuantity[rl] = LineQuantity'[rl]
    <2>1. IsFiniteSet(Refunder \X Line)
      BY RefunderAssumption, RefundAssumption, FS_Product
    <2>2. S \subseteq Refunder \X Line
      BY DEF WrittenLines, RefundRows
    <2>3. \A rl \in S : rl[2] \in DOMAIN lines[rl[1]]
      BY DEF WrittenLines, RefundRows, ProgressInv
    <2>4. \A rl \in S : lines[rl[1]][rl[2]].quantity \in Int
      BY <2>2, <2>3 DEF RowInv, RefundFacts, LineFact
    <2> QED
      BY <1>2, <2>1, <2>2, <2>4, FS_Subset DEF LineQuantity
  <1>6. SumFunctionOnSet(LineQuantity, S) = SumFunctionOnSet(LineQuantity', S)
    BY <1>5, SumSame
  <1> QED
    BY <1>1, <1>2, <1>3, <1>4, <1>6 DEF TakenFrom

\* A callback takes its line's quantity off what the line had left.
LEMMA TakenMore ==
  ASSUME RowInv, ProgressInv, LeftFacts, [Next]_vars,
         NEW r \in Refunder, NEW l \in Line, TaskUpdate(r, l),
         TakenFrom(lines[r][l].remainingQuantity)
  PROVE  TakenFrom(LeftOf(lines[r][l]))'
  <1> DEFINE q == lines[r][l].remainingQuantity
             n == lines[r][l].quantity
             rl == <<r, l>>
  <1>1. /\ lines' = lines /\ sold' = sold /\ refund' = refund
        /\ task' = [task EXCEPT ![r][l] = "save"]
        /\ task[r][l] = "update"
    BY DEF TaskUpdate
  <1>2. q \in Int /\ n \in Int
    BY <1>1 DEF RowInv, RefundFacts, LineFact
  <1>3. PICK i \in Item, S \in SUBSET WrittenLines :
          item[i].at # "none" /\ q = sold[i].quantity - SumFunctionOnSet(LineQuantity, S)
    BY DEF TakenFrom
  <1>4. /\ rl \notin S
        /\ S \cup {rl} \in SUBSET WrittenLines'
    <2>1. r \in RefundRows' /\ rl \in RefundRows' \X Line
      BY <1>1 DEF RefundRows, ProgressInv
    <2>2. task'[r][l] = "save"
      BY <1>1 DEF RowInv, RowTypeOK
    <2>3. rl \in WrittenLines'
      BY <2>1, <2>2 DEF WrittenLines
    <2>4. rl \notin WrittenLines
      BY <1>1 DEF WrittenLines
    <2> QED
      BY <2>3, <2>4, WrittenStay
  <1>5. item'[i].at # "none" /\ sold[i].quantity \in Int
    BY <1>3, RowKept DEF RowInv, RowTypeOK
  <1>6. IsFiniteSet(S) /\ \A x \in S \cup {rl} : LineQuantity[x] \in Int
    <2>1. IsFiniteSet(Refunder \X Line)
      BY RefunderAssumption, RefundAssumption, FS_Product
    <2>2. S \subseteq Refunder \X Line
      BY DEF WrittenLines, RefundRows
    <2>3. \A x \in S : x[2] \in DOMAIN lines[x[1]]
      BY DEF WrittenLines, RefundRows, ProgressInv
    <2>4. \A x \in S : lines[x[1]][x[2]].quantity \in Int
      BY <2>2, <2>3 DEF RowInv, RefundFacts, LineFact
    <2> QED
      BY <1>2, <2>1, <2>2, <2>4, FS_Subset DEF LineQuantity
  <1>7. SumFunctionOnSet(LineQuantity, S \cup {rl})
          = LineQuantity[rl] + SumFunctionOnSet(LineQuantity, S)
    BY <1>4, <1>6, SumAdd
  <1>8. SumFunctionOnSet(LineQuantity, S) \in Int
    BY <1>6, SumType
  <1>9. LineQuantity[rl] = n /\ LineQuantity' = LineQuantity
    BY <1>1 DEF LineQuantity
  <1> HIDE DEF q, n, rl
  <1>10. q - n = sold[i].quantity - SumFunctionOnSet(LineQuantity, S \cup {rl})
    BY <1>2, <1>3, <1>5, <1>7, <1>8, <1>9
  <1>11. LeftOf(lines[r][l])' = q - n
    BY <1>1 DEF LeftOf, q, n
  <1> QED
    BY <1>1, <1>4, <1>5, <1>9, <1>10, <1>11 DEF TakenFrom

LEMMA RemainderInit == Init => RemainderInv
  BY DEF Init, TablesInit, ServiceInit, RefundInit, RemainderInv, NoItem, NoLines

LEMMA RemainderStep ==
  RowInv /\ ProgressInv /\ LeftFacts /\ RemainderInv /\ [Next]_vars => RemainderInv'
  <1> SUFFICES ASSUME RowInv, ProgressInv, LeftFacts, RemainderInv, [Next]_vars
               PROVE  RemainderInv'
    OBVIOUS
  <1>0. /\ item \in [Item -> ItemRow]
        /\ \A i \in Item : item[i] \in ItemRow
    BY DEF RowInv, RowTypeOK
  <1> DEFINE Now(q) ==
               \E i \in Item, S \in SUBSET WrittenLines' :
                  /\ item'[i].at # "none"
                  /\ q = sold'[i].quantity - SumFunctionOnSet(LineQuantity', S)
  <1>1. \A q : TakenFrom(q) => Now(q)
    BY TakenKept DEF TakenFrom
  <1> HIDE DEF Now
  <1>2. /\ \A i \in Item : item[i].at # "none" => TakenFrom(item[i].remainingQuantity)
        /\ \A e \in Editor : editStep[e] \in {"reload", "save"} =>
              TakenFrom(editItem[e].remainingQuantity)
        /\ \A r \in Refunder : \A l \in DOMAIN lines[r] :
              TakenFrom(lines[r][l].remainingQuantity)
    BY DEF RemainderInv
  <1>3. ASSUME NEW i \in Item, item'[i].at # "none" PROVE Now(item'[i].remainingQuantity)
    <2>1. CASE item'[i].remainingQuantity = item[i].remainingQuantity /\ item[i].at # "none"
      BY <1>1, <1>2, <2>1
    <2>2. CASE AddItem(i)
      <3>1. PICK price \in PriceOf[addCart[i].product] :
               /\ item' = [item EXCEPT ![i] = NewItem(addCart[i], price)]
               /\ sold' = [sold EXCEPT ![i] = [quantity |-> addCart[i].quantity, price |-> price]]
        BY <2>2 DEF AddItem
      <3>2. /\ addCart \in Cart /\ i \in DOMAIN addCart
            /\ sold \in [Item -> [quantity : Nat, price : Nat]]
        BY <2>2 DEF AddItem, RowInv, AddFacts, RowTypeOK
      <3>3. addCart[i].quantity \in Nat
        BY <3>1, <3>2, NewItemType
      <3>4. item'[i].remainingQuantity = sold'[i].quantity /\ sold'[i].quantity \in Nat
        BY <1>0, <3>1, <3>2, <3>3 DEF NewItem
      <3>5. SumFunctionOnSet(LineQuantity', {}) = 0
        BY SumEmpty
      <3>6. item'[i].remainingQuantity
              = sold'[i].quantity - SumFunctionOnSet(LineQuantity', {})
        BY <3>4, <3>5
      <3>7. {} \in SUBSET WrittenLines'
        OBVIOUS
      <3> QED
        BY <1>3, <3>6, <3>7 DEF Now
    <2>3. ASSUME NEW e \in Editor, EditSaveItem(e) PROVE Now(item'[i].remainingQuantity)
      <3> DEFINE k == editDto[e].transactionItemId
                 row == item[k]
                 mem == editItem[e]
                 Written(c) == IF c \in editDirty[e] THEN mem[c] ELSE row[c]
                 orphan == [mem EXCEPT !.owned = FALSE]
                 updated == [row EXCEPT
                     !.at = Written("at"), !.product = Written("product"),
                     !.quantity = Written("quantity"), !.value = Written("value"),
                     !.discount = Written("discount"), !.netPrice = Written("netPrice"),
                     !.remainingQuantity = Written("remainingQuantity"),
                     !.remainingAmount = Written("remainingAmount"),
                     !.isRefund = Written("isRefund")]
      <3>1. /\ k \in Item /\ mem \in ItemRow /\ row \in ItemRow
            /\ row.at # "none" /\ editStep[e] = "save"
        BY <2>3 DEF EditSaveItem, RowInv, RowTypeOK, EditFacts
      <3>2. \/ item' = [item EXCEPT ![k] = orphan]
            \/ item' = item
            \/ item' = [item EXCEPT ![k] = updated]
        BY <2>3 DEF EditSaveItem
      <3>3. orphan.remainingQuantity = mem.remainingQuantity
        BY <3>1 DEF ItemRow
      <3>4. updated.remainingQuantity = Written("remainingQuantity")
        <4> HIDE DEF Written, row
        <4> QED
          BY <3>1 DEF ItemRow
      <3>5. Written("remainingQuantity") \in {mem.remainingQuantity, row.remainingQuantity}
        OBVIOUS
      <3> HIDE DEF orphan, updated, Written
      <3>6. \/ item'[i] = item[i]
            \/ /\ i = k
               /\ item'[i].remainingQuantity
                    \in {mem.remainingQuantity, row.remainingQuantity}
        BY <1>0, <3>1, <3>2, <3>3, <3>4, <3>5
      <3>7. TakenFrom(mem.remainingQuantity) /\ TakenFrom(row.remainingQuantity)
        BY <1>2, <3>1
      <3> QED
        BY <1>1, <1>2, <1>3, <3>6, <3>7
    <2>4. ASSUME NEW r \in Refunder, NEW l \in Line, TaskUpdate(r, l)
          PROVE  Now(item'[i].remainingQuantity)
      <3> DEFINE line == lines[r][l]
                 left == LeftOf(line)
                 rest == (line.remainingAmount \div line.remainingQuantity) * left
      <3>1. \/ item'[i] = item[i]
            \/ item'[i] = [item[i] EXCEPT !.remainingQuantity = left,
                             !.remainingAmount = rest, !.isRefund = (left = 0)]
        BY <2>4 DEF TaskUpdate
      <3>2. l \in DOMAIN lines[r] /\ lines' = lines
        BY <2>4 DEF TaskUpdate, RowInv, RefundFacts
      <3>3. TakenFrom(left)'
        BY <1>2, <2>4, <3>2, TakenMore
      <3>4. Now(left)
        BY <3>2, <3>3 DEF LeftOf, TakenFrom, Now
      <3> HIDE DEF rest, left
      <3>5. item'[i] = item[i] \/ item'[i].remainingQuantity = left
        BY <1>0, <3>1 DEF ItemRow
      <3> QED
        BY <1>1, <1>2, <1>3, <3>4, <3>5
    <2>5. CASE item[i].at = "none"
      BY <1>3, <2>2, <2>5, RowMade
    <2>6. ASSUME NEW j \in Item, AddItem(j), i # j
          PROVE  item'[i].remainingQuantity = item[i].remainingQuantity
      BY <1>0, <2>6 DEF AddItem
    <2> QED
      BY <2>1, <2>2, <2>3, <2>4, <2>5, <2>6, ItemStep
  <1>4. ASSUME NEW e \in Editor, editStep'[e] \in {"reload", "save"}
        PROVE  Now(editItem'[e].remainingQuantity)
    <2>1. CASE EditLoadItem(e)
      <3> DEFINE i == editDto[e].transactionItemId
                 p == IF editDto[e].product = Null THEN item[i].product
                      ELSE editDto[e].product
      <3>1. /\ i \in Item /\ editDto[e] \in EditDto
            /\ editItem \in [Editor -> ItemRow]
            /\ editStep \in [Editor -> EditSteps]
        BY <2>1 DEF EditLoadItem, RowInv, RowTypeOK, EditFacts
      <3>2. item[i].at = "live" /\ item[i].product \in Product
        BY <1>4, <2>1, <3>1 DEF EditLoadItem, RowInv, ItemFacts
      <3>3. PICK price \in PriceOf[p] :
              editItem' = [editItem EXCEPT ![e] = Amended(item[i], editDto[e], price)]
        BY <2>1, <3>2 DEF EditLoadItem
      <3>4. Amended(item[i], editDto[e], price).remainingQuantity = item[i].remainingQuantity
        BY <1>0, <3>1, <3>2, AmendedType
      <3> QED
        BY <1>1, <1>2, <3>1, <3>2, <3>3, <3>4
    <2>2. CASE editStep[e] \in {"reload", "save"} /\ editItem'[e] = editItem[e]
      BY <1>1, <1>2, <2>2
    <2> QED
      BY <1>4, <2>1, <2>2, EditItemStep
  <1>5. ASSUME NEW r \in Refunder, NEW l \in DOMAIN lines'[r]
        PROVE  Now(lines'[r][l].remainingQuantity)
    <2>1. CASE lines' = lines
      BY <1>1, <1>2, <1>5, <2>1
    <2>2. ASSUME NEW s \in Refunder, RefundRead(s) PROVE Now(lines'[r][l].remainingQuantity)
      <3>1. PICK dto \in RefundDto, first \in [Product -> Item] :
              /\ \/ lines' = [lines EXCEPT ![s] = NoLines]
                 \/ lines' = [lines EXCEPT ![s] =
                                [k \in DOMAIN dto |->
                                   ValidLine(dto[k], item[first[dto[k].product]])]]
              /\ lines'[s] # NoLines =>
                   \A k \in DOMAIN dto : first[dto[k].product] \in LiveItems
        BY <2>2 DEF RefundRead, RowInv, RefundFacts
      <3>2. DOMAIN lines = Refunder
        BY DEF RowInv, RefundFacts
      <3>3. CASE r # s
        <4>1. lines'[r] = lines[r]
          BY <3>1, <3>2, <3>3
        <4> QED
          BY <1>1, <1>2, <1>5, <4>1
      <3>4. CASE r = s
        <4>1. lines'[r] # NoLines
          BY <1>5 DEF NoLines
        <4>2. lines'[r] = [k \in DOMAIN dto |-> ValidLine(dto[k], item[first[dto[k].product]])]
          BY <3>1, <3>2, <3>4, <4>1
        <4>3. /\ l \in DOMAIN dto
              /\ first[dto[l].product] \in LiveItems
              /\ lines'[r][l].remainingQuantity
                   = item[first[dto[l].product]].remainingQuantity
          <5>1. l \in DOMAIN dto /\ first[dto[l].product] \in LiveItems
            BY <1>5, <3>1, <3>4, <4>1, <4>2
          <5>2. lines'[r][l] = ValidLine(dto[l], item[first[dto[l].product]])
            BY <4>2, <5>1
          <5> QED
            BY <5>1, <5>2 DEF ValidLine
        <4> QED
          BY <1>1, <1>2, <4>3 DEF LiveItems
      <3> QED
        BY <3>3, <3>4
    <2> QED
      BY <2>1, <2>2, LinesStep
  <1> QED
    BY <1>3, <1>4, <1>5 DEF RemainderInv, TakenFrom, Now

\* What remains of a line is always what some line was sold with less what
\* some of the refunds with a row took back, in any interleaving.
THEOREM RemaindersExplained == Spec => []RemainderExplained
  <1>1. RemainderInv => RemainderExplained
    BY DEF RemainderInv, TakenFrom, RemainderExplained
  <1> QED
    BY <1>1, InitRowInv, RowInvStep, ProgressInit, ProgressStep, LeftInit, LeftStep,
       RemainderInit, RemainderStep, PTL DEF Spec

-----------------------------------------------------------------------------
(* The stored total, with one request at a time and no fault.              *)

\* Nothing fails where no fault is allowed.
NoFault == faults = 0

LEMMA FaultInit == Init => NoFault
  BY DEF Init, TablesInit, NoFault

LEMMA FaultStep == MaxFaults = 0 /\ NoFault /\ [Next]_vars => NoFault'
  <1> SUFFICES ASSUME MaxFaults = 0, NoFault, [Next]_vars PROVE faults' = faults
    BY DEF NoFault
  <1> USE DEF NoFault, Fault, tableVars, rowVars
  <1>1. ASSUME AddStepsOf PROVE faults' = faults
    BY <1>1 DEF AddStepsOf, AddSave, AddItem, AddSum, AddTotals, AddFails
  <1>2. ASSUME NEW e \in Editor, EditStepsOf(e) PROVE faults' = faults
    BY <1>2 DEF EditStepsOf, EditRead, EditLoadItem, EditReload, EditSaveItem, EditSum,
       EditTotals, EditDrop, EditHeaderReload, EditHeaderSave, EditFails
  <1>3. ASSUME NEW d \in Deleter, DeleteStepsOf(d) PROVE faults' = faults
    BY <1>3 DEF DeleteStepsOf, DeleteRead, DeleteMark, DeleteRemove, DeleteFails
  <1>4. ASSUME NEW r \in Refunder, RefundStepsOf(r) PROVE faults' = faults
    <2>1. RefundRead(r) => faults' = faults
      BY DEF RefundRead
    <2>2. \A l \in Line : TaskUpdate(r, l) => faults' = faults
      BY DEF TaskUpdate
    <2> QED
      BY <1>4, <2>1, <2>2 DEF RefundStepsOf, RefundCount, RefundConnect, RefundStart,
         RefundInsert,
         TaskSave, RefundPost, RefundCommit, RefundFails, RefundRollback, RefundDies
  <1>5. ASSUME UNCHANGED vars PROVE faults' = faults
    BY <1>5 DEF vars
  <1> QED
    BY <1>1, <1>2, <1>3, <1>4, <1>5 DEF Next, Finished

\* An edit under way is the only request under way.
LEMMA EditAlone ==
  ASSUME SerialInv, NEW e \in Editor, EditBusy(e)
  PROVE  /\ Open = {<<"edit", e>>}
         /\ \A f \in Editor : EditBusy(f) => f = e
         /\ \A d \in Deleter : ~DeleteBusy(d)
         /\ \A r \in Refunder : ~RefundBusy(r)
         /\ addStep \in {"ok", "error"}
  <1>1. <<"edit", e>> \in Open
    BY DEF Open
  <1>2. Open = {<<"edit", e>>}
    BY <1>1 DEF SerialInv
  <1>3. \A f \in Editor : EditBusy(f) => <<"edit", f>> \in Open
    BY DEF Open
  <1>4. \A d \in Deleter : DeleteBusy(d) => <<"delete", d>> \in Open
    BY DEF Open
  <1>5. \A r \in Refunder : RefundBusy(r) => <<"refund", r>> \in Open
    BY DEF Open
  <1> QED
    BY <1>1, <1>2, <1>3, <1>4, <1>5 DEF SerialInv

\* Whatever began in its turn or is under way, no edit beside it is.
LEMMA NoEditBeside ==
  ASSUME MaxOpen = 1, SerialInv,
         \/ AddStepsOf
         \/ \E d \in Deleter : DeleteStepsOf(d)
         \/ \E r \in Refunder : RefundStepsOf(r)
  PROVE  \A e \in Editor : ~EditBusy(e)
  <1> SUFFICES ASSUME NEW e \in Editor, EditBusy(e) PROVE FALSE
    OBVIOUS
  <1>1. Open # {} /\ addStep \in {"ok", "error"}
    BY EditAlone
  <1>2. ~Turn
    BY <1>1, TurnAlone
  <1>3. ~AddStepsOf
    BY <1>1 DEF AddStepsOf, AddSave, AddItem, AddSum, AddTotals, AddFails
  <1>4. ASSUME NEW d \in Deleter, DeleteStepsOf(d) PROVE FALSE
    <2>1. DeleteBusy(d)
      BY <1>2, <1>4 DEF DeleteStepsOf, DeleteMark, DeleteRemove, DeleteFails, DeleteBusy
    <2> QED
      BY <2>1, EditAlone
  <1>5. ASSUME NEW r \in Refunder, RefundStepsOf(r) PROVE FALSE
    <2>1. RefundBusy(r)
      BY <1>2, <1>5 DEF RefundStepsOf, RefundCount, RefundConnect, RefundStart,
         RefundBusy, Pending,
         RefundInsert, TaskUpdate, TaskSave, RefundPost, RefundCommit, RefundFails,
         RefundRollback, RefundDies
    <2> QED
      BY <2>1, EditAlone
  <1> QED
    BY <1>3, <1>4, <1>5

\* An edit's step is the only edit's.
LEMMA NoOtherEdit ==
  ASSUME MaxOpen = 1, SerialInv, NEW e \in Editor, EditStepsOf(e), NEW f \in Editor, f # e
  PROVE  ~EditBusy(f)
  <1>1. EditBusy(f) => ~Turn
    BY EditAlone, TurnAlone
  <1>2. EditBusy(f) => ~EditBusy(e)
    BY EditAlone
  <1>3. Turn \/ EditBusy(e)
    BY DEF EditStepsOf, EditRead, EditLoadItem, EditReload, EditSaveItem, EditBusy,
       EditSum, EditTotals, EditDrop, EditHeaderReload, EditHeaderSave, EditFails
  <1> QED
    BY <1>1, <1>2, <1>3

\* Nothing but POST /transaction and the save of a header sets a sale live.
LEMMA LiveWrites ==
  ASSUME RowInv, [Next]_vars
  PROVE  \/ txn'.at = txn.at
         \/ AddSave /\ addStep = "idle"
         \/ \E e \in Editor : EditHeaderSave(e)
         \/ \E d \in Deleter : DeleteMark(d) /\ txn'.at # "live"
         \/ \E d \in Deleter : DeleteRemove(d) /\ txn'.at = "gone"
  <1> USE DEF tableVars, rowVars
  <1>1. ASSUME AddStepsOf PROVE txn'.at = txn.at \/ (AddSave /\ addStep = "idle")
    BY <1>1 DEF AddStepsOf, AddSave, AddItem, AddSum, AddTotals, AddFails
  <1>2. ASSUME NEW e \in Editor, EditStepsOf(e) PROVE txn'.at = txn.at \/ EditHeaderSave(e)
    BY <1>2 DEF EditStepsOf, EditRead, EditLoadItem, EditReload, EditSaveItem, EditSum,
       EditTotals, EditDrop, EditHeaderReload, EditFails
  <1>3. ASSUME NEW d \in Deleter, DeleteStepsOf(d)
        PROVE  \/ txn'.at = txn.at
               \/ DeleteMark(d) /\ txn'.at # "live"
               \/ DeleteRemove(d) /\ txn'.at = "gone"
    <2>1. DeleteMark(d) => txn'.at # "live" \/ txn'.at = txn.at
      BY DEF DeleteMark
    <2>2. DeleteRemove(d) => txn'.at = "gone" \/ txn'.at = txn.at
      BY DEF DeleteRemove, RowInv, RowTypeOK, TransactionRow
    <2> QED
      BY <1>3, <2>1, <2>2 DEF DeleteStepsOf, DeleteRead, DeleteFails
  <1>4. ASSUME NEW r \in Refunder, RefundStepsOf(r) PROVE txn'.at = txn.at
    <2>1. RefundRead(r) => txn' = txn
      BY DEF RefundRead
    <2>2. \A l \in Line : TaskUpdate(r, l) => txn' = txn
      BY DEF TaskUpdate
    <2>3. RefundPost(r) => txn'.at = txn.at
      BY DEF RefundPost
    <2> QED
      BY <1>4, <2>1, <2>2, <2>3 DEF RefundStepsOf, RefundCount, RefundConnect,
         RefundStart,
         RefundInsert, TaskSave, RefundCommit, RefundFails, RefundRollback, RefundDies
  <1>5. ASSUME UNCHANGED vars PROVE txn' = txn
    BY <1>5 DEF vars
  <1> QED
    BY <1>1, <1>2, <1>3, <1>4, <1>5 DEF Next, Finished

LEMMA InitLive == Init => EditsLive
  BY DEF Init, ServiceInit, EditsLive, EditBusy

LEMMA LiveStep ==
  MaxOpen = 1 /\ RowInv /\ SerialInv /\ EditsLive /\ [Next]_vars => EditsLive'
  <1> SUFFICES ASSUME MaxOpen = 1, RowInv, SerialInv, EditsLive, [Next]_vars
               PROVE  EditsLive'
    OBVIOUS
  <1>0. editStep \in [Editor -> EditSteps] /\ editDto \in [Editor -> EditDto \cup {Null}]
    BY DEF RowInv, RowTypeOK
  <1>1. ASSUME NEW e \in Editor, EditStepsOf(e), UNCHANGED refundVars PROVE EditsLive'
    <2>1. ASSUME NEW f \in Editor, f # e PROVE ~EditBusy(f)' /\ editStep'[f] # "drop"
      <3>1. ~EditBusy(f)
        BY <1>1, <2>1, NoOtherEdit
      <3>2. editStep'[f] = editStep[f]
        BY <1>0, <1>1, <2>1 DEF EditStepsOf, EditRead, EditLoadItem, EditReload,
           EditSaveItem, EditSum, EditTotals, EditDrop, EditHeaderReload, EditHeaderSave,
           EditFails
      <3> QED
        BY <3>1, <3>2 DEF EditBusy
    <2>2. /\ EditBusy(e)' => txn'.at = "live"
          /\ editStep'[e] = "drop" => editDto'[e].deleteItem # {}
      <3>1. CASE EditRead(e)
        <4>1. txn' = txn
          BY <3>1 DEF EditRead, tableVars, rowVars
        <4>2. PICK dto \in EditDto :
                /\ editDto' = [editDto EXCEPT ![e] = dto]
                /\ editStep' = [editStep EXCEPT ![e] =
                     IF txn.at # "live" THEN "error"
                     ELSE IF dto.transactionItemId # Null THEN "item"
                     ELSE IF dto.deleteItem # {} THEN "drop"
                     ELSE "headerReload"]
          BY <3>1 DEF EditRead
        <4>3. editDto'[e] = dto
          BY <1>0, <4>2
        <4>4. editStep'[e] = IF txn.at # "live" THEN "error"
                             ELSE IF dto.transactionItemId # Null THEN "item"
                             ELSE IF dto.deleteItem # {} THEN "drop"
                             ELSE "headerReload"
          BY <1>0, <4>2
        <4> QED
          BY <4>1, <4>3, <4>4 DEF EditBusy
      <3>2. CASE EditHeaderSave(e) \/ EditFails(e) \/ EditTotals(e)
        BY <1>0, <3>2 DEF EditHeaderSave, EditFails, EditTotals, EditBusy
      <3>3. CASE \/ EditLoadItem(e) \/ EditReload(e) \/ EditSaveItem(e) \/ EditSum(e)
                 \/ EditDrop(e) \/ EditHeaderReload(e)
        <4>1. EditBusy(e) /\ txn' = txn /\ editStep'[e] # "drop"
          BY <1>0, <3>3 DEF EditLoadItem, EditReload, EditSaveItem, EditSum,
             EditDrop, EditHeaderReload, EditBusy, tableVars, rowVars
        <4> QED
          BY <4>1 DEF EditsLive
      <3> QED
        BY <1>1, <3>1, <3>2, <3>3 DEF EditStepsOf
    <2> QED
      BY <2>1, <2>2 DEF EditsLive
  <1>2. ASSUME UNCHANGED editVars,
               \/ AddStepsOf
               \/ \E d \in Deleter : DeleteStepsOf(d)
               \/ \E r \in Refunder : RefundStepsOf(r)
        PROVE  EditsLive'
    <2>1. \A e \in Editor : ~EditBusy(e)
      BY <1>2, NoEditBeside
    <2> QED
      BY <1>2, <2>1 DEF EditsLive, EditBusy, editVars
  <1>3. ASSUME UNCHANGED vars PROVE EditsLive'
    BY <1>3 DEF vars, tableVars, rowVars, serviceVars, editVars, EditsLive, EditBusy
  <1>4. ASSUME AddStepsOf PROVE UNCHANGED editVars
    BY <1>4 DEF AddStepsOf, AddSave, AddItem, AddSum, AddTotals, AddFails
  <1>5. ASSUME NEW d \in Deleter, DeleteStepsOf(d) PROVE UNCHANGED editVars
    BY <1>5 DEF DeleteStepsOf, DeleteRead, DeleteMark, DeleteRemove, DeleteFails
  <1>6. UNCHANGED serviceVars => UNCHANGED editVars
    BY DEF serviceVars
  <1> QED
    BY <1>1, <1>2, <1>3, <1>4, <1>5, <1>6 DEF Next, Finished

\* What was struck off stays so.
LEMMA StruckStays ==
  ASSUME RowInv, [Next]_vars, Struck
  PROVE  Struck'
  <1>0. editStep \in [Editor -> EditSteps] /\ editDto \in [Editor -> EditDto \cup {Null}]
    BY DEF RowInv, RowTypeOK
  <1>1. PICK e \in Editor : editStep[e] # "idle" /\ editDto[e].deleteItem # {}
    BY DEF Struck
  <1>2. ASSUME NEW f \in Editor, EditStepsOf(f)
        PROVE  editStep'[e] # "idle" /\ editDto'[e] = editDto[e]
    BY <1>0, <1>1, <1>2 DEF EditStepsOf, EditRead, EditLoadItem, EditReload,
       EditSaveItem, EditSum, EditTotals, EditDrop, EditHeaderReload, EditHeaderSave,
       EditFails
  <1>3. ASSUME UNCHANGED editVars PROVE editStep'[e] # "idle" /\ editDto'[e] = editDto[e]
    BY <1>1, <1>3 DEF editVars
  <1>4. ASSUME AddStepsOf PROVE UNCHANGED editVars
    BY <1>4 DEF AddStepsOf, AddSave, AddItem, AddSum, AddTotals, AddFails
  <1>5. ASSUME NEW d \in Deleter, DeleteStepsOf(d) PROVE UNCHANGED editVars
    BY <1>5 DEF DeleteStepsOf, DeleteRead, DeleteMark, DeleteRemove, DeleteFails
  <1>6. UNCHANGED vars \/ UNCHANGED serviceVars => UNCHANGED editVars
    BY DEF vars, serviceVars
  <1>7. editStep'[e] # "idle" /\ editDto'[e] = editDto[e]
    BY <1>2, <1>3, <1>4, <1>5, <1>6 DEF Next, Finished
  <1> QED
    BY <1>1, <1>7 DEF Struck

\* The sum over the live lines is the same over lines with the same net prices.
LEMMA DetailSame ==
  ASSUME RowInv, LiveItems' = LiveItems,
         \A i \in LiveItems : item'[i].netPrice = item[i].netPrice
  PROVE  SumTransactionItemDetail' = SumTransactionItemDetail
  <1> DEFINE net == [i \in Item |-> item[i].netPrice]
             net2 == [i \in Item |-> item'[i].netPrice]
  <1>1. \A i \in LiveItems : net[i] = net2[i] /\ net[i] \in Int
    BY DEF LiveItems, RowInv, RowTypeOK, ItemRow
  <1>2. IsFiniteSet(LiveItems)
    BY ItemAssumption, FS_Subset DEF LiveItems
  <1> HIDE DEF net, net2
  <1>3. SumFunctionOnSet(net, LiveItems) = SumFunctionOnSet(net2, LiveItems)
    BY <1>1, <1>2, SumSame
  <1>4. SumTransactionItemDetail'
          = IF LiveItems' = {} THEN Null ELSE SumFunctionOnSet(net2, LiveItems')
    BY DEF SumTransactionItemDetail, net2
  <1>5. SumTransactionItemDetail
          = IF LiveItems = {} THEN Null ELSE SumFunctionOnSet(net, LiveItems)
    BY DEF SumTransactionItemDetail, net
  <1> QED
    BY <1>3, <1>4, <1>5

LEMMA InitTotal == Init => TotalInv
  BY DEF Init, TablesInit, TotalInv

\* A step that leaves the lines, the total and the requests that compute it
\* alone keeps what is known of the total.
LEMMA TotalKept ==
  ASSUME RowInv, TotalInv, [Next]_vars, txn'.at = "live" => txn.at = "live",
         UNCHANGED <<addVars, editVars, totalValue>>, LiveItems' = LiveItems,
         \A i \in LiveItems : item'[i].netPrice = item[i].netPrice
  PROVE  TotalInv'
  <1>1. SumTransactionItemDetail' = SumTransactionItemDetail
    BY DetailSame
  <1>2. Struck => Struck'
    BY StruckStays
  <1> QED
    BY <1>1, <1>2 DEF TotalInv, addVars, editVars

LEMMA AddTotal ==
  ASSUME MaxOpen = 1, RowInv, SerialInv, TotalInv, [Next]_vars, AddStepsOf
  PROVE  TotalInv'
  <1>1. \A e \in Editor : ~EditBusy(e)
    BY NoEditBeside
  <1>2. UNCHANGED editVars
    BY DEF AddStepsOf, AddSave, AddItem, AddSum, AddTotals, AddFails
  <1>3. Struck => Struck'
    BY StruckStays
  <1>4. \A e \in Editor : editStep'[e] \notin {"sum", "totals", "headerReload", "headerSave"}
    BY <1>1, <1>2 DEF EditBusy, editVars
  <1>5. CASE AddSave
    BY <1>4, <1>5 DEF AddSave, TotalInv
  <1>6. CASE \E i \in Item : AddItem(i)
    <2>1. PICK i \in Item : AddItem(i)
      BY <1>6
    <2>2. addCart \in Cart /\ i \in DOMAIN addCart /\ item \in [Item -> ItemRow]
      BY <2>1 DEF AddItem, RowInv, RowTypeOK, AddFacts
    <2>3. PICK price \in PriceOf[addCart[i].product] :
             item' = [item EXCEPT ![i] = NewItem(addCart[i], price)]
      BY <2>1 DEF AddItem
    <2>4. i \in LiveItems'
      BY <2>2, <2>3 DEF LiveItems, NewItem
    <2>5. addStep' \in {"items", "sum"}
      BY <2>1 DEF AddItem
    <2> QED
      BY <1>4, <2>4, <2>5 DEF TotalInv
  <1>7. CASE AddSum
    <2>1. /\ addSum' = SumTransactionItemDetail
          /\ addStep = "sum" /\ addStep' = "totals"
          /\ txn' = txn /\ item' = item
      BY <1>7 DEF AddSum, tableVars, rowVars
    <2>2. SumTransactionItemDetail' = SumTransactionItemDetail /\ LiveItems' = LiveItems
      BY <2>1 DEF SumTransactionItemDetail, LiveItems
    <2> QED
      BY <1>3, <1>4, <2>1, <2>2 DEF TotalInv
  <1>8. CASE AddTotals
    <2>1. /\ totalValue' = IF txn.at = "gone" THEN totalValue ELSE addSum
          /\ addStep = "totals" /\ addStep' = "ok"
          /\ txn' = txn /\ item' = item
      BY <1>8 DEF AddTotals, TransactionUpdate
    <2>2. SumTransactionItemDetail' = SumTransactionItemDetail /\ LiveItems' = LiveItems
      BY <2>1 DEF SumTransactionItemDetail, LiveItems
    <2> QED
      BY <1>3, <1>4, <2>1, <2>2 DEF TotalInv
  <1>9. CASE AddFails
    BY <1>4, <1>9 DEF AddFails, TotalInv
  <1> QED
    BY <1>5, <1>6, <1>7, <1>8, <1>9 DEF AddStepsOf

\* An edit that is alone saves a live line over a live line.
LEMMA SavedLive ==
  ASSUME RowInv, PriceInv, NEW e \in Editor, EditSaveItem(e)
  PROVE  LiveItems' = LiveItems
  <1> DEFINE i == editDto[e].transactionItemId
             row == item[i]
             mem == editItem[e]
             Written(c) == IF c \in editDirty[e] THEN mem[c] ELSE row[c]
             updated == [row EXCEPT
                 !.at = Written("at"), !.product = Written("product"),
                 !.quantity = Written("quantity"), !.value = Written("value"),
                 !.discount = Written("discount"), !.netPrice = Written("netPrice"),
                 !.remainingQuantity = Written("remainingQuantity"),
                 !.remainingAmount = Written("remainingAmount"),
                 !.isRefund = Written("isRefund")]
  <1>1. /\ i \in Item /\ row \in ItemRow /\ mem \in ItemRow
        /\ editStep[e] = "save"
        /\ mem.at = "live"
        /\ item \in [Item -> ItemRow]
    BY DEF EditSaveItem, RowInv, RowTypeOK, EditFacts
  <1>2. /\ row.at = "live"
        /\ editDirty[e] = {c \in ItemColumn : mem[c] # row[c]}
    BY <1>1 DEF PriceInv
  <1>3. "insert" \notin editDirty[e]
    BY <1>2 DEF ItemColumn
  <1>4. item' = [item EXCEPT ![i] = updated]
    BY <1>2, <1>3 DEF EditSaveItem
  <1>5. Written("at") = "live"
    BY <1>1, <1>2
  <1>6. updated.at = row.at /\ updated.owned = row.owned
    <2>1. row.at = "live"
      BY <1>2
    <2> HIDE DEF Written, row, mem
    <2> QED
      BY <1>1, <1>5, <2>1 DEF ItemRow
  <1> HIDE DEF updated
  <1>7. \A j \in Item : item'[j].at = item[j].at /\ item'[j].owned = item[j].owned
    BY <1>1, <1>4, <1>6
  <1> QED
    BY <1>7 DEF LiveItems

LEMMA EditTotal ==
  ASSUME MaxOpen = 1, MaxFaults = 0, NoFault, RowInv, SerialInv, PriceInv, AmountInv,
         EditsLive, TotalInv, [Next]_vars, NEW e \in Editor, EditStepsOf(e)
  PROVE  TotalInv'
  <1>0. /\ editStep \in [Editor -> EditSteps]
        /\ editSum \in [Editor -> Int \cup {Null}]
        /\ DOMAIN editSeen = Editor
        /\ item \in [Item -> ItemRow]
    BY DEF RowInv, RowTypeOK, EditFacts, AmountInv, SumTypeOK
  <1>1. Struck => Struck'
    BY StruckStays
  <1>2. ASSUME NEW f \in Editor, f # e
        PROVE  editStep[f] \in {"idle", "ok", "error"} /\ editStep'[f] = editStep[f]
    <2>1. ~EditBusy(f)
      BY <1>2, NoOtherEdit
    <2>2. editStep'[f] = editStep[f]
      BY <1>0, <1>2 DEF EditStepsOf, EditRead, EditLoadItem, EditReload,
         EditSaveItem, EditSum, EditTotals, EditDrop, EditHeaderReload, EditHeaderSave,
         EditFails
    <2> QED
      BY <2>1, <2>2 DEF EditBusy
  <1>3. addStep' = addStep /\ addSum' = addSum /\ addStep \in {"ok", "error"}
    <2>1. addStep' = addStep /\ addSum' = addSum
      BY DEF EditStepsOf, EditRead, EditLoadItem, EditReload, EditSaveItem, EditSum,
         EditTotals, EditDrop, EditHeaderReload, EditHeaderSave, EditFails, addVars
    <2>2. Turn \/ EditBusy(e)
      BY DEF EditStepsOf, EditRead, EditLoadItem, EditReload, EditSaveItem, EditBusy,
         EditSum, EditTotals, EditDrop, EditHeaderReload, EditHeaderSave, EditFails
    <2> QED
      BY <2>1, <2>2, TurnAlone, EditAlone
  <1> DEFINE Detail == SumTransactionItemDetail
             InStep(s) == editStep'[e] = s
             Before == ~Struck /\ txn.at = "live"
  \* What the step has to show of the edit and of the total.
  <1>4. ASSUME ~Struck' /\ txn'.at = "live" =>
                 /\ Before
                 /\ LiveItems' = LiveItems
                 /\ Detail' = Detail
                 /\ editStep'[e] \in {"sum", "totals"} \/ totalValue' = Detail \/ addStep = "error"
                 /\ editStep'[e] = "totals" => editSum'[e] = Detail
                 /\ editStep'[e] \in {"headerReload", "headerSave"} =>
                      editSeen'[e].totalValue = totalValue' /\ editSeen'[e].items = LiveItems
                 /\ editStep'[e] = "headerSave" =>
                      editSeen'[e].lose = {} /\ editSeen'[e].gain = {}
        PROVE  TotalInv'
    <2> HIDE DEF Detail
    <2>1. SUFFICES ASSUME ~Struck', txn'.at = "live"
          PROVE  /\ addStep' \in {"sum", "totals", "ok"} => LiveItems' # {}
                 /\ addStep' = "totals" => addSum' = Detail'
                 /\ addStep' = "ok" /\ (\A f \in Editor : editStep'[f] \notin {"sum", "totals"})
                      => totalValue' = Detail'
                 /\ \A f \in Editor :
                      /\ editStep'[f] = "totals" => editSum'[f] = Detail'
                      /\ editStep'[f] \in {"headerReload", "headerSave"} =>
                           editSeen'[f].totalValue = totalValue' /\ editSeen'[f].items = LiveItems'
                      /\ editStep'[f] = "headerSave" =>
                           editSeen'[f].lose = {} /\ editSeen'[f].gain = {}
      BY DEF TotalInv, Detail
    <2>2. addStep = "ok" => LiveItems # {}
      BY <1>4, <2>1 DEF TotalInv
    <2>3. ASSUME NEW f \in Editor
          PROVE  /\ editStep'[f] = "totals" => editSum'[f] = Detail'
                 /\ editStep'[f] \in {"headerReload", "headerSave"} =>
                      editSeen'[f].totalValue = totalValue' /\ editSeen'[f].items = LiveItems'
                 /\ editStep'[f] = "headerSave" =>
                      editSeen'[f].lose = {} /\ editSeen'[f].gain = {}
      BY <1>2, <1>4, <2>1
    <2> QED
      BY <1>3, <1>4, <2>1, <2>2, <2>3
  <1>5. ASSUME Before, editStep[e] \notin {"sum", "totals"}, addStep = "ok"
        PROVE  totalValue = Detail
    BY <1>2, <1>5 DEF TotalInv
  <1>6. ASSUME item' = item PROVE LiveItems' = LiveItems /\ Detail' = Detail
    BY <1>6 DEF LiveItems, SumTransactionItemDetail
  <1>7. CASE EditRead(e)
    <2>1. /\ txn' = txn /\ item' = item /\ totalValue' = totalValue
          /\ editStep[e] = "idle"
          /\ \E dto \in EditDto :
               /\ editStep' = [editStep EXCEPT ![e] =
                    IF txn.at # "live" THEN "error"
                    ELSE IF dto.transactionItemId # Null THEN "item"
                    ELSE IF dto.deleteItem # {} THEN "drop"
                    ELSE "headerReload"]
               /\ editSeen' = [editSeen EXCEPT ![e] =
                    [status |-> IF dto.status = Null THEN txn.status ELSE dto.status,
                     totalValue |-> totalValue, refund |-> refundTotal, items |-> LiveItems,
                     lose |-> {}, gain |-> {}]]
      BY <1>7 DEF EditRead, tableVars, rowVars
    <2>2. /\ editSeen'[e].totalValue = totalValue
          /\ editSeen'[e].items = LiveItems
          /\ editStep'[e] \in {"error", "item", "drop", "headerReload"}
      BY <1>0, <2>1
    <2> QED
      BY <1>1, <1>3, <1>4, <1>5, <1>6, <2>1, <2>2
  <1>8. CASE EditLoadItem(e) \/ EditReload(e)
    <2>1. /\ txn' = txn /\ item' = item /\ totalValue' = totalValue
          /\ editStep[e] \in {"item", "reload"}
          /\ editStep'[e] \in {"reload", "save", "error"}
      BY <1>0, <1>8 DEF EditLoadItem, EditReload, tableVars, rowVars
    <2> QED
      BY <1>1, <1>3, <1>4, <1>5, <1>6, <2>1
  <1>9. CASE EditSaveItem(e)
    <2>1. txn' = txn /\ editStep'[e] = "sum"
      BY <1>0, <1>9 DEF EditSaveItem
    <2>2. LiveItems' = LiveItems
      BY <1>9, SavedLive
    <2>3. \A f \in Editor :
            editStep'[f] \notin {"totals", "headerReload", "headerSave"}
      BY <1>2, <2>1
    <2> QED
      BY <1>1, <1>3, <2>1, <2>2, <2>3 DEF TotalInv
  <1>10. CASE EditSum(e)
    <2>1. /\ txn' = txn /\ item' = item
          /\ editStep'[e] = "totals"
          /\ editSum'[e] = Detail
      BY <1>0, <1>10 DEF EditSum, tableVars, rowVars
    <2> QED
      BY <1>1, <1>4, <1>6, <2>1
  <1>11. CASE EditTotals(e)
    <2>1. /\ txn' = txn /\ item' = item
          /\ editStep[e] = "totals" /\ editStep'[e] = "ok"
          /\ totalValue' = IF txn.at = "gone" THEN totalValue ELSE editSum[e]
      BY <1>0, <1>11 DEF EditTotals, TransactionUpdate
    <2>2. Before => editSum[e] = Detail
      BY <2>1 DEF TotalInv
    <2> QED
      BY <1>1, <1>4, <1>6, <2>1, <2>2
  <1>12. CASE EditDrop(e)
    <2>1. /\ editStep[e] = "drop" /\ editStep'[e] = "headerReload"
          /\ editDto' = editDto
      BY <1>0, <1>12 DEF EditDrop
    <2>2. Struck'
      BY <2>1 DEF EditsLive, Struck
    <2> QED
      BY <2>2 DEF TotalInv
  <1>13. CASE EditHeaderReload(e)
    <2>1. /\ txn' = txn /\ item' = item /\ totalValue' = totalValue
          /\ editStep[e] = "headerReload" /\ editStep'[e] = "headerSave"
          /\ editSeen' = [editSeen EXCEPT ![e] =
               [status |-> editSeen[e].status, totalValue |-> editSeen[e].totalValue,
                refund |-> editSeen[e].refund, items |-> editSeen[e].items,
                lose |-> LiveItems \ editSeen[e].items,
                gain |-> editSeen[e].items \ LiveItems]]
      BY <1>0, <1>13 DEF EditHeaderReload, tableVars, rowVars
    <2>2. /\ editSeen'[e].totalValue = editSeen[e].totalValue
          /\ editSeen'[e].items = editSeen[e].items
          /\ editSeen'[e].lose = LiveItems \ editSeen[e].items
          /\ editSeen'[e].gain = editSeen[e].items \ LiveItems
      BY <1>0, <2>1
    <2>3. Before => editSeen[e].totalValue = totalValue /\ editSeen[e].items = LiveItems
      BY <2>1 DEF TotalInv
    <2> QED
      BY <1>1, <1>3, <1>4, <1>5, <1>6, <2>1, <2>2, <2>3
  <1>14. CASE EditHeaderSave(e)
    <2>1. editStep[e] = "headerSave" /\ editStep'[e] = "ok"
      BY <1>0, <1>14 DEF EditHeaderSave
    <2>2. txn.at = "live"
      BY <2>1 DEF EditsLive, EditBusy
    <2>3. Before => /\ editSeen[e].totalValue = totalValue
                    /\ editSeen[e].lose = {} /\ editSeen[e].gain = {}
      BY <2>1 DEF TotalInv
    <2>4. Before => totalValue' = totalValue
      BY <1>14, <2>3 DEF EditHeaderSave
    <2>5. Before => item' = item
      <3>1. item' = [i \in Item |->
              IF i \in editSeen[e].lose THEN [item[i] EXCEPT !.owned = FALSE]
              ELSE IF i \in editSeen[e].gain /\ txn'.at # "gone"
                   THEN [item[i] EXCEPT !.owned = (item[i].at # "gone")]
              ELSE item[i]]
        BY <1>14 DEF EditHeaderSave
      <3>2. Before => \A i \in Item : item'[i] = item[i]
        BY <2>3, <3>1
      <3> QED
        BY <1>0, <3>1, <3>2
    <2> QED
      BY <1>1, <1>3, <1>4, <1>5, <1>6, <2>1, <2>2, <2>3, <2>4, <2>5
  <1>15. CASE EditFails(e)
    <2>1. KeyTaken(e)
      BY <1>15 DEF EditFails, Fault, NoFault
    <2>2. editStep[e] \in {"save", "headerSave"} /\ editStep'[e] = "error"
      BY <1>0, <1>15, <2>1 DEF KeyTaken, EditFails
    <2>3. txn' = txn /\ item' = item /\ totalValue' = totalValue
      BY <1>15 DEF EditFails, rowVars
    <2> QED
      BY <1>1, <1>3, <1>4, <1>5, <1>6, <2>2, <2>3
  <1> QED
    BY <1>7, <1>8, <1>9, <1>10, <1>11, <1>12, <1>13, <1>14, <1>15 DEF EditStepsOf

\* Neither deletions nor refunds change the total or what it is the sum of.
LEMMA DeleteTotal ==
  ASSUME RowInv, TotalInv, [Next]_vars, NEW d \in Deleter, DeleteStepsOf(d)
  PROVE  TotalInv'
  <1>1. CASE DeleteMark(d) \/ (DeleteRemove(d) /\ item' # item)
    <2>1. txn'.at # "live" \/ (DeleteMark(d) /\ txn.at = "live" /\ txn'.at # "live")
      BY <1>1 DEF DeleteMark, DeleteRemove, RowInv, RowTypeOK, TransactionRow
    <2> QED
      BY <2>1 DEF TotalInv
  <1>2. CASE ~(DeleteMark(d) \/ (DeleteRemove(d) /\ item' # item))
    <2>1. /\ UNCHANGED <<addVars, editVars, totalValue, item>>
          /\ txn'.at = "live" => txn.at = "live"
      BY <1>2 DEF DeleteStepsOf, DeleteRead, DeleteRemove, DeleteFails, tableVars, rowVars,
         RowInv, RowTypeOK, TransactionRow
    <2>2. LiveItems' = LiveItems
      BY <2>1 DEF LiveItems
    <2> QED
      BY <2>1, <2>2, TotalKept
  <1> QED
    BY <1>1, <1>2

LEMMA RefundTotal ==
  ASSUME RowInv, TotalInv, [Next]_vars, NEW r \in Refunder, RefundStepsOf(r),
         UNCHANGED serviceVars
  PROVE  TotalInv'
  <1>1. UNCHANGED <<addVars, editVars>>
    BY DEF serviceVars
  <1>2. ASSUME NEW l \in Line, TaskUpdate(r, l)
        PROVE  /\ txn' = txn /\ totalValue' = totalValue
               /\ LiveItems' = LiveItems
               /\ \A i \in LiveItems : item'[i].netPrice = item[i].netPrice
    <2> DEFINE line == lines[r][l]
               left == LeftOf(line)
               rest == (line.remainingAmount \div line.remainingQuantity) * left
    <2>1. \A i \in Item :
            \/ item'[i] = item[i]
            \/ item'[i] = [item[i] EXCEPT !.remainingQuantity = left,
                             !.remainingAmount = rest, !.isRefund = (left = 0)]
      BY <1>2 DEF TaskUpdate
    <2> HIDE DEF left, rest
    <2>2. \A i \in Item : item[i] \in ItemRow
      BY DEF RowInv, RowTypeOK
    <2>3. \A i \in Item : /\ item'[i].at = item[i].at
                          /\ item'[i].owned = item[i].owned
                          /\ item'[i].netPrice = item[i].netPrice
      BY <2>1, <2>2 DEF ItemRow
    <2>4. txn' = txn /\ totalValue' = totalValue
      BY <1>2 DEF TaskUpdate
    <2> QED
      BY <2>3, <2>4 DEF LiveItems
  <1>3. ASSUME ~\E l \in Line : TaskUpdate(r, l)
        PROVE  txn'.at = txn.at /\ totalValue' = totalValue /\ item' = item
    <2>1. RefundRead(r) => txn' = txn /\ totalValue' = totalValue /\ item' = item
      BY DEF RefundRead, tableVars, rowVars
    <2>2. RefundPost(r) => txn'.at = txn.at /\ totalValue' = totalValue /\ item' = item
      BY DEF RefundPost
    <2> QED
      BY <1>3, <2>1, <2>2 DEF RefundStepsOf, RefundCount, RefundConnect, RefundStart,
         RefundInsert,
         TaskSave, RefundCommit, RefundFails, RefundRollback, RefundDies, tableVars, rowVars
  <1>4. CASE \E l \in Line : TaskUpdate(r, l)
    BY <1>1, <1>2, <1>4, TotalKept
  <1>5. CASE ~\E l \in Line : TaskUpdate(r, l)
    <2>1. LiveItems' = LiveItems
      BY <1>3, <1>5 DEF LiveItems
    <2> QED
      BY <1>1, <1>3, <1>5, <2>1, TotalKept
  <1> QED
    BY <1>4, <1>5

LEMMA TotalStep ==
  /\ MaxOpen = 1 /\ MaxFaults = 0
  /\ NoFault /\ RowInv /\ SerialInv /\ PriceInv /\ AmountInv /\ EditsLive /\ TotalInv
  /\ [Next]_vars
  => TotalInv'
  <1> SUFFICES ASSUME MaxOpen = 1, MaxFaults = 0, NoFault, RowInv, SerialInv, PriceInv,
                      AmountInv, EditsLive, TotalInv, [Next]_vars
               PROVE  TotalInv'
    OBVIOUS
  <1>1. CASE UNCHANGED vars
    <2>1. /\ UNCHANGED <<addVars, editVars, totalValue, item>>
          /\ txn'.at = "live" => txn.at = "live"
      BY <1>1 DEF vars, tableVars, rowVars, serviceVars
    <2>2. LiveItems' = LiveItems
      BY <2>1 DEF LiveItems
    <2> QED
      BY <2>1, <2>2, TotalKept
  <1> QED
    BY <1>1, AddTotal, EditTotal, DeleteTotal, RefundTotal DEF Next, Finished

\* The sum of the net prices of priced lines is that of value less discount.
LEMMA TotalNet ==
  ASSUME RowInv, PriceInv, EditsLive, TotalInv
  PROVE  TotalMatchesLines
  <1> DEFINE net == [i \in Item |-> item[i].value - item[i].discount]
             price == [i \in Item |-> item[i].netPrice]
  <1> SUFFICES ASSUME Quiet, Sold, txn.at = "live", ~Struck
               PROVE  totalValue = SumFunctionOnSet(net, LiveItems)
    BY DEF TotalMatchesLines
  <1>1. \A e \in Editor : editStep[e] \notin {"sum", "totals"}
    <2>1. \A e \in Editor : EditBusy(e) => <<"edit", e>> \in Open
      BY DEF Open
    <2> QED
      BY <2>1 DEF Quiet, EditBusy
  <1>2. LiveItems # {} /\ totalValue = SumTransactionItemDetail
    BY <1>1 DEF TotalInv, Sold
  <1>3. \A i \in LiveItems : price[i] = net[i] /\ price[i] \in Int
    BY DEF LiveItems, RowInv, RowTypeOK, ItemRow, PriceInv, Priced
  <1>4. IsFiniteSet(LiveItems)
    BY ItemAssumption, FS_Subset DEF LiveItems
  <1>5. SumTransactionItemDetail = SumFunctionOnSet(price, LiveItems)
    BY <1>2 DEF SumTransactionItemDetail
  <1> HIDE DEF net, price
  <1>6. SumFunctionOnSet(price, LiveItems) = SumFunctionOnSet(net, LiveItems)
    BY <1>3, <1>4, SumSame
  <1> QED
    BY <1>2, <1>5, <1>6

\* When requests do not overlap and none fails half-way, the stored total is
\* the net price of the live lines, unless an edit struck a line off.
THEOREM TotalsMatch ==
  ASSUME MaxOpen = 1, MaxFaults = 0
  PROVE  Spec => []TotalMatchesLines
  <1>1. NoFault /\ [Next]_vars => NoFault'
    BY FaultStep
  <1>2. RowInv /\ SerialInv /\ [Next]_vars => SerialInv'
    BY SerialStep
  <1>3. RowInv /\ SerialInv /\ EditsLive /\ [Next]_vars => EditsLive'
    BY LiveStep
  <1>4. /\ NoFault /\ RowInv /\ SerialInv /\ PriceInv /\ AmountInv /\ EditsLive /\ TotalInv
        /\ [Next]_vars
        => TotalInv'
    BY TotalStep
  <1>5. RowInv /\ PriceInv /\ EditsLive /\ TotalInv => TotalMatchesLines
    BY TotalNet
  <1> QED
    BY <1>1, <1>2, <1>3, <1>4, <1>5, FaultInit, InitRowInv, InitSerial, InitPrice, AmountInit,
       InitLive, InitTotal, RowInvStep, PriceStep, AmountStep, PTL DEF Spec

-----------------------------------------------------------------------------
(* The ledger, with one request at a time, no fault and plain requests.    *)

\* What is known of the sale and its requests, inductive together.
LedgerBase ==
    /\ NoFault /\ RowInv /\ SerialInv /\ PriceInv /\ AmountInv
    /\ ProgressInv /\ LeftFacts /\ EditsLive /\ LedgerInv

\* Only the request that steps may be under way.
LEMMA StepAlone ==
  ASSUME MaxOpen = 1, SerialInv
  PROVE  /\ AddStepsOf => Open = {}
         /\ \A e \in Editor : EditStepsOf(e) => Open \subseteq {<<"edit", e>>}
         /\ \A d \in Deleter : DeleteStepsOf(d) => Open \subseteq {<<"delete", d>>}
         /\ \A r \in Refunder : RefundStepsOf(r) => Open \subseteq {<<"refund", r>>}
  <1>1. Turn => Open = {}
    BY TurnAlone
  <1>2. \A x \in Open : Open \subseteq {x}
    BY DEF SerialInv
  <1>3. ASSUME AddStepsOf PROVE Open = {}
    <2>1. addStep \notin {"ok", "error"}
      BY <1>3 DEF AddStepsOf, AddSave, AddItem, AddSum, AddTotals, AddFails
    <2> QED
      BY <2>1 DEF SerialInv
  <1>4. ASSUME NEW e \in Editor, EditStepsOf(e) PROVE Open \subseteq {<<"edit", e>>}
    <2>1. Turn \/ EditBusy(e)
      BY <1>4 DEF EditStepsOf, EditRead, EditLoadItem, EditReload, EditSaveItem, EditBusy,
         EditSum, EditTotals, EditDrop, EditHeaderReload, EditHeaderSave, EditFails
    <2>2. EditBusy(e) => <<"edit", e>> \in Open
      BY DEF Open
    <2> QED
      BY <1>1, <1>2, <2>1, <2>2
  <1>5. ASSUME NEW d \in Deleter, DeleteStepsOf(d) PROVE Open \subseteq {<<"delete", d>>}
    <2>1. Turn \/ DeleteBusy(d)
      BY <1>5 DEF DeleteStepsOf, DeleteRead, DeleteMark, DeleteRemove, DeleteFails, DeleteBusy
    <2>2. DeleteBusy(d) => <<"delete", d>> \in Open
      BY DEF Open
    <2> QED
      BY <1>1, <1>2, <2>1, <2>2
  <1>6. ASSUME NEW r \in Refunder, RefundStepsOf(r) PROVE Open \subseteq {<<"refund", r>>}
    <2>1. Turn \/ RefundBusy(r)
      BY <1>6 DEF RefundStepsOf, RefundCount, RefundConnect, RefundStart, RefundBusy,
         Pending,
         RefundInsert, TaskUpdate, TaskSave, RefundPost, RefundCommit, RefundFails,
         RefundRollback, RefundDies
    <2>2. RefundBusy(r) => <<"refund", r>> \in Open
      BY DEF Open
    <2> QED
      BY <1>1, <1>2, <2>1, <2>2
  <1> QED
    BY <1>3, <1>4, <1>5, <1>6

LEMMA WorkingOpen ==
  /\ \A e \in Editor : EditBusy(e) <=> <<"edit", e>> \in Open
  /\ \A d \in Deleter : DeleteBusy(d) <=> <<"delete", d>> \in Open
  /\ \A r \in Refunder : RefundBusy(r) <=> <<"refund", r>> \in Open
  /\ \A r \in Refunder : Working(r) => RefundBusy(r)
  <1>1. \A r \in Refunder : Working(r) => RefundBusy(r)
    BY DEF Working, BeforePost, RefundBusy, Pending
  <1>2. \A e : <<"edit", e>> \in Open <=> e \in Editor /\ EditBusy(e)
    BY DEF Open
  <1>3. \A d : <<"delete", d>> \in Open <=> d \in Deleter /\ DeleteBusy(d)
    BY DEF Open
  <1>4. \A r : <<"refund", r>> \in Open <=> r \in Refunder /\ RefundBusy(r)
    BY DEF Open
  <1> QED
    BY <1>1, <1>2, <1>3, <1>4

\* What another kind of request leaves alone.
LEMMA StepKeeps ==
  /\ AddStepsOf => UNCHANGED <<editVars, delStep>>
  /\ \A e \in Editor : EditStepsOf(e) => UNCHANGED <<addVars, delStep, sold, refund, held>>
  /\ \A d \in Deleter : DeleteStepsOf(d) => UNCHANGED <<addVars, editVars, sold, refund>>
  /\ \A r \in Refunder : RefundStepsOf(r) => UNCHANGED <<sold, totalValue>>
  <1> USE DEF tableVars, rowVars
  <1>1. AddStepsOf => UNCHANGED <<editVars, delStep>>
    BY DEF AddStepsOf, AddSave, AddItem, AddSum, AddTotals, AddFails
  <1>2. \A e \in Editor : EditStepsOf(e) => UNCHANGED <<addVars, delStep, sold, refund, held>>
    BY DEF EditStepsOf, EditRead, EditLoadItem, EditReload, EditSaveItem, EditSum,
       EditTotals, EditDrop, EditHeaderReload, EditHeaderSave, EditFails
  <1>3. \A d \in Deleter : DeleteStepsOf(d) => UNCHANGED <<addVars, editVars, sold, refund>>
    BY DEF DeleteStepsOf, DeleteRead, DeleteMark, DeleteRemove, DeleteFails
  <1>4. ASSUME NEW r \in Refunder, RefundStepsOf(r) PROVE UNCHANGED <<sold, totalValue>>
    <2>1. RefundRead(r) => UNCHANGED <<sold, totalValue>>
      BY DEF RefundRead
    <2>2. \A l \in Line : TaskUpdate(r, l) => UNCHANGED <<sold, totalValue>>
      BY DEF TaskUpdate
    <2> QED
      BY <1>4, <2>1, <2>2 DEF RefundStepsOf, RefundCount, RefundConnect, RefundStart,
         RefundInsert, TaskSave, RefundPost, RefundCommit, RefundFails, RefundRollback,
         RefundDies
  <1> QED
    BY <1>1, <1>2, <1>3, <1>4

\* An edit under way after a step is the one that stepped, if any did.
LEMMA EditTurn ==
  ASSUME MaxOpen = 1, RowInv, SerialInv, [Next]_vars, NEW e \in Editor, EditBusy(e)'
  PROVE  (EditStepsOf(e) /\ UNCHANGED refundVars) \/ UNCHANGED vars
  <1>1. ASSUME Open \subseteq {}, UNCHANGED editVars PROVE FALSE
    BY <1>1, WorkingOpen DEF EditBusy, editVars
  <1>2. ASSUME NEW x, x # <<"edit", e>>, Open \subseteq {x}, editStep'[e] = editStep[e]
        PROVE  FALSE
    BY <1>2, WorkingOpen DEF EditBusy
  <1>3. ASSUME NEW f \in Editor, f # e, EditStepsOf(f) PROVE FALSE
    <2>1. editStep'[e] = editStep[e]
      BY <1>3 DEF EditStepsOf, EditRead, EditLoadItem, EditReload,
         EditSaveItem, EditSum, EditTotals, EditDrop, EditHeaderReload, EditHeaderSave,
         EditFails, RowInv, RowTypeOK
    <2>2. <<"edit", f>> # <<"edit", e>>
      BY <1>3
    <2> QED
      BY <1>2, <1>3, <2>1, <2>2, StepAlone
  <1>4. ASSUME AddStepsOf PROVE FALSE
    BY <1>1, <1>4, StepAlone, StepKeeps
  <1>5. ASSUME NEW d \in Deleter, DeleteStepsOf(d) PROVE FALSE
    BY <1>2, <1>5, StepAlone, StepKeeps DEF editVars
  <1>6. ASSUME NEW r \in Refunder, RefundStepsOf(r), UNCHANGED serviceVars PROVE FALSE
    BY <1>2, <1>6, StepAlone DEF serviceVars, editVars
  <1> QED
    BY <1>3, <1>4, <1>5, <1>6 DEF Next, Finished

\* So is a refund.
LEMMA RefundTurn ==
  ASSUME MaxOpen = 1, RowInv, SerialInv, [Next]_vars, NEW r \in Refunder, RefundBusy(r)'
  PROVE  (RefundStepsOf(r) /\ UNCHANGED serviceVars) \/ UNCHANGED vars
  <1>1. ASSUME NEW x, x # <<"refund", r>>, Open \subseteq {x},
               refStep'[r] = refStep[r], task'[r] = task[r]
        PROVE  FALSE
    BY <1>1, WorkingOpen DEF RefundBusy, Pending
  <1>2. ASSUME NEW s \in Refunder, s # r, RefundStepsOf(s) PROVE FALSE
    <2>1. refStep'[r] = refStep[r] /\ task'[r] = task[r]
      BY <1>2 DEF RowInv, RowTypeOK, RefundStepsOf, RefundRead, RefundCount,
         RefundConnect, RefundStart,
         RefundInsert, TaskUpdate, TaskSave, RefundPost, RefundCommit, RefundFails,
         RefundRollback, RefundDies
    <2>2. <<"refund", s>> # <<"refund", r>>
      BY <1>2
    <2> QED
      BY <1>1, <1>2, <2>1, <2>2, StepAlone
  <1>3. ASSUME AddStepsOf, UNCHANGED refundVars PROVE FALSE
    <2>1. Open \subseteq {<<"edit", r>>}
      BY <1>3, StepAlone
    <2> QED
      BY <1>1, <1>3, <2>1 DEF refundVars
  <1>4. ASSUME NEW e \in Editor, EditStepsOf(e), UNCHANGED refundVars PROVE FALSE
    BY <1>1, <1>4, StepAlone DEF refundVars
  <1>5. ASSUME NEW d \in Deleter, DeleteStepsOf(d), UNCHANGED refundVars PROVE FALSE
    BY <1>1, <1>5, StepAlone DEF refundVars
  <1> QED
    BY <1>2, <1>3, <1>4, <1>5 DEF Next, Finished

\* No other request steps before POST /transaction has succeeded.
LEMMA AfterSale ==
  ASSUME MaxOpen = 1, SerialInv, BegunInv
  PROVE  /\ \A e \in Editor : EditStepsOf(e) => addStep = "ok"
         /\ \A d \in Deleter : DeleteStepsOf(d) => addStep = "ok"
         /\ \A r \in Refunder : RefundStepsOf(r) => addStep = "ok"
  <1>1. ASSUME NEW e \in Editor, EditStepsOf(e) PROVE addStep = "ok"
    <2>1. EditBusy(e) \/ Turn
      BY <1>1 DEF EditStepsOf, EditRead, EditLoadItem, EditReload, EditSaveItem, EditBusy,
         EditSum, EditTotals, EditDrop, EditHeaderReload, EditHeaderSave, EditFails
    <2>2. addStep \in {"ok", "error"}
      BY <2>1, TurnAlone, WorkingOpen DEF SerialInv
    <2> QED
      BY <2>2 DEF BegunInv
  <1>2. ASSUME NEW d \in Deleter, DeleteStepsOf(d) PROVE addStep = "ok"
    <2>1. DeleteBusy(d) \/ Turn
      BY <1>2 DEF DeleteStepsOf, DeleteRead, DeleteMark, DeleteRemove, DeleteFails, DeleteBusy
    <2>2. addStep \in {"ok", "error"}
      <3>1. DeleteBusy(d) => Open # {}
        BY WorkingOpen
      <3> QED
        BY <2>1, <3>1, TurnAlone DEF SerialInv
    <2> QED
      BY <2>2 DEF BegunInv
  <1>3. ASSUME NEW r \in Refunder, RefundStepsOf(r) PROVE addStep = "ok"
    <2>1. RefundBusy(r) \/ Turn
      BY <1>3 DEF RefundStepsOf, RefundCount, RefundConnect, RefundStart, RefundBusy,
         Pending,
         RefundInsert, TaskUpdate, TaskSave, RefundPost, RefundCommit, RefundFails,
         RefundRollback, RefundDies
    <2>2. addStep \in {"ok", "error"}
      BY <2>1, TurnAlone, WorkingOpen DEF SerialInv
    <2> QED
      BY <2>2 DEF BegunInv
  <1> QED
    BY <1>1, <1>2, <1>3

LEMMA BegunStep == MaxOpen = 1 /\ MaxFaults = 0 /\ LedgerBase /\ [Next]_vars => BegunInv'
  <1> SUFFICES ASSUME MaxOpen = 1, MaxFaults = 0, LedgerBase, [Next]_vars PROVE BegunInv'
    OBVIOUS
  <1>0. NoFault /\ RowInv /\ SerialInv /\ BegunInv
    BY DEF LedgerBase, LedgerInv
  <1>1. CASE AddStepsOf /\ UNCHANGED refundVars
    <2>1. UNCHANGED editVars /\ UNCHANGED refundVars
      BY <1>1, StepKeeps
    <2>2. addStep # "ok"
      BY <1>1 DEF AddStepsOf, AddSave, AddItem, AddSum, AddTotals, AddFails
    <2>3. ~AddFails
      BY <1>0 DEF AddFails, Fault, NoFault, BegunInv
    <2>4. /\ addStep' # "error"
          /\ addStep' \in {"items", "sum", "totals"} => txn'.at = "live"
      BY <1>0, <1>1, <2>3 DEF AddStepsOf, AddSave, AddItem, AddSum, AddTotals, BegunInv,
         tableVars, rowVars
    <2>5. addCart' \in Cart
      BY <1>0, <1>1, <2>3 DEF AddStepsOf, AddSave, AddItem, AddSum, AddTotals, BegunInv
    <2> QED
      BY <1>0, <2>1, <2>2, <2>4, <2>5 DEF BegunInv, editVars, refundVars
  <1>2. ASSUME addStep' = addStep, addCart' = addCart, addStep = "ok" PROVE BegunInv'
    BY <1>0, <1>2 DEF BegunInv
  <1>3. CASE UNCHANGED vars
    BY <1>0, <1>3 DEF BegunInv, vars, tableVars, rowVars, serviceVars, addVars, editVars,
       refundVars
  <1> QED
    BY <1>0, <1>1, <1>2, <1>3, AfterSale, StepKeeps DEF Next, Finished, addVars, serviceVars

\* An edit that is alone keeps the product and the remainder of its line.
LEMMA SavedKeeps ==
  ASSUME LedgerBase, NEW e \in Editor, EditSaveItem(e)
  PROVE  \A j \in Item : /\ item'[j].product = item[j].product
                         /\ item'[j].remainingQuantity = item[j].remainingQuantity
                         /\ item'[j].at = item[j].at
                         /\ item'[j].owned = item[j].owned
  <1> DEFINE i == editDto[e].transactionItemId
             row == item[i]
             mem == editItem[e]
             Written(c) == IF c \in editDirty[e] THEN mem[c] ELSE row[c]
             updated == [row EXCEPT
                 !.at = Written("at"), !.product = Written("product"),
                 !.quantity = Written("quantity"), !.value = Written("value"),
                 !.discount = Written("discount"), !.netPrice = Written("netPrice"),
                 !.remainingQuantity = Written("remainingQuantity"),
                 !.remainingAmount = Written("remainingAmount"),
                 !.isRefund = Written("isRefund")]
  <1>0. RowInv /\ PriceInv /\ HeldInv
    BY DEF LedgerBase, LedgerInv
  <1>1. /\ i \in Item /\ row \in ItemRow /\ mem \in ItemRow
        /\ editStep[e] = "save"
        /\ mem.at = "live"
        /\ item \in [Item -> ItemRow]
    BY <1>0 DEF EditSaveItem, RowInv, RowTypeOK, EditFacts
  <1>2. /\ row.at = "live"
        /\ editDirty[e] = {c \in ItemColumn : mem[c] # row[c]}
        /\ mem.product = row.product
        /\ mem.remainingQuantity = row.remainingQuantity
    BY <1>0, <1>1 DEF PriceInv, HeldInv
  <1>3. "insert" \notin editDirty[e]
    BY <1>2 DEF ItemColumn
  <1>4. item' = [item EXCEPT ![i] = updated]
    BY <1>2, <1>3 DEF EditSaveItem
  <1>5. /\ Written("at") = row.at
        /\ Written("product") = row.product
        /\ Written("remainingQuantity") = row.remainingQuantity
    BY <1>1, <1>2
  <1>6. /\ updated.at = row.at /\ updated.owned = row.owned
        /\ updated.product = row.product
        /\ updated.remainingQuantity = row.remainingQuantity
    <2> HIDE DEF Written, row, mem
    <2> QED
      BY <1>1, <1>5 DEF ItemRow
  <1> HIDE DEF updated
  <1> QED
    BY <1>1, <1>4, <1>6

\* The header that an edit saves owns the rows that it owned.
LEMMA HeaderKeeps ==
  ASSUME LedgerBase, NEW e \in Editor, EditHeaderSave(e)
  PROVE  /\ item' = item
         /\ totalValue' = totalValue /\ refundTotal' = refundTotal
         /\ txn.at = "live" /\ txn'.at = "live"
         /\ txn'.status \in {txn.status, editSeen[e].status}
  <1>0. RowInv /\ HeldInv /\ EditsLive
    BY DEF LedgerBase, LedgerInv
  <1>1. /\ editStep[e] = "headerSave"
        /\ item \in [Item -> ItemRow]
    BY <1>0 DEF EditHeaderSave, RowInv, RowTypeOK
  <1>2. /\ editSeen[e].totalValue = totalValue
        /\ editSeen[e].refund = refundTotal
        /\ editSeen[e].lose = {}
        /\ \A i \in editSeen[e].gain : i \in Item /\ item[i].owned /\ item[i].at # "gone"
        /\ txn.at = "live"
    BY <1>0, <1>1 DEF HeldInv, EditsLive, EditBusy
  <1>3. txn'.at = "live" /\ txn'.status \in {txn.status, editSeen[e].status}
    BY <1>2 DEF EditHeaderSave
  <1>4. totalValue' = totalValue /\ refundTotal' = refundTotal
    BY <1>2 DEF EditHeaderSave
  <1>5. item' = [i \in Item |->
          IF i \in editSeen[e].lose THEN [item[i] EXCEPT !.owned = FALSE]
          ELSE IF i \in editSeen[e].gain /\ txn'.at # "gone"
               THEN [item[i] EXCEPT !.owned = (item[i].at # "gone")]
          ELSE item[i]]
    BY DEF EditHeaderSave
  <1>6. ASSUME NEW i \in Item PROVE item'[i] = item[i]
    <2>1. CASE i \in editSeen[e].gain
      <3>1. item[i] \in ItemRow /\ item[i].owned = TRUE /\ item[i].at # "gone"
        BY <1>1, <1>2, <2>1 DEF ItemRow
      <3>2. item'[i] = [item[i] EXCEPT !.owned = TRUE]
        BY <1>2, <1>3, <1>5, <2>1, <3>1
      <3> QED
        BY <3>1, <3>2 DEF ItemRow
    <2>2. CASE i \notin editSeen[e].gain
      BY <1>2, <1>5, <2>2
    <2> QED
      BY <2>1, <2>2
  <1>7. item' = item
    BY <1>1, <1>5, <1>6
  <1> QED
    BY <1>2, <1>3, <1>4, <1>7

\* Row i is as it was, or was struck off or removed.
RowKeeps(i) ==
    /\ item'[i].product = item[i].product
    /\ item'[i].remainingQuantity = item[i].remainingQuantity
    /\ item'[i].owned = item[i].owned
    /\ item'[i].at # "none" => item[i].at # "none"
    /\ item'[i].at = "live" => item[i].at = "live"

\* Steps that sell a line or take back of one change what remains; no other
\* step does, nor the product of a row.
LEMMA RowsStep ==
  ASSUME LedgerBase, [Next]_vars
  PROVE  \/ \A i \in Item : RowKeeps(i)
         \/ \E i \in Item : AddItem(i)
         \/ \E r \in Refunder, l \in Line : TaskUpdate(r, l)
  <1>0. RowInv /\ \A i \in Item : item[i] \in ItemRow
    BY DEF LedgerBase, RowInv, RowTypeOK
  <1>1. CASE item' = item
    BY <1>1 DEF RowKeeps
  <1>2. ASSUME NEW e \in Editor, EditSaveItem(e) PROVE \A i \in Item : RowKeeps(i)
    BY <1>2, SavedKeeps DEF RowKeeps
  <1>3. ASSUME NEW e \in Editor, EditHeaderSave(e) PROVE item' = item
    BY <1>3, HeaderKeeps
  <1>4. ASSUME NEW e \in Editor, EditDrop(e) PROVE \A i \in Item : RowKeeps(i)
    <2>1. \A i \in Item : item'[i] = item[i] \/
                          (item[i].at = "live" /\ item'[i] = [item[i] EXCEPT !.at = "deleted"])
      BY <1>4 DEF EditDrop
    <2> QED
      BY <1>0, <2>1 DEF ItemRow, RowKeeps
  <1>5. ASSUME NEW d \in Deleter, DeleteRemove(d) PROVE \A i \in Item : RowKeeps(i)
    <2>1. CASE item' = item
      BY <2>1 DEF RowKeeps
    <2>2. CASE item' # item
      <3>1. \A i \in Item : item'[i] = item[i] \/
                            (item[i].owned /\ item'[i] = [item[i] EXCEPT !.at = "gone"])
        BY <1>5, <2>2 DEF DeleteRemove
      <3>2. \A i \in Item : item[i].owned => item[i].at # "none"
        BY <1>0 DEF RowInv, ItemFacts
      <3>3. ASSUME NEW i \in Item PROVE RowKeeps(i)
        <4>1. CASE item'[i] = item[i]
          BY <4>1 DEF RowKeeps
        <4>2. CASE item[i].owned /\ item'[i] = [item[i] EXCEPT !.at = "gone"]
          <5>1. item[i].at # "none"
            BY <3>2, <4>2
          <5>2. /\ item'[i].at = "gone"
                /\ item'[i].product = item[i].product
                /\ item'[i].remainingQuantity = item[i].remainingQuantity
                /\ item'[i].owned = item[i].owned
            BY <1>0, <4>2 DEF ItemRow
          <5> QED
            BY <5>1, <5>2 DEF RowKeeps
        <4> QED
          BY <3>1, <4>1, <4>2
      <3> QED
        BY <3>3
    <2> QED
      BY <2>1, <2>2
  <1> QED
    BY <1>1, <1>2, <1>3, <1>4, <1>5, ItemWritesOnly DEF ItemWrites

\* What a callback writes.
LEMMA UpdateRows ==
  ASSUME RowInv, NEW r \in Refunder, NEW l \in Line, TaskUpdate(r, l), NEW i \in Item
  PROVE  /\ item'[i].product = item[i].product
         /\ item'[i].owned = item[i].owned
         /\ item'[i].at = item[i].at
         /\ item'[i].remainingQuantity =
              IF /\ item[i].at \in {"live", "deleted"} /\ item[i].owned
                 /\ item[i].product = lines[r][l].product
              THEN LeftOf(lines[r][l])
              ELSE item[i].remainingQuantity
  <1> DEFINE line == lines[r][l]
             left == LeftOf(line)
             rest == (line.remainingAmount \div line.remainingQuantity) * left
             hit == /\ item[i].at \in {"live", "deleted"} /\ item[i].owned
                    /\ item[i].product = line.product
  <1>1. item'[i] = IF hit THEN [item[i] EXCEPT !.remainingQuantity = left,
                                  !.remainingAmount = rest, !.isRefund = (left = 0)]
                   ELSE item[i]
    BY DEF TaskUpdate
  <1>2. item[i] \in ItemRow
    BY DEF RowInv, RowTypeOK
  <1> HIDE DEF left, rest, hit
  <1>3. /\ item'[i].product = item[i].product
        /\ item'[i].owned = item[i].owned
        /\ item'[i].at = item[i].at
        /\ item'[i].remainingQuantity = IF hit THEN left ELSE item[i].remainingQuantity
    BY <1>1, <1>2 DEF ItemRow
  <1> QED
    BY <1>3 DEF hit, left

LEMMA CartStep == LedgerBase /\ [Next]_vars => CartInv'
  <1> SUFFICES ASSUME LedgerBase, [Next]_vars PROVE CartInv'
    OBVIOUS
  <1>0. /\ RowInv /\ LeftFacts /\ CartInv
        /\ item \in [Item -> ItemRow]
    BY DEF LedgerBase, LedgerInv, RowInv, RowTypeOK
  <1>1. addCart' = addCart \/ (AddSave /\ addStep = "idle" /\ item' = item)
    <2>1. AddStepsOf => addCart' = addCart \/ (AddSave /\ addStep = "idle" /\ item' = item)
      BY DEF AddStepsOf, AddSave, AddItem, AddSum, AddTotals, AddFails
    <2>2. UNCHANGED vars \/ UNCHANGED serviceVars => addCart' = addCart
      BY DEF vars, serviceVars, addVars
    <2> QED
      BY <2>1, <2>2, StepKeeps DEF Next, Finished, addVars
  <1>2. CASE AddSave /\ addStep = "idle" /\ item' = item
    BY <1>0, <1>2 DEF LeftFacts, CartInv
  <1>3. ASSUME addCart' = addCart,
               \A i \in Item : /\ item'[i].product = item[i].product
                               /\ item'[i].at # "none" => item[i].at # "none"
        PROVE  CartInv'
    BY <1>0, <1>3 DEF CartInv
  <1>4. ASSUME NEW i \in Item, AddItem(i) PROVE CartInv'
    <2>1. i \in DOMAIN addCart /\ addCart' = addCart
      BY <1>0, <1>4 DEF AddItem, RowInv, AddFacts
    <2>2. PICK price : item' = [item EXCEPT ![i] = NewItem(addCart[i], price)]
      BY <1>4 DEF AddItem
    <2>3. \A j \in Item : j # i => item'[j] = item[j]
      BY <2>2
    <2>4. item'[i] = NewItem(addCart[i], price)
      BY <1>0, <2>2
    <2>5. item'[i].product = addCart[i].product
      BY <2>4 DEF NewItem
    <2> QED
      BY <1>0, <2>1, <2>3, <2>5 DEF CartInv
  <1>5. ASSUME NEW r \in Refunder, NEW l \in Line, TaskUpdate(r, l)
        PROVE  \A i \in Item : /\ item'[i].product = item[i].product
                               /\ item'[i].at # "none" => item[i].at # "none"
    BY <1>0, <1>5, UpdateRows
  <1> QED
    BY <1>1, <1>2, <1>3, <1>4, <1>5, RowsStep DEF RowKeeps

\* No two rows have one product.
LEMMA OneRowEach ==
  ASSUME PlainRequests, BegunInv, LeftFacts, CartInv,
         NEW i \in Item, NEW j \in Item, item[i].at # "none", item[j].at # "none",
         item[i].product = item[j].product
  PROVE  i = j
  <1>1. addCart \in Cart
    BY DEF BegunInv, LeftFacts
  <1> QED
    BY <1>1 DEF CartInv, PlainRequests

LEMMA AmendedKeeps ==
  ASSUME NEW row \in ItemRow, row.product \in Product, NEW dto \in EditDto,
         dto.product = Null, NEW price \in PriceOf[row.product]
  PROVE  /\ Amended(row, dto, price).product = row.product
         /\ Amended(row, dto, price).remainingQuantity = row.remainingQuantity
  <1>1. price \in PriceOf[IF dto.product = Null THEN row.product ELSE dto.product]
    OBVIOUS
  <1>2. Amended(row, dto, price).remainingQuantity = row.remainingQuantity
    BY <1>1, AmendedType
  <1> DEFINE flagged == IF dto.isRefund = Null THEN row
                        ELSE [row EXCEPT !.isRefund = dto.isRefund]
             quantity == IF dto.quantity = Null THEN row.quantity ELSE dto.quantity
             value == price * quantity
             net == value - row.discount
  <1>3. flagged.product = row.product /\ "product" \in DOMAIN flagged
    BY DEF ItemRow
  <1>4. \/ Amended(row, dto, price) = flagged
        \/ Amended(row, dto, price)
             = [flagged EXCEPT !.product = row.product, !.quantity = quantity,
                               !.value = value, !.netPrice = net]
    BY DEF Amended
  <1> HIDE DEF flagged, quantity, value, net
  <1>5. Amended(row, dto, price).product = row.product
    BY <1>3, <1>4
  <1> QED
    BY <1>2, <1>5

\* What an edit holds is as stored, since nothing else is under way.
LEMMA HeldRows ==
  ASSUME PlainRequests, LedgerBase, [Next]_vars, NEW e \in Editor,
         editStep'[e] \in {"reload", "save"}
  PROVE  LET row == item'[editDto'[e].transactionItemId]
         IN  /\ editItem'[e].product = row.product
             /\ editItem'[e].remainingQuantity = row.remainingQuantity
  <1>0. RowInv /\ SerialInv /\ HeldInv
    BY DEF LedgerBase, LedgerInv
  <1>1. CASE editStep[e] \in {"reload", "save"} /\ editItem'[e] = editItem[e]
    <2>1. item' = item
      BY <1>0, <1>1, HeldAlone
    <2>2. editDto'[e] = editDto[e]
      BY <1>0, <1>1, HeldSame DEF EditReload
    <2> QED
      BY <1>0, <1>1, <2>1, <2>2 DEF HeldInv
  <1>2. CASE EditLoadItem(e)
    <2> DEFINE i == editDto[e].transactionItemId
    <2>1. /\ editStep[e] = "item" /\ editDto' = editDto /\ item' = item
          /\ editDto[e] \in EditDto /\ i \in Item
          /\ editItem \in [Editor -> ItemRow] /\ editStep \in [Editor -> EditSteps]
      BY <1>0, <1>2 DEF EditLoadItem, RowInv, RowTypeOK, EditFacts, tableVars, rowVars
    <2>2. item[i].at = "live"
      BY <1>2, <2>1 DEF EditLoadItem
    <2>3. item[i] \in ItemRow /\ item[i].product \in Product
      BY <1>0, <2>1, <2>2 DEF RowInv, RowTypeOK, ItemFacts
    <2>4. editDto[e].product = Null
      BY <2>1 DEF PlainRequests
    <2>5. PICK price \in PriceOf[item[i].product] :
            editItem' = [editItem EXCEPT ![e] = Amended(item[i], editDto[e], price)]
      BY <1>2, <2>2, <2>4 DEF EditLoadItem
    <2>6. editItem'[e] = Amended(item[i], editDto[e], price)
      BY <2>1, <2>5
    <2> QED
      BY <2>1, <2>3, <2>4, <2>6, AmendedKeeps
  <1> QED
    BY <1>0, <1>1, <1>2, EditItemStep

\* So are the columns of the header.
LEMMA HeldHeader ==
  ASSUME MaxOpen = 1, LedgerBase, [Next]_vars, NEW e \in Editor,
         editStep'[e] \in {"drop", "headerReload", "headerSave"}
  PROVE  /\ editSeen'[e].totalValue = totalValue'
         /\ editSeen'[e].refund = refundTotal'
         /\ LiveItems' \subseteq editSeen'[e].items
         /\ \A i \in editSeen'[e].items :
              i \in Item /\ item'[i].owned /\ item'[i].at # "gone"
         /\ editStep'[e] = "headerSave" =>
              editSeen'[e].lose = {} /\ editSeen'[e].gain \subseteq editSeen'[e].items
  <1>0. /\ RowInv /\ SerialInv /\ HeldInv
        /\ item \in [Item -> ItemRow]
        /\ editStep \in [Editor -> EditSteps]
        /\ DOMAIN editSeen = Editor
    BY DEF LedgerBase, LedgerInv, RowInv, RowTypeOK, EditFacts
  <1>1. EditBusy(e)'
    BY DEF EditBusy
  <1>2. CASE UNCHANGED vars
    BY <1>0, <1>2 DEF HeldInv, vars, tableVars, rowVars, serviceVars, editVars, LiveItems
  <1>3. CASE EditRead(e)
    <2>1. \E status : editSeen'[e] =
            [status |-> status, totalValue |-> totalValue, refund |-> refundTotal,
             items |-> LiveItems, lose |-> {}, gain |-> {}]
      BY <1>0, <1>3 DEF EditRead
    <2>2. UNCHANGED <<item, totalValue, refundTotal>> /\ editStep'[e] # "headerSave"
      BY <1>0, <1>3 DEF EditRead, tableVars, rowVars
    <2> QED
      BY <2>1, <2>2 DEF LiveItems
  <1>4. CASE EditDrop(e)
    <2>1. /\ editStep[e] = "drop" /\ editStep'[e] = "headerReload"
          /\ UNCHANGED <<editSeen, totalValue, refundTotal>>
      BY <1>0, <1>4 DEF EditDrop
    <2>2. \A i \in Item : item'[i] = item[i] \/
                          (item[i].at = "live" /\ item'[i] = [item[i] EXCEPT !.at = "deleted"])
      BY <1>4 DEF EditDrop
    <2>3. \A i \in Item : /\ item'[i].owned = item[i].owned
                          /\ item'[i].at = "live" => item[i].at = "live"
                          /\ item[i].at # "gone" => item'[i].at # "gone"
      <3> TAKE i \in Item
      <3>1. CASE item'[i] = item[i]
        BY <3>1
      <3>2. CASE item[i].at = "live" /\ item'[i] = [item[i] EXCEPT !.at = "deleted"]
        <4>1. item[i] \in ItemRow
          BY <1>0
        <4>2. item'[i].at = "deleted" /\ item'[i].owned = item[i].owned
          BY <3>2, <4>1 DEF ItemRow
        <4> QED
          BY <3>2, <4>2
      <3> QED
        BY <2>2, <3>1, <3>2
    <2> QED
      BY <1>0, <2>1, <2>3 DEF HeldInv, LiveItems
  <1>5. CASE EditHeaderReload(e)
    <2>1. /\ editStep[e] = "headerReload" /\ editStep'[e] = "headerSave"
          /\ UNCHANGED <<item, totalValue, refundTotal>>
      BY <1>0, <1>5 DEF EditHeaderReload, tableVars, rowVars
    <2>2. editSeen'[e] =
            [status |-> editSeen[e].status, totalValue |-> editSeen[e].totalValue,
             refund |-> editSeen[e].refund, items |-> editSeen[e].items,
             lose |-> LiveItems \ editSeen[e].items, gain |-> editSeen[e].items \ LiveItems]
      BY <1>0, <1>5 DEF EditHeaderReload
    <2> QED
      BY <1>0, <2>1, <2>2 DEF HeldInv, LiveItems
  <1>6. CASE \/ EditLoadItem(e) \/ EditReload(e) \/ EditSaveItem(e) \/ EditSum(e)
             \/ EditTotals(e) \/ EditHeaderSave(e) \/ EditFails(e)
    <2>1. editStep'[e] \notin {"drop", "headerReload", "headerSave"}
      BY <1>0, <1>6 DEF EditLoadItem, EditReload, EditSaveItem, EditSum, EditTotals,
         EditHeaderSave, EditFails
    <2> QED
      BY <2>1
  <1> QED
    BY <1>0, <1>1, <1>2, <1>3, <1>4, <1>5, <1>6, EditTurn DEF EditStepsOf

LEMMA HeldInvStep ==
  MaxOpen = 1 /\ PlainRequests /\ LedgerBase /\ [Next]_vars => HeldInv'
  BY HeldRows, HeldHeader DEF HeldInv

-----------------------------------------------------------------------------
(* A refund that is alone: what it validated is so until it has written.   *)

LEMMA UnitPrice ==
  ASSUME NEW price \in Nat, NEW quantity \in Nat, quantity > 0
  PROVE  (price * quantity) \div quantity = price
  OBVIOUS

\* Line l of a refund is what a live row has left, at a price of its product.
ReadFrom(line, i) ==
    /\ item[i].product = line.product
    /\ line.remainingQuantity = item[i].remainingQuantity
    /\ \E price \in PriceOf[line.product] : line.refundAmount = price * line.quantity

LEMMA LineRead ==
  ASSUME RowInv, PriceInv, AmountInv, NEW i \in LiveItems, NEW dto \in RefundDto,
         NEW l \in DOMAIN dto, item[i].product = dto[l].product
  PROVE  ReadFrom(ValidLine(dto[l], item[i]), i)
  <1>1. /\ i \in Item /\ item[i].at = "live"
        /\ item[i] \in ItemRow
        /\ item[i].product \in Product
    BY DEF LiveItems, RowInv, RowTypeOK, ItemFacts
  <1>2. /\ item[i].quantity \in Nat /\ item[i].quantity > 0
    BY <1>1 DEF AmountInv, ItemRow
  <1>3. PICK price \in PriceOf[item[i].product] : item[i].value = price * item[i].quantity
    BY <1>1 DEF PriceInv, Priced
  <1>4. price \in Nat
    BY <1>1, <1>3, PriceAssumption
  <1>5. item[i].value \div item[i].quantity = price
    BY <1>2, <1>3, <1>4, UnitPrice
  <1> QED
    BY <1>3, <1>5 DEF ReadFrom, ValidLine

\* A refund that may go on has read a live row for its only line.
ReadWell(r) ==
    /\ refStep'[r] = "count"
    /\ Refundable
    /\ \A l, m \in DOMAIN lines'[r] : l = m
    /\ \A l \in DOMAIN lines'[r] :
         /\ lines'[r][l].product \in Product
         /\ \E i \in LiveItems : ReadFrom(lines'[r][l], i)

LEMMA ReadStep ==
  ASSUME PlainRequests, RowInv, PriceInv, AmountInv, NEW r \in Refunder, RefundRead(r)
  PROVE  /\ \A s \in Refunder : s # r => refStep'[s] = refStep[s] /\ lines'[s] = lines[s]
         /\ refSeen'[r] = [status |-> txn.status, totalValue |-> totalValue,
                           refund |-> refundTotal]
         /\ UNCHANGED <<refNumber, task, tableVars>>
         /\ ReadWell(r) \/ (refStep'[r] = "error" /\ lines'[r] = NoLines)
  <1>1. /\ DOMAIN lines = Refunder /\ refStep \in [Refunder -> RefundSteps]
    BY DEF RowInv, RowTypeOK, RefundFacts
  <1>2. PICK dto \in RefundDto, first \in [Product -> Item] :
          LET Found(l) == first[dto[l].product] \in LiveItems
                          /\ item[first[dto[l].product]].product = dto[l].product
              valid == /\ Refundable
                       /\ \A l \in DOMAIN dto :
                            Found(l) /\ Enough(dto[l], item[first[dto[l].product]])
          IN  /\ refStep' = [refStep EXCEPT ![r] = IF valid THEN "count" ELSE "error"]
              /\ lines' = [lines EXCEPT ![r] =
                   IF valid THEN [l \in DOMAIN dto |->
                                    ValidLine(dto[l], item[first[dto[l].product]])]
                   ELSE NoLines]
    BY DEF RefundRead
  <1>3. UNCHANGED <<refNumber, task, tableVars>>
    BY DEF RefundRead
  <1>4. \A s \in Refunder : s # r => refStep'[s] = refStep[s] /\ lines'[s] = lines[s]
    BY <1>1, <1>2
  <1>5. DOMAIN refSeen = Refunder
    BY DEF AmountInv
  <1>6. refSeen'[r] = [status |-> txn.status, totalValue |-> totalValue,
                       refund |-> refundTotal]
    BY <1>5 DEF RefundRead
  <1>7. CASE refStep'[r] = "count"
    <2> DEFINE At(l) == first[dto[l].product]
    <2>1. /\ Refundable
          /\ \A l \in DOMAIN dto : At(l) \in LiveItems /\ item[At(l)].product = dto[l].product
          /\ lines'[r] = [l \in DOMAIN dto |-> ValidLine(dto[l], item[At(l)])]
      BY <1>1, <1>2, <1>7
    <2>2. \A l, m \in DOMAIN lines'[r] : l = m
      BY <2>1 DEF PlainRequests
    <2>3. ASSUME NEW l \in DOMAIN lines'[r]
          PROVE  /\ lines'[r][l].product \in Product
                 /\ \E i \in LiveItems : ReadFrom(lines'[r][l], i)
      <3>1. l \in DOMAIN dto /\ lines'[r][l] = ValidLine(dto[l], item[At(l)])
        BY <2>1
      <3>2. dto[l].product \in Product
        BY <3>1, RefundAssumption
      <3>3. At(l) \in LiveItems /\ item[At(l)].product = dto[l].product
        BY <2>1, <3>1
      <3> HIDE DEF At
      <3>4. ReadFrom(ValidLine(dto[l], item[At(l)]), At(l))
        BY <3>1, <3>3, LineRead
      <3>5. ValidLine(dto[l], item[At(l)]).product = dto[l].product
        BY DEF ValidLine
      <3> QED
        BY <3>1, <3>2, <3>3, <3>4, <3>5
    <2> QED
      BY <1>3, <1>4, <1>6, <1>7, <2>1, <2>2, <2>3 DEF ReadWell
  <1>8. CASE refStep'[r] # "count"
    <2>1. refStep'[r] = "error" /\ lines'[r] = NoLines
      BY <1>1, <1>2, <1>8
    <2> QED
      BY <1>3, <1>4, <1>6, <2>1
  <1> QED
    BY <1>7, <1>8

LEMMA LineStep == PlainRequests /\ LedgerBase /\ [Next]_vars => LineInv'
  <1> SUFFICES ASSUME PlainRequests, LedgerBase, [Next]_vars, NEW s \in Refunder
               PROVE  /\ \A l, m \in DOMAIN lines'[s] : l = m
                      /\ \A l \in DOMAIN lines'[s] :
                           /\ lines'[s][l].product \in Product
                           /\ \E price \in PriceOf[lines'[s][l].product] :
                                lines'[s][l].refundAmount = price * lines'[s][l].quantity
    BY DEF LineInv
  <1>0. LineInv /\ RowInv /\ PriceInv /\ AmountInv
    BY DEF LedgerBase, LedgerInv
  <1>1. CASE lines'[s] = lines[s]
    BY <1>0, <1>1 DEF LineInv
  <1>2. ASSUME NEW r \in Refunder, RefundRead(r), lines'[s] # lines[s]
        PROVE  s = r /\ (ReadWell(s) \/ lines'[s] = NoLines)
    BY <1>0, <1>2, ReadStep
  <1>3. CASE ReadWell(s)
    BY <1>3 DEF ReadWell, ReadFrom
  <1>4. CASE lines'[s] = NoLines
    BY <1>4 DEF NoLines
  <1> QED
    BY <1>1, <1>2, <1>3, <1>4, LinesStep

\* A step of a refund that leaves the rows and its progress with them alone.
LEMMA WorkKept ==
  ASSUME RowInv, WorkInv, NEW r \in Refunder, Working(r),
         UNCHANGED <<txn, totalValue, refundTotal, item, lines, refSeen>>,
         BeforePost(r)' = BeforePost(r), refStep[r] = "commit" => refStep'[r] \in {"commit", "ok"},
         refStep[r] = "ok" => refStep'[r] = "ok",
         \A l \in Line : task'[r][l] \in {"save", "saved"} <=> task[r][l] \in {"save", "saved"}
  PROVE  HeaderAsRead(r)' /\ \A l \in DOMAIN lines'[r] : l \in Line => LineAsRead(r, l)'
  <1>1. Paid(r)' = Paid(r) /\ StatusAfter(r)' = StatusAfter(r)
    BY DEF Paid, SummaryValue, RefundAmount, StatusAfter
  <1>2. HeaderAsRead(r) /\ \A l \in DOMAIN lines[r] : LineAsRead(r, l)
    BY DEF WorkInv
  <1>3. HeaderAsRead(r)'
    BY <1>1, <1>2 DEF HeaderAsRead
  <1>4. LiveItems' = LiveItems
    BY DEF LiveItems
  <1>5. ASSUME NEW l \in DOMAIN lines'[r], l \in Line PROVE LineAsRead(r, l)'
    <2>1. PICK i \in LiveItems :
            /\ item[i].product = lines[r][l].product
            /\ item[i].remainingQuantity
                 = IF task[r][l] \in {"save", "saved"} THEN LeftOf(lines[r][l])
                   ELSE lines[r][l].remainingQuantity
      BY <1>2, <1>5 DEF LineAsRead
    <2> QED
      BY <1>4, <1>5, <2>1 DEF LineAsRead, LeftOf
  <1> QED
    BY <1>3, <1>5

\* The step that writes the sale.
LEMMA WorkPosted ==
  ASSUME RowInv, WorkInv, NEW r \in Refunder, RefundPost(r)
  PROVE  HeaderAsRead(r)' /\ \A l \in DOMAIN lines'[r] : LineAsRead(r, l)'
  <1>1. /\ refStep[r] = "post" /\ refStep'[r] = "commit"
        /\ refundTotal' = Paid(r)
        /\ txn' = [txn EXCEPT !.status = StatusAfter(r)]
        /\ UNCHANGED <<totalValue, item, lines, refSeen, task>>
    BY DEF RefundPost, RowInv, RowTypeOK
  <1>2. txn \in TransactionRow
    BY DEF RowInv, RowTypeOK
  <1>3. HeaderAsRead(r) /\ \A l \in DOMAIN lines[r] : LineAsRead(r, l)
    BY <1>1 DEF WorkInv, Working, BeforePost
  <1>4. Paid(r)' = Paid(r) /\ StatusAfter(r)' = StatusAfter(r)
    BY <1>1 DEF Paid, SummaryValue, RefundAmount, StatusAfter
  <1>5. txn'.at = txn.at /\ txn'.status = StatusAfter(r)
    BY <1>1, <1>2 DEF TransactionRow
  <1>6. HeaderAsRead(r)'
    BY <1>1, <1>3, <1>4, <1>5 DEF HeaderAsRead, BeforePost
  <1>7. \A l \in DOMAIN lines'[r] : LineAsRead(r, l)'
    BY <1>1, <1>3 DEF LineAsRead, LiveItems, LeftOf
  <1> QED
    BY <1>6, <1>7

\* The callback that writes the line.
LEMMA WorkUpdated ==
  ASSUME RowInv, LineInv, WorkInv, NEW r \in Refunder, NEW l \in Line, TaskUpdate(r, l)
  PROVE  HeaderAsRead(r)' /\ \A m \in DOMAIN lines'[r] : LineAsRead(r, m)'
  <1>1. /\ task[r][l] = "update" /\ task'[r][l] = "save"
        /\ UNCHANGED <<txn, totalValue, refundTotal, lines, refSeen, refStep>>
    BY DEF TaskUpdate, RowInv, RowTypeOK
  <1>2. l \in DOMAIN lines[r]
    BY <1>1 DEF RowInv, RefundFacts
  <1>3. \A m \in DOMAIN lines'[r] : m = l
    BY <1>1, <1>2 DEF LineInv
  <1>4. HeaderAsRead(r) /\ LineAsRead(r, l)
    BY <1>1, <1>2 DEF WorkInv, Working
  <1>5. Paid(r)' = Paid(r) /\ StatusAfter(r)' = StatusAfter(r)
    BY <1>1 DEF Paid, SummaryValue, RefundAmount, StatusAfter
  <1>6. HeaderAsRead(r)'
    BY <1>1, <1>4, <1>5 DEF HeaderAsRead, BeforePost
  <1>7. PICK i \in LiveItems : item[i].product = lines[r][l].product
    BY <1>4 DEF LineAsRead
  <1>8. i \in Item /\ item[i].at = "live" /\ item[i].owned
    BY <1>7 DEF LiveItems
  <1>9. /\ item'[i].product = lines[r][l].product
        /\ item'[i].at = "live" /\ item'[i].owned
        /\ item'[i].remainingQuantity = LeftOf(lines[r][l])
    BY <1>7, <1>8, UpdateRows
  <1>10. LineAsRead(r, l)'
    BY <1>1, <1>8, <1>9 DEF LineAsRead, LiveItems, LeftOf
  <1> QED
    BY <1>3, <1>6, <1>10

LEMMA WorkStep ==
  MaxOpen = 1 /\ MaxFaults = 0 /\ PlainRequests /\ LedgerBase /\ [Next]_vars => WorkInv'
  <1> SUFFICES ASSUME MaxOpen = 1, MaxFaults = 0, PlainRequests, LedgerBase, [Next]_vars,
                      NEW r \in Refunder, Working(r)'
               PROVE  HeaderAsRead(r)' /\ \A l \in DOMAIN lines'[r] : LineAsRead(r, l)'
    BY DEF WorkInv
  <1> USE DEF rowVars, tableVars
  <1>0. /\ RowInv /\ SerialInv /\ PriceInv /\ AmountInv /\ ProgressInv /\ LineInv /\ WorkInv
        /\ NoFault
        /\ refStep \in [Refunder -> RefundSteps]
        /\ task \in [Refunder -> [Line -> TaskSteps]]
        /\ \A l \in DOMAIN lines[r] : l \in Line
    BY DEF LedgerBase, LedgerInv, RowInv, RowTypeOK, AmountInv
  <1>1. ~Fault
    BY <1>0 DEF NoFault, Fault
  <1>2. RefundBusy(r)'
    BY DEF Working, BeforePost, RefundBusy, Pending
  <1>3. ASSUME Working(r),
               UNCHANGED <<txn, totalValue, refundTotal, item, lines, refSeen>>,
               BeforePost(r)' = BeforePost(r),
               refStep[r] = "commit" => refStep'[r] \in {"commit", "ok"},
               refStep[r] = "ok" => refStep'[r] = "ok",
               \A l \in Line : task'[r][l] \in {"save", "saved"} <=> task[r][l] \in {"save", "saved"}
        PROVE  HeaderAsRead(r)' /\ \A l \in DOMAIN lines'[r] : LineAsRead(r, l)'
    BY <1>0, <1>3, WorkKept
  <1>4. CASE UNCHANGED vars
    <2>1. UNCHANGED <<txn, totalValue, refundTotal, item, lines, refSeen, refStep, task>>
      BY <1>4 DEF vars, refundVars
    <2>2. Working(r) /\ BeforePost(r)' = BeforePost(r)
      BY <2>1 DEF Working, BeforePost
    <2> QED
      BY <1>3, <2>1, <2>2
  <1>5. CASE RefundRead(r)
    <2>1. /\ refStep[r] = "idle"
          /\ refSeen'[r] = [status |-> txn.status, totalValue |-> totalValue,
                            refund |-> refundTotal]
          /\ UNCHANGED <<task, txn, totalValue, refundTotal, item>>
          /\ ReadWell(r) \/ refStep'[r] = "error"
      BY <1>0, <1>5, ReadStep DEF RefundRead
    <2>2. \A l \in Line : task[r][l] = "none"
      BY <1>0, <2>1 DEF ProgressInv
    <2>3. ReadWell(r)
      BY <2>1, <2>2 DEF Working, BeforePost
    <2>4. HeaderAsRead(r)'
      BY <2>1, <2>3 DEF HeaderAsRead, BeforePost, ReadWell, Refundable
    <2>5. ASSUME NEW l \in DOMAIN lines'[r] PROVE LineAsRead(r, l)'
      <3>1. l \in Line
        BY <1>0, <1>5, ReadAmounts
      <3>2. PICK i \in LiveItems : ReadFrom(lines'[r][l], i)
        BY <2>3 DEF ReadWell
      <3> QED
        BY <2>1, <2>2, <3>1, <3>2 DEF ReadFrom, LineAsRead, LiveItems
    <2> QED
      BY <2>4, <2>5
  <1>6. CASE RefundCount(r) \/ RefundConnect(r) \/ RefundStart(r)
    <2>1. /\ BeforePost(r) /\ BeforePost(r)' /\ refStep[r] \notin {"commit", "ok"}
          /\ UNCHANGED <<txn, totalValue, refundTotal, item, lines, refSeen, task>>
      BY <1>0, <1>6 DEF RefundCount, RefundConnect, RefundStart, BeforePost
    <2> QED
      BY <1>3, <2>1 DEF Working
  <1>7. CASE RefundInsert(r)
    <2>1. /\ BeforePost(r) /\ BeforePost(r)' /\ refStep[r] = "insert"
          /\ UNCHANGED <<txn, totalValue, refundTotal, item, lines, refSeen>>
          /\ \A l \in Line : task'[r][l] \in {"update", "none"}
      BY <1>0, <1>7 DEF RefundInsert, BeforePost
    <2>2. \A l \in Line : task[r][l] = "none"
      BY <1>0, <2>1 DEF ProgressInv
    <2> QED
      BY <1>3, <2>1, <2>2 DEF Working
  <1>8. ASSUME NEW l \in Line, TaskUpdate(r, l)
        PROVE  HeaderAsRead(r)' /\ \A m \in DOMAIN lines'[r] : LineAsRead(r, m)'
    BY <1>0, <1>8, WorkUpdated
  <1>9. ASSUME NEW l \in Line, TaskSave(r, l)
        PROVE  HeaderAsRead(r)' /\ \A m \in DOMAIN lines'[r] : LineAsRead(r, m)'
    <2>1. /\ UNCHANGED <<txn, totalValue, refundTotal, item, lines, refSeen, refStep>>
          /\ task[r][l] = "save" /\ task'[r][l] = "saved"
          /\ \A m \in Line : m # l => task'[r][m] = task[r][m]
      BY <1>0, <1>9 DEF TaskSave
    <2>2. Working(r) /\ BeforePost(r)' = BeforePost(r)
      BY <2>1 DEF Working, BeforePost
    <2> QED
      BY <1>3, <2>1, <2>2
  <1>10. CASE RefundPost(r)
    BY <1>0, <1>10, WorkPosted
  <1>11. CASE RefundCommit(r)
    <2>1. /\ UNCHANGED <<txn, totalValue, refundTotal, item, lines, refSeen, task>>
          /\ refStep[r] = "commit" /\ refStep'[r] = "ok"
      BY <1>0, <1>11 DEF RefundCommit
    <2>2. Working(r) /\ BeforePost(r)' = BeforePost(r)
      BY <2>1 DEF Working, BeforePost
    <2> QED
      BY <1>3, <2>1, <2>2
  <1>12. CASE RefundFails(r)
    <2>1. refStep[r] = "insert" /\ txn.at = "gone"
      BY <1>1, <1>12 DEF RefundFails
    <2> QED
      BY <1>0, <2>1 DEF WorkInv, Working, BeforePost, HeaderAsRead
  <1>13. CASE RefundRollback(r)
    <2>1. refStep[r] = "rollback" /\ refStep'[r] = "error" /\ task' = task
      BY <1>0, <1>13 DEF RefundRollback
    <2>2. Working(r) /\ ~BeforePost(r)
      BY <2>1 DEF Working, BeforePost
    <2> QED
      BY <1>0, <2>1, <2>2 DEF WorkInv, HeaderAsRead
  <1>14. CASE RefundDies(r)
    <2>1. /\ refStep'[r] \in {"ok", "error", "dead"}
          /\ \A l \in Line : task'[r][l] # "update"
      BY <1>0, <1>14 DEF RefundDies, Pending
    <2> QED
      BY <2>1 DEF Working, BeforePost
  <1> QED
    BY <1>0, <1>2, <1>4, <1>5, <1>6, <1>7, <1>8, <1>9, <1>10, <1>11, <1>12, <1>13, <1>14,
       RefundTurn DEF RefundStepsOf

-----------------------------------------------------------------------------
(* The books: which steps write them, and what each one adds.              *)

\* What the books are kept from changes in few steps.
LEMMA LedgerWrites ==
  ASSUME MaxFaults = 0, LedgerBase, [Next]_vars
  PROVE  \/ /\ UNCHANGED <<refund, task, refundTotal>>
            /\ \A s \in Refunder : refStep'[s] = "post" <=> refStep[s] = "post"
         \/ \E r \in Refunder : \/ RefundInsert(r) \/ RefundPost(r) \/ RefundDies(r)
                                \/ \E l \in Line : TaskUpdate(r, l) \/ TaskSave(r, l)
  <1> DEFINE Same == /\ UNCHANGED <<refund, task, refundTotal>>
                     /\ \A s \in Refunder : refStep'[s] = "post" <=> refStep[s] = "post"
  <1> USE DEF rowVars, tableVars, refundVars
  <1>0. /\ refStep \in [Refunder -> RefundSteps]
        /\ ~Fault
        /\ RowInv /\ PriceInv /\ AmountInv
    BY DEF LedgerBase, RowInv, RowTypeOK, NoFault, Fault
  <1>1. ASSUME AddStepsOf, UNCHANGED refundVars PROVE Same
    BY <1>1 DEF AddStepsOf, AddSave, AddItem, AddSum, AddTotals, AddFails
  <1>2. ASSUME NEW e \in Editor, EditStepsOf(e), UNCHANGED refundVars PROVE Same
    <2>1. refundTotal' = refundTotal
      BY <1>2, HeaderKeeps DEF EditStepsOf, EditRead, EditLoadItem, EditReload, EditSaveItem,
         EditSum, EditTotals, EditDrop, EditHeaderReload, EditFails
    <2> QED
      BY <1>2, <2>1, StepKeeps
  <1>3. ASSUME NEW d \in Deleter, DeleteStepsOf(d), UNCHANGED refundVars PROVE Same
    BY <1>3 DEF DeleteStepsOf, DeleteRead, DeleteMark, DeleteRemove, DeleteFails
  <1>4. ASSUME NEW r \in Refunder, RefundStepsOf(r)
        PROVE  \/ Same
               \/ RefundInsert(r) \/ RefundPost(r) \/ RefundDies(r)
               \/ \E l \in Line : TaskUpdate(r, l) \/ TaskSave(r, l)
    <2>1. CASE RefundRead(r)
      <3>1. /\ UNCHANGED <<refund, task, refundTotal>> /\ refStep[r] = "idle"
            /\ refStep'[r] \in {"count", "error"}
            /\ \A s \in Refunder : s # r => refStep'[s] = refStep[s]
        BY <1>0, <2>1 DEF RefundRead
      <3> QED
        BY <3>1
    <2>2. CASE \/ RefundCount(r) \/ RefundConnect(r) \/ RefundStart(r)
               \/ RefundCommit(r) \/ RefundRollback(r)
      BY <1>0, <2>2 DEF RefundCount, RefundConnect, RefundStart, RefundCommit,
         RefundRollback
    <2>3. CASE RefundFails(r)
      BY <1>0, <2>3 DEF RefundFails
    <2> QED
      BY <1>4, <2>1, <2>2, <2>3 DEF RefundStepsOf
  <1>5. CASE UNCHANGED vars
    BY <1>5 DEF vars
  <1> QED
    BY <1>1, <1>2, <1>3, <1>4, <1>5 DEF Next, Finished

\* A refund of one line takes back what that line is worth, all of it once.
LEMMA OneLine ==
  ASSUME RowInv, AmountInv, LineInv, NEW r \in Refunder
  PROVE  /\ SummaryValue(r) = RefundAmount(r)
         /\ \A l \in DOMAIN lines[r] : RefundAmount(r) = lines[r][l].refundAmount
  <1> DEFINE D == DOMAIN lines[r]
             amount == [l \in D |-> lines[r][l].refundAmount]
  <1>1. \A l \in D : l \in Line /\ lines[r][l].refundAmount \in Int
    BY DEF AmountInv
  <1>2. RefundAmount(r) = SumFunctionOnSet(amount, D)
    BY DEF RefundAmount, SumFunction
  <1>3. RefundAmount(r) \in Int
    BY <1>1, RefundAmountType
  <1>4. CASE D = {}
    <2>1. RefundAmount(r) = 0
      BY <1>2, <1>4, SumEmpty
    <2>2. Cardinality(D) = 0
      BY <1>4, FS_EmptySet
    <2> QED
      BY <1>4, <2>1, <2>2 DEF SummaryValue
  <1>5. ASSUME NEW l \in D PROVE RefundAmount(r) = lines[r][l].refundAmount /\ D = {l}
    <2>1. D = {l}
      BY DEF LineInv
    <2>2. /\ l \notin {} /\ IsFiniteSet({}) /\ {} \cup {l} = {l}
          /\ \A x \in {} \cup {l} : amount[x] \in Int
          /\ amount[l] = lines[r][l].refundAmount /\ amount[l] \in Int
      BY <1>1, FS_EmptySet
    <2> HIDE DEF amount
    <2>3. SumFunctionOnSet(amount, {l}) = amount[l] + SumFunctionOnSet(amount, {})
      BY <2>2, SumAdd
    <2>4. SumFunctionOnSet(amount, {}) = 0
      BY SumEmpty
    <2> QED
      BY <1>2, <2>1, <2>2, <2>3, <2>4
  <1>6. CASE D # {}
    <2>1. PICK l \in D : D = {l}
      BY <1>5, <1>6
    <2>2. Cardinality(D) = 1
      BY <2>1, FS_Singleton
    <2> QED
      BY <1>3, <1>5, <2>2 DEF SummaryValue
  <1> QED
    BY <1>4, <1>5, <1>6

\* A refund that dies with a line of which nothing remained took back nothing.
LEMMA DiesEmpty ==
  ASSUME MaxFaults = 0, LedgerBase, NEW r \in Refunder, RefundDies(r)
  PROVE  /\ r \in RefundRows
         /\ RefundAmount(r) = 0
         /\ \A l \in DOMAIN lines[r] : lines[r][l].quantity = 0
  <1>0. RowInv /\ AmountInv /\ ProgressInv /\ LineInv /\ ~Fault
    BY DEF LedgerBase, LedgerInv, NoFault, Fault
  <1>1. PICK l \in Pending(r) : task[r][l] = "update" /\ lines[r][l].remainingQuantity = 0
    BY <1>0 DEF RefundDies
  <1>2. l \in Line /\ l \in DOMAIN lines[r] /\ r \in RefundRows
    BY <1>0, <1>1 DEF Pending, ProgressInv, RefundRows
  <1>3. lines[r][l].quantity = 0
    BY <1>0, <1>1, <1>2 DEF RowInv, RefundFacts, LineFact
  <1>4. PICK price \in PriceOf[lines[r][l].product] :
          /\ lines[r][l].product \in Product
          /\ lines[r][l].refundAmount = price * lines[r][l].quantity
    BY <1>0, <1>2 DEF LineInv
  <1>5. price \in Nat
    BY <1>4, PriceAssumption
  <1>6. lines[r][l].refundAmount = 0
    BY <1>3, <1>4, <1>5
  <1>7. RefundAmount(r) = 0
    BY <1>0, <1>2, <1>6, OneLine
  <1> QED
    BY <1>0, <1>2, <1>3, <1>7 DEF LineInv

Amounts == [r \in Refunder |-> RefundAmount(r)]

\* The amounts of refunds with a row do not change, so neither do their sums.
LEMMA AmountsSame ==
  ASSUME RowInv, AmountInv, ProgressInv, [Next]_vars, NEW S, S \subseteq RefundRows
  PROVE  /\ SumFunctionOnSet(Amounts', S) = SumFunctionOnSet(Amounts, S)
         /\ IsFiniteSet(S)
         /\ \A r \in S : Amounts[r] \in Int /\ Amounts[r] = RefundAmount(r)
  <1>1. S \subseteq Refunder
    BY DEF RefundRows
  <1>2. IsFiniteSet(S)
    BY <1>1, RefunderAssumption, FS_Subset
  <1>3. \A r \in S : Amounts[r] = RefundAmount(r) /\ RefundAmount(r) \in Int
    BY <1>1 DEF Amounts, AmountInv, SumTypeOK
  <1>4. \A r \in S : Amounts'[r] = Amounts[r]
    BY <1>1, RowsStay DEF Amounts, RefundAmount
  <1> QED
    BY <1>2, <1>3, <1>4, SumSame

LEMMA PaidSum ==
  ASSUME MaxFaults = 0, LedgerBase, [Next]_vars
  PROVE  refundTotal' = SumFunctionOnSet(Amounts', Posted')
  <1>0. /\ RowInv /\ AmountInv /\ ProgressInv /\ LineInv /\ WorkInv
        /\ refStep \in [Refunder -> RefundSteps]
        /\ refund \in [Refunder -> Nat]
        /\ refundTotal = SumFunctionOnSet(Amounts, Posted)
    BY DEF LedgerBase, LedgerInv, BooksInv, RowInv, RowTypeOK, Amounts
  <1>1. Posted \subseteq RefundRows
    BY DEF Posted
  <1>2. ASSUME Posted' = Posted, refundTotal' = refundTotal
        PROVE  refundTotal' = SumFunctionOnSet(Amounts', Posted')
    BY <1>0, <1>1, <1>2, AmountsSame
  <1>3. ASSUME UNCHANGED <<refund, refundTotal>>,
               \A s \in Refunder : refStep'[s] = "post" <=> refStep[s] = "post"
        PROVE  Posted' = Posted /\ refundTotal' = refundTotal
    BY <1>3 DEF Posted, RefundRows
  <1>4. ASSUME NEW r \in Refunder, RefundInsert(r)
        PROVE  Posted' = Posted /\ refundTotal' = refundTotal
    <2>1. /\ refStep[r] = "insert" /\ refStep'[r] = "post"
          /\ \A s \in Refunder : s # r => refStep'[s] = refStep[s] /\ refund'[s] = refund[s]
          /\ refundTotal' = refundTotal
      BY <1>0, <1>4 DEF RefundInsert
    <2>2. refund[r] = 0
      BY <1>0, <2>1 DEF ProgressInv
    <2> QED
      BY <2>1, <2>2 DEF Posted, RefundRows
  <1>5. ASSUME NEW r \in Refunder, NEW l \in Line, TaskUpdate(r, l) \/ TaskSave(r, l)
        PROVE  UNCHANGED <<refund, refundTotal, refStep>>
    BY <1>5 DEF TaskUpdate, TaskSave, tableVars, rowVars
  <1>6. ASSUME NEW r \in Refunder, r \in RefundRows, Posted' = Posted \cup {r},
               \/ r \notin Posted /\ refundTotal' = RefundAmount(r) + refundTotal
               \/ RefundAmount(r) = 0 /\ refundTotal' = refundTotal
        PROVE  refundTotal' = SumFunctionOnSet(Amounts', Posted')
    <2>1. Posted \cup {r} \subseteq RefundRows
      BY <1>1, <1>6
    <2>2. /\ SumFunctionOnSet(Amounts', Posted \cup {r})
               = SumFunctionOnSet(Amounts, Posted \cup {r})
          /\ IsFiniteSet(Posted)
          /\ \A s \in Posted \cup {r} : Amounts[s] \in Int
          /\ Amounts[r] = RefundAmount(r)
      BY <1>0, <1>1, <2>1, AmountsSame
    <2>3. SumFunctionOnSet(Amounts, Posted) \in Int
      BY <2>2, SumType
    <2>4. CASE r \in Posted
      <3>1. Posted \cup {r} = Posted
        BY <2>4
      <3> QED
        BY <1>0, <1>6, <2>2, <2>4, <3>1
    <2>5. CASE r \notin Posted
      <3>1. SumFunctionOnSet(Amounts, Posted \cup {r})
              = Amounts[r] + SumFunctionOnSet(Amounts, Posted)
        BY <2>2, <2>5, SumAdd
      <3> QED
        BY <1>0, <1>6, <2>2, <2>3, <2>5, <3>1
    <2> QED
      BY <2>4, <2>5
  <1>7. ASSUME NEW r \in Refunder, RefundPost(r)
        PROVE  /\ r \in RefundRows /\ r \notin Posted /\ Posted' = Posted \cup {r}
               /\ refundTotal' = RefundAmount(r) + refundTotal
    <2>1. /\ refStep[r] = "post" /\ refStep'[r] = "commit" /\ refund' = refund
          /\ \A s \in Refunder : s # r => refStep'[s] = refStep[s]
          /\ refundTotal' = refSeen[r].refund + SummaryValue(r)
      BY <1>0, <1>7 DEF RefundPost, Paid
    <2>2. r \in RefundRows
      BY <1>0, <2>1 DEF ProgressInv, RefundRows
    <2>3. refSeen[r].refund = refundTotal
      BY <1>0, <2>1 DEF WorkInv, Working, BeforePost, HeaderAsRead
    <2>4. refundTotal \in Int /\ RefundAmount(r) \in Int /\ SummaryValue(r) = RefundAmount(r)
      BY <1>0, OneLine DEF AmountInv, SumTypeOK
    <2> QED
      BY <2>1, <2>2, <2>3, <2>4 DEF Posted, RefundRows
  <1>8. ASSUME NEW r \in Refunder, RefundDies(r)
        PROVE  /\ r \in RefundRows /\ Posted' = Posted \cup {r}
               /\ RefundAmount(r) = 0 /\ refundTotal' = refundTotal
    <2>1. /\ refStep'[r] # "post" /\ refund' = refund /\ refundTotal' = refundTotal
          /\ \A s \in Refunder : s # r => refStep'[s] = refStep[s]
      BY <1>0, <1>8 DEF RefundDies, rowVars
    <2>2. r \in RefundRows /\ RefundAmount(r) = 0
      BY <1>8, DiesEmpty
    <2> QED
      BY <2>1, <2>2 DEF Posted, RefundRows
  <1> QED
    BY <1>2, <1>3, <1>4, <1>5, <1>6, <1>7, <1>8, LedgerWrites

\* When a line of a refund is settled, and that it stays what it was.
LEMMA SettledIs ==
  ASSUME NEW p
  PROVE  /\ Settled(p) \subseteq Refunder \X Line
         /\ \A s \in Refunder, m \in Line :
              <<s, m>> \in Settled(p) <=>
                /\ refund[s] # 0 /\ m \in DOMAIN lines[s]
                /\ lines[s][m].product = p /\ task[s][m] # "update"
  BY DEF Settled, Taken, RefundRows

LEMMA SettledLater ==
  ASSUME NEW p
  PROVE  /\ Settled(p)' \subseteq Refunder \X Line
         /\ \A s \in Refunder, m \in Line :
              <<s, m>> \in Settled(p)' <=>
                /\ refund'[s] # 0 /\ m \in DOMAIN lines'[s]
                /\ lines'[s][m].product = p /\ task'[s][m] # "update"
  BY DEF Settled, Taken, RefundRows

LEMMA SamePairs ==
  ASSUME NEW A, NEW B, NEW S, S \subseteq A \X B, NEW T, T \subseteq A \X B,
         \A a \in A, b \in B : <<a, b>> \in S <=> <<a, b>> \in T
  PROVE  S = T
  <1>1. \A x \in A \X B : x \in S <=> x \in T
    OBVIOUS
  <1> QED
    BY <1>1

LEMMA SettledSame ==
  ASSUME NEW p,
         \A s \in Refunder, m \in Line : <<s, m>> \in Settled(p)' <=> <<s, m>> \in Settled(p)
  PROVE  Settled(p)' = Settled(p)
  <1>1. PICK S : S = Settled(p)
    OBVIOUS
  <1>2. PICK T : T = Settled(p)'
    OBVIOUS
  <1>3. S \subseteq Refunder \X Line
    BY <1>1, SettledIs
  <1>4. T \subseteq Refunder \X Line
    BY <1>2, SettledLater
  <1>5. \A s \in Refunder, m \in Line : <<s, m>> \in T <=> <<s, m>> \in S
    BY <1>1, <1>2
  <1>6. T = S
    BY <1>3, <1>4, <1>5, SamePairs
  <1> QED
    BY <1>1, <1>2, <1>6

\* The quantities of refunds with a row do not change.
LEMMA QuantitiesSame ==
  ASSUME RowInv, ProgressInv, [Next]_vars, NEW S, S \subseteq RefundRows \X Line,
         \A rl \in S : rl[2] \in DOMAIN lines[rl[1]]
  PROVE  /\ SumFunctionOnSet(LineQuantity', S) = SumFunctionOnSet(LineQuantity, S)
         /\ IsFiniteSet(S)
         /\ \A rl \in S : LineQuantity[rl] \in Int
  <1>1. S \subseteq Refunder \X Line
    BY DEF RefundRows
  <1>2. IsFiniteSet(S)
    BY <1>1, RefunderAssumption, RefundAssumption, FS_Product, FS_Subset
  <1>3. \A rl \in S : LineQuantity[rl] \in Int
    BY <1>1 DEF LineQuantity, RowInv, RefundFacts, LineFact
  <1>4. \A rl \in S : LineQuantity[rl] = LineQuantity'[rl]
    BY <1>1, RowsStay DEF LineQuantity
  <1>5. SumFunctionOnSet(LineQuantity, S) = SumFunctionOnSet(LineQuantity', S)
    BY <1>2, <1>3, <1>4, SumSame
  <1> QED
    BY <1>2, <1>3, <1>5

\* One more line is settled.
LEMMA SettledMore ==
  ASSUME RowInv, ProgressInv, [Next]_vars, NEW p, NEW r \in RefundRows, NEW l \in Line,
         l \in DOMAIN lines[r], Settled(p)' = Settled(p) \cup {<<r, l>>},
         <<r, l>> \notin Settled(p) \/ lines[r][l].quantity = 0
  PROVE  SumFunctionOnSet(LineQuantity', Settled(p)')
           = lines[r][l].quantity + SumFunctionOnSet(LineQuantity, Settled(p))
  <1> DEFINE x == <<r, l>>
             S == Settled(p)
  <1>1. /\ S \cup {x} \subseteq RefundRows \X Line
        /\ \A rl \in S \cup {x} : rl[2] \in DOMAIN lines[rl[1]]
    BY DEF Settled, Taken
  <1>2. /\ LineQuantity[x] = lines[r][l].quantity
    BY DEF LineQuantity, RefundRows
  <1> HIDE DEF x, S
  <1>3. /\ SumFunctionOnSet(LineQuantity', S \cup {x}) = SumFunctionOnSet(LineQuantity, S \cup {x})
        /\ IsFiniteSet(S \cup {x})
        /\ \A rl \in S \cup {x} : LineQuantity[rl] \in Int
    BY <1>1, QuantitiesSame
  <1>4. IsFiniteSet(S)
    BY <1>3, FS_Subset
  <1>5. SumFunctionOnSet(LineQuantity, S) \in Int
    BY <1>3, <1>4, SumType
  <1>6. CASE x \in S
    <2>1. S \cup {x} = S
      BY <1>6
    <2>2. lines[r][l].quantity = 0
      BY <1>6 DEF S, x
    <2>3. Settled(p)' = S \cup {x} /\ Settled(p) = S
      BY DEF S, x
    <2>4. SumFunctionOnSet(LineQuantity', S \cup {x}) = SumFunctionOnSet(LineQuantity, S)
      BY <1>3, <2>1
    <2> QED
      BY <1>5, <2>2, <2>3, <2>4
  <1>7. CASE x \notin S
    <2>1. SumFunctionOnSet(LineQuantity, S \cup {x})
            = LineQuantity[x] + SumFunctionOnSet(LineQuantity, S)
      BY <1>3, <1>4, <1>7, SumAdd
    <2> QED
      BY <1>2, <1>3, <2>1 DEF S, x
  <1> QED
    BY <1>6, <1>7

\* Steps that settle no line with a quantity.
LEMMA SettledStep ==
  ASSUME MaxFaults = 0, LedgerBase, [Next]_vars, NEW p,
         ~\E r \in Refunder, l \in Line : TaskUpdate(r, l)
  PROVE  SumFunctionOnSet(LineQuantity', Settled(p)') = SumFunctionOnSet(LineQuantity, Settled(p))
  <1>0. /\ RowInv /\ AmountInv /\ ProgressInv /\ LineInv
        /\ refund \in [Refunder -> Nat]
        /\ task \in [Refunder -> [Line -> TaskSteps]]
        /\ RefundRows \subseteq Refunder
        /\ \A s \in Refunder : refund[s] # 0 => lines'[s] = lines[s]
    BY RowsStay DEF LedgerBase, LedgerInv, RowInv, RowTypeOK, RefundRows
  <1>1. ASSUME Settled(p)' = Settled(p)
        PROVE  SumFunctionOnSet(LineQuantity', Settled(p)')
                 = SumFunctionOnSet(LineQuantity, Settled(p))
    <2>1. /\ Settled(p) \subseteq RefundRows \X Line
          /\ \A rl \in Settled(p) : rl[2] \in DOMAIN lines[rl[1]]
      BY DEF Settled, Taken
    <2> QED
      BY <1>0, <1>1, <2>1, QuantitiesSame
  <1>2. ASSUME \A s \in Refunder, m \in Line : <<s, m>> \in Settled(p)' <=> <<s, m>> \in Settled(p)
        PROVE  Settled(p)' = Settled(p)
    BY <1>2, SettledIs, SettledLater
  <1>3. ASSUME UNCHANGED <<refund, task>> PROVE Settled(p)' = Settled(p)
    BY <1>0, <1>2, <1>3, SettledIs, SettledLater
  <1>4. ASSUME NEW r \in Refunder, RefundInsert(r) PROVE Settled(p)' = Settled(p)
    <2>1. /\ refStep[r] = "insert" /\ lines' = lines
          /\ \A s \in Refunder : s # r => task'[s] = task[s] /\ refund'[s] = refund[s]
          /\ \A m \in Line : m \in DOMAIN lines[r] => task'[r][m] = "update"
      BY <1>0, <1>4 DEF RefundInsert
    <2>2. refund[r] = 0
      BY <1>0, <2>1 DEF ProgressInv
    <2> QED
      BY <1>2, <2>1, <2>2, SettledIs, SettledLater
  <1>5. ASSUME NEW r \in Refunder, NEW l \in Line, TaskSave(r, l)
        PROVE  Settled(p)' = Settled(p)
    <2>1. /\ refund' = refund /\ lines' = lines
          /\ task[r][l] = "save" /\ task' = [task EXCEPT ![r][l] = "saved"]
      BY <1>5 DEF TaskSave, tableVars, rowVars
    <2>2. \A s \in Refunder, m \in Line : task'[s][m] = "update" <=> task[s][m] = "update"
      BY <1>0, <2>1
    <2> QED
      BY <1>2, <2>1, <2>2, SettledIs, SettledLater
  <1>6. ASSUME NEW r \in Refunder, RefundPost(r) PROVE UNCHANGED <<refund, task>>
    BY <1>6 DEF RefundPost
  <1>7. ASSUME NEW r \in Refunder, RefundDies(r)
        PROVE  SumFunctionOnSet(LineQuantity', Settled(p)')
                 = SumFunctionOnSet(LineQuantity, Settled(p))
    <2>1. /\ r \in RefundRows
          /\ \A l \in DOMAIN lines[r] : lines[r][l].quantity = 0
      BY <1>7, DiesEmpty
    <2>2. /\ refund' = refund /\ lines' = lines
          /\ \A s \in Refunder : s # r => task'[s] = task[s]
          /\ \A m \in Line : task'[r][m] # "update"
      BY <1>0, <1>7 DEF RefundDies, rowVars, Pending
    <2>3. CASE \E l \in DOMAIN lines[r] : l \in Line /\ lines[r][l].product = p
      <3>1. PICK l \in DOMAIN lines[r] : l \in Line /\ lines[r][l].product = p
        BY <2>3
      <3>2. \A m \in DOMAIN lines[r] : m = l
        BY <1>0, <3>1 DEF LineInv
      <3>3. refund[r] # 0
        BY <2>1 DEF RefundRows
      <3>4. \A s \in Refunder, m \in Line :
              <<s, m>> \in Settled(p)' <=> <<s, m>> \in Settled(p) \/ (s = r /\ m = l)
        <4> TAKE s \in Refunder, m \in Line
        <4>1. CASE s # r
          BY <2>2, <4>1, SettledIs, SettledLater
        <4>2. CASE s = r /\ m # l
          BY <2>2, <3>2, <4>2, SettledIs, SettledLater
        <4>3. CASE s = r /\ m = l
          BY <2>2, <3>1, <3>3, <4>3, SettledLater
        <4> QED
          BY <4>1, <4>2, <4>3
      <3>5. Settled(p)' = Settled(p) \cup {<<r, l>>}
        BY <3>1, <3>4, SettledIs, SettledLater
      <3>6. lines[r][l].quantity = 0
        BY <2>1, <3>1
      <3>7. SumFunctionOnSet(LineQuantity', Settled(p)')
              = lines[r][l].quantity + SumFunctionOnSet(LineQuantity, Settled(p))
        BY <1>0, <2>1, <3>1, <3>5, <3>6, SettledMore
      <3>8. SumFunctionOnSet(LineQuantity, Settled(p)) \in Int
        <4>1. /\ Settled(p) \subseteq RefundRows \X Line
              /\ \A rl \in Settled(p) : rl[2] \in DOMAIN lines[rl[1]]
          BY DEF Settled, Taken
        <4> QED
          BY <1>0, <4>1, QuantitiesSame, SumType
      <3> QED
        BY <3>6, <3>7, <3>8
    <2>4. CASE ~\E l \in DOMAIN lines[r] : l \in Line /\ lines[r][l].product = p
      BY <1>1, <1>2, <2>2, <2>4, SettledIs, SettledLater
    <2> QED
      BY <2>3, <2>4
  <1> QED
    BY <1>1, <1>3, <1>4, <1>5, <1>6, <1>7, LedgerWrites

\* Rows that keep what remains of them.
LEMMA KeptRows ==
  ASSUME MaxFaults = 0, LedgerBase, [Next]_vars, \A i \in Item : RowKeeps(i),
         ~\E r \in Refunder, l \in Line : TaskUpdate(r, l), ~\E i \in Item : AddItem(i),
         NEW i \in Item, item'[i].at = "live", item'[i].owned
  PROVE  item'[i].remainingQuantity
           = sold'[i].quantity - SumFunctionOnSet(LineQuantity', Settled(item[i].product)')
  <1>1. /\ item'[i].product = item[i].product
        /\ item'[i].remainingQuantity = item[i].remainingQuantity
        /\ i \in LiveItems
    BY DEF RowKeeps, LiveItems
  <1>2. sold' = sold
    BY SoldStep
  <1>3. item[i].remainingQuantity
          = sold[i].quantity - SumFunctionOnSet(LineQuantity, Settled(item[i].product))
    BY <1>1 DEF LedgerBase, LedgerInv, BooksInv
  <1>4. PICK p : p = item[i].product
    OBVIOUS
  <1>5. SumFunctionOnSet(LineQuantity', Settled(p)') = SumFunctionOnSet(LineQuantity, Settled(p))
    BY SettledStep
  <1>6. Settled(item[i].product)' = Settled(p)'
    BY <1>1, <1>4 DEF Settled, Taken
  <1> QED
    BY <1>1, <1>2, <1>3, <1>4, <1>5, <1>6

\* Nothing is refunded while lines are being sold.
LEMMA SoldRows ==
  ASSUME MaxFaults = 0, LedgerBase, [Next]_vars, NEW j \in Item, AddItem(j),
         NEW i \in Item, item'[i].at = "live", item'[i].owned
  PROVE  item'[i].remainingQuantity
           = sold'[i].quantity - SumFunctionOnSet(LineQuantity', Settled(item[i].product)')
  <1>0. /\ RowInv /\ ProgressInv /\ BegunInv
        /\ item \in [Item -> ItemRow] /\ sold \in [Item -> [quantity : Nat, price : Nat]]
        /\ addStep = "items" /\ refund' = refund
    BY DEF LedgerBase, LedgerInv, RowInv, RowTypeOK, AddItem
  <1>1. \A r \in Refunder : refund[r] = 0
    BY <1>0 DEF BegunInv, ProgressInv
  <1>2. \A p : Settled(p) = {}
    BY <1>1 DEF Settled, Taken, RefundRows
  <1>3. Settled(item[i].product)' = {}
    BY <1>0, <1>1 DEF Settled, Taken, RefundRows
  <1>4. SumFunctionOnSet(LineQuantity', {}) = 0 /\ SumFunctionOnSet(LineQuantity, {}) = 0
    BY SumEmpty
  <1>5. CASE i = j
    <2>1. addCart \in Cart /\ j \in DOMAIN addCart
      BY <1>0 DEF AddItem, RowInv, AddFacts
    <2>2. PICK price :
            /\ item' = [item EXCEPT ![j] = NewItem(addCart[j], price)]
            /\ sold' = [sold EXCEPT ![j] = [quantity |-> addCart[j].quantity, price |-> price]]
      BY DEF AddItem
    <2>3. /\ item'[i] = NewItem(addCart[j], price)
          /\ sold'[i] = [quantity |-> addCart[j].quantity, price |-> price]
      BY <1>0, <1>5, <2>2
    <2>4. item'[i].remainingQuantity = addCart[j].quantity /\ sold'[i].quantity = addCart[j].quantity
      BY <2>3 DEF NewItem
    <2>5. addCart[j].quantity \in Nat
      BY <2>1, CartAssumption
    <2> QED
      BY <1>3, <1>4, <2>4, <2>5
  <1>6. CASE i # j
    <2>1. item'[i] = item[i] /\ sold'[i] = sold[i]
      BY <1>0, <1>6 DEF AddItem
    <2>2. item[i].remainingQuantity
            = sold[i].quantity - SumFunctionOnSet(LineQuantity, Settled(item[i].product))
      BY <2>1 DEF LedgerBase, LedgerInv, BooksInv, LiveItems
    <2>3. Settled(item[i].product) = {}
      BY <1>2
    <2> QED
      BY <1>3, <1>4, <2>1, <2>2, <2>3
  <1> QED
    BY <1>5, <1>6

\* A callback takes its quantity off the row it was validated against.
LEMMA UpdatedRows ==
  ASSUME PlainRequests, MaxFaults = 0, LedgerBase, [Next]_vars,
         NEW r \in Refunder, NEW l \in Line, TaskUpdate(r, l),
         NEW i \in Item, item'[i].at = "live", item'[i].owned
  PROVE  item'[i].remainingQuantity
           = sold'[i].quantity - SumFunctionOnSet(LineQuantity', Settled(item[i].product)')
  <1> DEFINE line == lines[r][l]
             x == <<r, l>>
  <1>0. /\ RowInv /\ ProgressInv /\ LeftFacts /\ BegunInv /\ CartInv /\ WorkInv /\ LineInv
        /\ sold \in [Item -> [quantity : Nat, price : Nat]]
        /\ task \in [Refunder -> [Line -> TaskSteps]]
        /\ task[r][l] = "update" /\ task' = [task EXCEPT ![r][l] = "save"]
        /\ UNCHANGED <<sold, refund, lines>>
    BY DEF LedgerBase, LedgerInv, RowInv, RowTypeOK, TaskUpdate
  <1>1. /\ l \in DOMAIN lines[r] /\ refund[r] # 0
        /\ r \in RefundRows
        /\ line.quantity \in Nat /\ line.remainingQuantity \in Nat
    BY <1>0 DEF RowInv, RefundFacts, LineFact, ProgressInv, RefundRows
  <1>2. /\ item'[i].product = item[i].product
        /\ item[i].at = "live" /\ item[i].owned
        /\ item'[i].remainingQuantity = IF item[i].product = line.product THEN LeftOf(line)
                                        ELSE item[i].remainingQuantity
    BY <1>0, UpdateRows
  <1>3. PICK p : p = item[i].product
    OBVIOUS
  <1>4. Settled(item[i].product)' = Settled(p)'
    BY <1>2, <1>3 DEF Settled, Taken
  <1>5. item[i].remainingQuantity
          = sold[i].quantity - SumFunctionOnSet(LineQuantity, Settled(p))
    BY <1>2, <1>3 DEF LedgerBase, LedgerInv, BooksInv, LiveItems
  <1>6. /\ \A s \in Refunder, m \in Line :
             <<s, m>> # x => task'[s][m] = task[s][m]
        /\ task'[r][l] = "save"
    BY <1>0
  <1>7. SumFunctionOnSet(LineQuantity, Settled(p)) \in Int
    <2>1. /\ Settled(p) \subseteq RefundRows \X Line
          /\ \A rl \in Settled(p) : rl[2] \in DOMAIN lines[rl[1]]
      BY DEF Settled, Taken
    <2> QED
      BY <1>0, <2>1, QuantitiesSame, SumType
  <1>8. CASE p = line.product
    <2>1. \A s \in Refunder, m \in Line :
            <<s, m>> \in Settled(p)' <=> <<s, m>> \in Settled(p) \/ <<s, m>> = x
      <3> TAKE s \in Refunder, m \in Line
      <3>1. CASE <<s, m>> # x
        BY <1>0, <1>6, <3>1, SettledIs, SettledLater
      <3>2. CASE <<s, m>> = x
        <4>1. s = r /\ m = l
          BY <3>2
        <4> QED
          BY <1>0, <1>1, <1>6, <1>8, <4>1, SettledLater
      <3> QED
        BY <3>1, <3>2
    <2>2. Settled(p)' = Settled(p) \cup {x}
      BY <2>1, SettledIs, SettledLater
    <2>3. x \notin Settled(p)
      BY <1>0, SettledIs
    <2>4. SumFunctionOnSet(LineQuantity', Settled(p)')
            = line.quantity + SumFunctionOnSet(LineQuantity, Settled(p))
      BY <1>0, <1>1, <2>2, <2>3, SettledMore
    <2>5. LineAsRead(r, l)
      BY <1>0, <1>1 DEF WorkInv, Working
    <2>6. PICK j \in LiveItems :
            item[j].product = line.product /\ item[j].remainingQuantity = line.remainingQuantity
      BY <1>0, <2>5 DEF LineAsRead
    <2>7. j = i
      BY <1>0, <1>2, <1>3, <1>8, <2>6, OneRowEach DEF LiveItems
    <2>8. item'[i].remainingQuantity = line.remainingQuantity - line.quantity
      BY <1>2, <1>3, <1>8 DEF LeftOf
    <2> HIDE DEF line
    <2>9. sold[i].quantity \in Nat
      BY <1>0
    <2> QED
      BY <1>0, <1>1, <1>4, <1>5, <1>7, <2>4, <2>6, <2>7, <2>8, <2>9
  <1>9. CASE p # line.product
    <2>1. \A s \in Refunder, m \in Line :
            <<s, m>> \in Settled(p)' <=> <<s, m>> \in Settled(p)
      <3> TAKE s \in Refunder, m \in Line
      <3>1. CASE <<s, m>> # x
        BY <1>0, <1>6, <3>1, SettledIs, SettledLater
      <3>2. CASE <<s, m>> = x
        <4>1. s = r /\ m = l
          BY <3>2
        <4> QED
          BY <1>0, <1>9, <4>1, SettledIs, SettledLater
      <3> QED
        BY <3>1, <3>2
    <2>2. Settled(p)' = Settled(p)
      BY <2>1, SettledSame
    <2>3. /\ Settled(p) \subseteq RefundRows \X Line
          /\ \A rl \in Settled(p) : rl[2] \in DOMAIN lines[rl[1]]
      BY DEF Settled, Taken
    <2>4. SumFunctionOnSet(LineQuantity', Settled(p)') = SumFunctionOnSet(LineQuantity, Settled(p))
      BY <1>0, <2>2, <2>3, QuantitiesSame
    <2> QED
      BY <1>0, <1>2, <1>3, <1>4, <1>5, <1>9, <2>4
  <1> QED
    BY <1>8, <1>9

LEMMA BooksStep ==
  MaxFaults = 0 /\ PlainRequests /\ LedgerBase /\ [Next]_vars => BooksInv'
  <1> SUFFICES ASSUME MaxFaults = 0, PlainRequests, LedgerBase, [Next]_vars PROVE BooksInv'
    OBVIOUS
  <1>1. refundTotal' = SumFunctionOnSet(Amounts', Posted')
    BY PaidSum
  <1>2. ASSUME NEW i \in Item, item'[i].at = "live", item'[i].owned
        PROVE  item'[i].remainingQuantity
                 = sold'[i].quantity
                     - SumFunctionOnSet(LineQuantity', Settled(item[i].product)')
    <2>1. CASE \E j \in Item : AddItem(j)
      BY <1>2, <2>1, SoldRows
    <2>2. CASE \E r \in Refunder, l \in Line : TaskUpdate(r, l)
      BY <1>2, <2>2, UpdatedRows
    <2>3. CASE /\ ~\E j \in Item : AddItem(j)
               /\ ~\E r \in Refunder, l \in Line : TaskUpdate(r, l)
      BY <1>2, <2>3, RowsStep, KeptRows
    <2> QED
      BY <2>1, <2>2, <2>3
  <1> QED
    BY <1>1, <1>2 DEF BooksInv, Amounts, LiveItems

LEMMA LedgerInit == Init => LedgerInv
  <1> SUFFICES ASSUME Init PROVE LedgerInv
    OBVIOUS
  <1> USE DEF Init, TablesInit, ServiceInit, RefundInit
  <1>1. BegunInv
    BY DEF BegunInv
  <1>2. CartInv
    BY DEF CartInv, NoItem
  <1>3. HeldInv
    BY DEF HeldInv
  <1>4. LineInv
    BY DEF LineInv, NoLines
  <1>5. \A r \in Refunder : ~Working(r)
    BY DEF Working, BeforePost
  <1>6. WorkInv
    BY <1>5 DEF WorkInv
  <1>7. RefundRows = {} /\ LiveItems = {}
    BY DEF RefundRows, LiveItems, NoItem
  <1>8. refundTotal = 0 /\ Posted = {}
    BY <1>7 DEF Posted
  <1> HIDE DEF Init, TablesInit, ServiceInit, RefundInit
  <1>9. SumFunctionOnSet([r \in Refunder |-> RefundAmount(r)], {}) = 0
    BY SumEmpty
  <1>10. BooksInv
    BY <1>7, <1>8, <1>9 DEF BooksInv
  <1> QED
    BY <1>1, <1>2, <1>3, <1>4, <1>6, <1>10 DEF LedgerInv

LEMMA LedgerStep ==
  /\ MaxOpen = 1 /\ MaxFaults = 0 /\ PlainRequests
  /\ NoFault /\ RowInv /\ SerialInv /\ PriceInv /\ AmountInv
  /\ ProgressInv /\ LeftFacts /\ EditsLive /\ LedgerInv
  /\ [Next]_vars
  => LedgerInv'
  BY BegunStep, CartStep, HeldInvStep, LineStep, WorkStep, BooksStep
     DEF LedgerBase, LedgerInv

\* When nothing is under way there is nothing left to write.
LEMMA LedgerQuietly == LedgerInv => QuietLedger
  <1> SUFFICES ASSUME LedgerInv, Quiet PROVE QuietLedger
    BY DEF QuietLedger
  <1>1. \A r \in Refunder : ~RefundBusy(r)
    BY WorkingOpen DEF Quiet
  <1>2. Posted = RefundRows
    BY <1>1 DEF Posted, RefundRows, RefundBusy
  <1>3. ASSUME NEW p PROVE Settled(p) = Taken(p)
    <2>1. \A r \in Refunder, l \in Line : task[r][l] # "update"
      BY <1>1 DEF RefundBusy, Pending
    <2> QED
      BY <2>1 DEF Settled, Taken, RefundRows
  <1> QED
    BY <1>2, <1>3 DEF QuietLedger, LedgerInv, BooksInv

\* With one request at a time, no fault, and plain requests the books
\* balance between requests, for any sale and any number of requests: the
\* amount paid back is the sum of the refund rows and what remains of a line
\* is what it was sold with less what they took back (RefundService.create
\* and editTransaction against one another's columns).
THEOREM BooksBalance ==
  ASSUME MaxOpen = 1, MaxFaults = 0, PlainRequests
  PROVE  Spec => []QuietLedger
  <1>1. NoFault /\ [Next]_vars => NoFault'
    BY FaultStep
  <1>2. RowInv /\ SerialInv /\ [Next]_vars => SerialInv'
    BY SerialStep
  <1>3. RowInv /\ SerialInv /\ EditsLive /\ [Next]_vars => EditsLive'
    BY LiveStep
  <1>4. /\ NoFault /\ RowInv /\ SerialInv /\ PriceInv /\ AmountInv
        /\ ProgressInv /\ LeftFacts /\ EditsLive /\ LedgerInv
        /\ [Next]_vars
        => LedgerInv'
    BY LedgerStep
  <1> QED
    BY <1>1, <1>2, <1>3, <1>4, LedgerQuietly, FaultInit, InitRowInv, InitSerial, InitPrice,
       AmountInit, ProgressInit, LeftInit, InitLive, LedgerInit, RowInvStep, PriceStep,
       AmountStep, ProgressStep, LeftStep, PTL DEF Spec

-----------------------------------------------------------------------------
(* The services implement SaleBook: what the mapping shows of a state, and *)
(* which step of the book each step of the services is.                    *)

BookBase == LedgerBase /\ TotalInv /\ RemainingInv /\ StartedInv

LEMMA StartedStep ==
  MaxOpen = 1 /\ LedgerBase /\ StartedInv /\ [Next]_vars => StartedInv'
  <1> SUFFICES ASSUME MaxOpen = 1, LedgerBase, StartedInv, [Next]_vars,
                      NEW r \in Refunder, refStep'[r] = "post"
               PROVE  \A l \in DOMAIN lines'[r] : task'[r][l] \in {"update", "save", "saved"}
    BY DEF StartedInv
  <1> USE DEF rowVars, tableVars
  <1>0. /\ RowInv /\ SerialInv /\ AmountInv
        /\ refStep \in [Refunder -> RefundSteps]
        /\ task \in [Refunder -> [Line -> TaskSteps]]
        /\ \A l \in DOMAIN lines[r] : l \in Line
    BY DEF LedgerBase, RowInv, RowTypeOK, AmountInv
  <1>1. RefundBusy(r)'
    BY DEF RefundBusy
  <1>2. CASE UNCHANGED vars
    BY <1>2 DEF StartedInv, vars, refundVars
  <1>3. CASE RefundInsert(r)
    BY <1>0, <1>3 DEF RefundInsert
  <1>4. ASSUME NEW l \in Line, TaskUpdate(r, l) \/ TaskSave(r, l)
        PROVE  \A m \in DOMAIN lines'[r] : task'[r][m] \in {"update", "save", "saved"}
    <2>1. /\ refStep' = refStep /\ lines' = lines
          /\ \E t \in {"save", "saved"} : task' = [task EXCEPT ![r][l] = t]
      BY <1>4 DEF TaskUpdate, TaskSave
    <2> QED
      BY <1>0, <2>1 DEF StartedInv
  <1>5. CASE \/ RefundRead(r) \/ RefundCount(r) \/ RefundConnect(r)
             \/ RefundStart(r) \/ RefundPost(r)
             \/ RefundCommit(r) \/ RefundFails(r) \/ RefundRollback(r) \/ RefundDies(r)
    <2>1. RefundRead(r) => refStep'[r] # "post"
      BY <1>0 DEF RefundRead
    <2>2. RefundDies(r) => refStep'[r] # "post"
      BY <1>0 DEF RefundDies
    <2> QED
      BY <1>0, <1>5, <2>1, <2>2 DEF RefundCount, RefundConnect, RefundStart, RefundPost,
         RefundCommit,
         RefundFails, RefundRollback
  <1> QED
    BY <1>0, <1>1, <1>2, <1>3, <1>4, <1>5, RefundTurn DEF RefundStepsOf

\* What the live rows of a product have left, of which there is at most one.
LeftIn(rows, live, p) ==
    SumFunctionOnSet([i \in Item |-> rows[i].remainingQuantity],
                     {i \in live : rows[i].product = p})

LEMMA LeftInOne ==
  ASSUME NEW rows, NEW live, live \subseteq Item, NEW p, NEW i \in live, rows[i].product = p,
         rows[i].remainingQuantity \in Int, \A j \in live : rows[j].product = p => j = i
  PROVE  LeftIn(rows, live, p) = rows[i].remainingQuantity
  <1> DEFINE f == [j \in Item |-> rows[j].remainingQuantity]
  <1>1. {j \in live : rows[j].product = p} = {i}
    OBVIOUS
  <1>2. /\ i \notin {} /\ IsFiniteSet({}) /\ {} \cup {i} = {i}
        /\ f[i] = rows[i].remainingQuantity
    BY FS_EmptySet
  <1>3. LeftIn(rows, live, p) = SumFunctionOnSet(f, {i})
    BY <1>1 DEF LeftIn
  <1> HIDE DEF f
  <1>4. SumFunctionOnSet(f, {i}) = f[i] + SumFunctionOnSet(f, {})
    BY <1>2, SumAdd
  <1>5. SumFunctionOnSet(f, {}) = 0
    BY SumEmpty
  <1> QED
    BY <1>2, <1>3, <1>4, <1>5

LEMMA LeftInNone ==
  ASSUME NEW rows, NEW live, NEW p, \A i \in live : rows[i].product # p
  PROVE  LeftIn(rows, live, p) = 0
  <1>1. {i \in live : rows[i].product = p} = {}
    OBVIOUS
  <1> QED
    BY <1>1, SumEmpty DEF LeftIn

\* Rows are told apart by their products.
OneEach ==
    PlainRequests /\ RowInv /\ BegunInv /\ LeftFacts /\ CartInv =>
      /\ LiveItems \subseteq Item
      /\ \A i \in LiveItems : /\ item[i].remainingQuantity \in Int
                              /\ item[i].product \in Product
                              /\ \A j \in LiveItems : item[j].product = item[i].product => j = i

LEMMA OneEachHolds == OneEach
  <1> SUFFICES ASSUME PlainRequests, RowInv, BegunInv, LeftFacts, CartInv
               PROVE  /\ LiveItems \subseteq Item
                      /\ \A i \in LiveItems :
                           /\ item[i].remainingQuantity \in Int
                           /\ item[i].product \in Product
                           /\ \A j \in LiveItems : item[j].product = item[i].product => j = i
    BY DEF OneEach
  <1>1. \A i \in LiveItems : i \in Item /\ item[i].at = "live" /\ item[i] \in ItemRow
    BY DEF LiveItems, RowInv, RowTypeOK
  <1>2. \A i \in LiveItems : item[i].product \in Product
    BY <1>1 DEF RowInv, ItemFacts
  <1> QED
    BY <1>1, <1>2, OneRowEach DEF ItemRow

LEMMA OneEachLater == OneEach'
  BY OneEachHolds, PTL

\* What the book shows while no refund has half its writes to do.
PlainView ==
    Unsettled = {} =>
      /\ BookLabel = IF Sold THEN txn.status ELSE "pending"
      /\ BookPaid = refundTotal
      /\ BookLeft = [p \in Product |-> IF BookStage = "open" THEN LeftIn(item, LiveItems, p)
                                       ELSE 0]

LEMMA PlainViewHolds == PlainView
  <1> SUFFICES ASSUME Unsettled = {} PROVE PlainView
    BY DEF PlainView
  <1>1. BookLabel = (IF Sold THEN txn.status ELSE "pending") /\ BookPaid = refundTotal
    BY DEF BookLabel, BookPaid
  <1>2. BookLeft = [p \in Product |-> IF BookStage = "open" THEN LeftIn(item, LiveItems, p)
                                      ELSE 0]
    BY DEF BookLeft, LeftIn
  <1> QED
    BY <1>1, <1>2 DEF PlainView

LEMMA PlainViewLater == PlainView'
  BY PlainViewHolds, PTL

\* While one has, the book shows what that one had read.
HalfView ==
    \A r \in Refunder : LineInv /\ Sold /\ txn.at = "live" /\ Unsettled = {r} =>
      /\ BookLabel = refSeen[r].status
      /\ BookPaid = refSeen[r].refund
      /\ DOMAIN BookLeft = Product /\ BookLeft = [p \in Product |-> BookLeft[p]]
      /\ \A p \in Product, l \in Line :
           l \in DOMAIN lines[r] /\ lines[r][l].product = p =>
             BookLeft[p] = lines[r][l].remainingQuantity
      /\ \A p \in Product :
           (\A l \in DOMAIN lines[r] : lines[r][l].product # p) =>
             BookLeft[p] = LeftIn(item, LiveItems, p)

LEMMA HalfViewHolds == HalfView
  <1> SUFFICES ASSUME NEW r \in Refunder, LineInv, Sold, txn.at = "live", Unsettled = {r}
               PROVE  /\ BookLabel = refSeen[r].status
                      /\ BookPaid = refSeen[r].refund
                      /\ DOMAIN BookLeft = Product /\ BookLeft = [p \in Product |-> BookLeft[p]]
                      /\ \A p \in Product, l \in Line :
                           l \in DOMAIN lines[r] /\ lines[r][l].product = p =>
                             BookLeft[p] = lines[r][l].remainingQuantity
                      /\ \A p \in Product :
                           (\A l \in DOMAIN lines[r] : lines[r][l].product # p) =>
                             BookLeft[p] = LeftIn(item, LiveItems, p)
    BY DEF HalfView
  <1>1. BookLabel = refSeen[r].status /\ BookPaid = refSeen[r].refund
    BY DEF BookLabel, BookPaid
  <1>2. BookStage = "open"
    BY DEF BookStage
  <1> DEFINE undone(p) == {rl \in Unsettled \X Line :
                             /\ rl[2] \in DOMAIN lines[rl[1]]
                             /\ lines[rl[1]][rl[2]].product = p}
             chosen(p) == CHOOSE x \in undone(p) : TRUE
  <1>3. /\ DOMAIN BookLeft = Product /\ BookLeft = [p \in Product |-> BookLeft[p]]
        /\ \A p \in Product : BookLeft[p] =
             IF undone(p) # {}
             THEN lines[chosen(p)[1]][chosen(p)[2]].remainingQuantity
             ELSE LeftIn(item, LiveItems, p)
    <2>1. BookLeft = [p \in Product |->
             IF undone(p) # {}
             THEN lines[chosen(p)[1]][chosen(p)[2]].remainingQuantity
             ELSE LeftIn(item, LiveItems, p)]
      BY <1>2 DEF BookLeft, LeftIn
    <2> HIDE DEF undone, chosen
    <2> QED
      BY <2>1
  <1>4. ASSUME NEW p \in Product, NEW l \in Line, l \in DOMAIN lines[r],
               lines[r][l].product = p
        PROVE  BookLeft[p] = lines[r][l].remainingQuantity
    <2>1. <<r, l>> \in undone(p)
      BY <1>4
    <2>2. \A x \in undone(p) : x = <<r, l>>
      BY <1>4 DEF LineInv
    <2>3. chosen(p) = <<r, l>>
      BY <2>1, <2>2
    <2> HIDE DEF undone, chosen
    <2> QED
      BY <1>3, <2>1, <2>3
  <1>5. ASSUME NEW p \in Product, \A l \in DOMAIN lines[r] : lines[r][l].product # p
        PROVE  BookLeft[p] = LeftIn(item, LiveItems, p)
    <2>1. undone(p) = {}
      BY <1>5
    <2> HIDE DEF undone, chosen
    <2> QED
      BY <1>3, <2>1
  <1>6. DOMAIN BookLeft = Product /\ BookLeft = [p \in Product |-> BookLeft[p]]
    <2> HIDE DEF undone, chosen
    <2> QED
      BY <1>3
  <1> QED
    BY <1>1, <1>4, <1>5, <1>6

LEMMA HalfViewLater == HalfView'
  BY HalfViewHolds, PTL

\* Rows of a product that do not change have the same left.
LEMMA LeftInKept ==
  ASSUME PlainRequests, LedgerBase, LiveItems' = LiveItems,
         \A i \in LiveItems : item'[i].product = item[i].product,
         NEW p,
         \A i \in LiveItems : item[i].product = p =>
            item'[i].remainingQuantity = item[i].remainingQuantity
  PROVE  LeftIn(item', LiveItems', p) = LeftIn(item, LiveItems, p)
  <1>1. /\ LiveItems \subseteq Item
        /\ \A i \in LiveItems : /\ item[i].remainingQuantity \in Int
                                /\ \A j \in LiveItems :
                                     item[j].product = item[i].product => j = i
    BY OneEachHolds DEF OneEach, LedgerBase, LedgerInv
  <1>2. CASE \A i \in LiveItems : item[i].product # p
    <2>1. LeftIn(item, LiveItems, p) = 0
      BY <1>2, LeftInNone
    <2>2. LeftIn(item', LiveItems', p) = 0
      BY <1>2, LeftInNone
    <2> QED
      BY <2>1, <2>2
  <1>3. ASSUME NEW i \in LiveItems, item[i].product = p
        PROVE  LeftIn(item', LiveItems', p) = LeftIn(item, LiveItems, p)
    <2>1. LeftIn(item, LiveItems, p) = item[i].remainingQuantity
      BY <1>1, <1>3, LeftInOne
    <2>2. \A j \in LiveItems : item'[j].product = p => j = i
      BY <1>1, <1>3
    <2>3. /\ i \in LiveItems' /\ LiveItems' \subseteq Item
          /\ item'[i].product = p
          /\ item'[i].remainingQuantity = item[i].remainingQuantity
      BY <1>1, <1>3
    <2>4. LeftIn(item', LiveItems', p) = item'[i].remainingQuantity
      BY <1>1, <2>2, <2>3, LeftInOne
    <2> QED
      BY <2>1, <2>3, <2>4
  <1> QED
    BY <1>2, <1>3

\* The units of one product are taken back and paid for.
LEMMA TakenBack ==
  ASSUME RowInv, AmountInv, LineInv, NEW r \in Refunder, NEW l \in Line, l \in DOMAIN lines[r],
         NEW p, p = lines[r][l].product, lines[r][l].quantity # 0,
         BookStage = "open", BookStage' = "open", BookLabel = "approved",
         BookLeft = [q \in Product |-> BookLeft[q]],
         BookLeft' = [q \in Product |-> BookLeft'[q]],
         BookLeft[p] = lines[r][l].remainingQuantity,
         BookLeft'[p] = LeftOf(lines[r][l]),
         \A q \in Product : q # p => BookLeft'[q] = BookLeft[q],
         BookPaid \in Int, BookPaid' = BookPaid + SummaryValue(r), BookDue' = BookDue,
         BookLabel' = IF BookDue = BookPaid' THEN "refunded" ELSE "approved"
  PROVE  Book!TakeBack(p)
  <1> DEFINE line == lines[r][l]
  <1>1. /\ line.quantity \in Nat /\ line.remainingQuantity \in Nat
        /\ line.quantity <= line.remainingQuantity
    BY DEF RowInv, RefundFacts, LineFact
  <1>2. PICK price \in PriceOf[p] : p \in Product /\ line.refundAmount = price * line.quantity
    BY DEF LineInv
  <1>3. SummaryValue(r) = line.refundAmount
    BY OneLine
  <1>4. price \in Nat
    BY <1>2, PriceAssumption
  <1>5. BookLeft'[p] = line.remainingQuantity - line.quantity
    BY DEF LeftOf
  <1> HIDE DEF line
  <1>6. BookLeft'[p] \in 0 .. (BookLeft[p] - 1)
    BY <1>1, <1>5 DEF line
  <1>7. BookLeft[p] - BookLeft'[p] = line.quantity
    BY <1>1, <1>5 DEF line
  <1>8. BookPaid' = BookPaid + price * (BookLeft[p] - BookLeft'[p])
    BY <1>2, <1>3, <1>7
  <1>9. BookLeft' = [BookLeft EXCEPT ![p] = BookLeft'[p]]
    <2>1. PICK before : before = BookLeft
      OBVIOUS
    <2>2. PICK after : after = BookLeft'
      OBVIOUS
    <2>3. after = [before EXCEPT ![p] = after[p]]
      BY <1>2, <2>1, <2>2
    <2> QED
      BY <2>1, <2>2, <2>3
  <1>10. BookLabel' = IF BookPaid' = BookDue THEN "refunded" ELSE "approved"
    OBVIOUS
  <1> QED
    BY <1>2, <1>6, <1>8, <1>9, <1>10 DEF Book!TakeBack

\* The last write of a refund: what it took back shows.
LEMMA Settling ==
  ASSUME RowInv, AmountInv, LineInv, NEW r \in Refunder, Sold, Sold',
         txn.at = "live", txn'.at = "live", txn'.status \in Status,
         Unsettled = {r}, Unsettled' = {}, UNCHANGED <<totalValue, lines>>,
         refSeen[r].status = "approved", refSeen[r].totalValue = totalValue,
         refundTotal' = Paid(r),
         \/ txn'.status = StatusAfter(r)
         \/ \A l \in DOMAIN lines[r] : lines[r][l].quantity = 0,
         \A l \in DOMAIN lines[r] :
            LeftIn(item', LiveItems', lines[r][l].product) = LeftOf(lines[r][l]),
         \A p \in Product : (\A l \in DOMAIN lines[r] : lines[r][l].product # p) =>
            LeftIn(item', LiveItems', p) = LeftIn(item, LiveItems, p)
  PROVE  Book!Next
  <1>1. /\ BookStage = "open" /\ BookStage' = "open"
        /\ BookDue = totalValue /\ BookDue' = totalValue
    BY DEF BookStage, BookDue
  <1>2. /\ BookLabel = "approved" /\ BookPaid = refSeen[r].refund
        /\ BookLeft = [p \in Product |-> BookLeft[p]]
        /\ \A p \in Product, l \in Line :
             l \in DOMAIN lines[r] /\ lines[r][l].product = p =>
               BookLeft[p] = lines[r][l].remainingQuantity
        /\ \A p \in Product :
             (\A l \in DOMAIN lines[r] : lines[r][l].product # p) =>
               BookLeft[p] = LeftIn(item, LiveItems, p)
    BY HalfViewHolds DEF HalfView
  <1>3. /\ BookLabel' = txn'.status /\ BookPaid' = refundTotal'
        /\ BookLeft' = [p \in Product |-> LeftIn(item', LiveItems', p)]
    BY <1>1, PlainViewLater DEF PlainView
  <1>4. /\ BookLeft' = [p \in Product |-> BookLeft'[p]]
        /\ \A p \in Product : BookLeft'[p] = LeftIn(item', LiveItems', p)
    BY <1>3
  <1>5. /\ refSeen[r].refund \in Int /\ SummaryValue(r) \in Int
        /\ BookPaid' = BookPaid + SummaryValue(r)
        /\ \A l \in DOMAIN lines[r] : l \in Line
    BY <1>2, <1>3, RefundAmountType DEF AmountInv, Paid
  <1>6. ASSUME NEW l \in DOMAIN lines[r], lines[r][l].quantity # 0 PROVE Book!Next
    <2>1. PICK p : p = lines[r][l].product
      OBVIOUS
    <2>2. l \in Line /\ p \in Product /\ \A m \in DOMAIN lines[r] : m = l
      BY <1>5, <2>1 DEF LineInv
    <2>3. BookLeft[p] = lines[r][l].remainingQuantity
      BY <1>2, <2>1, <2>2
    <2>4. BookLeft'[p] = LeftOf(lines[r][l])
      BY <1>4, <2>1, <2>2
    <2>5. ASSUME NEW q \in Product, q # p PROVE BookLeft'[q] = BookLeft[q]
      BY <1>2, <1>4, <2>1, <2>2, <2>5
    <2>6. BookLabel' = IF BookDue = BookPaid' THEN "refunded" ELSE "approved"
      BY <1>1, <1>3, <1>6 DEF StatusAfter
    <2>7. Book!TakeBack(p)
      BY <1>1, <1>2, <1>4, <1>5, <1>6, <2>1, <2>2, <2>3, <2>4, <2>5, <2>6, TakenBack
    <2> QED
      BY <2>2, <2>7 DEF Book!Next
  <1>7. CASE \A l \in DOMAIN lines[r] : lines[r][l].quantity = 0
    <2>1. ASSUME NEW p \in Product PROVE BookLeft'[p] = BookLeft[p]
      <3>1. CASE \A l \in DOMAIN lines[r] : lines[r][l].product # p
        BY <1>2, <1>4, <3>1
      <3>2. ASSUME NEW l \in DOMAIN lines[r], lines[r][l].product = p
            PROVE  BookLeft'[p] = BookLeft[p]
        <4>1. BookLeft[p] = lines[r][l].remainingQuantity
          BY <1>2, <1>5, <3>2
        <4>2. BookLeft'[p] = LeftOf(lines[r][l])
          BY <1>4, <3>2
        <4>3. lines[r][l].remainingQuantity \in Nat /\ lines[r][l].quantity = 0
          BY <1>7 DEF RowInv, RefundFacts, LineFact
        <4> QED
          BY <4>1, <4>2, <4>3 DEF LeftOf
      <3> QED
        BY <3>1, <3>2
    <2>2. BookLeft' = BookLeft
      BY <1>2, <1>4, <2>1
    <2>3. SummaryValue(r) = 0
      <3>1. CASE DOMAIN lines[r] = {}
        <4>1. Cardinality(DOMAIN lines[r]) = 0 /\ RefundAmount(r) \in Int
          BY <3>1, FS_EmptySet DEF AmountInv, SumTypeOK
        <4> QED
          BY <4>1 DEF SummaryValue
      <3>2. ASSUME NEW l \in DOMAIN lines[r] PROVE SummaryValue(r) = 0
        <4>1. PICK price \in PriceOf[lines[r][l].product] :
                /\ lines[r][l].product \in Product
                /\ lines[r][l].refundAmount = price * lines[r][l].quantity
          BY DEF LineInv
        <4>2. price \in Nat
          BY <4>1, PriceAssumption
        <4>3. lines[r][l].refundAmount = 0
          BY <1>7, <4>1, <4>2
        <4> QED
          BY <4>3, OneLine
      <3> QED
        BY <3>1, <3>2
    <2>4. BookPaid' = BookPaid
      BY <1>2, <1>5, <2>3
    <2>5. Book!Relabel
      BY <1>1, <1>3, <2>2, <2>4 DEF Book!Relabel
    <2> QED
      BY <2>5 DEF Book!Next
  <1> QED
    BY <1>6, <1>7

BookSame == UNCHANGED <<BookStage, BookLabel, BookLeft, BookPaid, BookDue>>

LEMMA PlainSame ==
  ASSUME Unsettled = {}, Unsettled' = {}, Sold' = Sold,
         UNCHANGED <<txn, refundTotal, totalValue>>,
         \A p \in Product : LeftIn(item', LiveItems', p) = LeftIn(item, LiveItems, p)
  PROVE  BookSame
  <1>1. BookStage' = BookStage /\ BookDue' = BookDue
    BY DEF BookStage, BookDue
  <1>2. BookLabel' = BookLabel /\ BookPaid' = BookPaid
    BY PlainViewHolds, PlainViewLater DEF PlainView
  <1>3. /\ BookLeft = [p \in Product |-> IF BookStage = "open" THEN LeftIn(item, LiveItems, p)
                                         ELSE 0]
        /\ BookLeft' = [p \in Product |-> IF BookStage' = "open"
                                          THEN LeftIn(item', LiveItems', p) ELSE 0]
    BY PlainViewHolds, PlainViewLater DEF PlainView
  <1>4. BookLeft' = BookLeft
    BY <1>1, <1>3
  <1> QED
    BY <1>1, <1>2, <1>4 DEF BookSame

LEMMA HalfSame ==
  ASSUME NEW r \in Refunder, LineInv, AmountInv, Sold, Sold', txn.at = "live", txn'.at = "live",
         Unsettled = {r}, Unsettled' = {r}, UNCHANGED <<lines, refSeen, totalValue>>,
         \A p \in Product : (\A l \in DOMAIN lines[r] : lines[r][l].product # p) =>
            LeftIn(item', LiveItems', p) = LeftIn(item, LiveItems, p)
  PROVE  BookSame
  <1>1. BookStage' = BookStage /\ BookDue' = BookDue
    BY DEF BookStage, BookDue
  <1>2. /\ BookLabel = refSeen[r].status
        /\ BookPaid = refSeen[r].refund
        /\ BookLeft = [p \in Product |-> BookLeft[p]]
        /\ \A p \in Product, l \in Line :
             l \in DOMAIN lines[r] /\ lines[r][l].product = p =>
               BookLeft[p] = lines[r][l].remainingQuantity
        /\ \A p \in Product :
             (\A l \in DOMAIN lines[r] : lines[r][l].product # p) =>
               BookLeft[p] = LeftIn(item, LiveItems, p)
    BY HalfViewHolds DEF HalfView
  <1>3. LineInv'
    BY DEF LineInv
  <1>4. /\ BookLabel' = refSeen'[r].status
        /\ BookPaid' = refSeen'[r].refund
        /\ BookLeft' = [p \in Product |-> BookLeft'[p]]
        /\ \A p \in Product, l \in Line :
             l \in DOMAIN lines'[r] /\ lines'[r][l].product = p =>
               BookLeft'[p] = lines'[r][l].remainingQuantity
        /\ \A p \in Product :
             (\A l \in DOMAIN lines'[r] : lines'[r][l].product # p) =>
               BookLeft'[p] = LeftIn(item', LiveItems', p)
    BY <1>3, HalfViewLater DEF HalfView
  <1>5. \A l \in DOMAIN lines[r] : l \in Line
    BY DEF AmountInv
  <1>6. ASSUME NEW p \in Product PROVE BookLeft'[p] = BookLeft[p]
    <2>1. CASE \A l \in DOMAIN lines[r] : lines[r][l].product # p
      BY <1>2, <1>4, <2>1
    <2>2. ASSUME NEW l \in DOMAIN lines[r], lines[r][l].product = p
          PROVE  BookLeft'[p] = BookLeft[p]
      BY <1>2, <1>4, <1>5, <2>2
    <2> QED
      BY <2>1, <2>2
  <1>7. BookLeft' = BookLeft
    BY <1>2, <1>4, <1>6
  <1> QED
    BY <1>1, <1>2, <1>4, <1>7 DEF BookSame

\* A refund that begins to write shows what it had read, which is so still.
LEMMA HalfBegins ==
  ASSUME NEW r \in Refunder, LineInv, AmountInv, Sold, Sold', txn.at = "live", txn'.at = "live",
         Unsettled = {}, Unsettled' = {r}, UNCHANGED <<lines, refSeen, totalValue>>,
         refSeen[r].status = txn.status, refSeen[r].refund = refundTotal,
         \A l \in DOMAIN lines[r] :
            LeftIn(item, LiveItems, lines[r][l].product) = lines[r][l].remainingQuantity,
         \A p \in Product : LeftIn(item', LiveItems', p) = LeftIn(item, LiveItems, p)
  PROVE  BookSame
  <1>1. BookStage' = "open" /\ BookStage = "open" /\ BookDue' = BookDue
    BY DEF BookStage, BookDue
  <1>2. /\ BookLabel = txn.status
        /\ BookPaid = refundTotal
        /\ BookLeft = [p \in Product |-> LeftIn(item, LiveItems, p)]
    BY <1>1, PlainViewHolds DEF PlainView
  <1>3. LineInv'
    BY DEF LineInv
  <1>4. /\ BookLabel' = refSeen'[r].status
        /\ BookPaid' = refSeen'[r].refund
        /\ BookLeft' = [p \in Product |-> BookLeft'[p]]
        /\ \A p \in Product, l \in Line :
             l \in DOMAIN lines'[r] /\ lines'[r][l].product = p =>
               BookLeft'[p] = lines'[r][l].remainingQuantity
        /\ \A p \in Product :
             (\A l \in DOMAIN lines'[r] : lines'[r][l].product # p) =>
               BookLeft'[p] = LeftIn(item', LiveItems', p)
    BY <1>3, HalfViewLater DEF HalfView
  <1>5. \A l \in DOMAIN lines[r] : l \in Line
    BY DEF AmountInv
  <1>6. ASSUME NEW p \in Product PROVE BookLeft'[p] = LeftIn(item, LiveItems, p)
    <2>1. CASE \A l \in DOMAIN lines[r] : lines[r][l].product # p
      BY <1>4, <2>1
    <2>2. ASSUME NEW l \in DOMAIN lines[r], lines[r][l].product = p
          PROVE  BookLeft'[p] = LeftIn(item, LiveItems, p)
      <3>1. LeftIn(item, LiveItems, p) = lines[r][l].remainingQuantity
        BY <2>2
      <3> QED
        BY <1>4, <1>5, <2>2, <3>1
    <2> QED
      BY <2>1, <2>2
  <1>7. BookLeft' = BookLeft
    BY <1>2, <1>4, <1>6
  <1> QED
    BY <1>1, <1>2, <1>4, <1>7 DEF BookSame

\* Which refunds have half their writes to do.
LEMMA UnsettledIs ==
  \A s : s \in Unsettled <=>
    /\ s \in Refunder /\ refund[s] # 0
    /\ refStep[s] = "post" \/ \E l \in Line : task[s][l] = "update"
  BY DEF Unsettled, RefundRows

LEMMA UnsettledLater ==
  \A s : s \in Unsettled' <=>
    /\ s \in Refunder /\ refund'[s] # 0
    /\ refStep'[s] = "post" \/ \E l \in Line : task'[s][l] = "update"
  BY DEF Unsettled, RefundRows

LEMMA UnsettledOpen ==
  \A s \in Unsettled : s \in Refunder /\ <<"refund", s>> \in Open /\ Working(s)
  <1> SUFFICES ASSUME NEW s \in Unsettled
               PROVE  s \in Refunder /\ <<"refund", s>> \in Open /\ Working(s)
    OBVIOUS
  <1>1. s \in Refunder /\ (refStep[s] = "post" \/ \E l \in Line : task[s][l] = "update")
    BY UnsettledIs
  <1>2. Working(s)
    BY <1>1 DEF Working, BeforePost
  <1> QED
    BY <1>1, <1>2, WorkingOpen

\* A step of one refund leaves what others have to do.
LEMMA RefundOthers ==
  ASSUME MaxOpen = 1, RowInv, SerialInv, NEW r \in Refunder, RefundStepsOf(r)
  PROVE  /\ Unsettled \subseteq {r} /\ Unsettled' \subseteq {r}
         /\ \A s \in Refunder : s # r => refStep'[s] = refStep[s] /\ task'[s] = task[s]
  <1>1. Open \subseteq {<<"refund", r>>}
    BY StepAlone
  <1>2. ASSUME NEW s \in Refunder, s # r
        PROVE  refStep'[s] = refStep[s] /\ task'[s] = task[s] /\ refund'[s] = refund[s]
    BY <1>2 DEF RowInv, RowTypeOK, RefundStepsOf, RefundRead, RefundCount, RefundConnect,
       RefundStart,
       RefundInsert, TaskUpdate, TaskSave, RefundPost, RefundCommit, RefundFails,
       RefundRollback, RefundDies, tableVars, rowVars
  <1>3. Unsettled \subseteq {r}
    BY <1>1, UnsettledOpen
  <1>4. Unsettled' \subseteq {r}
    BY <1>2, <1>3, UnsettledIs, UnsettledLater
  <1> QED
    BY <1>2, <1>3, <1>4

\* What is left of the product of a line a refund works on.
LEMMA LineLeft ==
  ASSUME PlainRequests, LedgerBase, NEW r \in Refunder, Working(r), NEW l \in DOMAIN lines[r]
  PROVE  LeftIn(item, LiveItems, lines[r][l].product)
           = IF task[r][l] \in {"save", "saved"} THEN LeftOf(lines[r][l])
             ELSE lines[r][l].remainingQuantity
  <1>1. PICK i \in LiveItems :
          /\ item[i].product = lines[r][l].product
          /\ item[i].remainingQuantity
               = IF task[r][l] \in {"save", "saved"} THEN LeftOf(lines[r][l])
                 ELSE lines[r][l].remainingQuantity
    BY DEF LedgerBase, LedgerInv, WorkInv, LineAsRead
  <1>2. /\ LiveItems \subseteq Item
        /\ item[i].remainingQuantity \in Int
        /\ \A j \in LiveItems : item[j].product = item[i].product => j = i
    BY OneEachHolds DEF OneEach, LedgerBase, LedgerInv
  <1>3. LeftIn(item, LiveItems, lines[r][l].product) = item[i].remainingQuantity
    BY <1>1, <1>2, LeftInOne
  <1> QED
    BY <1>1, <1>3

LEMMA LeftInSame ==
  ASSUME item' = item
  PROVE  /\ LiveItems' = LiveItems
         /\ \A p : LeftIn(item', LiveItems', p) = LeftIn(item, LiveItems, p)
  BY DEF LiveItems

\* Before it has a row a refund does not show.
LEMMA EarlyBook ==
  ASSUME MaxOpen = 1, PlainRequests, BookBase, Sold, Sold', [Next]_vars, NEW r \in Refunder,
         (RefundRead(r) /\ Turn) \/ RefundCount(r) \/ RefundConnect(r) \/ RefundStart(r)
  PROVE  BookSame
  <1>0. /\ RowInv /\ SerialInv /\ ProgressInv
        /\ refStep[r] \in {"idle", "count", "connect", "start"} /\ refund[r] = 0
    BY DEF BookBase, LedgerBase, ProgressInv, RefundRead, RefundCount, RefundConnect,
       RefundStart
  <1>1. UNCHANGED <<refund, txn, refundTotal, totalValue, item>>
    <2>1. RefundRead(r) => UNCHANGED tableVars
      BY DEF RefundRead
    <2> QED
      BY <2>1 DEF RefundCount, RefundConnect, RefundStart, tableVars, rowVars
  <1>2. RefundStepsOf(r)
    BY DEF RefundStepsOf
  <1>3. r \notin Unsettled /\ r \notin Unsettled'
    BY <1>0, <1>1, UnsettledIs, UnsettledLater
  <1>4. Unsettled = {} /\ Unsettled' = {}
    BY <1>0, <1>2, <1>3, RefundOthers
  <1> QED
    BY <1>1, <1>4, LeftInSame, PlainSame

LEMMA InsertBook ==
  ASSUME MaxOpen = 1, PlainRequests, BookBase, Sold, Sold', NEW r \in Refunder, RefundInsert(r)
  PROVE  BookSame
  <1>0. /\ RowInv /\ SerialInv /\ AmountInv /\ LineInv /\ WorkInv /\ ProgressInv /\ LedgerBase
        /\ refStep[r] = "insert" /\ refStep'[r] = "post"
        /\ UNCHANGED <<txn, refundTotal, totalValue, item, lines, refSeen>>
        /\ refund'[r] # 0
    BY DEF BookBase, LedgerBase, LedgerInv, ProgressInv, RefundInsert, RowInv, RowTypeOK
  <1>1. RefundStepsOf(r)
    BY DEF RefundStepsOf
  <1>2. Working(r) /\ BeforePost(r)
    BY <1>0 DEF Working, BeforePost
  <1>3. /\ txn.at = "live" /\ refSeen[r].status = txn.status /\ refSeen[r].refund = refundTotal
    BY <1>0, <1>2 DEF WorkInv, HeaderAsRead
  <1>4. refund[r] = 0 /\ \A l \in Line : task[r][l] = "none"
    BY <1>0 DEF ProgressInv
  <1>5. Unsettled = {}
    BY <1>0, <1>1, <1>4, RefundOthers, UnsettledIs
  <1>6. Unsettled' = {r}
    BY <1>0, <1>1, RefundOthers, UnsettledLater
  <1>7. ASSUME NEW l \in DOMAIN lines[r]
        PROVE  LeftIn(item, LiveItems, lines[r][l].product) = lines[r][l].remainingQuantity
    <2>1. l \in Line
      BY <1>0 DEF AmountInv
    <2> QED
      BY <1>0, <1>2, <1>4, <2>1, LineLeft
  <1> QED
    BY <1>0, <1>3, <1>5, <1>6, <1>7, LeftInSame, HalfBegins

\* Once both its writes are done what it took back shows: the callback of
\* the line comes last, or the update of the sale does.
LEMMA UpdateBook ==
  ASSUME MaxOpen = 1, PlainRequests, BookBase, Sold, Sold', [Next]_vars,
         NEW r \in Refunder, NEW l \in Line, TaskUpdate(r, l)
  PROVE  Book!Next \/ BookSame
  <1>0. /\ RowInv /\ SerialInv /\ AmountInv /\ LineInv /\ WorkInv /\ ProgressInv /\ LedgerBase
        /\ task \in [Refunder -> [Line -> TaskSteps]]
        /\ task[r][l] = "update" /\ task' = [task EXCEPT ![r][l] = "save"]
        /\ UNCHANGED <<txn, refundTotal, totalValue, refund, refStep, lines, refSeen>>
    BY DEF BookBase, LedgerBase, LedgerInv, RowInv, RowTypeOK, TaskUpdate
  <1>1. RefundStepsOf(r)
    BY DEF RefundStepsOf
  <1>2. /\ l \in DOMAIN lines[r] /\ refund[r] # 0
        /\ \A m \in DOMAIN lines[r] : m = l
    BY <1>0 DEF ProgressInv, LineInv
  <1>3. /\ Working(r) /\ HeaderAsRead(r) /\ LineAsRead(r, l)
    BY <1>0, <1>2 DEF WorkInv, Working
  <1>4. txn.at = "live" /\ txn'.at = "live"
    BY <1>0, <1>3 DEF HeaderAsRead
  <1>5. Unsettled = {r}
    BY <1>0, <1>1, <1>2, RefundOthers, UnsettledIs
  <1>6. /\ LiveItems' = LiveItems
        /\ \A i \in LiveItems : item'[i].product = item[i].product
        /\ \A i \in LiveItems :
             item'[i].remainingQuantity = IF item[i].product = lines[r][l].product
                                          THEN LeftOf(lines[r][l])
                                          ELSE item[i].remainingQuantity
    BY <1>0, UpdateRows DEF LiveItems
  <1>7. ASSUME NEW p, p # lines[r][l].product
        PROVE  LeftIn(item', LiveItems', p) = LeftIn(item, LiveItems, p)
    <2>1. \A i \in LiveItems : item[i].product = p =>
             item'[i].remainingQuantity = item[i].remainingQuantity
      BY <1>6, <1>7
    <2> QED
      BY <1>0, <1>6, <2>1, LeftInKept
  <1>8. CASE refStep[r] = "post"
    <2>1. Unsettled' = {r}
      BY <1>0, <1>1, <1>2, <1>8, RefundOthers, UnsettledLater
    <2>2. \A p \in Product : (\A m \in DOMAIN lines[r] : lines[r][m].product # p) =>
            LeftIn(item', LiveItems', p) = LeftIn(item, LiveItems, p)
      BY <1>2, <1>7
    <2> QED
      BY <1>0, <1>4, <1>5, <2>1, <2>2, HalfSame
  <1>9. CASE refStep[r] # "post"
    <2>1. \A m \in Line : task'[r][m] # "update"
      <3>1. \A m \in Line : task[r][m] = "update" => m = l
        BY <1>0, <1>2 DEF ProgressInv
      <3> QED
        BY <1>0, <3>1
    <2>2. Unsettled' = {}
      BY <1>0, <1>1, <1>9, <2>1, RefundOthers, UnsettledLater
    <2>3. ~BeforePost(r)
      BY <1>0, <1>2, <1>9 DEF BeforePost, ProgressInv
    <2>4. /\ refSeen[r].status = "approved" /\ refSeen[r].totalValue = totalValue
          /\ refundTotal' = Paid(r) /\ txn'.status = StatusAfter(r)
      BY <1>0, <1>3, <2>3 DEF HeaderAsRead
    <2>5. LeftIn(item', LiveItems', lines[r][l].product) = LeftOf(lines[r][l])
      <3>1. PICK i \in LiveItems : item[i].product = lines[r][l].product
        BY <1>3 DEF LineAsRead
      <3>2. /\ LiveItems \subseteq Item
            /\ \A j \in LiveItems : item[j].product = item[i].product => j = i
        BY <1>0, OneEachHolds DEF OneEach, LedgerBase, LedgerInv
      <3>3. lines[r][l].quantity \in Int /\ lines[r][l].remainingQuantity \in Int
        BY <1>0, <1>2 DEF RowInv, RefundFacts, LineFact
      <3>4. LeftOf(lines[r][l]) \in Int
        BY <3>3 DEF LeftOf
      <3>5. /\ i \in LiveItems' /\ LiveItems' \subseteq Item
            /\ item'[i].product = lines[r][l].product
            /\ item'[i].remainingQuantity = LeftOf(lines[r][l])
            /\ \A j \in LiveItems' : item'[j].product = lines[r][l].product => j = i
        BY <1>6, <3>1, <3>2
      <3> QED
        BY <3>4, <3>5, LeftInOne
    <2>6. \A m \in DOMAIN lines[r] :
            LeftIn(item', LiveItems', lines[r][m].product) = LeftOf(lines[r][m])
      BY <1>2, <2>5
    <2>7. \A p \in Product : (\A m \in DOMAIN lines[r] : lines[r][m].product # p) =>
            LeftIn(item', LiveItems', p) = LeftIn(item, LiveItems, p)
      BY <1>2, <1>7
    <2>8. txn'.status \in Status
      BY <1>0 DEF RowInv, RowTypeOK, TransactionRow
    <2> QED
      BY <1>0, <1>4, <1>5, <2>2, <2>4, <2>6, <2>7, <2>8, Settling
  <1> QED
    BY <1>8, <1>9

LEMMA PostBook ==
  ASSUME MaxOpen = 1, PlainRequests, BookBase, Sold, Sold', NEW r \in Refunder, RefundPost(r)
  PROVE  Book!Next \/ BookSame
  <1>0. /\ RowInv /\ SerialInv /\ AmountInv /\ LineInv /\ WorkInv /\ ProgressInv /\ LedgerBase
        /\ StartedInv
        /\ refStep[r] = "post" /\ refStep'[r] = "commit" /\ refund[r] # 0
        /\ refundTotal' = Paid(r) /\ txn' = [txn EXCEPT !.status = StatusAfter(r)]
        /\ UNCHANGED <<totalValue, item, refund, lines, refSeen, task>>
    BY DEF BookBase, LedgerBase, LedgerInv, ProgressInv, RefundPost, RowInv, RowTypeOK
  <1>1. RefundStepsOf(r)
    BY DEF RefundStepsOf
  <1>2. Working(r) /\ HeaderAsRead(r) /\ BeforePost(r)
    BY <1>0 DEF WorkInv, Working, BeforePost
  <1>3. txn.at = "live" /\ txn'.at = "live" /\ txn'.status = StatusAfter(r)
    BY <1>0, <1>2 DEF HeaderAsRead, RowInv, RowTypeOK, TransactionRow
  <1>4. Unsettled = {r}
    BY <1>0, <1>1, RefundOthers, UnsettledIs
  <1>5. CASE \E l \in Line : task[r][l] = "update"
    <2>1. Unsettled' = {r}
      BY <1>0, <1>1, <1>5, RefundOthers, UnsettledLater
    <2> QED
      BY <1>0, <1>2, <1>3, <1>4, <2>1, LeftInSame, HalfSame
  <1>6. CASE \A l \in Line : task[r][l] # "update"
    <2>1. Unsettled' = {}
      BY <1>0, <1>1, <1>6, RefundOthers, UnsettledLater
    <2>2. refSeen[r].status = "approved" /\ refSeen[r].totalValue = totalValue
      BY <1>2 DEF HeaderAsRead
    <2>3. ASSUME NEW l \in DOMAIN lines[r]
          PROVE  LeftIn(item', LiveItems', lines[r][l].product) = LeftOf(lines[r][l])
      <3>1. l \in Line
        BY <1>0 DEF AmountInv
      <3>2. task[r][l] \in {"save", "saved"}
        BY <1>0, <1>6, <3>1 DEF StartedInv
      <3> QED
        BY <1>0, <1>2, <3>2, LineLeft, LeftInSame
    <2>4. txn'.status \in Status
      BY <1>3 DEF StatusAfter, Status
    <2> QED
      BY <1>0, <1>3, <1>4, <2>1, <2>2, <2>3, <2>4, LeftInSame, Settling
  <1> QED
    BY <1>5, <1>6

\* What a refund does besides shows nowhere.
LEMMA QuietStepBook ==
  ASSUME MaxOpen = 1, MaxFaults = 0, PlainRequests, BookBase, Sold, Sold', [Next]_vars,
         NEW r \in Refunder,
         \/ \E l \in Line : TaskSave(r, l)
         \/ RefundCommit(r) \/ RefundFails(r) \/ RefundRollback(r)
  PROVE  BookSame
  <1>0. /\ RowInv /\ SerialInv /\ AmountInv /\ LineInv /\ WorkInv /\ ProgressInv
        /\ ~Fault
        /\ refStep \in [Refunder -> RefundSteps]
        /\ task \in [Refunder -> [Line -> TaskSteps]]
    BY DEF BookBase, LedgerBase, LedgerInv, RowInv, RowTypeOK, NoFault, Fault
  <1>1. RefundStepsOf(r)
    BY DEF RefundStepsOf
  <1>2. UNCHANGED <<txn, refundTotal, totalValue, item, refund, lines, refSeen>>
    BY DEF TaskSave, RefundCommit, RefundFails, RefundRollback, tableVars, rowVars
  <1>3. /\ refStep'[r] = "post" <=> refStep[r] = "post"
        /\ \A l \in Line : task'[r][l] = "update" <=> task[r][l] = "update"
    BY <1>0 DEF TaskSave, RefundCommit, RefundFails, RefundRollback
  <1>4. Unsettled' = Unsettled
    BY <1>0, <1>1, <1>2, <1>3, RefundOthers, UnsettledIs, UnsettledLater
  <1>5. CASE Unsettled = {}
    BY <1>2, <1>4, <1>5, LeftInSame, PlainSame
  <1>6. CASE Unsettled # {}
    <2>1. Unsettled = {r}
      BY <1>0, <1>1, <1>6, RefundOthers
    <2>2. Working(r)
      BY <2>1, UnsettledOpen
    <2>3. txn.at = "live" /\ txn'.at = "live"
      BY <1>0, <1>2, <2>2 DEF WorkInv, HeaderAsRead
    <2> QED
      BY <1>0, <1>2, <1>4, <2>1, <2>3, LeftInSame, HalfSame
  <1> QED
    BY <1>5, <1>6

\* A process that dies of a line of which nothing remained took back nothing.
LEMMA DiesBook ==
  ASSUME MaxOpen = 1, MaxFaults = 0, PlainRequests, BookBase, Sold, Sold',
         NEW r \in Refunder, RefundDies(r)
  PROVE  Book!Next
  <1>0. /\ RowInv /\ SerialInv /\ AmountInv /\ LineInv /\ WorkInv /\ ProgressInv /\ LedgerBase
        /\ ~Fault
        /\ refStep \in [Refunder -> RefundSteps]
        /\ task \in [Refunder -> [Line -> TaskSteps]]
        /\ UNCHANGED <<txn, refundTotal, totalValue, item, refund, lines, refSeen>>
    BY DEF BookBase, LedgerBase, LedgerInv, RowInv, RowTypeOK, NoFault, Fault, RefundDies, rowVars
  <1>1. RefundStepsOf(r)
    BY DEF RefundStepsOf
  <1>2. /\ refund[r] # 0 /\ RefundAmount(r) = 0
        /\ \A l \in DOMAIN lines[r] : lines[r][l].quantity = 0
    BY <1>0, DiesEmpty DEF RefundRows
  <1>3. PICK l \in Line : task[r][l] = "update"
    BY <1>0 DEF RefundDies, Pending
  <1>4. Working(r) /\ HeaderAsRead(r)
    BY <1>0, <1>3 DEF WorkInv, Working
  <1>5. txn.at = "live" /\ txn'.at = "live" /\ txn'.status \in Status
    BY <1>0, <1>4 DEF HeaderAsRead, RowInv, RowTypeOK, TransactionRow
  <1>6. Unsettled = {r}
    BY <1>0, <1>1, <1>2, <1>3, RefundOthers, UnsettledIs
  <1>7. /\ refStep'[r] # "post" /\ \A m \in Line : task'[r][m] # "update"
    BY <1>0 DEF RefundDies, Pending
  <1>8. Unsettled' = {}
    BY <1>0, <1>1, <1>7, RefundOthers, UnsettledLater
  <1>9. /\ refSeen[r].status = "approved" /\ refSeen[r].totalValue = totalValue
        /\ refundTotal' = Paid(r)
    <2>1. SummaryValue(r) = 0 /\ refSeen[r].refund \in Int
      BY <1>0, <1>2, OneLine DEF AmountInv
    <2>2. Paid(r) = refSeen[r].refund
      BY <2>1 DEF Paid
    <2> QED
      BY <1>0, <1>4, <2>2 DEF HeaderAsRead
  <1>10. ASSUME NEW m \in DOMAIN lines[r]
         PROVE  LeftIn(item', LiveItems', lines[r][m].product) = LeftOf(lines[r][m])
    <2>1. m = l /\ task[r][m] = "update"
      BY <1>0, <1>3 DEF ProgressInv, LineInv
    <2>2. LeftIn(item, LiveItems, lines[r][m].product) = lines[r][m].remainingQuantity
      BY <1>0, <1>4, <2>1, LineLeft
    <2>3. lines[r][m].remainingQuantity \in Nat /\ lines[r][m].quantity = 0
      BY <1>0, <1>2 DEF RowInv, RefundFacts, LineFact
    <2> QED
      BY <1>0, <2>2, <2>3, LeftInSame DEF LeftOf
  <1> QED
    BY <1>0, <1>2, <1>5, <1>6, <1>8, <1>9, <1>10, LeftInSame, Settling

LEMMA RefundBook ==
  ASSUME MaxOpen = 1, MaxFaults = 0, PlainRequests, BookBase, Sold, Sold', [Next]_vars,
         NEW r \in Refunder, RefundStepsOf(r)
  PROVE  Book!Next \/ BookSame
  <1>1. CASE \/ (RefundRead(r) /\ Turn) \/ RefundCount(r) \/ RefundConnect(r)
             \/ RefundStart(r)
    BY <1>1, EarlyBook
  <1>2. CASE RefundInsert(r)
    BY <1>2, InsertBook
  <1>3. ASSUME NEW l \in Line, TaskUpdate(r, l) PROVE Book!Next \/ BookSame
    BY <1>3, UpdateBook
  <1>4. CASE RefundPost(r)
    BY <1>4, PostBook
  <1>5. CASE \/ \E l \in Line : TaskSave(r, l)
             \/ RefundCommit(r) \/ RefundFails(r) \/ RefundRollback(r)
    BY <1>5, QuietStepBook
  <1>6. CASE RefundDies(r)
    BY <1>6, DiesBook
  <1> QED
    BY <1>1, <1>2, <1>3, <1>4, <1>5, <1>6 DEF RefundStepsOf

\* No refund has writes to do while another kind of request steps.
LEMMA NoneUnsettled ==
  ASSUME MaxOpen = 1, SerialInv, UNCHANGED <<refund, refundVars>>,
         \/ \E e \in Editor : EditStepsOf(e)
         \/ \E d \in Deleter : DeleteStepsOf(d)
  PROVE  Unsettled = {} /\ Unsettled' = {}
  <1>1. ASSUME NEW s \in Unsettled PROVE FALSE
    <2>1. <<"refund", s>> \in Open
      BY UnsettledOpen
    <2>2. ASSUME NEW e \in Editor, EditStepsOf(e)
          PROVE  FALSE
      <3>1. Open \subseteq {<<"edit", e>>}
        BY <2>2, StepAlone
      <3>2. <<"refund", s>> = <<"edit", e>>
        BY <2>1, <3>1
      <3> QED
        BY <3>2
    <2>3. ASSUME NEW d \in Deleter, DeleteStepsOf(d)
          PROVE  FALSE
      <3>1. Open \subseteq {<<"delete", d>>}
        BY <2>3, StepAlone
      <3>2. <<"refund", s>> = <<"delete", d>>
        BY <2>1, <3>1
      <3> QED
        BY <3>2
    <2> QED
      BY <2>2, <2>3
  <1>2. Unsettled' = Unsettled
    BY DEF Unsettled, RefundRows, refundVars
  <1> QED
    BY <1>1, <1>2

\* What the book shows around such a step.
LEMMA PlainBook ==
  ASSUME Unsettled = {}, Unsettled' = {}, Sold, Sold'
  PROVE  /\ BookStage = IF txn.at = "live" THEN "open" ELSE "withdrawn"
         /\ BookStage' = IF txn'.at = "live" THEN "open" ELSE "withdrawn"
         /\ BookLabel = txn.status /\ BookLabel' = txn'.status
         /\ BookPaid = refundTotal /\ BookPaid' = refundTotal'
         /\ BookDue = totalValue /\ BookDue' = totalValue'
         /\ BookLeft = [p \in Product |-> IF txn.at = "live" THEN LeftIn(item, LiveItems, p)
                                          ELSE 0]
         /\ BookLeft' = [p \in Product |-> IF txn'.at = "live"
                                           THEN LeftIn(item', LiveItems', p) ELSE 0]
  <1>1. /\ BookStage = IF txn.at = "live" THEN "open" ELSE "withdrawn"
        /\ BookStage' = IF txn'.at = "live" THEN "open" ELSE "withdrawn"
        /\ BookDue = totalValue /\ BookDue' = totalValue'
    BY DEF BookStage, BookDue
  <1>2. BookStage = "open" <=> txn.at = "live"
    BY <1>1
  <1>3. BookStage' = "open" <=> txn'.at = "live"
    BY <1>1
  <1>4. /\ BookLabel = txn.status /\ BookPaid = refundTotal
        /\ BookLeft = [p \in Product |-> IF BookStage = "open" THEN LeftIn(item, LiveItems, p)
                                         ELSE 0]
    BY PlainViewHolds DEF PlainView
  <1>5. /\ BookLabel' = txn'.status /\ BookPaid' = refundTotal'
        /\ BookLeft' = [p \in Product |-> IF BookStage' = "open"
                                          THEN LeftIn(item', LiveItems', p) ELSE 0]
    BY PlainViewLater DEF PlainView
  <1> QED
    BY <1>1, <1>2, <1>3, <1>4, <1>5

\* Lines struck off: nothing is left of their products.
LEMMA DropBook ==
  ASSUME PlainRequests, BookBase, Sold, Sold', Unsettled = {}, Unsettled' = {},
         NEW e \in Editor, EditDrop(e)
  PROVE  Book!Next
  <1> DEFINE gone == {i \in LiveItems : i \in editDto[e].deleteItem}
             struck == {item[i].product : i \in gone}
  <1>0. /\ RowInv /\ EditsLive /\ LedgerBase /\ editStep[e] = "drop"
        /\ UNCHANGED <<txn, totalValue, refundTotal>>
        /\ item \in [Item -> ItemRow]
    BY DEF BookBase, LedgerBase, RowInv, RowTypeOK, EditDrop
  <1>1. txn.at = "live" /\ txn'.at = "live"
    BY <1>0 DEF EditsLive, EditBusy
  <1>2. ASSUME NEW i \in Item
        PROVE  /\ item'[i].product = item[i].product
               /\ item'[i].remainingQuantity = item[i].remainingQuantity
               /\ item'[i].owned = item[i].owned
               /\ item'[i].at = IF i \in editDto[e].deleteItem /\ item[i].at = "live"
                                THEN "deleted" ELSE item[i].at
    <2>1. item[i] \in ItemRow
      BY <1>0
    <2>2. item'[i] = IF i \in editDto[e].deleteItem /\ item[i].at = "live"
                     THEN [item[i] EXCEPT !.at = "deleted"] ELSE item[i]
      BY DEF EditDrop
    <2> QED
      BY <2>1, <2>2 DEF ItemRow
  <1>3. LiveItems' = LiveItems \ gone
    BY <1>2 DEF LiveItems
  <1>4. /\ LiveItems \subseteq Item
        /\ \A i \in LiveItems : /\ item[i].remainingQuantity \in Int
                                /\ item[i].product \in Product
                                /\ \A j \in LiveItems :
                                     item[j].product = item[i].product => j = i
    BY <1>0, OneEachHolds DEF OneEach, LedgerBase, LedgerInv
  <1>5. struck \in SUBSET Product /\ gone \subseteq LiveItems
    BY <1>4
  <1> HIDE DEF gone
  <1>6. ASSUME NEW p \in Product
        PROVE  LeftIn(item', LiveItems', p)
                 = IF p \in struck THEN 0 ELSE LeftIn(item, LiveItems, p)
    <2>1. CASE \A i \in LiveItems' : item'[i].product # p
      <3>1. LeftIn(item', LiveItems', p) = 0
        BY <2>1, LeftInNone
      <3>2. CASE p \in struck
        BY <3>1, <3>2
      <3>3. CASE p \notin struck
        <4>1. \A i \in LiveItems : item[i].product # p
          BY <1>2, <1>3, <1>4, <2>1, <3>3
        <4> QED
          BY <3>1, <3>3, <4>1, LeftInNone
      <3> QED
        BY <3>2, <3>3
    <2>2. ASSUME NEW i \in LiveItems', item'[i].product = p
          PROVE  LeftIn(item', LiveItems', p)
                   = IF p \in struck THEN 0 ELSE LeftIn(item, LiveItems, p)
      <3>1. i \in LiveItems /\ i \notin gone /\ item[i].product = p
        BY <1>2, <1>3, <1>4, <2>2
      <3>2. p \notin struck
        BY <1>4, <1>5, <3>1
      <3>7. /\ item[i].remainingQuantity \in Int /\ LiveItems \subseteq Item
            /\ \A j \in LiveItems : item[j].product = p => j = i
        BY <1>4, <3>1
      <3>3. LeftIn(item, LiveItems, p) = item[i].remainingQuantity
        BY <3>1, <3>7, LeftInOne
      <3>4. /\ LiveItems' \subseteq Item
            /\ item'[i].remainingQuantity = item[i].remainingQuantity
            /\ \A j \in LiveItems' : item'[j].product = p => j = i
        BY <1>2, <1>3, <1>4, <3>1
      <3>6. item'[i].remainingQuantity \in Int
        BY <1>4, <3>1, <3>4
      <3>5. LeftIn(item', LiveItems', p) = item'[i].remainingQuantity
        BY <2>2, <3>4, <3>6, LeftInOne
      <3> QED
        BY <3>2, <3>3, <3>4, <3>5
    <2> QED
      BY <2>1, <2>2
  <1> HIDE DEF struck
  <1>7. /\ BookLeft = [p \in Product |-> LeftIn(item, LiveItems, p)]
        /\ BookLeft' = [p \in Product |-> LeftIn(item', LiveItems', p)]
        /\ BookStage = "open" /\ UNCHANGED <<BookStage, BookLabel, BookPaid, BookDue>>
    BY <1>0, <1>1, PlainBook
  <1>8. BookLeft' = [p \in Product |-> IF p \in struck THEN 0 ELSE BookLeft[p]]
    BY <1>6, <1>7
  <1>9. Book!Strike(struck)
    BY <1>7, <1>8 DEF Book!Strike
  <1> QED
    BY <1>5, <1>9 DEF Book!Next

\* What an edit writes is a repricing, a relabelling or lines struck off.
LEMMA EditBook ==
  ASSUME MaxOpen = 1, MaxFaults = 0, PlainRequests, BookBase, Sold, Sold', [Next]_vars,
         NEW e \in Editor, EditStepsOf(e), UNCHANGED refundVars
  PROVE  Book!Next \/ BookSame
  <1> USE DEF tableVars, rowVars
  <1>0. /\ RowInv /\ SerialInv /\ AmountInv /\ EditsLive /\ LedgerBase
        /\ editStep \in [Editor -> EditSteps]
    BY DEF BookBase, LedgerBase, RowInv, RowTypeOK
  <1>1. UNCHANGED <<refund, refundVars>>
    BY StepKeeps
  <1>2. Unsettled = {} /\ Unsettled' = {}
    BY <1>0, <1>1, NoneUnsettled
  <1>3. ASSUME UNCHANGED <<txn, refundTotal, totalValue, item>> PROVE BookSame
    BY <1>2, <1>3, LeftInSame, PlainSame
  <1>4. CASE \/ EditRead(e) \/ EditLoadItem(e) \/ EditReload(e) \/ EditSum(e)
             \/ EditHeaderReload(e) \/ EditFails(e)
    <2>1. UNCHANGED <<txn, refundTotal, totalValue, item>>
      BY <1>4 DEF EditRead, EditLoadItem, EditReload, EditSum, EditHeaderReload, EditFails
    <2> QED
      BY <1>3, <2>1
  <1>5. CASE EditSaveItem(e)
    <2>1. UNCHANGED <<txn, refundTotal, totalValue>>
      BY <1>5 DEF EditSaveItem
    <2>2. \A j \in Item : /\ item'[j].product = item[j].product
                          /\ item'[j].remainingQuantity = item[j].remainingQuantity
                          /\ item'[j].at = item[j].at
                          /\ item'[j].owned = item[j].owned
      BY <1>0, <1>5, SavedKeeps
    <2>3. LiveItems' = LiveItems /\ LiveItems \subseteq Item
      BY <2>2 DEF LiveItems
    <2>4. \A p \in Product : LeftIn(item', LiveItems', p) = LeftIn(item, LiveItems, p)
      BY <1>0, <2>2, <2>3, LeftInKept
    <2> QED
      BY <1>2, <2>1, <2>4, PlainSame
  <1>6. CASE EditTotals(e)
    <2>1. editStep[e] = "totals" /\ txn' = txn /\ item' = item /\ refundTotal' = refundTotal
      BY <1>6 DEF EditTotals
    <2>2. txn.at = "live" /\ txn'.at = "live"
      BY <1>0, <2>1 DEF EditsLive, EditBusy
    <2>3. totalValue' = editSum[e]
      BY <1>6, <2>2 DEF EditTotals, TransactionUpdate
    <2>4. totalValue' \in Int \cup {Null}
      BY <1>0, <2>3 DEF AmountInv, SumTypeOK
    <2>5. \A p : LeftIn(item', LiveItems', p) = LeftIn(item, LiveItems, p)
      BY <2>1, LeftInSame
    <2>6. /\ BookStage = "open" /\ BookDue' \in Int \cup {Null}
          /\ UNCHANGED <<BookStage, BookLabel, BookLeft, BookPaid>>
      BY <1>2, <2>1, <2>2, <2>4, <2>5, PlainBook
    <2>7. Book!Amend
      BY <2>6 DEF Book!Amend
    <2> QED
      BY <2>7 DEF Book!Next
  <1>7. CASE EditDrop(e)
    BY <1>2, <1>7, DropBook
  <1>8. CASE EditHeaderSave(e)
    <2>1. /\ item' = item /\ totalValue' = totalValue /\ refundTotal' = refundTotal
          /\ txn.at = "live" /\ txn'.at = "live"
          /\ txn'.status \in {txn.status, editSeen[e].status}
      BY <1>0, <1>8, HeaderKeeps
    <2>2. txn'.status \in Status
      BY <1>0, <2>1 DEF RowInv, RowTypeOK, EditFacts, TransactionRow
    <2>3. \A p : LeftIn(item', LiveItems', p) = LeftIn(item, LiveItems, p)
      BY <2>1, LeftInSame
    <2>4. /\ BookStage = "open" /\ BookLabel' \in Status
          /\ UNCHANGED <<BookStage, BookLeft, BookPaid, BookDue>>
      BY <1>2, <2>1, <2>2, <2>3, PlainBook
    <2>5. Book!Relabel
      BY <2>4 DEF Book!Relabel
    <2> QED
      BY <2>5 DEF Book!Next
  <1> QED
    BY <1>4, <1>5, <1>6, <1>7, <1>8 DEF EditStepsOf

\* A deletion withdraws the sale, once.
LEMMA DeleteBook ==
  ASSUME MaxOpen = 1, MaxFaults = 0, PlainRequests, BookBase, Sold, Sold', [Next]_vars,
         NEW d \in Deleter, DeleteStepsOf(d), UNCHANGED refundVars
  PROVE  Book!Next \/ BookSame
  <1> USE DEF tableVars, rowVars
  <1>0. RowInv /\ SerialInv
    BY DEF BookBase, LedgerBase
  <1>1. UNCHANGED <<refund, refundVars>>
    BY StepKeeps
  <1>2. Unsettled = {} /\ Unsettled' = {}
    BY <1>0, <1>1, NoneUnsettled
  <1>3. ASSUME UNCHANGED <<txn, refundTotal, totalValue, item>> PROVE BookSame
    BY <1>2, <1>3, LeftInSame, PlainSame
  <1>4. ASSUME UNCHANGED <<refundTotal, totalValue>>, txn'.status = txn.status,
               txn'.at # "live"
        PROVE  Book!Next \/ BookSame
    <2>1. /\ BookStage = IF txn.at = "live" THEN "open" ELSE "withdrawn"
          /\ BookStage' = "withdrawn"
          /\ UNCHANGED <<BookLabel, BookPaid, BookDue>>
      BY <1>2, <1>4, PlainBook
    <2>2. BookLeft' = [p \in Product |-> 0]
      BY <1>2, <1>4, PlainBook
    <2>3. CASE txn.at = "live"
      <3>1. Book!Withdraw
        BY <2>1, <2>2, <2>3 DEF Book!Withdraw, Book!Nothing
      <3> QED
        BY <3>1 DEF Book!Next
    <2>4. CASE txn.at # "live"
      <3>1. BookLeft = [p \in Product |-> 0]
        BY <1>2, <2>4, PlainBook
      <3> QED
        BY <2>1, <2>2, <2>4, <3>1 DEF BookSame
    <2> QED
      BY <2>3, <2>4
  <1>5. CASE DeleteRead(d) \/ DeleteFails(d)
    <2>1. UNCHANGED <<txn, refundTotal, totalValue, item>>
      BY <1>5 DEF DeleteRead, DeleteFails
    <2> QED
      BY <1>3, <2>1
  <1>6. txn \in TransactionRow
    BY <1>0 DEF RowInv, RowTypeOK
  <1>7. CASE DeleteMark(d)
    <2>1. /\ UNCHANGED <<refundTotal, totalValue>>
          /\ txn'.status = txn.status /\ txn'.at # "live"
      BY <1>6, <1>7 DEF DeleteMark, TransactionRow
    <2> QED
      BY <1>4, <2>1
  <1>8. CASE DeleteRemove(d)
    <2>1. CASE RefundRows # {}
      BY <1>3, <1>8, <2>1 DEF DeleteRemove
    <2>2. CASE RefundRows = {}
      <3>1. /\ UNCHANGED <<refundTotal, totalValue>>
            /\ txn'.status = txn.status /\ txn'.at # "live"
        BY <1>6, <1>8, <2>2 DEF DeleteRemove, TransactionRow
      <3> QED
        BY <1>4, <3>1
    <2> QED
      BY <2>1, <2>2
  <1> QED
    BY <1>5, <1>7, <1>8 DEF DeleteStepsOf

\* What the rows of a product have left is a quantity.
LEMMA LeftInNat ==
  ASSUME PlainRequests, BookBase, NEW p
  PROVE  LeftIn(item, LiveItems, p) \in Nat
  <1>1. /\ LiveItems \subseteq Item
        /\ \A i \in LiveItems : /\ item[i].remainingQuantity \in Int
                                /\ \A j \in LiveItems :
                                     item[j].product = item[i].product => j = i
    BY OneEachHolds DEF OneEach, BookBase, LedgerBase, LedgerInv
  <1>2. \A i \in LiveItems : item[i].remainingQuantity \in Nat
    BY <1>1 DEF BookBase, RemainingInv, RemainingWithinSold, WithinSold
  <1>3. CASE \A i \in LiveItems : item[i].product # p
    BY <1>3, LeftInNone
  <1>4. ASSUME NEW i \in LiveItems, item[i].product = p
        PROVE  LeftIn(item, LiveItems, p) \in Nat
    <2>1. /\ item[i].remainingQuantity \in Int
          /\ \A j \in LiveItems : item[j].product = p => j = i
      BY <1>1, <1>4
    <2>2. LeftIn(item, LiveItems, p) = item[i].remainingQuantity
      BY <1>1, <1>4, <2>1, LeftInOne
    <2> QED
      BY <1>2, <2>2
  <1> QED
    BY <1>3, <1>4

\* The sale is recorded by the update that follows its lines.
LEMMA SellBook ==
  ASSUME MaxOpen = 1, MaxFaults = 0, PlainRequests, BookBase, AddStepsOf, UNCHANGED refundVars
  PROVE  Book!Next \/ BookSame
  <1> USE DEF tableVars, rowVars
  <1>0. /\ RowInv /\ SerialInv /\ AmountInv /\ ProgressInv /\ BegunInv /\ LedgerBase /\ TotalInv
        /\ refStep \in [Refunder -> RefundSteps]
    BY DEF BookBase, LedgerBase, LedgerInv, RowInv, RowTypeOK
  <1>1. ~Sold /\ addStep # "ok"
    BY DEF Sold, AddStepsOf, AddSave, AddItem, AddSum, AddTotals, AddFails
  <1>2. UNCHANGED <<refund, refundTotal, refundVars, editVars>>
    BY DEF AddStepsOf, AddSave, AddItem, AddSum, AddTotals, AddFails
  <1>3. Unsettled = {}
    BY <1>0, <1>1, UnsettledIs DEF BegunInv, ProgressInv
  <1>4. Unsettled' = {}
    BY <1>2, <1>3 DEF Unsettled, RefundRows, refundVars
  <1>5. /\ BookStage = "unsold" /\ BookLabel = "pending" /\ BookDue = Null
        /\ BookPaid = refundTotal /\ BookPaid' = refundTotal'
    BY <1>1, <1>3, <1>4 DEF BookStage, BookLabel, BookDue, BookPaid
  <1>6. BookLeft = [p \in Product |-> 0]
    BY <1>3, <1>5, PlainViewHolds DEF PlainView
  <1>7. CASE ~Sold'
    <2>1. BookStage' = "unsold" /\ BookLabel' = "pending" /\ BookDue' = Null
      BY <1>7 DEF BookStage, BookLabel, BookDue
    <2>2. BookLeft' = [p \in Product |-> 0]
      BY <1>4, <2>1, PlainViewLater DEF PlainView
    <2> QED
      BY <1>2, <1>5, <1>6, <2>1, <2>2 DEF BookSame
  <1>8. CASE Sold'
    <2>1. AddTotals
      BY <1>0, <1>8 DEF Sold, AddStepsOf, AddSave, AddItem, AddSum, AddFails
    <2>2. /\ addStep = "totals" /\ txn' = txn /\ item' = item
          /\ txn.at = "live"
      BY <1>0, <2>1 DEF AddTotals, BegunInv
    <2>3. ~Struck
      BY <1>0, <1>1 DEF Struck, BegunInv
    <2>4. LiveItems # {} /\ addSum = SumTransactionItemDetail
      BY <1>0, <2>2, <2>3 DEF TotalInv
    <2>5. totalValue' = addSum
      BY <2>1, <2>2 DEF AddTotals, TransactionUpdate
    <2>6. totalValue' \in Int
      BY <1>0, <2>4, <2>5, DetailInt
    <2>7. txn.status \in Status
      BY <1>0 DEF RowInv, RowTypeOK, TransactionRow
    <2>8. /\ BookStage' = "open" /\ BookDue' \in Int
      BY <1>8, <2>2, <2>6 DEF BookStage, BookDue
    <2>9. BookLabel' \in Status
      BY <1>4, <1>8, <2>2, <2>7, PlainViewLater DEF PlainView
    <2>10. BookLeft' = [p \in Product |-> LeftIn(item, LiveItems, p)]
      <3>1. \A p : LeftIn(item', LiveItems', p) = LeftIn(item, LiveItems, p)
        BY <2>2, LeftInSame
      <3> QED
        BY <1>4, <2>8, <3>1, PlainViewLater DEF PlainView
    <2>11. \A p \in Product : LeftIn(item, LiveItems, p) \in Nat
      BY LeftInNat
    <2>12. BookLeft' \in [Product -> Nat]
      BY <2>10, <2>11
    <2>13. BookPaid' = BookPaid
      BY <1>2, <1>5
    <2>14. Book!Sell
      BY <1>5, <2>8, <2>9, <2>12, <2>13 DEF Book!Sell
    <2> QED
      BY <2>14 DEF Book!Next
  <1> QED
    BY <1>7, <1>8

\* Every step of the services is a step of the book or leaves it.
LEMMA BookStep ==
  ASSUME MaxOpen = 1, MaxFaults = 0, PlainRequests, BookBase, [Next]_vars
  PROVE  [Book!Next]_(Book!bookVars)
  <1>0. SerialInv /\ BegunInv
    BY DEF BookBase, LedgerBase, LedgerInv
  <1>1. BookSame => UNCHANGED Book!bookVars
    BY DEF BookSame, Book!bookVars
  <1>2. CASE AddStepsOf /\ UNCHANGED refundVars
    BY <1>1, <1>2, SellBook
  <1>3. ASSUME NEW e \in Editor, EditStepsOf(e), UNCHANGED refundVars
        PROVE  Book!Next \/ BookSame
    <2>1. Sold /\ Sold'
      BY <1>0, <1>3, AfterSale, StepKeeps DEF Sold, addVars
    <2> QED
      BY <1>3, <2>1, EditBook
  <1>4. ASSUME NEW d \in Deleter, DeleteStepsOf(d), UNCHANGED refundVars
        PROVE  Book!Next \/ BookSame
    <2>1. Sold /\ Sold'
      BY <1>0, <1>4, AfterSale, StepKeeps DEF Sold, addVars
    <2> QED
      BY <1>4, <2>1, DeleteBook
  <1>5. ASSUME NEW r \in Refunder, RefundStepsOf(r), UNCHANGED serviceVars
        PROVE  Book!Next \/ BookSame
    <2>1. Sold /\ Sold'
      BY <1>0, <1>5, AfterSale DEF Sold, serviceVars, addVars
    <2> QED
      BY <1>5, <2>1, RefundBook
  <1>6. CASE UNCHANGED vars
    <2>1. /\ Sold' = Sold /\ UNCHANGED <<txn, refundTotal, totalValue, item>>
          /\ UNCHANGED <<refund, refStep, task, lines, refSeen>>
      BY <1>6 DEF vars, tableVars, rowVars, serviceVars, addVars, refundVars, Sold
    <2>2. Unsettled' = Unsettled /\ LiveItems' = LiveItems
      BY <2>1 DEF Unsettled, RefundRows, LiveItems
    <2>3. BookStage' = BookStage
      BY <2>1 DEF BookStage
    <2>4. UNCHANGED <<BookLabel, BookPaid, BookDue>>
      BY <2>1, <2>2 DEF BookLabel, BookPaid, BookDue
    <2> DEFINE Shown(stage, undone, list, rows, live) ==
          [p \in Product |->
             LET pairs == {rl \in undone \X Line : /\ rl[2] \in DOMAIN list[rl[1]]
                                                   /\ list[rl[1]][rl[2]].product = p}
             IN  IF stage # "open" THEN 0
                 ELSE IF pairs # {}
                      THEN LET rl == CHOOSE x \in pairs : TRUE
                           IN  list[rl[1]][rl[2]].remainingQuantity
                 ELSE SumFunctionOnSet([i \in Item |-> rows[i].remainingQuantity],
                                       {i \in live : rows[i].product = p})]
    <2>5. /\ BookLeft = Shown(BookStage, Unsettled, lines, item, LiveItems)
          /\ BookLeft' = Shown(BookStage', Unsettled', lines', item', LiveItems')
      BY Zenon DEF BookLeft
    <2> HIDE DEF Shown
    <2>6. BookLeft' = BookLeft
      BY <2>1, <2>2, <2>3, <2>5
    <2> QED
      BY <1>1, <2>3, <2>4, <2>6 DEF BookSame
  <1> QED
    BY <1>1, <1>2, <1>3, <1>4, <1>5, <1>6 DEF Next, Finished

LEMMA BookInit == Init => Book!Init
  <1> SUFFICES ASSUME Init PROVE Book!Init
    OBVIOUS
  <1>1. Unsettled = {} /\ ~Sold
    BY DEF Init, TablesInit, ServiceInit, Unsettled, RefundRows, Sold
  <1>2. BookStage = "unsold" /\ BookLabel = "pending" /\ BookDue = Null
    BY <1>1 DEF BookStage, BookLabel, BookDue
  <1>3. BookPaid = 0
    BY <1>1 DEF BookPaid, Init, TablesInit
  <1>4. BookLeft = [p \in Product |-> 0]
    BY <1>1, <1>2, PlainViewHolds DEF PlainView
  <1> QED
    BY <1>2, <1>3, <1>4 DEF Book!Init, Book!Nothing

LEMMA StartedInit == Init => StartedInv
  BY DEF Init, RefundInit, StartedInv

\* While requests do not overlap, no statement fails, no product is twice in
\* a sale and a refund has one line, every behaviour of the services is one
\* of SaleBook: the statements of a request add up to one step of the book
\* at most, and nothing else shows.
THEOREM SaleKeepsBook ==
  ASSUME MaxOpen = 1, MaxFaults = 0, PlainRequests
  PROVE  Spec => ImplementsBook
  <1>1. NoFault /\ [Next]_vars => NoFault'
    BY FaultStep
  <1>2. RowInv /\ SerialInv /\ [Next]_vars => SerialInv'
    BY SerialStep
  <1>3. RowInv /\ SerialInv /\ EditsLive /\ [Next]_vars => EditsLive'
    BY LiveStep
  <1>4. RowInv /\ RemainingInv /\ [Next]_vars => RemainingInv'
    BY RemainingRows, RemainingHeld, RemainingValidated DEF RemainingInv
  <1>5. /\ NoFault /\ RowInv /\ SerialInv /\ PriceInv /\ AmountInv /\ EditsLive /\ TotalInv
        /\ [Next]_vars
        => TotalInv'
    BY TotalStep
  <1>6. /\ NoFault /\ RowInv /\ SerialInv /\ PriceInv /\ AmountInv
        /\ ProgressInv /\ LeftFacts /\ EditsLive /\ LedgerInv
        /\ [Next]_vars
        => LedgerInv'
    BY LedgerStep
  <1>7. LedgerBase /\ StartedInv /\ [Next]_vars => StartedInv'
    BY StartedStep
  <1>8. BookBase /\ [Next]_vars => [Book!Next]_(Book!bookVars)
    BY BookStep
  <1>9. Init => BookBase
    BY FaultInit, InitRowInv, InitSerial, InitPrice, AmountInit, ProgressInit, LeftInit,
       InitLive, LedgerInit, InitTotal, InitRemaining, StartedInit DEF BookBase, LedgerBase
  <1>10. BookBase /\ [Next]_vars => BookBase'
    BY <1>1, <1>2, <1>3, <1>4, <1>5, <1>6, <1>7, RowInvStep, PriceStep, AmountStep,
       ProgressStep, LeftStep DEF BookBase, LedgerBase
  <1> QED
    BY <1>8, <1>9, <1>10, BookInit, PTL DEF Spec, ImplementsBook, Book!Spec

=============================================================================
