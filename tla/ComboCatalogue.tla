--------------------------- MODULE ComboCatalogue ---------------------------
(***************************************************************************)
(* The combos of one shop's catalogue: what each contains, what it costs    *)
(* and whether it may be sold, under concurrent edits.                      *)
(*                                                                          *)
(* src/src/modules/products/combo-components.ts checks and writes what a    *)
(* combo contains, products.service.ts edits prices, discontinues products  *)
(* and removes variants, and orders/combo-expansion.ts opens a combo when   *)
(* it is sold. Writing components, discontinuing and selling again queue    *)
(* behind one advisory lock per shop (lockComboGraph); editing a price and  *)
(* removing a variant do not take it.                                       *)
(*                                                                          *)
(* A request under way is a record in edit holding what it has read. A      *)
(* component list is a function from items to a count, 0 for an item not in *)
(* it; an item that is not a combo contains nothing.                        *)
(***************************************************************************)
EXTENDS Naturals, FiniteSets, Functions

CONSTANTS Combos,      \* items of type COMBO
          Goods,       \* items of the other types: they contain nothing
          Products,    \* the catalogue's products
          ProductOf,   \* the product an item is a variant of
          MaxDepth,    \* MAX_COMBO_DEPTH: how deep combos may nest
          Counts,      \* bound: how often a list may hold one component
          CostPrices,      \* bound: cost prices a good may have
          Editors,    \* concurrent requests
          Nobody       \* the holder of a free lock

ItemIds == Combos \cup Goods

ASSUME CatalogueAssumption ==
  /\ Combos \cap Goods = {} /\ IsFiniteSet(Combos) /\ IsFiniteSet(Goods)
  /\ ProductOf \in [ItemIds -> Products]
  /\ MaxDepth \in Nat \ {0}
  /\ Counts \subseteq Nat \ {0}
  /\ CostPrices \subseteq Nat
  /\ Nobody \notin Editors

VARIABLES listed,      \* items that exist
          parts,       \* what each combo contains
          cost,        \* the stored cost price
          status,      \* of each product; ACTIVE stands for INACTIVE too
          lock,        \* who holds the combo graph lock
          edit,         \* the requests under way
          raced        \* history: two transactions that price combos overlapped

catalogueVars == <<listed, parts, cost, status, lock, edit, raced>>

Nothing == [i \in ItemIds |-> 0]
Lists == {p \in [ItemIds -> Counts \cup {0}] : p # Nothing}
In(p) == {i \in ItemIds : p[i] > 0}
NoEdit == [op |-> "idle"]

------------------------------------------------------------------------------
(* Opening a combo *)

\* flattenCombo walks down and gives up on an empty combo, on one that
\* contains itself and on a path of more than MaxDepth combos. Openable(g)[n]
\* are the combos of which n levels are enough.
Openable(g) ==
  LET within[n \in 0 .. MaxDepth] ==
        IF n = 0 THEN {}
        ELSE {c \in Combos : /\ g[c] # Nothing
                             /\ In(g[c]) \cap Combos \subseteq within[n - 1]}
  IN within

Opens(g, c) == c \in Openable(g)[MaxDepth]

\* ancestorsOf: the combos from which one of the items s is reached.
Above(g, s) ==
  LET up[n \in 0 .. Cardinality(Combos)] ==
        IF n = 0 THEN {}
        ELSE {c \in Combos : In(g[c]) \cap (s \cup up[n - 1]) # {}}
  IN up[Cardinality(Combos)]

ParentsOnly(g, s) == {c \in Combos : In(g[c]) \cap s # {}}
NoneAbove(g, s) == {}

Ancestors(g, s) == Above(g, s)

\* assertComboGraph: the combo that changed and all above it still open.
GraphAllows(g, c) == \A d \in {c} \cup Ancestors(g, {c}) : Opens(g, d)

------------------------------------------------------------------------------
(* What a combo costs *)

\* comboCostOf: the sum over the components of count times cost.
CostOf(p, price) == SumFunctionOnSet([i \in ItemIds |-> p[i] * price[i]], ItemIds)

\* recomputeComboCosts: the combos above the changed items get a new cost,
\* children first; an item not above them keeps its stored one.
Recomputed(g, price, changed) ==
  LET up == Ancestors(g, changed)
      after[n \in 0 .. Cardinality(Combos)] ==
        IF n = 0 THEN price
        ELSE [i \in ItemIds |-> IF i \in up THEN CostOf(g[i], after[n - 1])
                                          ELSE price[i]]
  IN after[Cardinality(Combos)]

------------------------------------------------------------------------------
(* The lock *)

LockIgnored == TRUE
LockFree == lock = Nobody

Done(r) == /\ edit' = [edit EXCEPT ![r] = NoEdit]
           /\ lock' = IF lock = r THEN Nobody ELSE lock

\* A transaction that prices combos and is not yet committed.
Pricing(r) == edit[r].op \in {"combo", "cost"}
Overlap == \E q \in Editors : Pricing(q)

------------------------------------------------------------------------------
(* Writing what a combo contains: createItem, updateItem *)

\* assertNoDiscontinuedComponent.
Alive(p) == \A i \in In(p) : status[ProductOf[i]] # "DISCONTINUED"

\* writeComboComponents up to its writes: the lock, the components with
\* their cost, the whole graph. A combo not yet listed is being created in
\* the same transaction.
ComboRead(r, c, p) ==
  /\ edit[r].op = "idle"
  /\ LockFree
  /\ c \notin In(p) /\ In(p) \subseteq listed
  /\ Alive(p)
  /\ GraphAllows([parts EXCEPT ![c] = p], c)
  /\ edit' = [edit EXCEPT ![r] = [op |-> "combo", item |-> c, parts |-> p,
                                cost |-> CostOf(p, cost), new |-> c \notin listed]]
  /\ lock' = r
  /\ raced' = (raced \/ Overlap)
  /\ UNCHANGED <<listed, parts, cost, status>>

\* Its writes: the list, the combo's cost from the costs read before, then
\* the cost of the combos above from what is stored now. A component removed
\* meanwhile breaks the foreign key, a combo removed meanwhile the update.
ComboCommit(r) ==
  LET c == edit[r].item
      p == edit[r].parts
      g == [parts EXCEPT ![c] = p]
      own == [cost EXCEPT ![c] = edit[r].cost]
  IN /\ edit[r].op = "combo"
     /\ In(p) \subseteq listed
     /\ edit[r].new = (c \notin listed)
     /\ parts' = g
     /\ cost' = Recomputed(g, own, {c})
     /\ listed' = listed \cup {c}
     /\ Done(r)
     /\ UNCHANGED <<status, raced>>

------------------------------------------------------------------------------
(* Goods: createItem, updateItem with a cost, removeItem *)

CreateGood(g, price) ==
  /\ g \notin listed
  /\ listed' = listed \cup {g}
  /\ cost' = [cost EXCEPT ![g] = price]
  /\ raced' = (raced \/ Overlap)
  /\ UNCHANGED <<parts, status, lock, edit>>

\* The row of the good is written, and so locked, before the graph and the
\* costs are read; the combo graph lock is not taken. Bound: no price is
\* edited any more once two transactions have raced.
CostRead(r, g, price) ==
  /\ edit[r].op = "idle"
  /\ ~ raced
  /\ g \in listed
  /\ \A q \in Editors : edit[q].op = "cost" => edit[q].item # g
  /\ LET after == Recomputed(parts, [cost EXCEPT ![g] = price], {g})
     IN edit' = [edit EXCEPT ![r] =
          [op |-> "cost", item |-> g,
           cost |-> [i \in {g} \cup Ancestors(parts, {g}) |-> after[i]]]]
  /\ raced' = (raced \/ Overlap)
  /\ UNCHANGED <<listed, parts, cost, status, lock>>

\* The combos above the good get the cost that was worked out.
CostCommit(r) ==
  LET written == DOMAIN edit[r].cost
  IN /\ edit[r].op = "cost"
     /\ written \subseteq listed
     /\ cost' = [i \in ItemIds |-> IF i \in written THEN edit[r].cost[i] ELSE cost[i]]
     /\ Done(r)
     /\ UNCHANGED <<listed, parts, status, raced>>

\* removeItem counts what refers to the item and deletes it without a
\* transaction around the two; a component row that appeared meanwhile
\* refuses the delete, and a combo takes its own rows with it.
Unused(i) == \A c \in listed \cap Combos : i \notin In(parts[c])

RemoveRead(r, i) ==
  /\ edit[r].op = "idle"
  /\ i \in listed /\ Unused(i)
  /\ edit' = [edit EXCEPT ![r] = [op |-> "remove", item |-> i]]
  /\ UNCHANGED <<listed, parts, cost, status, lock, raced>>

RemoveCommit(r) ==
  LET i == edit[r].item
  IN /\ edit[r].op = "remove"
     /\ i \in listed /\ Unused(i)
     /\ listed' = listed \ {i}
     /\ parts' = [parts EXCEPT ![i] = Nothing]
     /\ cost' = [cost EXCEPT ![i] = 0]
     /\ Done(r)
     /\ UNCHANGED <<status, raced>>

------------------------------------------------------------------------------
(* Products: discontinue, update *)

\* discontinue reads the product, and that nothing is left of it, before its
\* transaction; the combos that contain it are counted under the lock.
DiscontinueRead(r, p) ==
  /\ edit[r].op = "idle"
  /\ status[p] # "DISCONTINUED"
  /\ edit' = [edit EXCEPT ![r] = [op |-> "discontinue", product |-> p]]
  /\ UNCHANGED <<listed, parts, cost, status, lock, raced>>

InSoldCombo(p) ==
  \E c \in listed \cap Combos :
    /\ ProductOf[c] # p /\ status[ProductOf[c]] # "DISCONTINUED"
    /\ \E i \in In(parts[c]) : ProductOf[i] = p

DiscontinueCommit(r) ==
  /\ edit[r].op = "discontinue"
  /\ LockFree
  /\ ~ InSoldCombo(edit[r].product)
  /\ status' = [status EXCEPT ![edit[r].product] = "DISCONTINUED"]
  /\ Done(r)
  /\ UNCHANGED <<listed, parts, cost, raced>>

\* assertCombosSellable: no component of the product's combos, those of the
\* product itself apart, belongs to a discontinued product.
Sellable(p) ==
  \A c \in listed \cap Combos : ProductOf[c] = p =>
    \A i \in In(parts[c]) :
      ProductOf[i] = p \/ status[ProductOf[i]] # "DISCONTINUED"

\* update with a status: the current one is read after the lock.
Resell(p) ==
  /\ LockFree
  /\ status[p] = "DISCONTINUED" => Sellable(p)
  /\ status' = [status EXCEPT ![p] = "ACTIVE"]
  /\ UNCHANGED <<listed, parts, cost, lock, edit, raced>>

\* A request that is refused, or whose connection is lost, rolls back.
DropEdit(r) ==
  /\ edit[r].op # "idle"
  /\ Done(r)
  /\ UNCHANGED <<listed, parts, cost, status, raced>>

------------------------------------------------------------------------------

CatalogueInit ==
  /\ listed = Goods
  /\ parts = [i \in ItemIds |-> Nothing]
  /\ \E f \in [Goods -> CostPrices] : cost = [i \in ItemIds |-> IF i \in Goods THEN f[i] ELSE 0]
  /\ status = [p \in Products |-> "ACTIVE"]
  /\ lock = Nobody
  /\ edit = [r \in Editors |-> NoEdit]
  /\ raced = FALSE

CatalogueNext ==
  \/ \E g \in Goods, price \in CostPrices : CreateGood(g, price)
  \/ \E p \in Products : Resell(p)
  \/ \E r \in Editors :
       \/ \E c \in Combos, p \in Lists : ComboRead(r, c, p)
       \/ ComboCommit(r)
       \/ \E g \in Goods, price \in CostPrices : CostRead(r, g, price)
       \/ CostCommit(r)
       \/ \E i \in ItemIds : RemoveRead(r, i)
       \/ RemoveCommit(r)
       \/ \E p \in Products : DiscontinueRead(r, p)
       \/ DiscontinueCommit(r)
       \/ DropEdit(r)

CatalogueSpec == CatalogueInit /\ [][CatalogueNext]_catalogueVars

------------------------------------------------------------------------------
(* Properties *)

CatalogueTypeOK ==
  /\ listed \subseteq ItemIds
  /\ parts \in [ItemIds -> [ItemIds -> Counts \cup {0}]]
  /\ cost \in [ItemIds -> Nat]
  /\ status \in [Products -> {"ACTIVE", "DISCONTINUED"}]
  /\ lock \in Editors \cup {Nobody}
  /\ raced \in BOOLEAN

\* Whatever was edited at the same time, every combo of the catalogue can be
\* opened into goods when it is sold: flattenCombo finds no empty combo, no
\* combo inside itself and none nested too deep, in that combo or below it.
EveryComboOpens == \A c \in listed \cap Combos : Opens(parts, c)

\* A combo on sale holds nothing of a discontinued product, whether the combo
\* was edited, the product discontinued or the combo put on sale again last.
NothingDeadOnSale ==
  \A c \in listed \cap Combos :
    status[ProductOf[c]] # "DISCONTINUED" =>
      \A i \in In(parts[c]) :
        ProductOf[i] = ProductOf[c] \/ status[ProductOf[i]] # "DISCONTINUED"

\* What the catalogue offers can be sold.
CombosCanBeSold == EveryComboOpens /\ NothingDeadOnSale

\* As long as no two transactions that price combos overlapped, the stored
\* cost of a combo is the sum of its components at every level.
CostsAddUp ==
  ~ raced => \A c \in listed \cap Combos : cost[c] = CostOf(parts[c], cost)

\* combo-components.ts:269 relies on the stored cost of what is not above the
\* change being right. Editing a price does not take the lock, so two edits,
\* or an edit and a new component list, leave a sum of prices that are gone.
StoredCostIsRight ==
  \A c \in listed \cap Combos : cost[c] = CostOf(parts[c], cost)
=============================================================================
