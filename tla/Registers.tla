----------------------------- MODULE Registers -----------------------------
(***************************************************************************)
(* The registers of a shop: customers, categories, the variants of one      *)
(* product, and suppliers.                                                  *)
(*                                                                          *)
(* Their services look whether a change is allowed and then write, without  *)
(* a lock or a transaction around both. What the database repeats is an     *)
(* index on customer codes and on SKUs, and a restriction on the deletion   *)
(* of a parent category; a supplier that is deleted disappears from the     *)
(* imports that name it. Only debts move in conditional updates.            *)
(* Names, addresses and searches are left out.                              *)
(***************************************************************************)
EXTENDS Requests, FiniteSets, FiniteSetsExt

CONSTANTS Customers, Phones,   \* rows of customers, and phone numbers
          CodeNumbers,         \* numbers of customer codes
          Categories, Labels,  \* rows of categories, and names for them
          MaxDepth,            \* MAX_DEPTH
          Variants,            \* SKUs of the product
          Attributes, Marks,   \* its attributes, and what a SKU may say of one
          Suppliers, Imports,  \* rows of suppliers and of import documents
          Sums                 \* bound: amounts of money

ASSUME RegistersAssumption ==
  /\ CodeNumbers \subseteq Nat \ {0} /\ MaxDepth \in Nat \ {0} /\ Sums \subseteq Nat \ {0}
  /\ IsFiniteSet(Categories) /\ IsFiniteSet(Imports)
  /\ None \notin Customers \cup Categories \cup Suppliers

\* No row of a table is SQL null.
CategoryRow == [label : Labels, parent : Categories \cup {None}]
SupplierRow == [type : {"GOODS", "WORKSHOP"}, debt : Nat]
ImportRow == [from : Suppliers \cup {None}, charged : Nat]

\* What a SKU can say of the attributes.
Values == [Attributes -> Marks \cup {None}]

ASSUME RowsAssumption ==
  None \notin CategoryRow /\ None \notin SupplierRow /\ None \notin ImportRow /\ None \notin Values

VARIABLES customer, \* [phone, code, deleted], None for no row
          category, \* [label, parent], None for no row
          unseen,   \* whether assertNoCycle has passed a move it saw no end of
          product,  \* products.category_id and its copy of the category's name
          attribute, \* product_attributes: "unused", "kept", "removed"
          variant,  \* what a SKU says of each attribute, None for no row
          apart,    \* pairs of SKUs one of which resolve made beside the other
          supplier, \* [type, debt], None for no row
          import,   \* from_supplier_id, charged, and what was charged at all
          paid,     \* the expenses booked for each supplier
          raced     \* whether two requests about a register have overlapped

variantVars == <<attribute, variant, apart>>
registersVars ==
  <<customer, category, unseen, product, variantVars, supplier, import, paid, raced>>

\* The attributes a SKU says something of, and those the product has.
Uses(values) == {a \in Attributes : values[a] # None}
OnProduct == {a \in Attributes : attribute[a] = "kept"}

RegistersInit ==
  /\ customer = [c \in Customers |-> None]
  /\ category = [c \in Categories |-> None]
  /\ product = [category |-> None, label |-> None]
  /\ unseen = FALSE
  /\ attribute \in [Attributes -> {"unused", "kept"}]
  /\ variant \in {[v \in Variants |-> IF v = w THEN x ELSE None] :
                    w \in Variants, x \in {y \in Values : Uses(y) \subseteq OnProduct}}
  /\ apart = {}
  /\ supplier \in [Suppliers -> {[type |-> "GOODS", debt |-> 0], None}]
  /\ import = [i \in Imports |-> None]
  /\ paid = [s \in Suppliers |-> 0]
  /\ raced = FALSE

\* A request about a register that has made its checks and goes on to write.
Check(r, op, body) ==
  /\ Begin(r, op, body)
  /\ raced' = (raced \/ \E q \in Requests \ {r} : req[q] # Idle)
  /\ UNCHANGED <<customer, category, unseen, product, variantVars, supplier, import, paid>>

------------------------------------------------------------------------------
(* Customers: customers.service.ts *)

Present(c) == customer[c] # None /\ ~customer[c].deleted
TakenBy(others, phone) == {c \in others : Present(c) /\ customer[c].phone = phone}

\* A wrong variant asks nobody but the customers without a code.
PhoneFreeSomewhere(phone, but) ==
  phone # None => \A c \in TakenBy(Customers \ {but}, phone) : customer[c].code # None

\* assertPhoneIsFree, of a customer that is not removed.
PhoneIsFree(phone, but) == phone # None => TakenBy(Customers \ {but}, phone) = {}

\* assertCodeIsFree; it does not see the codes of removed customers.
CodeIsFree(code, but) ==
  code # None => \A c \in Customers \ {but} : Present(c) => customer[c].code # code

\* nextCustomerCode: the one after the largest, of removed customers too.
NextCode == Max({0} \cup {customer[c].code : c \in {d \in Customers : customer[d] # None}}) + 1

\* create, which draws a code unless one is given.
CustomerCreateRead(r, c, phone, code) ==
  /\ customer[c] = None /\ CodeIsFree(code, None) /\ PhoneIsFree(phone, None)
  /\ Check(r, "customerCreate", [op |-> "customerCreate", at |-> "write", row |-> c, phone |-> phone,
                                 code |-> IF code = None THEN NextCode ELSE code])

\* findOrCreateForOrder: a customer with that phone is taken as it is.
FindOrCreate(r, c, phone) ==
  /\ phone # None => TakenBy(Customers, phone) = {}
  /\ CustomerCreateRead(r, c, phone, None)

\* The index on codes counts removed customers. Bound: codes.
Holders(code) == {c \in Customers : customer[c] # None /\ customer[c].code = code}

CustomerCreateWrite(r) ==
  /\ At(r, {"customerCreate"}, "write")
  /\ LET x == req[r]
         refused == \/ customer[x.row] # None \/ x.code \notin CodeNumbers
                    \/ Holders(x.code) # {}
     IN customer' = IF refused THEN customer
                    ELSE [customer EXCEPT ![x.row] =
                            [phone |-> x.phone, code |-> x.code, deleted |-> FALSE]]
  /\ req' = Done(r) /\ Frame
  /\ UNCHANGED <<category, unseen, product, variantVars, supplier, import, paid, raced>>

\* update of a phone and, if one is given, a code.
CustomerUpdateRead(r, c, phone, code) ==
  /\ Present(c) /\ CodeIsFree(code, c) /\ PhoneIsFree(phone, c)
  /\ Check(r, "customerUpdate", [op |-> "customerUpdate", at |-> "write", row |-> c, phone |-> phone,
                                 code |-> code])

CustomerUpdateWrite(r) ==
  /\ At(r, {"customerUpdate"}, "write")
  /\ LET x == req[r]
         code == IF x.code = None THEN customer[x.row].code ELSE x.code
     IN customer' = IF Holders(code) \ {x.row} # {} THEN customer
                    ELSE [customer EXCEPT ![x.row] = [@ EXCEPT !.phone = x.phone, !.code = code]]
  /\ req' = Done(r) /\ Frame
  /\ UNCHANGED <<category, unseen, product, variantVars, supplier, import, paid, raced>>

\* remove and removeMany.
CustomerRemove(gone) ==
  /\ gone # {} /\ \A c \in gone : Present(c)
  /\ Once("customerRemove")
  /\ customer' = [c \in Customers |-> IF c \in gone THEN [customer[c] EXCEPT !.deleted = TRUE]
                                      ELSE customer[c]]
  /\ UNCHANGED <<category, unseen, product, variantVars, supplier, import, paid, raced>>

------------------------------------------------------------------------------
(* Categories: categories.service.ts, and their product *)

ParentOf(c) == IF c = None \/ category[c] = None THEN None ELSE category[c].parent

\* The way up from c: c, its parent, and so on.
Chain(c) ==
  LET up[n \in 0..MaxDepth] == IF n = 0 THEN c ELSE ParentOf(up[n - 1])
  IN up

\* ancestorsOf: c and what is above it, as far as MAX_DEPTH.
AncestorsOf(c) == {Chain(c)[n] : n \in 0..(MaxDepth - 1)} \ {None}

\* The way up is longer than that.
TooDeep(c) == Chain(c)[MaxDepth] # None

\* A wrong variant looks at the new parent only.
NotItself(c, parent) == c # parent

\* assertNoCycle.
NoCycle(c, parent) == c # parent /\ c \notin AncestorsOf(parent)

CategoryCreateRead(r, c, parent, label) ==
  /\ category[c] = None
  /\ parent # None => category[parent] # None
  /\ Check(r, "category", [op |-> "category", at |-> "write", row |-> c, parent |-> parent,
                           label |-> label, fresh |-> TRUE, renamed |-> FALSE,
                           unseen |-> FALSE])

CategoryUpdateRead(r, c, parent, label) ==
  /\ category[c] # None
  /\ parent # None => category[parent] # None /\ NoCycle(c, parent)
  /\ Check(r, "category", [op |-> "category", at |-> "write", row |-> c, parent |-> parent,
                           label |-> label, fresh |-> FALSE, renamed |-> label # category[c].label,
                           unseen |-> parent # category[c].parent /\ TooDeep(parent)])

\* The foreign key refuses a parent that is gone. A new name goes to the products
\* of the category in the same transaction.
CategoryWrite(r) ==
  /\ At(r, {"category"}, "write")
  /\ LET x == req[r]
         refused == \/ x.fresh = (category[x.row] # None)
                    \/ x.parent # None /\ x.parent # x.row /\ category[x.parent] = None
     IN IF refused THEN UNCHANGED <<category, unseen, product>>
        ELSE /\ unseen' = (unseen \/ x.unseen)
             /\ category' = [category EXCEPT ![x.row] = [label |-> x.label, parent |-> x.parent]]
             /\ product' = IF ~x.renamed \/ product.category # x.row THEN product
                           ELSE [product EXCEPT !.label = x.label]
  /\ req' = Done(r) /\ Frame
  /\ UNCHANGED <<customer, variantVars, supplier, import, paid, raced>>

CategoryRemoveRead(r, c) ==
  /\ category[c] # None
  /\ \A d \in Categories : category[d] # None => category[d].parent # c
  /\ product.category # c
  /\ Check(r, "categoryRemove", [op |-> "categoryRemove", at |-> "write", row |-> c])

\* ON DELETE RESTRICT for the children, ON DELETE SET NULL for products.
CategoryRemoveWrite(r) ==
  /\ At(r, {"categoryRemove"}, "write")
  /\ LET c == req[r].row
     IN IF \E d \in Categories : category[d] # None /\ category[d].parent = c
        THEN UNCHANGED <<category, product>>
        ELSE /\ category' = [category EXCEPT ![c] = None]
             /\ product' = IF product.category # c THEN product
                           ELSE [product EXCEPT !.category = None]
  /\ req' = Done(r) /\ Frame
  /\ UNCHANGED <<customer, unseen, variantVars, supplier, import, paid, raced>>

\* update of a product, as far as resolveCategoryName and the copy go.
ProductUpdateRead(r, c) ==
  /\ category[c] # None
  /\ Check(r, "product", [op |-> "product", at |-> "write", row |-> c, label |-> category[c].label])

ProductUpdateWrite(r) ==
  /\ At(r, {"product"}, "write")
  /\ product' = IF category[req[r].row] = None THEN product
                ELSE [category |-> req[r].row, label |-> req[r].label]
  /\ req' = Done(r) /\ Frame
  /\ UNCHANGED <<customer, category, unseen, variantVars, supplier, import, paid, raced>>

StandingCategories == {c \in Categories : category[c] # None}

\* findTree: the categories below a root, however deep; those in a circle of
\* parents are not.
Reached ==
  {c \in StandingCategories :
     \A S \in SUBSET StandingCategories : c \in S => \E d \in S : category[d].parent \notin S}

------------------------------------------------------------------------------
(* Variants: product-variant.service.ts, products.service.ts, product-attributes.ts *)

Made == {v \in Variants : variant[v] # None}
Siblings(base) == Made \ {base}

\* resolve keeps the SKU, takes a sibling of the same values, or makes a new one.
\* It changes values of attributes the product has, and leaves none blank.
ResolveRead(r, base, values) ==
  /\ base \in Made /\ values # variant[base]
  /\ \A a \in Attributes : values[a] # variant[base][a] => values[a] # None /\ a \in OnProduct
  /\ ~ \E v \in Siblings(base) : variant[v] = values
  /\ Check(r, "resolve", [op |-> "resolve", at |-> "write", row |-> base, values |-> values])

\* createVariant. The index on SKUs may refuse the number it draws, the foreign
\* key an attribute that is gone. Bound: a spare row.
ResolveWrite(r) ==
  /\ At(r, {"resolve"}, "write")
  /\ \/ UNCHANGED <<variant, apart>>
     \/ \E v \in Variants \ Made :
          /\ Uses(req[r].values) \subseteq OnProduct
          /\ variant' = [variant EXCEPT ![v] = req[r].values]
          /\ apart' = apart \cup {{v, w} : w \in Made}
  /\ req' = Done(r) /\ Frame
  /\ UNCHANGED <<customer, category, unseen, product, attribute, supplier, import, paid, raced>>

\* The pairs that remain when some SKUs are no longer what they were.
ApartBut(changed) == {p \in apart : p \cap changed = {}}

\* A change in one transaction that looks at no other SKU.
ChangeItem(op) ==
  /\ Once(op)
  /\ raced' = (raced \/ \E q \in Requests : req[q] # Idle)
  /\ UNCHANGED <<customer, category, unseen, product, supplier, import, paid>>

\* writeItemDetails: the values of one SKU; it adds attributes the product lacks.
WriteDetails(v, values) ==
  /\ \A a \in Uses(values) : attribute[a] # "removed"
  /\ attribute' = [a \in Attributes |-> IF a \in Uses(values) THEN "kept" ELSE attribute[a]]
  /\ variant' = [variant EXCEPT ![v] = values]
  /\ apart' = ApartBut({v})

\* createItem and updateItem.
ItemCreate(v, values) ==
  /\ v \notin Made
  /\ ChangeItem("itemCreate") /\ WriteDetails(v, values)

ItemUpdate(v, values) ==
  /\ v \in Made
  /\ ChangeItem("itemUpdate") /\ WriteDetails(v, values)

\* removeItem, of a SKU nothing refers to.
ItemRemove(v) ==
  /\ v \in Made
  /\ ChangeItem("itemRemove")
  /\ variant' = [variant EXCEPT ![v] = None]
  /\ apart' = ApartBut({v})
  /\ UNCHANGED attribute

\* replaceAttributes: an attribute that is not wanted goes, and what SKUs say of it.
ReplaceAttributes(wanted) ==
  LET gone == OnProduct \ wanted
      rest(v) == [a \in Attributes |-> IF a \in gone THEN None ELSE variant[v][a]]
  IN /\ \A a \in wanted : attribute[a] # "removed"
     /\ ChangeItem("attributes")
     /\ attribute' = [a \in Attributes |-> CASE a \in wanted -> "kept"
                                             [] a \in gone -> "removed"
                                             [] OTHER -> attribute[a]]
     /\ variant' = [v \in Variants |-> IF v \in Made THEN rest(v) ELSE None]
     /\ apart' = ApartBut({v \in Made : Uses(variant[v]) \cap gone # {}})

------------------------------------------------------------------------------
(* Suppliers: suppliers.service.ts *)

Naming(s) == {i \in Imports : import[i] # None /\ import[i].from = s}

SupplierCreate(s, type) ==
  /\ supplier[s] = None /\ paid[s] = 0 /\ Naming(s) = {}
  /\ \A r \in Requests : req[r] = Idle \/ req[r].op \notin {"supplierRemove", "supplierType"}
  /\ Once("supplierCreate")
  /\ supplier' = [supplier EXCEPT ![s] = [type |-> type, debt |-> 0]]
  /\ UNCHANGED <<customer, category, unseen, product, variantVars, import, paid, raced>>

\* update of the type, after assertTypeIsFree.
SupplierTypeRead(r, s, type) ==
  /\ supplier[s] # None /\ supplier[s].type # type /\ Naming(s) = {}
  /\ Check(r, "supplierType", [op |-> "supplierType", at |-> "write", row |-> s, type |-> type])

SupplierTypeWrite(r) ==
  /\ At(r, {"supplierType"}, "write")
  /\ supplier' = IF supplier[req[r].row] = None THEN supplier
                 ELSE [supplier EXCEPT ![req[r].row].type = req[r].type]
  /\ req' = Done(r) /\ Frame
  /\ UNCHANGED <<customer, category, unseen, product, variantVars, import, paid, raced>>

\* remove: no debt, no goods, no document and no payment names it. The goods of
\* a supplier are those of a charged import.
SupplierRemoveRead(r, s) ==
  /\ supplier[s] # None /\ supplier[s].debt = 0 /\ Naming(s) = {} /\ paid[s] = 0
  /\ Check(r, "supplierRemove", [op |-> "supplierRemove", at |-> "write", row |-> s])

\* Its goods restrict the deletion; its documents and payments are set to null.
SupplierRemoveWrite(r) ==
  /\ At(r, {"supplierRemove"}, "write")
  /\ LET s == req[r].row
     IN IF \E i \in Naming(s) : import[i].charged > 0
        THEN UNCHANGED <<supplier, import>>
        ELSE /\ supplier' = [supplier EXCEPT ![s] = None]
             /\ import' = [i \in Imports |->
                  IF i \in Naming(s) THEN [import[i] EXCEPT !.from = None] ELSE import[i]]
  /\ req' = Done(r) /\ Frame
  /\ UNCHANGED <<customer, category, unseen, product, variantVars, paid, raced>>

\* create of an import, behind requireForImport.
ImportRead(r, i, s) ==
  /\ import[i] = None
  /\ supplier[s] # None /\ supplier[s].type = "GOODS"
  /\ Check(r, "import", [op |-> "import", at |-> "write", row |-> i, from |-> s])

ImportWrite(r) ==
  /\ At(r, {"import"}, "write")
  /\ import' = IF supplier[req[r].from] = None \/ import[req[r].row] # None THEN import
               ELSE [import EXCEPT ![req[r].row] = [from |-> req[r].from, charged |-> 0]]
  /\ req' = Done(r) /\ Frame
  /\ UNCHANGED <<customer, category, unseen, product, variantVars, supplier, paid, raced>>

\* The import is received: charge, of an import that still names a supplier.
ImportReceive(i, sum) ==
  /\ import[i] # None /\ import[i].from # None /\ import[i].charged = 0
  /\ Once("import")
  /\ import' = [import EXCEPT ![i].charged = sum]
  /\ supplier' = [supplier EXCEPT ![import[i].from].debt = @ + sum]
  /\ UNCHANGED <<customer, category, unseen, product, variantVars, paid, raced>>

\* payDebt: a conditional decrement, and the expense in the same transaction.
PayDebt(s, sum) ==
  /\ supplier[s] # None /\ supplier[s].debt >= sum
  /\ Once("payDebt")
  /\ supplier' = [supplier EXCEPT ![s].debt = @ - sum]
  /\ paid' = [paid EXCEPT ![s] = @ + sum]
  /\ UNCHANGED <<customer, category, unseen, product, variantVars, import, raced>>

------------------------------------------------------------------------------
RegistersNext ==
  \/ May("customerRemove") /\ \E gone \in SUBSET Customers : CustomerRemove(gone)
  \/ May("supplierCreate") /\ \E s \in Suppliers, type \in {"GOODS", "WORKSHOP"} : SupplierCreate(s, type)
  \/ May("import") /\ \E i \in Imports, sum \in Sums : ImportReceive(i, sum)
  \/ May("itemCreate") /\ \E v \in Variants, x \in Values : ItemCreate(v, x)
  \/ May("itemUpdate") /\ \E v \in Variants, x \in Values : ItemUpdate(v, x)
  \/ May("itemRemove") /\ \E v \in Variants : ItemRemove(v)
  \/ May("attributes") /\ \E wanted \in SUBSET Attributes : ReplaceAttributes(wanted)
  \/ May("payDebt") /\ \E s \in Suppliers, sum \in Sums : PayDebt(s, sum)
  \/ \E r \in Requests :
       \/ CustomerCreateWrite(r) \/ CustomerUpdateWrite(r)
       \/ CategoryWrite(r) \/ CategoryRemoveWrite(r) \/ ProductUpdateWrite(r)
       \/ ResolveWrite(r)
       \/ SupplierTypeWrite(r) \/ SupplierRemoveWrite(r) \/ ImportWrite(r)
       \/ /\ MayBegin(r, "customerCreate")
          /\ \E c \in Customers, phone \in Phones \cup {None} :
               \/ FindOrCreate(r, c, phone)
               \/ \E code \in CodeNumbers \cup {None} : CustomerCreateRead(r, c, phone, code)
       \/ /\ MayBegin(r, "customerUpdate")
          /\ \E c \in Customers, phone \in Phones \cup {None}, code \in CodeNumbers \cup {None} :
               CustomerUpdateRead(r, c, phone, code)
       \/ /\ MayBegin(r, "category")
          /\ \E c \in Categories, parent \in Categories \cup {None}, label \in Labels :
               CategoryCreateRead(r, c, parent, label) \/ CategoryUpdateRead(r, c, parent, label)
       \/ MayBegin(r, "categoryRemove") /\ \E c \in Categories : CategoryRemoveRead(r, c)
       \/ MayBegin(r, "product") /\ \E c \in Categories : ProductUpdateRead(r, c)
       \/ MayBegin(r, "resolve") /\ \E v \in Variants, x \in Values : ResolveRead(r, v, x)
       \/ /\ MayBegin(r, "supplierType")
          /\ \E s \in Suppliers, type \in {"GOODS", "WORKSHOP"} : SupplierTypeRead(r, s, type)
       \/ MayBegin(r, "supplierRemove") /\ \E s \in Suppliers : SupplierRemoveRead(r, s)
       \/ MayBegin(r, "import") /\ \E i \in Imports, s \in Suppliers : ImportRead(r, i, s)

------------------------------------------------------------------------------
\* The debt of a supplier is what its imports charged less what was paid, also
\* of one that was removed while an import or a payment was on its way.
Charged(s) == [i \in Imports |-> IF i \in Naming(s) THEN import[i].charged ELSE 0]
DebtsAddUp ==
  \A s \in Suppliers :
    IF supplier[s] = None THEN Naming(s) = {}
    ELSE supplier[s].debt + paid[s] = SumFunctionOnSet(Charged(s), Imports)

\* One live customer per phone; a SKU that resolve made is no twin of one that
\* was there, as long as neither is edited; unless a tree has outgrown the check,
\* every category is below a root; the product is labelled with its category; no
\* import is without a supplier or from a workshop.
NothingAmiss ==
  /\ \A c, d \in Customers :
       Present(c) /\ Present(d) /\ customer[c].phone = customer[d].phone => c = d \/ customer[c].phone = None
  /\ \A v, w \in Variants : {v, w} \in apart => variant[v] # variant[w]
  /\ ~unseen => Reached = StandingCategories
  /\ product.category # None => product.label = category[product.category].label
  /\ \A i \in Imports : import[i] # None =>
       import[i].from # None /\ supplier[import[i].from].type = "GOODS"

\* No sequence of legal requests damages a register, as long as no two of them
\* overlap; debts add up however they overlap. Overlapping requests do produce
\* twins, cycles, stale labels and imports without a supplier: nothing repeats
\* the checks (customers.service.ts:203, product-variant.service.ts:62,
\* categories.service.ts:144, suppliers.service.ts:130). Without any overlap, an
\* edit of a SKU may make it the twin of another (products.service.ts:784, :997,
\* product-attributes.ts:74 compare nothing), and a category may be moved below
\* its own descendant when that is more than MAX_DEPTH levels down
\* (categories.service.ts:99).
RegistersHold == DebtsAddUp /\ (~raced => NothingAmiss)
=============================================================================
