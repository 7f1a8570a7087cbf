---------------------------- MODULE Reports_proofs ----------------------------
(***************************************************************************)
(* Theorems about what the back office shows, for any number of sales,     *)
(* rows, orders, queries and requests: no figure of the dashboard          *)
(* contradicts another, and the list of orders has every order once, on    *)
(* the page where it belongs, with badges that count what they lead to.    *)
(***************************************************************************)
EXTENDS BackOffice_proofs, SequenceTheorems

------------------------------------------------------------------------------
(* The dashboard *)

\* What the reports read of an order and of a row of stock.
SaleRows == [kind : SaleKinds, status : Moves, at : Nat, failed : BOOLEAN, cost : Costs]
RackRows == [stock : Int, locked : Nat, sold : Nat \cup {None}, made : Nat, onSale : BOOLEAN]

TablesOK ==
  /\ clock \in Nat /\ edition \in Nat
  /\ sale \in [Sales -> SaleRows \cup {NoSale}]
  /\ rack \in [Rows -> RackRows]

\* One sum for each value of a key: the rows are as many as the keys.
LEMMA KeyedRows ==
  ASSUME NEW K, IsFiniteSet(K), NEW rows, NEW b \in [K -> rows],
         \A k, l \in K : b[k] = b[l] => k = l, \A x \in rows : \E k \in K : b[k] = x,
         NEW f, NEW g, \A k \in K : f[b[k]] = g[k] /\ g[k] \in Int
  PROVE  SumFunctionOnSet(f, rows) = SumFunctionOnSet(g, K)
<1>1. b \in Surjection(K, rows)  BY DEF Surjection
<1>2. IsFiniteSet(rows)  BY <1>1, FS_Surjection
<1>3. \A x \in rows : f[x] \in Int  OBVIOUS
<1>4. \A k \in K : g[k] = f[b[k]]  OBVIOUS
<1> QED  BY <1>2, <1>3, <1>4, SumRenamed

\* The orders of a report have a total in numbers, and are finitely many.
LEMMA OrdersSummed ==
  ASSUME TablesOK, NEW S \in SUBSET Sales, \A o \in S : sale[o] # NoSale
  PROVE  /\ IsFiniteSet(S) /\ Cardinality(S) \in Nat
         /\ \A o \in S : /\ sale[o] \in SaleRows /\ sale[o].kind.total \in Nat
                         /\ sale[o].kind.fees \in Int /\ sale[o].kind.units \in Nat
         /\ Revenue(S) \in Nat
<1>1. IsFiniteSet(S) /\ Cardinality(S) \in Nat
  BY DashboardAssumption, FS_Subset, FS_CardinalityType
<1>2. \A o \in S : sale[o] \in SaleRows  BY DEF TablesOK
<1>3. \A o \in S : sale[o].kind \in SaleKinds  BY <1>2 DEF SaleRows
<1>4. \A o \in S : /\ sale[o].kind.total \in Nat
                   /\ sale[o].kind.fees \in Int /\ sale[o].kind.units \in Nat
  BY <1>3, DashboardAssumption
<1>5. PICK f : f = [o \in S |-> sale[o].kind.total]  OBVIOUS
<1>6. \A o \in S : f[o] \in Nat  BY <1>4, <1>5
<1>7. DOMAIN f = S  BY <1>5
<1>8. SumFunctionOnSet(f, S) \in Nat  BY <1>1, <1>6, SumNat
<1>9. Revenue(S) = SumFunctionOnSet(f, S)  BY <1>5, <1>7, SumWhole DEF Revenue
<1> QED  BY <1>1, <1>2, <1>4, <1>8, <1>9

\* A sum over some of the orders is one of the same summands.
LEMMA RevenueOfSome ==
  ASSUME NEW S, IsFiniteSet(S), NEW T \in SUBSET S
  PROVE  Revenue(T) = SumFunctionOnSet([o \in S |-> sale[o].kind.total], T)
<1>1. PICK f : f = [o \in S |-> sale[o].kind.total]  OBVIOUS
<1>2. PICK g : g = [o \in T |-> sale[o].kind.total]  OBVIOUS
<1>3. IsFiniteSet(T) /\ DOMAIN g = T /\ \A o \in T : g[o] = f[o]  BY <1>1, <1>2, FS_Subset
<1>4. SumFunction(g) = SumFunctionOnSet(f, T)  BY <1>3, SumOfValues
<1> QED  BY <1>1, <1>2, <1>4 DEF Revenue

LEMMA RowFields ==
  ASSUME NEW key, NEW k, NEW S, S = {o \in DOMAIN key : key[o] = k}
  PROVE  /\ GroupRow(key, k).key = k
         /\ GroupRow(key, k).revenue = Revenue(S)
         /\ GroupRow(key, k).orders = Cardinality(S)
<1>1. PICK n, m : n = Revenue(S) /\ m = Cardinality(S)  OBVIOUS
<1>2. GroupRow(key, k) = [key |-> k, revenue |-> n, orders |-> m]  BY <1>1 DEF GroupRow
<1> HIDE <1>1
<1>3. /\ GroupRow(key, k).key = k
      /\ GroupRow(key, k).revenue = n
      /\ GroupRow(key, k).orders = m
  BY <1>2
<1> QED  BY <1>1, <1>3

\* The groups of a report add up to the report.
LEMMA GroupsAddUp ==
  ASSUME TablesOK, NEW S \in SUBSET Sales, \A o \in S : sale[o] # NoSale,
         NEW key, DOMAIN key = S
  PROVE  SumOf(GroupedBy(key)) = [revenue |-> Revenue(S), orders |-> Cardinality(S)]
<1> DEFINE group(k) == {o \in S : key[o] = k}
<1>1. PICK K : K = Range(key)  OBVIOUS
<1>2. PICK b : b = [k \in K |-> GroupRow(key, k)]  OBVIOUS
<1>3. PICK rows : rows = GroupedBy(key)  OBVIOUS
<1>4. IsFiniteSet(S)  BY OrdersSummed
<1>5. IsFiniteSet(K) /\ \A o \in S : key[o] \in K
  <2>1. \A o \in S : key[o] \in K  BY <1>1 DEF Range
  <2>2. PICK h : h = [o \in S |-> key[o]]  OBVIOUS
  <2>3. h \in Surjection(S, K)  BY <1>1, <2>2 DEF Range, Surjection
  <2> QED  BY <1>4, <2>1, <2>3, FS_Surjection
<1>6. \A k \in K : /\ b[k].key = k /\ b[k].revenue = Revenue(group(k))
                   /\ b[k].orders = Cardinality(group(k))
                   /\ b[k] \in rows
  <2>1. \A k \in K : b[k] \in rows  BY <1>1, <1>2, <1>3 DEF GroupedBy
  <2>2. ASSUME NEW k \in K
        PROVE  /\ b[k].key = k /\ b[k].revenue = Revenue(group(k))
               /\ b[k].orders = Cardinality(group(k))
    <3>1. PICK T : T = group(k)  OBVIOUS
    <3>2. T = {o \in DOMAIN key : key[o] = k} /\ b[k] = GroupRow(key, k)  BY <1>2, <3>1
    <3> HIDE DEF group
    <3> QED  BY <3>1, <3>2, RowFields
  <2> QED  BY <2>1, <2>2
<1>7. \A x \in rows : \E k \in K : b[k] = x  BY <1>1, <1>2, <1>3 DEF GroupedBy
<1>8. b \in [K -> rows]  BY <1>2, <1>6
<1>9. \A k, l \in K : b[k] = b[l] => k = l
  <2> HIDE DEF group
  <2> QED  BY <1>6
<1>10. \A k \in K : Revenue(group(k)) \in Int /\ Cardinality(group(k)) \in Int
  <2> TAKE k \in K
  <2>1. group(k) \in SUBSET Sales /\ \A o \in group(k) : sale[o] # NoSale  OBVIOUS
  <2> HIDE DEF group
  <2>2. Revenue(group(k)) \in Int /\ Cardinality(group(k)) \in Nat  BY <2>1, OrdersSummed
  <2> QED  BY <2>2
<1>11. SumFunction([x \in rows |-> x.revenue]) = Revenue(S)
  <2>1. PICK f : f = [x \in rows |-> x.revenue]  OBVIOUS
  <2>2. PICK g : g = [k \in K |-> Revenue(group(k))]  OBVIOUS
  <2>3. PICK t : t = [o \in S |-> sale[o].kind.total]  OBVIOUS
  <2>4. SumFunctionOnSet(f, rows) = SumFunctionOnSet(g, K)
    <3> HIDE DEF group
    <3>2. \A k \in K : f[b[k]] = g[k] /\ g[k] \in Int  BY <1>6, <1>10, <2>1, <2>2
    <3> QED  BY <1>5, <1>7, <1>8, <1>9, <3>2, KeyedRows
  <2>5. \A k \in K : g[k] = SumFunctionOnSet(t, {o \in S : key[o] = k})
    BY <1>4, <2>2, <2>3, RevenueOfSome
  <2>6. g = [k \in K |-> SumFunctionOnSet(t, {o \in S : key[o] = k})]  BY <2>2, <2>5
  <2>7. \A o \in S : t[o] \in Int
    <3>1. \A o \in S : sale[o].kind.total \in Nat  BY OrdersSummed
    <3> QED  BY <2>3, <3>1
  <2>8. SumFunctionOnSet(g, K) = SumFunctionOnSet(t, S)  BY <1>4, <1>5, <2>6, <2>7, SumGrouped
  <2>9. Revenue(S) = SumFunctionOnSet(t, S)  BY <1>4, <2>3, RevenueOfSome
  <2>10. DOMAIN f = rows  BY <2>1
  <2> QED  BY <2>1, <2>4, <2>8, <2>9, <2>10, SumWhole
<1>12. SumFunction([x \in rows |-> x.orders]) = Cardinality(S)
  <2>1. PICK f : f = [x \in rows |-> x.orders]  OBVIOUS
  <2>2. PICK g : g = [k \in K |-> Cardinality(group(k))]  OBVIOUS
  <2>3. PICK t : t = [o \in S |-> 1]  OBVIOUS
  <2>4. SumFunctionOnSet(f, rows) = SumFunctionOnSet(g, K)
    <3> HIDE DEF group
    <3>2. \A k \in K : f[b[k]] = g[k] /\ g[k] \in Int  BY <1>6, <1>10, <2>1, <2>2
    <3> QED  BY <1>5, <1>7, <1>8, <1>9, <3>2, KeyedRows
  <2>5. \A k \in K : g[k] = SumFunctionOnSet(t, {o \in S : key[o] = k})
    <3> TAKE k \in K
    <3>1. IsFiniteSet(group(k)) /\ \A o \in group(k) : t[o] = 1  BY <1>4, <2>3, FS_Subset
    <3> HIDE DEF group
    <3>2. SumFunctionOnSet(t, group(k)) = Cardinality(group(k))  BY <3>1, SumOfOnes
    <3> QED  BY <2>2, <3>2 DEF group
  <2>6. g = [k \in K |-> SumFunctionOnSet(t, {o \in S : key[o] = k})]  BY <2>2, <2>5
  <2>7. \A o \in S : t[o] \in Int /\ t[o] = 1  BY <2>3
  <2>8. SumFunctionOnSet(g, K) = SumFunctionOnSet(t, S)  BY <1>4, <1>5, <2>6, <2>7, SumGrouped
  <2>9. Cardinality(S) = SumFunctionOnSet(t, S)  BY <1>4, <2>7, SumOfOnes
  <2>10. DOMAIN f = rows  BY <2>1
  <2> QED  BY <2>1, <2>4, <2>8, <2>9, <2>10, SumWhole
<1> QED  BY <1>3, <1>11, <1>12 DEF SumOf

\* What a report counts are orders there are.
LEMMA CountedPlaced ==
  ASSUME NEW w, NEW b
  PROVE  /\ Counted(w, b) \in SUBSET Sales
         /\ \A o \in Counted(w, b) : /\ sale[o] # NoSale /\ sale[o].status = "COMPLETED"
                                     /\ w.from <= sale[o].at /\ sale[o].at <= w.to
                                     /\ In(o, w, b)
BY DEF Counted, In

\* Split in any way, the sales of a window add up to its takings.
LEMMA SplitsAddUp ==
  ASSUME TablesOK, NEW w, NEW b
  PROVE  LET whole == [revenue |-> Revenue(Counted(w, b)), orders |-> Cardinality(Counted(w, b))]
         IN  /\ SumOf(RevenueSeries(w, b)) = whole
             /\ SumOf(SalesHeatmap(w, b)) = whole
             /\ SumOf(RevenueByPaymentMethod(w, b)) = whole
             /\ SumOf(RevenueByStaff(w, b)) = whole
             /\ SumOf(RevenueByBranch(w, b)) = whole
<1>1. PICK S : S = Counted(w, b)  OBVIOUS
<1>2. S \in SUBSET Sales /\ \A o \in S : sale[o] # NoSale  BY <1>1, CountedPlaced
<1> DEFINE whole == [revenue |-> Revenue(S), orders |-> Cardinality(S)]
<1>3. ASSUME NEW key, DOMAIN key = S PROVE SumOf(GroupedBy(key)) = whole
  BY <1>2, <1>3, GroupsAddUp
<1> HIDE DEF whole
<1>4. SumOf(GroupedBy([o \in S |-> DayOf(sale[o].at)])) = whole
  <2>1. PICK key : key = [o \in S |-> DayOf(sale[o].at)]  OBVIOUS
  <2> QED  BY <1>3, <2>1
<1>5. SumOf(GroupedBy([o \in S |-> <<DayOf(sale[o].at), sale[o].at>>])) = whole
  <2>1. PICK key : key = [o \in S |-> <<DayOf(sale[o].at), sale[o].at>>]  OBVIOUS
  <2> QED  BY <1>3, <2>1
<1>6. SumOf(GroupedBy([o \in S |-> sale[o].kind.method])) = whole
  <2>1. PICK key : key = [o \in S |-> sale[o].kind.method]  OBVIOUS
  <2> QED  BY <1>3, <2>1
<1>7. SumOf(GroupedBy([o \in S |-> sale[o].kind.staff])) = whole
  <2>1. PICK key : key = [o \in S |-> sale[o].kind.staff]  OBVIOUS
  <2> QED  BY <1>3, <2>1
<1>8. SumOf(GroupedBy([o \in S |-> sale[o].kind.branch])) = whole
  <2>1. PICK key : key = [o \in S |-> sale[o].kind.branch]  OBVIOUS
  <2> QED  BY <1>3, <2>1
<1> QED
  BY <1>1, <1>4, <1>5, <1>6, <1>7, <1>8
     DEF whole, RevenueSeries, SalesHeatmap, RevenueByPaymentMethod, RevenueByStaff, RevenueByBranch

\* The sums of no row, and of one.
LEMMA FewRows ==
  /\ SumOf({}) = [revenue |-> 0, orders |-> 0]
  /\ \A x : x.revenue \in Int /\ x.orders \in Int =>
       SumOf({x}) = [revenue |-> x.revenue, orders |-> x.orders]
<1>1. ASSUME NEW f, DOMAIN f = {} PROVE SumFunction(f) = 0
  BY <1>1, SumWhole, SumEmpty
<1>2. ASSUME NEW x, NEW f, DOMAIN f = {x}, f[x] \in Int PROVE SumFunction(f) = f[x]
  <2>1. SumFunctionOnSet(f, {} \cup {x}) = f[x] + SumFunctionOnSet(f, {})
    BY <1>2, FS_EmptySet, SumAdd
  <2>2. SumFunctionOnSet(f, {}) = 0 /\ {} \cup {x} = {x}  BY SumEmpty
  <2>3. SumFunction(f) = SumFunctionOnSet(f, {x})  BY <1>2, SumWhole
  <2> QED  BY <1>2, <2>1, <2>2, <2>3
<1>3. SumOf({}) = [revenue |-> 0, orders |-> 0]
  <2>1. PICK f : f = [x \in {} |-> x.revenue]  OBVIOUS
  <2>2. PICK g : g = [x \in {} |-> x.orders]  OBVIOUS
  <2>3. SumFunction(f) = 0 /\ SumFunction(g) = 0  BY <1>1, <2>1, <2>2
  <2> QED  BY <2>1, <2>2, <2>3 DEF SumOf
<1>4. ASSUME NEW x, x.revenue \in Int, x.orders \in Int
      PROVE  SumOf({x}) = [revenue |-> x.revenue, orders |-> x.orders]
  <2>1. PICK f : f = [y \in {x} |-> y.revenue]  OBVIOUS
  <2>2. PICK g : g = [y \in {x} |-> y.orders]  OBVIOUS
  <2>3. SumFunction(f) = x.revenue  BY <1>2, <1>4, <2>1
  <2>4. SumFunction(g) = x.orders  BY <1>2, <1>4, <2>2
  <2> QED  BY <2>1, <2>2, <2>3, <2>4 DEF SumOf
<1> QED  BY <1>3, <1>4

\* The COMPLETED row of the orders by status is what was sold.
LEMMA CompletedRow ==
  ASSUME TablesOK, NEW w, NEW b
  PROVE  SumOf({x \in OrdersByStatus(w, b) : x.key = "COMPLETED"})
           = [revenue |-> Revenue(Counted(w, b)), orders |-> Cardinality(Counted(w, b))]
<1>1. PICK U : U = {x \in Sales : In(x, w, b)}  OBVIOUS
<1>2. PICK key : key = [o \in U |-> sale[o].status]  OBVIOUS
<1>3. PICK S : S = Counted(w, b)  OBVIOUS
<1>4. S = {o \in DOMAIN key : key[o] = "COMPLETED"}  BY <1>1, <1>2, <1>3 DEF Counted
<1>5. OrdersByStatus(w, b) = GroupedBy(key)  BY <1>1, <1>2 DEF OrdersByStatus
<1>6. PICK x : x = GroupRow(key, "COMPLETED")  OBVIOUS
<1>7. x.revenue = Revenue(S) /\ x.orders = Cardinality(S) /\ x.key = "COMPLETED"
  BY <1>4, <1>6, RowFields
<1>8. \A k : GroupRow(key, k).key = k  BY RowFields
<1>9. S \in SUBSET Sales /\ \A o \in S : sale[o] # NoSale  BY <1>3, CountedPlaced
<1>10. Revenue(S) \in Int /\ Cardinality(S) \in Int /\ IsFiniteSet(S)
  <2>1. Revenue(S) \in Int /\ Cardinality(S) \in Nat /\ IsFiniteSet(S)  BY <1>9, OrdersSummed
  <2> QED  BY <2>1
<1>11. PICK rows : rows = {y \in GroupedBy(key) : y.key = "COMPLETED"}  OBVIOUS
<1>12. CASE S = {}
  <2>1. "COMPLETED" \notin Range(key)  BY <1>4, <1>12 DEF Range
  <2>2. rows = {}  BY <1>8, <1>11, <2>1 DEF GroupedBy
  <2>3. Cardinality(S) = 0  BY <1>12, FS_EmptySet
  <2>4. Revenue(S) = 0
    <3>1. PICK f : f = [o \in S |-> sale[o].kind.total]  OBVIOUS
    <3>2. SumFunction(f) = 0  BY <1>12, <3>1, SumWhole, SumEmpty
    <3> QED  BY <3>1, <3>2 DEF Revenue
  <2> QED  BY <1>3, <1>5, <1>11, <2>2, <2>3, <2>4, FewRows
<1>13. CASE S # {}
  <2>1. "COMPLETED" \in Range(key)  BY <1>4, <1>13 DEF Range
  <2>2. rows = {x}
    <3>1. x \in rows  BY <1>6, <1>7, <1>11, <2>1 DEF GroupedBy
    <3>2. ASSUME NEW y \in rows PROVE y = x
      <4>1. PICK k : y = GroupRow(key, k)  BY <1>11 DEF GroupedBy
      <4>2. k = "COMPLETED"  BY <1>8, <1>11, <4>1
      <4> QED  BY <1>6, <4>1, <4>2
    <3> QED  BY <3>1, <3>2
  <2>3. SumOf({x}) = [revenue |-> x.revenue, orders |-> x.orders]  BY <1>7, <1>10, FewRows
  <2> QED  BY <1>3, <1>5, <1>7, <1>11, <2>2, <2>3
<1> QED  BY <1>12, <1>13

\* Of two numbers one is the smaller.
LEMMA LessOfTwo ==
  ASSUME NEW a \in Int, NEW c \in Int
  PROVE  Min({a, c}) = IF a <= c THEN a ELSE c
<1>1. \E x \in {a, c} : \A y \in {a, c} : x <= y  OBVIOUS
<1>2. Min({a, c}) \in {a, c} /\ \A y \in {a, c} : Min({a, c}) <= y  BY <1>1 DEF Min
<1> QED  BY <1>2

\* A list that was cut is full; one that is not full has all.
LEMMA CutRows ==
  ASSUME NEW rows, IsFiniteSet(rows), NEW n \in Nat, NEW S \in Cut(rows, n)
  PROVE  /\ S \in SUBSET rows /\ IsFiniteSet(S) /\ Cardinality(S) \in Nat
         /\ S # rows => Cardinality(S) = n
         /\ Cardinality(S) < n => S = rows
<1>1. S \in SUBSET rows /\ Cardinality(S) = Min({n, Cardinality(rows)})  BY DEF Cut
<1>2. Cardinality(rows) \in Nat  BY FS_CardinalityType
<1>3. IsFiniteSet(S) /\ Cardinality(S) \in Nat /\ (Cardinality(S) = Cardinality(rows) => S = rows)
  BY <1>1, FS_Subset, FS_CardinalityType
<1>4. PICK c : c = Cardinality(rows)  OBVIOUS
<1>5. Min({n, c}) = IF n <= c THEN n ELSE c  BY <1>2, <1>4, LessOfTwo
<1> QED  BY <1>1, <1>2, <1>3, <1>4, <1>5

\* Some of the rows of a report add up to no more than all.
LEMMA SomeRows ==
  ASSUME NEW rows, IsFiniteSet(rows), NEW f, DOMAIN f = rows, \A x \in rows : f[x] \in Nat,
         NEW S \in SUBSET rows, NEW g, DOMAIN g = S, \A x \in S : g[x] = f[x]
  PROVE  SumFunction(g) <= SumFunction(f)
<1>1. IsFiniteSet(S)  BY FS_Subset
<1>2. SumFunction(g) = SumFunctionOnSet(f, S)  BY <1>1, SumOfValues
<1>3. SumFunction(f) = SumFunctionOnSet(f, rows)  BY SumWhole
<1>4. SumFunctionOnSet(f, S) <= SumFunctionOnSet(f, rows)  BY SumSubset
<1> QED  BY <1>2, <1>3, <1>4

\* The customers with a name bring no more than all.
LEMMA NamedBringNoMore ==
  ASSUME TablesOK, NEW w, NEW b, NEW n \in Nat, NEW top \in TopCustomers(w, b, n)
  PROVE  SumOf(top).revenue <= Revenue(Counted(w, b))
<1>1. PICK S : S = Counted(w, b)  OBVIOUS
<1>2. PICK T : T = {x \in S : sale[x].kind.customer # None}  OBVIOUS
<1>3. PICK key : key = [o \in T |-> sale[o].kind.customer]  OBVIOUS
<1>4. S \in SUBSET Sales /\ \A o \in S : sale[o] # NoSale  BY <1>1, CountedPlaced
<1>5. T \in SUBSET S /\ T \in SUBSET Sales /\ \A o \in T : sale[o] # NoSale  BY <1>2, <1>4
<1>6. SumOf(GroupedBy(key)) = [revenue |-> Revenue(T), orders |-> Cardinality(T)]
  <2>1. DOMAIN key = T  BY <1>3
  <2> QED  BY <1>5, <2>1, GroupsAddUp
<1>7. Revenue(T) <= Revenue(S) /\ Revenue(T) \in Nat /\ Revenue(S) \in Nat
  <2>1. PICK f : f = [o \in S |-> sale[o].kind.total]  OBVIOUS
  <2>2. IsFiniteSet(S) /\ \A o \in S : sale[o].kind.total \in Nat  BY <1>4, OrdersSummed
  <2>3. \A o \in S : f[o] \in Nat  BY <2>1, <2>2
  <2>4. SumFunctionOnSet(f, T) <= SumFunctionOnSet(f, S)  BY <1>5, <2>2, <2>3, SumSubset
  <2>5. Revenue(T) = SumFunctionOnSet(f, T)  BY <1>5, <2>1, <2>2, RevenueOfSome
  <2>6. Revenue(S) = SumFunctionOnSet(f, S)  BY <2>1, <2>2, RevenueOfSome
  <2>7. Revenue(T) \in Nat /\ Revenue(S) \in Nat  BY <1>4, <1>5, OrdersSummed
  <2> QED  BY <2>4, <2>5, <2>6, <2>7
<1>8. PICK rows : rows = GroupedBy(key)  OBVIOUS
<1>9. BuyersOf(w, b) = rows  BY <1>1, <1>2, <1>3, <1>8 DEF BuyersOf
<1>10. IsFiniteSet(rows)
  <2>1. IsFiniteSet(T)  BY <1>5, OrdersSummed
  <2>2. PICK h : h = [o \in T |-> GroupRow(key, key[o])]  OBVIOUS
  <2>3. DOMAIN key = T /\ \A o \in T : key[o] \in Range(key)  BY <1>3 DEF Range
  <2>4. rows = {GroupRow(key, k) : k \in Range(key)}  BY <1>8 DEF GroupedBy
  <2>5. DOMAIN h = T /\ \A o \in T : h[o] = GroupRow(key, key[o])  BY <2>2
  <2>6. h \in [T -> rows]  BY <2>2, <2>3, <2>4
  <2>7. \A x \in rows : \E o \in T : h[o] = x
    <3> TAKE x \in rows
    <3>1. PICK k \in Range(key) : x = GroupRow(key, k)  BY <2>4
    <3>2. PICK o \in T : k = key[o]  BY <2>3, <3>1 DEF Range
    <3> QED  BY <2>5, <3>1, <3>2
  <2>8. h \in Surjection(T, rows)  BY <2>6, <2>7 DEF Surjection
  <2> QED  BY <2>1, <2>8, FS_Surjection
<1>11. ASSUME NEW x \in rows PROVE x.revenue \in Nat
  <2>1. PICK k : x = GroupRow(key, k)  BY <1>8 DEF GroupedBy
  <2>2. PICK U : U = {o \in DOMAIN key : key[o] = k}  OBVIOUS
  <2>3. U \in SUBSET Sales /\ \A o \in U : sale[o] # NoSale  BY <1>3, <1>5, <2>2
  <2>4. Revenue(U) \in Nat  BY <2>3, OrdersSummed
  <2> QED  BY <2>1, <2>2, <2>4, RowFields
<1>12. top \in SUBSET rows  BY <1>9 DEF TopCustomers, Cut
<1>13. PICK f : f = [x \in rows |-> x.revenue]  OBVIOUS
<1>14. PICK g : g = [x \in top |-> x.revenue]  OBVIOUS
<1>15. SumFunction(g) <= SumFunction(f)
  <2>1. DOMAIN f = rows /\ \A x \in rows : f[x] \in Nat  BY <1>11, <1>13
  <2>2. DOMAIN g = top /\ \A x \in top : g[x] = f[x]  BY <1>12, <1>13, <1>14
  <2> QED  BY <1>10, <1>12, <2>1, <2>2, SomeRows
<1>16. SumFunction(f) = Revenue(T)
  <2>1. PICK m, k : m = Revenue(T) /\ k = Cardinality(T)  OBVIOUS
  <2>2. SumOf(rows).revenue = m  BY <1>6, <1>8, <2>1
  <2>3. SumOf(rows).revenue = SumFunction(f)
    <3>1. PICK c, d : c = SumFunction(f) /\ d = SumFunction([x \in rows |-> x.orders])  OBVIOUS
    <3>2. SumOf(rows) = [revenue |-> c, orders |-> d]  BY <1>13, <3>1 DEF SumOf
    <3> QED  BY <3>1, <3>2
  <2> QED  BY <2>1, <2>2, <2>3
<1>17. SumOf(top).revenue = SumFunction(g)
  <2>1. PICK c, d : c = SumFunction(g) /\ d = SumFunction([x \in top |-> x.orders])  OBVIOUS
  <2>2. SumOf(top) = [revenue |-> c, orders |-> d]  BY <1>14, <2>1 DEF SumOf
  <2> QED  BY <2>1, <2>2
<1>18. SumFunction(g) \in Int
  <2>1. IsFiniteSet(top) /\ \A x \in top : g[x] \in Nat  BY <1>10, <1>11, <1>12, <1>14, FS_Subset
  <2>2. SumFunctionOnSet(g, top) \in Nat  BY <2>1, SumNat
  <2>3. DOMAIN g = top  BY <1>14
  <2> QED  BY <2>2, <2>3, SumWhole
<1> QED  BY <1>1, <1>7, <1>15, <1>16, <1>17, <1>18

LEMMA ProductFields ==
  ASSUME NEW w, NEW b, NEW i
  PROVE  ProductRow(w, b, i).sku = i /\ ProductRow(w, b, i).units = UnitsOf(Sold(w, b, i))
<1>1. PICK n, m : n = UnitsOf(Sold(w, b, i)) /\ m = GoodsOf(Sold(w, b, i))  OBVIOUS
<1>2. ProductRow(w, b, i) = [sku |-> i, units |-> n, goods |-> m]  BY <1>1 DEF ProductRow
<1> HIDE <1>1
<1>3. ProductRow(w, b, i).sku = i /\ ProductRow(w, b, i).units = n  BY <1>2
<1> QED  BY <1>1, <1>3

\* The units of some of the orders.
LEMMA UnitsSummed ==
  ASSUME TablesOK, NEW S \in SUBSET Sales, \A o \in S : sale[o] # NoSale, NEW T \in SUBSET S,
         NEW t, t = [o \in S |-> sale[o].kind.units]
  PROVE  /\ UnitsOf(T) = SumFunctionOnSet(t, T) /\ UnitsOf(T) \in Nat
         /\ \A o \in S : t[o] \in Nat
<1>1. IsFiniteSet(S) /\ \A o \in S : sale[o].kind.units \in Nat  BY OrdersSummed
<1>2. PICK u : u = [o \in T |-> sale[o].kind.units]  OBVIOUS
<1>3. IsFiniteSet(T) /\ DOMAIN u = T /\ \A o \in T : u[o] = t[o] /\ t[o] \in Nat
  BY <1>1, <1>2, FS_Subset
<1>4. SumFunction(u) = SumFunctionOnSet(t, T)  BY <1>3, SumOfValues
<1>5. SumFunctionOnSet(t, T) \in Nat  BY <1>3, SumNat
<1>6. \A o \in S : t[o] \in Nat  BY <1>1
<1> QED  BY <1>2, <1>4, <1>5, <1>6 DEF UnitsOf

\* The products sold are finitely many and are all that was sold.
LEMMA ProductsAddUp ==
  ASSUME TablesOK, NEW w, NEW b
  PROVE  /\ IsFiniteSet(ProductsSold(w, b))
         /\ \A x \in ProductsSold(w, b) : x.units \in Nat
         /\ SumFunction([x \in ProductsSold(w, b) |-> x.units]) = UnitsOf(Counted(w, b))
<1>1. PICK S : S = Counted(w, b)  OBVIOUS
<1> DEFINE of(i) == {o \in S : sale[o].kind.sku = i}
<1>2. S \in SUBSET Sales /\ \A o \in S : sale[o] # NoSale  BY <1>1, CountedPlaced
<1>3. IsFiniteSet(S)  BY <1>2, OrdersSummed
<1>4. PICK t : t = [o \in S |-> sale[o].kind.units]  OBVIOUS
<1>5. PICK key : key = [o \in S |-> sale[o].kind.sku]  OBVIOUS
<1>6. PICK K : K = {sale[o].kind.sku : o \in S}  OBVIOUS
<1>7. IsFiniteSet(K) /\ \A o \in S : key[o] \in K
  <2>1. key \in Surjection(S, K)  BY <1>5, <1>6 DEF Surjection
  <2>2. \A o \in S : key[o] \in K  BY <1>5, <1>6
  <2> QED  BY <1>3, <2>1, <2>2, FS_Surjection
<1>8. PICK p : p = [i \in K |-> ProductRow(w, b, i)]  OBVIOUS
<1>9. PICK rows : rows = ProductsSold(w, b)  OBVIOUS
<1>10. p \in [K -> rows] /\ \A x \in rows : \E i \in K : p[i] = x
  BY <1>1, <1>6, <1>8, <1>9 DEF ProductsSold
<1>11. IsFiniteSet(rows)
  <2>1. p \in Surjection(K, rows)  BY <1>10 DEF Surjection
  <2> QED  BY <1>7, <2>1, FS_Surjection
<1>12. \A i \in K : p[i].sku = i /\ p[i].units = UnitsOf(of(i))
  <2> TAKE i \in K
  <2>1. PICK T : T = of(i)  OBVIOUS
  <2>2. T = Sold(w, b, i) /\ p[i] = ProductRow(w, b, i)  BY <1>1, <1>8, <2>1 DEF Sold
  <2> HIDE DEF of
  <2> QED  BY <2>1, <2>2, ProductFields
<1>13. \A T \in SUBSET S : UnitsOf(T) = SumFunctionOnSet(t, T) /\ UnitsOf(T) \in Nat
  BY <1>2, <1>4, UnitsSummed
<1>14. \A o \in S : t[o] \in Int
  <2>1. \A o \in S : t[o] \in Nat  BY <1>2, <1>4, UnitsSummed
  <2> QED  BY <2>1
<1>15. PICK f : f = [x \in rows |-> x.units]  OBVIOUS
<1>16. PICK g : g = [i \in K |-> SumFunctionOnSet(t, {o \in S : key[o] = i})]  OBVIOUS
<1>17. \A i \in K : f[p[i]] = g[i] /\ g[i] \in Nat
  <2> TAKE i \in K
  <2>1. of(i) = {o \in S : key[o] = i} /\ of(i) \in SUBSET S  BY <1>5
  <2> HIDE DEF of
  <2>2. g[i] = UnitsOf(of(i)) /\ UnitsOf(of(i)) \in Nat  BY <1>13, <1>16, <2>1
  <2> QED  BY <1>10, <1>12, <1>15, <2>2
<1>18. \A x \in rows : x.units \in Nat  BY <1>10, <1>15, <1>17
<1>19. \A i, j \in K : p[i] = p[j] => i = j
  <2> HIDE DEF of
  <2> QED  BY <1>12
<1>20. SumFunctionOnSet(f, rows) = SumFunctionOnSet(g, K)
  <2>1. \A i \in K : f[p[i]] = g[i] /\ g[i] \in Int  BY <1>17
  <2> HIDE DEF of
  <2> QED  BY <1>7, <1>10, <1>19, <2>1, KeyedRows
<1>21. SumFunctionOnSet(g, K) = SumFunctionOnSet(t, S)
  <2> HIDE DEF of
  <2> QED  BY <1>3, <1>7, <1>14, <1>16, SumGrouped
<1>22. SumFunction(f) = SumFunctionOnSet(f, rows)
  <2>1. DOMAIN f = rows  BY <1>15
  <2> QED  BY <2>1, SumWhole
<1>23. UnitsOf(S) = SumFunctionOnSet(t, S)  BY <1>13
<1> HIDE DEF of
<1> QED  BY <1>1, <1>9, <1>11, <1>15, <1>18, <1>20, <1>21, <1>22, <1>23

\* The best sell no more than was sold, and all of it when they are all.
LEMMA TopAddsUp ==
  ASSUME TablesOK, NEW w, NEW b, NEW by, NEW n \in Nat, NEW S \in TopProducts(w, b, by, n)
  PROVE  LET units == SumFunction([x \in S |-> x.units])
         IN /\ units <= UnitsOf(Counted(w, b))
            /\ Cardinality(S) < n => units = UnitsOf(Counted(w, b))
<1>1. PICK rows : rows = ProductsSold(w, b)  OBVIOUS
<1>2. IsFiniteSet(rows) /\ \A x \in rows : x.units \in Nat  BY <1>1, ProductsAddUp
<1>3. S \in Cut(rows, n)  BY <1>1 DEF TopProducts
<1>4. S \in SUBSET rows /\ (Cardinality(S) < n => S = rows)  BY <1>2, <1>3, CutRows
<1>5. PICK f : f = [x \in rows |-> x.units]  OBVIOUS
<1>6. PICK g : g = [x \in S |-> x.units]  OBVIOUS
<1>7. SumFunction(g) <= SumFunction(f)
  <2>1. DOMAIN f = rows /\ \A x \in rows : f[x] \in Nat  BY <1>2, <1>5
  <2>2. DOMAIN g = S /\ \A x \in S : g[x] = f[x]  BY <1>4, <1>5, <1>6
  <2> QED  BY <1>2, <1>4, <2>1, <2>2, SomeRows
<1>8. S = rows => g = f  BY <1>5, <1>6
<1>9. SumFunction(f) = UnitsOf(Counted(w, b))  BY <1>1, <1>5, ProductsAddUp
<1> QED  BY <1>4, <1>6, <1>7, <1>8, <1>9

\* What is listed as slow is not better than the best.
LEMMA SlowIsSlow ==
  ASSUME TablesOK, NEW w, NEW b
  PROVE  SlowIsNotTop(w, b)
<1> SUFFICES ASSUME NEW n \in Limits, NEW T \in TopProducts(w, b, "units", n),
                    NEW S \in SlowProducts(w, b, n), NEW x \in S
             PROVE  \/ x.units = 0
                    \/ \E y \in T : y.sku = x.sku /\ y.units = x.units
                    \/ Cardinality(T) = n /\ \A y \in T : y.units >= x.units
  BY DEF SlowIsNotTop
<1>1. n \in Nat  BY DashboardAssumption
<1>2. PICK k : x = SlowRow(w, b, k)  BY DEF SlowProducts, Cut, ProductsLeft
<1>3. x.sku = k /\ x.units = UnitsOf(Sold(w, b, k))
  <2>1. PICK c, d : c = UnitsOf(Sold(w, b, k)) /\ d = ShelfOf(b, k)  OBVIOUS
  <2>2. SlowRow(w, b, k) = [sku |-> k, units |-> c, shelf |-> d]  BY <2>1 DEF SlowRow
  <2>3. SlowRow(w, b, k).sku = k /\ SlowRow(w, b, k).units = c  BY <2>2
  <2> QED  BY <1>2, <2>1, <2>3
<1>4. CASE Sold(w, b, k) = {}
  <2>1. PICK f : f = [o \in Sold(w, b, k) |-> sale[o].kind.units]  OBVIOUS
  <2>2. SumFunction(f) = 0  BY <1>4, <2>1, SumWhole, SumEmpty
  <2>3. x.units = 0  BY <1>3, <2>1, <2>2 DEF UnitsOf
  <2> QED  BY <2>3
<1>5. CASE Sold(w, b, k) # {}
  <2>1. PICK rows : rows = ProductsSold(w, b)  OBVIOUS
  <2>2. PICK o \in Counted(w, b) : sale[o].kind.sku = k  BY <1>5 DEF Sold
  <2>3. PICK y : y = ProductRow(w, b, k)  OBVIOUS
  <2>4. y \in rows  BY <2>1, <2>2, <2>3 DEF ProductsSold
  <2>5. y.sku = x.sku /\ y.units = x.units  BY <1>3, <2>3, ProductFields
  <2>6. IsFiniteSet(rows)  BY <2>1, ProductsAddUp
  <2>7. T \in Cut(rows, n) /\ \A a \in T, c \in rows \ T : a.units >= c.units
    BY <2>1 DEF TopProducts
  <2>8. T # rows => Cardinality(T) = n  BY <1>1, <2>6, <2>7, CutRows
  <2> QED  BY <2>4, <2>5, <2>7, <2>8
<1> QED  BY <1>4, <1>5

\* The alerts of a snapshot.
LEMMA AlertFields ==
  ASSUME NEW snap
  PROVE  /\ DOMAIN Alerts(snap) = {"OUT_OF_STOCK", "LOW_STOCK", "BELOW_MIN", "AGING"}
         /\ Alerts(snap).OUT_OF_STOCK = {i \in StockRows(snap) : Shelf(snap.rack[i]) <= 0}
         /\ Alerts(snap).LOW_STOCK = {i \in StockRows(snap) : /\ Shelf(snap.rack[i]) > 0
                                                              /\ Shelf(snap.rack[i]) <= Threshold}
         /\ Alerts(snap).BELOW_MIN \in SUBSET StockRows(snap)
         /\ Alerts(snap).AGING = {i \in StockRows(snap) : IsIdle(snap.rack[i], snap.at)}
<1>1. PICK none : none = {i \in StockRows(snap) : Shelf(snap.rack[i]) <= 0}  OBVIOUS
<1>2. PICK few : few = {i \in StockRows(snap) : Shelf(snap.rack[i]) > 0 /\ Shelf(snap.rack[i]) <= Threshold}
  OBVIOUS
<1>3. PICK under : under = {i \in StockRows(snap) : MinStock > 0 /\ Shelf(snap.rack[i]) <= MinStock}
  OBVIOUS
<1>4. PICK aging : aging = {i \in StockRows(snap) : IsIdle(snap.rack[i], snap.at)}  OBVIOUS
<1>5. Alerts(snap) = [OUT_OF_STOCK |-> none, LOW_STOCK |-> few, BELOW_MIN |-> under, AGING |-> aging]
  BY <1>1, <1>2, <1>3, <1>4 DEF Alerts
<1>6. under \in SUBSET StockRows(snap)  BY <1>3
<1>7. DOMAIN Alerts(snap) = {"OUT_OF_STOCK", "LOW_STOCK", "BELOW_MIN", "AGING"}  BY <1>5
<1>8. /\ Alerts(snap).OUT_OF_STOCK = none /\ Alerts(snap).LOW_STOCK = few
      /\ Alerts(snap).BELOW_MIN = under /\ Alerts(snap).AGING = aging
  BY <1>5
<1> QED  BY <1>1, <1>2, <1>4, <1>6, <1>7, <1>8

\* Where goods are sold, what is low is an alert, and the list has what is out.
LEMMA LowRaisesAlert ==
  ASSUME TablesOK, NEW b
  PROVE  LowIsAlerted(b)
<1>1. PICK snap : snap = Snapshot(b)  OBVIOUS
<1>2. snap.rack = rack /\ snap.place = b  BY <1>1 DEF Snapshot
<1>3. PICK stocked : stocked = StockRows(snap)  OBVIOUS
<1>4. stocked = {i \in RowsAt(b) : rack[i].onSale}  BY <1>2, <1>3 DEF StockRows
<1>5. PICK none : none = {i \in stocked : Shelf(rack[i]) <= 0}  OBVIOUS
<1>6. PICK few : few = {i \in stocked : Shelf(rack[i]) > 0 /\ Shelf(rack[i]) <= Threshold}  OBVIOUS
<1>7. Alerts(snap).OUT_OF_STOCK = none /\ Alerts(snap).LOW_STOCK = few
  BY <1>2, <1>3, <1>5, <1>6, AlertFields
<1>8. \A i \in Rows : rack[i].stock \in Int /\ rack[i].locked \in Nat  BY DEF TablesOK, RackRows
<1>9. RowsAt(b) \in SUBSET Rows /\ IsFiniteSet(LowStock(b)) /\ LowStock(b) \in SUBSET RowsAt(b)
  BY DashboardAssumption, FS_Subset DEF RowsAt, LowStock
<1>10. PICK raised : raised = {i \in Rows : rack[i].onSale}  OBVIOUS
<1>11. ASSUME NEW i \in RowsAt(b) \cap raised, rack[i].stock <= Threshold
       PROVE  i \in few \cup none /\ (rack[i].stock <= 0 => i \in none)
  <2>1. i \in stocked /\ i \in Rows  BY <1>4, <1>9, <1>10
  <2>2. Shelf(rack[i]) \in Int /\ Shelf(rack[i]) <= rack[i].stock  BY <1>8, <2>1 DEF Shelf
  <2> QED  BY <1>5, <1>6, <1>8, <1>11, <2>1, <2>2, DashboardAssumption
<1>12. OutOfStock(b) \in SUBSET LowStock(b)
  BY <1>8, <1>9, DashboardAssumption DEF OutOfStock, LowStock
<1>13. OutOfStock(b) \cap raised \subseteq none  BY <1>11, <1>12 DEF OutOfStock, LowStock
<1>14. ASSUME NEW S \in LowStockLists(b)
       PROVE  /\ S \cap raised \subseteq few \cup none
              /\ OutOfStock(b) \subseteq S \/ (Cardinality(S) = LowLimit /\ S \subseteq OutOfStock(b))
  <2>1. S \in Cut(LowStock(b), LowLimit)
        /\ \A x \in S, y \in LowStock(b) \ S : rack[x].stock <= rack[y].stock
    BY DEF LowStockLists
  <2>2. S \in SUBSET LowStock(b) /\ (S # LowStock(b) => Cardinality(S) = LowLimit)
    BY <1>9, <2>1, CutRows, DashboardAssumption
  <2>3. S \cap raised \subseteq few \cup none  BY <1>11, <2>2 DEF LowStock
  <2>4. ASSUME NEW y \in OutOfStock(b), y \notin S
        PROVE  Cardinality(S) = LowLimit /\ S \subseteq OutOfStock(b)
    <3>1. y \in LowStock(b) \ S /\ rack[y].stock <= 0  BY <1>12, <2>4 DEF OutOfStock
    <3>2. ASSUME NEW x \in S PROVE x \in OutOfStock(b)
      <4>1. rack[x].stock <= rack[y].stock  BY <2>1, <3>1
      <4>2. x \in RowsAt(b) /\ y \in RowsAt(b)  BY <1>9, <2>2, <3>1
      <4>3. rack[x].stock \in Int /\ rack[y].stock \in Int  BY <1>8, <1>9, <4>2
      <4> QED  BY <3>1, <4>1, <4>2, <4>3 DEF OutOfStock
    <3> QED  BY <2>2, <3>1, <3>2
  <2> QED  BY <2>3, <2>4
<1> QED  BY <1>1, <1>7, <1>10, <1>13, <1>14 DEF LowIsAlerted

\* An open order is at one stage of the pipeline.
LEMMA OneStage ==
  ASSUME NEW o \in Placed, NEW at \in DOMAIN Stages, sale[o].status \in Stages[at]
  PROVE  Cardinality({st \in DOMAIN Pipeline(None) : o \in Pipeline(None)[st]}) = 1
<1>1. PICK D : D = DOMAIN Stages \cup {"DELIVERY_FAILED"}  OBVIOUS
<1>2. PICK in : in = [st \in D |-> IF st = "DELIVERY_FAILED" THEN DeliveryFailed(o)
                                   ELSE sale[o].status \in Stages[st] /\ ~DeliveryFailed(o)]
  OBVIOUS
<1>3. DOMAIN Pipeline(None) = D  BY <1>1 DEF Pipeline
<1>4. \A st \in D : o \in Pipeline(None)[st] <=> in[st]
  BY <1>1, <1>2 DEF Pipeline, Placed
<1>5. DOMAIN Stages = {"PENDING_CONFIRMATION", "PROCESSING", "AWAITING_SHIPMENT", "SHIPPING"}
  BY DEF Stages
<1>6. \A st \in DOMAIN Stages : sale[o].status \in Stages[st] => st = at
  BY <1>5 DEF Stages
<1>7. PICK here : here = IF DeliveryFailed(o) THEN "DELIVERY_FAILED" ELSE at  OBVIOUS
<1>8. \A st \in D : in[st] <=> st = here
  <2>1. "DELIVERY_FAILED" \notin DOMAIN Stages  BY <1>5
  <2>2. CASE DeliveryFailed(o)  BY <1>1, <1>2, <1>7, <2>2
  <2>3. CASE ~DeliveryFailed(o)  BY <1>1, <1>2, <1>6, <1>7, <2>1, <2>3
  <2> QED  BY <2>2, <2>3
<1>9. here \in D  BY <1>1, <1>7
<1>10. {st \in DOMAIN Pipeline(None) : o \in Pipeline(None)[st]} = {here}
  BY <1>3, <1>4, <1>8, <1>9
<1> QED  BY <1>10, FS_Singleton

\* However they are split, the figures add up, in every state of the tables.
LEMMA SplitsAgree == TablesOK => PartsAddUp
<1> SUFFICES ASSUME TablesOK PROVE PartsAddUp  OBVIOUS
<1>1. ASSUME NEW b, NEW w PROVE SalesAddUp(w, b)
  <2>1. PICK n, m : n = Revenue(Counted(w, b)) /\ m = Cardinality(Counted(w, b))  OBVIOUS
  <2>2. Takings(w, b).revenue = n /\ Takings(w, b).orders = m
    <3>1. PICK f : f = SumFunction([o \in Counted(w, b) |-> sale[o].kind.fees])  OBVIOUS
    <3>2. Takings(w, b) = [revenue |-> n, orders |-> m, fees |-> f]  BY <2>1, <3>1 DEF Takings
    <3> QED  BY <3>2
  <2>3. PICK whole : whole = [revenue |-> n, orders |-> m]  OBVIOUS
  <2>4. whole.revenue = n  BY <2>3
  <2>5. /\ SumOf(RevenueSeries(w, b)) = whole /\ SumOf(SalesHeatmap(w, b)) = whole
        /\ SumOf(RevenueByPaymentMethod(w, b)) = whole
        /\ SumOf(RevenueByStaff(w, b)) = whole /\ SumOf(RevenueByBranch(w, b)) = whole
    BY <2>1, <2>3, SplitsAddUp
  <2>6. SumOf({x \in OrdersByStatus(w, b) : x.key = "COMPLETED"}) = whole
    BY <2>1, <2>3, CompletedRow
  <2>7. ASSUME NEW limit \in Limits
        PROVE  /\ \A S \in TopCustomers(w, b, limit) : SumOf(S).revenue <= whole.revenue
               /\ \A by \in {"units", "goods"} : \A S \in TopProducts(w, b, by, limit) :
                    LET units == SumFunction([x \in S |-> x.units])
                    IN /\ units <= UnitsOf(Counted(w, b))
                       /\ Cardinality(S) < limit => units = UnitsOf(Counted(w, b))
    <3>1. limit \in Nat  BY DashboardAssumption
    <3> QED  BY <2>1, <2>4, <3>1, NamedBringNoMore, TopAddsUp
  <2>8. whole = [revenue |-> Takings(w, b).revenue, orders |-> Takings(w, b).orders]  BY <2>2, <2>3
  <2> QED  BY <2>5, <2>6, <2>7, <2>8 DEF SalesAddUp
<1> QED  BY ZenonT(60), <1>1, SlowIsSlow, LowRaisesAlert, OneStage DEF PartsAddUp

------------------------------------------------------------------------------
(* The periods that are compared *)

\* A period starts at one of its starts, and not after the moment.
LEMMA StartIsFirst ==
  ASSUME NEW key \in DOMAIN Starts, NEW t \in Nat
  PROVE  /\ StartOf(key, t) \in Starts[key] /\ StartOf(key, t) \in Nat
         /\ StartOf(key, t) <= t
<1> DEFINE B == {x \in Starts[key] : x <= t}
<1>1. 0 \in B /\ B \in SUBSET Nat  BY DashboardAssumption
<1>2. \A x \in B : x <= t  OBVIOUS
<1>3. PICK m \in B : \A k \in B : k <= m
  <2> HIDE DEF B
  <2> QED  BY <1>1, <1>2, GreatestNumber
<1>4. Max(B) \in B
  <2>1. \A k \in B : m >= k  BY <1>1, <1>3
  <2> HIDE DEF B
  <2> QED  BY <1>3, <2>1 DEF Max
<1>5. StartOf(key, t) = Max(B)  BY DEF StartOf
<1> QED  BY <1>1, <1>2, <1>4, <1>5

\* The period before shares no order with the one under way.
LEMMA PeriodsApart ==
  ASSUME TablesOK, NEW key \in DOMAIN Starts, HasPrevious(key, clock)
  PROVE  LET w == Current(key, clock)
             p == Previous(key, clock)
         IN /\ Counted(w, None) \cap Counted(p, None) = {}
            /\ p.from \in Starts[key] /\ p.from <= p.to /\ p.to < w.from
            /\ p.to - p.from = w.to - w.from \/ p.to + 1 = w.from
<1>1. PICK t : t = clock  OBVIOUS
<1>2. t \in Nat  BY <1>1 DEF TablesOK
<1>3. PICK cur : cur = StartOf(key, t)  OBVIOUS
<1>4. cur \in Nat /\ cur <= t /\ cur > 0  BY <1>1, <1>2, <1>3, StartIsFirst DEF HasPrevious
<1>5. cur - 1 \in Nat  BY <1>4
<1>6. PICK from : from = StartOf(key, cur - 1)  OBVIOUS
<1>7. from \in Starts[key] /\ from \in Nat /\ from <= cur - 1  BY <1>5, <1>6, StartIsFirst
<1>8. PICK to : to = Min({from + (t - cur), cur - 1})  OBVIOUS
<1>9. to = IF from + (t - cur) <= cur - 1 THEN from + (t - cur) ELSE cur - 1
  <2>1. PICK a, c : a = from + (t - cur) /\ c = cur - 1  OBVIOUS
  <2>2. a \in Int /\ c \in Int  BY <1>2, <1>4, <1>7, <2>1
  <2> QED  BY <1>8, <2>1, <2>2, LessOfTwo
<1>10. PICK w : w = Current(key, clock)  OBVIOUS
<1>11. PICK p : p = Previous(key, clock)  OBVIOUS
<1>12. w.from = cur /\ w.to = t  BY <1>1, <1>3, <1>10 DEF Current
<1>13. p.from = from /\ p.to = to
  <2>1. Previous(key, t) = [from |-> from, to |-> to]  BY <1>3, <1>6, <1>8 DEF Previous
  <2> QED  BY <1>1, <1>11, <2>1
<1>14. to \in Int /\ from <= to /\ to < cur  BY <1>2, <1>4, <1>7, <1>9
<1>15. to - from = t - cur \/ to + 1 = cur  BY <1>2, <1>4, <1>7, <1>9
<1>16. Counted(w, None) \cap Counted(p, None) = {}
  <2>1. SUFFICES ASSUME NEW o \in Counted(w, None), o \in Counted(p, None) PROVE FALSE  OBVIOUS
  <2>2. cur <= sale[o].at /\ sale[o].at <= to  BY <1>12, <1>13, <2>1, CountedPlaced
  <2>3. sale[o].at \in Nat
    <3>1. o \in Sales /\ sale[o] # NoSale  BY CountedPlaced
    <3> QED  BY <3>1 DEF TablesOK, SaleRows
  <2> QED  BY <1>4, <1>14, <2>2, <2>3
<1> QED  BY <1>7, <1>10, <1>11, <1>12, <1>13, <1>14, <1>15, <1>16

LEMMA PeriodsAreFair == TablesOK => ComparisonIsFair
<1> SUFFICES ASSUME TablesOK PROVE ComparisonIsFair  OBVIOUS
<1>1. ASSUME NEW from \in 0 .. clock
      PROVE  LET w == [from |-> from, to |-> clock]
                 p == PreviousPeriod(w)
             IN p.to + 1 = w.from /\ p.to - p.from = w.to - w.from
  <2>1. from \in Int /\ clock \in Int  BY DEF TablesOK
  <2> QED  BY <2>1 DEF PreviousPeriod
<1> QED  BY <1>1, PeriodsApart DEF ComparisonIsFair

------------------------------------------------------------------------------
(* The pages of several statements *)

\* What the first statement of the alerts counts, of the rows as they were.
CountsOf(snap) == [c \in DOMAIN Alerts(snap) |-> Cardinality(Alerts(snap)[c])]
AgingOf(snap) ==
  [l \in {"WARNING", "ATTENTION", "STALE"} |->
     Cardinality({i \in Alerts(snap).AGING : AgingLevel(DaysIdle(snap.rack[i], snap.at)) = l})]

\* What a report holds between its statements.
ReportOK(x) ==
  /\ x.op = "overview" => /\ x.edition \in Nat /\ x.edition <= edition
                          /\ x.edition = edition => x.now = Takings(x.window, x.branch)
  /\ x.op = "alerts" => /\ x.snap.rack \in [Rows -> RackRows] /\ x.snap.at \in Nat
                        /\ x.counts = CountsOf(x.snap) /\ x.aging = AgingOf(x.snap)

\* A page once shown stays, and is of one piece when it is shown.
ReportsInv ==
  /\ RequestsNamed /\ TablesOK
  /\ \A r \in Requests : ReportOK(req[r])
  /\ PagesAreOfOnePiece

\* Three parts of a set that leave nothing out and overlap nowhere.
LEMMA ThreeParts ==
  ASSUME NEW S, IsFiniteSet(S), NEW f, \A x \in S : f[x] \in {"WARNING", "ATTENTION", "STALE"}
  PROVE  Cardinality(S) = Cardinality({x \in S : f[x] = "WARNING"})
                          + Cardinality({x \in S : f[x] = "ATTENTION"})
                          + Cardinality({x \in S : f[x] = "STALE"})
<1> DEFINE A == {x \in S : f[x] = "WARNING"}
           B == {x \in S : f[x] = "ATTENTION"}
           C == {x \in S : f[x] = "STALE"}
<1>1. S = (A \cup B) \cup C /\ A \cap B = {} /\ (A \cup B) \cap C = {}  OBVIOUS
<1>2. IsFiniteSet(A) /\ IsFiniteSet(B) /\ IsFiniteSet(C)  BY FS_Subset
<1> HIDE DEF A, B, C
<1>3. Cardinality(A) \in Nat /\ Cardinality(B) \in Nat /\ Cardinality(C) \in Nat
  BY <1>2, FS_CardinalityType
<1>4. IsFiniteSet(A \cup B) /\ Cardinality(A \cup B) = Cardinality(A) + Cardinality(B) - Cardinality({})
  BY <1>1, <1>2, FS_Union
<1>5. Cardinality(S) = Cardinality(A \cup B) + Cardinality(C) - Cardinality({})
  BY <1>1, <1>2, <1>4, FS_Union
<1>6. Cardinality({}) = 0  BY FS_EmptySet
<1>7. Cardinality(S) = Cardinality(A) + Cardinality(B) + Cardinality(C)
  BY <1>3, <1>4, <1>5, <1>6
<1> QED  BY <1>7 DEF A, B, C

\* Goods that are idle are so for a while, a long while, or too long.
LEMMA IdleHasLevel ==
  ASSUME NEW row \in RackRows, NEW t \in Nat, IsIdle(row, t)
  PROVE  AgingLevel(DaysIdle(row, t)) \in {"WARNING", "ATTENTION", "STALE"}
<1>1. ASSUME NEW u \in Nat PROVE DayOf(u) \in Nat
  <2>1. {x \in Starts["day"] : x <= u} \subseteq 0 .. u  BY DashboardAssumption
  <2>2. IsFiniteSet({x \in Starts["day"] : x <= u})
    <3>1. IsFiniteSet(0 .. u)  BY FS_Interval
    <3> QED  BY <2>1, <3>1, FS_Subset
  <2> QED  BY <2>2, FS_CardinalityType DEF DayOf
<1>2. PICK d : d = DaysIdle(row, t)  OBVIOUS
<1>3. PICK since : since = IF row.sold # None THEN row.sold ELSE row.made  OBVIOUS
<1>4. since \in Nat  BY <1>3 DEF RackRows
<1>5. DayOf(t) \in Nat /\ DayOf(since) \in Nat  BY <1>1, <1>4
<1>6. d # None /\ d >= AgingDays.WARNING  BY <1>2 DEF IsIdle
<1>7. d = DayOf(t) - DayOf(since)  BY <1>2, <1>3, <1>6 DEF DaysIdle
<1>8. d \in Int  BY <1>5, <1>7
<1>9. /\ AgingDays.WARNING \in Int /\ AgingDays.ATTENTION \in Int /\ AgingDays.STALE \in Int
      /\ AgingDays.WARNING < AgingDays.ATTENTION /\ AgingDays.ATTENTION < AgingDays.STALE
  BY DashboardAssumption
<1>10. CASE d >= AgingDays.STALE  BY <1>2, <1>8, <1>9, <1>10 DEF AgingLevel
<1>11. CASE d < AgingDays.STALE /\ d >= AgingDays.ATTENTION
  BY <1>2, <1>8, <1>9, <1>11 DEF AgingLevel
<1>12. CASE d < AgingDays.ATTENTION
  BY <1>2, <1>6, <1>8, <1>9, <1>12 DEF AgingLevel
<1> QED  BY <1>8, <1>9, <1>10, <1>11, <1>12

\* What the second statement lists of rows of which the first counted all.
Listed(rows) == CHOOSE S \in SUBSET rows : Cardinality(S) = Min({ListLimit, Cardinality(rows)})

LEMMA ListedIsEnough ==
  ASSUME NEW rows, IsFiniteSet(rows)
  PROVE  /\ Listed(rows) \in SUBSET rows
         /\ Cardinality(Listed(rows)) = Min({ListLimit, Cardinality(rows)})
         /\ Cardinality(rows) <= ListLimit => Listed(rows) = rows
<1>1. Cardinality(rows) \in Nat /\ ListLimit \in Nat  BY FS_CardinalityType, DashboardAssumption
<1>2. PICK n : n = Min({ListLimit, Cardinality(rows)})  OBVIOUS
<1>3. n = IF ListLimit <= Cardinality(rows) THEN ListLimit ELSE Cardinality(rows)
  <2>1. PICK a, c : a = ListLimit /\ c = Cardinality(rows)  OBVIOUS
  <2>2. a \in Int /\ c \in Int  BY <1>1, <2>1
  <2> QED  BY <1>2, <2>1, <2>2, LessOfTwo
<1>4. n \in Nat /\ n <= Cardinality(rows)  BY <1>1, <1>3
<1>5. \E S \in SUBSET rows : Cardinality(S) = n  BY <1>4, SubsetOfSize
<1>6. Listed(rows) \in SUBSET rows /\ Cardinality(Listed(rows)) = n  BY <1>2, <1>5 DEF Listed
<1>7. ASSUME Cardinality(rows) <= ListLimit PROVE Listed(rows) = rows
  <2>1. n = Cardinality(rows)  BY <1>1, <1>3, <1>7
  <2> QED  BY <1>6, <2>1, FS_Subset
<1> QED  BY <1>2, <1>6, <1>7

\* The rows of the alerts of a snapshot.
LEMMA AlertRows ==
  ASSUME NEW snap
  PROVE  /\ DOMAIN Alerts(snap) = {"OUT_OF_STOCK", "LOW_STOCK", "BELOW_MIN", "AGING"}
         /\ \A c \in DOMAIN Alerts(snap) : Alerts(snap)[c] \in SUBSET Rows
         /\ \A i \in Alerts(snap).AGING : IsIdle(snap.rack[i], snap.at)
<1>1. StockRows(snap) \in SUBSET Rows  BY DEF StockRows, RowsAt
<1>2. PICK rows : rows = StockRows(snap)  OBVIOUS
<1>3. /\ Alerts(snap)["OUT_OF_STOCK"] \in SUBSET rows /\ Alerts(snap)["LOW_STOCK"] \in SUBSET rows
      /\ Alerts(snap)["BELOW_MIN"] \in SUBSET rows /\ Alerts(snap)["AGING"] \in SUBSET rows
  BY <1>2, AlertFields
<1>4. DOMAIN Alerts(snap) = {"OUT_OF_STOCK", "LOW_STOCK", "BELOW_MIN", "AGING"}  BY AlertFields
<1>5. \A i \in Alerts(snap).AGING : IsIdle(snap.rack[i], snap.at)  BY AlertFields
<1> QED  BY <1>1, <1>2, <1>3, <1>4, <1>5

\* The page of the alerts lists what it counts.
LEMMA AlertsPage ==
  ASSUME ReportsInv, NEW r \in Requests, AlertsLists(r)
  PROVE  PagesAreOfOnePiece'
<1>1. PICK snap : snap = req[r].snap  OBVIOUS
<1>2. PICK rows : rows = Alerts(snap)  OBVIOUS
<1>3. req[r].op = "alerts"  BY DEF AlertsLists, At
<1>4. ReportOK(req[r])  BY DEF ReportsInv
<1>5. /\ snap.rack \in [Rows -> RackRows] /\ snap.at \in Nat
      /\ req[r].counts = CountsOf(snap) /\ req[r].aging = AgingOf(snap)
  BY <1>1, <1>3, <1>4 DEF ReportOK
<1>6. PICK listed : listed = [c \in DOMAIN rows |-> Listed(rows[c])]  OBVIOUS
<1>7. PICK levels : levels = [i \in listed.AGING |-> AgingLevel(DaysIdle(snap.rack[i], snap.at))]  OBVIOUS
<1>8. page' = [of |-> "alerts", counts |-> CountsOf(snap), aging |-> AgingOf(snap),
               items |-> listed, levels |-> levels]
  BY <1>1, <1>2, <1>5, <1>6, <1>7 DEF AlertsLists, ReadSnapshot, Listed
<1>9. PICK counts : counts = CountsOf(snap)  OBVIOUS
<1>10. PICK aging : aging = AgingOf(snap)  OBVIOUS
<1>11. /\ page'.of = "alerts" /\ page'.counts = counts /\ page'.aging = aging
       /\ page'.items = listed /\ page'.levels = levels
  <2>1. page' = [of |-> "alerts", counts |-> counts, aging |-> aging, items |-> listed, levels |-> levels]
    BY <1>8, <1>9, <1>10
  <2> QED  BY <2>1
<1>12. /\ DOMAIN rows = {"OUT_OF_STOCK", "LOW_STOCK", "BELOW_MIN", "AGING"}
       /\ \A c \in DOMAIN rows : rows[c] \in SUBSET Rows
       /\ \A i \in rows.AGING : IsIdle(snap.rack[i], snap.at)
  BY <1>2, AlertRows
<1>13. \A c \in DOMAIN rows : IsFiniteSet(rows[c])  BY <1>12, DashboardAssumption, FS_Subset
<1>14. DOMAIN counts = DOMAIN rows /\ \A c \in DOMAIN rows : counts[c] = Cardinality(rows[c])
  BY <1>2, <1>9 DEF CountsOf
<1>15. ASSUME NEW c \in DOMAIN counts
       PROVE  Cardinality(listed[c]) = Min({ListLimit, counts[c]})
  <2>1. listed[c] = Listed(rows[c]) /\ IsFiniteSet(rows[c])  BY <1>6, <1>13, <1>14
  <2>2. Cardinality(Listed(rows[c])) = Min({ListLimit, Cardinality(rows[c])})  BY <2>1, ListedIsEnough
  <2> QED  BY <1>14, <2>1, <2>2
<1>16. PICK S : S = rows["AGING"]  OBVIOUS
<1>17. PICK f : f = [i \in S |-> AgingLevel(DaysIdle(snap.rack[i], snap.at))]  OBVIOUS
<1>18. IsFiniteSet(S) /\ S \in SUBSET Rows /\ counts["AGING"] = Cardinality(S)
  BY <1>12, <1>13, <1>14, <1>16
<1>19. \A i \in S : f[i] \in {"WARNING", "ATTENTION", "STALE"}
  <2> TAKE i \in S
  <2>1. snap.rack[i] \in RackRows /\ IsIdle(snap.rack[i], snap.at)  BY <1>5, <1>12, <1>16
  <2> QED  BY <1>5, <1>17, <2>1, IdleHasLevel
<1>20. /\ DOMAIN aging = {"WARNING", "ATTENTION", "STALE"}
       /\ \A l \in DOMAIN aging : aging[l] = Cardinality({i \in S : f[i] = l})
  <2>1. DOMAIN aging = {"WARNING", "ATTENTION", "STALE"}  BY <1>10 DEF AgingOf
  <2>2. \A l : {i \in S : f[i] = l}
               = {i \in Alerts(snap).AGING : AgingLevel(DaysIdle(snap.rack[i], snap.at)) = l}
    BY <1>2, <1>16, <1>17
  <2>3. \A l \in DOMAIN aging : aging[l] = Cardinality(
          {i \in Alerts(snap).AGING : AgingLevel(DaysIdle(snap.rack[i], snap.at)) = l})
    BY <1>10, <2>1 DEF AgingOf
  <2> QED  BY <2>1, <2>2, <2>3
<1>21. counts["AGING"] = aging["WARNING"] + aging["ATTENTION"] + aging["STALE"]
  BY <1>18, <1>19, <1>20, ThreeParts
<1>22. PICK L : L = listed["AGING"]  OBVIOUS
<1>23. L \in SUBSET S /\ (counts["AGING"] <= ListLimit => L = S)
  <2>1. L = Listed(S)  BY <1>6, <1>12, <1>16, <1>22
  <2> QED  BY <1>18, <2>1, ListedIsEnough
<1>24. \A i \in L : levels[i] = f[i]  BY <1>7, <1>17, <1>22, <1>23
<1>25. ASSUME NEW l \in DOMAIN aging
       PROVE  /\ Cardinality({i \in L : levels[i] = l}) <= aging[l]
              /\ counts["AGING"] <= ListLimit => Cardinality({i \in L : levels[i] = l}) = aging[l]
  <2>1. PICK P : P = {i \in S : f[i] = l}  OBVIOUS
  <2>2. PICK Q : Q = {i \in L : levels[i] = l}  OBVIOUS
  <2>3. Q \in SUBSET P /\ (L = S => Q = P)  BY <1>23, <1>24, <2>1, <2>2
  <2>4. IsFiniteSet(P)  BY <1>18, <2>1, FS_Subset
  <2>5. Cardinality(Q) <= Cardinality(P)  BY <2>3, <2>4, FS_Subset
  <2>6. aging[l] = Cardinality(P)  BY <1>20, <2>1
  <2> QED  BY <1>23, <2>2, <2>3, <2>5, <2>6
<1> QED  BY <1>11, <1>15, <1>21, <1>22, <1>25 DEF PagesAreOfOnePiece

\* The profit is what the orders leave of their totals.
LEMMA ProfitAddsUp ==
  ASSUME TablesOK, NEW w, NEW b
  PROVE  Takings(w, b).revenue - Takings(w, b).fees - CostsOf(w, b).cost
           = SumFunction([o \in Counted(w, b) |-> ProfitOf(o)])
<1>1. PICK S : S = Counted(w, b)  OBVIOUS
<1>2. S \in SUBSET Sales /\ \A o \in S : sale[o] # NoSale  BY <1>1, CountedPlaced
<1>3. /\ IsFiniteSet(S)
      /\ \A o \in S : sale[o] \in SaleRows /\ sale[o].kind.total \in Nat /\ sale[o].kind.fees \in Int
  BY <1>2, OrdersSummed
<1>4. \A o \in S : sale[o].cost # None => sale[o].cost \in Int
  BY <1>3, DashboardAssumption DEF SaleRows
<1>5. PICK T : T = {o \in S : sale[o].cost # None}  OBVIOUS
<1>6. T \in SUBSET S /\ IsFiniteSet(T) /\ IsFiniteSet(S \ T)  BY <1>3, <1>5, FS_Subset
<1>7. PICK total : total = [o \in S |-> sale[o].kind.total]  OBVIOUS
<1>8. PICK fees : fees = [o \in S |-> sale[o].kind.fees]  OBVIOUS
<1>9. PICK rest : rest = [o \in S |-> total[o] - fees[o]]  OBVIOUS
<1>10. PICK cost : cost = [o \in S |-> IF sale[o].cost = None THEN 0 ELSE sale[o].cost]  OBVIOUS
<1>11. PICK profit : profit = [o \in S |-> ProfitOf(o)]  OBVIOUS
<1>12. \A o \in S : total[o] \in Int /\ fees[o] \in Int /\ rest[o] = total[o] - fees[o]
  BY <1>3, <1>7, <1>8, <1>9
<1>13. \A o \in S : rest[o] \in Int /\ cost[o] \in Int  BY <1>4, <1>10, <1>12
<1>14. \A o \in S : profit[o] = rest[o] - cost[o]
  BY <1>3, <1>7, <1>8, <1>9, <1>10, <1>11 DEF ProfitOf
<1>15. SumFunctionOnSet(rest, S) = SumFunctionOnSet(total, S) - SumFunctionOnSet(fees, S)
  BY <1>3, <1>12, SumOfDifference
<1>16. SumFunctionOnSet(profit, S) = SumFunctionOnSet(rest, S) - SumFunctionOnSet(cost, S)
  BY <1>3, <1>13, <1>14, SumOfDifference
<1>17. SumFunctionOnSet(cost, S) = SumFunctionOnSet(cost, T)
  <2>1. \A o \in S \ T : cost[o] = 0  BY <1>5, <1>10
  <2>2. SumFunctionOnSet(cost, S \ T) = 0  BY <1>6, <2>1, SumZero
  <2>3. \A o \in T : cost[o] \in Int  BY <1>6, <1>13
  <2>4. SumFunctionOnSet(cost, T) \in Int  BY <1>6, <2>3, SumType
  <2>5. SumFunctionOnSet(cost, S) = SumFunctionOnSet(cost, T) + SumFunctionOnSet(cost, S \ T)
    BY <1>3, <1>6, <1>13, SumParts
  <2> QED  BY <2>2, <2>4, <2>5
<1>18. CostsOf(w, b).cost = SumFunctionOnSet(cost, T)
  <2>1. PICK g : g = [o \in T |-> sale[o].cost]  OBVIOUS
  <2>2. PICK n : n = Cardinality({o \in S : sale[o].cost = None})  OBVIOUS
  <2>3. PICK m : m = SumFunction(g)  OBVIOUS
  <2>4. CostsOf(w, b) = [cost |-> m, missing |-> n]
    BY <1>1, <1>5, <2>1, <2>2, <2>3 DEF CostsOf, CostsIn
  <2>5. CostsOf(w, b).cost = m  BY <2>4
  <2>6. DOMAIN g = T /\ \A o \in T : g[o] = cost[o]  BY <1>5, <1>10, <2>1
  <2>7. SumFunction(g) = SumFunctionOnSet(cost, T)  BY <1>6, <2>6, SumOfValues
  <2> QED  BY <2>3, <2>5, <2>7
<1>19. /\ Takings(w, b).revenue = SumFunctionOnSet(total, S)
       /\ Takings(w, b).fees = SumFunctionOnSet(fees, S)
  <2>1. PICK x, y, z : x = Revenue(S) /\ y = Cardinality(S) /\ z = SumFunction(fees)  OBVIOUS
  <2>2. Takings(w, b) = [revenue |-> x, orders |-> y, fees |-> z]  BY <1>1, <1>8, <2>1 DEF Takings
  <2>3. Takings(w, b).revenue = x /\ Takings(w, b).fees = z  BY <2>2
  <2>4. DOMAIN total = S /\ DOMAIN fees = S  BY <1>7, <1>8
  <2>5. Revenue(S) = SumFunctionOnSet(total, S)  BY <1>7, <2>4, SumWhole DEF Revenue
  <2>6. SumFunction(fees) = SumFunctionOnSet(fees, S)  BY <2>4, SumWhole
  <2> QED  BY <2>1, <2>3, <2>5, <2>6
<1>20. SumFunction(profit) = SumFunctionOnSet(profit, S)
  <2>1. DOMAIN profit = S  BY <1>11
  <2> QED  BY <2>1, SumWhole
<1> QED  BY <1>1, <1>11, <1>15, <1>16, <1>17, <1>18, <1>19, <1>20

\* What an overview shows is right of the orders as they are.
OverviewRight(x) ==
  LET shown == Counted(x.window, x.branch)
  IN /\ x.revenue = Revenue(shown)
     /\ x.profit = SumFunction([o \in shown |-> ProfitOf(o)])
     /\ x.missing = Cardinality({o \in shown : sale[o].cost = None})

LEMMA OverviewStays ==
  ASSUME NEW x, OverviewRight(x), UNCHANGED sale
  PROVE  OverviewRight(x)'
BY DEF OverviewRight, Counted, In, Revenue, ProfitOf

\* The overview's profit is made on the orders it shows.
LEMMA OverviewPage ==
  ASSUME ReportsInv, NEW r \in Requests, OverviewCosts(r)
  PROVE  PagesAreOfOnePiece'
<1>1. PICK q : q = req[r]  OBVIOUS
<1>2. PICK w, b : w = q.window /\ b = q.branch  OBVIOUS
<1>3. q.op = "overview"  BY <1>1 DEF OverviewCosts, At
<1>4. ReportOK(q)  BY <1>1 DEF ReportsInv
<1>5. q.edition = edition => q.now = Takings(w, b)  BY <1>2, <1>3, <1>4 DEF ReportOK
<1>6. PICK p : p = page'  OBVIOUS
<1>7. /\ p.of = "overview" /\ p.edition = q.edition /\ p.window = w /\ p.branch = b
      /\ p.revenue = q.now.revenue /\ p.profit = q.now.revenue - q.now.fees - CostsOf(w, b).cost
      /\ p.missing = CostsOf(w, b).missing
  <2>1. PICK now, then : now = CostsOf(w, b) /\ then = CostsOf(PreviousPeriod(w), b)  OBVIOUS
  <2>2. p = [of |-> "overview", edition |-> q.edition, window |-> w,
             branch |-> b, revenue |-> q.now.revenue, before |-> q.then.revenue,
             profit |-> q.now.revenue - q.now.fees - now.cost,
             profitBefore |-> q.then.revenue - q.then.fees - then.cost,
             missing |-> now.missing]
    BY <1>1, <1>2, <1>6, <2>1 DEF OverviewCosts
  <2>3. /\ p.of = "overview" /\ p.edition = q.edition /\ p.window = w /\ p.branch = b
        /\ p.revenue = q.now.revenue /\ p.profit = q.now.revenue - q.now.fees - now.cost
        /\ p.missing = now.missing
    BY <2>2
  <2> QED  BY <2>1, <2>3
<1>8. UNCHANGED <<sale, edition>>  BY DEF OverviewCosts
<1>9. ASSUME q.edition = edition PROVE OverviewRight(p)
  <2>1. q.now = Takings(w, b)  BY <1>5, <1>9
  <2>2. p.profit = SumFunction([o \in Counted(w, b) |-> ProfitOf(o)])
    BY <1>7, <2>1, ProfitAddsUp DEF ReportsInv
  <2>3. p.revenue = Revenue(Counted(w, b))
    <3>1. PICK x, y, z : /\ x = Revenue(Counted(w, b)) /\ y = Cardinality(Counted(w, b))
                         /\ z = SumFunction([o \in Counted(w, b) |-> sale[o].kind.fees])
      OBVIOUS
    <3>2. Takings(w, b) = [revenue |-> x, orders |-> y, fees |-> z]  BY <3>1 DEF Takings
    <3>3. Takings(w, b).revenue = x  BY <3>2
    <3> QED  BY <1>7, <2>1, <3>1, <3>3
  <2>4. p.missing = Cardinality({o \in Counted(w, b) : sale[o].cost = None})
    <3>1. PICK n, m : /\ n = Cardinality({o \in Counted(w, b) : sale[o].cost = None})
                      /\ m = SumFunction([o \in {x \in Counted(w, b) : sale[x].cost # None} |-> sale[o].cost])
      OBVIOUS
    <3>2. CostsOf(w, b) = [cost |-> m, missing |-> n]  BY <3>1 DEF CostsOf, CostsIn
    <3>3. CostsOf(w, b).missing = n  BY <3>2
    <3> QED  BY <1>7, <3>1, <3>3
  <2> QED  BY <1>7, <2>2, <2>3, <2>4 DEF OverviewRight
<1>10. q.edition = edition => OverviewRight(p)'  BY <1>8, <1>9, OverviewStays
<1>11. OverviewRight(p)' => OverviewRight(page)'  BY <1>6 DEF OverviewRight
<1>12. page'.of = "overview" /\ (page'.edition = edition' => OverviewRight(page)')
  BY <1>6, <1>7, <1>8, <1>10, <1>11
<1> QED  BY <1>12 DEF PagesAreOfOnePiece, OverviewRight

------------------------------------------------------------------------------
(* No step makes a figure contradict another *)

\* What a report holds stays right while no order changes.
LEMMA ReportStays ==
  ASSUME NEW x, ReportOK(x), UNCHANGED <<sale, edition>>
  PROVE  ReportOK(x)'
<1>1. \A w, b : Takings(w, b)' = Takings(w, b)  BY DEF Takings, Revenue, Counted, In
<1> QED  BY <1>1 DEF ReportOK

\* When one changes, no report is of the last edition.
LEMMA ReportOutdated ==
  ASSUME NEW x, ReportOK(x), edition \in Nat, edition' = edition + 1
  PROVE  ReportOK(x)'
BY DEF ReportOK

\* The tables change as this says, and the page that is not shown yet is not shown.
LEMMA TableStep ==
  ASSUME ReportsInv, [Next]_vars, UNCHANGED <<req, page>>, page = NoPage, TablesOK',
         UNCHANGED <<sale, edition>> \/ edition' = edition + 1
  PROVE  ReportsInv'
<1>1. RequestsNamed'  BY NextNamed DEF ReportsInv
<1>2. \A r \in Requests : ReportOK(req[r])'
  <2> TAKE r \in Requests
  <2>1. PICK x : x = req[r]  OBVIOUS
  <2>2. ReportOK(x)  BY <2>1 DEF ReportsInv
  <2>3. ReportOK(x)'  BY <2>2, ReportStays, ReportOutdated DEF ReportsInv, TablesOK
  <2>4. x = req'[r]  BY <2>1
  <2> QED  BY <2>3, <2>4 DEF ReportOK
<1>3. PagesAreOfOnePiece'  BY DEF PagesAreOfOnePiece, NoPage
<1> QED  BY <1>1, <1>2, <1>3 DEF ReportsInv

\* A request goes on, and no table changes.
LEMMA RequestStep ==
  ASSUME ReportsInv, [Next]_vars, UNCHANGED <<clock, sale, rack, edition>>,
         NEW r \in Requests, NEW x, req' = [req EXCEPT ![r] = x], ReportOK(x),
         PagesAreOfOnePiece'
  PROVE  ReportsInv'
<1>1. RequestsNamed'  BY NextNamed DEF ReportsInv
<1>2. \A q \in Requests : ReportOK(req[q])'
  <2> TAKE q \in Requests
  <2>1. PICK y : y = req'[q]  OBVIOUS
  <2>2. y = x \/ y = req[q]  BY <2>1 DEF ReportsInv, RequestsNamed
  <2>3. ReportOK(y)  BY <2>2 DEF ReportsInv
  <2>4. ReportOK(y)'  BY <2>3, ReportStays
  <2> QED  BY <2>1, <2>4 DEF ReportOK
<1>3. TablesOK'  BY DEF TablesOK, ReportsInv
<1> QED  BY <1>1, <1>2, <1>3 DEF ReportsInv

LEMMA ClockTicks ==
  ASSUME ReportsInv, Tick
  PROVE  TablesOK' /\ UNCHANGED <<sale, edition, req, page>>
BY DEF ReportsInv, TablesOK, Tick

LEMMA OrderArrives ==
  ASSUME ReportsInv, NEW o \in Sales, NEW kind \in SaleKinds, NEW st \in Moves, NEW c \in Costs,
         Order(o, kind, st, c)
  PROVE  TablesOK' /\ edition' = edition + 1 /\ UNCHANGED <<req, page>>
<1>1. PICK x : x = [kind |-> kind, status |-> st, at |-> clock, failed |-> FALSE, cost |-> c]
  OBVIOUS
<1>2. clock \in Nat /\ edition \in Nat  BY DEF ReportsInv, TablesOK
<1>3. x \in SaleRows  BY <1>1, <1>2 DEF SaleRows
<1>4. sale' = [sale EXCEPT ![o] = x] /\ UNCHANGED <<clock, rack, page>> /\ edition' = edition + 1
  BY <1>1 DEF Order
<1>5. UNCHANGED req  BY DEF Order, Once
<1>6. sale' \in [Sales -> SaleRows \cup {NoSale}]
  <2>1. sale \in [Sales -> SaleRows \cup {NoSale}]  BY DEF ReportsInv, TablesOK
  <2> QED  BY <1>3, <1>4, <2>1
<1> QED  BY <1>2, <1>4, <1>5, <1>6 DEF ReportsInv, TablesOK

LEMMA OrderMoves ==
  ASSUME ReportsInv, NEW o \in Sales, NEW st \in Moves, NEW c \in Costs, NEW f \in BOOLEAN,
         Move(o, st, c, f)
  PROVE  TablesOK' /\ edition' = edition + 1 /\ UNCHANGED <<req, page>>
<1>1. sale \in [Sales -> SaleRows \cup {NoSale}]  BY DEF ReportsInv, TablesOK
<1>2. sale[o] \in SaleRows  BY <1>1 DEF Move
<1>3. PICK x : x = [sale[o] EXCEPT !.status = st, !.cost = c, !.failed = f]  OBVIOUS
<1>4. x \in SaleRows  BY <1>2, <1>3 DEF SaleRows
<1>5. sale' = [sale EXCEPT ![o] = x]
  <2>1. sale' = [sale EXCEPT ![o].status = st, ![o].cost = c, ![o].failed = f]  BY DEF Move
  <2> QED  BY <1>1, <1>3, <2>1
<1>6. UNCHANGED <<clock, rack, page>> /\ edition' = edition + 1 /\ UNCHANGED req
  BY DEF Move, Once
<1>7. sale' \in [Sales -> SaleRows \cup {NoSale}]  BY <1>1, <1>4, <1>5
<1> QED  BY <1>6, <1>7 DEF ReportsInv, TablesOK

LEMMA GoodsMove ==
  ASSUME ReportsInv, NEW i \in Rows, NEW level \in Levels, NEW sells \in BOOLEAN,
         Restock(i, level, sells)
  PROVE  TablesOK' /\ UNCHANGED <<sale, edition, req, page>>
<1>1. rack \in [Rows -> RackRows] /\ clock \in Nat  BY DEF ReportsInv, TablesOK
<1>2. level.stock \in Int /\ level.locked \in Nat  BY DashboardAssumption
<1>3. PICK t : t = IF sells THEN clock ELSE rack[i].sold  OBVIOUS
<1>4. PICK x : x = [rack[i] EXCEPT !.stock = level.stock, !.locked = level.locked, !.sold = t]
  OBVIOUS
<1>5. rack[i] \in RackRows /\ t \in Nat \cup {None}  BY <1>1, <1>3 DEF RackRows
<1>6. x \in RackRows  BY <1>2, <1>4, <1>5 DEF RackRows
<1>7. rack' = [rack EXCEPT ![i] = x]
  <2>1. rack' = [rack EXCEPT ![i].stock = level.stock, ![i].locked = level.locked,
                             ![i].sold = IF sells THEN clock ELSE @]
    BY DEF Restock
  <2>2. rack' = [rack EXCEPT ![i].stock = level.stock, ![i].locked = level.locked, ![i].sold = t]
    BY <1>1, <1>3, <1>5, <2>1 DEF RackRows
  <2> QED  BY <1>1, <1>4, <2>2
<1>8. UNCHANGED <<clock, sale, page, edition, req>>  BY DEF Restock, Once
<1>9. rack' \in [Rows -> RackRows]  BY <1>1, <1>6, <1>7
<1> QED  BY <1>8, <1>9 DEF ReportsInv, TablesOK

LEMMA PlaceSells ==
  ASSUME ReportsInv, NEW i \in Rows, NEW on \in BOOLEAN, PlaceChange(i.at, on)
  PROVE  TablesOK' /\ UNCHANGED <<sale, edition, req, page>>
<1>1. rack \in [Rows -> RackRows]  BY DEF ReportsInv, TablesOK
<1>2. ASSUME NEW x \in Rows
      PROVE  [rack[x] EXCEPT !.onSale = IF x.at = i.at THEN on ELSE @] \in RackRows
  <2>1. rack[x] \in RackRows  BY <1>1
  <2>2. PICK v : v = IF x.at = i.at THEN on ELSE rack[x].onSale  OBVIOUS
  <2>3. v \in BOOLEAN  BY <2>1, <2>2 DEF RackRows
  <2>4. [rack[x] EXCEPT !.onSale = v] \in RackRows  BY <2>1, <2>3 DEF RackRows
  <2> QED  BY <2>1, <2>2, <2>4 DEF RackRows
<1>3. rack' = [x \in Rows |-> [rack[x] EXCEPT !.onSale = IF x.at = i.at THEN on ELSE @]]
  BY DEF PlaceChange
<1>4. rack' \in [Rows -> RackRows]  BY <1>2, <1>3
<1>5. UNCHANGED <<clock, sale, page, edition, req>>  BY DEF PlaceChange, Once
<1> QED  BY <1>4, <1>5 DEF ReportsInv, TablesOK

\* The first statement of a report.
LEMMA ReportBegins ==
  ASSUME ReportsInv, [Next]_vars, NEW r \in Requests, page = NoPage,
         \E b, from : AlertsCount(r, b) \/ OverviewOrders(r, b, from)
  PROVE  ReportsInv'
<1>1. UNCHANGED dashboardVars  BY DEF AlertsCount, OverviewOrders
<1>2. PagesAreOfOnePiece'  BY <1>1 DEF PagesAreOfOnePiece, NoPage, dashboardVars
<1>3. ASSUME NEW op, NEW x, Begin(r, op, x), ReportOK(x) PROVE ReportsInv'
  BY <1>1, <1>2, <1>3, RequestStep DEF Begin, dashboardVars
<1>4. ASSUME NEW b, AlertsCount(r, b) PROVE ReportsInv'
  <2>1. PICK snap : snap = Snapshot(b)  OBVIOUS
  <2>2. snap.rack = rack /\ snap.at = clock  BY <2>1 DEF Snapshot
  <2>3. PICK idle : idle = Alerts(snap).AGING  OBVIOUS
  <2>4. PICK counts, aging :
          /\ counts = [c \in DOMAIN Alerts(snap) |-> Cardinality(Alerts(snap)[c])]
          /\ aging = [l \in {"WARNING", "ATTENTION", "STALE"} |->
                        Cardinality({i \in idle : AgingLevel(DaysIdle(rack[i], clock)) = l})]
    OBVIOUS
  <2>5. PICK x : x = [op |-> "alerts", at |-> "lists", snap |-> snap, counts |-> counts, aging |-> aging]
    OBVIOUS
  <2>6. Begin(r, "alerts", x)  BY <1>4, <2>1, <2>3, <2>4, <2>5 DEF AlertsCount
  <2>7. counts = CountsOf(snap)  BY <2>4 DEF CountsOf
  <2>8. aging = AgingOf(snap)  BY <2>2, <2>3, <2>4 DEF AgingOf
  <2>9. ReportOK(x)
    <3>1. x.op = "alerts" /\ x.snap = snap /\ x.counts = counts /\ x.aging = aging  BY <2>5
    <3>2. snap.rack \in [Rows -> RackRows] /\ snap.at \in Nat  BY <2>2 DEF ReportsInv, TablesOK
    <3> QED  BY <2>7, <2>8, <3>1, <3>2 DEF ReportOK
  <2> QED  BY <1>3, <2>6, <2>9
<1>5. ASSUME NEW b, NEW from, OverviewOrders(r, b, from) PROVE ReportsInv'
  <2>1. OverviewOrders(r, b, from)  BY <1>5
  <2>2. PICK w : w = [from |-> from, to |-> clock]  OBVIOUS
  <2>3. PICK now, then : now = Takings(w, b) /\ then = Takings(PreviousPeriod(w), b)  OBVIOUS
  <2>4. PICK x : x = [op |-> "overview", at |-> "costs", edition |-> edition,
                      window |-> w, branch |-> b, now |-> now, then |-> then]
    OBVIOUS
  <2>5. Begin(r, "overview", x)  BY <2>1, <2>2, <2>3, <2>4 DEF OverviewOrders
  <2>6. /\ x.op = "overview" /\ x.edition = edition /\ x.now = now
        /\ x.window = w /\ x.branch = b
    BY <2>4
  <2>7. ReportOK(x)  BY <2>3, <2>6 DEF ReportOK, ReportsInv, TablesOK
  <2> QED  BY <1>3, <2>5, <2>7
<1> QED  BY <1>4, <1>5

LEMMA IdleReport == ReportOK(Idle)
BY IdleNamed DEF ReportOK

\* The last statement of a report.
LEMMA ReportEnds ==
  ASSUME ReportsInv, [Next]_vars, NEW r \in Requests, OverviewCosts(r) \/ AlertsLists(r)
  PROVE  ReportsInv'
<1>1. PagesAreOfOnePiece'  BY AlertsPage, OverviewPage
<1>2. UNCHANGED <<clock, sale, rack, edition>> /\ req' = Done(r)
  BY DEF OverviewCosts, AlertsLists
<1> QED  BY <1>1, <1>2, IdleReport, RequestStep DEF Done

LEMMA ReportsStep ==
  ASSUME ReportsInv, [Next]_vars
  PROVE  ReportsInv'
<1>1. CASE DashboardNext
  <2>1. page = NoPage  BY <1>1 DEF DashboardNext
  <2>2. CASE Tick  BY <2>1, <2>2, ClockTicks, TableStep
  <2>3. ASSUME NEW o \in Sales, NEW kind \in SaleKinds, NEW st \in Moves, NEW c \in Costs,
               Order(o, kind, st, c)
        PROVE  ReportsInv'
    BY <2>1, <2>3, OrderArrives, TableStep
  <2>4. ASSUME NEW o \in Sales, NEW st \in Moves, NEW c \in Costs, NEW f \in BOOLEAN, Move(o, st, c, f)
        PROVE  ReportsInv'
    BY <2>1, <2>4, OrderMoves, TableStep
  <2>5. ASSUME NEW i \in Rows, NEW level \in Levels, NEW sells \in BOOLEAN, Restock(i, level, sells)
        PROVE  ReportsInv'
    BY <2>1, <2>5, GoodsMove, TableStep
  <2>6. ASSUME NEW i \in Rows, NEW on \in BOOLEAN, PlaceChange(i.at, on)
        PROVE  ReportsInv'
    BY <2>1, <2>6, PlaceSells, TableStep
  <2> QED
    BY <1>1, <2>1, <2>2, <2>3, <2>4, <2>5, <2>6, ReportBegins, ReportEnds DEF DashboardNext
<1>2. CASE ~DashboardNext
  <2>1. RequestsNamed'  BY NextNamed DEF ReportsInv
  <2>2. UNCHANGED dashboardVars  BY <1>2 DEF Next, vars, areaVars, farVars
  <2>3. Keeps(DashboardOps)
    <3>1. CASE UNCHANGED vars  BY <3>1 DEF Keeps, vars, requestVars
    <3>2. CASE Next
      BY <1>2, <3>2, StaffTouches, RosterTouches, AccessTouches, HandlingTouches,
         BankingTouches, RegistersTouches, OrderListTouches, OutsideTouches, KeepsOthers
         DEF Next, ReportsInv, StaffOps, RosterOps, AccessOps, HandlingOps, BankingOps, DashboardOps,
             RegisterOps, ListOps, OutsideOps
    <3> QED  BY <3>1, <3>2
  <2>4. UNCHANGED <<clock, sale, rack, page, edition>>  BY <2>2 DEF dashboardVars
  <2>5. \A q \in Requests : ReportOK(req[q])'
    <3> TAKE q \in Requests
    <3>1. PICK y : y = req'[q]  OBVIOUS
    <3>2. y = req[q] \/ y.op \notin DashboardOps  BY <2>3, <3>1 DEF Keeps
    <3>3. ReportOK(y)  BY <3>2 DEF ReportsInv, ReportOK, DashboardOps
    <3>4. ReportOK(y)'  BY <2>4, <3>3, ReportStays
    <3> QED  BY <3>1, <3>4 DEF ReportOK
  <2>6. TablesOK'  BY <2>4 DEF TablesOK, ReportsInv
  <2>7. PagesAreOfOnePiece'
    <3>1. PICK x : x = page  OBVIOUS
    <3>2. OverviewRight(x) => OverviewRight(x)'  BY <2>4, OverviewStays
    <3> QED
      BY <2>4, <3>1, <3>2 DEF PagesAreOfOnePiece, OverviewRight, ReportsInv
  <2> QED  BY <2>1, <2>5, <2>6, <2>7 DEF ReportsInv
<1> QED  BY <1>1, <1>2

LEMMA ReportsInit == Init => ReportsInv
<1> SUFFICES ASSUME Init PROVE ReportsInv  OBVIOUS
<1>1. TablesOK  BY DEF Init, DashboardInit, TablesOK, RackRows
<1>2. \A r \in Requests : ReportOK(req[r])  BY IdleReport DEF Init, RequestsInit
<1>3. PagesAreOfOnePiece  BY DEF Init, DashboardInit, PagesAreOfOnePiece, NoPage
<1> QED  BY <1>1, <1>2, <1>3, InitNamed DEF ReportsInv

\* No two figures of the dashboard contradict each other: however the sales of a
\* window are split the parts add up, a page of several statements is of one piece
\* unless an order changed meanwhile, and the periods it compares can be compared.
THEOREM FiguresAlwaysAgree == Spec => []FiguresAgree
<1>1. Init => ReportsInv  BY ReportsInit
<1>2. ReportsInv /\ [Next]_vars => ReportsInv'  BY ReportsStep
<1>3. ReportsInv => FiguresAgree  BY SplitsAgree, PeriodsAreFair DEF ReportsInv, FiguresAgree
<1> QED  BY <1>1, <1>2, <1>3, PTL DEF Spec

------------------------------------------------------------------------------
(* Sets in order *)

\* A strict total order on S.
StrictOrder(S, R) ==
  /\ \A x \in S : <<x, x>> \notin R
  /\ \A x, y, z \in S : <<x, y>> \in R /\ <<y, z>> \in R => <<x, z>> \in R
  /\ \A x, y \in S : x # y => <<x, y>> \in R \/ <<y, x>> \in R

\* Those of S that come before x.
Earlier(S, R, x) == {p \in S : <<p, x>> \in R}

\* s lists S in the order R.
Lists(s, S, R) ==
  /\ s \in [1 .. Cardinality(S) -> S]
  /\ \A i, j \in 1 .. Cardinality(S) : i < j => <<s[i], s[j]>> \in R

\* What comes before another has fewer before it.
LEMMA EarlierHasFewer ==
  ASSUME NEW S, IsFiniteSet(S), NEW R, StrictOrder(S, R), NEW x \in S, NEW y \in S, <<x, y>> \in R
  PROVE  Cardinality(Earlier(S, R, x)) < Cardinality(Earlier(S, R, y))
<1>1. PICK P, Q : P = Earlier(S, R, x) /\ Q = Earlier(S, R, y)  OBVIOUS
<1>2. P \in SUBSET Q /\ x \in Q /\ x \notin P  BY <1>1 DEF Earlier, StrictOrder
<1>3. IsFiniteSet(P) /\ IsFiniteSet(Q)  BY <1>1, FS_Subset DEF Earlier
<1>4. Cardinality(P) \in Nat /\ Cardinality(Q) \in Nat  BY <1>3, FS_CardinalityType
<1>5. Cardinality(P) <= Cardinality(Q) /\ (Cardinality(P) = Cardinality(Q) => P = Q)
  BY <1>2, <1>3, FS_Subset
<1> QED  BY <1>1, <1>2, <1>4, <1>5

\* A finite set can be listed in any order.
LEMMA ListExists ==
  ASSUME NEW S, IsFiniteSet(S), NEW R, StrictOrder(S, R)
  PROVE  \E s : Lists(s, S, R)
<1>1. PICK n : n = Cardinality(S)  OBVIOUS
<1>2. n \in Nat  BY <1>1, FS_CardinalityType
<1>3. PICK rank : rank = [x \in S |-> Cardinality(Earlier(S, R, x)) + 1]  OBVIOUS
<1>4. \A x \in S : rank[x] \in 1 .. n
  <2> TAKE x \in S
  <2>1. PICK P : P = Earlier(S, R, x)  OBVIOUS
  <2>2. P \in SUBSET (S \ {x})  BY <2>1 DEF Earlier, StrictOrder
  <2>3. IsFiniteSet(S \ {x}) /\ Cardinality(S \ {x}) = n - 1  BY <1>1, FS_RemoveElement
  <2>4. Cardinality(P) <= n - 1 /\ IsFiniteSet(P)  BY <2>2, <2>3, FS_Subset
  <2>5. Cardinality(P) \in Nat  BY <2>4, FS_CardinalityType
  <2> QED  BY <1>2, <1>3, <2>1, <2>4, <2>5
<1>5. \A x, y \in S : <<x, y>> \in R => rank[x] < rank[y]
  <2> TAKE x, y \in S
  <2>1. PICK a, b : a = Cardinality(Earlier(S, R, x)) /\ b = Cardinality(Earlier(S, R, y))  OBVIOUS
  <2>2. rank[x] = a + 1 /\ rank[y] = b + 1  BY <1>3, <2>1
  <2>3. <<x, y>> \in R => a < b  BY <2>1, EarlierHasFewer
  <2>4. a \in Int /\ b \in Int
    <3>1. IsFiniteSet(Earlier(S, R, x)) /\ IsFiniteSet(Earlier(S, R, y))  BY FS_Subset DEF Earlier
    <3> QED  BY <2>1, <3>1, FS_CardinalityType
  <2> QED  BY <2>2, <2>3, <2>4
<1>6. \A x, y \in S : rank[x] = rank[y] => x = y
  <2> TAKE x, y \in S
  <2>1. x # y => <<x, y>> \in R \/ <<y, x>> \in R  BY DEF StrictOrder
  <2> QED  BY <1>4, <1>5, <2>1
<1>7. rank \in Injection(S, 1 .. n)
  <2>1. rank \in [S -> 1 .. n]  BY <1>3, <1>4
  <2> QED  BY <1>6, <2>1 DEF Injection, IsInjective
<1>8. rank \in Surjection(S, 1 .. n)
  <2>1. 1 \in Int /\ n \in Int  BY <1>2
  <2>2. IsFiniteSet(1 .. n) /\ Cardinality(1 .. n) = IF 1 > n THEN 0 ELSE n - 1 + 1
    BY <2>1, FS_Interval
  <2>3. Cardinality(1 .. n) = n  BY <1>2, <2>2
  <2> QED  BY <1>1, <1>7, <2>2, <2>3, FS_Injection
<1>9. \A i \in 1 .. n : \E x \in S : rank[x] = i  BY <1>8 DEF Surjection
<1>10. PICK s : s = [i \in 1 .. n |-> CHOOSE x \in S : rank[x] = i]  OBVIOUS
<1>11. \A i \in 1 .. n : s[i] \in S /\ rank[s[i]] = i  BY <1>9, <1>10
<1>12. ASSUME NEW i \in 1 .. n, NEW j \in 1 .. n, i < j PROVE <<s[i], s[j]>> \in R
  <2>1. s[i] # s[j] /\ s[i] \in S /\ s[j] \in S  BY <1>11, <1>12
  <2>2. <<s[j], s[i]>> \notin R  BY <1>5, <1>11, <1>12
  <2> QED  BY <2>1, <2>2 DEF StrictOrder
<1> QED  BY <1>1, <1>10, <1>11, <1>12 DEF Lists

\* A list in order has every element once, after those that come before it.
LEMMA ListPlaces ==
  ASSUME NEW S, IsFiniteSet(S), NEW R, StrictOrder(S, R), NEW s, Lists(s, S, R)
  PROVE  /\ \A x \in S : \E k \in 1 .. Cardinality(S) : s[k] = x
         /\ \A k \in 1 .. Cardinality(S) : Cardinality(Earlier(S, R, s[k])) = k - 1
<1>1. PICK n : n = Cardinality(S)  OBVIOUS
<1>2. n \in Nat  BY <1>1, FS_CardinalityType
<1>3. s \in [1 .. n -> S] /\ \A i, j \in 1 .. n : i < j => <<s[i], s[j]>> \in R
  BY <1>1 DEF Lists
<1>4. \A i, j \in 1 .. n : s[i] = s[j] => i = j
  <2> TAKE i, j \in 1 .. n
  <2>1. i < j \/ j < i \/ i = j  OBVIOUS
  <2> QED  BY <1>3, <2>1 DEF StrictOrder
<1>5. s \in Injection(1 .. n, S)  BY <1>3, <1>4 DEF Injection, IsInjective
<1>6. s \in Surjection(1 .. n, S)
  <2>1. 1 \in Int /\ n \in Int  BY <1>2
  <2>2. Cardinality(1 .. n) = IF 1 > n THEN 0 ELSE n - 1 + 1  BY <2>1, FS_Interval
  <2>3. Cardinality(1 .. n) = n  BY <1>2, <2>2
  <2> QED  BY <1>1, <1>5, <2>3, FS_Injection
<1>7. \A x \in S : \E k \in 1 .. n : s[k] = x  BY <1>6 DEF Surjection
<1>8. ASSUME NEW k \in 1 .. n PROVE Cardinality(Earlier(S, R, s[k])) = k - 1
  <2>1. PICK P : P = Earlier(S, R, s[k])  OBVIOUS
  <2>2. PICK m : m = k - 1  OBVIOUS
  <2>3. m \in Nat /\ \A j \in 1 .. m : j \in 1 .. n /\ j < k  BY <1>2, <2>2
  <2>4. PICK b : b = [j \in 1 .. m |-> s[j]]  OBVIOUS
  <2>5. b \in Injection(1 .. m, P)
    <3>1. \A j \in 1 .. m : b[j] \in P  BY <1>3, <2>1, <2>3, <2>4 DEF Earlier
    <3>2. b \in [1 .. m -> P]  BY <2>4, <3>1
    <3>3. \A i, j \in 1 .. m : b[i] = b[j] => i = j  BY <1>4, <2>3, <2>4
    <3> QED  BY <3>2, <3>3 DEF Injection, IsInjective
  <2>6. b \in Surjection(1 .. m, P)
    <3>1. ASSUME NEW x \in P PROVE \E j \in 1 .. m : b[j] = x
      <4>1. x \in S /\ <<x, s[k]>> \in R  BY <2>1 DEF Earlier
      <4>2. PICK j \in 1 .. n : s[j] = x  BY <1>7, <4>1
      <4>3. s[k] \in S  BY <1>3
      <4>4. j # k  BY <4>1, <4>2, <4>3 DEF StrictOrder
      <4>5. ~(k < j)
        <5>1. SUFFICES ASSUME k < j PROVE FALSE  OBVIOUS
        <5>2. <<s[k], x>> \in R  BY <1>3, <4>2, <5>1
        <5> QED  BY <4>1, <4>3, <5>2 DEF StrictOrder
      <4>6. j \in 1 .. m  BY <2>2, <4>4, <4>5
      <4> QED  BY <2>4, <4>2, <4>6
    <3> QED  BY <2>5, <3>1 DEF Surjection, Injection
  <2>7. 1 \in Int /\ m \in Int  BY <2>3
  <2>8. IsFiniteSet(1 .. m) /\ Cardinality(1 .. m) = IF 1 > m THEN 0 ELSE m - 1 + 1
    BY <2>7, FS_Interval
  <2>9. Cardinality(P) = Cardinality(1 .. m)
    BY <2>5, <2>6, <2>8, FS_Surjection
  <2>10. Cardinality(1 .. m) = m  BY <2>3, <2>8
  <2> QED  BY <2>1, <2>2, <2>9, <2>10
<1> QED  BY <1>1, <1>7, <1>8

\* What InOrder and Slice return.
LEMMA InOrderLists ==
  ASSUME NEW S, IsFiniteSet(S), NEW R, StrictOrder(S, R)
  PROVE  Lists(InOrder(S, R), S, R)
<1>1. PICK s : Lists(s, S, R)  BY ListExists
<1>2. s \in [1 .. Cardinality(S) -> S] /\ \A i, j \in DOMAIN s : i < j => <<s[i], s[j]>> \in R
  BY <1>1 DEF Lists
<1>3. /\ InOrder(S, R) \in [1 .. Cardinality(S) -> S]
      /\ \A i, j \in DOMAIN InOrder(S, R) : i < j => <<InOrder(S, R)[i], InOrder(S, R)[j]>> \in R
  BY <1>2 DEF InOrder
<1> QED  BY <1>3 DEF Lists

\* How many a slice of n has.
SliceLen(n, skip, take) ==
  IF n <= skip THEN 0 ELSE IF n <= skip + take THEN n - skip ELSE take

\* What a slice holds: so many, one after the other from where it begins.
LEMMA SliceParts ==
  ASSUME NEW S, NEW s \in Seq(S), NEW n, n = Len(s), NEW skip \in Nat, NEW take \in Nat,
         NEW p, p = Slice(s, skip, take)
  PROVE  /\ p \in Seq(S)
         /\ Len(p) = SliceLen(n, skip, take)
         /\ \A i \in 1 .. Len(p) : skip + i \in 1 .. n /\ p[i] = s[skip + i]
<1>1. PICK m, k : m = skip + 1 /\ k = IF skip + take < n THEN skip + take ELSE n  OBVIOUS
<1>2. n \in Nat /\ \A i \in 1 .. n : s[i] \in S  BY LenProperties
<1>3. p = SubSeq(s, m, k)  BY <1>1 DEF Slice
<1>4. m \in Int /\ k \in Int /\ \A i \in m .. k : i \in 1 .. n  BY <1>1, <1>2
<1>5. \A i \in m .. k : s[i] \in S  BY <1>2, <1>4
<1>7. /\ p \in Seq(S) /\ Len(p) = IF m <= k THEN k - m + 1 ELSE 0
      /\ \A i \in 1 .. k - m + 1 : p[i] = s[m + i - 1]
  BY <1>3, <1>4, <1>5, SubSeqProperties
<1>8. Len(p) = SliceLen(n, skip, take)
  BY <1>1, <1>2, <1>7 DEF SliceLen
<1>9. ASSUME NEW i \in 1 .. Len(p) PROVE skip + i \in 1 .. n /\ p[i] = s[skip + i]
  <2>1. i \in 1 .. k - m + 1  BY <1>4, <1>7
  <2>2. p[i] = s[m + i - 1]  BY <1>7, <2>1
  <2>3. m + i - 1 = skip + i /\ skip + i \in m .. k  BY <1>1, <2>1
  <2> QED  BY <1>4, <2>2, <2>3
<1> QED  BY <1>7, <1>8, <1>9

------------------------------------------------------------------------------
(* The order of the list *)

BookOK == book \in [Orders -> OrderKinds \cup Edits]

\* All that a query's list holds, on whatever page.
Matched(q) == {o \in ListWhere(q) : ByStock(q) => StockWanted(q, o)}

\* What a list holds can be counted.
LEMMA MatchedFinite ==
  ASSUME NEW q
  PROVE  /\ Matched(q) \subseteq Orders /\ ListWhere(q) \subseteq Orders
         /\ IsFiniteSet(Matched(q)) /\ Cardinality(Matched(q)) \in Nat
<1>1. Matched(q) \subseteq Orders /\ ListWhere(q) \subseteq Orders  BY DEF Matched, ListWhere
<1>2. IsFiniteSet(Matched(q))  BY <1>1, OrderListAssumption, FS_Subset
<1> QED  BY <1>1, <1>2, FS_CardinalityType

\* Ranks are numbers; with sort "priority", the number of the bucket.
LEMMA Ranks ==
  ASSUME BookOK, NEW sort, NEW o \in Orders
  PROVE  /\ Rank(sort, o) \in Int
         /\ Rank("priority", o) \in 1 .. 3
         /\ \A i \in 1 .. 3 : book[o].priority = Buckets[i] <=> Rank("priority", o) = i
<1>1. book[o].priority \in {"URGENT", "HIGH", "NORMAL"}
      /\ (book[o].due # None => book[o].due \in Int)
  BY OrderListAssumption DEF BookOK
<1>2. \A i \in 1 .. 3 : Buckets[i] = (IF i = 1 THEN "URGENT" ELSE IF i = 2 THEN "HIGH" ELSE "NORMAL")
  BY DEF Buckets
<1>3. PICK P : P = book[o].priority  OBVIOUS
<1>4. Rank("priority", o) = CHOOSE i \in 1 .. 3 : Buckets[i] = P  BY <1>3 DEF Rank
<1>5. \E i \in 1 .. 3 : Buckets[i] = P
  <2>1. 1 \in 1 .. 3 /\ 2 \in 1 .. 3 /\ 3 \in 1 .. 3  OBVIOUS
  <2> QED  BY <1>1, <1>2, <1>3, <2>1
<1>6. Rank("priority", o) \in 1 .. 3 /\ Buckets[Rank("priority", o)] = P  BY <1>4, <1>5
<1>7. \A i, j \in 1 .. 3 : Buckets[i] = Buckets[j] => i = j  BY <1>2
<1>8. \A i \in 1 .. 3 : book[o].priority = Buckets[i] <=> Rank("priority", o) = i
  BY <1>3, <1>6, <1>7
<1>9. Rank(sort, o) \in Int
  <2>1. CASE sort = "priority"  BY <1>6, <2>1
  <2>2. CASE sort = "requestedDeliveryDate"
    <3>1. CASE book[o].due # None  BY <1>1, <2>2, <3>1 DEF Rank
    <3>2. CASE book[o].due = None  BY <2>2, <3>2, OrderListAssumption DEF Rank
    <3> QED  BY <3>1, <3>2
  <2>3. CASE sort # "priority" /\ sort # "requestedDeliveryDate"  BY <2>3 DEF Rank
  <2> QED  BY <2>1, <2>2, <2>3
<1> QED  BY <1>6, <1>8, <1>9

\* The three orders are orders, and the database's is the service's.
LEMMA ComparingOrders ==
  ASSUME BookOK, NEW sort, NEW S \in SUBSET Orders
  PROVE  StrictOrder(S, Comparing(sort))
<1>1. \A o \in S : Rank(sort, o) \in Int /\ o \in Nat  BY Ranks, OrderListAssumption
<1>2. \A a, b \in S : <<a, b>> \in Comparing(sort) <=> CompareFor(sort, a, b)  BY DEF Comparing
<1>3. \A a, b \in S : CompareFor(sort, a, b) <=>
        Rank(sort, a) < Rank(sort, b) \/ (Rank(sort, a) = Rank(sort, b) /\ a > b)
  BY DEF CompareFor
<1>4. PICK f : f = [o \in S |-> Rank(sort, o)]  OBVIOUS
<1>5. \A a, b \in S : <<a, b>> \in Comparing(sort) <=> f[a] < f[b] \/ (f[a] = f[b] /\ a > b)
  BY <1>2, <1>3, <1>4
<1>6. \A o \in S : f[o] \in Int /\ o \in Int  BY <1>1, <1>4
<1> QED  BY <1>5, <1>6 DEF StrictOrder

\* By number, orders are in a strict order.
LEMMA NewestOrders ==
  ASSUME NEW S \in SUBSET Orders
  PROVE  StrictOrder(S, NewestFirst)
<1>1. \A o \in S : o \in Int  BY OrderListAssumption
<1>2. \A a, b \in S : <<a, b>> \in NewestFirst <=> a > b  BY DEF NewestFirst
<1> QED  BY <1>1, <1>2 DEF StrictOrder

\* The database sorts as the service compares.
LEMMA DatabaseOrders ==
  ASSUME BookOK, NEW sort, sort # "priority"
  PROVE  Sorting(sort) = Comparing(sort)
<1>1. ASSUME NEW a \in Orders, NEW b \in Orders PROVE OrderBy(sort, a, b) <=> CompareFor(sort, a, b)
  <2>1. /\ book[a].due # None => book[a].due \in Int /\ book[a].due < Today + Never
        /\ book[b].due # None => book[b].due \in Int /\ book[b].due < Today + Never
    BY OrderListAssumption DEF BookOK
  <2>2. Today + Never \in Int  BY OrderListAssumption
  <2>3. PICK d, e, z : d = book[a].due /\ e = book[b].due /\ z = Today + Never  OBVIOUS
  <2>4. CASE sort = "requestedDeliveryDate"
    <3>1. /\ Rank(sort, a) = IF d # None THEN d ELSE z
          /\ Rank(sort, b) = IF e # None THEN e ELSE z
      BY <2>3, <2>4 DEF Rank
    <3>2. OrderBy(sort, a, b) <=> IF d = e THEN a > b ELSE e = None \/ (d # None /\ d < e)
      BY <2>3, <2>4 DEF OrderBy
    <3> QED  BY <2>1, <2>2, <2>3, <3>1, <3>2 DEF CompareFor
  <2>5. CASE sort # "requestedDeliveryDate"
    <3>1. Rank(sort, a) = 0 /\ Rank(sort, b) = 0  BY <2>5 DEF Rank
    <3>2. OrderBy(sort, a, b) <=> a > b  BY <2>5 DEF OrderBy
    <3> QED  BY <3>1, <3>2 DEF CompareFor
  <2> QED  BY <2>4, <2>5
<1>2. \A x \in Orders \X Orders : x[1] \in Orders /\ x[2] \in Orders  OBVIOUS
<1> QED  BY <1>1, <1>2 DEF Sorting, Comparing

\* The place of an order in its list.
LEMMA BeforeIsEarlier ==
  ASSUME NEW q, NEW o \in Matched(q)
  PROVE  Before(q, o) = Earlier(Matched(q), Comparing(q.sort), o)
<1>1. \A p \in Matched(q) : <<p, o>> \in Comparing(q.sort) <=> CompareFor(q.sort, p, o)
  BY MatchedFinite DEF Comparing
<1> QED  BY <1>1 DEF Before, Matched, Earlier

\* Orders of one list have different places, below how many there are.
LEMMA PlacesApart ==
  ASSUME BookOK, NEW q
  PROVE  /\ \A o \in Matched(q) : Cardinality(Before(q, o)) \in Nat
                                  /\ Cardinality(Before(q, o)) < Cardinality(Matched(q))
         /\ \A o, p \in Matched(q) : Cardinality(Before(q, o)) = Cardinality(Before(q, p)) => o = p
<1>1. PICK S, R : S = Matched(q) /\ R = Comparing(q.sort)  OBVIOUS
<1>2. IsFiniteSet(S) /\ StrictOrder(S, R)  BY <1>1, MatchedFinite, ComparingOrders
<1>3. \A o \in S : Before(q, o) = Earlier(S, R, o)  BY <1>1, BeforeIsEarlier
<1>4. ASSUME NEW o \in S
      PROVE  Cardinality(Before(q, o)) \in Nat /\ Cardinality(Before(q, o)) < Cardinality(S)
  <2>1. PICK P : P = Before(q, o)  OBVIOUS
  <2>2. P \in SUBSET S /\ o \notin P  BY ZenonT(60), <1>2, <1>3, <2>1 DEF Earlier, StrictOrder
  <2>3. IsFiniteSet(P) /\ Cardinality(P) <= Cardinality(S) /\ (Cardinality(P) = Cardinality(S) => P = S)
    BY <1>2, <2>2, FS_Subset
  <2>4. Cardinality(P) \in Nat /\ Cardinality(S) \in Nat  BY <1>2, <2>3, FS_CardinalityType
  <2> QED  BY <2>1, <2>2, <2>3, <2>4
<1>5. ASSUME NEW o \in S, NEW p \in S, o # p
      PROVE  Cardinality(Before(q, o)) # Cardinality(Before(q, p))
  <2>1. <<o, p>> \in R \/ <<p, o>> \in R  BY <1>2, <1>5 DEF StrictOrder
  <2>2. Cardinality(Before(q, o)) < Cardinality(Before(q, p))
        \/ Cardinality(Before(q, p)) < Cardinality(Before(q, o))
    BY <1>2, <1>3, <2>1, EarlierHasFewer
  <2> QED  BY <1>4, <2>2
<1> QED  BY <1>1, <1>4, <1>5

------------------------------------------------------------------------------
(* A page *)

\* The slice of a list in order: every element at its place.
InPlace(p, S, R, skip) ==
  \A i \in 1 .. Len(p) : p[i] \in S /\ Cardinality(Earlier(S, R, p[i])) = skip + i - 1

\* A slice of what is put in order: each element stands where the number before it says.
LEMMA SliceInOrder ==
  ASSUME NEW S, IsFiniteSet(S), NEW R, StrictOrder(S, R), NEW skip \in Nat, NEW take \in Nat
  PROVE  /\ Slice(InOrder(S, R), skip, take) \in Seq(S)
         /\ Len(Slice(InOrder(S, R), skip, take)) = SliceLen(Cardinality(S), skip, take)
         /\ InPlace(Slice(InOrder(S, R), skip, take), S, R, skip)
<1> DEFINE p == Slice(InOrder(S, R), skip, take)
<1>1. PICK n, s : n = Cardinality(S) /\ s = InOrder(S, R)  OBVIOUS
<1>2. n \in Nat /\ s \in [1 .. n -> S]  BY <1>1, InOrderLists, FS_CardinalityType DEF Lists
<1>3. \A k \in 1 .. n : Cardinality(Earlier(S, R, s[k])) = k - 1  BY <1>1, InOrderLists, ListPlaces
<1>4. /\ p \in Seq(S)
      /\ Len(p) = SliceLen(n, skip, take)
      /\ \A i \in 1 .. Len(p) : skip + i \in 1 .. n /\ p[i] = s[skip + i]
  <2>1. p = Slice(s, skip, take)  BY <1>1
  <2>2. s \in Seq(S)  BY <1>2, SeqDef
  <2>3. n = Len(s)  BY <1>2, <2>2, LenProperties
  <2> QED  BY <2>1, <2>2, <2>3, SliceParts
<1>6. ASSUME NEW i \in 1 .. Len(p)
      PROVE  p[i] \in S /\ Cardinality(Earlier(S, R, p[i])) = skip + i - 1
  <2>1. PICK k : k = skip + i  OBVIOUS
  <2>2. k \in 1 .. n /\ p[i] = s[k]  BY <1>4, <2>1
  <2>3. Cardinality(Earlier(S, R, s[k])) = k - 1  BY <1>3, <2>2
  <2> QED  BY <1>2, <2>1, <2>2, <2>3
<1> QED  BY <1>1, <1>4, <1>6 DEF InPlace

\* A row of the answer.
ListRows == [order : Orders, summary : {None, "OUT", "PARTIAL", "ENOUGH"}, overdue : BOOLEAN]

\* The shelf says one of four things of an order.
LEMMA SummaryType == ASSUME NEW o PROVE Summary(o) \in {None, "OUT", "PARTIAL", "ENOUGH"}
<1>1. PICK severity : severity = <<"OUT", "PARTIAL", "ENOUGH">>  OBVIOUS
<1>2. PICK found : found = {i \in DOMAIN severity : severity[i] \in {StockCheck(o, g) : g \in Checkable(o)}}
  OBVIOUS
<1>3. Summary(o) = IF found = {} THEN None ELSE severity[CHOOSE i \in found : \A j \in found : i <= j]
  BY <1>1, <1>2 DEF Summary
<1>4. DOMAIN severity = 1 .. 3 /\ found \subseteq 1 .. 3  BY <1>1, <1>2
<1>5. \A i \in 1 .. 3 : severity[i] \in {"OUT", "PARTIAL", "ENOUGH"}
  <2>1. \A i \in 1 .. 3 : i = 1 \/ i = 2 \/ i = 3  OBVIOUS
  <2>2. severity[1] = "OUT" /\ severity[2] = "PARTIAL" /\ severity[3] = "ENOUGH"  BY <1>1
  <2> QED  BY <2>1, <2>2
<1>6. found # {} => \E i \in found : \A j \in found : i <= j
  <2>1. CASE 1 \in found  BY <1>4, <2>1
  <2>2. CASE 1 \notin found /\ 2 \in found  BY <1>4, <2>2
  <2>3. CASE 1 \notin found /\ 2 \notin found
    <3>1. \A i \in found : i = 3  BY <1>4, <2>3
    <3> QED  BY <3>1
  <2> QED  BY <2>1, <2>2, <2>3
<1>7. found # {} => (CHOOSE i \in found : \A j \in found : i <= j) \in found  BY <1>6
<1> QED  BY <1>3, <1>4, <1>5, <1>7

\* The flag of a row is the filter of the list of late pickups.
LEMMA OverdueSame ==
  ASSUME BookOK, NEW o \in Orders
  PROVE  IsPickupOverdue(o) = PickupOverdueWhere(o) /\ IsPickupOverdue(o) \in BOOLEAN
<1>1. book[o].due # None => book[o].due \in Int  BY OrderListAssumption DEF BookOK
<1>2. Today \in Int  BY OrderListAssumption
<1>3. IsPickupOverdue(o) <=> PickupOverdueWhere(o)
  BY <1>1, <1>2 DEF IsPickupOverdue, PickupOverdueWhere
<1>4. IsPickupOverdue(o) \in BOOLEAN
  <2>1. PICK late : late = (Today > book[o].due)  OBVIOUS
  <2>2. late \in BOOLEAN  BY <2>1
  <2>3. IsPickupOverdue(o) = FALSE \/ IsPickupOverdue(o) = late  BY <2>1 DEF IsPickupOverdue
  <2> QED  BY <2>2, <2>3
<1>5. PickupOverdueWhere(o) \in BOOLEAN  BY DEF PickupOverdueWhere
<1> QED  BY <1>3, <1>4, <1>5

\* The fields of a row.
LEMMA ListRowFields ==
  ASSUME NEW o, NEW summary
  PROVE  /\ ListRow(o, summary).order = o /\ ListRow(o, summary).summary = summary
         /\ ListRow(o, summary).overdue = IsPickupOverdue(o)
<1>1. PICK late : late = IsPickupOverdue(o)  OBVIOUS
<1>2. ListRow(o, summary) = [order |-> o, summary |-> summary, overdue |-> late]
  BY <1>1 DEF ListRow
<1>3. /\ ListRow(o, summary).order = o /\ ListRow(o, summary).summary = summary
      /\ ListRow(o, summary).overdue = late
  BY <1>2
<1> QED  BY <1>1, <1>3

\* A row of the list has its type.
LEMMA RowTyped ==
  ASSUME BookOK, NEW o \in Orders, NEW summary \in {None, "OUT", "PARTIAL", "ENOUGH"}
  PROVE  ListRow(o, summary) \in ListRows
<1>1. PICK late : late = IsPickupOverdue(o)  OBVIOUS
<1>2. ListRow(o, summary) = [order |-> o, summary |-> summary, overdue |-> late]
  BY <1>1 DEF ListRow
<1>3. late \in BOOLEAN  BY <1>1, OverdueSame
<1> QED  BY <1>2, <1>3 DEF ListRows

\* A row is of an order of the list, at its place, with what is true of it.
RowFits(q, row, nth) ==
  /\ row.order \in Matched(q) /\ Cardinality(Before(q, row.order)) = nth
  /\ row.summary = Summary(row.order) /\ row.overdue = PickupOverdueWhere(row.order)

\* The rows of a page, one for each order of it.
LEMMA RowsOfPage ==
  ASSUME BookOK, NEW s \in Seq(Orders)
  PROVE  /\ RowsOf(s) \in Seq(ListRows) /\ Len(RowsOf(s)) = Len(s)
         /\ \A i \in 1 .. Len(s) : RowsOf(s)[i] = ListRow(s[i], Summary(s[i]))
         /\ \A i \in 1 .. Len(s) : RowsOf(s)[i].order = s[i]
<1>1. PICK n : n = Len(s)  OBVIOUS
<1>2. n \in Nat /\ DOMAIN s = 1 .. n /\ \A i \in 1 .. n : s[i] \in Orders  BY <1>1, LenProperties
<1>3. PICK t : t = RowsOf(s)  OBVIOUS
<1>4. t = [i \in 1 .. n |-> ListRow(s[i], Summary(s[i]))]  BY <1>2, <1>3 DEF RowsOf
<1>5. DOMAIN t = 1 .. n /\ \A i \in 1 .. n : t[i] = ListRow(s[i], Summary(s[i]))  BY <1>4
<1>6. \A i \in 1 .. n : t[i] \in ListRows  BY <1>2, <1>5, RowTyped, SummaryType
<1>7. t \in [1 .. n -> ListRows]  BY <1>4, <1>6
<1>8. t \in Seq(ListRows)  BY <1>2, <1>7, SeqDef
<1>9. Len(t) = n  BY <1>2, <1>5, <1>8, LenProperties
<1>10. \A i \in 1 .. n : t[i].order = s[i]  BY <1>5, ListRowFields
<1> QED  BY <1>1, <1>3, <1>5, <1>8, <1>9, <1>10

\* What is skipped is a number.
LEMMA SkipIsNat ==
  ASSUME NEW q \in Queries
  PROVE  SkipFor(q) \in Nat /\ q.limit \in Nat \ {0} /\ q.page \in Nat \ {0}
<1>1. q.page \in Nat \ {0} /\ q.limit \in Nat \ {0}  BY OrderListAssumption
<1>2. \A a, c \in Nat : a * c \in Nat  OBVIOUS
<1>3. q.page - 1 \in Nat /\ q.limit \in Nat  BY <1>1
<1> QED  BY <1>1, <1>2, <1>3 DEF SkipFor

\* A page cut out of the whole list in order.
LEMMA PageCut ==
  ASSUME BookOK, NEW q \in Queries, NEW rows,
         rows = RowsOf(Slice(InOrder(Matched(q), Comparing(q.sort)), SkipFor(q), q.limit))
  PROVE  /\ rows \in Seq(ListRows) /\ Len(rows) <= q.limit
         /\ Len(rows) = q.limit \/ SkipFor(q) + Len(rows) >= Cardinality(Matched(q))
         /\ \A i \in 1 .. Len(rows) : RowFits(q, rows[i], SkipFor(q) + i - 1)
<1>1. PICK S, R : S = Matched(q) /\ R = Comparing(q.sort)  OBVIOUS
<1>2. IsFiniteSet(S) /\ S \subseteq Orders /\ StrictOrder(S, R) /\ Cardinality(S) \in Nat
  BY <1>1, MatchedFinite, ComparingOrders
<1>3. PICK skip, take : skip = SkipFor(q) /\ take = q.limit  OBVIOUS
<1>4. skip \in Nat /\ take \in Nat  BY <1>3, SkipIsNat
<1>5. PICK p : p = Slice(InOrder(S, R), skip, take)  OBVIOUS
<1>6. /\ p \in Seq(S) /\ Len(p) \in Nat
      /\ Len(p) = SliceLen(Cardinality(S), skip, take)
      /\ \A i \in 1 .. Len(p) : p[i] \in S /\ Cardinality(Earlier(S, R, p[i])) = skip + i - 1
  <2>1. IsFiniteSet(S) /\ StrictOrder(S, R)  BY <1>2
  <2>2. p \in Seq(S) /\ Len(p) = SliceLen(Cardinality(S), skip, take) /\ InPlace(p, S, R, skip)
    BY <1>4, <1>5, <2>1, SliceInOrder
  <2> QED  BY <2>2, LenProperties DEF InPlace
<1>7. p \in Seq(Orders)  BY <1>2, <1>6, SeqMonotonic
<1>8. rows = RowsOf(p)  BY <1>1, <1>3, <1>5
<1>9. /\ rows \in Seq(ListRows) /\ Len(rows) = Len(p)
      /\ \A i \in 1 .. Len(p) : rows[i] = ListRow(p[i], Summary(p[i]))
  BY <1>7, <1>8, RowsOfPage
<1>10. ASSUME NEW i \in 1 .. Len(rows) PROVE RowFits(q, rows[i], skip + i - 1)
  <2>1. PICK o : o = p[i]  OBVIOUS
  <2>2. o \in S /\ Cardinality(Earlier(S, R, o)) = skip + i - 1  BY <1>6, <1>9, <2>1
  <2>3. Cardinality(Before(q, o)) = skip + i - 1  BY <1>1, <2>2, BeforeIsEarlier
  <2>4. rows[i] = ListRow(o, Summary(o))  BY <1>9, <2>1
  <2>5. rows[i].order = o /\ rows[i].summary = Summary(o) /\ rows[i].overdue = IsPickupOverdue(o)
    BY <2>4, ListRowFields
  <2>6. IsPickupOverdue(o) = PickupOverdueWhere(o)  BY <1>2, <2>2, OverdueSame
  <2> QED  BY <1>1, <2>2, <2>3, <2>5, <2>6 DEF RowFits
<1>11. /\ Len(rows) <= take
       /\ Len(rows) = take \/ skip + Len(rows) >= Cardinality(S)
  BY <1>2, <1>4, <1>6, <1>9 DEF SliceLen
<1> QED  BY <1>1, <1>3, <1>9, <1>10, <1>11

------------------------------------------------------------------------------
(* The buckets *)

\* The orders of the buckets before the k-th.
Ahead(q, k) == {o \in ListWhere(q) : Rank("priority", o) < k}

\* A bucket adds its orders to those ahead of the next.
LEMMA AheadCounted ==
  ASSUME BookOK, NEW q, NEW k \in 1 .. 3
  PROVE  /\ IsFiniteSet(Ahead(q, k)) /\ Cardinality(Ahead(q, k)) \in Nat
         /\ IsFiniteSet(Bucket(q, k)) /\ Cardinality(Bucket(q, k)) \in Nat
         /\ Cardinality(Ahead(q, k + 1)) = Cardinality(Ahead(q, k)) + Cardinality(Bucket(q, k))
<1>1. PICK A, B, C : A = Ahead(q, k) /\ B = Bucket(q, k) /\ C = Ahead(q, k + 1)  OBVIOUS
<1>2. ListWhere(q) \subseteq Orders  BY MatchedFinite
<1>3. \A o \in ListWhere(q) : /\ Rank("priority", o) \in 1 .. 3
                              /\ book[o].priority = Buckets[k] <=> Rank("priority", o) = k
  BY <1>2, Ranks
<1>4. A \cap B = {} /\ C = A \cup B  BY <1>1, <1>3 DEF Ahead, Bucket
<1>5. A \in SUBSET Orders /\ B \in SUBSET Orders  BY <1>1, <1>2 DEF Ahead, Bucket
<1>6. IsFiniteSet(A) /\ IsFiniteSet(B)  BY <1>5, OrderListAssumption, FS_Subset
<1>7. Cardinality(A) \in Nat /\ Cardinality(B) \in Nat  BY <1>6, FS_CardinalityType
<1>8. Cardinality(C) = Cardinality(A) + Cardinality(B)
  <2>1. Cardinality(A \cup B) = Cardinality(A) + Cardinality(B) - Cardinality(A \cap B)
    BY <1>6, FS_Union
  <2>2. Cardinality(A \cap B) = 0  BY <1>4, FS_EmptySet
  <2> QED  BY <1>4, <1>7, <2>1, <2>2
<1> QED  BY <1>1, <1>6, <1>7, <1>8

\* Nothing is ahead of the first bucket, everything ahead of one after the last.
LEMMA FirstAndLast ==
  ASSUME BookOK, NEW q, ~ByStock(q)
  PROVE  Cardinality(Ahead(q, 1)) = 0 /\ Ahead(q, 4) = Matched(q)
<1>1. \A o \in ListWhere(q) : Rank("priority", o) \in 1 .. 3  BY MatchedFinite, Ranks
<1>2. Ahead(q, 1) = {}  BY <1>1 DEF Ahead
<1>3. Ahead(q, 4) = Matched(q)  BY <1>1 DEF Ahead, Matched
<1> QED  BY <1>2, <1>3, FS_EmptySet

\* The place of an order of a bucket: behind the buckets before it.
LEMMA BucketPlaces ==
  ASSUME BookOK, NEW q, ~ByStock(q), q.sort = "priority", NEW k \in 1 .. 3, NEW o \in Bucket(q, k)
  PROVE  /\ o \in Matched(q) /\ Rank("priority", o) = k
         /\ Cardinality(Before(q, o))
              = Cardinality(Ahead(q, k)) + Cardinality(Earlier(Bucket(q, k), NewestFirst, o))
<1>1. ListWhere(q) \subseteq Orders /\ Bucket(q, k) \subseteq ListWhere(q)  BY MatchedFinite DEF Bucket
<1>2. \A p \in ListWhere(q) : /\ Rank("priority", p) \in 1 .. 3
                              /\ p \in Bucket(q, k) <=> Rank("priority", p) = k
  BY <1>1, Ranks DEF Bucket
<1>3. PICK A, E, B : /\ A = Ahead(q, k) /\ E = Earlier(Bucket(q, k), NewestFirst, o)
                     /\ B = Before(q, o)
  OBVIOUS
<1>4. \A p \in ListWhere(q) : p \in E <=> Rank("priority", p) = k /\ p > o
  BY <1>1, <1>2, <1>3 DEF Earlier, NewestFirst
<1>5. \A p \in ListWhere(q) : p \in A <=> Rank("priority", p) < k  BY <1>3 DEF Ahead
<1>6. \A p \in ListWhere(q) : p \in B <=> CompareFor("priority", p, o)  BY <1>3 DEF Before
<1>7. A \subseteq ListWhere(q) /\ E \subseteq ListWhere(q) /\ B \subseteq ListWhere(q)
  BY <1>1, <1>3 DEF Ahead, Earlier, Before
<1>8. Rank("priority", o) = k  BY <1>1, <1>2
<1>9. \A p \in ListWhere(q) : CompareFor("priority", p, o) <=>
        Rank("priority", p) < k \/ (Rank("priority", p) = k /\ p > o)
  BY <1>8 DEF CompareFor
<1>10. B = A \cup E  BY <1>4, <1>5, <1>6, <1>7, <1>9
<1>11. A \cap E = {}  BY <1>2, <1>4, <1>5, <1>7
<1>12. IsFiniteSet(A) /\ IsFiniteSet(E)
  <2>1. A \in SUBSET Orders /\ E \in SUBSET Orders  BY <1>1, <1>7
  <2> QED  BY <2>1, OrderListAssumption, FS_Subset
<1>13. Cardinality(B) = Cardinality(A) + Cardinality(E)
  <2>1. Cardinality(A \cup E) = Cardinality(A) + Cardinality(E) - Cardinality(A \cap E)
    BY <1>12, FS_Union
  <2>2. Cardinality(A \cap E) = 0  BY <1>11, FS_EmptySet
  <2>3. Cardinality(A) \in Nat /\ Cardinality(E) \in Nat  BY <1>12, FS_CardinalityType
  <2> QED  BY <1>10, <2>1, <2>2, <2>3
<1>14. o \in Matched(q)  BY <1>1 DEF Matched
<1> QED  BY <1>3, <1>8, <1>13, <1>14

\* What a page takes from a bucket.
BucketRows(q, k, skip, take) == RowsOf(Slice(InOrder(Bucket(q, k), NewestFirst), skip, take))
RowsOfBucket(rows, q, k, skip) ==
  \A i \in 1 .. Len(rows) : /\ Rank("priority", rows[i].order) = k
                             /\ RowFits(q, rows[i], Cardinality(Ahead(q, k)) + skip + i - 1)

\* A page cut out of a bucket.
LEMMA BucketCut ==
  ASSUME BookOK, NEW q, ~ByStock(q), q.sort = "priority", NEW k \in 1 .. 3,
         NEW skip \in Nat, NEW take \in Nat
  PROVE  /\ BucketRows(q, k, skip, take) \in Seq(ListRows)
         /\ Len(BucketRows(q, k, skip, take)) = SliceLen(Cardinality(Bucket(q, k)), skip, take)
         /\ RowsOfBucket(BucketRows(q, k, skip, take), q, k, skip)
<1>1. PICK S, R : S = Bucket(q, k) /\ R = NewestFirst  OBVIOUS
<1>2. IsFiniteSet(S) /\ S \in SUBSET Orders /\ Cardinality(Ahead(q, k)) \in Nat
  BY <1>1, AheadCounted, MatchedFinite DEF Bucket
<1>3. StrictOrder(S, R)  BY <1>1, <1>2, NewestOrders
<1>4. PICK p : p = Slice(InOrder(S, R), skip, take)  OBVIOUS
<1>5. p \in Seq(S) /\ Len(p) = SliceLen(Cardinality(S), skip, take) /\ InPlace(p, S, R, skip)
  BY <1>2, <1>3, <1>4, SliceInOrder
<1>6. \A i \in 1 .. Len(p) : p[i] \in S /\ Cardinality(Earlier(S, R, p[i])) = skip + i - 1
  BY <1>5 DEF InPlace
<1>7. p \in Seq(Orders)  BY <1>2, <1>5, SeqMonotonic
<1>8. PICK rows : rows = RowsOf(p)  OBVIOUS
<1>9. /\ rows \in Seq(ListRows) /\ Len(rows) = Len(p)
      /\ \A i \in 1 .. Len(p) : rows[i] = ListRow(p[i], Summary(p[i]))
  BY <1>7, <1>8, RowsOfPage
<1>10. ASSUME NEW i \in 1 .. Len(rows)
       PROVE  /\ Rank("priority", rows[i].order) = k
              /\ RowFits(q, rows[i], Cardinality(Ahead(q, k)) + skip + i - 1)
  <2>1. PICK o, a : o = p[i] /\ a = Cardinality(Ahead(q, k))  OBVIOUS
  <2>2. o \in S /\ Cardinality(Earlier(S, R, o)) = skip + i - 1  BY <1>6, <1>9, <2>1
  <2>3. o \in Matched(q) /\ Rank("priority", o) = k /\ Cardinality(Before(q, o)) = a + (skip + i - 1)
    BY <1>1, <2>1, <2>2, BucketPlaces
  <2>4. rows[i] = ListRow(o, Summary(o))  BY <1>9, <2>1
  <2>5. rows[i].order = o /\ rows[i].summary = Summary(o) /\ rows[i].overdue = IsPickupOverdue(o)
    BY <2>4, ListRowFields
  <2>6. IsPickupOverdue(o) = PickupOverdueWhere(o)  BY <1>2, <2>2, OverdueSame
  <2>7. a + (skip + i - 1) = a + skip + i - 1  BY <1>2, <2>1
  <2> QED  BY <2>1, <2>3, <2>5, <2>6, <2>7 DEF RowFits
<1>11. rows = BucketRows(q, k, skip, take)  BY <1>1, <1>4, <1>8 DEF BucketRows
<1> QED  BY <1>1, <1>5, <1>9, <1>10, <1>11 DEF RowsOfBucket

------------------------------------------------------------------------------
(* A page on its way *)

ListFields == {"op", "at", "q", "total", "touched", "rows", "bucket", "skip", "take"}

ListTypes(x) ==
  /\ DOMAIN x = ListFields /\ x.op = "list"
  /\ x.at \in {"page", "candidates", "found", "count", "bucket", "answered"}
  /\ x.q \in Queries /\ x.touched \subseteq Orders /\ x.rows \in Seq(ListRows)
  /\ x.skip \in Nat /\ x.take \in Nat /\ x.bucket \in 1 .. 4

\* Which of the three ways a page takes, and how much of it is still missing.
ListWay(x) ==
  /\ x.at \in {"page", "candidates"} => /\ x.rows = << >>
                                        /\ x.skip = SkipFor(x.q) /\ x.take = x.q.limit
  /\ x.at = "page" => ~ByStock(x.q) /\ x.q.sort # "priority"
  /\ x.at = "candidates" => ByStock(x.q)
  /\ x.at \in {"count", "bucket"} => /\ ~ByStock(x.q) /\ x.q.sort = "priority" /\ x.bucket \in 1 .. 3
                                     /\ x.take # 0 /\ x.take + Len(x.rows) = x.q.limit
  /\ Len(x.rows) <= x.q.limit

\* An order that shows twice has changed; one that did not is of a bucket that is done.
ListOnce(x) ==
  /\ \A i, j \in 1 .. Len(x.rows) :
       i # j /\ x.rows[i].order = x.rows[j].order => x.rows[i].order \in x.touched
  /\ x.at \in {"count", "bucket"} =>
       \A i \in 1 .. Len(x.rows) : \/ x.rows[i].order \in x.touched
                                   \/ Rank("priority", x.rows[i].order) < x.bucket

\* Undisturbed, the rows are those of the page so far, and what is to be skipped is what
\* no bucket has skipped yet.
ListWhole(x) ==
  x.touched = {} =>
    /\ x.at # "candidates" => x.total = Cardinality(Matched(x.q))
    /\ \A i \in 1 .. Len(x.rows) : RowFits(x.q, x.rows[i], SkipFor(x.q) + i - 1)
    /\ x.at \in {"count", "bucket"} =>
         /\ SkipFor(x.q) + Len(x.rows) = Cardinality(Ahead(x.q, x.bucket)) + x.skip
         /\ x.skip = 0 \/ Len(x.rows) = 0
    /\ x.at = "bucket" => x.skip < Cardinality(Bucket(x.q, x.bucket))
    /\ x.at \in {"found", "answered"} =>
         Len(x.rows) = x.q.limit \/ SkipFor(x.q) + Len(x.rows) >= Cardinality(Matched(x.q))

ListOK(x) == ListTypes(x) /\ ListWay(x) /\ ListOnce(x) /\ ListWhole(x)

\* Rows at different places are of different orders.
LEMMA RowsApart ==
  ASSUME NEW q, NEW rows, NEW a \in Int, NEW i \in Nat, NEW j \in Nat,
         RowFits(q, rows[i], a + i - 1), RowFits(q, rows[j], a + j - 1),
         rows[i].order = rows[j].order
  PROVE  i = j
<1>1. PICK m, n : m = Cardinality(Before(q, rows[i].order)) /\ n = Cardinality(Before(q, rows[j].order))
  OBVIOUS
<1>2. m = a + i - 1 /\ n = a + j - 1  BY <1>1 DEF RowFits
<1>3. m = n  BY <1>1
<1> QED  BY <1>2, <1>3

\* A page in one piece.
LEMMA WholePage ==
  ASSUME BookOK, NEW x, ListOK(x), NEW y, ListTypes(y), y.q = x.q,
         y.at \in {"found", "answered"},
         y.rows = RowsOf(Slice(InOrder(Matched(x.q), Comparing(x.q.sort)), SkipFor(x.q), x.q.limit)),
         y.total = Cardinality(Matched(x.q))
  PROVE  ListOK(y)
<1>1. PICK q, rows : q = x.q /\ rows = y.rows  OBVIOUS
<1>2. q \in Queries  BY <1>1 DEF ListOK, ListTypes
<1>3. rows = RowsOf(Slice(InOrder(Matched(q), Comparing(q.sort)), SkipFor(q), q.limit))  BY <1>1
<1>4. /\ rows \in Seq(ListRows) /\ Len(rows) <= q.limit
      /\ Len(rows) = q.limit \/ SkipFor(q) + Len(rows) >= Cardinality(Matched(q))
      /\ \A i \in 1 .. Len(rows) : RowFits(q, rows[i], SkipFor(q) + i - 1)
  BY <1>2, <1>3, PageCut
<1>5. SkipFor(q) \in Int /\ Len(rows) \in Nat  BY <1>2, <1>4, SkipIsNat, LenProperties
<1>6. \A i, j \in 1 .. Len(rows) : rows[i].order = rows[j].order => i = j
  <2> TAKE i, j \in 1 .. Len(rows)
  <2>1. i \in Nat /\ j \in Nat  BY <1>5
  <2> QED  BY ZenonT(60), <1>4, <1>5, <2>1, RowsApart
<1>7. ListOnce(y)  BY <1>1, <1>6 DEF ListOnce
<1>8. ListWay(y)  BY <1>1, <1>4 DEF ListWay
<1>9. ListWhole(y)  BY <1>1, <1>4 DEF ListWhole
<1> QED  BY <1>7, <1>8, <1>9 DEF ListOK

\* The rows are read once more: they keep their place.
LEMMA PageAgain ==
  ASSUME BookOK, NEW x, ListOK(x), x.at = "found", NEW y, DOMAIN y = ListFields, y.op = "list",
         y.q = x.q, y.touched = x.touched, y.total = x.total, y.skip = x.skip, y.take = x.take,
         y.bucket = x.bucket, y.at = "answered",
         y.rows = [i \in DOMAIN x.rows |-> ListRow(x.rows[i].order, x.rows[i].summary)]
  PROVE  ListOK(y)
<1>1. PICK s, t, n : s = x.rows /\ t = y.rows /\ n = Len(s)  OBVIOUS
<1>2. s \in Seq(ListRows)  BY <1>1 DEF ListOK, ListTypes
<1>3. n \in Nat /\ DOMAIN s = 1 .. n /\ \A i \in 1 .. n : s[i] \in ListRows
  BY <1>1, <1>2, LenProperties
<1>4. t = [i \in 1 .. n |-> ListRow(s[i].order, s[i].summary)]  BY <1>1, <1>3
<1>5. \A i \in 1 .. n : t[i] = ListRow(s[i].order, s[i].summary)  BY <1>4
<1>6. \A i \in 1 .. n : s[i].order \in Orders /\ s[i].summary \in {None, "OUT", "PARTIAL", "ENOUGH"}
  BY <1>3 DEF ListRows
<1>7. \A i \in 1 .. n : t[i] \in ListRows  BY <1>5, <1>6, RowTyped
<1>8. t \in [1 .. n -> ListRows]  BY <1>4, <1>7
<1>9. t \in Seq(ListRows)  BY <1>3, <1>8, SeqDef
<1>10. Len(t) = n
  <2>1. DOMAIN t = 1 .. n  BY <1>4
  <2> QED  BY <1>3, <1>9, <2>1, LenProperties
<1>11. \A i \in 1 .. n : /\ t[i].order = s[i].order /\ t[i].summary = s[i].summary
                         /\ t[i].overdue = IsPickupOverdue(s[i].order)
  BY <1>5, ListRowFields
<1>12. ASSUME NEW q, NEW i \in 1 .. n, NEW m, RowFits(q, s[i], m) PROVE RowFits(q, t[i], m)
  <2>1. IsPickupOverdue(s[i].order) = PickupOverdueWhere(s[i].order)  BY <1>6, OverdueSame
  <2>2. t[i].order = s[i].order /\ t[i].summary = s[i].summary
        /\ t[i].overdue = PickupOverdueWhere(s[i].order)
    BY <1>11, <2>1
  <2> QED  BY <1>12, <2>2 DEF RowFits
<1>13. ListTypes(y)  BY <1>1, <1>9 DEF ListOK, ListTypes
<1>14. ListWay(y)  BY <1>1, <1>10 DEF ListOK, ListWay
<1>15. ListOnce(y)  BY <1>1, <1>10, <1>11 DEF ListOK, ListOnce
<1>16. ListWhole(y)
  <2>1. SUFFICES ASSUME y.touched = {} PROVE ListWhole(y)  BY DEF ListWhole
  <2>2. \A i \in 1 .. n : RowFits(x.q, s[i], SkipFor(x.q) + i - 1)  BY <1>1, <2>1 DEF ListOK, ListWhole
  <2>3. \A i \in 1 .. n : RowFits(x.q, t[i], SkipFor(x.q) + i - 1)  BY <1>12, <2>2
  <2>4. /\ x.total = Cardinality(Matched(x.q))
        /\ n = x.q.limit \/ SkipFor(x.q) + n >= Cardinality(Matched(x.q))
    BY <1>1, <2>1 DEF ListOK, ListWhole
  <2> QED  BY <1>1, <1>10, <2>3, <2>4 DEF ListWhole
<1> QED  BY <1>13, <1>14, <1>15, <1>16 DEF ListOK

\* A bucket is counted.
LEMMA BucketCounted ==
  ASSUME BookOK, NEW x, ListOK(x), x.at = "count", NEW count, count = Cardinality(Bucket(x.q, x.bucket)),
         NEW y, DOMAIN y = ListFields, y.op = "list",
         y.q = x.q, y.touched = x.touched, y.total = x.total, y.take = x.take, y.rows = x.rows,
         \/ x.skip < count /\ y.at = "bucket" /\ y.skip = x.skip /\ y.bucket = x.bucket
         \/ ~(x.skip < count) /\ x.bucket = 3 /\ y.at = "answered" /\ y.skip = x.skip /\ y.bucket = x.bucket
         \/ ~(x.skip < count) /\ x.bucket # 3 /\ y.at = "count" /\ y.skip = x.skip - count
            /\ y.bucket = x.bucket + 1
  PROVE  ListOK(y)
<1>1. ListTypes(x) /\ ListWay(x) /\ ListOnce(x) /\ ListWhole(x)  BY DEF ListOK
<1>2. PICK q, k : q = x.q /\ k = x.bucket  OBVIOUS
<1>3. /\ q \in Queries /\ ~ByStock(q) /\ q.sort = "priority" /\ k \in 1 .. 3
      /\ x.take # 0 /\ x.take + Len(x.rows) = q.limit /\ x.take \in Nat /\ x.skip \in Nat
      /\ x.rows \in Seq(ListRows) /\ x.touched \subseteq Orders /\ Len(x.rows) <= q.limit
  BY <1>1, <1>2 DEF ListTypes, ListWay
<1>4. PICK a, b : a = Cardinality(Ahead(q, k)) /\ b = Cardinality(Ahead(q, k + 1))  OBVIOUS
<1>5. a \in Nat /\ count \in Nat /\ b = a + count  BY <1>2, <1>3, <1>4, AheadCounted
<1>6. ListTypes(y)
  <2>1. y.skip \in Nat /\ y.bucket \in 1 .. 4  BY <1>2, <1>3, <1>5
  <2> QED  BY <1>2, <1>3, <2>1 DEF ListTypes
<1>7. ListWay(y)
  <2>1. y.at \in {"count", "bucket"} => y.bucket \in 1 .. 3  BY <1>2, <1>3
  <2>2. y.at \notin {"page", "candidates"}  OBVIOUS
  <2> QED  BY <1>2, <1>3, <2>1, <2>2 DEF ListWay
<1>8. ListOnce(y)
  <2>1. \A i \in 1 .. Len(x.rows) : \/ x.rows[i].order \in x.touched
                                    \/ Rank("priority", x.rows[i].order) < k
    BY <1>1, <1>2 DEF ListOnce
  <2>2. \A i \in 1 .. Len(x.rows) : Rank("priority", x.rows[i].order) \in Int
    <3>1. \A i \in 1 .. Len(x.rows) : x.rows[i] \in ListRows  BY <1>3, LenProperties
    <3>2. \A i \in 1 .. Len(x.rows) : x.rows[i].order \in Orders  BY <3>1 DEF ListRows
    <3> QED  BY <3>2, Ranks
  <2>3. y.bucket \in Int /\ k <= y.bucket  BY <1>2, <1>3
  <2>4. \A i \in 1 .. Len(x.rows) : \/ x.rows[i].order \in x.touched
                                    \/ Rank("priority", x.rows[i].order) < y.bucket
    BY <1>3, <2>1, <2>2, <2>3
  <2>5. \A i, j \in 1 .. Len(x.rows) :
          i # j /\ x.rows[i].order = x.rows[j].order => x.rows[i].order \in x.touched
    BY <1>1 DEF ListOnce
  <2> QED  BY <2>4, <2>5 DEF ListOnce
<1>9. ListWhole(y)
  <2>1. SUFFICES ASSUME x.touched = {} PROVE ListWhole(y)  BY DEF ListWhole
  <2>2. /\ x.total = Cardinality(Matched(q))
        /\ \A i \in 1 .. Len(x.rows) : RowFits(q, x.rows[i], SkipFor(q) + i - 1)
        /\ SkipFor(q) + Len(x.rows) = a + x.skip
        /\ x.skip = 0 \/ Len(x.rows) = 0
    BY <1>1, <1>2, <1>4, <2>1 DEF ListWhole
  <2>3. SkipFor(q) \in Nat /\ Len(x.rows) \in Nat  BY <1>3, SkipIsNat, LenProperties
  <2>4. CASE y.at = "bucket"
    <3>1. y.skip = x.skip /\ y.bucket = k /\ x.skip < count  BY <1>2, <2>4
    <3> QED  BY <1>2, <1>4, <2>2, <2>4, <3>1 DEF ListWhole
  <2>5. CASE y.at = "answered"
    <3>1. k = 3 /\ ~(x.skip < count)  BY <1>2, <2>5
    <3>2. Ahead(q, 4) = Matched(q)  BY <1>3, FirstAndLast
    <3>3. k + 1 = 4  BY <3>1
    <3>4. b = Cardinality(Matched(q))  BY <1>4, <3>2, <3>3
    <3>5. SkipFor(q) + Len(x.rows) >= b
      <4>1. PICK f, n, u : f = SkipFor(q) /\ n = Len(x.rows) /\ u = x.skip  OBVIOUS
      <4>2. f \in Nat /\ n \in Nat /\ u \in Nat /\ f + n = a + u /\ ~(u < count)
        BY <1>3, <2>2, <2>3, <3>1, <4>1
      <4>3. f + n >= b  BY <1>5, <4>2
      <4> QED  BY <4>1, <4>3
    <3> QED  BY <1>2, <2>2, <2>5, <3>4, <3>5 DEF ListWhole
  <2>6. CASE y.at = "count"
    <3>1. y.skip = x.skip - count /\ y.bucket = k + 1 /\ ~(x.skip < count)  BY <1>2, <2>6
    <3>2. SkipFor(q) + Len(x.rows) = b + y.skip  BY <1>3, <1>5, <2>2, <2>3, <3>1
    <3>3. y.skip = 0 \/ Len(x.rows) = 0  BY <1>3, <1>5, <2>2, <3>1
    <3> QED  BY <1>2, <1>4, <2>2, <2>6, <3>1, <3>2, <3>3 DEF ListWhole
  <2> QED  BY <2>4, <2>5, <2>6
<1> QED  BY <1>6, <1>7, <1>8, <1>9 DEF ListOK

\* The page takes what it needs from a bucket.
LEMMA BucketTaken ==
  ASSUME BookOK, NEW x, ListOK(x), x.at = "bucket", NEW more,
         more = BucketRows(x.q, x.bucket, x.skip, x.take),
         NEW y, DOMAIN y = ListFields, y.op = "list",
         y.q = x.q, y.touched = x.touched, y.total = x.total, y.take = x.take - Len(more),
         y.rows = x.rows \o more, y.skip = 0, y.bucket = x.bucket + 1,
         y.at = IF y.take = 0 \/ x.bucket = 3 THEN "answered" ELSE "count"
  PROVE  ListOK(y)
<1>1. ListTypes(x) /\ ListWay(x) /\ ListOnce(x) /\ ListWhole(x)  BY DEF ListOK
<1>2. PICK q, k, s, n, m : q = x.q /\ k = x.bucket /\ s = x.rows /\ n = Len(s) /\ m = Len(more)  OBVIOUS
<1>3. /\ q \in Queries /\ ~ByStock(q) /\ q.sort = "priority" /\ k \in 1 .. 3
      /\ x.take # 0 /\ x.take + n = q.limit /\ x.take \in Nat /\ x.skip \in Nat
      /\ s \in Seq(ListRows) /\ x.touched \subseteq Orders /\ n <= q.limit
  BY <1>1, <1>2 DEF ListTypes, ListWay
<1>4. PICK a, b, count : a = Cardinality(Ahead(q, k)) /\ b = Cardinality(Ahead(q, k + 1))
                         /\ count = Cardinality(Bucket(q, k))
  OBVIOUS
<1>5. a \in Nat /\ count \in Nat /\ b = a + count  BY <1>3, <1>4, AheadCounted
<1>6. more = BucketRows(q, k, x.skip, x.take)  BY <1>2
<1>7. /\ more \in Seq(ListRows) /\ m = SliceLen(count, x.skip, x.take)
      /\ \A i \in 1 .. m : /\ Rank("priority", more[i].order) = k
                           /\ RowFits(q, more[i], a + x.skip + i - 1)
  <2>1. /\ more \in Seq(ListRows) /\ Len(more) = SliceLen(Cardinality(Bucket(q, k)), x.skip, x.take)
        /\ RowsOfBucket(more, q, k, x.skip)
    <3>1. PICK u, v : u = x.skip /\ v = x.take  OBVIOUS
    <3>2. u \in Nat /\ v \in Nat  BY <1>3, <3>1
    <3>3. ~ByStock(q) /\ q.sort = "priority" /\ k \in 1 .. 3  BY <1>3
    <3>4. /\ BucketRows(q, k, u, v) \in Seq(ListRows)
          /\ Len(BucketRows(q, k, u, v)) = SliceLen(Cardinality(Bucket(q, k)), u, v)
          /\ RowsOfBucket(BucketRows(q, k, u, v), q, k, u)
      BY <3>2, <3>3, BucketCut
    <3> QED  BY <1>6, <3>1, <3>4
  <2> QED  BY <1>2, <1>4, <2>1 DEF RowsOfBucket
<1>8. n \in Nat /\ m \in Nat /\ m <= x.take  BY <1>2, <1>3, <1>5, <1>7, LenProperties DEF SliceLen
<1>9. PICK t : t = s \o more  OBVIOUS
<1>10. /\ t \in Seq(ListRows) /\ Len(t) = n + m
       /\ \A i \in 1 .. n + m : t[i] = IF i <= n THEN s[i] ELSE more[i - n]
  <2>1. s \in Seq(ListRows) /\ more \in Seq(ListRows)  BY <1>3, <1>7
  <2>2. /\ s \o more \in Seq(ListRows) /\ Len(s \o more) = Len(s) + Len(more)
        /\ \A i \in 1 .. Len(s) + Len(more) :
             (s \o more)[i] = IF i <= Len(s) THEN s[i] ELSE more[i - Len(s)]
    BY <2>1, ConcatProperties
  <2> QED  BY <1>2, <1>9, <2>2
<1>11. \A i \in 1 .. n : s[i].order \in Orders /\ Rank("priority", s[i].order) \in Int
  <2>1. \A i \in 1 .. n : s[i] \in ListRows  BY <1>2, <1>3, LenProperties
  <2>2. \A i \in 1 .. n : s[i].order \in Orders  BY <2>1 DEF ListRows
  <2> QED  BY <2>2, Ranks
<1>12. y.rows = t /\ y.take = x.take - m /\ y.take \in Nat  BY <1>2, <1>3, <1>8, <1>9
<1>13. ListTypes(y)
  <2>1. y.bucket \in 1 .. 4  BY <1>2, <1>3
  <2> QED  BY <1>2, <1>3, <1>10, <1>12, <2>1 DEF ListTypes
<1>14. ListWay(y)
  <2>1. y.take + Len(t) = q.limit /\ Len(t) <= q.limit
    <3>1. q.limit \in Nat  BY <1>3, SkipIsNat
    <3> QED  BY <1>3, <1>8, <1>10, <1>12, <3>1
  <2>2. y.at = "count" => y.take # 0 /\ y.bucket \in 1 .. 3  BY <1>2, <1>3
  <2>3. y.at \in {"count", "answered"}  OBVIOUS
  <2> QED  BY <1>2, <1>3, <1>12, <2>1, <2>2, <2>3 DEF ListWay
<1>15. \A i \in 1 .. n + m : \/ i \in 1 .. n /\ t[i] = s[i]
                             \/ i - n \in 1 .. m /\ t[i] = more[i - n] /\ ~(i <= n)
  BY <1>8, <1>10
<1>16. ASSUME NEW i \in 1 .. m, NEW j \in 1 .. m, more[i].order = more[j].order PROVE i = j
  <2>1. RowFits(q, more[i], a + x.skip + i - 1) /\ RowFits(q, more[j], a + x.skip + j - 1)  BY <1>7
  <2>2. a + x.skip \in Int /\ i \in Nat /\ j \in Nat  BY <1>3, <1>5, <1>8
  <2> QED  BY <1>16, <2>1, <2>2, RowsApart
<1>17. ListOnce(y)
  <2>1. \A i \in 1 .. n : s[i].order \in x.touched \/ Rank("priority", s[i].order) < k
    BY <1>1, <1>2 DEF ListOnce
  <2>2. \A i, j \in 1 .. n : i # j /\ s[i].order = s[j].order => s[i].order \in x.touched
    BY <1>1, <1>2 DEF ListOnce
  <2>3. \A i \in 1 .. n + m : t[i].order \in x.touched \/ Rank("priority", t[i].order) < k + 1
    BY SMTT(30), <1>3, <1>7, <1>11, <1>15, <2>1
  <2>4. ASSUME NEW i \in 1 .. n, NEW j \in 1 .. m, s[i].order = more[j].order
        PROVE  s[i].order \in x.touched
    <3>1. Rank("priority", s[i].order) = k  BY <1>7, <2>4
    <3> QED  BY <1>3, <2>1, <3>1
  <2>5. ASSUME NEW i \in 1 .. n + m, NEW j \in 1 .. n + m, i # j, t[i].order = t[j].order
        PROVE  t[i].order \in x.touched
    <3>1. CASE i \in 1 .. n /\ t[i] = s[i] /\ j \in 1 .. n /\ t[j] = s[j]  BY <2>2, <2>5, <3>1
    <3>2. CASE i \in 1 .. n /\ t[i] = s[i] /\ j - n \in 1 .. m /\ t[j] = more[j - n]
      BY <2>4, <2>5, <3>2
    <3>3. CASE i - n \in 1 .. m /\ t[i] = more[i - n] /\ j \in 1 .. n /\ t[j] = s[j]
      BY <2>4, <2>5, <3>3
    <3>4. CASE i - n \in 1 .. m /\ t[i] = more[i - n] /\ j - n \in 1 .. m /\ t[j] = more[j - n]
      <4>1. i - n = j - n  BY <1>16, <2>5, <3>4
      <4> QED  BY <1>8, <2>5, <4>1
    <3> QED  BY <1>15, <3>1, <3>2, <3>3, <3>4
  <2> QED  BY ZenonT(60), <1>2, <1>10, <1>12, <2>3, <2>5 DEF ListOnce
<1>18. ListWhole(y)
  <2>1. SUFFICES ASSUME x.touched = {} PROVE ListWhole(y)  BY DEF ListWhole
  <2>2. /\ x.total = Cardinality(Matched(q))
        /\ \A i \in 1 .. n : RowFits(q, s[i], SkipFor(q) + i - 1)
        /\ SkipFor(q) + n = a + x.skip
        /\ x.skip < count
    BY <1>1, <1>2, <1>4, <2>1 DEF ListWhole
  <2>3. SkipFor(q) \in Nat  BY <1>3, SkipIsNat
  <2>4. ASSUME NEW i \in 1 .. n + m PROVE RowFits(q, t[i], SkipFor(q) + i - 1)
    <3>1. CASE i \in 1 .. n /\ t[i] = s[i]  BY <2>2, <3>1
    <3>2. CASE i - n \in 1 .. m /\ t[i] = more[i - n]
      <4>1. RowFits(q, more[i - n], a + x.skip + (i - n) - 1)  BY <1>7, <3>2
      <4>2. a + x.skip + (i - n) - 1 = SkipFor(q) + i - 1  BY <1>3, <1>5, <1>8, <2>2, <2>3
      <4> QED  BY <3>2, <4>1, <4>2
    <3> QED  BY <1>15, <3>1, <3>2
  <2>5. m = count - x.skip \/ (m = x.take /\ y.take = 0)
    BY <1>3, <1>5, <1>7, <1>12, <2>2 DEF SliceLen
  <2>6. m = count - x.skip => SkipFor(q) + (n + m) = b
    <3>1. PICK f, u : f = SkipFor(q) /\ u = x.skip  OBVIOUS
    <3>2. f \in Nat /\ u \in Nat /\ f + n = a + u  BY <1>3, <2>2, <2>3, <3>1
    <3>3. m = count - u => f + (n + m) = b  BY <1>5, <1>8, <3>2
    <3> QED  BY <3>1, <3>3
  <2>7. CASE y.at = "count"
    <3>1. y.take # 0  BY <2>7
    <3>2. SkipFor(q) + (n + m) = b + 0  BY <1>5, <2>5, <2>6, <3>1
    <3> QED  BY <1>2, <1>4, <1>10, <1>12, <2>2, <2>4, <2>7, <3>2 DEF ListWhole
  <2>8. CASE y.at = "answered"
    <3>1. n + m = q.limit \/ SkipFor(q) + (n + m) >= Cardinality(Matched(q))
      <4>1. CASE y.take = 0  BY <1>3, <1>8, <1>12, <4>1
      <4>2. CASE y.take # 0
        <5>1. k = 3  BY <1>2, <2>8, <4>2
        <5>2. Ahead(q, 4) = Matched(q) /\ k + 1 = 4  BY <1>3, <5>1, FirstAndLast
        <5>3. b = Cardinality(Matched(q))  BY <1>4, <5>2
        <5> QED  BY <1>5, <2>5, <2>6, <4>2, <5>3
      <4> QED  BY <4>1, <4>2
    <3> QED  BY <1>2, <1>10, <1>12, <2>2, <2>4, <2>8, <3>1 DEF ListWhole
  <2> QED  BY <2>7, <2>8
<1> QED  BY <1>13, <1>14, <1>17, <1>18 DEF ListOK

------------------------------------------------------------------------------
(* The answer *)

\* Which page a place is on.
LEMMA QuotientIs ==
  ASSUME NEW a \in Nat, NEW l \in Nat \ {0}, NEW p \in Nat
  PROVE  a \div l = p <=> p * l <= a /\ a < p * l + l
<1>1. a \div l \in Nat /\ (a \div l = p => p * l <= a /\ a < p * l + l)  OBVIOUS
<1>2. p * l <= a /\ a < p * l + l => a \div l = p  OBVIOUS
<1> QED  BY <1>1, <1>2

\* What the invariant of a page says once it is answered is that the page is right.
LEMMA AnsweredPage ==
  ASSUME BookOK, NEW x, ListOK(x), x.at = "answered"
  PROVE  PageIsRight(x)
<1>1. ListTypes(x) /\ ListWay(x) /\ ListOnce(x) /\ ListWhole(x)  BY DEF ListOK
<1>2. PICK q, s, n : q = x.q /\ s = x.rows /\ n = Len(s)  OBVIOUS
<1>3. /\ q \in Queries /\ s \in Seq(ListRows) /\ n <= q.limit
  BY <1>1, <1>2 DEF ListTypes, ListWay
<1>4. n \in Nat /\ DOMAIN s = 1 .. n  BY <1>2, <1>3, LenProperties
<1>5. \A i, j \in DOMAIN x.rows :
        i # j /\ x.rows[i].order = x.rows[j].order => x.rows[i].order \in x.touched
  BY <1>1, <1>2, <1>4 DEF ListOnce
<1>6. Len(x.rows) <= x.q.limit  BY <1>2, <1>3
<1>7. ASSUME x.touched = {}
      PROVE  /\ Shown(x) = OnPage(x.q)
             /\ \A i \in DOMAIN x.rows :
                  LET o == x.rows[i].order
                  IN /\ Cardinality(Before(x.q, o)) = SkipFor(x.q) + i - 1
                     /\ x.rows[i].summary = Summary(o)
                     /\ x.rows[i].overdue = PickupOverdueWhere(o)
             /\ x.total = Cardinality({o \in ListWhere(x.q) : ByStock(x.q) => StockWanted(x.q, o)})
  <2>1. PICK f, l, p, all : /\ f = SkipFor(q) /\ l = q.limit /\ p = q.page - 1
                            /\ all = Cardinality(Matched(q))
    OBVIOUS
  <2>2. /\ x.total = all
        /\ \A i \in 1 .. n : RowFits(q, s[i], f + i - 1)
        /\ n = l \/ f + n >= all
    BY <1>1, <1>2, <1>7, <2>1 DEF ListWhole
  <2>3. f \in Nat /\ l \in Nat \ {0} /\ p \in Nat /\ f = p * l /\ all \in Nat
    BY <1>3, <2>1, SkipIsNat, MatchedFinite DEF SkipFor
  <2>4. \A o \in Matched(q) : /\ Cardinality(Before(q, o)) \in Nat
                              /\ Cardinality(Before(q, o)) < all
    BY <2>1, PlacesApart
  <2>5. \A o \in Matched(q) : Cardinality(Before(q, o)) \div l = p
                              <=> f <= Cardinality(Before(q, o)) /\ Cardinality(Before(q, o)) < f + l
    <3> TAKE o \in Matched(q)
    <3>1. PICK c : c = Cardinality(Before(q, o))  OBVIOUS
    <3>2. c \in Nat  BY <2>4, <3>1
    <3>3. c \div l = p <=> p * l <= c /\ c < p * l + l  BY <2>3, <3>2, QuotientIs
    <3> QED  BY <2>3, <3>1, <3>3
  <2>6. OnPage(q) = {o \in Matched(q) : Cardinality(Before(q, o)) \div l = p}
    BY <2>1 DEF OnPage, Matched
  <2>7. Shown(x) = {s[i].order : i \in 1 .. n}  BY <1>2, <1>4 DEF Shown
  <2>8. ASSUME NEW i \in 1 .. n PROVE s[i].order \in OnPage(q)
    <3>1. s[i].order \in Matched(q) /\ Cardinality(Before(q, s[i].order)) = f + i - 1
      BY <2>2 DEF RowFits
    <3>2. f <= f + i - 1 /\ f + i - 1 < f + l  BY <1>3, <1>4, <2>1, <2>3
    <3> QED  BY <2>5, <2>6, <3>1, <3>2
  <2>9. ASSUME NEW o \in OnPage(q) PROVE \E i \in 1 .. n : s[i].order = o
    <3>1. PICK c : c = Cardinality(Before(q, o))  OBVIOUS
    <3>2. o \in Matched(q) /\ c \in Nat /\ c < all /\ f <= c /\ c < f + l
      BY <2>4, <2>5, <2>6, <2>9, <3>1
    <3>3. PICK i : i = c - f + 1  OBVIOUS
    <3>4. i \in 1 .. n /\ f + i - 1 = c  BY <1>4, <2>2, <2>3, <3>2, <3>3
    <3>5. s[i].order \in Matched(q) /\ Cardinality(Before(q, s[i].order)) = c
      BY <2>2, <3>4 DEF RowFits
    <3>6. s[i].order = o  BY <3>1, <3>2, <3>5, PlacesApart
    <3> QED  BY <3>4, <3>6
  <2>10. Shown(x) = OnPage(q)  BY <2>7, <2>8, <2>9
  <2>11. \A i \in 1 .. n : /\ Cardinality(Before(q, s[i].order)) = f + i - 1
                           /\ s[i].summary = Summary(s[i].order)
                           /\ s[i].overdue = PickupOverdueWhere(s[i].order)
    BY <2>2 DEF RowFits
  <2>12. Matched(q) = {o \in ListWhere(q) : ByStock(q) => StockWanted(q, o)}  BY DEF Matched
  <2> QED  BY <1>2, <1>4, <2>1, <2>2, <2>10, <2>11, <2>12
<1> QED  BY <1>5, <1>6, <1>7 DEF PageIsRight

------------------------------------------------------------------------------
(* The badges *)

BadgeFields == {"op", "at", "q", "touched", "short", "due", "late"}

\* What the badges have read so far; what they counted as due is so still, unless it changed.
BadgesOK(x) ==
  /\ DOMAIN x = BadgeFields /\ x.op = "badges" /\ x.at \in {"due", "late", "answered"}
  /\ x.q \in Queries /\ x.touched \subseteq Orders
  /\ x.touched = {} => x.short = ShortOnes(x.q)
  /\ x.at = "late" => /\ \A o \in x.due : o \in x.touched \/ o \in ListWhere(Wanting(x.q, "DUE_SOON"))
                      /\ x.touched = {} => x.due = ListWhere(Wanting(x.q, "DUE_SOON"))
  /\ x.at = "answered" => BadgesAreRight(x)

\* The query behind a badge.
LEMMA WantingFields ==
  ASSUME NEW q \in Queries, NEW want
  PROVE  /\ Wanting(q, want).want = want /\ Wanting(q, want).excludePos = TRUE
         /\ Wanting(q, want).branch = q.branch
BY OrderListAssumption DEF Wanting

\* What a badge's list holds.
LEMMA WantedOrders ==
  ASSUME NEW q \in Queries, NEW want, want # "ALL", NEW o \in Orders
  PROVE  o \in ListWhere(Wanting(q, want)) <=>
           /\ q.branch # None => book[o].branch = q.branch
           /\ book[o].fulfillment # "TAKEAWAY" /\ NotShipped(o)
           /\ want = "DUE_SOON" => DueSoon(o)
           /\ want = "PICKUP_OVERDUE" => PickupOverdueWhere(o)
<1>1. PICK w : w = Wanting(q, want)  OBVIOUS
<1>2. w.want = want /\ w.excludePos = TRUE /\ w.branch = q.branch  BY <1>1, WantingFields
<1>3. o \in ListWhere(w) <=>
        /\ w.branch # None => book[o].branch = w.branch
        /\ w.excludePos => book[o].fulfillment # "TAKEAWAY"
        /\ w.want # "ALL" => NotShipped(o)
        /\ w.want = "DUE_SOON" => DueSoon(o)
        /\ w.want = "PICKUP_OVERDUE" => PickupOverdueWhere(o)
  BY DEF ListWhere
<1> QED  BY <1>1, <1>2, <1>3

\* The last read of the badges.
LEMMA LateRead ==
  ASSUME BookOK, NEW x, BadgesOK(x), x.at = "late",
         NEW y, DOMAIN y = BadgeFields, y.op = "badges", y.at = "answered",
         y.q = x.q, y.touched = x.touched, y.short = x.short, y.due = x.due,
         y.late = ListWhere(Wanting(x.q, "PICKUP_OVERDUE"))
  PROVE  BadgesOK(y)
<1>1. PICK q : q = x.q  OBVIOUS
<1>2. /\ q \in Queries /\ x.touched \subseteq Orders
      /\ x.touched = {} => x.short = ShortOnes(q)
      /\ \A o \in x.due : o \in x.touched \/ o \in ListWhere(Wanting(q, "DUE_SOON"))
      /\ x.touched = {} => x.due = ListWhere(Wanting(q, "DUE_SOON"))
  BY <1>1 DEF BadgesOK
<1>3. \A w, o : o \in ListWhere(w) => o \in Orders  BY DEF ListWhere
<1>4. \A o \in Orders : DueSoon(o) => ~PickupOverdueWhere(o)  BY DEF DueSoon
<1>5. ASSUME NEW o \in y.due \cap y.late PROVE o \in y.touched
  <2>1. o \in Orders /\ PickupOverdueWhere(o)  BY <1>1, <1>2, <1>3, <1>5, WantedOrders
  <2>2. o \notin ListWhere(Wanting(q, "DUE_SOON"))  BY <1>2, <1>4, <2>1, WantedOrders
  <2> QED  BY <1>2, <1>5, <2>2
<1>6. ASSUME y.touched = {}, NEW o \in ListWhere(Wanting(q, "ENOUGH")),
             book[o].due # None, book[o].due <= Today
      PROVE  o \in y.due \cup y.late
  <2>1. o \in Orders  BY <1>3
  <2>2. book[o].due <= Today + DueSoonDays
    <3>1. book[o].due \in Int  BY <1>6, <2>1, OrderListAssumption DEF BookOK
    <3> QED  BY <1>6, <3>1, OrderListAssumption
  <2>3. DueSoon(o) \/ PickupOverdueWhere(o)  BY <1>6, <2>2 DEF DueSoon
  <2>4. /\ q.branch # None => book[o].branch = q.branch
        /\ book[o].fulfillment # "TAKEAWAY" /\ NotShipped(o)
    BY <1>2, <1>6, <2>1, WantedOrders
  <2>5. o \in ListWhere(Wanting(q, "DUE_SOON")) \/ o \in ListWhere(Wanting(q, "PICKUP_OVERDUE"))
    BY <1>2, <2>1, <2>3, <2>4, WantedOrders
  <2> QED  BY <1>1, <1>2, <1>6, <2>5
<1>7. ASSUME NEW o \in y.late PROVE o \in Orders /\ IsPickupOverdue(o)
  <2>1. o \in Orders /\ PickupOverdueWhere(o)  BY <1>1, <1>2, <1>3, <1>7, WantedOrders
  <2> QED  BY <2>1, OverdueSame
<1>8. ASSUME y.touched = {}
      PROVE  y.short \cap {o \in Orders : Summary(o) \in {None, "ENOUGH"}} = {}
  <2>1. \A o \in y.short : Summary(o) \in {"PARTIAL", "OUT"}  BY <1>2, <1>8 DEF ShortOnes, IsShort
  <2>2. None # "PARTIAL" /\ None # "OUT"  BY OrderListAssumption
  <2> QED  BY <2>1, <2>2
<1>9. BadgesAreRight(y)  BY <1>1, <1>5, <1>6, <1>7, <1>8 DEF BadgesAreRight
<1> QED  BY <1>1, <1>2, <1>9 DEF BadgesOK

------------------------------------------------------------------------------
(* What a change of one order leaves alone *)

\* What is said of an order that did not change stays.
LEMMA SameOrder ==
  ASSUME NEW o, book'[o] = book[o]
  PROVE  /\ NotShipped(o)' <=> NotShipped(o)
         /\ PickupOverdueWhere(o)' <=> PickupOverdueWhere(o)
         /\ DueSoon(o)' <=> DueSoon(o)
         /\ IsPickupOverdue(o)' = IsPickupOverdue(o)
         /\ \A w : o \in ListWhere(w)' <=> o \in ListWhere(w)
<1>1. /\ NotShipped(o)' <=> NotShipped(o)
      /\ PickupOverdueWhere(o)' <=> PickupOverdueWhere(o)
  BY DEF NotShipped, PickupOverdueWhere
<1>2. DueSoon(o)' <=> DueSoon(o)  BY <1>1 DEF DueSoon
<1>3. IsPickupOverdue(o)' = IsPickupOverdue(o)  BY DEF IsPickupOverdue
<1>4. ASSUME NEW w PROVE o \in ListWhere(w)' <=> o \in ListWhere(w)
  BY <1>1, <1>2 DEF ListWhere
<1> QED  BY <1>1, <1>2, <1>3, <1>4

\* So does its rank,
LEMMA SameRank ==
  ASSUME NEW o, book'[o] = book[o], NEW sort
  PROVE  Rank(sort, o)' = Rank(sort, o)
<1>1. PICK p, d : p = book[o].priority /\ d = book[o].due  OBVIOUS
<1>2. p = book'[o].priority /\ d = book'[o].due  BY <1>1
<1>3. CASE sort = "priority"
  <2>1. Rank(sort, o) = CHOOSE i \in 1 .. 3 : Buckets[i] = p  BY <1>1, <1>3 DEF Rank
  <2>2. Rank(sort, o)' = CHOOSE i \in 1 .. 3 : Buckets[i] = p  BY <1>2, <1>3 DEF Rank, Buckets
  <2> QED  BY <2>1, <2>2
<1>4. CASE sort = "requestedDeliveryDate"
  <2>1. Rank(sort, o) = IF d # None THEN d ELSE Today + Never  BY <1>1, <1>4 DEF Rank
  <2>2. Rank(sort, o)' = IF d # None THEN d ELSE Today + Never  BY <1>2, <1>4 DEF Rank
  <2> QED  BY <2>1, <2>2
<1>5. CASE sort # "priority" /\ sort # "requestedDeliveryDate"
  <2>1. Rank(sort, o) = 0  BY <1>5 DEF Rank
  <2>2. Rank(sort, o)' = 0  BY <1>5 DEF Rank
  <2> QED  BY <2>1, <2>2
<1> QED  BY <1>3, <1>4, <1>5

\* and what the shelf says of it.
LEMMA SameSummary ==
  ASSUME NEW o, book'[o] = book[o]
  PROVE  Summary(o)' = Summary(o)
<1>1. \A g : StockCheck(o, g)' = StockCheck(o, g)  BY DEF StockCheck, ClassifyStock
<1>2. NotShipped(o)' <=> NotShipped(o)  BY SameOrder
<1>3. Checkable(o)' = Checkable(o)  BY <1>2 DEF Checkable
<1>4. PICK present, severity : /\ present = {StockCheck(o, g) : g \in Checkable(o)}
                               /\ severity = <<"OUT", "PARTIAL", "ENOUGH">>
  OBVIOUS
<1>5. present = {StockCheck(o, g) : g \in Checkable(o)}'  BY <1>1, <1>3, <1>4
<1>6. PICK found : found = {i \in DOMAIN severity : severity[i] \in present}  OBVIOUS
<1>7. Summary(o) = IF found = {} THEN None ELSE severity[CHOOSE i \in found : \A j \in found : i <= j]
  BY <1>4, <1>6 DEF Summary
<1>8. Summary(o)' = IF found = {} THEN None ELSE severity[CHOOSE i \in found : \A j \in found : i <= j]
  BY <1>4, <1>5, <1>6 DEF Summary
<1> QED  BY <1>7, <1>8

\* What a list holds stays while no order changes.
LEMMA BookStays ==
  ASSUME UNCHANGED book
  PROVE  /\ \A w : ListWhere(w)' = ListWhere(w)
         /\ \A q : Matched(q)' = Matched(q) /\ ShortOnes(q)' = ShortOnes(q)
         /\ \A q, o : Before(q, o)' = Before(q, o)
         /\ \A q, k : Ahead(q, k)' = Ahead(q, k) /\ Bucket(q, k)' = Bucket(q, k)
         /\ \A q, row, nth : RowFits(q, row, nth)' <=> RowFits(q, row, nth)
<1>1. \A o : book'[o] = book[o]  OBVIOUS
<1>2. \A w : ListWhere(w)' = ListWhere(w)
  <2> TAKE w
  <2>1. \A o : o \in ListWhere(w)' <=> o \in ListWhere(w)  BY <1>1, SameOrder
  <2> QED  BY <2>1
<1>3. \A o : Summary(o)' = Summary(o)  BY <1>1, SameSummary
<1>4. \A q, o : StockWanted(q, o)' <=> StockWanted(q, o)  BY <1>3 DEF StockWanted, IsShort
<1>5. ASSUME NEW q PROVE Matched(q)' = Matched(q)
  <2>1. PICK S : S = ListWhere(q) /\ S = ListWhere(q)'  BY <1>2
  <2>2. Matched(q) = {o \in S : ByStock(q) => StockWanted(q, o)}  BY <2>1 DEF Matched
  <2>3. Matched(q)' = {o \in S : ByStock(q) => StockWanted(q, o)'}  BY <2>1 DEF Matched, ByStock
  <2> QED  BY <1>4, <2>2, <2>3
<1>6. ASSUME NEW q PROVE ShortOnes(q)' = ShortOnes(q)
  <2>1. PICK S : S = ListWhere(Wanting(q, "SHORT")) /\ S = ListWhere(Wanting(q, "SHORT"))'  BY <1>2
  <2>2. ShortOnes(q) = {o \in S : IsShort(Summary(o))}  BY <2>1 DEF ShortOnes
  <2>3. ShortOnes(q)' = {o \in S : IsShort(Summary(o)')}  BY <2>1 DEF ShortOnes, IsShort
  <2> QED  BY <1>3, <2>2, <2>3
<1>7. \A sort, a, b : CompareFor(sort, a, b)' <=> CompareFor(sort, a, b)
  <2>1. \A sort, a : Rank(sort, a)' = Rank(sort, a)  BY <1>1, SameRank
  <2> QED  BY <2>1 DEF CompareFor
<1>8. ASSUME NEW q, NEW o PROVE Before(q, o)' = Before(q, o)
  <2>1. PICK S : S = ListWhere(q) /\ S = ListWhere(q)'  BY <1>2
  <2>2. Before(q, o) = {p \in S : (ByStock(q) => StockWanted(q, p)) /\ CompareFor(q.sort, p, o)}
    BY <2>1 DEF Before
  <2>3. Before(q, o)' = {p \in S : (ByStock(q) => StockWanted(q, p)') /\ CompareFor(q.sort, p, o)'}
    BY <2>1 DEF Before, ByStock
  <2> QED  BY <1>4, <1>7, <2>2, <2>3
<1>9. ASSUME NEW q, NEW k PROVE Ahead(q, k)' = Ahead(q, k) /\ Bucket(q, k)' = Bucket(q, k)
  <2>1. PICK S : S = ListWhere(q) /\ S = ListWhere(q)'  BY <1>2
  <2>2. \A o : Rank("priority", o)' = Rank("priority", o)  BY <1>1, SameRank
  <2>3. Ahead(q, k) = {o \in S : Rank("priority", o) < k}  BY <2>1 DEF Ahead
  <2>4. Ahead(q, k)' = {o \in S : Rank("priority", o)' < k}  BY <2>1 DEF Ahead
  <2>5. Bucket(q, k) = {o \in S : book[o].priority = Buckets[k]}  BY <2>1 DEF Bucket
  <2>6. Bucket(q, k)' = {o \in S : book'[o].priority = Buckets[k]}  BY <2>1 DEF Bucket, Buckets
  <2> QED  BY <1>1, <2>2, <2>3, <2>4, <2>5, <2>6
<1>10. ASSUME NEW q, NEW row, NEW nth PROVE RowFits(q, row, nth)' <=> RowFits(q, row, nth)
  <2>1. PICK o : o = row.order  OBVIOUS
  <2>2. Before(q, o)' = Before(q, o) /\ Matched(q)' = Matched(q) /\ Summary(o)' = Summary(o)
    BY <1>3, <1>5, <1>8
  <2>3. PickupOverdueWhere(o)' = PickupOverdueWhere(o)  BY <1>1 DEF PickupOverdueWhere
  <2>4. PICK B, M, z, late : /\ B = Before(q, o) /\ M = Matched(q)
                             /\ z = Summary(o) /\ late = PickupOverdueWhere(o)
    OBVIOUS
  <2>5. RowFits(q, row, nth) <=> /\ o \in M /\ Cardinality(B) = nth
                                 /\ row.summary = z /\ row.overdue = late
    BY <2>1, <2>4 DEF RowFits
  <2>6. B = Before(q, o)' /\ M = Matched(q)' /\ z = Summary(o)' /\ late = PickupOverdueWhere(o)'
    BY <2>2, <2>3, <2>4
  <2>7. RowFits(q, row, nth)' <=> /\ o \in M /\ Cardinality(B) = nth
                                  /\ row.summary = z /\ row.overdue = late
    BY <2>1, <2>6 DEF RowFits
  <2> QED  BY <2>5, <2>7
<1> QED  BY <1>2, <1>5, <1>6, <1>8, <1>9, <1>10

------------------------------------------------------------------------------
(* Lists and badges while orders change *)

ListingOK(x) == (x.op = "list" => ListOK(x)) /\ (x.op = "badges" => BadgesOK(x))

\* Every list and every page of badges is right so far.
ListsInv ==
  /\ RequestsNamed /\ BookOK
  /\ \A r \in Requests : ListingOK(req[r])

\* These parts look at no order.
LEMMA RigidParts ==
  ASSUME NEW x
  PROVE  /\ ListTypes(x)' <=> ListTypes(x)
         /\ ListWay(x)' <=> ListWay(x)
BY DEF ListTypes, ListWay

\* No order changes.
LEMMA ListingStays ==
  ASSUME UNCHANGED book, NEW x, ListingOK(x)
  PROVE  ListingOK(x)'
<1>1. ASSUME ListOK(x) PROVE ListOK(x)'
  <2>1. ListTypes(x)' /\ ListWay(x)'  BY <1>1, RigidParts DEF ListOK
  <2>2. ListOnce(x)'
    <3>1. \A o : Rank("priority", o)' = Rank("priority", o)
      <4>1. \A o : book'[o] = book[o]  OBVIOUS
      <4> QED  BY <4>1, SameRank
    <3> QED  BY <1>1, <3>1 DEF ListOK, ListOnce
  <2>3. ListWhole(x)'
    <3>1. PICK q, k, m, a, b : /\ q = x.q /\ k = x.bucket /\ m = Matched(q)
                               /\ a = Ahead(q, k) /\ b = Bucket(q, k)
      OBVIOUS
    <3>2. m = Matched(q)' /\ a = Ahead(q, k)' /\ b = Bucket(q, k)'  BY <3>1, BookStays
    <3>3. \A row, nth : RowFits(q, row, nth)' <=> RowFits(q, row, nth)  BY BookStays
    <3>4. x.touched = {} =>
            /\ x.at # "candidates" => x.total = Cardinality(m)
            /\ \A i \in 1 .. Len(x.rows) : RowFits(q, x.rows[i], SkipFor(q) + i - 1)
            /\ x.at \in {"count", "bucket"} =>
                 /\ SkipFor(q) + Len(x.rows) = Cardinality(a) + x.skip
                 /\ x.skip = 0 \/ Len(x.rows) = 0
            /\ x.at = "bucket" => x.skip < Cardinality(b)
            /\ x.at \in {"found", "answered"} =>
                 Len(x.rows) = q.limit \/ SkipFor(q) + Len(x.rows) >= Cardinality(m)
      BY <1>1, <3>1 DEF ListOK, ListWhole
    <3>5. x.touched = {} =>
            \A i \in 1 .. Len(x.rows) : RowFits(q, x.rows[i], SkipFor(q) + i - 1)'
      BY <3>3, <3>4
    <3> QED  BY <3>1, <3>2, <3>4, <3>5 DEF ListWhole, SkipFor
  <2> QED  BY <2>1, <2>2, <2>3 DEF ListOK
<1>2. ASSUME BadgesOK(x) PROVE BadgesOK(x)'
  <2>1. PICK q, due, short, late, check : /\ q = x.q /\ due = ListWhere(Wanting(q, "DUE_SOON"))
                                  /\ short = ShortOnes(q)
                                  /\ late = {o \in Orders : IsPickupOverdue(o)}
                                  /\ check = ListWhere(Wanting(q, "ENOUGH"))
    OBVIOUS
  <2>2. /\ due = ListWhere(Wanting(q, "DUE_SOON"))' /\ short = ShortOnes(q)'
        /\ check = ListWhere(Wanting(q, "ENOUGH"))'
    BY <2>1, BookStays
  <2>3. \A o : book'[o] = book[o]  OBVIOUS
  <2>4. late = {o \in Orders : IsPickupOverdue(o)}'
    <3>1. \A o : IsPickupOverdue(o)' = IsPickupOverdue(o)  BY <2>3, SameOrder
    <3> QED  BY <2>1, <3>1
  <2>5. PICK fine : fine = {o \in Orders : Summary(o) \in {None, "ENOUGH"}}  OBVIOUS
  <2>6. fine = {o \in Orders : Summary(o) \in {None, "ENOUGH"}}'
    <3>1. \A o : Summary(o)' = Summary(o)  BY <2>3, SameSummary
    <3> QED  BY <2>5, <3>1
  <2>7. BadgesAreRight(x) => BadgesAreRight(x)'
    <3>1. BadgesAreRight(x) <=>
            /\ x.due \cap x.late \subseteq x.touched
            /\ x.touched = {} =>
                 /\ \A o \in check : book[o].due # None /\ book[o].due <= Today => o \in x.due \cup x.late
                 /\ x.late \subseteq late
                 /\ x.short \cap fine = {}
      BY <2>1, <2>5 DEF BadgesAreRight
    <3>2. BadgesAreRight(x)' <=>
            /\ x.due \cap x.late \subseteq x.touched
            /\ x.touched = {} =>
                 /\ \A o \in check : book'[o].due # None /\ book'[o].due <= Today => o \in x.due \cup x.late
                 /\ x.late \subseteq late
                 /\ x.short \cap fine = {}
      BY <2>1, <2>2, <2>4, <2>6 DEF BadgesAreRight
    <3> QED  BY <2>3, <3>1, <3>2
  <2>8. /\ DOMAIN x = BadgeFields /\ x.op = "badges" /\ x.at \in {"due", "late", "answered"}
        /\ q \in Queries /\ x.touched \subseteq Orders
        /\ x.touched = {} => x.short = short
        /\ x.at = "late" => /\ \A o \in x.due : o \in x.touched \/ o \in due
                            /\ x.touched = {} => x.due = due
        /\ x.at = "answered" => BadgesAreRight(x)
    BY <1>2, <2>1 DEF BadgesOK
  <2> QED  BY <2>1, <2>2, <2>7, <2>8 DEF BadgesOK, BadgeFields
<1>3. CASE x.op = "list"  BY <1>1, <1>3 DEF ListingOK
<1>4. CASE x.op = "badges"  BY <1>2, <1>4 DEF ListingOK
<1>5. CASE x.op # "list" /\ x.op # "badges"  BY <1>5 DEF ListingOK
<1> QED  BY <1>3, <1>4, <1>5

\* Another request changes an order: whoever is reading takes it for touched.
LEMMA OrderTouched ==
  ASSUME ListsInv, NEW o \in Orders, NEW kind \in Edits, Touch(o, kind)
  PROVE  ListsInv'
<1>1. RequestsNamed'  BY OrderListTouches DEF ListsInv, OrderListNext, Touches, Touch
<1>2. book' = [book EXCEPT ![o] = kind]  BY DEF Touch
<1>3. BookOK'  BY <1>2 DEF ListsInv, BookOK
<1>4. \A d \in Orders : d # o => book'[d] = book[d]  BY <1>2 DEF ListsInv, BookOK
<1>5. ASSUME NEW x, ListOK(x), NEW y, y = [x EXCEPT !.touched = @ \cup {o}] PROVE ListOK(y)'
  <2>1. ListTypes(x) /\ ListWay(x) /\ ListOnce(x)  BY <1>5 DEF ListOK
  <2>2. /\ DOMAIN y = ListFields /\ y.op = x.op /\ y.at = x.at /\ y.q = x.q /\ y.rows = x.rows
        /\ y.total = x.total /\ y.bucket = x.bucket /\ y.skip = x.skip /\ y.take = x.take
        /\ y.touched = x.touched \cup {o}
    BY <1>5, <2>1 DEF ListTypes, ListFields
  <2>3. ListTypes(y)  BY <2>1, <2>2 DEF ListTypes
  <2>4. ListWay(y)  BY <2>1, <2>2 DEF ListWay
  <2>5. ListOnce(y)'
    <3>1. ASSUME NEW i \in 1 .. Len(x.rows), x.at \in {"count", "bucket"}
          PROVE  \/ x.rows[i].order \in y.touched
                 \/ Rank("priority", x.rows[i].order)' < y.bucket
      <4>1. PICK d : d = x.rows[i].order  OBVIOUS
      <4>2. d \in Orders
        <5>1. x.rows[i] \in ListRows  BY <2>1, <3>1, LenProperties DEF ListTypes
        <5> QED  BY <4>1, <5>1 DEF ListRows
      <4>3. d \in x.touched \/ Rank("priority", d) < x.bucket  BY <2>1, <3>1, <4>1 DEF ListOnce
      <4>4. d # o => Rank("priority", d)' = Rank("priority", d)  BY <1>4, <4>2, SameRank
      <4> QED  BY <2>2, <4>1, <4>3, <4>4
    <3>2. \A i, j \in 1 .. Len(x.rows) :
            i # j /\ x.rows[i].order = x.rows[j].order => x.rows[i].order \in y.touched
      BY <2>1, <2>2 DEF ListOnce
    <3> QED  BY <2>2, <3>1, <3>2 DEF ListOnce
  <2>6. ListWhole(y)'  BY <2>2 DEF ListWhole
  <2> QED  BY <2>3, <2>4, <2>5, <2>6, RigidParts DEF ListOK
<1>6. ASSUME NEW x, BadgesOK(x), NEW y, y = [x EXCEPT !.touched = @ \cup {o}] PROVE BadgesOK(y)'
  <2>1. /\ DOMAIN x = BadgeFields /\ x.op = "badges" /\ x.at \in {"due", "late", "answered"}
        /\ x.q \in Queries /\ x.touched \subseteq Orders
        /\ x.at = "late" => \A d \in x.due : d \in x.touched \/ d \in ListWhere(Wanting(x.q, "DUE_SOON"))
        /\ x.at = "answered" => BadgesAreRight(x)
    BY <1>6 DEF BadgesOK
  <2>2. /\ DOMAIN y = BadgeFields /\ y.op = x.op /\ y.at = x.at /\ y.q = x.q
        /\ y.short = x.short /\ y.due = x.due /\ y.late = x.late
        /\ y.touched = x.touched \cup {o}
    BY <1>6, <2>1 DEF BadgeFields
  <2>3. PICK w : w = Wanting(x.q, "DUE_SOON")  OBVIOUS
  <2>4. ASSUME NEW d, d \in ListWhere(w), d # o PROVE d \in ListWhere(w)'
    <3>1. d \in Orders  BY <2>4 DEF ListWhere
    <3> QED  BY <1>4, <2>4, <3>1, SameOrder
  <2>5. y.at = "late" => \A d \in y.due : d \in y.touched \/ d \in ListWhere(w)'
    BY <2>1, <2>2, <2>3, <2>4
  <2>6. y.at = "answered" => BadgesAreRight(y)'
    <3>1. y.touched # {}  BY <2>2
    <3>2. BadgesAreRight(x) => x.due \cap x.late \subseteq x.touched  BY DEF BadgesAreRight
    <3> QED  BY <2>1, <2>2, <3>1, <3>2 DEF BadgesAreRight
  <2>7. w = Wanting(y.q, "DUE_SOON")  BY <2>2, <2>3
  <2>8. y.touched # {} /\ y.touched \subseteq Orders  BY <2>1, <2>2
  <2> QED  BY <2>1, <2>2, <2>5, <2>6, <2>7, <2>8 DEF BadgesOK, BadgeFields, Wanting
<1>7. ASSUME NEW q \in Requests PROVE ListingOK(req[q])'
  <2>1. PICK x, y : x = req[q] /\ y = req'[q]  OBVIOUS
  <2>2. ListingOK(x)  BY <2>1 DEF ListsInv
  <2>3. y = IF x.op \in {"list", "badges"} THEN [x EXCEPT !.touched = @ \cup {o}] ELSE x
    BY <2>1 DEF Touch
  <2>4. CASE x.op = "list"
    <3>1. ListOK(x) /\ y = [x EXCEPT !.touched = @ \cup {o}]  BY <2>2, <2>3, <2>4 DEF ListingOK
    <3>2. y.op = "list"  BY <2>4, <3>1 DEF ListOK, ListTypes, ListFields
    <3>3. ListOK(y)'  BY <1>5, <3>1
    <3> QED  BY <2>1, <3>2, <3>3 DEF ListingOK
  <2>5. CASE x.op = "badges"
    <3>1. BadgesOK(x) /\ y = [x EXCEPT !.touched = @ \cup {o}]  BY <2>2, <2>3, <2>5 DEF ListingOK
    <3>2. y.op = "badges"  BY <2>5, <3>1 DEF BadgesOK, BadgeFields
    <3>3. BadgesOK(y)'  BY <1>6, <3>1
    <3> QED  BY <2>1, <3>2, <3>3 DEF ListingOK
  <2>6. CASE x.op \notin {"list", "badges"}
    <3>1. y.op # "list" /\ y.op # "badges"  BY <2>3, <2>6
    <3> QED  BY <2>1, <3>1 DEF ListingOK
  <2> QED  BY <2>4, <2>5, <2>6
<1> QED  BY <1>1, <1>3, <1>7 DEF ListsInv

\* One request goes on, and no order changes.
ListMoves(r) == \E y : ListingOK(y) /\ req' = [req EXCEPT ![r] = y]

\* So all stay right.
LEMMA OneGoesOn ==
  ASSUME ListsInv, RequestsNamed', UNCHANGED book, NEW r \in Requests, ListMoves(r)
  PROVE  ListsInv'
<1>1. PICK y : ListingOK(y) /\ req' = [req EXCEPT ![r] = y]  BY DEF ListMoves
<1>2. DOMAIN req = Requests  BY DEF ListsInv, RequestsNamed
<1>3. ASSUME NEW q \in Requests PROVE ListingOK(req[q])'
  <2>1. PICK z : z = req'[q]  OBVIOUS
  <2>2. z = y \/ z = req[q]  BY <1>1, <1>2, <2>1
  <2>3. ListingOK(z)  BY <1>1, <2>2 DEF ListsInv
  <2>4. ListingOK(z)'  BY <2>3, ListingStays
  <2> QED  BY <2>1, <2>4 DEF ListingOK
<1>4. BookOK'  BY DEF ListsInv, BookOK
<1> QED  BY <1>3, <1>4 DEF ListsInv

\* Of a list under way.
LEMMA ListRead ==
  ASSUME ListsInv, NEW r \in Requests, req[r].op = "list"
  PROVE  /\ BookOK /\ ListOK(req[r]) /\ ListTypes(req[r]) /\ DOMAIN req[r] = ListFields
BY DEF ListsInv, ListingOK, ListOK, ListTypes

\* The database sorts and cuts the page.
LEMMA PageStep ==
  ASSUME ListsInv, NEW r \in Requests, ListPage(r)
  PROVE  ListMoves(r)
<1>1. PICK x : x = req[r]  OBVIOUS
<1>2. BookOK /\ ListOK(x) /\ ListTypes(x) /\ DOMAIN x = ListFields /\ x.at = "page"
  BY <1>1, ListRead DEF ListPage, Listing, At
<1>3. PICK rows : rows = RowsOf(Slice(InOrder(ListWhere(x.q), Sorting(x.q.sort)), x.skip, x.take))  OBVIOUS
<1>4. PICK y : y = [[x EXCEPT !.rows = rows] EXCEPT !.at = "answered"]  OBVIOUS
<1>5. req' = [req EXCEPT ![r] = y]  BY <1>1, <1>3, <1>4 DEF ListPage, Finish
<1>6. /\ DOMAIN y = ListFields /\ y.op = x.op /\ y.at = "answered" /\ y.q = x.q /\ y.rows = rows
      /\ y.total = x.total /\ y.bucket = x.bucket /\ y.skip = x.skip /\ y.take = x.take
      /\ y.touched = x.touched
  BY <1>2, <1>4 DEF ListFields
<1>7. /\ ~ByStock(x.q) /\ x.q.sort # "priority" /\ x.skip = SkipFor(x.q) /\ x.take = x.q.limit
      /\ x.q \in Queries
  BY <1>2 DEF ListOK, ListWay, ListTypes
<1>8. Matched(x.q) = ListWhere(x.q)  BY <1>7 DEF Matched
<1>9. Sorting(x.q.sort) = Comparing(x.q.sort)  BY <1>2, <1>7, DatabaseOrders
<1>10. rows = RowsOf(Slice(InOrder(Matched(x.q), Comparing(x.q.sort)), SkipFor(x.q), x.q.limit))
  BY <1>3, <1>7, <1>8, <1>9
<1>11. rows \in Seq(ListRows)  BY <1>2, <1>7, <1>10, PageCut
<1>12. ListTypes(y)  BY <1>2, <1>6, <1>11 DEF ListTypes
<1>13. CASE x.touched = {}
  <2>1. x.total = Cardinality(Matched(x.q))  BY <1>2, <1>13 DEF ListOK, ListWhole
  <2>2. ListOK(y)  BY <1>2, <1>6, <1>10, <1>12, <2>1, WholePage
  <2> QED  BY <1>2, <1>5, <1>6, <2>2 DEF ListMoves, ListingOK, ListTypes
<1>14. CASE x.touched # {}
  <2>1. PICK z : z = [y EXCEPT !.total = Cardinality(Matched(x.q))]  OBVIOUS
  <2>2. /\ DOMAIN z = ListFields /\ z.op = y.op /\ z.at = "answered" /\ z.q = x.q /\ z.rows = rows
        /\ z.total = Cardinality(Matched(x.q)) /\ z.bucket = y.bucket /\ z.skip = y.skip
        /\ z.take = y.take /\ z.touched = y.touched
    BY <1>6, <2>1 DEF ListFields
  <2>3. ListTypes(z)  BY <1>6, <1>12, <2>2 DEF ListTypes
  <2>4. ListOK(z)  BY <1>2, <1>10, <2>2, <2>3, WholePage
  <2>5. ListWay(y)  BY <1>6, <2>2, <2>4 DEF ListOK, ListWay
  <2>6. ListOnce(y)  BY <1>6, <2>2, <2>4 DEF ListOK, ListOnce
  <2>7. ListWhole(y)  BY <1>6, <1>14 DEF ListWhole
  <2> QED  BY <1>2, <1>5, <1>6, <1>12, <2>5, <2>6, <2>7 DEF ListMoves, ListingOK, ListOK, ListTypes
<1> QED  BY <1>13, <1>14

\* The service sorts the candidates and cuts the page.
LEMMA CandidatesStep ==
  ASSUME ListsInv, NEW r \in Requests, Candidates(r)
  PROVE  ListMoves(r)
<1>1. PICK x : x = req[r]  OBVIOUS
<1>2. BookOK /\ ListOK(x) /\ ListTypes(x) /\ DOMAIN x = ListFields /\ x.at = "candidates"
  BY <1>1, ListRead DEF Candidates, Listing, At
<1>3. /\ ByStock(x.q) /\ x.skip = SkipFor(x.q) /\ x.take = x.q.limit /\ x.q \in Queries
  BY <1>2 DEF ListOK, ListWay, ListTypes
<1>4. PICK matched : matched = {o \in ListWhere(x.q) : StockWanted(x.q, o)}  OBVIOUS
<1>5. matched = Matched(x.q)  BY <1>3, <1>4 DEF Matched
<1>6. PICK rows, total : /\ rows = RowsOf(Slice(InOrder(matched, Comparing(x.q.sort)), x.skip, x.take))
                         /\ total = Cardinality(matched)
  OBVIOUS
<1>7. PICK y : y = [x EXCEPT !.rows = rows, !.total = total, !.at = "found"]  OBVIOUS
<1>8. req' = [req EXCEPT ![r] = y]  BY <1>1, <1>4, <1>6, <1>7 DEF Candidates
<1>9. /\ DOMAIN y = ListFields /\ y.op = x.op /\ y.at = "found" /\ y.q = x.q /\ y.rows = rows
      /\ y.total = total /\ y.bucket = x.bucket /\ y.skip = x.skip /\ y.take = x.take
      /\ y.touched = x.touched
  BY <1>2, <1>7 DEF ListFields
<1>10. rows = RowsOf(Slice(InOrder(Matched(x.q), Comparing(x.q.sort)), SkipFor(x.q), x.q.limit))
  BY <1>3, <1>5, <1>6
<1>11. rows \in Seq(ListRows)  BY <1>2, <1>3, <1>10, PageCut
<1>12. ListTypes(y)  BY <1>2, <1>9, <1>11 DEF ListTypes
<1>13. ListOK(y)  BY <1>2, <1>5, <1>6, <1>9, <1>10, <1>12, WholePage
<1> QED  BY <1>2, <1>8, <1>9, <1>13 DEF ListMoves, ListingOK, ListTypes

\* The rows are read once more.
LEMMA FoundStep ==
  ASSUME ListsInv, NEW r \in Requests, FoundAgain(r)
  PROVE  ListMoves(r)
<1>1. PICK x : x = req[r]  OBVIOUS
<1>2. BookOK /\ ListOK(x) /\ ListTypes(x) /\ DOMAIN x = ListFields /\ x.at = "found"
  BY <1>1, ListRead DEF FoundAgain, Listing, At
<1>3. PICK rows : rows = [i \in DOMAIN x.rows |-> ListRow(x.rows[i].order, x.rows[i].summary)]  OBVIOUS
<1>4. PICK y : y = [[x EXCEPT !.rows = rows] EXCEPT !.at = "answered"]  OBVIOUS
<1>5. req' = [req EXCEPT ![r] = y]  BY <1>1, <1>3, <1>4 DEF FoundAgain, Finish
<1>6. /\ DOMAIN y = ListFields /\ y.op = x.op /\ y.at = "answered" /\ y.q = x.q /\ y.rows = rows
      /\ y.total = x.total /\ y.bucket = x.bucket /\ y.skip = x.skip /\ y.take = x.take
      /\ y.touched = x.touched
  BY <1>2, <1>4 DEF ListFields
<1>7. y.op = "list"  BY <1>2, <1>6 DEF ListTypes
<1>8. ListOK(y)  BY <1>2, <1>3, <1>6, <1>7, PageAgain
<1> QED  BY <1>5, <1>7, <1>8 DEF ListMoves, ListingOK

\* A bucket is counted.
LEMMA CountStep ==
  ASSUME ListsInv, NEW r \in Requests, BucketCount(r)
  PROVE  ListMoves(r)
<1>1. PICK x : x = req[r]  OBVIOUS
<1>2. BookOK /\ ListOK(x) /\ ListTypes(x) /\ DOMAIN x = ListFields /\ x.at = "count"
  BY <1>1, ListRead DEF BucketCount, Listing, At
<1>3. PICK count : count = Cardinality(Bucket(x.q, x.bucket))  OBVIOUS
<1>4. Len(Buckets) = 3  BY DEF Buckets
<1>5. req' = IF x.skip < count THEN GoTo(r, "bucket")
             ELSE IF x.bucket = 3 THEN Finish(r, x)
             ELSE [req EXCEPT ![r].skip = SkipLeft(x.skip, count), ![r].bucket = @ + 1]
  BY <1>1, <1>3, <1>4 DEF BucketCount
<1>6. PICK y : y = IF x.skip < count THEN [x EXCEPT !.at = "bucket"]
                   ELSE IF x.bucket = 3 THEN [x EXCEPT !.at = "answered"]
                   ELSE [x EXCEPT !.skip = x.skip - count, !.bucket = @ + 1]
  OBVIOUS
<1>7. DOMAIN req = Requests  BY DEF ListsInv, RequestsNamed
<1>8. req' = [req EXCEPT ![r] = y]
  <2>1. CASE x.skip < count  BY <1>1, <1>5, <1>6, <2>1 DEF GoTo
  <2>2. CASE ~(x.skip < count) /\ x.bucket = 3  BY <1>5, <1>6, <2>2 DEF Finish
  <2>3. CASE ~(x.skip < count) /\ x.bucket # 3
    BY <1>1, <1>2, <1>5, <1>6, <1>7, <2>3 DEF SkipLeft, ListFields
  <2> QED  BY <2>1, <2>2, <2>3
<1>9. /\ DOMAIN y = ListFields /\ y.op = x.op /\ y.q = x.q /\ y.touched = x.touched
      /\ y.total = x.total /\ y.take = x.take /\ y.rows = x.rows
  BY <1>2, <1>6 DEF ListFields
<1>10. \/ x.skip < count /\ y.at = "bucket" /\ y.skip = x.skip /\ y.bucket = x.bucket
       \/ ~(x.skip < count) /\ x.bucket = 3 /\ y.at = "answered" /\ y.skip = x.skip /\ y.bucket = x.bucket
       \/ ~(x.skip < count) /\ x.bucket # 3 /\ y.at = "count" /\ y.skip = x.skip - count
          /\ y.bucket = x.bucket + 1
  BY <1>2, <1>6 DEF ListFields
<1>11. y.op = "list"  BY <1>2, <1>9 DEF ListTypes
<1>12. ListOK(y)  BY <1>2, <1>3, <1>9, <1>10, <1>11, BucketCounted
<1> QED  BY <1>8, <1>11, <1>12 DEF ListMoves, ListingOK

\* The page takes from a bucket.
LEMMA BucketStep ==
  ASSUME ListsInv, NEW r \in Requests, BucketPage(r)
  PROVE  ListMoves(r)
<1>1. PICK x : x = req[r]  OBVIOUS
<1>2. BookOK /\ ListOK(x) /\ ListTypes(x) /\ DOMAIN x = ListFields /\ x.at = "bucket"
  BY <1>1, ListRead DEF BucketPage, Listing, At
<1>3. PICK cut : cut = Slice(InOrder(Bucket(x.q, x.bucket), NewestFirst), x.skip, x.take)  OBVIOUS
<1>4. PICK more : more = RowsOf(cut)  OBVIOUS
<1>5. more = BucketRows(x.q, x.bucket, x.skip, x.take)  BY <1>3, <1>4 DEF BucketRows
<1>6. /\ ~ByStock(x.q) /\ x.q.sort = "priority" /\ x.bucket \in 1 .. 3
      /\ x.skip \in Nat /\ x.take \in Nat
  BY <1>2 DEF ListOK, ListWay, ListTypes
<1>7. Len(cut) = Len(more)
  <2>1. Bucket(x.q, x.bucket) \in SUBSET Orders  BY MatchedFinite DEF Bucket
  <2>2. IsFiniteSet(Bucket(x.q, x.bucket))  BY <2>1, OrderListAssumption, FS_Subset
  <2>3. StrictOrder(Bucket(x.q, x.bucket), NewestFirst)  BY <2>1, NewestOrders
  <2>4. cut \in Seq(Bucket(x.q, x.bucket))  BY <1>3, <1>6, <2>2, <2>3, SliceInOrder
  <2>5. cut \in Seq(Orders)  BY <2>1, <2>4, SeqMonotonic
  <2> QED  BY <1>2, <1>4, <2>5, RowsOfPage
<1>8. PICK z : z = [x EXCEPT !.rows = @ \o more, !.take = @ - Len(cut), !.skip = 0,
                             !.bucket = @ + 1, !.at = "count"]
  OBVIOUS
<1>9. Len(Buckets) = 3  BY DEF Buckets
<1>10. req' = IF z.take = 0 \/ x.bucket = 3 THEN Finish(r, z) ELSE [req EXCEPT ![r] = z]
  BY <1>1, <1>3, <1>4, <1>8, <1>9 DEF BucketPage
<1>11. /\ DOMAIN z = ListFields /\ z.op = x.op /\ z.q = x.q /\ z.touched = x.touched
       /\ z.total = x.total /\ z.take = x.take - Len(more) /\ z.rows = x.rows \o more
       /\ z.skip = 0 /\ z.bucket = x.bucket + 1 /\ z.at = "count"
  BY <1>2, <1>7, <1>8 DEF ListFields
<1>12. PICK y : y = IF z.take = 0 \/ x.bucket = 3 THEN [z EXCEPT !.at = "answered"] ELSE z  OBVIOUS
<1>13. req' = [req EXCEPT ![r] = y]  BY <1>10, <1>12 DEF Finish
<1>14. /\ DOMAIN y = ListFields /\ y.op = x.op /\ y.q = x.q /\ y.touched = x.touched
       /\ y.total = x.total /\ y.take = x.take - Len(more) /\ y.rows = x.rows \o more
       /\ y.skip = 0 /\ y.bucket = x.bucket + 1
       /\ y.at = IF y.take = 0 \/ x.bucket = 3 THEN "answered" ELSE "count"
  BY <1>11, <1>12 DEF ListFields
<1>15. y.op = "list"  BY <1>2, <1>14 DEF ListTypes
<1>16. ListOK(y)  BY <1>2, <1>5, <1>14, <1>15, BucketTaken
<1> QED  BY <1>13, <1>15, <1>16 DEF ListMoves, ListingOK

\* A list begins with the count of what matches.
LEMMA ListBegins ==
  ASSUME ListsInv, NEW r \in Requests, NEW q \in Queries, ListBegin(r, q)
  PROVE  ListMoves(r)
<1>1. PICK at, total, skip : /\ at = IF ByStock(q) THEN "candidates"
                                     ELSE IF q.sort = "priority" THEN "count" ELSE "page"
                             /\ total = Cardinality(ListWhere(q)) /\ skip = SkipFor(q)
  OBVIOUS
<1>2. PICK y : y = [op |-> "list", at |-> at, q |-> q, total |-> total, touched |-> {},
                    rows |-> << >>, bucket |-> 1, skip |-> skip, take |-> q.limit]
  OBVIOUS
<1>3. req' = [req EXCEPT ![r] = y]  BY <1>1, <1>2 DEF ListBegin, Begin
<1>4. /\ DOMAIN y = ListFields /\ y.op = "list" /\ y.at = at /\ y.q = q /\ y.rows = << >>
      /\ y.total = total /\ y.bucket = 1 /\ y.skip = skip /\ y.take = q.limit /\ y.touched = {}
  BY <1>2 DEF ListFields
<1>5. SkipFor(q) \in Nat /\ q.limit \in Nat /\ q.limit # 0  BY SkipIsNat
<1>6. << >> \in Seq(ListRows) /\ Len(<< >>) = 0  OBVIOUS
<1>7. BookOK  BY DEF ListsInv
<1>8. at \in {"page", "candidates", "count"}  BY <1>1
<1>9. ListTypes(y)  BY <1>1, <1>4, <1>5, <1>6, <1>8 DEF ListTypes
<1>10. ListWay(y)
  <2>1. /\ at = "page" => ~ByStock(q) /\ q.sort # "priority"
        /\ at = "candidates" => ByStock(q)
        /\ at = "count" => ~ByStock(q) /\ q.sort = "priority"
    BY <1>1
  <2>2. Len(y.rows) = 0 /\ y.take + 0 = q.limit /\ 0 <= q.limit  BY <1>4, <1>5, <1>6
  <2> QED  BY <1>1, <1>4, <1>5, <1>8, <2>1, <2>2 DEF ListWay
<1>11. ListOnce(y)
  <2>1. 1 .. Len(y.rows) = {}  BY <1>4, <1>6
  <2> QED  BY <2>1 DEF ListOnce
<1>12. ListWhole(y)
  <2>1. at # "candidates" => total = Cardinality(Matched(q)) /\ Cardinality(Ahead(q, 1)) = 0
    <3>1. ASSUME at # "candidates" PROVE ~ByStock(q)  BY <1>1, <3>1
    <3>2. ASSUME ~ByStock(q) PROVE Matched(q) = ListWhere(q)  BY <3>2, MatchedFinite DEF Matched
    <3> QED  BY <1>1, <1>7, <3>1, <3>2, FirstAndLast
  <2>2. Len(y.rows) = 0 /\ 1 .. Len(y.rows) = {} /\ SkipFor(q) + 0 = 0 + skip
    BY <1>1, <1>4, <1>5, <1>6
  <2> QED  BY <1>4, <1>8, <2>1, <2>2 DEF ListWhole
<1> QED  BY <1>3, <1>4, <1>9, <1>10, <1>11, <1>12 DEF ListMoves, ListingOK, ListOK

\* The badges begin with what is short.
LEMMA BadgesBegin ==
  ASSUME ListsInv, NEW r \in Requests, NEW q \in Queries, AlertsBegin(r, q)
  PROVE  ListMoves(r)
<1>1. PICK short : short = ShortOnes(q)  OBVIOUS
<1>2. PICK y : y = [op |-> "badges", at |-> "due", q |-> q, touched |-> {},
                    short |-> short, due |-> {}, late |-> {}]
  OBVIOUS
<1>3. req' = [req EXCEPT ![r] = y]  BY <1>1, <1>2 DEF AlertsBegin, Begin
<1>4. /\ DOMAIN y = BadgeFields /\ y.op = "badges" /\ y.at = "due" /\ y.q = q
      /\ y.short = short /\ y.touched = {}
  BY <1>2 DEF BadgeFields
<1>5. BadgesOK(y)  BY <1>1, <1>4 DEF BadgesOK
<1> QED  BY <1>3, <1>4, <1>5 DEF ListMoves, ListingOK

\* Of badges under way.
LEMMA BadgesRead ==
  ASSUME ListsInv, NEW r \in Requests, req[r].op = "badges"
  PROVE  BookOK /\ BadgesOK(req[r]) /\ DOMAIN req = Requests
BY DEF ListsInv, ListingOK, RequestsNamed

\* The second read of the badges,
LEMMA DueStep ==
  ASSUME ListsInv, NEW r \in Requests, AlertsDue(r)
  PROVE  ListMoves(r)
<1>1. PICK x : x = req[r]  OBVIOUS
<1>2. BadgesOK(x) /\ DOMAIN req = Requests  BY <1>1, BadgesRead DEF AlertsDue, At
<1>3. PICK due : due = ListWhere(Wanting(x.q, "DUE_SOON"))  OBVIOUS
<1>4. PICK y : y = [x EXCEPT !.due = due, !.at = "late"]  OBVIOUS
<1>5. req' = [req EXCEPT ![r].due = due, ![r].at = "late"]  BY <1>1, <1>3 DEF AlertsDue
<1>6. req' = [req EXCEPT ![r] = y]  BY <1>1, <1>2, <1>4, <1>5
<1>7. DOMAIN x = BadgeFields /\ x.op = "badges" /\ x.q \in Queries /\ x.touched \subseteq Orders
      /\ (x.touched = {} => x.short = ShortOnes(x.q))
  BY <1>2 DEF BadgesOK
<1>8. /\ DOMAIN y = BadgeFields /\ y.op = x.op /\ y.at = "late" /\ y.q = x.q
      /\ y.short = x.short /\ y.touched = x.touched /\ y.due = due
  BY <1>4, <1>7 DEF BadgeFields
<1>9. BadgesOK(y)  BY <1>3, <1>7, <1>8 DEF BadgesOK
<1> QED  BY <1>6, <1>7, <1>8, <1>9 DEF ListMoves, ListingOK

\* and the third.
LEMMA LateStep ==
  ASSUME ListsInv, NEW r \in Requests, AlertsLate(r)
  PROVE  ListMoves(r)
<1>1. PICK x : x = req[r]  OBVIOUS
<1>2. BookOK /\ BadgesOK(x) /\ x.at = "late"  BY <1>1, BadgesRead DEF AlertsLate, At
<1>3. PICK late : late = ListWhere(Wanting(x.q, "PICKUP_OVERDUE"))  OBVIOUS
<1>4. PICK y : y = [[x EXCEPT !.late = late] EXCEPT !.at = "answered"]  OBVIOUS
<1>5. req' = [req EXCEPT ![r] = y]  BY <1>1, <1>3, <1>4 DEF AlertsLate, Finish
<1>6. DOMAIN x = BadgeFields /\ x.op = "badges"  BY <1>2 DEF BadgesOK
<1>7. /\ DOMAIN y = BadgeFields /\ y.op = "badges" /\ y.at = "answered" /\ y.q = x.q
      /\ y.short = x.short /\ y.due = x.due /\ y.touched = x.touched /\ y.late = late
  BY <1>4, <1>6 DEF BadgeFields
<1>8. BadgesOK(y)  BY <1>2, <1>3, <1>7, LateRead
<1> QED  BY <1>5, <1>7, <1>8 DEF ListMoves, ListingOK

\* Who is idle reads no list.
LEMMA IdleLists == ListingOK(Idle)
BY DEF Idle, ListingOK

\* Lists and badges stay right in every step.
LEMMA ListsStep ==
  ASSUME ListsInv, [Next]_vars
  PROVE  ListsInv'
<1>1. RequestsNamed'  BY NextNamed DEF ListsInv
<1>2. CASE OrderListNext
  <2>1. ASSUME NEW o \in Orders, NEW kind \in Edits, Touch(o, kind) PROVE ListsInv'
    BY <2>1, OrderTouched
  <2>2. ASSUME NEW r \in Requests, ListMoves(r), UNCHANGED book PROVE ListsInv'
    BY <1>1, <2>2, OneGoesOn
  <2>3. ASSUME NEW r \in Requests, Send(r) PROVE ListsInv'
    <3>1. UNCHANGED book /\ req' = [req EXCEPT ![r] = Idle]  BY <2>3 DEF Send, Done
    <3> QED  BY <2>2, <3>1, IdleLists DEF ListMoves
  <2>4. ASSUME NEW r \in Requests,
               ListPage(r) \/ BucketCount(r) \/ BucketPage(r) \/ Candidates(r) \/ FoundAgain(r)
        PROVE  ListsInv'
    <3>1. UNCHANGED book  BY <2>4 DEF ListPage, BucketCount, BucketPage, Candidates, FoundAgain
    <3> QED  BY <2>2, <2>4, <3>1, PageStep, CountStep, BucketStep, CandidatesStep, FoundStep
  <2>5. ASSUME NEW r \in Requests, AlertsDue(r) \/ AlertsLate(r) PROVE ListsInv'
    <3>1. UNCHANGED book  BY <2>5 DEF AlertsDue, AlertsLate
    <3> QED  BY <2>2, <2>5, <3>1, DueStep, LateStep
  <2>6. ASSUME NEW r \in Requests, NEW q \in Queries, ListBegin(r, q) \/ AlertsBegin(r, q)
        PROVE  ListsInv'
    <3>1. UNCHANGED book  BY <2>6 DEF ListBegin, AlertsBegin
    <3> QED  BY <2>2, <2>6, <3>1, ListBegins, BadgesBegin
  <2> QED  BY <1>2, <2>1, <2>3, <2>4, <2>5, <2>6 DEF OrderListNext
<1>3. CASE ~OrderListNext
  <2>1. UNCHANGED book  BY <1>3 DEF Next, vars, areaVars, farVars, orderListVars
  <2>2. Keeps(ListOps)
    <3>1. CASE UNCHANGED vars  BY <3>1 DEF Keeps, vars, requestVars
    <3>2. CASE Next
      BY <1>3, <3>2, StaffTouches, RosterTouches, AccessTouches, HandlingTouches, BankingTouches,
         DashboardTouches, RegistersTouches, OutsideTouches, KeepsOthers
         DEF Next, ListsInv, StaffOps, RosterOps, AccessOps, HandlingOps, BankingOps, DashboardOps,
             RegisterOps, ListOps, OutsideOps
    <3> QED  BY <3>1, <3>2
  <2>3. ASSUME NEW q \in Requests PROVE ListingOK(req[q])'
    <3>1. PICK y : y = req'[q]  OBVIOUS
    <3>2. y = req[q] \/ y.op \notin ListOps  BY <2>2, <3>1 DEF Keeps
    <3>3. ListingOK(y)  BY <3>2 DEF ListsInv, ListingOK, ListOps
    <3>4. ListingOK(y)'  BY <2>1, <3>3, ListingStays
    <3> QED  BY <3>1, <3>4 DEF ListingOK
  <2> QED  BY <1>1, <2>1, <2>3 DEF ListsInv, BookOK
<1> QED  BY <1>2, <1>3

\* They are right in the beginning.
LEMMA ListsInit == Init => ListsInv
<1> SUFFICES ASSUME Init PROVE ListsInv  OBVIOUS
<1>1. BookOK  BY DEF Init, OrderListInit, BookOK
<1>2. \A r \in Requests : ListingOK(req[r])  BY IdleLists DEF Init, RequestsInit
<1> QED  BY <1>1, <1>2, InitNamed DEF ListsInv

\* Whichever of the three ways a page came about, and whatever changed meanwhile: an
\* undisturbed page holds the orders whose number of predecessors puts them there, a
\* disturbed one shows no unchanged order twice, and the badges agree with their lists.
THEOREM ListsStayRight == Spec => []ListsAreRight
<1>1. Init => ListsInv  BY ListsInit
<1>2. ListsInv /\ [Next]_vars => ListsInv'  BY ListsStep
<1>3. ASSUME ListsInv PROVE ListsAreRight
  <2>1. ASSUME NEW r \in Requests, Listing(r, "answered") PROVE PageIsRight(req[r])
    <3>1. PICK x : x = req[r]  OBVIOUS
    <3>2. BookOK /\ ListOK(x) /\ x.at = "answered"  BY <1>3, <2>1, <3>1, ListRead DEF Listing, At
    <3> QED  BY <3>1, <3>2, AnsweredPage
  <2>2. ASSUME NEW r \in Requests, At(r, {"badges"}, "answered") PROVE BadgesAreRight(req[r])
    <3>1. PICK x : x = req[r]  OBVIOUS
    <3>2. BadgesOK(x) /\ x.at = "answered"  BY <1>3, <2>2, <3>1, BadgesRead DEF At
    <3> QED  BY <3>1, <3>2 DEF BadgesOK
  <2> QED  BY <2>1, <2>2 DEF ListsAreRight
<1> QED  BY <1>1, <1>2, <1>3, PTL DEF Spec
=============================================================================
