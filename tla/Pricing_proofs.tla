---------------------------- MODULE Pricing_proofs ----------------------------
(***************************************************************************)
(* Theorems about what a shop charges and offers, and what it may use, for *)
(* any number of promotions, customers, items, orders and requests.        *)
(*                                                                         *)
(* Promotions: uses are counted and logged alike, a customer never gets a  *)
(* promotion more often than the largest limit per customer it has had, no *)
(* use is counted beyond the limit that stands at that moment, and a sale  *)
(* charges what the engine quoted and takes off no more than it grants.    *)
(*                                                                         *)
(* ComboCatalogue: however combos are nested, what the catalogue offers    *)
(* can be sold, and the stored costs add up while no two pricings overlap. *)
(*                                                                         *)
(* Subscription, for any plans, terms, quotas, days of grace, rows and     *)
(* invoices: a shop is locked out only when its term is over, a renewal    *)
(* never takes days away, and the quota is overrun by one row per request  *)
(* at most.                                                                *)
(***************************************************************************)
EXTENDS Promotions, ComboCatalogue, Subscription, SumTheorems, SequenceTheorems

LogRow == [promo : Promos, order : Orders, customer : Customers \cup {WalkIn}]

\* A cart, and the lines of a cart at some prices.
CartOK(cart) == /\ IsFiniteSet(DOMAIN cart)
                /\ \A i \in DOMAIN cart : cart[i].item \in Items /\ cart[i].qty \in Nat
LinesOK(lines) == /\ IsFiniteSet(DOMAIN lines)
                  /\ \A i \in DOMAIN lines : lines[i].total \in Nat

\* A cap is no larger than the largest one.
Within(n, most) == most = NoLimit \/ (n # NoLimit /\ n \in Nat /\ most \in Nat /\ n <= most)

\* What an open request carries; m are the largest caps there have been.
RequestOK(x, m) ==
  /\ x.op = "sell" => x.order \in Orders /\ x.promos \subseteq Promos /\ CartOK(x.cart)
  /\ x.op = "apply" => /\ x.promos \subseteq Promos /\ x.order \in Orders
                       /\ x.customer \in Customers \cup {WalkIn}
                       /\ \A p \in x.promos : Within(x.caps[p], m[p])

StateOK ==
  /\ price \in [Items -> Nat]
  /\ active \subseteq Promos
  /\ limit \in [Promos -> Nat \cup {NoLimit}]
  /\ cap \in [Promos -> Nat \cup {NoLimit}]
  /\ highest \in [Promos -> Nat \cup {NoLimit}]
  /\ \A p \in Promos : Within(cap[p], highest[p])
  /\ used \in [Promos -> Nat]
  /\ logs \subseteq LogRow /\ IsFiniteSet(logs)
  /\ sold \subseteq Orders
  /\ DOMAIN req = Requests
  /\ \A r \in Requests : RequestOK(req[r], highest)

\* The log rows of a promotion, and those of one customer.
LogOf(p) == {g \in logs : g.promo = p}
LogBy(k, p) == {g \in logs : g.promo = p /\ g.customer = k}

\* No customer has more uses than the largest cap.
UsesWithin == \A p \in Promos : highest[p] # NoLimit =>
                \A k \in Customers : Cardinality(LogBy(k, p)) <= highest[p]

IndInv == StateOK /\ UsesAreLogged /\ UsesWithin

------------------------------------------------------------------------------
LEMMA InitIndInv == Init => IndInv
<1> SUFFICES ASSUME Init PROVE IndInv  OBVIOUS
<1> USE PromotionsAssumption, LimitsAssumption
<1>0. /\ limit \in [Promos -> Nat \cup {NoLimit}]
      /\ cap \in [Promos -> Nat \cup {NoLimit}] /\ highest = cap
  <2>1. /\ limit \in [Promos -> UNION {Limits[p] : p \in Promos}]
        /\ \A p \in Promos : limit[p] \in Limits[p]
        /\ cap \in [Promos -> UNION {Caps[p] : p \in Promos}]
        /\ \A p \in Promos : cap[p] \in Caps[p]
        /\ highest = cap
    BY DEF Init
  <2>2. \A p \in Promos : limit[p] \in Nat \cup {NoLimit} /\ cap[p] \in Nat \cup {NoLimit}
    BY <2>1
  <2> QED  BY <2>1, <2>2
<1>1. StateOK
  <2>1. price \in [Items -> Nat]  BY DEF Init
  <2>2. \A p \in Promos : Within(cap[p], highest[p])  BY <1>0 DEF Within
  <2>3. \A r \in Requests : RequestOK(req[r], highest)  BY DEF Init, RequestOK, Idle
  <2> QED  BY <1>0, <2>1, <2>2, <2>3, FS_EmptySet DEF Init, StateOK
<1>2. \A p \in Promos, k \in Customers : LogOf(p) = {} /\ LogBy(k, p) = {}
  BY DEF Init, LogOf, LogBy
<1>3. Cardinality({}) = 0  BY FS_EmptySet
<1>4. UsesAreLogged  BY <1>2, <1>3 DEF Init, UsesAreLogged, LogOf
<1>5. UsesWithin
  <2> SUFFICES ASSUME NEW p \in Promos, highest[p] # NoLimit, NEW k \in Customers
               PROVE  Cardinality(LogBy(k, p)) <= highest[p]
    BY DEF UsesWithin
  <2>1. highest[p] \in Nat  BY <1>0
  <2>2. Cardinality(LogBy(k, p)) = 0  BY <1>2, <1>3
  <2> QED  BY <2>1, <2>2
<1> QED  BY <1>1, <1>4, <1>5 DEF IndInv

\* A step that counts no use and leaves the caps alone.
LEMMA NoUseStep ==
  ASSUME IndInv, UNCHANGED <<cap, highest, used, logs>>,
         price' \in [Items -> Nat], active' \subseteq Promos,
         limit' \in [Promos -> Nat \cup {NoLimit}], sold' \subseteq Orders,
         DOMAIN req' = Requests, \A r \in Requests : RequestOK(req'[r], highest)
  PROVE  IndInv'
<1>1. StateOK'  BY DEF IndInv, StateOK
<1>2. UsesAreLogged'  BY DEF IndInv, UsesAreLogged
<1>3. UsesWithin'  BY DEF IndInv, UsesWithin, LogBy
<1> QED  BY <1>1, <1>2, <1>3 DEF IndInv

\* A cap that the owner sets: the largest one only grows.
LEMMA SetCapStep ==
  ASSUME IndInv, NEW c \in Promos, NEW n \in Caps[c], SetCap(c, n)
  PROVE  IndInv'
<1> USE PromotionsAssumption, LimitsAssumption
<1>1. /\ cap' = [cap EXCEPT ![c] = n]
      /\ highest' = [highest EXCEPT ![c] = IF NoLimit \in {n, highest[c]} THEN NoLimit
                                           ELSE Larger(n, highest[c])]
      /\ UNCHANGED <<price, active, limit, used, logs, sold, req>>
  BY DEF SetCap, IndInv, StateOK
<1>2. /\ cap \in [Promos -> Nat \cup {NoLimit}] /\ highest \in [Promos -> Nat \cup {NoLimit}]
      /\ \A p \in Promos : Within(cap[p], highest[p])
      /\ n \in Nat \cup {NoLimit}
  BY DEF IndInv, StateOK
<1>3. /\ cap' \in [Promos -> Nat \cup {NoLimit}] /\ highest' \in [Promos -> Nat \cup {NoLimit}]
      /\ \A p \in Promos : p # c => cap'[p] = cap[p] /\ highest'[p] = highest[p]
      /\ cap'[c] = n
      /\ highest'[c] = NoLimit \/ (/\ n # NoLimit /\ highest[c] # NoLimit
                                   /\ highest'[c] >= n /\ highest'[c] >= highest[c]
                                   /\ highest'[c] \in Nat /\ n \in Nat)
  BY <1>1, <1>2 DEF Larger
<1>4. \A p \in Promos : \A k : Within(k, highest[p]) => Within(k, highest'[p])
  BY <1>2, <1>3 DEF Within
<1>5. \A p \in Promos : Within(cap'[p], highest'[p])  BY <1>2, <1>3, <1>4 DEF Within
<1>6. \A r \in Requests : RequestOK(req'[r], highest')
  BY <1>1, <1>4 DEF IndInv, StateOK, RequestOK
<1>7. StateOK'  BY <1>1, <1>3, <1>5, <1>6 DEF IndInv, StateOK
<1>8. UsesAreLogged'  BY <1>1 DEF IndInv, UsesAreLogged
<1>9. UsesWithin'
  <2> SUFFICES ASSUME NEW p \in Promos, highest'[p] # NoLimit, NEW k \in Customers
               PROVE  Cardinality(LogBy(k, p)') <= highest'[p]
    BY DEF UsesWithin
  <2>1. LogBy(k, p)' = LogBy(k, p) /\ IsFiniteSet(LogBy(k, p))
    BY <1>1, FS_Subset DEF LogBy, IndInv, StateOK
  <2>2. highest[p] # NoLimit /\ highest[p] \in Nat /\ highest'[p] \in Nat
        /\ highest[p] <= highest'[p]
    BY <1>2, <1>3
  <2>3. Cardinality(LogBy(k, p)) <= highest[p] /\ Cardinality(LogBy(k, p)) \in Nat
    BY <2>1, <2>2, FS_CardinalityType DEF IndInv, UsesWithin
  <2> QED  BY <2>1, <2>2, <2>3
<1> QED  BY <1>7, <1>8, <1>9 DEF IndInv

LEMMA IdleOK == RequestOK(Idle, highest)
BY DEF RequestOK, Idle

\* A request takes another turn.
LEMMA RequestStep ==
  ASSUME IndInv, NEW r \in Requests, NEW x, RequestOK(x, highest), req' = [req EXCEPT ![r] = x],
         UNCHANGED <<price, active, limit, cap, highest, used, logs>>, sold' \subseteq Orders
  PROVE  IndInv'
<1>1. DOMAIN req' = Requests /\ \A q \in Requests : RequestOK(req'[q], highest)
  BY DEF IndInv, StateOK
<1> QED  BY <1>1, NoUseStep DEF IndInv, StateOK

\* Rows of one promotion that the log did not have are one row more.
LEMMA OneRowMore ==
  ASSUME NEW S, IsFiniteSet(S), NEW g, g \notin S
  PROVE  Cardinality(S) \in Nat /\ Cardinality(S \cup {g}) = Cardinality(S) + 1
BY FS_CardinalityType, FS_AddElement

LEMMA ApplyCommitStep ==
  ASSUME IndInv, NEW r \in Requests, ApplyCommit(r)
  PROVE  IndInv'
<1> USE PromotionsAssumption, LimitsAssumption
<1> DEFINE q == req[r]
           row(p) == [promo |-> p, order |-> q.order, customer |-> q.customer]
           new == {row(p) : p \in q.promos}
<1>1. /\ q.op = "apply"
      /\ \A p \in q.promos : Claims(r, p) /\ WithinCap(r, p)
      /\ \A g \in logs : ~ (g.order = q.order /\ g.promo \in q.promos)
      /\ used' = [p \in Promos |-> IF p \in q.promos THEN used[p] + 1 ELSE used[p]]
      /\ logs' = logs \cup new
      /\ req' = [req EXCEPT ![r] = Idle]
      /\ UNCHANGED <<price, active, limit, cap, highest, sold>>
  BY DEF ApplyCommit
<1>2. StateOK /\ UsesAreLogged /\ UsesWithin  BY DEF IndInv
<1>3. q.promos \subseteq Promos /\ q.order \in Orders /\ q.customer \in Customers \cup {WalkIn}
  BY <1>1, <1>2 DEF StateOK, RequestOK
<1> HIDE DEF q
<1>4. \A p \in q.promos : row(p) \notin logs
  BY <1>1
<1>5. IsFiniteSet(new)
  <2>1. IsFiniteSet(q.promos)  BY <1>3, FS_Subset
  <2> DEFINE rowOf == [p \in q.promos |-> row(p)]
  <2>2. rowOf \in Surjection(q.promos, new)
    BY DEF Surjection
  <2> QED  BY <2>1, <2>2, FS_Surjection
<1>6. StateOK'
  <2>1. new \subseteq LogRow  BY <1>3 DEF LogRow
  <2>2. IsFiniteSet(logs')  BY <1>1, <1>2, <1>5, FS_Union DEF StateOK
  <2>3. DOMAIN req' = Requests /\ \A s \in Requests : RequestOK(req'[s], highest)
    BY <1>1, <1>2 DEF StateOK, RequestOK, Idle
  <2>4. used' \in [Promos -> Nat]  BY <1>1, <1>2 DEF StateOK
  <2> QED  BY <1>1, <1>2, <2>1, <2>2, <2>3, <2>4 DEF StateOK
<1>7. \A p, k : IsFiniteSet(LogOf(p)) /\ IsFiniteSet(LogBy(k, p))
  BY <1>2, FS_Subset DEF StateOK, LogOf, LogBy
<1>8. UsesAreLogged'
  <2> SUFFICES ASSUME NEW p \in Promos PROVE used'[p] = Cardinality(LogOf(p)')
    BY DEF UsesAreLogged, LogOf
  <2>1. used[p] = Cardinality(LogOf(p))  BY <1>2 DEF UsesAreLogged, LogOf
  <2>2. CASE p \in q.promos
    <3>1. LogOf(p)' = LogOf(p) \cup {row(p)}  BY <1>1, <2>2 DEF LogOf
    <3>2. row(p) \notin LogOf(p)  BY <1>4, <2>2 DEF LogOf
    <3>3. Cardinality(LogOf(p) \cup {row(p)}) = Cardinality(LogOf(p)) + 1
      BY <1>7, <3>2, OneRowMore
    <3> QED  BY <1>1, <2>1, <2>2, <3>1, <3>3
  <2>3. CASE p \notin q.promos
    <3>1. LogOf(p)' = LogOf(p)  BY <1>1, <2>3 DEF LogOf
    <3> QED  BY <1>1, <2>1, <2>3, <3>1
  <2> QED  BY <2>2, <2>3
<1>9. UsesWithin'
  <2> SUFFICES ASSUME NEW p \in Promos, highest[p] # NoLimit, NEW k \in Customers
               PROVE  Cardinality(LogBy(k, p)') <= highest[p]
    BY <1>1 DEF UsesWithin
  <2>1. Cardinality(LogBy(k, p)) <= highest[p] /\ highest[p] \in Nat
    BY <1>2 DEF UsesWithin, StateOK
  <2>2. CASE p \in q.promos /\ k = q.customer
    <3>1. LogBy(k, p)' = LogBy(k, p) \cup {row(p)}  BY <1>1, <2>2 DEF LogBy
    <3>2. row(p) \notin LogBy(k, p)  BY <1>4, <2>2 DEF LogBy
    <3>3. /\ Cardinality(LogBy(k, p)) \in Nat
          /\ Cardinality(LogBy(k, p) \cup {row(p)}) = Cardinality(LogBy(k, p)) + 1
      BY <1>7, <3>2, OneRowMore
    <3>4. q.caps[p] # NoLimit /\ q.caps[p] \in Nat /\ q.caps[p] <= highest[p]
      BY <1>1, <1>2, <2>2 DEF StateOK, RequestOK, Within, q
    <3>5. Cardinality(LogBy(k, p)) < q.caps[p]
      BY <1>1, <2>2, <3>4 DEF WithinCap, CapLeft, Under, UsesBy, LogBy, q
    <3> QED  BY <2>1, <3>1, <3>3, <3>4, <3>5
  <2>3. CASE ~(p \in q.promos /\ k = q.customer)
    <3>1. LogBy(k, p)' = LogBy(k, p)  BY <1>1, <2>3 DEF LogBy
    <3> QED  BY <2>1, <3>1
  <2> QED  BY <2>2, <2>3
<1> QED  BY <1>6, <1>8, <1>9 DEF IndInv

\* The carts a register sends.
LEMMA CartsAreOK == \A offs : \A cart \in CartsWith(offs) : CartOK(cart)
<1> SUFFICES ASSUME NEW offs, NEW cart \in CartsWith(offs) PROVE CartOK(cart)
  OBVIOUS
<1>1. PICK n \in 1 .. MaxLines : cart \in [1 .. n -> [item : Items, qty : Qtys, off : offs]]
  BY DEF CartsWith
<1>2. DOMAIN cart = 1 .. n /\ \A i \in 1 .. n : cart[i].item \in Items /\ cart[i].qty \in Qtys
  BY <1>1
<1>3. IsFiniteSet(1 .. n)  BY FS_Interval
<1> QED  BY <1>2, <1>3, PromotionsAssumption DEF CartOK

LEMMA NextIndInv == IndInv /\ [Next]_vars => IndInv'
<1> USE PromotionsAssumption, LimitsAssumption
<1> SUFFICES ASSUME IndInv, [Next]_vars PROVE IndInv'  OBVIOUS
<1>given. StateOK  BY DEF IndInv
<1>1. ASSUME NEW r \in Requests, NEW o \in Orders, NEW k, NEW ps \in SUBSET Promos, NEW off,
             NEW offs, NEW cart \in CartsWith(offs), SellRead(r, o, k, cart, ps, off)
      PROVE  IndInv'
  <2> DEFINE x == [op |-> "sell", order |-> o, customer |-> k, cart |-> cart, promos |-> ps,
                   lines |-> AtPrices(cart, price), off |-> off]
  <2>1. RequestOK(x, highest)  BY CartsAreOK DEF RequestOK
  <2>2. req' = [req EXCEPT ![r] = x] /\ UNCHANGED <<price, active, limit, cap, highest, used, logs, sold>>
    BY <1>1 DEF SellRead
  <2> HIDE DEF x
  <2> QED  BY <1>given, <2>1, <2>2, RequestStep DEF StateOK
<1>2. ASSUME NEW r \in Requests, SellCommit(r)  PROVE IndInv'
  <2>1. /\ req' = [req EXCEPT ![r] = Idle] /\ UNCHANGED <<price, active, limit, cap, highest, used, logs>>
        /\ sold' = sold \cup {req[r].order}
    BY <1>2 DEF SellCommit
  <2>2. req[r].op = "sell"  BY <1>2 DEF SellCommit, Sells
  <2>3. req[r].order \in Orders  BY <1>given, <2>2 DEF StateOK, RequestOK
  <2> QED  BY <1>given, <2>1, <2>3, RequestStep, IdleOK DEF StateOK
<1>3. ASSUME NEW r \in Requests, NEW o \in sold, NEW k \in Customers \cup {WalkIn},
             NEW ps \in SUBSET Promos, NEW cart, ApplyRead(r, o, k, cart, ps)
      PROVE  IndInv'
  <2> DEFINE x == [op |-> "apply", order |-> o, customer |-> k, promos |-> ps,
                   uses |-> [p \in ps |-> UsesBy(k, p)], caps |-> [p \in ps |-> cap[p]]]
  <2>1. RequestOK(x, highest)
    <3>1. x.op = "apply" /\ x.promos = ps /\ x.order = o /\ x.customer = k
          /\ \A p \in ps : x.caps[p] = cap[p]
      OBVIOUS
    <3> HIDE DEF x
    <3> QED  BY <1>given, <3>1 DEF RequestOK, StateOK
  <2>2. req' = [req EXCEPT ![r] = x] /\ UNCHANGED <<price, active, limit, cap, highest, used, logs, sold>>
    BY <1>3 DEF ApplyRead
  <2> HIDE DEF x
  <2> QED  BY <1>given, <2>1, <2>2, RequestStep DEF StateOK
<1>4. ASSUME NEW r \in Requests, Abandon(r)  PROVE IndInv'
  BY <1>given, <1>4, RequestStep, IdleOK DEF Abandon, StateOK
<1>5. ASSUME NEW p \in Promos, NEW n \in Limits[p], SetLimit(p, n)  PROVE IndInv'
  <2>1. limit' \in [Promos -> Nat \cup {NoLimit}]  BY <1>given, <1>5 DEF SetLimit, StateOK
  <2> QED  BY <1>given, <1>5, <2>1, NoUseStep DEF SetLimit, StateOK
<1>6. ASSUME NEW p \in Promos, NEW on \in BOOLEAN, SetStatus(p, on)  PROVE IndInv'
  <2>1. active' \subseteq Promos  BY <1>given, <1>6 DEF SetStatus, StateOK
  <2> QED  BY <1>given, <1>6, <2>1, NoUseStep DEF SetStatus, StateOK
<1>7. ASSUME NEW i \in Items, NEW n \in Prices, Reprice(i, n)  PROVE IndInv'
  <2>1. price' \in [Items -> Nat]  BY <1>given, <1>7 DEF Reprice, StateOK
  <2> QED  BY <1>given, <1>7, <2>1, NoUseStep DEF Reprice, StateOK
<1>8. CASE UNCHANGED vars  BY <1>given, <1>8, NoUseStep DEF vars, StateOK
<1> QED
  BY <1>1, <1>2, <1>3, <1>4, <1>5, <1>6, <1>7, <1>8, ApplyCommitStep, SetCapStep DEF Next

------------------------------------------------------------------------------
\* Types, and the ledger: a promotion's counter is the number of its log rows,
\* whatever requests are refused half way (promotions.service.ts, apply).
THEOREM UsesAreLoggedAlways == Spec => [](TypeOK /\ UsesAreLogged)
<1>1. IndInv => TypeOK /\ UsesAreLogged
  BY DEF IndInv, StateOK, TypeOK, LogRow
<1> QED  BY <1>1, InitIndInv, NextIndInv, PTL DEF Spec

\* However many registers apply a promotion at once, and however the owner
\* edits its limit per customer, a customer gets it no more often than the
\* largest one it has had: the count under the lock of the promotion's row
\* decides. A use beyond the limit that stands comes only from a sale that had
\* read another (promotions.service.ts, apply and update).
THEOREM CustomerStaysWithinCap == Spec => CustomerWithinCap
<1> DEFINE Most == \A p \in Promos, k \in Customers :
                     highest[p] # NoLimit => UsesBy(k, p) <= highest[p]
           Use(k, p) == UsesBy(k, p)' > UsesBy(k, p) =>
                          \/ cap[p] = NoLimit \/ UsesBy(k, p)' <= cap[p]
                          \/ \E r \in Requests : /\ req[r].op = "apply" /\ req'[r] = Idle
                                                 /\ req[r].customer = k /\ p \in req[r].promos
                                                 /\ req[r].caps[p] # cap[p]
           Uses == \A p \in Promos, k \in Customers : Use(k, p)
<1>1. IndInv => Most  BY DEF IndInv, UsesWithin, UsesBy, LogBy
<1>2. IndInv /\ [Next]_vars => [Uses]_vars
  <2> SUFFICES ASSUME IndInv, Next PROVE Uses  OBVIOUS
  <2>0. \A p, k : Cardinality(LogBy(k, p)) \in Nat /\ UsesBy(k, p) = Cardinality(LogBy(k, p))
                 /\ UsesBy(k, p)' = Cardinality(LogBy(k, p)')
    BY FS_Subset, FS_CardinalityType DEF IndInv, StateOK, UsesBy, LogBy
  <2>1. ASSUME UNCHANGED logs PROVE Uses
    <3>1. \A p, k : UsesBy(k, p)' = UsesBy(k, p)  BY <2>1 DEF UsesBy
    <3> QED  BY <2>0, <3>1
  <2>2. ASSUME NEW r \in Requests, ApplyCommit(r) PROVE Uses
    <3> SUFFICES ASSUME NEW p \in Promos, NEW k \in Customers, UsesBy(k, p)' > UsesBy(k, p)
                 PROVE  Use(k, p)
      OBVIOUS
    <3> DEFINE row == [promo |-> p, order |-> req[r].order, customer |-> req[r].customer]
    <3>1. /\ req[r].op = "apply" /\ req'[r] = Idle
          /\ \A m \in req[r].promos : WithinCap(r, m)
          /\ \A g \in logs : ~ (g.order = req[r].order /\ g.promo \in req[r].promos)
          /\ logs' = logs \cup {[promo |-> m, order |-> req[r].order, customer |-> req[r].customer]
                                   : m \in req[r].promos}
      BY <2>2 DEF ApplyCommit, IndInv, StateOK
    <3>2. p \in req[r].promos /\ k = req[r].customer
      <4>1. ASSUME ~(p \in req[r].promos /\ k = req[r].customer) PROVE FALSE
        <5>1. LogBy(k, p)' = LogBy(k, p)  BY <3>1, <4>1 DEF LogBy
        <5> QED  BY <2>0, <5>1
      <4> QED  BY <4>1
    <3>3. LogBy(k, p)' = LogBy(k, p) \cup {row} /\ row \notin LogBy(k, p)
      BY <3>1, <3>2 DEF LogBy
    <3>4. UsesBy(k, p)' = UsesBy(k, p) + 1
      <4>1. IsFiniteSet(LogBy(k, p))  BY FS_Subset DEF IndInv, StateOK, LogBy
      <4> HIDE DEF row
      <4> QED  BY <2>0, <3>3, <4>1, OneRowMore
    <3>5. cap[p] = NoLimit \/ UsesBy(k, p)' <= cap[p] \/ req[r].caps[p] # cap[p]
      <4>1. Under(UsesBy(k, p), req[r].caps[p])
        BY <3>1, <3>2, PromotionsAssumption DEF WithinCap, CapLeft
      <4>2. cap[p] \in Nat \cup {NoLimit}  BY DEF IndInv, StateOK
      <4> QED  BY <2>0, <3>4, <4>1, <4>2 DEF Under
    <3> QED  BY <3>1, <3>2, <3>5
  <2>3. UNCHANGED logs \/ \E r \in Requests : ApplyCommit(r)
    BY DEF Next, SellRead, SellCommit, ApplyRead, Abandon, SetLimit, SetCap, SetStatus, Reprice
  <2> QED  BY <2>1, <2>2, <2>3
<1>3. Spec => []Most
  <2> HIDE DEF Most
  <2> QED  BY <1>1, InitIndInv, NextIndInv, PTL DEF Spec
<1>4. Spec => [][Uses]_vars
  <2> HIDE DEF Uses
  <2> QED  BY <1>2, InitIndInv, NextIndInv, PTL DEF Spec
<1> QED  BY <1>3, <1>4 DEF CustomerWithinCap

\* No use is counted beyond the limit that stands when it is counted, also
\* when the owner lowered it meanwhile (promotions.service.ts, apply).
THEOREM LimitIsKept == Spec => LimitHolds
<1> DEFINE Kept == \A p \in Promos : used'[p] # used[p] =>
                     limit[p] = NoLimit \/ used'[p] <= limit[p]
<1>1. IndInv /\ [Next]_vars => [Kept]_vars
  <2> SUFFICES ASSUME IndInv, Next PROVE Kept  OBVIOUS
  <2>1. ASSUME NEW r \in Requests, ApplyCommit(r)  PROVE Kept
    <3> SUFFICES ASSUME NEW p \in Promos, used'[p] # used[p], limit[p] # NoLimit
                 PROVE  used'[p] <= limit[p]
      OBVIOUS
    <3>1. used[p] \in Nat /\ limit[p] \in Nat  BY DEF IndInv, StateOK
    <3>2. used' = [q \in Promos |-> IF q \in req[r].promos THEN used[q] + 1 ELSE used[q]]
      BY <2>1 DEF ApplyCommit
    <3>3. p \in req[r].promos /\ used'[p] = used[p] + 1  BY <3>2
    <3>4. used[p] < limit[p]
      BY <2>1, <3>3 DEF ApplyCommit, Claims, UseLeft, Under
    <3> QED  BY <3>1, <3>3, <3>4
  <2>2. ASSUME used' = used  PROVE Kept  BY <2>2
  <2>3. (\E r \in Requests : ApplyCommit(r)) \/ used' = used
    BY DEF Next, SellRead, SellCommit, ApplyRead, Abandon, SetLimit, SetCap, SetStatus, Reprice
  <2> QED  BY <2>1, <2>2, <2>3
<1> QED  BY <1>1, InitIndInv, NextIndInv, PTL DEF Spec, LimitHolds

------------------------------------------------------------------------------
(* The engine's money. *)

LEMMA Quotients == \A a \in Nat, b \in Nat \ {0} : a \div b \in Nat /\ b * (a \div b) <= a
OBVIOUS

\* Rounding adds at most a half.
LEMMA RoundedBelow ==
  \A n \in Nat, d \in Nat \ {0} :
    Rounded(n, d) \in Nat /\ d * (2 * Rounded(n, d)) <= 2 * n + d
<1> TAKE n \in Nat, d \in Nat \ {0}
<1>1. 2 * n + d \in Nat /\ 2 * d \in Nat \ {0}  OBVIOUS
<1>2. PICK q : q = Rounded(n, d)  OBVIOUS
<1>3. q \in Nat /\ (2 * d) * q <= 2 * n + d  BY <1>1, <1>2, Quotients DEF Rounded
<1>4. (2 * d) * q = d * (2 * q)  BY <1>3
<1> QED  BY <1>2, <1>3, <1>4

LEMMA ProductsAreNat == \A a, b \in Nat : a * b \in Nat
OBVIOUS

\* A discount and its parts are amounts of money.
LEMMA SharesAreMoney ==
  ASSUME NEW p \in Promos, NEW L, LinesOK(L)
  PROVE  /\ IsFiniteSet(Matched(p, L)) /\ Matched(p, L) \subseteq DOMAIN L
         /\ MatchedTotal(p, L) \in Nat /\ RawDiscount(p, L) \in Nat
         /\ \A i \in DOMAIN L : Share(p, L, i) \in Nat
<1>1. IsFiniteSet(Matched(p, L)) /\ Matched(p, L) \subseteq DOMAIN L
  BY FS_Subset DEF Matched, LinesOK
<1>2. MatchedTotal(p, L) \in Nat
  <2>1. PICK f : f = [i \in Matched(p, L) |-> L[i].total]  OBVIOUS
  <2>2. MatchedTotal(p, L) = SumFunctionOnSet(f, Matched(p, L))
    BY <2>1, SumWhole DEF MatchedTotal
  <2>3. \A i \in Matched(p, L) : f[i] \in Nat  BY <1>1, <2>1 DEF LinesOK
  <2> QED  BY <1>1, <2>2, <2>3, SumNat
<1>3. RawDiscount(p, L) \in Nat
  <2>1. PICK total : total = MatchedTotal(p, L)  OBVIOUS
  <2>2. Value[p] \in Nat /\ MaxDiscount[p] \in Nat \cup {NoLimit}
    BY PromotionsAssumption, LimitsAssumption
  <2>3. Rounded(total * Value[p], 100) \in Nat
    <3>1. PICK n : n = total * Value[p]  OBVIOUS
    <3>2. n \in Nat  BY <1>2, <2>1, <2>2, <3>1, ProductsAreNat
    <3>3. 100 \in Nat \ {0}  OBVIOUS
    <3> QED  BY <3>1, <3>2, <3>3, RoundedBelow
  <2> QED  BY <1>2, <2>1, <2>2, <2>3 DEF RawDiscount, Smaller
<1>4. ASSUME NEW i \in DOMAIN L PROVE Share(p, L, i) \in Nat
  <2>1. L[i].total * RawDiscount(p, L) \in Nat  BY <1>3, ProductsAreNat DEF LinesOK
  <2>2. PICK n, d : n = L[i].total * RawDiscount(p, L) /\ d = MatchedTotal(p, L)
    OBVIOUS
  <2>3. d > 0 => d \in Nat \ {0}  BY <1>2, <2>2
  <2>4. d > 0 => Rounded(n, d) \in Nat  BY <2>1, <2>2, <2>3, RoundedBelow
  <2>5. Share(p, L, i) = IF i \in Matched(p, L) /\ d > 0 THEN Rounded(n, d) ELSE 0
    BY <2>2 DEF Share
  <2>6. 0 \in Nat  OBVIOUS
  <2> QED  BY <2>4, <2>5, <2>6, Zenon
<1> QED  BY <1>1, <1>2, <1>3, <1>4

LEMMA Cancels == \A m \in Nat \ {0}, a, b \in Nat : m * a <= m * b => a <= b
OBVIOUS

\* What one promotion takes off all lines exceeds what it grants by at most
\* half a dong on each line it matches.
LEMMA SharesAddUp ==
  ASSUME NEW p \in Promos, NEW L, LinesOK(L), NEW s, \A i \in DOMAIN L : s[i] = Share(p, L, i)
  PROVE  2 * SumFunctionOnSet(s, DOMAIN L)
           <= 2 * RawDiscount(p, L) + Cardinality(Matched(p, L))
<1> DEFINE M == Matched(p, L)
           total == MatchedTotal(p, L)
           raw == RawDiscount(p, L)
<1>1. /\ IsFiniteSet(M) /\ M \subseteq DOMAIN L /\ IsFiniteSet(DOMAIN L)
      /\ total \in Nat /\ raw \in Nat /\ Cardinality(M) \in Nat
      /\ \A i \in DOMAIN L : s[i] \in Nat /\ L[i].total \in Nat
  BY SharesAreMoney, FS_CardinalityType DEF LinesOK
<1>2. \A i \in DOMAIN L : i \notin M => s[i] = 0  BY DEF Share
<1>3. SumFunctionOnSet(s, DOMAIN L) = SumFunctionOnSet(s, M)
  <2> HIDE DEF M
  <2> QED  BY <1>1, <1>2, SumNonZero
<1>4. CASE total = 0
  <2>1. \A i \in M : s[i] = 0  BY <1>1, <1>4 DEF Share
  <2>2. SumFunctionOnSet(s, M) = 0
    <3> HIDE DEF M
    <3> QED  BY <1>1, <2>1, SumZero
  <2> HIDE DEF M, raw
  <2>3. 2 * 0 <= 2 * raw + Cardinality(M)  BY <1>1
  <2> QED  BY <1>3, <2>2, <2>3 DEF M, raw
<1>5. CASE total # 0
  <2> DEFINE t == [i \in M |-> L[i].total]
             one == [i \in M |-> 1]
             grant == [i \in M |-> (2 * raw) * t[i]]
             half == [i \in M |-> total * one[i]]
             both == [i \in M |-> grant[i] + half[i]]
             twice == [i \in M |-> 2 * s[i]]
             taken == [i \in M |-> total * twice[i]]
  <2>1. total = SumFunctionOnSet(t, M)  BY SumWhole DEF MatchedTotal
  <2>2. \A i \in M : /\ t[i] \in Nat /\ one[i] \in Nat /\ twice[i] \in Nat
                     /\ grant[i] \in Nat /\ half[i] \in Nat /\ both[i] \in Nat /\ taken[i] \in Nat
    <3> TAKE i \in M
    <3>1. t[i] \in Nat /\ one[i] \in Nat /\ twice[i] \in Nat /\ 2 * raw \in Nat  BY <1>1
    <3>2. (2 * raw) * t[i] \in Nat /\ total * one[i] \in Nat /\ total * twice[i] \in Nat
      BY <1>1, <3>1, ProductsAreNat
    <3> QED  BY <3>1, <3>2
  <2>3. \A i \in M : taken[i] <= both[i]
    <3> TAKE i \in M
    <3>1. s[i] = Rounded(t[i] * raw, total)  BY <1>1, <1>5 DEF Share
    <3>2. t[i] \in Nat /\ t[i] * raw \in Nat  BY <1>1, <2>2, ProductsAreNat
    <3> HIDE DEF raw, total, t
    <3>3. total * (2 * s[i]) <= 2 * (t[i] * raw) + total
      BY <1>1, <1>5, <3>1, <3>2, RoundedBelow
    <3>4. 2 * (t[i] * raw) = (2 * raw) * t[i] /\ total * 1 = total  BY <1>1, <3>2
    <3> QED  BY <3>3, <3>4
  <2>4. grant = [i \in M |-> (2 * raw) * t[i]] /\ half = [i \in M |-> total * one[i]]
        /\ both = [i \in M |-> grant[i] + half[i]] /\ taken = [i \in M |-> total * twice[i]]
        /\ twice = [i \in M |-> 2 * s[i]] /\ \A i \in M : one[i] = 1
    OBVIOUS
  <2> HIDE DEF t, one, grant, half, both, twice, taken, M, raw, total
  <2>5. SumFunctionOnSet(taken, M) <= SumFunctionOnSet(both, M)
    BY <1>1, <2>2, <2>3, SumBelow
  <2>6. SumFunctionOnSet(both, M) = SumFunctionOnSet(grant, M) + SumFunctionOnSet(half, M)
    BY <1>1, <2>2, <2>4, SumOfTwo
  <2>7. SumFunctionOnSet(grant, M) = (2 * raw) * total
    <3>1. 2 * raw \in Int  BY <1>1
    <3> QED  BY <1>1, <2>1, <2>2, <2>4, <3>1, SumScaled
  <2>8. SumFunctionOnSet(half, M) = total * Cardinality(M)
    <3>1. SumFunctionOnSet(one, M) = Cardinality(M)  BY <1>1, <2>4, SumOfOnes
    <3> QED  BY <1>1, <2>2, <2>4, <3>1, SumScaled
  <2>9. SumFunctionOnSet(taken, M) = total * SumFunctionOnSet(twice, M)
    BY <1>1, <2>2, <2>4, SumScaled
  <2>10. SumFunctionOnSet(twice, M) = 2 * SumFunctionOnSet(s, M)
    BY <1>1, <2>4, SumScaled
  <2>11. SumFunctionOnSet(s, M) \in Nat  BY <1>1, SumNat
  <2>12. (2 * raw) * total + total * Cardinality(M) = total * (2 * raw + Cardinality(M))
    BY <1>1
  <2>13. total * (2 * SumFunctionOnSet(s, M)) <= total * (2 * raw + Cardinality(M))
    BY <2>5, <2>6, <2>7, <2>8, <2>9, <2>10, <2>12
  <2>14. 2 * SumFunctionOnSet(s, M) \in Nat /\ 2 * raw + Cardinality(M) \in Nat
         /\ total \in Nat \ {0}
    BY <1>1, <1>5, <2>11
  <2>15. 2 * SumFunctionOnSet(s, M) <= 2 * raw + Cardinality(M)
    BY <2>13, <2>14, Cancels
  <2> QED  BY <1>3, <2>15 DEF M, raw
<1> QED  BY <1>4, <1>5

\* What the promotions take off a line is money and no more than the line is worth.
LEMMA AllocatedWithinLine ==
  ASSUME NEW ps \in SUBSET Promos, NEW L, LinesOK(L), NEW i \in DOMAIN L, NEW f,
         \A p \in ps : f[p] = Share(p, L, i)
  PROVE  /\ Allocated(ps, L)[i] \in Nat
         /\ Allocated(ps, L)[i] <= L[i].total
         /\ Allocated(ps, L)[i] <= SumFunctionOnSet(f, ps)
<1> DEFINE g == [p \in ps |-> LineShare(p, L, i)]
<1>1. IsFiniteSet(ps)  BY LimitsAssumption, FS_Subset
<1>2. \A p \in ps : f[p] \in Nat /\ g[p] = f[p]
  BY SharesAreMoney DEF LineShare
<1>3. SumFunction(g) = SumFunctionOnSet(f, ps)
  <2>1. DOMAIN g = ps  OBVIOUS
  <2> HIDE DEF g
  <2> QED  BY <1>1, <1>2, <2>1, SumOfValues
<1>4. SumFunctionOnSet(f, ps) \in Nat  BY <1>1, <1>2, SumNat
<1>5. Allocated(ps, L)[i] = Smaller(SumFunctionOnSet(f, ps), L[i].total)
  BY <1>3 DEF Allocated
<1>6. L[i].total \in Nat  BY DEF LinesOK
<1> QED  BY <1>4, <1>5, <1>6 DEF Smaller

\* The promotions together grant what each of them grants.
LEMMA DiscountWithinGrants ==
  ASSUME NEW ps \in SUBSET Promos, NEW L, LinesOK(L)
  PROVE  2 * TotalDiscount(ps, L)
           <= SumFunction([p \in ps |-> 2 * RawDiscount(p, L) + Cardinality(Matched(p, L))])
<1> DEFINE S == DOMAIN L
           t == [p \in ps |-> [i \in S |-> Share(p, L, i)]]
           column == [i \in S |-> SumFunctionOnSet([p \in ps |-> t[p][i]], ps)]
           rows == [p \in ps |-> SumFunctionOnSet(t[p], S)]
           twice == [p \in ps |-> 2 * rows[p]]
           granted == [p \in ps |-> 2 * RawDiscount(p, L) + Cardinality(Matched(p, L))]
           taken == Allocated(ps, L)
<1>1. IsFiniteSet(ps) /\ IsFiniteSet(S)
  BY LimitsAssumption, FS_Subset DEF LinesOK
<1>2. \A p \in ps : \A i \in S : t[p][i] \in Nat
  BY SharesAreMoney
<1>3. \A i \in S : taken[i] \in Nat /\ column[i] \in Nat /\ taken[i] <= column[i]
  <2> TAKE i \in S
  <2>1. PICK f : f = [p \in ps |-> t[p][i]]  OBVIOUS
  <2>2. \A p \in ps : f[p] = Share(p, L, i) /\ f[p] \in Nat  BY <1>2, <2>1
  <2>3. column[i] = SumFunctionOnSet(f, ps)  BY <2>1
  <2>4. SumFunctionOnSet(f, ps) \in Nat  BY <1>1, <2>2, SumNat
  <2>5. Allocated(ps, L)[i] \in Nat /\ Allocated(ps, L)[i] <= SumFunctionOnSet(f, ps)
    BY <2>2, AllocatedWithinLine
  <2> QED  BY <2>3, <2>4, <2>5
<1>4. \A p \in ps : /\ rows[p] \in Nat /\ twice[p] = 2 * rows[p] /\ granted[p] \in Nat
                    /\ twice[p] <= granted[p]
  <2> TAKE p \in ps
  <2>1. PICK s : s = t[p]  OBVIOUS
  <2>2. \A i \in S : s[i] = Share(p, L, i) /\ s[i] \in Nat  BY <1>2, <2>1
  <2>3. SumFunctionOnSet(s, S) \in Nat  BY <1>1, <2>2, SumNat
  <2>4. 2 * SumFunctionOnSet(s, S) <= 2 * RawDiscount(p, L) + Cardinality(Matched(p, L))
    BY <2>2, SharesAddUp
  <2>5. RawDiscount(p, L) \in Nat /\ Cardinality(Matched(p, L)) \in Nat
    BY SharesAreMoney, FS_CardinalityType
  <2>6. 2 * RawDiscount(p, L) + Cardinality(Matched(p, L)) \in Nat  BY <2>5
  <2>7. rows[p] = SumFunctionOnSet(s, S) /\ twice[p] = 2 * rows[p]
        /\ granted[p] = 2 * RawDiscount(p, L) + Cardinality(Matched(p, L))
    BY <2>1
  <2> HIDE DEF rows, twice, granted
  <2> QED  BY <2>3, <2>4, <2>6, <2>7
<1>5. SumFunctionOnSet(column, S) = SumFunctionOnSet(rows, ps)
  <2>1. \A p \in ps : \A i \in S : t[p][i] \in Int  BY <1>2
  <2> HIDE DEF t, S
  <2>2. SumFunctionOnSet([i \in S |-> SumFunctionOnSet([p \in ps |-> t[p][i]], ps)], S)
          = SumFunctionOnSet([p \in ps |-> SumFunctionOnSet(t[p], S)], ps)
    BY <1>1, <2>1, SumSwapped
  <2> QED  BY <2>2
<1>6. DOMAIN taken = S /\ DOMAIN granted = ps  BY DEF Allocated
<1>7. PICK worth : worth = Subtotal(L)  OBVIOUS
<1>8. worth \in Nat
  <2>1. PICK f : f = [i \in S |-> L[i].total]  OBVIOUS
  <2>2. Subtotal(L) = SumFunctionOnSet(f, S)  BY <2>1, SumWhole DEF Subtotal
  <2>3. \A i \in S : f[i] \in Nat  BY <2>1 DEF LinesOK
  <2> QED  BY <1>1, <1>7, <2>2, <2>3, SumNat
<1>9. TotalDiscount(ps, L) = Smaller(SumFunctionOnSet(taken, S), worth)
  BY <1>6, <1>7, SumWhole DEF TotalDiscount
<1>10. SumFunction(granted) = SumFunctionOnSet(granted, ps)  BY <1>6, SumWhole
<1> HIDE DEF S, t, column, rows, twice, granted, taken
<1>11. SumFunctionOnSet(taken, S) <= SumFunctionOnSet(column, S)
  BY <1>1, <1>3, SumBelow
<1>12. SumFunctionOnSet(twice, ps) = 2 * SumFunctionOnSet(rows, ps)
  BY <1>1, <1>4, SumScaled
<1>13. SumFunctionOnSet(twice, ps) <= SumFunctionOnSet(granted, ps)
  <2>1. \A p \in ps : twice[p] \in Int /\ granted[p] \in Int /\ twice[p] <= granted[p]  BY <1>4
  <2> QED  BY <1>1, <2>1, SumBelow
<1>14. /\ SumFunctionOnSet(taken, S) \in Nat /\ SumFunctionOnSet(rows, ps) \in Nat
       /\ SumFunctionOnSet(granted, ps) \in Nat
  BY <1>1, <1>3, <1>4, SumNat
<1>15. 2 * TotalDiscount(ps, L) <= SumFunctionOnSet(granted, ps)
  BY <1>5, <1>8, <1>9, <1>11, <1>12, <1>13, <1>14 DEF Smaller
<1> QED  BY <1>10, <1>15 DEF granted

\* Charged line by line, a sale with promotions costs what the engine shows.
LEMMA ChargedAsQuoted ==
  ASSUME NEW ps \in SUBSET Promos, NEW L, LinesOK(L), NEW value
  PROVE  GrandTotalOf(L, Allocated(ps, L), "PROMOTION", value) = Quoted(ps, L)
<1> DEFINE S == DOMAIN L
           off == Allocated(ps, L)
           total == [i \in S |-> L[i].total]
           left == [i \in S |-> LineTotalOf(L[i], off[i])]
<1>1. IsFiniteSet(S)  BY DEF LinesOK
<1>2. \A i \in S : /\ off[i] \in Nat /\ total[i] \in Nat /\ off[i] <= total[i]
                   /\ total[i] = L[i].total
  <2> TAKE i \in S
  <2>1. PICK f : f = [p \in ps |-> Share(p, L, i)]  OBVIOUS
  <2>2. \A p \in ps : f[p] = Share(p, L, i)  BY <2>1
  <2>3. Allocated(ps, L)[i] \in Nat /\ Allocated(ps, L)[i] <= L[i].total
    BY <2>2, AllocatedWithinLine
  <2> QED  BY <2>3 DEF LinesOK
<1>3. \A i \in S : left[i] = Larger(0, L[i].total - off[i])
  BY DEF LineTotalOf
<1>4. DOMAIN off = S /\ DOMAIN total = S /\ DOMAIN left = S  BY DEF Allocated
<1>5. /\ Subtotal(L) = SumFunctionOnSet(total, S)
      /\ SumFunction(off) = SumFunctionOnSet(off, S)
      /\ SumFunction(left) = SumFunctionOnSet(left, S)
  BY <1>4, SumWhole DEF Subtotal
<1>6. GrandTotalOf(L, off, "PROMOTION", value) = Larger(0, SumFunction(left) - 0)
  BY DEF GrandTotalOf, OrderOff
<1>7. Quoted(ps, L) = Subtotal(L) - Smaller(SumFunction(off), Subtotal(L))
  BY DEF Quoted, TotalDiscount
<1> HIDE DEF S, off, total, left
<1>8. \A i \in S : left[i] \in Nat /\ left[i] = total[i] - off[i]
  BY <1>2, <1>3 DEF Larger
<1>9. /\ SumFunctionOnSet(total, S) \in Nat /\ SumFunctionOnSet(off, S) \in Nat
      /\ SumFunctionOnSet(left, S) \in Nat
  BY <1>1, <1>2, <1>8, SumNat
<1>10. SumFunctionOnSet(left, S) = SumFunctionOnSet(total, S) - SumFunctionOnSet(off, S)
  BY <1>1, <1>2, <1>8, SumOfDifference
<1>11. GrandTotalOf(L, off, "PROMOTION", value) = Quoted(ps, L)
  BY <1>5, <1>6, <1>7, <1>9, <1>10 DEF Larger, Smaller
<1> QED  BY <1>11 DEF off

\* The lines of a priced cart.
LEMMA CartsHaveLines ==
  ASSUME NEW cart, CartOK(cart), NEW f \in [Items -> Nat]
  PROVE  LinesOK(AtPrices(cart, f))
<1>1. DOMAIN AtPrices(cart, f) = DOMAIN cart  BY DEF AtPrices
<1>2. ASSUME NEW i \in DOMAIN cart PROVE AtPrices(cart, f)[i].total \in Nat
  <2>1. cart[i].qty \in Nat /\ f[cart[i].item] \in Nat  BY DEF CartOK
  <2>2. cart[i].qty * f[cart[i].item] \in Nat  BY <2>1, ProductsAreNat
  <2> QED  BY <2>2 DEF AtPrices
<1> QED  BY <1>1, <1>2 DEF LinesOK, CartOK

\* For any carts, prices, roundings and promotions combined, a sale is charged
\* what the engine quoted unless a price changed between its two reads, and is
\* never granted more than its promotions, but for rounding: allocating per
\* line and reading it back by line lose and invent nothing
\* (promotions/pricing-engine.ts, orders/order-pricing.service.ts).
THEOREM SalesHonourQuotes == Spec => []SaleHonoursQuote
<1>1. IndInv => SaleHonoursQuote
  <2> SUFFICES ASSUME StateOK, NEW r \in Requests, Sells(r), req[r].promos # {}
               PROVE  /\ Again(r) = req[r].lines => Charged(r) = Quoted(req[r].promos, req[r].lines)
                      /\ 2 * DiscountValue(r) <=
                           SumFunction([p \in req[r].promos |->
                             2 * RawDiscount(p, Again(r)) + Cardinality(Matched(p, Again(r)))])
    BY DEF IndInv, SaleHonoursQuote
  <2>1. PICK ps, L : ps = req[r].promos /\ L = Again(r)  OBVIOUS
  <2>2. ps \in SUBSET Promos /\ CartOK(req[r].cart) /\ price \in [Items -> Nat]
    BY <2>1 DEF StateOK, RequestOK, Sells
  <2>3. LinesOK(L)  BY <2>1, <2>2, CartsHaveLines DEF Again
  <2>4. /\ LineOffs(r) = Allocated(ps, L) /\ Kind(r) = "PROMOTION"
        /\ DiscountValue(r) = TotalDiscount(ps, L)
    BY <2>1 DEF LineOffs, Kind, DiscountValue
  <2>5. L = req[r].lines => Charged(r) = Quoted(ps, L)
    BY <2>2, <2>3, <2>4, ChargedAsQuoted DEF Charged
  <2>6. 2 * DiscountValue(r)
          <= SumFunction([p \in ps |-> 2 * RawDiscount(p, L) + Cardinality(Matched(p, L))])
    BY <2>2, <2>3, <2>4, DiscountWithinGrants
  <2> QED  BY <2>1, <2>5, <2>6
<1> QED  BY <1>1, InitIndInv, NextIndInv, PTL DEF Spec

------------------------------------------------------------------------------
(* Opening combos, and what is above a component *)

Level == Cardinality(Combos)
Graphs == [ItemIds -> [ItemIds -> Nat]]

OpenStep(g) == [X \in SUBSET Combos |->
                  {c \in Combos : g[c] # Nothing /\ In(g[c]) \cap Combos \subseteq X}]
UpStep(g, s) == [X \in SUBSET Combos |-> {c \in Combos : In(g[c]) \cap (s \cup X) # {}}]

\* The bounds of the recursions of ComboCatalogue are numbers.
LEMMA LevelIsNat == Level \in Nat /\ MaxDepth \in Nat /\ IsFiniteSet(ItemIds)
BY CatalogueAssumption, FS_CardinalityType, FS_Union DEF Level, ItemIds

\* flattenCombo looks MaxDepth levels down.
LEMMA OpenableIs ==
  ASSUME NEW g
  PROVE  \E f \in [Nat -> SUBSET Combos] :
           /\ Repeats(f, {}, OpenStep(g))
           /\ \A c : Opens(g, c) <=> c \in f[MaxDepth]
<1>1. OpenStep(g) \in [SUBSET Combos -> SUBSET Combos] /\ {} \in SUBSET Combos  BY DEF OpenStep
<1>2. PICK f \in [Nat -> SUBSET Combos] : Repeats(f, {}, OpenStep(g))
  BY <1>1, RepeatsExists
<1> DEFINE Recurs(h) == h = [n \in 0 .. MaxDepth |->
             IF n = 0 THEN {}
             ELSE {c \in Combos : g[c] # Nothing /\ In(g[c]) \cap Combos \subseteq h[n - 1]}]
<1>3. PICK w : w = [n \in 0 .. MaxDepth |-> f[n]]  OBVIOUS
<1>4. Recurs(w)
  <2>1. ASSUME NEW n \in 0 .. MaxDepth, n # 0
        PROVE  w[n] = {c \in Combos : g[c] # Nothing /\ In(g[c]) \cap Combos \subseteq w[n - 1]}
    <3>1. n - 1 \in Nat /\ (n - 1) + 1 = n /\ n - 1 \in 0 .. MaxDepth  BY <2>1, LevelIsNat
    <3>2. f[n] = OpenStep(g)[f[n - 1]] /\ f[n - 1] \in SUBSET Combos  BY <1>2, <3>1 DEF Repeats
    <3> QED  BY <1>3, <3>1, <3>2 DEF OpenStep
  <2>2. 0 \in 0 .. MaxDepth /\ w[0] = {}  BY <1>2, <1>3, LevelIsNat DEF Repeats
  <2> QED  BY <1>3, <2>1, <2>2
<1>5. PICK v : v = Openable(g)  OBVIOUS
<1>6. Recurs(v)
  <2>1. v = CHOOSE h : Recurs(h)  BY <1>5 DEF Openable
  <2> HIDE DEF Recurs
  <2> QED  BY <1>4, <2>1
<1>7. RepeatsTo(v, MaxDepth, {}, OpenStep(g))
  <2>1. v[0] = {}  BY <1>6, LevelIsNat
  <2>2. \A n \in 0 .. MaxDepth : v[n] \in SUBSET Combos  BY <1>6
  <2>3. ASSUME NEW n \in 0 .. MaxDepth, n > 0 PROVE v[n] = OpenStep(g)[v[n - 1]]
    <3>1. n - 1 \in 0 .. MaxDepth /\ n # 0  BY <2>3, LevelIsNat
    <3>2. v[n - 1] \in SUBSET Combos  BY <2>2, <3>1
    <3> QED  BY <1>6, <3>1, <3>2 DEF OpenStep
  <2> QED  BY <2>1, <2>3 DEF RepeatsTo
<1>8. MaxDepth \in 0 .. MaxDepth  BY LevelIsNat
<1>9. v[MaxDepth] = f[MaxDepth]  BY <1>2, <1>7, <1>8, LevelIsNat, RepeatsUpTo
<1> QED  BY <1>2, <1>5, <1>9 DEF Opens

OpenStepGrows(g) ==
  \A X, Y \in SUBSET Combos : X \subseteq Y => OpenStep(g)[X] \subseteq OpenStep(g)[Y]

\* More combos that open let more combos open.
LEMMA OpenStepClimbs ==
  ASSUME NEW g
  PROVE  OpenStep(g) \in [SUBSET Combos -> SUBSET Combos] /\ OpenStepGrows(g)
BY DEF OpenStep, OpenStepGrows

\* Combos of which two graphs say the same, down to the last, open in both.
LEMMA OpensSame ==
  ASSUME NEW g, NEW h, NEW L, L \subseteq Combos,
         \A d \in L : g[d] = h[d] /\ In(g[d]) \cap Combos \subseteq L
  PROVE  \A d \in L : Opens(g, d) => Opens(h, d)
<1>1. PICK f \in [Nat -> SUBSET Combos] : /\ Repeats(f, {}, OpenStep(g))
                                          /\ \A d : Opens(g, d) <=> d \in f[MaxDepth]
  BY OpenableIs
<1>2. PICK e \in [Nat -> SUBSET Combos] : /\ Repeats(e, {}, OpenStep(h))
                                          /\ \A d : Opens(h, d) <=> d \in e[MaxDepth]
  BY OpenableIs
<1> DEFINE B == {n \in Nat : ~(f[n] \cap L \subseteq e[n])}
<1>3. 0 \notin B  BY <1>1 DEF Repeats
<1>4. ASSUME NEW n \in Nat, n \notin B PROVE n + 1 \notin B
  <2>1. f[n] \cap L \subseteq e[n] /\ f[n] \in SUBSET Combos /\ e[n] \in SUBSET Combos
    BY <1>1, <1>2, <1>4
  <2>2. f[n + 1] = OpenStep(g)[f[n]] /\ e[n + 1] = OpenStep(h)[e[n]]
    BY <1>1, <1>2 DEF Repeats
  <2>3. ASSUME NEW d \in f[n + 1] \cap L PROVE d \in e[n + 1]
    <3>1. d \in Combos /\ g[d] # Nothing /\ In(g[d]) \cap Combos \subseteq f[n]
      BY <2>1, <2>2, <2>3 DEF OpenStep
    <3>2. g[d] = h[d] /\ In(g[d]) \cap Combos \subseteq L  BY <2>3
    <3>3. In(h[d]) \cap Combos \subseteq e[n] /\ h[d] # Nothing  BY <2>1, <3>1, <3>2
    <3> QED  BY <2>1, <2>2, <3>1, <3>3 DEF OpenStep
  <2> QED  BY <2>3
<1>5. B \in SUBSET Nat /\ \A n \in Nat : n + 1 \in B => n \in B  BY <1>4
<1> HIDE DEF B
<1>6. B = {}  BY <1>3, <1>5, NoCounterexample
<1>7. f[MaxDepth] \cap L \subseteq e[MaxDepth]  BY <1>6, LevelIsNat DEF B
<1> QED  BY <1>1, <1>2, <1>7

\* ancestorsOf climbs one level per round, as often as there are combos.
LEMMA AboveIs ==
  ASSUME NEW g, NEW s
  PROVE  \E f \in [Nat -> SUBSET Combos] :
           Repeats(f, {}, UpStep(g, s)) /\ Above(g, s) = f[Level]
<1>1. UpStep(g, s) \in [SUBSET Combos -> SUBSET Combos] /\ {} \in SUBSET Combos  BY DEF UpStep
<1>2. PICK f \in [Nat -> SUBSET Combos] : Repeats(f, {}, UpStep(g, s))
  BY <1>1, RepeatsExists
<1> DEFINE Recurs(h) == h = [n \in 0 .. Cardinality(Combos) |->
             IF n = 0 THEN {} ELSE {c \in Combos : In(g[c]) \cap (s \cup h[n - 1]) # {}}]
<1>3. PICK w : w = [n \in 0 .. Level |-> f[n]]  OBVIOUS
<1>4. Recurs(w)
  <2>1. ASSUME NEW n \in 0 .. Level, n # 0
        PROVE  w[n] = {c \in Combos : In(g[c]) \cap (s \cup w[n - 1]) # {}}
    <3>1. n - 1 \in Nat /\ (n - 1) + 1 = n /\ n - 1 \in 0 .. Level  BY <2>1, LevelIsNat
    <3>2. f[n] = UpStep(g, s)[f[n - 1]] /\ f[n - 1] \in SUBSET Combos  BY <1>2, <3>1 DEF Repeats
    <3> QED  BY <1>3, <3>1, <3>2 DEF UpStep
  <2>2. 0 \in 0 .. Level /\ w[0] = {}  BY <1>2, <1>3, LevelIsNat DEF Repeats
  <2> QED  BY <1>3, <2>1, <2>2 DEF Level
<1>5. PICK v : Recurs(v) /\ Above(g, s) = v[Level]
  <2>1. PICK v : v = CHOOSE h : Recurs(h)  OBVIOUS
  <2>2. Above(g, s) = v[Level]  BY <2>1 DEF Above, Level
  <2> HIDE DEF Recurs
  <2>3. Recurs(v)  BY <1>4, <2>1
  <2> QED  BY <2>2, <2>3
<1>6. RepeatsTo(v, Level, {}, UpStep(g, s))
  <2>1. v[0] = {}  BY <1>5, LevelIsNat DEF Level
  <2>2. \A n \in 0 .. Level : v[n] \in SUBSET Combos  BY <1>5 DEF Level
  <2>3. ASSUME NEW n \in 0 .. Level, n > 0 PROVE v[n] = UpStep(g, s)[v[n - 1]]
    <3>1. n - 1 \in 0 .. Level /\ n # 0  BY <2>3, LevelIsNat
    <3>2. v[n - 1] \in SUBSET Combos  BY <2>2, <3>1
    <3> QED  BY <1>5, <3>1, <3>2 DEF UpStep, Level
  <2> QED  BY <2>1, <2>3 DEF RepeatsTo
<1>7. Level \in 0 .. Level  BY LevelIsNat
<1>8. v[Level] = f[Level]  BY <1>2, <1>6, <1>7, LevelIsNat, RepeatsUpTo
<1> QED  BY <1>2, <1>5, <1>8

\* What is above s are the combos that contain something of s or above s.
LEMMA AboveClosed ==
  ASSUME NEW g, NEW s
  PROVE  /\ Above(g, s) \subseteq Combos
         /\ \A c \in Combos : c \in Above(g, s) <=> In(g[c]) \cap (s \cup Above(g, s)) # {}
<1>1. PICK f \in [Nat -> SUBSET Combos] : Repeats(f, {}, UpStep(g, s)) /\ Above(g, s) = f[Level]
  BY AboveIs
<1>2. UpStep(g, s) \in [SUBSET Combos -> SUBSET Combos]  BY DEF UpStep
<1>3. \A X, Y \in SUBSET Combos : X \subseteq Y => UpStep(g, s)[X] \subseteq UpStep(g, s)[Y]
  BY DEF UpStep
<1>4. UpStep(g, s)[Above(g, s)] = Above(g, s)
  BY <1>1, <1>2, <1>3, CatalogueAssumption, ComesToRest DEF Level
<1>5. Above(g, s) \in SUBSET Combos  BY <1>1, LevelIsNat
<1> QED  BY <1>4, <1>5 DEF UpStep

\* A combo that opens does not contain itself, however deep.
LEMMA NotAboveItself ==
  ASSUME NEW g, NEW c, Opens(g, c)
  PROVE  c \notin Above(g, {c})
<1> SUFFICES ASSUME c \in Above(g, {c}) PROVE FALSE  OBVIOUS
<1>1. PICK up : up = Above(g, {c})  OBVIOUS
<1>2. up \subseteq Combos /\ \A d \in up : In(g[d]) \cap up # {}
  <2>1. /\ Above(g, {c}) \subseteq Combos
        /\ \A d \in Combos : d \in Above(g, {c}) <=> In(g[d]) \cap ({c} \cup Above(g, {c})) # {}
    BY AboveClosed
  <2>2. {c} \cup up = up  BY <1>1
  <2> QED  BY <1>1, <2>1, <2>2
<1>3. PICK f \in [Nat -> SUBSET Combos] : /\ Repeats(f, {}, OpenStep(g))
                                          /\ \A d : Opens(g, d) <=> d \in f[MaxDepth]
  BY OpenableIs
<1> DEFINE B == {n \in Nat : f[n] \cap up # {}}
<1>4. 0 \notin B  BY <1>3 DEF Repeats
<1>5. ASSUME NEW n \in Nat, n + 1 \in B PROVE n \in B
  <2>1. f[n + 1] = OpenStep(g)[f[n]] /\ f[n] \in SUBSET Combos  BY <1>3 DEF Repeats
  <2>2. PICK d : d \in f[n + 1] \cap up  BY <1>5
  <2>3. In(g[d]) \cap Combos \subseteq f[n]  BY <2>1, <2>2 DEF OpenStep
  <2> QED  BY <1>2, <2>2, <2>3
<1>6. B \in SUBSET Nat /\ \A n \in Nat : n + 1 \in B => n \in B  BY <1>5
<1> HIDE DEF B
<1>7. B = {}  BY <1>4, <1>6, NoCounterexample
<1>8. c \notin f[MaxDepth]  BY <1>1, <1>7, LevelIsNat DEF B
<1> QED  BY <1>3, <1>8

------------------------------------------------------------------------------
(* What combos cost *)

PriceLists == [ItemIds -> Nat]

\* A cost is an amount.
LEMMA CostIsNat ==
  ASSUME NEW p \in [ItemIds -> Nat], NEW q \in PriceLists
  PROVE  CostOf(p, q) \in Nat
<1>1. PICK f : f = [i \in ItemIds |-> p[i] * q[i]]  OBVIOUS
<1>2. \A i \in ItemIds : f[i] \in Nat  BY <1>1, ProductsAreNat DEF PriceLists
<1> QED  BY <1>1, <1>2, LevelIsNat, SumNat DEF CostOf

\* The cost follows from that of the components.
LEMMA CostSame ==
  ASSUME NEW p \in [ItemIds -> Nat], NEW q \in PriceLists, NEW t \in PriceLists,
         \A i \in In(p) : q[i] = t[i]
  PROVE  CostOf(p, q) = CostOf(p, t)
<1>1. PICK f, h : f = [i \in ItemIds |-> p[i] * q[i]] /\ h = [i \in ItemIds |-> p[i] * t[i]]
  OBVIOUS
<1>2. ASSUME NEW i \in ItemIds PROVE f[i] = h[i]
  <2>1. CASE p[i] > 0
    <3>1. q[i] = t[i]  BY <2>1 DEF In
    <3> QED  BY <1>1, <3>1
  <2>2. CASE p[i] = 0
    <3>1. q[i] \in Nat /\ t[i] \in Nat  BY DEF PriceLists
    <3> QED  BY <1>1, <2>2, <3>1
  <2>3. p[i] \in Nat  OBVIOUS
  <2> QED  BY <2>1, <2>2, <2>3
<1>3. SumFunctionOnSet(f, ItemIds) = SumFunctionOnSet(h, ItemIds)  BY <1>2, LevelIsNat, SumSame
<1> QED  BY <1>1, <1>3 DEF CostOf

RepriceStep(g, rate, up) ==
  [q \in PriceLists |-> [i \in ItemIds |-> IF i \in up THEN CostOf(g[i], q) ELSE rate[i]]]

\* recomputeComboCosts works out the costs round by round.
LEMMA RecomputedIs ==
  ASSUME NEW g \in Graphs, NEW rate \in PriceLists, NEW s
  PROVE  \E f \in [Nat -> PriceLists] :
           /\ Repeats(f, rate, RepriceStep(g, rate, Above(g, s)))
           /\ Recomputed(g, rate, s) = f[Level]
<1>1. PICK up : up = Above(g, s)  OBVIOUS
<1>2. RepriceStep(g, rate, up) \in [PriceLists -> PriceLists]
  <2>1. ASSUME NEW q \in PriceLists, NEW i \in ItemIds
        PROVE  (IF i \in up THEN CostOf(g[i], q) ELSE rate[i]) \in Nat
    <3>1. g[i] \in [ItemIds -> Nat] /\ rate[i] \in Nat  BY DEF Graphs, PriceLists
    <3>2. CostOf(g[i], q) \in Nat  BY <3>1, CostIsNat
    <3> QED  BY <3>1, <3>2
  <2>2. \A q \in PriceLists :
          [i \in ItemIds |-> IF i \in up THEN CostOf(g[i], q) ELSE rate[i]] \in PriceLists
    BY <2>1 DEF PriceLists
  <2> QED  BY <2>2 DEF RepriceStep
<1>3. PICK f \in [Nat -> PriceLists] : Repeats(f, rate, RepriceStep(g, rate, up))
  BY <1>2, RepeatsExists
<1> DEFINE Recurs(h) == h = [n \in 0 .. Cardinality(Combos) |->
             IF n = 0 THEN rate
             ELSE [i \in ItemIds |-> IF i \in up THEN CostOf(g[i], h[n - 1]) ELSE rate[i]]]
<1>4. PICK w : w = [n \in 0 .. Level |-> f[n]]  OBVIOUS
<1>5. Recurs(w)
  <2>1. ASSUME NEW n \in 0 .. Level, n # 0
        PROVE  w[n] = [i \in ItemIds |-> IF i \in up THEN CostOf(g[i], w[n - 1]) ELSE rate[i]]
    <3>1. n - 1 \in Nat /\ (n - 1) + 1 = n /\ n - 1 \in 0 .. Level  BY <2>1, LevelIsNat
    <3>2. f[n] = RepriceStep(g, rate, up)[f[n - 1]] /\ f[n - 1] \in PriceLists
      BY <1>3, <3>1 DEF Repeats
    <3> QED  BY <1>4, <3>1, <3>2 DEF RepriceStep
  <2>2. 0 \in 0 .. Level /\ w[0] = rate  BY <1>3, <1>4, LevelIsNat DEF Repeats
  <2> QED  BY <1>4, <2>1, <2>2 DEF Level
<1>6. PICK v : Recurs(v) /\ Recomputed(g, rate, s) = v[Level]
  <2>1. PICK v : v = CHOOSE h : Recurs(h)  OBVIOUS
  <2>2. Recomputed(g, rate, s) = v[Level]  BY <1>1, <2>1 DEF Recomputed, Ancestors, Level
  <2> HIDE DEF Recurs
  <2>3. Recurs(v)  BY <1>5, <2>1
  <2> QED  BY <2>2, <2>3
<1>7. \A n \in 0 .. Level : v[n] = f[n]
  <2>1. 0 \in 0 .. Level /\ v[0] = rate  BY <1>6, LevelIsNat DEF Level
  <2> DEFINE B == {n \in Nat : n <= Level /\ v[n] # f[n]}
  <2>2. 0 \notin B  BY <1>3, <2>1 DEF Repeats
  <2>3. ASSUME NEW n \in Nat, n + 1 \in B PROVE n \in B
    <3>1. n + 1 \in 0 .. Level /\ n + 1 # 0 /\ (n + 1) - 1 = n /\ n <= Level
      BY <2>3, LevelIsNat
    <3>2. v[n + 1] = [i \in ItemIds |-> IF i \in up THEN CostOf(g[i], v[n]) ELSE rate[i]]
      BY <1>6, <3>1 DEF Level
    <3>3. f[n + 1] = RepriceStep(g, rate, up)[f[n]] /\ f[n] \in PriceLists
      BY <1>3 DEF Repeats
    <3>4. f[n + 1] = [i \in ItemIds |-> IF i \in up THEN CostOf(g[i], f[n]) ELSE rate[i]]
      BY <3>3 DEF RepriceStep
    <3> QED  BY <2>3, <3>1, <3>2, <3>4
  <2>4. B \in SUBSET Nat /\ \A n \in Nat : n + 1 \in B => n \in B  BY <2>3
  <2> HIDE DEF B
  <2>5. B = {}  BY <2>2, <2>4, NoCounterexample
  <2> QED  BY <2>5, LevelIsNat DEF B
<1>8. v[Level] = f[Level]  BY <1>7, LevelIsNat
<1> QED  BY <1>1, <1>3, <1>6, <1>8

\* The items up have the cost of their components, the others that of before.
CostsAbove(g, rate, up, after) ==
  /\ after \in PriceLists
  /\ \A i \in ItemIds : i \notin up => after[i] = rate[i]
  /\ \A i \in up : after[i] = CostOf(g[i], after)

AllOpen(g, up) == \A d \in up : Opens(g, d)

\* recomputeComboCosts: when the combos above the change open, each of them gets the
\* cost of its components, and nothing else changes.
LEMMA RecomputedAdds ==
  ASSUME NEW g \in Graphs, NEW rate \in PriceLists, NEW s, AllOpen(g, Above(g, s))
  PROVE  CostsAbove(g, rate, Above(g, s), Recomputed(g, rate, s))
<1>1. PICK up : up = Above(g, s) /\ AllOpen(g, up)  OBVIOUS
<1>2. PICK f \in [Nat -> PriceLists] : /\ Repeats(f, rate, RepriceStep(g, rate, up))
                                       /\ Recomputed(g, rate, s) = f[Level]
  BY <1>1, RecomputedIs
<1>3. up \subseteq Combos /\ Combos \subseteq ItemIds  BY <1>1, AboveClosed DEF ItemIds
<1>4. \A n \in Nat, i \in ItemIds :
        f[n + 1][i] = IF i \in up THEN CostOf(g[i], f[n]) ELSE rate[i]
  <2> TAKE n \in Nat, i \in ItemIds
  <2>1. f[n + 1] = RepriceStep(g, rate, up)[f[n]] /\ f[n] \in PriceLists  BY <1>2 DEF Repeats
  <2> QED  BY <2>1 DEF RepriceStep
<1>5. \A n \in Nat, i \in ItemIds : i \notin up => f[n][i] = rate[i]
  <2> SUFFICES ASSUME NEW n \in Nat, NEW i \in ItemIds, i \notin up PROVE f[n][i] = rate[i]
    OBVIOUS
  <2>1. CASE n = 0  BY <1>2, <2>1 DEF Repeats
  <2>2. CASE n # 0
    <3>1. n - 1 \in Nat /\ (n - 1) + 1 = n  BY <2>2
    <3> QED  BY <1>4, <3>1
  <2> QED  BY <2>1, <2>2
<1>6. PICK e \in [Nat -> SUBSET Combos] : /\ Repeats(e, {}, OpenStep(g))
                                          /\ \A d : Opens(g, d) <=> d \in e[MaxDepth]
  BY OpenableIs
<1>7. \A n \in Nat : e[n] \subseteq e[Level]
  BY <1>6, OpenStepClimbs, ComesToRest, CatalogueAssumption DEF OpenStepGrows, Level
<1>8. up \subseteq e[Level]
  <2>1. up \subseteq e[MaxDepth]  BY <1>1, <1>6 DEF AllOpen
  <2> QED  BY <1>7, <2>1, LevelIsNat
<1>9. \A n \in Nat : \A i \in e[n], m \in Nat : n <= m => f[m + 1][i] = f[m][i]
  <2> DEFINE B == {n \in Nat : ~ \A i \in e[n], m \in Nat : n <= m => f[m + 1][i] = f[m][i]}
  <2>1. 0 \notin B  BY <1>6 DEF Repeats
  <2>2. ASSUME NEW n \in Nat, n \notin B PROVE n + 1 \notin B
    <3>1. SUFFICES ASSUME NEW i \in e[n + 1], NEW m \in Nat, n + 1 <= m PROVE f[m + 1][i] = f[m][i]
      OBVIOUS
    <3>2. e[n + 1] = OpenStep(g)[e[n]] /\ e[n] \in SUBSET Combos  BY <1>6 DEF Repeats
    <3>3. i \in Combos /\ In(g[i]) \cap Combos \subseteq e[n]  BY <3>1, <3>2 DEF OpenStep
    <3>4. i \in ItemIds  BY <1>3, <3>3
    <3>5. CASE i \notin up
      <4>1. m + 1 \in Nat  OBVIOUS
      <4> QED  BY <1>5, <3>4, <3>5, <4>1
    <3>6. CASE i \in up
      <4>1. PICK k \in Nat : k + 1 = m /\ n <= k
        <5>1. m - 1 \in Nat /\ (m - 1) + 1 = m /\ n <= m - 1  BY <3>1
        <5> QED  BY <5>1
      <4>2. f[m + 1][i] = CostOf(g[i], f[m]) /\ f[m][i] = CostOf(g[i], f[k])
        BY <1>4, <3>4, <3>6, <4>1
      <4>3. ASSUME NEW j \in In(g[i]) PROVE f[m][j] = f[k][j]
        <5>1. j \in ItemIds  BY DEF In
        <5>2. CASE j \in Combos
          <6>1. j \in e[n]  BY <3>3, <4>3, <5>2
          <6> QED  BY <2>2, <4>1, <6>1
        <5>3. CASE j \notin Combos
          <6>1. j \notin up  BY <1>3, <5>3
          <6> QED  BY <1>5, <5>1, <6>1
        <5> QED  BY <5>2, <5>3
      <4>4. g[i] \in [ItemIds -> Nat] /\ f[m] \in PriceLists /\ f[k] \in PriceLists
        BY <3>4 DEF Graphs
      <4>5. CostOf(g[i], f[m]) = CostOf(g[i], f[k])  BY <4>3, <4>4, CostSame
      <4> QED  BY <4>2, <4>5
    <3> QED  BY <3>5, <3>6
  <2>3. B \in SUBSET Nat /\ \A n \in Nat : n + 1 \in B => n \in B  BY <2>2
  <2> HIDE DEF B
  <2>4. B = {}  BY <2>1, <2>3, NoCounterexample
  <2> QED  BY <2>4 DEF B
<1>10. \A i \in up : f[Level][i] = CostOf(g[i], f[Level])
  <2> TAKE i \in up
  <2>1. i \in e[Level] /\ i \in ItemIds /\ Level \in Nat /\ Level <= Level  BY <1>3, <1>8, LevelIsNat
  <2>2. f[Level + 1][i] = f[Level][i]  BY <1>9, <2>1
  <2>3. f[Level + 1][i] = CostOf(g[i], f[Level])  BY <1>4, <2>1
  <2> QED  BY <2>2, <2>3
<1>11. f[Level] \in PriceLists  BY LevelIsNat
<1>12. CostsAbove(g, rate, up, f[Level])  BY <1>5, <1>10, <1>11, LevelIsNat DEF CostsAbove
<1> QED  BY <1>1, <1>2, <1>12

------------------------------------------------------------------------------
(* What the catalogue offers *)

\* What an edit under way carries.
EditOK(x) ==
  /\ "op" \in DOMAIN x /\ x.op \in {"idle", "combo", "cost", "remove", "discontinue"}
  /\ x.op = "combo" => /\ x.item \in Combos /\ x.parts \in Lists /\ x.item \notin In(x.parts)
                       /\ x.cost \in Nat
  /\ x.op = "cost" => /\ x.item \in Goods /\ DOMAIN x.cost \subseteq ItemIds
                      /\ \A i \in DOMAIN x.cost : x.cost[i] \in Nat
  /\ x.op = "remove" => x.item \in ItemIds
  /\ x.op = "discontinue" => x.product \in Products

\* What is listed is made of what is listed, and nothing else is made of anything.
ListedOfListed ==
  /\ \A i \in ItemIds : i \notin listed \cap Combos => parts[i] = Nothing
  /\ \A c \in listed \cap Combos : In(parts[c]) \subseteq listed

CatalogueTypes ==
  /\ CatalogueTypeOK
  /\ DOMAIN edit = Editors
  /\ \A r \in Editors : EditOK(edit[r])
  /\ ListedOfListed

\* A component list is written under the lock, so what the lock protects is as it was read.
Changed(x) == [parts EXCEPT ![x.item] = x.parts]
StillOpens(x) ==
  In(x.parts) \cap Combos \subseteq listed /\ x.new = (x.item \notin listed) =>
    \A d \in (listed \cap Combos) \cup {x.item} : Opens(Changed(x), d)
HeldOK(r) ==
  edit[r].op = "combo" => /\ lock = r
                          /\ Alive(edit[r].parts)
                          /\ edit[r].new => edit[r].item \notin listed
                          /\ StillOpens(edit[r])

SellableInv ==
  /\ CatalogueTypes
  /\ \A r \in Editors : HeldOK(r)
  /\ EveryComboOpens /\ NothingDeadOnSale

------------------------------------------------------------------------------
(* Types *)

\* The component lists that are written are lists of counts.
LEMMA ListsAreCounts ==
  /\ \A p \in Lists : p \in [ItemIds -> Nat] /\ p \in [ItemIds -> Counts \cup {0}]
  /\ Nothing \in [ItemIds -> Counts \cup {0}] /\ In(Nothing) = {}
  /\ [ItemIds -> [ItemIds -> Counts \cup {0}]] \subseteq Graphs
  /\ Combos \subseteq ItemIds /\ Goods \subseteq ItemIds
<1>1. Counts \cup {0} \subseteq Nat  BY CatalogueAssumption
<1>2. \A p \in [ItemIds -> Counts \cup {0}] : p \in [ItemIds -> Nat]  BY <1>1
<1>3. Nothing \in [ItemIds -> Counts \cup {0}] /\ In(Nothing) = {}  BY DEF Nothing, In
<1>4. [ItemIds -> [ItemIds -> Counts \cup {0}]] \subseteq Graphs  BY <1>2 DEF Graphs
<1> QED  BY <1>2, <1>3, <1>4 DEF Lists, ItemIds

\* One edit goes on, the others stay.
LEMMA EditGoesOn ==
  ASSUME CatalogueTypes, NEW r \in Editors, NEW x, EditOK(x), edit' = [edit EXCEPT ![r] = x]
  PROVE  /\ DOMAIN edit' = Editors
         /\ \A q \in Editors : EditOK(edit[q])'
         /\ \A q \in Editors : edit'[q] = IF q = r THEN x ELSE edit[q]
<1>1. \A q \in Editors : edit'[q] = IF q = r THEN x ELSE edit[q]  BY DEF CatalogueTypes
<1>2. DOMAIN edit' = Editors  BY DEF CatalogueTypes
<1>3. ASSUME NEW q \in Editors PROVE EditOK(edit[q])'
  <2>1. CASE q = r
    <3>1. PICK y : y = edit'[q] /\ EditOK(y)  BY <1>1, <2>1
    <3> QED  BY <3>1 DEF EditOK
  <2>2. CASE q # r
    <3>1. edit'[q] = edit[q] /\ EditOK(edit[q])  BY <1>1, <2>2 DEF CatalogueTypes
    <3> QED  BY <3>1 DEF EditOK
  <2> QED  BY <2>1, <2>2
<1> QED  BY <1>1, <1>2, <1>3

\* An editor without an edit.
LEMMA NoEditOK == EditOK(NoEdit) /\ NoEdit.op = "idle"
BY DEF EditOK, NoEdit

\* An edit ends.
LEMMA EditEnds ==
  ASSUME CatalogueTypes, NEW r \in Editors, Done(r)
  PROVE  /\ DOMAIN edit' = Editors
         /\ \A q \in Editors : EditOK(edit[q])'
         /\ \A q \in Editors : edit'[q] = IF q = r THEN NoEdit ELSE edit[q]
         /\ lock' \in Editors \cup {Nobody}
         /\ \A q \in Editors : q # r /\ lock = q => lock' = q
<1>1. edit' = [edit EXCEPT ![r] = NoEdit]  BY DEF Done
<1>2. lock' = IF lock = r THEN Nobody ELSE lock  BY DEF Done
<1> QED  BY <1>1, <1>2, NoEditOK, EditGoesOn DEF CatalogueTypes, CatalogueTypeOK

\* The types of the catalogue, at first and after each step.
LEMMA CatalogueTypesInit == CatalogueInit => CatalogueTypes
<1> SUFFICES ASSUME CatalogueInit PROVE CatalogueTypes  OBVIOUS
<1>1. PICK f \in [Goods -> CostPrices] : cost = [i \in ItemIds |-> IF i \in Goods THEN f[i] ELSE 0]
  BY DEF CatalogueInit
<1>2. cost \in [ItemIds -> Nat]  BY <1>1, CatalogueAssumption
<1>3. parts \in [ItemIds -> [ItemIds -> Counts \cup {0}]] /\ \A i \in ItemIds : parts[i] = Nothing
  BY ListsAreCounts DEF CatalogueInit
<1>4. CatalogueTypeOK  BY <1>2, <1>3, ListsAreCounts DEF CatalogueInit, CatalogueTypeOK
<1>5. ListedOfListed  BY <1>3, ListsAreCounts DEF CatalogueInit, ListedOfListed
<1>6. \A r \in Editors : EditOK(edit[r])
  <2> TAKE r \in Editors
  <2>1. edit[r] = NoEdit  BY DEF CatalogueInit
  <2> QED  BY <2>1, NoEditOK
<1> QED  BY <1>4, <1>5, <1>6 DEF CatalogueInit, CatalogueTypes

LEMMA CatalogueTypesStep == CatalogueTypes /\ [CatalogueNext]_catalogueVars => CatalogueTypes'
<1> SUFFICES ASSUME CatalogueTypes, [CatalogueNext]_catalogueVars PROVE CatalogueTypes'  OBVIOUS
<1>1. CASE UNCHANGED catalogueVars
  <2>1. CatalogueTypeOK' /\ ListedOfListed' /\ DOMAIN edit' = Editors
    BY <1>1 DEF catalogueVars, CatalogueTypes, CatalogueTypeOK, ListedOfListed
  <2>2. ASSUME NEW r \in Editors PROVE EditOK(edit[r])'
    <3>1. edit'[r] = edit[r] /\ EditOK(edit[r])  BY <1>1 DEF catalogueVars, CatalogueTypes
    <3> QED  BY <3>1 DEF EditOK
  <2> QED  BY <2>1, <2>2 DEF CatalogueTypes
<1>2. CASE \E p \in Products : Resell(p)
  <2>1. PICK p \in Products : Resell(p)  BY <1>2
  <2>2. CatalogueTypeOK' /\ ListedOfListed' /\ DOMAIN edit' = Editors
    BY <2>1 DEF Resell, CatalogueTypes, CatalogueTypeOK, ListedOfListed
  <2>3. ASSUME NEW r \in Editors PROVE EditOK(edit[r])'
    <3>1. edit'[r] = edit[r] /\ EditOK(edit[r])  BY <2>1 DEF Resell, CatalogueTypes
    <3> QED  BY <3>1 DEF EditOK
  <2> QED  BY <2>2, <2>3 DEF CatalogueTypes
<1>3. CASE \E g \in Goods, rate \in CostPrices : CreateGood(g, rate)
  <2>1. PICK g \in Goods, rate \in CostPrices : CreateGood(g, rate)  BY <1>3
  <2>2. g \in ItemIds /\ g \notin Combos /\ rate \in Nat
    BY CatalogueAssumption, ListsAreCounts
  <2>3. CatalogueTypeOK' /\ DOMAIN edit' = Editors
    BY <2>1, <2>2 DEF CreateGood, CatalogueTypes, CatalogueTypeOK, Overlap
  <2>4. ListedOfListed'
    <3>1. parts' = parts /\ listed' \cap Combos = listed \cap Combos /\ listed \subseteq listed'
      BY <2>1, <2>2 DEF CreateGood
    <3> QED  BY <3>1 DEF CatalogueTypes, ListedOfListed
  <2>5. ASSUME NEW r \in Editors PROVE EditOK(edit[r])'
    <3>1. edit'[r] = edit[r] /\ EditOK(edit[r])  BY <2>1 DEF CreateGood, CatalogueTypes
    <3> QED  BY <3>1 DEF EditOK
  <2> QED  BY <2>3, <2>4, <2>5 DEF CatalogueTypes
<1>4. ASSUME NEW r \in Editors, NEW c \in Combos, NEW p \in Lists, ComboRead(r, c, p)
      PROVE  CatalogueTypes'
  <2>1. PICK x : x = [op |-> "combo", item |-> c, parts |-> p,
                      cost |-> CostOf(p, cost), new |-> c \notin listed]  OBVIOUS
  <2>2. CostOf(p, cost) \in Nat
    BY ListsAreCounts, CostIsNat DEF CatalogueTypes, CatalogueTypeOK, PriceLists
  <2>3. EditOK(x)  BY <1>4, <2>1, <2>2 DEF EditOK, ComboRead
  <2>4. edit' = [edit EXCEPT ![r] = x]  BY <1>4, <2>1 DEF ComboRead
  <2>5. DOMAIN edit' = Editors /\ \A q \in Editors : EditOK(edit[q])'  BY <2>3, <2>4, EditGoesOn
  <2>6. CatalogueTypeOK' /\ ListedOfListed'
    BY <1>4 DEF ComboRead, Overlap, CatalogueTypes, CatalogueTypeOK, ListedOfListed
  <2> QED  BY <2>5, <2>6 DEF CatalogueTypes
<1>5. ASSUME NEW r \in Editors, ComboCommit(r) PROVE CatalogueTypes'
  <2>1. PICK x : x = edit[r] /\ EditOK(x) /\ x.op = "combo"
    BY <1>5 DEF CatalogueTypes, ComboCommit
  <2>2. PICK c, p : c = x.item /\ p = x.parts /\ c \in Combos /\ p \in Lists /\ x.cost \in Nat
    BY <2>1 DEF EditOK
  <2>3. PICK g : g = [parts EXCEPT ![c] = p]  OBVIOUS
  <2>4. PICK own : own = [cost EXCEPT ![c] = x.cost]  OBVIOUS
  <2>5. /\ In(p) \subseteq listed /\ parts' = g /\ cost' = Recomputed(g, own, {c})
        /\ listed' = listed \cup {c} /\ Done(r) /\ UNCHANGED <<status, raced>>
    BY <1>5, <2>1, <2>2, <2>3, <2>4 DEF ComboCommit
  <2>6. g \in [ItemIds -> [ItemIds -> Counts \cup {0}]]
    BY <2>2, <2>3, ListsAreCounts DEF CatalogueTypes, CatalogueTypeOK
  <2>7. own \in PriceLists
    BY <2>2, <2>4, ListsAreCounts DEF CatalogueTypes, CatalogueTypeOK, PriceLists
  <2>8. cost' \in PriceLists
    <3>1. PICK f \in [Nat -> PriceLists] : Recomputed(g, own, {c}) = f[Level]
      BY <2>6, <2>7, ListsAreCounts, RecomputedIs
    <3> QED  BY <2>5, <3>1, LevelIsNat
  <2>9. /\ DOMAIN edit' = Editors /\ \A q \in Editors : EditOK(edit[q])'
        /\ lock' \in Editors \cup {Nobody}
    BY <2>5, EditEnds
  <2>10. CatalogueTypeOK'
    BY <2>2, <2>5, <2>6, <2>8, <2>9, ListsAreCounts DEF CatalogueTypes, CatalogueTypeOK, PriceLists
  <2>11. ListedOfListed'
    <3>1. \A i \in ItemIds : parts'[i] = IF i = c THEN p ELSE parts[i]
      BY <2>3, <2>5 DEF CatalogueTypes, CatalogueTypeOK
    <3>2. ASSUME NEW i \in ItemIds, i \notin listed' \cap Combos PROVE parts'[i] = Nothing
      BY <2>2, <2>5, <3>1, <3>2 DEF CatalogueTypes, ListedOfListed
    <3>3. ASSUME NEW d \in listed' \cap Combos PROVE In(parts'[d]) \subseteq listed'
      BY <2>2, <2>5, <3>1, <3>3, ListsAreCounts DEF CatalogueTypes, ListedOfListed
    <3> QED  BY <3>2, <3>3 DEF ListedOfListed
  <2> QED  BY <2>9, <2>10, <2>11 DEF CatalogueTypes
<1>6. ASSUME NEW r \in Editors, NEW g \in Goods, NEW rate \in CostPrices, CostRead(r, g, rate)
      PROVE  CatalogueTypes'
  <2>1. PICK after : after = Recomputed(parts, [cost EXCEPT ![g] = rate], {g})  OBVIOUS
  <2>2. PICK x : x = [op |-> "cost", item |-> g,
                      cost |-> [i \in {g} \cup Ancestors(parts, {g}) |-> after[i]]]  OBVIOUS
  <2>3. after \in PriceLists
    <3>1. [cost EXCEPT ![g] = rate] \in PriceLists
      BY CatalogueAssumption, ListsAreCounts DEF CatalogueTypes, CatalogueTypeOK, PriceLists
    <3>2. parts \in Graphs  BY ListsAreCounts DEF CatalogueTypes, CatalogueTypeOK
    <3>3. PICK f \in [Nat -> PriceLists] : after = f[Level]  BY <2>1, <3>1, <3>2, RecomputedIs
    <3> QED  BY <3>3, LevelIsNat
  <2>4. {g} \cup Ancestors(parts, {g}) \subseteq ItemIds
    BY AboveClosed, ListsAreCounts DEF Ancestors
  <2>5. EditOK(x)  BY <2>2, <2>3, <2>4 DEF EditOK, PriceLists
  <2>6. edit' = [edit EXCEPT ![r] = x]  BY <1>6, <2>1, <2>2 DEF CostRead
  <2>7. DOMAIN edit' = Editors /\ \A q \in Editors : EditOK(edit[q])'  BY <2>5, <2>6, EditGoesOn
  <2>8. CatalogueTypeOK' /\ ListedOfListed'
    BY <1>6 DEF CostRead, Overlap, CatalogueTypes, CatalogueTypeOK, ListedOfListed
  <2> QED  BY <2>7, <2>8 DEF CatalogueTypes
<1>7. ASSUME NEW r \in Editors, CostCommit(r) PROVE CatalogueTypes'
  <2>1. PICK x : x = edit[r] /\ EditOK(x) /\ x.op = "cost"
    BY <1>7 DEF CatalogueTypes, CostCommit
  <2>2. /\ cost' = [i \in ItemIds |-> IF i \in DOMAIN x.cost THEN x.cost[i] ELSE cost[i]]
        /\ Done(r) /\ UNCHANGED <<listed, parts, status, raced>>
    BY <1>7, <2>1 DEF CostCommit
  <2>3. cost' \in [ItemIds -> Nat]
    BY <2>1, <2>2 DEF EditOK, CatalogueTypes, CatalogueTypeOK
  <2>4. /\ DOMAIN edit' = Editors /\ \A q \in Editors : EditOK(edit[q])'
        /\ lock' \in Editors \cup {Nobody}
    BY <2>2, EditEnds
  <2>5. CatalogueTypeOK' /\ ListedOfListed'
    BY <2>2, <2>3, <2>4 DEF CatalogueTypes, CatalogueTypeOK, ListedOfListed
  <2> QED  BY <2>4, <2>5 DEF CatalogueTypes
<1>8. ASSUME NEW r \in Editors, NEW i \in ItemIds, RemoveRead(r, i) PROVE CatalogueTypes'
  <2>1. PICK x : x = [op |-> "remove", item |-> i]  OBVIOUS
  <2>2. EditOK(x) /\ edit' = [edit EXCEPT ![r] = x]  BY <1>8, <2>1 DEF RemoveRead, EditOK
  <2>3. DOMAIN edit' = Editors /\ \A q \in Editors : EditOK(edit[q])'  BY <2>2, EditGoesOn
  <2>4. CatalogueTypeOK' /\ ListedOfListed'
    BY <1>8 DEF RemoveRead, CatalogueTypes, CatalogueTypeOK, ListedOfListed
  <2> QED  BY <2>3, <2>4 DEF CatalogueTypes
<1>9. ASSUME NEW r \in Editors, RemoveCommit(r) PROVE CatalogueTypes'
  <2>1. PICK i : i = edit[r].item /\ i \in ItemIds
    BY <1>9 DEF CatalogueTypes, RemoveCommit, EditOK
  <2>2. /\ i \in listed /\ Unused(i) /\ listed' = listed \ {i}
        /\ parts' = [parts EXCEPT ![i] = Nothing] /\ cost' = [cost EXCEPT ![i] = 0]
        /\ Done(r) /\ UNCHANGED <<status, raced>>
    BY <1>9, <2>1 DEF RemoveCommit
  <2>3. /\ DOMAIN edit' = Editors /\ \A q \in Editors : EditOK(edit[q])'
        /\ lock' \in Editors \cup {Nobody}
    BY <2>2, EditEnds
  <2>4. CatalogueTypeOK'
    BY <2>1, <2>2, <2>3, ListsAreCounts DEF CatalogueTypes, CatalogueTypeOK
  <2>5. ListedOfListed'
    <3>1. \A j \in ItemIds : parts'[j] = IF j = i THEN Nothing ELSE parts[j]
      BY <2>2 DEF CatalogueTypes, CatalogueTypeOK
    <3>2. ASSUME NEW j \in ItemIds, j \notin listed' \cap Combos PROVE parts'[j] = Nothing
      BY <2>2, <3>1, <3>2 DEF CatalogueTypes, ListedOfListed
    <3>3. ASSUME NEW d \in listed' \cap Combos PROVE In(parts'[d]) \subseteq listed'
      <4>1. d \in listed \cap Combos /\ d # i /\ parts'[d] = parts[d]
        BY <2>2, <3>1, <3>3, ListsAreCounts
      <4>2. In(parts[d]) \subseteq listed /\ i \notin In(parts[d])
        BY <2>2, <4>1 DEF CatalogueTypes, ListedOfListed, Unused
      <4> QED  BY <2>2, <4>1, <4>2
    <3> QED  BY <3>2, <3>3 DEF ListedOfListed
  <2> QED  BY <2>3, <2>4, <2>5 DEF CatalogueTypes
<1>10. ASSUME NEW r \in Editors, NEW p \in Products, DiscontinueRead(r, p) PROVE CatalogueTypes'
  <2>1. PICK x : x = [op |-> "discontinue", product |-> p]  OBVIOUS
  <2>2. EditOK(x) /\ edit' = [edit EXCEPT ![r] = x]  BY <1>10, <2>1 DEF DiscontinueRead, EditOK
  <2>3. DOMAIN edit' = Editors /\ \A q \in Editors : EditOK(edit[q])'  BY <2>2, EditGoesOn
  <2>4. CatalogueTypeOK' /\ ListedOfListed'
    BY <1>10 DEF DiscontinueRead, CatalogueTypes, CatalogueTypeOK, ListedOfListed
  <2> QED  BY <2>3, <2>4 DEF CatalogueTypes
<1>11. ASSUME NEW r \in Editors, DiscontinueCommit(r) \/ DropEdit(r) PROVE CatalogueTypes'
  <2>1. Done(r) /\ UNCHANGED <<listed, parts, cost, raced>>
    BY <1>11 DEF DiscontinueCommit, DropEdit
  <2>2. status' \in [Products -> {"ACTIVE", "DISCONTINUED"}]
    BY <1>11 DEF DiscontinueCommit, DropEdit, CatalogueTypes, CatalogueTypeOK
  <2>3. /\ DOMAIN edit' = Editors /\ \A q \in Editors : EditOK(edit[q])'
        /\ lock' \in Editors \cup {Nobody}
    BY <2>1, EditEnds
  <2>4. CatalogueTypeOK' /\ ListedOfListed'
    BY <2>1, <2>2, <2>3 DEF CatalogueTypes, CatalogueTypeOK, ListedOfListed
  <2> QED  BY <2>3, <2>4 DEF CatalogueTypes
<1> QED
  BY <1>1, <1>2, <1>3, <1>4, <1>5, <1>6, <1>7, <1>8, <1>9, <1>10, <1>11 DEF CatalogueNext

------------------------------------------------------------------------------
(* What the lock protects *)

\* A combo edit that is left alone, with the combos and the lock as they were.
LEMMA HeldKept ==
  ASSUME SellableInv, NEW q \in Editors, edit'[q] = edit[q],
         edit[q].op = "combo" /\ lock = q =>
           parts' = parts /\ listed' \cap Combos = listed \cap Combos /\ lock' = q /\ status' = status
  PROVE  HeldOK(q)'
<1>1. PICK x : x = edit[q] /\ EditOK(x)  BY DEF SellableInv, CatalogueTypes
<1> SUFFICES ASSUME x.op = "combo" PROVE HeldOK(q)'  BY <1>1 DEF HeldOK
<1>2. lock = q /\ Alive(x.parts) /\ (x.new => x.item \notin listed) /\ StillOpens(x)
  BY <1>1 DEF SellableInv, HeldOK
<1>3. parts' = parts /\ listed' \cap Combos = listed \cap Combos /\ lock' = q /\ status' = status
  BY <1>1, <1>2
<1>4. x.item \in Combos /\ In(x.parts) \subseteq ItemIds  BY <1>1 DEF EditOK, In
<1>5. Changed(x)' = Changed(x)  BY <1>3 DEF Changed
<1>6. StillOpens(x)'
  <2>1. In(x.parts) \cap Combos \subseteq listed' <=> In(x.parts) \cap Combos \subseteq listed
    BY <1>3
  <2>2. x.item \in listed' <=> x.item \in listed  BY <1>3, <1>4
  <2> QED  BY <1>2, <1>3, <1>5, <2>1, <2>2 DEF StillOpens
<1>7. Alive(x.parts)'  BY <1>2, <1>3 DEF Alive
<1>8. x.new => x.item \notin listed'  BY <1>2, <1>3, <1>4
<1> QED  BY <1>1, <1>3, <1>6, <1>7, <1>8 DEF HeldOK

\* What is offered stays as it is where lists, combos and statuses do.
LEMMA OffersKept ==
  ASSUME SellableInv, parts' = parts, listed' \cap Combos = listed \cap Combos, status' = status
  PROVE  EveryComboOpens' /\ NothingDeadOnSale'
BY DEF SellableInv, EveryComboOpens, NothingDeadOnSale

\* Combos that are not above the one that changes do not notice.
LEMMA GraphAllowed ==
  ASSUME SellableInv, NEW c \in Combos, NEW p \in Lists,
         c \notin In(p), GraphAllows([parts EXCEPT ![c] = p], c)
  PROVE  \A d \in (listed \cap Combos) \cup {c} : Opens([parts EXCEPT ![c] = p], d)
<1>1. PICK g : g = [parts EXCEPT ![c] = p]  OBVIOUS
<1>2. \A i \in ItemIds : g[i] = IF i = c THEN p ELSE parts[i]
  BY <1>1 DEF SellableInv, CatalogueTypes, CatalogueTypeOK
<1>3. PICK up : up = Above(g, {c})  OBVIOUS
<1>4. \A d \in {c} \cup up : Opens(g, d)  BY <1>1, <1>3 DEF GraphAllows, Ancestors
<1>5. up \subseteq Combos /\ \A d \in Combos : d \in up <=> In(g[d]) \cap ({c} \cup up) # {}
  BY <1>3, AboveClosed
<1>6. PICK L : L = (listed \cap Combos) \ ({c} \cup up)  OBVIOUS
<1>7. ASSUME NEW d \in L PROVE parts[d] = g[d] /\ In(parts[d]) \cap Combos \subseteq L
  <2>1. d \in listed \cap Combos /\ d # c /\ d \notin up /\ d \in ItemIds
    BY <1>6, <1>7, ListsAreCounts
  <2>2. g[d] = parts[d]  BY <1>2, <2>1
  <2>3. In(parts[d]) \subseteq listed
    BY <2>1 DEF SellableInv, CatalogueTypes, ListedOfListed
  <2>4. In(g[d]) \cap ({c} \cup up) = {}  BY <1>5, <2>1
  <2> QED  BY <1>6, <2>2, <2>3, <2>4
<1>8. L \subseteq Combos  BY <1>6
<1>9. \A d \in L : Opens(parts, d) => Opens(g, d)  BY <1>7, <1>8, OpensSame
<1>10. \A d \in L : Opens(parts, d)  BY <1>6 DEF SellableInv, EveryComboOpens
<1> QED  BY <1>1, <1>4, <1>6, <1>9, <1>10

\* A list that passed the checks of writeComboComponents.
LEMMA ComboReadHeld ==
  ASSUME SellableInv, NEW r \in Editors, NEW c \in Combos, NEW p \in Lists, ComboRead(r, c, p)
  PROVE  (\A q \in Editors : HeldOK(q)') /\ EveryComboOpens' /\ NothingDeadOnSale'
<1>1. PICK x : x = [op |-> "combo", item |-> c, parts |-> p,
                    cost |-> CostOf(p, cost), new |-> c \notin listed]  OBVIOUS
<1>2. /\ lock = Nobody /\ c \notin In(p) /\ Alive(p) /\ GraphAllows([parts EXCEPT ![c] = p], c)
      /\ edit' = [edit EXCEPT ![r] = x] /\ lock' = r
      /\ UNCHANGED <<listed, parts, cost, status>>
  BY <1>1 DEF ComboRead, LockFree
<1>3. \A q \in Editors : edit'[q] = IF q = r THEN x ELSE edit[q]
  BY <1>2 DEF SellableInv, CatalogueTypes
<1>4. EveryComboOpens' /\ NothingDeadOnSale'  BY <1>2, OffersKept
<1>5. ASSUME NEW q \in Editors, q # r PROVE HeldOK(q)'
  <2>1. edit'[q] = edit[q] /\ lock # q  BY <1>2, <1>3, <1>5, CatalogueAssumption
  <2> QED  BY <2>1, HeldKept
<1>6. HeldOK(r)'
  <2>1. /\ x.op = "combo" /\ x.item = c /\ x.parts = p /\ (x.new => c \notin listed)
    BY <1>1
  <2>2. \A d \in (listed \cap Combos) \cup {c} : Opens([parts EXCEPT ![c] = p], d)
    BY <1>2, GraphAllowed
  <2>3. StillOpens(x)'  BY <1>2, <2>1, <2>2 DEF StillOpens, Changed
  <2>4. Alive(p)'  BY <1>2 DEF Alive
  <2>5. edit'[r] = x  BY <1>3
  <2> QED  BY <1>2, <2>1, <2>3, <2>4, <2>5 DEF HeldOK
<1> QED  BY <1>4, <1>5, <1>6

\* The list is written: what was checked under the lock holds of the catalogue.
LEMMA ComboCommitHeld ==
  ASSUME SellableInv, NEW r \in Editors, ComboCommit(r)
  PROVE  (\A q \in Editors : HeldOK(q)') /\ EveryComboOpens' /\ NothingDeadOnSale'
<1>1. PICK x : x = edit[r] /\ EditOK(x) /\ x.op = "combo"
  BY DEF SellableInv, CatalogueTypes, ComboCommit
<1>2. PICK c, p : c = x.item /\ p = x.parts /\ c \in Combos /\ p \in Lists
  BY <1>1 DEF EditOK
<1>3. /\ In(p) \subseteq listed /\ x.new = (c \notin listed) /\ parts' = [parts EXCEPT ![c] = p]
      /\ listed' = listed \cup {c} /\ Done(r) /\ status' = status
  BY <1>1, <1>2 DEF ComboCommit
<1>4. lock = r /\ Alive(p) /\ StillOpens(x)  BY <1>1, <1>2 DEF SellableInv, HeldOK
<1>5. \A q \in Editors : edit'[q] = IF q = r THEN NoEdit ELSE edit[q]
  BY <1>3, EditEnds DEF SellableInv
<1>6. ASSUME NEW q \in Editors PROVE HeldOK(q)'
  <2>1. CASE q = r
    <3>1. edit'[q] = NoEdit  BY <1>5, <2>1
    <3> QED  BY <3>1, NoEditOK DEF HeldOK
  <2>2. CASE q # r
    <3>1. edit'[q] = edit[q] /\ lock # q  BY <1>4, <1>5, <2>2
    <3> QED  BY <3>1, HeldKept
  <2> QED  BY <2>1, <2>2
<1>7. EveryComboOpens'
  <2>1. \A d \in (listed \cap Combos) \cup {c} : Opens(Changed(x), d)
    BY <1>2, <1>3, <1>4 DEF StillOpens
  <2>2. parts' = Changed(x) /\ listed' \cap Combos \subseteq (listed \cap Combos) \cup {c}
    BY <1>2, <1>3 DEF Changed
  <2> QED  BY <2>1, <2>2 DEF EveryComboOpens
<1>8. NothingDeadOnSale'
  <2>1. \A d \in ItemIds : parts'[d] = IF d = c THEN p ELSE parts[d]
    BY <1>3 DEF SellableInv, CatalogueTypes, CatalogueTypeOK
  <2> SUFFICES ASSUME NEW d \in listed' \cap Combos, status'[ProductOf[d]] # "DISCONTINUED",
                      NEW i \in In(parts'[d])
               PROVE  ProductOf[i] = ProductOf[d] \/ status'[ProductOf[i]] # "DISCONTINUED"
    BY DEF NothingDeadOnSale
  <2>2. CASE d = c
    <3>1. i \in In(p)  BY <2>1, <2>2, ListsAreCounts
    <3> QED  BY <1>3, <1>4, <3>1 DEF Alive
  <2>3. CASE d # c
    <3>1. d \in listed \cap Combos /\ parts'[d] = parts[d]  BY <1>3, <2>1, <2>3, ListsAreCounts
    <3> QED  BY <1>3, <3>1 DEF SellableInv, NothingDeadOnSale
  <2> QED  BY <2>2, <2>3
<1> QED  BY <1>6, <1>7, <1>8

\* What is removed is in no combo, and taken out of none that is being written.
LEMMA RemoveCommitHeld ==
  ASSUME SellableInv, NEW r \in Editors, RemoveCommit(r)
  PROVE  (\A q \in Editors : HeldOK(q)') /\ EveryComboOpens' /\ NothingDeadOnSale'
<1>1. PICK i : i = edit[r].item /\ i \in ItemIds
  BY DEF SellableInv, CatalogueTypes, RemoveCommit, EditOK
<1>2. /\ edit[r].op = "remove" /\ i \in listed /\ Unused(i) /\ listed' = listed \ {i}
      /\ parts' = [parts EXCEPT ![i] = Nothing] /\ Done(r) /\ status' = status
  BY <1>1 DEF RemoveCommit
<1>3. /\ \A q \in Editors : edit'[q] = IF q = r THEN NoEdit ELSE edit[q]
      /\ \A q \in Editors : q # r /\ lock = q => lock' = q
  BY <1>2, EditEnds DEF SellableInv
<1>4. \A j \in ItemIds : parts'[j] = IF j = i THEN Nothing ELSE parts[j]
  BY <1>2 DEF SellableInv, CatalogueTypes, CatalogueTypeOK
<1>5. \A d \in listed' \cap Combos : d \in listed \cap Combos /\ d # i /\ parts'[d] = parts[d]
  BY <1>2, <1>4, ListsAreCounts
<1>6. \A d \in listed' \cap Combos : In(parts[d]) \subseteq listed'
  <2> TAKE d \in listed' \cap Combos
  <2>1. In(parts[d]) \subseteq listed /\ i \notin In(parts[d])
    BY <1>2, <1>5 DEF SellableInv, CatalogueTypes, ListedOfListed, Unused
  <2> QED  BY <1>2, <2>1
<1>7. EveryComboOpens'
  <2>1. PICK L : L = listed' \cap Combos  OBVIOUS
  <2>2. PICK h : h = parts'  OBVIOUS
  <2>3. \A d \in L : parts[d] = h[d] /\ In(parts[d]) \cap Combos \subseteq L
    BY <1>5, <1>6, <2>1, <2>2
  <2>4. \A d \in L : Opens(parts, d) => Opens(h, d)  BY <2>1, <2>3, OpensSame
  <2>5. \A d \in L : Opens(parts, d)  BY <1>5, <2>1 DEF SellableInv, EveryComboOpens
  <2> QED  BY <2>1, <2>2, <2>4, <2>5 DEF EveryComboOpens
<1>8. NothingDeadOnSale'
  BY <1>2, <1>5 DEF SellableInv, NothingDeadOnSale
<1>9. HeldOK(r)'
  <2>1. edit'[r] = NoEdit  BY <1>3
  <2> QED  BY <2>1, NoEditOK DEF HeldOK
<1>10. ASSUME NEW q \in Editors, q # r, edit[q].op = "combo" PROVE HeldOK(q)'
  <2>1. PICK x : x = edit[q] /\ EditOK(x) /\ x.op = "combo"
    BY <1>10 DEF SellableInv, CatalogueTypes
  <2>2. PICK c, p : c = x.item /\ p = x.parts /\ c \in Combos /\ p \in Lists /\ c \notin In(p)
    BY <2>1 DEF EditOK
  <2>3. lock = q /\ Alive(p) /\ (x.new => c \notin listed) /\ StillOpens(x)
    BY <2>1, <2>2 DEF SellableInv, HeldOK
  <2>4. edit'[q] = x /\ lock' = q  BY <1>3, <1>10, <2>1, <2>3
  <2>5. StillOpens(x)'
    <3> SUFFICES ASSUME In(p) \cap Combos \subseteq listed', x.new = (c \notin listed'),
                        NEW d \in (listed' \cap Combos) \cup {c}
                 PROVE  Opens(Changed(x)', d)
      BY <2>2 DEF StillOpens
    <3>1. In(p) \cap Combos \subseteq listed /\ x.new = (c \notin listed) /\ c # i
      BY <1>2, <2>3
    <3>2. PICK g : g = Changed(x)  OBVIOUS
    <3>3. PICK h : h = Changed(x)'  OBVIOUS
    <3>4. \A j \in ItemIds : g[j] = IF j = c THEN p ELSE parts[j]
      BY <2>2, <3>2 DEF Changed, SellableInv, CatalogueTypes, CatalogueTypeOK
    <3>5. \A j \in ItemIds : h[j] = IF j = c THEN p ELSE parts'[j]
      <4>1. DOMAIN parts' = ItemIds  BY <1>2 DEF SellableInv, CatalogueTypes, CatalogueTypeOK
      <4> QED  BY <2>2, <3>3, <4>1 DEF Changed
    <3>6. PICK L : L = (listed' \cap Combos) \cup {c}  OBVIOUS
    <3>7. ASSUME NEW e \in L PROVE g[e] = h[e] /\ In(g[e]) \cap Combos \subseteq L
      <4>1. CASE e = c
        <5>1. g[e] = p /\ h[e] = p  BY <2>2, <3>4, <3>5, <4>1, ListsAreCounts
        <5> QED  BY <3>6, <5>1
      <4>2. CASE e # c
        <5>1. e \in listed' \cap Combos /\ e \in ItemIds  BY <3>6, <3>7, <4>2, ListsAreCounts
        <5>2. g[e] = parts[e] /\ h[e] = parts[e]  BY <1>5, <3>4, <3>5, <4>2, <5>1
        <5> QED  BY <1>6, <3>6, <5>1, <5>2
      <4> QED  BY <4>1, <4>2
    <3>8. L \subseteq Combos  BY <2>2, <3>6
    <3>9. \A e \in L : Opens(g, e) => Opens(h, e)  BY <3>7, <3>8, OpensSame
    <3>10. \A e \in L : Opens(g, e)
      BY <1>2, <2>2, <2>3, <3>1, <3>2, <3>6 DEF StillOpens
    <3> QED  BY <3>3, <3>6, <3>9, <3>10
  <2>6. Alive(p)'  BY <1>2, <2>3 DEF Alive
  <2>7. x.new => c \notin listed'  BY <1>2, <2>3
  <2> QED  BY <2>1, <2>2, <2>4, <2>5, <2>6, <2>7 DEF HeldOK
<1>11. ASSUME NEW q \in Editors, q # r, edit[q].op # "combo" PROVE HeldOK(q)'
  BY <1>3, <1>11 DEF HeldOK
<1> QED  BY <1>7, <1>8, <1>9, <1>10, <1>11

\* Every step of the catalogue, with and without the lock.
LEMMA SellableInvStep == SellableInv /\ [CatalogueNext]_catalogueVars => SellableInv'
<1> SUFFICES ASSUME SellableInv, [CatalogueNext]_catalogueVars PROVE SellableInv'  OBVIOUS
<1>1. CatalogueTypes'  BY CatalogueTypesStep DEF SellableInv
<1> SUFFICES (\A q \in Editors : HeldOK(q)') /\ EveryComboOpens' /\ NothingDeadOnSale'
  BY <1>1 DEF SellableInv
<1>2. CASE UNCHANGED catalogueVars
  <2>1. UNCHANGED <<listed, parts, status, lock, edit>>  BY <1>2 DEF catalogueVars
  <2>2. ASSUME NEW q \in Editors PROVE HeldOK(q)'  BY <2>1, HeldKept
  <2> QED  BY <2>1, <2>2, OffersKept
<1>3. CASE \E p \in Products : Resell(p)
  <2>1. PICK p \in Products : Resell(p)  BY <1>3
  <2>2. /\ lock = Nobody /\ (status[p] = "DISCONTINUED" => Sellable(p))
        /\ status' = [status EXCEPT ![p] = "ACTIVE"]
        /\ UNCHANGED <<listed, parts, lock, edit>>
    BY <2>1 DEF Resell, LockFree
  <2>3. ASSUME NEW q \in Editors PROVE HeldOK(q)'
    <3>1. edit'[q] = edit[q] /\ lock # q  BY <2>2, CatalogueAssumption
    <3> QED  BY <3>1, HeldKept
  <2>4. EveryComboOpens'  BY <2>2 DEF SellableInv, EveryComboOpens
  <2>5. \A o \in Products : status'[o] = IF o = p THEN "ACTIVE" ELSE status[o]
    BY <2>2 DEF SellableInv, CatalogueTypes, CatalogueTypeOK
  <2>6. \A i \in ItemIds : ProductOf[i] \in Products  BY CatalogueAssumption
  <2>7. NothingDeadOnSale'
    <3> SUFFICES ASSUME NEW d \in listed \cap Combos, status'[ProductOf[d]] # "DISCONTINUED",
                        NEW i \in In(parts[d])
                 PROVE  ProductOf[i] = ProductOf[d] \/ status'[ProductOf[i]] # "DISCONTINUED"
      BY <2>2 DEF NothingDeadOnSale
    <3>1. i \in ItemIds /\ d \in ItemIds  BY ListsAreCounts DEF In
    <3>2. CASE status[ProductOf[d]] # "DISCONTINUED"
      <4>1. ProductOf[i] = ProductOf[d] \/ status[ProductOf[i]] # "DISCONTINUED"
        BY <3>2 DEF SellableInv, NothingDeadOnSale
      <4> QED  BY <2>5, <2>6, <3>1, <4>1
    <3>3. CASE status[ProductOf[d]] = "DISCONTINUED"
      <4>1. ProductOf[d] = p  BY <2>5, <2>6, <3>1, <3>3
      <4>2. Sellable(p)  BY <2>2, <3>3, <4>1
      <4>3. ProductOf[i] = p \/ status[ProductOf[i]] # "DISCONTINUED"  BY <4>1, <4>2 DEF Sellable
      <4> QED  BY <2>5, <2>6, <3>1, <4>1, <4>3
    <3> QED  BY <3>2, <3>3
  <2> QED  BY <2>3, <2>4, <2>7
<1>4. CASE \E g \in Goods, rate \in CostPrices : CreateGood(g, rate)
  <2>1. PICK g \in Goods, rate \in CostPrices : CreateGood(g, rate)  BY <1>4
  <2>2. /\ listed' \cap Combos = listed \cap Combos
        /\ UNCHANGED <<parts, status, lock, edit>>
    BY <2>1, CatalogueAssumption DEF CreateGood
  <2>3. ASSUME NEW q \in Editors PROVE HeldOK(q)'  BY <2>2, HeldKept
  <2> QED  BY <2>2, <2>3, OffersKept
<1>5. ASSUME NEW r \in Editors,
             \/ \E g \in Goods, rate \in CostPrices : CostRead(r, g, rate)
             \/ \E i \in ItemIds : RemoveRead(r, i)
             \/ \E p \in Products : DiscontinueRead(r, p)
      PROVE  (\A q \in Editors : HeldOK(q)') /\ EveryComboOpens' /\ NothingDeadOnSale'
  <2>1. UNCHANGED <<listed, parts, status, lock>>
    BY <1>5 DEF CostRead, RemoveRead, DiscontinueRead
  <2>2. PICK x : edit' = [edit EXCEPT ![r] = x] /\ x.op # "combo"
    <3>1. ASSUME NEW g \in Goods, NEW rate \in CostPrices, CostRead(r, g, rate)
          PROVE  \E x : edit' = [edit EXCEPT ![r] = x] /\ x.op # "combo"
      <4>1. PICK k : edit' = [edit EXCEPT ![r] = [op |-> "cost", item |-> g, cost |-> k]]
        BY <3>1 DEF CostRead
      <4>2. PICK x : x = [op |-> "cost", item |-> g, cost |-> k]  OBVIOUS
      <4>3. x.op # "combo" /\ edit' = [edit EXCEPT ![r] = x]  BY <4>1, <4>2
      <4> QED  BY <4>3
    <3>2. ASSUME NEW i \in ItemIds, RemoveRead(r, i)
          PROVE  \E x : edit' = [edit EXCEPT ![r] = x] /\ x.op # "combo"
      <4>1. PICK x : x = [op |-> "remove", item |-> i]  OBVIOUS
      <4>2. x.op # "combo" /\ edit' = [edit EXCEPT ![r] = x]  BY <3>2, <4>1 DEF RemoveRead
      <4> QED  BY <4>2
    <3>3. ASSUME NEW p \in Products, DiscontinueRead(r, p)
          PROVE  \E x : edit' = [edit EXCEPT ![r] = x] /\ x.op # "combo"
      <4>1. PICK x : x = [op |-> "discontinue", product |-> p]  OBVIOUS
      <4>2. x.op # "combo" /\ edit' = [edit EXCEPT ![r] = x]  BY <3>3, <4>1 DEF DiscontinueRead
      <4> QED  BY <4>2
    <3> QED  BY <1>5, <3>1, <3>2, <3>3
  <2>3. \A q \in Editors : edit'[q] = IF q = r THEN x ELSE edit[q]
    BY <2>2 DEF SellableInv, CatalogueTypes
  <2>4. ASSUME NEW q \in Editors PROVE HeldOK(q)'
    <3>1. CASE q = r  BY <2>2, <2>3, <3>1 DEF HeldOK
    <3>2. CASE q # r
      <4>1. edit'[q] = edit[q]  BY <2>3, <3>2
      <4> QED  BY <2>1, <4>1, HeldKept
    <3> QED  BY <3>1, <3>2
  <2> QED  BY <2>1, <2>4, OffersKept
<1>6. ASSUME NEW r \in Editors, CostCommit(r) \/ DropEdit(r)
      PROVE  (\A q \in Editors : HeldOK(q)') /\ EveryComboOpens' /\ NothingDeadOnSale'
  <2>1. Done(r) /\ UNCHANGED <<listed, parts, status>>  BY <1>6 DEF CostCommit, DropEdit
  <2>2. /\ \A q \in Editors : edit'[q] = IF q = r THEN NoEdit ELSE edit[q]
        /\ \A q \in Editors : q # r /\ lock = q => lock' = q
    BY <2>1, EditEnds DEF SellableInv
  <2>3. ASSUME NEW q \in Editors PROVE HeldOK(q)'
    <3>1. CASE q = r
      <4>1. edit'[q] = NoEdit  BY <2>2, <3>1
      <4> QED  BY <4>1, NoEditOK DEF HeldOK
    <3>2. CASE q # r
      <4>1. edit'[q] = edit[q] /\ (lock = q => lock' = q)  BY <2>2, <3>2
      <4> QED  BY <2>1, <4>1, HeldKept
    <3> QED  BY <3>1, <3>2
  <2> QED  BY <2>1, <2>3, OffersKept
<1>7. ASSUME NEW r \in Editors, DiscontinueCommit(r)
      PROVE  (\A q \in Editors : HeldOK(q)') /\ EveryComboOpens' /\ NothingDeadOnSale'
  <2>1. PICK p : p = edit[r].product /\ p \in Products
    BY <1>7 DEF DiscontinueCommit, SellableInv, CatalogueTypes, EditOK
  <2>2. /\ lock = Nobody /\ ~InSoldCombo(p) /\ status' = [status EXCEPT ![p] = "DISCONTINUED"]
        /\ Done(r) /\ UNCHANGED <<listed, parts>>
    BY <1>7, <2>1 DEF DiscontinueCommit, LockFree
  <2>3. \A q \in Editors : edit'[q] = IF q = r THEN NoEdit ELSE edit[q]
    BY <2>2, EditEnds DEF SellableInv
  <2>4. ASSUME NEW q \in Editors PROVE HeldOK(q)'
    <3>1. CASE q = r
      <4>1. edit'[q] = NoEdit  BY <2>3, <3>1
      <4> QED  BY <4>1, NoEditOK DEF HeldOK
    <3>2. CASE q # r
      <4>1. edit'[q] = edit[q] /\ lock # q  BY <2>2, <2>3, <3>2, CatalogueAssumption
      <4> QED  BY <4>1, HeldKept
    <3> QED  BY <3>1, <3>2
  <2>5. EveryComboOpens'  BY <2>2 DEF SellableInv, EveryComboOpens
  <2>6. \A o \in Products : status'[o] = IF o = p THEN "DISCONTINUED" ELSE status[o]
    BY <2>2 DEF SellableInv, CatalogueTypes, CatalogueTypeOK
  <2>7. \A i \in ItemIds : ProductOf[i] \in Products  BY CatalogueAssumption
  <2>8. NothingDeadOnSale'
    <3> SUFFICES ASSUME NEW d \in listed \cap Combos, status'[ProductOf[d]] # "DISCONTINUED",
                        NEW i \in In(parts[d])
                 PROVE  ProductOf[i] = ProductOf[d] \/ status'[ProductOf[i]] # "DISCONTINUED"
      BY <2>2 DEF NothingDeadOnSale
    <3>1. i \in ItemIds /\ d \in ItemIds  BY ListsAreCounts DEF In
    <3>2. ProductOf[d] # p /\ status[ProductOf[d]] # "DISCONTINUED"  BY <2>6, <2>7, <3>1
    <3>3. ProductOf[i] # p  BY <2>2, <3>2 DEF InSoldCombo
    <3>4. ProductOf[i] = ProductOf[d] \/ status[ProductOf[i]] # "DISCONTINUED"
      BY <3>2 DEF SellableInv, NothingDeadOnSale
    <3> QED  BY <2>6, <2>7, <3>1, <3>3, <3>4
  <2> QED  BY <2>4, <2>5, <2>8
<1> QED
  BY <1>2, <1>3, <1>4, <1>5, <1>6, <1>7, ComboReadHeld, ComboCommitHeld, RemoveCommitHeld
     DEF CatalogueNext

LEMMA SellableInvInit == CatalogueInit => SellableInv
<1> SUFFICES ASSUME CatalogueInit PROVE SellableInv  OBVIOUS
<1>1. CatalogueTypes  BY CatalogueTypesInit
<1>2. listed \cap Combos = {}  BY CatalogueAssumption DEF CatalogueInit
<1>3. \A q \in Editors : HeldOK(q)
  <2> TAKE q \in Editors
  <2>1. edit[q] = NoEdit  BY DEF CatalogueInit
  <2> QED  BY <2>1, NoEditOK DEF HeldOK
<1> QED  BY <1>1, <1>2, <1>3 DEF SellableInv, EveryComboOpens, NothingDeadOnSale

\* What the catalogue offers can be sold: every combo opens, and none on sale holds
\* anything discontinued (combo-components.ts, products.service.ts).
THEOREM CombosStaySellable == CatalogueSpec => []CombosCanBeSold
<1>1. CatalogueInit => SellableInv  BY SellableInvInit
<1>2. SellableInv /\ [CatalogueNext]_catalogueVars => SellableInv'  BY SellableInvStep
<1>3. SellableInv => CombosCanBeSold  BY DEF SellableInv, CombosCanBeSold
<1> QED  BY <1>1, <1>2, <1>3, PTL DEF CatalogueSpec

------------------------------------------------------------------------------
(* The costs add up *)

\* The costs add up to those of the components.
AddsUp(g, rate) == \A c \in listed \cap Combos : rate[c] = CostOf(g[c], rate)
\* The costs once a price edit is written.
Repriced(x) == [i \in ItemIds |-> IF i \in DOMAIN x.cost THEN x.cost[i] ELSE cost[i]]

OnePricing == \A q, r \in Editors : Pricing(q) /\ Pricing(r) => q = r
PricingOK(x) ==
  /\ x.op = "combo" /\ In(x.parts) \subseteq listed => x.cost = CostOf(x.parts, cost)
  /\ x.op = "cost" /\ DOMAIN x.cost \subseteq listed => AddsUp(parts, Repriced(x))

CostInv ==
  /\ SellableInv
  /\ ~ raced => /\ OnePricing
                /\ \A r \in Editors : PricingOK(edit[r])
                /\ AddsUp(parts, cost)

\* Where what a combo contains and what its components cost are as before, so is its cost.
LEMMA CombosCostSame ==
  ASSUME NEW g \in Graphs, NEW q \in PriceLists, NEW t \in PriceLists, NEW c \in ItemIds,
         q[c] = CostOf(g[c], q), t[c] = q[c], \A i \in In(g[c]) : q[i] = t[i]
  PROVE  t[c] = CostOf(g[c], t)
<1>1. g[c] \in [ItemIds -> Nat]  BY DEF Graphs
<1>2. CostOf(g[c], q) = CostOf(g[c], t)  BY <1>1, CostSame
<1> QED  BY <1>2

\* Lists and costs as the lemmas above ask for them.
LEMMA GraphOK == SellableInv => parts \in Graphs /\ cost \in PriceLists
BY ListsAreCounts DEF SellableInv, CatalogueTypes, CatalogueTypeOK, PriceLists

\* The catalogue with p written as what c contains, and the costs that come of it.
WithList(c, p) == [parts EXCEPT ![c] = p]
CostsWithList(c, p) == Recomputed(WithList(c, p), [cost EXCEPT ![c] = CostOf(p, cost)], {c})
ListFits(c, p) ==
  /\ c \notin In(p) /\ In(p) \subseteq listed
  /\ AllOpen(WithList(c, p), (listed \cap Combos) \cup {c})
ListAddsUp(c, p) ==
  \A d \in (listed \cup {c}) \cap Combos :
    CostsWithList(c, p)[d] = CostOf(WithList(c, p)[d], CostsWithList(c, p))

\* recomputeComboCosts after a change of what c contains: where the costs added up
\* before, they do so again, that of c included.
LEMMA RecomputedForCombo ==
  ASSUME SellableInv, AddsUp(parts, cost), NEW c \in Combos, NEW p \in Lists, ListFits(c, p)
  PROVE  ListAddsUp(c, p)
<1>given. PICK g, own : g = WithList(c, p) /\ own = [cost EXCEPT ![c] = CostOf(p, cost)]  OBVIOUS
<1>fits. /\ g = [parts EXCEPT ![c] = p]
      /\ c \notin In(p) /\ In(p) \subseteq listed
      /\ \A d \in (listed \cap Combos) \cup {c} : Opens(g, d)
  BY <1>given DEF WithList, ListFits, AllOpen
<1>1. parts \in Graphs /\ cost \in PriceLists /\ c \in ItemIds /\ p \in [ItemIds -> Nat]
  BY GraphOK, ListsAreCounts
<1>2. /\ g \in Graphs
      /\ \A i \in ItemIds : g[i] = IF i = c THEN p ELSE parts[i]
  BY <1>fits, <1>1 DEF Graphs
<1>3. CostOf(p, cost) \in Nat  BY <1>1, CostIsNat
<1>4. /\ own \in PriceLists
      /\ \A i \in ItemIds : own[i] = IF i = c THEN CostOf(p, cost) ELSE cost[i]
  BY <1>given, <1>1, <1>3 DEF PriceLists
<1>5. PICK up : up = Above(g, {c})  OBVIOUS
<1>6. up \subseteq Combos /\ \A d \in Combos : d \in up <=> In(g[d]) \cap ({c} \cup up) # {}
  BY <1>5, AboveClosed
<1>7. up \subseteq (listed \cap Combos) \cup {c}
  <2> SUFFICES ASSUME NEW d \in up, d \notin listed, d # c PROVE FALSE  BY <1>6
  <2>1. d \in ItemIds /\ d \in Combos  BY <1>6, ListsAreCounts
  <2>2. g[d] = Nothing
    BY <1>2, <2>1 DEF SellableInv, CatalogueTypes, ListedOfListed
  <2>3. In(g[d]) # {}  BY <1>6, <2>1
  <2> QED  BY <2>2, <2>3, ListsAreCounts
<1>8. \A d \in up : Opens(g, d)  BY <1>fits, <1>7
<1>9. c \notin up  BY <1>fits, <1>2, <1>5, NotAboveItself
<1>10. PICK after : after = Recomputed(g, own, {c})  OBVIOUS
<1>11. /\ after \in PriceLists
       /\ \A i \in ItemIds : i \notin up => after[i] = own[i]
       /\ \A i \in up : after[i] = CostOf(g[i], after)
  <2>1. PICK s : s = {c}  OBVIOUS
  <2>2. up = Above(g, s) /\ after = Recomputed(g, own, s)  BY <1>5, <1>10, <2>1
  <2>3. g \in Graphs /\ own \in PriceLists /\ AllOpen(g, Above(g, s))
    BY <1>2, <1>4, <1>8, <2>2 DEF AllOpen
  <2>4. CostsAbove(g, own, Above(g, s), Recomputed(g, own, s))  BY <2>3, RecomputedAdds
  <2> QED  BY <2>2, <2>4 DEF CostsAbove
<1>12. ASSUME NEW d \in (listed \cup {c}) \cap Combos, d \notin up
       PROVE  after[d] = CostOf(g[d], after)
  <2>1. d \in ItemIds /\ In(g[d]) \subseteq ItemIds /\ In(g[d]) \cap ({c} \cup up) = {}
    BY <1>6, <1>12, ListsAreCounts DEF In
  <2>2. \A i \in In(g[d]) : after[i] = cost[i]  BY <1>4, <1>11, <2>1
  <2>3. g[d] \in [ItemIds -> Nat]  BY <1>2, <2>1 DEF Graphs
  <2>4. CostOf(g[d], cost) = CostOf(g[d], after)  BY <1>1, <1>11, <2>2, <2>3, CostSame
  <2>5. CASE d = c
    <3>1. after[d] = CostOf(p, cost) /\ g[d] = p  BY <1>2, <1>4, <1>9, <1>11, <2>1, <2>5
    <3> QED  BY <2>4, <3>1
  <2>6. CASE d # c
    <3>1. after[d] = cost[d] /\ g[d] = parts[d]  BY <1>2, <1>4, <1>11, <1>12, <2>1, <2>6
    <3>2. cost[d] = CostOf(parts[d], cost)  BY <1>12, <2>6 DEF AddsUp
    <3> QED  BY <2>4, <3>1, <3>2
  <2> QED  BY <2>5, <2>6
<1> QED  BY <1>given, <1>10, <1>11, <1>12 DEF CostsWithList, ListAddsUp

\* What a price edit of g holds.
PriceEdit(g, rate) ==
  [i \in {g} \cup Ancestors(parts, {g}) |->
    Recomputed(parts, [cost EXCEPT ![g] = rate], {g})[i]]

\* The same after a change of the price of a good.
LEMMA RecomputedForGood ==
  ASSUME SellableInv, AddsUp(parts, cost), NEW g \in Goods, NEW rate \in Nat,
         NEW x, x.cost = PriceEdit(g, rate)
  PROVE  AddsUp(parts, Repriced(x))
<1>given. PICK own : own = [cost EXCEPT ![g] = rate]  OBVIOUS
<1>1. parts \in Graphs /\ cost \in PriceLists /\ g \in ItemIds /\ g \notin Combos
  BY GraphOK, ListsAreCounts, CatalogueAssumption
<1>2. own \in PriceLists /\ \A i \in ItemIds : own[i] = IF i = g THEN rate ELSE cost[i]
  BY <1>given, <1>1 DEF PriceLists
<1>3. PICK up : up = Above(parts, {g})  OBVIOUS
<1>4. up \subseteq Combos /\ \A d \in Combos : d \in up <=> In(parts[d]) \cap ({g} \cup up) # {}
  BY <1>3, AboveClosed
<1>5. up \subseteq listed \cap Combos
  <2> SUFFICES ASSUME NEW d \in up, d \notin listed PROVE FALSE  BY <1>4
  <2>1. d \in ItemIds /\ d \in Combos  BY <1>4, ListsAreCounts
  <2>2. parts[d] = Nothing  BY <2>1 DEF SellableInv, CatalogueTypes, ListedOfListed
  <2>3. In(parts[d]) # {}  BY <1>4, <2>1
  <2> QED  BY <2>2, <2>3, ListsAreCounts
<1>6. \A d \in up : Opens(parts, d)  BY <1>5 DEF SellableInv, EveryComboOpens
<1>7. PICK after : after = Recomputed(parts, own, {g})  OBVIOUS
<1>8. /\ after \in PriceLists
      /\ \A i \in ItemIds : i \notin up => after[i] = own[i]
      /\ \A i \in up : after[i] = CostOf(parts[i], after)
  <2>1. PICK s : s = {g}  OBVIOUS
  <2>2. up = Above(parts, s) /\ after = Recomputed(parts, own, s)  BY <1>3, <1>7, <2>1
  <2>3. parts \in Graphs /\ own \in PriceLists /\ AllOpen(parts, Above(parts, s))
    BY <1>1, <1>2, <1>6, <2>2 DEF AllOpen
  <2>4. CostsAbove(parts, own, Above(parts, s), Recomputed(parts, own, s))
    BY <2>3, RecomputedAdds
  <2> QED  BY <2>2, <2>4 DEF CostsAbove
<1>9. DOMAIN x.cost = {g} \cup up /\ \A i \in {g} \cup up : x.cost[i] = after[i]
  BY <1>given, <1>3, <1>7 DEF Ancestors, PriceEdit
<1>10. Repriced(x) = after
  <2>1. \A i \in ItemIds : (IF i \in DOMAIN x.cost THEN x.cost[i] ELSE cost[i]) = after[i]
    BY <1>1, <1>2, <1>8, <1>9
  <2> QED  BY <1>8, <2>1 DEF Repriced, PriceLists
<1>11. ASSUME NEW d \in listed \cap Combos, d \notin up PROVE after[d] = CostOf(parts[d], after)
  <2>1. d \in ItemIds /\ d # g /\ In(parts[d]) \subseteq ItemIds /\ In(parts[d]) \cap ({g} \cup up) = {}
    BY <1>1, <1>4, <1>11, ListsAreCounts DEF In
  <2>2. after[d] = cost[d] /\ \A i \in In(parts[d]) : cost[i] = after[i]
    BY <1>2, <1>8, <1>11, <2>1
  <2>3. cost[d] = CostOf(parts[d], cost)  BY <1>11 DEF AddsUp
  <2> QED  BY <1>1, <1>8, <2>1, <2>2, <2>3, CombosCostSame
<1>12. AddsUp(parts, after)  BY <1>8, <1>11 DEF AddsUp
<1> QED  BY <1>10, <1>12

CostsInOrder ==
  /\ OnePricing
  /\ \A r \in Editors : PricingOK(edit[r])
  /\ AddsUp(parts, cost)

\* A price edit writes amounts.
LEMMA RepricedOK ==
  ASSUME SellableInv, NEW r \in Editors, edit[r].op = "cost"
  PROVE  Repriced(edit[r]) \in PriceLists
<1>1. PICK x : x = edit[r] /\ EditOK(x) /\ x.op = "cost"  BY DEF SellableInv, CatalogueTypes
<1>2. \A i \in ItemIds : (IF i \in DOMAIN x.cost THEN x.cost[i] ELSE cost[i]) \in Nat
  BY <1>1, GraphOK DEF EditOK, PriceLists
<1> QED  BY <1>1, <1>2 DEF Repriced, PriceLists

\* A step that changes neither what is listed nor any cost, and begins no pricing.
LEMMA CostsStay ==
  ASSUME CostsInOrder, listed' = listed, parts' = parts, cost' = cost,
         \A q \in Editors : edit'[q] = edit[q] \/ edit'[q].op \notin {"combo", "cost"}
  PROVE  CostsInOrder'
<1>1. AddsUp(parts, cost)'  BY DEF CostsInOrder, AddsUp
<1>2. ASSUME NEW q \in Editors, Pricing(q)' PROVE Pricing(q) /\ edit'[q] = edit[q]
  BY <1>2 DEF Pricing
<1>3. OnePricing'  BY <1>2 DEF CostsInOrder, OnePricing
<1>4. ASSUME NEW q \in Editors PROVE PricingOK(edit[q])'
  <2>1. CASE edit'[q].op \notin {"combo", "cost"}  BY <2>1 DEF PricingOK
  <2>2. CASE edit'[q] = edit[q]
    <3>1. PICK x : x = edit[q] /\ x = edit'[q] /\ PricingOK(x)  BY <2>2 DEF CostsInOrder
    <3>2. Repriced(x)' = Repriced(x)  BY DEF Repriced
    <3>3. PricingOK(x)'  BY <3>1, <3>2 DEF PricingOK, AddsUp
    <3> QED  BY <3>1, <3>3 DEF PricingOK
  <2> QED  BY <2>1, <2>2
<1> QED  BY <1>1, <1>3, <1>4 DEF CostsInOrder

\* No pricing is under way once the last has ended.
LEMMA NoPricingLeft ==
  ASSUME \A q \in Editors : edit'[q].op \notin {"combo", "cost"}
  PROVE  OnePricing' /\ \A q \in Editors : PricingOK(edit[q])'
BY DEF OnePricing, Pricing, PricingOK

\* The pricings, each alone while no two have overlapped.
LEMMA ComboReadCosts ==
  ASSUME CostInv, ~raced', NEW r \in Editors, NEW c \in Combos, NEW p \in Lists, ComboRead(r, c, p)
  PROVE  CostsInOrder'
<1>1. PICK x : x = [op |-> "combo", item |-> c, parts |-> p,
                    cost |-> CostOf(p, cost), new |-> c \notin listed]  OBVIOUS
<1>2. /\ raced' = (raced \/ Overlap) /\ edit' = [edit EXCEPT ![r] = x]
      /\ UNCHANGED <<listed, parts, cost, status>>
  BY <1>1 DEF ComboRead
<1>3. \A q \in Editors : edit'[q] = IF q = r THEN x ELSE edit[q]
  BY <1>2 DEF CostInv, SellableInv, CatalogueTypes
<1>4. ~raced /\ \A q \in Editors : edit[q].op \notin {"combo", "cost"}
  BY <1>2 DEF CostInv, Overlap, Pricing
<1>5. \A q \in Editors : Pricing(q)' => q = r  BY <1>3, <1>4 DEF Pricing
<1>6. AddsUp(parts, cost)'  BY <1>2, <1>4 DEF CostInv, AddsUp
<1>7. ASSUME NEW q \in Editors PROVE PricingOK(edit[q])'
  <2>1. CASE q = r
    <3>1. x.op = "combo" /\ x.parts = p /\ x.cost = CostOf(p, cost)  BY <1>1
    <3>2. edit'[q] = x /\ cost' = cost  BY <1>2, <1>3, <2>1
    <3> QED  BY <3>1, <3>2 DEF PricingOK
  <2>2. CASE q # r
    <3>1. edit'[q].op \notin {"combo", "cost"}  BY <1>3, <1>4, <2>2
    <3> QED  BY <3>1 DEF PricingOK
  <2> QED  BY <2>1, <2>2
<1> QED  BY <1>5, <1>6, <1>7 DEF CostsInOrder, OnePricing

LEMMA ComboCommitCosts ==
  ASSUME CostInv, ~raced', NEW r \in Editors, ComboCommit(r)
  PROVE  CostsInOrder'
<1>1. PICK x : x = edit[r] /\ EditOK(x) /\ x.op = "combo"
  BY DEF CostInv, SellableInv, CatalogueTypes, ComboCommit
<1>2. PICK c, p : /\ c = x.item /\ p = x.parts /\ c \in Combos /\ p \in Lists
                  /\ c \notin In(p) /\ x.cost \in Nat
  BY <1>1 DEF EditOK
<1>3. PICK g, own : g = [parts EXCEPT ![c] = p] /\ own = [cost EXCEPT ![c] = x.cost]  OBVIOUS
<1>4. /\ In(p) \subseteq listed /\ x.new = (c \notin listed) /\ parts' = g
      /\ cost' = Recomputed(g, own, {c}) /\ listed' = listed \cup {c} /\ Done(r)
      /\ raced' = raced
  BY <1>1, <1>2, <1>3 DEF ComboCommit
<1>5. ~raced /\ CostsInOrder /\ SellableInv  BY <1>4 DEF CostInv, CostsInOrder
<1>6. x.cost = CostOf(p, cost)  BY <1>1, <1>2, <1>4, <1>5 DEF CostsInOrder, PricingOK
<1>7. \A d \in (listed \cap Combos) \cup {c} : Opens(g, d)
  <2>1. StillOpens(x)  BY <1>1, <1>5 DEF SellableInv, HeldOK
  <2>2. Changed(x) = g  BY <1>2, <1>3 DEF Changed
  <2> QED  BY <1>2, <1>4, <2>1, <2>2 DEF StillOpens
<1>8. AddsUp(parts, cost)'
  <2>1. ListFits(c, p)  BY <1>2, <1>3, <1>4, <1>7 DEF ListFits, AllOpen, WithList
  <2>2. AddsUp(parts, cost)  BY <1>5 DEF CostsInOrder
  <2>3. ListAddsUp(c, p)  BY <1>2, <1>5, <2>1, <2>2, RecomputedForCombo
  <2>4. parts' = WithList(c, p) /\ cost' = CostsWithList(c, p)
    BY <1>3, <1>4, <1>6 DEF WithList, CostsWithList
  <2> QED  BY <1>4, <2>3, <2>4 DEF AddsUp, ListAddsUp
<1>9. \A q \in Editors : edit'[q] = IF q = r THEN NoEdit ELSE edit[q]
  BY <1>4, <1>5, EditEnds DEF SellableInv
<1>10. \A q \in Editors : edit'[q].op \notin {"combo", "cost"}
  BY <1>1, <1>5, <1>9, NoEditOK DEF CostsInOrder, OnePricing, Pricing
<1> QED  BY <1>8, <1>10, NoPricingLeft DEF CostsInOrder

LEMMA CreateGoodCosts ==
  ASSUME CostInv, ~raced', NEW g \in Goods, NEW rate \in CostPrices, CreateGood(g, rate)
  PROVE  CostsInOrder'
<1>1. /\ g \notin listed /\ listed' = listed \cup {g} /\ cost' = [cost EXCEPT ![g] = rate]
      /\ raced' = (raced \/ Overlap) /\ parts' = parts /\ edit' = edit
  BY DEF CreateGood
<1>2. ~raced /\ \A q \in Editors : edit[q].op \notin {"combo", "cost"}
  BY <1>1 DEF CostInv, Overlap, Pricing
<1>3. parts \in Graphs /\ cost \in PriceLists /\ rate \in Nat /\ g \notin Combos /\ g \in ItemIds
  BY GraphOK, CatalogueAssumption, ListsAreCounts DEF CostInv
<1>4. cost' \in PriceLists /\ \A i \in ItemIds : i # g => cost'[i] = cost[i]
  BY <1>1, <1>3 DEF PriceLists
<1>5. ASSUME NEW d \in listed' \cap Combos PROVE cost'[d] = CostOf(parts[d], cost')
  <2>1. d \in listed \cap Combos /\ d # g /\ d \in ItemIds  BY <1>1, <1>3, <1>5, ListsAreCounts
  <2>2. In(parts[d]) \subseteq listed /\ In(parts[d]) \subseteq ItemIds
    BY <2>1 DEF CostInv, SellableInv, CatalogueTypes, ListedOfListed, In
  <2>3. cost'[d] = cost[d] /\ \A i \in In(parts[d]) : cost[i] = cost'[i]
    BY <1>1, <1>4, <2>1, <2>2
  <2>4. cost[d] = CostOf(parts[d], cost)  BY <1>2, <2>1 DEF CostInv, AddsUp
  <2> QED  BY <1>3, <1>4, <2>1, <2>3, <2>4, CombosCostSame
<1>6. AddsUp(parts, cost)'  BY <1>1, <1>5 DEF AddsUp
<1>7. \A q \in Editors : edit'[q].op \notin {"combo", "cost"}  BY <1>1, <1>2
<1> QED  BY <1>6, <1>7, NoPricingLeft DEF CostsInOrder

LEMMA CostReadCosts ==
  ASSUME CostInv, ~raced', NEW r \in Editors, NEW g \in Goods, NEW rate \in CostPrices,
         CostRead(r, g, rate)
  PROVE  CostsInOrder'
<1>1. PICK own : own = [cost EXCEPT ![g] = rate]  OBVIOUS
<1>2. PICK x : x = [op |-> "cost", item |-> g,
                    cost |-> [i \in {g} \cup Ancestors(parts, {g}) |-> Recomputed(parts, own, {g})[i]]]
  OBVIOUS
<1>3. /\ raced' = (raced \/ Overlap) /\ edit' = [edit EXCEPT ![r] = x]
      /\ UNCHANGED <<listed, parts, cost, status>>
  BY <1>1, <1>2 DEF CostRead
<1>4. \A q \in Editors : edit'[q] = IF q = r THEN x ELSE edit[q]
  BY <1>3 DEF CostInv, SellableInv, CatalogueTypes
<1>5. ~raced /\ \A q \in Editors : edit[q].op \notin {"combo", "cost"}
  BY <1>3 DEF CostInv, Overlap, Pricing
<1>6. \A q \in Editors : Pricing(q)' => q = r  BY <1>4, <1>5 DEF Pricing
<1>7. AddsUp(parts, cost)'  BY <1>3, <1>5 DEF CostInv, AddsUp
<1>8. AddsUp(parts, Repriced(x))
  <2>1. x.cost = PriceEdit(g, rate)  BY <1>1, <1>2 DEF PriceEdit
  <2>2. rate \in Nat  BY CatalogueAssumption
  <2>3. SellableInv /\ AddsUp(parts, cost)  BY <1>5 DEF CostInv
  <2> QED  BY <2>1, <2>2, <2>3, RecomputedForGood
<1>9. ASSUME NEW q \in Editors PROVE PricingOK(edit[q])'
  <2>1. CASE q = r
    <3>1. x.op = "cost"  BY <1>2
    <3>2. edit'[q] = x  BY <1>4, <2>1
    <3>3. Repriced(x)' = Repriced(x)  BY <1>3 DEF Repriced
    <3>4. AddsUp(parts, Repriced(x))'  BY <1>3, <1>8, <3>3 DEF AddsUp
    <3>5. PricingOK(x)'  BY <3>1, <3>4 DEF PricingOK
    <3> QED  BY <3>2, <3>5 DEF PricingOK
  <2>2. CASE q # r
    <3>1. edit'[q].op \notin {"combo", "cost"}  BY <1>4, <1>5, <2>2
    <3> QED  BY <3>1 DEF PricingOK
  <2> QED  BY <2>1, <2>2
<1> QED  BY <1>6, <1>7, <1>9 DEF CostsInOrder, OnePricing

LEMMA CostCommitCosts ==
  ASSUME CostInv, ~raced', NEW r \in Editors, CostCommit(r)
  PROVE  CostsInOrder'
<1>1. PICK x : x = edit[r] /\ x.op = "cost"  BY DEF CostCommit
<1>2. /\ DOMAIN x.cost \subseteq listed /\ cost' = Repriced(x) /\ Done(r)
      /\ UNCHANGED <<listed, parts, status, raced>>
  BY <1>1 DEF CostCommit, Repriced
<1>3. ~raced /\ CostsInOrder /\ SellableInv  BY <1>2 DEF CostInv, CostsInOrder
<1>4. AddsUp(parts, Repriced(x))  BY <1>1, <1>2, <1>3 DEF CostsInOrder, PricingOK
<1>5. AddsUp(parts, cost)'  BY <1>2, <1>4 DEF AddsUp
<1>6. \A q \in Editors : edit'[q] = IF q = r THEN NoEdit ELSE edit[q]
  BY <1>2, <1>3, EditEnds DEF SellableInv
<1>7. \A q \in Editors : edit'[q].op \notin {"combo", "cost"}
  BY <1>1, <1>3, <1>6, NoEditOK DEF CostsInOrder, OnePricing, Pricing
<1> QED  BY <1>5, <1>7, NoPricingLeft DEF CostsInOrder

LEMMA RemoveCommitCosts ==
  ASSUME CostInv, ~raced', NEW r \in Editors, RemoveCommit(r)
  PROVE  CostsInOrder'
<1>1. PICK i : i = edit[r].item /\ i \in ItemIds
  BY DEF CostInv, SellableInv, CatalogueTypes, RemoveCommit, EditOK
<1>2. /\ edit[r].op = "remove" /\ i \in listed /\ Unused(i) /\ listed' = listed \ {i}
      /\ parts' = [parts EXCEPT ![i] = Nothing] /\ cost' = [cost EXCEPT ![i] = 0]
      /\ Done(r) /\ raced' = raced
  BY <1>1 DEF RemoveCommit
<1>3. ~raced /\ CostsInOrder /\ SellableInv  BY <1>2 DEF CostInv, CostsInOrder
<1>4. parts \in Graphs /\ cost \in PriceLists  BY <1>3, GraphOK
<1>5. \A q \in Editors : edit'[q] = IF q = r THEN NoEdit ELSE edit[q]
  BY <1>2, <1>3, EditEnds DEF SellableInv
<1>6. cost' \in PriceLists /\ \A j \in ItemIds : j # i => cost'[j] = cost[j]
  BY <1>2, <1>4 DEF PriceLists
<1>7. \A d \in listed' \cap Combos :
        d \in listed \cap Combos /\ d \in ItemIds /\ d # i /\ parts'[d] = parts[d] /\ i \notin In(parts[d])
  BY <1>2, <1>4, ListsAreCounts DEF Graphs, Unused
<1>8. ASSUME NEW q \in PriceLists, NEW t \in PriceLists, \A j \in ItemIds : j # i => t[j] = q[j],
             AddsUp(parts, q), NEW d \in listed' \cap Combos
      PROVE  t[d] = CostOf(parts'[d], t)
  <2>1. q[d] = CostOf(parts[d], q)  BY <1>7, <1>8 DEF AddsUp
  <2>2. t[d] = q[d] /\ \A j \in In(parts[d]) : q[j] = t[j]  BY <1>7, <1>8 DEF In
  <2>3. t[d] = CostOf(parts[d], t)  BY <1>4, <1>7, <2>1, <2>2, CombosCostSame
  <2> QED  BY <1>7, <2>3
<1>9. AddsUp(parts, cost)'
  <2>1. AddsUp(parts, cost)  BY <1>3 DEF CostsInOrder
  <2> QED  BY <1>4, <1>6, <1>8, <2>1 DEF AddsUp
<1>10. ASSUME NEW q \in Editors PROVE PricingOK(edit[q])'
  <2>1. CASE q = r
    <3>1. edit'[q] = NoEdit  BY <1>5, <2>1
    <3> QED  BY <3>1, NoEditOK DEF PricingOK
  <2>2. CASE q # r
    <3>1. PICK x : x = edit[q] /\ x = edit'[q] /\ EditOK(x) /\ PricingOK(x)
      BY <1>3, <1>5, <2>2 DEF CostsInOrder, SellableInv, CatalogueTypes
    <3>2. ASSUME x.op = "combo", In(x.parts) \subseteq listed' PROVE x.cost = CostOf(x.parts, cost')
      <4>1. x.parts \in [ItemIds -> Nat]  BY <3>1, <3>2, ListsAreCounts DEF EditOK
      <4>2. In(x.parts) \subseteq listed /\ i \notin In(x.parts)  BY <1>2, <3>2
      <4>3. \A j \in In(x.parts) : cost[j] = cost'[j]  BY <1>6, <4>2 DEF In
      <4>4. CostOf(x.parts, cost) = CostOf(x.parts, cost')  BY <1>4, <1>6, <4>1, <4>3, CostSame
      <4> QED  BY <3>1, <3>2, <4>2, <4>4 DEF PricingOK
    <3>3. ASSUME x.op = "cost", DOMAIN x.cost \subseteq listed' PROVE AddsUp(parts, Repriced(x))'
      <4>1. DOMAIN x.cost \subseteq listed  BY <1>2, <3>3
      <4>2. AddsUp(parts, Repriced(x))  BY <3>1, <3>3, <4>1 DEF PricingOK
      <4>3. Repriced(x) \in PriceLists  BY <1>3, <3>1, <3>3, RepricedOK
      <4>4. PICK t : t = Repriced(x)'  OBVIOUS
      <4>5. t \in PriceLists /\ \A j \in ItemIds : j # i => t[j] = Repriced(x)[j]
        <5>1. \A j \in DOMAIN x.cost : x.cost[j] \in Nat  BY <3>1, <3>3 DEF EditOK
        <5> QED  BY <1>6, <4>4, <5>1 DEF Repriced, PriceLists
      <4>6. \A d \in listed' \cap Combos : t[d] = CostOf(parts'[d], t)
        BY <1>8, <4>2, <4>3, <4>5
      <4> QED  BY <4>4, <4>6 DEF AddsUp
    <3>4. PricingOK(x)'  BY <3>2, <3>3 DEF PricingOK
    <3> QED  BY <3>1, <3>4 DEF PricingOK
  <2> QED  BY <2>1, <2>2
<1>11. OnePricing'
  <2>1. \A q \in Editors : Pricing(q)' => Pricing(q)  BY <1>5, NoEditOK DEF Pricing
  <2> QED  BY <1>3, <2>1 DEF CostsInOrder, OnePricing
<1> QED  BY <1>9, <1>10, <1>11 DEF CostsInOrder

\* Every step of the catalogue leaves the costs adding up.
LEMMA CostInvStep == CostInv /\ [CatalogueNext]_catalogueVars => CostInv'
<1> SUFFICES ASSUME CostInv, [CatalogueNext]_catalogueVars, ~raced' PROVE CostsInOrder'
  BY SellableInvStep DEF CostInv, CostsInOrder
<1>1. SellableInv  BY DEF CostInv
<1>2. CASE UNCHANGED catalogueVars \/ \E p \in Products : Resell(p)
  <2>1. UNCHANGED <<listed, parts, cost, edit, raced>>  BY <1>2 DEF catalogueVars, Resell
  <2>2. CostsInOrder  BY <2>1 DEF CostInv, CostsInOrder
  <2> QED  BY <2>1, <2>2, CostsStay
<1>3. ASSUME NEW r \in Editors, \/ \E i \in ItemIds : RemoveRead(r, i)
                                \/ \E p \in Products : DiscontinueRead(r, p)
                                \/ DiscontinueCommit(r) \/ DropEdit(r)
      PROVE  CostsInOrder'
  <2>1. UNCHANGED <<listed, parts, cost, raced>>
    BY <1>3 DEF RemoveRead, DiscontinueRead, DiscontinueCommit, DropEdit
  <2>2. PICK x : edit' = [edit EXCEPT ![r] = x] /\ x.op \notin {"combo", "cost"}
    <3>1. ASSUME NEW i \in ItemIds, RemoveRead(r, i)
          PROVE  \E x : edit' = [edit EXCEPT ![r] = x] /\ x.op \notin {"combo", "cost"}
      <4>1. PICK x : x = [op |-> "remove", item |-> i]  OBVIOUS
      <4>2. x.op \notin {"combo", "cost"} /\ edit' = [edit EXCEPT ![r] = x]
        BY <3>1, <4>1 DEF RemoveRead
      <4> QED  BY <4>2
    <3>2. ASSUME NEW p \in Products, DiscontinueRead(r, p)
          PROVE  \E x : edit' = [edit EXCEPT ![r] = x] /\ x.op \notin {"combo", "cost"}
      <4>1. PICK x : x = [op |-> "discontinue", product |-> p]  OBVIOUS
      <4>2. x.op \notin {"combo", "cost"} /\ edit' = [edit EXCEPT ![r] = x]
        BY <3>2, <4>1 DEF DiscontinueRead
      <4> QED  BY <4>2
    <3>3. ASSUME DiscontinueCommit(r) \/ DropEdit(r)
          PROVE  \E x : edit' = [edit EXCEPT ![r] = x] /\ x.op \notin {"combo", "cost"}
      <4>1. edit' = [edit EXCEPT ![r] = NoEdit]  BY <3>3 DEF DiscontinueCommit, DropEdit, Done
      <4> QED  BY <4>1, NoEditOK
    <3> QED  BY <1>3, <3>1, <3>2, <3>3
  <2>3. \A q \in Editors : edit'[q] = edit[q] \/ edit'[q].op \notin {"combo", "cost"}
    BY <1>1, <2>2 DEF SellableInv, CatalogueTypes
  <2>4. CostsInOrder  BY <2>1 DEF CostInv, CostsInOrder
  <2> QED  BY <2>1, <2>3, <2>4, CostsStay
<1> QED
  BY <1>2, <1>3, ComboReadCosts, ComboCommitCosts, CreateGoodCosts, CostReadCosts, CostCommitCosts,
     RemoveCommitCosts DEF CatalogueNext

\* As long as no two pricings overlapped, a combo's stored cost is the sum of its
\* components' at every level (combo-components.ts, recomputeComboCosts).
THEOREM CostsAlwaysAddUp == CatalogueSpec => []CostsAddUp
<1>1. CatalogueInit => CostInv
  <2> SUFFICES ASSUME CatalogueInit PROVE CostInv  OBVIOUS
  <2>1. listed \cap Combos = {}  BY CatalogueAssumption DEF CatalogueInit
  <2>2. AddsUp(parts, cost)  BY <2>1 DEF AddsUp
  <2>3. \A q \in Editors : edit[q].op = "idle"  BY NoEditOK DEF CatalogueInit
  <2> QED  BY <2>2, <2>3, SellableInvInit DEF CostInv, OnePricing, Pricing, PricingOK
<1>2. CostInv /\ [CatalogueNext]_catalogueVars => CostInv'  BY CostInvStep
<1>3. CostInv => CostsAddUp  BY DEF CostInv, CostsAddUp, AddsUp
<1> QED  BY <1>1, <1>2, <1>3, PTL DEF CatalogueSpec

------------------------------------------------------------------------------
(* The plan of a shop *)

AnyStatus == Served \cup {"EXPIRED"}
InvoiceRow == [sub : Nat, plan : Plans, status : {"PENDING", "FAILED", "PAID"}, made : Nat]
Most == Max({Quota[p] : p \in AllPlans})

RowsOK ==
  /\ now \in Nat /\ resources \in Nat
  /\ subs \in Seq(Row)
  /\ invoices \in Seq(InvoiceRow)
  /\ DOMAIN asked = Callers

\* Of a term: how long it may last, and what it may allow.
TermOK(row) ==
  /\ row.status = "TRIAL" => row.plan = Trial
  /\ row.end <= now + Days[row.plan]
  /\ row.quota <= Most

\* The term is over and its days of grace are.
Late(row) == now > row.end + (IF row.plan = Trial THEN 0 ELSE Grace)

\* What is still true of a row that was read and of the status decided then.
ReadOK(s, read, next) ==
  /\ s \in Rows
  /\ read.term <= subs[s].term
  /\ read.term \in Nat /\ read.quota \in Nat /\ read.quota <= Most
  /\ next # read.status => next \in {"PAST_DUE", "EXPIRED"}
  /\ next # read.status /\ next = "EXPIRED" /\ read.term = subs[s].term => Late(subs[s])

OpenOK(x) ==
  /\ x.op \in {"replace", "invoice"} => /\ x.sub \in Rows /\ x.plan \in Plans
                                        /\ x = [op |-> x.op, sub |-> x.sub, plan |-> x.plan]
  /\ x.op = "hook" => x.invoice \in DOMAIN invoices
  /\ x.op = "settle" => ReadOK(x.sub, x.row, x.next)
  /\ x.op = "count" => x.quota \in Nat /\ x.quota <= Most

SweepOK ==
  \A s \in DOMAIN sweep :
    /\ ReadOK(s, sweep[s].row, sweep[s].next)
    /\ sweep[s].next # sweep[s].row.status

InvoicesOK == \A i \in DOMAIN invoices : invoices[i].sub \in Rows

TermInv == /\ RowsOK
           /\ \A s \in Rows : TermOK(subs[s])
           /\ InvoicesOK
           /\ SweepOK
           /\ \A r \in Callers : OpenOK(asked[r])

\* Requests that have passed the check and not yet created what they asked for.
Creating == {r \in Callers : asked[r].op = "create"}
QuotaInv == resources + Cardinality(Creating) <= Most + Cardinality(Callers) - 1

------------------------------------------------------------------------------
\* The largest quota is the quota of a plan.
LEMMA MostAllows == Most \in Nat /\ \A p \in AllPlans : Quota[p] \in Nat /\ Quota[p] <= Most
<1> DEFINE S == {Quota[p] : p \in AllPlans}
<1>1. \A p \in AllPlans : Quota[p] \in Nat
  BY SubscriptionAssumption DEF AllPlans
<1>2. \E m \in S : \A y \in S : m >= y
  BY <1>1, QuotaAssumption DEF AllPlans
<1>3. Max(S) \in S /\ \A y \in S : Max(S) >= y
  BY <1>2 DEF Max
<1> QED  BY <1>1, <1>3 DEF Most

\* The rule gives another status only to a term that is over, and gives
\* EXPIRED only to one that is over for good.
LEMMA RuleIsSound ==
  ASSUME now \in Nat, NEW row \in Row, TermOK(row)
  PROVE  /\ NextStatus(row) # row.status => NextStatus(row) \in {"PAST_DUE", "EXPIRED"}
         /\ NextStatus(row) # row.status /\ NextStatus(row) = "EXPIRED" => Late(row)
<1> USE SubscriptionAssumption
<1> DEFINE ended == row.status = "TRIAL" /\ now > row.end
           gone == row.status \in {"ACTIVE", "PAST_DUE"} /\ row.end < now - Grace
           due == row.status \in {"ACTIVE", "PAST_DUE"} /\ row.end >= now - Grace /\ now > row.end
<1>1. row.end \in Nat /\ Grace \in Nat  BY DEF Row
<1>2. CASE ended
  <2>1. NextStatus(row) = "EXPIRED"  BY <1>2, Zenon DEF NextStatus
  <2>2. Late(row)  BY <1>1, <1>2 DEF TermOK, Late
  <2> QED  BY <2>1, <2>2
<1>3. CASE gone
  <2>1. NextStatus(row) = "EXPIRED"
    <3>1. ~ended /\ ~due  BY <1>1, <1>3
    <3> QED  BY <1>3, <3>1, Zenon DEF NextStatus
  <2>2. Late(row)  BY <1>1, <1>3 DEF Late
  <2> QED  BY <2>1, <2>2
<1>4. CASE due
  <2>1. NextStatus(row) = "PAST_DUE"
    <3>1. ~ended /\ ~gone  BY <1>1, <1>4
    <3> QED  BY <1>4, <3>1, Zenon DEF NextStatus
  <2> QED  BY <2>1
<1>5. CASE ~ended /\ ~gone /\ ~due
  <2>1. NextStatus(row) = row.status  BY <1>5, Zenon DEF NextStatus
  <2> QED  BY <2>1
<1> QED  BY <1>2, <1>3, <1>4, <1>5

\* One row of a table is written.
LEMMA WriteRow ==
  ASSUME NEW S, NEW t \in Seq(S), NEW s \in DOMAIN t, NEW new \in S
  PROVE  /\ [t EXCEPT ![s] = new] \in Seq(S)
         /\ DOMAIN [t EXCEPT ![s] = new] = DOMAIN t
         /\ [t EXCEPT ![s] = new][s] = new
         /\ \A q \in DOMAIN t \ {s} : [t EXCEPT ![s] = new][q] = t[q]
<1>1. DOMAIN t = 1 .. Len(t)  BY LenProperties
<1> QED  BY <1>1, ExceptSeq

\* One row is added to a table.
LEMMA AddRow ==
  ASSUME NEW S, NEW t \in Seq(S), NEW new \in S
  PROVE  /\ Append(t, new) \in Seq(S)
         /\ DOMAIN Append(t, new) = DOMAIN t \cup {Len(t) + 1}
         /\ \A q \in DOMAIN t : Append(t, new)[q] = t[q]
         /\ Append(t, new)[Len(t) + 1] = new
         /\ Len(t) + 1 \notin DOMAIN t
<1>1. DOMAIN t = 1 .. Len(t) /\ Len(t) \in Nat  BY LenProperties
<1> QED  BY <1>1

\* Every row of a table may be written.
LEMMA WriteRows ==
  ASSUME NEW S, NEW t \in Seq(S), NEW f, DOMAIN f = DOMAIN t,
         f = [i \in DOMAIN f |-> f[i]], \A i \in DOMAIN t : f[i] \in S
  PROVE  f \in Seq(S)
<1>1. DOMAIN t = 1 .. Len(t) /\ Len(t) \in Nat  BY LenProperties
<1>2. f \in [1 .. Len(t) -> S]  BY <1>1
<1> QED  BY <1>1, <1>2, SeqDef

------------------------------------------------------------------------------
\* How far a row may go in one step: what was read of it remains true.
RowMoves(old, new) ==
  /\ new.term >= old.term
  /\ new.term = old.term => new.end = old.end /\ new.plan = old.plan

LEMMA ReadStaysOK ==
  ASSUME RowsOK, RowsOK', now' >= now, NEW s, NEW read, NEW next, ReadOK(s, read, next),
         s \in DOMAIN subs', RowMoves(subs[s], subs'[s])
  PROVE  ReadOK(s, read, next)'
<1> USE SubscriptionAssumption, MostAllows
<1>1. subs[s] \in Row /\ subs'[s] \in Row
  <2>1. s \in 1 .. Len(subs) /\ s \in 1 .. Len(subs')
    BY LenProperties DEF RowsOK, ReadOK, Rows
  <2> QED  BY <2>1, ElementOfSeq DEF RowsOK
<1>2. read.term <= subs[s].term /\ subs[s].term \in Nat /\ subs'[s].term \in Nat /\ read.term \in Nat
  BY <1>1 DEF ReadOK, Row
<1>3. read.term <= subs'[s].term
  BY <1>2 DEF RowMoves
<1>4. ASSUME next # read.status, next = "EXPIRED", read.term = subs'[s].term
      PROVE  Late(subs[s])'
  <2>1. subs[s].term = read.term /\ subs'[s].end = subs[s].end /\ subs'[s].plan = subs[s].plan
    BY <1>2, <1>4 DEF RowMoves
  <2>2. Late(subs[s])  BY <1>4, <2>1 DEF ReadOK
  <2>3. subs[s].end \in Nat /\ now \in Nat /\ now' \in Nat /\ Grace \in Nat
    BY <1>1 DEF Row, RowsOK
  <2>4. CASE subs[s].plan = Trial  BY <2>1, <2>2, <2>3, <2>4 DEF Late
  <2>5. CASE subs[s].plan # Trial  BY <2>1, <2>2, <2>3, <2>5 DEF Late
  <2> QED  BY <2>4, <2>5
<1> QED  BY <1>3, <1>4 DEF ReadOK, Rows

\* Rows of a table are of its type.
LEMMA RowType ==
  ASSUME RowsOK
  PROVE  /\ \A s \in Rows : subs[s] \in Row
         /\ \A i \in DOMAIN invoices : invoices[i] \in InvoiceRow
<1>1. Rows = 1 .. Len(subs) /\ DOMAIN invoices = 1 .. Len(invoices)
  BY LenProperties DEF RowsOK, Rows
<1> QED  BY <1>1, ElementOfSeq DEF RowsOK

\* A step after which the tables are sound keeps what was read of them.
LEMMA TermStep ==
  ASSUME TermInv, RowsOK', now' >= now,
         \A s \in Rows : s \in DOMAIN subs' /\ RowMoves(subs[s], subs'[s]),
         \A s \in DOMAIN subs' : TermOK(subs[s])',
         DOMAIN invoices \subseteq DOMAIN invoices', InvoicesOK',
         SweepOK' \/ sweep' = sweep,
         \A r \in Callers : asked'[r] = asked[r] \/ OpenOK(asked[r])'
  PROVE  TermInv'
<1>1. RowsOK  BY DEF TermInv
<1>2. SweepOK'
  <2>1. SUFFICES ASSUME sweep' = sweep PROVE SweepOK'  OBVIOUS
  <2>2. SUFFICES ASSUME NEW s \in DOMAIN sweep
                 PROVE  /\ ReadOK(s, sweep[s].row, sweep[s].next)'
                        /\ sweep[s].next # sweep[s].row.status
    BY <2>1 DEF SweepOK
  <2>3. ReadOK(s, sweep[s].row, sweep[s].next) /\ sweep[s].next # sweep[s].row.status
    BY DEF TermInv, SweepOK
  <2>4. PICK w : w = sweep[s]  OBVIOUS
  <2>5. s \in DOMAIN subs' /\ RowMoves(subs[s], subs'[s])  BY <2>3 DEF ReadOK
  <2>6. ReadOK(s, w.row, w.next)'  BY <1>1, <2>3, <2>4, <2>5, ReadStaysOK
  <2> QED  BY <2>1, <2>3, <2>4, <2>6
<1>3. \A r \in Callers : OpenOK(asked[r])'
  <2> TAKE r \in Callers
  <2>1. SUFFICES ASSUME asked'[r] = asked[r] PROVE OpenOK(asked[r])'  OBVIOUS
  <2>2. PICK x : x = asked[r]  OBVIOUS
  <2>3. OpenOK(x)  BY <2>2 DEF TermInv
  <2>4. OpenOK(x)'
    <3>1. x.op = "settle" => ReadOK(x.sub, x.row, x.next)'
      <4> SUFFICES ASSUME x.op = "settle" PROVE ReadOK(x.sub, x.row, x.next)'  OBVIOUS
      <4>1. ReadOK(x.sub, x.row, x.next)  BY <2>3 DEF OpenOK
      <4>2. x.sub \in DOMAIN subs' /\ RowMoves(subs[x.sub], subs'[x.sub])  BY <4>1 DEF ReadOK
      <4> QED  BY <1>1, <4>1, <4>2, ReadStaysOK
    <3>2. x.op \in {"replace", "invoice"} =>
            /\ x.sub \in Rows' /\ x.plan \in Plans
            /\ x = [op |-> x.op, sub |-> x.sub, plan |-> x.plan]
      BY <2>3 DEF OpenOK, Rows
    <3>3. x.op = "hook" => x.invoice \in DOMAIN invoices'
      BY <2>3 DEF OpenOK
    <3> QED  BY <2>3, <3>1, <3>2, <3>3 DEF OpenOK
  <2> QED  BY <2>1, <2>2, <2>4
<1>4. \A s \in Rows' : TermOK(subs[s])'  BY DEF Rows
<1> QED  BY <1>2, <1>3, <1>4 DEF TermInv

\* What ends within some days ends within as many of a later day.
LEMMA StillWithin ==
  ASSUME NEW end \in Nat, NEW days \in Nat, NEW t \in Nat, NEW u \in Nat,
         u >= t, end <= t + days
  PROVE  end <= u + days
OBVIOUS

\* No row is written; time may pass.
LEMMA RowsStay ==
  ASSUME TermInv, UNCHANGED subs, now' \in Nat, now' >= now, resources' \in Nat,
         invoices' \in Seq(InvoiceRow), DOMAIN invoices \subseteq DOMAIN invoices', InvoicesOK',
         SweepOK' \/ sweep' = sweep, DOMAIN asked' = Callers,
         \A r \in Callers : asked'[r] = asked[r] \/ OpenOK(asked[r])'
  PROVE  TermInv'
<1> USE SubscriptionAssumption
<1>1. RowsOK'  BY DEF TermInv, RowsOK
<1>2. \A s \in Rows : subs[s] \in Row  BY RowType DEF TermInv
<1>3. \A s \in Rows : RowMoves(subs[s], subs'[s])
  BY <1>2 DEF RowMoves, Row
<1>4. \A s \in DOMAIN subs' : TermOK(subs[s])'
  <2> TAKE s \in DOMAIN subs'
  <2>1. subs[s] \in Row /\ TermOK(subs[s])  BY <1>2 DEF TermInv, Rows
  <2>2. subs[s].end \in Nat /\ Days[subs[s].plan] \in Nat /\ now \in Nat
    BY <2>1 DEF Row, AllPlans, TermInv, RowsOK
  <2>3. subs[s].end <= now + Days[subs[s].plan]  BY <2>1 DEF TermOK
  <2>4. subs[s].end <= now' + Days[subs[s].plan]  BY <2>2, <2>3, StillWithin
  <2> QED  BY <2>1, <2>4 DEF TermOK
<1> QED  BY <1>1, <1>3, <1>4, TermStep DEF Rows

\* A request goes on, and writes nothing.
LEMMA CallStep ==
  ASSUME TermInv, UNCHANGED <<now, shop, sweep>>, NEW r \in Callers, NEW x, OpenOK(x),
         asked' = [asked EXCEPT ![r] = x]
  PROVE  TermInv'
<1>1. UNCHANGED <<now, subs, invoices, resources>>  BY DEF shop
<1>2. DOMAIN asked' = Callers /\ \A q \in Callers : asked'[q] = asked[q] \/ asked'[q] = x
  BY DEF TermInv, RowsOK
<1>3. OpenOK(x)'  BY <1>1 DEF OpenOK, ReadOK, Rows, Late
<1>4. \A q \in Callers : asked'[q] = asked[q] \/ OpenOK(asked[q])'
  BY <1>2, <1>3
<1>5. InvoicesOK' /\ now' >= now  BY <1>1 DEF TermInv, InvoicesOK, Rows, RowsOK
<1> QED  BY <1>1, <1>2, <1>4, <1>5, RowsStay DEF TermInv, RowsOK

LEMMA NoCallOK == OpenOK(NoCall)
BY DEF OpenOK, NoCall

\* One row is written.
LEMMA RowStep ==
  ASSUME TermInv, NEW s \in Rows, NEW new \in Row, subs' = [subs EXCEPT ![s] = new],
         TermOK(new), RowMoves(subs[s], new), UNCHANGED <<now, resources, sweep>>,
         invoices' \in Seq(InvoiceRow), DOMAIN invoices' = DOMAIN invoices,
         \A i \in DOMAIN invoices : invoices'[i].sub = invoices[i].sub,
         DOMAIN asked' = Callers, \A r \in Callers : asked'[r] = asked[r] \/ OpenOK(asked[r])'
  PROVE  TermInv'
<1>1. RowsOK /\ InvoicesOK  BY DEF TermInv
<1>2. /\ subs' \in Seq(Row) /\ DOMAIN subs' = Rows /\ subs'[s] = new
      /\ \A q \in Rows \ {s} : subs'[q] = subs[q]
  BY <1>1, WriteRow DEF RowsOK, Rows
<1>3. RowsOK'  BY <1>1, <1>2 DEF RowsOK
<1>4. \A q \in Rows : q \in DOMAIN subs' /\ RowMoves(subs[q], subs'[q])
  <2> TAKE q \in Rows
  <2>1. subs[q].term \in Nat  BY <1>1, RowType DEF Row
  <2> QED  BY <1>2, <2>1 DEF RowMoves
<1>5. \A q \in DOMAIN subs' : TermOK(subs[q])'
  BY <1>2 DEF TermOK, TermInv
<1>6. InvoicesOK'  BY <1>1, <1>2 DEF InvoicesOK, Rows
<1>7. now' >= now  BY <1>1 DEF RowsOK
<1> QED  BY <1>3, <1>4, <1>5, <1>6, <1>7, TermStep

\* A new term, and a status given to the term that stands.
LEMMA NewTerm ==
  ASSUME now \in Nat, NEW row \in Row, NEW plan \in Plans
  PROVE  /\ Term(row, plan) \in Row
         /\ TermOK(Term(row, plan)) /\ RowMoves(row, Term(row, plan))
         /\ Term(row, plan).status = "ACTIVE" /\ Term(row, plan).plan = plan
         /\ Term(row, plan).end = now + Days[plan]
BY SubscriptionAssumption, MostAllows DEF Term, Row, TermOK, RowMoves, AllPlans, Served

LEMMA NewStatus ==
  ASSUME NEW row \in Row, NEW v \in {"PAST_DUE", "EXPIRED"}, TermOK(row),
         NEW new, new = [row EXCEPT !.status = v]
  PROVE  /\ new \in Row /\ TermOK(new) /\ RowMoves(row, new)
         /\ new.status = v /\ new.end = row.end /\ new.plan = row.plan /\ new.term = row.term
BY DEF Row, TermOK, RowMoves, Served

------------------------------------------------------------------------------
LEMMA InitTermInv == PlanInit => TermInv
<1> SUFFICES ASSUME PlanInit PROVE TermInv  OBVIOUS
<1>1. /\ subs = <<>> /\ invoices = <<>> /\ sweep = <<>> /\ now = 0 /\ resources = 0
      /\ asked = [r \in Callers |-> NoCall]
  BY DEF PlanInit
<1>2. DOMAIN subs = {} /\ DOMAIN invoices = {} /\ DOMAIN sweep = {}
  BY <1>1
<1>3. subs \in Seq(Row) /\ invoices \in Seq(InvoiceRow)
  BY <1>1, EmptySeq
<1>4. RowsOK  BY <1>1, <1>3 DEF RowsOK
<1>5. SweepOK /\ InvoicesOK  BY <1>2 DEF SweepOK, InvoicesOK
<1>6. \A r \in Callers : OpenOK(asked[r])  BY <1>1, NoCallOK
<1> QED  BY <1>2, <1>4, <1>5, <1>6 DEF TermInv, Rows

\* What a request does to the table of requests.
LEMMA Opened ==
  ASSUME TermInv, NEW r \in Callers, NEW x, Open(r, x)
  PROVE  /\ asked' = [asked EXCEPT ![r] = x] /\ DOMAIN asked' = Callers
         /\ asked'[r] = x /\ \A q \in Callers \ {r} : asked'[q] = asked[q]
BY DEF Open, TermInv, RowsOK

LEMMA TrialCommitStep ==
  ASSUME TermInv, NEW r \in Callers, TrialCommit(r)
  PROVE  TermInv'
<1> USE SubscriptionAssumption, MostAllows
<1> DEFINE new == [plan |-> Trial, status |-> "TRIAL", term |-> 0,
                   end |-> now + Days[Trial], quota |-> Quota[Trial]]
<1>1. /\ subs' = Append(subs, new) /\ Open(r, NoCall)
      /\ UNCHANGED <<now, invoices, resources, sweep>>
  BY DEF TrialCommit, Leave
<1>2. RowsOK /\ InvoicesOK  BY DEF TermInv
<1>3. new \in Row /\ TermOK(new)
  BY <1>2 DEF Row, AllPlans, Served, TermOK, RowsOK
<1> HIDE DEF new
<1>4. /\ subs' \in Seq(Row) /\ DOMAIN subs' = Rows \cup {Len(subs) + 1}
      /\ \A s \in Rows : subs'[s] = subs[s]
      /\ subs'[Len(subs) + 1] = new
  BY <1>1, <1>2, <1>3, AddRow DEF RowsOK, Rows
<1>5. DOMAIN asked' = Callers /\ \A q \in Callers : asked'[q] = asked[q] \/ asked'[q] = NoCall
  BY <1>1, Opened
<1>6. RowsOK'  BY <1>1, <1>2, <1>4, <1>5 DEF RowsOK
<1>7. \A s \in Rows : s \in DOMAIN subs' /\ RowMoves(subs[s], subs'[s])
  <2> TAKE s \in Rows
  <2>1. subs[s].term \in Nat  BY <1>2, RowType DEF Row
  <2> QED  BY <1>4, <2>1 DEF RowMoves
<1>8. \A s \in DOMAIN subs' : TermOK(subs[s])'
  <2>1. \A s \in Rows : TermOK(subs[s])  BY DEF TermInv
  <2> QED  BY <1>1, <1>3, <1>4, <2>1 DEF TermOK
<1>9. InvoicesOK'  BY <1>1, <1>2, <1>4 DEF InvoicesOK, Rows
<1>10. \A q \in Callers : asked'[q] = asked[q] \/ OpenOK(asked[q])'
  BY <1>5 DEF OpenOK, NoCall
<1>11. now' >= now  BY <1>1, <1>2 DEF RowsOK
<1> QED  BY <1>1, <1>6, <1>7, <1>8, <1>9, <1>10, <1>11, TermStep

LEMMA InvoiceReplaceStep ==
  ASSUME TermInv, NEW r \in Callers, InvoiceReplace(r)
  PROVE  TermInv'
<1>0. PICK x : x = asked[r]  OBVIOUS
<1>1. /\ x.op = "replace" /\ Open(r, [x EXCEPT !.op = "invoice"])
      /\ invoices' = [i \in DOMAIN invoices |->
           IF invoices[i].plan = x.plan /\ invoices[i].status = "PENDING"
           THEN [invoices[i] EXCEPT !.status = "FAILED"] ELSE invoices[i]]
      /\ UNCHANGED <<now, subs, resources, sweep>>
  BY <1>0 DEF InvoiceReplace
<1>2. RowsOK /\ InvoicesOK /\ x.sub \in Rows /\ x.plan \in Plans
  BY <1>0, <1>1 DEF TermInv, OpenOK
<1>3. \A i \in DOMAIN invoices : invoices'[i] \in InvoiceRow /\ invoices'[i].sub = invoices[i].sub
  <2> TAKE i \in DOMAIN invoices
  <2>1. PICK v : v = invoices[i]  OBVIOUS
  <2>2. v \in InvoiceRow  BY <1>2, <2>1, RowType
  <2>3. [v EXCEPT !.status = "FAILED"] \in InvoiceRow
        /\ [v EXCEPT !.status = "FAILED"].sub = v.sub
    BY <2>2 DEF InvoiceRow
  <2>4. invoices'[i] = v \/ invoices'[i] = [v EXCEPT !.status = "FAILED"]
    BY <1>1, <2>1
  <2> QED  BY <2>1, <2>2, <2>3, <2>4
<1>4. DOMAIN invoices' = DOMAIN invoices  BY <1>1
<1>5. invoices' \in Seq(InvoiceRow)
  <2>1. invoices' = [i \in DOMAIN invoices' |-> invoices'[i]]  BY <1>1
  <2> QED  BY <1>2, <1>3, <1>4, <2>1, WriteRows DEF RowsOK
<1>6. PICK y : y = [op |-> "invoice", sub |-> x.sub, plan |-> x.plan]  OBVIOUS
<1>7. asked' = [asked EXCEPT ![r] = y] /\ DOMAIN asked' = Callers
      /\ \A q \in Callers : asked'[q] = asked[q] \/ asked'[q] = y
  <2>1. x = [op |-> "replace", sub |-> x.sub, plan |-> x.plan]
    BY <1>0, <1>1 DEF TermInv, OpenOK
  <2>2. [x EXCEPT !.op = "invoice"] = y  BY <1>6, <2>1
  <2> QED  BY <1>1, <2>2, Opened
<1>8. OpenOK(y)'  BY <1>1, <1>2, <1>6 DEF OpenOK, Rows
<1>9. \A q \in Callers : asked'[q] = asked[q] \/ OpenOK(asked[q])'
  BY <1>7, <1>8
<1>10. InvoicesOK' /\ now' >= now /\ now' \in Nat /\ resources' \in Nat
  BY <1>1, <1>2, <1>3, <1>4 DEF InvoicesOK, Rows, RowsOK
<1> QED  BY <1>1, <1>4, <1>5, <1>7, <1>9, <1>10, RowsStay

LEMMA InvoiceCreateStep ==
  ASSUME TermInv, NEW r \in Callers, InvoiceCreate(r)
  PROVE  TermInv'
<1>0. PICK x : x = asked[r]  OBVIOUS
<1> DEFINE new == [sub |-> x.sub, plan |-> x.plan, status |-> "PENDING", made |-> now]
<1>1. /\ x.op = "invoice" /\ invoices' = Append(invoices, new) /\ Open(r, NoCall)
      /\ UNCHANGED <<now, subs, resources, sweep>>
  BY <1>0 DEF InvoiceCreate, Leave
<1>2. RowsOK /\ InvoicesOK /\ x.sub \in Rows /\ x.plan \in Plans
  BY <1>0, <1>1 DEF TermInv, OpenOK
<1>3. Rows = 1 .. Len(subs) /\ Len(subs) \in Nat  BY <1>2, LenProperties DEF RowsOK, Rows
<1>4. new \in InvoiceRow /\ new.sub = x.sub
  BY <1>2, <1>3 DEF InvoiceRow, RowsOK
<1> HIDE DEF new
<1>5. /\ invoices' \in Seq(InvoiceRow)
      /\ DOMAIN invoices' = DOMAIN invoices \cup {Len(invoices) + 1}
      /\ \A i \in DOMAIN invoices : invoices'[i] = invoices[i]
      /\ invoices'[Len(invoices) + 1] = new
  BY <1>1, <1>2, <1>4, AddRow DEF RowsOK
<1>6. InvoicesOK'  BY <1>1, <1>2, <1>4, <1>5 DEF InvoicesOK, Rows
<1>7. DOMAIN asked' = Callers /\ \A q \in Callers : asked'[q] = asked[q] \/ OpenOK(asked[q])'
  BY <1>1, Opened DEF OpenOK, NoCall
<1>8. now' \in Nat /\ now' >= now /\ resources' \in Nat  BY <1>1, <1>2 DEF RowsOK
<1> QED  BY <1>1, <1>5, <1>6, <1>7, <1>8, RowsStay

LEMMA HookCommitStep ==
  ASSUME TermInv, NEW r \in Callers, HookCommit(r)
  PROVE  TermInv'
<1>0. PICK x : x = asked[r]  OBVIOUS
<1>1. PICK inv : inv = invoices[x.invoice]  OBVIOUS
<1>2. PICK new : new = Term(subs[inv.sub], inv.plan)  OBVIOUS
<1>3. /\ x.op = "hook" /\ Open(r, NoCall)
      /\ subs' = [subs EXCEPT ![inv.sub] = new]
      /\ invoices' = [invoices EXCEPT ![x.invoice].status = "PAID"]
      /\ UNCHANGED <<now, resources, sweep>>
  BY <1>0, <1>1, <1>2 DEF HookCommit, PaidTerm, Leave
<1>4. RowsOK /\ InvoicesOK /\ x.invoice \in DOMAIN invoices
  BY <1>0, <1>3 DEF TermInv, OpenOK
<1>5. inv \in InvoiceRow /\ inv.sub \in Rows
  BY <1>1, <1>4, RowType DEF InvoicesOK
<1>6. subs[inv.sub] \in Row  BY <1>4, <1>5, RowType
<1>7. new \in Row /\ TermOK(new) /\ RowMoves(subs[inv.sub], new)
  BY <1>2, <1>4, <1>5, <1>6, NewTerm DEF InvoiceRow, RowsOK
<1>8. /\ invoices' \in Seq(InvoiceRow) /\ DOMAIN invoices' = DOMAIN invoices
      /\ \A i \in DOMAIN invoices : invoices'[i].sub = invoices[i].sub
  <2>1. PICK paid : paid = [inv EXCEPT !.status = "PAID"]  OBVIOUS
  <2>2. paid \in InvoiceRow /\ paid.sub = inv.sub  BY <1>5, <2>1 DEF InvoiceRow
  <2>3. invoices' = [invoices EXCEPT ![x.invoice] = paid]
    BY <1>1, <1>3, <1>4, <2>1
  <2>4. invoices \in Seq(InvoiceRow)  BY <1>4 DEF RowsOK
  <2> QED  BY <1>1, <1>4, <2>2, <2>3, <2>4, WriteRow
<1>9. DOMAIN asked' = Callers /\ \A q \in Callers : asked'[q] = asked[q] \/ OpenOK(asked[q])'
  BY <1>3, Opened DEF OpenOK, NoCall
<1> QED  BY <1>3, <1>5, <1>7, <1>8, <1>9, RowStep

LEMMA GrantStep ==
  ASSUME TermInv, NEW s \in Rows, NEW plan \in Plans, Grant(s, plan)
  PROVE  TermInv'
<1>0. PICK new : new = Term(subs[s], plan)  OBVIOUS
<1>1. /\ subs' = [subs EXCEPT ![s] = new]
      /\ UNCHANGED <<now, invoices, resources, asked, sweep>>
  BY <1>0 DEF Grant
<1>2. RowsOK /\ subs[s] \in Row  BY RowType DEF TermInv
<1>3. new \in Row /\ TermOK(new) /\ RowMoves(subs[s], new)
  BY <1>0, <1>2, NewTerm DEF RowsOK
<1>4. invoices' \in Seq(InvoiceRow) /\ DOMAIN asked' = Callers  BY <1>1, <1>2 DEF RowsOK
<1> QED  BY <1>1, <1>3, <1>4, RowStep

LEMMA SettleReadStep ==
  ASSUME TermInv, NEW r \in Callers, NEW s \in Rows, NEW for, SettleRead(r, s, for)
  PROVE  TermInv'
<1> DEFINE x == [op |-> "settle", sub |-> s, row |-> Read(subs[s]),
                 next |-> NextStatus(subs[s]), for |-> for]
<1>1. Open(r, x) /\ UNCHANGED <<now, shop, sweep>>  BY DEF SettleRead
<1>2. subs[s] \in Row /\ TermOK(subs[s]) /\ now \in Nat  BY RowType DEF TermInv, RowsOK
<1>3. OpenOK(x)
  <2>1. ReadOK(s, Read(subs[s]), NextStatus(subs[s]))
    BY <1>2, RuleIsSound DEF ReadOK, Read, Row, TermOK
  <2> QED  BY <2>1 DEF OpenOK
<1> HIDE DEF x
<1> QED  BY <1>1, <1>3, CallStep, Opened

LEMMA SettleWriteStep ==
  ASSUME TermInv, NEW r \in Callers, SettleWrite(r)
  PROVE  TermInv'
<1>0. PICK x : x = asked[r]  OBVIOUS
<1>1. /\ x.op = "settle" /\ AfterSettle(r, x) /\ UNCHANGED <<now, invoices, resources, sweep>>
      /\ x.next # x.row.status => subs' = [subs EXCEPT ![x.sub].status = x.next]
      /\ x.next = x.row.status => subs' = subs
  BY <1>0 DEF SettleWrite
<1>2. RowsOK /\ ReadOK(x.sub, x.row, x.next)  BY <1>0, <1>1 DEF TermInv, OpenOK
<1>3. DOMAIN asked' = Callers /\ \A q \in Callers : asked'[q] = asked[q] \/ OpenOK(asked[q])'
  <2>1. PICK y : Open(r, y) /\ (y = [op |-> "count", quota |-> x.row.quota] \/ y = NoCall)
    BY <1>1 DEF AfterSettle, Leave
  <2>2. OpenOK(y)'  BY <1>2, <2>1 DEF OpenOK, NoCall, ReadOK
  <2> QED  BY <2>1, <2>2, Opened
<1>4. CASE x.next # x.row.status
  <2>1. x.sub \in Rows /\ x.next \in {"PAST_DUE", "EXPIRED"} /\ subs[x.sub] \in Row
        /\ TermOK(subs[x.sub])
    BY <1>2, <1>4, RowType DEF ReadOK, TermInv
  <2>2. PICK new : new = [subs[x.sub] EXCEPT !.status = x.next]  OBVIOUS
  <2>3. new \in Row /\ TermOK(new) /\ RowMoves(subs[x.sub], new)
    BY <2>1, <2>2, NewStatus
  <2>4. subs' = [subs EXCEPT ![x.sub] = new]  BY <1>1, <1>4, <2>1, <2>2 DEF Rows
  <2>5. invoices' \in Seq(InvoiceRow)  BY <1>1, <1>2 DEF RowsOK
  <2> QED  BY <1>1, <1>3, <2>1, <2>3, <2>4, <2>5, RowStep
<1>5. CASE x.next = x.row.status
  <2>1. /\ subs' = subs /\ invoices' \in Seq(InvoiceRow) /\ InvoicesOK'
        /\ now' \in Nat /\ now' >= now /\ resources' \in Nat
    BY <1>1, <1>2, <1>5 DEF RowsOK, TermInv, InvoicesOK, Rows
  <2> QED  BY <1>1, <1>3, <2>1, RowsStay
<1> QED  BY <1>4, <1>5

\* The night's candidates are read: what the rule gives them is kept.
LEMMA SweepReadStep ==
  ASSUME TermInv, SweepRead
  PROVE  TermInv'
<1>1. /\ Candidates \subseteq Rows
      /\ sweep' = [s \in Candidates |-> [row |-> Read(subs[s]), next |-> NextStatus(subs[s])]]
      /\ UNCHANGED <<now, subs, invoices, resources, asked>>
      /\ \A s \in Candidates : NextStatus(subs[s]) # subs[s].status
  BY DEF SweepRead, Candidates, shop
<1>2. SweepOK'
  <2> SUFFICES ASSUME NEW s \in Candidates
               PROVE  /\ ReadOK(s, sweep[s].row, sweep[s].next)'
                      /\ sweep'[s].next # sweep'[s].row.status
    BY <1>1 DEF SweepOK
  <2>1. PICK read, next : read = Read(subs[s]) /\ next = NextStatus(subs[s])  OBVIOUS
  <2>2. subs[s] \in Row /\ TermOK(subs[s]) /\ now \in Nat /\ s \in Rows
    BY <1>1, RowType DEF TermInv, RowsOK
  <2>3. ReadOK(s, read, next)
    BY <2>1, <2>2, RuleIsSound DEF ReadOK, Read, Row, TermOK
  <2>4. ReadOK(s, read, next)'  BY <1>1, <2>3 DEF ReadOK, Rows, Late
  <2>5. next # read.status  BY <1>1, <2>1 DEF Read
  <2>6. sweep'[s].row = read /\ sweep'[s].next = next  BY <1>1, <2>1
  <2> QED  BY <2>4, <2>5, <2>6
<1>3. /\ subs' = subs /\ invoices' \in Seq(InvoiceRow) /\ InvoicesOK' /\ DOMAIN asked' = Callers
      /\ now' \in Nat /\ now' >= now /\ resources' \in Nat
  BY <1>1 DEF RowsOK, TermInv, InvoicesOK, Rows
<1> QED  BY <1>1, <1>2, <1>3, RowsStay

\* The rows that get a status in one statement, and the ones left alone.
LEMMA SweepWriteRow ==
  ASSUME TermInv, NEW decided \in {"PAST_DUE", "EXPIRED"}, SweepWrite(decided), NEW s \in Rows
  PROVE  /\ subs'[s] = subs[s]
              \/ /\ s \in DOMAIN sweep /\ sweep[s].next = decided
                 /\ subs'[s] = [subs[s] EXCEPT !.status = decided]
         /\ subs'[s] \in Row /\ TermOK(subs'[s]) /\ RowMoves(subs[s], subs'[s])
         /\ DOMAIN subs' = Rows /\ UNCHANGED now
<1> DEFINE ids == {q \in DOMAIN sweep : sweep[q].next = decided}
<1>1. /\ subs' = [q \in Rows |-> IF q \in ids THEN [subs[q] EXCEPT !.status = decided]
                                  ELSE subs[q]]
      /\ UNCHANGED now
  BY DEF SweepWrite
<1>2. subs[s] \in Row /\ TermOK(subs[s])  BY RowType DEF TermInv
<1>3. CASE s \in ids
  <2>1. PICK new : new = [subs[s] EXCEPT !.status = decided]  OBVIOUS
  <2>2. subs'[s] = new  BY <1>1, <1>3, <2>1
  <2>3. new \in Row /\ TermOK(new) /\ RowMoves(subs[s], new)  BY <1>2, <2>1, NewStatus
  <2> QED  BY <1>1, <1>3, <2>1, <2>2, <2>3
<1>4. CASE s \notin ids
  <2>1. subs'[s] = subs[s]  BY <1>1, <1>4
  <2>2. RowMoves(subs[s], subs[s])  BY <1>2 DEF Row, RowMoves
  <2> QED  BY <1>1, <1>2, <2>1, <2>2
<1> QED  BY <1>3, <1>4

LEMMA SweepWriteStep ==
  ASSUME TermInv, NEW decided \in {"PAST_DUE", "EXPIRED"}, SweepWrite(decided)
  PROVE  TermInv'
<1> DEFINE ids == {s \in DOMAIN sweep : sweep[s].next = decided}
<1>1. /\ DOMAIN subs' = Rows /\ subs' = [s \in DOMAIN subs' |-> subs'[s]]
      /\ ids # {}
      /\ sweep' = [s \in DOMAIN sweep \ ids |-> sweep[s]]
      /\ UNCHANGED <<now, invoices, resources, asked>>
  BY DEF SweepWrite
<1>2. \A s \in Rows : /\ subs'[s] \in Row /\ TermOK(subs'[s])
                      /\ RowMoves(subs[s], subs'[s])
  BY SweepWriteRow
<1>3. RowsOK /\ InvoicesOK /\ SweepOK  BY DEF TermInv
<1>4. subs' \in Seq(Row)
  BY <1>1, <1>2, <1>3, WriteRows DEF RowsOK, Rows
<1>5. RowsOK'  BY <1>1, <1>3, <1>4 DEF RowsOK
<1>6. now' >= now  BY <1>1, <1>3 DEF RowsOK
<1>7. SweepOK'
  <2> SUFFICES ASSUME NEW s \in DOMAIN sweep \ ids
               PROVE  /\ ReadOK(s, sweep[s].row, sweep[s].next)'
                      /\ sweep'[s].next # sweep'[s].row.status
    BY <1>1 DEF SweepOK
  <2>1. PICK w : w = sweep[s]  OBVIOUS
  <2>2. ReadOK(s, w.row, w.next) /\ w.next # w.row.status  BY <1>3, <2>1 DEF SweepOK
  <2>3. s \in DOMAIN subs' /\ RowMoves(subs[s], subs'[s])
    BY <1>1, <1>2, <2>2 DEF ReadOK
  <2>4. ReadOK(s, w.row, w.next)'  BY <1>3, <1>5, <1>6, <2>2, <2>3, ReadStaysOK
  <2>5. sweep'[s] = w  BY <1>1, <2>1
  <2> QED  BY <2>2, <2>4, <2>5
<1>8. \A s \in DOMAIN subs' : TermOK(subs[s])'
  BY <1>1, <1>2 DEF TermOK
<1>9. InvoicesOK' /\ DOMAIN invoices \subseteq DOMAIN invoices'
  BY <1>1, <1>3 DEF InvoicesOK, Rows
<1>10. \A s \in Rows : s \in DOMAIN subs' /\ RowMoves(subs[s], subs'[s])
  BY <1>1, <1>2
<1>11. \A q \in Callers : asked'[q] = asked[q]  BY <1>1
<1> QED  BY <1>5, <1>6, <1>7, <1>8, <1>9, <1>10, <1>11, TermStep

\* Every step keeps the inductive invariant.
LEMMA NextTermInv == TermInv /\ [PlanNext]_planVars => TermInv'
<1> SUFFICES ASSUME TermInv, [PlanNext]_planVars PROVE TermInv'  OBVIOUS
<1>0. RowsOK /\ InvoicesOK  BY DEF TermInv
<1>1. ASSUME NEW r \in Callers, TrialRead(r) PROVE TermInv'
  <2>1. Open(r, [op |-> "trial"]) /\ UNCHANGED <<now, shop, sweep>>  BY <1>1 DEF TrialRead
  <2>2. OpenOK([op |-> "trial"])  BY DEF OpenOK
  <2> QED  BY <2>1, <2>2, CallStep, Opened
<1>2. ASSUME NEW r \in Callers, NEW s \in Rows, NEW plan \in Plans, InvoiceRead(r, s, plan)
      PROVE  TermInv'
  <2>1. PICK x : x = [op |-> "replace", sub |-> s, plan |-> plan]  OBVIOUS
  <2>2. Open(r, x) /\ UNCHANGED <<now, shop, sweep>>  BY <1>2, <2>1 DEF InvoiceRead
  <2>3. OpenOK(x)  BY <2>1 DEF OpenOK
  <2> QED  BY <2>2, <2>3, CallStep, Opened
<1>3. ASSUME NEW r \in Callers, NEW i \in DOMAIN invoices, HookRead(r, i) PROVE TermInv'
  <2>1. PICK x : x = [op |-> "hook", invoice |-> i]  OBVIOUS
  <2>2. Open(r, x) /\ UNCHANGED <<now, shop, sweep>>  BY <1>3, <2>1 DEF HookRead
  <2>3. OpenOK(x)  BY <2>1 DEF OpenOK
  <2> QED  BY <2>2, <2>3, CallStep, Opened
<1>4. ASSUME NEW r \in Callers, CountUsed(r) PROVE TermInv'
  <2>1. PICK x : Open(r, x) /\ (x = [op |-> "create"] \/ x = NoCall)
    BY <1>4 DEF CountUsed, Leave
  <2>2. UNCHANGED <<now, shop, sweep>>  BY <1>4 DEF CountUsed
  <2>3. OpenOK(x)  BY <2>1 DEF OpenOK, NoCall
  <2> QED  BY <2>1, <2>2, <2>3, CallStep, Opened
<1>5. ASSUME NEW r \in Callers, CreateResource(r) PROVE TermInv'
  <2>1. Open(r, NoCall) /\ resources' = resources + 1 /\ UNCHANGED <<now, subs, invoices, sweep>>
    BY <1>5 DEF CreateResource, Leave
  <2>2. /\ invoices' \in Seq(InvoiceRow) /\ InvoicesOK' /\ now' \in Nat /\ now' >= now
        /\ resources' \in Nat
    BY <1>0, <2>1 DEF RowsOK, InvoicesOK, Rows
  <2>3. DOMAIN asked' = Callers /\ \A q \in Callers : asked'[q] = asked[q] \/ OpenOK(asked[q])'
    BY <2>1, Opened DEF OpenOK, NoCall
  <2> QED  BY <2>1, <2>2, <2>3, RowsStay
<1>6. ASSUME UNCHANGED <<subs, invoices, asked, sweep>>, now' \in Nat, now' >= now, resources' \in Nat
      PROVE  TermInv'
  <2>1. invoices' \in Seq(InvoiceRow) /\ InvoicesOK' /\ DOMAIN asked' = Callers
    BY <1>0, <1>6 DEF RowsOK, InvoicesOK, Rows
  <2>2. \A q \in Callers : asked'[q] = asked[q]  BY <1>6
  <2> QED  BY <1>6, <2>1, <2>2, RowsStay
<1>7. CASE RemoveResource
  BY <1>0, <1>6, <1>7 DEF RemoveResource, RowsOK
<1>8. CASE Tick
  BY <1>0, <1>6, <1>8 DEF Tick, RowsOK, shop
<1>9. CASE UNCHANGED planVars
  BY <1>0, <1>6, <1>9 DEF RowsOK, planVars, shop
<1> QED
  BY <1>1, <1>2, <1>3, <1>4, <1>5, <1>7, <1>8, <1>9, TrialCommitStep, InvoiceReplaceStep,
     InvoiceCreateStep, HookCommitStep, GrantStep, SettleReadStep, SettleWriteStep,
     SweepReadStep, SweepWriteStep
  DEF PlanNext, Finish, Sweep

LEMMA TermsSound == PlanSpec => []TermInv
<1> QED  BY InitTermInv, NextTermInv, PTL DEF PlanSpec

------------------------------------------------------------------------------
LEMMA LateStays ==
  ASSUME RowsOK, now' \in Nat, now' >= now, NEW s \in Rows,
         subs'[s].end = subs[s].end, subs'[s].plan = subs[s].plan, Late(subs[s])
  PROVE  Late(subs[s])'
<1> USE SubscriptionAssumption
<1>1. subs[s].end \in Nat /\ now \in Nat /\ Grace \in Nat  BY RowType DEF Row, RowsOK
<1>2. CASE subs[s].plan = Trial  BY <1>1, <1>2 DEF Late
<1>3. CASE subs[s].plan # Trial  BY <1>1, <1>3 DEF Late
<1> QED  BY <1>2, <1>3

\* A status decided on an earlier reading is written: it is right for the
\* term that stands, or the row is noted as one written over.
LEMMA DecidedRow ==
  ASSUME TermInv, now' = now, NEW s, NEW read, NEW next, ReadOK(s, read, next),
         next # read.status, subs'[s] = [subs[s] EXCEPT !.status = next],
         subs'[s].status = "EXPIRED"
  PROVE  Late(subs[s])' \/ s \in Overwrites(s, read)
<1>1. s \in Rows /\ subs[s] \in Row /\ now \in Nat /\ RowsOK
  BY RowType DEF ReadOK, TermInv, RowsOK
<1>2. PICK new : new = [subs[s] EXCEPT !.status = next]  OBVIOUS
<1>3. new.status = next /\ new.end = subs[s].end /\ new.plan = subs[s].plan
  BY <1>1, <1>2 DEF Row
<1>4. next = "EXPIRED"  BY <1>2, <1>3
<1>5. CASE subs[s].term = read.term
  <2>1. Late(subs[s])  BY <1>4, <1>5 DEF ReadOK
  <2>2. subs'[s].end = subs[s].end /\ subs'[s].plan = subs[s].plan  BY <1>2, <1>3
  <2>3. now' \in Nat /\ now' >= now  BY <1>1
  <2> QED  BY <1>1, <2>1, <2>2, <2>3, LateStays
<1>6. CASE subs[s].term # read.term
  BY <1>6 DEF Overwrites
<1> QED  BY <1>5, <1>6

\* Rows nobody writes, while time may pass.
LEMMA UnwrittenRow ==
  ASSUME TermInv, now' \in Nat, now' >= now, NEW s \in Rows, subs'[s] = subs[s],
         subs'[s].status = "EXPIRED", ExpiredMeansOver, s \notin blind'
  PROVE  s \in blind \/ Late(subs[s])'
<1>1. CASE s \in blind  BY <1>1
<1>2. CASE s \notin blind
  <2>1. Late(subs[s])  BY <1>2 DEF ExpiredMeansOver, Late
  <2> QED  BY <2>1, LateStays DEF TermInv
<1> QED  BY <1>1, <1>2

LEMMA ExpiredStep == TermInv /\ ExpiredMeansOver /\ [PlanNext]_planVars => ExpiredMeansOver'
<1> SUFFICES ASSUME TermInv, ExpiredMeansOver, [PlanNext]_planVars,
                    NEW s \in Rows', subs'[s].status = "EXPIRED"
             PROVE  Late(subs[s])' \/ s \in blind'
  BY DEF ExpiredMeansOver, Late
<1>0. RowsOK /\ now \in Nat /\ TermInv'  BY NextTermInv DEF TermInv, RowsOK
<1>1. ASSUME subs' = subs, blind' = blind, now' \in Nat, now' >= now
      PROVE  Late(subs[s])' \/ s \in blind'
  <2>1. s \in Rows  BY <1>1 DEF Rows
  <2> QED  BY <1>1, <2>1, UnwrittenRow
<1>2. ASSUME NEW q \in Rows, NEW new, new.status = "ACTIVE", now' = now,
             subs' = [subs EXCEPT ![q] = new], blind' = blind \ {q}
      PROVE  Late(subs[s])' \/ s \in blind'
  <2>1. s \in Rows /\ s # q /\ subs'[s] = subs[s]  BY <1>2 DEF Rows
  <2> QED  BY <1>0, <1>2, <2>1, UnwrittenRow
<1>3. ASSUME NEW r \in Callers, TrialCommit(r) PROVE Late(subs[s])' \/ s \in blind'
  <2>1. PICK new : new.status = "TRIAL" /\ subs' = Append(subs, new)
    BY <1>3 DEF TrialCommit
  <2>2. blind' = blind /\ now' = now  BY <1>3 DEF TrialCommit
  <2>3. s \in Rows /\ subs'[s] = subs[s]
    <3>1. Rows = 1 .. Len(subs) /\ Len(subs) \in Nat  BY <1>0, LenProperties DEF RowsOK, Rows
    <3>2. DOMAIN subs' = 1 .. Len(subs) + 1 /\ subs'[Len(subs) + 1] = new
      BY <1>0, <2>1, <3>1 DEF RowsOK
    <3>3. s # Len(subs) + 1  BY <2>1, <3>2
    <3> QED  BY <1>0, <2>1, <3>1, <3>2, <3>3 DEF Rows, RowsOK
  <2> QED  BY <1>0, <2>2, <2>3, UnwrittenRow
<1>4. ASSUME NEW r \in Callers, HookCommit(r) PROVE Late(subs[s])' \/ s \in blind'
  <2>1. PICK x : x = asked[r]  OBVIOUS
  <2>2. PICK inv : inv = invoices[x.invoice]  OBVIOUS
  <2>3. PICK new : new = Term(subs[inv.sub], inv.plan)  OBVIOUS
  <2>4. /\ subs' = [subs EXCEPT ![inv.sub] = new] /\ blind' = blind \ {inv.sub} /\ now' = now
        /\ x.op = "hook"
    BY <1>4, <2>1, <2>2, <2>3 DEF HookCommit, PaidTerm
  <2>5. inv.sub \in Rows
    BY <2>1, <2>2, <2>4 DEF TermInv, OpenOK, InvoicesOK
  <2>6. new.status = "ACTIVE"  BY <2>3 DEF Term
  <2> QED  BY <1>2, <2>4, <2>5, <2>6
<1>5. ASSUME NEW q \in Rows, NEW plan \in Plans, Grant(q, plan)
      PROVE  Late(subs[s])' \/ s \in blind'
  <2>1. PICK new : new = Term(subs[q], plan)  OBVIOUS
  <2>2. /\ subs' = [subs EXCEPT ![q] = new] /\ blind' = blind \ {q} /\ now' = now
    BY <1>5, <2>1 DEF Grant
  <2>3. new.status = "ACTIVE"  BY <2>1 DEF Term
  <2> QED  BY <1>2, <2>2, <2>3
<1>6. ASSUME NEW r \in Callers, SettleWrite(r) PROVE Late(subs[s])' \/ s \in blind'
  <2>1. PICK x : x = asked[r]  OBVIOUS
  <2>2. /\ x.op = "settle" /\ now' = now
        /\ \/ /\ x.next # x.row.status
              /\ subs' = [subs EXCEPT ![x.sub].status = x.next]
              /\ blind' = blind \cup Overwrites(x.sub, x.row)
           \/ UNCHANGED <<subs, blind>>
    BY <1>6, <2>1 DEF SettleWrite
  <2>3. ReadOK(x.sub, x.row, x.next)  BY <2>1, <2>2 DEF TermInv, OpenOK
  <2>4. CASE UNCHANGED <<subs, blind>>  BY <1>0, <1>1, <2>2, <2>4
  <2>5. CASE /\ x.next # x.row.status
             /\ subs' = [subs EXCEPT ![x.sub].status = x.next]
             /\ blind' = blind \cup Overwrites(x.sub, x.row)
    <3>1. s \in Rows  BY <2>5 DEF Rows
    <3>2. CASE s = x.sub
      <4>1. subs'[s] = [subs[s] EXCEPT !.status = x.next]  BY <2>5, <3>1, <3>2 DEF Rows
      <4>2. Late(subs[s])' \/ s \in Overwrites(s, x.row)
        BY <2>2, <2>3, <2>5, <3>2, <4>1, DecidedRow
      <4> QED  BY <2>5, <3>2, <4>2
    <3>3. CASE s # x.sub
      <4>1. subs'[s] = subs[s]  BY <2>5, <3>1, <3>3 DEF Rows
      <4> QED  BY <1>0, <2>2, <2>5, <3>1, <4>1, UnwrittenRow
    <3> QED  BY <3>2, <3>3
  <2> QED  BY <2>2, <2>4, <2>5
<1>7. ASSUME NEW decided \in {"PAST_DUE", "EXPIRED"}, SweepWrite(decided)
      PROVE  Late(subs[s])' \/ s \in blind'
  <2> DEFINE ids == {q \in DOMAIN sweep : sweep[q].next = decided}
  <2>1. /\ DOMAIN subs' = Rows /\ now' = now
        /\ blind' = blind \cup UNION {Overwrites(q, sweep[q].row) : q \in ids}
    BY <1>7 DEF SweepWrite
  <2>2. s \in Rows  BY <2>1 DEF Rows
  <2>3. \/ subs'[s] = subs[s]
        \/ s \in ids /\ subs'[s] = [subs[s] EXCEPT !.status = decided]
    BY <1>7, <2>2, SweepWriteRow
  <2>4. CASE subs'[s] = subs[s]  BY <1>0, <2>1, <2>2, <2>4, UnwrittenRow
  <2>5. CASE s \in ids /\ subs'[s] = [subs[s] EXCEPT !.status = decided]
    <3>1. PICK w : w = sweep[s]  OBVIOUS
    <3>2. ReadOK(s, w.row, w.next) /\ w.next # w.row.status /\ w.next = decided
      BY <2>5, <3>1 DEF TermInv, SweepOK
    <3>3. Late(subs[s])' \/ s \in Overwrites(s, w.row)
      BY <2>1, <2>5, <3>2, DecidedRow
    <3>4. Overwrites(s, w.row) \subseteq blind'  BY <2>1, <2>5, <3>1
    <3> QED  BY <3>3, <3>4
  <2> QED  BY <2>3, <2>4, <2>5
<1>8. CASE UNCHANGED <<subs, blind, now>>  BY <1>0, <1>1, <1>8
<1>9. CASE Tick  BY <1>0, <1>1, <1>9 DEF Tick, shop
<1> QED
  BY <1>3, <1>4, <1>5, <1>6, <1>7, <1>8, <1>9
  DEF PlanNext, Finish, Sweep, planVars, shop, TrialRead, InvoiceRead, InvoiceReplace, InvoiceCreate,
      HookRead, SettleRead, CountUsed, CreateResource, RemoveResource, SweepRead

\* A shop is locked out only when the term it has, and its days of grace,
\* are over, or while a term was being bought when the status was written:
\* the expiry rule of subscription-status.ts, applied on each read and by
\* the nightly job, for any number of rows and overlapping requests.
THEOREM LockedOutOnlyWhenOver == PlanSpec => []ExpiredMeansOver
<1>1. PlanInit => ExpiredMeansOver
  <2>1. PlanInit => Rows = {}  BY DEF PlanInit, Rows
  <2> QED  BY <2>1 DEF ExpiredMeansOver
<1> QED  BY <1>1, TermsSound, ExpiredStep, PTL DEF PlanSpec

------------------------------------------------------------------------------
LEMMA RenewalStep ==
  ASSUME TermInv, [PlanNext]_planVars, NEW s \in Rows,
         subs'[s].term # subs[s].term, subs'[s].plan = subs[s].plan
  PROVE  subs'[s].end >= subs[s].end
<1> USE SubscriptionAssumption
<1>0. RowsOK /\ subs[s] \in Row /\ TermOK(subs[s]) /\ now \in Nat
  BY RowType DEF TermInv, RowsOK
<1>1. ASSUME NEW q \in Rows, NEW plan \in Plans, subs' = [subs EXCEPT ![q] = Term(subs[q], plan)]
      PROVE  subs'[s].end >= subs[s].end
  <2>1. PICK new : new = Term(subs[q], plan)  OBVIOUS
  <2>2. new.plan = plan /\ new.end = now + Days[plan]
    BY <1>0, <2>1, NewTerm, RowType
  <2>3. CASE s = q
    <3>1. subs'[s] = new  BY <1>1, <2>1, <2>3 DEF Rows
    <3>2. plan = subs[s].plan  BY <2>2, <3>1
    <3>3. subs[s].end <= now + Days[subs[s].plan]  BY <1>0 DEF TermOK
    <3>4. subs[s].end \in Nat /\ Days[plan] \in Nat  BY <1>0 DEF Row
    <3> QED  BY <1>0, <2>2, <3>1, <3>2, <3>3, <3>4
  <2>4. CASE s # q
    BY <1>1, <2>4 DEF Rows
  <2> QED  BY <2>3, <2>4
<1>2. ASSUME NEW r \in Callers, TrialCommit(r) PROVE FALSE
  <2>1. PICK new : subs' = Append(subs, new)  BY <1>2 DEF TrialCommit
  <2>2. s \in 1 .. Len(subs)  BY <1>0, LenProperties DEF RowsOK, Rows
  <2> QED  BY <1>0, <2>1, <2>2 DEF RowsOK
<1>3. ASSUME NEW r \in Callers, HookCommit(r) PROVE subs'[s].end >= subs[s].end
  <2>1. PICK x : x = asked[r]  OBVIOUS
  <2>2. PICK inv : inv = invoices[x.invoice]  OBVIOUS
  <2>3. x.op = "hook" /\ subs' = [subs EXCEPT ![inv.sub] = Term(subs[inv.sub], inv.plan)]
    BY <1>3, <2>1, <2>2 DEF HookCommit, PaidTerm
  <2>4. x.invoice \in DOMAIN invoices  BY <2>1, <2>3 DEF TermInv, OpenOK
  <2>5. inv.sub \in Rows /\ inv.plan \in Plans
    BY <1>0, <2>2, <2>4, RowType DEF TermInv, InvoicesOK, InvoiceRow
  <2> QED  BY <1>1, <2>3, <2>5
<1>4. ASSUME NEW q \in Rows, NEW plan \in Plans, Grant(q, plan)
      PROVE  subs'[s].end >= subs[s].end
  BY <1>1, <1>4 DEF Grant
<1>5. ASSUME NEW r \in Callers, SettleWrite(r) PROVE FALSE
  <2>1. PICK x : x = asked[r]  OBVIOUS
  <2>2. \/ subs' = [subs EXCEPT ![x.sub].status = x.next]
        \/ subs' = subs
    BY <1>5, <2>1 DEF SettleWrite
  <2>3. PICK new : new = [subs[s] EXCEPT !.status = x.next]  OBVIOUS
  <2>4. new.term = subs[s].term  BY <1>0, <2>3 DEF Row
  <2>5. subs'[s] = new \/ subs'[s] = subs[s]  BY <2>2, <2>3 DEF Rows
  <2> QED  BY <2>4, <2>5
<1>6. ASSUME NEW decided \in {"PAST_DUE", "EXPIRED"}, SweepWrite(decided) PROVE FALSE
  <2>1. PICK new : new = [subs[s] EXCEPT !.status = decided]  OBVIOUS
  <2>2. new.term = subs[s].term  BY <1>0, <2>1 DEF Row
  <2> QED  BY <1>6, <2>1, <2>2, SweepWriteRow
<1>7. CASE subs' = subs  BY <1>7
<1> QED
  BY <1>2, <1>3, <1>4, <1>5, <1>6, <1>7
  DEF PlanNext, Finish, Sweep, planVars, shop, TrialRead, InvoiceRead, InvoiceReplace, InvoiceCreate,
      HookRead, SettleRead, CountUsed, CreateResource, RemoveResource, SweepRead, Tick

\* Paying again for the plan one has never takes days away, whatever the
\* invoices, the webhooks delivered twice and the administrator's changes of
\* plan that happen in between (activatePaidPlan starts the term at the
\* payment).
THEOREM RenewalsLengthen == PlanSpec => RenewalNeverShortens
<1>1. TermInv /\ [PlanNext]_planVars =>
        [\A s \in Rows : subs'[s].term # subs[s].term /\ subs'[s].plan = subs[s].plan =>
           subs'[s].end >= subs[s].end]_planVars
  BY RenewalStep
<1> QED  BY <1>1, TermsSound, PTL DEF PlanSpec, RenewalNeverShortens

------------------------------------------------------------------------------
\* The number of requests between the check and the creation is finite.
LEMMA CreatingIsFinite ==
  /\ IsFiniteSet(Creating) /\ Cardinality(Creating) \in Nat
  /\ Cardinality(Creating) <= Cardinality(Callers)
  /\ Cardinality(Callers) \in Nat
<1>1. Creating \subseteq Callers  BY DEF Creating
<1> QED  BY <1>1, QuotaAssumption, FS_Subset, FS_CardinalityType

\* The server serves at least one request, so an empty shop is within bound.
LEMMA SomeRequest == Cardinality(Callers) \in Nat /\ Cardinality(Callers) >= 1
BY QuotaAssumption, FS_CardinalityType, FS_EmptySet

LEMMA InitQuota == PlanInit => QuotaInv
<1> SUFFICES ASSUME PlanInit PROVE QuotaInv  OBVIOUS
<1>1. \A r \in Callers : asked[r].op = "idle"  BY DEF PlanInit, NoCall
<1>2. Creating = {}  BY <1>1 DEF Creating
<1>3. Cardinality(Creating) = 0  BY <1>2, FS_EmptySet
<1> QED  BY <1>3, SomeRequest, MostAllows DEF PlanInit, QuotaInv

\* A step that creates nothing and lets no request through the check.
LEMMA NoNewCreating ==
  ASSUME QuotaInv, RowsOK, resources' \in Nat, resources' <= resources,
         \A r \in Callers : asked'[r] = asked[r] \/ asked'[r].op # "create"
  PROVE  QuotaInv'
<1>1. Creating' \subseteq Creating  BY DEF Creating
<1>2. Cardinality(Creating') <= Cardinality(Creating) /\ Cardinality(Creating') \in Nat
  BY <1>1, CreatingIsFinite, FS_Subset, FS_CardinalityType
<1> QED  BY <1>2, CreatingIsFinite, MostAllows, SomeRequest DEF QuotaInv, RowsOK

LEMMA QuotaStep == TermInv /\ QuotaInv /\ [PlanNext]_planVars => QuotaInv'
<1> SUFFICES ASSUME TermInv, QuotaInv, [PlanNext]_planVars PROVE QuotaInv'  OBVIOUS
<1>0. RowsOK /\ resources \in Nat  BY DEF TermInv, RowsOK
<1>1. ASSUME NEW r \in Callers, NEW x, Open(r, x), x.op # "create", resources' = resources
      PROVE  QuotaInv'
  BY <1>0, <1>1, Opened, NoNewCreating
<1>2. ASSUME NEW r \in Callers, CountUsed(r) PROVE QuotaInv'
  <2>0. PICK x : x = asked[r]  OBVIOUS
  <2>1. x.op = "count" /\ UNCHANGED resources  BY <1>2, <2>0 DEF CountUsed, shop
  <2>2. CASE resources < x.quota
    <3>1. Open(r, [op |-> "create"])  BY <1>2, <2>0, <2>2 DEF CountUsed, QuotaLeft
    <3>2. resources < Most
      <4>1. OpenOK(x)  BY <2>0 DEF TermInv
      <4>2. x.quota \in Nat /\ x.quota <= Most  BY <2>1, <4>1 DEF OpenOK
      <4> QED  BY <1>0, <2>2, <4>2, MostAllows
    <3>3. Cardinality(Creating') <= Cardinality(Callers) /\ Cardinality(Creating') \in Nat
      <4>1. Creating' \subseteq Callers  BY DEF Creating
      <4> QED  BY <4>1, QuotaAssumption, FS_Subset, FS_CardinalityType
    <3> QED  BY <1>0, <2>1, <3>2, <3>3, SomeRequest, MostAllows DEF QuotaInv
  <2>3. CASE ~(resources < x.quota)
    <3>1. Open(r, NoCall)  BY <1>2, <2>0, <2>3 DEF CountUsed, QuotaLeft, Leave
    <3> QED  BY <1>1, <2>1, <3>1 DEF NoCall
  <2> QED  BY <2>2, <2>3
<1>3. ASSUME NEW r \in Callers, CreateResource(r) PROVE QuotaInv'
  <2>1. asked[r].op = "create" /\ resources' = resources + 1 /\ Open(r, NoCall)
    BY <1>3 DEF CreateResource, Leave
  <2>2. r \in Creating  BY <2>1 DEF Creating
  <2>3. Creating' = Creating \ {r}
    BY <2>1, Opened DEF Creating, NoCall
  <2>4. Cardinality(Creating') = Cardinality(Creating) - 1
    BY <2>2, <2>3, CreatingIsFinite, FS_RemoveElement
  <2> QED  BY <1>0, <2>1, <2>4, CreatingIsFinite, MostAllows, SomeRequest DEF QuotaInv
<1>4. CASE RemoveResource
  <2>1. asked' = asked /\ resources' \in Nat /\ resources' <= resources
    BY <1>0, <1>4 DEF RemoveResource
  <2> QED  BY <1>0, <2>1, NoNewCreating
<1>5. ASSUME NEW r \in Callers, SettleWrite(r) PROVE QuotaInv'
  <2>1. resources' = resources /\ \E x : Open(r, x) /\ x.op # "create"
    BY <1>5 DEF SettleWrite, AfterSettle, Leave, NoCall
  <2> QED  BY <1>1, <2>1
<1>6. ASSUME NEW r \in Callers, TrialRead(r) \/ TrialCommit(r) PROVE QuotaInv'
  <2>1. resources' = resources /\ \E x : Open(r, x) /\ x.op # "create"
    BY <1>6 DEF TrialRead, TrialCommit, Leave, NoCall, shop
  <2> QED  BY <1>1, <2>1
<1>7. ASSUME NEW r \in Callers, NEW s \in Rows, NEW plan \in Plans, InvoiceRead(r, s, plan)
      PROVE  QuotaInv'
  <2>1. resources' = resources /\ \E x : Open(r, x) /\ x.op # "create"
    BY <1>7 DEF InvoiceRead, shop
  <2> QED  BY <1>1, <2>1
<1>8. ASSUME NEW r \in Callers, InvoiceReplace(r) PROVE QuotaInv'
  <2>1. PICK x : x = asked[r]  OBVIOUS
  <2>2. x.op = "replace" /\ resources' = resources /\ Open(r, [x EXCEPT !.op = "invoice"])
    BY <1>8, <2>1 DEF InvoiceReplace
  <2>3. x = [op |-> x.op, sub |-> x.sub, plan |-> x.plan]
    BY <2>1, <2>2 DEF TermInv, OpenOK
  <2>4. [x EXCEPT !.op = "invoice"].op # "create"  BY <2>3
  <2> QED  BY <1>1, <2>2, <2>4
<1>9. ASSUME NEW r \in Callers, InvoiceCreate(r) \/ HookCommit(r) PROVE QuotaInv'
  <2>1. resources' = resources /\ \E x : Open(r, x) /\ x.op # "create"
    BY <1>9 DEF InvoiceCreate, HookCommit, Leave, NoCall
  <2> QED  BY <1>1, <2>1
<1>10. ASSUME NEW r \in Callers, NEW i \in DOMAIN invoices, HookRead(r, i) PROVE QuotaInv'
  <2>1. resources' = resources /\ \E x : Open(r, x) /\ x.op # "create"
    BY <1>10 DEF HookRead, shop
  <2> QED  BY <1>1, <2>1
<1>11. ASSUME NEW r \in Callers, NEW s \in Rows, NEW for, SettleRead(r, s, for) PROVE QuotaInv'
  <2>1. resources' = resources /\ \E x : Open(r, x) /\ x.op # "create"
    BY <1>11 DEF SettleRead, shop
  <2> QED  BY <1>1, <2>1
<1>12. CASE UNCHANGED <<resources, asked>>
  BY <1>0, <1>12, NoNewCreating
<1> QED
  BY <1>2, <1>3, <1>4, <1>5, <1>6, <1>7, <1>8, <1>9, <1>10, <1>11, <1>12
  DEF PlanNext, Finish, Sweep, planVars, shop, Grant, SweepRead, SweepWrite, Tick

\* However many requests pass the quota check together, the shop has at most
\* one row per request more than the largest plan allows: assertQuota counts
\* outside the transaction that creates, so every open request may be one
\* that passed the check on the last free place.
THEOREM OverrunIsBounded == PlanSpec => []QuotaOverrunIsBounded
<1>1. TermInv /\ QuotaInv => QuotaOverrunIsBounded
  BY CreatingIsFinite, MostAllows, SomeRequest
  DEF TermInv, RowsOK, QuotaInv, QuotaOverrunIsBounded, Most
<1> QED  BY <1>1, InitQuota, QuotaStep, TermsSound, PTL DEF PlanSpec
==============================================================================
