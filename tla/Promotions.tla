----------------------------- MODULE Promotions -----------------------------
(***************************************************************************)
(* The promotions of one shop and the sales they are given on.              *)
(*                                                                          *)
(* src/src/modules/promotions/pricing-engine.ts works out what the chosen   *)
(* promotions take off a cart, orders/order-pricing.service.ts makes a sale *)
(* of it (priceOrder, grandTotalOf), and promotions.service.ts counts the   *)
(* uses (apply) and lets the owner edit a promotion. A sale reads the       *)
(* prices twice, once for its lines and once in the engine; apply checks    *)
(* the limits on what it read and again in its transaction.                 *)
(*                                                                          *)
(* Money is in whole dong; a cart is a sequence of lines, and the same item *)
(* may be on several of them.                                               *)
(***************************************************************************)
EXTENDS Integers, Sequences, FiniteSets, Functions

CONSTANTS Promos,      \* the promotions
          Percent,     \* those that take a percentage off; others an amount
          Value,       \* discountValue
          MaxDiscount, \* maxDiscountAmount, or NoLimit
          Targets,     \* the items a promotion's rule matches
          MinOrder,    \* minOrderValue
          Stackable,   \* promotions that may be combined
          NoLimit,     \* a limit that is not set
          Items,       \* what is sold
          Prices,      \* bound: retail prices
          Qtys,        \* bound: quantities on a line
          MaxLines,    \* bound: lines of a cart
          Offs,        \* bound: discounts given by hand on a line
          OrderOffs,   \* bound: discounts given by hand on an order
          Limits,      \* bound: usage limits a promotion may be given
          Caps,        \* bound: limits per customer it may be given
          Orders,      \* orders that may be made
          Customers,   \* known customers
          WalkIn,      \* the customer of an anonymous cart
          Requests     \* concurrent requests

MaxStacked == 2

ASSUME PromotionsAssumption ==
  /\ Percent \subseteq Promos /\ Stackable \subseteq Promos
  /\ Value \in [Promos -> Nat \ {0}]
  /\ \A p \in Percent : Value[p] <= 100
  /\ Targets \in [Promos -> SUBSET Items]
  /\ MinOrder \in [Promos -> Nat]
  /\ WalkIn \notin Customers
  /\ Prices \subseteq Nat /\ Qtys \subseteq Nat \ {0}
  /\ Offs \subseteq Nat /\ OrderOffs \subseteq Nat

\* A shop has finitely many promotions; a limit that is set is a number.
ASSUME LimitsAssumption ==
  /\ IsFiniteSet(Promos)
  /\ MaxDiscount \in [Promos -> Nat \cup {NoLimit}]
  /\ Limits \in [Promos -> SUBSET (Nat \cup {NoLimit})]
  /\ Caps \in [Promos -> SUBSET (Nat \cup {NoLimit})]

VARIABLES price,       \* the retail price of each item
          active,      \* the promotions that are ACTIVE and in their dates
          limit,       \* usageLimit of each promotion, or NoLimit
          cap,         \* usageLimitPerCustomer of each promotion, or NoLimit
          highest,     \* history: the largest cap each promotion has had
          used,        \* usedCount of each promotion
          logs,        \* the promotion_logs rows
          sold,        \* orders that exist
          req          \* the requests under way

vars == <<price, active, limit, cap, highest, used, logs, sold, req>>

Idle == [op |-> "idle"]

\* n uses leave one under a limit that may not be set.
Under(n, max) == IF max = NoLimit THEN TRUE ELSE n < max

------------------------------------------------------------------------------
(* The engine: pricing-engine.ts *)

\* Math.round of a quotient.
Rounded(n, d) == (2 * n + d) \div (2 * d)

\* A cart at the prices f, every line with its total.
AtPrices(cart, f) ==
  [i \in DOMAIN cart |-> [item |-> cart[i].item, off |-> cart[i].off,
                          total |-> cart[i].qty * f[cart[i].item]]]

Subtotal(lines) == SumFunction([i \in DOMAIN lines |-> lines[i].total])

\* getMatchedItems and matchedSubtotal.
Matched(p, lines) == {i \in DOMAIN lines : lines[i].item \in Targets[p]}
MatchedTotal(p, lines) == SumFunction([i \in Matched(p, lines) |-> lines[i].total])

Smaller(a, b) == IF a <= b THEN a ELSE b
Larger(a, b) == IF a >= b THEN a ELSE b

\* rawDiscount.
RawDiscount(p, lines) ==
  LET total == MatchedTotal(p, lines)
      share == Rounded(total * Value[p], 100)
  IN IF p \in Percent
     THEN IF MaxDiscount[p] = NoLimit THEN share ELSE Smaller(share, MaxDiscount[p])
     ELSE Smaller(Value[p], total)

\* The part of a promotion's discount that falls on line i.
Share(p, lines, i) ==
  IF i \in Matched(p, lines) /\ MatchedTotal(p, lines) > 0
  THEN Rounded(lines[i].total * RawDiscount(p, lines), MatchedTotal(p, lines))
  ELSE 0

\* A wrong variant adds it up by item and reads it back by line.
ShareOfVariant(p, lines, i) ==
  SumFunction([j \in {j \in DOMAIN lines : lines[j].item = lines[i].item} |-> Share(p, lines, j)])

LineShare(p, lines, i) == Share(p, lines, i)

\* allocatePerItemDiscount: no line gives more than it is worth.
Allocated(ps, lines) ==
  [i \in DOMAIN lines |->
     Smaller(SumFunction([p \in ps |-> LineShare(p, lines, i)]), lines[i].total)]

TotalDiscount(ps, lines) ==
  Smaller(SumFunction(Allocated(ps, lines)), Subtotal(lines))

\* The grand total the engine reports.
Quoted(ps, lines) == Subtotal(lines) - TotalDiscount(ps, lines)

\* How often a customer has used a promotion.
UsesBy(k, p) == Cardinality({g \in logs : g.promo = p /\ g.customer = k})

\* evaluateEligibility.
Eligible(p, lines, k) ==
  /\ p \in active
  /\ Subtotal(lines) >= MinOrder[p]
  /\ Under(used[p], limit[p])
  /\ cap[p] # NoLimit => k # WalkIn
  /\ Under(UsesBy(k, p), cap[p])
  /\ Matched(p, lines) # {}

\* resolveSelectedPromotions.
Accepted(ps, lines, k) ==
  /\ Cardinality(ps) <= MaxStacked
  /\ \A p \in ps : Eligible(p, lines, k)
  /\ Cardinality(ps) > 1 => ps \subseteq Stackable

------------------------------------------------------------------------------
(* The money of an order: order-pricing.service.ts *)

LineTotalOf(line, off) == Larger(0, line.total - off)

\* Only a discount given by hand on the whole order is taken off the total:
\* a promotion is already on the lines.
OrderOff(kind, value, sum) == IF kind = "ORDER" THEN Smaller(value, sum) ELSE 0

\* grandTotalOf.
GrandTotalOf(lines, offs, kind, value) ==
  LET sum == SumFunction([i \in DOMAIN lines |-> LineTotalOf(lines[i], offs[i])])
  IN Larger(0, sum - OrderOff(kind, value, sum))

CartsWith(offs) ==
  UNION {[1 .. n -> [item : Items, qty : Qtys, off : offs]] : n \in 1 .. MaxLines}

\* priceOrder up to priceLines: the lines at the prices of now. A discount by
\* hand on the order excludes promotions; one on a line is overwritten by
\* the engine's. Bounds: a sale is priced while no other request is under way
\* (it reads what the others change in one step only, and changes nothing they
\* read), a cart with promotions carries no discount by hand, and one without
\* names no customer.
SellRead(r, o, k, cart, ps, off) ==
  /\ \A q \in Requests : req[q].op = "idle"
  /\ o \notin sold
  /\ IF ps = {} THEN k = WalkIn ELSE off = 0
  /\ \A i \in DOMAIN cart : cart[i].off <= cart[i].qty * price[cart[i].item]
  /\ req' = [req EXCEPT ![r] =
       [op |-> "sell", order |-> o, customer |-> k, cart |-> cart, promos |-> ps,
        lines |-> AtPrices(cart, price), off |-> off]]
  /\ UNCHANGED <<price, active, limit, cap, highest, used, logs, sold>>

\* What priceOrder returns of a sale once calculate has read the prices again:
\* the discount of each line, and the one kind of discount an order carries.
Again(r) == AtPrices(req[r].cart, price)
LineOffs(r) == IF req[r].promos = {} THEN [i \in DOMAIN req[r].lines |-> req[r].lines[i].off]
                                     ELSE Allocated(req[r].promos, Again(r))
Kind(r) == IF req[r].promos # {} THEN "PROMOTION" ELSE IF req[r].off > 0 THEN "ORDER" ELSE "NONE"
DiscountValue(r) == IF req[r].promos = {} THEN req[r].off
                                          ELSE TotalDiscount(req[r].promos, Again(r))

Sells(r) == req[r].op = "sell" /\ Accepted(req[r].promos, Again(r), req[r].customer)

\* What the customer is charged.
Charged(r) == GrandTotalOf(req[r].lines, LineOffs(r), Kind(r), DiscountValue(r))

\* The order that is made of it; its money is Charged and DiscountValue.
SellCommit(r) ==
  /\ Sells(r)
  /\ sold' = sold \cup {req[r].order}
  /\ req' = [req EXCEPT ![r] = Idle]
  /\ UNCHANGED <<price, active, limit, cap, highest, used, logs>>

------------------------------------------------------------------------------
(* Counting uses: apply *)

\* apply resolves the cart it was sent before its transaction, with the
\* promotions as they are then: it goes on using the caps it has read.
ApplyRead(r, o, k, cart, ps) ==
  /\ \A q \in Requests : req[q].op # "sell"
  /\ req[r].op = "idle"
  /\ o \in sold
  /\ ps # {} /\ Accepted(ps, AtPrices(cart, price), k)
  /\ req' = [req EXCEPT ![r] =
       [op |-> "apply", order |-> o, customer |-> k, promos |-> ps,
        uses |-> [p \in ps |-> UsesBy(k, p)], caps |-> [p \in ps |-> cap[p]]]]
  /\ UNCHANGED <<price, active, limit, cap, highest, used, logs, sold>>

\* The conditional increment of usedCount looks at the limit of now.
UseLeft(r, p) == Under(used[p], limit[p])
UseWasLeft(r, p) == TRUE
Claims(r, p) == UseLeft(r, p)

\* The customer's uses are counted again, after the promotion's row is held,
\* and compared with the cap that was read before; a wrong variant compares
\* the count that was read with it too.
CapLeft(r, p) == \/ req[r].customer = WalkIn
                 \/ Under(UsesBy(req[r].customer, p), req[r].caps[p])
CapWasLeft(r, p) == Under(req[r].uses[p], req[r].caps[p])
WithinCap(r, p) == CapLeft(r, p)

\* All promotions of the request or none; (orderId, promotionId) is unique.
ApplyCommit(r) ==
  LET q == req[r]
  IN /\ q.op = "apply"
     /\ \A p \in q.promos : Claims(r, p) /\ WithinCap(r, p)
     /\ \A g \in logs : ~ (g.order = q.order /\ g.promo \in q.promos)
     /\ used' = [p \in Promos |-> IF p \in q.promos THEN used[p] + 1 ELSE used[p]]
     /\ logs' = logs \cup {[promo |-> p, order |-> q.order, customer |-> q.customer]
                            : p \in q.promos}
     /\ req' = [req EXCEPT ![r] = Idle]
     /\ UNCHANGED <<price, active, limit, cap, highest, sold>>

\* A request that is refused changes nothing.
Abandon(r) ==
  /\ req[r].op # "idle"
  /\ req' = [req EXCEPT ![r] = Idle]
  /\ UNCHANGED <<price, active, limit, cap, highest, used, logs, sold>>

------------------------------------------------------------------------------
(* The owner: update, deactivate, and a new retail price *)

SetLimit(p, n) ==
  /\ limit' = [limit EXCEPT ![p] = n]
  /\ UNCHANGED <<price, active, cap, highest, used, logs, sold, req>>

\* The row is written with no lock and no regard to sales under way.
SetCap(p, n) ==
  /\ cap' = [cap EXCEPT ![p] = n]
  /\ highest' = [highest EXCEPT ![p] = IF NoLimit \in {n, @} THEN NoLimit
                                       ELSE Larger(n, @)]
  /\ UNCHANGED <<price, active, limit, used, logs, sold, req>>

SetStatus(p, on) ==
  /\ active' = IF on THEN active \cup {p} ELSE active \ {p}
  /\ UNCHANGED <<price, limit, cap, highest, used, logs, sold, req>>

Reprice(i, n) ==
  /\ price' = [price EXCEPT ![i] = n]
  /\ UNCHANGED <<active, limit, cap, highest, used, logs, sold, req>>

------------------------------------------------------------------------------

Init ==
  /\ price \in [Items -> Prices]
  /\ active = Promos
  /\ limit \in {f \in [Promos -> UNION {Limits[p] : p \in Promos}] :
                \A p \in Promos : f[p] \in Limits[p]}
  /\ cap \in {f \in [Promos -> UNION {Caps[p] : p \in Promos}] :
              \A p \in Promos : f[p] \in Caps[p]}
  /\ highest = cap
  /\ used = [p \in Promos |-> 0]
  /\ logs = {} /\ sold = {}
  /\ req = [r \in Requests |-> Idle]

Next ==
  \/ \E r \in Requests :
       \/ \E o \in Orders, k \in Customers \cup {WalkIn}, ps \in SUBSET Promos,
            off \in OrderOffs : \E cart \in CartsWith(IF ps = {} THEN Offs ELSE {0}) :
              SellRead(r, o, k, cart, ps, off)
       \/ SellCommit(r)
       \/ \E o \in sold, k \in Customers \cup {WalkIn}, ps \in SUBSET Promos,
            cart \in CartsWith({0}) : ApplyRead(r, o, k, cart, ps)
       \/ ApplyCommit(r)
       \/ Abandon(r)
  \/ \E p \in Promos : \/ \E n \in Limits[p] : SetLimit(p, n)
                       \/ \E n \in Caps[p] : SetCap(p, n)
                       \/ \E on \in BOOLEAN : SetStatus(p, on)
  \/ \E i \in Items, n \in Prices : Reprice(i, n)

Spec == Init /\ [][Next]_vars

------------------------------------------------------------------------------
(* Properties *)

TypeOK ==
  /\ price \in [Items -> Nat]
  /\ active \subseteq Promos
  /\ used \in [Promos -> Nat]
  /\ logs \subseteq [promo : Promos, order : Orders, customer : Customers \cup {WalkIn}]
  /\ sold \subseteq Orders

\* Every use that was counted has its log row and the other way round, so an
\* order that gets two promotions of which the second is used up counts for
\* neither.
UsesAreLogged == \A p \in Promos : used[p] = Cardinality({g \in logs : g.promo = p})

\* Whatever registers apply it at the same time, and however the owner edits
\* it, a customer never gets a promotion more often than the largest cap it has
\* ever had; and a use beyond the cap that stands when it is counted only comes
\* from a sale that had read another one (apply compares with the cap read
\* before its transaction).
CustomerWithinCap ==
  /\ [](\A p \in Promos, k \in Customers :
          highest[p] # NoLimit => UsesBy(k, p) <= highest[p])
  /\ [][\A p \in Promos, k \in Customers : UsesBy(k, p)' > UsesBy(k, p) =>
          \/ cap[p] = NoLimit \/ UsesBy(k, p)' <= cap[p]
          \/ \E r \in Requests : /\ req[r].op = "apply" /\ req'[r] = Idle
                                 /\ req[r].customer = k /\ p \in req[r].promos
                                 /\ req[r].caps[p] # cap[p]]_vars

\* A use is counted only within the limit that stands at that moment, also
\* when the owner lowered it after the register had checked.
LimitHolds ==
  [][\A p \in Promos : used'[p] # used[p] =>
       limit[p] = NoLimit \/ used'[p] <= limit[p]]_vars

\* Unless a price changed between the two reads, what the sale charges, added
\* up line by line, is the total the engine shows on the screen; and combined
\* promotions never take off more than they grant, but for the rounding of at
\* most half a dong on each line they match.
SaleHonoursQuote ==
  \A r \in Requests : Sells(r) /\ req[r].promos # {} =>
    /\ Again(r) = req[r].lines => Charged(r) = Quoted(req[r].promos, req[r].lines)
    /\ 2 * DiscountValue(r) <=
         SumFunction([p \in req[r].promos |->
                        2 * RawDiscount(p, Again(r)) + Cardinality(Matched(p, Again(r)))])
=============================================================================
