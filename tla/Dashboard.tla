----------------------------- MODULE Dashboard -----------------------------
(***************************************************************************)
(* The figures a shop sees of its sales and its stock.                      *)
(*                                                                          *)
(* src/src/modules/stats/stats.service.ts answers each report with one to   *)
(* ten SQL statements while orders and stock go on changing; stats-math.ts  *)
(* has the time windows. A report of one statement is an operator on the    *)
(* state; one of several statements is a request. Only the stock alerts     *)
(* run in a transaction with a snapshot.                                    *)
(*                                                                          *)
(* An ORDER BY leaves ties open, so that a statement with a LIMIT has a set *)
(* of answers. Times count from 0. Who may see which place is the branch    *)
(* asked for; an order has one line; names, rounding, percentages and the   *)
(* cash flow list are left out.                                             *)
(***************************************************************************)
EXTENDS Requests, Integers, Sequences, FiniteSets, FiniteSetsExt, Functions

CONSTANTS Sales,      \* orders that may be created
          SaleKinds,  \* bound: what an order may be [branch, staff, method, customer, sku, units,
                      \*   goods, total, fees]; the customer is None for a walk-in
          Asked,      \* bound: the places asked for, None for the whole shop
          Moves,      \* bound: the statuses an order may get
          Costs,      \* bound: the cost of goods of an order, None while unknown
          Rows,       \* inventory rows [sku, at]
          Levels,     \* bound: the stock a row may get [stock, locked]
          MinStock,   \* inventories.min_stock
          Threshold,  \* lowStockThreshold
          AgingDays,  \* STOCK_AGING_DAYS
          ListLimit,  \* ALERT_LIST_LIMIT
          LowLimit,   \* LOW_STOCK_LIST_LIMIT
          Limits,     \* bound: the limit of a query
          Starts,     \* the first instants of the days, of the months...
          Horizon     \* bound: the clock

ASSUME DashboardAssumption ==
  /\ Horizon \in Nat /\ Threshold \in Nat /\ MinStock \in Nat /\ ListLimit \in Nat
  /\ LowLimit \in Nat /\ Limits \subseteq Nat
  /\ \A key \in DOMAIN Starts : 0 \in Starts[key] /\ Starts[key] \subseteq Nat
  /\ "day" \in DOMAIN Starts
  /\ AgingDays.WARNING \in Int /\ AgingDays.ATTENTION \in Int /\ AgingDays.STALE \in Int
  /\ AgingDays.WARNING < AgingDays.ATTENTION /\ AgingDays.ATTENTION < AgingDays.STALE
  /\ IsFiniteSet(Sales) /\ IsFiniteSet(Rows)
  /\ \A kind \in SaleKinds : kind.total \in Nat /\ kind.fees \in Int /\ kind.units \in Nat /\ kind.goods \in Int
  /\ Costs \ {None} \subseteq Int
  /\ \A level \in Levels : level.stock \in Int /\ level.locked \in Nat

VARIABLES clock,
          sale,    \* the rows of orders, with what the reports read of their lines
          rack,    \* the rows of inventories, with the last sale, the oldest lot, and
                   \*   whether the place is sellable and not deleted
          page,    \* the last answers of the reports of several statements
          edition  \* how often an order has changed

dashboardVars == <<clock, sale, rack, page, edition>>

NoSale == [status |-> "NONE"]
NoPage == [of |-> "nothing"]

DashboardInit ==
  /\ clock = 0
  /\ sale = [o \in Sales |-> NoSale]
  /\ rack = [i \in Rows |-> [stock |-> 1, locked |-> 0, sold |-> None, made |-> 0, onSale |-> TRUE]]
  /\ page = NoPage
  /\ edition = 0

------------------------------------------------------------------------------
(* What the shop does meanwhile; see the other modules *)

Tick ==
  /\ "clock" \in scope.ops /\ clock < Horizon
  /\ clock' = clock + 1
  /\ UNCHANGED <<sale, rack, page, edition, req, begun, scope>>

Order(o, kind, st, c) ==
  /\ sale[o] = NoSale
  /\ sale' = [sale EXCEPT ![o] = [kind |-> kind, status |-> st, at |-> clock,
                                  failed |-> FALSE, cost |-> c]]
  /\ edition' = edition + 1
  /\ Once("order")
  /\ UNCHANGED <<clock, rack, page>>

\* Any later status, with the cost known once the goods are drawn, and, while it
\* is out, with or without a shipment that FAILED.
Move(o, st, c, f) ==
  /\ sale[o] # NoSale /\ (f => st = "SHIPPING") /\ (sale[o].cost # None => c # None)
  /\ sale' = [sale EXCEPT ![o].status = st, ![o].cost = c, ![o].failed = f]
  /\ edition' = edition + 1
  /\ Once("move")
  /\ UNCHANGED <<clock, rack, page>>

\* Goods come, are packed, or are sold.
Restock(i, level, sells) ==
  /\ rack' = [rack EXCEPT ![i].stock = level.stock, ![i].locked = level.locked,
                          ![i].sold = IF sells THEN clock ELSE @]
  /\ Once("restock")
  /\ UNCHANGED <<clock, sale, page, edition>>

\* A place stops selling, is deleted with goods in it, or sells again.
PlaceChange(b, on) ==
  /\ rack' = [i \in Rows |-> [rack[i] EXCEPT !.onSale = IF i.at = b THEN on ELSE @]]
  /\ Once("sellable")
  /\ UNCHANGED <<clock, sale, page, edition>>

------------------------------------------------------------------------------
(* Time windows: stats-math.ts *)

\* previousPeriod: just before, of the same length, both ends included.
PreviousPeriod(w) == [from |-> w.from - (w.to - w.from) - 1, to |-> w.from - 1]

StartOf(key, t) == Max({x \in Starts[key] : x <= t})
HasPrevious(key, t) == StartOf(key, t) > 0

\* comparisonWindows: the period under way, and as much of the one before as
\* has passed of it, but not beyond its end.
Current(key, t) == [from |-> StartOf(key, t), to |-> t]

\* A wrong variant compares beyond the end of a shorter period.
PreviousUncut(key, t) ==
  LET from == StartOf(key, StartOf(key, t) - 1)
  IN [from |-> from, to |-> from + (t - StartOf(key, t))]

Previous(key, t) ==
  LET cur == StartOf(key, t)
      from == StartOf(key, cur - 1)
  IN [from |-> from, to |-> Min({from + (t - cur), cur - 1})]

\* A day of the shop's calendar.
DayOf(t) == Cardinality({x \in Starts["day"] : x <= t})

------------------------------------------------------------------------------
(* Sales: one statement each *)

Revenue(S) == SumFunction([o \in S |-> sale[o].kind.total])

Shelf(row) == row.stock - row.locked

In(o, w, b) ==
  /\ sale[o] # NoSale
  /\ w.from <= sale[o].at /\ sale[o].at <= w.to
  /\ b = None \/ sale[o].kind.branch = b

\* A wrong variant counts what is not yet, or no longer, revenue.
CountedAll(w, b) == {o \in Sales : In(o, w, b)}

\* orderWhere: COMPLETED orders created within the window, both ends included.
Counted(w, b) == {o \in Sales : In(o, w, b) /\ sale[o].status = "COMPLETED"}

\* GROUP BY: one row for each value that the orders have of a key.
GroupRow(key, k) ==
  LET S == {o \in DOMAIN key : key[o] = k}
  IN [key |-> k, revenue |-> Revenue(S), orders |-> Cardinality(S)]
GroupedBy(key) == {GroupRow(key, k) : k \in Range(key)}

\* getRevenueSeries, getRevenueByPaymentMethod, getRevenueByStaff,
\* getRevenueByBranch and getSalesHeatmap.
RevenueSeries(w, b) == GroupedBy([o \in Counted(w, b) |-> DayOf(sale[o].at)])
RevenueByPaymentMethod(w, b) == GroupedBy([o \in Counted(w, b) |-> sale[o].kind.method])
RevenueByStaff(w, b) == GroupedBy([o \in Counted(w, b) |-> sale[o].kind.staff])
RevenueByBranch(w, b) == GroupedBy([o \in Counted(w, b) |-> sale[o].kind.branch])
SalesHeatmap(w, b) ==
  GroupedBy([o \in Counted(w, b) |-> <<DayOf(sale[o].at), sale[o].at>>])

\* LIMIT n: as many of the rows as there may be.
Cut(rows, n) == {S \in SUBSET rows : Cardinality(S) = Min({n, Cardinality(rows)})}

\* getTopCustomers leaves the walk-in customer out.
BuyersOf(w, b) ==
  GroupedBy([o \in {x \in Counted(w, b) : sale[x].kind.customer # None} |-> sale[o].kind.customer])
TopCustomers(w, b, n) ==
  {S \in Cut(BuyersOf(w, b), n) :
     \A x \in S, y \in BuyersOf(w, b) \ S : x.revenue >= y.revenue}

\* getTopProducts, by units or by what the goods brought.
UnitsOf(S) == SumFunction([o \in S |-> sale[o].kind.units])
GoodsOf(S) == SumFunction([o \in S |-> sale[o].kind.goods])
Sold(w, b, i) == {o \in Counted(w, b) : sale[o].kind.sku = i}
ProductRow(w, b, i) ==
  [sku |-> i, units |-> UnitsOf(Sold(w, b, i)), goods |-> GoodsOf(Sold(w, b, i))]
ProductsSold(w, b) == {ProductRow(w, b, sale[o].kind.sku) : o \in Counted(w, b)}
TopProducts(w, b, by, n) ==
  {S \in Cut(ProductsSold(w, b), n) : \A x \in S, y \in ProductsSold(w, b) \ S : x[by] >= y[by]}

RowsAt(b) == {i \in Rows : b = None \/ i.at = b}

\* getSlowProducts: what is on the shelf of places that sell, and how little
\* of it was sold.
ShelfOf(b, sku) ==
  SumFunction([i \in {x \in RowsAt(b) : x.sku = sku /\ rack[x].onSale} |-> Shelf(rack[i])])
SlowRow(w, b, sku) ==
  [sku |-> sku, units |-> UnitsOf(Sold(w, b, sku)), shelf |-> ShelfOf(b, sku)]
ProductsLeft(w, b) == {SlowRow(w, b, k) : k \in {i.sku : i \in {x \in Rows : ShelfOf(b, x.sku) > 0}}}
SlowProducts(w, b, n) ==
  {S \in Cut(ProductsLeft(w, b), n) :
     \A x \in S, y \in ProductsLeft(w, b) \ S :
       x.units < y.units \/ (x.units = y.units /\ x.shelf >= y.shelf)}

\* getInventory: what is packed is in stock, and a place that does not sell
\* counts. One statement has the figures, the other the list.
OutOfStock(b) == {i \in RowsAt(b) : rack[i].stock <= 0}
LowStock(b) == {i \in RowsAt(b) : rack[i].stock <= Threshold}
LowStockLists(b) ==
  {S \in Cut(LowStock(b), LowLimit) :
     \A x \in S, y \in LowStock(b) \ S : rack[x].stock <= rack[y].stock}

\* getOrdersByStatus counts every order of the window.
OrdersByStatus(w, b) ==
  GroupedBy([o \in {x \in Sales : In(x, w, b)} |-> sale[o].status])

\* ORDER_PIPELINE_STAGES.
Stages == [PENDING_CONFIRMATION |-> {"PENDING_CONFIRMATION"}, PROCESSING |-> {"CONFIRMED"},
           AWAITING_SHIPMENT |-> {"PACKED"}, SHIPPING |-> {"PICKED_UP", "SHIPPING"}]

\* countOpenOrders: a shipment of an order that is SHIPPING has FAILED.
DeliveryFailed(o) == sale[o].status = "SHIPPING" /\ sale[o].failed

\* A wrong variant leaves the failed deliveries among those under way.
PipelineTwice(b) ==
  [st \in DOMAIN Stages \cup {"DELIVERY_FAILED"} |->
     {o \in Sales : /\ sale[o] # NoSale /\ (b = None \/ sale[o].kind.branch = b)
                    /\ IF st = "DELIVERY_FAILED" THEN DeliveryFailed(o)
                       ELSE sale[o].status \in Stages[st]}]

\* getOrderPipeline: the orders at each stage now, whenever they were created.
Pipeline(b) ==
  [st \in DOMAIN Stages \cup {"DELIVERY_FAILED"} |->
     {o \in Sales : /\ sale[o] # NoSale /\ (b = None \/ sale[o].kind.branch = b)
                    /\ IF st = "DELIVERY_FAILED" THEN DeliveryFailed(o)
                       ELSE sale[o].status \in Stages[st] /\ ~DeliveryFailed(o)}]

------------------------------------------------------------------------------
(* The overview: two statements for each of two periods *)

CostsIn(S) ==
  [cost |-> SumFunction([o \in {x \in S : sale[x].cost # None} |-> sale[o].cost]),
   missing |-> Cardinality({o \in S : sale[o].cost = None})]

\* A wrong variant takes the costs of every order of the window.
CostsOfAll(w, b) == CostsIn(CountedAll(w, b))

CostsOf(w, b) == CostsIn(Counted(w, b))

Takings(w, b) ==
  [revenue |-> Revenue(Counted(w, b)), orders |-> Cardinality(Counted(w, b)),
   fees |-> SumFunction([o \in Counted(w, b) |-> sale[o].kind.fees])]

\* getOverview: summarize reads the orders, and then the costs of their lines,
\* of the period asked for and of the one before it.
OverviewOrders(r, b, from) ==
  LET w == [from |-> from, to |-> clock]
  IN /\ Begin(r, "overview",
              [op |-> "overview", at |-> "costs", edition |-> edition,
               window |-> w, branch |-> b,
               now |-> Takings(w, b), then |-> Takings(PreviousPeriod(w), b)])
     /\ UNCHANGED dashboardVars

OverviewCosts(r) ==
  /\ At(r, {"overview"}, "costs")
  /\ LET w == req[r].window
         b == req[r].branch
         now == CostsOf(w, b)
         then == CostsOf(PreviousPeriod(w), b)
     IN page' = [of |-> "overview", edition |-> req[r].edition, window |-> w,
                 branch |-> b, revenue |-> req[r].now.revenue, before |-> req[r].then.revenue,
                 profit |-> req[r].now.revenue - req[r].now.fees - now.cost,
                 profitBefore |-> req[r].then.revenue - req[r].then.fees - then.cost,
                 missing |-> now.missing]
  /\ req' = Done(r) /\ Frame
  /\ UNCHANGED <<clock, sale, rack, edition>>

------------------------------------------------------------------------------
(* Stock alerts: two statements on one snapshot *)

\* The days since the last sale, or since the row was filled.
DaysIdle(row, t) ==
  IF Shelf(row) <= 0 THEN None
  ELSE DayOf(t) - DayOf(IF row.sold # None THEN row.sold ELSE row.made)

\* stockAgingLevel.
AgingLevel(days) ==
  CASE days >= AgingDays.STALE -> "STALE"
    [] days >= AgingDays.ATTENTION /\ days < AgingDays.STALE -> "ATTENTION"
    [] days >= AgingDays.WARNING /\ days < AgingDays.ATTENTION -> "WARNING"
    [] OTHER -> "NORMAL"

IsIdle(row, t) == DaysIdle(row, t) # None /\ DaysIdle(row, t) >= AgingDays.WARNING

\* The rows of places that sell, as of a snapshot for the place asked for.
StockRows(snap) == {i \in RowsAt(snap.place) : snap.rack[i].onSale}

\* The rows of each alert.
Alerts(snap) ==
  [OUT_OF_STOCK |-> {i \in StockRows(snap) : Shelf(snap.rack[i]) <= 0},
   LOW_STOCK |-> {i \in StockRows(snap) : Shelf(snap.rack[i]) > 0 /\ Shelf(snap.rack[i]) <= Threshold},
   BELOW_MIN |-> {i \in StockRows(snap) : MinStock > 0 /\ Shelf(snap.rack[i]) <= MinStock},
   AGING |-> {i \in StockRows(snap) : IsIdle(snap.rack[i], snap.at)}]
Snapshot(b) == [rack |-> rack, at |-> clock, place |-> b]

\* The first statement counts; the transaction keeps the tables as they are now.
AlertsCount(r, b) ==
  LET snap == Snapshot(b)
      idle == Alerts(snap).AGING
  IN /\ Begin(r, "alerts",
              [op |-> "alerts", at |-> "lists", snap |-> snap,
               counts |-> [c \in DOMAIN Alerts(snap) |-> Cardinality(Alerts(snap)[c])],
               aging |-> [l \in {"WARNING", "ATTENTION", "STALE"} |->
                            Cardinality({i \in idle : AgingLevel(DaysIdle(rack[i], clock)) = l})]])
     /\ UNCHANGED dashboardVars

\* A wrong variant reads the lists outside the snapshot.
ReadNow(r) == Snapshot(req[r].snap.place)
ReadSnapshot(r) == req[r].snap

\* The second statement lists up to ListLimit rows of each.
AlertsLists(r) ==
  /\ At(r, {"alerts"}, "lists")
  /\ LET snap == ReadSnapshot(r)
         rows == Alerts(snap)
         listed == [c \in DOMAIN rows |->
                      CHOOSE S \in SUBSET rows[c] :
                        Cardinality(S) = Min({ListLimit, Cardinality(rows[c])})]
     IN page' = [of |-> "alerts", counts |-> req[r].counts, aging |-> req[r].aging,
                 items |-> listed,
                 levels |-> [i \in listed.AGING |-> AgingLevel(DaysIdle(snap.rack[i], snap.at))]]
  /\ req' = Done(r) /\ Frame
  /\ UNCHANGED <<clock, sale, rack, edition>>

------------------------------------------------------------------------------
\* Bound: a behaviour makes one report of several statements and ends with it.
FirstReport == \A q \in Requests : req[q] = Idle

DashboardNext ==
  /\ page = NoPage
  /\ \/ Tick
     \/ May("order") /\ \E o \in Sales, kind \in SaleKinds, st \in Moves, c \in Costs :
          Order(o, kind, st, c)
     \/ May("move") /\ \E o \in Sales, st \in Moves, c \in Costs, f \in BOOLEAN :
          Move(o, st, c, f)
     \/ May("restock") /\ \E i \in Rows, level \in Levels, sells \in BOOLEAN : Restock(i, level, sells)
     \/ May("sellable") /\ \E i \in Rows, on \in BOOLEAN : PlaceChange(i.at, on)
     \/ \E r \in Requests :
          \/ /\ FirstReport
             /\ \E b \in Asked :
                  \/ AlertsCount(r, b)
                  \/ \E key \in DOMAIN Starts : OverviewOrders(r, b, StartOf(key, clock))
          \/ OverviewCosts(r) \/ AlertsLists(r)

------------------------------------------------------------------------------
Placed == {o \in Sales : sale[o] # NoSale}

\* The revenue and the number of orders of a report's rows.
SumOf(rows) == [revenue |-> SumFunction([x \in rows |-> x.revenue]),
                orders |-> SumFunction([x \in rows |-> x.orders])]

\* Two periods that are compared share no order and leave none between them;
\* the earlier one has run as long as the one under way, or is over
\* (stats-math.ts:46 and :118).
ComparisonIsFair ==
  /\ \A from \in 0 .. clock :
       LET w == [from |-> from, to |-> clock]
           p == PreviousPeriod(w)
       IN p.to + 1 = w.from /\ p.to - p.from = w.to - w.from
  /\ \A key \in DOMAIN Starts : HasPrevious(key, clock) =>
       LET w == Current(key, clock)
           p == Previous(key, clock)
       IN /\ Counted(w, None) \cap Counted(p, None) = {}
          /\ p.from \in Starts[key] /\ p.from <= p.to /\ p.to < w.from
          /\ p.to - p.from = w.to - w.from \/ p.to + 1 = w.from

\* However the sales of a window are split, by day, hour, method, staff or
\* branch, the parts add up to the revenue of the overview and to the COMPLETED
\* row of the orders by status; what the top customers and the top products
\* bring is no more than that, and all of it when the list is not full
\* (stats.service.ts:192, :236, :258, :293, :385, :605).
SalesAddUp(w, b) ==
  LET whole == [revenue |-> Takings(w, b).revenue, orders |-> Takings(w, b).orders]
  IN /\ SumOf(RevenueSeries(w, b)) = whole /\ SumOf(SalesHeatmap(w, b)) = whole
     /\ SumOf(RevenueByPaymentMethod(w, b)) = whole
     /\ SumOf(RevenueByStaff(w, b)) = whole /\ SumOf(RevenueByBranch(w, b)) = whole
     /\ SumOf({x \in OrdersByStatus(w, b) : x.key = "COMPLETED"}) = whole
     /\ \A n \in Limits :
          /\ \A S \in TopCustomers(w, b, n) : SumOf(S).revenue <= whole.revenue
          /\ \A by \in {"units", "goods"} : \A S \in TopProducts(w, b, by, n) :
               LET units == SumFunction([x \in S |-> x.units])
               IN /\ units <= UnitsOf(Counted(w, b))
                  /\ Cardinality(S) < n => units = UnitsOf(Counted(w, b))

\* A product listed as slow has sold nothing, or is among the best with the
\* same units, or the list of the best is full of products that sold as many
\* (stats.service.ts:325 and :520).
SlowIsNotTop(w, b) ==
  \A n \in Limits : \A T \in TopProducts(w, b, "units", n), S \in SlowProducts(w, b, n) :
    \A x \in S :
      \/ x.units = 0
      \/ \E y \in T : y.sku = x.sku /\ y.units = x.units
      \/ Cardinality(T) = n /\ \A y \in T : y.units >= x.units

\* Where goods are sold, what getInventory calls out of stock or low raises an
\* alert; and its list has every row that is out of stock, unless it is full of
\* such rows (stats.service.ts:776, :785 and :895).
LowIsAlerted(b) ==
  LET alerts == Alerts(Snapshot(b))
      raised == {i \in Rows : rack[i].onSale}
  IN /\ OutOfStock(b) \cap raised \subseteq alerts.OUT_OF_STOCK
     /\ \A S \in LowStockLists(b) :
          /\ S \cap raised \subseteq alerts.LOW_STOCK \cup alerts.OUT_OF_STOCK
          /\ OutOfStock(b) \subseteq S \/ (Cardinality(S) = LowLimit /\ S \subseteq OutOfStock(b))

\* The figures of one moment add up, and every open order is at exactly one
\* stage of the pipeline, a failed delivery too (stats.service.ts:412).
PartsAddUp ==
  /\ \A b \in Asked, from \in {sale[o].at : o \in Placed} :
       LET w == [from |-> from, to |-> clock] IN SalesAddUp(w, b) /\ SlowIsNotTop(w, b)
  /\ \A b \in Asked : LowIsAlerted(b)
  /\ \A o \in Placed : (\E st \in DOMAIN Stages : sale[o].status \in Stages[st]) =>
       Cardinality({st \in DOMAIN Pipeline(None) : o \in Pipeline(None)[st]}) = 1

\* The profit of an order, when its costs are known.
ProfitOf(o) == sale[o].kind.total - sale[o].kind.fees - (IF sale[o].cost = None THEN 0 ELSE sale[o].cost)

\* A page of several statements is of one piece: the alerts it lists are the
\* ones it counts, and the profit it shows is made on the orders it shows,
\* unless an order changed between the two statements
\* (stats.service.ts:133 and :817).
PagesAreOfOnePiece ==
  /\ page.of = "alerts" =>
       /\ \A c \in DOMAIN page.counts :
            Cardinality(page.items[c]) = Min({ListLimit, page.counts[c]})
       /\ page.counts["AGING"] = page.aging["WARNING"] + page.aging["ATTENTION"] + page.aging["STALE"]
       /\ \A l \in DOMAIN page.aging :
            /\ Cardinality({i \in page.items["AGING"] : page.levels[i] = l}) <= page.aging[l]
            /\ page.counts["AGING"] <= ListLimit =>
                 Cardinality({i \in page.items["AGING"] : page.levels[i] = l}) = page.aging[l]
  /\ page.of = "overview" /\ page.edition = edition =>
       LET shown == Counted(page.window, page.branch)
       IN /\ page.revenue = Revenue(shown)
          /\ page.profit = SumFunction([o \in shown |-> ProfitOf(o)])
          /\ page.missing = Cardinality({o \in shown : sale[o].cost = None})

\* No two figures on the dashboard contradict each other, and what it compares
\* can be compared.
FiguresAgree == PartsAddUp /\ PagesAreOfOnePiece /\ ComparisonIsFair
=============================================================================
