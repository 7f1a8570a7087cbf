--------------------------- MODULE WorkshopSupply ---------------------------
(***************************************************************************)
(* The list of goods to be made (danh sach can san xuat) between the       *)
(* orders that need goods and the workshop's requests that bring them, at  *)
(* one location: orders of one line, requests of one line, made-to-measure *)
(* lines with an SKU of their own, goods pinned to such a line, packing,   *)
(* and the alert sent when a row of the list becomes short.                *)
(*                                                                         *)
(* The list has no table: Short is computed from the other state on every  *)
(* read. Goods are units of ordinary lots (shared) and of lots made for    *)
(* one order line (pinned); inventories.stock is their sum, which is the   *)
(* business of StockMovement. Requests, notes and debt in full are those   *)
(* of ProductionRequest; here a request matters for what it will bring.    *)
(*                                                                         *)
(* An endpoint that checks before its transaction is a Read, a Commit and, *)
(* when it alerts, a Notify; what the commit's claim repeats is one step.  *)
(***************************************************************************)
EXTENDS Integers, FiniteSets, FiniteSetsExt, Functions

CONSTANTS Orders,      \* ids of orders, and of their only line
          RequestIds,  \* ids of production requests
          Std,         \* the SKU of the catalogue
          MaxOwn,      \* bound: SKUs made for one line
          OrderQtys,   \* bound: units on an order
          RequestQtys, \* bound: units on a request
          ReceiptQtys, \* bound: units in a receipt
          AtStart,     \* bound: units at the start
          Users        \* concurrent HTTP requests

NoLine == "no line"    \* orderItemId null
Skus == {Std} \cup (Orders \X (1..MaxOwn))
LineIds == Orders \cup {NoLine}
Rows == Skus \X LineIds

ASSUME SupplyAssumption ==
  /\ IsFiniteSet(Orders) /\ IsFiniteSet(RequestIds) /\ NoLine \notin Orders
  /\ MaxOwn \in Nat /\ AtStart \in Nat
  /\ OrderQtys \subseteq Nat \ {0} /\ RequestQtys \subseteq Nat \ {0}
  /\ ReceiptQtys \subseteq Nat \ {0}
  /\ Std \notin Orders \X (1..MaxOwn)

VARIABLES order,      \* orders with their line; NONE until created
          own,        \* how many SKUs have been made for a line
          shared,     \* units of an SKU in ordinary lots
          pinned,     \* units of an SKU in lots made for a line
          locked,     \* inventories.lockedStock of an SKU
          request,    \* production requests; NONE until created
          pend,       \* what each HTTP request has read
          silent,     \* history: rows made short by a write, nobody told
          missed,     \* history: those of them that no alert is to tell of
          misread,    \* history: SKUs some write took for another by then
          overtaken   \* history: lines whose SKU and request came apart

supplyVars == <<order, own, shared, pinned, locked, request, pend, silent,
          missed, misread, overtaken>>
goods == <<shared, pinned, locked>>

Unshipped == {"CONFIRMED", "PACKED"}
OnOrder == {"SENT", "PARTIALLY_RECEIVED"}
Locking == {"SENT", "PARTIALLY_RECEIVED", "COMPLETED"}

-----------------------------------------------------------------------------
(* production-list.ts *)

AtLeastZero(n) == IF n < 0 THEN 0 ELSE n

PinnedTo(s) == SumFunctionOnSet(pinned[s], Orders)
Stock(s) == shared[s] + PinnedTo(s)
Shelf(s) == Stock(s) - locked[s]

\* The row an order's line, or a request's line, is counted in.
RowOfOrder(o) == <<order[o].sku, IF order[o].custom THEN o ELSE NoLine>>
RowOfRequest(q) ==
  <<request[q].sku,
    IF request[q].line # NoLine /\ order[request[q].line].custom
    THEN request[q].line ELSE NoLine>>

Waiting(row) == {o \in Orders : order[o].status \in Unshipped
                                /\ RowOfOrder(o) = row}
Qtys == [o \in Orders |-> order[o].qty]
Demand(row) == SumFunctionOnSet(Qtys, Waiting(row))

Outstanding ==
  [q \in RequestIds |-> AtLeastZero(request[q].qty - request[q].got)]
Bringing(row, statuses) == {q \in RequestIds : request[q].status \in statuses
                                              /\ RowOfRequest(q) = row}
Coming(row, statuses) == SumFunctionOnSet(Outstanding, Bringing(row, statuses))

RowStockAll(row) == IF row[2] = NoLine THEN Stock(row[1])
                    ELSE pinned[row[1]][row[2]]
RowStock(row) ==
  IF row[2] = NoLine THEN AtLeastZero(Stock(row[1]) - PinnedTo(row[1]))
  ELSE pinned[row[1]][row[2]]

Short(row) == AtLeastZero(Demand(row) - RowStock(row)
                          - Coming(row, OnOrder) - Coming(row, {"DRAFT"}))

RowsOf(S) == S \X LineIds
ShortAmong(S) == {row \in RowsOf(S) : Short(row) > 0}

(* stock-check.ts: what the order page says of a line *)
StockCheck(o) ==
  IF order[o].status = "PACKED" \/ order[o].qty <= Shelf(order[o].sku)
  THEN "ENOUGH"
  ELSE IF Shelf(order[o].sku) <= 0 THEN "OUT" ELSE "PARTIAL"

-----------------------------------------------------------------------------
(* inventories.service.ts *)

LockFits(s, n) == Shelf(s) >= n

\* drawLots: the line's own goods first, then ordinary ones; others' never.
DrawFits(s, o, n) == pinned[s][o] + shared[s] >= n
OwnPart(s, o, n) == Min({n, pinned[s][o]})
Draw(s, o, n) ==
  /\ pinned' = [pinned EXCEPT ![s][o] = @ - OwnPart(s, o, n)]
  /\ shared' = [shared EXCEPT ![s] = @ - (n - OwnPart(s, o, n))]

-----------------------------------------------------------------------------
NoCall == [op |-> "idle"]
BeginCall(u, x) == pend[u] = NoCall /\ pend' = [pend EXCEPT ![u] = x]
EndCall(u) == pend' = [pend EXCEPT ![u] = NoCall]

\* The alert. A write is committed with Tell, which leaves what was read
\* before it; others may close or open rows until Notify.
Tell(u, skus, before) ==
  pend' = [pend EXCEPT ![u] = [op |-> "notify", skus |-> skus,
                               before |-> before]]
CrossedShortage(row, before) == row \notin before /\ Short(row) > 0
Announced(u) == {row \in RowsOf(pend[u].skus) :
                   CrossedShortage(row, pend[u].before)}

\* Every failure is swallowed: the alert tells of some of its rows, or of
\* none, as it also does when the snapshot itself failed and is null.
Notify(u) ==
  /\ pend[u].op = "notify"
  /\ EndCall(u)
  /\ \E told \in SUBSET Announced(u) :
       /\ silent' = silent \ told
       /\ missed' = (missed \cup (silent \cap Announced(u))) \ told
  /\ UNCHANGED <<order, own, goods, request, misread, overtaken>>

-----------------------------------------------------------------------------
(* Orders: create, edit, customize *)

NextOwn(o) == <<o, own[o] + 1>>
Catalogue == {Std} \cup {s \in Orders \X (1..MaxOwn) : s[2] <= own[s[1]]}

\* The pairs compared after a commit: those of the snapshot, and those of
\* the order's lines as they are now.
PairsBefore(o, x) == {x.sku}
Pairs(o, x) == {x.sku, order'[o].sku}

\* Bound: there is an id left.
CreateRead(u, s, n, custom) ==
  /\ custom => s = Std
  /\ \E o \in Orders : order[o].status = "NONE"
  /\ BeginCall(u, [op |-> "create", sku |-> s, qty |-> n, custom |-> custom,
              before |-> ShortAmong({s})])
  /\ UNCHANGED <<order, own, goods, request, misread, overtaken>>

\* The order's row is new: o is any id not used yet.
CreateCommit(u, o) ==
  LET x == pend[u]
  IN /\ x.op = "create"
     /\ order[o].status = "NONE"
     /\ x.custom => own[o] < MaxOwn
     /\ order' = [order EXCEPT ![o] =
          [status |-> "CONFIRMED", custom |-> x.custom, qty |-> x.qty,
           sku |-> IF x.custom THEN NextOwn(o) ELSE x.sku]]
     /\ own' = IF x.custom THEN [own EXCEPT ![o] = @ + 1] ELSE own
     /\ Tell(u, Pairs(o, x), x.before)
     /\ UNCHANGED <<goods, request, misread, overtaken>>

AssertNotLocked(o) == \A q \in RequestIds :
  ~(request[q].line = o /\ request[q].status \in Locking)

CustomizeRead(u, o) ==
  /\ order[o].status = "CONFIRMED"
  /\ AssertNotLocked(o)
  /\ BeginCall(u, [op |-> "customize", order |-> o, sku |-> order[o].sku,
              custom |-> order[o].custom,
              before |-> ShortAmong({order[o].sku})])
  /\ UNCHANGED <<order, own, goods, request, misread, overtaken>>

\* Requests still in DRAFT follow the line to its new SKU.
NotRepointed(o, s) == request
Repointed(o, s) ==
  [q \in RequestIds |->
     IF request[q].line = o /\ request[q].status = "DRAFT"
     THEN [request[q] EXCEPT !.sku = s] ELSE request[q]]

CustomizeCommit(u) ==
  LET x == pend[u]
      o == x.order
  IN /\ x.op = "customize"
     /\ IF order[o].status # "CONFIRMED"
        THEN EndCall(u) /\ UNCHANGED <<order, own, request, overtaken>>
        ELSE /\ IF x.custom
                THEN UNCHANGED <<order, own, request>>
                ELSE /\ own[o] < MaxOwn
                     /\ own' = [own EXCEPT ![o] = @ + 1]
                     /\ order' = [order EXCEPT ![o].sku = NextOwn(o),
                                               ![o].custom = TRUE]
                     /\ request' = Repointed(o, NextOwn(o))
             /\ overtaken' = IF AssertNotLocked(o) THEN overtaken
                             ELSE overtaken \cup {o}
             /\ Tell(u, Pairs(o, x), x.before)
     /\ UNCHANGED <<goods, misread>>

-----------------------------------------------------------------------------
(* Orders: pack, hand over, cancel; the counter *)

PackRead(u, o) ==
  /\ order[o].status = "CONFIRMED"
  /\ BeginCall(u, [op |-> "pack", order |-> o, sku |-> order[o].sku])
  /\ UNCHANGED <<order, own, goods, request, misread, overtaken>>

\* The claim is on the status alone; the goods locked are those of the line
\* as it was read.
PackCommit(u) ==
  LET x == pend[u]
      o == x.order
  IN /\ x.op = "pack"
     /\ EndCall(u)
     /\ IF order[o].status = "CONFIRMED" /\ LockFits(x.sku, order[o].qty)
        THEN /\ order' = [order EXCEPT ![o].status = "PACKED"]
             /\ locked' = [locked EXCEPT ![x.sku] = @ + order[o].qty]
             /\ misread' = IF x.sku = order[o].sku THEN misread
                           ELSE misread \cup {x.sku, order[o].sku}
        ELSE UNCHANGED <<order, locked, misread>>
     /\ UNCHANGED <<own, shared, pinned, request, overtaken>>

HandOver(o) ==
  LET s == order[o].sku
      n == order[o].qty
  IN /\ order[o].status = "PACKED"
     /\ locked[s] >= n
     /\ DrawFits(s, o, n)
     /\ Draw(s, o, n)
     /\ locked' = [locked EXCEPT ![s] = @ - n]
     /\ order' = [order EXCEPT ![o].status = "SHIPPING"]
     /\ UNCHANGED <<own, request, pend, misread, overtaken>>

CancelOrder(o) ==
  LET s == order[o].sku
      n == order[o].qty
  IN /\ order[o].status \in Unshipped
     /\ IF order[o].status = "PACKED"
        THEN locked[s] >= n /\ locked' = [locked EXCEPT ![s] = @ - n]
        ELSE UNCHANGED locked
     /\ order' = [order EXCEPT ![o].status = "CANCELLED"]
     /\ UNCHANGED <<own, shared, pinned, request, pend, misread, overtaken>>

\* A sale at the counter has no waiting line: ordinary lots only.
Sell(s) ==
  /\ Shelf(s) >= 1
  /\ shared[s] >= 1
  /\ shared' = [shared EXCEPT ![s] = @ - 1]
  /\ UNCHANGED <<order, own, pinned, locked, request, pend, misread,
                 overtaken>>

-----------------------------------------------------------------------------
(* Production requests *)

LineFits(s, l) == l # NoLine => /\ order[l].status \in Unshipped
                                /\ order[l].sku = s

RequestRead(u, s, l, n) ==
  /\ LineFits(s, l)
  /\ BeginCall(u, [op |-> "request", sku |-> s, line |-> l, qty |-> n])
  /\ UNCHANGED <<order, own, goods, request, misread, overtaken>>

RequestCommit(u, q) ==
  LET x == pend[u]
  IN /\ x.op = "request"
     /\ request[q].status = "NONE"
     /\ EndCall(u)
     /\ request' = [request EXCEPT ![q] =
          [status |-> "DRAFT", sku |-> x.sku, line |-> x.line,
           qty |-> x.qty, got |-> 0]]
     /\ overtaken' = IF x.line # NoLine /\ order[x.line].sku # x.sku
                     THEN overtaken \cup {x.line} ELSE overtaken
     /\ UNCHANGED <<order, own, goods, misread>>

Send(q) ==
  /\ request[q].status = "DRAFT"
  /\ request' = [request EXCEPT ![q].status = "SENT"]
  /\ UNCHANGED <<order, own, goods, pend, misread, overtaken>>

RemoveDraft(q) ==
  /\ request[q].status = "DRAFT"
  /\ request' = [request EXCEPT ![q].status = "REMOVED"]
  /\ UNCHANGED <<order, own, goods, pend, misread, overtaken>>

\* Cancel what has brought nothing, close short what has brought some. Both
\* give up what is still to come, so they alert.
ReleaseTarget(q) == IF request[q].got = 0 THEN "CANCELLED" ELSE "COMPLETED"

ReleaseRead(u, q) ==
  /\ \/ request[q].status \in {"DRAFT", "SENT"} /\ request[q].got = 0
     \/ request[q].status = "PARTIALLY_RECEIVED" /\ request[q].got > 0
  /\ BeginCall(u, [op |-> "release", request |-> q, was |-> request[q].status,
              to |-> ReleaseTarget(q), sku |-> request[q].sku,
              before |-> ShortAmong({request[q].sku})])
  /\ UNCHANGED <<order, own, goods, request, misread, overtaken>>

ReleaseCommit(u) ==
  LET x == pend[u]
      q == x.request
  IN /\ x.op = "release"
     /\ IF request[q].status = x.was
        THEN /\ request' = [request EXCEPT ![q].status = x.to]
             /\ misread' = IF x.sku = request[q].sku THEN misread
                           ELSE misread \cup {x.sku, request[q].sku}
             /\ Tell(u, {x.sku}, x.before)
        ELSE EndCall(u) /\ UNCHANGED <<request, misread>>
     /\ UNCHANGED <<order, own, goods, overtaken>>

BringRead(u, q, n, defect) ==
  /\ request[q].status \in OnOrder
  /\ request[q].got + n <= request[q].qty
  /\ BeginCall(u, [op |-> "receive", request |-> q, sku |-> request[q].sku,
              line |-> RowOfRequest(q)[2], qty |-> n, defect |-> defect])
  /\ UNCHANGED <<order, own, goods, request, misread, overtaken>>

\* The status is written whatever it has become, so a receipt under way
\* revives a request cancelled meanwhile (FinalIsFinal of ProductionRequest).
\* openLot takes the good units: pinned when the line, as read, is custom.
OpenLot(s, l, n) ==
  IF l = NoLine
  THEN shared' = [shared EXCEPT ![s] = @ + n] /\ UNCHANGED pinned
  ELSE pinned' = [pinned EXCEPT ![s][l] = @ + n] /\ UNCHANGED shared

BringCommit(u) ==
  LET x == pend[u]
      q == x.request
      got == request[q].got + x.qty
  IN /\ x.op = "receive"
     /\ EndCall(u)
     /\ IF got <= request[q].qty
        THEN /\ request' = [request EXCEPT ![q].got = got,
                  ![q].status = IF got = request[q].qty THEN "COMPLETED"
                                ELSE "PARTIALLY_RECEIVED"]
             /\ OpenLot(x.sku, x.line, x.qty - x.defect)
             /\ overtaken' = IF request[q].status = "CANCELLED"
                             THEN overtaken \cup ({request[q].line} \ {NoLine})
                             ELSE overtaken
        ELSE UNCHANGED <<request, shared, pinned, overtaken>>
     /\ UNCHANGED <<order, own, locked, misread>>

-----------------------------------------------------------------------------
NoOrder == [status |-> "NONE", sku |-> Std, custom |-> FALSE, qty |-> 0]
NoRequest == [status |-> "NONE", sku |-> Std, line |-> NoLine, qty |-> 0,
              got |-> 0]

SupplyInit ==
  /\ order = [o \in Orders |-> NoOrder]
  /\ own = [o \in Orders |-> 0]
  /\ shared = [s \in Skus |-> IF s = Std THEN AtStart ELSE 0]
  /\ pinned = [s \in Skus |-> [o \in Orders |-> 0]]
  /\ locked = [s \in Skus |-> 0]
  /\ request = [q \in RequestIds |-> NoRequest]
  /\ pend = [u \in Users |-> NoCall]
  /\ silent = {} /\ missed = {} /\ misread = {} /\ overtaken = {}

OrderStep(u) ==
  \/ \E s \in Catalogue, n \in OrderQtys, custom \in BOOLEAN :
       CreateRead(u, s, n, custom)
  \/ \E o \in Orders : CreateCommit(u, o) \/ CustomizeRead(u, o)
                       \/ PackRead(u, o)
  \/ CustomizeCommit(u) \/ PackCommit(u)

RequestStep(u) ==
  \/ \E s \in Catalogue, l \in LineIds, n \in RequestQtys :
       RequestRead(u, s, l, n)
  \/ \E q \in RequestIds : RequestCommit(u, q) \/ ReleaseRead(u, q)
  \/ \E q \in RequestIds, n \in ReceiptQtys : \E defect \in 0..n :
       BringRead(u, q, n, defect)
  \/ ReleaseCommit(u) \/ BringCommit(u)

\* The rows a committed write opens, and those of them that its snapshot
\* held short already, being out of date.
Writing(u) == pend[u].op # "notify" /\ pend'[u].op = "notify"
Opened == {row \in Rows : (\E u \in Users : Writing(u)) /\ Short(row) = 0}
Overlooked == {row \in Opened :
                 \E u \in Users : Writing(u) /\ row \in pend'[u].before}

Step ==
  \/ \E u \in Users : OrderStep(u) \/ RequestStep(u)
  \/ \E o \in Orders : HandOver(o) \/ CancelOrder(o)
  \/ \E q \in RequestIds : Send(q) \/ RemoveDraft(q)
  \/ \E s \in Skus : Sell(s)

\* Any step may close a row.
SupplyNext ==
  \/ /\ Step
     /\ silent' = {row \in silent \cup Opened : Short(row)' > 0}
     /\ missed' = {row \in missed \cup Overlooked : Short(row)' > 0}
  \/ \E u \in Users : Notify(u)

SupplySpec == SupplyInit /\ [][SupplyNext]_supplyVars

-----------------------------------------------------------------------------
(* Properties *)

SupplyTypeOK ==
  /\ order \in [Orders -> [status : {"NONE", "CONFIRMED", "PACKED",
                                     "SHIPPING", "CANCELLED"},
                           sku : Skus, custom : BOOLEAN, qty : Nat]]
  /\ own \in [Orders -> 0..MaxOwn]
  /\ shared \in [Skus -> Nat] /\ locked \in [Skus -> Nat]
  /\ pinned \in [Skus -> [Orders -> Nat]]
  /\ request \in [RequestIds ->
       [status : {"NONE", "DRAFT", "CANCELLED", "REMOVED"} \cup Locking,
        sku : Skus, line : LineIds, qty : Nat, got : Nat]]
  /\ silent \subseteq Rows /\ missed \subseteq Rows /\ misread \subseteq Skus
  /\ overtaken \subseteq Orders

Wanted == {order[o].sku : o \in {p \in Orders : order[p].status \in Unshipped}}
Left(o) == order[o].qty - OwnPart(order[o].sku, o, order[o].qty)
LinesOf(s) == {o \in Orders : order[o].status \in Unshipped
                              /\ order[o].sku = s}

\* When the list shows no row of an SKU short and counts on nothing still to
\* come, every line waiting for the SKU can be packed and handed over: the
\* order page says so, the lots give each line its units, and together they
\* give all of them. An SKU some write took for another (misread) is out.
CoveredPlanShips ==
  \A s \in Wanted \ misread :
    (\A row \in RowsOf({s}) :
       Coming(row, OnOrder \cup {"DRAFT"}) = 0 /\ Short(row) = 0)
    => /\ \A o \in LinesOf(s) : StockCheck(o) = "ENOUGH"
                               /\ DrawFits(s, o, order[o].qty)
       /\ SumFunctionOnSet([o \in Orders |-> Left(o)], LinesOf(s)) <= shared[s]

\* What the workshop makes for a line is the line's SKU, so the line can use
\* it: a draft follows the line when it is customized, a line already asked
\* for is not customized. Lines for which those two raced are out.
MadeToMeasureFits ==
  \A s \in Skus, o \in Orders \ overtaken :
    pinned[s][o] > 0 => order[o].sku = s

\* Every row made short by a new order, an edit of its goods, a cancelled or
\* a closed request is told to those in charge, whichever SKU the write has
\* taken the demand to: none stays short in silence once the writes have sent
\* their alerts, but for those whose snapshot or alert failed, or whose
\* snapshot was out of date: short when read, closed before the write.
OpenedShortageIsTold ==
  (\E row \in silent \ missed : row[1] \notin misread)
    => \E u \in Users : pend[u].op = "notify"

\* Refuted. Goods of a cancelled line are ordinary stock at once
\* (order-customization.service.ts:100, order-cancel.service.ts:149).
FreedGoodsAreStock ==
  \A o \in Orders : order[o].status = "CANCELLED" =>
    \A s \in Skus : pinned[s][o] = 0

\* Refuted. A line the workshop has been asked for no longer changes
\* (order-customization.service.ts:447).
SentLineIsFixed == overtaken = {}
=============================================================================
