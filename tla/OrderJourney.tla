---------------------------- MODULE OrderJourney ----------------------------
(***************************************************************************)
(* One journey order (manual order, STORE_PICKUP or HOME_DELIVERY) with    *)
(* the rows that follow it: its lines, fulfillment, shipments, BALANCE     *)
(* payments, their cash-flow rows, the sale invoice, and the inventory     *)
(* rows of its lines at the packing location.                              *)
(*                                                                         *)
(* Every endpoint of the journey has the same shape: read rows with no     *)
(* lock, refuse early on what was read, then run one transaction whose     *)
(* conditional UPDATEs ("claims") re-check part of it. A request is        *)
(* therefore two actions: XRead takes the early checks and keeps in        *)
(* req[r] exactly the read data the transaction goes on using, XCommit is  *)
(* the transaction. A claim that fails, an INSUFFICIENT_STOCK, a lost      *)
(* connection or a crash rolls the whole transaction back: Abandon.        *)
(* An endpoint whose transaction re-checks everything it read (pick-up,    *)
(* the shipment log, pay-cash, the webhook) is one action.                 *)
(*                                                                         *)
(* Who may press a button (role, assignee, driver, branch) is left out:    *)
(* it only makes a claim fail, which Abandon covers. Returns are not part  *)
(* of this module.                                                         *)
(***************************************************************************)
EXTENDS Naturals, FiniteSets, Functions

CONSTANTS Lines,      \* ids an order line can have
          MaxQty,     \* bound: units on one line
          Stock,      \* [Lines -> Nat], units in the packing location
          Ships,      \* ids a shipment can have (bound: their number)
          MaxPays,    \* bound: BALANCE payments of the order
          Totals,     \* the grand totals the order can be given
          Types,      \* the fulfillment types the order can be given
          Deposit,    \* Order.depositAmount, taken when the order was made
          OverPay,    \* bound: how much a transfer may exceed its QR by
          Requests,   \* concurrent HTTP requests
          Ops         \* the endpoints used in this instance

Pays == 1..MaxPays

ASSUME LinesAssumption == IsFiniteSet(Lines) /\ Lines # {}
ASSUME StockAssumption == MaxQty \in Nat \ {0} /\ Stock \in [Lines -> Nat]
ASSUME MoneyAssumption == /\ Totals \subseteq Nat
                          /\ Deposit \in Nat
                          /\ OverPay \in Nat
                          /\ MaxPays \in Nat
ASSUME TypesAssumption == Types \subseteq {"STORE_PICKUP", "HOME_DELIVERY"}

VARIABLES
  status, type, total, payStatus,   \* the orders row
  item,                             \* order_items: quantity and status
  ful,                              \* the order's one fulfillment
  ship,                             \* shipments
  pay,                              \* payments of kind BALANCE
  flow,                             \* cash_flows amount of a payment, 0 = none
  refund,                           \* the REFUND payment and its EXPENSE row
  bank,                             \* amount the customer sent to a QR code
  invoice,                          \* status of the sale invoice
  stock, locked,                    \* inventories.stock, locked_stock
  req                               \* what each open request has read

orderVars == <<status, type, total, payStatus>>
goodsVars == <<item, ful, stock, locked>>
moneyVars == <<pay, flow, refund>>
vars == <<orderVars, goodsVars, ship, moneyVars, bank, invoice, req>>

-----------------------------------------------------------------------------
(* The journey table and the status groups *)

\* Where the inventory rows say the order's goods are.
GoodsPlace == IF stock # Stock THEN "LEFT"
              ELSE IF \E l \in Lines : locked[l] > 0 THEN "LOCKED"
              ELSE "SHELF"

Lifecycle == INSTANCE OrderLifecycle WITH goods <- GoodsPlace

CanTransition(from, to) == Lifecycle!CanTransition(from, to)

\* UNSHIPPED_ORDER_STATUSES, ON_THE_ROAD_STATUSES, FINAL_SHIPMENT_STATUSES.
UnshippedStatuses == {"CONFIRMED", "PACKED", "PICKED_UP"}
OnTheRoadStatuses == {"IN_TRANSIT", "OUT_FOR_DELIVERY", "FAILED"}
FinalShipmentStatuses == {"DELIVERED", "RETURNED", "CANCELLED"}
PackedOnly == {"PACKED"}   \* forgets a fulfillment already handed over
LockingFulfillmentStatuses == {"PACKED", "HANDED_OVER"}

ShipmentStatuses ==
    {"NONE", "CREATED", "PICKED_UP"} \cup OnTheRoadStatuses
                                     \cup FinalShipmentStatuses

OpenShipments == {s \in Ships :
                    ship[s].status \notin FinalShipmentStatuses \cup {"NONE"}}

\* Order lines: quantities of the lines that are on the order.
NoLines == [l \in Lines |-> 0]
Quantities == [l \in Lines |-> IF item[l].status = "PENDING"
                               THEN item[l].qty ELSE 0]

-----------------------------------------------------------------------------
(* Money *)

PaidPays == {p \in Pays : pay[p].status = "PAID"}
Collected == SumFunctionOnSet([p \in Pays |-> pay[p].amount], PaidPays)

\* Money of this order the shop (or its shipper) has, and nobody refunded.
Held == Deposit + Collected - refund

Shortfall(due, got) == IF due > got THEN due - got ELSE 0

\* What the customer gave, whatever the payment rows say of it: cash that was
\* taken and every transfer that was made. Of a transfer, what exceeds its code
\* or was sent to a cancelled one has gone astray: settleSepayBalance only logs
\* it ("the customer may have paid twice").
Arrived == [p \in Pays |-> IF pay[p].method = "SEPAY" THEN bank[p]
                           ELSE IF pay[p].status = "PAID" THEN pay[p].amount
                           ELSE 0]
Astray == [p \in Pays |-> IF pay[p].method # "SEPAY" THEN 0
                          ELSE IF pay[p].status = "CANCELLED" THEN bank[p]
                          ELSE Shortfall(bank[p], pay[p].amount)]
Received == Deposit + SumFunctionOnSet(Arrived, Pays)
GoneAstray == SumFunctionOnSet(Astray, Pays)

\* pickupAmountDue: everything paid counts, a pending code does not (the wrong
\* variant counts it). amountDueOf of a shipment: only the deposit counts.
DueCountingPending ==
  Shortfall(total, Held + SumFunctionOnSet([p \in Pays |-> pay[p].amount],
                                           {p \in Pays : pay[p].status = "PENDING"}))
PickupAmountDue == Shortfall(total, Held)
DeliveryAmountDue == Shortfall(total, Deposit)

PaymentStatusForDeposit(t) == IF Deposit = 0 THEN "UNPAID"
                              ELSE IF Deposit >= t THEN "PAID"
                              ELSE "PARTIALLY_PAID"

PendingCounterQr == {p \in Pays : pay[p].method = "SEPAY"
                                  /\ pay[p].status = "PENDING"}

NoPayment == [status |-> "NONE", method |-> "NONE",
              amount |-> 0, remit |-> "NOT_APPLICABLE"]

\* Cash a shipper collects waits for its remittance; the wrong variant takes
\* it for cash already in the till.
CashAlreadyInTill(a, r) == [status |-> "PAID", method |-> "CASH",
                            amount |-> a, remit |-> "NOT_APPLICABLE"]
CashPayment(a, r) == [status |-> "PAID", method |-> "CASH",
                      amount |-> a, remit |-> r]
QrPayment(a) == [status |-> "PENDING", method |-> "SEPAY",
                 amount |-> a, remit |-> "NOT_APPLICABLE"]

\* The next payment id; a new payment needs one (bound MaxPays).
IsNewPayment(p) == /\ pay[p].status = "NONE"
                   /\ \A q \in Pays : q < p => pay[q].status # "NONE"

\* cancelCounterQr: every code read as pending must still be pending.
CanCancelQr(pending) == \A p \in pending : pay[p].status = "PENDING"
WithQrCancelled(pending) ==
    [p \in Pays |-> IF p \in pending /\ pay[p].status = "PENDING"
                    THEN [pay[p] EXCEPT !.status = "CANCELLED"] ELSE pay[p]]

\* issueForOrder and voidPending on the order's one sale invoice.
Issued == "ISSUED"
NotVoided == invoice   \* a cancel that forgets voidPending
Voided == IF invoice = "PENDING" THEN "CANCELLED" ELSE invoice

-----------------------------------------------------------------------------
(* Inventory: lockStock, shipLockedStock, releaseLockedStock *)

\* Packing needs free units; the wrong variant locks what is not there.
LockUnchecked(qty) == \A l \in Lines : qty[l] >= 0
CanLock(qty) == \A l \in Lines : stock[l] - locked[l] >= qty[l]
CanTakeLocked(qty) == \A l \in Lines : locked[l] >= qty[l]

LockStock(qty) == /\ CanLock(qty)
                  /\ locked' = [l \in Lines |-> locked[l] + qty[l]]
                  /\ UNCHANGED stock

ShipLockedStock(qty) ==
    /\ CanTakeLocked(qty)
    /\ locked' = [l \in Lines |-> locked[l] - qty[l]]
    /\ stock' = [l \in Lines |-> stock[l] - qty[l]]

ReleaseLockedStock(qty) ==
    /\ CanTakeLocked(qty)
    /\ locked' = [l \in Lines |-> locked[l] - qty[l]]
    /\ UNCHANGED stock

\* Lines of qty that are still PENDING become SHIPPED.
ItemsShipped(qty) ==
    [l \in Lines |-> IF qty[l] > 0 /\ item[l].status = "PENDING"
                     THEN [item[l] EXCEPT !.status = "SHIPPED"] ELSE item[l]]

-----------------------------------------------------------------------------
(* Requests *)

Idle == [op |-> "idle"]

\* updatedAt as a claim: any write of the orders row makes an edit that read
\* the row before it stale.
Outdate(x) == IF x.op = "update" THEN [x EXCEPT !.fresh = FALSE] ELSE x

Read(r, x) == /\ x.op \in Ops
              /\ req[r] = Idle
              /\ req' = [req EXCEPT ![r] = x]
              /\ UNCHANGED <<orderVars, goodsVars, ship, moneyVars, bank,
                             invoice>>

\* The request ends; its transaction did, or did not, write the orders row.
Done(r) == req' = [req EXCEPT ![r] = Idle]
DoneWritingOrder(r) ==
    req' = [q \in Requests |-> IF q = r THEN Idle ELSE Outdate(req[q])]
OrderWritten == req' = [q \in Requests |-> Outdate(req[q])]

\* A refused claim, an error or a crash before COMMIT: nothing was written.
Abandon(r) == /\ req[r] # Idle
              /\ Done(r)
              /\ UNCHANGED <<orderVars, goodsVars, ship, moneyVars, bank,
                             invoice>>

-----------------------------------------------------------------------------
(* PATCH /orders/:id - OrderEditService.update *)

UpdateRead(r) ==
    /\ status \in UnshippedStatuses
    /\ Read(r, [op |-> "update", fresh |-> TRUE,
                collected |-> PaidPays # {},
                pending |-> PendingCounterQr,
                open |-> OpenShipments # {}])

\* assertFulfillmentTypeChangeAllowed: only before anybody carries the goods.
TypeChangeAllowed(open) == status = "CONFIRMED" \/ (status = "PACKED" /\ ~open)

\* Lines may be re-quantified, removed or added, only while CONFIRMED.
EditedItems(new) ==
    /\ status = "CONFIRMED"
    /\ \A l \in Lines :
         \/ new[l] = item[l]
         \/ /\ item[l].status \in {"ABSENT", "PENDING"}
            /\ new[l].status = "PENDING" /\ new[l].qty > 0
         \/ /\ item[l].status = "PENDING"
            /\ new[l] = [status |-> "DELETED", qty |-> 0]

UpdateCommit(r) ==
  LET seen == req[r] IN
  /\ seen.op = "update"
  /\ status \in UnshippedStatuses
  /\ seen.fresh
  /\ \E nextType \in Types \cup {type}, nextTotal \in Totals \cup {total} :
       LET leavingPickup == type = "STORE_PICKUP" /\ nextType # type IN
       /\ leavingPickup => ~seen.collected
       /\ nextType # type => TypeChangeAllowed(seen.open)
       /\ nextTotal # total => nextTotal >= Deposit
       /\ leavingPickup => CanCancelQr(seen.pending)
       /\ type' = nextType
       /\ total' = nextTotal
       /\ payStatus' = IF nextTotal = total THEN payStatus
                       ELSE PaymentStatusForDeposit(nextTotal)
       /\ pay' = IF leavingPickup THEN WithQrCancelled(seen.pending) ELSE pay
  /\ \/ UNCHANGED item
     \/ \E new \in [Lines -> [status : {"ABSENT", "PENDING", "DELETED"},
                              qty : 0..MaxQty]] :
          EditedItems(new) /\ item' = new
  /\ DoneWritingOrder(r)
  /\ UNCHANGED <<status, ful, stock, locked, ship, flow, refund, bank,
                 invoice>>

\* PATCH assignee or priority: claimUnshipped touches only the orders row.
ClaimUnshipped == /\ "claimUnshipped" \in Ops
                  /\ status \in UnshippedStatuses
                  /\ OrderWritten
                  /\ UNCHANGED <<orderVars, goodsVars, ship, moneyVars, bank,
                                 invoice>>

-----------------------------------------------------------------------------
(* POST /orders/:id/pack - FulfillmentService.packOrder *)

PackRead(r) == /\ CanTransition(status, "PACKED")
               /\ Quantities # NoLines
               /\ Read(r, [op |-> "packOrder", qty |-> Quantities])

\* The claim of the transaction, and a wrong variant that forgets it.
PackUnclaimed == TRUE
PackClaim == status = "CONFIRMED"

\* The fulfillment takes the lines as they were read; a line deleted since
\* fails its foreign key.
PackCommit(r) ==
  LET seen == req[r] IN
  /\ seen.op = "packOrder"
  /\ PackClaim
  /\ \A l \in Lines : seen.qty[l] > 0 => item[l].status # "DELETED"
  /\ status' = "PACKED"
  /\ ful' = [status |-> "PACKED", qty |-> seen.qty]
  /\ LockStock(seen.qty)
  /\ DoneWritingOrder(r)
  /\ UNCHANGED <<type, total, payStatus, item, ship, moneyVars, bank, invoice>>

-----------------------------------------------------------------------------
(* POST /shipments - ShipmentService.create *)

ShipmentRead(r) == /\ type # "STORE_PICKUP"
                   /\ status = "PACKED"
                   /\ ful.status = "PACKED"
                   /\ Read(r, [op |-> "createShipment"])

\* The order claim and the open-shipment test behind it; a wrong variant
\* forgets the second.
ShipmentUntested == status = "PACKED"
ShipmentClaim == status = "PACKED" /\ OpenShipments = {}

ShipmentCommit(r) ==
  /\ req[r].op = "createShipment"
  /\ ShipmentClaim
  /\ \E s \in Ships, carrier \in {"INTERNAL", "EXTERNAL"} :
       /\ ship[s].status = "NONE"
       /\ \/ /\ carrier = "EXTERNAL"
             /\ status' = "PICKED_UP"
             /\ ful' = IF ful.status = "PACKED"
                       THEN [ful EXCEPT !.status = "HANDED_OVER"] ELSE ful
             /\ ship' = [ship EXCEPT ![s] = [status |-> "PICKED_UP",
                                             carrier |-> carrier]]
          \/ /\ carrier = "INTERNAL"
             /\ ship' = [ship EXCEPT ![s] = [status |-> "CREATED",
                                             carrier |-> carrier]]
             /\ UNCHANGED <<status, ful>>
  /\ DoneWritingOrder(r)
  /\ UNCHANGED <<type, total, payStatus, item, stock, locked, moneyVars, bank,
                 invoice>>

\* POST /shipments/:id/pick-up: both claims are re-checked in the transaction.
PickUp(s) ==
  /\ "pickUp" \in Ops
  /\ ship[s].status = "CREATED"
  /\ status = "PACKED"
  /\ status' = "PICKED_UP"
  /\ ship' = [ship EXCEPT ![s].status = "PICKED_UP"]
  /\ ful' = IF ful.status = "PACKED"
            THEN [ful EXCEPT !.status = "HANDED_OVER"] ELSE ful
  /\ OrderWritten
  /\ UNCHANGED <<type, total, payStatus, item, stock, locked, moneyVars, bank,
                 invoice>>

\* POST /orders/:id/ship
ShipRead(r, s) == /\ CanTransition(status, "SHIPPING")
                  /\ ful.status = "HANDED_OVER"
                  /\ ship[s].status = "PICKED_UP"
                  /\ Read(r, [op |-> "shipOrder", sh |-> s, qty |-> ful.qty])

ShipCommit(r) ==
  LET seen == req[r] IN
  /\ seen.op = "shipOrder"
  /\ status = "PICKED_UP"
  /\ status' = "SHIPPING"
  /\ ShipLockedStock(seen.qty)
  /\ item' = ItemsShipped(seen.qty)
  /\ ship' = IF ship[seen.sh].status = "PICKED_UP"
             THEN [ship EXCEPT ![seen.sh].status = "IN_TRANSIT"] ELSE ship
  /\ DoneWritingOrder(r)
  /\ UNCHANGED <<type, total, payStatus, ful, moneyVars, bank, invoice>>

\* POST /shipments/:id/events and /fail: claimOnTheRoad re-checks everything.
ClaimOnTheRoad(s, from, to) ==
  /\ status = "SHIPPING"
  /\ ship[s].status \in from
  /\ ship' = [ship EXCEPT ![s].status = to]
  /\ UNCHANGED <<orderVars, goodsVars, moneyVars, bank, invoice, req>>

AddEvent(s) == /\ "addEvent" \in Ops
               /\ ClaimOnTheRoad(s, OnTheRoadStatuses, "OUT_FOR_DELIVERY")
Fail(s) == /\ "fail" \in Ops
           /\ ClaimOnTheRoad(s, {"IN_TRANSIT", "OUT_FOR_DELIVERY"}, "FAILED")

-----------------------------------------------------------------------------
(* POST /shipments/:id/deliver, /pay-cash - ShipmentDeliveryService *)

DeliverRead(r, s) ==
  /\ ship[s].carrier = "INTERNAL"
  /\ status = "SHIPPING"
  /\ ship[s].status \in OnTheRoadStatuses
  /\ Read(r, [op |-> "deliver", sh |-> s, due |-> DeliveryAmountDue])

\* assertCollectionMatches: NONE exactly when nothing is due. CASH and
\* BANK_TRANSFER_QR leave the order RECEIVED until the money is in the shop.
Deliver(seen, payment) ==
  /\ status = "SHIPPING"
  /\ ship[seen.sh].status \in OnTheRoadStatuses
  /\ status' = "RECEIVED"
  /\ ship' = [ship EXCEPT ![seen.sh].status = "DELIVERED"]
  /\ \E p \in Pays : IsNewPayment(p) /\ pay' = [pay EXCEPT ![p] = payment]
  /\ UNCHANGED invoice

DeliverCommit(r) ==
  LET seen == req[r] IN
  /\ seen.op = "deliver"
  /\ \/ /\ seen.due = 0
        /\ status = "SHIPPING"
        /\ ship[seen.sh].status \in OnTheRoadStatuses
        /\ status' = "COMPLETED"
        /\ ship' = [ship EXCEPT ![seen.sh].status = "DELIVERED"]
        /\ invoice' = Issued
        /\ UNCHANGED <<payStatus, pay>>
     \/ /\ seen.due > 0
        /\ Deliver(seen, CashPayment(seen.due, "PENDING"))
        /\ payStatus' = "PAID"
     \/ /\ seen.due > 0
        /\ Deliver(seen, QrPayment(seen.due))
        /\ UNCHANGED payStatus
  /\ DoneWritingOrder(r)
  /\ UNCHANGED <<type, total, goodsVars, flow, refund, bank>>

\* The customer pays the shipper cash instead: a won transfer stops it.
PayCash(p) ==
  /\ "payCash" \in Ops
  /\ p \in PendingCounterQr
  /\ status = "RECEIVED"
  /\ payStatus' = "PAID"
  /\ \E n \in Pays :
       /\ IsNewPayment(n)
       /\ pay' = [pay EXCEPT ![p].status = "CANCELLED",
                             ![n] = CashPayment(pay[p].amount, "PENDING")]
  /\ OrderWritten
  /\ UNCHANGED <<status, type, total, goodsVars, ship, flow, refund, bank,
                 invoice>>

-----------------------------------------------------------------------------
(* The bank: the customer scans a code, SePay calls the webhook, maybe late, *)
(* maybe again. A code still works at the bank after the shop cancelled it.  *)

Transfer(p) == /\ pay[p].method = "SEPAY"
               /\ bank[p] = 0
               /\ \E a \in 1..(pay[p].amount + OverPay) :
                    bank' = [bank EXCEPT ![p] = a]
               /\ UNCHANGED <<orderVars, goodsVars, ship, moneyVars, invoice,
                              req>>

\* A transfer is booked once, for a code still pending, and never a short
\* one. Wrong variants: a cancelled code is booked too; only an order still
\* waiting for money is booked.
BookableWhenCancelled(p) == /\ bank[p] > 0 /\ bank[p] >= pay[p].amount
                            /\ pay[p].status \in {"PENDING", "CANCELLED"}
BookableWhenWaiting(p) == /\ bank[p] > 0 /\ bank[p] >= pay[p].amount
                          /\ pay[p].status = "PENDING"
                          /\ status \in {"PACKED", "RECEIVED"}
Bookable(p) == /\ bank[p] > 0 /\ bank[p] >= pay[p].amount
               /\ pay[p].status = "PENDING"

\* A transfer completes an order whose goods are delivered; the wrong variant
\* completes an order that still waits at the counter.
CompletesAtCounter == status \in {"RECEIVED", "PACKED"}
CompletesOrder == status = "RECEIVED"

\* settleSepayBalance. A cancelled code or a short transfer is only logged.
SettleSepayBalance(p) ==
  /\ Bookable(p)
  /\ pay' = [pay EXCEPT ![p].status = "PAID"]
  /\ flow' = [flow EXCEPT ![p] = bank[p]]
  /\ \/ /\ CompletesOrder
        /\ status' = "COMPLETED"
        /\ payStatus' = "PAID"
        /\ invoice' = Issued
        /\ OrderWritten
     \/ /\ ~CompletesOrder
        /\ status = "PACKED" /\ type = "STORE_PICKUP"
        /\ payStatus' = "PAID"
        /\ OrderWritten
        /\ UNCHANGED <<status, invoice>>
     \/ /\ ~CompletesOrder
        /\ ~(status = "PACKED" /\ type = "STORE_PICKUP")
        /\ UNCHANGED <<status, payStatus, invoice, req>>
  /\ UNCHANGED <<type, total, goodsVars, ship, refund, bank>>

-----------------------------------------------------------------------------
(* POST /orders/:id/confirm-remittance - OrderRemittanceService.confirm *)

AwaitingRemittance == {p \in PaidPays : pay[p].remit = "PENDING"}

RemittanceRead(r) == /\ status = "RECEIVED"
                     /\ AwaitingRemittance # {}
                     /\ Read(r, [op |-> "confirmRemittance",
                                 pays |-> AwaitingRemittance])

RemittanceCommit(r) ==
  LET seen == req[r] IN
  /\ seen.op = "confirmRemittance"
  /\ status = "RECEIVED"
  /\ \A p \in seen.pays : pay[p].remit = "PENDING"
  /\ status' = "COMPLETED"
  /\ invoice' = Issued
  /\ pay' = [p \in Pays |-> IF p \in seen.pays
                            THEN [pay[p] EXCEPT !.remit = "RECEIVED"]
                            ELSE pay[p]]
  /\ flow' = [p \in Pays |-> IF p \in seen.pays THEN pay[p].amount
                             ELSE flow[p]]
  /\ DoneWritingOrder(r)
  /\ UNCHANGED <<type, total, payStatus, goodsVars, ship, refund, bank>>

-----------------------------------------------------------------------------
(* POST /orders/:id/pickup/collect, /hand-over - OrderPickupService *)

PickupReady == type = "STORE_PICKUP" /\ status = "PACKED"

CollectRead(r) == /\ PickupReady
                  /\ PickupAmountDue > 0
                  /\ Read(r, [op |-> "collect", due |-> PickupAmountDue,
                              pending |-> PendingCounterQr])

CollectCash(r) ==
  LET seen == req[r] IN
  /\ seen.op = "collect"
  /\ CanCancelQr(seen.pending)
  /\ status = "PACKED"
  /\ payStatus' = "PAID"
  /\ \E p \in Pays :
       /\ IsNewPayment(p)
       /\ pay' = [WithQrCancelled(seen.pending) EXCEPT
                    ![p] = CashPayment(seen.due, "NOT_APPLICABLE")]
       /\ flow' = [flow EXCEPT ![p] = seen.due]
  /\ DoneWritingOrder(r)
  /\ UNCHANGED <<status, type, total, goodsVars, ship, refund, bank, invoice>>

\* A pending code of the same amount is reused and nothing is written;
\* otherwise the pending ones are cancelled and a new code is made. The
\* orders row is neither claimed nor written.
CollectQr(r) ==
  LET seen == req[r] IN
  /\ seen.op = "collect"
  /\ \A p \in seen.pending : pay[p].amount # seen.due
  /\ \E p \in Pays :
       /\ IsNewPayment(p)
       /\ pay' = [WithQrCancelled(seen.pending) EXCEPT
                    ![p] = QrPayment(seen.due)]
  /\ Done(r)
  /\ UNCHANGED <<orderVars, goodsVars, ship, flow, refund, bank, invoice>>

HandOverRead(r) == /\ PickupReady
                   /\ ful.status = "PACKED"
                   /\ PickupAmountDue = 0
                   /\ Read(r, [op |-> "handOver", qty |-> ful.qty])

HandOverCommit(r) ==
  LET seen == req[r] IN
  /\ seen.op = "handOver"
  /\ status = "PACKED"
  /\ ful.status = "PACKED"
  /\ status' = "COMPLETED"
  /\ payStatus' = "PAID"
  /\ ShipLockedStock(seen.qty)
  /\ item' = ItemsShipped(seen.qty)
  /\ ful' = [ful EXCEPT !.status = "HANDED_OVER"]
  /\ invoice' = Issued
  /\ DoneWritingOrder(r)
  /\ UNCHANGED <<type, total, ship, moneyVars, bank>>

-----------------------------------------------------------------------------
(* POST /orders/:id/cancel - OrderCancelService.cancel *)

CancelRead(r) ==
  /\ CanTransition(status, "CANCELLED")
  /\ Read(r, [op |-> "cancel", status |-> status, held |-> Held,
              pending |-> PendingCounterQr,
              qty |-> IF ful.status \in LockingFulfillmentStatuses
                      THEN ful.qty ELSE NoLines])

\* The order is claimed in the status that was read; the wrong variant takes
\* any order.
CancelUnclaimed(seen) == TRUE
CancelClaim(seen) == status = seen.status

CancelCommit(r) ==
  LET seen == req[r] IN
  /\ seen.op = "cancel"
  /\ CancelClaim(seen)
  /\ CanCancelQr(seen.pending)
  /\ status' = "CANCELLED"
  /\ pay' = WithQrCancelled(seen.pending)
  /\ invoice' = Voided
  /\ ReleaseLockedStock(seen.qty)
  /\ ful' = IF seen.qty = NoLines THEN ful ELSE [ful EXCEPT !.status = "CANCELLED"]
  /\ ship' = [s \in Ships |-> IF s \in OpenShipments
                              THEN [ship[s] EXCEPT !.status = "CANCELLED"]
                              ELSE ship[s]]
  /\ item' = [l \in Lines |-> IF item[l].status = "PENDING"
                              THEN [item[l] EXCEPT !.status = "CANCELLED"]
                              ELSE item[l]]
  /\ \E amount \in 0..seen.held :
       /\ refund' = refund + amount
       /\ payStatus' = IF amount = 0 THEN payStatus
                       ELSE IF amount = seen.held THEN "REFUNDED"
                       ELSE "PARTIALLY_REFUNDED"
  /\ DoneWritingOrder(r)
  /\ UNCHANGED <<type, total, flow, bank>>

-----------------------------------------------------------------------------
\* ManualOrderService.create: CONFIRMED, the deposit taken, nothing held.
Init ==
  /\ status = "CONFIRMED"
  /\ type \in Types
  /\ total \in {t \in Totals : t >= Deposit}
  /\ payStatus = PaymentStatusForDeposit(total)
  /\ \E present \in SUBSET Lines :
       /\ present # {}
       /\ item = [l \in Lines |->
                    IF l \in present THEN [status |-> "PENDING", qty |-> 1]
                    ELSE [status |-> "ABSENT", qty |-> 0]]
  /\ ful = [status |-> "NONE", qty |-> NoLines]
  /\ ship = [s \in Ships |-> [status |-> "NONE", carrier |-> "NONE"]]
  /\ pay = [p \in Pays |-> NoPayment]
  /\ flow = [p \in Pays |-> 0]
  /\ refund = 0
  /\ bank = [p \in Pays |-> 0]
  /\ invoice = "PENDING"
  /\ stock = Stock
  /\ locked = NoLines
  /\ req = [r \in Requests |-> Idle]

Next ==
  \/ \E r \in Requests :
       \/ UpdateRead(r) \/ UpdateCommit(r)
       \/ PackRead(r) \/ PackCommit(r)
       \/ ShipmentRead(r) \/ ShipmentCommit(r)
       \/ \E s \in Ships : ShipRead(r, s)
       \/ ShipCommit(r)
       \/ \E s \in Ships : DeliverRead(r, s)
       \/ DeliverCommit(r)
       \/ RemittanceRead(r) \/ RemittanceCommit(r)
       \/ CollectRead(r) \/ CollectCash(r) \/ CollectQr(r)
       \/ HandOverRead(r) \/ HandOverCommit(r)
       \/ CancelRead(r) \/ CancelCommit(r)
       \/ Abandon(r)
  \/ \E s \in Ships : PickUp(s) \/ AddEvent(s) \/ Fail(s)
  \/ \E p \in Pays : PayCash(p) \/ Transfer(p) \/ SettleSepayBalance(p)
  \/ ClaimUnshipped

Spec == Init /\ [][Next]_vars

\* SePay repeats a webhook until it is answered 200, so a transfer that can
\* be booked is not ignored for ever. Nobody has to press a button.
FairSpec == Spec /\ \A p \in Pays : WF_vars(SettleSepayBalance(p))

-----------------------------------------------------------------------------
(* Properties *)

LineStatuses == {"ABSENT", "PENDING", "SHIPPED", "CANCELLED", "DELETED"}
Quantity == [Lines -> Nat]

UpdateReads == [op : {"update"}, fresh : BOOLEAN, collected : BOOLEAN,
                pending : SUBSET Pays, open : BOOLEAN]

RequestTypeOK(x) ==
  /\ x.op \in Ops \cup {"idle"}
  /\ x.op = "update" => x \in UpdateReads
  /\ x.op \in {"packOrder", "shipOrder", "handOver", "cancel"}
       => x.qty \in Quantity
  /\ x.op \in {"shipOrder", "deliver"} => x.sh \in Ships
  /\ x.op = "cancel" => x.status \in UnshippedStatuses

\* The rows of goods, and what a request has read of them. This half is what
\* the inductive proof of OrderJourney_proofs needs.
GoodsTypeOK ==
  /\ status \in Lifecycle!JourneyStatuses
  /\ item \in [Lines -> [status : LineStatuses, qty : Nat]]
  /\ ful \in [status : {"NONE", "PACKED", "HANDED_OVER", "CANCELLED"},
             qty : Quantity]
  /\ ship \in [Ships -> [status : ShipmentStatuses,
                          carrier : {"NONE", "INTERNAL", "EXTERNAL"}]]
  /\ invoice \in {"PENDING", "ISSUED", "CANCELLED"}
  /\ stock \in Quantity
  /\ locked \in Quantity
  /\ DOMAIN req = Requests
  /\ \A r \in Requests : RequestTypeOK(req[r])

MoneyTypeOK ==
  /\ type \in Types
  /\ total \in Totals
  /\ payStatus \in {"UNPAID", "PARTIALLY_PAID", "PAID", "REFUNDED",
                    "PARTIALLY_REFUNDED"}
  /\ pay \in [Pays -> [status : {"NONE", "PENDING", "PAID", "CANCELLED"},
                        method : {"NONE", "CASH", "SEPAY"},
                        amount : Nat,
                        remit : {"NOT_APPLICABLE", "PENDING", "RECEIVED"}]]
  /\ flow \in [Pays -> Nat]
  /\ refund \in Nat
  /\ bank \in [Pays -> Nat]

\* Every row keeps to its columns' values.
TypeOK == GoodsTypeOK /\ MoneyTypeOK

\* The units locked at the packing location are exactly those the order's
\* fulfillment holds while it waits to leave, and they leave stock exactly
\* once, whichever of ship, hand-over and cancel wins
\* (lockStock, shipLockedStock, releaseLockedStock).
GoodsMatchStatus ==
  \A l \in Lines :
    /\ locked[l] <= stock[l]
    /\ locked[l] = IF status \in {"PACKED", "PICKED_UP"}
                   THEN ful.qty[l] ELSE 0
    /\ stock[l] = Stock[l] - (IF status \in {"SHIPPING", "RECEIVED",
                                              "COMPLETED"}
                              THEN ful.qty[l] ELSE 0)

\* An order has at most one open shipment and it is where the order says:
\* none or waiting at PACKED, taken at PICKED_UP, on the road at SHIPPING,
\* closed afterwards (shipments_one_open_per_order and the two claims of
\* pick-up, ship and deliver).
ShipmentFollowsOrder ==
  /\ Cardinality(OpenShipments) <= 1
  /\ \A s \in OpenShipments :
       \/ status = "PACKED" /\ ship[s].status = "CREATED"
       \/ status = "PICKED_UP" /\ ship[s].status = "PICKED_UP"
       \/ status = "SHIPPING" /\ ship[s].status \in OnTheRoadStatuses
  /\ status \in {"PICKED_UP", "SHIPPING"} => OpenShipments # {}

\* A payment has a cash-flow row exactly when its money is in the shop: not
\* while a code is pending, not while the shipper still holds the cash
\* (order-cash-flow.ts), and never for less than the payment.
BooksMatchMoney ==
  \A p \in Pays :
    /\ flow[p] > 0 <=> pay[p].status = "PAID" /\ pay[p].remit # "PENDING"
    /\ flow[p] > 0 => flow[p] >= pay[p].amount

\* The customer of a delivered order gives its total once, counted in what
\* really left the customer's hands: the deposit, the cash and every transfer,
\* booked or not. More comes in only where a transfer exceeds its code, or goes
\* to a code that pay-cash has cancelled, which is then paid twice and only
\* logged (shipment-delivery.service.ts:491). The order completes holding all
\* of its total, although cash, the code and pay-cash race; and cancelling
\* refunds no more than was received, also when two cancels race.
CustomerPaysOnce ==
  /\ Received <= total + GoneAstray
  /\ status = "COMPLETED" => Held = total /\ payStatus = "PAID"
  /\ refund <= Deposit + Collected

\* What is settled stays settled: a paid or cancelled payment and its
\* cash-flow row are never rewritten by a request that read them earlier.
SettledMoneyIsFinal ==
  [][\A p \in Pays :
       /\ pay[p].status \in {"PAID", "CANCELLED"}
            => pay'[p].status = pay[p].status /\ pay'[p].amount = pay[p].amount
       /\ flow[p] > 0 => flow'[p] = flow[p]]_vars

\* A cancelled order leaves nothing open: no line waiting, no shipment, no
\* fulfillment that could still be shipped.
CancelLeavesNothingOpen ==
  status = "CANCELLED" =>
    /\ OpenShipments = {}
    /\ ful.status \in {"NONE", "CANCELLED"}
    /\ \A l \in Lines : item[l].status # "PENDING"

\* The journey implements its abstract specification.
LifecycleSpec == Lifecycle!Spec

\* A transfer that covers a pending code is booked in the end, whatever
\* happened to the order, unless somebody cancelled the code first.
TransferIsBooked ==
  \A p \in Pays :
    (pay[p].status = "PENDING" /\ bank[p] > 0 /\ bank[p] >= pay[p].amount)
      ~> (flow[p] > 0 \/ pay[p].status = "CANCELLED")

\* A pickup order whose total is not edited while it waits leaves the counter
\* only when everything due was received, although cash and code race.
CounterSaleIsPaid == status = "COMPLETED" => Held >= total

\* No end of a pickup order leaves something open: neither goods at a cancel
\* nor money at the counter.
PickupEndsClean == CancelLeavesNothingOpen /\ CounterSaleIsPaid

-----------------------------------------------------------------------------
(* What the repository's documents say and the code does not keep *)

\* api-contract-order-flow.md:213: once PACKED the goods are locked exactly
\* according to the lines.
PackedAsOrdered ==
  status \in {"PACKED", "PICKED_UP"} => ful.qty = Quantities

\* order-pickup.service.ts:273: with money still due the hand-over is refused.
HandOverOnlyWhenPaid ==
  [][status = "PACKED" /\ status' = "COMPLETED" => total <= Held]_vars

\* order-pickup.rules.ts:83-85: an order collected at the counter does not
\* leave the pickup flow, because the shipper would collect it again. So what
\* a delivered order has paid never exceeds its total.
DeliveryNotCollectedTwice ==
  type = "HOME_DELIVERY" /\ status = "RECEIVED" => Held <= total

\* api-contract-order-flow.md:615: cancelling also cancels the pending code.
CancelEndsTheCode == status = "CANCELLED" => PendingCounterQr = {}
=============================================================================
