------------------------ MODULE OrderJourney_proofs ------------------------
(***************************************************************************)
(* Proofs about OrderJourney for every set of lines, shipments, requests   *)
(* and endpoints: the goods stay accounted for, the journey implements     *)
(* OrderLifecycle, the books hold the money that is in the shop, shipments *)
(* follow the order, and nobody pays twice.                                *)
(***************************************************************************)
EXTENDS OrderJourney, SumTheorems

\* The order never visits the two statuses no endpoint of the journey sets.
Visited == {"CONFIRMED", "PACKED", "PICKED_UP", "SHIPPING", "RECEIVED",
            "COMPLETED", "CANCELLED"}

\* The fulfillment exists from PACKED on, is handed over with the order, and
\* never is empty.
FulfillmentFollowsOrder ==
  /\ status \in Visited
  /\ status = "CONFIRMED" => ful.status = "NONE"
  /\ status = "PACKED" => ful.status = "PACKED"
  /\ status \in {"PICKED_UP", "SHIPPING", "RECEIVED", "COMPLETED"}
       => ful.status = "HANDED_OVER"
  /\ status = "CANCELLED" => ful.status \in {"NONE", "CANCELLED"}
  /\ ful.status # "NONE" => ful.qty # NoLines

\* The sale invoice is issued at COMPLETED and withdrawn at CANCELLED only.
InvoiceFollowsOrder ==
  invoice = (IF status = "COMPLETED" THEN "ISSUED"
             ELSE IF status = "CANCELLED" THEN "CANCELLED" ELSE "PENDING")

\* What a request read of the fulfillment is still true while the status its
\* transaction claims is, because the order never comes back to a status.
ReadStillTrue(x) ==
  /\ x.op = "packOrder" => x.qty # NoLines
  /\ x.op = "handOver" =>
       /\ status # "CONFIRMED"
       /\ status = "PACKED" => x.qty = ful.qty
  /\ x.op = "shipOrder" =>
       /\ status \notin {"CONFIRMED", "PACKED"}
       /\ status = "PICKED_UP" => x.qty = ful.qty
  /\ x.op = "cancel" =>
       /\ x.status = "PACKED" => status # "CONFIRMED"
       /\ x.status = "PICKED_UP" => status \notin {"CONFIRMED", "PACKED"}
       /\ status = x.status =>
            x.qty = IF status = "CONFIRMED" THEN NoLines ELSE ful.qty

ReadsStillTrue == \A r \in Requests : ReadStillTrue(req[r])

IndInv == /\ GoodsTypeOK
          /\ FulfillmentFollowsOrder
          /\ InvoiceFollowsOrder
          /\ GoodsMatchStatus
          /\ ReadsStillTrue

-----------------------------------------------------------------------------
(* Requests *)

\* A request that ends, or that a write of the order outdates, keeps its type;
\* every read that matters here is kept as it is.
LEMMA RequestsKept ==
  ASSUME DOMAIN req = Requests,
         \A q \in Requests : RequestTypeOK(req[q]),
         NEW r,
         Done(r) \/ DoneWritingOrder(r) \/ OrderWritten \/ UNCHANGED req
  PROVE  /\ DOMAIN req' = Requests
         /\ \A q \in Requests :
              /\ RequestTypeOK(req'[q])
              /\ req'[q] = req[q] \/ req'[q].op \in {"idle", "update"}
<1>1. /\ Idle.op = "idle"
      /\ RequestTypeOK(Idle)
  BY DEF Idle, RequestTypeOK
<1>2. ASSUME NEW q \in Requests
      PROVE  /\ RequestTypeOK(Outdate(req[q]))
             /\ Outdate(req[q]) = req[q] \/ Outdate(req[q]).op = "update"
  BY DEF Outdate, RequestTypeOK, UpdateReads
<1>3. DOMAIN req' = Requests
  BY DEF Done, DoneWritingOrder, OrderWritten
<1>4. ASSUME NEW q \in Requests
      PROVE  req'[q] \in {req[q], Idle, Outdate(req[q])}
  BY <1>4 DEF Done, DoneWritingOrder, OrderWritten
<1>5. QED
  BY <1>1, <1>2, <1>3, <1>4

\* A request that starts has read what is true now.
LEMMA ReadStep ==
  ASSUME IndInv, NEW r \in Requests, NEW x, Read(r, x),
         RequestTypeOK(x), ReadStillTrue(x)
  PROVE  IndInv'
<1>1. /\ UNCHANGED <<status, item, ful, ship, invoice, stock, locked>>
      /\ req' = [req EXCEPT ![r] = x]
  BY DEF Read, orderVars, goodsVars
<1>2. GoodsTypeOK'
  BY <1>1 DEF IndInv, GoodsTypeOK
<1>3. /\ FulfillmentFollowsOrder'
      /\ InvoiceFollowsOrder'
      /\ GoodsMatchStatus'
  BY <1>1 DEF IndInv, FulfillmentFollowsOrder, InvoiceFollowsOrder,
              GoodsMatchStatus
<1>4. ReadsStillTrue'
  <2>1. ASSUME NEW q \in Requests PROVE ReadStillTrue(req'[q])
    BY <1>1 DEF IndInv, GoodsTypeOK, ReadsStillTrue
  <2>2. QED
    BY <1>1, <2>1 DEF ReadsStillTrue, ReadStillTrue
<1>5. QED
  BY <1>2, <1>3, <1>4 DEF IndInv

\* A step that leaves the status, the fulfillment and the inventory alone.
LEMMA QuietStep ==
  ASSUME IndInv, NEW r,
         Done(r) \/ DoneWritingOrder(r) \/ OrderWritten \/ UNCHANGED req,
         UNCHANGED <<status, ful, invoice, stock, locked>>,
         item' \in [Lines -> [status : LineStatuses, qty : Nat]],
         ship' \in [Ships -> [status : ShipmentStatuses,
                              carrier : {"NONE", "INTERNAL", "EXTERNAL"}]]
  PROVE  IndInv'
<1>1. /\ DOMAIN req' = Requests
      /\ \A q \in Requests :
           /\ RequestTypeOK(req'[q])
           /\ req'[q] = req[q] \/ req'[q].op \in {"idle", "update"}
  BY RequestsKept DEF IndInv, GoodsTypeOK
<1>2. GoodsTypeOK'
  BY <1>1 DEF IndInv, GoodsTypeOK
<1>3. /\ FulfillmentFollowsOrder'
      /\ InvoiceFollowsOrder'
      /\ GoodsMatchStatus'
  BY DEF IndInv, FulfillmentFollowsOrder, InvoiceFollowsOrder,
         GoodsMatchStatus
<1>4. ReadsStillTrue'
  BY <1>1 DEF IndInv, ReadsStillTrue, ReadStillTrue
<1>5. QED
  BY <1>2, <1>3, <1>4 DEF IndInv

-----------------------------------------------------------------------------
(* One lemma per transaction that moves the order *)

LEMMA PackStep ==
  ASSUME IndInv, NEW r \in Requests, PackCommit(r)
  PROVE  IndInv'
<1> DEFINE qty == req[r].qty
<1>1. /\ qty \in Quantity
      /\ qty # NoLines
      /\ status = "CONFIRMED"
      /\ status' = "PACKED"
      /\ ful' = [status |-> "PACKED", qty |-> qty]
      /\ \A l \in Lines : stock[l] - locked[l] >= qty[l]
      /\ locked' = [l \in Lines |-> locked[l] + qty[l]]
      /\ DoneWritingOrder(r)
      /\ UNCHANGED <<item, ship, stock, invoice>>
  BY DEF PackCommit, PackClaim, LockStock, CanLock, IndInv, GoodsTypeOK,
         RequestTypeOK, ReadsStillTrue, ReadStillTrue
<1>2. /\ DOMAIN req' = Requests
      /\ \A q \in Requests :
           /\ RequestTypeOK(req'[q])
           /\ req'[q] = req[q] \/ req'[q].op \in {"idle", "update"}
  BY <1>1, RequestsKept DEF IndInv, GoodsTypeOK
<1>3. GoodsTypeOK'
  <2>1. locked' \in Quantity
    BY <1>1 DEF IndInv, GoodsTypeOK, Quantity
  <2>2. status' \in Lifecycle!JourneyStatuses
    BY <1>1 DEF Lifecycle!JourneyStatuses, Lifecycle!JourneyTransitions
  <2>3. QED
    BY <1>1, <1>2, <2>1, <2>2 DEF IndInv, GoodsTypeOK
<1>4. FulfillmentFollowsOrder'
  BY <1>1 DEF FulfillmentFollowsOrder, Visited
<1>5. InvoiceFollowsOrder'
  BY <1>1 DEF IndInv, InvoiceFollowsOrder
<1>6. GoodsMatchStatus'
  BY <1>1, StockAssumption
     DEF IndInv, GoodsTypeOK, GoodsMatchStatus, Quantity
<1>7. ReadsStillTrue'
  BY <1>1, <1>2 DEF IndInv, GoodsTypeOK, RequestTypeOK, ReadsStillTrue,
                    ReadStillTrue, UnshippedStatuses
<1>8. QED
  BY <1>3, <1>4, <1>5, <1>6, <1>7 DEF IndInv

\* The order moves on while its goods stay where they are: taken by the
\* carrier at PACKED, or paid for after they left.
LEMMA MoveStep ==
  ASSUME IndInv, NEW r, DoneWritingOrder(r) \/ OrderWritten,
         UNCHANGED <<item, stock, locked>>,
         ship' \in [Ships -> [status : ShipmentStatuses,
                              carrier : {"NONE", "INTERNAL", "EXTERNAL"}]],
         \/ /\ status = "PACKED" /\ status' = "PICKED_UP"
            /\ ful' = [ful EXCEPT !.status = "HANDED_OVER"]
            /\ UNCHANGED invoice
         \/ /\ status = "SHIPPING" /\ status' = "RECEIVED"
            /\ UNCHANGED <<ful, invoice>>
         \/ /\ status \in {"SHIPPING", "RECEIVED"} /\ status' = "COMPLETED"
            /\ invoice' = "ISSUED"
            /\ UNCHANGED ful
  PROVE  IndInv'
<1>1. /\ DOMAIN req' = Requests
      /\ \A q \in Requests :
           /\ RequestTypeOK(req'[q])
           /\ req'[q] = req[q] \/ req'[q].op \in {"idle", "update"}
  BY RequestsKept DEF IndInv, GoodsTypeOK
<1>2. /\ ful' \in [status : {"NONE", "PACKED", "HANDED_OVER", "CANCELLED"},
                   qty : Quantity]
      /\ ful'.qty = ful.qty
      /\ ful'.status = IF status = "PACKED" THEN "HANDED_OVER" ELSE ful.status
  BY DEF IndInv, GoodsTypeOK
<1>3. GoodsTypeOK'
  <2>1. status' \in Lifecycle!JourneyStatuses
    BY DEF Lifecycle!JourneyStatuses, Lifecycle!JourneyTransitions
  <2>2. QED
    BY <1>1, <1>2, <2>1 DEF IndInv, GoodsTypeOK
<1>4. FulfillmentFollowsOrder'
  BY <1>2 DEF IndInv, FulfillmentFollowsOrder, Visited
<1>5. InvoiceFollowsOrder'
  BY DEF IndInv, InvoiceFollowsOrder
<1>6. GoodsMatchStatus'
  BY <1>2 DEF IndInv, GoodsMatchStatus
<1>7. ReadsStillTrue'
  BY <1>1, <1>2 DEF IndInv, GoodsTypeOK, RequestTypeOK, ReadsStillTrue,
                    ReadStillTrue, UnshippedStatuses
<1>8. QED
  BY <1>3, <1>4, <1>5, <1>6, <1>7 DEF IndInv

\* The goods leave: a delivery sets out, or the counter hands them over. The
\* quantities that leave are those of the fulfillment, so each line's lock is
\* used up exactly.
LEMMA LeaveStep ==
  ASSUME IndInv, NEW r, DoneWritingOrder(r), ShipLockedStock(ful.qty),
         item' \in [Lines -> [status : LineStatuses, qty : Nat]],
         ship' \in [Ships -> [status : ShipmentStatuses,
                              carrier : {"NONE", "INTERNAL", "EXTERNAL"}]],
         \/ /\ status = "PICKED_UP" /\ status' = "SHIPPING"
            /\ UNCHANGED <<ful, invoice>>
         \/ /\ status = "PACKED" /\ status' = "COMPLETED"
            /\ ful' = [ful EXCEPT !.status = "HANDED_OVER"]
            /\ invoice' = "ISSUED"
  PROVE  IndInv'
<1>1. /\ DOMAIN req' = Requests
      /\ \A q \in Requests :
           /\ RequestTypeOK(req'[q])
           /\ req'[q] = req[q] \/ req'[q].op \in {"idle", "update"}
  BY RequestsKept DEF IndInv, GoodsTypeOK
<1>2. /\ ful' \in [status : {"NONE", "PACKED", "HANDED_OVER", "CANCELLED"},
                   qty : Quantity]
      /\ ful'.qty = ful.qty
      /\ ful'.status = "HANDED_OVER"
      /\ ful.status # "NONE"
      /\ ful.qty \in Quantity
  BY DEF IndInv, GoodsTypeOK, FulfillmentFollowsOrder
<1>3. \A l \in Lines : /\ locked[l] = ful.qty[l]
                       /\ locked[l] <= stock[l]
                       /\ stock[l] = Stock[l]
                       /\ locked[l] \in Nat /\ stock[l] \in Nat
                       /\ ful.qty[l] \in Nat
  BY <1>2, StockAssumption DEF IndInv, GoodsTypeOK, GoodsMatchStatus, Quantity
<1>4. /\ locked' = [l \in Lines |-> locked[l] - ful.qty[l]]
      /\ stock' = [l \in Lines |-> stock[l] - ful.qty[l]]
  BY DEF ShipLockedStock
<1>5. GoodsTypeOK'
  <2>1. status' \in Lifecycle!JourneyStatuses
    BY DEF Lifecycle!JourneyStatuses, Lifecycle!JourneyTransitions
  <2>2. locked' \in Quantity /\ stock' \in Quantity
    BY <1>3, <1>4 DEF Quantity
  <2>3. QED
    BY <1>1, <1>2, <2>1, <2>2 DEF IndInv, GoodsTypeOK
<1>6. FulfillmentFollowsOrder'
  BY <1>2 DEF IndInv, FulfillmentFollowsOrder, Visited
<1>7. InvoiceFollowsOrder'
  BY DEF IndInv, InvoiceFollowsOrder
<1>8. GoodsMatchStatus'
  BY <1>2, <1>3, <1>4 DEF GoodsMatchStatus
<1>9. ReadsStillTrue'
  BY <1>1, <1>2 DEF IndInv, GoodsTypeOK, RequestTypeOK, ReadsStillTrue,
                    ReadStillTrue, UnshippedStatuses
<1>10. QED
  BY <1>5, <1>6, <1>7, <1>8, <1>9 DEF IndInv

\* Cancelling gives back exactly what the fulfillment had locked.
LEMMA CancelStep ==
  ASSUME IndInv, NEW r \in Requests, CancelCommit(r)
  PROVE  IndInv'
<1> DEFINE qty == req[r].qty
<1>1. /\ req[r].op = "cancel"
      /\ status \in UnshippedStatuses
      /\ qty = IF status = "CONFIRMED" THEN NoLines ELSE ful.qty
      /\ status' = "CANCELLED"
      /\ locked' = [l \in Lines |-> locked[l] - qty[l]]
      /\ ful' = IF qty = NoLines THEN ful
                ELSE [ful EXCEPT !.status = "CANCELLED"]
      /\ invoice' = Voided
      /\ DoneWritingOrder(r)
      /\ UNCHANGED stock
  BY DEF CancelCommit, CancelClaim, ReleaseLockedStock, IndInv, GoodsTypeOK,
         RequestTypeOK, ReadsStillTrue, ReadStillTrue
<1>2. /\ DOMAIN req' = Requests
      /\ \A q \in Requests :
           /\ RequestTypeOK(req'[q])
           /\ req'[q] = req[q] \/ req'[q].op \in {"idle", "update"}
  BY <1>1, RequestsKept DEF IndInv, GoodsTypeOK
<1>3. /\ ful' \in [status : {"NONE", "PACKED", "HANDED_OVER", "CANCELLED"},
                   qty : Quantity]
      /\ ful'.qty = ful.qty
      /\ ful'.status = IF status = "CONFIRMED" THEN "NONE" ELSE "CANCELLED"
  BY <1>1 DEF IndInv, GoodsTypeOK, FulfillmentFollowsOrder, UnshippedStatuses
<1>4. \A l \in Lines : /\ locked[l] = qty[l]
                       /\ locked[l] <= stock[l]
                       /\ stock[l] = Stock[l]
                       /\ locked[l] \in Nat /\ stock[l] \in Nat
  <2>1. \A l \in Lines : locked[l] = IF status = "CONFIRMED" THEN 0
                                     ELSE ful.qty[l]
    BY <1>1 DEF IndInv, GoodsMatchStatus, UnshippedStatuses
  <2>2. \A l \in Lines : qty[l] = IF status = "CONFIRMED" THEN 0
                                  ELSE ful.qty[l]
    BY <1>1 DEF NoLines
  <2>3. \A l \in Lines : /\ locked[l] <= stock[l]
                         /\ stock[l] = Stock[l] - 0
                         /\ locked[l] \in Nat /\ stock[l] \in Nat
                         /\ Stock[l] \in Nat
    BY <1>1, StockAssumption DEF IndInv, GoodsTypeOK, GoodsMatchStatus,
       Quantity, UnshippedStatuses
  <2>4. QED
    BY <2>1, <2>2, <2>3
<1>5. GoodsTypeOK'
  <2>1. status' \in Lifecycle!JourneyStatuses
    BY <1>1 DEF Lifecycle!JourneyStatuses, Lifecycle!JourneyTransitions
  <2>2. locked' \in Quantity
    BY <1>1, <1>4 DEF Quantity
  <2>3. item' \in [Lines -> [status : LineStatuses, qty : Nat]]
    BY DEF CancelCommit, IndInv, GoodsTypeOK, LineStatuses
  <2>4. ship' \in [Ships -> [status : ShipmentStatuses,
                             carrier : {"NONE", "INTERNAL", "EXTERNAL"}]]
    BY DEF CancelCommit, IndInv, GoodsTypeOK, ShipmentStatuses,
           FinalShipmentStatuses
  <2>5. invoice' \in {"PENDING", "ISSUED", "CANCELLED"}
    BY <1>1 DEF Voided, IndInv, GoodsTypeOK
  <2>6. QED
    BY <1>1, <1>2, <1>3, <2>1, <2>2, <2>3, <2>4, <2>5 DEF IndInv, GoodsTypeOK
<1>6. FulfillmentFollowsOrder'
  BY <1>1, <1>3 DEF IndInv, FulfillmentFollowsOrder, Visited,
                    UnshippedStatuses
<1>7. InvoiceFollowsOrder'
  BY <1>1 DEF IndInv, InvoiceFollowsOrder, Voided, UnshippedStatuses
<1>8. GoodsMatchStatus'
  BY <1>1, <1>4 DEF GoodsMatchStatus
<1>9. ReadsStillTrue'
  BY <1>1, <1>2 DEF IndInv, GoodsTypeOK, RequestTypeOK, ReadsStillTrue,
                    ReadStillTrue, UnshippedStatuses
<1>10. QED
  BY <1>5, <1>6, <1>7, <1>8, <1>9 DEF IndInv

-----------------------------------------------------------------------------
(* The invariant *)

LEMMA InitIndInv == Init => IndInv
<1> SUFFICES ASSUME Init PROVE IndInv
  OBVIOUS
<1>1. GoodsTypeOK
  <2>1. item \in [Lines -> [status : LineStatuses, qty : Nat]]
    BY DEF Init, LineStatuses
  <2>2. ful \in [status : {"NONE", "PACKED", "HANDED_OVER", "CANCELLED"},
                qty : Quantity]
    BY DEF Init, NoLines, Quantity
  <2>3. ship \in [Ships -> [status : ShipmentStatuses,
                            carrier : {"NONE", "INTERNAL", "EXTERNAL"}]]
    BY DEF Init, ShipmentStatuses
  <2>4. stock \in Quantity /\ locked \in Quantity
    BY StockAssumption DEF Init, NoLines, Quantity
  <2>5. DOMAIN req = Requests /\ \A r \in Requests : RequestTypeOK(req[r])
    BY DEF Init, Idle, RequestTypeOK
  <2>6. /\ status \in Lifecycle!JourneyStatuses
        /\ invoice \in {"PENDING", "ISSUED", "CANCELLED"}
    BY DEF Init, Lifecycle!JourneyStatuses, Lifecycle!JourneyTransitions
  <2>7. QED
    BY <2>1, <2>2, <2>3, <2>4, <2>5, <2>6 DEF GoodsTypeOK
<1>2. FulfillmentFollowsOrder /\ InvoiceFollowsOrder
  BY DEF Init, FulfillmentFollowsOrder, InvoiceFollowsOrder, Visited
<1>3. GoodsMatchStatus
  BY StockAssumption DEF Init, GoodsMatchStatus, NoLines
<1>4. ReadsStillTrue
  BY DEF Init, ReadsStillTrue, ReadStillTrue, Idle
<1>5. QED
  BY <1>1, <1>2, <1>3, <1>4 DEF IndInv

\* Only rows of the order, the lines or the shipments, or none of the goods.
LEMMA NextIndInv == IndInv /\ [Next]_vars => IndInv'
<1> SUFFICES ASSUME IndInv, [Next]_vars PROVE IndInv'
  OBVIOUS
<1> USE DEF orderVars, goodsVars, moneyVars
<1>0. /\ item \in [Lines -> [status : LineStatuses, qty : Nat]]
      /\ ship \in [Ships -> [status : ShipmentStatuses,
                             carrier : {"NONE", "INTERNAL", "EXTERNAL"}]]
      /\ ful.qty \in Quantity
      /\ \A r \in Requests : RequestTypeOK(req[r]) /\ ReadStillTrue(req[r])
  BY DEF IndInv, GoodsTypeOK, ReadsStillTrue
<1>1. CASE UNCHANGED vars
  BY <1>0, <1>1, QuietStep DEF vars
<1>2. ASSUME NEW r \in Requests, UpdateRead(r) PROVE IndInv'
  <2> DEFINE x == [op |-> "update", fresh |-> TRUE,
                   collected |-> PaidPays # {},
                   pending |-> PendingCounterQr,
                   open |-> OpenShipments # {}]
  <2>1. Read(r, x)
    BY <1>2 DEF UpdateRead
  <2>2. x.op = "update" /\ x.op \in Ops
    BY <2>1 DEF Read
  <2>3. x \in UpdateReads
    <3>1. /\ PendingCounterQr \in SUBSET Pays
          /\ (PaidPays # {}) \in BOOLEAN /\ (OpenShipments # {}) \in BOOLEAN
      BY DEF PendingCounterQr
    <3>2. QED
      BY <3>1 DEF UpdateReads
  <2> HIDE DEF x
  <2>4. RequestTypeOK(x) /\ ReadStillTrue(x)
    BY <2>2, <2>3 DEF RequestTypeOK, ReadStillTrue
  <2>5. QED
    BY <2>1, <2>4, ReadStep
<1>3. ASSUME NEW r \in Requests, UpdateCommit(r) PROVE IndInv'
  <2>1. item' \in [Lines -> [status : LineStatuses, qty : Nat]]
    <3>1. [Lines -> [status : {"ABSENT", "PENDING", "DELETED"}, qty : 0..MaxQty]]
            \subseteq [Lines -> [status : LineStatuses, qty : Nat]]
      BY StockAssumption DEF LineStatuses
    <3>2. QED
      BY <1>0, <1>3, <3>1 DEF UpdateCommit
  <2>2. QED
    BY <1>0, <1>3, <2>1, QuietStep DEF UpdateCommit
<1>4. ASSUME NEW r \in Requests, PackRead(r) PROVE IndInv'
  <2>1. Quantities \in Quantity
    BY <1>0 DEF Quantities, Quantity
  <2>2. QED
    BY <1>4, <2>1, ReadStep DEF PackRead, RequestTypeOK, ReadStillTrue, Read
<1>5. ASSUME NEW r \in Requests, PackCommit(r) PROVE IndInv'
  BY <1>5, PackStep
<1>6. ASSUME NEW r \in Requests, ShipmentRead(r) PROVE IndInv'
  BY <1>6, ReadStep DEF ShipmentRead, RequestTypeOK, ReadStillTrue, Read
<1>7. ASSUME NEW r \in Requests, ShipmentCommit(r) PROVE IndInv'
  <2>1. ful.status = "PACKED"
    BY <1>7 DEF ShipmentCommit, ShipmentClaim, IndInv, FulfillmentFollowsOrder
  <2>2. /\ status = "PACKED"
        /\ ship' \in [Ships -> [status : ShipmentStatuses,
                               carrier : {"NONE", "INTERNAL", "EXTERNAL"}]]
        /\ DoneWritingOrder(r)
        /\ UNCHANGED <<item, stock, locked, invoice>>
        /\ \/ status' = "PICKED_UP" /\ ful' = [ful EXCEPT !.status = "HANDED_OVER"]
           \/ UNCHANGED <<status, ful>>
    BY <1>0, <1>7, <2>1 DEF ShipmentCommit, ShipmentClaim, ShipmentStatuses
  <2>3. QED
    BY <1>0, <2>2, MoveStep, QuietStep
<1>8. ASSUME NEW r \in Requests, NEW s \in Ships, ShipRead(r, s) PROVE IndInv'
  <2>1. status = "PICKED_UP"
    BY <1>8 DEF ShipRead, CanTransition, Lifecycle!CanTransition,
       Lifecycle!JourneyTransitions, IndInv, FulfillmentFollowsOrder, Visited
  <2>2. QED
    BY <1>0, <1>8, <2>1, ReadStep DEF ShipRead, RequestTypeOK, ReadStillTrue,
       Read
<1>9. ASSUME NEW r \in Requests, ShipCommit(r) PROVE IndInv'
  <2>1. req[r].qty = ful.qty /\ req[r].sh \in Ships
    BY <1>0, <1>9 DEF ShipCommit, ReadStillTrue, RequestTypeOK
  <2>2. item' \in [Lines -> [status : LineStatuses, qty : Nat]]
    BY <1>0, <1>9 DEF ShipCommit, ItemsShipped, LineStatuses
  <2>3. ship' \in [Ships -> [status : ShipmentStatuses,
                            carrier : {"NONE", "INTERNAL", "EXTERNAL"}]]
    BY <1>0, <1>9, <2>1 DEF ShipCommit, ShipmentStatuses, OnTheRoadStatuses
  <2>4. QED
    BY <1>9, <2>1, <2>2, <2>3, LeaveStep DEF ShipCommit
<1>10. ASSUME NEW r \in Requests, NEW s \in Ships, DeliverRead(r, s)
       PROVE IndInv'
  BY <1>10, ReadStep DEF DeliverRead, RequestTypeOK, ReadStillTrue, Read
<1>11. ASSUME NEW r \in Requests, DeliverCommit(r) PROVE IndInv'
  <2>1. req[r].sh \in Ships
    BY <1>0, <1>11 DEF DeliverCommit, RequestTypeOK
  <2>2. ship' = [ship EXCEPT ![req[r].sh].status = "DELIVERED"]
    BY <1>11 DEF DeliverCommit, Deliver
  <2>3. ship' \in [Ships -> [status : ShipmentStatuses,
                            carrier : {"NONE", "INTERNAL", "EXTERNAL"}]]
    BY <1>0, <2>1, <2>2 DEF ShipmentStatuses, FinalShipmentStatuses
  <2>4. QED
    BY <1>11, <2>3, MoveStep DEF DeliverCommit, Deliver, Issued
<1>12. ASSUME NEW r \in Requests, RemittanceRead(r) \/ CollectRead(r)
       PROVE IndInv'
  BY <1>12, ReadStep DEF RemittanceRead, CollectRead, RequestTypeOK,
     ReadStillTrue, Read
<1>13. ASSUME NEW r \in Requests, RemittanceCommit(r) PROVE IndInv'
  BY <1>0, <1>13, MoveStep DEF RemittanceCommit, Issued
<1>14. ASSUME NEW r \in Requests, CollectCash(r) \/ CollectQr(r) \/ Abandon(r)
       PROVE IndInv'
  BY <1>0, <1>14, QuietStep DEF CollectCash, CollectQr, Abandon
<1>15. ASSUME NEW r \in Requests, HandOverRead(r) PROVE IndInv'
  BY <1>0, <1>15, ReadStep DEF HandOverRead, PickupReady, RequestTypeOK,
     ReadStillTrue, Read
<1>16. ASSUME NEW r \in Requests, HandOverCommit(r) PROVE IndInv'
  <2>1. req[r].qty = ful.qty
    BY <1>0, <1>16 DEF HandOverCommit, ReadStillTrue
  <2>2. item' \in [Lines -> [status : LineStatuses, qty : Nat]]
    BY <1>0, <1>16 DEF HandOverCommit, ItemsShipped, LineStatuses
  <2>3. QED
    BY <1>0, <1>16, <2>1, <2>2, LeaveStep DEF HandOverCommit, Issued
<1>17. ASSUME NEW r \in Requests, CancelRead(r) PROVE IndInv'
  <2>1. /\ status \in UnshippedStatuses
        /\ ful.status \in LockingFulfillmentStatuses <=> status # "CONFIRMED"
    BY <1>17 DEF CancelRead, CanTransition, Lifecycle!CanTransition,
       Lifecycle!JourneyTransitions, IndInv, FulfillmentFollowsOrder, Visited,
       UnshippedStatuses, LockingFulfillmentStatuses
  <2>2. NoLines \in Quantity
    BY DEF NoLines, Quantity
  <2>3. QED
    BY <1>0, <1>17, <2>1, <2>2, ReadStep DEF CancelRead, RequestTypeOK,
       ReadStillTrue, Read, UnshippedStatuses
<1>18. ASSUME NEW r \in Requests, CancelCommit(r) PROVE IndInv'
  BY <1>18, CancelStep
<1>19. ASSUME NEW s \in Ships, PickUp(s) PROVE IndInv'
  <2>1. ful.status = "PACKED"
    BY <1>19 DEF PickUp, IndInv, FulfillmentFollowsOrder
  <2>2. ship' \in [Ships -> [status : ShipmentStatuses,
                            carrier : {"NONE", "INTERNAL", "EXTERNAL"}]]
    BY <1>0, <1>19 DEF PickUp, ShipmentStatuses
  <2>3. QED
    BY <1>19, <2>1, <2>2, MoveStep DEF PickUp
<1>20. ASSUME NEW s \in Ships, AddEvent(s) \/ Fail(s) PROVE IndInv'
  <2>1. ship' \in [Ships -> [status : ShipmentStatuses,
                            carrier : {"NONE", "INTERNAL", "EXTERNAL"}]]
    BY <1>0, <1>20 DEF AddEvent, Fail, ClaimOnTheRoad, ShipmentStatuses,
       OnTheRoadStatuses
  <2>2. QED
    BY <1>0, <1>20, <2>1, QuietStep DEF AddEvent, Fail, ClaimOnTheRoad
<1>21. ASSUME NEW p \in Pays, PayCash(p) \/ Transfer(p) PROVE IndInv'
  BY <1>0, <1>21, QuietStep DEF PayCash, Transfer
<1>22. ASSUME NEW p \in Pays, SettleSepayBalance(p) PROVE IndInv'
  BY <1>0, <1>22, MoveStep, QuietStep
     DEF SettleSepayBalance, CompletesOrder, Issued
<1>23. CASE ClaimUnshipped
  BY <1>0, <1>23, QuietStep DEF ClaimUnshipped
<1>24. QED
  BY <1>1, <1>2, <1>3, <1>4, <1>5, <1>6, <1>7, <1>8, <1>9, <1>10, <1>11,
     <1>12, <1>13, <1>14, <1>15, <1>16, <1>17, <1>18, <1>19, <1>20, <1>21,
     <1>22, <1>23 DEF Next

\* Whatever the requests interleave, the locks and the stock are those the
\* status of the order accounts for.
THEOREM GoodsAccountedFor == Spec => []GoodsMatchStatus
<1>1. IndInv => GoodsMatchStatus
  BY DEF IndInv
<1>2. QED
  BY InitIndInv, NextIndInv, <1>1, PTL DEF Spec

\* The rows of goods, and every open request, keep their types.
THEOREM GoodsTypeCorrect == Spec => []GoodsTypeOK
<1>1. IndInv => GoodsTypeOK
  BY DEF IndInv
<1>2. QED
  BY InitIndInv, NextIndInv, <1>1, PTL DEF Spec

-----------------------------------------------------------------------------
(* The journey implements its abstract specification *)

\* Where the inventory rows say the goods are is what the status says.
LEMMA GoodsPlaceFollowsStatus ==
  ASSUME IndInv
  PROVE  GoodsPlace = IF status \in {"SHIPPING", "RECEIVED", "COMPLETED"}
                      THEN "LEFT"
                      ELSE IF status \in {"PACKED", "PICKED_UP"} THEN "LOCKED"
                      ELSE "SHELF"
<1>1. /\ ful.qty \in [Lines -> Nat] /\ stock \in [Lines -> Nat]
      /\ locked \in [Lines -> Nat]
  BY DEF IndInv, GoodsTypeOK, Quantity
<1>2. status # "CONFIRMED" /\ status # "CANCELLED"
        => \E l \in Lines : ful.qty[l] > 0
  <2>1. SUFFICES ASSUME ful.qty # NoLines
                 PROVE  \E l \in Lines : ful.qty[l] > 0
    BY DEF IndInv, FulfillmentFollowsOrder, Visited
  <2>2. PICK l \in Lines : ful.qty[l] # 0
    BY <1>1, <2>1 DEF NoLines
  <2>3. QED
    BY <1>1, <2>2
<1>3. CASE status \in {"SHIPPING", "RECEIVED", "COMPLETED"}
  <2>1. PICK l \in Lines : ful.qty[l] > 0
    BY <1>2, <1>3
  <2>2. stock[l] = Stock[l] - ful.qty[l]
    BY <1>3 DEF IndInv, GoodsMatchStatus
  <2>3. stock # Stock
    BY <1>1, <2>1, <2>2, StockAssumption
  <2>4. QED
    BY <1>3, <2>3 DEF GoodsPlace
<1>4. CASE status \notin {"SHIPPING", "RECEIVED", "COMPLETED"}
  <2>1. \A l \in Lines : stock[l] = Stock[l]
    <3>1. \A l \in Lines : stock[l] = Stock[l] - 0
      BY <1>4 DEF IndInv, GoodsMatchStatus
    <3>2. QED
      BY <3>1, StockAssumption
  <2>2. stock = Stock
    BY <1>1, <2>1, StockAssumption
  <2>3. \A l \in Lines : locked[l] = IF status \in {"PACKED", "PICKED_UP"}
                                     THEN ful.qty[l] ELSE 0
    BY DEF IndInv, GoodsMatchStatus
  <2>4. (\E l \in Lines : locked[l] > 0) <=> status \in {"PACKED", "PICKED_UP"}
    BY <1>2, <2>3
  <2>5. QED
    BY <1>4, <2>2, <2>4 DEF GoodsPlace
<1>5. QED
  BY <1>3, <1>4

\* The moves the code makes, out of those its journey table allows.
LEMMA StatusMoves ==
  ASSUME IndInv, [Next]_vars
  PROVE  \/ status' = status
         \/ status = "CONFIRMED" /\ status' = "PACKED"
         \/ status = "PACKED" /\ status' \in {"PICKED_UP", "COMPLETED"}
         \/ status = "PICKED_UP" /\ status' = "SHIPPING"
         \/ status = "SHIPPING" /\ status' \in {"RECEIVED", "COMPLETED"}
         \/ status = "RECEIVED" /\ status' = "COMPLETED"
         \/ status \in UnshippedStatuses /\ status' = "CANCELLED"
<1> USE DEF orderVars
<1>1. CASE UNCHANGED vars
  BY <1>1 DEF vars
<1>2. ASSUME NEW r \in Requests, NEW x, Read(r, x) PROVE status' = status
  BY <1>2 DEF Read
<1>3. ASSUME NEW r \in Requests,
             \/ UpdateRead(r) \/ PackRead(r) \/ ShipmentRead(r)
             \/ RemittanceRead(r) \/ CollectRead(r) \/ HandOverRead(r)
             \/ CancelRead(r)
             \/ \E s \in Ships : ShipRead(r, s) \/ DeliverRead(r, s)
      PROVE  status' = status
  BY <1>2, <1>3 DEF UpdateRead, PackRead, ShipmentRead, RemittanceRead,
     CollectRead, HandOverRead, CancelRead, ShipRead, DeliverRead
<1>4. ASSUME NEW r \in Requests,
             UpdateCommit(r) \/ CollectCash(r) \/ CollectQr(r) \/ Abandon(r)
      PROVE  status' = status
  BY <1>4 DEF UpdateCommit, CollectCash, CollectQr, Abandon
<1>5. ASSUME NEW r \in Requests, CancelCommit(r)
      PROVE  status \in UnshippedStatuses /\ status' = "CANCELLED"
  BY <1>5 DEF CancelCommit, CancelClaim, IndInv, GoodsTypeOK, RequestTypeOK
<1>6. ASSUME NEW r \in Requests,
             \/ PackCommit(r) \/ ShipmentCommit(r) \/ ShipCommit(r)
             \/ DeliverCommit(r) \/ RemittanceCommit(r) \/ HandOverCommit(r)
      PROVE  \/ status' = status
             \/ status = "CONFIRMED" /\ status' = "PACKED"
             \/ status = "PACKED" /\ status' \in {"PICKED_UP", "COMPLETED"}
             \/ status = "PICKED_UP" /\ status' = "SHIPPING"
             \/ status = "SHIPPING" /\ status' \in {"RECEIVED", "COMPLETED"}
             \/ status = "RECEIVED" /\ status' = "COMPLETED"
  BY <1>6 DEF PackCommit, PackClaim, ShipmentCommit, ShipmentClaim, ShipCommit,
     DeliverCommit, Deliver, RemittanceCommit, HandOverCommit
<1>7. ASSUME NEW s \in Ships, PickUp(s) \/ AddEvent(s) \/ Fail(s)
      PROVE  \/ status' = status
             \/ status = "PACKED" /\ status' = "PICKED_UP"
  BY <1>7 DEF PickUp, AddEvent, Fail, ClaimOnTheRoad
<1>8. ASSUME NEW p \in Pays,
             PayCash(p) \/ Transfer(p) \/ SettleSepayBalance(p)
      PROVE  \/ status' = status
             \/ status = "RECEIVED" /\ status' = "COMPLETED"
  BY <1>8 DEF PayCash, Transfer, SettleSepayBalance, CompletesOrder
<1>9. CASE ClaimUnshipped
  BY <1>9 DEF ClaimUnshipped
<1>10. QED
  BY <1>1, <1>3, <1>4, <1>5, <1>6, <1>7, <1>8, <1>9 DEF Next

\* The place of the goods and the invoice, as the abstract order has them.
AbstractFollowsStatus ==
    /\ GoodsPlace = IF status \in {"SHIPPING", "RECEIVED", "COMPLETED"}
                    THEN "LEFT"
                    ELSE IF status \in {"PACKED", "PICKED_UP"} THEN "LOCKED"
                    ELSE "SHELF"
    /\ invoice = IF status = "COMPLETED" THEN "ISSUED"
                 ELSE IF status = "CANCELLED" THEN "CANCELLED"
                 ELSE "PENDING"

\* Every interleaving of reads and transactions is, seen through the status,
\* the inventory rows and the invoice, a run of OrderLifecycle.
THEOREM JourneyImplementsLifecycle == Spec => LifecycleSpec
<1>1. IndInv => AbstractFollowsStatus
  BY GoodsPlaceFollowsStatus
     DEF AbstractFollowsStatus, IndInv, InvoiceFollowsOrder
<1>2. Init => Lifecycle!Init
  <2>1. Init => status = "CONFIRMED" /\ invoice = "PENDING"
    BY DEF Init
  <2>2. QED
    BY <1>1, <2>1, InitIndInv DEF AbstractFollowsStatus, Lifecycle!Init
<1>3. IndInv /\ AbstractFollowsStatus /\ AbstractFollowsStatus' /\ [Next]_vars
        => [Lifecycle!Next]_(Lifecycle!vars)
  <2> SUFFICES ASSUME IndInv, AbstractFollowsStatus, AbstractFollowsStatus',
                      [Next]_vars
               PROVE  Lifecycle!Next \/ UNCHANGED Lifecycle!vars
    OBVIOUS
  <2>1. /\ GoodsPlace = IF status \in {"SHIPPING", "RECEIVED", "COMPLETED"}
                        THEN "LEFT"
                        ELSE IF status \in {"PACKED", "PICKED_UP"}
                        THEN "LOCKED" ELSE "SHELF"
        /\ invoice = IF status = "COMPLETED" THEN "ISSUED"
                     ELSE IF status = "CANCELLED" THEN "CANCELLED"
                     ELSE "PENDING"
    BY DEF AbstractFollowsStatus
  <2>2. /\ GoodsPlace' = IF status' \in {"SHIPPING", "RECEIVED", "COMPLETED"}
                         THEN "LEFT"
                         ELSE IF status' \in {"PACKED", "PICKED_UP"}
                         THEN "LOCKED" ELSE "SHELF"
        /\ invoice' = IF status' = "COMPLETED" THEN "ISSUED"
                      ELSE IF status' = "CANCELLED" THEN "CANCELLED"
                      ELSE "PENDING"
    BY DEF AbstractFollowsStatus
  <2> USE DEF Lifecycle!Next, Lifecycle!Move, Lifecycle!CanTransition,
              Lifecycle!JourneyTransitions
  <2>4. CASE status' = status
    <3>1. GoodsPlace' = GoodsPlace /\ invoice' = invoice
      BY <2>1, <2>2, <2>4
    <3>2. UNCHANGED Lifecycle!vars
      BY <2>4, <3>1 DEF Lifecycle!vars
    <3>3. QED
      BY <3>2
  <2>5. CASE status = "CONFIRMED" /\ status' = "PACKED"
    BY <2>1, <2>2, <2>5 DEF Lifecycle!Pack
  <2>6. CASE status = "PACKED" /\ status' = "PICKED_UP"
    BY <2>1, <2>2, <2>6 DEF Lifecycle!HandToCarrier
  <2>7. CASE status = "PICKED_UP" /\ status' = "SHIPPING"
    BY <2>1, <2>2, <2>7 DEF Lifecycle!SetOut
  <2>8. CASE status = "SHIPPING" /\ status' = "RECEIVED"
    BY <2>1, <2>2, <2>8 DEF Lifecycle!ArriveUnpaid
  <2>9. CASE status \in {"PACKED", "SHIPPING", "RECEIVED"}
             /\ status' = "COMPLETED"
    BY <2>1, <2>2, <2>9 DEF Lifecycle!Complete
  <2>10. CASE status \in UnshippedStatuses /\ status' = "CANCELLED"
    BY <2>1, <2>2, <2>10 DEF Lifecycle!Cancel, UnshippedStatuses
  <2>11. QED
    BY StatusMoves, <2>4, <2>5, <2>6, <2>7, <2>8, <2>9, <2>10
<1>4. QED
  BY InitIndInv, NextIndInv, <1>1, <1>2, <1>3, PTL
     DEF Spec, LifecycleSpec, Lifecycle!Spec

-----------------------------------------------------------------------------
(* The books *)

PayRow == [status : {"NONE", "PENDING", "PAID", "CANCELLED"},
           method : {"NONE", "CASH", "SEPAY"},
           amount : Nat,
           remit : {"NOT_APPLICABLE", "PENDING", "RECEIVED"}]

MoneyTyped == /\ pay \in [Pays -> PayRow]
              /\ flow \in [Pays -> Nat]
              /\ bank \in [Pays -> Nat]
              /\ total \in Nat
              /\ refund \in Nat

\* One payment: what it is worth, and whether the shop has it.
Booked(row, amount, sent) ==
  /\ row.status = "NONE" => row.method = "NONE" /\ sent = 0
  /\ row.status # "NONE" => row.amount > 0
  /\ row.remit = "PENDING" => row.status = "PAID"
  /\ amount > 0 <=> row.status = "PAID" /\ row.remit # "PENDING"
  /\ amount > 0 => amount >= row.amount

\* The sums a request has read and goes on using.
MoneyRead(x) ==
  /\ x.op = "collect" => x.due \in Nat /\ x.due > 0
  /\ x.op = "deliver" => x.due \in Nat
  /\ x.op = "cancel" => x.held \in Int

MoneyInv == /\ MoneyTyped
            /\ \A p \in Pays : Booked(pay[p], flow[p], bank[p])
            /\ \A r \in Requests : MoneyRead(req[r])

\* What the order has been paid is a number.
LEMMA HeldIsNumber ==
  ASSUME MoneyTyped
  PROVE  Collected \in Nat /\ Held \in Int /\ IsFiniteSet(Pays) /\ IsFiniteSet(PaidPays)
<1>1. IsFiniteSet(Pays)  BY MoneyAssumption, FS_Interval DEF Pays
<1>2. PaidPays \in SUBSET Pays /\ IsFiniteSet(PaidPays)  BY <1>1, FS_Subset DEF PaidPays
<1>3. PICK f : f = [p \in Pays |-> pay[p].amount]  OBVIOUS
<1>4. \A p \in PaidPays : f[p] \in Nat  BY <1>2, <1>3 DEF MoneyTyped, PayRow
<1>5. Collected \in Nat  BY <1>2, <1>3, <1>4, SumNat DEF Collected
<1> QED  BY <1>1, <1>2, <1>5, MoneyAssumption DEF Held, MoneyTyped

LEMMA ShortfallIsNumber ==
  ASSUME NEW due \in Int, NEW got \in Int
  PROVE  Shortfall(due, got) \in Nat /\ got + Shortfall(due, got) >= due
BY DEF Shortfall

\* The rows in which codes are given up.
LEMMA QrCancelled ==
  ASSUME MoneyTyped, NEW pending, NEW p \in Pays
  PROVE  /\ DOMAIN WithQrCancelled(pending) = Pays
         /\ WithQrCancelled(pending)[p] \in PayRow
         /\ \/ WithQrCancelled(pending)[p] = pay[p]
            \/ /\ pay[p].status = "PENDING" /\ p \in pending
               /\ WithQrCancelled(pending)[p] = [pay[p] EXCEPT !.status = "CANCELLED"]
         /\ p \in pending => WithQrCancelled(pending)[p].status # "PENDING"
<1>1. PICK row : row = pay[p]  OBVIOUS
<1>2. row \in PayRow  BY <1>1 DEF MoneyTyped
<1>3. [row EXCEPT !.status = "CANCELLED"] \in PayRow
      /\ [row EXCEPT !.status = "CANCELLED"].status = "CANCELLED"
  BY <1>2 DEF PayRow
<1>4. WithQrCancelled(pending)[p] = IF p \in pending /\ row.status = "PENDING"
                                    THEN [row EXCEPT !.status = "CANCELLED"] ELSE row
  BY <1>1 DEF WithQrCancelled
<1> QED  BY <1>1, <1>2, <1>3, <1>4 DEF WithQrCancelled

\* A payment written in another status keeps its sum.
LEMMA PayMarked ==
  ASSUME NEW row \in PayRow, NEW v \in {"PAID", "CANCELLED"}, NEW new,
         new = [row EXCEPT !.status = v]
  PROVE  /\ new \in PayRow /\ new.status = v /\ new.amount = row.amount
         /\ new.method = row.method /\ new.remit = row.remit
BY DEF PayRow

\* What a step does to the requests: one may have read what is true now.
Asked == \E r \in Requests : \E x : Read(r, x) /\ MoneyRead(x)
Answered == \E r : Done(r) \/ DoneWritingOrder(r) \/ OrderWritten \/ UNCHANGED req

LEMMA AnswersKept ==
  ASSUME IndInv, Answered
  PROVE  \A q \in Requests : req'[q] = req[q] \/ req'[q].op \in {"idle", "update"}
BY RequestsKept DEF Answered, IndInv, GoodsTypeOK

LEMMA MoneyQuiet ==
  ASSUME IndInv, MoneyInv, UNCHANGED <<pay, flow, bank>>, total' \in Nat, refund' \in Nat,
         Asked \/ Answered
  PROVE  MoneyInv'
<1>1. MoneyTyped' /\ \A p \in Pays : Booked(pay[p], flow[p], bank[p])'
  BY DEF MoneyInv, MoneyTyped
<1>2. \A q \in Requests : MoneyRead(req[q])'
  <2>1. CASE Answered  BY <2>1, AnswersKept DEF MoneyInv, MoneyRead
  <2>2. CASE Asked  BY <2>2 DEF Asked, Read, IndInv, GoodsTypeOK, MoneyInv, MoneyRead
  <2> QED  BY <2>1, <2>2
<1> QED  BY <1>1, <1>2 DEF MoneyInv

\* Each payment is written soundly.
LEMMA MoneyStep ==
  ASSUME IndInv, MoneyInv, Answered, total' \in Nat, refund' \in Nat,
         DOMAIN pay' = Pays, pay' = [p \in Pays |-> pay'[p]],
         DOMAIN flow' = Pays, flow' = [p \in Pays |-> flow'[p]], bank' = bank,
         \A p \in Pays : /\ pay'[p] \in PayRow /\ flow'[p] \in Nat
                         /\ Booked(pay'[p], flow'[p], bank[p])
  PROVE  MoneyInv'
<1>1. MoneyTyped'  BY DEF MoneyInv, MoneyTyped
<1>2. \A q \in Requests : MoneyRead(req[q])'  BY AnswersKept DEF MoneyInv, MoneyRead
<1> QED  BY <1>1, <1>2 DEF MoneyInv

\* A code that is given up was not booked, so nothing of it is in the books.
LEMMA GivenUpBooked ==
  ASSUME MoneyInv, NEW pending, NEW p \in Pays
  PROVE  Booked(WithQrCancelled(pending)[p], flow[p], bank[p])
<1>1. PICK row, new : row = pay[p] /\ new = WithQrCancelled(pending)[p]  OBVIOUS
<1>2. row \in PayRow /\ Booked(row, flow[p], bank[p]) /\ MoneyTyped
  BY <1>1 DEF MoneyInv, MoneyTyped
<1>3. CASE new = row  BY <1>1, <1>2, <1>3
<1>4. CASE row.status = "PENDING" /\ new = [row EXCEPT !.status = "CANCELLED"]
  BY <1>1, <1>2, <1>4, PayMarked DEF Booked, MoneyTyped
<1> QED  BY <1>1, <1>2, <1>3, <1>4, QrCancelled

\* A new payment is written, beside codes that are given up.
LEMMA MoneyNew ==
  ASSUME IndInv, MoneyInv, Answered, NEW pending, NEW p \in Pays, pay[p].status = "NONE",
         NEW row \in PayRow, pay' = [WithQrCancelled(pending) EXCEPT ![p] = row],
         \/ flow' = flow /\ Booked(row, 0, 0)
         \/ \E a \in Nat : flow' = [flow EXCEPT ![p] = a] /\ Booked(row, a, 0),
         UNCHANGED <<total, refund, bank>>
  PROVE  MoneyInv'
<1>1. MoneyTyped /\ flow[p] = 0 /\ bank[p] = 0
  BY DEF MoneyInv, Booked, MoneyTyped
<1>2. \A q \in Pays : DOMAIN WithQrCancelled(pending) = Pays
         /\ WithQrCancelled(pending)[q] \in PayRow
         /\ Booked(WithQrCancelled(pending)[q], flow[q], bank[q])
  BY <1>1, QrCancelled, GivenUpBooked
<1>3. DOMAIN pay' = Pays /\ pay' = [q \in Pays |-> pay'[q]]
      /\ DOMAIN flow' = Pays /\ flow' = [q \in Pays |-> flow'[q]]
  BY <1>1, <1>2 DEF MoneyTyped
<1>4. \A q \in Pays : /\ pay'[q] \in PayRow /\ flow'[q] \in Nat
                      /\ Booked(pay'[q], flow'[q], bank[q])
  BY <1>1, <1>2 DEF MoneyTyped
<1> QED  BY <1>1, <1>3, <1>4, MoneyStep DEF MoneyTyped

LEMMA NewRows ==
  ASSUME NEW due \in Nat, due > 0, NEW remit \in {"NOT_APPLICABLE", "PENDING"}
  PROVE  /\ CashPayment(due, remit) \in PayRow /\ QrPayment(due) \in PayRow
         /\ remit = "PENDING" => Booked(CashPayment(due, remit), 0, 0)
         /\ remit = "NOT_APPLICABLE" => Booked(CashPayment(due, remit), due, 0)
         /\ Booked(QrPayment(due), 0, 0)
BY DEF CashPayment, QrPayment, PayRow, Booked

LEMMA UpdateMoney ==
  ASSUME IndInv, MoneyInv, NEW r \in Requests, UpdateCommit(r)
  PROVE  MoneyInv'
<1>1. /\ UNCHANGED <<flow, bank, refund>> /\ DoneWritingOrder(r)
      /\ total' \in Totals \cup {total}
      /\ pay' = pay \/ pay' = WithQrCancelled(req[r].pending)
  BY DEF UpdateCommit
<1>2. MoneyTyped /\ total' \in Nat /\ refund' \in Nat
  BY <1>1, MoneyAssumption DEF MoneyInv, MoneyTyped
<1>3. CASE pay' = pay  BY <1>1, <1>2, <1>3, MoneyQuiet DEF Answered
<1>4. CASE pay' = WithQrCancelled(req[r].pending)
  <2>1. \A q \in Pays : /\ DOMAIN pay' = Pays /\ pay'[q] \in PayRow
                        /\ Booked(pay'[q], flow[q], bank[q])
    BY <1>2, <1>4, QrCancelled, GivenUpBooked
  <2>2. DOMAIN pay' = Pays /\ pay' = [q \in Pays |-> pay'[q]]  BY <1>4 DEF WithQrCancelled
  <2>3. DOMAIN flow' = Pays /\ flow' = [q \in Pays |-> flow'[q]]
        /\ \A q \in Pays : flow'[q] \in Nat /\ flow'[q] = flow[q]
    BY <1>1, <1>2 DEF MoneyTyped
  <2> QED  BY <1>1, <1>2, <2>1, <2>2, <2>3, MoneyStep DEF Answered
<1> QED  BY <1>1, <1>3, <1>4

LEMMA DeliverMoney ==
  ASSUME IndInv, MoneyInv, NEW r \in Requests, DeliverCommit(r)
  PROVE  MoneyInv'
<1>1. PICK x : x = req[r]  OBVIOUS
<1>2. /\ x.op = "deliver" /\ UNCHANGED <<total, flow, refund, bank>> /\ Answered
      /\ \/ pay' = pay
         \/ /\ x.due > 0
            /\ \E p \in Pays, row \in {CashPayment(x.due, "PENDING"), QrPayment(x.due)} :
                 pay[p].status = "NONE" /\ pay' = [pay EXCEPT ![p] = row]
  BY <1>1 DEF DeliverCommit, Deliver, IsNewPayment, Answered
<1>3. x.due \in Nat /\ MoneyTyped /\ total' \in Nat /\ refund' \in Nat
  BY <1>1, <1>2 DEF MoneyInv, MoneyRead, MoneyTyped
<1>4. CASE pay' = pay  BY <1>2, <1>3, <1>4, MoneyQuiet
<1>5. ASSUME x.due > 0, NEW p \in Pays,
             NEW row \in {CashPayment(x.due, "PENDING"), QrPayment(x.due)},
             pay[p].status = "NONE", pay' = [pay EXCEPT ![p] = row]
      PROVE  MoneyInv'
  <2>1. row \in PayRow /\ Booked(row, 0, 0)  BY <1>3, <1>5, NewRows
  <2>2. \A q \in Pays : WithQrCancelled({})[q] = pay[q]  BY DEF WithQrCancelled
  <2>3. WithQrCancelled({}) = pay  BY <1>3, <2>2 DEF WithQrCancelled, MoneyTyped
  <2> QED  BY <1>2, <1>5, <2>1, <2>3, MoneyNew
<1> QED  BY <1>2, <1>4, <1>5

LEMMA PayCashMoney ==
  ASSUME IndInv, MoneyInv, NEW p \in Pays, PayCash(p)
  PROVE  MoneyInv'
<1>1. PICK n \in Pays :
        /\ pay[n].status = "NONE"
        /\ pay' = [pay EXCEPT ![p].status = "CANCELLED", ![n] = CashPayment(pay[p].amount, "PENDING")]
  BY DEF PayCash, IsNewPayment
<1>2. pay[p].status = "PENDING" /\ UNCHANGED <<total, flow, refund, bank>> /\ OrderWritten
  BY DEF PayCash, PendingCounterQr
<1>3. pay[p].amount \in Nat /\ pay[p].amount > 0 /\ MoneyTyped /\ n # p
  BY <1>1, <1>2 DEF MoneyInv, MoneyTyped, PayRow, Booked
<1>4. PICK row : row = CashPayment(pay[p].amount, "PENDING")  OBVIOUS
<1>5. row \in PayRow /\ Booked(row, 0, 0)  BY <1>3, <1>4, NewRows
<1>6. pay' = [WithQrCancelled({p}) EXCEPT ![n] = row]
  <2>1. WithQrCancelled({p}) = [pay EXCEPT ![p].status = "CANCELLED"]
    BY <1>2, <1>3 DEF WithQrCancelled, MoneyTyped
  <2> QED  BY <1>1, <1>4, <2>1
<1> QED  BY ZenonT(60), <1>1, <1>2, <1>5, <1>6, MoneyNew DEF Answered

LEMMA CollectMoney ==
  ASSUME IndInv, MoneyInv, NEW r \in Requests, CollectCash(r) \/ CollectQr(r)
  PROVE  MoneyInv'
<1>1. PICK x : x = req[r]  OBVIOUS
<1>2. x.op = "collect" /\ UNCHANGED <<total, refund, bank>> /\ Answered
  BY <1>1 DEF CollectCash, CollectQr, Answered, orderVars
<1>3. x.due \in Nat /\ x.due > 0  BY <1>1, <1>2 DEF MoneyInv, MoneyRead
<1>4. CASE CollectCash(r)
  <2>1. PICK p \in Pays : /\ pay[p].status = "NONE" /\ flow' = [flow EXCEPT ![p] = x.due]
                          /\ pay' = [WithQrCancelled(x.pending) EXCEPT
                                        ![p] = CashPayment(x.due, "NOT_APPLICABLE")]
    BY <1>1, <1>4 DEF CollectCash, IsNewPayment
  <2>2. CashPayment(x.due, "NOT_APPLICABLE") \in PayRow
        /\ Booked(CashPayment(x.due, "NOT_APPLICABLE"), x.due, 0)
    BY <1>3, NewRows
  <2> QED  BY <1>2, <1>3, <2>1, <2>2, MoneyNew
<1>5. CASE CollectQr(r)
  <2>1. PICK p \in Pays : /\ pay[p].status = "NONE" /\ flow' = flow
                          /\ pay' = [WithQrCancelled(x.pending) EXCEPT ![p] = QrPayment(x.due)]
    BY <1>1, <1>5 DEF CollectQr, IsNewPayment
  <2>2. QrPayment(x.due) \in PayRow /\ Booked(QrPayment(x.due), 0, 0)
    BY <1>3, NewRows
  <2> QED  BY <1>2, <2>1, <2>2, MoneyNew
<1> QED  BY <1>4, <1>5

LEMMA TransferMoney ==
  ASSUME IndInv, MoneyInv, NEW p \in Pays, Transfer(p)
  PROVE  MoneyInv'
<1>1. PICK a \in 1..(pay[p].amount + OverPay) : bank' = [bank EXCEPT ![p] = a]
  BY DEF Transfer
<1>2. UNCHANGED <<pay, flow, total, refund, req>> /\ pay[p].method = "SEPAY"
  BY DEF Transfer, moneyVars, orderVars
<1>3. a \in Nat /\ MoneyTyped
  BY <1>1, MoneyAssumption DEF MoneyInv, MoneyTyped, PayRow
<1>4. MoneyTyped'  BY <1>1, <1>2, <1>3 DEF MoneyTyped
<1>5. \A q \in Pays : Booked(pay[q], flow[q], bank[q])'
  <2> TAKE q \in Pays
  <2>1. Booked(pay[q], flow[q], bank[q])  BY DEF MoneyInv
  <2>2. CASE q = p  BY <1>2, <2>1, <2>2 DEF Booked
  <2>3. CASE q # p  BY <1>1, <1>2, <1>3, <2>1, <2>3 DEF MoneyTyped
  <2> QED  BY <2>2, <2>3
<1>6. \A q \in Requests : MoneyRead(req[q])'  BY <1>2 DEF MoneyInv, MoneyRead
<1> QED  BY <1>4, <1>5, <1>6 DEF MoneyInv

LEMMA SettleMoney ==
  ASSUME IndInv, MoneyInv, NEW p \in Pays, SettleSepayBalance(p)
  PROVE  MoneyInv'
<1>1. /\ pay[p].status = "PENDING" /\ bank[p] > 0 /\ bank[p] >= pay[p].amount
      /\ flow' = [flow EXCEPT ![p] = bank[p]]
      /\ pay' = [pay EXCEPT ![p].status = "PAID"]
      /\ UNCHANGED <<total, refund, bank>>
      /\ Answered
  BY DEF SettleSepayBalance, Bookable, Answered
<1>2. MoneyTyped  BY DEF MoneyInv
<1>3. PICK row : row = pay[p]  OBVIOUS
<1>4. PICK new : new = [row EXCEPT !.status = "PAID"]  OBVIOUS
<1>5. row \in PayRow /\ new \in PayRow /\ new.status = "PAID" /\ new.amount = row.amount
      /\ new.remit = row.remit
  BY <1>2, <1>3, <1>4, PayMarked DEF MoneyTyped
<1>6. pay' = [pay EXCEPT ![p] = new]  BY <1>1, <1>2, <1>3, <1>4 DEF MoneyTyped
<1>7. Booked(new, bank[p], bank[p])
  BY <1>1, <1>2, <1>3, <1>5 DEF MoneyInv, MoneyTyped, Booked
<1>8. \A q \in Pays : /\ pay'[q] \in PayRow /\ flow'[q] \in Nat
                      /\ Booked(pay'[q], flow'[q], bank[q])
  BY <1>1, <1>2, <1>5, <1>6, <1>7 DEF MoneyInv, MoneyTyped
<1>9. /\ DOMAIN pay' = Pays /\ pay' = [q \in Pays |-> pay'[q]]
      /\ DOMAIN flow' = Pays /\ flow' = [q \in Pays |-> flow'[q]]
  BY <1>1, <1>2, <1>6 DEF MoneyTyped
<1> QED  BY <1>1, <1>2, <1>8, <1>9, MoneyStep DEF MoneyTyped

LEMMA RemittanceMoney ==
  ASSUME IndInv, MoneyInv, NEW r \in Requests, RemittanceCommit(r)
  PROVE  MoneyInv'
<1>1. PICK x : x = req[r]  OBVIOUS
<1>2. /\ \A p \in x.pays : pay[p].remit = "PENDING"
      /\ pay' = [p \in Pays |-> IF p \in x.pays THEN [pay[p] EXCEPT !.remit = "RECEIVED"]
                                ELSE pay[p]]
      /\ flow' = [p \in Pays |-> IF p \in x.pays THEN pay[p].amount ELSE flow[p]]
      /\ UNCHANGED <<total, refund, bank>> /\ Answered
  BY <1>1 DEF RemittanceCommit, Answered
<1>3. MoneyTyped  BY DEF MoneyInv
<1>4. ASSUME NEW p \in Pays
      PROVE  /\ pay'[p] \in PayRow /\ flow'[p] \in Nat
             /\ Booked(pay'[p], flow'[p], bank[p])
  <2>1. PICK row : row = pay[p]  OBVIOUS
  <2>2. row \in PayRow /\ Booked(row, flow[p], bank[p])  BY <1>3, <2>1 DEF MoneyInv, MoneyTyped
  <2>3. CASE p \in x.pays
    <3>1. PICK new : new = [row EXCEPT !.remit = "RECEIVED"]  OBVIOUS
    <3>2. new \in PayRow /\ new.remit = "RECEIVED" /\ new.amount = row.amount
          /\ new.status = row.status
      BY <2>2, <3>1 DEF PayRow
    <3>3. row.remit = "PENDING" /\ row.status = "PAID" /\ row.amount > 0 /\ row.amount \in Nat
      BY <1>2, <2>1, <2>2, <2>3 DEF Booked, PayRow
    <3>4. pay'[p] = new /\ flow'[p] = row.amount  BY <1>2, <2>1, <2>3, <3>1
    <3> QED  BY <3>2, <3>3, <3>4 DEF Booked
  <2>4. CASE p \notin x.pays
    BY <1>2, <1>3, <2>1, <2>2, <2>4 DEF MoneyTyped
  <2> QED  BY <2>3, <2>4
<1> QED  BY <1>2, <1>3, <1>4, MoneyStep DEF MoneyTyped

LEMMA CancelMoney ==
  ASSUME IndInv, MoneyInv, NEW r \in Requests, CancelCommit(r)
  PROVE  MoneyInv'
<1>1. PICK x : x = req[r]  OBVIOUS
<1>2. PICK amount \in 0..x.held : refund' = refund + amount
  BY <1>1 DEF CancelCommit
<1>3. /\ x.op = "cancel" /\ pay' = WithQrCancelled(x.pending) /\ Answered
      /\ UNCHANGED <<total, flow, bank>>
  BY <1>1 DEF CancelCommit, Answered
<1>4. MoneyTyped /\ x.held \in Int  BY <1>1, <1>3 DEF MoneyInv, MoneyRead
<1>5. refund' \in Nat  BY <1>2, <1>4 DEF MoneyTyped
<1>6. \A q \in Pays : /\ DOMAIN pay' = Pays /\ pay'[q] \in PayRow
                      /\ Booked(pay'[q], flow[q], bank[q])
  BY <1>3, <1>4, QrCancelled, GivenUpBooked
<1>7. /\ DOMAIN pay' = Pays /\ pay' = [q \in Pays |-> pay'[q]]
      /\ DOMAIN flow' = Pays /\ flow' = [q \in Pays |-> flow'[q]]
      /\ \A q \in Pays : flow'[q] \in Nat /\ flow'[q] = flow[q]
  BY <1>3, <1>4 DEF WithQrCancelled, MoneyTyped
<1> QED  BY <1>3, <1>4, <1>5, <1>6, <1>7, MoneyStep DEF MoneyTyped

LEMMA InitMoney == Init => MoneyInv
<1> SUFFICES ASSUME Init PROVE MoneyInv  OBVIOUS
<1>1. /\ pay = [p \in Pays |-> NoPayment] /\ flow = [p \in Pays |-> 0]
      /\ bank = [p \in Pays |-> 0] /\ total \in Totals /\ refund = 0
      /\ req = [r \in Requests |-> Idle]
  BY DEF Init
<1>2. NoPayment \in PayRow /\ Booked(NoPayment, 0, 0)  BY DEF NoPayment, PayRow, Booked
<1>3. MoneyTyped  BY <1>1, <1>2, MoneyAssumption DEF MoneyTyped
<1>4. \A p \in Pays : Booked(pay[p], flow[p], bank[p])  BY <1>1, <1>2
<1>5. \A r \in Requests : MoneyRead(req[r])  BY <1>1 DEF MoneyRead, Idle
<1> QED  BY <1>3, <1>4, <1>5 DEF MoneyInv

LEMMA ReadsKeepMoney ==
  ASSUME IndInv, MoneyInv, NEW r \in Requests, NEW x, Read(r, x), MoneyRead(x)
  PROVE  MoneyInv'
BY MoneyQuiet DEF Read, Asked, orderVars, moneyVars, MoneyInv, MoneyTyped

\* Steps that leave the money alone.
LEMMA NoMoney ==
  ASSUME IndInv, MoneyInv, UNCHANGED <<total, moneyVars, bank>>, Answered
  PROVE  MoneyInv'
BY MoneyQuiet DEF moneyVars, MoneyInv, MoneyTyped

LEMMA NextMoney == IndInv /\ MoneyInv /\ [Next]_vars => MoneyInv'
<1> SUFFICES ASSUME IndInv, MoneyInv, [Next]_vars PROVE MoneyInv'  OBVIOUS
<1>0. MoneyTyped /\ Held \in Int  BY HeldIsNumber DEF MoneyInv
<1>1. CASE UNCHANGED vars
  BY <1>1, NoMoney DEF vars, orderVars, Answered
<1>2. ASSUME NEW r \in Requests,
             \/ UpdateRead(r) \/ PackRead(r) \/ ShipmentRead(r) \/ RemittanceRead(r)
             \/ HandOverRead(r) \/ \E s \in Ships : ShipRead(r, s)
      PROVE  MoneyInv'
  BY <1>2, ReadsKeepMoney
     DEF UpdateRead, PackRead, ShipmentRead, RemittanceRead, HandOverRead, ShipRead, MoneyRead
<1>3. ASSUME NEW r \in Requests, CollectRead(r) PROVE MoneyInv'
  <2>1. PICK due, pending : due = PickupAmountDue /\ pending = PendingCounterQr  OBVIOUS
  <2>2. due \in Nat /\ due > 0
    BY <1>0, <1>3, <2>1, ShortfallIsNumber DEF CollectRead, PickupAmountDue, MoneyTyped
  <2>3. Read(r, [op |-> "collect", due |-> due, pending |-> pending])
    BY <1>3, <2>1 DEF CollectRead
  <2> QED  BY <2>2, <2>3, ReadsKeepMoney DEF MoneyRead
<1>4. ASSUME NEW r \in Requests, NEW s \in Ships, DeliverRead(r, s) PROVE MoneyInv'
  <2>1. PICK due : due = DeliveryAmountDue  OBVIOUS
  <2>2. due \in Nat
    BY <1>0, <2>1, ShortfallIsNumber, MoneyAssumption DEF DeliveryAmountDue, MoneyTyped
  <2>3. Read(r, [op |-> "deliver", sh |-> s, due |-> due])  BY <1>4, <2>1 DEF DeliverRead
  <2> QED  BY <2>2, <2>3, ReadsKeepMoney DEF MoneyRead
<1>5. ASSUME NEW r \in Requests, CancelRead(r) PROVE MoneyInv'
  <2>1. PICK held, pending, qty :
          Read(r, [op |-> "cancel", status |-> status, held |-> held, pending |-> pending, qty |-> qty])
          /\ held = Held
    BY <1>5 DEF CancelRead
  <2> QED  BY <1>0, <2>1, ReadsKeepMoney DEF MoneyRead
<1>6. ASSUME NEW r \in Requests,
             PackCommit(r) \/ ShipmentCommit(r) \/ ShipCommit(r) \/ HandOverCommit(r) \/ Abandon(r)
      PROVE  MoneyInv'
  BY <1>6, NoMoney
     DEF PackCommit, ShipmentCommit, ShipCommit, HandOverCommit, Abandon, Answered, orderVars
<1>7. ASSUME NEW s \in Ships, PickUp(s) \/ AddEvent(s) \/ Fail(s) PROVE MoneyInv'
  BY <1>7, NoMoney DEF PickUp, AddEvent, Fail, ClaimOnTheRoad, Answered, orderVars
<1>8. CASE ClaimUnshipped
  BY <1>8, NoMoney DEF ClaimUnshipped, Answered, orderVars
<1> QED
  BY <1>1, <1>2, <1>3, <1>4, <1>5, <1>6, <1>7, <1>8, UpdateMoney, DeliverMoney, RemittanceMoney,
     CollectMoney, CancelMoney, PayCashMoney, TransferMoney, SettleMoney DEF Next

LEMMA MoneySound == Spec => [](IndInv /\ MoneyInv)
<1> QED  BY InitIndInv, NextIndInv, InitMoney, NextMoney, PTL DEF Spec

\* A payment has its cash-flow row exactly when its money is in the shop, and
\* never for less, whatever codes, transfers, cash, remittances and cancels
\* interleave (settleSepayBalance, confirm-remittance, collect).
THEOREM BooksHoldTheMoney == Spec => []BooksMatchMoney
<1>1. MoneyInv => BooksMatchMoney
  BY DEF MoneyInv, Booked, BooksMatchMoney
<1> QED  BY <1>1, MoneySound, PTL

-----------------------------------------------------------------------------
(* Shipments of an order that never is a pickup one *)

\* Where the one open shipment is.
OpenAsOrdered(s) ==
  \/ status = "PACKED" /\ ship[s].status = "CREATED"
  \/ status = "PICKED_UP" /\ ship[s].status = "PICKED_UP"
  \/ status = "SHIPPING" /\ ship[s].status \in OnTheRoadStatuses

ShipReadStillTrue(x) ==
  /\ x.op # "handOver"
  /\ x.op = "shipOrder" =>
       /\ status \notin {"CONFIRMED", "PACKED"}
       /\ status = "PICKED_UP" => x.sh \in OpenShipments

ShipmentInv ==
  /\ type \in Types
  /\ \A s, t \in OpenShipments : s = t
  /\ \A s \in OpenShipments : OpenAsOrdered(s)
  /\ status \in {"PICKED_UP", "SHIPPING"} => OpenShipments # {}
  /\ \A r \in Requests : ShipReadStillTrue(req[r])

\* An order that is never collected at the counter.
DeliveryOnly == Types = {"HOME_DELIVERY"}

LEMMA InitShipment == DeliveryOnly /\ Init => ShipmentInv
BY DEF Init, ShipmentInv, OpenShipments, ShipReadStillTrue, Idle

\* One shipment is written.
LEMMA ShipWritten ==
  ASSUME NEW s \in Ships, NEW v \in ShipmentStatuses,
         \A t \in Ships : ship'[t].status = IF t = s THEN v ELSE ship[t].status
  PROVE  /\ v \in {"NONE", "DELIVERED", "RETURNED", "CANCELLED"} => OpenShipments' = OpenShipments \ {s}
         /\ v \notin {"NONE", "DELIVERED", "RETURNED", "CANCELLED"} => OpenShipments' = OpenShipments \cup {s}
BY DEF OpenShipments, FinalShipmentStatuses

LEMMA ShipmentQuiet ==
  ASSUME IndInv, ShipmentInv, UNCHANGED <<status, ship>>, type' \in Types,
         Answered \/ \E r \in Requests : \E x : Read(r, x) /\ ShipReadStillTrue(x)
  PROVE  ShipmentInv'
<1>1. OpenShipments' = OpenShipments  BY DEF OpenShipments
<1>2. \A q \in Requests : ShipReadStillTrue(req[q])'
  <2>1. CASE Answered  BY <1>1, <2>1, AnswersKept DEF ShipmentInv, ShipReadStillTrue
  <2>2. CASE \E r \in Requests : \E x : Read(r, x) /\ ShipReadStillTrue(x)
    BY <1>1, <2>2 DEF Read, IndInv, GoodsTypeOK, ShipmentInv, ShipReadStillTrue
  <2> QED  BY <2>1, <2>2
<1> QED  BY <1>1, <1>2 DEF ShipmentInv, OpenAsOrdered

LEMMA ReadsKeepShipment ==
  ASSUME IndInv, ShipmentInv, NEW r \in Requests, NEW x, Read(r, x), ShipReadStillTrue(x)
  PROVE  ShipmentInv'
<1>1. UNCHANGED <<status, type, ship>>  BY DEF Read, orderVars
<1>2. type' \in Types  BY <1>1 DEF ShipmentInv
<1> QED  BY <1>1, <1>2, ShipmentQuiet

LEMMA AtMostOneOpen ==
  ASSUME NEW s \in OpenShipments, ShipmentInv
  PROVE  OpenShipments = {s}
BY DEF ShipmentInv

\* Open shipments after a step: those of before, one more, or one fewer.
LEMMA ShipmentMoved ==
  ASSUME IndInv, ShipmentInv, Answered, type' = type,
         \A q \in Requests : req'[q] = req[q] /\ req[q].op = "shipOrder" => status' # "PICKED_UP",
         status' \notin {"CONFIRMED", "PACKED"} \/ status' = status,
         \A s, t \in OpenShipments' : s = t, \A s \in OpenShipments' : OpenAsOrdered(s)',
         status' \in {"PICKED_UP", "SHIPPING"} => OpenShipments' # {}
  PROVE  ShipmentInv'
<1>1. \A q \in Requests : ShipReadStillTrue(req[q])'
  BY AnswersKept DEF ShipmentInv, ShipReadStillTrue
<1> QED  BY <1>1 DEF ShipmentInv

LEMMA NextShipment == DeliveryOnly /\ IndInv /\ ShipmentInv /\ [Next]_vars => ShipmentInv'
<1> SUFFICES ASSUME DeliveryOnly, IndInv, ShipmentInv, [Next]_vars PROVE ShipmentInv'  OBVIOUS
<1>0. /\ type = "HOME_DELIVERY" /\ type \in Types
      /\ \A r \in Requests : RequestTypeOK(req[r]) /\ ShipReadStillTrue(req[r])
      /\ ship \in [Ships -> [status : ShipmentStatuses,
                             carrier : {"NONE", "INTERNAL", "EXTERNAL"}]]
  BY DEF DeliveryOnly, ShipmentInv, IndInv, GoodsTypeOK
<1> USE DEF orderVars, goodsVars, moneyVars
<1>1. CASE UNCHANGED vars
  BY <1>0, <1>1, ShipmentQuiet DEF vars, Answered
<1>2. ASSUME NEW r \in Requests,
             \/ UpdateRead(r) \/ PackRead(r) \/ ShipmentRead(r) \/ RemittanceRead(r)
             \/ CollectRead(r) \/ CancelRead(r) \/ \E s \in Ships : DeliverRead(r, s)
      PROVE  ShipmentInv'
  <2>1. ASSUME NEW x, Read(r, x), x.op \notin {"handOver", "shipOrder"} PROVE ShipmentInv'
    <3>1. ShipReadStillTrue(x)  BY <2>1 DEF ShipReadStillTrue
    <3> QED  BY <2>1, <3>1, ReadsKeepShipment
  <2>2. CASE UpdateRead(r)  BY <2>1, <2>2 DEF UpdateRead
  <2>3. CASE PackRead(r)  BY <2>1, <2>3 DEF PackRead
  <2>4. CASE ShipmentRead(r)  BY <2>1, <2>4 DEF ShipmentRead
  <2>5. CASE RemittanceRead(r)  BY <2>1, <2>5 DEF RemittanceRead
  <2>6. CASE CollectRead(r)  BY <2>1, <2>6 DEF CollectRead
  <2>7. CASE CancelRead(r)  BY <2>1, <2>7 DEF CancelRead
  <2>8. CASE \E s \in Ships : DeliverRead(r, s)  BY <2>1, <2>8 DEF DeliverRead
  <2> QED  BY <1>2, <2>2, <2>3, <2>4, <2>5, <2>6, <2>7, <2>8
<1>3. ASSUME NEW r \in Requests, HandOverRead(r) PROVE FALSE
  BY <1>0, <1>3 DEF HandOverRead, PickupReady
<1>4. ASSUME NEW r \in Requests, HandOverCommit(r) PROVE FALSE
  BY <1>0, <1>4 DEF HandOverCommit, ShipReadStillTrue
<1>5. ASSUME NEW r \in Requests, NEW s \in Ships, ShipRead(r, s) PROVE ShipmentInv'
  <2>1. status = "PICKED_UP" /\ ship[s].status = "PICKED_UP"
    BY <1>5 DEF ShipRead, CanTransition, Lifecycle!CanTransition,
       Lifecycle!JourneyTransitions, IndInv, FulfillmentFollowsOrder, Visited
  <2>2. s \in OpenShipments  BY <2>1 DEF OpenShipments, FinalShipmentStatuses
  <2>3. PICK qty : Read(r, [op |-> "shipOrder", sh |-> s, qty |-> qty])
    BY <1>5 DEF ShipRead
  <2>4. PICK x : x = [op |-> "shipOrder", sh |-> s, qty |-> qty]  OBVIOUS
  <2>5. x.op = "shipOrder" /\ x.sh = s  BY <2>4
  <2>6. ShipReadStillTrue(x)  BY <2>1, <2>2, <2>5 DEF ShipReadStillTrue
  <2> QED  BY <2>3, <2>4, <2>6, ReadsKeepShipment
<1>6. ASSUME NEW r \in Requests,
             \/ UpdateCommit(r) \/ RemittanceCommit(r) \/ CollectCash(r) \/ CollectQr(r) \/ Abandon(r)
      PROVE  type' \in Types /\ Answered /\ ship' = ship
             /\ (status' = status \/ (status = "RECEIVED" /\ status' = "COMPLETED"))
  BY <1>0, <1>6 DEF UpdateCommit, RemittanceCommit, CollectCash, CollectQr, Abandon, Answered
<1>7. ASSUME NEW p \in Pays, PayCash(p) \/ Transfer(p) \/ SettleSepayBalance(p)
      PROVE  type' \in Types /\ Answered /\ ship' = ship
             /\ (status' = status \/ (status = "RECEIVED" /\ status' = "COMPLETED"))
  BY <1>0, <1>7 DEF PayCash, Transfer, SettleSepayBalance, CompletesOrder, Answered
<1>8. CASE ClaimUnshipped
  BY <1>0, <1>8, ShipmentQuiet DEF ClaimUnshipped, Answered
<1>9. ASSUME type' \in Types, Answered, ship' = ship,
             status = "RECEIVED", status' = "COMPLETED"
      PROVE  ShipmentInv'
  <2>1. OpenShipments' = OpenShipments  BY <1>9 DEF OpenShipments
  <2>2. OpenShipments = {}  BY <1>9 DEF ShipmentInv, OpenAsOrdered
  <2>3. type' = type  BY <1>0, <1>9 DEF DeliveryOnly
  <2> QED  BY <1>9, <2>1, <2>2, <2>3, ShipmentMoved
<1>10. ASSUME NEW r \in Requests, PackCommit(r) PROVE ShipmentInv'
  <2>1. /\ status = "CONFIRMED" /\ status' = "PACKED" /\ UNCHANGED <<ship, type>> /\ Answered
    BY <1>10 DEF PackCommit, PackClaim, Answered
  <2>2. OpenShipments' = OpenShipments /\ OpenShipments = {}
    BY <2>1 DEF OpenShipments, ShipmentInv, OpenAsOrdered
  <2>3. \A q \in Requests : ShipReadStillTrue(req[q])'
    BY <2>1, AnswersKept DEF ShipmentInv, ShipReadStillTrue
  <2> QED  BY <1>0, <2>1, <2>2, <2>3 DEF ShipmentInv
<1>11. ASSUME NEW r \in Requests, ShipmentCommit(r) PROVE ShipmentInv'
  <2>1. PICK s \in Ships, c \in {"INTERNAL", "EXTERNAL"}, v \in {"PICKED_UP", "CREATED"} :
          /\ ship' = [ship EXCEPT ![s] = [status |-> v, carrier |-> c]]
          /\ v = "PICKED_UP" => status' = "PICKED_UP"
          /\ v = "CREATED" => status' = status
    BY <1>11 DEF ShipmentCommit
  <2>2. status = "PACKED" /\ OpenShipments = {} /\ UNCHANGED type /\ Answered
    BY <1>11 DEF ShipmentCommit, ShipmentClaim, Answered
  <2>3. OpenShipments' = {s} /\ ship'[s].status = v
    <3>1. v \in ShipmentStatuses  BY DEF ShipmentStatuses
    <3>2. \A t \in Ships : ship'[t].status = IF t = s THEN v ELSE ship[t].status  BY <1>0, <2>1
    <3>3. OpenShipments' = OpenShipments \cup {s}  BY <3>1, <3>2, ShipWritten
    <3> QED  BY <2>2, <3>2, <3>3
  <2>4. \A t \in OpenShipments' : OpenAsOrdered(t)'  BY <2>1, <2>2, <2>3 DEF OpenAsOrdered
  <2>5. \A q \in Requests : req'[q] = req[q] => req[q].op # "shipOrder"
    BY <1>0, <2>2 DEF ShipReadStillTrue
  <2> QED  BY <2>1, <2>2, <2>3, <2>4, <2>5, ShipmentMoved
<1>12. ASSUME NEW s \in Ships, PickUp(s) PROVE ShipmentInv'
  <2>1. /\ status = "PACKED" /\ status' = "PICKED_UP" /\ ship[s].status = "CREATED"
        /\ ship' = [ship EXCEPT ![s].status = "PICKED_UP"] /\ UNCHANGED type /\ Answered
    BY <1>12 DEF PickUp, Answered
  <2>2. s \in OpenShipments  BY <2>1 DEF OpenShipments, FinalShipmentStatuses
  <2>3. OpenShipments' = {s} /\ ship'[s].status = "PICKED_UP"
    <3>1. "PICKED_UP" \in ShipmentStatuses  BY DEF ShipmentStatuses
    <3>2. \A t \in Ships : ship'[t].status = IF t = s THEN "PICKED_UP" ELSE ship[t].status  BY <1>0, <2>1
    <3>3. OpenShipments' = OpenShipments \cup {s}  BY <3>1, <3>2, ShipWritten
    <3> QED  BY <2>2, <3>2, <3>3, AtMostOneOpen
  <2>4. \A t \in OpenShipments' : OpenAsOrdered(t)'  BY <2>1, <2>3 DEF OpenAsOrdered
  <2>5. \A q \in Requests : req'[q] = req[q] => req[q].op # "shipOrder"
    BY <1>0, <2>1 DEF ShipReadStillTrue
  <2> QED  BY <2>1, <2>3, <2>4, <2>5, ShipmentMoved
<1>13. ASSUME NEW r \in Requests, ShipCommit(r) PROVE ShipmentInv'
  <2>1. PICK s : s = req[r].sh  OBVIOUS
  <2>2. /\ status = "PICKED_UP" /\ status' = "SHIPPING" /\ UNCHANGED type /\ Answered
        /\ req[r].op = "shipOrder"
        /\ ship[s].status = "PICKED_UP" => ship' = [ship EXCEPT ![s].status = "IN_TRANSIT"]
    BY <1>13, <2>1 DEF ShipCommit, Answered
  <2>3. s \in OpenShipments /\ s \in Ships  BY <1>0, <2>1, <2>2 DEF ShipReadStillTrue, OpenShipments
  <2>4. ship[s].status = "PICKED_UP"  BY <2>2, <2>3 DEF ShipmentInv, OpenAsOrdered
  <2>5. OpenShipments' = {s} /\ ship'[s].status = "IN_TRANSIT"
    <3>1. "IN_TRANSIT" \in ShipmentStatuses  BY DEF ShipmentStatuses, OnTheRoadStatuses
    <3>2. \A t \in Ships : ship'[t].status = IF t = s THEN "IN_TRANSIT" ELSE ship[t].status
      BY <1>0, <2>2, <2>3, <2>4
    <3>3. OpenShipments' = OpenShipments \cup {s}  BY <2>3, <3>1, <3>2, ShipWritten
    <3> QED  BY <2>3, <3>2, <3>3, AtMostOneOpen
  <2>6. \A t \in OpenShipments' : OpenAsOrdered(t)'
    BY <2>2, <2>5 DEF OpenAsOrdered, OnTheRoadStatuses
  <2> QED  BY <2>2, <2>5, <2>6, ShipmentMoved
<1>14. ASSUME NEW s \in Ships, AddEvent(s) \/ Fail(s) PROVE ShipmentInv'
  <2>1. PICK v \in OnTheRoadStatuses :
          /\ status = "SHIPPING" /\ status' = status /\ UNCHANGED type /\ Answered
          /\ ship[s].status \in OnTheRoadStatuses /\ ship' = [ship EXCEPT ![s].status = v]
    BY <1>14 DEF AddEvent, Fail, ClaimOnTheRoad, OnTheRoadStatuses, Answered
  <2>2. s \in OpenShipments  BY <2>1 DEF OpenShipments, FinalShipmentStatuses, OnTheRoadStatuses
  <2>3. OpenShipments' = {s} /\ ship'[s].status = v
    <3>1. v \in ShipmentStatuses /\ v \notin {"NONE", "DELIVERED", "RETURNED", "CANCELLED"}
      BY DEF ShipmentStatuses, OnTheRoadStatuses
    <3>2. \A t \in Ships : ship'[t].status = IF t = s THEN v ELSE ship[t].status  BY <1>0, <2>1
    <3>3. OpenShipments' = OpenShipments \cup {s}  BY <3>1, <3>2, ShipWritten
    <3> QED  BY <2>2, <3>2, <3>3, AtMostOneOpen
  <2>4. \A t \in OpenShipments' : OpenAsOrdered(t)'  BY <2>1, <2>3 DEF OpenAsOrdered
  <2> QED  BY <2>1, <2>3, <2>4, ShipmentMoved
<1>15. ASSUME NEW r \in Requests, DeliverCommit(r) PROVE ShipmentInv'
  <2>1. PICK s : s = req[r].sh  OBVIOUS
  <2>2. /\ status = "SHIPPING" /\ status' \in {"RECEIVED", "COMPLETED"} /\ UNCHANGED type
        /\ Answered /\ ship[s].status \in OnTheRoadStatuses /\ req[r].op = "deliver"
        /\ ship' = [ship EXCEPT ![s].status = "DELIVERED"]
    BY <1>15, <2>1 DEF DeliverCommit, Deliver, Answered
  <2>3. s \in Ships  BY <1>0, <2>1, <2>2 DEF RequestTypeOK
  <2>4. s \in OpenShipments
    BY <2>2, <2>3 DEF OpenShipments, FinalShipmentStatuses, OnTheRoadStatuses
  <2>5. OpenShipments' = {}
    <3>1. "DELIVERED" \in ShipmentStatuses  BY DEF ShipmentStatuses, FinalShipmentStatuses
    <3>2. \A t \in Ships : ship'[t].status = IF t = s THEN "DELIVERED" ELSE ship[t].status
      BY <1>0, <2>2, <2>3
    <3>3. OpenShipments' = OpenShipments \ {s}  BY <2>3, <3>1, <3>2, ShipWritten
    <3> QED  BY <2>4, <3>3, AtMostOneOpen
  <2> QED  BY <2>2, <2>5, ShipmentMoved
<1>16. ASSUME NEW r \in Requests, CancelCommit(r) PROVE ShipmentInv'
  <2>1. /\ status' = "CANCELLED" /\ UNCHANGED type /\ Answered
        /\ ship' = [s \in Ships |-> IF s \in OpenShipments
                                    THEN [ship[s] EXCEPT !.status = "CANCELLED"] ELSE ship[s]]
    BY <1>16 DEF CancelCommit, Answered
  <2>2. ASSUME NEW s \in Ships PROVE ship'[s].status \in FinalShipmentStatuses \cup {"NONE"}
    <3>1. PICK old : old = ship[s]  OBVIOUS
    <3>2. [old EXCEPT !.status = "CANCELLED"].status = "CANCELLED"  BY <1>0, <3>1
    <3> QED  BY <2>1, <3>1, <3>2 DEF OpenShipments, FinalShipmentStatuses
  <2>3. OpenShipments' = {}  BY <2>2 DEF OpenShipments, FinalShipmentStatuses
  <2> QED  BY <2>1, <2>3, ShipmentMoved
<1> QED
  BY <1>1, <1>2, <1>3, <1>4, <1>5, <1>6, <1>7, <1>8, <1>9, <1>10, <1>11, <1>12, <1>13, <1>14,
     <1>15, <1>16, ShipmentQuiet DEF Next

\* An order that is never collected at the counter has at most one open
\* shipment, and it is where the order says, whichever of pick-up, ship, fail,
\* deliver and cancel wins (shipments_one_open_per_order and the claims of
\* shipments.service.ts).
THEOREM ShipmentsFollow == DeliveryOnly => (Spec => []ShipmentFollowsOrder)
<1> SUFFICES ASSUME DeliveryOnly PROVE Spec => []ShipmentFollowsOrder  OBVIOUS
<1>1. ShipmentInv => ShipmentFollowsOrder
  <2> SUFFICES ASSUME ShipmentInv PROVE ShipmentFollowsOrder  OBVIOUS
  <2>1. Cardinality(OpenShipments) <= 1
    <3>1. CASE OpenShipments = {}  BY <3>1, FS_EmptySet
    <3>2. CASE \E s : OpenShipments = {s}  BY <3>2, FS_Singleton
    <3> QED  BY <3>1, <3>2 DEF ShipmentInv
  <2> QED  BY <2>1 DEF ShipmentInv, ShipmentFollowsOrder, OpenAsOrdered
<1>2. Init => ShipmentInv  BY InitShipment
<1>3. IndInv /\ ShipmentInv /\ [Next]_vars => ShipmentInv'  BY NextShipment
<1> QED  BY InitIndInv, NextIndInv, <1>1, <1>2, <1>3, PTL DEF Spec

-----------------------------------------------------------------------------
(* What the customer of a delivery pays *)

\* An order that nobody has to pay anything for has no payment at all.
CostsSomething == 0 \notin Totals

\* The payments that count, or still may.
Live == {p \in Pays : pay[p].status \in {"PENDING", "PAID"}}

\* The one payment asks for what the deposit left over.
AsksTheRest(p) == Live = {p} /\ pay[p].amount = total - Deposit

\* What a request has read of the money.
PaidRead(x) ==
  /\ x.op \notin {"collect", "handOver"}
  /\ x.op = "deliver" => /\ status \notin UnshippedStatuses
                         /\ status = "SHIPPING" => x.due = DeliveryAmountDue
  /\ x.op = "cancel" => x.held = Deposit
  /\ x.op = "confirmRemittance" => x.pays \subseteq Pays /\ x.pays # {}

PaidState ==
  /\ type \in Types /\ total \in Totals /\ total >= Deposit
  /\ status \in UnshippedStatuses \cup {"SHIPPING"} =>
       Live = {} /\ refund = 0 /\ payStatus = PaymentStatusForDeposit(total)
  /\ status = "CANCELLED" => Live = {} /\ refund <= Deposit
  /\ status = "RECEIVED" =>
       /\ refund = 0
       /\ \E p \in Pays : AsksTheRest(p) /\ (pay[p].status = "PAID" => payStatus = "PAID")
  /\ status = "COMPLETED" =>
       /\ refund = 0 /\ payStatus = "PAID"
       /\ \/ Live = {} /\ total = Deposit
          \/ \E p \in Pays : AsksTheRest(p) /\ pay[p].status = "PAID"

PaidInv == PaidState /\ \A r \in Requests : PaidRead(req[r])

\* With one payment that counts, what is collected is that payment.
LEMMA CollectedIsOne ==
  ASSUME MoneyTyped
  PROVE  /\ Live = {} => Collected = 0
         /\ \A p \in Pays : Live = {p} => Collected = IF pay[p].status = "PAID" THEN pay[p].amount ELSE 0
<1>1. PICK f : f = [p \in Pays |-> pay[p].amount]  OBVIOUS
<1>2. \A p \in Pays : f[p] = pay[p].amount /\ f[p] \in Nat  BY <1>1 DEF MoneyTyped, PayRow
<1>3. PaidPays = {} => Collected = 0  BY <1>1, SumEmpty DEF Collected
<1>4. ASSUME NEW p \in Pays, PaidPays = {p} PROVE Collected = pay[p].amount
  <2>1. IsFiniteSet({}) /\ p \notin {} /\ {} \cup {p} = {p}  BY FS_EmptySet
  <2>2. \A x \in {} \cup {p} : f[x] \in Int  BY <1>2
  <2>3. SumFunctionOnSet(f, {} \cup {p}) = f[p] + SumFunctionOnSet(f, {})
    BY <2>1, <2>2, SumAdd
  <2>4. SumFunctionOnSet(f, {p}) = f[p] + 0  BY <2>1, <2>3, SumEmpty
  <2> QED  BY <1>1, <1>2, <1>4, <2>4 DEF Collected
<1>5. Live = {} => PaidPays = {}  BY DEF Live, PaidPays
<1>6. \A p \in Pays : Live = {p} => PaidPays = IF pay[p].status = "PAID" THEN {p} ELSE {}
  BY DEF Live, PaidPays
<1> QED  BY <1>3, <1>4, <1>5, <1>6

LEMMA InitPaid == Init => PaidInv
<1> SUFFICES ASSUME Init PROVE PaidInv  OBVIOUS
<1>1. Live = {}  BY DEF Init, Live, NoPayment
<1> QED  BY <1>1 DEF Init, PaidInv, PaidState, PaidRead, Idle

\* Requests keep what they have read.
LEMMA PaidReadsKept ==
  ASSUME IndInv, PaidInv, Answered,
         status' \in UnshippedStatuses => status \in UnshippedStatuses,
         status' = "SHIPPING" => status \in UnshippedStatuses \/ UNCHANGED <<status, total>>
  PROVE  \A q \in Requests : PaidRead(req[q])'
<1>1. UNCHANGED total => DeliveryAmountDue' = DeliveryAmountDue  BY DEF DeliveryAmountDue
<1> QED  BY <1>1, AnswersKept DEF PaidInv, PaidRead

LEMMA PaidQuiet ==
  ASSUME IndInv, PaidInv, UNCHANGED <<status, type, total, payStatus, pay, refund>>
  PROVE  /\ PaidState'
         /\ Answered => PaidInv'
         /\ \A r \in Requests : \A x : Read(r, x) /\ PaidRead(x) => PaidInv'
<1>1. PaidState'  BY DEF PaidInv, PaidState, Live, AsksTheRest
<1>2. Answered => PaidInv'  BY <1>1, PaidReadsKept DEF PaidInv
<1>3. DeliveryAmountDue' = DeliveryAmountDue  BY DEF DeliveryAmountDue
<1>4. ASSUME NEW r \in Requests, NEW x, Read(r, x), PaidRead(x) PROVE PaidInv'
  <2>1. \A q \in Requests : PaidRead(req[q])'
    BY <1>3, <1>4 DEF Read, IndInv, GoodsTypeOK, PaidInv, PaidRead
  <2> QED  BY <1>1, <2>1 DEF PaidInv
<1> QED  BY <1>1, <1>2, <1>4

LEMMA ReadsKeepPaid ==
  ASSUME IndInv, PaidInv, NEW r \in Requests, NEW x, Read(r, x), PaidRead(x)
  PROVE  PaidInv'
<1>1. UNCHANGED <<status, type, total, payStatus, pay, refund>>
  BY DEF Read, orderVars, moneyVars
<1> QED  BY <1>1, PaidQuiet

\* On the way to the customer nothing is paid.
LEMMA PaidUnderway ==
  ASSUME IndInv, PaidInv, Answered, status \in UnshippedStatuses,
         status' \in UnshippedStatuses \cup {"SHIPPING"}, UNCHANGED <<pay, refund>>,
         type' \in Types, total' \in Totals, total' >= Deposit,
         payStatus' = PaymentStatusForDeposit(total')
  PROVE  PaidInv'
<1>1. Live' = {}  BY DEF Live, PaidInv, PaidState
<1>2. PaidState'  BY <1>1 DEF PaidState, PaidInv, UnshippedStatuses
<1> QED  BY <1>2, PaidReadsKept DEF PaidInv

LEMMA DeliverPaid ==
  ASSUME CostsSomething, IndInv, MoneyInv, PaidInv, NEW r \in Requests, DeliverCommit(r)
  PROVE  PaidInv'
<1>1. PICK x : x = req[r]  OBVIOUS
<1>2. status = "SHIPPING" /\ x.op = "deliver" /\ UNCHANGED <<type, total, refund>> /\ Answered
  BY <1>1 DEF DeliverCommit, Deliver, Answered
<1>3. /\ Live = {} /\ refund = 0 /\ payStatus = PaymentStatusForDeposit(total) /\ MoneyTyped
      /\ total \in Nat /\ total > 0 /\ Deposit \in Nat /\ total >= Deposit
      /\ x.due = DeliveryAmountDue
  BY <1>1, <1>2, MoneyAssumption
     DEF PaidInv, PaidState, PaidRead, MoneyInv, MoneyTyped, CostsSomething
<1>4. x.due = total - Deposit  BY <1>3 DEF DeliveryAmountDue, Shortfall
<1>5. CASE x.due = 0 /\ status' = "COMPLETED" /\ UNCHANGED <<payStatus, pay>>
  <2>1. total = Deposit /\ payStatus' = "PAID"
    BY <1>3, <1>4, <1>5 DEF PaymentStatusForDeposit
  <2>2. Live' = {}  BY <1>3, <1>5 DEF Live
  <2>3. PaidState'  BY <1>2, <1>3, <1>5, <2>1, <2>2 DEF PaidState, PaidInv, UnshippedStatuses
  <2> QED  BY <1>2, <1>5, <2>3, PaidReadsKept DEF PaidInv, UnshippedStatuses
<1>6. ASSUME NEW p \in Pays, NEW row \in PayRow, pay[p].status = "NONE",
             pay' = [pay EXCEPT ![p] = row], row.status \in {"PENDING", "PAID"},
             row.amount = x.due, row.status = "PAID" => payStatus' = "PAID",
             status' = "RECEIVED"
      PROVE  PaidInv'
  <2>1. pay'[p] = row /\ Live' = {p}  BY <1>3, <1>6 DEF Live, MoneyTyped
  <2>2. AsksTheRest(p)' /\ (pay'[p].status = "PAID" => payStatus' = "PAID")
    BY <1>2, <1>4, <1>6, <2>1 DEF AsksTheRest
  <2>3. PaidState'  BY <1>2, <1>3, <1>6, <2>2 DEF PaidState, PaidInv, UnshippedStatuses
  <2> QED  BY <1>2, <1>6, <2>3, PaidReadsKept DEF PaidInv, UnshippedStatuses
<1>7. CASE x.due > 0 /\ Deliver(x, CashPayment(x.due, "PENDING")) /\ payStatus' = "PAID"
  <2>1. PICK row : row = CashPayment(x.due, "PENDING")  OBVIOUS
  <2>2. row \in PayRow /\ row.status = "PAID" /\ row.amount = x.due
    BY <1>3, <1>4, <1>7, <2>1 DEF CashPayment, PayRow
  <2> QED  BY <1>6, <1>7, <2>1, <2>2 DEF Deliver, IsNewPayment
<1>8. CASE x.due > 0 /\ Deliver(x, QrPayment(x.due))
  <2>1. PICK row : row = QrPayment(x.due)  OBVIOUS
  <2>2. row \in PayRow /\ row.status = "PENDING" /\ row.amount = x.due
    BY <1>3, <1>4, <1>8, <2>1 DEF QrPayment, PayRow
  <2> QED  BY <1>6, <1>8, <2>1, <2>2 DEF Deliver, IsNewPayment
<1> QED  BY <1>1, <1>5, <1>7, <1>8 DEF DeliverCommit

\* Cash at the shipper in place of the code.
LEMMA PayCashPaid ==
  ASSUME IndInv, MoneyInv, PaidInv, NEW p \in Pays, PayCash(p)
  PROVE  PaidInv'
<1>0. PICK row : row = CashPayment(pay[p].amount, "PENDING")  OBVIOUS
<1>1. PICK n \in Pays : /\ pay[n].status = "NONE"
                        /\ pay' = [pay EXCEPT ![p].status = "CANCELLED", ![n] = row]
  BY <1>0 DEF PayCash, IsNewPayment
<1>2. /\ pay[p].status = "PENDING" /\ status = "RECEIVED" /\ payStatus' = "PAID" /\ Answered
      /\ UNCHANGED <<status, type, total, refund>>
  BY DEF PayCash, PendingCounterQr, Answered
<1>3. MoneyTyped  BY DEF MoneyInv
<1>4. Live = {p} /\ pay[p].amount = total - Deposit /\ refund = 0
  BY <1>2 DEF PaidInv, PaidState, AsksTheRest, Live, UnshippedStatuses
<1>5. row.status = "PAID" /\ row.amount = total - Deposit  BY <1>0, <1>4 DEF CashPayment
<1>6. n # p /\ pay'[n] = row /\ pay'[p].status = "CANCELLED"
      /\ \A q \in Pays : q \notin {n, p} => pay'[q] = pay[q]
  <2>1. PICK old, new : old = pay[p] /\ new = [old EXCEPT !.status = "CANCELLED"]  OBVIOUS
  <2>2. new.status = "CANCELLED"  BY <1>3, <2>1 DEF MoneyTyped, PayRow
  <2>3. pay' = [[pay EXCEPT ![p] = new] EXCEPT ![n] = row]  BY <1>1, <2>1
  <2> QED  BY <1>1, <1>2, <1>3, <2>2, <2>3 DEF MoneyTyped
<1>7. Live' = {n}  BY <1>4, <1>5, <1>6 DEF Live
<1>8. AsksTheRest(n)'  BY <1>2, <1>5, <1>6, <1>7 DEF AsksTheRest
<1>9. PaidState'  BY <1>2, <1>4, <1>8 DEF PaidState, PaidInv, UnshippedStatuses
<1> QED  BY <1>2, <1>9, PaidReadsKept DEF PaidInv, UnshippedStatuses

LEMMA SettlePaid ==
  ASSUME IndInv, MoneyInv, PaidInv, NEW p \in Pays, SettleSepayBalance(p)
  PROVE  PaidInv'
<1>1. pay[p].status = "PENDING" /\ pay' = [pay EXCEPT ![p].status = "PAID"]
      /\ UNCHANGED <<type, total, refund>> /\ Answered
  BY DEF SettleSepayBalance, Bookable, Answered
<1>2. MoneyTyped /\ p \in Live  BY <1>1 DEF MoneyInv, Live
<1>3. status = "RECEIVED" /\ Live = {p} /\ pay[p].amount = total - Deposit /\ refund = 0
  <2>1. status \in UnshippedStatuses \cup {"SHIPPING", "CANCELLED", "RECEIVED", "COMPLETED"}
    BY DEF IndInv, FulfillmentFollowsOrder, Visited, UnshippedStatuses
  <2>2. status = "RECEIVED"
    <3>1. status # "COMPLETED"  BY <1>1, <1>2 DEF PaidInv, PaidState, AsksTheRest
    <3> QED  BY <1>2, <2>1, <3>1 DEF PaidInv, PaidState
  <2> QED  BY <1>2, <2>2 DEF PaidInv, PaidState, AsksTheRest
<1>4. status' = "COMPLETED" /\ payStatus' = "PAID"
  BY <1>3 DEF SettleSepayBalance, CompletesOrder
<1>5. pay'[p].status = "PAID" /\ pay'[p].amount = pay[p].amount
      /\ \A q \in Pays : q # p => pay'[q] = pay[q]
  <2>1. PICK old, new : old = pay[p] /\ new = [old EXCEPT !.status = "PAID"]  OBVIOUS
  <2>2. new.status = "PAID" /\ new.amount = old.amount  BY <1>2, <2>1 DEF MoneyTyped, PayRow
  <2>3. pay' = [pay EXCEPT ![p] = new]  BY <1>1, <2>1
  <2> QED  BY <1>2, <2>1, <2>2, <2>3 DEF MoneyTyped
<1>6. Live' = {p}  BY <1>3, <1>5 DEF Live
<1>7. AsksTheRest(p)'  BY <1>1, <1>3, <1>5, <1>6 DEF AsksTheRest
<1>8. PaidState'  BY <1>1, <1>3, <1>4, <1>5, <1>7 DEF PaidState, PaidInv, UnshippedStatuses
<1> QED  BY <1>1, <1>4, <1>8, PaidReadsKept DEF PaidInv, UnshippedStatuses

LEMMA RemittancePaid ==
  ASSUME IndInv, MoneyInv, PaidInv, NEW r \in Requests, RemittanceCommit(r)
  PROVE  PaidInv'
<1>1. PICK x : x = req[r]  OBVIOUS
<1>2. /\ x.op = "confirmRemittance" /\ status = "RECEIVED" /\ status' = "COMPLETED"
      /\ \A p \in x.pays : pay[p].remit = "PENDING"
      /\ pay' = [p \in Pays |-> IF p \in x.pays THEN [pay[p] EXCEPT !.remit = "RECEIVED"]
                                ELSE pay[p]]
      /\ UNCHANGED <<type, total, payStatus, refund>> /\ Answered
  BY <1>1 DEF RemittanceCommit, Answered
<1>3. PICK p \in Pays : AsksTheRest(p) /\ (pay[p].status = "PAID" => payStatus = "PAID")
  BY <1>2 DEF PaidInv, PaidState
<1>4. PICK q \in Pays : q \in x.pays  BY <1>1, <1>2 DEF PaidInv, PaidRead
<1>5. pay[q].status = "PAID"  BY <1>2, <1>4 DEF MoneyInv, Booked
<1>6. pay[p].status = "PAID" /\ payStatus = "PAID"
  BY <1>3, <1>4, <1>5 DEF AsksTheRest, Live
<1>7. \A k \in Pays : pay'[k].status = pay[k].status /\ pay'[k].amount = pay[k].amount
  <2> TAKE k \in Pays
  <2>1. PICK old, new : old = pay[k] /\ new = [old EXCEPT !.remit = "RECEIVED"]  OBVIOUS
  <2>2. new.status = old.status /\ new.amount = old.amount
    BY <2>1 DEF MoneyInv, MoneyTyped, PayRow
  <2>3. pay'[k] = old \/ pay'[k] = new  BY <1>2, <2>1
  <2> QED  BY <2>1, <2>2, <2>3
<1>8. Live' = Live  BY <1>7 DEF Live
<1>9. AsksTheRest(p)'  BY <1>2, <1>3, <1>7, <1>8 DEF AsksTheRest
<1>10. PaidState'  BY <1>2, <1>6, <1>7, <1>9 DEF PaidState, PaidInv, UnshippedStatuses
<1> QED  BY <1>2, <1>10, PaidReadsKept DEF PaidInv, UnshippedStatuses

LEMMA CancelPaid ==
  ASSUME IndInv, MoneyInv, PaidInv, NEW r \in Requests, CancelCommit(r)
  PROVE  PaidInv'
<1>1. PICK x : x = req[r]  OBVIOUS
<1>2. PICK amount \in 0..x.held : refund' = refund + amount  BY <1>1 DEF CancelCommit
<1>3. /\ x.op = "cancel" /\ status = x.status /\ status' = "CANCELLED" /\ Answered
      /\ pay' = WithQrCancelled(x.pending) /\ UNCHANGED <<type, total>>
  BY <1>1 DEF CancelCommit, CancelClaim, Answered
<1>4. status \in UnshippedStatuses /\ x.held = Deposit
  BY <1>1, <1>3 DEF IndInv, GoodsTypeOK, RequestTypeOK, PaidInv, PaidRead
<1>5. Live = {} /\ refund = 0 /\ Deposit \in Nat  BY <1>4, MoneyAssumption DEF PaidInv, PaidState
<1>6. Live' = {}
  <2>1. \A p \in Pays : pay'[p] = pay[p]  BY <1>3, <1>5 DEF WithQrCancelled, Live
  <2> QED  BY <1>5, <2>1 DEF Live
<1>7. PaidState'
  BY <1>2, <1>3, <1>4, <1>5, <1>6 DEF PaidState, PaidInv, UnshippedStatuses
<1> QED  BY <1>3, <1>7, PaidReadsKept DEF PaidInv, UnshippedStatuses

LEMMA UpdatePaid ==
  ASSUME DeliveryOnly, IndInv, PaidInv, NEW r \in Requests, UpdateCommit(r)
  PROVE  PaidInv'
<1>1. type = "HOME_DELIVERY"  BY DEF DeliveryOnly, PaidInv, PaidState
<1>2. PICK nextType \in Types \cup {type}, nextTotal \in Totals \cup {total} :
        /\ nextTotal # total => nextTotal >= Deposit
        /\ type' = nextType /\ total' = nextTotal /\ pay' = pay
        /\ payStatus' = IF nextTotal = total THEN payStatus ELSE PaymentStatusForDeposit(nextTotal)
  BY <1>1 DEF UpdateCommit
<1>3. status \in UnshippedStatuses /\ UNCHANGED <<status, refund>> /\ Answered
  BY DEF UpdateCommit, Answered
<1>4. type' \in Types /\ total' \in Totals /\ total' >= Deposit
      /\ payStatus' = PaymentStatusForDeposit(total')
  BY <1>2, <1>3 DEF PaidInv, PaidState
<1> QED  BY <1>2, <1>3, <1>4, PaidUnderway

LEMMA NextPaid ==
  ASSUME DeliveryOnly, CostsSomething, IndInv, MoneyInv, PaidInv, [Next]_vars
  PROVE  PaidInv'
<1>0. /\ type = "HOME_DELIVERY" /\ type \in Types /\ total \in Totals /\ total >= Deposit
      /\ \A r \in Requests : PaidRead(req[r])
  BY DEF DeliveryOnly, PaidInv, PaidState
<1> USE DEF orderVars, goodsVars, moneyVars
<1>1. CASE UNCHANGED vars  BY <1>1, PaidQuiet DEF vars, Answered
<1>2. ASSUME NEW r \in Requests,
             \/ UpdateRead(r) \/ PackRead(r) \/ ShipmentRead(r) \/ \E s \in Ships : ShipRead(r, s)
      PROVE  PaidInv'
  <2>1. ASSUME NEW x, Read(r, x), x.op \in {"update", "packOrder", "createShipment", "shipOrder"}
        PROVE  PaidInv'
    <3>1. PaidRead(x)  BY <2>1 DEF PaidRead
    <3> QED  BY <2>1, <3>1, ReadsKeepPaid
  <2>2. CASE UpdateRead(r)  BY <2>1, <2>2 DEF UpdateRead
  <2>3. CASE PackRead(r)  BY <2>1, <2>3 DEF PackRead
  <2>4. CASE ShipmentRead(r)  BY <2>1, <2>4 DEF ShipmentRead
  <2>5. CASE \E s \in Ships : ShipRead(r, s)  BY <2>1, <2>5 DEF ShipRead
  <2> QED  BY <1>2, <2>2, <2>3, <2>4, <2>5
<1>3. ASSUME NEW r \in Requests, NEW s \in Ships, DeliverRead(r, s) PROVE PaidInv'
  <2>1. PICK x : x = [op |-> "deliver", sh |-> s, due |-> DeliveryAmountDue]  OBVIOUS
  <2>2. Read(r, x) /\ status = "SHIPPING"  BY <1>3, <2>1 DEF DeliverRead
  <2>3. x.op = "deliver" /\ x.due = DeliveryAmountDue  BY <2>1
  <2>4. PaidRead(x)  BY <2>2, <2>3 DEF PaidRead, UnshippedStatuses
  <2> QED  BY <2>2, <2>4, ReadsKeepPaid
<1>4. ASSUME NEW r \in Requests, RemittanceRead(r) PROVE PaidInv'
  <2>1. PICK x : x = [op |-> "confirmRemittance", pays |-> AwaitingRemittance]  OBVIOUS
  <2>2. Read(r, x) /\ AwaitingRemittance # {}  BY <1>4, <2>1 DEF RemittanceRead
  <2>3. x.op = "confirmRemittance" /\ x.pays = AwaitingRemittance  BY <2>1
  <2>4. PaidRead(x)  BY <2>2, <2>3 DEF PaidRead, AwaitingRemittance, PaidPays
  <2> QED  BY <2>2, <2>4, ReadsKeepPaid
<1>5. ASSUME NEW r \in Requests, CancelRead(r) PROVE PaidInv'
  <2>1. PICK qty, x : Read(r, x) /\ x = [op |-> "cancel", status |-> status, held |-> Held,
                                         pending |-> PendingCounterQr, qty |-> qty]
    BY <1>5 DEF CancelRead
  <2>2. status \in UnshippedStatuses
    BY <1>5 DEF CancelRead, CanTransition, Lifecycle!CanTransition, Lifecycle!JourneyTransitions,
       UnshippedStatuses, IndInv, FulfillmentFollowsOrder, Visited
  <2>3. Held = Deposit
    BY <2>2, CollectedIsOne, MoneyAssumption DEF Held, PaidInv, PaidState, MoneyInv
  <2>4. x.op = "cancel" /\ x.held = Held  BY <2>1
  <2>5. PaidRead(x)  BY <2>3, <2>4 DEF PaidRead
  <2> QED  BY <2>1, <2>5, ReadsKeepPaid
<1>6. ASSUME NEW r \in Requests, CollectRead(r) \/ HandOverRead(r) PROVE FALSE
  BY <1>0, <1>6 DEF CollectRead, HandOverRead, PickupReady
<1>7. ASSUME NEW r \in Requests, CollectCash(r) \/ CollectQr(r) \/ HandOverCommit(r) PROVE FALSE
  BY <1>0, <1>7 DEF CollectCash, CollectQr, HandOverCommit, PaidRead
<1>8. ASSUME status \in UnshippedStatuses, status' \in UnshippedStatuses \cup {"SHIPPING"}, Answered,
             UNCHANGED <<type, total, payStatus, pay, refund>>
      PROVE  PaidInv'
  BY <1>0, <1>8, PaidUnderway DEF PaidInv, PaidState
<1>9. ASSUME NEW r \in Requests, PackCommit(r) \/ ShipmentCommit(r) \/ ShipCommit(r) PROVE PaidInv'
  BY <1>8, <1>9 DEF PackCommit, PackClaim, ShipmentCommit, ShipmentClaim, ShipCommit,
     UnshippedStatuses, Answered
<1>10. ASSUME NEW s \in Ships, PickUp(s) PROVE PaidInv'
  BY <1>8, <1>10 DEF PickUp, UnshippedStatuses, Answered
<1>11. ASSUME NEW s \in Ships, AddEvent(s) \/ Fail(s) PROVE PaidInv'
  BY <1>11, PaidQuiet DEF AddEvent, Fail, ClaimOnTheRoad, Answered
<1>12. ASSUME NEW p \in Pays, Transfer(p) PROVE PaidInv'
  BY <1>12, PaidQuiet DEF Transfer, Answered
<1>13. ASSUME NEW r \in Requests, Abandon(r) PROVE PaidInv'
  BY <1>13, PaidQuiet DEF Abandon, Answered
<1>14. CASE ClaimUnshipped  BY <1>14, PaidQuiet DEF ClaimUnshipped, Answered
<1> QED
  BY <1>1, <1>2, <1>3, <1>4, <1>5, <1>6, <1>7, <1>9, <1>10, <1>11, <1>12, <1>13, <1>14,
     DeliverPaid, PayCashPaid, SettlePaid, RemittancePaid, CancelPaid, UpdatePaid DEF Next

\* Beyond what has gone astray, a payment brings in no more than it asks for,
\* and only while it counts.
LEMMA ArrivedAtMost ==
  ASSUME MoneyInv, NEW p \in Pays
  PROVE  /\ Arrived[p] \in Nat /\ Astray[p] \in Nat /\ pay[p].amount \in Nat
         /\ Arrived[p] <= Astray[p] + (IF p \in Live THEN pay[p].amount ELSE 0)
<1>1. PICK row, sent : row = pay[p] /\ sent = bank[p]  OBVIOUS
<1>2. row \in PayRow /\ sent \in Nat /\ Booked(row, flow[p], sent)
  BY <1>1 DEF MoneyInv, MoneyTyped
<1>3. /\ row.amount \in Nat /\ row.status \in {"NONE", "PENDING", "PAID", "CANCELLED"}
      /\ row.method \in {"NONE", "CASH", "SEPAY"}
      /\ row.status = "NONE" => row.method = "NONE"
  BY <1>2 DEF PayRow, Booked
<1>4. Arrived[p] = IF row.method = "SEPAY" THEN sent
                   ELSE IF row.status = "PAID" THEN row.amount ELSE 0
  BY <1>1 DEF Arrived
<1>5. Astray[p] = IF row.method # "SEPAY" THEN 0
                  ELSE IF row.status = "CANCELLED" THEN sent
                  ELSE IF sent > row.amount THEN sent - row.amount ELSE 0
  BY <1>1 DEF Astray, Shortfall
<1>6. p \in Live <=> row.status \in {"PENDING", "PAID"}  BY <1>1 DEF Live
<1> QED  BY <1>1, <1>2, <1>3, <1>4, <1>5, <1>6

\* So all that came in is what went astray and what the live payment asks for.
LEMMA ReceivedAtMost ==
  ASSUME MoneyInv
  PROVE  /\ Received \in Nat /\ GoneAstray \in Nat
         /\ Live = {} => Received <= GoneAstray + Deposit
         /\ \A p \in Pays : Live = {p} => Received <= GoneAstray + Deposit + pay[p].amount
<1>1. IsFiniteSet(Pays) /\ Deposit \in Nat  BY HeldIsNumber, MoneyAssumption DEF MoneyInv
<1>2. PICK asked : asked = [p \in Pays |-> IF p \in Live THEN pay[p].amount ELSE 0]  OBVIOUS
<1>3. PICK most : most = [p \in Pays |-> Astray[p] + asked[p]]  OBVIOUS
<1>4. \A p \in Pays : /\ Arrived[p] \in Nat /\ Astray[p] \in Nat /\ asked[p] \in Nat
                      /\ most[p] = Astray[p] + asked[p] /\ Arrived[p] <= most[p]
  BY <1>2, <1>3, ArrivedAtMost
<1>5. \A p \in Pays : /\ Arrived[p] \in Int /\ Astray[p] \in Int /\ asked[p] \in Int
                      /\ most[p] \in Int
  BY <1>4
<1>6. SumFunctionOnSet(Arrived, Pays) \in Nat /\ GoneAstray \in Nat
      /\ SumFunctionOnSet(asked, Pays) \in Nat
  BY <1>1, <1>4, SumNat DEF GoneAstray
<1>7. SumFunctionOnSet(Arrived, Pays) <= SumFunctionOnSet(most, Pays)
  BY <1>1, <1>4, <1>5, SumBelow
<1>8. SumFunctionOnSet(most, Pays) = GoneAstray + SumFunctionOnSet(asked, Pays)
  BY <1>1, <1>4, <1>5, SumOfTwo DEF GoneAstray
<1>9. ASSUME Live = {} PROVE SumFunctionOnSet(asked, Pays) = 0
  <2>1. \A p \in Pays : asked[p] = 0  BY <1>2, <1>9
  <2> QED  BY <1>1, <2>1, SumZero
<1>10. ASSUME NEW p \in Pays, Live = {p} PROVE SumFunctionOnSet(asked, Pays) = pay[p].amount
  <2>1. \A q \in Pays \ {p} : asked[q] = 0  BY <1>2, <1>10
  <2>2. asked[p] = pay[p].amount  BY <1>2, <1>10
  <2>3. IsFiniteSet(Pays \ {p})  BY <1>1, FS_RemoveElement
  <2>4. SumFunctionOnSet(asked, Pays \ {p}) = 0  BY <2>1, <2>3, SumZero
  <2>5. SumFunctionOnSet(asked, Pays) = asked[p] + SumFunctionOnSet(asked, Pays \ {p})
    BY <1>1, <1>5, SumRemove
  <2> QED  BY <1>4, <2>2, <2>4, <2>5
<1> QED  BY <1>1, <1>6, <1>7, <1>8, <1>9, <1>10 DEF Received

\* A delivered order that costs something takes its total from the customer
\* once: neither cash and code, nor pay-cash and a late transfer, nor two
\* cancels take or return money twice, except for transfers that exceed their
\* code or reach one that was cancelled
\* (amountDueOf, deliver, pay-cash, settleSepayBalance, cancel).
THEOREM DeliveryPaidOnce == DeliveryOnly /\ CostsSomething => (Spec => []CustomerPaysOnce)
<1> SUFFICES ASSUME DeliveryOnly, CostsSomething PROVE Spec => []CustomerPaysOnce  OBVIOUS
<1>1. MoneyInv /\ PaidInv /\ IndInv => CustomerPaysOnce
  <2> SUFFICES ASSUME MoneyInv, PaidInv, IndInv PROVE CustomerPaysOnce  OBVIOUS
  <2>1. /\ MoneyTyped /\ PaidState /\ total \in Nat /\ Deposit \in Nat /\ refund \in Nat
        /\ Collected \in Nat /\ total >= Deposit
        /\ Received \in Nat /\ GoneAstray \in Nat
    BY MoneyAssumption, HeldIsNumber, ReceivedAtMost DEF MoneyInv, MoneyTyped, PaidInv, PaidState
  <2>2. status \in UnshippedStatuses \cup {"SHIPPING", "CANCELLED", "RECEIVED", "COMPLETED"}
    BY DEF IndInv, FulfillmentFollowsOrder, Visited, UnshippedStatuses
  <2>3. CASE Live = {} /\ refund <= Deposit /\ (status = "COMPLETED" => total = Deposit /\ refund = 0 /\ payStatus = "PAID")
    <3>1. Collected = 0 /\ Received <= GoneAstray + Deposit
      BY <2>1, <2>3, CollectedIsOne, ReceivedAtMost
    <3> QED  BY <2>1, <2>3, <3>1 DEF CustomerPaysOnce, Held
  <2>4. CASE status \in {"RECEIVED", "COMPLETED"} /\ refund = 0
             /\ \E p \in Pays : /\ AsksTheRest(p)
                                /\ status = "COMPLETED" => pay[p].status = "PAID" /\ payStatus = "PAID"
    <3>1. Collected \in {0, total - Deposit}
          /\ (status = "COMPLETED" => Collected = total - Deposit /\ payStatus = "PAID")
      BY <2>1, <2>4, CollectedIsOne DEF AsksTheRest
    <3>2. Received <= GoneAstray + Deposit + (total - Deposit)
      BY <2>4, ReceivedAtMost DEF AsksTheRest
    <3> QED  BY <2>1, <2>4, <3>1, <3>2 DEF CustomerPaysOnce, Held
  <2> QED  BY <2>1, <2>2, <2>3, <2>4 DEF PaidState, UnshippedStatuses
<1>2. Init => PaidInv  BY InitPaid
<1>3. IndInv /\ MoneyInv /\ PaidInv /\ [Next]_vars => PaidInv'  BY NextPaid
<1> QED  BY MoneySound, <1>1, <1>2, <1>3, PTL DEF Spec

-----------------------------------------------------------------------------
(* Payments only move forward *)

\* What a step may do to one payment.
RowMoves(q) ==
  \/ pay'[q].status = pay[q].status /\ pay'[q].amount = pay[q].amount
  \/ /\ pay[q].status = "PENDING" /\ pay'[q].status \in {"PAID", "CANCELLED"}
     /\ pay'[q].amount = pay[q].amount
  \/ pay[q].status = "NONE" /\ pay'[q].status \in {"PENDING", "PAID"}

\* What is in the books stays there.
FlowStays(q) == flow[q] > 0 => flow'[q] = flow[q]

LEMMA QrCancelledMoves ==
  ASSUME MoneyTyped, NEW pending, NEW q \in Pays
  PROVE  /\ \/ WithQrCancelled(pending)[q] = pay[q]
            \/ /\ pay[q].status = "PENDING"
               /\ WithQrCancelled(pending)[q].status = "CANCELLED"
         /\ WithQrCancelled(pending)[q].amount = pay[q].amount
<1>1. PICK row : row = pay[q]  OBVIOUS
<1>2. row \in PayRow  BY <1>1 DEF MoneyTyped
<1>3. [row EXCEPT !.status = "CANCELLED"].status = "CANCELLED"
      /\ [row EXCEPT !.status = "CANCELLED"].amount = row.amount
  BY <1>2 DEF PayRow
<1>4. WithQrCancelled(pending)[q] = IF q \in pending /\ row.status = "PENDING"
                                    THEN [row EXCEPT !.status = "CANCELLED"] ELSE row
  BY <1>1 DEF WithQrCancelled
<1> QED  BY <1>1, <1>3, <1>4

\* A new payment beside codes that are given up.
LEMMA NewMoves ==
  ASSUME MoneyTyped, NEW pending, NEW p \in Pays, pay[p].status = "NONE", NEW row,
         row.status \in {"PENDING", "PAID"}, pay' = [WithQrCancelled(pending) EXCEPT ![p] = row]
  PROVE  \A q \in Pays : /\ RowMoves(q)
                         /\ q # p /\ pay[q].status = "NONE" => pay'[q].status = "NONE"
<1>1. DOMAIN WithQrCancelled(pending) = Pays  BY DEF WithQrCancelled
<1>2. pay'[p] = row /\ \A q \in Pays : q # p => pay'[q] = WithQrCancelled(pending)[q]  BY <1>1
<1> QED  BY <1>2, QrCancelledMoves DEF RowMoves

LEMMA NewRow ==
  ASSUME NEW due, NEW remit
  PROVE  /\ CashPayment(due, remit).status = "PAID" /\ CashPayment(due, remit).amount = due
         /\ QrPayment(due).status = "PENDING" /\ QrPayment(due).amount = due
BY DEF CashPayment, QrPayment

LEMMA SamePaysMove ==
  ASSUME UNCHANGED <<pay, flow>>
  PROVE  \A q \in Pays : RowMoves(q) /\ FlowStays(q)
BY DEF RowMoves, FlowStays

LEMMA DeliverMoves ==
  ASSUME MoneyInv, NEW r \in Requests, DeliverCommit(r)
  PROVE  /\ \A q \in Pays : RowMoves(q) /\ FlowStays(q)
         /\ \A q \in Pays : pay[q].status = "NONE" /\ pay'[q].status # "NONE" =>
                              pay'[q].amount = req[r].due
<1>1. PICK x : x = req[r]  OBVIOUS
<1>2. MoneyTyped /\ flow' = flow  BY DEF MoneyInv, DeliverCommit
<1>3. CASE pay' = pay  BY <1>2, <1>3, SamePaysMove
<1>4. ASSUME NEW p \in Pays, pay[p].status = "NONE",
             NEW row \in {CashPayment(x.due, "PENDING"), QrPayment(x.due)},
             pay' = [pay EXCEPT ![p] = row]
      PROVE  /\ \A q \in Pays : RowMoves(q) /\ FlowStays(q)
             /\ \A q \in Pays : pay[q].status = "NONE" /\ pay'[q].status # "NONE" =>
                                  pay'[q].amount = x.due
  <2>1. row.status \in {"PENDING", "PAID"} /\ row.amount = x.due  BY <1>4, NewRow
  <2>2. pay'[p] = row /\ \A q \in Pays : q # p => pay'[q] = pay[q]  BY <1>2, <1>4 DEF MoneyTyped
  <2> QED  BY <1>2, <1>4, <2>1, <2>2 DEF RowMoves, FlowStays
<1>5. \/ pay' = pay
      \/ \E p \in Pays, row \in {CashPayment(x.due, "PENDING"), QrPayment(x.due)} :
           pay[p].status = "NONE" /\ pay' = [pay EXCEPT ![p] = row]
  BY <1>1 DEF DeliverCommit, Deliver, IsNewPayment
<1> QED  BY <1>1, <1>3, <1>4, <1>5

LEMMA PayCashMoves ==
  ASSUME MoneyInv, NEW p \in Pays, PayCash(p)
  PROVE  /\ \A q \in Pays : RowMoves(q) /\ FlowStays(q)
         /\ \A q \in Pays : pay[q].status = "NONE" /\ pay'[q].status # "NONE" =>
                              pay'[q].amount = pay[p].amount
<1>1. PICK row : row = CashPayment(pay[p].amount, "PENDING")  OBVIOUS
<1>2. PICK n \in Pays : /\ pay[n].status = "NONE"
                        /\ pay' = [pay EXCEPT ![p].status = "CANCELLED", ![n] = row]
  BY <1>1 DEF PayCash, IsNewPayment
<1>3. MoneyTyped /\ pay[p].status = "PENDING" /\ flow' = flow
  BY DEF MoneyInv, PayCash, PendingCounterQr
<1>4. row.status = "PAID" /\ row.amount = pay[p].amount  BY <1>1, NewRow
<1>5. n # p /\ pay'[n] = row /\ pay'[p].status = "CANCELLED" /\ pay'[p].amount = pay[p].amount
      /\ \A q \in Pays : q \notin {n, p} => pay'[q] = pay[q]
  <2>1. PICK old, new : old = pay[p] /\ new = [old EXCEPT !.status = "CANCELLED"]  OBVIOUS
  <2>2. new.status = "CANCELLED" /\ new.amount = old.amount
    BY <1>3, <2>1 DEF MoneyTyped, PayRow
  <2>3. pay' = [[pay EXCEPT ![p] = new] EXCEPT ![n] = row]  BY <1>2, <2>1
  <2> QED  BY <1>2, <1>3, <2>1, <2>2, <2>3 DEF MoneyTyped
<1> QED  BY <1>2, <1>3, <1>4, <1>5 DEF RowMoves, FlowStays

LEMMA CollectMoves ==
  ASSUME MoneyInv, NEW r \in Requests, CollectCash(r) \/ CollectQr(r)
  PROVE  /\ \A q \in Pays : RowMoves(q) /\ FlowStays(q)
         /\ \A q \in Pays : pay[q].status = "NONE" /\ pay'[q].status # "NONE" =>
                              pay'[q].amount = req[r].due
<1>1. PICK x : x = req[r]  OBVIOUS
<1>2. PICK p \in Pays, row \in {CashPayment(x.due, "NOT_APPLICABLE"), QrPayment(x.due)} :
        /\ pay[p].status = "NONE"
        /\ pay' = [WithQrCancelled(x.pending) EXCEPT ![p] = row]
        /\ flow' = flow \/ flow' = [flow EXCEPT ![p] = x.due]
  BY <1>1 DEF CollectCash, CollectQr, IsNewPayment
<1>3. MoneyTyped /\ flow[p] = 0  BY <1>2 DEF MoneyInv, Booked, MoneyTyped
<1>4. row.status \in {"PENDING", "PAID"} /\ row.amount = x.due  BY NewRow
<1>5. pay'[p] = row  BY <1>2 DEF WithQrCancelled
<1>6. \A q \in Pays : FlowStays(q)  BY <1>2, <1>3 DEF FlowStays, MoneyTyped
<1> QED  BY <1>1, <1>2, <1>3, <1>4, <1>5, <1>6, NewMoves

LEMMA SettleMoves ==
  ASSUME MoneyInv, NEW p \in Pays, SettleSepayBalance(p)
  PROVE  /\ \A q \in Pays : RowMoves(q) /\ FlowStays(q)
         /\ pay[p].status = "PENDING" /\ pay'[p].status = "PAID" /\ pay'[p].amount = pay[p].amount
         /\ \A q \in Pays : q # p => pay'[q] = pay[q]
<1>1. /\ pay[p].status = "PENDING" /\ pay' = [pay EXCEPT ![p].status = "PAID"]
      /\ flow' = [flow EXCEPT ![p] = bank[p]]
  BY DEF SettleSepayBalance, Bookable
<1>2. MoneyTyped /\ flow[p] = 0  BY <1>1 DEF MoneyInv, Booked, MoneyTyped
<1>3. pay'[p].status = "PAID" /\ pay'[p].amount = pay[p].amount
      /\ \A q \in Pays : q # p => pay'[q] = pay[q]
  <2>1. PICK old, new : old = pay[p] /\ new = [old EXCEPT !.status = "PAID"]  OBVIOUS
  <2>2. new.status = "PAID" /\ new.amount = old.amount  BY <1>2, <2>1 DEF MoneyTyped, PayRow
  <2>3. pay' = [pay EXCEPT ![p] = new]  BY <1>1, <2>1
  <2> QED  BY <1>2, <2>1, <2>2, <2>3 DEF MoneyTyped
<1>4. \A q \in Pays : FlowStays(q)  BY <1>1, <1>2 DEF FlowStays, MoneyTyped
<1> QED  BY <1>1, <1>3, <1>4 DEF RowMoves

LEMMA RemittanceMoves ==
  ASSUME MoneyInv, NEW r \in Requests, RemittanceCommit(r)
  PROVE  /\ \A q \in Pays : RowMoves(q) /\ FlowStays(q)
         /\ \A q \in Pays : pay'[q].status = pay[q].status
<1>1. PICK x : x = req[r]  OBVIOUS
<1>2. /\ \A p \in x.pays : pay[p].remit = "PENDING"
      /\ pay' = [p \in Pays |-> IF p \in x.pays THEN [pay[p] EXCEPT !.remit = "RECEIVED"]
                                ELSE pay[p]]
      /\ flow' = [p \in Pays |-> IF p \in x.pays THEN pay[p].amount ELSE flow[p]]
  BY <1>1 DEF RemittanceCommit
<1>3. ASSUME NEW k \in Pays
      PROVE  /\ pay'[k].status = pay[k].status /\ pay'[k].amount = pay[k].amount
             /\ FlowStays(k)
  <2>1. PICK old, new : old = pay[k] /\ new = [old EXCEPT !.remit = "RECEIVED"]  OBVIOUS
  <2>2. new.status = old.status /\ new.amount = old.amount
    BY <2>1 DEF MoneyInv, MoneyTyped, PayRow
  <2>3. pay'[k] = old \/ pay'[k] = new  BY <1>2, <2>1
  <2>4. k \in x.pays => ~(flow[k] > 0)  BY <1>2 DEF MoneyInv, Booked
  <2> QED  BY <1>2, <2>1, <2>2, <2>3, <2>4 DEF FlowStays
<1> QED  BY <1>3 DEF RowMoves

LEMMA GivenUpMoves ==
  ASSUME MoneyInv, flow' = flow, NEW pending, pay' = WithQrCancelled(pending)
  PROVE  /\ \A q \in Pays : RowMoves(q) /\ FlowStays(q)
         /\ \A q \in Pays : pay[q].status = "NONE" => pay'[q].status = "NONE"
<1>1. \A q \in Pays : \/ pay'[q] = pay[q]
                      \/ /\ pay[q].status = "PENDING" /\ pay'[q].status = "CANCELLED"
                         /\ pay'[q].amount = pay[q].amount
  BY QrCancelledMoves DEF MoneyInv
<1> QED  BY <1>1 DEF RowMoves, FlowStays

LEMMA PaysMove == MoneyInv /\ [Next]_vars => \A q \in Pays : RowMoves(q) /\ FlowStays(q)
<1> SUFFICES ASSUME MoneyInv, [Next]_vars PROVE \A q \in Pays : RowMoves(q) /\ FlowStays(q)
  OBVIOUS
<1> USE DEF orderVars, goodsVars, moneyVars
<1>1. CASE UNCHANGED <<pay, flow>>  BY <1>1, SamePaysMove
<1>2. ASSUME NEW r \in Requests,
             \/ UpdateRead(r) \/ PackRead(r) \/ ShipmentRead(r) \/ RemittanceRead(r)
             \/ CollectRead(r) \/ CancelRead(r) \/ HandOverRead(r)
             \/ \E s \in Ships : ShipRead(r, s) \/ DeliverRead(r, s)
      PROVE  UNCHANGED <<pay, flow>>
  BY <1>2 DEF UpdateRead, PackRead, ShipmentRead, RemittanceRead, CollectRead, CancelRead,
     HandOverRead, ShipRead, DeliverRead, Read
<1>3. ASSUME NEW r \in Requests,
             \/ PackCommit(r) \/ ShipmentCommit(r) \/ ShipCommit(r) \/ HandOverCommit(r) \/ Abandon(r)
      PROVE  UNCHANGED <<pay, flow>>
  BY <1>3 DEF PackCommit, ShipmentCommit, ShipCommit, HandOverCommit, Abandon
<1>4. ASSUME NEW s \in Ships, PickUp(s) \/ AddEvent(s) \/ Fail(s) PROVE UNCHANGED <<pay, flow>>
  BY <1>4 DEF PickUp, AddEvent, Fail, ClaimOnTheRoad
<1>5. ASSUME NEW p \in Pays, Transfer(p) PROVE UNCHANGED <<pay, flow>>
  BY <1>5 DEF Transfer
<1>6. CASE ClaimUnshipped  BY <1>1, <1>6 DEF ClaimUnshipped
<1>7. CASE UNCHANGED vars  BY <1>1, <1>7 DEF vars
<1>8. ASSUME NEW r \in Requests, UpdateCommit(r) PROVE \A q \in Pays : RowMoves(q) /\ FlowStays(q)
  BY <1>1, <1>8, GivenUpMoves DEF UpdateCommit
<1>9. ASSUME NEW r \in Requests, CancelCommit(r) PROVE \A q \in Pays : RowMoves(q) /\ FlowStays(q)
  BY <1>9, GivenUpMoves DEF CancelCommit
<1> QED
  BY <1>1, <1>2, <1>3, <1>4, <1>5, <1>6, <1>7, <1>8, <1>9, DeliverMoves, PayCashMoves, CollectMoves,
     SettleMoves, RemittanceMoves DEF Next

\* A request that read payments earlier never rewrites one that was settled
\* since: paid or cancelled is final, and so is what the books say of it.
THEOREM SettledMoneyStays == Spec => SettledMoneyIsFinal
<1>1. ASSUME MoneyInv, [Next]_vars
      PROVE  [\A p \in Pays :
               /\ pay[p].status \in {"PAID", "CANCELLED"}
                    => pay'[p].status = pay[p].status /\ pay'[p].amount = pay[p].amount
               /\ flow[p] > 0 => flow'[p] = flow[p]]_vars
  BY <1>1, PaysMove DEF RowMoves, FlowStays
<1> QED  BY <1>1, MoneySound, PTL DEF Spec, SettledMoneyIsFinal

-----------------------------------------------------------------------------
(* What is left when a pickup order ends *)

\* The total is not edited after the order was made.
OneTotal == \E t : Totals = {t}

\* Everything the customer ever paid, refunds aside.
Gross == Deposit + Collected

\* What a request has read of the money is still enough.
CounterRead(x) ==
  /\ x.op = "collect" => Gross + x.due >= total
  /\ x.op = "handOver" => Gross >= total
  /\ x.op = "deliver" => Deposit + x.due >= total
  /\ x.op = "confirmRemittance" => x.pays \subseteq Pays /\ x.pays # {}

CounterState ==
  /\ total \in Totals
  /\ status # "CANCELLED" => refund = 0
  /\ status = "COMPLETED" => Gross >= total
  /\ PaidPays # {} => Gross >= total
  /\ \A p \in Pays : pay[p].status = "PENDING" => Gross + pay[p].amount >= total

CounterInv == CounterState /\ \A r \in Requests : CounterRead(req[r])

LEMMA InitCounter == Init => CounterInv
<1> SUFFICES ASSUME Init PROVE CounterInv  OBVIOUS
<1>1. PaidPays = {} /\ \A p \in Pays : pay[p].status = "NONE"
  BY DEF Init, PaidPays, NoPayment
<1> QED  BY <1>1 DEF Init, CounterInv, CounterState, CounterRead, Idle

\* Money that came in stays in, and a payment that becomes paid adds to it.
LEMMA GrossGrows ==
  ASSUME MoneyTyped, MoneyTyped', \A q \in Pays : RowMoves(q)
  PROVE  /\ Gross \in Nat /\ Gross' \in Nat /\ Gross' >= Gross
         /\ PaidPays \subseteq PaidPays'
         /\ \A p \in PaidPays' \ PaidPays : pay'[p].amount \in Nat /\ Gross' >= Gross + pay'[p].amount
<1>1. PICK f, g : f = [p \in Pays |-> pay[p].amount] /\ g = [p \in Pays |-> pay'[p].amount]
  OBVIOUS
<1>3. PaidPays \subseteq PaidPays' /\ \A q \in PaidPays : g[q] = f[q]
  BY <1>1 DEF PaidPays, RowMoves
<1>4. /\ PaidPays' \subseteq Pays /\ IsFiniteSet(PaidPays') /\ IsFiniteSet(PaidPays)
      /\ \A q \in PaidPays' : g[q] \in Nat /\ g[q] = pay'[q].amount
  BY <1>1, HeldIsNumber, FS_Subset DEF PaidPays, MoneyTyped, PayRow
<1>2. /\ Collected = SumFunctionOnSet(f, PaidPays) /\ Collected' = SumFunctionOnSet(g, PaidPays')
      /\ Collected \in Nat /\ Collected' \in Nat /\ IsFiniteSet(Pays)
  <2>1. SumFunctionOnSet(g, PaidPays') \in Nat  BY <1>4, SumNat
  <2> QED  BY <1>1, <2>1, HeldIsNumber DEF Collected
<1>5. SumFunctionOnSet(g, PaidPays) = Collected  BY <1>2, <1>3, <1>4, SumSame
<1>6. Collected' >= Collected  BY <1>2, <1>3, <1>4, <1>5, SumSubset
<1>7. ASSUME NEW p \in PaidPays' \ PaidPays PROVE Collected' >= Collected + pay'[p].amount
  <2>1. SumFunctionOnSet(g, PaidPays \cup {p}) = g[p] + SumFunctionOnSet(g, PaidPays)
    <3>1. p \notin PaidPays /\ \A x \in PaidPays \cup {p} : g[x] \in Int  BY <1>3, <1>4, <1>7
    <3> QED  BY <1>4, <3>1, SumAdd
  <2>2. SumFunctionOnSet(g, PaidPays \cup {p}) <= Collected'
    BY <1>2, <1>3, <1>4, SumSubset
  <2> QED  BY <1>2, <1>4, <1>5, <2>1, <2>2
<1> QED  BY <1>2, <1>3, <1>4, <1>6, <1>7, MoneyAssumption DEF Gross

\* New payments ask for what was due.
NewCovers(q) == pay[q].status = "NONE" /\ pay'[q].status # "NONE" =>
                  Gross + pay'[q].amount >= total

LEMMA CounterStep ==
  ASSUME OneTotal, IndInv, MoneyInv, MoneyInv', CounterInv, Answered, total' \in Totals,
         \A q \in Pays : RowMoves(q) /\ NewCovers(q),
         status' # "CANCELLED" => status # "CANCELLED" /\ refund' = refund,
         status' = "COMPLETED" => status = "COMPLETED" \/ Gross >= total \/ Gross' >= total
  PROVE  CounterInv'
<1>1. total' = total /\ total \in Nat  BY DEF OneTotal, CounterInv, CounterState, MoneyInv, MoneyTyped
<1>2. /\ Gross \in Nat /\ Gross' \in Nat /\ Gross' >= Gross /\ PaidPays \subseteq PaidPays'
      /\ \A p \in PaidPays' \ PaidPays : pay'[p].amount \in Nat /\ Gross' >= Gross + pay'[p].amount
  BY GrossGrows DEF MoneyInv
<1>3. ASSUME NEW p \in Pays
      PROVE  pay[p].amount \in Nat /\ pay'[p].amount \in Nat
  BY DEF MoneyInv, MoneyTyped, PayRow
<1>4. PaidPays' # {} => Gross' >= total
  <2>1. CASE PaidPays # {}  BY <1>1, <1>2, <2>1 DEF CounterInv, CounterState
  <2>2. ASSUME NEW p \in PaidPays' \ PaidPays PROVE Gross' >= total
    <3>1. p \in Pays /\ pay'[p].status = "PAID" /\ pay[p].status # "PAID"
      BY <2>2 DEF PaidPays
    <3>2. Gross + pay'[p].amount >= total
      BY <1>3, <3>1 DEF RowMoves, NewCovers, CounterInv, CounterState
    <3> QED  BY <1>1, <1>2, <2>2, <3>2
  <2> QED  BY <2>1, <2>2
<1>5. ASSUME NEW p \in Pays, pay'[p].status = "PENDING" PROVE Gross' + pay'[p].amount >= total
  <2>1. Gross + pay'[p].amount >= total
    BY <1>3, <1>5 DEF RowMoves, NewCovers, CounterInv, CounterState
  <2> QED  BY <1>1, <1>2, <1>3, <2>1
<1>6. CounterState'
  BY <1>1, <1>2, <1>4, <1>5 DEF CounterInv, CounterState
<1>7. ASSUME NEW q \in Requests PROVE CounterRead(req[q])'
  <2>1. CASE req'[q] = req[q]
    <3>1. PICK x : x = req[q]  OBVIOUS
    <3>2. CounterRead(x) /\ MoneyRead(x)  BY <3>1 DEF CounterInv, MoneyInv
    <3>3. x.op = "collect" => Gross' + x.due >= total'
      BY <1>1, <1>2, <3>2 DEF CounterRead, MoneyRead
    <3>4. x.op = "handOver" => Gross' >= total'  BY <1>1, <1>2, <3>2 DEF CounterRead
    <3>5. x.op = "deliver" => Deposit + x.due >= total'  BY <1>1, <3>2 DEF CounterRead
    <3> QED  BY <2>1, <3>1, <3>2, <3>3, <3>4, <3>5 DEF CounterRead
  <2>2. CASE req'[q].op \in {"idle", "update"}  BY <2>2 DEF CounterRead
  <2> QED  BY <2>1, <2>2, AnswersKept
<1> QED  BY <1>6, <1>7 DEF CounterInv

LEMMA CounterQuiet ==
  ASSUME IndInv, MoneyInv, CounterInv, UNCHANGED <<total, pay, refund>>,
         status' = status \/ (status # "CANCELLED" /\ status' # "COMPLETED")
  PROVE  /\ CounterState'
         /\ Answered => CounterInv'
         /\ \A r \in Requests : \A x : Read(r, x) /\ CounterRead(x) => CounterInv'
<1>1. PaidPays' = PaidPays /\ Gross' = Gross  BY DEF PaidPays, Gross, Collected
<1>2. CounterState'  BY <1>1 DEF CounterInv, CounterState
<1>3. ASSUME Answered PROVE \A q \in Requests : CounterRead(req[q])'
  BY <1>1, <1>3, AnswersKept DEF CounterInv, CounterRead
<1>4. ASSUME NEW r \in Requests, NEW x, Read(r, x), CounterRead(x)
      PROVE  \A q \in Requests : CounterRead(req[q])'
  BY <1>1, <1>4 DEF Read, IndInv, GoodsTypeOK, CounterInv, CounterRead
<1> QED  BY <1>2, <1>3, <1>4 DEF CounterInv

LEMMA ReadsKeepCounter ==
  ASSUME IndInv, MoneyInv, CounterInv, NEW r \in Requests, NEW x, Read(r, x), CounterRead(x)
  PROVE  CounterInv'
<1>1. UNCHANGED <<status, total, pay, refund>>  BY DEF Read, orderVars, moneyVars
<1> QED  BY <1>1, CounterQuiet

\* The commits that write payments.
LEMMA CommitsKeepCounter ==
  ASSUME OneTotal, IndInv, MoneyInv, MoneyInv', CounterInv, NEW r \in Requests,
         UpdateCommit(r) \/ DeliverCommit(r) \/ RemittanceCommit(r) \/ CollectCash(r)
           \/ CollectQr(r) \/ CancelCommit(r)
  PROVE  CounterInv'
<1>1. PICK x : x = req[r]  OBVIOUS
<1>2. CounterRead(x) /\ CounterState /\ MoneyTyped
  BY <1>1 DEF CounterInv, MoneyInv
<1>3. UNCHANGED total => total' \in Totals  BY <1>2 DEF CounterState
<1>4. CASE UpdateCommit(r)
  <2>1. /\ status \in UnshippedStatuses /\ UNCHANGED <<status, refund, flow>> /\ Answered
        /\ total' \in Totals \cup {total}
        /\ pay' = pay \/ pay' = WithQrCancelled(x.pending)
    BY <1>1, <1>4 DEF UpdateCommit, Answered
  <2>2. \A q \in Pays : RowMoves(q) /\ NewCovers(q)
    BY <2>1, SamePaysMove, GivenUpMoves DEF NewCovers
  <2>3. total' \in Totals  BY <1>2, <2>1 DEF CounterState
  <2> QED  BY <2>1, <2>2, <2>3, CounterStep DEF UnshippedStatuses
<1>5. CASE DeliverCommit(r)
  <2>1. /\ x.op = "deliver" /\ status = "SHIPPING" /\ UNCHANGED <<total, refund>> /\ Answered
        /\ status' \in {"RECEIVED", "COMPLETED"} /\ (status' = "COMPLETED" => x.due = 0)
    BY <1>1, <1>5 DEF DeliverCommit, Deliver, Answered
  <2>2. /\ Collected \in Nat /\ Deposit \in Nat /\ total \in Nat /\ x.due \in Nat
        /\ Deposit + x.due >= total
    BY <1>1, <1>2, <2>1, HeldIsNumber, MoneyAssumption
       DEF CounterRead, MoneyInv, MoneyRead, MoneyTyped
  <2>3. Gross + x.due >= total  BY <2>2 DEF Gross
  <2>4. \A q \in Pays : RowMoves(q) /\ NewCovers(q)
    BY <1>1, <1>5, <2>3, DeliverMoves DEF NewCovers
  <2>5. status' = "COMPLETED" => Gross >= total  BY <2>1, <2>2, <2>3 DEF Gross
  <2> QED  BY <1>3, <2>1, <2>4, <2>5, CounterStep
<1>6. CASE RemittanceCommit(r)
  <2>1. /\ x.op = "confirmRemittance" /\ status = "RECEIVED" /\ UNCHANGED <<total, refund>>
        /\ Answered /\ status' = "COMPLETED" /\ \A p \in x.pays : pay[p].remit = "PENDING"
    BY <1>1, <1>6 DEF RemittanceCommit, Answered
  <2>2. PICK p \in Pays : p \in x.pays  BY <1>2, <2>1 DEF CounterRead
  <2>3. p \in PaidPays  BY <2>1, <2>2 DEF MoneyInv, Booked, PaidPays
  <2>4. Gross >= total  BY <1>2, <2>3 DEF CounterState
  <2>5. \A q \in Pays : RowMoves(q) /\ NewCovers(q)  BY <1>6, RemittanceMoves DEF NewCovers
  <2> QED  BY <1>3, <2>1, <2>4, <2>5, CounterStep
<1>7. CASE CollectCash(r) \/ CollectQr(r)
  <2>1. x.op = "collect" /\ UNCHANGED <<status, total, refund>> /\ Answered
    BY <1>1, <1>7 DEF CollectCash, CollectQr, Answered, orderVars
  <2>2. Gross + x.due >= total  BY <1>2, <2>1 DEF CounterRead
  <2>3. \A q \in Pays : RowMoves(q) /\ NewCovers(q)
    BY <1>1, <1>7, <2>2, CollectMoves DEF NewCovers
  <2> QED  BY <1>3, <2>1, <2>3, CounterStep
<1>8. CASE CancelCommit(r)
  <2>1. /\ status' = "CANCELLED" /\ UNCHANGED <<total, flow>> /\ Answered
        /\ pay' = WithQrCancelled(x.pending)
    BY <1>1, <1>8 DEF CancelCommit, Answered
  <2>2. \A q \in Pays : RowMoves(q) /\ NewCovers(q)  BY <2>1, GivenUpMoves DEF NewCovers
  <2> QED  BY <1>3, <2>1, <2>2, CounterStep
<1> QED  BY <1>4, <1>5, <1>6, <1>7, <1>8

LEMMA PaymentsKeepCounter ==
  ASSUME OneTotal, IndInv, MoneyInv, MoneyInv', CounterInv, NEW p \in Pays,
         PayCash(p) \/ SettleSepayBalance(p)
  PROVE  CounterInv'
<1>1. pay[p].status = "PENDING" /\ Gross + pay[p].amount >= total
  BY DEF PayCash, PendingCounterQr, SettleSepayBalance, Bookable, CounterInv, CounterState
<1>2. UNCHANGED total => total' \in Totals  BY DEF CounterInv, CounterState
<1>3. CASE PayCash(p)
  <2>1. UNCHANGED <<status, total, refund>> /\ Answered  BY <1>3 DEF PayCash, Answered
  <2>2. \A q \in Pays : RowMoves(q) /\ NewCovers(q)
    BY <1>1, <1>3, PayCashMoves DEF NewCovers
  <2> QED  BY <1>2, <2>1, <2>2, CounterStep
<1>4. CASE SettleSepayBalance(p)
  <2>1. /\ UNCHANGED <<total, refund>> /\ Answered
        /\ status' = status \/ (status = "RECEIVED" /\ status' = "COMPLETED")
    BY <1>4 DEF SettleSepayBalance, CompletesOrder, Answered
  <2>2. /\ \A q \in Pays : RowMoves(q) /\ NewCovers(q)
        /\ pay'[p].status = "PAID" /\ pay'[p].amount = pay[p].amount
    BY <1>1, <1>4, SettleMoves DEF NewCovers
  <2>3. p \in PaidPays' \ PaidPays  BY <1>1, <2>2 DEF PaidPays
  <2>4. Gross' >= Gross + pay'[p].amount /\ Gross \in Nat /\ Gross' \in Nat /\ total \in Nat
        /\ pay'[p].amount \in Nat
    BY <2>2, <2>3, GrossGrows DEF MoneyInv, MoneyTyped
  <2>5. Gross' >= total  BY <1>1, <2>2, <2>4
  <2> QED  BY <1>2, <2>1, <2>2, <2>5, CounterStep
<1> QED  BY <1>3, <1>4

LEMMA NextCounter ==
  ASSUME OneTotal, IndInv, MoneyInv, MoneyInv', CounterInv, [Next]_vars
  PROVE  CounterInv'
<1>0. /\ Deposit \in Nat /\ total \in Nat /\ refund \in Nat /\ Collected \in Nat
      /\ CounterState /\ \A r \in Requests : CounterRead(req[r])
  BY MoneyAssumption, HeldIsNumber DEF MoneyInv, MoneyTyped, CounterInv
<1> USE DEF orderVars, goodsVars, moneyVars
<1>1. CASE UNCHANGED vars  BY <1>1, CounterQuiet DEF vars, Answered
<1>2. ASSUME NEW r \in Requests,
             \/ UpdateRead(r) \/ PackRead(r) \/ ShipmentRead(r) \/ CancelRead(r)
             \/ \E s \in Ships : ShipRead(r, s)
      PROVE  CounterInv'
  <2>1. ASSUME NEW x, Read(r, x), x.op \in {"update", "packOrder", "createShipment", "shipOrder", "cancel"}
        PROVE  CounterInv'
    <3>1. CounterRead(x)  BY <2>1 DEF CounterRead
    <3> QED  BY <2>1, <3>1, ReadsKeepCounter
  <2>2. CASE UpdateRead(r)  BY <2>1, <2>2 DEF UpdateRead
  <2>3. CASE PackRead(r)  BY <2>1, <2>3 DEF PackRead
  <2>4. CASE ShipmentRead(r)  BY <2>1, <2>4 DEF ShipmentRead
  <2>5. CASE \E s \in Ships : ShipRead(r, s)  BY <2>1, <2>5 DEF ShipRead
  <2>6. CASE CancelRead(r)  BY <2>1, <2>6 DEF CancelRead
  <2> QED  BY <1>2, <2>2, <2>3, <2>4, <2>5, <2>6
<1>3. ASSUME NEW r \in Requests, NEW s \in Ships, DeliverRead(r, s) PROVE CounterInv'
  <2>1. PICK x : x = [op |-> "deliver", sh |-> s, due |-> DeliveryAmountDue]  OBVIOUS
  <2>2. Read(r, x)  BY <1>3, <2>1 DEF DeliverRead
  <2>3. x.op = "deliver" /\ x.due = DeliveryAmountDue  BY <2>1
  <2>4. Deposit + x.due >= total  BY <1>0, <2>3, ShortfallIsNumber DEF DeliveryAmountDue
  <2>5. CounterRead(x)  BY <2>3, <2>4 DEF CounterRead
  <2> QED  BY <2>2, <2>5, ReadsKeepCounter
<1>4. ASSUME NEW r \in Requests, RemittanceRead(r) PROVE CounterInv'
  <2>1. PICK x : x = [op |-> "confirmRemittance", pays |-> AwaitingRemittance]  OBVIOUS
  <2>2. Read(r, x) /\ AwaitingRemittance # {}  BY <1>4, <2>1 DEF RemittanceRead
  <2>3. x.op = "confirmRemittance" /\ x.pays = AwaitingRemittance  BY <2>1
  <2>4. CounterRead(x)  BY <2>2, <2>3 DEF CounterRead, AwaitingRemittance, PaidPays
  <2> QED  BY <2>2, <2>4, ReadsKeepCounter
<1>5. status = "PACKED" => Held = Gross /\ Gross \in Nat
  BY <1>0 DEF CounterState, Held, Gross
<1>6. ASSUME NEW r \in Requests, CollectRead(r) PROVE CounterInv'
  <2>1. PICK x : x = [op |-> "collect", due |-> PickupAmountDue, pending |-> PendingCounterQr]
    OBVIOUS
  <2>2. Read(r, x) /\ status = "PACKED"  BY <1>6, <2>1 DEF CollectRead, PickupReady
  <2>3. x.op = "collect" /\ x.due = PickupAmountDue  BY <2>1
  <2>4. Gross + x.due >= total
    BY <1>0, <1>5, <2>2, <2>3, ShortfallIsNumber DEF PickupAmountDue
  <2>5. CounterRead(x)  BY <2>3, <2>4 DEF CounterRead
  <2> QED  BY <2>2, <2>5, ReadsKeepCounter
<1>7. ASSUME NEW r \in Requests, HandOverRead(r) PROVE CounterInv'
  <2>1. PICK x : x = [op |-> "handOver", qty |-> ful.qty]  OBVIOUS
  <2>2. Read(r, x) /\ status = "PACKED" /\ PickupAmountDue = 0
    BY <1>7, <2>1 DEF HandOverRead, PickupReady
  <2>3. x.op = "handOver"  BY <2>1
  <2>4. Gross >= total  BY <1>0, <1>5, <2>2 DEF PickupAmountDue, Shortfall
  <2>5. CounterRead(x)  BY <2>3, <2>4 DEF CounterRead
  <2> QED  BY <2>2, <2>5, ReadsKeepCounter
<1>8. ASSUME NEW r \in Requests, HandOverCommit(r) PROVE CounterInv'
  <2>1. /\ req[r].op = "handOver" /\ status = "PACKED" /\ status' = "COMPLETED"
        /\ UNCHANGED <<total, pay, flow, refund>> /\ Answered
    BY <1>8 DEF HandOverCommit, Answered
  <2>2. Gross >= total  BY <1>0, <2>1 DEF CounterRead
  <2>3. \A q \in Pays : RowMoves(q) /\ NewCovers(q)  BY <2>1, SamePaysMove DEF NewCovers
  <2>4. total' \in Totals  BY <1>0, <2>1 DEF CounterState
  <2> QED  BY <2>1, <2>2, <2>3, <2>4, CounterStep
<1>9. ASSUME NEW r \in Requests, PackCommit(r) \/ ShipmentCommit(r) \/ ShipCommit(r) \/ Abandon(r)
      PROVE  CounterInv'
  BY <1>9, CounterQuiet DEF PackCommit, PackClaim, ShipmentCommit, ShipmentClaim, ShipCommit,
     Abandon, Answered
<1>10. ASSUME NEW s \in Ships, PickUp(s) \/ AddEvent(s) \/ Fail(s) PROVE CounterInv'
  BY <1>10, CounterQuiet DEF PickUp, AddEvent, Fail, ClaimOnTheRoad, Answered
<1>11. ASSUME NEW p \in Pays, Transfer(p) PROVE CounterInv'
  BY <1>11, CounterQuiet DEF Transfer, Answered
<1>12. CASE ClaimUnshipped  BY <1>12, CounterQuiet DEF ClaimUnshipped, Answered
<1> QED
  BY <1>1, <1>2, <1>3, <1>4, <1>6, <1>7, <1>8, <1>9, <1>10, <1>11, <1>12, CommitsKeepCounter,
     PaymentsKeepCounter DEF Next

LEMMA CancelClosesAll == IndInv /\ CancelLeavesNothingOpen /\ [Next]_vars => CancelLeavesNothingOpen'
<1> SUFFICES ASSUME IndInv, CancelLeavesNothingOpen, [Next]_vars, status' = "CANCELLED"
             PROVE  CancelLeavesNothingOpen'
  BY DEF CancelLeavesNothingOpen
<1> USE DEF orderVars, goodsVars, moneyVars
<1>1. CASE UNCHANGED <<status, item, ful, ship>>
  <2>1. OpenShipments' = OpenShipments  BY <1>1 DEF OpenShipments
  <2> QED  BY <1>1, <2>1 DEF CancelLeavesNothingOpen
<1>2. ASSUME NEW r \in Requests, CancelCommit(r) PROVE CancelLeavesNothingOpen'
  <2>1. /\ ship' = [s \in Ships |-> IF s \in OpenShipments
                                    THEN [ship[s] EXCEPT !.status = "CANCELLED"] ELSE ship[s]]
        /\ item' = [l \in Lines |-> IF item[l].status = "PENDING"
                                    THEN [item[l] EXCEPT !.status = "CANCELLED"] ELSE item[l]]
    BY <1>2 DEF CancelCommit
  <2>2. ASSUME NEW s \in Ships PROVE ship'[s].status \in FinalShipmentStatuses \cup {"NONE"}
    <3>1. PICK old : old = ship[s]  OBVIOUS
    <3>2. [old EXCEPT !.status = "CANCELLED"].status = "CANCELLED"
      BY <3>1 DEF IndInv, GoodsTypeOK
    <3> QED  BY <2>1, <3>1, <3>2 DEF OpenShipments, FinalShipmentStatuses
  <2>3. OpenShipments' = {}  BY <2>2 DEF OpenShipments, FinalShipmentStatuses
  <2>4. ASSUME NEW l \in Lines PROVE item'[l].status # "PENDING"
    <3>1. PICK old : old = item[l]  OBVIOUS
    <3>2. [old EXCEPT !.status = "CANCELLED"].status = "CANCELLED"
      BY <3>1 DEF IndInv, GoodsTypeOK
    <3> QED  BY <2>1, <3>1, <3>2
  <2>5. ful'.status \in {"NONE", "CANCELLED"}
    BY NextIndInv DEF IndInv, FulfillmentFollowsOrder
  <2> QED  BY <2>3, <2>4, <2>5 DEF CancelLeavesNothingOpen
<1>3. ASSUME NEW r \in Requests,
             \/ UpdateRead(r) \/ PackRead(r) \/ ShipmentRead(r) \/ RemittanceRead(r)
             \/ CollectRead(r) \/ CancelRead(r) \/ HandOverRead(r)
             \/ \E s \in Ships : ShipRead(r, s) \/ DeliverRead(r, s)
      PROVE  UNCHANGED <<status, item, ful, ship>>
  BY <1>3 DEF UpdateRead, PackRead, ShipmentRead, RemittanceRead, CollectRead, CancelRead,
     HandOverRead, ShipRead, DeliverRead, Read
<1>4. ASSUME NEW r \in Requests, CollectCash(r) \/ CollectQr(r) \/ Abandon(r)
      PROVE  UNCHANGED <<status, item, ful, ship>>
  BY <1>4 DEF CollectCash, CollectQr, Abandon
<1>5. ASSUME NEW r \in Requests,
             \/ UpdateCommit(r) \/ PackCommit(r) \/ ShipmentCommit(r) \/ ShipCommit(r)
             \/ DeliverCommit(r) \/ RemittanceCommit(r) \/ HandOverCommit(r)
      PROVE  FALSE
  BY <1>5 DEF UpdateCommit, PackCommit, PackClaim, ShipmentCommit, ShipmentClaim, ShipCommit,
     DeliverCommit, Deliver, RemittanceCommit, HandOverCommit, UnshippedStatuses
<1>6. ASSUME NEW s \in Ships, PickUp(s) \/ AddEvent(s) \/ Fail(s) PROVE FALSE
  BY <1>6 DEF PickUp, AddEvent, Fail, ClaimOnTheRoad
<1>7. ASSUME NEW p \in Pays, PayCash(p) \/ Transfer(p) \/ SettleSepayBalance(p)
      PROVE  UNCHANGED <<status, item, ful, ship>>
  BY <1>7 DEF PayCash, Transfer, SettleSepayBalance
<1>8. CASE ClaimUnshipped  BY <1>1, <1>8 DEF ClaimUnshipped
<1>9. CASE UNCHANGED vars  BY <1>1, <1>9 DEF vars
<1> QED
  BY <1>1, <1>2, <1>3, <1>4, <1>5, <1>6, <1>7, <1>8, <1>9 DEF Next

\* An order whose total stays ends clean: cancelled, it leaves no line, shipment
\* or fulfillment open, and completed, whatever was collected by cash, code,
\* shipper or counter in whatever order, everything due has been received.
THEOREM PickupsEndClean == OneTotal => (Spec => []PickupEndsClean)
<1> SUFFICES ASSUME OneTotal PROVE Spec => []PickupEndsClean  OBVIOUS
<1>1. MoneyInv /\ CounterInv /\ CancelLeavesNothingOpen => PickupEndsClean
  <2> SUFFICES ASSUME MoneyInv, CounterInv, status = "COMPLETED" PROVE Held >= total
    BY DEF PickupEndsClean, CounterSaleIsPaid
  <2>1. refund = 0 /\ Gross >= total /\ Collected \in Nat /\ Deposit \in Nat
    BY HeldIsNumber, MoneyAssumption DEF CounterInv, CounterState, MoneyInv
  <2> QED  BY <2>1 DEF Held, Gross
<1>2. Init => CounterInv  BY InitCounter
<1>3. Init => CancelLeavesNothingOpen  BY DEF Init, CancelLeavesNothingOpen
<1>4. IndInv /\ MoneyInv /\ MoneyInv' /\ CounterInv /\ [Next]_vars => CounterInv'
  BY NextCounter
<1> QED  BY MoneySound, CancelClosesAll, <1>1, <1>2, <1>3, <1>4, PTL DEF Spec
=============================================================================
