------------------------ MODULE OrderReturns_proofs ------------------------
(***************************************************************************)
(* Theorems about OrderReturns for any lines, quantities, lots, number of  *)
(* returns and of concurrent requests: what RETURNED means, that the bill  *)
(* covers what the customer keeps, that the journey table is followed, and *)
(* that a unit comes back once, into a lot it left. And about              *)
(* StockMovement, whose returns share the lots and the ledger, for any     *)
(* places, documents, lots and concurrent requests: that rows, lots,       *)
(* ledger, documents and debt tell the same story.                         *)
(***************************************************************************)
EXTENDS OrderReturns, StockMovement, SumTheorems

\* The lines a request has raised and holds until it commits.
HeldBy(x) == IF x.op \in {"inspect", "settle"}
             THEN LinesOf(x.ret) \ x.todo ELSE {}

\* qty covers all that is still out, and does so for ever: returnedQuantity
\* only grows.
BringsAll(qty) == \A l \in Lines : Sold[l] <= returned[l] + qty[l]

\* What is still true of the data an open request holds.
OpenOK(x) ==
  /\ x.op \in {"idle", "create", "failed", "received", "inspect", "settle",
               "complete"}
  /\ x.op = "create" => /\ x.qty \in Units
                        /\ x.failed \in BOOLEAN
                        /\ x.failed = TRUE => BringsAll(x.qty)
  /\ x.op \in {"failed", "received", "inspect", "settle"}
       => x.ret \in Returns /\ ret[x.ret].status # "NONE"
  /\ x.op \in {"failed", "received"} => BringsAll(ret[x.ret].qty)
  /\ x.op \in {"inspect", "settle"} =>
       /\ x.failed \in BOOLEAN
       /\ x.failed = TRUE => BringsAll(ret[x.ret].qty)
       /\ \A l \in HeldBy(x) : returned[l] + ret[x.ret].qty[l] <= Sold[l]
  /\ x.op = "settle" =>
       /\ x.todo = {}
       /\ x.moves \in BOOLEAN
       /\ x.moves = TRUE =>
            /\ x.from \in ReturnableOrderStatuses
            /\ \A l \in Lines : returned[l] + ret[x.ret].qty[l] = Sold[l]
  /\ x.op = "complete" =>
       /\ x.from \in {"SHIPPING", "RECEIVED"}
       /\ status = x.from
       /\ x.keep \in Units
       /\ \A l \in Lines : Sold[l] <= x.keep[l] + returned[l]
       /\ x.invoice = "CANCELLED" => invoice = "CANCELLED"

RowsOK ==
  /\ status \in ReturnableOrderStatuses \cup {"RETURNED"}
  /\ returned \in Units
  /\ \A l \in Lines : returned[l] <= Sold[l]
  /\ ret \in [Returns -> [status : OpenReturnStatuses
                                   \cup {"NONE", "COMPLETED", "CANCELLED"},
                          qty : Units]]
  /\ invoice \in {"PENDING", "ISSUED", "CANCELLED"}
  /\ billed \in Units /\ adjusted \in Units
  /\ invoice # "ISSUED" => adjusted = NoUnits
  /\ DOMAIN req = Requests

\* No line is raised by two transactions, no order completed by two.
LocksApart ==
  \A r, q \in Requests :
    r # q => /\ HeldBy(req[r]) \cap HeldBy(req[q]) = {}
             /\ ~(req[r].op = "complete" /\ req[q].op = "complete")

IndInv == /\ RowsOK
          /\ \A r \in Requests : OpenOK(req[r])
          /\ LocksApart
          /\ ReturnedIsAllBack
          /\ BillCoversWhatIsKept

-----------------------------------------------------------------------------
\* What the assumption says of the quantities.
LEMMA SoldPositive == Sold \in [Lines -> Nat \ {0}] /\ MaxQty \in Nat
<1>1. Sold \in [Lines -> 1..MaxQty] /\ MaxQty \in Nat
  BY ReturnsAssumption
<1> QED  BY <1>1

LEMMA InitIndInv == Init => IndInv
<1> SUFFICES ASSUME Init PROVE IndInv  OBVIOUS
<1> USE SoldPositive
<1>1. RowsOK
  BY DEF Init, RowsOK, Units, NoUnits, ReturnableOrderStatuses, OpenReturnStatuses
<1>2. \A r \in Requests : req[r] = Idle  BY DEF Init
<1>3. \A r \in Requests : OpenOK(req[r])
  BY <1>2 DEF OpenOK, Idle
<1>4. LocksApart
  BY <1>2 DEF LocksApart, HeldBy, Idle
<1>5. ReturnedIsAllBack
  BY DEF Init, ReturnedIsAllBack
<1>6. BillCoversWhatIsKept
  BY DEF Init, BillCoversWhatIsKept, NoUnits
<1> QED  BY <1>1, <1>3, <1>4, <1>5, <1>6 DEF IndInv

\* A step that changes only what one request holds.
LEMMA OpenStep ==
  ASSUME IndInv, NEW r \in Requests, NEW x,
         Open(r, x), OpenOK(x),
         \A q \in Requests \ {r} :
            /\ HeldBy(x) \cap HeldBy(req[q]) = {}
            /\ ~(x.op = "complete" /\ req[q].op = "complete"),
         UNCHANGED <<orderVars, lineVars, ret, billVars>>
  PROVE  IndInv'
<1> USE DEF orderVars, lineVars, billVars
<1>1. /\ req' = [req EXCEPT ![r] = x]
      /\ DOMAIN req = Requests
  BY DEF Open, IndInv, RowsOK
<1>2. req'[r] = x /\ \A q \in Requests \ {r} : req'[q] = req[q]  BY <1>1
<1>3. RowsOK'  BY <1>1 DEF IndInv, RowsOK
<1>4. UNCHANGED <<status, returned, ret, invoice>>  OBVIOUS
<1>5. \A q \in Requests : OpenOK(req[q])'
  <2> TAKE q \in Requests
  <2>1. CASE q = r
    BY <2>1, <1>2, <1>4 DEF OpenOK, BringsAll, HeldBy, LinesOf
  <2>2. CASE q # r
    <3>1. OpenOK(req[q])  BY DEF IndInv
    <3>2. req'[q] = req[q]  BY <2>2, <1>2
    <3> QED  BY <3>1, <3>2, <1>4 DEF OpenOK, BringsAll, HeldBy, LinesOf
  <2> QED  BY <2>1, <2>2
<1>7. LocksApart'
  <2>1. /\ HeldBy(req[r])' = HeldBy(x)
        /\ \A q \in Requests \ {r} : HeldBy(req[q])' = HeldBy(req[q])
    BY <1>2, <1>4 DEF HeldBy, LinesOf
  <2>2. LocksApart  BY DEF IndInv
  <2> QED  BY <2>1, <2>2, <1>2 DEF LocksApart
<1>8. ReturnedIsAllBack'  BY DEF IndInv, ReturnedIsAllBack
<1>9. BillCoversWhatIsKept'  BY DEF IndInv, BillCoversWhatIsKept
<1> QED  BY <1>3, <1>5, <1>7, <1>8, <1>9 DEF IndInv

\* Reads, claims and rollbacks: nothing is written but what a request holds.
LEMMA RequestStep ==
  ASSUME IndInv, NEW r \in Requests,
         \/ CreateRead(r) \/ FailedRead(r) \/ CompleteClaim(r) \/ Abandon(r)
  PROVE  IndInv'
<1> USE SoldPositive
<1>1. CASE CreateRead(r)
  <2>1. PICK qty \in [Lines -> 0..MaxQty] \ {NoUnits} :
          Open(r, [op |-> "create", qty |-> qty, failed |-> FALSE])
    BY <1>1 DEF CreateRead
  <2> DEFINE x == [op |-> "create", qty |-> qty, failed |-> FALSE]
  <2>2. qty \in Units
    BY DEF Units
  <2>3. OpenOK(x) /\ HeldBy(x) = {} /\ x.op # "complete"
    BY <2>2 DEF OpenOK, HeldBy
  <2>4. Open(r, x) /\ UNCHANGED <<orderVars, lineVars, ret, billVars>>
    BY <1>1, <2>1 DEF CreateRead
  <2> HIDE DEF x
  <2> QED  BY <2>3, <2>4, OpenStep
<1>2. CASE FailedRead(r)
  <2> DEFINE left == [l \in Lines |-> LeftToReturn(l)]
             x == [op |-> "create", qty |-> left, failed |-> TRUE]
  <2>1. Open(r, x) /\ UNCHANGED <<orderVars, lineVars, ret, billVars>>
    BY <1>2 DEF FailedRead
  <2>2. left \in Units /\ BringsAll(left)
    BY DEF IndInv, RowsOK, Units, LeftToReturn, BringsAll
  <2> HIDE DEF left
  <2>3. OpenOK(x) /\ HeldBy(x) = {} /\ x.op # "complete"
    BY <2>2 DEF OpenOK, HeldBy
  <2> HIDE DEF x
  <2> QED  BY <2>1, <2>3, OpenStep
<1>3. CASE CompleteClaim(r)
  <2>1. PICK from \in {"SHIPPING", "RECEIVED"} :
          /\ status = from /\ ~OrderLocked
          /\ Open(r, [op |-> "complete", from |-> from, invoice |-> invoice,
                      keep |-> [l \in Lines |-> LeftToReturn(l)]])
    BY <1>3 DEF CompleteClaim, CompletesFrom
  <2> DEFINE keep == [l \in Lines |-> LeftToReturn(l)]
             x == [op |-> "complete", from |-> from, invoice |-> invoice,
                   keep |-> keep]
  <2>2. keep \in Units /\ \A l \in Lines : Sold[l] <= keep[l] + returned[l]
    BY DEF IndInv, RowsOK, Units, LeftToReturn
  <2> HIDE DEF keep
  <2>3. OpenOK(x) /\ HeldBy(x) = {}
    BY <2>1, <2>2 DEF OpenOK, HeldBy
  <2>4. \A q \in Requests : req[q].op # "complete"
    BY <2>1 DEF OrderLocked
  <2>5. Open(r, x) /\ UNCHANGED <<orderVars, lineVars, ret, billVars>>
    BY <1>3, <2>1 DEF CompleteClaim, keep
  <2> HIDE DEF x
  <2> QED  BY <2>3, <2>4, <2>5, OpenStep
<1>4. CASE Abandon(r)
  <2>1. OpenOK(Idle) /\ HeldBy(Idle) = {} /\ Idle.op # "complete"
    BY DEF OpenOK, HeldBy, Idle
  <2> QED  BY <1>4, <2>1, OpenStep DEF Abandon, Done
<1> QED  BY <1>1, <1>2, <1>3, <1>4

\* The steps of an inspection before it commits.
LEMMA InspectStep ==
  ASSUME IndInv, NEW r \in Requests,
         InspectStart(r) \/ PlanLine(r) \/ BumpLine(r) \/ SettleRead(r)
  PROVE  IndInv'
<1>0. OpenOK(req[r]) /\ LocksApart /\ RowsOK
  BY DEF IndInv
<1>1. CASE InspectStart(r)
  <2>1. PICK d \in Returns, failed \in BOOLEAN :
          /\ ReturnClaim(d)
          /\ failed = TRUE => req[r] = [op |-> "received", ret |-> d]
          /\ Open(r, Started(d, failed))
    BY <1>1 DEF InspectStart
  <2> DEFINE x == Started(d, failed)
  <2>2. /\ x.op = "inspect" /\ x.ret = d /\ x.failed = failed
        /\ x.todo = LinesOf(d)
    BY DEF Started, Inspection
  <2>3. failed = TRUE => BringsAll(ret[d].qty)
    BY <1>0, <2>1 DEF OpenOK
  <2>4. ret[d].status # "NONE"
    BY <2>1 DEF ReturnClaim
  <2> HIDE DEF x
  <2>5. HeldBy(x) = {}
    BY <2>2 DEF HeldBy
  <2>6. OpenOK(x)
    BY <2>2, <2>3, <2>4, <2>5 DEF OpenOK
  <2>7. Open(r, x) /\ UNCHANGED <<orderVars, lineVars, ret, billVars>>
    BY <1>1, <2>1 DEF InspectStart, x
  <2> QED  BY <2>2, <2>5, <2>6, <2>7, OpenStep
<1>2. CASE PlanLine(r)
  <2>1. PICK l \in req[r].todo :
          Open(r, Inspection(req[r].ret, req[r].failed, req[r].todo, {l},
                     [req[r].slices EXCEPT
                        ![l] = PlanReturn(l, ret[req[r].ret].qty[l])]))
    BY <1>2 DEF PlanLine
  <2> DEFINE x == Inspection(req[r].ret, req[r].failed, req[r].todo, {l},
                     [req[r].slices EXCEPT
                        ![l] = PlanReturn(l, ret[req[r].ret].qty[l])])
  <2>2. /\ req[r].op = "inspect"
        /\ x.op = req[r].op /\ x.ret = req[r].ret /\ x.failed = req[r].failed
        /\ x.todo = req[r].todo
    BY <1>2 DEF PlanLine, Inspection
  <2>3. Open(r, x) /\ UNCHANGED <<orderVars, lineVars, ret, billVars>>
    BY <1>2, <2>1 DEF PlanLine
  <2> HIDE DEF x
  <2>4. HeldBy(x) = HeldBy(req[r])
    BY <2>2 DEF HeldBy
  <2>5. OpenOK(x)
    BY <1>0, <2>2, <2>4 DEF OpenOK
  <2>6. \A q \in Requests \ {r} : HeldBy(x) \cap HeldBy(req[q]) = {}
    BY <1>0, <2>4 DEF LocksApart
  <2> QED  BY <2>2, <2>3, <2>5, <2>6, OpenStep
<1>3. CASE BumpLine(r)
  <2>1. PICK l \in req[r].at :
          /\ UnderSold(l, ret[req[r].ret].qty[l])
          /\ Open(r, Inspection(req[r].ret, req[r].failed,
                                req[r].todo \ {l}, {}, req[r].slices))
    BY <1>3 DEF BumpLine
  <2> DEFINE x == Inspection(req[r].ret, req[r].failed, req[r].todo \ {l}, {},
                             req[r].slices)
  <2>2. /\ req[r].op = "inspect"
        /\ x.op = req[r].op /\ x.ret = req[r].ret /\ x.failed = req[r].failed
        /\ x.todo = req[r].todo \ {l}
    BY <1>3 DEF BumpLine, Inspection
  <2>3. Open(r, x) /\ UNCHANGED <<orderVars, lineVars, ret, billVars>>
    BY <1>3, <2>1 DEF BumpLine
  <2> HIDE DEF x
  <2>4. HeldBy(x) \subseteq HeldBy(req[r]) \cup {l}
    BY <2>2 DEF HeldBy
  <2>5. OpenOK(x)
    BY <1>0, <2>1, <2>2, <2>4 DEF OpenOK, UnderSold
  <2>6. \A q \in Requests : l \notin HeldBy(req[q])
    BY <2>1 DEF UnderSold, LineLocked, Bumped, HeldBy
  <2>7. \A q \in Requests \ {r} : HeldBy(x) \cap HeldBy(req[q]) = {}
    BY <1>0, <2>4, <2>6 DEF LocksApart
  <2> QED  BY <2>2, <2>3, <2>5, <2>7, OpenStep
<1>4. CASE SettleRead(r)
  <2> DEFINE moves == /\ AllBack(ReturnedWith(req[r].ret))
                      /\ Journey!CanTransition(status, "RETURNED")
             x == [op |-> "settle", ret |-> req[r].ret, failed |-> req[r].failed,
                   todo |-> {}, slices |-> req[r].slices, from |-> status,
                   moves |-> moves]
  <2>1. /\ req[r].op = "inspect" /\ req[r].todo = {}
        /\ Open(r, x) /\ UNCHANGED <<orderVars, lineVars, ret, billVars>>
    BY <1>4 DEF SettleRead
  <2>2. moves => \A l \in Lines : returned[l] + ret[req[r].ret].qty[l] = Sold[l]
    BY DEF AllBack, ReturnedWith
  <2>3. moves => status \in ReturnableOrderStatuses
    BY <1>0 DEF RowsOK, ReturnableOrderStatuses, Journey!CanTransition,
       Journey!JourneyTransitions
  <2>4. moves \in BOOLEAN
    BY DEF AllBack, Journey!CanTransition
  <2> HIDE DEF moves
  <2>5. /\ x.op = "settle" /\ x.ret = req[r].ret /\ x.failed = req[r].failed
        /\ x.todo = {} /\ x.from = status /\ x.moves = moves
    OBVIOUS
  <2> HIDE DEF x
  <2>6. HeldBy(x) = HeldBy(req[r])
    BY <2>1, <2>5 DEF HeldBy
  <2>7. OpenOK(x)
    BY <1>0, <2>1, <2>2, <2>3, <2>4, <2>5, <2>6 DEF OpenOK
  <2>8. \A q \in Requests \ {r} : HeldBy(x) \cap HeldBy(req[q]) = {}
    BY <1>0, <2>6 DEF LocksApart
  <2> QED  BY <2>1, <2>5, <2>7, <2>8, OpenStep
<1> QED  BY <1>1, <1>2, <1>3, <1>4

\* Creating, receiving and cancelling a return: settled returns and the
\* quantities of every return stay as they are.
LEMMA ReturnStep ==
  ASSUME IndInv,
         \/ \E r \in Requests : CreateCommit(r) \/ FailedReceive(r)
         \/ \E d \in Returns : Receive(d) \/ CancelReturn(d)
  PROVE  IndInv'
<1>0. RowsOK /\ LocksApart /\ (\A q \in Requests : OpenOK(req[q]))
      /\ ReturnedIsAllBack /\ BillCoversWhatIsKept
  BY DEF IndInv
<1>1. UNCHANGED <<status, ship, returned, invoice, billed, adjusted>>
  BY DEF CreateCommit, FailedReceive, Receive, CancelReturn, orderVars,
     lineVars, billVars
<1>2. ret' \in [Returns -> [status : OpenReturnStatuses
                                   \cup {"NONE", "COMPLETED", "CANCELLED"},
                          qty : Units]]
  <2>1. CASE \E r \in Requests : CreateCommit(r)
    BY <1>0, <2>1 DEF RowsOK, CreateCommit, OpenOK, OpenReturnStatuses
  <2>2. CASE \E r \in Requests : FailedReceive(r)
    <3>1. PICK r \in Requests : FailedReceive(r)
      BY <2>2
    <3> DEFINE d == req[r].ret
    <3>2. d \in Returns /\ ret' = [ret EXCEPT ![d].status = "INSPECTING"]
      BY <1>0, <3>1 DEF FailedReceive, OpenOK
    <3> HIDE DEF d
    <3> QED  BY <1>0, <3>2 DEF RowsOK, OpenReturnStatuses
  <2>3. CASE \E d \in Returns : Receive(d) \/ CancelReturn(d)
    BY <1>0, <2>3 DEF RowsOK, Receive, CancelReturn, OpenReturnStatuses
  <2> QED  BY <2>1, <2>2, <2>3
<1>3. \A d \in Returns : ret[d].status # "NONE" =>
        ret'[d].status # "NONE" /\ ret'[d].qty = ret[d].qty
  <2>1. CASE \E r \in Requests : CreateCommit(r)
    BY <1>0, <2>1 DEF RowsOK, CreateCommit
  <2>2. CASE \E r \in Requests : FailedReceive(r)
    BY <1>0, <2>2 DEF RowsOK, FailedReceive
  <2>3. CASE \E d \in Returns : Receive(d) \/ CancelReturn(d)
    BY <1>0, <2>3 DEF RowsOK, Receive, CancelReturn
  <2> QED  BY <2>1, <2>2, <2>3
<1>4. /\ DOMAIN req' = Requests
      /\ \A q \in Requests :
           \/ req'[q] = req[q]
           \/ req'[q] = Idle
           \/ /\ req'[q].op \in {"failed", "received"}
              /\ req'[q].ret \in Returns
              /\ ret'[req'[q].ret].status # "NONE"
              /\ BringsAll(ret'[req'[q].ret].qty)
  <2>1. CASE \E r \in Requests : CreateCommit(r)
    <3>1. PICK r \in Requests : CreateCommit(r)
      BY <2>1
    <3>2. PICK d \in Returns :
            /\ ret' = [ret EXCEPT ![d] = [status |-> "REQUESTED",
                                          qty |-> req[r].qty]]
            /\ IF req[r].failed THEN Open(r, [op |-> "failed", ret |-> d])
               ELSE Done(r)
      BY <3>1 DEF CreateCommit
    <3>3. /\ req[r].failed \in BOOLEAN
          /\ req[r].failed = TRUE => BringsAll(req[r].qty)
      BY <1>0, <3>1 DEF CreateCommit, OpenOK
    <3>4. ret'[d].status = "REQUESTED" /\ ret'[d].qty = req[r].qty
      BY <1>0, <3>2 DEF RowsOK
    <3>5. CASE req[r].failed = TRUE
      <4>1. req' = [req EXCEPT ![r] = [op |-> "failed", ret |-> d]]
        BY <3>2, <3>5 DEF Open
      <4>2. BringsAll(ret'[d].qty)
        BY <3>3, <3>4, <3>5
      <4> QED  BY <1>0, <4>1, <4>2, <3>4 DEF RowsOK
    <3>6. CASE req[r].failed = FALSE
      <4>1. req' = [req EXCEPT ![r] = Idle]
        BY <3>2, <3>6 DEF Open, Done
      <4> QED  BY <1>0, <4>1 DEF RowsOK
    <3> QED  BY <3>3, <3>5, <3>6
  <2>2. CASE \E r \in Requests : FailedReceive(r)
    <3>1. PICK r \in Requests : FailedReceive(r)
      BY <2>2
    <3>2. /\ req[r].ret \in Returns /\ ret[req[r].ret].status # "NONE"
          /\ BringsAll(ret[req[r].ret].qty)
      BY <1>0, <3>1 DEF FailedReceive, OpenOK
    <3>3. req' = [req EXCEPT ![r] = [op |-> "received", ret |-> req[r].ret]]
      BY <3>1 DEF FailedReceive, Open
    <3>4. /\ ret'[req[r].ret].status # "NONE"
          /\ BringsAll(ret'[req[r].ret].qty)
      BY <1>3, <3>2
    <3> QED  BY <1>0, <3>3, <3>2, <3>4 DEF RowsOK
  <2>3. CASE \E d \in Returns : Receive(d) \/ CancelReturn(d)
    BY <1>0, <2>3 DEF RowsOK, Receive, CancelReturn
  <2> QED  BY <2>1, <2>2, <2>3
<1>5. \A q \in Requests : OpenOK(req[q])' /\ HeldBy(req[q])' \subseteq HeldBy(req[q])
  <2> TAKE q \in Requests
  <2>1. CASE req'[q] = req[q]
    <3>1. OpenOK(req[q])
      BY <1>0
    <3>2. req[q].op \in {"failed", "received", "inspect", "settle"} =>
            /\ ret'[req[q].ret].status # "NONE"
            /\ ret'[req[q].ret].qty = ret[req[q].ret].qty
      BY <1>3, <3>1 DEF OpenOK
    <3>3. HeldBy(req[q])' = HeldBy(req[q])
      BY <2>1, <3>2 DEF HeldBy, LinesOf
    <3>4. OpenOK(req[q])'
      BY <1>1, <2>1, <3>1, <3>2, <3>3 DEF OpenOK, BringsAll
    <3> QED  BY <3>3, <3>4
  <2>2. CASE req'[q] = Idle
    BY <2>2 DEF OpenOK, HeldBy, Idle
  <2>3. CASE /\ req'[q].op \in {"failed", "received"}
             /\ req'[q].ret \in Returns
             /\ ret'[req'[q].ret].status # "NONE"
             /\ BringsAll(ret'[req'[q].ret].qty)
    BY <1>1, <2>3 DEF OpenOK, HeldBy, BringsAll
  <2> QED  BY <1>4, <2>1, <2>2, <2>3
<1>6. RowsOK'
  BY <1>0, <1>1, <1>2, <1>4 DEF RowsOK
<1>7. \A q \in Requests : req'[q].op = "complete" => req[q].op = "complete"
  BY <1>4 DEF Idle
<1>8. LocksApart'
  BY <1>0, <1>5, <1>7 DEF LocksApart
<1>9. (ReturnedIsAllBack /\ BillCoversWhatIsKept)'
  BY <1>0, <1>1 DEF ReturnedIsAllBack, BillCoversWhatIsKept
<1> QED  BY <1>5, <1>6, <1>8, <1>9 DEF IndInv

\* The shipment moves: nobody is completing the order.
LEMMA ShipmentStep ==
  ASSUME IndInv, Arrive \/ \E to \in OnTheRoad : Attempt(to)
  PROVE  IndInv'
<1>1. /\ \A q \in Requests : req[q].op # "complete"
      /\ status = "SHIPPING" /\ status' \in {"SHIPPING", "RECEIVED"}
      /\ ship' \in {"DELIVERED"} \cup OnTheRoad
      /\ UNCHANGED <<returned, ret, invoice, billed, adjusted, req>>
  BY DEF Arrive, Attempt, OrderLocked, lineVars, billVars
<1>2. \A q \in Requests : OpenOK(req[q])'
  <2> TAKE q \in Requests
  <2>1. OpenOK(req[q]) /\ req[q].op # "complete"
    BY <1>1 DEF IndInv
  <2> QED  BY <1>1, <2>1 DEF OpenOK, BringsAll, HeldBy, LinesOf
<1>3. RowsOK'
  BY <1>1 DEF IndInv, RowsOK, ReturnableOrderStatuses
<1>4. LocksApart'
  BY <1>1 DEF IndInv, LocksApart, HeldBy, LinesOf
<1>5. (ReturnedIsAllBack /\ BillCoversWhatIsKept)'
  BY <1>1 DEF IndInv, ReturnedIsAllBack, BillCoversWhatIsKept, OnTheRoad
<1> QED  BY <1>2, <1>3, <1>4, <1>5 DEF IndInv

LEMMA SmallerOfTwo ==
  ASSUME NEW a \in Nat, NEW b \in Nat, a <= b
  PROVE  Min({a, b}) = a
<1>1. \A x \in {a, b} : (\A y \in {a, b} : x <= y) <=> x = a
  OBVIOUS
<1> QED  BY <1>1 DEF Min

\* Completing the order: it is the only transaction doing so, and the lines
\* it read can only have come back since.
LEMMA CompleteStep ==
  ASSUME IndInv, NEW r \in Requests, CompleteCommit(r)
  PROVE  IndInv'
<1>0. RowsOK /\ LocksApart /\ (\A q \in Requests : OpenOK(req[q]))
      /\ ReturnedIsAllBack /\ BillCoversWhatIsKept
  BY DEF IndInv
<1> DEFINE keep == req[r].keep
<1>1. /\ req[r].op = "complete" /\ status' = "COMPLETED"
      /\ ship' = "RETURNED" => ship = "RETURNED"
      /\ req' = [req EXCEPT ![r] = Idle]
      /\ UNCHANGED <<returned, ret, adjusted>>
      /\ \/ invoice # "ISSUED" /\ invoice' = "ISSUED" /\ billed' = keep
         \/ UNCHANGED <<invoice, billed>>
  <2>1. Issues(req[r]) => invoice # "ISSUED"
    BY <1>0 DEF CompleteCommit, OpenOK, Issues
  <2> QED  BY <2>1 DEF CompleteCommit, Done, Open, lineVars
<1>2. keep \in Units /\ \A l \in Lines : Sold[l] <= keep[l] + returned[l]
  BY <1>0, <1>1 DEF OpenOK
<1> HIDE DEF keep
<1>3. /\ req'[r] = Idle
      /\ \A q \in Requests \ {r} : req'[q] = req[q] /\ req[q].op # "complete"
  BY <1>0, <1>1 DEF RowsOK, LocksApart
<1>4. \A q \in Requests : OpenOK(req[q])'
  <2> TAKE q \in Requests
  <2>1. CASE q = r
    BY <2>1, <1>3 DEF OpenOK, Idle
  <2>2. CASE q # r
    <3>1. OpenOK(req[q]) /\ req[q].op # "complete" /\ req'[q] = req[q]
      BY <2>2, <1>0, <1>3
    <3> QED  BY <1>1, <3>1 DEF OpenOK, BringsAll, HeldBy, LinesOf
  <2> QED  BY <2>1, <2>2
<1>5. RowsOK'
  BY <1>0, <1>1, <1>2 DEF RowsOK, ReturnableOrderStatuses
<1>6. \A q \in Requests : HeldBy(req[q])' \subseteq HeldBy(req[q])
  BY <1>1, <1>3 DEF HeldBy, LinesOf, Idle
<1>7. LocksApart'
  BY <1>0, <1>3, <1>6 DEF LocksApart, Idle
<1>8. ReturnedIsAllBack'
  BY <1>0, <1>1 DEF ReturnedIsAllBack
<1>9. BillCoversWhatIsKept'
  <2>1. CASE invoice # "ISSUED" /\ invoice' = "ISSUED" /\ billed' = keep
    <3>1. adjusted = NoUnits
      BY <1>0, <2>1 DEF RowsOK
    <3>2. \A l \in Lines : /\ adjusted'[l] = 0 /\ billed'[l] = keep[l]
                           /\ returned'[l] = returned[l]
                           /\ keep[l] \in Nat /\ returned[l] \in Nat
                           /\ Sold[l] \in Nat
      BY <1>0, <1>1, <1>2, <2>1, <3>1, SoldPositive DEF NoUnits, Units, RowsOK
    <3> QED  BY <1>2, <3>2 DEF BillCoversWhatIsKept
  <2>2. CASE UNCHANGED <<invoice, billed>>
    BY <1>0, <1>1, <2>2 DEF BillCoversWhatIsKept
  <2> QED  BY <1>1, <2>1, <2>2
<1> QED  BY <1>4, <1>5, <1>7, <1>8, <1>9 DEF IndInv

\* Settling an inspection: its lines are raised and held by it alone, so what
\* comes back still fits, and others that found everything back are right.
LEMMA SettleStep ==
  ASSUME IndInv, NEW r \in Requests, InspectCommit(r)
  PROVE  IndInv'
<1>0. RowsOK /\ LocksApart /\ (\A q \in Requests : OpenOK(req[q]))
      /\ ReturnedIsAllBack /\ BillCoversWhatIsKept
  BY DEF IndInv
<1> DEFINE d == req[r].ret
           qty == ret[d].qty
           moves == req[r].moves
           settles == moves /\ status = req[r].from
<1>1. /\ req[r].op = "settle" /\ req[r].todo = {}
      /\ d \in Returns /\ ret[d].status # "NONE" /\ qty \in Units
      /\ moves \in BOOLEAN /\ req[r].failed \in BOOLEAN
      /\ HeldBy(req[r]) = {l \in Lines : qty[l] > 0}
  BY <1>0 DEF InspectCommit, OpenOK, RowsOK, HeldBy, LinesOf
<1>2. \A l \in Lines :
        /\ returned[l] \in Nat /\ Sold[l] \in Nat /\ qty[l] \in Nat
        /\ billed[l] \in Nat /\ adjusted[l] \in Nat
        /\ returned[l] <= Sold[l]
  BY <1>0, <1>1, SoldPositive DEF RowsOK, Units
<1>3. \A l \in Lines : returned[l] + qty[l] <= Sold[l]
  <2>1. \A l \in HeldBy(req[r]) : returned[l] + qty[l] <= Sold[l]
    BY <1>0, <1>1 DEF OpenOK
  <2> QED  BY <1>1, <1>2, <2>1
<1>4. moves = TRUE => /\ req[r].from \in ReturnableOrderStatuses
                      /\ \A l \in Lines : returned[l] + qty[l] = Sold[l]
  BY <1>0, <1>1 DEF OpenOK
<1>5. req[r].failed = TRUE => \A l \in Lines : returned[l] + qty[l] = Sold[l]
  <2>1. req[r].failed = TRUE => \A l \in Lines : Sold[l] <= returned[l] + qty[l]
    BY <1>0, <1>1 DEF OpenOK, BringsAll
  <2> QED  BY <1>2, <1>3, <2>1
<1>6. /\ status' = IF settles THEN "RETURNED" ELSE status
      /\ settles => \A q \in Requests : req[q].op # "complete"
      /\ IF req[r].failed THEN ship' = "RETURNED" ELSE ship' = ship
      /\ returned' = [l \in Lines |-> returned[l] + qty[l]]
      /\ ret' = [ret EXCEPT ![d].status = "COMPLETED"]
      /\ invoice' = VoidedBy(moves)
      /\ adjusted' = IF invoice = "ISSUED" THEN AdjustForReturn(qty) ELSE adjusted
      /\ billed' = billed
      /\ req' = [req EXCEPT ![r] = Idle]
  BY DEF InspectCommit, Done, Open, OrderLocked, ReturnedWith
<1>7. invoice = "ISSUED" =>
        \A l \in Lines : adjusted'[l] = adjusted[l] + qty[l]
  <2>1. ASSUME invoice = "ISSUED", NEW l \in Lines
        PROVE  adjusted'[l] = adjusted[l] + qty[l]
    <3>1. Sold[l] - returned[l] <= billed[l] - adjusted[l]
      BY <1>0, <2>1 DEF BillCoversWhatIsKept
    <3>2. qty[l] <= billed[l]
      BY <1>2, <1>3, <3>1
    <3>3. Min({qty[l], billed[l]}) = qty[l]
      BY <1>2, <3>2, SmallerOfTwo
    <3> QED  BY <1>6, <2>1, <3>3 DEF AdjustForReturn
  <2> QED  BY <2>1
<1>8. /\ adjusted' \in Units
      /\ invoice' = "ISSUED" <=> invoice = "ISSUED"
      /\ invoice' \in {"PENDING", "ISSUED", "CANCELLED"}
      /\ invoice = "CANCELLED" => invoice' = "CANCELLED"
      /\ moves = TRUE => invoice' # "PENDING"
      /\ invoice # "PENDING" => invoice' # "PENDING"
  <2>1. adjusted' \in Units
    <3>1. CASE invoice = "ISSUED"
      <4>1. adjusted' = [l \in Lines |-> adjusted'[l]]
        BY <1>6, <3>1 DEF AdjustForReturn
      <4>2. \A l \in Lines : adjusted'[l] \in Nat
        BY <1>2, <1>7, <3>1
      <4> QED  BY <4>1, <4>2 DEF Units
    <3>2. CASE invoice # "ISSUED"
      BY <1>0, <1>6, <3>2 DEF RowsOK
    <3> QED  BY <3>1, <3>2
  <2> QED  BY <1>0, <1>1, <1>6, <2>1 DEF VoidedBy, RowsOK
<1> HIDE DEF moves, settles
<1>9. /\ DOMAIN ret' = Returns
      /\ \A e \in Returns : /\ ret'[e].qty = ret[e].qty
                            /\ ret[e].status # "NONE" => ret'[e].status # "NONE"
      /\ ret' \in [Returns -> [status : OpenReturnStatuses
                                   \cup {"NONE", "COMPLETED", "CANCELLED"},
                               qty : Units]]
  <2> HIDE DEF d
  <2> QED  BY <1>0, <1>1, <1>6 DEF RowsOK
<1> HIDE DEF d, qty
<1>10. \A l \in Lines : /\ returned'[l] = returned[l] + qty[l]
                        /\ returned'[l] <= Sold[l] /\ returned[l] <= returned'[l]
                        /\ returned'[l] \in Nat
  BY <1>2, <1>3, <1>6
<1>11. /\ req'[r] = Idle
       /\ \A q \in Requests \ {r} : req'[q] = req[q]
       /\ DOMAIN req' = Requests
  BY <1>0, <1>6 DEF RowsOK
<1>12. RowsOK'
  <2>1. returned' \in Units
    BY <1>6, <1>2 DEF Units
  <2>2. status' \in ReturnableOrderStatuses \cup {"RETURNED"}
    BY <1>0, <1>6 DEF RowsOK
  <2>3. invoice' # "ISSUED" => adjusted' = NoUnits
    BY <1>0, <1>6, <1>8 DEF RowsOK
  <2> QED  BY <1>0, <1>6, <1>8, <1>9, <1>10, <1>11, <2>1, <2>2, <2>3 DEF RowsOK
<1>13. ASSUME NEW q \in Requests \ {r}
       PROVE  /\ HeldBy(req[q])' = HeldBy(req[q])
              /\ \A l \in HeldBy(req[q]) : qty[l] = 0
  <2>1. req[q].op \in {"inspect", "settle"} => req[q].ret \in Returns
    BY <1>0 DEF OpenOK
  <2>2. HeldBy(req[q])' = HeldBy(req[q])
    BY <1>9, <1>11, <2>1 DEF HeldBy, LinesOf
  <2>3. HeldBy(req[q]) \subseteq Lines
    BY DEF HeldBy, LinesOf
  <2>4. HeldBy(req[q]) \cap HeldBy(req[r]) = {}
    BY <1>0 DEF LocksApart
  <2> QED  BY <1>1, <1>2, <2>2, <2>3, <2>4 DEF qty
<1>14. \A q \in Requests : OpenOK(req[q])'
  <2> TAKE q \in Requests
  <2>1. CASE q = r
    BY <2>1, <1>11 DEF OpenOK, Idle
  <2>2. CASE q # r
    <3> DEFINE x == req[q]
               mine == ret[x.ret].qty
               BringsAllNow(v) == \A l \in Lines : Sold[l] <= returned'[l] + v[l]
    <3>1. OpenOK(x) /\ req'[q] = x
      BY <2>2, <1>0, <1>11
    <3>2. HeldBy(req[q])' = HeldBy(x) /\ \A l \in HeldBy(x) : qty[l] = 0
      BY <2>2, <1>13
    <3>3. x.op \in {"failed", "received", "inspect", "settle"} =>
            /\ x.ret \in Returns /\ ret'[x.ret].status # "NONE"
            /\ ret'[x.ret].qty = mine /\ mine \in Units
      BY <1>0, <1>9, <3>1 DEF OpenOK, RowsOK
    <3>4. \A v \in Units : BringsAll(v) => BringsAllNow(v)
      BY <1>2, <1>10 DEF BringsAll, Units
    <3>5. x.op \in {"inspect", "settle"} =>
            \A l \in HeldBy(x) : returned'[l] + mine[l] <= Sold[l]
      BY <1>2, <1>10, <3>1, <3>2 DEF OpenOK, HeldBy, LinesOf
    <3>6. ASSUME x.op = "settle", x.moves = TRUE, NEW l \in Lines
          PROVE  returned'[l] + mine[l] = Sold[l]
      <4>1. returned[l] + mine[l] = Sold[l] /\ x.todo = {}
        BY <3>1, <3>6 DEF OpenOK
      <4>2. mine[l] \in Nat
        BY <3>3, <3>6 DEF Units
      <4>3. CASE mine[l] > 0
        <5>1. l \in HeldBy(x)
          BY <3>6, <4>1, <4>3 DEF HeldBy, LinesOf
        <5> QED  BY <1>10, <1>2, <3>2, <4>1, <5>1
      <4>4. CASE mine[l] = 0
        BY <1>2, <1>3, <1>10, <4>1, <4>4
      <4> QED  BY <4>2, <4>3, <4>4
    <3>7. x.op = "complete" =>
            /\ status' = status
            /\ \A l \in Lines : Sold[l] <= x.keep[l] + returned'[l]
            /\ x.invoice = "CANCELLED" => invoice' = "CANCELLED"
      BY <1>2, <1>6, <1>8, <1>10, <3>1 DEF OpenOK, Units
    <3>8. x.op = "create" => /\ x.qty \in Units
                             /\ x.failed = TRUE => BringsAllNow(x.qty)
      <4> HIDE DEF x, BringsAllNow
      <4> QED  BY <3>1, <3>4 DEF OpenOK
    <3>9. x.op \in {"failed", "received"} => BringsAllNow(mine)
      <4>1. x.op \in {"failed", "received"} => BringsAll(mine)
        BY <3>1 DEF OpenOK
      <4> HIDE DEF x, mine, BringsAllNow
      <4> QED  BY <3>3, <3>4, <4>1
    <3>10. x.op \in {"inspect", "settle"} => (x.failed = TRUE => BringsAllNow(mine))
      <4>1. x.op \in {"inspect", "settle"} => (x.failed = TRUE => BringsAll(mine))
        BY <3>1 DEF OpenOK
      <4> HIDE DEF x, mine, BringsAllNow
      <4> QED  BY <3>3, <3>4, <4>1
    <3> QED  BY ZenonT(60), <3>1, <3>2, <3>3, <3>5, <3>6, <3>7, <3>8, <3>9, <3>10
             DEF OpenOK, BringsAll
  <2> QED  BY <2>1, <2>2
<1>15. LocksApart'
  <2>1. /\ HeldBy(req[r])' = {}
        /\ \A q \in Requests \ {r} : HeldBy(req[q])' = HeldBy(req[q])
    <3>1. HeldBy(req[r])' = {}
      BY <1>11 DEF HeldBy, Idle
    <3> QED  BY <1>13, <3>1
  <2> QED  BY <1>0, <1>11, <2>1 DEF LocksApart, Idle
<1>16. ReturnedIsAllBack'
  <2>1. status' = "RETURNED" => invoice' # "PENDING"
    BY <1>0, <1>6, <1>8 DEF ReturnedIsAllBack, settles
  <2>2. ASSUME status' = "RETURNED" \/ ship' = "RETURNED", NEW l \in Lines
        PROVE  returned'[l] = Sold[l]
    <3>1. CASE status = "RETURNED" \/ ship = "RETURNED"
      BY <1>0, <1>2, <1>10, <3>1 DEF ReturnedIsAllBack
    <3>2. CASE settles \/ req[r].failed
      BY <1>1, <1>4, <1>5, <1>10, <3>2 DEF settles, moves
    <3> QED  BY <1>6, <2>2, <3>1, <3>2
  <2> QED  BY <2>1, <2>2 DEF ReturnedIsAllBack
<1>17. BillCoversWhatIsKept'
  <2>1. ASSUME invoice' = "ISSUED", NEW l \in Lines
        PROVE  /\ adjusted'[l] <= billed'[l]
               /\ Sold[l] - returned'[l] <= billed'[l] - adjusted'[l]
    <3>1. /\ adjusted[l] <= billed[l]
          /\ Sold[l] - returned[l] <= billed[l] - adjusted[l]
      BY <1>0, <1>8, <2>1 DEF BillCoversWhatIsKept
    <3>2. adjusted'[l] = adjusted[l] + qty[l] /\ billed'[l] = billed[l]
      BY <1>6, <1>7, <1>8, <2>1
    <3> QED  BY <1>2, <1>3, <1>10, <3>1, <3>2
  <2> QED  BY <2>1 DEF BillCoversWhatIsKept
<1> QED  BY <1>12, <1>14, <1>15, <1>16, <1>17 DEF IndInv

LEMMA NextIndInv == IndInv /\ [Next]_vars => IndInv'
<1> SUFFICES ASSUME IndInv, [Next]_vars PROVE IndInv'  OBVIOUS
<1>1. CASE UNCHANGED vars
  BY <1>1 DEF vars, orderVars, lineVars, billVars, IndInv, RowsOK, OpenOK,
     LocksApart, HeldBy, LinesOf, BringsAll, ReturnedIsAllBack,
     BillCoversWhatIsKept
<1>2. ASSUME NEW r \in Requests,
             \/ CreateRead(r) \/ FailedRead(r) \/ CompleteClaim(r) \/ Abandon(r)
      PROVE  IndInv'
  BY <1>2, RequestStep
<1>3. ASSUME NEW r \in Requests,
             InspectStart(r) \/ PlanLine(r) \/ BumpLine(r) \/ SettleRead(r)
      PROVE  IndInv'
  BY <1>3, InspectStep
<1>4. CASE \/ \E r \in Requests : CreateCommit(r) \/ FailedReceive(r)
           \/ \E d \in Returns : Receive(d) \/ CancelReturn(d)
  BY <1>4, ReturnStep
<1>5. CASE \E r \in Requests : CompleteCommit(r)
  BY <1>5, CompleteStep
<1>6. CASE \E r \in Requests : InspectCommit(r)
  BY <1>6, SettleStep
<1>7. CASE Arrive \/ \E to \in OnTheRoad : Attempt(to)
  BY <1>7, ShipmentStep
<1> QED  BY <1>1, <1>2, <1>3, <1>4, <1>5, <1>6, <1>7 DEF Next

\* What the request has learnt, the rows agree with, for ever.
LEMMA SpecIndInv == Spec => []IndInv
BY InitIndInv, NextIndInv, PTL DEF Spec

-----------------------------------------------------------------------------
\* An order is RETURNED, and a shipment closed as returned, only with every
\* unit of every line back, and nothing is left to be invoiced.
THEOREM ReturnedMeansAllBack == Spec => []ReturnedIsAllBack
<1>1. IndInv => ReturnedIsAllBack  BY DEF IndInv
<1> QED  BY <1>1, SpecIndInv, PTL

\* The issued invoice less its adjustments covers what the customer keeps,
\* and adjustments never exceed it.
THEOREM BillCovers == Spec => []BillCoversWhatIsKept
<1>1. IndInv => BillCoversWhatIsKept  BY DEF IndInv
<1> QED  BY <1>1, SpecIndInv, PTL

\* Returns and completion move the order along the journey table only.
THEOREM ReturnsFollowTable == Spec => StatusFollowsTable
<1> DEFINE Moved == (status' # status) => Journey!CanTransition(status, status')
<1> USE DEF Journey!CanTransition, Journey!JourneyTransitions
<1>1. ASSUME IndInv, [Next]_vars PROVE Moved
  <2>1. CASE \E r \in Requests : CompleteCommit(r)
    <3>1. status \in {"SHIPPING", "RECEIVED"} /\ status' = "COMPLETED"
      BY <1>1, <2>1 DEF CompleteCommit, IndInv, OpenOK
    <3> QED  BY <3>1
  <2>2. CASE \E r \in Requests : InspectCommit(r)
    <3>1. PICK r \in Requests : InspectCommit(r)
      BY <2>2
    <3>2. \/ status' = status
          \/ req[r].moves /\ status = req[r].from /\ status' = "RETURNED"
      BY <3>1 DEF InspectCommit
    <3>3. OpenOK(req[r]) /\ req[r].op = "settle"
      BY <1>1, <3>1 DEF IndInv, InspectCommit
    <3>4. \/ status' = status
          \/ status \in ReturnableOrderStatuses /\ status' = "RETURNED"
      <4>1. /\ req[r].moves \in BOOLEAN
            /\ req[r].moves = TRUE => req[r].from \in ReturnableOrderStatuses
        BY <3>3 DEF OpenOK
      <4> QED  BY <3>2, <4>1
    <3> QED  BY <3>4 DEF ReturnableOrderStatuses
  <2>3. CASE Arrive
    BY <2>3 DEF Arrive
  <2>4. CASE UNCHANGED status
    BY SMTT(30), <2>4
  <2>5. \/ \E r \in Requests : CompleteCommit(r)
        \/ \E r \in Requests : InspectCommit(r)
        \/ Arrive
        \/ UNCHANGED status
    BY <1>1 DEF Next, vars, orderVars, CreateRead, FailedRead, CreateCommit,
       FailedReceive, InspectStart, PlanLine, BumpLine, SettleRead,
       CompleteClaim, Abandon, Receive, CancelReturn, Attempt
  <2> QED  BY <2>1, <2>2, <2>3, <2>4, <2>5
<1>2. IndInv /\ [Next]_vars => [Moved]_vars
  BY <1>1
<1> QED  BY <1>2, SpecIndInv, PTL DEF Spec, StatusFollowsTable

-----------------------------------------------------------------------------
(* Units into lots *)

\* What lot k takes of q units, when those before it take what they miss.
Takes(m, q, k, units) ==
  /\ SumFunctionOnSet(m, 1..(k - 1)) >= q => units = 0
  /\ SumFunctionOnSet(m, 1..(k - 1)) < q =>
       /\ SumFunctionOnSet(m, 1..(k - 1)) + m[k] <= q => units = m[k]
       /\ SumFunctionOnSet(m, 1..(k - 1)) + m[k] > q
            => units = q - SumFunctionOnSet(m, 1..(k - 1))

\* After one lot more, what was filled is again the smaller of the two.
LEMMA OneMoreLot ==
  ASSUME NEW a \in Nat, NEW b \in Nat, NEW c \in Nat, NEW d \in Nat, NEW q \in Nat,
         b <= q => a = b, b >= q => a = q, b >= q => c = 0,
         b < q => /\ b + d <= q => c = d
                  /\ b + d > q => c = q - b
  PROVE  /\ d + b <= q => c + a = d + b
         /\ d + b >= q => c + a = q
<1>1. CASE b >= q  BY <1>1
<1>2. CASE b < q /\ b + d <= q  BY <1>2
<1>3. CASE b < q /\ b + d > q  BY <1>3
<1> QED  BY <1>1, <1>2, <1>3

\* Lots filled in their order, each up to what it misses, take exactly what is
\* to be filled, if together they miss as much: up to each lot, the smaller of
\* the two.
LEMMA FilledInOrder ==
  ASSUME NEW N \in Nat, NEW m \in [1..N -> Nat], NEW p \in [1..N -> Nat], NEW q \in Nat,
         \A k \in 1..N : Takes(m, q, k, p[k]),
         q <= SumFunctionOnSet(m, 1..N)
  PROVE  SumFunctionOnSet(p, 1..N) = q
<1> DEFINE Into(k) == SumFunctionOnSet(p, 1..k)
           Short(k) == SumFunctionOnSet(m, 1..k)
           Right(k) == /\ Short(k) <= q => Into(k) = Short(k)
                       /\ Short(k) >= q => Into(k) = q
           B == {T \in SUBSET (1..N) : \E k \in 0..N : T = 1..k /\ ~Right(k)}
<1>1. IsFiniteSet(1..N)  BY FS_Interval
<1>2. \A k \in 0..N : Into(k) \in Nat /\ Short(k) \in Nat
  <2> TAKE k \in 0..N
  <2>1. IsFiniteSet(1..k)  BY FS_Interval
  <2>2. \A j \in 1..k : p[j] \in Nat /\ m[j] \in Nat  OBVIOUS
  <2> QED  BY <2>1, <2>2, SumNat
<1>3. B = {}
  <2>1. SUFFICES ASSUME B # {} PROVE FALSE  OBVIOUS
  <2>2. PICK T \in B : \A V \in B : V \subseteq T => V = T
    <3>1. PICK S : S = 1..N  OBVIOUS
    <3>2. B \in SUBSET SUBSET S /\ IsFiniteSet(S)  BY <1>1, <3>1
    <3> HIDE DEF B
    <3> QED  BY <2>1, <3>2, SmallestSubset
  <2>3. PICK k \in 0..N : T = 1..k /\ ~Right(k)
    OBVIOUS
  <2>4. k # 0
    <3>1. k = 0 => 1..k = {}  OBVIOUS
    <3>2. k = 0 => Into(k) = 0 /\ Short(k) = 0  BY <3>1, SumEmpty
    <3> QED  BY <2>3, <3>2
  <2>5. /\ k \in 1..N /\ k - 1 \in 0..N /\ 1..(k - 1) \subseteq 1..k
        /\ 1..(k - 1) # 1..k /\ 1..(k - 1) \in SUBSET (1..N)
        /\ 1..k = 1..(k - 1) \cup {k} /\ k \notin 1..(k - 1)
    BY <2>4
  <2>6. Right(k - 1)
    BY <2>2, <2>3, <2>5
  <2>7. Into(k) = p[k] + Into(k - 1) /\ Short(k) = m[k] + Short(k - 1)
    <3>1. IsFiniteSet(1..(k - 1))  BY FS_Interval
    <3>2. \A j \in 1..(k - 1) \cup {k} : p[j] \in Int /\ m[j] \in Int  BY <2>5
    <3> QED  BY <2>5, <3>1, <3>2, SumAdd
  <2>8. /\ Short(k - 1) >= q => p[k] = 0
        /\ Short(k - 1) < q => /\ Short(k - 1) + m[k] <= q => p[k] = m[k]
                               /\ Short(k - 1) + m[k] > q => p[k] = q - Short(k - 1)
    BY <2>5 DEF Takes
  <2>9. /\ Into(k) \in Nat /\ Short(k) \in Nat /\ Into(k - 1) \in Nat
        /\ Short(k - 1) \in Nat /\ p[k] \in Nat /\ m[k] \in Nat
    BY <1>2, <2>5
  <2>10. /\ Short(k - 1) <= q => Into(k - 1) = Short(k - 1)
         /\ Short(k - 1) >= q => Into(k - 1) = q
    BY <2>6
  <2>11. PICK a, b, c, d : a = Into(k - 1) /\ b = Short(k - 1) /\ c = p[k] /\ d = m[k]
    OBVIOUS
  <2>12. /\ Into(k) = c + a /\ Short(k) = d + b
         /\ a \in Nat /\ b \in Nat /\ c \in Nat /\ d \in Nat
         /\ (b <= q => a = b) /\ (b >= q => a = q)
         /\ b >= q => c = 0
         /\ b < q => /\ b + d <= q => c = d
                     /\ b + d > q => c = q - b
    BY <2>7, <2>8, <2>9, <2>10, <2>11
  <2>13. /\ d + b <= q => c + a = d + b
         /\ d + b >= q => c + a = q
    <3> HIDE DEF B, Into, Short, Right
    <3> QED  BY <2>12, OneMoreLot
  <2> QED  BY <2>3, <2>12, <2>13
<1>4. Right(N)
  <2>1. N \in 0..N /\ 1..N \in SUBSET (1..N)  OBVIOUS
  <2> HIDE DEF Right
  <2> QED  BY <1>3, <2>1
<1> QED  BY <1>2, <1>4

\* planReturn hands out exactly what the return brings.
LEMMA PlanAddsUp ==
  ASSUME back \in Slices, NEW l \in Lines, NEW q \in Nat,
         q <= MissingBefore(l, NLots + 1)
  PROVE  /\ PlanReturn(l, q) \in [Lots -> Nat]
         /\ SumFunctionOnSet(PlanReturn(l, q), Lots) = q
<1> USE DEF Lots
<1>0. NLots \in Nat /\ Drawn \in [Lines -> [1..NLots -> Nat]]
  BY ReturnsAssumption
<1>1. PICK m : m = [j \in 1..NLots |-> Missing(l, j)]  OBVIOUS
<1>2. m \in [1..NLots -> Nat]
  <2>1. \A j \in 1..NLots : Missing(l, j) \in Nat
    BY <1>0 DEF Missing, Slices
  <2> QED  BY <1>1, <2>1
<1>3. \A k \in 1..NLots + 1 : MissingBefore(l, k) = SumFunctionOnSet(m, 1..(k - 1))
  BY <1>1 DEF MissingBefore
<1>4. \A k \in 1..NLots : SumFunctionOnSet(m, 1..(k - 1)) \in Nat
  <2> TAKE k \in 1..NLots
  <2>1. IsFiniteSet(1..(k - 1))  BY FS_Interval
  <2>2. \A j \in 1..(k - 1) : m[j] \in Nat  BY <1>0, <1>2
  <2> QED  BY <2>1, <2>2, SumNat
<1>5. PICK p : p = PlanReturn(l, q)  OBVIOUS
<1>6. ASSUME NEW k \in 1..NLots
      PROVE  Takes(m, q, k, p[k])
  <2>1. PICK before : before = SumFunctionOnSet(m, 1..(k - 1))  OBVIOUS
  <2>2. before \in Nat /\ m[k] \in Nat /\ m[k] = Missing(l, k)
    BY <1>1, <1>2, <1>4, <2>1
  <2>3. p[k] = IF before >= q THEN 0 ELSE Min({m[k], q - before})
    <3>1. k \in 1..NLots + 1  BY <1>0
    <3> QED  BY <1>3, <1>5, <2>1, <2>2, <3>1 DEF PlanReturn
  <2>4. CASE before < q /\ before + m[k] <= q
    <3>1. m[k] <= q - before /\ q - before \in Nat  BY <2>2, <2>4
    <3>2. Min({m[k], q - before}) = m[k]  BY <2>2, <3>1, SmallerOfTwo
    <3> QED  BY <2>1, <2>2, <2>3, <2>4, <3>2 DEF Takes
  <2>5. CASE before < q /\ before + m[k] > q
    <3>1. q - before <= m[k] /\ q - before \in Nat  BY <2>2, <2>5
    <3>2. Min({q - before, m[k]}) = q - before  BY <2>2, <3>1, SmallerOfTwo
    <3>3. {q - before, m[k]} = {m[k], q - before}  OBVIOUS
    <3>4. p[k] = Min({m[k], q - before})
      <4>1. ~(before >= q)  BY <2>2, <2>5
      <4> QED  BY <2>3, <4>1, Zenon
    <3>5. p[k] = q - before  BY <3>2, <3>3, <3>4, Zenon
    <3> QED  BY <2>1, <2>2, <2>5, <3>5 DEF Takes
  <2>6. CASE before >= q
    BY <2>1, <2>2, <2>3, <2>6 DEF Takes
  <2> QED  BY <2>2, <2>4, <2>5, <2>6
<1>7. p \in [1..NLots -> Nat]
  <2>1. p = [k \in 1..NLots |-> p[k]]  BY <1>5 DEF PlanReturn
  <2>2. \A k \in 1..NLots : p[k] \in Nat
    <3> TAKE k \in 1..NLots
    <3>1. PICK before : before = SumFunctionOnSet(m, 1..(k - 1))  OBVIOUS
    <3>2. before \in Nat /\ m[k] \in Nat  BY <1>2, <1>4, <3>1
    <3> QED  BY <1>6, <3>1, <3>2 DEF Takes
  <2> QED  BY <2>1, <2>2
<1>8. q <= SumFunctionOnSet(m, 1..NLots)
  <2>1. NLots + 1 \in 1..NLots + 1 /\ (NLots + 1) - 1 = NLots  BY <1>0
  <2> QED  BY <1>3, <2>1
<1>9. \A k \in 1..NLots : Takes(m, q, k, p[k])
  BY <1>6
<1>10. SumFunctionOnSet(p, 1..NLots) = q
  BY <1>0, <1>2, <1>7, <1>8, <1>9, FilledInOrder
<1> QED  BY <1>5, <1>7, <1>10

-----------------------------------------------------------------------------
(* Each unit comes back once *)

Inspects(x) == x.op \in {"inspect", "settle"}

\* The lines whose lots an inspection has planned.
Planned(x) == {l \in Lines : x.op = "settle" \/ l \notin x.todo \/ l \in x.at}

\* An inspection holds a return that is INSPECTING, and its plan for a line
\* is what the return brings of it.
PlanOK(x) ==
  Inspects(x) =>
    /\ ret[x.ret].status = "INSPECTING"
    /\ x.todo \subseteq Lines
    /\ x.slices \in Slices
    /\ \A l \in Planned(x) : SumFunctionOnSet(x.slices[l], Lots) = ret[x.ret].qty[l]

Settled == {d \in Returns : ret[d].status = "COMPLETED"}
CameBack(l) == SumFunctionOnSet([d \in Returns |-> ret[d].qty[l]], Settled)

UnitsInv ==
  /\ back \in Slices
  /\ \A r \in Requests : PlanOK(req[r])
  /\ \A r, q \in Requests :
       r # q /\ Inspects(req[r]) /\ Inspects(req[q]) => req[r].ret # req[q].ret
  /\ \A l \in Lines : /\ returned[l] = CameBack(l)
                      /\ returned[l] = SumFunctionOnSet(back[l], Lots)

LEMMA LotsFinite == IsFiniteSet(Lots) /\ NLots \in Nat /\ IsFiniteSet(Returns)
BY ReturnsAssumption, FS_Interval DEF Lots

LEMMA NothingPlanned ==
  \A l \in Lines : SumFunctionOnSet(NoSlices[l], Lots) = 0
<1> TAKE l \in Lines
<1>1. \A k \in Lots : NoSlices[l][k] = 0  BY DEF NoSlices
<1> QED  BY <1>1, LotsFinite, SumZero

LEMMA InitUnits == Init => UnitsInv
<1> SUFFICES ASSUME Init PROVE UnitsInv  OBVIOUS
<1>1. back \in Slices  BY DEF Init, NoSlices, Slices
<1>2. \A r \in Requests : req[r] = Idle  BY DEF Init
<1>3. \A r \in Requests : ~Inspects(req[r])  BY <1>2 DEF Inspects, Idle
<1>4. ASSUME NEW l \in Lines
      PROVE  /\ returned[l] = CameBack(l)
             /\ returned[l] = SumFunctionOnSet(back[l], Lots)
  <2>1. returned[l] = 0  BY DEF Init, NoUnits
  <2>2. Settled = {}  BY DEF Init, Settled
  <2>3. CameBack(l) = 0  BY <2>2, SumEmpty DEF CameBack
  <2> QED  BY <2>1, <2>3, NothingPlanned DEF Init
<1> QED  BY <1>1, <1>3, <1>4 DEF UnitsInv, PlanOK

\* What an open request holds changes, and no row that units are counted in.
LEMMA HeldStep ==
  ASSUME UnitsInv, DOMAIN req = Requests, NEW r \in Requests, NEW x, Open(r, x), PlanOK(x),
         \A q \in Requests \ {r} :
            Inspects(x) /\ Inspects(req[q]) => x.ret # req[q].ret,
         UNCHANGED <<lineVars, ret>>
  PROVE  UnitsInv'
<1>1. req' = [req EXCEPT ![r] = x]  BY DEF Open
<1>2. req'[r] = x /\ \A q \in Requests \ {r} : req'[q] = req[q]  BY <1>1
<1>3. UNCHANGED <<returned, back, ret>>  BY DEF lineVars
<1>4. \A q \in Requests : PlanOK(req[q])'
  <2> TAKE q \in Requests
  <2>1. PICK y : y = req'[q]  OBVIOUS
  <2>2. PlanOK(y)  BY <1>2, <2>1 DEF UnitsInv
  <2> QED  BY <1>3, <2>1, <2>2 DEF PlanOK, Inspects, Planned
<1>5. (\A q, s \in Requests :
         q # s /\ Inspects(req[q]) /\ Inspects(req[s]) => req[q].ret # req[s].ret)'
  BY <1>2 DEF UnitsInv, Inspects
<1>6. \A l \in Lines : /\ returned'[l] = CameBack(l)'
                       /\ returned'[l] = SumFunctionOnSet(back'[l], Lots)
  BY <1>3 DEF UnitsInv, CameBack, Settled
<1> QED  BY <1>3, <1>4, <1>5, <1>6 DEF UnitsInv

\* The sum over the settled returns does not change when they do not.
LEMMA CameBackStays ==
  ASSUME Settled' = Settled, \A d \in Settled : ret'[d].qty = ret[d].qty
  PROVE  \A l \in Lines : CameBack(l)' = CameBack(l)
<1> TAKE l \in Lines
<1>1. IsFiniteSet(Settled)  BY LotsFinite, FS_Subset DEF Settled
<1>2. PICK f : f = [d \in Returns |-> ret[d].qty[l]]  OBVIOUS
<1>3. PICK g : g = [d \in Returns |-> ret'[d].qty[l]]  OBVIOUS
<1>4. \A d \in Settled : f[d] = g[d]
  <2> TAKE d \in Settled
  <2>1. d \in Returns  BY DEF Settled
  <2> QED  BY <1>2, <1>3, <2>1
<1>5. SumFunctionOnSet(f, Settled) = SumFunctionOnSet(g, Settled)
  BY <1>1, <1>4, SumSame
<1> QED  BY <1>2, <1>3, <1>5 DEF CameBack

\* Creating, receiving and cancelling a return: no settled one is touched and
\* none an inspection holds.
LEMMA ReturnUnits ==
  ASSUME IndInv, UnitsInv,
         \/ \E r \in Requests : CreateCommit(r) \/ FailedReceive(r)
         \/ \E d \in Returns : Receive(d) \/ CancelReturn(d)
  PROVE  UnitsInv'
<1>0. RowsOK /\ \A q \in Requests : OpenOK(req[q])
  BY DEF IndInv
<1>1. UNCHANGED <<returned, back>>
  BY DEF CreateCommit, FailedReceive, Receive, CancelReturn, lineVars
<1>2. \A d \in Returns :
        \/ ret'[d] = ret[d]
        \/ ret[d].status = "NONE" /\ ret'[d].status = "REQUESTED"
        \/ /\ ret[d].status = "REQUESTED" /\ ret'[d].status = "INSPECTING"
           /\ ret'[d].qty = ret[d].qty
        \/ /\ ret[d].status \in OpenReturnStatuses /\ ret'[d].status = "CANCELLED"
           /\ ret'[d].qty = ret[d].qty /\ ~ReturnLocked(d)
  <2>1. CASE \E r \in Requests : CreateCommit(r)
    BY <1>0, <2>1 DEF RowsOK, CreateCommit
  <2>2. CASE \E r \in Requests : FailedReceive(r)
    <3>1. PICK r \in Requests : FailedReceive(r)  BY <2>2
    <3>2. PICK e : e = req[r].ret  OBVIOUS
    <3>3. e \in Returns /\ ret[e].status = "REQUESTED"
          /\ ret' = [ret EXCEPT ![e].status = "INSPECTING"]
      BY <1>0, <3>1, <3>2 DEF FailedReceive, OpenOK
    <3> QED  BY <1>0, <3>3 DEF RowsOK
  <2>3. CASE \E d \in Returns : Receive(d)
    BY <1>0, <2>3 DEF RowsOK, Receive
  <2>4. CASE \E d \in Returns : CancelReturn(d)
    BY <1>0, <2>4 DEF RowsOK, CancelReturn
  <2> QED  BY <2>1, <2>2, <2>3, <2>4
<1>3. Settled' = Settled /\ \A d \in Settled : ret'[d].qty = ret[d].qty
  BY <1>2 DEF Settled, OpenReturnStatuses
<1>4. \A q \in Requests : req'[q] = req[q] \/ ~Inspects(req'[q])
  <2>1. CASE \E r \in Requests : CreateCommit(r)
    <3>1. PICK r \in Requests : CreateCommit(r)  BY <2>1
    <3>2. PICK x : req' = [req EXCEPT ![r] = x] /\ ~Inspects(x)
      <4>1. PICK d \in Returns :
              IF req[r].failed THEN Open(r, [op |-> "failed", ret |-> d]) ELSE Done(r)
        BY <3>1 DEF CreateCommit
      <4>2. CASE req[r].failed
        <5>1. PICK x : x = [op |-> "failed", ret |-> d]  OBVIOUS
        <5>2. ~Inspects(x)  BY <5>1 DEF Inspects
        <5> QED  BY <4>1, <4>2, <5>1, <5>2 DEF Open
      <4>3. CASE ~req[r].failed
        <5>1. ~Inspects(Idle)  BY DEF Inspects, Idle
        <5> QED  BY <4>1, <4>3, <5>1 DEF Open, Done
      <4> QED  BY <4>2, <4>3
    <3> QED  BY <1>0, <3>2 DEF RowsOK
  <2>2. CASE \E r \in Requests : FailedReceive(r)
    <3>1. PICK r \in Requests : FailedReceive(r)  BY <2>2
    <3>2. PICK x : x = [op |-> "received", ret |-> req[r].ret]  OBVIOUS
    <3>3. ~Inspects(x) /\ req' = [req EXCEPT ![r] = x]
      BY <3>1, <3>2 DEF FailedReceive, Open, Inspects
    <3> QED  BY <1>0, <3>3 DEF RowsOK
  <2>3. CASE \E d \in Returns : Receive(d) \/ CancelReturn(d)
    BY <2>3 DEF Receive, CancelReturn
  <2> QED  BY <2>1, <2>2, <2>3
<1>5. \A q \in Requests : PlanOK(req[q])'
  <2>1. SUFFICES ASSUME NEW q \in Requests, Inspects(req'[q]) PROVE PlanOK(req[q])'
    BY DEF PlanOK, Inspects
  <2>2. PICK x : x = req[q]  OBVIOUS
  <2>3. req'[q] = x /\ Inspects(x) /\ PlanOK(x) /\ x.ret \in Returns
    BY <1>0, <1>4, <2>1, <2>2 DEF UnitsInv, Inspects, OpenOK
  <2>4. ReturnLocked(x.ret)
    BY <2>2, <2>3 DEF ReturnLocked, Inspecting, Inspects
  <2>5. ret[x.ret].status = "INSPECTING"  BY <2>3 DEF PlanOK
  <2>6. ret'[x.ret] = ret[x.ret]  BY <1>2, <2>3, <2>4, <2>5
  <2> QED  BY <2>3, <2>6 DEF PlanOK, Inspects, Planned
<1>6. (\A q, s \in Requests :
         q # s /\ Inspects(req[q]) /\ Inspects(req[s]) => req[q].ret # req[s].ret)'
  BY <1>4 DEF UnitsInv, Inspects
<1>7. \A l \in Lines : CameBack(l)' = CameBack(l)
  BY <1>3, CameBackStays
<1>8. \A l \in Lines : /\ returned'[l] = CameBack(l)'
                       /\ returned'[l] = SumFunctionOnSet(back'[l], Lots)
  BY <1>1, <1>7 DEF UnitsInv
<1> QED  BY <1>1, <1>5, <1>6, <1>8 DEF UnitsInv

\* The steps of an inspection before it commits: it alone has claimed its
\* return, and each line is planned in full before it is raised.
LEMMA InspectUnits ==
  ASSUME IndInv, UnitsInv, NEW r \in Requests,
         InspectStart(r) \/ PlanLine(r) \/ BumpLine(r) \/ SettleRead(r)
  PROVE  UnitsInv'
<1>0. /\ OpenOK(req[r]) /\ PlanOK(req[r]) /\ RowsOK
      /\ DOMAIN req = Requests
      /\ \A q \in Requests \ {r} :
           Inspects(req[r]) /\ Inspects(req[q]) => req[r].ret # req[q].ret
  BY DEF IndInv, UnitsInv, RowsOK
<1>1. CASE InspectStart(r)
  <2>1. PICK d \in Returns, failed \in BOOLEAN :
          ReturnClaim(d) /\ Open(r, Started(d, failed))
    BY <1>1 DEF InspectStart
  <2>2. PICK x : x = Started(d, failed)  OBVIOUS
  <2>3. /\ x.op = "inspect" /\ x.ret = d /\ x.at = {}
        /\ x.todo = LinesOf(d) /\ x.slices = NoSlices
    BY <2>2 DEF Started, Inspection
  <2>4. NoSlices \in Slices  BY DEF NoSlices, Slices
  <2>5. \A l \in Planned(x) : ret[d].qty[l] = 0 /\ l \in Lines
    BY <1>0, <2>3 DEF Planned, LinesOf, RowsOK, Units
  <2>6. PlanOK(x)
    BY <2>1, <2>3, <2>4, <2>5, NothingPlanned DEF PlanOK, ReturnClaim, LinesOf
  <2>7. \A q \in Requests \ {r} : Inspects(req[q]) => req[q].ret # d
    BY <2>1 DEF ReturnClaim, ReturnLocked, Inspecting, Inspects
  <2>8. Open(r, x) /\ UNCHANGED <<lineVars, ret>>
    BY <1>1, <2>1, <2>2 DEF InspectStart
  <2> QED  BY <1>0, <2>3, <2>6, <2>7, <2>8, HeldStep
<1>2. CASE PlanLine(r)
  <2>0. PICK old : old = req[r]  OBVIOUS
  <2>1. PICK l \in old.todo :
          /\ ret[old.ret].qty[l] <= MissingBefore(l, NLots + 1)
          /\ Open(r, Inspection(old.ret, old.failed, old.todo, {l},
                     [old.slices EXCEPT ![l] = PlanReturn(l, ret[old.ret].qty[l])]))
    BY <1>2, <2>0 DEF PlanLine
  <2>2. PICK plan : plan = PlanReturn(l, ret[old.ret].qty[l])  OBVIOUS
  <2>3. PICK x : x = Inspection(old.ret, old.failed, old.todo, {l},
                                [old.slices EXCEPT ![l] = plan])
    OBVIOUS
  <2>4. /\ old.op = "inspect" /\ old.at = {} /\ Inspects(old)
        /\ x.op = "inspect" /\ x.ret = old.ret /\ x.at = {l}
        /\ x.todo = old.todo /\ x.slices = [old.slices EXCEPT ![l] = plan]
    BY <1>2, <2>0, <2>3 DEF PlanLine, Inspection, Inspects
  <2>5. /\ l \in Lines /\ old.slices \in Slices /\ old.ret \in Returns
        /\ old.todo \subseteq Lines /\ ret[old.ret].status = "INSPECTING"
        /\ \A m \in Planned(old) :
             SumFunctionOnSet(old.slices[m], Lots) = ret[old.ret].qty[m]
    BY <1>0, <2>0, <2>4 DEF PlanOK, OpenOK, Inspects
  <2>6. ret[old.ret].qty[l] \in Nat  BY <1>0, <2>5 DEF RowsOK, Units
  <2>7. plan \in [Lots -> Nat] /\ SumFunctionOnSet(plan, Lots) = ret[old.ret].qty[l]
    BY <2>1, <2>2, <2>5, <2>6, PlanAddsUp DEF UnitsInv
  <2>8. x.slices \in Slices  BY <2>4, <2>5, <2>7 DEF Slices
  <2>9. \A m \in Planned(x) :
          SumFunctionOnSet(x.slices[m], Lots) = ret[old.ret].qty[m]
    <3> TAKE m \in Planned(x)
    <3>1. CASE m = l
      BY <2>4, <2>5, <2>7, <3>1 DEF Slices
    <3>2. CASE m # l
      <4>1. m \in Planned(old)  BY <2>4, <3>2 DEF Planned
      <4>2. x.slices[m] = old.slices[m]  BY <2>4, <2>5, <3>2, <4>1 DEF Slices, Planned
      <4> QED  BY <2>5, <4>1, <4>2
    <3> QED  BY <3>1, <3>2
  <2>10. PlanOK(x)  BY <2>4, <2>5, <2>8, <2>9 DEF PlanOK
  <2>11. Open(r, x) /\ UNCHANGED <<lineVars, ret>>
    BY <1>2, <2>1, <2>2, <2>3 DEF PlanLine
  <2> QED  BY <1>0, <2>0, <2>4, <2>10, <2>11, HeldStep
<1>3. CASE BumpLine(r)
  <2>0. PICK old : old = req[r]  OBVIOUS
  <2>1. PICK l \in old.at :
          Open(r, Inspection(old.ret, old.failed, old.todo \ {l}, {}, old.slices))
    BY <1>3, <2>0 DEF BumpLine
  <2>2. PICK x : x = Inspection(old.ret, old.failed, old.todo \ {l}, {}, old.slices)
    OBVIOUS
  <2>3. /\ old.op = "inspect" /\ Inspects(old)
        /\ x.op = "inspect" /\ x.ret = old.ret /\ x.at = {}
        /\ x.todo = old.todo \ {l} /\ x.slices = old.slices
    BY <1>3, <2>0, <2>2 DEF BumpLine, Inspection, Inspects
  <2>4. Planned(x) \subseteq Planned(old)  BY <2>1, <2>3 DEF Planned
  <2>5. PlanOK(x)  BY <1>0, <2>0, <2>3, <2>4 DEF PlanOK
  <2>6. Open(r, x) /\ UNCHANGED <<lineVars, ret>>
    BY <1>3, <2>1, <2>2 DEF BumpLine
  <2> QED  BY <1>0, <2>0, <2>3, <2>5, <2>6, HeldStep
<1>4. CASE SettleRead(r)
  <2>0. PICK old : old = req[r]  OBVIOUS
  <2>1. PICK moves : moves = (AllBack(ReturnedWith(old.ret))
                              /\ Journey!CanTransition(status, "RETURNED"))
    OBVIOUS
  <2>2. PICK x : x = [op |-> "settle", ret |-> old.ret, failed |-> old.failed,
                      todo |-> {}, slices |-> old.slices, from |-> status,
                      moves |-> moves]
    OBVIOUS
  <2>3. /\ old.op = "inspect" /\ Inspects(old) /\ old.at = {} /\ old.todo = {}
        /\ x.op = "settle" /\ x.ret = old.ret /\ x.todo = {}
        /\ x.slices = old.slices
    BY <1>4, <2>0, <2>2 DEF SettleRead, Inspects
  <2>4. Planned(x) \subseteq Planned(old)  BY <2>3 DEF Planned
  <2>5. PlanOK(x)  BY <1>0, <2>0, <2>3, <2>4 DEF PlanOK
  <2>6. Open(r, x) /\ UNCHANGED <<lineVars, ret>>
    BY <1>4, <2>0, <2>1, <2>2 DEF SettleRead
  <2> QED  BY <1>0, <2>0, <2>3, <2>5, <2>6, HeldStep
<1> QED  BY <1>1, <1>2, <1>3, <1>4

\* Settling an inspection: its return joins the settled ones, with what it
\* brings of each line, and as much goes into the lots.
LEMMA SettleUnits ==
  ASSUME IndInv, UnitsInv, NEW r \in Requests, InspectCommit(r)
  PROVE  UnitsInv'
<1>0. /\ RowsOK /\ (\A q \in Requests : OpenOK(req[q]) /\ PlanOK(req[q]))
      /\ back \in Slices /\ DOMAIN req = Requests
      /\ \A q \in Requests \ {r} :
           Inspects(req[r]) /\ Inspects(req[q]) => req[r].ret # req[q].ret
  BY DEF IndInv, UnitsInv, RowsOK
<1>1. PICK x : x = req[r]  OBVIOUS
<1>2. PICK d : d = x.ret  OBVIOUS
<1>3. PICK qty : qty = ret[d].qty  OBVIOUS
<1>4. /\ x.op = "settle" /\ Inspects(x)
      /\ returned' = [l \in Lines |-> returned[l] + qty[l]]
      /\ back' = [l \in Lines |-> [k \in Lots |-> back[l][k] + x.slices[l][k]]]
      /\ ret' = [ret EXCEPT ![d].status = "COMPLETED"]
      /\ req' = [req EXCEPT ![r] = Idle]
  BY <1>1, <1>2, <1>3 DEF InspectCommit, Inspects, ReturnedWith, Done, Open
<1>5. /\ d \in Returns /\ ret[d].status = "INSPECTING" /\ x.slices \in Slices
      /\ qty \in Units
      /\ \A l \in Lines : SumFunctionOnSet(x.slices[l], Lots) = qty[l]
  BY <1>0, <1>1, <1>2, <1>3, <1>4 DEF PlanOK, OpenOK, Inspects, Planned, RowsOK
<1>6. back' \in Slices
  BY <1>0, <1>4, <1>5 DEF Slices
<1>7. /\ \A e \in Returns : ret'[e].qty = ret[e].qty
      /\ \A e \in Returns \ {d} : ret'[e] = ret[e]
      /\ Settled' = Settled \cup {d} /\ d \notin Settled
  BY <1>0, <1>4, <1>5 DEF RowsOK, Settled
<1>8. /\ req'[r] = Idle /\ ~Inspects(Idle)
      /\ \A q \in Requests \ {r} : req'[q] = req[q]
  BY <1>0, <1>4 DEF Inspects, Idle
<1>9. \A q \in Requests : PlanOK(req[q])'
  <2>1. SUFFICES ASSUME NEW q \in Requests, Inspects(req'[q]) PROVE PlanOK(req[q])'
    BY DEF PlanOK, Inspects
  <2>2. PICK y : y = req[q]  OBVIOUS
  <2>3. q # r /\ req'[q] = y /\ Inspects(y)  BY <1>8, <2>1, <2>2
  <2>4. y.ret # d  BY <1>0, <1>1, <1>2, <1>4, <2>2, <2>3
  <2>5. PlanOK(y) /\ y.ret \in Returns
    BY <1>0, <2>2, <2>3 DEF Inspects, OpenOK
  <2>6. ret'[y.ret] = ret[y.ret]  BY <1>7, <2>4, <2>5
  <2> QED  BY <2>3, <2>5, <2>6 DEF PlanOK, Inspects, Planned
<1>10. (\A q, s \in Requests :
         q # s /\ Inspects(req[q]) /\ Inspects(req[s]) => req[q].ret # req[s].ret)'
  <2>1. \A q \in Requests : Inspects(req'[q]) => q # r /\ req'[q] = req[q]
    BY <1>8
  <2>2. \A q, s \in Requests :
         q # s /\ Inspects(req[q]) /\ Inspects(req[s]) => req[q].ret # req[s].ret
    BY DEF UnitsInv
  <2>3. \A q, s \in Requests :
         q # s /\ Inspects(req'[q]) /\ Inspects(req'[s]) => req'[q].ret # req'[s].ret
    BY <2>1, <2>2
  <2> QED  BY <2>3 DEF Inspects
<1>11. ASSUME NEW l \in Lines
       PROVE  returned'[l] = CameBack(l)'
  <2>1. PICK f : f = [e \in Returns |-> ret[e].qty[l]]  OBVIOUS
  <2>2. PICK g : g = [e \in Returns |-> ret'[e].qty[l]]  OBVIOUS
  <2>3. f = g /\ f[d] = qty[l]  BY <1>3, <1>5, <1>7, <2>1, <2>2
  <2>4. \A e \in Settled \cup {d} : f[e] \in Int
    BY <1>0, <1>5, <2>1 DEF RowsOK, Units, Settled
  <2>5. IsFiniteSet(Settled)  BY LotsFinite, FS_Subset DEF Settled
  <2>6. SumFunctionOnSet(f, Settled \cup {d}) = f[d] + SumFunctionOnSet(f, Settled)
    BY <1>7, <2>4, <2>5, SumAdd
  <2>7. CameBack(l)' = SumFunctionOnSet(g, Settled \cup {d})
    BY <1>7, <2>2 DEF CameBack
  <2>8. returned[l] = SumFunctionOnSet(f, Settled)
    BY <2>1 DEF UnitsInv, CameBack
  <2>9. returned[l] \in Nat /\ qty[l] \in Nat  BY <1>0, <1>5 DEF RowsOK, Units
  <2>10. CameBack(l)' = qty[l] + returned[l]
    BY <2>3, <2>6, <2>7, <2>8
  <2>11. returned'[l] = returned[l] + qty[l]  BY <1>4
  <2> QED  BY <2>9, <2>10, <2>11
<1>12. ASSUME NEW l \in Lines
       PROVE  returned'[l] = SumFunctionOnSet(back'[l], Lots)
  <2>1. PICK old : old = back[l]  OBVIOUS
  <2>2. PICK new : new = back'[l]  OBVIOUS
  <2>3. PICK plan : plan = x.slices[l]  OBVIOUS
  <2>4. old \in [Lots -> Nat] /\ plan \in [Lots -> Nat]
    BY <1>0, <1>5, <2>1, <2>3 DEF Slices
  <2>5. \A k \in Lots : old[k] \in Int /\ plan[k] \in Int /\ new[k] = old[k] + plan[k]
    BY <1>4, <2>1, <2>2, <2>3, <2>4
  <2>6. SumFunctionOnSet(new, Lots) = SumFunctionOnSet(old, Lots) + SumFunctionOnSet(plan, Lots)
    BY <2>5, LotsFinite, SumOfTwo
  <2>7. returned[l] = SumFunctionOnSet(old, Lots)  BY <2>1 DEF UnitsInv
  <2>8. SumFunctionOnSet(plan, Lots) = qty[l]  BY <1>5, <2>3
  <2>9. returned'[l] = returned[l] + qty[l]  BY <1>4
  <2> QED  BY <2>2, <2>6, <2>7, <2>8, <2>9
<1> QED  BY <1>6, <1>9, <1>10, <1>11, <1>12 DEF UnitsInv

LEMMA NextUnits == IndInv /\ UnitsInv /\ [Next]_vars => UnitsInv'
<1> SUFFICES ASSUME IndInv, UnitsInv, [Next]_vars PROVE UnitsInv'  OBVIOUS
<1>0. DOMAIN req = Requests  BY DEF IndInv, RowsOK
<1>1. CASE UNCHANGED <<lineVars, ret, req>>
  BY <1>1 DEF lineVars, UnitsInv, PlanOK, Inspects, Planned, CameBack, Settled
<1>2. ASSUME NEW r \in Requests, CreateRead(r) \/ FailedRead(r) \/ CompleteClaim(r)
                                 \/ Abandon(r) \/ CompleteCommit(r)
      PROVE  UnitsInv'
  <2>1. PICK x : Open(r, x) /\ ~Inspects(x)
    <3>1. CASE CreateRead(r)
      <4>1. PICK qty : Open(r, [op |-> "create", qty |-> qty, failed |-> FALSE])
        BY <3>1 DEF CreateRead
      <4>2. PICK y : y = [op |-> "create", qty |-> qty, failed |-> FALSE]  OBVIOUS
      <4>3. ~Inspects(y)  BY <4>2 DEF Inspects
      <4> QED  BY <4>1, <4>2, <4>3
    <3>2. CASE FailedRead(r)
      <4>1. PICK qty : Open(r, [op |-> "create", qty |-> qty, failed |-> TRUE])
        BY <3>2 DEF FailedRead
      <4>2. PICK y : y = [op |-> "create", qty |-> qty, failed |-> TRUE]  OBVIOUS
      <4>3. ~Inspects(y)  BY <4>2 DEF Inspects
      <4> QED  BY <4>1, <4>2, <4>3
    <3>3. CASE CompleteClaim(r)
      <4>1. PICK from, keep : Open(r, [op |-> "complete", from |-> from,
                                       invoice |-> invoice, keep |-> keep])
        BY <3>3 DEF CompleteClaim
      <4>2. PICK y : y = [op |-> "complete", from |-> from, invoice |-> invoice,
                          keep |-> keep]
        OBVIOUS
      <4>3. ~Inspects(y)  BY <4>2 DEF Inspects
      <4> QED  BY <4>1, <4>2, <4>3
    <3>4. CASE Abandon(r) \/ CompleteCommit(r)
      <4>1. ~Inspects(Idle)  BY DEF Inspects, Idle
      <4> QED  BY <3>4, <4>1 DEF Abandon, CompleteCommit, Done
    <3> QED  BY <1>2, <3>1, <3>2, <3>3, <3>4
  <2>2. PlanOK(x)  BY <2>1 DEF PlanOK
  <2>3. UNCHANGED <<lineVars, ret>>
    BY <1>2 DEF CreateRead, FailedRead, CompleteClaim, Abandon, CompleteCommit
  <2> QED  BY <1>0, <2>1, <2>2, <2>3, HeldStep
<1>3. ASSUME NEW r \in Requests,
             InspectStart(r) \/ PlanLine(r) \/ BumpLine(r) \/ SettleRead(r)
      PROVE  UnitsInv'
  BY <1>3, InspectUnits
<1>4. CASE \/ \E r \in Requests : CreateCommit(r) \/ FailedReceive(r)
           \/ \E d \in Returns : Receive(d) \/ CancelReturn(d)
  BY <1>4, ReturnUnits
<1>5. CASE \E r \in Requests : InspectCommit(r)
  BY <1>5, SettleUnits
<1>6. CASE Arrive \/ \E to \in OnTheRoad : Attempt(to)
  BY <1>1, <1>6 DEF Arrive, Attempt
<1>7. CASE UNCHANGED vars
  BY <1>1, <1>7 DEF vars
<1> QED  BY <1>2, <1>3, <1>4, <1>5, <1>6, <1>7 DEF Next

\* However inspections of one line plan from the same ledger and returns are
\* created past each other's reservations: a line never has more back than was
\* sold, what it has back is what its settled returns brought, and the lots
\* were given as many units.
THEOREM UnitsBackOnce == Spec => []UnitsComeBackOnce
<1>1. IndInv /\ UnitsInv => UnitsComeBackOnce
  BY DEF IndInv, RowsOK, UnitsInv, UnitsComeBackOnce, CameBack, Settled
<1> QED  BY <1>1, InitUnits, NextUnits, SpecIndInv, PTL DEF Spec

-----------------------------------------------------------------------------
(* Stock movement documents: the lots and the shelf of a location *)

LotRows == Seq([at : Locations, left : Nat, age : Nat])

\* What lot k has for a location, and the lots of the location together.
LeftIn(l, at) == [k \in DOMAIN l |-> IF l[k].at = at THEN l[k].left ELSE 0]
HeldIn(l, at) == SumFunctionOnSet(LeftIn(l, at), DOMAIN l)

\* The lots after slices were taken of them, and after one was opened.
Without(l, s) == [k \in DOMAIN l |-> [l[k] EXCEPT !.left = @ - s[k]]]
WithLot(l, at, q, n) == Append(l, [at |-> at, left |-> q, age |-> n])

\* Slices that move q units between lots there are.
MovesUnits(D, s, q) == /\ s \in [LotIds -> Nat]
                       /\ \A k \in LotIds \ D : s[k] = 0
                       /\ SumFunctionOnSet(s, LotIds) = q

LEMMA Bounds == MaxLots \in Nat /\ IsFiniteSet(LotIds) /\ IsFiniteSet(Docs)
BY MovementAssumption, FS_Interval DEF LotIds

LEMMA LotRowsFinite ==
  ASSUME NEW l \in LotRows
  PROVE  /\ IsFiniteSet(DOMAIN l) /\ Len(l) \in Nat /\ DOMAIN l = 1..Len(l)
         /\ Len(l) <= MaxLots => DOMAIN l \subseteq LotIds
<1>1. Len(l) \in Nat /\ DOMAIN l = 1..Len(l)  BY DEF LotRows
<1>2. IsFiniteSet(1..Len(l))  BY <1>1, FS_Interval
<1> QED  BY <1>1, <1>2, Bounds DEF LotIds

LEMMA LotTypes ==
  ASSUME NEW l \in LotRows, NEW k \in DOMAIN l
  PROVE  /\ k \in Nat /\ l[k] \in [at : Locations, left : Nat, age : Nat]
         /\ l[k].at \in Locations /\ l[k].left \in Nat /\ l[k].age \in Nat
<1>1. PICK R : R = [at : Locations, left : Nat, age : Nat]  OBVIOUS
<1>2. l \in Seq(R)  BY <1>1 DEF LotRows
<1>3. k \in Nat /\ l[k] \in R  BY <1>2
<1> QED  BY <1>1, <1>3

LEMMA LeftInNat ==
  ASSUME NEW l \in LotRows, NEW at
  PROVE  /\ \A k \in DOMAIN l : LeftIn(l, at)[k] \in Nat
         /\ HeldIn(l, at) \in Nat
<1>1. \A k \in DOMAIN l : LeftIn(l, at)[k] \in Nat
  BY LotTypes DEF LeftIn
<1> QED  BY <1>1, LotRowsFinite, SumNat DEF HeldIn

LEMMA SmallestOfTwo ==
  ASSUME NEW a \in Nat, NEW b \in Nat
  PROVE  Min({a, b}) = IF a <= b THEN a ELSE b
<1>1. CASE a <= b
  <2>1. \A x \in {a, b} : (\A y \in {a, b} : x <= y) <=> x = a  BY <1>1
  <2> QED  BY <1>1, <2>1 DEF Min
<1>2. CASE ~(a <= b)
  <2>1. \A x \in {a, b} : (\A y \in {a, b} : x <= y) <=> x = b  BY <1>2
  <2> QED  BY <1>2, <2>1 DEF Min
<1> QED  BY <1>1, <1>2

\* FIFO is an order of the lots.
LEMMA OlderOrders ==
  ASSUME lots \in LotRows, NEW before,
         before = [k \in DOMAIN lots |-> {j \in DOMAIN lots : Older(j, k)}]
  PROVE  OrdersPlaces(before, DOMAIN lots)
<1>1. \A k \in DOMAIN lots : k \in Nat /\ lots[k].age \in Nat
  BY LotTypes
<1>2. \A k \in DOMAIN lots : \A j \in DOMAIN lots : j \in before[k] <=> Older(j, k)
  OBVIOUS
<1>3. \A k \in DOMAIN lots : ~Older(k, k)  BY <1>1 DEF Older
<1>4. \A i, j, k \in DOMAIN lots : Older(i, j) /\ Older(j, k) => Older(i, k)
  BY <1>1 DEF Older
<1>5. \A j, k \in DOMAIN lots : j # k => Older(j, k) \/ Older(k, j)
  BY <1>1 DEF Older
<1>6. before \in [DOMAIN lots -> SUBSET DOMAIN lots]
  OBVIOUS
<1> QED  BY <1>2, <1>3, <1>4, <1>5, <1>6, Zenon DEF OrdersPlaces

\* What is spread over the lots there are adds up, and no lot gets more than it
\* has room for.
LEMMA SpreadAddsUp ==
  ASSUME lots \in LotRows, Len(lots) <= MaxLots, NEW q \in Nat, NEW room,
         \A k \in DOMAIN lots : room[k] \in Nat
  PROVE  /\ Spread(room, q) \in [LotIds -> Nat]
         /\ \A k \in LotIds : k \notin DOMAIN lots => Spread(room, q)[k] = 0
         /\ \A k \in DOMAIN lots : Spread(room, q)[k] <= room[k]
         /\ q <= SumFunctionOnSet(room, DOMAIN lots)
              => /\ SumFunctionOnSet(Spread(room, q), DOMAIN lots) = q
                 /\ MovesUnits(DOMAIN lots, Spread(room, q), q)
<1>1. PICK D : D = DOMAIN lots  OBVIOUS
<1>2. IsFiniteSet(D) /\ D \subseteq LotIds  BY <1>1, LotRowsFinite
<1>3. PICK before : before = [k \in D |-> {j \in DOMAIN lots : Older(j, k)}]  OBVIOUS
<1>4. OrdersPlaces(before, D)  BY <1>1, <1>3, OlderOrders
<1>5. PICK s : s = Spread(room, q)  OBVIOUS
<1>6. \A k \in LotIds : s[k] = IF k \notin D \/ RoomBefore(room, k) >= q THEN 0
                               ELSE Min({room[k], q - RoomBefore(room, k)})
  BY <1>1, <1>5 DEF Spread
<1>7. \A k \in D : RoomBefore(room, k) = SumFunctionOnSet(room, before[k])
  BY <1>1, <1>3 DEF RoomBefore, SumOver
<1>8. \A k \in D : SumFunctionOnSet(room, before[k]) \in Nat
  <2> TAKE k \in D
  <2>1. before[k] \in SUBSET D  BY <1>1, <1>3
  <2>2. IsFiniteSet(before[k])  BY <1>2, <2>1, FS_Subset
  <2>3. \A j \in before[k] : room[j] \in Nat  BY <1>1, <2>1
  <2> QED  BY <2>2, <2>3, SumNat
<1>9. ASSUME NEW k \in D
      PROVE  /\ s[k] \in Nat /\ s[k] <= room[k]
             /\ TakesUpTo(room[k], SumFunctionOnSet(room, before[k]), q, s[k])
  <2>1. PICK b, m : b = SumFunctionOnSet(room, before[k]) /\ m = room[k]  OBVIOUS
  <2>2. b \in Nat /\ m \in Nat  BY <1>1, <1>8, <2>1
  <2>3. s[k] = IF b >= q THEN 0 ELSE Min({m, q - b})
    BY <1>2, <1>6, <1>7, <2>1
  <2>4. CASE b >= q
    BY <2>1, <2>2, <2>3, <2>4 DEF TakesUpTo
  <2>5. CASE ~(b >= q)
    <3>1. q - b \in Nat  BY <2>2, <2>5
    <3>2. s[k] = IF m <= q - b THEN m ELSE q - b
      <4>1. s[k] = Min({m, q - b})  BY <2>3, <2>5
      <4> QED  BY <2>2, <3>1, <4>1, SmallestOfTwo
    <3>3. s[k] \in Nat /\ s[k] <= m /\ TakesUpTo(m, b, q, s[k])
      BY <2>2, <2>5, <3>1, <3>2 DEF TakesUpTo
    <3> QED  BY <2>1, <3>3
  <2> QED  BY <2>4, <2>5
<1>10. \A k \in LotIds : k \notin D => s[k] = 0  BY <1>6
<1>11. s \in [LotIds -> Nat]
  <2>1. s = [k \in LotIds |-> s[k]]  BY <1>5 DEF Spread
  <2>2. \A k \in LotIds : s[k] \in Nat  BY <1>9, <1>10
  <2> QED  BY <2>1, <2>2
<1>12. ASSUME q <= SumFunctionOnSet(room, D)
       PROVE  SumFunctionOnSet(s, D) = q /\ SumFunctionOnSet(s, LotIds) = q
  <2>1. \A k \in D : room[k] \in Nat /\ s[k] \in Nat  BY <1>1, <1>9
  <2>2. SumFunctionOnSet(s, D) = q
    BY <1>2, <1>4, <1>9, <1>12, <2>1, PlacedInOrder
  <2>3. \A k \in LotIds : s[k] \in Int  BY <1>11
  <2>4. SumFunctionOnSet(s, LotIds) = SumFunctionOnSet(s, D)
    BY <1>2, <1>10, <2>3, Bounds, SumNonZero
  <2> QED  BY <2>2, <2>4
<1> QED  BY <1>1, <1>5, <1>9, <1>10, <1>11, <1>12 DEF MovesUnits

-----------------------------------------------------------------------------
(* What a step does to the lots of each location *)

\* Drawing from the lots of a location.
LEMMA HeldAfterDraw ==
  ASSUME NEW l \in LotRows, NEW at \in Locations, NEW q \in Nat, NEW s, NEW l2,
         \A k \in DOMAIN l : s[k] \in Nat /\ s[k] <= LeftIn(l, at)[k],
         SumFunctionOnSet(s, DOMAIN l) = q,
         l2 = Without(l, s)
  PROVE  /\ l2 \in LotRows /\ Len(l2) = Len(l) /\ DOMAIN l2 = DOMAIN l
         /\ HeldIn(l2, at) = HeldIn(l, at) - q
         /\ \A a \in Locations \ {at} : HeldIn(l2, a) = HeldIn(l, a)
<1>0. l2 = [k \in DOMAIN l |-> [l[k] EXCEPT !.left = @ - s[k]]]  BY DEF Without
<1>1. IsFiniteSet(DOMAIN l) /\ Len(l) \in Nat /\ DOMAIN l = 1..Len(l)
  BY LotRowsFinite
<1>2. ASSUME NEW k \in DOMAIN l
      PROVE  /\ l2[k] \in [at : Locations, left : Nat, age : Nat]
             /\ l2[k].at = l[k].at /\ l2[k].left = l[k].left - s[k]
             /\ l[k].at # at => s[k] = 0
  <2>1. PICK x : x = l[k]  OBVIOUS
  <2>2. x \in [at : Locations, left : Nat, age : Nat] /\ x.left \in Nat
    BY <2>1, LotTypes
  <2>3. s[k] \in Nat /\ s[k] <= IF x.at = at THEN x.left ELSE 0
    BY <2>1 DEF LeftIn
  <2>4. l2[k] = [x EXCEPT !.left = x.left - s[k]]  BY <1>0, <2>1
  <2>5. x.left - s[k] \in Nat /\ (x.at # at => s[k] = 0)  BY <2>2, <2>3
  <2> QED  BY <2>1, <2>2, <2>4, <2>5
<1>3. DOMAIN l2 = DOMAIN l  BY <1>0
<1>4. l2 \in LotRows /\ Len(l2) = Len(l)
  <2>1. PICK R : R = [at : Locations, left : Nat, age : Nat]  OBVIOUS
  <2>2. \A k \in 1..Len(l) : l2[k] \in R  BY <1>1, <1>2, <2>1
  <2>3. l2 \in [1..Len(l) -> R]
    <3>1. l2 = [k \in 1..Len(l) |-> l2[k]]  BY <1>0, <1>1
    <3> QED  BY <2>2, <3>1
  <2>4. l2 \in Seq(R)  BY <1>1, <2>3
  <2>5. Len(l2) = Len(l)  BY <1>1, <1>3, <2>4
  <2> QED  BY <2>1, <2>4, <2>5 DEF LotRows
<1>5. HeldIn(l2, at) = HeldIn(l, at) - q
  <2>1. \A k \in DOMAIN l : /\ LeftIn(l, at)[k] \in Int /\ s[k] \in Int
                            /\ LeftIn(l2, at)[k] = LeftIn(l, at)[k] - s[k]
    BY <1>2, <1>3, LotTypes DEF LeftIn
  <2>2. PICK D, f, g : D = DOMAIN l /\ f = LeftIn(l, at) /\ g = LeftIn(l2, at)  OBVIOUS
  <2>3. SumFunctionOnSet(g, D) = SumFunctionOnSet(f, D) - SumFunctionOnSet(s, D)
    BY <1>1, <2>1, <2>2, SumOfDifference
  <2> QED  BY <1>3, <2>2, <2>3 DEF HeldIn
<1>6. ASSUME NEW a \in Locations \ {at} PROVE HeldIn(l2, a) = HeldIn(l, a)
  <2>1. \A k \in DOMAIN l : LeftIn(l2, a)[k] = LeftIn(l, a)[k]
    BY <1>2, <1>3, LotTypes DEF LeftIn
  <2>2. PICK D, f, g : D = DOMAIN l /\ f = LeftIn(l, a) /\ g = LeftIn(l2, a)  OBVIOUS
  <2>3. \A k \in D : g[k] = f[k]  BY <2>1, <2>2
  <2>4. SumFunctionOnSet(g, D) = SumFunctionOnSet(f, D)  BY <1>1, <2>2, <2>3, SumSame
  <2> QED  BY <1>3, <2>2, <2>4 DEF HeldIn
<1> QED  BY <1>3, <1>4, <1>5, <1>6

\* Lots put after those there are.
LEMMA HeldTogether ==
  ASSUME NEW l \in LotRows, NEW c \in LotRows, NEW at
  PROVE  /\ l \o c \in LotRows /\ Len(l \o c) = Len(l) + Len(c)
         /\ HeldIn(l \o c, at) = HeldIn(l, at) + HeldIn(c, at)
<1>1. PICK R : R = [at : Locations, left : Nat, age : Nat]  OBVIOUS
<1>2. PICK n, m : n = Len(l) /\ m = Len(c)  OBVIOUS
<1>3. /\ n \in Nat /\ m \in Nat /\ DOMAIN l = 1..n /\ DOMAIN c = 1..m
      /\ l \in Seq(R) /\ c \in Seq(R)
  BY <1>1, <1>2, LotRowsFinite DEF LotRows
<1>4. PICK w : w = l \o c  OBVIOUS
<1>5. /\ w \in Seq(R) /\ Len(w) = n + m /\ DOMAIN w = 1..(n + m)
      /\ \A k \in 1..n : w[k] = l[k]
      /\ \A k \in 1..m : w[n + k] = c[k]
  BY <1>2, <1>3, <1>4
<1>6. w \in LotRows  BY <1>1, <1>5 DEF LotRows
<1>7. PICK f : f = LeftIn(w, at)  OBVIOUS
<1>8. \A k \in 1..(n + m) : f[k] \in Int
  BY <1>5, <1>6, <1>7, LeftInNat
<1>9. SumFunctionOnSet(f, 1..(n + m)) = SumFunctionOnSet(f, 1..n) + SumFunctionOnSet(f, (n + 1)..(n + m))
  <2>1. PICK W, T : W = 1..(n + m) /\ T = 1..n  OBVIOUS
  <2>2. n + m \in Nat  BY <1>3
  <2>3. IsFiniteSet(W)  BY <2>1, <2>2, FS_Interval
  <2>4. T \in SUBSET W /\ W \ T = (n + 1)..(n + m)  BY <1>3, <2>1
  <2>5. \A k \in W : f[k] \in Int  BY <1>8, <2>1
  <2>6. SumFunctionOnSet(f, W) = SumFunctionOnSet(f, T) + SumFunctionOnSet(f, W \ T)
    BY <2>3, <2>4, <2>5, SumParts
  <2> QED  BY <2>1, <2>4, <2>6
<1>10. SumFunctionOnSet(f, 1..n) = HeldIn(l, at)
  <2>1. IsFiniteSet(1..n)  BY <1>3, FS_Interval
  <2>2. \A k \in 1..n : f[k] = LeftIn(l, at)[k]
    BY <1>3, <1>5, <1>7 DEF LeftIn
  <2> QED  BY <1>3, <2>1, <2>2, SumSame DEF HeldIn
<1>11. SumFunctionOnSet(f, (n + 1)..(n + m)) = HeldIn(c, at)
  <2>1. PICK b : b = [k \in 1..m |-> n + k]  OBVIOUS
  <2>2. PICK T : T = (n + 1)..(n + m)  OBVIOUS
  <2>3. IsFiniteSet(1..m) /\ IsFiniteSet(T)  BY <1>3, <2>2, FS_Interval
  <2>4. /\ b \in [1..m -> T] /\ \A x, y \in 1..m : b[x] = b[y] => x = y
        /\ \A t \in T : \E x \in 1..m : b[x] = t
    <3>1. \A t \in T : t - n \in 1..m /\ b[t - n] = t  BY <1>3, <2>1, <2>2
    <3> QED  BY <1>3, <2>1, <2>2, <3>1
  <2>5. \A t \in T : f[t] \in Int  BY <1>3, <1>8, <2>2
  <2>6. \A k \in 1..m : LeftIn(c, at)[k] = f[b[k]]
    <3> TAKE k \in 1..m
    <3>1. n + k \in 1..(n + m) /\ b[k] = n + k /\ w[n + k] = c[k]  BY <1>3, <1>5, <2>1
    <3> QED  BY <1>3, <1>5, <1>7, <3>1 DEF LeftIn
  <2>7. PICK S, g : S = 1..m /\ g = LeftIn(c, at)  OBVIOUS
  <2>8. SumFunctionOnSet(g, S) = SumFunctionOnSet(f, T)
    <3>1. /\ IsFiniteSet(S) /\ b \in [S -> T] /\ \A k \in S : g[k] = f[b[k]]
          /\ \A x, y \in S : b[x] = b[y] => x = y
          /\ \A t \in T : \E x \in S : b[x] = t
      BY <2>3, <2>4, <2>6, <2>7
    <3> QED  BY <2>3, <2>5, <3>1, SumRenamed
  <2> QED  BY <1>3, <2>2, <2>7, <2>8 DEF HeldIn
<1> QED  BY <1>2, <1>4, <1>5, <1>6, <1>7, <1>9, <1>10, <1>11 DEF HeldIn

\* A lot opened for a location.
LEMMA HeldAfterOpening ==
  ASSUME NEW l \in LotRows, NEW at \in Locations, NEW q \in Nat, NEW n \in Nat,
         NEW l2, l2 = WithLot(l, at, q, n)
  PROVE  /\ l2 \in LotRows /\ Len(l2) = Len(l) + 1
         /\ HeldIn(l2, at) = HeldIn(l, at) + q
         /\ \A a \in Locations \ {at} : HeldIn(l2, a) = HeldIn(l, a)
<1>1. PICK x : x = [at |-> at, left |-> q, age |-> n]  OBVIOUS
<1>2. /\ x \in [at : Locations, left : Nat, age : Nat]
      /\ x.at = at /\ x.left = q
  BY <1>1
<1>3. PICK c : c = <<x>>  OBVIOUS
<1>4. /\ c \in LotRows /\ Len(c) = 1 /\ DOMAIN c = {1} /\ c[1] = x
  BY <1>2, <1>3 DEF LotRows
<1>5. \A a : HeldIn(c, a) = LeftIn(c, a)[1]
  <2> TAKE a
  <2>1. IsFiniteSet({}) /\ 1 \notin {} /\ {1} = {} \cup {1}  BY FS_EmptySet
  <2>2. LeftIn(c, a)[1] \in Int  BY <1>4, LeftInNat
  <2>3. SumFunctionOnSet(LeftIn(c, a), {} \cup {1}) = LeftIn(c, a)[1] + SumFunctionOnSet(LeftIn(c, a), {})
    BY <2>1, <2>2, SumAdd
  <2>4. SumFunctionOnSet(LeftIn(c, a), {1}) = LeftIn(c, a)[1]
    BY <2>1, <2>2, <2>3, SumEmpty
  <2> QED  BY <1>4, <2>4 DEF HeldIn
<1>6. HeldIn(c, at) = q /\ \A a \in Locations \ {at} : HeldIn(c, a) = 0
  BY <1>2, <1>4, <1>5 DEF LeftIn
<1>7. l2 = l \o c
  <2>1. PICK R : R = [at : Locations, left : Nat, age : Nat]  OBVIOUS
  <2>2. l \in Seq(R) /\ x \in R  BY <1>2, <2>1 DEF LotRows
  <2>3. Append(l, x) = l \o <<x>>  BY <2>2
  <2> QED  BY <1>1, <1>3, <2>3 DEF WithLot
<1>8. \A a : HeldIn(l, a) \in Nat  BY LeftInNat
<1>9. l2 \in LotRows /\ Len(l2) = Len(l) + 1
  <2>1. c \in LotRows /\ Len(c) = 1  BY <1>4
  <2>2. l \o c \in LotRows /\ Len(l \o c) = Len(l) + Len(c)  BY <2>1, HeldTogether
  <2> QED  BY <1>7, <2>1, <2>2
<1>10. \A a : HeldIn(l2, a) = HeldIn(l, a) + HeldIn(c, a)
  <2> TAKE a
  <2>1. HeldIn(l \o c, a) = HeldIn(l, a) + HeldIn(c, a)  BY <1>4, HeldTogether
  <2> QED  BY <1>7, <2>1
<1> QED  BY <1>6, <1>8, <1>9, <1>10

\* A finite set as a sequence: each of its members, once.
LEMMA SetAsSequence ==
  ASSUME NEW S, IsFiniteSet(S)
  PROVE  \E n \in Nat : \E f : /\ f = SetToSeq(S) /\ n = Cardinality(S)
                               /\ f \in [1..n -> S]
                               /\ \A i, j \in 1..n : f[i] = f[j] => i = j
                               /\ \A x \in S : \E i \in 1..n : f[i] = x
<1>1. PICK n \in Nat : n = Cardinality(S) /\ ExistsBijection(1..n, S)
  BY FS_CardinalityType
<1>2. PICK g \in Bijection(1..n, S) : TRUE  BY <1>1 DEF ExistsBijection
<1>3. g \in [1..n -> S] /\ IsInjective(g)
  BY <1>2 DEF Bijection, Injection, IsInjective
<1>4. PICK f : f = SetToSeq(S)  OBVIOUS
<1>5. f \in [1..n -> S] /\ IsInjective(f)
  BY <1>1, <1>3, <1>4 DEF SetToSeq
<1>6. \A i, j \in 1..n : f[i] = f[j] => i = j
  BY <1>5 DEF IsInjective
<1>7. f \in Injection(1..n, S)  BY <1>5, <1>6 DEF Injection, IsInjective
<1>8. f \in Surjection(1..n, S)
  <2>1. IsFiniteSet(1..n) /\ Cardinality(1..n) = n
    <3>1. 1..n = {} \/ 1 <= n  OBVIOUS
    <3>2. Cardinality(1..n) = IF 1 <= n THEN n - 1 + 1 ELSE 0  BY FS_Interval
    <3>3. Cardinality(1..n) = n  BY <3>2
    <3> QED  BY <3>3, FS_Interval
  <2> QED  BY <1>1, <1>7, <2>1, FS_Injection
<1>9. \A x \in S : \E i \in 1..n : f[i] = x
  BY <1>8 DEF Surjection
<1> QED  BY <1>1, <1>4, <1>5, <1>6, <1>9

\* Units coming back to a location, into its own lots or into new ones split
\* from those of others.
LEMMA HeldAfterReturn ==
  ASSUME lots \in LotRows, Len(lots) <= MaxLots, NEW at \in Locations, NEW q \in Nat,
         NEW slices, MovesUnits(DOMAIN lots, slices, q), NEW l2, l2 = LotsReturned(slices, at)
  PROVE  /\ l2 \in LotRows /\ Len(l2) = Len(lots) + Cardinality(Split(slices, at))
         /\ Cardinality(Split(slices, at)) \in Nat
         /\ HeldIn(l2, at) = HeldIn(lots, at) + q
         /\ \A a \in Locations \ {at} : HeldIn(l2, a) = HeldIn(lots, a)
<1>1. PICK D, R : D = DOMAIN lots /\ R = [at : Locations, left : Nat, age : Nat]
  OBVIOUS
<1>2. /\ IsFiniteSet(D) /\ D \subseteq LotIds /\ D = 1..Len(lots) /\ Len(lots) \in Nat
  BY <1>1, LotRowsFinite
<1>3. /\ slices \in [LotIds -> Nat] /\ SumFunctionOnSet(slices, LotIds) = q
      /\ \A k \in LotIds \ D : slices[k] = 0
  BY <1>1 DEF MovesUnits
<1>4. SumFunctionOnSet(slices, D) = q
  <2>1. \A k \in LotIds : slices[k] \in Int  BY <1>3
  <2> QED  BY <1>2, <1>3, <2>1, Bounds, SumNonZero
<1>5. PICK S : S = Split(slices, at)  OBVIOUS
<1>6. S = {k \in D : slices[k] > 0 /\ lots[k].at # at} /\ S \subseteq D /\ IsFiniteSet(S)
  <2>1. S = {k \in D : slices[k] > 0 /\ lots[k].at # at}  BY <1>1, <1>5 DEF Split
  <2>2. S \subseteq D  BY <2>1
  <2> QED  BY <1>2, <2>1, <2>2, FS_Subset
<1>50. IsFiniteSet(S)  BY <1>6
<1>0. PICK n \in Nat : \E f : /\ f = SetToSeq(S) /\ n = Cardinality(S)
                              /\ f \in [1..n -> S]
                              /\ \A i, j \in 1..n : f[i] = f[j] => i = j
                              /\ \A x \in S : \E i \in 1..n : f[i] = x
  BY <1>50, SetAsSequence, Zenon
<1>7. PICK ks : /\ ks = SetToSeq(S) /\ n = Cardinality(S)
                /\ ks \in [1..n -> S]
                /\ \A i, j \in 1..n : ks[i] = ks[j] => i = j
                /\ \A x \in S : \E i \in 1..n : ks[i] = x
  BY <1>0
<1>8. PICK c : c = [i \in 1..n |-> [at |-> at, left |-> slices[ks[i]], age |-> lots[ks[i]].age]]
  OBVIOUS
<1>9. Children(slices, at) = c
  <2>1. DOMAIN ks = 1..n  BY <1>7
  <2> QED  BY <1>5, <1>7, <1>8, <2>1 DEF Children
<1>10. c \in LotRows /\ Len(c) = n /\ DOMAIN c = 1..n
  <2>1. \A i \in 1..n : c[i] \in R
    <3> TAKE i \in 1..n
    <3>1. ks[i] \in D /\ slices[ks[i]] \in Nat  BY <1>2, <1>3, <1>6, <1>7
    <3>2. lots[ks[i]].age \in Nat  BY <1>1, <3>1, LotTypes
    <3> QED  BY <1>1, <1>8, <3>1, <3>2
  <2>2. c \in [1..n -> R]
    <3>1. c = [i \in 1..n |-> c[i]]  BY <1>8
    <3> QED  BY <2>1, <3>1
  <2>3. c \in Seq(R)  BY <2>2
  <2>4. Len(c) = n  BY <2>2, <2>3
  <2> QED  BY <1>1, <1>8, <2>3, <2>4 DEF LotRows
<1>11. \A i \in 1..n : c[i].at = at /\ c[i].left = slices[ks[i]]
  BY <1>8
<1>12. HeldIn(c, at) = SumFunctionOnSet(slices, S)
  <2>1. PICK P, g : P = 1..n /\ g = LeftIn(c, at)  OBVIOUS
  <2>2. IsFiniteSet(P)  BY <2>1, FS_Interval
  <2>3. \A i \in P : g[i] = slices[ks[i]]  BY <1>10, <1>11, <2>1 DEF LeftIn
  <2>4. /\ ks \in [P -> S] /\ \A x, y \in P : ks[x] = ks[y] => x = y
        /\ \A t \in S : \E x \in P : ks[x] = t
    BY <1>7, <2>1
  <2>5. \A t \in S : slices[t] \in Int  BY <1>2, <1>3, <1>6
  <2>6. SumFunctionOnSet(g, P) = SumFunctionOnSet(slices, S)
    BY <1>6, <2>2, <2>3, <2>4, <2>5, SumRenamed
  <2> QED  BY <1>10, <2>1, <2>6 DEF HeldIn
<1>13. ASSUME NEW a \in Locations \ {at} PROVE HeldIn(c, a) = 0
  <2>1. IsFiniteSet(DOMAIN c)  BY <1>10, FS_Interval
  <2>2. \A i \in DOMAIN c : LeftIn(c, a)[i] = 0  BY <1>10, <1>11 DEF LeftIn
  <2> QED  BY <2>1, <2>2, SumZero DEF HeldIn
<1>14. PICK home : home = [k \in D |-> IF lots[k].at = at
                                       THEN [lots[k] EXCEPT !.left = @ + slices[k]]
                                       ELSE lots[k]]
  OBVIOUS
<1>15. l2 = home \o c  BY <1>1, <1>9, <1>14 DEF LotsReturned
<1>16. ASSUME NEW k \in D
       PROVE  /\ home[k] \in R /\ home[k].at = lots[k].at
              /\ home[k].left = IF lots[k].at = at THEN lots[k].left + slices[k]
                                ELSE lots[k].left
  <2>1. PICK x : x = lots[k]  OBVIOUS
  <2>2. x \in R /\ x.left \in Nat /\ slices[k] \in Nat
    BY <1>1, <1>2, <1>3, <2>1, LotTypes
  <2>3. home[k] = IF x.at = at THEN [x EXCEPT !.left = x.left + slices[k]] ELSE x
    BY <1>14, <2>1
  <2> QED  BY SMTT(30), <1>1, <2>1, <2>2, <2>3
<1>17. home \in LotRows /\ Len(home) = Len(lots) /\ DOMAIN home = D
  <2>1. home \in [1..Len(lots) -> R]
    <3>1. home = [k \in 1..Len(lots) |-> home[k]]  BY <1>2, <1>14
    <3> QED  BY <1>2, <1>16, <3>1
  <2>2. home \in Seq(R)  BY <1>2, <2>1
  <2>3. Len(home) = Len(lots)  BY <1>2, <2>1, <2>2
  <2> QED  BY <1>1, <1>14, <2>2, <2>3 DEF LotRows
<1>18. PICK own : own = [k \in D |-> IF lots[k].at = at THEN slices[k] ELSE 0]
  OBVIOUS
<1>19. HeldIn(home, at) = HeldIn(lots, at) + SumFunctionOnSet(own, D)
  <2>1. \A k \in D : /\ LeftIn(lots, at)[k] \in Int /\ own[k] \in Int
                     /\ LeftIn(home, at)[k] = LeftIn(lots, at)[k] + own[k]
    <3> TAKE k \in D
    <3>1. lots[k].left \in Nat /\ slices[k] \in Nat  BY <1>1, <1>2, <1>3, LotTypes
    <3> QED  BY <1>1, <1>16, <1>17, <1>18, <3>1 DEF LeftIn
  <2>2. PICK f, g : f = LeftIn(lots, at) /\ g = LeftIn(home, at)  OBVIOUS
  <2>3. SumFunctionOnSet(g, D) = SumFunctionOnSet(f, D) + SumFunctionOnSet(own, D)
    BY <1>2, <2>1, <2>2, SumOfTwo
  <2> QED  BY <1>1, <1>17, <2>2, <2>3 DEF HeldIn
<1>20. ASSUME NEW a \in Locations \ {at} PROVE HeldIn(home, a) = HeldIn(lots, a)
  <2>1. \A k \in D : LeftIn(home, a)[k] = LeftIn(lots, a)[k]
    BY <1>1, <1>16, <1>17 DEF LeftIn
  <2>2. PICK f, g : f = LeftIn(lots, a) /\ g = LeftIn(home, a)  OBVIOUS
  <2>3. SumFunctionOnSet(g, D) = SumFunctionOnSet(f, D)
    BY <1>2, <2>1, <2>2, SumSame
  <2> QED  BY <1>1, <1>17, <2>2, <2>3 DEF HeldIn
<1>21. SumFunctionOnSet(own, D) + SumFunctionOnSet(slices, S) = q
  <2>1. PICK away : away = [k \in D |-> IF lots[k].at = at THEN 0 ELSE slices[k]]
    OBVIOUS
  <2>2. \A k \in D : /\ own[k] \in Int /\ away[k] \in Int /\ slices[k] = own[k] + away[k]
    BY <1>2, <1>3, <1>18, <2>1
  <2>3. SumFunctionOnSet(slices, D) = SumFunctionOnSet(own, D) + SumFunctionOnSet(away, D)
    BY <1>2, <2>2, SumOfTwo
  <2>4. \A k \in D \ S : away[k] = 0
    BY <1>2, <1>3, <1>6, <2>1
  <2>5. SumFunctionOnSet(away, D) = SumFunctionOnSet(away, S)
    BY <1>2, <1>6, <2>2, <2>4, SumNonZero
  <2>6. \A k \in S : away[k] = slices[k]  BY <1>6, <2>1
  <2>7. SumFunctionOnSet(away, S) = SumFunctionOnSet(slices, S)
    BY <1>6, <2>6, SumSame
  <2> QED  BY <1>4, <2>3, <2>5, <2>7
<1>22. l2 \in LotRows /\ Len(l2) = Len(lots) + n
  BY <1>10, <1>15, <1>17, HeldTogether
<1>23. \A a : HeldIn(l2, a) = HeldIn(home, a) + HeldIn(c, a)
  <2> TAKE a
  <2> QED  BY <1>10, <1>15, <1>17, HeldTogether
<1>24. /\ \A a : HeldIn(lots, a) \in Nat
       /\ SumFunctionOnSet(own, D) \in Int /\ SumFunctionOnSet(slices, S) \in Int
  <2>1. \A a : HeldIn(lots, a) \in Nat  BY LeftInNat
  <2>2. \A k \in D : own[k] \in Int /\ slices[k] \in Int  BY <1>2, <1>3, <1>18
  <2>3. \A k \in S : slices[k] \in Int  BY <1>6, <2>2
  <2> QED  BY <1>2, <1>6, <2>1, <2>2, <2>3, SumType
<1>25. HeldIn(l2, at) = HeldIn(lots, at) + q
  BY <1>12, <1>19, <1>21, <1>23, <1>24
<1>26. \A a \in Locations \ {at} : HeldIn(l2, a) = HeldIn(lots, a)
  BY <1>13, <1>20, <1>23, <1>24
<1> QED  BY <1>5, <1>7, <1>22, <1>25, <1>26

-----------------------------------------------------------------------------
(* The shelf *)

\* The rows and lots of the shop: no more is locked than there is, and where
\* no row was deleted blindly, lots and locked goods are what the row says.
ShelfOK ==
  /\ stock \in [Locations -> Nat] /\ locked \in [Locations -> Nat]
  /\ packed \in [Locations -> Nat]
  /\ lots \in LotRows /\ Len(lots) <= MaxLots
  /\ \A at \in Locations : locked[at] <= stock[at]
  /\ \A at \in Locations \ blind : /\ HeldIn(lots, at) = stock[at]
                                   /\ locked[at] = packed[at]

LEMMA LeftIsHeld ==
  ASSUME NEW at
  PROVE  LeftAt(at) = LeftIn(lots, at) /\ SumOver(LeftAt(at), DOMAIN lots) = HeldIn(lots, at)
BY DEF LeftAt, LeftIn, HeldIn, SumOver

\* Slices of what a location has left.
LEMMA DrawAddsUp ==
  ASSUME ShelfOK, NEW at \in Locations, NEW q \in Nat, LotsCover(at, q)
  PROVE  /\ MovesUnits(DOMAIN lots, DrawSlices(at, q), q)
         /\ SumFunctionOnSet(DrawSlices(at, q), DOMAIN lots) = q
         /\ \A k \in DOMAIN lots : /\ DrawSlices(at, q)[k] \in Nat
                                   /\ DrawSlices(at, q)[k] <= LeftIn(lots, at)[k]
<1>1. lots \in LotRows /\ Len(lots) <= MaxLots  BY DEF ShelfOK
<1>2. PICK room : room = LeftIn(lots, at)  OBVIOUS
<1>3. \A k \in DOMAIN lots : room[k] \in Nat  BY <1>1, <1>2, LeftInNat
<1>4. DrawSlices(at, q) = Spread(room, q)  BY <1>2, LeftIsHeld DEF DrawSlices
<1>5. q <= SumFunctionOnSet(room, DOMAIN lots)
  <2>1. HeldIn(lots, at) \in Nat /\ HeldIn(lots, at) >= q
    BY <1>1, LeftIsHeld, LeftInNat DEF LotsCover
  <2> QED  BY <1>2, <2>1 DEF HeldIn
<1>6. /\ Spread(room, q) \in [LotIds -> Nat]
      /\ \A k \in DOMAIN lots : Spread(room, q)[k] <= room[k]
      /\ SumFunctionOnSet(Spread(room, q), DOMAIN lots) = q
      /\ MovesUnits(DOMAIN lots, Spread(room, q), q)
  BY <1>1, <1>3, <1>5, SpreadAddsUp
<1>7. DOMAIN lots \subseteq LotIds  BY <1>1, LotRowsFinite
<1> QED  BY <1>2, <1>4, <1>6, <1>7

\* A row and the lots of its location change together.
LEMMA ShelfStep ==
  ASSUME ShelfOK, NEW at \in Locations, NEW q \in Int, NEW l2 \in LotRows, Len(l2) <= MaxLots,
         lots' = l2, HeldIn(l2, at) = HeldIn(lots, at) + q,
         \A a \in Locations \ {at} : HeldIn(l2, a) = HeldIn(lots, a),
         stock' = [stock EXCEPT ![at] = @ + q], stock[at] + q >= locked[at],
         UNCHANGED <<locked, packed, blind>>
  PROVE  ShelfOK'
<1>1. PICK s2 : s2 = stock'  OBVIOUS
<1>2. /\ s2 = [stock EXCEPT ![at] = @ + q]
      /\ stock \in [Locations -> Nat] /\ locked \in [Locations -> Nat]
      /\ \A a \in Locations : locked[a] <= stock[a]
      /\ \A a \in Locations \ blind : HeldIn(lots, a) = stock[a] /\ locked[a] = packed[a]
      /\ packed \in [Locations -> Nat]
  BY <1>1 DEF ShelfOK
<1>3. stock[at] \in Nat /\ locked[at] \in Nat /\ stock[at] + q \in Nat
  BY <1>2
<1>4. /\ s2 \in [Locations -> Nat] /\ s2[at] = stock[at] + q
      /\ \A a \in Locations \ {at} : s2[a] = stock[a]
  BY <1>2, <1>3
<1>5. \A a \in Locations : locked[a] <= s2[a]  BY <1>2, <1>3, <1>4
<1>6. \A a \in Locations \ blind : HeldIn(l2, a) = s2[a] /\ locked[a] = packed[a]
  BY <1>2, <1>4
<1>7. /\ stock' = s2 /\ locked' = locked /\ packed' = packed /\ blind' = blind /\ lots' = l2
  BY <1>1
<1> QED  BY <1>2, <1>4, <1>5, <1>6, <1>7 DEF ShelfOK, HeldIn, LeftIn

\* deductStock.
LEMMA DeductShelf ==
  ASSUME ShelfOK, NEW at \in Locations, NEW q \in Nat, DeductStock(at, q),
         UNCHANGED <<packed, blind>>
  PROVE  /\ ShelfOK' /\ Len(lots') = Len(lots) /\ DOMAIN lots' = DOMAIN lots
         /\ MovesUnits(DOMAIN lots, DrawSlices(at, q), q)
<1>1. PICK s, l2 : s = DrawSlices(at, q) /\ l2 = lots'  OBVIOUS
<1>2. /\ LotsCover(at, q) /\ stock[at] - locked[at] >= q
      /\ stock' = [stock EXCEPT ![at] = @ - q] /\ locked' = locked
  BY DEF DeductStock, ShelfCovers, Shelf
<1>10. l2 = Without(lots, s)
  BY <1>1 DEF DeductStock, LotsDrawn, Without
<1>11. lots \in LotRows  BY DEF ShelfOK
<1>3. /\ MovesUnits(DOMAIN lots, s, q) /\ SumFunctionOnSet(s, DOMAIN lots) = q
      /\ \A k \in DOMAIN lots : s[k] \in Nat /\ s[k] <= LeftIn(lots, at)[k]
  BY <1>1, <1>2, DrawAddsUp
<1>4. /\ lots \in LotRows /\ Len(lots) <= MaxLots
      /\ stock \in [Locations -> Nat] /\ locked \in [Locations -> Nat]
  BY DEF ShelfOK
<1>5. /\ l2 \in LotRows /\ Len(l2) = Len(lots) /\ DOMAIN l2 = DOMAIN lots
      /\ HeldIn(l2, at) = HeldIn(lots, at) - q
      /\ \A a \in Locations \ {at} : HeldIn(l2, a) = HeldIn(lots, a)
  BY <1>3, <1>10, <1>11, HeldAfterDraw
<1>6. HeldIn(lots, at) \in Nat /\ stock[at] \in Nat /\ locked[at] \in Nat
  BY <1>4, LeftInNat
<1>7. PICK p \in Int : p = -q  OBVIOUS
<1>8. /\ HeldIn(l2, at) = HeldIn(lots, at) + p
      /\ stock[at] - q = stock[at] + p /\ stock[at] + p >= locked[at]
  BY <1>2, <1>5, <1>6, <1>7
<1>12. stock' = [stock EXCEPT ![at] = @ + p]  BY <1>2, <1>8
<1>13. lots' = l2 /\ l2 \in LotRows /\ Len(l2) <= MaxLots /\ UNCHANGED <<locked, packed, blind>>
  BY <1>1, <1>2, <1>4, <1>5
<1>14. \A a \in Locations \ {at} : HeldIn(l2, a) = HeldIn(lots, a)  BY <1>5
<1>9. ShelfOK'
  BY <1>8, <1>12, <1>13, <1>14, ShelfStep
<1> QED  BY <1>1, <1>3, <1>5, <1>9

\* openLot.
LEMMA OpenShelf ==
  ASSUME ShelfOK, NEW at \in Locations, NEW q \in Nat, OpenLot(at, q),
         UNCHANGED <<packed, blind>>
  PROVE  ShelfOK' /\ Len(lots') = Len(lots) + 1 /\ Len(lots) + 1 <= MaxLots
<1>1. PICK l2 : l2 = lots'  OBVIOUS
<1>2. /\ lots \in LotRows /\ Len(lots) \in Nat
      /\ stock \in [Locations -> Nat] /\ locked \in [Locations -> Nat]
      /\ \A a \in Locations : locked[a] <= stock[a]
  BY LotRowsFinite DEF ShelfOK
<1>3. /\ Len(lots) < MaxLots
      /\ stock' = [stock EXCEPT ![at] = @ + q] /\ locked' = locked
  BY DEF OpenLot
<1>8. PICK n \in Nat : n = Len(lots) + 1  BY <1>2
<1>9. l2 = WithLot(lots, at, q, n)
  BY <1>1, <1>8 DEF OpenLot, NewLot, WithLot
<1>10. lots \in LotRows  BY <1>2
<1>4. /\ l2 \in LotRows /\ Len(l2) = Len(lots) + 1
      /\ HeldIn(l2, at) = HeldIn(lots, at) + q
      /\ \A a \in Locations \ {at} : HeldIn(l2, a) = HeldIn(lots, a)
  BY <1>9, <1>10, HeldAfterOpening
<1>5. Len(lots) + 1 <= MaxLots  BY <1>2, <1>3, Bounds
<1>6. stock[at] + q >= locked[at] /\ q \in Int  BY <1>2
<1>11. lots' = l2 /\ l2 \in LotRows /\ Len(l2) <= MaxLots /\ UNCHANGED <<locked, packed, blind>>
  BY <1>1, <1>3, <1>4, <1>5
<1>12. HeldIn(l2, at) = HeldIn(lots, at) + q  BY <1>4
<1>13. \A a \in Locations \ {at} : HeldIn(l2, a) = HeldIn(lots, a)  BY <1>4
<1>14. stock' = [stock EXCEPT ![at] = @ + q]  BY <1>3
<1>7. ShelfOK'
  BY <1>6, <1>11, <1>12, <1>13, <1>14, ShelfStep
<1> QED  BY <1>1, <1>4, <1>5, <1>7

\* returnDrawn.
LEMMA ReturnShelf ==
  ASSUME ShelfOK, NEW d, NEW at \in Locations, NEW q \in Nat, NEW slices,
         MovesUnits(DOMAIN lots, slices, q), ReturnDrawn(d, at, slices, q), UNCHANGED <<packed, blind>>
  PROVE  ShelfOK' /\ Len(lots') >= Len(lots) /\ Len(lots') \in Nat
<1>1. PICK l2 : l2 = lots'  OBVIOUS
<1>2. /\ lots \in LotRows /\ Len(lots) \in Nat /\ Len(lots) <= MaxLots
      /\ stock \in [Locations -> Nat] /\ locked \in [Locations -> Nat]
      /\ \A a \in Locations : locked[a] <= stock[a]
  BY LotRowsFinite DEF ShelfOK
<1>3. /\ Len(lots) + Cardinality(Split(slices, at)) <= MaxLots
      /\ stock' = [stock EXCEPT ![at] = @ + q] /\ locked' = locked
      /\ l2 = LotsReturned(slices, at)
  BY <1>1 DEF ReturnDrawn
<1>4. /\ l2 \in LotRows /\ Len(l2) = Len(lots) + Cardinality(Split(slices, at))
      /\ Cardinality(Split(slices, at)) \in Nat
      /\ HeldIn(l2, at) = HeldIn(lots, at) + q
      /\ \A a \in Locations \ {at} : HeldIn(l2, a) = HeldIn(lots, a)
  BY <1>2, <1>3, HeldAfterReturn
<1>5. stock[at] + q >= locked[at] /\ q \in Int  BY <1>2
<1>7. lots' = l2 /\ l2 \in LotRows /\ Len(l2) <= MaxLots /\ UNCHANGED <<locked, packed, blind>>
  BY <1>1, <1>3, <1>4
<1>8. HeldIn(l2, at) = HeldIn(lots, at) + q  BY <1>4
<1>9. \A a \in Locations \ {at} : HeldIn(l2, a) = HeldIn(lots, a)  BY <1>4
<1>10. stock' = [stock EXCEPT ![at] = @ + q]  BY <1>3
<1>6. ShelfOK'
  BY <1>5, <1>7, <1>8, <1>9, <1>10, ShelfStep
<1> QED  BY <1>1, <1>2, <1>4, <1>6

\* The rest of the shop.
LEMMA LockShelf ==
  ASSUME ShelfOK, NEW at \in Locations,
         LockStock(at) \/ ReleaseLockedStock(at)
  PROVE  ShelfOK'
<1>1. /\ stock \in [Locations -> Nat] /\ locked \in [Locations -> Nat]
      /\ packed \in [Locations -> Nat]
      /\ \A a \in Locations : locked[a] <= stock[a]
      /\ \A a \in Locations \ blind : locked[a] = packed[a]
  BY DEF ShelfOK
<1>2. UNCHANGED <<stock, lots, blind>>
  BY DEF LockStock, ReleaseLockedStock
<1>3. PICK l2, p2 : l2 = locked' /\ p2 = packed'  OBVIOUS
<1>4. /\ l2 \in [Locations -> Nat] /\ p2 \in [Locations -> Nat]
      /\ \A a \in Locations : l2[a] <= stock[a]
      /\ \A a \in Locations \ blind : l2[a] = p2[a]
  <2>1. locked[at] \in Nat /\ stock[at] \in Nat /\ packed[at] \in Nat  BY <1>1
  <2>2. CASE LockStock(at)
    BY <1>1, <1>3, <2>1, <2>2 DEF LockStock, ShelfCovers, Shelf
  <2>3. CASE ReleaseLockedStock(at)
    BY <1>1, <1>3, <2>1, <2>3 DEF ReleaseLockedStock
  <2> QED  BY <2>2, <2>3
<1> QED  BY <1>2, <1>3, <1>4 DEF ShelfOK, HeldIn, LeftIn

LEMMA ShipLockedShelf ==
  ASSUME ShelfOK, NEW at \in Locations, ShipLockedStock(at)
  PROVE  ShelfOK' /\ Len(lots') = Len(lots)
<1>1. PICK s, l2, s2, k2, p2 : /\ s = DrawSlices(at, 1) /\ l2 = lots'
                               /\ s2 = stock' /\ k2 = locked' /\ p2 = packed'
  OBVIOUS
<1>2. /\ LotsCover(at, 1) /\ locked[at] >= 1 /\ packed[at] > 0
      /\ s2 = [stock EXCEPT ![at] = @ - 1] /\ k2 = [locked EXCEPT ![at] = @ - 1]
      /\ p2 = [packed EXCEPT ![at] = @ - 1]
      /\ blind' = blind
  BY <1>1 DEF ShipLockedStock
<1>9. l2 = Without(lots, s)
  BY <1>1 DEF ShipLockedStock, LotsDrawn, Without
<1>10. lots \in LotRows  BY DEF ShelfOK
<1>3. /\ stock \in [Locations -> Nat] /\ locked \in [Locations -> Nat]
      /\ packed \in [Locations -> Nat] /\ lots \in LotRows /\ Len(lots) <= MaxLots
      /\ \A a \in Locations : locked[a] <= stock[a]
      /\ \A a \in Locations \ blind : HeldIn(lots, a) = stock[a] /\ locked[a] = packed[a]
  BY DEF ShelfOK
<1>4. /\ SumFunctionOnSet(s, DOMAIN lots) = 1
      /\ \A k \in DOMAIN lots : s[k] \in Nat /\ s[k] <= LeftIn(lots, at)[k]
  BY <1>1, <1>2, DrawAddsUp
<1>5. /\ l2 \in LotRows /\ Len(l2) = Len(lots)
      /\ HeldIn(l2, at) = HeldIn(lots, at) - 1
      /\ \A a \in Locations \ {at} : HeldIn(l2, a) = HeldIn(lots, a)
  BY <1>4, <1>9, <1>10, HeldAfterDraw
<1>6. stock[at] \in Nat /\ locked[at] \in Nat /\ packed[at] \in Nat
  BY <1>3
<1>7. /\ s2 \in [Locations -> Nat] /\ k2 \in [Locations -> Nat] /\ p2 \in [Locations -> Nat]
      /\ \A a \in Locations : k2[a] <= s2[a]
  BY <1>2, <1>3, <1>6
<1>8. \A a \in Locations \ blind : HeldIn(l2, a) = s2[a] /\ k2[a] = p2[a]
  BY <1>2, <1>3, <1>5, <1>6
<1> QED  BY <1>1, <1>2, <1>3, <1>5, <1>7, <1>8 DEF ShelfOK, HeldIn, LeftIn

\* A row deleted with nothing in it takes nothing with it.
LEMMA RemoveShelf ==
  ASSUME ShelfOK, NEW r \in Clerks, RemoveCommit(r), task[r].at \in Locations
  PROVE  ShelfOK'
<1>1. PICK at : at = task[r].at /\ at \in Locations  OBVIOUS
<1>2. PICK s2, k2, b2 : s2 = stock' /\ k2 = locked' /\ b2 = blind'  OBVIOUS
<1>3. /\ s2 = [stock EXCEPT ![at] = 0] /\ k2 = [locked EXCEPT ![at] = 0]
      /\ b2 = IF stock[at] > 0 THEN blind \cup {at} ELSE blind
      /\ UNCHANGED <<lots, packed>>
  BY <1>1, <1>2 DEF RemoveCommit
<1>4. /\ stock \in [Locations -> Nat] /\ locked \in [Locations -> Nat]
      /\ packed \in [Locations -> Nat] /\ lots \in LotRows /\ Len(lots) <= MaxLots
      /\ \A a \in Locations : locked[a] <= stock[a]
      /\ \A a \in Locations \ blind : HeldIn(lots, a) = stock[a] /\ locked[a] = packed[a]
  BY DEF ShelfOK
<1>7. \A a \in Locations : /\ s2[a] = (IF a = at THEN 0 ELSE stock[a])
                            /\ k2[a] = (IF a = at THEN 0 ELSE locked[a])
  BY <1>1, <1>3, <1>4
<1>5. /\ s2 \in [Locations -> Nat] /\ k2 \in [Locations -> Nat]
      /\ \A a \in Locations : k2[a] <= s2[a]
  <2>1. s2 \in [Locations -> Nat]  BY <1>3, <1>4
  <2>2. k2 \in [Locations -> Nat]  BY <1>3, <1>4
  <2>3. \A a \in Locations : k2[a] <= s2[a]  BY SMTT(30), <1>4, <1>7
  <2> QED  BY <2>1, <2>2, <2>3
<1>6. ASSUME NEW a \in Locations \ b2
      PROVE  HeldIn(lots, a) = s2[a] /\ k2[a] = packed[a]
  <2>1. a \in Locations \ blind  BY <1>3
  <2>2. CASE a = at
    <3>1. stock[at] = 0 /\ locked[at] \in Nat /\ locked[at] <= stock[at]
      BY <1>1, <1>3, <1>4, <1>6, <2>2
    <3> QED  BY <1>1, <1>3, <1>4, <2>1, <2>2, <3>1
  <2>3. CASE a # at  BY <1>1, <1>3, <1>4, <2>1, <2>3
  <2> QED  BY <2>2, <2>3
<1> QED  BY <1>2, <1>3, <1>4, <1>5, <1>6 DEF ShelfOK, HeldIn, LeftIn

-----------------------------------------------------------------------------
(* The documents, what the requests hold of them, and the ledger *)

Kinds == {"TRANSFER", "IMPORT", "ADJUST"}
Statuses == {"NONE", "DRAFT", "PENDING", "OPENING", "CLOSED", "IN_TRANSIT"}
            \cup FinalStatuses

\* The row of a document.
RowOK(m) ==
  /\ m \in [type : Kinds \cup {"NONE"}, status : Statuses,
            from : Locations \cup {"NONE"}, to : Locations \cup {"NONE"},
            qty : Nat, received : Nat, edits : Nat]
  /\ m.type = "NONE" => m.status = "NONE"
  /\ m.type \in {"TRANSFER", "ADJUST"} => m.from \in Locations
  /\ m.type \in {"TRANSFER", "IMPORT"} => m.to \in Locations

\* How far a document has come. No operation leads back.
Rank(st) ==
  CASE st = "DRAFT"                 -> 0
    [] st = "OPENING"               -> 1
    [] st \in {"CLOSED", "PENDING"} -> 2
    [] st = "IN_TRANSIT"            -> 3
    [] OTHER                        -> 4

\* What a request has read of a document, docs, and planned of lots D.
TaskOK(x, docs, D) ==
  /\ x.op \in Operations \cup {"idle", "remove"}
  /\ x.op = "remove" => x.at \in Locations
  /\ x.op \in Operations =>
       /\ x = [op |-> x.op, doc |-> x.doc, row |-> x.row, received |-> x.received,
               slices |-> x.slices]
       /\ x.doc \in Docs
       /\ RowOK(x.row) /\ x.row.type # "NONE" /\ x.row.type = docs[x.doc].type
       /\ x.row.status \in AllowedFrom(x.op, x.row.type)
       /\ x.received \in Nat
       /\ x.slices = NoneMoved \/ /\ BringsBack(x)
                                  /\ MovesUnits(D, x.slices, ToBringBack(x))

\* What it read is behind the document, m, and if it is not, is the document,
\* with the plan within what the document still has out (o, less i).
Follows(x, m, o, i) ==
  /\ Rank(x.row.status) <= Rank(m.status) /\ x.row.edits <= m.edits
  /\ x.row.status = m.status /\ x.row.edits = m.edits =>
       /\ x.row = m
       /\ \A k \in LotIds : x.slices[k] = 0 \/ i[k] + x.slices[k] <= o[k]

\* The units a document moved, in a ledger that only knows lots D.
EntryOK(e, D) == e \in [LotIds -> Nat] /\ \A k \in LotIds \ D : e[k] = 0

\* What the ledger must say of a document, m: o drawn, i brought back.
Accounts(m, o, i) ==
  /\ SumFunctionOnSet(o, LotIds) - SumFunctionOnSet(i, LotIds) = NetDue(m)
  /\ m.type = "TRANSFER" => \A k \in LotIds : i[k] <= o[k]

\* The units an import brought in.
Imported(docs, i) == [d \in Docs |-> IF docs[d].type = "IMPORT"
                                     THEN SumFunctionOnSet(i[d], LotIds) ELSE 0]

DocsOK == DOMAIN mov = Docs /\ \A d \in Docs : RowOK(mov[d])
TasksOK == /\ DOMAIN task = Clerks
           /\ \A r \in Clerks : TaskOK(task[r], mov, DOMAIN lots)
LedgerOK == /\ out \in [Docs -> [LotIds -> Nat]] /\ into \in [Docs -> [LotIds -> Nat]]
            /\ \A d \in Docs : /\ EntryOK(out[d], DOMAIN lots)
                               /\ EntryOK(into[d], DOMAIN lots)
                               /\ mov[d].type = "NONE" => /\ out[d] = NoneMoved
                                                          /\ into[d] = NoneMoved
DebtOK == debt = SumFunctionOnSet(Imported(mov, into), Docs)
UnracedOK ==
  /\ \A d \in Docs \ raced : Accounts(mov[d], out[d], into[d])
  /\ \A r \in Clerks :
       task[r].op \in Operations /\ task[r].doc \notin raced
         => Follows(task[r], mov[task[r].doc], out[task[r].doc], into[task[r].doc])

MovementInv == ShelfOK /\ DocsOK /\ TasksOK /\ LedgerOK /\ DebtOK /\ UnracedOK

LEMMA MovesWider ==
  ASSUME NEW D, NEW E, D \subseteq E
  PROVE  /\ \A s, q : MovesUnits(D, s, q) => MovesUnits(E, s, q)
         /\ \A e : EntryOK(e, D) => EntryOK(e, E)
BY DEF MovesUnits, EntryOK

LEMMA TaskWider ==
  ASSUME NEW D, NEW E, D \subseteq E, NEW m, NEW m2, \A d \in Docs : m2[d].type = m[d].type,
         NEW x, TaskOK(x, m, D)
  PROVE  TaskOK(x, m2, E)
<1>1. \A q : MovesUnits(D, x.slices, q) => MovesUnits(E, x.slices, q)  BY MovesWider
<1> QED  BY <1>1 DEF TaskOK

LEMMA IdleOK == \A m, D : TaskOK(NoTask, m, D) /\ NoTask.op \notin Operations
BY DEF TaskOK, NoTask, Operations

LEMMA RankNat == \A st : Rank(st) \in Nat
BY DEF Rank

LEMMA RowTypes ==
  ASSUME NEW m, RowOK(m)
  PROVE  /\ m.type \in Kinds \cup {"NONE"} /\ m.status \in Statuses
         /\ m.qty \in Nat /\ m.received \in Nat /\ m.edits \in Nat
         /\ m = [type |-> m.type, status |-> m.status, from |-> m.from, to |-> m.to,
                 qty |-> m.qty, received |-> m.received, edits |-> m.edits]
BY DEF RowOK

LEMMA EntrySum ==
  ASSUME NEW e, NEW D, EntryOK(e, D)
  PROVE  SumFunctionOnSet(e, LotIds) \in Nat /\ \A k \in LotIds : e[k] \in Nat
<1>1. \A k \in LotIds : e[k] \in Nat  BY DEF EntryOK
<1> QED  BY <1>1, Bounds, SumNat

\* What imports brought in, when the entry of one document changes.
LEMMA ImportedChange ==
  ASSUME NEW f, NEW g, NEW d \in Docs, \A e \in Docs : f[e] \in Int /\ g[e] \in Int,
         \A e \in Docs \ {d} : f[e] = g[e]
  PROVE  SumFunctionOnSet(g, Docs) = SumFunctionOnSet(f, Docs) + (g[d] - f[d])
<1>1. PICK S : S = Docs /\ IsFiniteSet(S)  BY Bounds
<1>2. d \in S /\ \A e \in S : f[e] \in Int /\ g[e] \in Int  BY <1>1
<1>3. \A e \in S \ {d} : f[e] = g[e]  BY <1>1
<1>4. SumFunctionOnSet(g, S) = SumFunctionOnSet(f, S) - f[d] + g[d]
  BY <1>1, <1>2, <1>3, SumChange
<1>5. SumFunctionOnSet(f, S) \in Int  BY <1>1, <1>2, SumType
<1> QED  BY <1>1, <1>2, <1>4, <1>5

\* A step that writes one document on what a request had read of it.
LEMMA CommitStep ==
  ASSUME MovementInv, NEW r \in Clerks, task[r].op \in Operations,
         NEW d, d = task[r].doc, NEW m2, NEW o2, NEW i2,
         ShelfOK', DOMAIN lots \subseteq DOMAIN lots',
         mov' = [mov EXCEPT ![d] = m2],
         out' = [out EXCEPT ![d] = o2], into' = [into EXCEPT ![d] = i2],
         RowOK(m2), m2.type = mov[d].type,
         EntryOK(o2, DOMAIN lots'), EntryOK(i2, DOMAIN lots'),
         debt' = debt + (IF mov[d].type = "IMPORT"
                         THEN SumFunctionOnSet(i2, LotIds) - SumFunctionOnSet(into[d], LotIds)
                         ELSE 0),
         Drop(r), MarkRaced(r),
         ~Stale(r) /\ d \notin raced =>
           /\ Accounts(m2, o2, i2)
           /\ Rank(mov[d].status) <= Rank(m2.status) /\ mov[d].edits <= m2.edits
           /\ Rank(mov[d].status) < Rank(m2.status) \/ mov[d].edits < m2.edits
  PROVE  MovementInv'
<1>1. /\ TaskOK(task[r], mov, DOMAIN lots) /\ DOMAIN task = Clerks
      /\ DOMAIN mov = Docs /\ DOMAIN out = Docs /\ DOMAIN into = Docs
      /\ \A e \in Docs : RowOK(mov[e])
  BY DEF MovementInv, TasksOK, DocsOK, LedgerOK
<1>2. d \in Docs /\ task[r].row.type # "NONE" /\ task[r].row.type = mov[d].type
  BY <1>1 DEF TaskOK
<1>3. PICK mv, ou, in, D, E, ts, ra : /\ mv = mov' /\ ou = out' /\ in = into'
                                      /\ D = DOMAIN lots /\ E = DOMAIN lots'
                                      /\ ts = task' /\ ra = raced'
  OBVIOUS
<1>4. \A e \in Docs : /\ mv[e] = IF e = d THEN m2 ELSE mov[e]
  BY <1>1, <1>2, <1>3
<1>5. \A e \in Docs : ou[e] = IF e = d THEN o2 ELSE out[e]
  BY <1>1, <1>2, <1>3
<1>6. \A e \in Docs : in[e] = IF e = d THEN i2 ELSE into[e]
  BY <1>1, <1>2, <1>3
<1>7. DOMAIN mv = Docs /\ DOMAIN ou = Docs /\ DOMAIN in = Docs
  BY <1>1, <1>3
<1>8. DOMAIN ts = Clerks /\ \A q \in Clerks : ts[q] = IF q = r THEN NoTask ELSE task[q]
  BY <1>1, <1>3 DEF Drop, Take
<1>9. ra = (IF Stale(r) THEN raced \cup {d} ELSE raced)
  BY <1>3 DEF MarkRaced
<1>10. D \subseteq E  BY <1>3
<1>11. \A e \in Docs : mv[e].type = mov[e].type  BY <1>4
<1>12. DocsOK'
  <2>1. \A e \in Docs : RowOK(mv[e])  BY <1>1, <1>4
  <2> QED  BY <1>3, <1>7, <2>1 DEF DocsOK
<1>13. TasksOK'
  <2>1. ASSUME NEW q \in Clerks PROVE TaskOK(ts[q], mv, E)
    <3>1. CASE q = r  BY <1>8, <3>1, IdleOK
    <3>2. CASE q # r
      <4>1. TaskOK(task[q], mov, D)  BY <1>3 DEF MovementInv, TasksOK
      <4>2. TaskOK(task[q], mv, E)  BY <1>10, <1>11, <4>1, TaskWider
      <4> QED  BY <1>8, <3>2, <4>2
    <3> QED  BY <3>1, <3>2
  <2> QED  BY <1>3, <1>8, <2>1 DEF TasksOK
<1>14. \A e \in Docs : EntryOK(ou[e], E) /\ EntryOK(in[e], E)
  <2> TAKE e \in Docs
  <2>1. EntryOK(out[e], D) /\ EntryOK(into[e], D)  BY <1>3 DEF MovementInv, LedgerOK
  <2>2. EntryOK(out[e], E) /\ EntryOK(into[e], E)  BY <1>10, <2>1, MovesWider
  <2> QED  BY <1>3, <1>5, <1>6, <2>2
<1>15. LedgerOK'
  <2>1. ASSUME NEW e \in Docs, mv[e].type = "NONE"
        PROVE  ou[e] = NoneMoved /\ in[e] = NoneMoved
    <3>1. e # d /\ mov[e].type = "NONE"  BY <1>2, <1>11, <2>1
    <3>2. out[e] = NoneMoved /\ into[e] = NoneMoved  BY <3>1 DEF MovementInv, LedgerOK
    <3> QED  BY <1>5, <1>6, <3>1, <3>2
  <2>2. ou \in [Docs -> [LotIds -> Nat]] /\ in \in [Docs -> [LotIds -> Nat]]
    <3>1. o2 \in [LotIds -> Nat] /\ i2 \in [LotIds -> Nat]  BY DEF EntryOK
    <3>2. out \in [Docs -> [LotIds -> Nat]] /\ into \in [Docs -> [LotIds -> Nat]]
      BY DEF MovementInv, LedgerOK
    <3>3. ou = [out EXCEPT ![d] = o2] /\ in = [into EXCEPT ![d] = i2]  BY <1>3
    <3> QED  BY <3>1, <3>2, <3>3
  <2> QED  BY <1>3, <1>14, <2>1, <2>2 DEF LedgerOK, NoneMoved, LotIds
<1>16. DebtOK'
  <2>1. \A e \in Docs : /\ SumFunctionOnSet(into[e], LotIds) \in Int
                        /\ SumFunctionOnSet(in[e], LotIds) \in Int
    <3> TAKE e \in Docs
    <3>1. EntryOK(into[e], D) /\ EntryOK(in[e], E)
      BY <1>3, <1>14 DEF MovementInv, LedgerOK
    <3> QED  BY <3>1, EntrySum
  <2>2. PICK f, g : f = Imported(mov, into) /\ g = Imported(mv, in)  OBVIOUS
  <2>3. \A e \in Docs :
          /\ f[e] = (IF mov[e].type = "IMPORT" THEN SumFunctionOnSet(into[e], LotIds) ELSE 0)
          /\ g[e] = (IF mv[e].type = "IMPORT" THEN SumFunctionOnSet(in[e], LotIds) ELSE 0)
    BY <2>2 DEF Imported
  <2>4. \A e \in Docs : f[e] \in Int /\ g[e] \in Int  BY <2>1, <2>3
  <2>5. \A e \in Docs \ {d} : f[e] = g[e]  BY <1>4, <1>6, <2>3
  <2>6. SumFunctionOnSet(g, Docs) = SumFunctionOnSet(f, Docs) + (g[d] - f[d])
    BY <1>2, <2>4, <2>5, ImportedChange
  <2>7. g[d] - f[d] = IF mov[d].type = "IMPORT"
                      THEN SumFunctionOnSet(i2, LotIds) - SumFunctionOnSet(into[d], LotIds)
                      ELSE 0
    BY <1>2, <1>6, <1>11, <2>1, <2>3
  <2>8. debt' = SumFunctionOnSet(g, Docs)
    <3>1. debt = SumFunctionOnSet(f, Docs)  BY <2>2 DEF MovementInv, DebtOK
    <3>2. debt' = debt + (g[d] - f[d])  BY <2>7
    <3> QED  BY <2>6, <3>1, <3>2
  <2> QED  BY <1>3, <2>2, <2>8 DEF DebtOK
<1>17. d \notin ra => ~Stale(r) /\ d \notin raced  BY <1>9
<1>18. \A e \in Docs : e \notin ra => e \notin raced  BY <1>9
<1>19. \A e \in Docs \ ra : Accounts(mv[e], ou[e], in[e])
  <2> TAKE e \in Docs \ ra
  <2>1. CASE e = d  BY <1>4, <1>5, <1>6, <1>17, <2>1
  <2>2. CASE e # d
    <3>1. Accounts(mov[e], out[e], into[e])  BY <1>18 DEF MovementInv, UnracedOK
    <3> QED  BY <1>4, <1>5, <1>6, <2>2, <3>1
  <2> QED  BY <2>1, <2>2
<1>20. ASSUME NEW q \in Clerks, ts[q].op \in Operations, ts[q].doc \notin ra
       PROVE  Follows(ts[q], mv[ts[q].doc], ou[ts[q].doc], in[ts[q].doc])
  <2>1. PICK x : x = task[q]  OBVIOUS
  <2>2. q # r /\ ts[q] = x  BY <1>8, <1>20, <2>1, IdleOK
  <2>3. PICK e : e = x.doc  OBVIOUS
  <2>4. TaskOK(x, mov, D)  BY <1>3, <2>1 DEF MovementInv, TasksOK
  <2>5. e \in Docs /\ RowOK(x.row)  BY <1>20, <2>2, <2>3, <2>4 DEF TaskOK
  <2>6. e \notin ra /\ e \notin raced  BY <1>18, <1>20, <2>2, <2>3, <2>5
  <2>7. Follows(x, mov[e], out[e], into[e])
    BY <1>20, <2>1, <2>2, <2>3, <2>6 DEF MovementInv, UnracedOK
  <2>8. CASE e # d  BY <1>4, <1>5, <1>6, <2>2, <2>3, <2>5, <2>7, <2>8
  <2>9. CASE e = d
    <3>1. /\ Rank(mov[d].status) <= Rank(m2.status) /\ mov[d].edits <= m2.edits
          /\ Rank(mov[d].status) < Rank(m2.status) \/ mov[d].edits < m2.edits
      BY <1>17, <2>6, <2>9
    <3>2. x.row.edits \in Nat /\ mov[d].edits \in Nat /\ m2.edits \in Nat
      BY <1>1, <1>2, <2>5, RowTypes
    <3>3. /\ Rank(x.row.status) \in Nat /\ Rank(mov[d].status) \in Nat
          /\ Rank(m2.status) \in Nat
      BY RankNat
    <3>4. Rank(x.row.status) <= Rank(mov[d].status) /\ x.row.edits <= mov[d].edits
      BY <2>7, <2>9 DEF Follows
    <3>5. /\ Rank(x.row.status) <= Rank(m2.status) /\ x.row.edits <= m2.edits
          /\ x.row.status # m2.status \/ x.row.edits # m2.edits
      BY <3>1, <3>2, <3>3, <3>4
    <3>6. Follows(x, m2, o2, i2)  BY <3>5 DEF Follows
    <3> QED  BY <1>2, <1>4, <1>5, <1>6, <2>2, <2>3, <2>9, <3>6
  <2> QED  BY <2>8, <2>9
<1>21. UnracedOK'
  BY <1>3, <1>19, <1>20 DEF UnracedOK
<1> QED  BY <1>12, <1>13, <1>15, <1>16, <1>21 DEF MovementInv

LEMMA DebtInt == MovementInv => debt \in Int
<1> SUFFICES ASSUME MovementInv PROVE debt \in Int  OBVIOUS
<1>1. PICK f : f = Imported(mov, into)  OBVIOUS
<1>2. \A d \in Docs : f[d] \in Int
  <2> TAKE d \in Docs
  <2>1. EntryOK(into[d], DOMAIN lots)  BY DEF MovementInv, LedgerOK
  <2>2. SumFunctionOnSet(into[d], LotIds) \in Int  BY <2>1, EntrySum
  <2> QED  BY <1>1, <2>2 DEF Imported
<1>3. SumFunctionOnSet(f, Docs) \in Int  BY <1>2, Bounds, SumType
<1> QED  BY <1>1, <1>3 DEF MovementInv, DebtOK

\* What is known of a request's document when it writes it.
LEMMA CommitKnows ==
  ASSUME MovementInv, NEW r \in Clerks, NEW x, x = task[r], x.op \in Operations, NEW d, d = x.doc
  PROVE  /\ d \in Docs /\ RowOK(x.row) /\ RowOK(mov[d])
         /\ x.row.type \in Kinds /\ mov[d].type = x.row.type
         /\ x.row.status \in AllowedFrom(x.op, x.row.type)
         /\ x.received \in Nat
         /\ x.slices # NoneMoved => BringsBack(x) /\ MovesUnits(DOMAIN lots, x.slices, ToBringBack(x))
         /\ EntryOK(out[d], DOMAIN lots) /\ EntryOK(into[d], DOMAIN lots)
         /\ ~Stale(r) /\ d \notin raced =>
              /\ mov[d] = x.row /\ Accounts(x.row, out[d], into[d])
              /\ \A k \in LotIds : x.slices[k] = 0 \/ into[d][k] + x.slices[k] <= out[d][k]
<1>1. TaskOK(x, mov, DOMAIN lots)  BY DEF MovementInv, TasksOK
<1>2. /\ d \in Docs /\ RowOK(x.row) /\ x.row.type \in Kinds /\ mov[d].type = x.row.type
      /\ x.row.status \in AllowedFrom(x.op, x.row.type) /\ x.received \in Nat
      /\ x.slices # NoneMoved => BringsBack(x) /\ MovesUnits(DOMAIN lots, x.slices, ToBringBack(x))
  <2>1. x.row.type # "NONE" /\ RowOK(x.row)  BY <1>1 DEF TaskOK
  <2>2. x.row.type \in Kinds  BY <2>1, RowTypes
  <2> QED  BY <1>1, <2>1, <2>2 DEF TaskOK
<1>3. RowOK(mov[d]) /\ EntryOK(out[d], DOMAIN lots) /\ EntryOK(into[d], DOMAIN lots)
  BY <1>2 DEF MovementInv, DocsOK, LedgerOK
<1>4. ASSUME ~Stale(r), d \notin raced
      PROVE  /\ mov[d] = x.row /\ Accounts(x.row, out[d], into[d])
             /\ \A k \in LotIds : x.slices[k] = 0 \/ into[d][k] + x.slices[k] <= out[d][k]
  <2>1. Follows(x, mov[d], out[d], into[d]) /\ Accounts(mov[d], out[d], into[d])
    BY <1>2, <1>4 DEF MovementInv, UnracedOK
  <2>2. x.row.status = mov[d].status /\ x.row.edits = mov[d].edits
    BY <1>4 DEF Stale
  <2>3. x.row = mov[d]  BY <2>1, <2>2 DEF Follows
  <2> QED  BY <2>1, <2>2, <2>3 DEF Follows
<1> QED  BY <1>2, <1>3, <1>4

LEMMA ShelfStays ==
  ASSUME ShelfOK, UNCHANGED <<shelfVars, packed, blind>>
  PROVE  ShelfOK'
BY DEF ShelfOK, shelfVars

\* A document written with no goods moved.
LEMMA PlainStep ==
  ASSUME MovementInv, NEW r \in Clerks, NEW x, x = task[r], x.op \in Operations,
         NEW d, d = x.doc, NEW m2, RowOK(m2), m2.type = x.row.type,
         mov' = [mov EXCEPT ![d] = m2], Drop(r), MarkRaced(r),
         UNCHANGED <<shelfVars, ledgerVars, debt, packed, blind>>,
         mov[d] = x.row =>
           /\ NetDue(m2) = NetDue(x.row)
           /\ Rank(x.row.status) <= Rank(m2.status) /\ x.row.edits <= m2.edits
           /\ Rank(x.row.status) < Rank(m2.status) \/ x.row.edits < m2.edits
  PROVE  MovementInv'
<1>1. /\ d \in Docs /\ mov[d].type = x.row.type
      /\ EntryOK(out[d], DOMAIN lots) /\ EntryOK(into[d], DOMAIN lots)
      /\ ~Stale(r) /\ d \notin raced => mov[d] = x.row /\ Accounts(x.row, out[d], into[d])
  BY CommitKnows
<1>2. PICK o2, i2 : o2 = out[d] /\ i2 = into[d]  OBVIOUS
<1>3. ShelfOK' /\ UNCHANGED <<lots, out, into, debt>>
  BY ShelfStays DEF MovementInv, shelfVars, ledgerVars
<1>4. out \in [Docs -> [LotIds -> Nat]] /\ into \in [Docs -> [LotIds -> Nat]]
  BY DEF MovementInv, LedgerOK
<1>5. out' = [out EXCEPT ![d] = o2] /\ into' = [into EXCEPT ![d] = i2]
  BY <1>1, <1>2, <1>3, <1>4
<1>6. debt' = debt + (IF mov[d].type = "IMPORT"
                      THEN SumFunctionOnSet(i2, LotIds) - SumFunctionOnSet(into[d], LotIds)
                      ELSE 0)
  <2>1. SumFunctionOnSet(into[d], LotIds) \in Int  BY <1>1, EntrySum
  <2> QED  BY <1>2, <1>3, <2>1, DebtInt
<1>7. EntryOK(o2, DOMAIN lots') /\ EntryOK(i2, DOMAIN lots') /\ DOMAIN lots \subseteq DOMAIN lots'
  BY <1>1, <1>2, <1>3
<1>8. m2.type = mov[d].type /\ task[r].op \in Operations /\ d = task[r].doc  BY <1>1
<1>9. ~Stale(r) /\ d \notin raced =>
        /\ Accounts(m2, o2, i2)
        /\ Rank(mov[d].status) <= Rank(m2.status) /\ mov[d].edits <= m2.edits
        /\ Rank(mov[d].status) < Rank(m2.status) \/ mov[d].edits < m2.edits
  BY <1>1, <1>2 DEF Accounts
<1> QED  BY <1>3, <1>5, <1>6, <1>7, <1>8, <1>9, CommitStep

LEMMA NewStatus ==
  ASSUME NEW m, RowOK(m), m.type # "NONE", NEW to \in Statuses, NEW m2, m2 = [m EXCEPT !.status = to]
  PROVE  /\ RowOK(m2) /\ m2.type = m.type /\ m2.status = to /\ m2.from = m.from /\ m2.to = m.to
         /\ m2.qty = m.qty /\ m2.received = m.received /\ m2.edits = m.edits
BY DEF RowOK

\* SetStatus, with no goods moved.
LEMMA PlainStatus ==
  ASSUME MovementInv, NEW r \in Clerks, NEW x, x = task[r], x.op \in Operations,
         NEW to \in Statuses, SetStatus(r, to), Drop(r),
         UNCHANGED <<shelfVars, ledgerVars, debt, packed, blind>>,
         NetDue([x.row EXCEPT !.status = to]) = NetDue(x.row),
         Rank(x.row.status) < Rank(to)
  PROVE  MovementInv'
<1>1. PICK d : d = x.doc  OBVIOUS
<1>2. /\ d \in Docs /\ mov[d].type = x.row.type /\ x.row.type \in Kinds
      /\ RowOK(mov[d]) /\ RowOK(x.row)
  BY <1>1, CommitKnows
<1>3. PICK m2 : m2 = [mov[d] EXCEPT !.status = to]  OBVIOUS
<1>4. x.row.type # "NONE"  BY <1>2 DEF Kinds
<1>5. RowOK(m2) /\ m2.type = x.row.type /\ m2.status = to /\ m2.edits = mov[d].edits
  BY <1>2, <1>3, <1>4, NewStatus
<1>6. mov' = [mov EXCEPT ![d] = m2] /\ MarkRaced(r)
  BY <1>1, <1>3 DEF SetStatus
<1>7. ASSUME mov[d] = x.row
      PROVE  /\ NetDue(m2) = NetDue(x.row)
             /\ Rank(x.row.status) <= Rank(m2.status) /\ x.row.edits <= m2.edits
             /\ Rank(x.row.status) < Rank(m2.status) \/ x.row.edits < m2.edits
  <2>1. NetDue(m2) = NetDue(x.row)  BY <1>3, <1>7
  <2>2. x.row.edits \in Nat  BY <1>2, RowTypes
  <2> QED  BY <1>5, <1>7, <2>1, <2>2, RankNat
<1> QED  BY <1>1, <1>5, <1>6, <1>7, PlainStep

\* What a document is due to have moved, by its type and status.
LEMMA DueOf ==
  ASSUME NEW m, m.type \in Kinds
  PROVE  /\ m.type = "TRANSFER" /\ m.status = "IN_TRANSIT" => NetDue(m) = m.qty
         /\ m.type = "TRANSFER" /\ m.status = "RECEIVED" => NetDue(m) = m.qty - m.received
         /\ m.type = "TRANSFER" /\ m.status \notin {"IN_TRANSIT", "RECEIVED"} => NetDue(m) = 0
         /\ m.type = "IMPORT" /\ m.status = "RECEIVED" => NetDue(m) = -m.received
         /\ m.type = "IMPORT" /\ m.status # "RECEIVED" => NetDue(m) = 0
         /\ m.type = "ADJUST" /\ m.status = "COMPLETED" => NetDue(m) = m.qty - m.received
         /\ m.type = "ADJUST" /\ m.status # "COMPLETED" => NetDue(m) = 0
BY DEF NetDue, Kinds

LEMMA RankOf == /\ Rank("DRAFT") = 0 /\ Rank("OPENING") = 1 /\ Rank("CLOSED") = 2
                /\ Rank("PENDING") = 2 /\ Rank("IN_TRANSIT") = 3 /\ Rank("RECEIVED") = 4
                /\ Rank("COMPLETED") = 4 /\ Rank("CANCELLED") = 4
BY DEF Rank

LEMMA OpenMoves == ASSUME MovementInv, NEW r \in Clerks, OpenCommit(r) PROVE MovementInv'
<1>1. PICK x : x = task[r] /\ x.op = "open"  BY DEF OpenCommit
<1>2. x.op \in Operations  BY <1>1 DEF Operations
<1>3. RowOK(x.row) /\ x.row.type \in Kinds /\ x.row.status = "DRAFT"
  <2>1. /\ RowOK(x.row) /\ x.row.type \in Kinds
        /\ x.row.status \in AllowedFrom(x.op, x.row.type)
    BY <1>1, <1>2, CommitKnows
  <2> QED  BY <1>1, <2>1 DEF AllowedFrom
<1>4. PICK m2 : m2 = [x.row EXCEPT !.status = "OPENING"]  OBVIOUS
<1>5. m2.type = x.row.type /\ m2.status = "OPENING"
  BY <1>3, <1>4, NewStatus DEF Kinds, Statuses
<1>6. NetDue(m2) = NetDue(x.row)
  BY <1>3, <1>5, DueOf DEF Kinds
<1>7. /\ SetStatus(r, "OPENING") /\ Drop(r)
      /\ UNCHANGED <<shelfVars, ledgerVars, debt, packed, blind>>
  BY DEF OpenCommit
<1>8. Rank(x.row.status) < Rank("OPENING") /\ "OPENING" \in Statuses
  BY <1>3, RankOf DEF Statuses
<1> QED  BY <1>1, <1>2, <1>4, <1>6, <1>7, <1>8, PlainStatus

LEMMA CloseMoves == ASSUME MovementInv, NEW r \in Clerks, CloseCommit(r) PROVE MovementInv'
<1>1. PICK x : x = task[r] /\ x.op = "close"  BY DEF CloseCommit
<1>2. x.op \in Operations  BY <1>1 DEF Operations
<1>3. RowOK(x.row) /\ x.row.type \in Kinds /\ x.row.status = "OPENING"
  <2>1. /\ RowOK(x.row) /\ x.row.type \in Kinds
        /\ x.row.status \in AllowedFrom(x.op, x.row.type)
    BY <1>1, <1>2, CommitKnows
  <2> QED  BY <1>1, <2>1 DEF AllowedFrom
<1>4. PICK m2 : m2 = [x.row EXCEPT !.status = "CLOSED"]  OBVIOUS
<1>5. m2.type = x.row.type /\ m2.status = "CLOSED"
  BY <1>3, <1>4, NewStatus DEF Kinds, Statuses
<1>6. NetDue(m2) = NetDue(x.row)
  BY <1>3, <1>5, DueOf DEF Kinds
<1>7. /\ SetStatus(r, "CLOSED") /\ Drop(r)
      /\ UNCHANGED <<shelfVars, ledgerVars, debt, packed, blind>>
  BY DEF CloseCommit
<1>8. Rank(x.row.status) < Rank("CLOSED") /\ "CLOSED" \in Statuses
  BY <1>3, RankOf DEF Statuses
<1> QED  BY <1>1, <1>2, <1>4, <1>6, <1>7, <1>8, PlainStatus

\* What a create or an edit writes.
LEMMA DocumentRows ==
  ASSUME ShelfOK, NEW type \in Kinds, NEW m \in Documents(type)
  PROVE  RowOK(m) /\ m.type = type /\ m.status = FirstStatus(type)
<1>1. PICK a, b, qty, c :
        /\ a \in IF type = "IMPORT" THEN {"NONE"} ELSE Locations
        /\ b \in IF type = "ADJUST" THEN {"NONE"} ELSE Locations
        /\ qty \in IF type = "ADJUST" THEN {stock[l] : l \in Locations} \cup 0..MaxMoved ELSE 1..MaxMoved
        /\ c \in IF type = "ADJUST" THEN 0..MaxMoved ELSE {0}
        /\ m = [type |-> type, status |-> FirstStatus(type), from |-> a, to |-> b,
                qty |-> qty, received |-> c, edits |-> 0]
  BY DEF Documents
<1>3. qty \in Nat
  <2>1. \A l \in Locations : stock[l] \in Nat  BY DEF ShelfOK
  <2> QED  BY <1>1, <2>1, MovementAssumption
<1>4. c \in Nat
  BY <1>1, MovementAssumption
<1>5. FirstStatus(type) \in Statuses  BY DEF FirstStatus, Statuses
<1>6. PICK st : st = FirstStatus(type)  OBVIOUS
<1>7. m = [type |-> type, status |-> st, from |-> a, to |-> b, qty |-> qty,
           received |-> c, edits |-> 0]
  BY <1>1, <1>6
<1>8. /\ a \in Locations \cup {"NONE"} /\ b \in Locations \cup {"NONE"}
      /\ type \in {"TRANSFER", "ADJUST"} => a \in Locations
      /\ type \in {"TRANSFER", "IMPORT"} => b \in Locations
  BY <1>1
<1> QED  BY <1>3, <1>4, <1>5, <1>6, <1>7, <1>8 DEF RowOK, Kinds

LEMMA EditMoves == ASSUME MovementInv, NEW r \in Clerks, EditCommit(r) PROVE MovementInv'
<1>1. PICK x : x = task[r] /\ x.op = "edit"  BY DEF EditCommit
<1>2. x.op \in Operations  BY <1>1 DEF Operations
<1>3. PICK d : d = x.doc  OBVIOUS
<1>4. /\ RowOK(x.row) /\ RowOK(mov[d]) /\ x.row.type \in Kinds /\ mov[d].type = x.row.type
      /\ x.row.status = IF x.row.type = "TRANSFER" THEN "OPENING" ELSE "PENDING"
  <2>1. /\ RowOK(x.row) /\ RowOK(mov[d]) /\ x.row.type \in Kinds /\ mov[d].type = x.row.type
        /\ x.row.status \in AllowedFrom(x.op, x.row.type)
    BY <1>1, <1>2, <1>3, CommitKnows
  <2> QED  BY <1>1, <2>1 DEF AllowedFrom
<1>5. PICK m \in Documents(x.row.type) :
        mov' = [mov EXCEPT ![d] = [m EXCEPT !.status = mov[d].status,
                                            !.edits = mov[d].edits + 1]]
  BY <1>1, <1>3 DEF EditCommit
<1>6. RowOK(m) /\ m.type = x.row.type
  BY <1>4, <1>5, DocumentRows DEF MovementInv
<1>7. PICK m2 : m2 = [m EXCEPT !.status = mov[d].status, !.edits = mov[d].edits + 1]
  OBVIOUS
<1>8. /\ RowOK(m2) /\ m2.type = x.row.type /\ m2.status = mov[d].status
      /\ m2.edits = mov[d].edits + 1
  <2>1. mov[d].status \in Statuses /\ mov[d].edits \in Nat /\ m.type # "NONE"
    BY <1>4, <1>6, RowTypes DEF Kinds
  <2>2. PICK st, n : st = mov[d].status /\ n = mov[d].edits + 1  OBVIOUS
  <2>3. m2 = [m EXCEPT !.status = st, !.edits = n] /\ st \in Statuses /\ n \in Nat
    BY <1>7, <2>1, <2>2
  <2>4. RowOK(m2) /\ m2.type = m.type /\ m2.status = st /\ m2.edits = n
    BY <1>6, <2>1, <2>3 DEF RowOK
  <2> QED  BY <1>6, <2>2, <2>4
<1>9. ASSUME mov[d] = x.row
      PROVE  /\ NetDue(m2) = NetDue(x.row)
             /\ Rank(x.row.status) <= Rank(m2.status) /\ x.row.edits <= m2.edits
             /\ Rank(x.row.status) < Rank(m2.status) \/ x.row.edits < m2.edits
  <2>1. m2.status = x.row.status /\ m2.edits = x.row.edits + 1  BY <1>8, <1>9
  <2>2. x.row.edits \in Nat /\ Rank(x.row.status) \in Nat  BY <1>4, RowTypes, RankNat
  <2>3. NetDue(m2) = 0 /\ NetDue(x.row) = 0
    BY <1>4, <1>8, <2>1, DueOf DEF Kinds
  <2>4. Rank(m2.status) = Rank(x.row.status)  BY <2>1
  <2> QED  BY <2>1, <2>2, <2>3, <2>4
<1>10. /\ mov' = [mov EXCEPT ![d] = m2] /\ Drop(r) /\ MarkRaced(r)
       /\ UNCHANGED <<shelfVars, ledgerVars, debt, packed, blind>>
  BY <1>5, <1>7 DEF EditCommit
<1> QED  BY <1>1, <1>2, <1>3, <1>8, <1>9, <1>10, PlainStep

\* The entry of a document, after units it moved of lots there are, and after
\* those it brought in as a new lot.
Plus(e, s) == [k \in LotIds |-> e[k] + s[k]]

LEMMA EntryPlus ==
  ASSUME NEW D, NEW E, D \subseteq E, NEW e, EntryOK(e, D), NEW q, NEW s, MovesUnits(D, s, q)
  PROVE  /\ EntryOK(Plus(e, s), E)
         /\ SumFunctionOnSet(Plus(e, s), LotIds) = SumFunctionOnSet(e, LotIds) + q
<1>1. PICK f : f = Plus(e, s)  OBVIOUS
<1>2. \A k \in LotIds : /\ f[k] = e[k] + s[k] /\ e[k] \in Nat /\ s[k] \in Nat
                        /\ k \notin D => e[k] = 0 /\ s[k] = 0
  BY <1>1 DEF Plus, EntryOK, MovesUnits
<1>3. f \in [LotIds -> Nat] /\ \A k \in LotIds \ E : f[k] = 0
  <2>1. f = [k \in LotIds |-> f[k]]  BY <1>1 DEF Plus
  <2>2. \A k \in LotIds : f[k] \in Nat  BY <1>2
  <2>3. \A k \in LotIds \ E : f[k] = 0  BY <1>2
  <2> QED  BY <2>1, <2>2, <2>3
<1>4. SumFunctionOnSet(f, LotIds) = SumFunctionOnSet(e, LotIds) + SumFunctionOnSet(s, LotIds)
  <2>1. PICK S : S = LotIds /\ IsFiniteSet(S)  BY Bounds
  <2>2. \A k \in S : e[k] \in Int /\ s[k] \in Int /\ f[k] = e[k] + s[k]  BY <1>2, <2>1
  <2>3. SumFunctionOnSet(f, S) = SumFunctionOnSet(e, S) + SumFunctionOnSet(s, S)
    BY <2>1, <2>2, SumOfTwo
  <2> QED  BY <2>1, <2>3
<1> QED  BY <1>1, <1>3, <1>4 DEF EntryOK, MovesUnits

LEMMA EntryChange ==
  ASSUME NEW e, NEW f, NEW y \in LotIds, \A k \in LotIds : e[k] \in Int /\ f[k] \in Int,
         \A k \in LotIds \ {y} : e[k] = f[k]
  PROVE  SumFunctionOnSet(f, LotIds) = SumFunctionOnSet(e, LotIds) - e[y] + f[y]
<1>1. PICK S : S = LotIds /\ IsFiniteSet(S)  BY Bounds
<1>2. y \in S /\ \A k \in S : e[k] \in Int /\ f[k] \in Int  BY <1>1
<1>3. \A k \in S \ {y} : e[k] = f[k]  BY <1>1
<1>4. SumFunctionOnSet(f, S) = SumFunctionOnSet(e, S) - e[y] + f[y]
  BY <1>1, <1>2, <1>3, SumChange
<1> QED  BY <1>1, <1>4

LEMMA EntryPut ==
  ASSUME NEW n \in Nat, n + 1 <= MaxLots, NEW e, EntryOK(e, 1..n), NEW q \in Nat,
         NEW f, f = [e EXCEPT ![n + 1] = q]
  PROVE  /\ EntryOK(f, 1..(n + 1))
         /\ SumFunctionOnSet(f, LotIds) = SumFunctionOnSet(e, LotIds) + q
<1>1. n + 1 \in LotIds  BY Bounds DEF LotIds
<1>2. e \in [LotIds -> Nat] /\ \A k \in LotIds \ (1..n) : e[k] = 0  BY DEF EntryOK
<1>3. f \in [LotIds -> Nat] /\ f[n + 1] = q /\ \A k \in LotIds \ {n + 1} : f[k] = e[k]
  BY <1>1, <1>2
<1>4. e[n + 1] = 0
  <2>1. n + 1 \notin 1..n  OBVIOUS
  <2> QED  BY <1>1, <1>2, <2>1
<1>5. \A k \in LotIds \ (1..(n + 1)) : f[k] = 0
  <2> TAKE k \in LotIds \ (1..(n + 1))
  <2>1. k \in LotIds \ (1..n) /\ k # n + 1  BY DEF LotIds
  <2> QED  BY <1>2, <1>3, <2>1
<1>6. SumFunctionOnSet(f, LotIds) = SumFunctionOnSet(e, LotIds) - e[n + 1] + f[n + 1]
  <2>1. PICK y : y = n + 1  OBVIOUS
  <2>2. y \in LotIds /\ \A k \in LotIds : e[k] \in Int /\ f[k] \in Int
    BY <1>1, <1>2, <1>3, <2>1
  <2>3. \A k \in LotIds \ {y} : e[k] = f[k]  BY <1>3, <2>1
  <2>4. SumFunctionOnSet(f, LotIds) = SumFunctionOnSet(e, LotIds) - e[y] + f[y]
    BY <2>2, <2>3, EntryChange
  <2> QED  BY <2>1, <2>4
<1>7. SumFunctionOnSet(e, LotIds) \in Int  BY EntrySum
<1> QED  BY <1>3, <1>4, <1>5, <1>6, <1>7 DEF EntryOK

\* The entry of a document after a lot it opened.
Put(e, n, q) == [e EXCEPT ![n] = q]

\* A document settled: its new status, and what was received of it.
RowSettled(m, to, got) == [m EXCEPT !.status = to, !.received = got]

\* The ledger entries of document d are written.
OutWritten(d, o2) == out' = [out EXCEPT ![d] = o2]
IntoWritten(d, i2) == into' = [into EXCEPT ![d] = i2]

\* Goods have moved, and the ledger entries of document d are now o2 and i2.
GoodsWritten(d, o2, i2) ==
  /\ ShelfOK' /\ DOMAIN lots \subseteq DOMAIN lots'
  /\ OutWritten(d, o2) /\ IntoWritten(d, i2)
  /\ EntryOK(o2, DOMAIN lots') /\ EntryOK(i2, DOMAIN lots')

LEMMA SettledRow ==
  ASSUME NEW m, RowOK(m), m.type \in Kinds, NEW to \in Statuses, NEW got \in Nat, NEW m2, m2 = RowSettled(m, to, got)
  PROVE  /\ RowOK(m2) /\ m2.type = m.type /\ m2.status = to /\ m2.edits = m.edits
         /\ m2.qty = m.qty /\ m2.received = got
BY DEF RowOK, RowSettled, Kinds

\* A status alone is set.
LEMMA SettledStatus ==
  ASSUME NEW m, RowOK(m), NEW to
  PROVE  [m EXCEPT !.status = to] = RowSettled(m, to, m.received)
BY DEF RowOK, RowSettled

\* A document written with an entry drawn of lots there are (o2) or brought
\* back (i2); what an import brings in is charged.
LEMMA GoodsStep ==
  ASSUME MovementInv, NEW r \in Clerks, NEW x, x = task[r], x.op \in Operations, NEW d, d = x.doc,
         NEW o2, NEW i2, GoodsWritten(d, o2, i2),
         NEW to \in Statuses, NEW got \in Nat, NEW m2, m2 = RowSettled(mov[d], to, got),
         mov' = [mov EXCEPT ![d] = m2], Drop(r), MarkRaced(r),
         debt' = debt + (IF x.row.type = "IMPORT"
                         THEN SumFunctionOnSet(i2, LotIds) - SumFunctionOnSet(into[d], LotIds)
                         ELSE 0),
         Rank(x.row.status) < Rank(to),
         ~Stale(r) /\ d \notin raced /\ mov[d] = x.row => Accounts(m2, o2, i2)
  PROVE  MovementInv'
<1>1. /\ d \in Docs /\ mov[d].type = x.row.type /\ RowOK(mov[d]) /\ x.row.type \in Kinds
      /\ ~Stale(r) /\ d \notin raced => mov[d] = x.row
  BY CommitKnows
<1>2. RowOK(m2) /\ m2.type = mov[d].type /\ m2.status = to /\ m2.edits = mov[d].edits
  BY <1>1, SettledRow
<1>3. ASSUME ~Stale(r), d \notin raced
      PROVE  /\ Accounts(m2, o2, i2)
             /\ Rank(mov[d].status) <= Rank(m2.status) /\ mov[d].edits <= m2.edits
             /\ Rank(mov[d].status) < Rank(m2.status) \/ mov[d].edits < m2.edits
  <2>1. mov[d] = x.row  BY <1>1, <1>3
  <2>2. Accounts(m2, o2, i2)  BY <1>3, <2>1
  <2>3. mov[d].edits \in Nat /\ Rank(mov[d].status) \in Nat /\ Rank(to) \in Nat
    BY <1>1, RowTypes, RankNat
  <2> QED  BY <1>2, <2>1, <2>2, <2>3
<1>4. debt' = debt + (IF mov[d].type = "IMPORT"
                      THEN SumFunctionOnSet(i2, LotIds) - SumFunctionOnSet(into[d], LotIds)
                      ELSE 0)
  BY <1>1
<1>5. task[r].op \in Operations /\ d = task[r].doc  OBVIOUS
<1>6. /\ ShelfOK' /\ DOMAIN lots \subseteq DOMAIN lots'
      /\ out' = [out EXCEPT ![d] = o2] /\ into' = [into EXCEPT ![d] = i2]
      /\ EntryOK(o2, DOMAIN lots') /\ EntryOK(i2, DOMAIN lots')
  BY DEF GoodsWritten, OutWritten, IntoWritten
<1> QED  BY <1>2, <1>3, <1>4, <1>5, <1>6, CommitStep

\* What drawing, opening a lot and bringing back do to the shelf and to the
\* entries of the document they are for.
LEMMA DeductEntry ==
  ASSUME MovementInv, NEW d \in Docs, NEW at \in Locations, NEW q \in Nat, DeductStock(at, q),
         NEW o, o = out[d], NEW i, i = into[d], NEW o2, o2 = Plus(o, DrawSlices(at, q)),
         OutWritten(d, o2), UNCHANGED <<into, packed, blind>>
  PROVE  /\ GoodsWritten(d, o2, i)
         /\ SumFunctionOnSet(o2, LotIds) = SumFunctionOnSet(o, LotIds) + q
         /\ \A k \in LotIds : o[k] <= o2[k] /\ o2[k] \in Nat
<1>1. PICK s : s = DrawSlices(at, q)  OBVIOUS
<1>2. ShelfOK' /\ DOMAIN lots' = DOMAIN lots /\ MovesUnits(DOMAIN lots, s, q)
  <2>1. UNCHANGED <<packed, blind>> /\ ShelfOK  BY DEF MovementInv
  <2> QED  BY <1>1, <2>1, DeductShelf
<1>3. o2 = Plus(o, s)  BY <1>1
<1>5. /\ EntryOK(o, DOMAIN lots) /\ EntryOK(i, DOMAIN lots)
      /\ into \in [Docs -> [LotIds -> Nat]]
  BY DEF MovementInv, LedgerOK
<1>6. IntoWritten(d, i)  BY <1>5 DEF IntoWritten
<1>7. PICK D : D = DOMAIN lots /\ D \subseteq D  OBVIOUS
<1>11. EntryOK(o, D)  BY <1>5, <1>7
<1>12. MovesUnits(D, s, q)  BY <1>2, <1>7
<1>8. /\ EntryOK(Plus(o, s), D)
      /\ SumFunctionOnSet(Plus(o, s), LotIds) = SumFunctionOnSet(o, LotIds) + q
  BY <1>7, <1>11, <1>12, EntryPlus
<1>9. \A k \in LotIds : o[k] <= o2[k] /\ o2[k] \in Nat
  <2> TAKE k \in LotIds
  <2>1. s[k] \in Nat /\ o[k] \in Nat  BY <1>2, <1>5 DEF MovesUnits, EntryOK
  <2>2. o2[k] = o[k] + s[k]  BY <1>3 DEF Plus
  <2> QED  BY <2>1, <2>2
<1>10. EntryOK(o2, DOMAIN lots') /\ EntryOK(i, DOMAIN lots') /\ DOMAIN lots \subseteq DOMAIN lots'
  BY <1>2, <1>3, <1>5, <1>7, <1>8
<1>13. GoodsWritten(d, o2, i)  BY <1>2, <1>6, <1>10 DEF GoodsWritten
<1> QED  BY <1>3, <1>8, <1>9, <1>13

LEMMA OpenEntry ==
  ASSUME MovementInv, NEW d \in Docs, NEW at \in Locations, NEW q \in Nat, OpenLot(at, q),
         NEW o, o = out[d], NEW i, i = into[d], NEW i2, i2 = Put(i, Len(lots) + 1, q),
         IntoWritten(d, i2), UNCHANGED <<out, packed, blind>>
  PROVE  /\ GoodsWritten(d, o, i2)
         /\ SumFunctionOnSet(i2, LotIds) = SumFunctionOnSet(i, LotIds) + q
<1>1. ShelfOK' /\ Len(lots') = Len(lots) + 1 /\ Len(lots) + 1 <= MaxLots
  <2>1. UNCHANGED <<packed, blind>> /\ ShelfOK  BY DEF MovementInv
  <2> QED  BY <2>1, OpenShelf
<1>2. PICK l2 : l2 = lots'  OBVIOUS
<1>3. lots \in LotRows /\ l2 \in LotRows
  <2>1. lots \in LotRows  BY DEF MovementInv, ShelfOK
  <2>2. lots' \in LotRows  BY <1>1 DEF ShelfOK
  <2> QED  BY <1>2, <2>1, <2>2
<1>4. PICK n \in Nat : n = Len(lots)  BY <1>3, LotRowsFinite
<1>5. DOMAIN lots = 1..n /\ DOMAIN lots' = 1..(n + 1) /\ n + 1 <= MaxLots
  <2>1. DOMAIN lots = 1..n  BY <1>3, <1>4, LotRowsFinite
  <2>2. DOMAIN l2 = 1..Len(l2) /\ Len(l2) = n + 1  BY <1>1, <1>2, <1>3, <1>4, LotRowsFinite
  <2> QED  BY <1>1, <1>2, <1>4, <2>1, <2>2
<1>6. /\ EntryOK(o, DOMAIN lots) /\ EntryOK(i, DOMAIN lots)
      /\ out \in [Docs -> [LotIds -> Nat]]
  BY DEF MovementInv, LedgerOK
<1>7. EntryOK(o, 1..n) /\ EntryOK(i, 1..n)  BY <1>5, <1>6
<1>8. n + 1 <= MaxLots  BY <1>5
<1>14. i2 = [i EXCEPT ![n + 1] = q]  BY <1>4 DEF Put
<1>9. /\ EntryOK(i2, 1..(n + 1))
      /\ SumFunctionOnSet(i2, LotIds) = SumFunctionOnSet(i, LotIds) + q
  BY <1>7, <1>8, <1>14, EntryPut
<1>11. OutWritten(d, o)  BY <1>6 DEF OutWritten
<1>12. 1..n \subseteq 1..(n + 1)  OBVIOUS
<1>13. EntryOK(o, 1..(n + 1))  BY <1>7, <1>12, MovesWider
<1>15. GoodsWritten(d, o, i2)  BY <1>1, <1>5, <1>9, <1>11, <1>12, <1>13 DEF GoodsWritten
<1> QED  BY <1>9, <1>15

LEMMA ReturnEntry ==
  ASSUME MovementInv, NEW d \in Docs, NEW at \in Locations, NEW q \in Nat, NEW s,
         MovesUnits(DOMAIN lots, s, q), ReturnDrawn(d, at, s, q), UNCHANGED <<packed, blind>>,
         NEW o, o = out[d], NEW i, i = into[d], NEW i2, i2 = Plus(i, s)
  PROVE  /\ GoodsWritten(d, o, i2)
         /\ SumFunctionOnSet(i2, LotIds) = SumFunctionOnSet(i, LotIds) + q
<1>1. ShelfOK' /\ Len(lots') >= Len(lots) /\ Len(lots') \in Nat
  <2>1. ShelfOK  BY DEF MovementInv
  <2> QED  BY <2>1, ReturnShelf
<1>2. PICK l2 : l2 = lots'  OBVIOUS
<1>3. lots \in LotRows /\ l2 \in LotRows
  <2>1. lots \in LotRows  BY DEF MovementInv, ShelfOK
  <2>2. lots' \in LotRows  BY <1>1 DEF ShelfOK
  <2> QED  BY <1>2, <2>1, <2>2
<1>4. DOMAIN lots \subseteq DOMAIN lots'
  <2>1. DOMAIN lots = 1..Len(lots) /\ Len(lots) \in Nat  BY <1>3, LotRowsFinite
  <2>2. DOMAIN l2 = 1..Len(l2) /\ Len(l2) \in Nat  BY <1>3, LotRowsFinite
  <2>3. Len(lots) <= Len(l2)  BY <1>1, <1>2
  <2>4. 1..Len(lots) \subseteq 1..Len(l2)  BY <2>1, <2>2, <2>3
  <2> QED  BY <1>2, <2>1, <2>2, <2>4
<1>5. PICK D, E : D = DOMAIN lots /\ E = DOMAIN lots'  OBVIOUS
<1>6. /\ EntryOK(o, D) /\ EntryOK(i, D)
      /\ out \in [Docs -> [LotIds -> Nat]]
  BY <1>5 DEF MovementInv, LedgerOK
<1>11. D \subseteq E  BY <1>4, <1>5
<1>12. EntryOK(i, D)  BY <1>6
<1>13. MovesUnits(D, s, q)  BY <1>5
<1>7. /\ EntryOK(Plus(i, s), E)
      /\ SumFunctionOnSet(Plus(i, s), LotIds) = SumFunctionOnSet(i, LotIds) + q
  BY <1>11, <1>12, <1>13, EntryPlus
<1>8. EntryOK(o, E)  BY <1>6, <1>11, MovesWider
<1>9. IntoWritten(d, i2) /\ UNCHANGED out
  BY DEF ReturnDrawn, Plus, IntoWritten
<1>10. OutWritten(d, o)  BY <1>6, <1>9 DEF OutWritten
<1>14. GoodsWritten(d, o, i2)  BY <1>1, <1>4, <1>5, <1>7, <1>8, <1>9, <1>10 DEF GoodsWritten
<1> QED  BY <1>7, <1>14

LEMMA ShipMoves == ASSUME MovementInv, NEW r \in Clerks, ShipCommit(r) PROVE MovementInv'
<1>1. PICK x : x = task[r] /\ x.op = "ship"  BY DEF ShipCommit
<1>2. x.op \in Operations  BY <1>1 DEF Operations
<1>3. PICK d : d = x.doc  OBVIOUS
<1>4. /\ d \in Docs /\ RowOK(x.row) /\ RowOK(mov[d])
      /\ x.row.type \in Kinds /\ mov[d].type = x.row.type
      /\ x.row.status \in {"CLOSED", "PENDING"}
      /\ EntryOK(out[d], DOMAIN lots) /\ EntryOK(into[d], DOMAIN lots)
      /\ ~Stale(r) /\ d \notin raced => mov[d] = x.row /\ Accounts(x.row, out[d], into[d])
  <2>1. x.row.status \in AllowedFrom(x.op, x.row.type)
    BY <1>1, <1>2, CommitKnows
  <2>2. x.row.status \in {"CLOSED", "PENDING"}  BY <1>1, <2>1 DEF AllowedFrom
  <2> QED  BY <1>1, <1>2, <1>3, <2>2, CommitKnows
<1>5. /\ SetStatus(r, "IN_TRANSIT") /\ Drop(r) /\ MarkRaced(r)
      /\ mov' = [mov EXCEPT ![d].status = "IN_TRANSIT"]
      /\ UNCHANGED <<into, debt, packed, blind>>
  BY <1>1, <1>3 DEF ShipCommit, SetStatus
<1>6. Rank(x.row.status) < Rank("IN_TRANSIT") /\ "IN_TRANSIT" \in Statuses
  BY <1>4, RankOf DEF Statuses
<1>7. CASE x.row.type # "TRANSFER"
  <2>1. UNCHANGED <<shelfVars, ledgerVars, debt, packed, blind>>
    BY <1>1, <1>5, <1>7 DEF ShipCommit, ledgerVars
  <2>2. PICK m2 : m2 = [x.row EXCEPT !.status = "IN_TRANSIT"]  OBVIOUS
  <2>3. m2.type = x.row.type /\ m2.status = "IN_TRANSIT"
    BY <1>4, <1>6, <2>2, NewStatus DEF Kinds
  <2>4. NetDue(m2) = NetDue(x.row)
    BY <1>4, <1>7, <2>3, DueOf DEF Kinds
  <2> QED  BY <1>1, <1>2, <1>5, <1>6, <2>1, <2>2, <2>4, PlainStatus
<1>8. CASE x.row.type = "TRANSFER"
  <2>1. PICK at, q, o, i : at = x.row.from /\ q = x.row.qty /\ o = out[d] /\ i = into[d]  OBVIOUS
  <2>2. at \in Locations /\ q \in Nat
    BY <1>4, <1>8, <2>1 DEF RowOK
  <2>3. PICK o2 : o2 = Plus(o, DrawSlices(at, q))  OBVIOUS
  <2>4. DeductStock(at, q) /\ out' = [out EXCEPT ![d] = o2]
    BY <1>1, <1>3, <1>8, <2>1, <2>3 DEF ShipCommit, Plus
  <2>5. UNCHANGED <<into, packed, blind>>  BY <1>5
  <2>6. /\ GoodsWritten(d, o2, i)
        /\ SumFunctionOnSet(o2, LotIds) = SumFunctionOnSet(o, LotIds) + q
        /\ \A k \in LotIds : o[k] <= o2[k] /\ o2[k] \in Nat
    <3>1. d \in Docs  BY <1>4
    <3>2. o = out[d] /\ i = into[d]  BY <2>1
    <3>3. DeductStock(at, q)  BY <2>4
    <3>4. OutWritten(d, o2)  BY <2>4 DEF OutWritten
    <3> QED  BY <2>2, <2>3, <2>5, <3>1, <3>2, <3>3, <3>4, DeductEntry
  <2>7. PICK got : got = mov[d].received  OBVIOUS
  <2>8. got \in Nat  BY <1>4, <2>7, RowTypes
  <2>9. PICK m2 : m2 = RowSettled(mov[d], "IN_TRANSIT", got)  OBVIOUS
  <2>10. mov' = [mov EXCEPT ![d] = m2]
    <3>1. m2 = [mov[d] EXCEPT !.status = "IN_TRANSIT"]  BY <1>4, <2>7, <2>9, SettledStatus
    <3> QED  BY <1>5, <3>1
  <2>11. debt' = debt + (IF x.row.type = "IMPORT"
                         THEN SumFunctionOnSet(i, LotIds) - SumFunctionOnSet(into[d], LotIds)
                         ELSE 0)
    BY <1>5, <1>8, DebtInt
  <2>12. ASSUME ~Stale(r), d \notin raced, mov[d] = x.row
         PROVE  Accounts(m2, o2, i)
    <3>1. Accounts(x.row, o, i)  BY <1>4, <2>1, <2>12
    <3>2. m2.type = "TRANSFER" /\ m2.status = "IN_TRANSIT" /\ m2.qty = q
      BY <1>4, <1>6, <1>8, <2>1, <2>8, <2>9, <2>12, SettledRow
    <3>3. NetDue(x.row) = 0 /\ NetDue(m2) = q
      BY <1>4, <1>8, <3>2, DueOf DEF Kinds
    <3>4. /\ SumFunctionOnSet(o, LotIds) \in Nat /\ SumFunctionOnSet(i, LotIds) \in Nat
          /\ \A k \in LotIds : o[k] \in Nat /\ i[k] \in Nat
      BY <1>4, <2>1, EntrySum
    <3>5. SumFunctionOnSet(o, LotIds) - SumFunctionOnSet(i, LotIds) = 0
      BY <3>1, <3>3 DEF Accounts
    <3>6. SumFunctionOnSet(o2, LotIds) - SumFunctionOnSet(i, LotIds) = NetDue(m2)
      BY <2>2, <2>6, <3>3, <3>4, <3>5
    <3>7. \A k \in LotIds : i[k] <= o2[k]
      <4> TAKE k \in LotIds
      <4>1. i[k] <= o[k] /\ o[k] <= o2[k] /\ o2[k] \in Nat  BY <1>8, <2>6, <3>1 DEF Accounts
      <4> QED  BY <3>4, <4>1
    <3> QED  BY <3>6, <3>7 DEF Accounts
  <2>13. Drop(r) /\ MarkRaced(r)  BY <1>5
  <2> QED  BY <1>1, <1>2, <1>3, <1>6, <2>6, <2>8, <2>9, <2>10, <2>11, <2>12, <2>13, GoodsStep
<1> QED  BY <1>7, <1>8
LEMMA SettledWrite ==
  ASSUME NEW d, RowOK(mov[d]), NEW to
  PROVE  [mov EXCEPT ![d].status = to] = [mov EXCEPT ![d] = RowSettled(mov[d], to, mov[d].received)]
<1>1. [mov[d] EXCEPT !.status = to] = RowSettled(mov[d], to, mov[d].received)  BY SettledStatus
<1> QED  BY <1>1

\* A return within what is still out of each lot.
Within(s, o, i) == \A k \in LotIds : s[k] = 0 \/ i[k] + s[k] <= o[k]

\* What a document, m, still has out is brought back, q units in all.
LEMMA BroughtBack ==
  ASSUME NEW m, m.type = "TRANSFER", m.status = "IN_TRANSIT", m.qty \in Nat,
         NEW D, NEW o, EntryOK(o, D), NEW i, EntryOK(i, D), Accounts(m, o, i),
         NEW q \in Nat, NEW s, MovesUnits(D, s, q), Within(s, o, i),
         NEW i2, i2 = Plus(i, s)
  PROVE  /\ SumFunctionOnSet(o, LotIds) - SumFunctionOnSet(i2, LotIds) = m.qty - q
         /\ \A k \in LotIds : i2[k] <= o[k]
<1>1. /\ SumFunctionOnSet(o, LotIds) \in Nat /\ SumFunctionOnSet(i, LotIds) \in Nat
      /\ \A k \in LotIds : o[k] \in Nat /\ i[k] \in Nat
  BY EntrySum
<1>2. SumFunctionOnSet(o, LotIds) - SumFunctionOnSet(i, LotIds) = m.qty
  <2>1. NetDue(m) = m.qty  BY DueOf DEF Kinds
  <2> QED  BY <2>1 DEF Accounts
<1>3. SumFunctionOnSet(i2, LotIds) = SumFunctionOnSet(i, LotIds) + q
  <2>1. D \subseteq D  OBVIOUS
  <2> QED  BY <2>1, EntryPlus
<1>4. SumFunctionOnSet(o, LotIds) - SumFunctionOnSet(i2, LotIds) = m.qty - q
  BY <1>1, <1>2, <1>3
<1>5. ASSUME NEW k \in LotIds PROVE i2[k] <= o[k]
  <2>1. i[k] <= o[k]  BY DEF Accounts
  <2>2. s[k] \in Nat  BY DEF MovesUnits
  <2>3. i2[k] = i[k] + s[k]  BY DEF Plus
  <2>4. s[k] = 0 \/ i[k] + s[k] <= o[k]  BY DEF Within
  <2> QED  BY <1>1, <2>1, <2>2, <2>3, <2>4
<1> QED  BY <1>4, <1>5

LEMMA ReceiveMoves == ASSUME MovementInv, NEW r \in Clerks, ReceiveCommit(r) PROVE MovementInv'
<1>1. PICK x : x = task[r] /\ x.op = "receive"  BY DEF ReceiveCommit
<1>2. x.op \in Operations  BY <1>1 DEF Operations
<1>3. PICK d, o, i : d = x.doc /\ o = out[d] /\ i = into[d]  OBVIOUS
<1>4. /\ d \in Docs /\ RowOK(x.row) /\ RowOK(mov[d])
      /\ x.row.type \in Kinds /\ mov[d].type = x.row.type
      /\ x.row.status \in AllowedFrom(x.op, x.row.type) /\ x.received \in Nat
      /\ x.slices # NoneMoved => MovesUnits(DOMAIN lots, x.slices, ToBringBack(x))
      /\ EntryOK(o, DOMAIN lots) /\ EntryOK(i, DOMAIN lots)
  BY <1>1, <1>2, <1>3, CommitKnows
<1>5. ASSUME ~Stale(r), d \notin raced
      PROVE  /\ mov[d] = x.row /\ Accounts(x.row, o, i)
             /\ \A k \in LotIds : x.slices[k] = 0 \/ i[k] + x.slices[k] <= o[k]
  BY <1>1, <1>2, <1>3, <1>5, CommitKnows
<1>6. /\ \/ x.row.type = "IMPORT" /\ x.row.status \in {"PENDING", "IN_TRANSIT"}
         \/ x.row.type = "TRANSFER" /\ x.row.status = "IN_TRANSIT"
      /\ Rank(x.row.status) < Rank("RECEIVED") /\ "RECEIVED" \in Statuses
  <2>1. \/ x.row.type = "IMPORT" /\ x.row.status \in {"PENDING", "IN_TRANSIT"}
        \/ x.row.type = "TRANSFER" /\ x.row.status = "IN_TRANSIT"
    BY <1>1, <1>4 DEF AllowedFrom, Kinds
  <2> QED  BY <2>1, RankOf DEF Statuses, FinalStatuses
<1>7. PICK q \in Nat : q = x.received  BY <1>4
<1>8. Drop(r) /\ MarkRaced(r) /\ UNCHANGED <<packed, blind>>
  BY DEF ReceiveCommit
<1>9. PICK m2 : m2 = RowSettled(mov[d], "RECEIVED", q)  OBVIOUS
<1>10. mov' = [mov EXCEPT ![d] = m2]
  <2>1. mov' = [mov EXCEPT ![d].status = "RECEIVED", ![d].received = q]
    BY <1>1, <1>3, <1>7 DEF ReceiveCommit
  <2> QED  BY <1>9, <2>1 DEF RowSettled
<1>11. m2.type = x.row.type /\ m2.status = "RECEIVED" /\ m2.qty = mov[d].qty /\ m2.received = q
  BY <1>4, <1>6, <1>7, <1>9, SettledRow
<1>12. /\ SumFunctionOnSet(o, LotIds) \in Nat /\ SumFunctionOnSet(i, LotIds) \in Nat
  BY <1>4, EntrySum
<1>13. x.row.qty \in Nat  BY <1>4, RowTypes
<1>14. CASE x.row.type = "IMPORT"
  <2>1. PICK at \in Locations : at = x.row.to  BY <1>4, <1>14 DEF RowOK
  <2>2. PICK i2 : i2 = Put(i, Len(lots) + 1, q)  OBVIOUS
  <2>3. OpenLot(at, q) /\ UNCHANGED out /\ debt' = debt + q
    BY <1>1, <1>7, <1>14, <2>1 DEF ReceiveCommit, Charged
  <2>4. IntoWritten(d, i2)
    <3>1. into' = [into EXCEPT ![d][Len(lots) + 1] = q]
      BY <1>1, <1>3, <1>7, <1>14 DEF ReceiveCommit
    <3> QED  BY <1>3, <2>2, <3>1 DEF IntoWritten, Put
  <2>5. UNCHANGED <<out, packed, blind>>  BY <1>8, <2>3
  <2>6. /\ GoodsWritten(d, o, i2)
        /\ SumFunctionOnSet(i2, LotIds) = SumFunctionOnSet(i, LotIds) + q
    <3>1. d \in Docs  BY <1>4
    <3>2. o = out[d] /\ i = into[d]  BY <1>3
    <3>3. OpenLot(at, q)  BY <2>3
    <3> QED  BY <2>2, <2>4, <2>5, <3>1, <3>2, <3>3, OpenEntry
  <2>7. debt' = debt + (IF x.row.type = "IMPORT"
                        THEN SumFunctionOnSet(i2, LotIds) - SumFunctionOnSet(into[d], LotIds)
                        ELSE 0)
    BY <1>3, <1>12, <1>14, <2>3, <2>6
  <2>8. ASSUME ~Stale(r), d \notin raced, mov[d] = x.row
        PROVE  Accounts(m2, o, i2)
    <3>1. NetDue(x.row) = 0 /\ NetDue(m2) = -q
      BY <1>6, <1>11, <1>14, DueOf DEF Kinds
    <3>2. SumFunctionOnSet(o, LotIds) - SumFunctionOnSet(i, LotIds) = 0
      BY <1>5, <2>8, <3>1 DEF Accounts
    <3>3. SumFunctionOnSet(o, LotIds) - SumFunctionOnSet(i2, LotIds) = NetDue(m2)
      BY <1>12, <2>6, <3>1, <3>2
    <3> QED  BY <1>11, <1>14, <3>3 DEF Accounts
  <2> QED  BY <1>1, <1>2, <1>3, <1>6, <1>8, <1>9, <1>10, <2>6, <2>7, <2>8, GoodsStep
<1>15. CASE x.row.type = "TRANSFER"
  <2>1. PICK at \in Locations : at = x.row.to  BY <1>4, <1>15 DEF RowOK
  <2>2. PICK s, i2 : s = x.slices /\ i2 = Plus(i, s)  OBVIOUS
  <2>3. s # NoneMoved /\ ReturnDrawn(d, at, s, q) /\ UNCHANGED debt
    BY <1>1, <1>3, <1>7, <1>15, <2>1, <2>2 DEF ReceiveCommit
  <2>4. MovesUnits(DOMAIN lots, s, q)
    <3>1. ToBringBack(x) = q  BY <1>1, <1>7 DEF ToBringBack
    <3> QED  BY <1>4, <2>2, <2>3, <3>1
  <2>5. UNCHANGED <<packed, blind>>  BY <1>8
  <2>6. /\ GoodsWritten(d, o, i2)
        /\ SumFunctionOnSet(i2, LotIds) = SumFunctionOnSet(i, LotIds) + q
    <3>1. d \in Docs  BY <1>4
    <3>2. o = out[d] /\ i = into[d]  BY <1>3
    <3>3. ReturnDrawn(d, at, s, q)  BY <2>3
    <3>4. i2 = Plus(i, s)  BY <2>2
    <3> QED  BY <2>4, <2>5, <3>1, <3>2, <3>3, <3>4, ReturnEntry
  <2>7. debt' = debt + (IF x.row.type = "IMPORT"
                        THEN SumFunctionOnSet(i2, LotIds) - SumFunctionOnSet(into[d], LotIds)
                        ELSE 0)
    BY <1>15, <2>3, DebtInt
  <2>8. ASSUME ~Stale(r), d \notin raced, mov[d] = x.row
        PROVE  Accounts(m2, o, i2)
    <3>1. NetDue(m2) = x.row.qty - q
      BY <1>11, <1>15, <2>8, DueOf DEF Kinds
    <3>2. PICK m, D : m = x.row /\ D = DOMAIN lots  OBVIOUS
    <3>3. m.type = "TRANSFER" /\ m.status = "IN_TRANSIT" /\ m.qty \in Nat
      BY <1>6, <1>13, <1>15, <3>2
    <3>4. EntryOK(o, D) /\ EntryOK(i, D) /\ MovesUnits(D, s, q)  BY <1>4, <2>4, <3>2
    <3>5. Accounts(m, o, i)  BY <1>5, <2>8, <3>2
    <3>6. Within(s, o, i)  BY <1>5, <2>2, <2>8 DEF Within
    <3>7. i2 = Plus(i, s)  BY <2>2
    <3>8. /\ SumFunctionOnSet(o, LotIds) - SumFunctionOnSet(i2, LotIds) = m.qty - q
          /\ \A k \in LotIds : i2[k] <= o[k]
      BY <3>3, <3>4, <3>5, <3>6, <3>7, BroughtBack
    <3> QED  BY <3>1, <3>2, <3>8 DEF Accounts
  <2> QED  BY <1>1, <1>2, <1>3, <1>6, <1>8, <1>9, <1>10, <2>6, <2>7, <2>8, GoodsStep
<1> QED  BY <1>6, <1>14, <1>15
LEMMA ApproveMoves == ASSUME MovementInv, NEW r \in Clerks, ApproveCommit(r) PROVE MovementInv'
<1>1. PICK x : x = task[r] /\ x.op = "approve"  BY DEF ApproveCommit
<1>2. x.op \in Operations  BY <1>1 DEF Operations
<1>3. PICK d, o, i : d = x.doc /\ o = out[d] /\ i = into[d]  OBVIOUS
<1>4. /\ d \in Docs /\ RowOK(x.row) /\ RowOK(mov[d])
      /\ x.row.type \in Kinds /\ mov[d].type = x.row.type
      /\ x.row.status \in AllowedFrom(x.op, x.row.type)
      /\ EntryOK(o, DOMAIN lots) /\ EntryOK(i, DOMAIN lots)
  BY <1>1, <1>2, <1>3, CommitKnows
<1>5. ASSUME ~Stale(r), d \notin raced
      PROVE  mov[d] = x.row /\ Accounts(x.row, o, i)
  BY <1>1, <1>2, <1>3, <1>5, CommitKnows
<1>6. /\ x.row.type = "ADJUST" /\ x.row.status = "PENDING"
      /\ Rank(x.row.status) < Rank("COMPLETED") /\ "COMPLETED" \in Statuses
  <2>1. x.row.type = "ADJUST" /\ x.row.status = "PENDING"
    BY <1>1, <1>4 DEF AllowedFrom, Kinds
  <2> QED  BY <2>1, RankOf DEF Statuses, FinalStatuses
<1>7. Drop(r) /\ MarkRaced(r) /\ UNCHANGED <<packed, blind>> /\ UNCHANGED debt
  BY DEF ApproveCommit, SetStatus
<1>8. PICK got \in Nat : got = mov[d].received  BY <1>4, RowTypes
<1>9. PICK m2 : m2 = RowSettled(mov[d], "COMPLETED", got)  OBVIOUS
<1>10. mov' = [mov EXCEPT ![d] = m2]
  <2>1. mov' = [mov EXCEPT ![d].status = "COMPLETED"]
    BY <1>1, <1>3 DEF ApproveCommit, SetStatus
  <2> QED  BY <1>4, <1>8, <1>9, <2>1, SettledWrite
<1>11. m2.type = x.row.type /\ m2.status = "COMPLETED" /\ m2.qty = mov[d].qty /\ m2.received = got
  BY <1>4, <1>6, <1>8, <1>9, SettledRow
<1>12. /\ SumFunctionOnSet(o, LotIds) \in Nat /\ SumFunctionOnSet(i, LotIds) \in Nat
  BY <1>4, EntrySum
<1>13. x.row.qty \in Nat /\ x.row.received \in Nat  BY <1>4, RowTypes
<1>14. PICK at \in Locations : at = x.row.from  BY <1>4, <1>6 DEF RowOK
<1>15. \A i2 : debt' = debt + (IF x.row.type = "IMPORT"
                               THEN SumFunctionOnSet(i2, LotIds) - SumFunctionOnSet(into[d], LotIds)
                               ELSE 0)
  BY <1>6, <1>7, DebtInt
<1>16. ASSUME ~Stale(r), d \notin raced, mov[d] = x.row
       PROVE  /\ SumFunctionOnSet(o, LotIds) - SumFunctionOnSet(i, LotIds) = 0
              /\ NetDue(m2) = x.row.qty - x.row.received
  <2>1. NetDue(x.row) = 0 /\ NetDue(m2) = x.row.qty - x.row.received
    BY <1>6, <1>8, <1>11, <1>16, DueOf DEF Kinds
  <2> QED  BY <1>5, <1>16, <2>1 DEF Accounts
<1>17. CASE Surplus(x.row) > 0
  <2>1. PICK q \in Nat : q = x.row.received - x.row.qty  BY <1>13, <1>17 DEF Surplus
  <2>2. PICK i2 : i2 = Put(i, Len(lots) + 1, q)  OBVIOUS
  <2>3. OpenLot(at, q) /\ UNCHANGED out
    BY <1>1, <1>14, <1>17, <2>1 DEF ApproveCommit, Surplus
  <2>4. IntoWritten(d, i2)
    <3>1. into' = [into EXCEPT ![d][Len(lots) + 1] = q]
      BY <1>1, <1>3, <1>17, <2>1 DEF ApproveCommit, Surplus
    <3> QED  BY <1>3, <2>2, <3>1 DEF IntoWritten, Put
  <2>5. UNCHANGED <<out, packed, blind>>  BY <1>7, <2>3
  <2>6. /\ GoodsWritten(d, o, i2)
        /\ SumFunctionOnSet(i2, LotIds) = SumFunctionOnSet(i, LotIds) + q
    <3>1. d \in Docs  BY <1>4
    <3>2. o = out[d] /\ i = into[d]  BY <1>3
    <3>3. OpenLot(at, q)  BY <2>3
    <3> QED  BY <2>2, <2>4, <2>5, <3>1, <3>2, <3>3, OpenEntry
  <2>7. ASSUME ~Stale(r), d \notin raced, mov[d] = x.row
        PROVE  Accounts(m2, o, i2)
    <3>1. SumFunctionOnSet(o, LotIds) - SumFunctionOnSet(i2, LotIds) = NetDue(m2)
      BY <1>12, <1>13, <1>16, <2>1, <2>6, <2>7
    <3> QED  BY <1>6, <1>11, <3>1 DEF Accounts
  <2> QED  BY <1>1, <1>2, <1>3, <1>6, <1>7, <1>9, <1>10, <1>15, <2>6, <2>7, GoodsStep
<1>18. CASE ~(Surplus(x.row) > 0)
  <2>1. PICK q \in Nat : q = -Surplus(x.row)  BY <1>13, <1>18 DEF Surplus
  <2>2. PICK o2 : o2 = Plus(o, DrawSlices(at, q))  OBVIOUS
  <2>3. DeductStock(at, q) /\ UNCHANGED into
    BY <1>1, <1>14, <1>18, <2>1 DEF ApproveCommit
  <2>4. OutWritten(d, o2)
    BY <1>1, <1>3, <1>14, <1>18, <2>1, <2>2 DEF ApproveCommit, OutWritten, Plus
  <2>5. UNCHANGED <<into, packed, blind>>  BY <1>7, <2>3
  <2>6. /\ GoodsWritten(d, o2, i)
        /\ SumFunctionOnSet(o2, LotIds) = SumFunctionOnSet(o, LotIds) + q
    <3>1. d \in Docs  BY <1>4
    <3>2. o = out[d] /\ i = into[d]  BY <1>3
    <3>3. DeductStock(at, q)  BY <2>3
    <3> QED  BY <2>2, <2>4, <2>5, <3>1, <3>2, <3>3, DeductEntry
  <2>7. ASSUME ~Stale(r), d \notin raced, mov[d] = x.row
        PROVE  Accounts(m2, o2, i)
    <3>1. SumFunctionOnSet(o2, LotIds) - SumFunctionOnSet(i, LotIds) = NetDue(m2)
      BY <1>12, <1>13, <1>16, <2>1, <2>6, <2>7 DEF Surplus
    <3> QED  BY <1>6, <1>11, <3>1 DEF Accounts
  <2> QED  BY <1>1, <1>2, <1>3, <1>6, <1>7, <1>9, <1>10, <1>15, <2>6, <2>7, GoodsStep
<1> QED  BY <1>17, <1>18

LEMMA CancelMoves == ASSUME MovementInv, NEW r \in Clerks, CancelCommit(r) PROVE MovementInv'
<1>1. PICK x : x = task[r] /\ x.op = "cancel"  BY DEF CancelCommit
<1>2. x.op \in Operations  BY <1>1 DEF Operations
<1>3. PICK d, o, i : d = x.doc /\ o = out[d] /\ i = into[d]  OBVIOUS
<1>4. /\ d \in Docs /\ RowOK(x.row) /\ RowOK(mov[d])
      /\ x.row.type \in Kinds /\ mov[d].type = x.row.type
      /\ x.row.status \in AllowedFrom(x.op, x.row.type)
      /\ x.slices # NoneMoved => MovesUnits(DOMAIN lots, x.slices, ToBringBack(x))
      /\ EntryOK(o, DOMAIN lots) /\ EntryOK(i, DOMAIN lots)
  BY <1>1, <1>2, <1>3, CommitKnows
<1>5. ASSUME ~Stale(r), d \notin raced
      PROVE  /\ mov[d] = x.row /\ Accounts(x.row, o, i)
             /\ \A k \in LotIds : x.slices[k] = 0 \/ i[k] + x.slices[k] <= o[k]
  BY <1>1, <1>2, <1>3, <1>5, CommitKnows
<1>6. /\ x.row.status \in {"DRAFT", "PENDING", "OPENING", "CLOSED", "IN_TRANSIT"}
      /\ Rank(x.row.status) < Rank("CANCELLED") /\ "CANCELLED" \in Statuses
  <2>1. x.row.status \in {"DRAFT", "PENDING", "OPENING", "CLOSED", "IN_TRANSIT"}
    BY <1>1, <1>4 DEF AllowedFrom
  <2> QED  BY <2>1, RankOf DEF Statuses, FinalStatuses
<1>7. /\ SetStatus(r, "CANCELLED") /\ Drop(r) /\ MarkRaced(r)
      /\ UNCHANGED <<packed, blind>> /\ UNCHANGED debt
  BY DEF CancelCommit, SetStatus
<1>8. CASE ~BringsBack(x)
  <2>1. UNCHANGED <<shelfVars, ledgerVars, debt, packed, blind>>
    BY <1>1, <1>7, <1>8 DEF CancelCommit
  <2>2. x.row.status # "IN_TRANSIT" \/ x.row.type # "TRANSFER"
    BY <1>1, <1>8 DEF BringsBack, ShouldReturnStock
  <2>3. PICK m2 : m2 = [x.row EXCEPT !.status = "CANCELLED"]  OBVIOUS
  <2>4. m2.type = x.row.type /\ m2.status = "CANCELLED"
    BY <1>4, <1>6, <2>3, NewStatus DEF Kinds
  <2>5. NetDue(m2) = NetDue(x.row)
    BY <1>4, <1>6, <2>2, <2>4, DueOf DEF Kinds
  <2> QED  BY <1>1, <1>2, <1>6, <1>7, <2>1, <2>3, <2>5, PlainStatus
<1>9. CASE BringsBack(x)
  <2>1. x.row.status = "IN_TRANSIT" /\ x.row.type = "TRANSFER"
    BY <1>9 DEF BringsBack, ShouldReturnStock
  <2>2. PICK at \in Locations : at = x.row.from  BY <1>4, <2>1 DEF RowOK
  <2>3. PICK q \in Nat : q = x.row.qty  BY <1>4, RowTypes
  <2>4. PICK s, i2 : s = x.slices /\ i2 = Plus(i, s)  OBVIOUS
  <2>5. s # NoneMoved /\ ReturnDrawn(d, at, s, q)
    BY <1>1, <1>3, <1>9, <2>2, <2>3, <2>4 DEF CancelCommit
  <2>6. MovesUnits(DOMAIN lots, s, q)
    <3>1. ToBringBack(x) = q  BY <1>1, <2>3 DEF ToBringBack
    <3> QED  BY <1>4, <2>4, <2>5, <3>1
  <2>7. UNCHANGED <<packed, blind>>  BY <1>7
  <2>8. /\ GoodsWritten(d, o, i2)
        /\ SumFunctionOnSet(i2, LotIds) = SumFunctionOnSet(i, LotIds) + q
    <3>1. d \in Docs  BY <1>4
    <3>2. o = out[d] /\ i = into[d]  BY <1>3
    <3>3. ReturnDrawn(d, at, s, q)  BY <2>5
    <3>4. i2 = Plus(i, s)  BY <2>4
    <3> QED  BY <2>6, <2>7, <3>1, <3>2, <3>3, <3>4, ReturnEntry
  <2>9. debt' = debt + (IF x.row.type = "IMPORT"
                        THEN SumFunctionOnSet(i2, LotIds) - SumFunctionOnSet(into[d], LotIds)
                        ELSE 0)
    BY <1>7, <2>1, DebtInt
  <2>10. PICK got \in Nat : got = mov[d].received  BY <1>4, RowTypes
  <2>11. PICK m2 : m2 = RowSettled(mov[d], "CANCELLED", got)  OBVIOUS
  <2>12. mov' = [mov EXCEPT ![d] = m2]
    <3>1. mov' = [mov EXCEPT ![d].status = "CANCELLED"]
      BY <1>1, <1>3, <1>7 DEF SetStatus
    <3> QED  BY <1>4, <2>10, <2>11, <3>1, SettledWrite
  <2>13. m2.type = x.row.type /\ m2.status = "CANCELLED"
    BY <1>4, <1>6, <2>10, <2>11, SettledRow
  <2>14. ASSUME ~Stale(r), d \notin raced, mov[d] = x.row
         PROVE  Accounts(m2, o, i2)
    <3>1. NetDue(m2) = 0  BY <2>1, <2>13, DueOf DEF Kinds
    <3>2. PICK m, D : m = x.row /\ D = DOMAIN lots  OBVIOUS
    <3>3. m.type = "TRANSFER" /\ m.status = "IN_TRANSIT" /\ m.qty = q
      BY <2>1, <2>3, <3>2
    <3>4. EntryOK(o, D) /\ EntryOK(i, D) /\ MovesUnits(D, s, q)  BY <1>4, <2>6, <3>2
    <3>5. Accounts(m, o, i)  BY <1>5, <2>14, <3>2
    <3>6. Within(s, o, i)  BY <1>5, <2>4, <2>14 DEF Within
    <3>7. i2 = Plus(i, s)  BY <2>4
    <3>8. /\ SumFunctionOnSet(o, LotIds) - SumFunctionOnSet(i2, LotIds) = m.qty - q
          /\ \A k \in LotIds : i2[k] <= o[k]
      BY <3>3, <3>4, <3>5, <3>6, <3>7, BroughtBack
    <3> QED  BY <3>1, <3>3, <3>8 DEF Accounts
  <2> QED  BY ZenonT(60), <1>1, <1>2, <1>3, <1>6, <1>7, <2>8, <2>9, <2>11, <2>12, <2>14, GoodsStep
<1> QED  BY <1>8, <1>9
\* A request that reads or plans, or gives up, and writes nothing.
LEMMA TaskStep ==
  ASSUME MovementInv, NEW r \in Clerks, NEW x, Take(r, x), TaskOK(x, mov, DOMAIN lots),
         x.op \in Operations /\ x.doc \notin raced
           => Follows(x, mov[x.doc], out[x.doc], into[x.doc]),
         UNCHANGED <<shelfVars, mov, ledgerVars, debt, history>>
  PROVE  MovementInv'
<1>1. UNCHANGED <<lots, mov, out, into, debt, raced>> /\ UNCHANGED <<shelfVars, packed, blind>>
  BY DEF shelfVars, ledgerVars, history
<1>2. ShelfOK'
  <2>1. ShelfOK  BY DEF MovementInv
  <2> QED  BY <1>1, <2>1, ShelfStays
<1>3. DocsOK' /\ DebtOK' /\ LedgerOK'
  BY <1>1 DEF MovementInv, DocsOK, DebtOK, LedgerOK, Imported
<1>4. PICK ts : ts = task'  OBVIOUS
<1>5. DOMAIN ts = Clerks /\ \A q \in Clerks : ts[q] = IF q = r THEN x ELSE task[q]
  BY <1>4 DEF MovementInv, TasksOK, Take
<1>6. \A q \in Clerks : TaskOK(ts[q], mov, DOMAIN lots)
  BY <1>5 DEF MovementInv, TasksOK
<1>7. TasksOK'  BY <1>1, <1>4, <1>5, <1>6 DEF TasksOK
<1>8. \A q \in Clerks : ts[q].op \in Operations /\ ts[q].doc \notin raced
        => Follows(ts[q], mov[ts[q].doc], out[ts[q].doc], into[ts[q].doc])
  BY <1>5 DEF MovementInv, UnracedOK
<1>9. \A d \in Docs \ raced : Accounts(mov[d], out[d], into[d])
  BY DEF MovementInv, UnracedOK
<1>10. UnracedOK'  BY <1>1, <1>4, <1>8, <1>9 DEF UnracedOK
<1> QED  BY <1>2, <1>3, <1>7, <1>10 DEF MovementInv

LEMMA IdleStep ==
  ASSUME MovementInv, NEW r \in Clerks, AbandonTask(r)
  PROVE  MovementInv'
BY IdleOK, TaskStep DEF AbandonTask, Drop

LEMMA RemoveReadStep == ASSUME MovementInv, NEW r \in Clerks, RemoveRead(r) PROVE MovementInv'
<1>1. PICK at \in Locations : Take(r, [op |-> "remove", at |-> at])  BY DEF RemoveRead
<1>2. PICK x : x = [op |-> "remove", at |-> at]  OBVIOUS
<1>3. x.op = "remove" /\ x.at \in Locations /\ "remove" \notin Operations
  BY <1>2 DEF Operations
<1>4. TaskOK(x, mov, DOMAIN lots)  BY <1>3 DEF TaskOK
<1>5. UNCHANGED <<shelfVars, mov, ledgerVars, debt, history>>  BY DEF RemoveRead
<1>6. Take(r, x)  BY <1>1, <1>2
<1> QED  BY <1>3, <1>4, <1>5, <1>6, TaskStep

LEMMA LoadStep == ASSUME MovementInv, NEW r \in Clerks, Load(r) PROVE MovementInv'
<1>1. PICK op \in Operations, d \in Docs : \E received \in 0..mov[d].qty :
        /\ mov[d].status \in AllowedFrom(op, mov[d].type)
        /\ Take(r, [op |-> op, doc |-> d, row |-> mov[d],
                    received |-> received, slices |-> NoneMoved])
  BY DEF Load
<1>2. PICK received \in 0..mov[d].qty :
        /\ mov[d].status \in AllowedFrom(op, mov[d].type)
        /\ Take(r, [op |-> op, doc |-> d, row |-> mov[d],
                    received |-> received, slices |-> NoneMoved])
  BY <1>1
<1>3. RowOK(mov[d])  BY DEF MovementInv, DocsOK
<1>4. received \in Nat  BY <1>3, RowTypes
<1>5. PICK x : x = [op |-> op, doc |-> d, row |-> mov[d],
                    received |-> received, slices |-> NoneMoved]
  OBVIOUS
<1>6. x.op = op /\ x.doc = d /\ x.row = mov[d] /\ x.received = received /\ x.slices = NoneMoved
  BY <1>5
<1>7. mov[d].type # "NONE"
  <2>1. "NONE" \notin AllowedFrom(op, mov[d].type)  BY DEF AllowedFrom, Operations
  <2> QED  BY <1>2, <1>3, <2>1 DEF RowOK
<1>8. op \notin {"idle", "remove"}  BY DEF Operations
<1>9. TaskOK(x, mov, DOMAIN lots)
  <2>1. x = [op |-> x.op, doc |-> x.doc, row |-> x.row, received |-> x.received, slices |-> x.slices]
    BY <1>5, <1>6
  <2> QED  BY <1>2, <1>3, <1>4, <1>6, <1>7, <1>8, <2>1 DEF TaskOK
<1>10. Follows(x, mov[x.doc], out[x.doc], into[x.doc])
  <2>1. mov[d].edits \in Nat /\ Rank(mov[d].status) \in Nat  BY <1>3, RowTypes, RankNat
  <2>2. \A k \in LotIds : x.slices[k] = 0  BY <1>6 DEF NoneMoved
  <2> QED  BY <1>6, <2>1, <2>2 DEF Follows
<1>11. Take(r, x)  BY <1>2, <1>5
<1>12. UNCHANGED <<shelfVars, mov, ledgerVars, debt, history>>  BY DEF Load
<1> QED  BY <1>9, <1>10, <1>11, <1>12, TaskStep

\* What the plan of a return gives back.
LEMMA BringBackAddsUp ==
  ASSUME MovementInv, NEW d \in Docs, NEW q \in Nat, OutCovers(d, q), NEW s, s = ReturnSlices(d, q)
  PROVE  /\ MovesUnits(DOMAIN lots, s, q)
         /\ \A k \in LotIds : s[k] = 0 \/ into[d][k] + s[k] <= out[d][k]
<1>1. PICK room : room = StillOut(d)  OBVIOUS
<1>2. EntryOK(out[d], DOMAIN lots) /\ EntryOK(into[d], DOMAIN lots)
  BY DEF MovementInv, LedgerOK
<1>3. PICK o, i : o = out[d] /\ i = into[d]  OBVIOUS
<1>4. \A k \in LotIds : o[k] \in Nat /\ i[k] \in Nat  BY <1>2, <1>3, EntrySum
<1>5. \A k \in LotIds : room[k] = IF o[k] > i[k] THEN o[k] - i[k] ELSE 0
  BY <1>1, <1>3 DEF StillOut
<1>6. \A k \in LotIds : room[k] \in Nat  BY <1>4, <1>5
<1>7. \A k \in LotIds \ DOMAIN lots : room[k] = 0
  <2> TAKE k \in LotIds \ DOMAIN lots
  <2>1. o[k] = 0 /\ i[k] = 0  BY <1>2, <1>3 DEF EntryOK
  <2> QED  BY <1>5, <2>1
<1>8. lots \in LotRows /\ Len(lots) <= MaxLots  BY DEF MovementInv, ShelfOK
<1>9. DOMAIN lots \subseteq LotIds  BY <1>8, LotRowsFinite
<1>10. SumFunctionOnSet(room, LotIds) = SumFunctionOnSet(room, DOMAIN lots)
  <2>1. PICK S, T : S = LotIds /\ T = DOMAIN lots  OBVIOUS
  <2>2. IsFiniteSet(S) /\ T \in SUBSET S  BY <1>9, <2>1, Bounds
  <2>3. \A k \in S : room[k] \in Int  BY <1>6, <2>1
  <2>4. \A k \in S \ T : room[k] = 0  BY <1>7, <2>1
  <2>5. SumFunctionOnSet(room, S) = SumFunctionOnSet(room, T)
    BY <2>2, <2>3, <2>4, SumNonZero
  <2> QED  BY <2>1, <2>5
<1>11. q <= SumFunctionOnSet(room, DOMAIN lots)
  <2>1. SumFunctionOnSet(room, LotIds) >= q  BY <1>1 DEF OutCovers, SumOver
  <2>2. SumFunctionOnSet(room, LotIds) \in Nat  BY <1>6, Bounds, SumNat
  <2> QED  BY <1>10, <2>1, <2>2
<1>12. \A k \in DOMAIN lots : room[k] \in Nat  BY <1>6, <1>9
<1>13. s = Spread(room, q)  BY <1>1 DEF ReturnSlices
<1>14. /\ MovesUnits(DOMAIN lots, s, q)
       /\ \A k \in DOMAIN lots : s[k] <= room[k]
       /\ \A k \in LotIds : k \notin DOMAIN lots => s[k] = 0
  BY <1>8, <1>11, <1>12, <1>13, SpreadAddsUp
<1>15. ASSUME NEW k \in LotIds PROVE s[k] = 0 \/ i[k] + s[k] <= o[k]
  <2>1. s[k] \in Nat  BY <1>14 DEF MovesUnits
  <2>2. CASE k \notin DOMAIN lots  BY <1>14, <2>2
  <2>3. CASE k \in DOMAIN lots
    <3>1. s[k] <= room[k]  BY <1>14, <2>3
    <3> QED  BY <1>4, <1>5, <2>1, <3>1
  <2> QED  BY <2>2, <2>3
<1> QED  BY <1>3, <1>14, <1>15

LEMMA PlanStep == ASSUME MovementInv, NEW r \in Clerks, Plan(r) PROVE MovementInv'
<1>1. PICK x : x = task[r] /\ x.op \in {"receive", "cancel"} /\ BringsBack(x)
  BY DEF Plan
<1>2. x.op \in Operations  BY <1>1 DEF Operations
<1>3. PICK d, q : d = x.doc /\ q = ToBringBack(x)  OBVIOUS
<1>4. TaskOK(x, mov, DOMAIN lots)  BY <1>1 DEF MovementInv, TasksOK
<1>5. /\ x = [op |-> x.op, doc |-> x.doc, row |-> x.row, received |-> x.received,
              slices |-> x.slices]
      /\ d \in Docs /\ RowOK(x.row) /\ x.received \in Nat
  BY <1>2, <1>3, <1>4 DEF TaskOK
<1>6. q \in Nat
  <2>1. x.row.qty \in Nat  BY <1>5, RowTypes
  <2> QED  BY <1>3, <1>5, <2>1 DEF ToBringBack
<1>7. PICK s : s = ReturnSlices(d, q)  OBVIOUS
<1>8. OutCovers(d, q) /\ task' = [task EXCEPT ![r].slices = s]
      /\ UNCHANGED <<shelfVars, mov, ledgerVars, debt, history>>
  BY <1>1, <1>3, <1>7 DEF Plan
<1>9. /\ MovesUnits(DOMAIN lots, s, q)
      /\ \A k \in LotIds : s[k] = 0 \/ into[d][k] + s[k] <= out[d][k]
  BY <1>5, <1>6, <1>7, <1>8, BringBackAddsUp
<1>10. PICK y : y = [x EXCEPT !.slices = s]  OBVIOUS
<1>11. /\ y.op = x.op /\ y.doc = x.doc /\ y.row = x.row /\ y.received = x.received /\ y.slices = s
       /\ y = [op |-> y.op, doc |-> y.doc, row |-> y.row, received |-> y.received,
               slices |-> y.slices]
  BY <1>5, <1>10
<1>12. Take(r, y)  BY <1>1, <1>8, <1>10 DEF Take
<1>13. TaskOK(y, mov, DOMAIN lots)
  <2>1. BringsBack(y) /\ ToBringBack(y) = q
    BY <1>1, <1>3, <1>11 DEF BringsBack, ToBringBack
  <2>2. /\ RowOK(x.row) /\ x.row.type # "NONE" /\ x.row.type = mov[d].type
        /\ x.row.status \in AllowedFrom(x.op, x.row.type)
    BY <1>2, <1>3, <1>4 DEF TaskOK
  <2>3. /\ RowOK(y.row) /\ y.row.type # "NONE" /\ y.row.type = mov[y.doc].type
        /\ y.row.status \in AllowedFrom(y.op, y.row.type)
        /\ y.doc \in Docs /\ y.received \in Nat /\ y.op \in Operations /\ y.op # "remove"
    BY <1>1, <1>2, <1>3, <1>5, <1>11, <2>2
  <2>4. MovesUnits(DOMAIN lots, y.slices, ToBringBack(y))  BY <1>9, <1>11, <2>1
  <2>5. y = [op |-> y.op, doc |-> y.doc, row |-> y.row, received |-> y.received,
             slices |-> y.slices]
    BY <1>11
  <2> QED  BY <2>1, <2>3, <2>4, <2>5 DEF TaskOK
<1>14. ASSUME y.doc \notin raced
       PROVE  Follows(y, mov[y.doc], out[y.doc], into[y.doc])
  <2>1. Follows(x, mov[d], out[d], into[d])
    BY <1>1, <1>2, <1>3, <1>11, <1>14 DEF MovementInv, UnracedOK
  <2> QED  BY <1>3, <1>9, <1>11, <2>1 DEF Follows
<1> QED  BY <1>8, <1>12, <1>13, <1>14, TaskStep
\* A new document: its goods have not moved, and no request has seen it.
LEMMA CreateStep == ASSUME MovementInv, NEW d \in Docs, Create(d) PROVE MovementInv'
<1>1. PICK type \in Types : \E m \in Documents(type) : mov' = [mov EXCEPT ![d] = m]
  BY DEF Create
<1>2. PICK m \in Documents(type) : mov' = [mov EXCEPT ![d] = m]  BY <1>1
<1>3. type \in Kinds  BY MovementAssumption DEF Kinds
<1>4. RowOK(m) /\ m.type \in Kinds /\ m.status \in {"DRAFT", "PENDING"}
  <2>1. RowOK(m) /\ m.type = type /\ m.status = FirstStatus(type)
    BY <1>3, DocumentRows DEF MovementInv
  <2> QED  BY <1>3, <2>1 DEF FirstStatus
<1>5. PICK mv : mv = mov'  OBVIOUS
<1>6. DOMAIN mv = Docs /\ \A e \in Docs : mv[e] = IF e = d THEN m ELSE mov[e]
  BY <1>2, <1>5 DEF MovementInv, DocsOK
<1>7. mov[d].type = "NONE"  BY DEF Create, Absent
<1>8. out[d] = NoneMoved /\ into[d] = NoneMoved  BY <1>7 DEF MovementInv, LedgerOK
<1>9. SumFunctionOnSet(NoneMoved, LotIds) = 0 /\ \A k \in LotIds : NoneMoved[k] = 0
  <2>1. \A k \in LotIds : NoneMoved[k] = 0  BY DEF NoneMoved
  <2>2. PICK f : f = NoneMoved  OBVIOUS
  <2>3. \A k \in LotIds : f[k] = 0  BY <2>1, <2>2
  <2>4. SumFunctionOnSet(f, LotIds) = 0  BY <2>3, Bounds, SumZero
  <2> QED  BY <2>1, <2>2, <2>4
<1>10. UNCHANGED <<lots, out, into, debt, task, raced>> /\ UNCHANGED <<shelfVars, packed, blind>>
  BY DEF Create, shelfVars, ledgerVars, history
<1>11. ShelfOK'
  <2>1. ShelfOK  BY DEF MovementInv
  <2> QED  BY <1>10, <2>1, ShelfStays
<1>12. DocsOK'
  <2>1. \A e \in Docs : RowOK(mv[e])  BY <1>4, <1>6 DEF MovementInv, DocsOK
  <2> QED  BY <1>5, <1>6, <2>1 DEF DocsOK
<1>13. ASSUME NEW q \in Clerks, task[q].op \in Operations
       PROVE  task[q].doc \in Docs \ {d}
  <2>1. TaskOK(task[q], mov, DOMAIN lots)  BY DEF MovementInv, TasksOK
  <2> QED  BY <1>7, <1>13, <2>1 DEF TaskOK
<1>14. TasksOK'
  <2>1. ASSUME NEW q \in Clerks PROVE TaskOK(task[q], mv, DOMAIN lots)
    <3>1. TaskOK(task[q], mov, DOMAIN lots)  BY DEF MovementInv, TasksOK
    <3>2. CASE task[q].op \in Operations
      <4>1. mv[task[q].doc] = mov[task[q].doc]  BY <1>6, <1>13, <3>2
      <4> QED  BY <3>1, <4>1 DEF TaskOK
    <3>3. CASE task[q].op \notin Operations  BY <3>1, <3>3 DEF TaskOK
    <3> QED  BY <3>2, <3>3
  <2>2. DOMAIN task = Clerks  BY DEF MovementInv, TasksOK
  <2> QED  BY <1>5, <1>10, <2>1, <2>2 DEF TasksOK
<1>15. LedgerOK'
  <2>1. \A e \in Docs : mv[e].type = "NONE" => mov[e].type = "NONE"
    BY <1>4, <1>6 DEF Kinds
  <2>2. /\ out \in [Docs -> [LotIds -> Nat]] /\ into \in [Docs -> [LotIds -> Nat]]
        /\ \A e \in Docs : /\ EntryOK(out[e], DOMAIN lots) /\ EntryOK(into[e], DOMAIN lots)
                           /\ mv[e].type = "NONE" => out[e] = NoneMoved /\ into[e] = NoneMoved
    BY <2>1 DEF MovementInv, LedgerOK
  <2> QED  BY <1>5, <1>10, <2>2 DEF LedgerOK
<1>16. DebtOK'
  <2>1. PICK f, g : f = Imported(mov, into) /\ g = Imported(mv, into)  OBVIOUS
  <2>2. \A e \in Docs : f[e] = g[e]
    <3> TAKE e \in Docs
    <3>1. CASE e = d
      <4>1. SumFunctionOnSet(into[e], LotIds) = 0  BY <1>8, <1>9, <3>1
      <4> QED  BY <2>1, <4>1 DEF Imported
    <3>2. CASE e # d  BY <1>6, <2>1, <3>2 DEF Imported
    <3> QED  BY <3>1, <3>2
  <2>3. SumFunctionOnSet(f, Docs) = SumFunctionOnSet(g, Docs)
    <3>1. PICK S : S = Docs /\ IsFiniteSet(S)  BY Bounds
    <3>2. \A e \in S : f[e] = g[e]  BY <2>2, <3>1
    <3>3. SumFunctionOnSet(f, S) = SumFunctionOnSet(g, S)  BY <3>1, <3>2, SumSame
    <3> QED  BY <3>1, <3>3
  <2>4. debt = SumFunctionOnSet(f, Docs)  BY <2>1 DEF MovementInv, DebtOK
  <2> QED  BY <1>5, <1>10, <2>1, <2>3, <2>4 DEF DebtOK
<1>17. ASSUME NEW e \in Docs \ raced PROVE Accounts(mv[e], out[e], into[e])
  <2>1. CASE e # d  BY <1>6, <1>17, <2>1 DEF MovementInv, UnracedOK
  <2>2. CASE e = d
    <3>1. NetDue(m) = 0  BY <1>4, DueOf DEF Kinds
    <3>2. mv[e] = m /\ out[e] = NoneMoved /\ into[e] = NoneMoved  BY <1>6, <1>8, <2>2
    <3> QED  BY <1>9, <3>1, <3>2 DEF Accounts
  <2> QED  BY <2>1, <2>2
<1>18. ASSUME NEW q \in Clerks, task[q].op \in Operations, task[q].doc \notin raced
       PROVE  Follows(task[q], mv[task[q].doc], out[task[q].doc], into[task[q].doc])
  <2>1. mv[task[q].doc] = mov[task[q].doc]  BY <1>6, <1>13, <1>18
  <2> QED  BY <1>18, <2>1 DEF MovementInv, UnracedOK
<1>19. UnracedOK'  BY <1>5, <1>10, <1>17, <1>18 DEF UnracedOK
<1> QED  BY <1>11, <1>12, <1>14, <1>15, <1>16, <1>19 DEF MovementInv

\* A step at the shelves that no document makes.
LEMMA ShopStep ==
  ASSUME MovementInv, ShelfOK', DOMAIN lots \subseteq DOMAIN lots',
         UNCHANGED <<mov, out, into, debt, raced>>, DOMAIN task' = Clerks,
         \A q \in Clerks : task'[q] = task[q] \/ task'[q] = NoTask
  PROVE  MovementInv'
<1>1. PICK ts, D, E : ts = task' /\ D = DOMAIN lots /\ E = DOMAIN lots'  OBVIOUS
<1>2. D \subseteq E /\ DOMAIN ts = Clerks /\ \A q \in Clerks : ts[q] = task[q] \/ ts[q] = NoTask
  BY <1>1
<1>3. DocsOK' /\ DebtOK'
  BY DEF MovementInv, DocsOK, DebtOK, Imported
<1>4. TasksOK'
  <2>1. ASSUME NEW q \in Clerks PROVE TaskOK(ts[q], mov, E)
    <3>1. TaskOK(task[q], mov, D)  BY <1>1 DEF MovementInv, TasksOK
    <3>2. TaskOK(task[q], mov, E)  BY <1>2, <3>1, TaskWider
    <3> QED  BY <1>2, <3>2, IdleOK
  <2> QED  BY <1>1, <1>2, <2>1 DEF TasksOK
<1>5. LedgerOK'
  <2>1. \A d \in Docs : EntryOK(out[d], E) /\ EntryOK(into[d], E)
    <3> TAKE d \in Docs
    <3>1. EntryOK(out[d], D) /\ EntryOK(into[d], D)  BY <1>1 DEF MovementInv, LedgerOK
    <3> QED  BY <1>2, <3>1, MovesWider
  <2>2. /\ out \in [Docs -> [LotIds -> Nat]] /\ into \in [Docs -> [LotIds -> Nat]]
        /\ \A d \in Docs : mov[d].type = "NONE" => out[d] = NoneMoved /\ into[d] = NoneMoved
    BY DEF MovementInv, LedgerOK
  <2> QED  BY <1>1, <2>1, <2>2 DEF LedgerOK
<1>6. UnracedOK'
  <2>1. \A q \in Clerks : ts[q].op \in Operations /\ ts[q].doc \notin raced
          => Follows(ts[q], mov[ts[q].doc], out[ts[q].doc], into[ts[q].doc])
    BY <1>2, IdleOK DEF MovementInv, UnracedOK
  <2>2. \A d \in Docs \ raced : Accounts(mov[d], out[d], into[d])
    BY DEF MovementInv, UnracedOK
  <2> QED  BY <1>1, <2>1, <2>2 DEF UnracedOK
<1> QED  BY <1>3, <1>4, <1>5, <1>6 DEF MovementInv

LEMMA ShopMoves ==
  ASSUME MovementInv, NEW at \in Locations,
         Sell(at) \/ LockStock(at) \/ ReleaseLockedStock(at) \/ ShipLockedStock(at)
  PROVE  MovementInv'
<1>1. ShelfOK /\ DOMAIN task = Clerks /\ lots \in LotRows
  BY DEF MovementInv, TasksOK, ShelfOK
<1>2. UNCHANGED <<mov, out, into, debt, raced>> /\ UNCHANGED task
  BY DEF Sell, LockStock, ReleaseLockedStock, ShipLockedStock, ledgerVars, history
<1>3. DOMAIN task' = Clerks /\ \A q \in Clerks : task'[q] = task[q] \/ task'[q] = NoTask
  BY <1>1, <1>2
<1>4. ShelfOK' /\ DOMAIN lots \subseteq DOMAIN lots'
  <2>1. CASE Sell(at)
    <3>1. DeductStock(at, 1) /\ UNCHANGED <<packed, blind>> /\ 1 \in Nat
      BY <2>1 DEF Sell, history
    <3>2. ShelfOK' /\ DOMAIN lots' = DOMAIN lots  BY <1>1, <3>1, DeductShelf
    <3> QED  BY <3>2
  <2>2. CASE LockStock(at) \/ ReleaseLockedStock(at)
    <3>1. ShelfOK'  BY <1>1, <2>2, LockShelf
    <3>2. UNCHANGED lots  BY <2>2 DEF LockStock, ReleaseLockedStock
    <3> QED  BY <3>1, <3>2
  <2>3. CASE ShipLockedStock(at)
    <3>1. ShelfOK' /\ Len(lots') = Len(lots)  BY <1>1, <2>3, ShipLockedShelf
    <3>2. PICK l2 : l2 = lots'  OBVIOUS
    <3>3. l2 \in LotRows  BY <3>1, <3>2 DEF ShelfOK
    <3>4. DOMAIN lots = 1..Len(lots) /\ DOMAIN l2 = 1..Len(l2)
      BY <1>1, <3>3, LotRowsFinite
    <3> QED  BY <3>1, <3>2, <3>4
  <2> QED  BY <2>1, <2>2, <2>3
<1> QED  BY <1>2, <1>3, <1>4, ShopStep

LEMMA RemoveMoves == ASSUME MovementInv, NEW r \in Clerks, RemoveCommit(r) PROVE MovementInv'
<1>1. TaskOK(task[r], mov, DOMAIN lots) /\ DOMAIN task = Clerks /\ ShelfOK
  BY DEF MovementInv, TasksOK
<1>2. task[r].op = "remove"  BY DEF RemoveCommit
<1>3. task[r].at \in Locations  BY <1>1, <1>2 DEF TaskOK
<1>4. ShelfOK'  BY <1>1, <1>3, RemoveShelf
<1>5. UNCHANGED <<mov, out, into, debt, raced>> /\ UNCHANGED lots /\ Drop(r)
  BY DEF RemoveCommit, ledgerVars
<1>6. DOMAIN task' = Clerks /\ \A q \in Clerks : task'[q] = task[q] \/ task'[q] = NoTask
  BY <1>1, <1>5 DEF Drop, Take
<1>7. DOMAIN lots \subseteq DOMAIN lots'  BY <1>5
<1> QED  BY <1>4, <1>5, <1>6, <1>7, ShopStep

LEMMA MovementStarts == MovementInit => MovementInv
<1> SUFFICES ASSUME MovementInit PROVE MovementInv  OBVIOUS
<1>1. PICK n \in Nat : n = Len(Opening) /\ n <= MaxLots /\ DOMAIN Opening = 1..n
  BY MovementAssumption
<1>2. \A k \in 1..n : Opening[k] \in [at : Locations, left : Nat]
  <2>1. PICK R : R = [at : Locations, left : Nat]  OBVIOUS
  <2>2. Opening \in Seq(R)  BY <2>1, MovementAssumption
  <2>3. \A k \in 1..n : Opening[k] \in R  BY <1>1, <2>2
  <2> QED  BY <2>1, <2>3
<1>3. lots = [k \in 1..n |-> [at |-> Opening[k].at, left |-> Opening[k].left, age |-> k]]
  BY <1>1 DEF MovementInit
<1>4. lots \in LotRows /\ Len(lots) = n
  <2>1. \A k \in 1..n : [at |-> Opening[k].at, left |-> Opening[k].left, age |-> k]
                          \in [at : Locations, left : Nat, age : Nat]
    BY <1>2
  <2> QED  BY <1>3, <2>1 DEF LotRows
<1>5. \A at \in Locations : HeldIn(lots, at) \in Nat /\ stock[at] = HeldIn(lots, at)
  <2> TAKE at \in Locations
  <2>1. stock[at] = SumOver(LeftAt(at), DOMAIN lots)  BY DEF MovementInit
  <2> QED  BY <1>4, <2>1, LeftIsHeld, LeftInNat
<1>6. stock \in [Locations -> Nat]
  <2>1. stock = [at \in Locations |-> stock[at]]  BY DEF MovementInit
  <2> QED  BY <1>5, <2>1
<1>7. ShelfOK
  <2>1. \A at \in Locations : locked[at] = 0 /\ packed[at] = 0  BY DEF MovementInit
  <2>2. locked \in [Locations -> Nat] /\ packed \in [Locations -> Nat]  BY DEF MovementInit
  <2> QED  BY <1>1, <1>4, <1>5, <1>6, <2>1, <2>2 DEF ShelfOK
<1>8. DOMAIN mov = Docs /\ \A d \in Docs : mov[d] = Absent  BY DEF MovementInit
<1>9. out = [d \in Docs |-> NoneMoved] /\ into = [d \in Docs |-> NoneMoved]
  BY DEF MovementInit
<1>10. NoneMoved \in [LotIds -> Nat] /\ \A k \in LotIds : NoneMoved[k] = 0
  BY DEF NoneMoved
<1>11. SumFunctionOnSet(NoneMoved, LotIds) = 0
  <2>1. PICK f : f = NoneMoved /\ \A k \in LotIds : f[k] = 0  BY <1>10
  <2>2. SumFunctionOnSet(f, LotIds) = 0  BY <2>1, Bounds, SumZero
  <2> QED  BY <2>1, <2>2
<1>12. RowOK(Absent) /\ Absent.type = "NONE"
  BY DEF RowOK, Absent, Kinds, Statuses
<1>13. DocsOK  BY <1>8, <1>12 DEF DocsOK
<1>14. TasksOK  BY IdleOK DEF MovementInit, TasksOK
<1>15. LedgerOK
  <2>1. \A D : EntryOK(NoneMoved, D)  BY <1>10 DEF EntryOK
  <2>2. \A d \in Docs : out[d] = NoneMoved /\ into[d] = NoneMoved  BY <1>9
  <2>3. out \in [Docs -> [LotIds -> Nat]] /\ into \in [Docs -> [LotIds -> Nat]]
    BY <1>9, <1>10
  <2> QED  BY <2>1, <2>2, <2>3 DEF LedgerOK
<1>16. DebtOK
  <2>1. PICK f : f = Imported(mov, into)  OBVIOUS
  <2>2. \A d \in Docs : f[d] = 0  BY <1>8, <1>12, <2>1 DEF Imported
  <2>3. SumFunctionOnSet(f, Docs) = 0  BY <2>2, Bounds, SumZero
  <2> QED  BY <2>1, <2>3 DEF DebtOK, MovementInit
<1>17. UnracedOK
  <2>1. NetDue(Absent) = 0  BY <1>12 DEF NetDue
  <2>2. Accounts(Absent, NoneMoved, NoneMoved)  BY <1>11, <1>12, <2>1 DEF Accounts
  <2>3. \A d \in Docs : Accounts(mov[d], out[d], into[d])  BY <1>8, <1>9, <2>2
  <2>4. \A r \in Clerks : task[r] = NoTask  BY DEF MovementInit
  <2> QED  BY <2>3, <2>4, IdleOK DEF UnracedOK
<1> QED  BY <1>7, <1>13, <1>14, <1>15, <1>16, <1>17 DEF MovementInv

LEMMA MovementSteps == MovementInv /\ [MovementNext]_movementVars => MovementInv'
<1> SUFFICES ASSUME MovementInv, [MovementNext]_movementVars PROVE MovementInv'  OBVIOUS
<1>1. ASSUME NEW d \in Docs, Create(d) PROVE MovementInv'  BY <1>1, CreateStep
<1>2. ASSUME NEW r \in Clerks, Load(r) \/ Plan(r) \/ AbandonTask(r) \/ RemoveRead(r)
      PROVE  MovementInv'
  BY <1>2, LoadStep, PlanStep, IdleStep, RemoveReadStep
<1>3. ASSUME NEW r \in Clerks, EditCommit(r) \/ OpenCommit(r) \/ CloseCommit(r) \/ ShipCommit(r)
      PROVE  MovementInv'
  BY <1>3, EditMoves, OpenMoves, CloseMoves, ShipMoves
<1>4. ASSUME NEW r \in Clerks,
             ReceiveCommit(r) \/ ApproveCommit(r) \/ CancelCommit(r) \/ RemoveCommit(r)
      PROVE  MovementInv'
  BY <1>4, ReceiveMoves, ApproveMoves, CancelMoves, RemoveMoves
<1>5. ASSUME NEW at \in Locations,
             Sell(at) \/ LockStock(at) \/ ReleaseLockedStock(at) \/ ShipLockedStock(at)
      PROVE  MovementInv'
  BY <1>5, ShopMoves
<1>6. CASE UNCHANGED movementVars
  <2>1. /\ UNCHANGED <<mov, out, into, debt, raced>> /\ UNCHANGED task /\ UNCHANGED lots
        /\ UNCHANGED <<shelfVars, packed, blind>>
    BY <1>6 DEF movementVars, shelfVars, ledgerVars, history
  <2>2. ShelfOK /\ DOMAIN task = Clerks  BY DEF MovementInv, TasksOK
  <2>3. ShelfOK'  BY <2>1, <2>2, ShelfStays
  <2>4. DOMAIN lots \subseteq DOMAIN lots'  BY <2>1
  <2>5. DOMAIN task' = Clerks /\ \A q \in Clerks : task'[q] = task[q] \/ task'[q] = NoTask
    BY <2>1, <2>2
  <2> QED  BY <2>1, <2>3, <2>4, <2>5, ShopStep
<1> QED  BY <1>1, <1>2, <1>3, <1>4, <1>5, <1>6 DEF MovementNext

\* The inductive invariant of the stock movements: shelves, documents, what
\* the requests hold, the ledger and the supplier's debt fit together.
THEOREM MovementsFit == MovementSpec => []MovementInv
<1>1. MovementInit => MovementInv  BY MovementStarts
<1>2. MovementInv /\ [MovementNext]_movementVars => MovementInv'  BY MovementSteps
<1> QED  BY <1>1, <1>2, PTL DEF MovementSpec

\* Every quantity stays a number of units that can be there: no shelf, lot,
\* entry of the ledger or debt goes below zero, and every document has a status.
THEOREM MovementsKeepTypes == MovementSpec => []MovementTypes
<1>1. MovementInv => MovementTypes
  <2> SUFFICES ASSUME MovementInv PROVE MovementTypes  OBVIOUS
  <2>1. /\ stock \in [Locations -> Nat] /\ locked \in [Locations -> Nat]
        /\ lots \in Seq([at : Locations, left : Nat, age : Nat]) /\ Len(lots) <= MaxLots
    BY DEF MovementInv, ShelfOK, LotRows
  <2>2. out \in [Docs -> [LotIds -> Nat]] /\ into \in [Docs -> [LotIds -> Nat]]
    BY DEF MovementInv, LedgerOK
  <2>3. \A d \in Docs : mov[d].status \in Statuses
    BY RowTypes DEF MovementInv, DocsOK
  <2>4. debt \in Nat
    <3>1. PICK f : f = Imported(mov, into)  OBVIOUS
    <3>2. \A d \in Docs : f[d] \in Nat
      <4> TAKE d \in Docs
      <4>1. EntryOK(into[d], DOMAIN lots)  BY DEF MovementInv, LedgerOK
      <4>2. SumFunctionOnSet(into[d], LotIds) \in Nat  BY <4>1, EntrySum
      <4> QED  BY <3>1, <4>2 DEF Imported
    <3>3. SumFunctionOnSet(f, Docs) \in Nat  BY <3>2, Bounds, SumNat
    <3> QED  BY <3>1, <3>3 DEF MovementInv, DebtOK
  <2> QED  BY <2>1, <2>2, <2>3, <2>4 DEF MovementTypes, Statuses
<1> QED  BY <1>1, MovementsFit, PTL

\* Whatever transfers, stocktakes, sales and packed orders do to a location at
\* the same time, its lots hold exactly its stock, and goods packed for an
\* order are there until it ships or is cancelled, unless its row was deleted
\* by a request that had seen it empty.
THEOREM StockStaysSound == MovementSpec => []StockIsSound
<1>1. MovementInv => StockIsSound
  <2> SUFFICES ASSUME MovementInv, NEW at \in Locations \ blind
               PROVE  /\ SumOver(LeftAt(at), DOMAIN lots) = stock[at]
                      /\ locked[at] = packed[at] /\ locked[at] <= stock[at]
    BY DEF StockIsSound
  <2> QED  BY LeftIsHeld DEF MovementInv, ShelfOK
<1> QED  BY <1>1, MovementsFit, PTL

\* The supplier is owed exactly what the ledger says came in on imports, even
\* when one is received twice or edited meanwhile.
THEOREM DebtStaysRight == MovementSpec => []DebtFollowsGoods
<1>1. MovementInv => DebtFollowsGoods
  <2> SUFFICES ASSUME MovementInv PROVE DebtFollowsGoods  OBVIOUS
  <2>1. PICK S, T, f, g : /\ S = Docs /\ T = {d \in Docs : mov[d].type = "IMPORT"}
                          /\ f = Imported(mov, into)
                          /\ g = [d \in Docs |-> SumOver(into[d], LotIds)]
    OBVIOUS
  <2>2. IsFiniteSet(S) /\ T \in SUBSET S  BY <2>1, Bounds
  <2>3. IsFiniteSet(T)  BY <2>2, FS_Subset
  <2>4. \A d \in S : f[d] \in Int
    <3> TAKE d \in S
    <3>1. EntryOK(into[d], DOMAIN lots)  BY <2>1 DEF MovementInv, LedgerOK
    <3>2. SumFunctionOnSet(into[d], LotIds) \in Int  BY <3>1, EntrySum
    <3> QED  BY <2>1, <3>2 DEF Imported
  <2>5. \A d \in S \ T : f[d] = 0  BY <2>1 DEF Imported
  <2>6. \A d \in T : f[d] = g[d]  BY <2>1 DEF Imported, SumOver
  <2>7. SumFunctionOnSet(f, S) = SumFunctionOnSet(f, T)
    BY <2>2, <2>4, <2>5, SumNonZero
  <2>8. SumFunctionOnSet(f, T) = SumFunctionOnSet(g, T)  BY <2>3, <2>6, SumSame
  <2>9. debt = SumFunctionOnSet(f, S)  BY <2>1 DEF MovementInv, DebtOK
  <2>10. debt = SumOver(g, T)  BY <2>7, <2>8, <2>9 DEF SumOver
  <2> QED  BY <2>1, <2>10 DEF DebtFollowsGoods
<1> QED  BY <1>1, MovementsFit, PTL

\* A document whose every write was decided on the status it still had has
\* moved what its status says, and no lot got back more than left it.
THEOREM DocumentsAccountForGoods == MovementSpec => []DocumentAccountsForGoods
<1>1. MovementInv => DocumentAccountsForGoods
  <2> SUFFICES ASSUME MovementInv, NEW d \in Docs \ raced
               PROVE  /\ NetOut(d) = NetDue(mov[d])
                      /\ mov[d].type = "TRANSFER" => \A k \in LotIds : into[d][k] <= out[d][k]
    BY DEF DocumentAccountsForGoods
  <2>1. Accounts(mov[d], out[d], into[d])  BY DEF MovementInv, UnracedOK
  <2> QED  BY <2>1 DEF Accounts, NetOut, SumOver
<1> QED  BY <1>1, MovementsFit, PTL

=============================================================================
