---------------------------- MODULE OrderReturns ----------------------------
(***************************************************************************)
(* The returns (OrderReturn) of one order whose goods have left stock,     *)
(* with the order's lines, its shipment, its sale invoice and the lots its *)
(* goods were drawn from.                                                  *)
(*                                                                         *)
(* create reads the order and what open returns reserve with no lock and   *)
(* writes later: CreateRead, CreateCommit. inspect is one transaction in   *)
(* which nothing of the order is locked until it is written, so it is      *)
(* several actions: InspectStart claims the return; for each line PlanLine *)
(* reads which lots the goods left and BumpLine raises returnedQuantity    *)
(* (the line stays locked); SettleRead looks at the order; InspectCommit   *)
(* writes the order, the shipment and the adjustment, and commits.         *)
(* confirmFailedDelivery is create, receive and inspect in one request and *)
(* three transactions: a crash may come between them.                      *)
(*                                                                         *)
(* Completing the order issues its invoice from lines read inside that     *)
(* transaction: CompleteClaim, CompleteCommit, whichever endpoint does it. *)
(*                                                                         *)
(* Where goods go back to (a sellable location, or the damaged-goods one)  *)
(* only decides refusals and is left out, as are roles; POS refunds and    *)
(* the money given back are not part of returns in this code.              *)
(***************************************************************************)
EXTENDS Naturals, FiniteSets, FiniteSetsExt, Functions

CONSTANTS Lines,     \* the shipped lines of the order
          NLots,     \* lots the goods of a line can come from
          Drawn,     \* [Lines -> [Lots -> Nat]], units drawn from each lot
          MaxQty,    \* bound: units of one line
          Sold,      \* quantity of each line
          Returns,   \* ids of returns (bound: their number)
          Requests   \* concurrent HTTP requests

Lots == 1..NLots

ASSUME ReturnsAssumption ==
  /\ IsFiniteSet(Lines) /\ Lines # {}
  /\ NLots \in Nat
  /\ Drawn \in [Lines -> [Lots -> Nat]]
  /\ MaxQty \in Nat /\ Sold \in [Lines -> 1..MaxQty]
  /\ \A l \in Lines : SumFunctionOnSet(Drawn[l], Lots) = Sold[l]
  /\ IsFiniteSet(Returns)

VARIABLES
  status,            \* orders.status, from SHIPPING on
  ship,              \* the order's shipment, NONE for a counter pickup
  returned,          \* returnedQuantity of a line
  back,              \* units the ledger brought back into each lot
  ret,               \* order_returns: status and quantities
  invoice,           \* status of the live sale invoice
  billed, adjusted,  \* quantities on it, and on its adjustments
  req                \* what each open request has read or written

orderVars == <<status, ship>>
lineVars == <<returned, back>>
billVars == <<invoice, billed, adjusted>>
vars == <<orderVars, lineVars, ret, billVars, req>>

Journey == INSTANCE OrderLifecycle WITH goods <- "LEFT"

ReturnableOrderStatuses == {"SHIPPING", "RECEIVED", "COMPLETED"}
OpenReturnStatuses == {"REQUESTED", "INSPECTING"}
OnTheRoad == {"IN_TRANSIT", "FAILED"}

NoUnits == [l \in Lines |-> 0]
NoSlices == [l \in Lines |-> [k \in Lots |-> 0]]
Idle == [op |-> "idle"]
Open(r, x) == req' = [req EXCEPT ![r] = x]
Done(r) == Open(r, Idle)

-----------------------------------------------------------------------------
(* Row locks held by transactions under way *)

Inspecting == {r \in Requests : req[r].op \in {"inspect", "settle"}}
LinesOf(d) == {l \in Lines : ret[d].qty[l] > 0}
Bumped(r) == IF req[r].op \in {"inspect", "settle"}
             THEN LinesOf(req[r].ret) \ req[r].todo ELSE {}

ReturnLocked(d) == \E r \in Inspecting : req[r].ret = d
LineLocked(l) == \E r \in Requests : l \in Bumped(r)
OrderLocked == \E r \in Requests : req[r].op = "complete"
ShipLocked == \E r \in Requests : req[r].op = "complete"
                                  /\ req[r].from = "SHIPPING"

-----------------------------------------------------------------------------
(* POST /order-returns *)

OpenReturns == {d \in Returns : ret[d].status \in OpenReturnStatuses}
Reserved(l) == MapThenSumSet(LAMBDA d : ret[d].qty[l], OpenReturns)
LeftToReturn(l) == Sold[l] - returned[l]

\* A line may be returned within what is left and not reserved by open returns.
WithinLeft(qty) == \A l \in Lines :
                     qty[l] > 0 => qty[l] + Reserved(l) <= LeftToReturn(l)

CreateRead(r) ==
  /\ req[r] = Idle
  /\ status \in ReturnableOrderStatuses
  /\ \E qty \in [Lines -> 0..MaxQty] \ {NoUnits} :
       /\ WithinLeft(qty)
       /\ Open(r, [op |-> "create", qty |-> qty, failed |-> FALSE])
  /\ UNCHANGED <<orderVars, lineVars, ret, billVars>>

\* confirmFailedDelivery asks for everything still out.
FailedRead(r) ==
  /\ req[r] = Idle
  /\ ship = "FAILED" /\ status = "SHIPPING"
  /\ LET left == [l \in Lines |-> LeftToReturn(l)] IN
       /\ left # NoUnits
       /\ WithinLeft(left)
       /\ Open(r, [op |-> "create", qty |-> left, failed |-> TRUE])
  /\ UNCHANGED <<orderVars, lineVars, ret, billVars>>

CreateCommit(r) ==
  LET seen == req[r] IN
  /\ seen.op = "create"
  /\ \E d \in Returns :
       /\ ret[d].status = "NONE"
       /\ ret' = [ret EXCEPT ![d] = [status |-> "REQUESTED", qty |-> seen.qty]]
       /\ IF seen.failed THEN Open(r, [op |-> "failed", ret |-> d]) ELSE Done(r)
  /\ UNCHANGED <<orderVars, lineVars, billVars>>

\* POST /:id/receive and /:id/cancel repeat their check in the claim.
Receive(d) == /\ ret[d].status = "REQUESTED"
              /\ ret' = [ret EXCEPT ![d].status = "INSPECTING"]
              /\ UNCHANGED <<orderVars, lineVars, billVars, req>>

CancelReturn(d) == /\ ret[d].status \in OpenReturnStatuses
                   /\ ~ReturnLocked(d)
                   /\ ret' = [ret EXCEPT ![d].status = "CANCELLED"]
                   /\ UNCHANGED <<orderVars, lineVars, billVars, req>>

FailedReceive(r) ==
  /\ req[r].op = "failed"
  /\ ret[req[r].ret].status = "REQUESTED"
  /\ ret' = [ret EXCEPT ![req[r].ret].status = "INSPECTING"]
  /\ Open(r, [op |-> "received", ret |-> req[r].ret])
  /\ UNCHANGED <<orderVars, lineVars, billVars>>

-----------------------------------------------------------------------------
(* POST /:id/inspect *)

\* The return is claimed before anything else; a wrong variant only looked.
ReturnUnclaimed(d) == ret[d].status \in {"INSPECTING", "COMPLETED"}
ReturnClaim(d) == ret[d].status = "INSPECTING" /\ ~ReturnLocked(d)

Inspection(d, failed, todo, at, slices) ==
    [op |-> "inspect", ret |-> d, failed |-> failed,
     todo |-> todo, at |-> at, slices |-> slices]

Started(d, failed) == Inspection(d, failed, LinesOf(d), {}, NoSlices)

InspectStart(r) ==
  /\ \E d \in Returns :
       /\ ReturnClaim(d)
       /\ \/ req[r] = Idle /\ Open(r, Started(d, FALSE))
          \/ req[r] = [op |-> "received", ret |-> d]
             /\ Open(r, Started(d, TRUE))
  /\ UNCHANGED <<orderVars, lineVars, ret, billVars>>

\* planReturn: into the lots in the order they were drawn, each up to what it
\* still misses according to the ledger.
Missing(l, k) == IF Drawn[l][k] > back[l][k] THEN Drawn[l][k] - back[l][k] ELSE 0
MissingBefore(l, k) == SumFunctionOnSet([j \in Lots |-> Missing(l, j)], 1..(k - 1))
PlanReturn(l, q) ==
  [k \in Lots |->
     IF MissingBefore(l, k) >= q THEN 0
     ELSE Min({Missing(l, k), q - MissingBefore(l, k)})]

\* returnDrawn: reads the ledger with no lock. It refuses more than is out.
PlanLine(r) ==
  LET seen == req[r] IN
  /\ seen.op = "inspect" /\ seen.at = {}
  /\ \E l \in seen.todo :
       /\ ret[seen.ret].qty[l] <= MissingBefore(l, NLots + 1)
       /\ Open(r, Inspection(seen.ret, seen.failed, seen.todo, {l},
                    [seen.slices EXCEPT
                       ![l] = PlanReturn(l, ret[seen.ret].qty[l])]))
  /\ UNCHANGED <<orderVars, lineVars, ret, billVars>>

\* The ceiling is in the WHERE of the increment; a wrong variant increments.
BumpUnbounded(l, q) == ~LineLocked(l)
UnderSold(l, q) == ~LineLocked(l) /\ returned[l] + q <= Sold[l]

BumpLine(r) ==
  LET seen == req[r] IN
  /\ seen.op = "inspect"
  /\ \E l \in seen.at :
       /\ UnderSold(l, ret[seen.ret].qty[l])
       /\ Open(r, Inspection(seen.ret, seen.failed, seen.todo \ {l}, {},
                             seen.slices))
  /\ UNCHANGED <<orderVars, lineVars, ret, billVars>>

\* settleOrder reads the order as this transaction sees it: what others have
\* committed and what it wrote itself. Wrong variant: one line is enough.
ReturnedWith(d) == [l \in Lines |-> returned[l] + ret[d].qty[l]]
SomeBack(got) == \E l \in Lines : got[l] = Sold[l]
AllBack(got) == \A l \in Lines : got[l] = Sold[l]

SettleRead(r) ==
  LET seen == req[r] IN
  /\ seen.op = "inspect" /\ seen.at = {} /\ seen.todo = {}
  /\ Open(r, [op |-> "settle", ret |-> seen.ret, failed |-> seen.failed,
              todo |-> {}, slices |-> seen.slices, from |-> status,
              moves |-> AllBack(ReturnedWith(seen.ret))
                        /\ Journey!CanTransition(status, "RETURNED")])
  /\ UNCHANGED <<orderVars, lineVars, ret, billVars>>

\* voidPending, then adjustForReturn on what is left of the sale invoice: an
\* ISSUED one gets an adjustment, a PENDING one will subtract the return when
\* it is issued. A wrong variant adjusts the whole line.
VoidedBy(moves) == IF moves /\ invoice = "PENDING" THEN "CANCELLED" ELSE invoice
AdjustWhole(qty) == [l \in Lines |-> IF qty[l] > 0 THEN billed[l] ELSE adjusted[l]]
AdjustForReturn(qty) == [l \in Lines |-> adjusted[l] + Min({qty[l], billed[l]})]

\* The order row is written only if it still is in the status that was read;
\* losing that race is not an error.
InspectCommit(r) ==
  LET seen == req[r]
      d == seen.ret
      settles == seen.moves /\ status = seen.from
  IN /\ seen.op = "settle"
     /\ settles => ~OrderLocked
     /\ status' = IF settles THEN "RETURNED" ELSE status
     /\ IF seen.failed
        THEN ship = "FAILED" /\ ~ShipLocked /\ ship' = "RETURNED"
        ELSE UNCHANGED ship
     /\ returned' = ReturnedWith(d)
     /\ back' = [l \in Lines |-> [k \in Lots |->
                                    back[l][k] + seen.slices[l][k]]]
     /\ ret' = [ret EXCEPT ![d].status = "COMPLETED"]
     /\ invoice' = VoidedBy(seen.moves)
     /\ adjusted' = IF invoice = "ISSUED" THEN AdjustForReturn(ret[d].qty)
                    ELSE adjusted
     /\ Done(r)
     /\ UNCHANGED billed

\* A refused claim, an error, a deadlock or a crash ends the request and rolls
\* back the transaction it was in.
Abandon(r) == /\ req[r] # Idle
              /\ Done(r)
              /\ UNCHANGED <<orderVars, lineVars, ret, billVars>>

-----------------------------------------------------------------------------
(* The rest of the journey, as far as a return meets it *)

\* deliver with money to collect.
Arrive == /\ status = "SHIPPING" /\ ship \in OnTheRoad
          /\ ~OrderLocked
          /\ status' = "RECEIVED" /\ ship' = "DELIVERED"
          /\ UNCHANGED <<lineVars, ret, billVars, req>>

\* fail, and a new attempt (addEvent).
Attempt(to) == /\ status = "SHIPPING" /\ ship \in OnTheRoad \ {to}
               /\ ~OrderLocked
               /\ ship' = to
               /\ UNCHANGED <<status, lineVars, ret, billVars, req>>

\* deliver with nothing due, confirm-remittance and the webhook complete the
\* order. The claim locks the order (and the shipment); a wrong variant
\* completes any order.
CompleteAny(from) == ~OrderLocked
CompletesFrom(from) == status = from /\ ~OrderLocked

CompleteClaim(r) ==
  /\ req[r] = Idle
  /\ \E from \in {"SHIPPING", "RECEIVED"} :
       /\ CompletesFrom(from)
       /\ from = "SHIPPING" => ship \in OnTheRoad
       /\ Open(r, [op |-> "complete", from |-> from, invoice |-> invoice,
                   keep |-> [l \in Lines |-> LeftToReturn(l)]])
  /\ UNCHANGED <<orderVars, lineVars, ret, billVars>>

\* issueForOrder: a PENDING invoice is claimed, and if another transaction
\* took it meanwhile nothing is written; without a live one a new one is made.
Issues(seen) == \/ seen.invoice = "PENDING" /\ invoice = "PENDING"
                \/ seen.invoice = "CANCELLED"

CompleteCommit(r) ==
  LET seen == req[r] IN
  /\ seen.op = "complete"
  /\ status' = "COMPLETED"
  /\ ship' = IF seen.from = "SHIPPING" THEN "DELIVERED" ELSE ship
  /\ IF Issues(seen)
     THEN invoice' = "ISSUED" /\ billed' = seen.keep
     ELSE UNCHANGED <<invoice, billed>>
  /\ Done(r)
  /\ UNCHANGED <<lineVars, ret, adjusted>>

-----------------------------------------------------------------------------
\* A delivery that has just set out, or a pickup that was handed over.
Init ==
  /\ \/ /\ status = "SHIPPING" /\ ship = "IN_TRANSIT"
        /\ invoice = "PENDING" /\ billed = NoUnits
     \/ /\ status = "COMPLETED" /\ ship = "NONE"
        /\ invoice = "ISSUED" /\ billed = Sold
  /\ returned = NoUnits
  /\ back = NoSlices
  /\ ret = [d \in Returns |-> [status |-> "NONE", qty |-> NoUnits]]
  /\ adjusted = NoUnits
  /\ req = [r \in Requests |-> Idle]

Next ==
  \/ \E r \in Requests :
       \/ CreateRead(r) \/ FailedRead(r) \/ CreateCommit(r) \/ FailedReceive(r)
       \/ InspectStart(r) \/ PlanLine(r) \/ BumpLine(r)
       \/ SettleRead(r) \/ InspectCommit(r)
       \/ CompleteClaim(r) \/ CompleteCommit(r)
       \/ Abandon(r)
  \/ \E d \in Returns : Receive(d) \/ CancelReturn(d)
  \/ Arrive
  \/ \E to \in OnTheRoad : Attempt(to)

Spec == Init /\ [][Next]_vars

-----------------------------------------------------------------------------
(* Properties *)

Units == [Lines -> Nat]
Slices == [Lines -> [Lots -> Nat]]

RequestTypeOK(x) ==
  \/ x = Idle
  \/ x \in [op : {"create"}, qty : Units, failed : BOOLEAN]
  \/ x \in [op : {"failed", "received"}, ret : Returns]
  \/ x \in [op : {"inspect"}, ret : Returns, failed : BOOLEAN,
            todo : SUBSET Lines, at : SUBSET Lines, slices : Slices]
  \/ x \in [op : {"settle"}, ret : Returns, failed : BOOLEAN,
            todo : {{}}, slices : Slices, moves : BOOLEAN,
            from : ReturnableOrderStatuses \cup {"RETURNED"}]
  \/ x \in [op : {"complete"}, from : {"SHIPPING", "RECEIVED"},
            invoice : {"PENDING", "ISSUED", "CANCELLED"}, keep : Units]

\* Every row keeps to its columns' values, and no line has more back than
\* was sold.
TypeOK ==
  /\ status \in ReturnableOrderStatuses \cup {"RETURNED"}
  /\ ship \in OnTheRoad \cup {"NONE", "DELIVERED", "RETURNED"}
  /\ returned \in Units
  /\ \A l \in Lines : returned[l] <= Sold[l]
  /\ back \in Slices
  /\ ret \in [Returns -> [status : OpenReturnStatuses
                                   \cup {"NONE", "COMPLETED", "CANCELLED"},
                          qty : Units]]
  /\ invoice \in {"PENDING", "ISSUED", "CANCELLED"}
  /\ billed \in Units /\ adjusted \in Units
  /\ DOMAIN req = Requests
  /\ \A r \in Requests : RequestTypeOK(req[r])

\* Each unit comes back once: what a line has back is what its settled
\* returns say, never more than was sold, and the ledger put as many units
\* into lots, although inspections of the same line plan from the same
\* ledger and returns are created past each other's reservations.
UnitsComeBackOnce ==
  \A l \in Lines :
    /\ returned[l] <= Sold[l]
    /\ returned[l] = SumFunctionOnSet([d \in Returns |-> ret[d].qty[l]],
                                      {d \in Returns : ret[d].status = "COMPLETED"})
    /\ returned[l] = SumFunctionOnSet(back[l], Lots)

\* RETURNED means everything is back and no invoice will be issued any more,
\* and a shipment closed as RETURNED brought everything back too.
ReturnedIsAllBack ==
  /\ status = "RETURNED" => invoice # "PENDING"
  /\ status = "RETURNED" \/ ship = "RETURNED"
       => \A l \in Lines : returned[l] = Sold[l]

\* The invoice never bills less than the customer keeps, and adjustments
\* never take back more than was billed, however returns and the completion
\* of the order interleave.
BillCoversWhatIsKept ==
  invoice = "ISSUED" =>
    \A l \in Lines : /\ adjusted[l] <= billed[l]
                     /\ Sold[l] - returned[l] <= billed[l] - adjusted[l]

\* Returns and completion together move the order only along the journey
\* table: in particular nothing leaves RETURNED.
StatusFollowsTable ==
  [][(status' # status) => Journey!CanTransition(status, status')]_vars

-----------------------------------------------------------------------------
(* What the repository's comments say and the code does not keep *)

\* invoices.service.ts:162: a return of an ISSUED invoice is adjusted and
\* issuing a PENDING one subtracts what was returned. So an issued invoice,
\* with its adjustments, bills exactly what was kept.
BillFollowsReturns ==
  invoice = "ISSUED" =>
    \A l \in Lines : billed[l] - adjusted[l] = Sold[l] - returned[l]
=============================================================================
