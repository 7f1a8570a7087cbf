------------------------------ MODULE Handling ------------------------------
(***************************************************************************)
(* Who carries out the steps of a delivery order.                           *)
(*                                                                          *)
(* The routes of these steps have no PermissionsGuard: the services ask     *)
(* orders/order-handler.ts and shipments/shipment-actor.ts, which let the   *)
(* owner through, the order's assignee (for most steps), the driver (for    *)
(* the steps on the road) and whoever holds the step's permission at the    *)
(* place the goods are packed at. That is asked on rows read before the     *)
(* write; the write repeats it for the assignee and the driver, who may be  *)
(* replaced in between. What the steps do to stock and money is in          *)
(* OrderJourney.                                                            *)
(***************************************************************************)
EXTENDS Access

CONSTANT Site  \* the place that sells, packs and sends the order

ASSUME HandlingAssumption == Site \in Places

VARIABLE deal  \* the order and its shipment; the owner and nobody are both None

\* The stages the order goes through, with those of its shipment.
Found == {<<"CONFIRMED", "NONE">>, <<"PACKED", "NONE">>, <<"PACKED", "CREATED">>,
           <<"PICKED_UP", "PICKED_UP">>, <<"SHIPPING", "IN_TRANSIT">>}

Unshipped == {"CONFIRMED", "PACKED", "PICKED_UP"}
OnTheRoad == {"IN_TRANSIT", "OUT_FOR_DELIVERY", "FAILED"}

\* Bound: the order is found at any of these stages.
HandlingInit ==
  \E stage \in Found, assignee, driver \in Employees \cup {None} :
    /\ stage[2] = "NONE" => driver = None
    /\ deal = [status |-> stage[1], assignee |-> assignee, carrier |-> "INTERNAL",
               shipment |-> stage[2], driver |-> driver]

------------------------------------------------------------------------------
(* order-handler.ts and shipment-actor.ts *)

\* OrderStepPermission: the permission of each step, and the steps the assignee
\* may take without it.
StepPermission == [pack |-> "orders:pack", handOver |-> "shipments:create",
                   changeDriver |-> "shipments:update", log |-> "shipments:update",
                   fail |-> "shipments:update", ship |-> "orders:ship"]
AssigneeSteps == {"pack", "handOver", "changeDriver", "log", "fail"}

Permitted(by, step) == by # Owner /\ post[by] = Site /\ Can(by, StepPermission[step])

\* orderStepAccess.
OrderStepAccess(by, step) ==
  IF by = Owner THEN "OWNER"
  ELSE IF step \in AssigneeSteps /\ deal.assignee = by THEN "ASSIGNEE"
  ELSE IF Permitted(by, step) THEN "PERMISSION" ELSE None

\* trackingActorAccess.
TrackingAccess(by, step) ==
  IF OrderStepAccess(by, step) # None THEN OrderStepAccess(by, step)
  ELSE IF deal.driver = by THEN "DRIVER" ELSE None

\* deliveryActorAccess: nobody confirms for others that the customer has paid.
DeliveryAccess(by) ==
  IF by = Owner THEN "OWNER"
  ELSE IF deal.assignee = by THEN "ASSIGNEE"
  ELSE IF deal.driver = by THEN "DRIVER" ELSE None

AccessTo(by, step) ==
  IF step \in {"log", "fail"} THEN TrackingAccess(by, step)
  ELSE IF step \in {"pickUp", "deliver"} THEN DeliveryAccess(by)
  ELSE OrderStepAccess(by, step)

\* eligibleDriverWhere; the role counts, and the rights of a shift do not.
EligibleDriver(u) ==
  status[u] = "ACTIVE" /\ (u = deal.assignee \/ "shipments:deliver" \in Standing(u))

\* A wrong variant does not look again at who is in charge.
StillTheirsAnyway(x) == TRUE

\* assigneeClaim, and the driver's part of onTheRoadWhere and pickUp.
StillTheirs(x) ==
  /\ x.access = "ASSIGNEE" => deal.assignee = x.by
  /\ x.access = "DRIVER" => deal.driver = x.by

------------------------------------------------------------------------------
(* The steps *)

\* What a step finds, and what it makes of the order.
Steps == DOMAIN StepPermission \cup {"pickUp", "deliver"}
Fits(step) ==
  CASE step = "pack" -> deal.status = "CONFIRMED"
    [] step = "handOver" -> deal.status = "PACKED" /\ deal.shipment = "NONE"
    [] step = "pickUp" -> deal.status = "PACKED" /\ deal.shipment = "CREATED"
    [] step = "changeDriver" -> /\ deal.carrier = "INTERNAL"
                                /\ deal.shipment \in {"CREATED", "PICKED_UP"}
    [] step = "ship" -> deal.status = "PICKED_UP"
    [] step = "log" -> deal.status = "SHIPPING" /\ deal.shipment \in OnTheRoad
    [] step = "fail" -> deal.status = "SHIPPING" /\ deal.shipment \in OnTheRoad \ {"FAILED"}
    [] step = "deliver" -> /\ deal.status = "SHIPPING" /\ deal.shipment \in OnTheRoad
                           /\ deal.carrier = "INTERNAL"

After(x) ==
  CASE x.step = "pack" -> [deal EXCEPT !.status = "PACKED"]
    [] x.step = "handOver" ->
         IF x.driver = None
         THEN [deal EXCEPT !.status = "PICKED_UP", !.carrier = "EXTERNAL", !.shipment = "PICKED_UP"]
         ELSE [deal EXCEPT !.shipment = "CREATED", !.driver = x.driver]
    [] x.step = "pickUp" -> [deal EXCEPT !.status = "PICKED_UP", !.shipment = "PICKED_UP"]
    [] x.step = "changeDriver" -> [deal EXCEPT !.driver = x.driver]
    [] x.step = "ship" -> [deal EXCEPT !.status = "SHIPPING", !.shipment = "IN_TRANSIT"]
    [] x.step = "log" -> [deal EXCEPT !.shipment = "OUT_FOR_DELIVERY"]
    [] x.step = "fail" -> [deal EXCEPT !.shipment = "FAILED"]
    [] x.step = "deliver" -> [deal EXCEPT !.status = "RECEIVED", !.shipment = "DELIVERED"]

\* The driver a step names: a hand-over may go to a carrier, with none.
MayName(step, u) ==
  CASE step = "handOver" -> u # None => EligibleDriver(u)
    [] step = "changeDriver" -> u \notin {None, deal.driver} /\ EligibleDriver(u)
    [] OTHER -> u = None

StepRead(r, by, step, u) ==
  /\ by # Owner => status[by] = "ACTIVE"
  /\ Fits(step) /\ AccessTo(by, step) # None /\ MayName(step, u)
  /\ Begin(r, "step", [op |-> "step", at |-> "write", by |-> by, step |-> step, driver |-> u,
                       access |-> AccessTo(by, step),
                       permitted |-> step \in DOMAIN StepPermission /\ Permitted(by, step)])
  /\ UNCHANGED <<staffVars, rosterVars, accessVars, deal>>

\* The conditional writes of a step, in one transaction; it fails as a whole.
StepWrite(r) ==
  /\ At(r, {"step"}, "write")
  /\ deal' = IF Fits(req[r].step) /\ StillTheirs(req[r])
             THEN After(req[r]) ELSE deal
  /\ req' = Done(r) /\ Frame
  /\ UNCHANGED <<staffVars, rosterVars, accessVars>>

\* setAssignee, within one's branch: somebody active who works there, or the
\* owner; the order must not have left.
AssigneeRead(r, by, u) ==
  /\ Can(by, "orders:update")
  /\ by # Owner => post[by] = Site \/ Can(by, "orders:view_all")
  /\ deal.status \in Unshipped
  /\ u # Owner => status[u] = "ACTIVE" /\ post[u] = Site
  /\ Begin(r, "setAssignee", [op |-> "setAssignee", at |-> "write", user |-> u])
  /\ UNCHANGED <<staffVars, rosterVars, accessVars, deal>>

AssigneeWrite(r) ==
  /\ At(r, {"setAssignee"}, "write")
  /\ deal' = IF deal.status \in Unshipped THEN [deal EXCEPT !.assignee = req[r].user] ELSE deal
  /\ req' = Done(r) /\ Frame
  /\ UNCHANGED <<staffVars, rosterVars, accessVars>>

HandlingNext ==
  \E r \in Requests :
    \/ StepWrite(r) \/ AssigneeWrite(r)
    \/ /\ MayBegin(r, "step")
       /\ \E by, u \in Employees \cup {None}, step \in Steps : StepRead(r, by, step, u)
    \/ /\ MayBegin(r, "setAssignee")
       /\ \E by, u \in Employees \cup {None} : AssigneeRead(r, by, u)

------------------------------------------------------------------------------
\* Whoever replaces the assignee or the driver of an order can be sure that the
\* former one does nothing more with it: a step is written for the owner, for
\* the assignee or the driver of that moment, or for somebody who was allowed it
\* by a permission when it began (order-handler.ts:92, shipment-actor.ts:83);
\* only the first three confirm a pick-up or a delivery, and an assignee alone
\* takes no goods out of stock.
HandledByItsPeople ==
  [][\A r \in Requests :
       req[r].op = "step" /\ deal' # deal /\ req'[r] = Idle =>
         \/ req[r].by \in {Owner} \cup (IF req[r].step = "ship" THEN {} ELSE {deal.assignee})
         \/ req[r].by = deal.driver /\ req[r].step \in {"pickUp", "deliver", "log", "fail"}
         \/ req[r].permitted /\ req[r].step \notin {"pickUp", "deliver"}]_<<deal, req>>
=============================================================================
