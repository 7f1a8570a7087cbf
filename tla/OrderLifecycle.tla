--------------------------- MODULE OrderLifecycle ---------------------------
(***************************************************************************)
(* What the journey of a non-POS order promises, whoever presses which     *)
(* button: the order only moves along the journey table, the goods are     *)
(* locked while it waits, leave the warehouse once and in one step with    *)
(* the status that says so, and the sale invoice is issued exactly when    *)
(* the order completes and withdrawn exactly when it is cancelled.         *)
(*                                                                         *)
(* This is the abstract specification. OrderJourney, which has the rows,   *)
(* the transactions and the stale reads, is shown to implement it.         *)
(***************************************************************************)
EXTENDS FiniteSets

VARIABLES status,   \* Order.status
          goods,    \* where the packed goods are: SHELF, LOCKED or LEFT
          invoice   \* Invoice.status of the order's one sale invoice

vars == <<status, goods, invoice>>

\* order-status.ts, ORDER_JOURNEY_TRANSITIONS.
JourneyTransitions ==
    [PENDING_CONFIRMATION |-> {"CONFIRMED", "CANCELLED"},
     CONFIRMED            |-> {"PACKED", "CANCELLED"},
     PACKED               |-> {"PICKED_UP", "COMPLETED", "CANCELLED"},
     PICKED_UP            |-> {"SHIPPING", "CANCELLED"},
     SHIPPING             |-> {"RECEIVED", "COMPLETED", "RETURNED"},
     RECEIVED             |-> {"COMPLETED", "RETURNED"},
     COMPLETED            |-> {"RETURNED"},
     RETURNED             |-> {},
     CANCELLED            |-> {}]

JourneyStatuses == DOMAIN JourneyTransitions

CanTransition(from, to) == to \in JourneyTransitions[from]

TypeOK == /\ status \in JourneyStatuses
          /\ goods \in {"SHELF", "LOCKED", "LEFT"}
          /\ invoice \in {"PENDING", "ISSUED", "CANCELLED"}

Init == /\ status = "CONFIRMED"
        /\ goods = "SHELF"
        /\ invoice = "PENDING"

Move(to) == CanTransition(status, to) /\ status' = to

Pack == /\ Move("PACKED")
        /\ goods' = "LOCKED"
        /\ UNCHANGED invoice

HandToCarrier == Move("PICKED_UP") /\ UNCHANGED <<goods, invoice>>

SetOut == /\ Move("SHIPPING")
          /\ goods' = "LEFT"
          /\ UNCHANGED invoice

ArriveUnpaid == Move("RECEIVED") /\ UNCHANGED <<goods, invoice>>

\* A delivery completes with the goods already gone; a counter hand-over
\* takes them off the shelf in the same step.
Complete == /\ Move("COMPLETED")
            /\ goods' = "LEFT"
            /\ invoice' = "ISSUED"

Cancel == /\ Move("CANCELLED")
          /\ goods' = "SHELF"
          /\ invoice' = "CANCELLED"

Next == Pack \/ HandToCarrier \/ SetOut \/ ArriveUnpaid \/ Complete \/ Cancel

Spec == Init /\ [][Next]_vars
=============================================================================
