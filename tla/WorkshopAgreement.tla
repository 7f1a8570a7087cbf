------------------------- MODULE WorkshopAgreement --------------------------
(***************************************************************************)
(* What a production request promises shop and workshop, whoever presses   *)
(* which button: the lines are the shop's own until the request is sent    *)
(* and fixed from then on; goods come in for lines that are still owed,    *)
(* never more than was ordered, and together with the debt for them, which *)
(* is no more than they are worth and stays within the workshop's credit;  *)
(* a receipt that completes the request is one after which nothing is      *)
(* missing; only a request nothing came in for is cancelled.               *)
(*                                                                         *)
(* This is the abstract specification. ProductionRequest, which has the    *)
(* delivery notes, the transactions and the stale reads, implements it.    *)
(***************************************************************************)
EXTENDS Naturals

CONSTANTS Lines,        \* ids of the lines a request can have
          MaxQty,       \* bound: units ordered on one line
          CreditLimit,  \* the workshop's credit limit, 0 = none
          Worth         \* the price of what some quantities stand for

VARIABLES status,    \* production_requests.status, REMOVED once deleted
          ordered,   \* quantity of a line
          received,  \* units of a line that have come in
          debt       \* what the shop owes for them

vars == <<status, ordered, received, debt>>

NoUnits == [l \in Lines |-> 0]
Quantities == [Lines -> 0..MaxQty]

Init == /\ status = "DRAFT"
        /\ ordered \in Quantities \ {NoUnits}
        /\ received = NoUnits
        /\ debt = 0

Edit == /\ status = "DRAFT"
        /\ ordered' \in Quantities
        /\ UNCHANGED <<status, received, debt>>

\* manualTransitionViolation, and the deletion of a draft.
Move(from, to) == /\ status \in from
                  /\ status' = to
                  /\ UNCHANGED <<ordered, received, debt>>

Remove == Move({"DRAFT"}, "REMOVED")
Send == Move({"DRAFT"}, "SENT")
Cancel == received = NoUnits /\ Move({"DRAFT", "SENT"}, "CANCELLED")
CloseShort == Move({"PARTIALLY_RECEIVED"}, "COMPLETED")

\* Goods under way when the request ends still come in, and the request says
\* so; it is never complete with goods missing unless it was closed short.
Receive(qty) ==
  /\ status \notin {"DRAFT", "REMOVED"}
  /\ \A l \in Lines : received[l] + qty[l] <= ordered[l]
  /\ received' = [l \in Lines |-> received[l] + qty[l]]
  /\ \E amount \in 0..Worth[qty] : debt' = debt + amount
  /\ CreditLimit = 0 \/ debt' <= CreditLimit
  /\ status' \in {"PARTIALLY_RECEIVED", "COMPLETED"}
  /\ status' = "COMPLETED" => received' = ordered
  /\ UNCHANGED ordered

Next == \/ Edit \/ Remove \/ Send \/ Cancel \/ CloseShort
        \/ \E qty \in Quantities \ {NoUnits} : Receive(qty)

Spec == Init /\ [][Next]_vars
=============================================================================
