------------------------- MODULE ProductionRequest --------------------------
(***************************************************************************)
(* One production request (YCSX) to a workshop, its lines, the workshop's  *)
(* delivery notes, the imports made for it and the workshop's debt.        *)
(*                                                                         *)
(* A status change is read-check-claim: SetStatusRead, SetStatusCommit.    *)
(* A receipt (receiveGoods, the only door goods come in by) is three       *)
(* actions, because its transaction decides the new status from rows       *)
(* another open transaction may be changing: ReceiveRead checks unlocked   *)
(* rows, ReceiveWrite claims the note, bumps the lines (rows locked until  *)
(* the end) and counts them as READ COMMITTED shows them, ReceiveCommit    *)
(* writes the status so decided, charges the workshop and commits. Nothing *)
(* between the bump and the count is seen by others, and a commit of       *)
(* theirs in between commutes with the bump, so the two are one action.    *)
(* Endpoints whose claim repeats every check are one action.               *)
(*                                                                         *)
(* A unit costs 1, so an amount is a number of good units. Roles and       *)
(* locations only refuse; they are left out, and so are payments to the    *)
(* workshop and its other requests.                                        *)
(***************************************************************************)
EXTENDS Naturals, FiniteSets, FiniteSetsExt, Functions

CONSTANTS Lines,        \* ids of the lines a request can have
          MaxQty,       \* bound: units ordered on one line
          Notes,        \* ids of delivery notes (bound: their number)
          CreditLimit,  \* the workshop's credit limit, 0 = none
          Requests      \* concurrent HTTP requests

Direct == "direct"      \* the source of a receipt without a delivery note

ASSUME ProductionAssumption ==
  /\ IsFiniteSet(Lines)
  /\ MaxQty \in Nat /\ CreditLimit \in Nat
  /\ IsFiniteSet(Notes) /\ Direct \notin Notes

VARIABLES status,    \* production_requests.status, REMOVED once deleted
          ordered,   \* quantity of a line, 0 = no such line
          received,  \* receivedQuantity of a line
          note,      \* delivery notes: status and the quantities sent
          imported,  \* units put into stock, by the note they came with
          debt,      \* suppliers.outstandingDebt
          req        \* what each open request has read or written

vars == <<status, ordered, received, note, imported, debt, req>>

NoUnits == [l \in Lines |-> 0]
Quantities == [Lines -> 0..MaxQty]
Total(q) == MapThenSumSet(LAMBDA l : q[l], Lines)

ReceivableStatuses == {"SENT", "PARTIALLY_RECEIVED"}
FinalStatuses == {"COMPLETED", "CANCELLED"}

Idle == [op |-> "idle"]
Open(r, x) == req' = [req EXCEPT ![r] = x]
Done(r) == Open(r, Idle)

\* Units still on delivery notes nobody has counted.
PendingNotes == {d \in Notes : note[d].status = "PENDING"}
Pending == [l \in Lines |-> MapThenSumSet(LAMBDA d : note[d].sent[l],
                                          PendingNotes)]

-----------------------------------------------------------------------------
(* PATCH, add item, DELETE: the claim repeats the DRAFT check *)

DraftUnclaimed == TRUE   \* an edit that forgets the claim
DraftClaim == status = "DRAFT"

Update == /\ DraftClaim
          /\ ordered' \in Quantities \ {NoUnits}
          /\ UNCHANGED <<status, received, note, imported, debt, req>>

AddItem(l, quantity) ==
  /\ status = "DRAFT"
  /\ ordered[l] + quantity <= MaxQty
  /\ ordered' = [ordered EXCEPT ![l] = @ + quantity]
  /\ UNCHANGED <<status, received, note, imported, debt, req>>

Remove == /\ status = "DRAFT"
          /\ status' = "REMOVED"
          /\ UNCHANGED <<ordered, received, note, imported, debt, req>>

-----------------------------------------------------------------------------
(* PATCH /production-requests/:id/status *)

\* manualTransitionViolation; a request with receipts is closed short, not
\* cancelled.
ManualTransition(to) ==
  \/ to = "SENT" /\ status = "DRAFT"
  \/ to = "CANCELLED" /\ status \notin FinalStatuses /\ received = NoUnits
  \/ to = "COMPLETED" /\ status = "PARTIALLY_RECEIVED"

SetStatusRead(r, to) ==
  /\ req[r] = Idle
  /\ status # "REMOVED"
  /\ to \in FinalStatuses => PendingNotes = {}
  /\ ManualTransition(to)
  /\ to = "SENT" => ordered # NoUnits
  /\ Open(r, [op |-> "setStatus", from |-> status, to |-> to])
  /\ UNCHANGED <<status, ordered, received, note, imported, debt>>

\* The claim on the status that was judged, and a wrong variant without it.
StatusUnclaimed(seen) == status # "REMOVED"
StatusClaim(seen) == status = seen.from

SetStatusCommit(r) ==
  /\ req[r].op = "setStatus"
  /\ StatusClaim(req[r])
  /\ status' = req[r].to
  /\ Done(r)
  /\ UNCHANGED <<ordered, received, note, imported, debt>>

-----------------------------------------------------------------------------
(* Delivery notes *)

\* The request row is locked while the room left is computed.
CreateNote(d) ==
  /\ note[d].status = "NONE"
  /\ status \in ReceivableStatuses
  /\ \E sent \in Quantities \ {NoUnits} :
       /\ \A l \in Lines : sent[l] + received[l] + Pending[l] <= ordered[l]
       /\ note' = [note EXCEPT ![d] = [status |-> "PENDING", sent |-> sent]]
  /\ UNCHANGED <<status, ordered, received, imported, debt, req>>

\* A receipt holds the row locks of its note and of its lines.
Receiving == {r \in Requests : req[r].op = "receiving"}
NoteLocked(d) == \E r \in Receiving : req[r].source = d
LineLocked(l) == \E r \in Receiving : req[r].qty[l] > 0

\* By the workshop or by the location; a receipt under way is waited for.
CancelNote(d) ==
  /\ note[d].status = "PENDING"
  /\ ~NoteLocked(d)
  /\ note' = [note EXCEPT ![d].status = "CANCELLED"]
  /\ UNCHANGED <<status, ordered, received, imported, debt, req>>

-----------------------------------------------------------------------------
(* receiveGoods *)

\* assertCreditHeadroom reads the debt unlocked; charge checks it again after
\* the increment. The wrong variant trusts the first check.
WithinCredit(owed) == CreditLimit = 0 \/ owed <= CreditLimit
ChargeTrusted(amount) == TRUE
CanCharge(amount) == WithinCredit(debt + amount)

ReceiveRead(r, source) ==
  /\ req[r] = Idle
  /\ status \in ReceivableStatuses
  /\ source # Direct => note[source].status = "PENDING"
  /\ \E qty \in Quantities \ {NoUnits} :
       /\ \A l \in Lines :
            /\ received[l] + qty[l] <= ordered[l]
            /\ source # Direct => qty[l] <= note[source].sent[l]
       /\ \E amount \in 0..Total(qty) :
            /\ WithinCredit(debt + amount)
            /\ Open(r, [op |-> "receive", source |-> source, qty |-> qty,
                        amount |-> amount])
  /\ UNCHANGED <<status, ordered, received, note, imported, debt>>

\* The note must still be pending; a wrong variant forgets that. The ceiling
\* of a line is in the WHERE of its increment; a wrong variant only has the
\* early check.
NoteUnclaimed(source) == TRUE
NoteClaim(source) == source # Direct => /\ note[source].status = "PENDING"
                                        /\ ~NoteLocked(source)
NoCeiling(qty) == \A l \in Lines : qty[l] > 0 => ~LineLocked(l)
UnderCeiling(qty) ==
  \A l \in Lines : qty[l] > 0 => /\ ~LineLocked(l)
                                 /\ received[l] + qty[l] <= ordered[l]

\* statusAfterReceipt of the lines this transaction sees.
StatusAfterReceipt(got) ==
  IF \A l \in Lines : got[l] >= ordered[l] THEN "COMPLETED"
                                           ELSE "PARTIALLY_RECEIVED"

ReceiveWrite(r) ==
  LET seen == req[r]
      got == [l \in Lines |-> received[l] + seen.qty[l]]
  IN /\ seen.op = "receive"
     /\ NoteClaim(seen.source)
     /\ UnderCeiling(seen.qty)
     /\ Open(r, [op |-> "receiving", source |-> seen.source,
                 qty |-> seen.qty, amount |-> seen.amount,
                 next |-> StatusAfterReceipt(got)])
     /\ UNCHANGED <<status, ordered, received, note, imported, debt>>

ReceiveCommit(r) ==
  LET seen == req[r] IN
  /\ seen.op = "receiving"
  /\ CanCharge(seen.amount)
  /\ status' = seen.next
  /\ received' = [l \in Lines |-> received[l] + seen.qty[l]]
  /\ imported' = [imported EXCEPT ![seen.source] =
                    [l \in Lines |-> @[l] + seen.qty[l]]]
  /\ note' = IF seen.source = Direct THEN note
             ELSE [note EXCEPT ![seen.source].status = "RECEIVED"]
  /\ debt' = debt + seen.amount
  /\ Done(r)
  /\ UNCHANGED ordered

\* A lost claim, an error, a deadlock or a crash rolls the transaction back.
Abandon(r) == /\ req[r] # Idle
              /\ Done(r)
              /\ UNCHANGED <<status, ordered, received, note, imported, debt>>

-----------------------------------------------------------------------------
Init == /\ status = "DRAFT"
        /\ ordered \in Quantities \ {NoUnits}
        /\ received = NoUnits
        /\ note = [d \in Notes |-> [status |-> "NONE", sent |-> NoUnits]]
        /\ imported = [source \in Notes \cup {Direct} |-> NoUnits]
        /\ debt = 0
        /\ req = [r \in Requests |-> Idle]

Next ==
  \/ Update \/ Remove
  \/ \E l \in Lines, quantity \in 1..MaxQty : AddItem(l, quantity)
  \/ \E r \in Requests :
       \/ \E to \in {"SENT", "CANCELLED", "COMPLETED"} : SetStatusRead(r, to)
       \/ SetStatusCommit(r)
       \/ \E source \in Notes \cup {Direct} : ReceiveRead(r, source)
       \/ ReceiveWrite(r) \/ ReceiveCommit(r)
       \/ Abandon(r)
  \/ \E d \in Notes : CreateNote(d) \/ CancelNote(d)

Spec == Init /\ [][Next]_vars

-----------------------------------------------------------------------------
(* Properties *)

Receipts == [op : {"receive"}, source : Notes \cup {Direct},
             qty : Quantities, amount : Nat]

RequestTypeOK(x) ==
  \/ x = Idle
  \/ /\ x.op = "setStatus"
     /\ x.from \in {"DRAFT", "SENT", "PARTIALLY_RECEIVED"}
     /\ x.to \in {"SENT", "CANCELLED", "COMPLETED"}
  \/ x \in Receipts
  \/ /\ x.op = "receiving"
     /\ [op |-> "receive", source |-> x.source, qty |-> x.qty,
         amount |-> x.amount] \in Receipts
     /\ x.next \in {"PARTIALLY_RECEIVED", "COMPLETED"}

\* Every row keeps to its columns' values and no line is counted past what
\* the largest order can ask for.
TypeOK ==
  /\ status \in {"DRAFT", "REMOVED"} \cup ReceivableStatuses \cup FinalStatuses
  /\ ordered \in Quantities
  /\ received \in Quantities
  /\ note \in [Notes -> [status : {"NONE", "PENDING", "RECEIVED", "CANCELLED"},
                         sent : Quantities]]
  /\ imported \in [Notes \cup {Direct} -> [Lines -> Nat]]
  /\ debt \in Nat
  /\ DOMAIN req = Requests
  /\ \A r \in Requests : RequestTypeOK(req[r])

\* Two receivers who each saw room on a line never count it past what was
\* ordered: the ceiling is in the increment.
ReceivedWithinOrder == \A l \in Lines : received[l] <= ordered[l]

\* A delivery note becomes stock once, whoever confirms it together with
\* whom, and for no more than the workshop sent: a note not RECEIVED brought
\* nothing, and every unit received is in stock under some source.
NoteCountedOnce ==
  /\ \A d \in Notes :
       /\ note[d].status # "RECEIVED" => imported[d] = NoUnits
       /\ \A l \in Lines : imported[d][l] <= note[d].sent[l]
  /\ \A l \in Lines :
       received[l] = SumFunctionOnSet([s \in Notes \cup {Direct} |-> imported[s][l]],
                                      Notes \cup {Direct})

\* Receipts that were each within the workshop's credit never exceed it
\* together: charge checks after its increment.
DebtWithinLimit == WithinCredit(debt)

\* Goods have come in exactly when the status says so: a request cancelled
\* while a receipt was under way never loses track of what was received.
StatusShowsReceipts ==
  received # NoUnits <=> status \in {"PARTIALLY_RECEIVED", "COMPLETED"}

\* The rows, read and written by overlapping requests, keep what shop and
\* workshop agreed (WorkshopAgreement).
Agreement == INSTANCE WorkshopAgreement WITH Worth <- [q \in Quantities |-> Total(q)]
AgreementSpec == Agreement!Spec

\* Once the workshop was called the lines are fixed, whoever still had the
\* draft open.
LinesFixedOnceSent ==
  [][status # "DRAFT" => ordered' = ordered]_vars

-----------------------------------------------------------------------------
(* What the repository's comments say and the code does not keep *)

\* production-request-status.ts:41: no status takes a request out of the
\* final group.
FinalIsFinal == [][(status \in FinalStatuses) => status' = status]_vars

\* production-request-rules.ts:71: after a receipt a request is COMPLETED
\* when every line has what was ordered.
FullyReceivedIsCompleted ==
  (received = ordered /\ received # NoUnits) => status = "COMPLETED"
=============================================================================
