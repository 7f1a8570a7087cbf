-------------------------- MODULE Workshop_proofs ---------------------------
(***************************************************************************)
(* Proofs about the workshop, for every set of lines, notes, requests and  *)
(* orders and every quantity.                                              *)
(*                                                                         *)
(* ProductionRequest: the invariants are not inductive alone: a receipt    *)
(* under way writes the status and the counts it decided earlier, so       *)
(* IndInv also says what an open request may still write. From it and      *)
(* AgreeInv follows that the rows implement WorkshopAgreement.             *)
(*                                                                         *)
(* WorkshopSupply: SupplyInv adds to the types what each property needs:   *)
(* the goods locked are those of the packed orders (LockedFollows), each   *)
(* request, lot and open call fits the line it is for (Fits), and each row *)
(* that is short in silence is one an alert under way will tell            *)
(* (SilentAwaited).                                                        *)
(***************************************************************************)
EXTENDS ProductionRequest, WorkshopSupply, SumTheorems


\* Moves that manualTransitionViolation lets through. A partly received
\* request has receipts, so cancelling starts from DRAFT or SENT.
ManualMove(from, to) ==
  \/ from = "DRAFT" /\ to = "SENT"
  \/ from \in {"DRAFT", "SENT"} /\ to = "CANCELLED"
  \/ from = "PARTIALLY_RECEIVED" /\ to = "COMPLETED"

\* What a request may hold between its read and its commit.
OpenOK(x) ==
  \/ x = Idle
  \/ x.op = "setStatus" /\ ManualMove(x.from, x.to)
  \/ x.op = "receive" /\ x.qty \in Quantities \ {NoUnits}
  \/ /\ x.op = "receiving"
     /\ x.qty \in Quantities \ {NoUnits}
     /\ x.next \in {"PARTIALLY_RECEIVED", "COMPLETED"}

RowsOK ==
  /\ status \in {"DRAFT", "REMOVED"} \cup ReceivableStatuses \cup FinalStatuses
  /\ ordered \in Quantities
  /\ received \in [Lines -> Nat]
  /\ DOMAIN req = Requests
  /\ \A r \in Requests : OpenOK(req[r])

\* No receipt is open before the request is sent.
DraftIsQuiet ==
  status \in {"DRAFT", "REMOVED"} =>
    \A r \in Requests : req[r].op \notin {"receive", "receiving"}

\* A receipt under way has room for what it holds, and holds its lines alone.
LinesHeld ==
  \A r \in Requests : req[r].op = "receiving" =>
    \A l \in Lines : req[r].qty[l] > 0 =>
      /\ received[l] + req[r].qty[l] <= ordered[l]
      /\ \A q \in Requests \ {r} :
           req[q].op = "receiving" => req[q].qty[l] = 0

IndInv == /\ RowsOK
          /\ DraftIsQuiet
          /\ LinesHeld
          /\ ReceivedWithinOrder
          /\ StatusShowsReceipts

-----------------------------------------------------------------------------
\* A sum of two vectors of counts, one of them not zero, is not zero.
LEMMA SomethingReceived ==
  ASSUME NEW a \in [Lines -> Nat], NEW b \in Quantities \ {NoUnits}
  PROVE  /\ [l \in Lines |-> a[l] + b[l]] \in [Lines -> Nat]
         /\ [l \in Lines |-> a[l] + b[l]] # NoUnits
<1>1. PICK l \in Lines : b[l] # 0
  BY DEF Quantities, NoUnits
<1>2. \A k \in Lines : b[k] \in Nat
  BY ProductionAssumption DEF Quantities
<1>3. a[l] + b[l] # 0
  BY <1>1, <1>2
<1>4. QED
  BY <1>2, <1>3 DEF NoUnits

LEMMA InitIndInv == Init => IndInv
<1> SUFFICES ASSUME Init PROVE IndInv
  OBVIOUS
<1>1. NoUnits \in [Lines -> Nat] /\ \A l \in Lines : NoUnits[l] = 0
  BY DEF NoUnits
<1>2. \A r \in Requests : req[r] = Idle /\ req[r].op = "idle"
  BY DEF Init, Idle
<1>3. RowsOK
  BY <1>1, <1>2 DEF Init, RowsOK, OpenOK
<1>4. DraftIsQuiet /\ LinesHeld
  BY <1>2 DEF DraftIsQuiet, LinesHeld
<1>5. ReceivedWithinOrder
  BY <1>1, ProductionAssumption DEF Init, ReceivedWithinOrder, Quantities
<1>6. StatusShowsReceipts
  BY DEF Init, StatusShowsReceipts
<1>7. QED
  BY <1>3, <1>4, <1>5, <1>6 DEF IndInv

\* Opening or closing a request that holds no row lock disturbs nothing.
LEMMA OpenKeepsInv ==
  ASSUME IndInv, NEW r \in Requests, NEW x, Open(r, x), OpenOK(x),
         x.op # "receiving",
         x.op = "receive" => status \notin {"DRAFT", "REMOVED"},
         UNCHANGED <<status, ordered, received>>
  PROVE  IndInv'
<1>1. /\ req' = [req EXCEPT ![r] = x]
      /\ DOMAIN req = Requests
      /\ \A q \in Requests : req'[q] = IF q = r THEN x ELSE req[q]
  BY DEF Open, IndInv, RowsOK
<1>2. RowsOK'
  BY <1>1 DEF IndInv, RowsOK, OpenOK
<1>3. DraftIsQuiet'
  BY <1>1 DEF IndInv, DraftIsQuiet
<1>4. LinesHeld'
  BY <1>1 DEF IndInv, LinesHeld
<1>5. (ReceivedWithinOrder /\ StatusShowsReceipts)'
  BY DEF IndInv, ReceivedWithinOrder, StatusShowsReceipts
<1>6. QED
  BY <1>2, <1>3, <1>4, <1>5 DEF IndInv

\* The draft's own endpoints and the notes.
LEMMA DraftStep ==
  ASSUME IndInv,
         \/ Update \/ Remove
         \/ \E l \in Lines, quantity \in 1..MaxQty : AddItem(l, quantity)
  PROVE  IndInv'
<1>1. /\ status = "DRAFT" /\ status' \in {"DRAFT", "REMOVED"}
      /\ UNCHANGED <<received, req>>
  BY DEF Update, DraftClaim, Remove, AddItem
<1>2. ordered' \in Quantities
  <2>1. CASE Update \/ Remove
    BY <2>1 DEF Update, Remove, IndInv, RowsOK
  <2>2. CASE \E l \in Lines, quantity \in 1..MaxQty : AddItem(l, quantity)
    BY <2>2, ProductionAssumption DEF AddItem, IndInv, RowsOK, Quantities
  <2>3. QED
    BY <2>1, <2>2
<1>3. received = NoUnits
  BY <1>1 DEF IndInv, StatusShowsReceipts
<1>4. RowsOK'
  BY <1>1, <1>2 DEF IndInv, RowsOK
<1>5. DraftIsQuiet'
  BY <1>1 DEF IndInv, DraftIsQuiet
<1>6. LinesHeld'
  BY <1>1 DEF IndInv, DraftIsQuiet, LinesHeld
<1>7. ReceivedWithinOrder'
  BY <1>1, <1>2, <1>3, ProductionAssumption
     DEF ReceivedWithinOrder, NoUnits, Quantities
<1>8. StatusShowsReceipts'
  BY <1>1, <1>3 DEF StatusShowsReceipts
<1>9. QED
  BY <1>4, <1>5, <1>6, <1>7, <1>8 DEF IndInv

LEMMA SetStatusStep ==
  ASSUME IndInv, NEW r \in Requests, SetStatusCommit(r)
  PROVE  IndInv'
<1>1. ManualMove(status, status') /\ status = req[r].from
  BY DEF SetStatusCommit, StatusClaim, IndInv, RowsOK, OpenOK, Idle
<1>2. /\ UNCHANGED <<ordered, received>>
      /\ DOMAIN req = Requests /\ DOMAIN req' = Requests
      /\ \A q \in Requests : req'[q] = IF q = r THEN Idle ELSE req[q]
  BY DEF SetStatusCommit, Done, Open, IndInv, RowsOK
<1>3. RowsOK'
  BY <1>1, <1>2 DEF IndInv, RowsOK, OpenOK, ManualMove, ReceivableStatuses,
                    FinalStatuses
<1>4. DraftIsQuiet'
  BY <1>1, <1>2 DEF ManualMove, DraftIsQuiet
<1>5. LinesHeld'
  BY <1>2 DEF IndInv, LinesHeld, Idle
<1>6. ReceivedWithinOrder'
  BY <1>2 DEF IndInv, ReceivedWithinOrder
<1>7. StatusShowsReceipts'
  BY <1>1, <1>2 DEF IndInv, StatusShowsReceipts, ManualMove
<1>8. QED
  BY <1>3, <1>4, <1>5, <1>6, <1>7 DEF IndInv

\* Reads and rollbacks.
LEMMA ReadStep ==
  ASSUME IndInv, NEW r \in Requests,
         \/ \E to \in {"SENT", "CANCELLED", "COMPLETED"} : SetStatusRead(r, to)
         \/ \E source \in Notes \cup {Direct} : ReceiveRead(r, source)
         \/ Abandon(r)
  PROVE  IndInv'
<1>1. CASE \E to \in {"SENT", "CANCELLED", "COMPLETED"} : SetStatusRead(r, to)
  <2>1. PICK to \in {"SENT", "CANCELLED", "COMPLETED"} : SetStatusRead(r, to)
    BY <1>1
  <2> DEFINE x == [op |-> "setStatus", from |-> status, to |-> to]
  <2>2. status \notin {"REMOVED"} \cup FinalStatuses
    BY <2>1 DEF SetStatusRead, ManualTransition, FinalStatuses
  <2>3. ManualMove(status, to)
    BY <2>1, <2>2 DEF SetStatusRead, ManualTransition, ManualMove, IndInv,
       RowsOK, StatusShowsReceipts, ReceivableStatuses, FinalStatuses
  <2>4. x.op = "setStatus" /\ OpenOK(x)
    BY <2>3 DEF OpenOK
  <2>5. Open(r, x) /\ UNCHANGED <<status, ordered, received>>
    BY <2>1 DEF SetStatusRead
  <2> HIDE DEF x
  <2>6. QED
    BY <2>4, <2>5, OpenKeepsInv
<1>2. CASE \E source \in Notes \cup {Direct} : ReceiveRead(r, source)
  <2>1. PICK source \in Notes \cup {Direct} : ReceiveRead(r, source)
    BY <1>2
  <2>2. PICK qty \in Quantities \ {NoUnits} :
          \E amount \in 0..Total(qty) :
            Open(r, [op |-> "receive", source |-> source, qty |-> qty,
                     amount |-> amount])
    BY <2>1 DEF ReceiveRead
  <2>3. PICK amount \in 0..Total(qty) :
          Open(r, [op |-> "receive", source |-> source, qty |-> qty,
                   amount |-> amount])
    BY <2>2
  <2> DEFINE x == [op |-> "receive", source |-> source, qty |-> qty,
                   amount |-> amount]
  <2>4. x.op = "receive" /\ OpenOK(x)
    BY DEF OpenOK
  <2>5. /\ status \notin {"DRAFT", "REMOVED"}
        /\ UNCHANGED <<status, ordered, received>>
    BY <2>1 DEF ReceiveRead, ReceivableStatuses
  <2> HIDE DEF x
  <2>6. QED
    BY <2>3, <2>4, <2>5, OpenKeepsInv DEF x
<1>3. CASE Abandon(r)
  <2>1. Idle.op = "idle" /\ OpenOK(Idle)
    BY DEF Idle, OpenOK
  <2>2. QED
    BY <1>3, <2>1, OpenKeepsInv DEF Abandon, Done
<1>4. QED
  BY <1>1, <1>2, <1>3

\* The transaction of a receipt: its lines are free and have room.
LEMMA ReceiveWriteStep ==
  ASSUME IndInv, NEW r \in Requests, ReceiveWrite(r)
  PROVE  IndInv'
<1> DEFINE seen == req[r]
           x == [op |-> "receiving", source |-> seen.source,
                 qty |-> seen.qty, amount |-> seen.amount,
                 next |-> StatusAfterReceipt(
                            [l \in Lines |-> received[l] + seen.qty[l]])]
<1>1. /\ seen.op = "receive" /\ seen.qty \in Quantities \ {NoUnits}
      /\ status \notin {"DRAFT", "REMOVED"}
  BY DEF ReceiveWrite, IndInv, RowsOK, OpenOK, Idle, DraftIsQuiet
<1>2. /\ UNCHANGED <<status, ordered, received>>
      /\ DOMAIN req = Requests /\ DOMAIN req' = Requests
      /\ \A q \in Requests : req'[q] = IF q = r THEN x ELSE req[q]
  BY DEF ReceiveWrite, Open, IndInv, RowsOK
<1>3. x.op = "receiving" /\ x.qty = seen.qty /\ OpenOK(x)
  BY <1>1 DEF OpenOK, StatusAfterReceipt
<1>4. \A l \in Lines : seen.qty[l] > 0 =>
        /\ received[l] + seen.qty[l] <= ordered[l]
        /\ \A q \in Requests : req[q].op = "receiving" => ~(req[q].qty[l] > 0)
  BY DEF ReceiveWrite, UnderCeiling, LineLocked, Receiving
<1>5. \A q \in Requests, l \in Lines :
        req[q].op = "receiving" => req[q].qty[l] \in Nat
  BY ProductionAssumption DEF IndInv, RowsOK, OpenOK, Idle, Quantities
<1> HIDE DEF x
<1>6. RowsOK'
  BY <1>2, <1>3 DEF IndInv, RowsOK, OpenOK
<1>7. DraftIsQuiet'
  BY <1>1, <1>2 DEF DraftIsQuiet
<1>8. LinesHeld'
  <2>1. SUFFICES ASSUME NEW p \in Requests, req'[p].op = "receiving",
                        NEW l \in Lines, req'[p].qty[l] > 0
                 PROVE  /\ received[l] + req'[p].qty[l] <= ordered[l]
                        /\ \A q \in Requests \ {p} :
                             req'[q].op = "receiving" => req'[q].qty[l] = 0
    BY <1>2 DEF LinesHeld
  <2>2. CASE p = r
    BY <1>2, <1>3, <1>4, <1>5, <2>1, <2>2
  <2>3. CASE p # r
    <3>1. req'[p] = req[p]
      BY <1>2, <2>3
    <3>2. \A q \in Requests \ {p, r} :
            req[q].op = "receiving" => req[q].qty[l] = 0
      BY <2>1, <3>1 DEF IndInv, LinesHeld
    <3>3. seen.qty[l] = 0
      BY <1>1, <1>4, <2>1, <3>1, ProductionAssumption DEF Quantities
    <3>4. received[l] + req[p].qty[l] <= ordered[l]
      BY <2>1, <3>1 DEF IndInv, LinesHeld
    <3>5. QED
      BY <1>2, <1>3, <3>1, <3>2, <3>3, <3>4
  <2>4. QED
    BY <2>2, <2>3
<1>9. (ReceivedWithinOrder /\ StatusShowsReceipts)'
  BY <1>2 DEF IndInv, ReceivedWithinOrder, StatusShowsReceipts
<1>10. QED
  BY <1>6, <1>7, <1>8, <1>9 DEF IndInv

LEMMA ReceiveCommitStep ==
  ASSUME IndInv, NEW r \in Requests, ReceiveCommit(r)
  PROVE  IndInv'
<1> DEFINE seen == req[r]
<1>1. /\ seen.op = "receiving" /\ seen.qty \in Quantities \ {NoUnits}
      /\ status' \in {"PARTIALLY_RECEIVED", "COMPLETED"}
  BY DEF ReceiveCommit, IndInv, RowsOK, OpenOK, Idle
<1>2. /\ ordered' = ordered
      /\ received' = [l \in Lines |-> received[l] + seen.qty[l]]
      /\ DOMAIN req = Requests /\ DOMAIN req' = Requests
      /\ \A q \in Requests : req'[q] = IF q = r THEN Idle ELSE req[q]
  BY DEF ReceiveCommit, Done, Open, IndInv, RowsOK
<1>3. received' \in [Lines -> Nat] /\ received' # NoUnits
  BY <1>1, <1>2, SomethingReceived DEF IndInv, RowsOK
<1>4. \A l \in Lines : /\ seen.qty[l] \in Nat /\ received[l] \in Nat
                       /\ ordered[l] \in Nat
  BY <1>1, ProductionAssumption DEF IndInv, RowsOK, Quantities
<1>5. RowsOK'
  BY <1>1, <1>2, <1>3 DEF IndInv, RowsOK, OpenOK, ReceivableStatuses,
                          FinalStatuses
<1>6. DraftIsQuiet'
  BY <1>1 DEF DraftIsQuiet
<1>7. LinesHeld'
  <2>1. SUFFICES ASSUME NEW p \in Requests, req'[p].op = "receiving",
                        NEW l \in Lines, req'[p].qty[l] > 0
                 PROVE  /\ received'[l] + req'[p].qty[l] <= ordered'[l]
                        /\ \A q \in Requests \ {p} :
                             req'[q].op = "receiving" => req'[q].qty[l] = 0
    BY DEF LinesHeld
  <2>2. p # r /\ req'[p] = req[p]
    BY <1>2, <2>1 DEF Idle
  <2>3. /\ received[l] + req[p].qty[l] <= ordered[l]
        /\ \A q \in Requests \ {p} :
             req[q].op = "receiving" => req[q].qty[l] = 0
    BY <2>1, <2>2 DEF IndInv, LinesHeld
  <2>4. seen.qty[l] = 0
    BY <1>1, <2>2, <2>3
  <2>5. received'[l] = received[l]
    BY <1>2, <1>4, <2>4
  <2>6. QED
    BY <1>2, <2>2, <2>3, <2>5 DEF Idle
<1>8. ReceivedWithinOrder'
  <2>1. SUFFICES ASSUME NEW l \in Lines
                 PROVE  received[l] + seen.qty[l] <= ordered[l]
    BY <1>2 DEF ReceivedWithinOrder
  <2>2. CASE seen.qty[l] > 0
    BY <1>1, <2>2 DEF IndInv, LinesHeld
  <2>3. CASE seen.qty[l] = 0
    BY <1>4, <2>3 DEF IndInv, ReceivedWithinOrder
  <2>4. QED
    BY <1>4, <2>2, <2>3
<1>9. StatusShowsReceipts'
  BY <1>1, <1>3 DEF StatusShowsReceipts
<1>10. QED
  BY <1>5, <1>6, <1>7, <1>8, <1>9 DEF IndInv

LEMMA QuietStep ==
  ASSUME IndInv, UNCHANGED <<status, ordered, received, req>>
  PROVE  IndInv'
BY DEF IndInv, RowsOK, DraftIsQuiet, LinesHeld, ReceivedWithinOrder,
       StatusShowsReceipts

LEMMA NextIndInv == IndInv /\ [Next]_vars => IndInv'
<1> SUFFICES ASSUME IndInv, [Next]_vars PROVE IndInv'
  OBVIOUS
<1>1. CASE UNCHANGED vars \/ \E d \in Notes : CreateNote(d) \/ CancelNote(d)
  BY <1>1, QuietStep DEF vars, CreateNote, CancelNote
<1>2. CASE \E r \in Requests : ReceiveWrite(r) \/ ReceiveCommit(r)
  BY <1>2, ReceiveWriteStep, ReceiveCommitStep
<1>3. CASE \E r \in Requests : SetStatusCommit(r)
  BY <1>3, SetStatusStep
<1>4. CASE \E r \in Requests :
             \/ \E to \in {"SENT", "CANCELLED", "COMPLETED"} :
                  SetStatusRead(r, to)
             \/ \E source \in Notes \cup {Direct} : ReceiveRead(r, source)
             \/ Abandon(r)
  BY <1>4, ReadStep
<1>5. CASE \/ Update \/ Remove
           \/ \E l \in Lines, quantity \in 1..MaxQty : AddItem(l, quantity)
  BY <1>5, DraftStep
<1>6. QED
  BY <1>1, <1>2, <1>3, <1>4, <1>5 DEF Next

-----------------------------------------------------------------------------
\* However many people receive against one request, with or without delivery
\* notes, no line is counted past what was ordered.
THEOREM NeverOverReceived == Spec => []ReceivedWithinOrder
<1>1. IndInv => ReceivedWithinOrder
  BY DEF IndInv
<1>2. QED
  BY InitIndInv, NextIndInv, <1>1, PTL DEF Spec

\* Whatever the order of receipts, cancellations and closings, goods came in
\* exactly when the status says so.
THEOREM ReceiptsShown == Spec => []StatusShowsReceipts
<1>1. IndInv => StatusShowsReceipts
  BY DEF IndInv
<1>2. QED
  BY InitIndInv, NextIndInv, <1>1, PTL DEF Spec

\* Receipts that run together never owe the workshop more than its limit.
THEOREM CreditHolds == Spec => []DebtWithinLimit
<1>1. Init => DebtWithinLimit
  BY ProductionAssumption DEF Init, DebtWithinLimit, WithinCredit
<1>2. DebtWithinLimit /\ [Next]_vars => DebtWithinLimit'
  <2> SUFFICES ASSUME DebtWithinLimit, [Next]_vars PROVE DebtWithinLimit'
    OBVIOUS
  <2>1. ASSUME NEW r \in Requests, ReceiveCommit(r) PROVE DebtWithinLimit'
    BY <2>1 DEF ReceiveCommit, CanCharge, DebtWithinLimit, WithinCredit
  <2>2. CASE debt' = debt
    BY <2>2 DEF DebtWithinLimit, WithinCredit
  <2>3. QED
    BY <2>1, <2>2 DEF Next, vars, Update, Remove, AddItem, SetStatusRead,
       SetStatusCommit, ReceiveRead, ReceiveWrite, Abandon, CreateNote,
       CancelNote
<1>3. QED
  BY <1>1, <1>2, PTL DEF Spec

\* No edit, however old the draft it read, changes the lines of a request
\* that was sent.
THEOREM LinesStayFixed == Spec => LinesFixedOnceSent
<1>1. [Next]_vars => [status # "DRAFT" => ordered' = ordered]_vars
  BY DEF Next, vars, Update, DraftClaim, Remove, AddItem, SetStatusRead,
     SetStatusCommit, ReceiveRead, ReceiveWrite, ReceiveCommit, Abandon,
     CreateNote, CancelNote
<1>2. QED
  BY <1>1, PTL DEF Spec, LinesFixedOnceSent

-----------------------------------------------------------------------------
(* Delivery notes *)

Sources == Notes \cup {Direct}
NoteRow == [status : {"NONE", "PENDING", "RECEIVED", "CANCELLED"}, sent : Quantities]

\* A receipt takes no more than its note carries, and once it writes, the note
\* waits for it alone.
ReceiptOK(x) ==
  x.op \in {"receive", "receiving"} =>
    /\ x.source \in Sources
    /\ x.source # Direct => /\ note[x.source].status # "NONE"
                            /\ \A l \in Lines : x.qty[l] <= note[x.source].sent[l]
                            /\ x.op = "receiving" => note[x.source].status = "PENDING"

NotesTyped == /\ note \in [Notes -> NoteRow]
              /\ imported \in [Sources -> [Lines -> Nat]]

NoteInv ==
  /\ NotesTyped
  /\ \A r \in Requests : ReceiptOK(req[r])
  /\ \A r, q \in Requests :
       req[r].op = "receiving" /\ req[q].op = "receiving" /\ req[r].source = req[q].source
         => r = q \/ req[r].source = Direct
  /\ NoteCountedOnce

LEMMA InitNotes == Init => NoteInv
<1> SUFFICES ASSUME Init PROVE NoteInv  OBVIOUS
<1>1. NoUnits \in Quantities /\ NoUnits \in [Lines -> Nat] /\ \A l \in Lines : NoUnits[l] = 0
  BY ProductionAssumption DEF NoUnits, Quantities
<1>2. NotesTyped  BY <1>1 DEF Init, NotesTyped, NoteRow, Sources
<1>3. \A r \in Requests : req[r].op = "idle"  BY DEF Init, Idle
<1>4. NoteCountedOnce
  <2>1. ASSUME NEW l \in Lines
        PROVE  SumFunctionOnSet([s \in Sources |-> imported[s][l]], Sources) = 0
    <3>1. IsFiniteSet(Sources)
      BY ProductionAssumption, FS_AddElement DEF Sources
    <3>2. PICK f : f = [s \in Sources |-> imported[s][l]]  OBVIOUS
    <3>3. \A s \in Sources : f[s] = 0  BY <1>1, <3>2 DEF Init, Sources
    <3> QED  BY <3>1, <3>2, <3>3, SumZero
  <2> QED  BY <1>1, <2>1 DEF Init, NoteCountedOnce, Sources
<1> QED  BY <1>2, <1>3, <1>4 DEF NoteInv, ReceiptOK

\* Requests that open or close without holding a row.
LEMMA OpenKeepsNotes ==
  ASSUME IndInv, NoteInv, NEW r \in Requests, NEW x, Open(r, x), ReceiptOK(x),
         x.op # "receiving", UNCHANGED <<received, note, imported>>
  PROVE  NoteInv'
<1>1. \A q \in Requests : req'[q] = IF q = r THEN x ELSE req[q]
  BY DEF Open, IndInv, RowsOK
<1>2. (NotesTyped /\ NoteCountedOnce)'  BY DEF NoteInv, NotesTyped, NoteCountedOnce
<1>3. \A q \in Requests : ReceiptOK(req[q])'  BY <1>1 DEF NoteInv, ReceiptOK
<1> QED  BY <1>1, <1>2, <1>3 DEF NoteInv

LEMMA ReceiveReadNotes ==
  ASSUME IndInv, NoteInv, NEW r \in Requests, NEW source \in Sources, ReceiveRead(r, source)
  PROVE  NoteInv'
<1>1. PICK qty, amount :
        /\ qty \in Quantities \ {NoUnits}
        /\ source # Direct => \A l \in Lines : qty[l] <= note[source].sent[l]
        /\ Open(r, [op |-> "receive", source |-> source, qty |-> qty, amount |-> amount])
  BY DEF ReceiveRead
<1>2. /\ source # Direct => note[source].status = "PENDING"
      /\ UNCHANGED <<received, note, imported>>
  BY DEF ReceiveRead
<1>3. PICK x : x = [op |-> "receive", source |-> source, qty |-> qty, amount |-> amount]
  OBVIOUS
<1>4. x.op = "receive" /\ x.source = source /\ x.qty = qty  BY <1>3
<1>5. ReceiptOK(x)  BY <1>1, <1>2, <1>4 DEF ReceiptOK
<1> QED  BY <1>1, <1>2, <1>3, <1>4, <1>5, OpenKeepsNotes

LEMMA ReceiveWriteNotes ==
  ASSUME IndInv, NoteInv, NEW r \in Requests, ReceiveWrite(r)
  PROVE  NoteInv'
<1>1. PICK seen : seen = req[r]  OBVIOUS
<1>2. PICK x : x.op = "receiving" /\ x.source = seen.source /\ x.qty = seen.qty /\ Open(r, x)
  <2>1. PICK x : /\ Open(r, x)
                 /\ x = [op |-> "receiving", source |-> seen.source, qty |-> seen.qty,
                         amount |-> seen.amount,
                         next |-> StatusAfterReceipt([l \in Lines |-> received[l] + seen.qty[l]])]
    BY <1>1 DEF ReceiveWrite
  <2>2. x.op = "receiving" /\ x.source = seen.source /\ x.qty = seen.qty  BY <2>1
  <2> QED  BY <2>1, <2>2
<1>3. /\ seen.op = "receive" /\ UNCHANGED <<received, note, imported>>
      /\ seen.source # Direct => /\ note[seen.source].status = "PENDING"
                                 /\ ~NoteLocked(seen.source)
  BY <1>1 DEF ReceiveWrite, NoteClaim
<1>4. \A q \in Requests : req'[q] = IF q = r THEN x ELSE req[q]
  BY <1>2 DEF Open, IndInv, RowsOK
<1>5. ReceiptOK(seen)  BY <1>1 DEF NoteInv
<1>6. \A q \in Requests : ReceiptOK(req[q])'
  BY <1>2, <1>3, <1>4, <1>5 DEF NoteInv, ReceiptOK
<1>7. \A q \in Requests : req[q].op = "receiving" /\ req[q].source = seen.source => seen.source = Direct
  BY <1>3 DEF NoteLocked, Receiving
<1>8. (NotesTyped /\ NoteCountedOnce)'  BY <1>3 DEF NoteInv, NotesTyped, NoteCountedOnce
<1>9. ASSUME NEW p \in Requests, NEW q \in Requests, req'[p].op = "receiving",
             req'[q].op = "receiving", req'[p].source = req'[q].source
      PROVE  p = q \/ req'[p].source = Direct
  BY <1>2, <1>4, <1>7, <1>9 DEF NoteInv
<1> QED  BY <1>6, <1>8, <1>9 DEF NoteInv

LEMMA ReceiveCommitNotes ==
  ASSUME IndInv, NoteInv, NEW r \in Requests, ReceiveCommit(r)
  PROVE  NoteInv'
<1>1. PICK seen, s : seen = req[r] /\ s = seen.source  OBVIOUS
<1>2. /\ seen.op = "receiving" /\ s \in Sources /\ seen.qty \in Quantities
      /\ ReceiptOK(seen) /\ NotesTyped
  BY <1>1 DEF ReceiveCommit, NoteInv, ReceiptOK, IndInv, RowsOK, OpenOK, Idle
<1>3. /\ received' = [l \in Lines |-> received[l] + seen.qty[l]]
      /\ imported' = [imported EXCEPT ![s] = [l \in Lines |-> imported[s][l] + seen.qty[l]]]
      /\ note' = IF s = Direct THEN note ELSE [note EXCEPT ![s].status = "RECEIVED"]
  BY <1>1 DEF ReceiveCommit
<1>4. \A q \in Requests : req'[q] = IF q = r THEN Idle ELSE req[q]
  BY DEF ReceiveCommit, Done, Open, IndInv, RowsOK
<1>5. \A l \in Lines : seen.qty[l] \in Nat
  BY <1>2, ProductionAssumption DEF Quantities
<1>6. /\ imported' \in [Sources -> [Lines -> Nat]]
      /\ \A l \in Lines : imported'[s][l] = imported[s][l] + seen.qty[l]
      /\ \A t \in Sources : t # s => imported'[t] = imported[t]
  <2>1. PICK new : new = [l \in Lines |-> imported[s][l] + seen.qty[l]]  OBVIOUS
  <2>2. new \in [Lines -> Nat] /\ \A l \in Lines : new[l] = imported[s][l] + seen.qty[l]
    BY <1>2, <1>5, <2>1 DEF NotesTyped
  <2>3. imported' = [imported EXCEPT ![s] = new]  BY <1>3, <2>1
  <2> QED  BY <1>2, <2>2, <2>3 DEF NotesTyped
<1>7. /\ note' \in [Notes -> NoteRow]
      /\ \A d \in Notes : /\ note'[d].sent = note[d].sent
                          /\ note'[d].status = IF d = s THEN "RECEIVED" ELSE note[d].status
  <2>1. CASE s = Direct  BY <1>2, <1>3, <2>1, ProductionAssumption DEF NotesTyped
  <2>2. CASE s # Direct
    <3>1. s \in Notes  BY <1>2, <2>2 DEF Sources
    <3>2. PICK old, new : old = note[s] /\ new = [old EXCEPT !.status = "RECEIVED"]  OBVIOUS
    <3>3. new \in NoteRow /\ new.status = "RECEIVED" /\ new.sent = old.sent
      BY <1>2, <3>1, <3>2 DEF NotesTyped, NoteRow
    <3>4. note' = [note EXCEPT ![s] = new]  BY <1>3, <2>2, <3>2
    <3> QED  BY <1>2, <3>1, <3>2, <3>3, <3>4 DEF NotesTyped
  <2> QED  BY <2>1, <2>2
<1>8. ASSUME NEW d \in Notes
      PROVE  /\ note'[d].status # "RECEIVED" => imported'[d] = NoUnits
             /\ \A l \in Lines : imported'[d][l] <= note'[d].sent[l]
  <2>1. d \in Sources  BY DEF Sources
  <2>2. CASE d # s  BY <1>6, <1>7, <2>1, <2>2 DEF NoteInv, NoteCountedOnce
  <2>3. CASE d = s
    <3>1. s # Direct /\ note[s].status = "PENDING" /\ \A l \in Lines : seen.qty[l] <= note[s].sent[l]
      BY <1>1, <1>2, <2>3, ProductionAssumption DEF ReceiptOK
    <3>2. imported[s] = NoUnits  BY <2>3, <3>1 DEF NoteInv, NoteCountedOnce
    <3>3. \A l \in Lines : imported'[s][l] = 0 + seen.qty[l]  BY <1>6, <3>2 DEF NoUnits
    <3> QED  BY <1>5, <1>7, <2>3, <3>1, <3>3
  <2> QED  BY <2>2, <2>3
<1>9. ASSUME NEW l \in Lines
      PROVE  received'[l] = SumFunctionOnSet([t \in Sources |-> imported'[t][l]], Sources)
  <2>1. PICK f, g : f = [t \in Sources |-> imported[t][l]] /\ g = [t \in Sources |-> imported'[t][l]]
    OBVIOUS
  <2>2. IsFiniteSet(Sources)  BY ProductionAssumption, FS_AddElement DEF Sources
  <2>3. \A t \in Sources : f[t] \in Int /\ g[t] \in Int
    BY <1>2, <1>6, <2>1 DEF NotesTyped
  <2>4. \A t \in Sources \ {s} : f[t] = g[t]  BY <1>6, <2>1
  <2>5. SumFunctionOnSet(g, Sources) = SumFunctionOnSet(f, Sources) - f[s] + g[s]
    <3>1. s \in Sources  BY <1>2
    <3> QED  BY <2>2, <2>3, <2>4, <3>1, SumChange
  <2>6. SumFunctionOnSet(f, Sources) = received[l] /\ received[l] \in Nat
    BY <2>1 DEF NoteInv, NoteCountedOnce, Sources, IndInv, RowsOK
  <2>7. g[s] = f[s] + seen.qty[l] /\ f[s] \in Nat  BY <1>2, <1>6, <2>1 DEF NotesTyped
  <2>8. received'[l] = received[l] + seen.qty[l]  BY <1>3
  <2> QED  BY <1>5, <2>1, <2>5, <2>6, <2>7, <2>8
<1>10. NoteCountedOnce'  BY <1>8, <1>9 DEF NoteCountedOnce, Sources
<1>11. \A q \in Requests \ {r} : req[q].op = "receiving" => req[q].source # s \/ s = Direct
  BY <1>1, <1>2 DEF NoteInv
<1>12. ASSUME NEW q \in Requests PROVE ReceiptOK(req[q])'
  <2>1. CASE q = r  BY <1>4, <2>1 DEF ReceiptOK, Idle
  <2>2. CASE q # r
    <3>1. PICK y : y = req[q]  OBVIOUS
    <3>2. ReceiptOK(y) /\ (y.op = "receiving" => y.source # s \/ s = Direct)
      BY <1>11, <2>2, <3>1 DEF NoteInv
    <3>3. y.source \in Sources /\ y.source # Direct => y.source \in Notes  BY DEF Sources
    <3> QED  BY <1>4, <1>7, <2>2, <3>1, <3>2, <3>3 DEF ReceiptOK
  <2> QED  BY <2>1, <2>2
<1>13. ASSUME NEW p \in Requests, NEW q \in Requests, req'[p].op = "receiving",
              req'[q].op = "receiving", req'[p].source = req'[q].source
       PROVE  p = q \/ req'[p].source = Direct
  BY <1>4, <1>13 DEF NoteInv, Idle
<1> QED  BY <1>6, <1>7, <1>10, <1>12, <1>13 DEF NoteInv, NotesTyped

\* A note that is made was not there, so nothing came with it yet.
LEMMA NoteStep ==
  ASSUME IndInv, NoteInv, NEW d \in Notes, CreateNote(d) \/ CancelNote(d)
  PROVE  NoteInv'
<1>1. UNCHANGED <<received, imported, req>>  BY DEF CreateNote, CancelNote
<1>2. NotesTyped /\ imported[d] \in [Lines -> Nat]  BY DEF NoteInv, NotesTyped, Sources
<1>3. PICK row \in NoteRow : /\ note' = [note EXCEPT ![d] = row]
                             /\ row.status # "RECEIVED" /\ row.status # "NONE"
                             /\ note[d].status \in {"NONE", "PENDING"}
                             /\ note[d].status = "PENDING" =>
                                  ~NoteLocked(d) /\ row.sent = note[d].sent
  <2>1. CASE CreateNote(d)
    <3>1. PICK sent \in Quantities : note' = [note EXCEPT ![d] = [status |-> "PENDING", sent |-> sent]]
      BY <2>1 DEF CreateNote
    <3>2. PICK new : new = [status |-> "PENDING", sent |-> sent]  OBVIOUS
    <3>3. new \in NoteRow /\ new.status = "PENDING"  BY <3>2 DEF NoteRow
    <3>4. note[d].status = "NONE"  BY <2>1 DEF CreateNote
    <3> QED  BY <3>1, <3>2, <3>3, <3>4
  <2>2. CASE CancelNote(d)
    <3>1. PICK old, new : old = note[d] /\ new = [old EXCEPT !.status = "CANCELLED"]  OBVIOUS
    <3>2. new \in NoteRow /\ new.status = "CANCELLED" /\ new.sent = old.sent
      BY <1>2, <3>1 DEF NotesTyped, NoteRow
    <3>3. note' = [note EXCEPT ![d] = new]  BY <2>2, <3>1 DEF CancelNote
    <3> QED  BY <2>2, <3>1, <3>2, <3>3 DEF CancelNote
  <2> QED  BY <2>1, <2>2
<1>4. imported[d] = NoUnits  BY <1>3 DEF NoteInv, NoteCountedOnce
<1>5. \A l \in Lines : imported[d][l] = 0 /\ row.sent[l] \in Nat
  BY <1>3, <1>4, ProductionAssumption DEF NoUnits, NoteRow, Quantities
<1>6. NotesTyped'  BY <1>1, <1>2, <1>3 DEF NotesTyped
<1>7. \A e \in Notes : note'[e] = IF e = d THEN row ELSE note[e]  BY <1>2, <1>3 DEF NotesTyped
<1>8. NoteCountedOnce'
  <2>1. ASSUME NEW e \in Notes
        PROVE  /\ note'[e].status # "RECEIVED" => imported[e] = NoUnits
               /\ \A l \in Lines : imported[e][l] <= note'[e].sent[l]
    BY <1>4, <1>5, <1>7 DEF NoteInv, NoteCountedOnce
  <2> QED  BY <1>1, <2>1 DEF NoteInv, NoteCountedOnce
<1>9. ASSUME NEW q \in Requests PROVE ReceiptOK(req[q])'
  <2>1. PICK y : y = req[q]  OBVIOUS
  <2>2. ReceiptOK(y) /\ (y.op = "receiving" /\ y.source = d => note[d].status # "PENDING")
    BY <1>3, <2>1 DEF NoteInv, NoteLocked, Receiving
  <2>3. y.source \in Sources /\ y.source # Direct => y.source \in Notes  BY DEF Sources
  <2> QED  BY <1>1, <1>3, <1>7, <2>1, <2>2, <2>3 DEF ReceiptOK
<1> QED  BY <1>1, <1>6, <1>8, <1>9 DEF NoteInv

LEMMA NextNotes == IndInv /\ NoteInv /\ [Next]_vars => NoteInv'
<1> SUFFICES ASSUME IndInv, NoteInv, [Next]_vars PROVE NoteInv'  OBVIOUS
<1>1. CASE UNCHANGED <<received, note, imported, req>>
  BY <1>1 DEF NoteInv, NotesTyped, NoteCountedOnce, ReceiptOK
<1>2. ASSUME NEW r \in Requests, NEW to, SetStatusRead(r, to) PROVE NoteInv'
  <2>1. PICK x : x = [op |-> "setStatus", from |-> status, to |-> to]  OBVIOUS
  <2>2. x.op = "setStatus"  BY <2>1
  <2>3. ReceiptOK(x)  BY <2>2 DEF ReceiptOK
  <2> QED  BY <1>2, <2>1, <2>2, <2>3, OpenKeepsNotes DEF SetStatusRead
<1>3. ASSUME NEW r \in Requests, SetStatusCommit(r) \/ Abandon(r) PROVE NoteInv'
  <2>1. Idle.op = "idle"  BY DEF Idle
  <2>2. ReceiptOK(Idle)  BY <2>1 DEF ReceiptOK
  <2> QED  BY <1>3, <2>1, <2>2, OpenKeepsNotes DEF SetStatusCommit, Abandon, Done
<1>4. CASE Update \/ Remove \/ UNCHANGED vars
           \/ \E l \in Lines, quantity \in 1..MaxQty : AddItem(l, quantity)
  BY <1>1, <1>4 DEF Update, Remove, AddItem, vars
<1> QED
  BY <1>2, <1>3, <1>4, ReceiveReadNotes, ReceiveWriteNotes, ReceiveCommitNotes, NoteStep
     DEF Next, Sources

\* A delivery note becomes stock once, and never for more than it says, however
\* many people confirm it, cancel it or receive beside it (receiveGoods).
THEOREM NotesCountOnce == Spec => []NoteCountedOnce
<1>1. NoteInv => NoteCountedOnce  BY DEF NoteInv
<1> QED  BY InitIndInv, NextIndInv, InitNotes, NextNotes, <1>1, PTL DEF Spec

-----------------------------------------------------------------------------
(* The agreement *)

\* A receipt charges no more than its goods are worth, and one that decided
\* COMPLETED brings all that is missing: lines are fixed, counts only grow.
ReceiptAgreed(x) ==
  /\ x.op \in {"receive", "receiving"} => x.amount \in 0..Total(x.qty)
  /\ x.op = "receiving" /\ x.next = "COMPLETED" =>
       \A l \in Lines : received[l] + x.qty[l] >= ordered[l]

AgreeInv == \A r \in Requests : ReceiptAgreed(req[r])

LEMMA InitAgree == Init => AgreeInv
BY DEF Init, AgreeInv, ReceiptAgreed, Idle

\* What stays true of the other requests while one opens or closes.
LEMMA OpenKeepsAgreement ==
  ASSUME IndInv, AgreeInv, NEW r \in Requests, NEW x, Open(r, x),
         ReceiptAgreed(x)', ordered' = ordered, received' \in [Lines -> Nat],
         \A l \in Lines : received'[l] >= received[l]
  PROVE  AgreeInv'
<1>1. \A q \in Requests : req'[q] = IF q = r THEN x ELSE req[q]
  BY DEF Open, IndInv, RowsOK
<1>2. ASSUME NEW q \in Requests, q # r PROVE ReceiptAgreed(req[q])'
  <2>1. PICK y : y = req[q]  OBVIOUS
  <2>2. ReceiptAgreed(y) /\ req'[q] = y  BY <1>1, <1>2, <2>1 DEF AgreeInv
  <2>3. y.op = "receiving" => y.qty \in Quantities
    BY <2>1 DEF IndInv, RowsOK, OpenOK, Idle
  <2>4. ASSUME y.op = "receiving", y.next = "COMPLETED", NEW l \in Lines
        PROVE  received'[l] + y.qty[l] >= ordered'[l]
    <3>1. received[l] + y.qty[l] >= ordered[l] /\ received'[l] >= received[l]
      BY <2>2, <2>4 DEF ReceiptAgreed
    <3>2. /\ received[l] \in Nat /\ received'[l] \in Nat
          /\ y.qty[l] \in Nat /\ ordered[l] \in Nat
      BY <2>3, <2>4, ProductionAssumption DEF IndInv, RowsOK, Quantities
    <3> QED  BY <3>1, <3>2
  <2> QED  BY <2>2, <2>4 DEF ReceiptAgreed
<1> QED  BY <1>1, <1>2 DEF AgreeInv

\* Reads, status changes and rollbacks open no receipt that writes.
LEMMA ReadKeepsAgreement ==
  ASSUME IndInv, AgreeInv, NEW r \in Requests,
         \/ \E to \in {"SENT", "CANCELLED", "COMPLETED"} : SetStatusRead(r, to)
         \/ \E source \in Notes \cup {Direct} : ReceiveRead(r, source)
         \/ SetStatusCommit(r) \/ Abandon(r)
  PROVE  AgreeInv'
<1>1. ordered' = ordered /\ received' \in [Lines -> Nat] /\ \A l \in Lines : received'[l] >= received[l]
  BY DEF SetStatusRead, ReceiveRead, SetStatusCommit, Abandon, IndInv, RowsOK
<1>2. PICK x : Open(r, x) /\ ReceiptAgreed(x)'
  <2>1. CASE \E to \in {"SENT", "CANCELLED", "COMPLETED"} : SetStatusRead(r, to)
    <3>1. PICK x, to : x = [op |-> "setStatus", from |-> status, to |-> to] /\ Open(r, x)
      BY <2>1 DEF SetStatusRead
    <3>2. x.op = "setStatus"  BY <3>1
    <3> QED  BY <3>1, <3>2 DEF ReceiptAgreed
  <2>2. CASE \E source \in Notes \cup {Direct} : ReceiveRead(r, source)
    <3>1. PICK x, qty, source : \E amount \in 0..Total(qty) :
            /\ x = [op |-> "receive", source |-> source, qty |-> qty, amount |-> amount]
            /\ Open(r, x)
      BY <2>2 DEF ReceiveRead
    <3>2. x.op = "receive" /\ x.amount \in 0..Total(x.qty)  BY <3>1
    <3> QED  BY <3>1, <3>2 DEF ReceiptAgreed
  <2>3. CASE SetStatusCommit(r) \/ Abandon(r)
    <3>1. Idle.op = "idle"  BY DEF Idle
    <3> QED  BY <2>3, <3>1 DEF SetStatusCommit, Abandon, Done, ReceiptAgreed
  <2> QED  BY <2>1, <2>2, <2>3
<1> QED  BY <1>1, <1>2, OpenKeepsAgreement

LEMMA WriteKeepsAgreement ==
  ASSUME IndInv, AgreeInv, NEW r \in Requests, ReceiveWrite(r) \/ ReceiveCommit(r)
  PROVE  AgreeInv'
<1>1. CASE ReceiveWrite(r)
  <2>1. PICK seen, got : seen = req[r] /\ got = [l \in Lines |-> received[l] + seen.qty[l]]
    OBVIOUS
  <2>2. PICK x : /\ x = [op |-> "receiving", source |-> seen.source, qty |-> seen.qty,
                         amount |-> seen.amount, next |-> StatusAfterReceipt(got)]
                 /\ Open(r, x)
    BY <1>1, <2>1 DEF ReceiveWrite
  <2>3. /\ x.op = "receiving" /\ x.qty = seen.qty /\ x.amount = seen.amount
        /\ x.next = StatusAfterReceipt(got)
    BY <2>2
  <2>4. seen.op = "receive" /\ UNCHANGED <<ordered, received>>
    BY <1>1, <2>1 DEF ReceiveWrite
  <2>5. x.amount \in 0..Total(x.qty)
    BY <2>1, <2>3, <2>4 DEF AgreeInv, ReceiptAgreed
  <2>6. x.next = "COMPLETED" => \A l \in Lines : got[l] >= ordered[l]
    BY <2>3 DEF StatusAfterReceipt
  <2>7. x.next = "COMPLETED" => \A l \in Lines : received'[l] + x.qty[l] >= ordered'[l]
    BY <2>1, <2>3, <2>4, <2>6
  <2>8. ReceiptAgreed(x)'
    BY <2>5, <2>7 DEF ReceiptAgreed
  <2>9. received' \in [Lines -> Nat] /\ \A l \in Lines : received'[l] >= received[l]
    BY <2>4 DEF IndInv, RowsOK
  <2> QED  BY <2>2, <2>4, <2>8, <2>9, OpenKeepsAgreement
<1>2. CASE ReceiveCommit(r)
  <2>1. PICK seen : seen = req[r]  OBVIOUS
  <2>2. seen.qty \in Quantities
    BY <1>2, <2>1 DEF ReceiveCommit, IndInv, RowsOK, OpenOK, Idle
  <2>3. /\ received' = [l \in Lines |-> received[l] + seen.qty[l]]
        /\ ordered' = ordered /\ Open(r, Idle)
    BY <1>2, <2>1 DEF ReceiveCommit, Done
  <2>4. \A l \in Lines : received[l] \in Nat /\ seen.qty[l] \in Nat
    BY <2>2, ProductionAssumption DEF IndInv, RowsOK, Quantities
  <2>5. received' \in [Lines -> Nat] /\ \A l \in Lines : received'[l] >= received[l]
    BY <2>3, <2>4
  <2>6. Idle.op = "idle"  BY DEF Idle
  <2>7. ReceiptAgreed(Idle)'  BY <2>6 DEF ReceiptAgreed
  <2> QED  BY <2>3, <2>5, <2>7, OpenKeepsAgreement
<1> QED  BY <1>1, <1>2

LEMMA NextAgree == IndInv /\ AgreeInv /\ [Next]_vars => AgreeInv'
<1> SUFFICES ASSUME IndInv, AgreeInv, [Next]_vars PROVE AgreeInv'  OBVIOUS
<1>1. CASE UNCHANGED <<ordered, received, req>>
  BY <1>1 DEF AgreeInv, ReceiptAgreed
<1>2. CASE Update \/ Remove \/ \E l \in Lines, quantity \in 1..MaxQty : AddItem(l, quantity)
  <2>1. status = "DRAFT" /\ req' = req
    BY <1>2 DEF Update, DraftClaim, Remove, AddItem
  <2>2. \A q \in Requests : req[q].op \notin {"receive", "receiving"}
    BY <2>1 DEF IndInv, DraftIsQuiet
  <2> QED  BY <2>1, <2>2 DEF AgreeInv, ReceiptAgreed
<1>3. CASE UNCHANGED vars \/ \E d \in Notes : CreateNote(d) \/ CancelNote(d)
  BY <1>1, <1>3 DEF vars, CreateNote, CancelNote
<1> QED  BY <1>2, <1>3, ReadKeepsAgreement, WriteKeepsAgreement DEF Next

\* A receipt that commits is a receipt of the agreement.
LEMMA CommitIsReceipt ==
  ASSUME IndInv, AgreeInv, NEW r \in Requests, ReceiveCommit(r)
  PROVE  Agreement!Next
<1>1. PICK seen, qty : seen = req[r] /\ qty = seen.qty  OBVIOUS
<1>2. /\ seen.op = "receiving" /\ qty \in Quantities \ {NoUnits}
      /\ seen.next \in {"PARTIALLY_RECEIVED", "COMPLETED"}
      /\ seen.amount \in 0..Total(qty)
  BY <1>1 DEF ReceiveCommit, IndInv, RowsOK, OpenOK, Idle, AgreeInv, ReceiptAgreed
<1>3. /\ status' = seen.next /\ debt' = debt + seen.amount /\ ordered' = ordered
      /\ received' = [l \in Lines |-> received[l] + qty[l]]
      /\ WithinCredit(debt + seen.amount)
  BY <1>1 DEF ReceiveCommit, CanCharge
<1>4. /\ \A l \in Lines : received[l] + qty[l] <= ordered[l]
      /\ \A l \in Lines : received'[l] = received[l] + qty[l]
      /\ received' \in [Lines -> Nat] /\ ordered \in Quantities
  <2>1. ReceivedWithinOrder' /\ received' \in [Lines -> Nat] /\ ordered \in Quantities
    BY ReceiveCommitStep DEF IndInv, RowsOK
  <2> QED  BY <1>3, <2>1 DEF ReceivedWithinOrder
<1>5. ASSUME status' = "COMPLETED" PROVE received' = ordered
  <2>1. \A l \in Lines : received[l] + qty[l] >= ordered[l]
    BY <1>1, <1>2, <1>3, <1>5 DEF AgreeInv, ReceiptAgreed
  <2>2. \A l \in Lines : received'[l] \in Nat /\ ordered[l] \in Nat
    BY <1>4, ProductionAssumption DEF Quantities
  <2>3. \A l \in Lines : received'[l] = ordered[l]
    BY <1>4, <2>1, <2>2
  <2> QED  BY <1>4, <2>3 DEF Quantities
<1>6. status \notin {"DRAFT", "REMOVED"}
  BY <1>1, <1>2 DEF IndInv, DraftIsQuiet
<1>7. \E amount \in 0..[q \in Quantities |-> Total(q)][qty] : debt' = debt + amount
  BY <1>2, <1>3
<1>8. Agreement!Receive(qty)
  BY <1>2, <1>3, <1>4, <1>5, <1>6, <1>7 DEF Agreement!Receive, WithinCredit
<1> QED  BY <1>2, <1>8 DEF Agreement!Next, Agreement!Quantities, Agreement!NoUnits, Quantities, NoUnits

\* A status change that commits is one the agreement has.
LEMMA CommitIsMove ==
  ASSUME IndInv, NEW r \in Requests, SetStatusCommit(r)
  PROVE  Agreement!Next
<1>1. /\ ManualMove(status, status')
      /\ UNCHANGED <<ordered, received, debt>>
  BY DEF SetStatusCommit, StatusClaim, IndInv, RowsOK, OpenOK, Idle
<1>2. status \in {"DRAFT", "SENT"} => received = Agreement!NoUnits
  BY DEF IndInv, StatusShowsReceipts, Agreement!NoUnits, NoUnits
<1> QED
  BY <1>1, <1>2 DEF ManualMove, Agreement!Next, Agreement!Send, Agreement!Cancel,
                    Agreement!CloseShort, Agreement!Move

\* Every overlap of edits, status changes, notes and receipts on the rows of a
\* production request is a history of the agreement: fixed lines, no unit more
\* than ordered, debt only with goods and within the credit, COMPLETED by a
\* receipt only when nothing is missing (production-requests.service.ts).
THEOREM RequestKeepsAgreement == Spec => AgreementSpec
<1>1. Init => Agreement!Init
  BY DEF Init, Agreement!Init, Agreement!Quantities, Agreement!NoUnits, Quantities, NoUnits
<1>2. IndInv /\ IndInv' /\ AgreeInv /\ [Next]_vars => [Agreement!Next]_(Agreement!vars)
  <2> SUFFICES ASSUME IndInv, IndInv', AgreeInv, [Next]_vars
               PROVE  Agreement!Next \/ UNCHANGED Agreement!vars
    OBVIOUS
  <2>1. CASE UNCHANGED <<status, ordered, received, debt>>
    BY <2>1 DEF Agreement!vars
  <2>2. CASE Update \/ \E l \in Lines, quantity \in 1..MaxQty : AddItem(l, quantity)
    <3>1. /\ status = "DRAFT" /\ UNCHANGED <<status, received, debt>>
          /\ ordered' \in Agreement!Quantities
      BY <2>2 DEF Update, DraftClaim, AddItem, IndInv, RowsOK, Agreement!Quantities, Quantities
    <3> QED  BY <3>1 DEF Agreement!Next, Agreement!Edit
  <2>3. CASE Remove
    BY <2>3 DEF Remove, Agreement!Next, Agreement!Remove, Agreement!Move
  <2> QED
    BY <2>1, <2>2, <2>3, CommitIsReceipt, CommitIsMove
       DEF Next, vars, SetStatusRead, ReceiveRead, ReceiveWrite, Abandon, CreateNote, CancelNote
<1> QED
  BY InitIndInv, NextIndInv, InitAgree, NextAgree, <1>1, <1>2, PTL
     DEF Spec, AgreementSpec, Agreement!Spec

-------------------------------------------------------------------------------
(* Orders waiting for goods and what the workshop is asked for *)

OrderStatuses == {"NONE", "CONFIRMED", "PACKED", "SHIPPING", "CANCELLED"}
RequestStatuses == {"NONE", "DRAFT", "CANCELLED", "REMOVED"} \cup Locking
OrderRow == [status : OrderStatuses, sku : Skus, custom : BOOLEAN, qty : Nat]
RequestRow == [status : RequestStatuses, sku : Skus, line : LineIds, qty : Nat, got : Nat]

\* What an open request has read.
CallTyped(x) ==
  /\ x.op \in {"idle", "notify", "create", "customize", "pack", "request", "release", "receive"}
  /\ x.op = "create" => x.sku \in Skus /\ x.qty \in Nat /\ x.custom \in BOOLEAN
  /\ x.op \in {"customize", "pack"} => x.order \in Orders /\ x.sku \in Skus
  /\ x.op = "request" => x.sku \in Skus /\ x.line \in LineIds /\ x.qty \in Nat
  /\ x.op = "release" =>
       /\ x.request \in RequestIds /\ x.sku \in Skus
       /\ x.was \in RequestStatuses /\ x.to \in {"CANCELLED", "COMPLETED"}
  /\ x.op = "receive" =>
       /\ x.request \in RequestIds /\ x.sku \in Skus /\ x.line \in LineIds
       /\ x.qty \in Nat /\ x.defect \in 0..x.qty

SupplyTypes ==
  /\ order \in [Orders -> OrderRow]
  /\ own \in [Orders -> 0..MaxOwn]
  /\ shared \in [Skus -> Nat] /\ locked \in [Skus -> Nat]
  /\ pinned \in [Skus -> [Orders -> Nat]]
  /\ request \in [RequestIds -> RequestRow]
  /\ DOMAIN pend = Users /\ \A u \in Users : CallTyped(pend[u])

\* One call goes on to x.
LEMMA CallGoesOn ==
  ASSUME SupplyTypes, NEW u \in Users, NEW x, CallTyped(x), pend' = [pend EXCEPT ![u] = x]
  PROVE  /\ DOMAIN pend' = Users /\ \A v \in Users : CallTyped(pend[v])'
         /\ pend'[u] = x /\ \A v \in Users \ {u} : pend'[v] = pend[v]
<1>1. DOMAIN pend' = Users /\ pend'[u] = x /\ \A v \in Users \ {u} : pend'[v] = pend[v]
  BY DEF SupplyTypes
<1>2. ASSUME NEW v \in Users PROVE CallTyped(pend[v])'
  <2>1. PICK y : y = pend'[v] /\ CallTyped(y)  BY <1>1 DEF SupplyTypes
  <2> QED  BY <2>1 DEF CallTyped
<1> QED  BY <1>1, <1>2

LEMMA NoCallTyped == CallTyped(NoCall)
BY DEF CallTyped, NoCall

LEMMA NoticeTyped ==
  ASSUME NEW skus, NEW before
  PROVE  CallTyped([op |-> "notify", skus |-> skus, before |-> before])
BY DEF CallTyped

LEMMA NextOwnFits ==
  ASSUME SupplyTypes, NEW o \in Orders, own[o] < MaxOwn
  PROVE  NextOwn(o) \in Skus /\ own[o] + 1 \in 0..MaxOwn
<1>1. own[o] \in 0..MaxOwn /\ MaxOwn \in Nat  BY SupplyAssumption DEF SupplyTypes
<1>2. own[o] + 1 \in 1..MaxOwn  BY <1>1
<1> QED  BY <1>2 DEF NextOwn, Skus

\* The goods of a line are drawn from what is pinned to it, then from the ordinary ones.
LEMMA DrawTyped ==
  ASSUME SupplyTypes, NEW s \in Skus, NEW o \in Orders, NEW n \in Nat,
         DrawFits(s, o, n), Draw(s, o, n)
  PROVE  /\ shared' \in [Skus -> Nat] /\ pinned' \in [Skus -> [Orders -> Nat]]
         /\ \A t \in Skus, p \in Orders : pinned'[t][p] <= pinned[t][p]
<1>1. PICK k : k = OwnPart(s, o, n) /\ k \in Nat /\ k <= pinned[s][o] /\ n - k \in Nat /\ n - k <= shared[s]
  <2>1. pinned[s][o] \in Nat /\ shared[s] \in Nat  BY DEF SupplyTypes
  <2>2. OwnPart(s, o, n) = IF n <= pinned[s][o] THEN n ELSE pinned[s][o]
    BY <2>1 DEF OwnPart, Min
  <2> QED  BY <2>1, <2>2 DEF DrawFits
<1>2. pinned' = [pinned EXCEPT ![s][o] = @ - k] /\ shared' = [shared EXCEPT ![s] = @ - (n - k)]
  BY <1>1 DEF Draw
<1>3. pinned[s] \in [Orders -> Nat] /\ pinned[s][o] \in Nat /\ shared[s] \in Nat  BY DEF SupplyTypes
<1>4. pinned[s][o] - k \in Nat /\ shared[s] - (n - k) \in Nat  BY <1>1, <1>3
<1>5. PICK row : row = [pinned[s] EXCEPT ![o] = @ - k]  OBVIOUS
<1>6. row \in [Orders -> Nat] /\ \A p \in Orders : row[p] <= pinned[s][p]  BY <1>1, <1>3, <1>4, <1>5
<1>7. pinned' = [pinned EXCEPT ![s] = row]  BY <1>2, <1>5
<1>8. \A t \in Skus, p \in Orders : pinned[t][p] \in Nat  BY DEF SupplyTypes
<1> QED  BY <1>2, <1>4, <1>6, <1>7, <1>8 DEF SupplyTypes

LEMMA OrderCallsTyped ==
  ASSUME SupplyTypes, NEW u \in Users, OrderStep(u)
  PROVE  SupplyTypes'
<1>0. ASSUME NEW s \in Catalogue, NEW n \in OrderQtys, NEW custom \in BOOLEAN,
             CreateRead(u, s, n, custom)
      PROVE  SupplyTypes'
  <2>1. s \in Skus /\ n \in Nat  BY SupplyAssumption DEF Catalogue, Skus
  <2>2. PICK x : /\ x = [op |-> "create", sku |-> s, qty |-> n, custom |-> custom,
                         before |-> ShortAmong({s})]
                 /\ pend' = [pend EXCEPT ![u] = x]
    BY <1>0 DEF CreateRead, BeginCall
  <2>3. CallTyped(x)  BY <2>1, <2>2 DEF CallTyped
  <2>4. DOMAIN pend' = Users /\ \A v \in Users : CallTyped(pend[v])'  BY <2>2, <2>3, CallGoesOn
  <2>5. UNCHANGED <<order, own, shared, pinned, locked, request>>  BY <1>0 DEF CreateRead, goods
  <2> QED  BY <2>4, <2>5 DEF SupplyTypes
<1>1. ASSUME NEW o \in Orders, CreateCommit(u, o) PROVE SupplyTypes'
  <2>1. PICK s, n, custom : /\ s = pend[u].sku /\ n = pend[u].qty /\ custom = pend[u].custom
                            /\ s \in Skus /\ n \in Nat /\ custom \in BOOLEAN
    BY <1>1 DEF CreateCommit, SupplyTypes, CallTyped
  <2>2. custom => NextOwn(o) \in Skus /\ own[o] + 1 \in 0..MaxOwn
    BY <1>1, <2>1, NextOwnFits DEF CreateCommit
  <2>3. PICK x : /\ x = [status |-> "CONFIRMED", custom |-> custom, qty |-> n,
                         sku |-> IF custom THEN NextOwn(o) ELSE s]
                 /\ order' = [order EXCEPT ![o] = x]
    BY <1>1, <2>1 DEF CreateCommit
  <2>4. x \in OrderRow  BY <2>1, <2>2, <2>3 DEF OrderRow, OrderStatuses
  <2>5. order' \in [Orders -> OrderRow]  BY <2>3, <2>4 DEF SupplyTypes
  <2>6. own' \in [Orders -> 0..MaxOwn]
    <3>1. own' = IF custom THEN [own EXCEPT ![o] = @ + 1] ELSE own  BY <1>1, <2>1 DEF CreateCommit
    <3> QED  BY <2>2, <3>1 DEF SupplyTypes
  <2>7. PICK skus, before : pend' = [pend EXCEPT ![u] = [op |-> "notify", skus |-> skus, before |-> before]]
    BY <1>1 DEF CreateCommit, Tell
  <2>8. DOMAIN pend' = Users /\ \A v \in Users : CallTyped(pend[v])'
    BY <2>7, NoticeTyped, CallGoesOn
  <2> QED  BY <1>1, <2>5, <2>6, <2>8 DEF CreateCommit, goods, SupplyTypes
<1>2. ASSUME NEW o \in Orders, CustomizeRead(u, o) \/ PackRead(u, o) PROVE SupplyTypes'
  <2>1. order[o].sku \in Skus  BY DEF SupplyTypes, OrderRow
  <2>2. PICK x : pend' = [pend EXCEPT ![u] = x] /\ CallTyped(x)
    <3>1. CASE CustomizeRead(u, o)
      <4>1. PICK c, b : pend' = [pend EXCEPT ![u] = [op |-> "customize", order |-> o, sku |-> order[o].sku,
                                                     custom |-> c, before |-> b]]
        BY <3>1 DEF CustomizeRead, BeginCall
      <4>2. PICK x : x = [op |-> "customize", order |-> o, sku |-> order[o].sku, custom |-> c, before |-> b]
        OBVIOUS
      <4>3. CallTyped(x)  BY <2>1, <4>2 DEF CallTyped
      <4> QED  BY <4>1, <4>2, <4>3
    <3>2. CASE PackRead(u, o)
      <4>1. PICK x : x = [op |-> "pack", order |-> o, sku |-> order[o].sku]  OBVIOUS
      <4>2. CallTyped(x)  BY <2>1, <4>1 DEF CallTyped
      <4> QED  BY <3>2, <4>1, <4>2 DEF PackRead, BeginCall
    <3> QED  BY <1>2, <3>1, <3>2
  <2>3. DOMAIN pend' = Users /\ \A v \in Users : CallTyped(pend[v])'  BY <2>2, CallGoesOn
  <2>4. UNCHANGED <<order, own, shared, pinned, locked, request>>
    BY <1>2 DEF CustomizeRead, PackRead, goods
  <2> QED  BY <2>3, <2>4 DEF SupplyTypes
<1>3. ASSUME CustomizeCommit(u) PROVE SupplyTypes'
  <2>1. PICK o : o = pend[u].order /\ o \in Orders
    BY <1>3 DEF CustomizeCommit, SupplyTypes, CallTyped
  <2>2. PICK x : pend' = [pend EXCEPT ![u] = x] /\ CallTyped(x)
    BY <1>3, NoCallTyped, NoticeTyped DEF CustomizeCommit, Tell, EndCall
  <2>3. DOMAIN pend' = Users /\ \A v \in Users : CallTyped(pend[v])'  BY <2>2, CallGoesOn
  <2>4. CASE UNCHANGED <<order, own, request>>
    BY <1>3, <2>3, <2>4 DEF CustomizeCommit, goods, SupplyTypes
  <2>5. CASE /\ own[o] < MaxOwn /\ own' = [own EXCEPT ![o] = @ + 1]
             /\ order' = [order EXCEPT ![o].sku = NextOwn(o), ![o].custom = TRUE]
             /\ request' = Repointed(o, NextOwn(o))
    <3>1. PICK s : s = NextOwn(o) /\ s \in Skus /\ own[o] + 1 \in 0..MaxOwn
      BY <2>1, <2>5, NextOwnFits
    <3>2. PICK x2 : x2 = [order[o] EXCEPT !.sku = s, !.custom = TRUE]  OBVIOUS
    <3>3. order' = [order EXCEPT ![o] = x2]  BY <2>5, <3>1, <3>2 DEF SupplyTypes
    <3>4. order[o] \in OrderRow  BY <2>1 DEF SupplyTypes
    <3>5. x2 \in OrderRow  BY <3>1, <3>2, <3>4 DEF OrderRow
    <3>6. order' \in [Orders -> OrderRow]  BY <3>3, <3>5 DEF SupplyTypes
    <3>7. own' \in [Orders -> 0..MaxOwn]  BY <2>5, <3>1 DEF SupplyTypes
    <3>8. ASSUME NEW q \in RequestIds PROVE [request[q] EXCEPT !.sku = s] \in RequestRow
      <4>1. request[q] \in RequestRow  BY DEF SupplyTypes
      <4> QED  BY <3>1, <4>1 DEF RequestRow
    <3>9. request' \in [RequestIds -> RequestRow]
      BY <2>5, <3>1, <3>8 DEF Repointed, SupplyTypes
    <3> QED  BY <1>3, <2>3, <3>6, <3>7, <3>9 DEF CustomizeCommit, goods, SupplyTypes
  <2> QED  BY <1>3, <2>1, <2>4, <2>5 DEF CustomizeCommit
<1>4. ASSUME PackCommit(u) PROVE SupplyTypes'
  <2>1. PICK o, s : /\ o = pend[u].order /\ o \in Orders /\ s = pend[u].sku /\ s \in Skus
                    /\ order[o].qty \in Nat
    BY <1>4 DEF PackCommit, SupplyTypes, CallTyped, OrderRow
  <2>2. DOMAIN pend' = Users /\ \A v \in Users : CallTyped(pend[v])'
    BY <1>4, NoCallTyped, CallGoesOn DEF PackCommit, EndCall
  <2>3. CASE order' = [order EXCEPT ![o].status = "PACKED"] /\ locked' = [locked EXCEPT ![s] = @ + order[o].qty]
    <3>1. PICK x : x = [order[o] EXCEPT !.status = "PACKED"]  OBVIOUS
    <3>2. order' = [order EXCEPT ![o] = x]  BY <2>3, <3>1 DEF SupplyTypes
    <3>3. order[o] \in OrderRow  BY <2>1 DEF SupplyTypes
    <3>4. x \in OrderRow  BY <3>1, <3>3 DEF OrderRow, OrderStatuses
    <3>5. order' \in [Orders -> OrderRow] /\ locked' \in [Skus -> Nat]
      BY <2>1, <2>3, <3>2, <3>4 DEF SupplyTypes
    <3> QED  BY <1>4, <2>2, <3>5 DEF PackCommit, SupplyTypes
  <2>4. CASE UNCHANGED <<order, locked>>
    BY <1>4, <2>2, <2>4 DEF PackCommit, SupplyTypes
  <2> QED  BY <1>4, <2>1, <2>3, <2>4 DEF PackCommit
<1> QED  BY <1>0, <1>1, <1>2, <1>3, <1>4 DEF OrderStep

LEMMA RequestCallsTyped ==
  ASSUME SupplyTypes, NEW u \in Users, RequestStep(u)
  PROVE  SupplyTypes'
<1>1. ASSUME NEW s \in Catalogue, NEW l \in LineIds, NEW n \in RequestQtys, RequestRead(u, s, l, n)
      PROVE  SupplyTypes'
  <2>1. s \in Skus /\ n \in Nat  BY SupplyAssumption DEF Catalogue, Skus
  <2>2. PICK x : x = [op |-> "request", sku |-> s, line |-> l, qty |-> n]  OBVIOUS
  <2>3. pend' = [pend EXCEPT ![u] = x] /\ CallTyped(x)
    BY <1>1, <2>1, <2>2 DEF RequestRead, BeginCall, CallTyped
  <2>4. DOMAIN pend' = Users /\ \A v \in Users : CallTyped(pend[v])'  BY <2>3, CallGoesOn
  <2> QED  BY <1>1, <2>4 DEF RequestRead, goods, SupplyTypes
<1>2. ASSUME NEW q \in RequestIds, RequestCommit(u, q) PROVE SupplyTypes'
  <2>1. /\ pend[u].sku \in Skus /\ pend[u].line \in LineIds /\ pend[u].qty \in Nat
    BY <1>2 DEF RequestCommit, SupplyTypes, CallTyped
  <2>2. DOMAIN pend' = Users /\ \A v \in Users : CallTyped(pend[v])'
    BY <1>2, NoCallTyped, CallGoesOn DEF RequestCommit, EndCall
  <2>3. request' \in [RequestIds -> RequestRow]
    BY <1>2, <2>1 DEF RequestCommit, SupplyTypes, RequestRow, RequestStatuses
  <2> QED  BY <1>2, <2>2, <2>3 DEF RequestCommit, goods, SupplyTypes
<1>3. ASSUME NEW q \in RequestIds, ReleaseRead(u, q) PROVE SupplyTypes'
  <2>1. request[q] \in RequestRow  BY DEF SupplyTypes
  <2>2. PICK b : pend' = [pend EXCEPT ![u] =
                   [op |-> "release", request |-> q, was |-> request[q].status,
                    to |-> ReleaseTarget(q), sku |-> request[q].sku, before |-> b]]
    BY <1>3 DEF ReleaseRead, BeginCall
  <2>3. PICK x : x = [op |-> "release", request |-> q, was |-> request[q].status,
                      to |-> ReleaseTarget(q), sku |-> request[q].sku, before |-> b]  OBVIOUS
  <2>4. CallTyped(x)  BY <2>1, <2>3 DEF CallTyped, ReleaseTarget, RequestRow
  <2>5. DOMAIN pend' = Users /\ \A v \in Users : CallTyped(pend[v])'  BY <2>2, <2>3, <2>4, CallGoesOn
  <2> QED  BY <1>3, <2>5 DEF ReleaseRead, goods, SupplyTypes
<1>4. ASSUME NEW q \in RequestIds, NEW n \in ReceiptQtys, NEW defect \in 0..n,
             BringRead(u, q, n, defect)
      PROVE  SupplyTypes'
  <2>1. request[q] \in RequestRow  BY DEF SupplyTypes
  <2>2. n \in Nat  BY SupplyAssumption
  <2>3. RowOfRequest(q)[2] \in LineIds  BY <2>1 DEF RowOfRequest, RequestRow, LineIds
  <2>4. PICK x : x = [op |-> "receive", request |-> q, sku |-> request[q].sku,
                      line |-> RowOfRequest(q)[2], qty |-> n, defect |-> defect]  OBVIOUS
  <2>5. CallTyped(x)  BY <2>1, <2>2, <2>3, <2>4 DEF CallTyped, RequestRow
  <2>6. DOMAIN pend' = Users /\ \A v \in Users : CallTyped(pend[v])'
    BY <1>4, <2>4, <2>5, CallGoesOn DEF BringRead, BeginCall
  <2> QED  BY <1>4, <2>6 DEF BringRead, goods, SupplyTypes
<1>5. ASSUME ReleaseCommit(u) PROVE SupplyTypes'
  <2>1. PICK q, to : /\ q = pend[u].request /\ q \in RequestIds
                     /\ to = pend[u].to /\ to \in RequestStatuses
    BY <1>5 DEF ReleaseCommit, SupplyTypes, CallTyped, RequestStatuses, Locking
  <2>2. PICK x : pend' = [pend EXCEPT ![u] = x] /\ CallTyped(x)
    BY <1>5, NoCallTyped, NoticeTyped DEF ReleaseCommit, Tell, EndCall
  <2>3. DOMAIN pend' = Users /\ \A v \in Users : CallTyped(pend[v])'  BY <2>2, CallGoesOn
  <2>4. PICK z : z = [request[q] EXCEPT !.status = to]  OBVIOUS
  <2>5. request[q] \in RequestRow  BY <2>1 DEF SupplyTypes
  <2>6. z \in RequestRow  BY <2>1, <2>4, <2>5 DEF RequestRow
  <2>7. request' = [request EXCEPT ![q] = z] \/ request' = request
    BY <1>5, <2>1, <2>4 DEF ReleaseCommit
  <2>8. request' \in [RequestIds -> RequestRow]  BY <2>1, <2>6, <2>7 DEF SupplyTypes
  <2> QED  BY <1>5, <2>3, <2>8 DEF ReleaseCommit, goods, SupplyTypes
<1>6. ASSUME BringCommit(u) PROVE SupplyTypes'
  <2>1. PICK q, s, l : /\ q = pend[u].request /\ q \in RequestIds
                       /\ s = pend[u].sku /\ s \in Skus /\ l = pend[u].line /\ l \in LineIds
    BY <1>6 DEF BringCommit, SupplyTypes, CallTyped
  <2>2. PICK good, got : /\ good = pend[u].qty - pend[u].defect /\ good \in Nat
                         /\ got = request[q].got + pend[u].qty /\ got \in Nat
    <3>1. pend[u].qty \in Nat /\ pend[u].defect \in 0..pend[u].qty /\ request[q].got \in Nat
      BY <1>6, <2>1 DEF BringCommit, SupplyTypes, CallTyped, RequestRow
    <3> QED  BY <3>1
  <2>3. DOMAIN pend' = Users /\ \A v \in Users : CallTyped(pend[v])'
    BY <1>6, NoCallTyped, CallGoesOn DEF BringCommit, EndCall
  <2>4. CASE got <= request[q].qty
    <3>1. PICK to \in {"COMPLETED", "PARTIALLY_RECEIVED"} :
            request' = [request EXCEPT ![q].got = got, ![q].status = to]
      BY <1>6, <2>1, <2>2, <2>4 DEF BringCommit
    <3>2. PICK z : z = [request[q] EXCEPT !.got = got, !.status = to]  OBVIOUS
    <3>3. request' = [request EXCEPT ![q] = z]  BY <2>1, <3>1, <3>2 DEF SupplyTypes
    <3>4. request[q] \in RequestRow  BY <2>1 DEF SupplyTypes
    <3>5. z \in RequestRow  BY <2>2, <3>2, <3>4 DEF RequestRow, RequestStatuses, Locking
    <3>6. request' \in [RequestIds -> RequestRow]  BY <3>3, <3>5 DEF SupplyTypes
    <3>7. OpenLot(s, l, good)  BY <1>6, <2>1, <2>2, <2>4 DEF BringCommit
    <3>8. shared' \in [Skus -> Nat] /\ pinned' \in [Skus -> [Orders -> Nat]]
      <4>1. CASE l = NoLine  BY <2>1, <2>2, <3>7, <4>1 DEF OpenLot, SupplyTypes
      <4>2. CASE l # NoLine
        <5>1. l \in Orders  BY <2>1, <4>2 DEF LineIds
        <5>2. pinned[s] \in [Orders -> Nat]  BY <2>1 DEF SupplyTypes
        <5>3. PICK row : row = [pinned[s] EXCEPT ![l] = @ + good]  OBVIOUS
        <5>4. row \in [Orders -> Nat]  BY <2>2, <5>1, <5>2, <5>3
        <5>5. pinned' = [pinned EXCEPT ![s] = row] /\ shared' = shared
          BY <2>1, <3>7, <4>2, <5>3 DEF OpenLot, SupplyTypes
        <5> QED  BY <2>1, <5>4, <5>5 DEF SupplyTypes
      <4> QED  BY <4>1, <4>2
    <3> QED  BY <1>6, <2>3, <3>6, <3>8 DEF BringCommit, SupplyTypes
  <2>5. CASE ~(got <= request[q].qty)
    BY <1>6, <2>1, <2>2, <2>3, <2>5 DEF BringCommit, SupplyTypes
  <2> QED  BY <2>4, <2>5
<1> QED  BY <1>1, <1>2, <1>3, <1>4, <1>5, <1>6 DEF RequestStep

LEMMA NotifyTyped ==
  ASSUME SupplyTypes, NEW u \in Users, Notify(u)
  PROVE  SupplyTypes'
<1>1. DOMAIN pend' = Users /\ \A v \in Users : CallTyped(pend[v])'
  BY NoCallTyped, CallGoesOn DEF Notify, EndCall
<1> QED  BY <1>1 DEF Notify, goods, SupplyTypes

LEMMA OrderMovesTyped ==
  ASSUME SupplyTypes, NEW o \in Orders, HandOver(o) \/ CancelOrder(o)
  PROVE  SupplyTypes'
<1>1. PICK s, n : s = order[o].sku /\ s \in Skus /\ n = order[o].qty /\ n \in Nat
  BY DEF SupplyTypes, OrderRow
<1>2. PICK to \in {"SHIPPING", "CANCELLED"} : order' = [order EXCEPT ![o].status = to]
  BY DEF HandOver, CancelOrder
<1>3. PICK x : x = [order[o] EXCEPT !.status = to]  OBVIOUS
<1>4. order' = [order EXCEPT ![o] = x]  BY <1>2, <1>3 DEF SupplyTypes
<1>5. order[o] \in OrderRow  BY DEF SupplyTypes
<1>6. x \in OrderRow  BY <1>3, <1>5 DEF OrderRow, OrderStatuses
<1>7. order' \in [Orders -> OrderRow]  BY <1>4, <1>6 DEF SupplyTypes
<1>8. \/ locked' = locked
      \/ locked[s] >= n /\ locked' = [locked EXCEPT ![s] = @ - n]
  BY <1>1 DEF HandOver, CancelOrder
<1>9. locked' \in [Skus -> Nat]
  <2>1. locked[s] \in Nat  BY <1>1 DEF SupplyTypes
  <2>2. locked[s] >= n => locked[s] - n \in Nat  BY <1>1, <2>1
  <2> QED  BY <1>1, <1>8, <2>2 DEF SupplyTypes
<1>10. shared' \in [Skus -> Nat] /\ pinned' \in [Skus -> [Orders -> Nat]]
  <2>1. CASE HandOver(o)
    <3>1. DrawFits(s, o, n) /\ Draw(s, o, n)  BY <1>1, <2>1 DEF HandOver
    <3> QED  BY <1>1, <3>1, DrawTyped
  <2>2. CASE CancelOrder(o)  BY <2>2 DEF CancelOrder, SupplyTypes
  <2> QED  BY <2>1, <2>2
<1>11. UNCHANGED <<own, request, pend>>  BY DEF HandOver, CancelOrder
<1>12. \A v \in Users : CallTyped(pend[v])'
  BY <1>11 DEF SupplyTypes, CallTyped
<1> QED  BY <1>7, <1>9, <1>10, <1>11, <1>12 DEF SupplyTypes

LEMMA OthersTyped ==
  ASSUME SupplyTypes,
         \/ \E q \in RequestIds : Send(q) \/ RemoveDraft(q)
         \/ \E s \in Skus : Sell(s)
  PROVE  SupplyTypes'
<1>1. UNCHANGED <<order, own, pinned, locked, pend>>  BY DEF Send, RemoveDraft, Sell, goods
<1>2. \A v \in Users : CallTyped(pend[v])'  BY <1>1 DEF SupplyTypes, CallTyped
<1>3. ASSUME NEW q \in RequestIds, Send(q) \/ RemoveDraft(q) PROVE SupplyTypes'
  <2>1. PICK to \in {"SENT", "REMOVED"} : request' = [request EXCEPT ![q].status = to]
    BY <1>3 DEF Send, RemoveDraft
  <2>2. PICK z : z = [request[q] EXCEPT !.status = to]  OBVIOUS
  <2>3. request' = [request EXCEPT ![q] = z] /\ request[q] \in RequestRow
    BY <2>1, <2>2 DEF SupplyTypes
  <2>4. z \in RequestRow  BY <2>2, <2>3 DEF RequestRow, RequestStatuses, Locking
  <2>5. shared' = shared  BY <1>3 DEF Send, RemoveDraft, goods
  <2> QED  BY <1>1, <1>2, <2>3, <2>4, <2>5 DEF SupplyTypes
<1>4. ASSUME NEW s \in Skus, Sell(s) PROVE SupplyTypes'
  <2>1. shared[s] \in Nat /\ shared[s] >= 1 /\ shared' = [shared EXCEPT ![s] = @ - 1] /\ request' = request
    BY <1>4 DEF Sell, SupplyTypes
  <2>2. shared[s] - 1 \in Nat  BY <2>1
  <2> QED  BY <1>1, <1>2, <2>1, <2>2 DEF SupplyTypes
<1> QED  BY <1>3, <1>4

LEMMA SupplyTypesStep ==
  ASSUME SupplyTypes, [SupplyNext]_supplyVars
  PROVE  SupplyTypes'
<1>1. CASE Step
  BY <1>1, OrderCallsTyped, RequestCallsTyped, OrderMovesTyped, OthersTyped DEF Step
<1>2. CASE UNCHANGED supplyVars
  <2>1. \A v \in Users : CallTyped(pend[v])'  BY <1>2 DEF supplyVars, SupplyTypes, CallTyped
  <2> QED  BY <1>2, <2>1 DEF supplyVars, SupplyTypes
<1> QED  BY <1>1, <1>2, NotifyTyped DEF SupplyNext

LEMMA SupplyTypesInit == SupplyInit => SupplyTypes
<1> SUFFICES ASSUME SupplyInit PROVE SupplyTypes  OBVIOUS
<1>1. Std \in Skus /\ NoLine \in LineIds  BY DEF Skus, LineIds
<1>2. PICK x : x = NoOrder  OBVIOUS
<1>3. x \in OrderRow  BY <1>1, <1>2 DEF NoOrder, OrderRow, OrderStatuses
<1>4. PICK z : z = NoRequest  OBVIOUS
<1>5. z \in RequestRow  BY <1>1, <1>4 DEF NoRequest, RequestRow, RequestStatuses
<1>6. order \in [Orders -> OrderRow] /\ request \in [RequestIds -> RequestRow]
  BY <1>2, <1>3, <1>4, <1>5 DEF SupplyInit
<1>7. \A u \in Users : CallTyped(pend[u])  BY NoCallTyped DEF SupplyInit
<1>8. own \in [Orders -> 0..MaxOwn]  BY SupplyAssumption DEF SupplyInit
<1>9. shared \in [Skus -> Nat] /\ locked \in [Skus -> Nat] /\ pinned \in [Skus -> [Orders -> Nat]]
  BY SupplyAssumption DEF SupplyInit
<1> QED  BY <1>6, <1>7, <1>8, <1>9 DEF SupplyInit, SupplyTypes

-------------------------------------------------------------------------------
\* The goods locked of an SKU are those of the packed orders of it.
PackedOf(s) == {o \in Orders : order[o].status = "PACKED" /\ order[o].sku = s}
LockedFollows == \A s \in Skus \ misread : locked[s] = SumFunctionOnSet(Qtys, PackedOf(s))

LEMMA QtysAreUnits ==
  ASSUME SupplyTypes
  PROVE  \A o \in Orders : Qtys[o] = order[o].qty /\ Qtys[o] \in Nat
BY DEF SupplyTypes, OrderRow, Qtys

\* Of one SKU the packed orders and what is locked stay.
LEMMA PackedStays ==
  ASSUME SupplyTypes, SupplyTypes', LockedFollows, NEW s \in Skus \ misread, locked'[s] = locked[s],
         \A o \in Orders : /\ o \in PackedOf(s) <=> o \in PackedOf(s)'
                           /\ o \in PackedOf(s) => order'[o].qty = order[o].qty
  PROVE  locked'[s] = SumFunctionOnSet(Qtys, PackedOf(s))'
<1>1. PackedOf(s)' = PackedOf(s) /\ PackedOf(s) \subseteq Orders  BY DEF PackedOf
<1>2. IsFiniteSet(PackedOf(s))  BY <1>1, SupplyAssumption, FS_Subset
<1>3. \A o \in PackedOf(s) : Qtys[o] = Qtys'[o]  BY <1>1 DEF Qtys
<1>4. SumFunctionOnSet(Qtys, PackedOf(s)) = SumFunctionOnSet(Qtys', PackedOf(s))
  BY <1>2, <1>3, SumSame
<1>5. SumFunctionOnSet(Qtys, PackedOf(s))' = SumFunctionOnSet(Qtys', PackedOf(s)')  OBVIOUS
<1> QED  BY <1>1, <1>4, <1>5 DEF LockedFollows

\* One more order of it is packed, or one less.
LEMMA PackedGrows ==
  ASSUME SupplyTypes, SupplyTypes', LockedFollows, NEW s \in Skus \ misread, NEW o \in Orders,
         o \notin PackedOf(s), PackedOf(s)' = PackedOf(s) \cup {o},
         locked'[s] = locked[s] + order[o].qty, \A p \in Orders : order'[p].qty = order[p].qty
  PROVE  locked'[s] = SumFunctionOnSet(Qtys, PackedOf(s))'
<1>1. PICK S : S = PackedOf(s)  OBVIOUS
<1>2. S \subseteq Orders /\ IsFiniteSet(S)  BY <1>1, SupplyAssumption, FS_Subset DEF PackedOf
<1>3. Qtys' = Qtys  BY DEF Qtys
<1>4. \A p \in Orders : Qtys[p] \in Int /\ Qtys[p] = order[p].qty  BY QtysAreUnits
<1>5. SumFunctionOnSet(Qtys, S \cup {o}) = Qtys[o] + SumFunctionOnSet(Qtys, S)
  BY <1>1, <1>2, <1>4, SumAdd
<1>6. SumFunctionOnSet(Qtys, S) \in Int  BY <1>2, <1>4, SumType
<1>7. SumFunctionOnSet(Qtys, PackedOf(s))' = SumFunctionOnSet(Qtys, S \cup {o})
  BY <1>1, <1>3
<1>8. locked[s] = SumFunctionOnSet(Qtys, S)  BY <1>1 DEF LockedFollows
<1> QED  BY <1>4, <1>5, <1>6, <1>7, <1>8

LEMMA PackedShrinks ==
  ASSUME SupplyTypes, SupplyTypes', LockedFollows, NEW s \in Skus \ misread, NEW o \in PackedOf(s),
         PackedOf(s)' = PackedOf(s) \ {o},
         locked'[s] = locked[s] - order[o].qty, \A p \in Orders : order'[p].qty = order[p].qty
  PROVE  locked'[s] = SumFunctionOnSet(Qtys, PackedOf(s))'
<1>1. PICK S : S = PackedOf(s)  OBVIOUS
<1>2. S \subseteq Orders /\ IsFiniteSet(S) /\ IsFiniteSet(S \ {o})
  BY <1>1, SupplyAssumption, FS_Subset DEF PackedOf
<1>3. Qtys' = Qtys  BY DEF Qtys
<1>4. \A p \in Orders : Qtys[p] \in Int /\ Qtys[p] = order[p].qty  BY QtysAreUnits
<1>5. SumFunctionOnSet(Qtys, S) = Qtys[o] + SumFunctionOnSet(Qtys, S \ {o})
  BY <1>1, <1>2, <1>4, SumRemove
<1>6. SumFunctionOnSet(Qtys, S \ {o}) \in Int  BY <1>2, <1>4, SumType
<1>7. SumFunctionOnSet(Qtys, PackedOf(s))' = SumFunctionOnSet(Qtys, S \ {o})
  BY <1>1, <1>3
<1>8. locked[s] = SumFunctionOnSet(Qtys, S)  BY <1>1 DEF LockedFollows
<1> QED  BY <1>1, <1>2, <1>4, <1>5, <1>6, <1>7, <1>8

\* Nothing is packed or unpacked.
LEMMA LockQuiet ==
  ASSUME SupplyTypes, SupplyTypes', LockedFollows, locked' = locked, misread \subseteq misread',
         \A o \in Orders : order[o].status = "PACKED" \/ order'[o].status = "PACKED" =>
           order'[o] = order[o]
  PROVE  LockedFollows'
<1>1. ASSUME NEW s \in Skus \ misread'
      PROVE  locked'[s] = SumFunctionOnSet(Qtys, PackedOf(s))'
  <2>1. \A o \in Orders : /\ o \in PackedOf(s) <=> o \in PackedOf(s)'
                          /\ o \in PackedOf(s) => order'[o].qty = order[o].qty
    BY DEF PackedOf
  <2> QED  BY <1>1, <2>1, PackedStays
<1> QED  BY <1>1 DEF LockedFollows

LEMMA LockedFollowsStep ==
  ASSUME SupplyTypes, SupplyTypes', LockedFollows, [SupplyNext]_supplyVars
  PROVE  LockedFollows'
<1>1. ASSUME UNCHANGED <<order, locked>>, misread \subseteq misread' PROVE LockedFollows'
  BY <1>1, LockQuiet
<1>2. ASSUME NEW u \in Users, OrderStep(u) PROVE LockedFollows'
  <2>1. ASSUME NEW o \in Orders, CreateCommit(u, o)
        PROVE  LockedFollows'
    <3>0. PICK s, x : /\ x = [status |-> "CONFIRMED", custom |-> pend[u].custom, qty |-> pend[u].qty, sku |-> s]
                      /\ order' = [order EXCEPT ![o] = x]
      BY <2>1 DEF CreateCommit
    <3>1. order' = [order EXCEPT ![o] = x] /\ x.status = "CONFIRMED"  BY <3>0
    <3>2. \A p \in Orders : order'[p] = IF p = o THEN x ELSE order[p]
      BY <3>1 DEF SupplyTypes
    <3>3. order[o].status = "NONE" /\ locked' = locked /\ misread' = misread
      BY <2>1 DEF CreateCommit, goods
    <3> QED  BY <3>1, <3>2, <3>3, LockQuiet
  <2>2. ASSUME CustomizeCommit(u) PROVE LockedFollows'
    <3>1. locked' = locked /\ misread' = misread  BY <2>2 DEF CustomizeCommit, goods
    <3>2. CASE order' = order  BY <3>1, <3>2, LockQuiet
    <3>3. CASE order' # order
      <4>1. PICK o, s : o \in Orders /\
              order' = [order EXCEPT ![o].sku = s, ![o].custom = TRUE] /\ order[o].status = "CONFIRMED"
        BY <2>2, <3>3 DEF CustomizeCommit, SupplyTypes, CallTyped
      <4>2. order[o] \in OrderRow  BY <4>1 DEF SupplyTypes
      <4>3. order'[o].status = order[o].status /\ \A p \in Orders \ {o} : order'[p] = order[p]
        BY <4>1, <4>2 DEF SupplyTypes, OrderRow
      <4> QED  BY <3>1, <4>1, <4>3, LockQuiet
    <3> QED  BY <3>2, <3>3
  <2>3. ASSUME PackCommit(u) PROVE LockedFollows'
    <3>1. PICK o \in Orders, t \in Skus : o = pend[u].order /\ t = pend[u].sku
      BY <2>3 DEF PackCommit, SupplyTypes, CallTyped
    <3>2. CASE UNCHANGED <<order, locked, misread>>  BY <1>1, <3>2
    <3>3. CASE ~UNCHANGED <<order, locked, misread>>
      <4>1. /\ order[o].status = "CONFIRMED" /\ order' = [order EXCEPT ![o].status = "PACKED"]
            /\ locked' = [locked EXCEPT ![t] = @ + order[o].qty]
            /\ misread' = IF t = order[o].sku THEN misread ELSE misread \cup {t, order[o].sku}
        BY <2>3, <3>1, <3>3 DEF PackCommit
      <4>2. order[o] \in OrderRow  BY DEF SupplyTypes
      <4>3. /\ order'[o].status = "PACKED" /\ order'[o].sku = order[o].sku /\ order'[o].qty = order[o].qty
            /\ \A p \in Orders \ {o} : order'[p] = order[p]
        BY <4>1, <4>2 DEF SupplyTypes, OrderRow
      <4>4. ASSUME NEW s \in Skus \ misread'
            PROVE  locked'[s] = SumFunctionOnSet(Qtys, PackedOf(s))'
        <5>1. s \notin misread /\ (t = order[o].sku \/ s \notin {t, order[o].sku})  BY <4>1, <4>4
        <5>2. CASE s = order[o].sku
          <6>1. o \notin PackedOf(s) /\ PackedOf(s)' = PackedOf(s) \cup {o}
            BY <4>1, <4>3, <5>2 DEF PackedOf
          <6>2. locked'[s] = locked[s] + order[o].qty  BY <4>1, <5>1, <5>2 DEF SupplyTypes
          <6>3. \A p \in Orders : order'[p].qty = order[p].qty  BY <4>3
          <6> QED  BY <5>1, <6>1, <6>2, <6>3, PackedGrows
        <5>3. CASE s # order[o].sku
          <6>1. locked'[s] = locked[s]  BY <4>1, <5>1, <5>3 DEF SupplyTypes
          <6>2. \A p \in Orders : /\ p \in PackedOf(s) <=> p \in PackedOf(s)'
                                  /\ p \in PackedOf(s) => order'[p].qty = order[p].qty
            BY <4>3, <5>3 DEF PackedOf
          <6> QED  BY <5>1, <6>1, <6>2, PackedStays
        <5> QED  BY <5>2, <5>3
      <4> QED  BY <4>4 DEF LockedFollows
    <3> QED  BY <3>2, <3>3
  <2>4. ASSUME \/ \E s, n, custom : CreateRead(u, s, n, custom)
               \/ \E o \in Orders : CustomizeRead(u, o) \/ PackRead(u, o)
        PROVE  LockedFollows'
    <3>1. UNCHANGED <<order, locked, misread>>  BY <2>4 DEF CreateRead, CustomizeRead, PackRead, goods
    <3> QED  BY <1>1, <3>1
  <2> QED  BY <1>2, <2>1, <2>2, <2>3, <2>4 DEF OrderStep
<1>3. ASSUME NEW o \in Orders, HandOver(o) \/ CancelOrder(o) PROVE LockedFollows'
  <2>1. PICK t, n : t = order[o].sku /\ n = order[o].qty /\ t \in Skus
    BY DEF SupplyTypes, OrderRow
  <2>2. PICK to \in {"SHIPPING", "CANCELLED"} : order' = [order EXCEPT ![o].status = to]
    BY <1>3 DEF HandOver, CancelOrder
  <2>3. order[o] \in OrderRow  BY DEF SupplyTypes
  <2>4. /\ order'[o].status = to /\ order'[o].sku = t /\ order'[o].qty = n
        /\ \A p \in Orders \ {o} : order'[p] = order[p]
    BY <2>1, <2>2, <2>3 DEF SupplyTypes, OrderRow
  <2>5. misread' = misread  BY <1>3 DEF HandOver, CancelOrder
  <2>6. CASE order[o].status = "PACKED"
    <3>1. locked' = [locked EXCEPT ![t] = @ - n]
      BY <1>3, <2>1, <2>6 DEF HandOver, CancelOrder
    <3>2. ASSUME NEW s \in Skus \ misread'
          PROVE  locked'[s] = SumFunctionOnSet(Qtys, PackedOf(s))'
      <4>1. CASE s = t
        <5>1. o \in PackedOf(s) /\ PackedOf(s)' = PackedOf(s) \ {o}
          BY <2>1, <2>4, <2>6, <4>1 DEF PackedOf
        <5>2. locked'[s] = locked[s] - order[o].qty  BY <2>1, <3>1, <4>1 DEF SupplyTypes
        <5>3. \A p \in Orders : order'[p].qty = order[p].qty  BY <2>1, <2>4
        <5> QED  BY <2>5, <3>2, <5>1, <5>2, <5>3, PackedShrinks
      <4>2. CASE s # t
        <5>1. locked'[s] = locked[s]  BY <2>1, <3>1, <4>2 DEF SupplyTypes
        <5>2. \A p \in Orders : /\ p \in PackedOf(s) <=> p \in PackedOf(s)'
                                /\ p \in PackedOf(s) => order'[p].qty = order[p].qty
          BY <2>1, <2>4, <4>2 DEF PackedOf
        <5> QED  BY <2>5, <3>2, <5>1, <5>2, PackedStays
      <4> QED  BY <4>1, <4>2
    <3> QED  BY <3>2 DEF LockedFollows
  <2>7. CASE order[o].status # "PACKED"
    <3>1. locked' = locked  BY <1>3, <2>7 DEF HandOver, CancelOrder
    <3> QED  BY <2>4, <2>5, <2>7, <3>1, LockQuiet
  <2> QED  BY <2>6, <2>7
<1>4. ASSUME NEW u \in Users, RequestStep(u) \/ Notify(u) PROVE LockedFollows'
  <2>1. UNCHANGED <<order, locked>> /\ misread \subseteq misread'
    <3>1. CASE RequestStep(u)
      BY <3>1 DEF RequestStep, RequestRead, RequestCommit, ReleaseRead, ReleaseCommit, BringRead, BringCommit, goods
    <3>2. CASE Notify(u)  BY <3>2 DEF Notify, goods
    <3> QED  BY <1>4, <3>1, <3>2
  <2> QED  BY <1>1, <2>1
<1>5. CASE \/ \E q \in RequestIds : Send(q) \/ RemoveDraft(q)
           \/ \E s \in Skus : Sell(s)
           \/ UNCHANGED supplyVars
  <2>1. UNCHANGED <<order, locked, misread>>
    BY <1>5 DEF Send, RemoveDraft, Sell, goods, supplyVars
  <2> QED  BY <1>1, <2>1
<1> QED  BY <1>2, <1>3, <1>4, <1>5 DEF SupplyNext, Step

LEMMA LockedFollowsInit == SupplyInit => LockedFollows
<1> SUFFICES ASSUME SupplyInit, NEW s \in Skus PROVE locked[s] = SumFunctionOnSet(Qtys, PackedOf(s))
  BY DEF LockedFollows
<1>1. PackedOf(s) = {}  BY DEF SupplyInit, NoOrder, PackedOf
<1> QED  BY <1>1, SumEmpty DEF SupplyInit

-------------------------------------------------------------------------------
(* The list and the shelf: what a list without a short row promises *)

LEMMA UnitsOfSku ==
  ASSUME SupplyTypes, NEW s \in Skus
  PROVE  /\ shared[s] \in Nat /\ locked[s] \in Nat /\ pinned[s] \in [Orders -> Nat]
         /\ PinnedTo(s) \in Nat /\ Stock(s) = shared[s] + PinnedTo(s)
         /\ \A l \in LineIds : /\ RowStock(<<s, l>>) \in Nat
                               /\ RowStock(<<s, NoLine>>) = shared[s]
                               /\ l # NoLine => RowStock(<<s, l>>) = pinned[s][l]
<1>1. shared[s] \in Nat /\ locked[s] \in Nat /\ pinned[s] \in [Orders -> Nat]  BY DEF SupplyTypes
<1>2. PinnedTo(s) \in Nat
  <2>1. \A o \in Orders : pinned[s][o] \in Nat  BY <1>1
  <2> QED  BY <2>1, SumNat, SupplyAssumption DEF PinnedTo
<1>3. RowStock(<<s, NoLine>>) = shared[s]
  BY <1>1, <1>2 DEF RowStock, Stock, AtLeastZero
<1>4. ASSUME NEW l \in LineIds, l # NoLine
      PROVE  RowStock(<<s, l>>) = pinned[s][l] /\ pinned[s][l] \in Nat
  BY <1>1, <1>4 DEF RowStock, LineIds
<1> QED  BY <1>1, <1>2, <1>3, <1>4 DEF Stock

LEMMA ComingIsUnits ==
  ASSUME SupplyTypes, NEW row, NEW statuses
  PROVE  /\ Bringing(row, statuses) \subseteq RequestIds /\ IsFiniteSet(Bringing(row, statuses))
         /\ \A q \in RequestIds : Outstanding[q] \in Nat
         /\ Coming(row, statuses) \in Nat
<1>1. ASSUME NEW q \in RequestIds PROVE Outstanding[q] \in Nat
  <2>1. request[q].qty \in Nat /\ request[q].got \in Nat  BY DEF SupplyTypes, RequestRow
  <2>2. PICK k : k = request[q].qty - request[q].got /\ k \in Int  BY <2>1
  <2>3. Outstanding[q] = AtLeastZero(k)  BY <2>2 DEF Outstanding
  <2> QED  BY <2>2, <2>3 DEF AtLeastZero
<1>2. Bringing(row, statuses) \subseteq RequestIds  BY DEF Bringing
<1>3. IsFiniteSet(Bringing(row, statuses))  BY <1>2, SupplyAssumption, FS_Subset
<1>4. \A q \in Bringing(row, statuses) : Outstanding[q] \in Nat  BY <1>1, <1>2
<1>5. Coming(row, statuses) \in Nat  BY <1>3, <1>4, SumNat DEF Coming
<1> QED  BY <1>1, <1>2, <1>3, <1>5

LEMMA DemandIsUnits ==
  ASSUME SupplyTypes, NEW row
  PROVE  /\ Waiting(row) \subseteq Orders /\ IsFiniteSet(Waiting(row))
         /\ Demand(row) \in Nat
<1>1. Waiting(row) \subseteq Orders  BY DEF Waiting
<1>2. IsFiniteSet(Waiting(row))  BY <1>1, SupplyAssumption, FS_Subset
<1>3. \A o \in Waiting(row) : Qtys[o] \in Nat  BY <1>1, QtysAreUnits
<1> QED  BY <1>1, <1>2, <1>3, SumNat DEF Demand

\* A row that is not short and waits for nothing has its units in stock.
LEMMA RowIsMet ==
  ASSUME SupplyTypes, NEW s \in Skus, NEW l \in LineIds,
         Coming(<<s, l>>, OnOrder \cup {"DRAFT"}) = 0, Short(<<s, l>>) = 0
  PROVE  Demand(<<s, l>>) \in Nat /\ Demand(<<s, l>>) <= RowStock(<<s, l>>)
<1>1. PICK row : row = <<s, l>>  OBVIOUS
<1>2. PICK B : B = Bringing(row, OnOrder \cup {"DRAFT"}) /\ IsFiniteSet(B)
               /\ \A q \in B : Outstanding[q] \in Nat
  BY ComingIsUnits
<1>3. Coming(row, OnOrder \cup {"DRAFT"}) = SumFunctionOnSet(Outstanding, B)  BY <1>2 DEF Coming
<1>4. ASSUME NEW S, S \subseteq OnOrder \cup {"DRAFT"} PROVE Coming(row, S) = 0
  <2>1. Bringing(row, S) \subseteq B  BY <1>2, <1>4 DEF Bringing
  <2>2. Coming(row, S) <= SumFunctionOnSet(Outstanding, B)
    BY <1>2, <2>1, SumSubset DEF Coming
  <2>3. Coming(row, S) \in Nat  BY ComingIsUnits
  <2> QED  BY <1>1, <1>3, <2>2, <2>3
<1>5. Coming(row, OnOrder) = 0 /\ Coming(row, {"DRAFT"}) = 0  BY <1>4
<1>6. PICK d, k : d = Demand(row) /\ d \in Nat /\ k = RowStock(row) /\ k \in Nat
  BY <1>1, DemandIsUnits, UnitsOfSku
<1>7. AtLeastZero(d - k - 0 - 0) = 0  BY <1>1, <1>5, <1>6 DEF Short
<1>8. d <= k  BY <1>6, <1>7 DEF AtLeastZero
<1> QED  BY <1>1, <1>6, <1>8

LEMMA SumOfOne ==
  ASSUME NEW f, NEW x, f[x] \in Int
  PROVE  SumFunctionOnSet(f, {x}) = f[x]
<1>1. {x} = {} \cup {x} /\ IsFiniteSet({})  BY FS_EmptySet
<1>2. SumFunctionOnSet(f, {} \cup {x}) = f[x] + SumFunctionOnSet(f, {})
  BY <1>1, SumAdd
<1> QED  BY <1>1, <1>2, SumEmpty

\* The lines waiting for an SKU: those made to measure, each with its row, and the others.
LEMMA LinesApart ==
  ASSUME SupplyTypes, NEW s \in Skus
  PROVE  /\ LinesOf(s) \subseteq Orders
         /\ \A o \in LinesOf(s) : order[o].custom => Waiting(<<s, o>>) = {o}
         /\ Waiting(<<s, NoLine>>) = {o \in LinesOf(s) : ~order[o].custom}
<1>1. NoLine \notin Orders  BY SupplyAssumption
<1>2. ASSUME NEW o \in LinesOf(s), order[o].custom PROVE Waiting(<<s, o>>) = {o}
  <2>1. o \in Orders /\ order[o].sku = s /\ order[o].status \in Unshipped  BY DEF LinesOf
  <2>2. o \in Waiting(<<s, o>>)  BY <1>2, <2>1 DEF Waiting, RowOfOrder
  <2>3. ASSUME NEW p \in Waiting(<<s, o>>) PROVE p = o
    <3>1. p \in Orders /\ o = IF order[p].custom THEN p ELSE NoLine  BY DEF Waiting, RowOfOrder
    <3> QED  BY <1>1, <2>1, <3>1
  <2> QED  BY <2>2, <2>3
<1>3. ASSUME NEW o \in Orders
      PROVE  o \in Waiting(<<s, NoLine>>) <=> o \in LinesOf(s) /\ ~order[o].custom
  <2>1. RowOfOrder(o) = <<order[o].sku, IF order[o].custom THEN o ELSE NoLine>>  BY DEF RowOfOrder
  <2>2. RowOfOrder(o) = <<s, NoLine>> <=> order[o].sku = s /\ ~order[o].custom
    BY <1>1, <2>1
  <2> QED  BY <2>2 DEF Waiting, LinesOf
<1>4. Waiting(<<s, NoLine>>) \subseteq Orders /\ LinesOf(s) \subseteq Orders  BY DEF Waiting, LinesOf
<1> QED  BY <1>2, <1>3, <1>4

LEMMA PlanShips ==
  ASSUME SupplyTypes, LockedFollows, NEW s \in Skus \ misread,
         \A row \in RowsOf({s}) : Coming(row, OnOrder \cup {"DRAFT"}) = 0 /\ Short(row) = 0
  PROVE  /\ \A o \in LinesOf(s) : StockCheck(o) = "ENOUGH" /\ DrawFits(s, o, order[o].qty)
         /\ SumFunctionOnSet([o \in Orders |-> Left(o)], LinesOf(s)) <= shared[s]
<1>1. PICK W, P, C : /\ W = LinesOf(s) /\ P = {o \in W : ~order[o].custom} /\ C = W \ P
                     /\ W \subseteq Orders
  BY LinesApart
<1>2. /\ IsFiniteSet(W) /\ IsFiniteSet(P) /\ IsFiniteSet(C)
      /\ P \subseteq Orders /\ C \subseteq Orders /\ P \subseteq W /\ C \subseteq W
  BY <1>1, SupplyAssumption, FS_Subset
<1>3. \A l \in LineIds : Demand(<<s, l>>) \in Nat /\ Demand(<<s, l>>) <= RowStock(<<s, l>>)
  <2>1. ASSUME NEW l \in LineIds PROVE <<s, l>> \in RowsOf({s})  BY DEF RowsOf
  <2> QED  BY <2>1, RowIsMet
<1>4. \A o \in Orders : Qtys[o] = order[o].qty /\ Qtys[o] \in Nat /\ Qtys[o] \in Int  BY QtysAreUnits
<1>5. /\ shared[s] \in Nat /\ locked[s] \in Nat /\ PinnedTo(s) \in Nat
      /\ Stock(s) = shared[s] + PinnedTo(s)
      /\ \A o \in Orders : pinned[s][o] \in Nat
  BY UnitsOfSku
<1>6. ASSUME NEW o \in C PROVE order[o].qty <= pinned[s][o]
  <2>1. o \in Orders /\ o \in LineIds /\ o # NoLine /\ order[o].custom /\ o \in LinesOf(s)
    BY <1>1, SupplyAssumption DEF LineIds
  <2>2. Waiting(<<s, o>>) = {o}  BY <2>1, LinesApart
  <2>3. Demand(<<s, o>>) = order[o].qty  BY <1>4, <2>1, <2>2, SumOfOne DEF Demand
  <2>4. RowStock(<<s, o>>) = pinned[s][o]  BY <2>1, UnitsOfSku
  <2> QED  BY <1>3, <2>1, <2>3, <2>4
<1>7. PICK p : p = SumFunctionOnSet(Qtys, P) /\ p \in Nat /\ p <= shared[s]
               /\ \A o \in P : Qtys[o] <= p
  <2>1. Demand(<<s, NoLine>>) = SumFunctionOnSet(Qtys, P)  BY <1>1, LinesApart DEF Demand
  <2>2. RowStock(<<s, NoLine>>) = shared[s] /\ NoLine \in LineIds  BY UnitsOfSku DEF LineIds
  <2>3. \A o \in P : Qtys[o] \in Nat  BY <1>2, <1>4
  <2>4. \A o \in P : Qtys[o] <= SumFunctionOnSet(Qtys, P)  BY <1>2, <2>3, SumNat
  <2> QED  BY <1>3, <2>1, <2>2, <2>4
<1>8. PICK c : c = SumFunctionOnSet(Qtys, C) /\ c \in Nat /\ c <= PinnedTo(s)
  <2>1. \A o \in C : Qtys[o] \in Int /\ pinned[s][o] \in Int /\ Qtys[o] <= pinned[s][o]
    BY <1>2, <1>4, <1>5, <1>6
  <2>2. SumFunctionOnSet(Qtys, C) <= SumFunctionOnSet(pinned[s], C)  BY <1>2, <2>1, SumBelow
  <2>3. SumFunctionOnSet(pinned[s], C) <= SumFunctionOnSet(pinned[s], Orders)
    BY <1>2, <1>5, SupplyAssumption, SumSubset
  <2>4. SumFunctionOnSet(pinned[s], C) \in Int  BY <1>2, <2>1, SumType
  <2>5. \A o \in C : Qtys[o] \in Nat  BY <1>2, <1>4
  <2>6. SumFunctionOnSet(Qtys, C) \in Nat  BY <1>2, <2>5, SumNat
  <2> QED  BY <1>5, <2>2, <2>3, <2>4, <2>6 DEF PinnedTo
<1>9. SumFunctionOnSet(Qtys, W) = p + c
  <2>1. \A o \in W : Qtys[o] \in Int  BY <1>1, <1>4
  <2> QED  BY <1>1, <1>2, <1>7, <1>8, <2>1, SumParts
<1>10. ASSUME NEW o \in W PROVE StockCheck(o) = "ENOUGH" /\ DrawFits(s, o, order[o].qty)
  <2>1. o \in Orders /\ order[o].sku = s /\ order[o].status \in Unshipped  BY <1>1 DEF LinesOf
  <2>2. order[o].qty \in Nat  BY <1>4, <2>1
  <2>3. DrawFits(s, o, order[o].qty)
    <3>1. CASE o \in P  BY <1>4, <1>5, <1>7, <2>1, <2>2, <3>1 DEF DrawFits
    <3>2. CASE o \in C  BY <1>5, <1>6, <2>1, <2>2, <3>2 DEF DrawFits
    <3> QED  BY <1>1, <3>1, <3>2
  <2>4. CASE order[o].status = "PACKED"  BY <2>3, <2>4 DEF StockCheck
  <2>5. CASE order[o].status # "PACKED"
    <3>1. PackedOf(s) \subseteq W \ {o} /\ IsFiniteSet(W \ {o})
      BY <1>1, <1>2, <2>5, FS_Subset DEF PackedOf, LinesOf, Unshipped
    <3>2. \A x \in W : Qtys[x] \in Int  BY <1>1, <1>4
    <3>3. SumFunctionOnSet(Qtys, W) = Qtys[o] + SumFunctionOnSet(Qtys, W \ {o})
      BY <1>2, <3>2, SumRemove
    <3>4. \A x \in W \ {o} : Qtys[x] \in Nat  BY <1>1, <1>4
    <3>5. locked[s] <= SumFunctionOnSet(Qtys, W \ {o})
      BY <3>1, <3>4, SumSubset DEF LockedFollows
    <3>6. SumFunctionOnSet(Qtys, W \ {o}) \in Nat  BY <3>1, <3>4, SumNat
    <3>7. order[o].qty <= Stock(s) - locked[s]
      BY <1>4, <1>5, <1>7, <1>8, <1>9, <2>1, <2>2, <3>3, <3>5, <3>6
    <3> QED  BY <2>1, <2>3, <3>7 DEF StockCheck, Shelf
  <2> QED  BY <2>4, <2>5
<1>11. SumFunctionOnSet([o \in Orders |-> Left(o)], W) <= shared[s]
  <2>1. PICK f : f = [o \in Orders |-> Left(o)]  OBVIOUS
  <2>2. ASSUME NEW o \in W PROVE f[o] \in Nat /\ f[o] <= Qtys[o] /\ (o \in C => f[o] = 0)
    <3>1. o \in Orders /\ order[o].sku = s  BY <1>1 DEF LinesOf
    <3>2. PICK n, k : n = order[o].qty /\ n \in Nat /\ n = Qtys[o] /\ k = pinned[s][o] /\ k \in Nat
      BY <1>4, <1>5, <3>1
    <3>3. OwnPart(s, o, n) = IF n <= k THEN n ELSE k  BY <3>2 DEF OwnPart, Min
    <3>4. f[o] = n - OwnPart(s, o, n)  BY <2>1, <3>1, <3>2 DEF Left
    <3>5. o \in C => n <= k  BY <1>6, <3>2
    <3> QED  BY <3>2, <3>3, <3>4, <3>5
  <2>3. SumFunctionOnSet(f, W) = SumFunctionOnSet(f, P)
    <3>1. \A x \in W : f[x] \in Int  BY <2>2
    <3>2. \A x \in W \ P : f[x] = 0  BY <1>1, <2>2
    <3> QED  BY <1>2, <3>1, <3>2, SumNonZero
  <2>4. SumFunctionOnSet(f, P) <= p
    <3>1. \A x \in P : f[x] \in Int /\ Qtys[x] \in Int /\ f[x] <= Qtys[x]  BY <1>2, <1>4, <2>2
    <3> QED  BY <1>2, <1>7, <3>1, SumBelow
  <2>5. SumFunctionOnSet(f, P) \in Int
    <3>1. \A x \in P : f[x] \in Int  BY <1>2, <2>2
    <3> QED  BY <1>2, <3>1, SumType
  <2> QED  BY <1>5, <1>7, <2>1, <2>3, <2>4, <2>5
<1> QED  BY <1>1, <1>10, <1>11

LEMMA PlanShipsAlways ==
  ASSUME SupplyTypes, LockedFollows
  PROVE  CoveredPlanShips
<1>1. Wanted \subseteq Skus  BY DEF Wanted, SupplyTypes, OrderRow
<1> QED  BY <1>1, PlanShips DEF CoveredPlanShips

-------------------------------------------------------------------------------
(* What is made for a line, what it is asked to be, and what the line is *)

Asked == {"DRAFT"} \cup Locking
Brought == {"PARTIALLY_RECEIVED", "COMPLETED"}
Exists(l) == order[l].status # "NONE"

\* A request of a line is for the line's SKU as long as the two have not raced;
\* of a line still of the catalogue it always is.
RequestFits(q) ==
  (request[q].status # "NONE" /\ request[q].line # NoLine) =>
    LET l == request[q].line
    IN /\ Exists(l)
       /\ ~order[l].custom => request[q].sku = order[l].sku
       /\ (request[q].status \in Asked /\ l \notin overtaken) => request[q].sku = order[l].sku

\* Goods made for a line are the line's, and there is the request that brought them.
PinFits(s, o) ==
  pinned[s][o] > 0 =>
    /\ Exists(o)
    /\ o \notin overtaken => /\ order[o].sku = s
                             /\ \E q \in RequestIds : request[q].line = o /\ request[q].status \in Brought

CustomizeFits(x) ==
  x.op = "customize" =>
    /\ Exists(x.order)
    /\ ~order[x.order].custom => x.sku = order[x.order].sku /\ ~x.custom
AskFits(x) ==
  (x.op = "request" /\ x.line # NoLine) =>
    /\ Exists(x.line)
    /\ ~order[x.line].custom => x.sku = order[x.line].sku
BringFits(x) ==
  x.op = "receive" =>
    /\ request[x.request].status \in Locking \cup {"CANCELLED"}
    /\ x.sku = request[x.request].sku
    /\ x.line # NoLine => x.line = request[x.request].line
ReleaseFits(x) ==
  x.op = "release" =>
    \/ x.was \in {"DRAFT", "SENT"} /\ x.to = "CANCELLED"
    \/ x.was = "PARTIALLY_RECEIVED" /\ x.to = "COMPLETED"
CallFits(x) == CustomizeFits(x) /\ AskFits(x) /\ BringFits(x) /\ ReleaseFits(x)

Fits ==
  /\ \A q \in RequestIds : RequestFits(q)
  /\ \A s \in Skus, o \in Orders : PinFits(s, o)
  /\ \A u \in Users : CallFits(pend[u])

\* An order that exists stays what it is; a request goes on.
Stands(o) ==
  Exists(o) => /\ Exists(o)' /\ order'[o].sku = order[o].sku
               /\ order'[o].custom => order[o].custom
               /\ order[o].custom => order'[o].custom
GoesOn(q) ==
  request[q].status # "NONE" =>
    /\ request'[q].status # "NONE"
    /\ request'[q].sku = request[q].sku /\ request'[q].line = request[q].line
    /\ request[q].status \in Brought => request'[q].status \in Brought
    /\ request[q].status \in Locking \cup {"CANCELLED"} =>
         request'[q].status \in Locking \cup {"CANCELLED"}
    /\ (request'[q].status \in Asked /\ request[q].line \in Orders \ overtaken') =>
         request[q].status \in Asked

LEMMA RequestFitsStays ==
  ASSUME SupplyTypes, Fits, overtaken \subseteq overtaken',
         \A o \in Orders : Stands(o), NEW q \in RequestIds, GoesOn(q), request[q].status # "NONE"
  PROVE  RequestFits(q)'
<1>1. PICK l : l = request[q].line /\ l \in LineIds  BY DEF SupplyTypes, RequestRow
<1>2. CASE l = NoLine  BY <1>1, <1>2 DEF GoesOn, RequestFits
<1>3. CASE l # NoLine
  <2>1. l \in Orders /\ RequestFits(q)  BY <1>1, <1>3 DEF LineIds, Fits
  <2>2. Exists(l) /\ Stands(l)  BY <1>1, <1>3, <2>1 DEF RequestFits
  <2>3. Exists(l)' /\ order'[l].sku = order[l].sku  BY <2>2 DEF Stands
  <2>4. request'[q].sku = request[q].sku /\ request'[q].line = l  BY <1>1 DEF GoesOn
  <2>5. ASSUME ~order'[l].custom PROVE request'[q].sku = order'[l].sku
    <3>1. ~order[l].custom  BY <2>2, <2>5 DEF Stands
    <3>2. request[q].sku = order[l].sku  BY <1>1, <1>3, <2>1, <3>1 DEF RequestFits
    <3> QED  BY <2>3, <2>4, <3>2
  <2>6. ASSUME request'[q].status \in Asked, l \notin overtaken' PROVE request'[q].sku = order'[l].sku
    <3>1. request[q].status \in Asked /\ l \notin overtaken  BY <1>1, <2>1, <2>6 DEF GoesOn
    <3>2. request[q].sku = order[l].sku  BY <1>1, <1>3, <2>1, <3>1 DEF RequestFits
    <3> QED  BY <2>3, <2>4, <3>2
  <2> QED  BY <2>3, <2>4, <2>5, <2>6 DEF RequestFits
<1> QED  BY <1>2, <1>3

LEMMA PinFitsStays ==
  ASSUME SupplyTypes, Fits, overtaken \subseteq overtaken',
         \A o \in Orders : Stands(o), \A q \in RequestIds : GoesOn(q),
         NEW s \in Skus, NEW o \in Orders, pinned[s][o] > 0
  PROVE  PinFits(s, o)'
<1>1. PinFits(s, o) /\ Stands(o)  BY DEF Fits
<1>2. Exists(o)' /\ order'[o].sku = order[o].sku  BY <1>1 DEF PinFits, Stands
<1>3. ASSUME o \notin overtaken'
      PROVE  /\ order'[o].sku = s
             /\ \E q \in RequestIds : request'[q].line = o /\ request'[q].status \in Brought
  <2>1. order[o].sku = s /\ \E q \in RequestIds : request[q].line = o /\ request[q].status \in Brought
    BY <1>1, <1>3 DEF PinFits
  <2>2. PICK q \in RequestIds : request[q].line = o /\ request[q].status \in Brought  BY <2>1
  <2>3. request[q].status # "NONE" /\ GoesOn(q)  BY <2>2 DEF Brought
  <2>4. request'[q].line = o /\ request'[q].status \in Brought  BY <2>2, <2>3 DEF GoesOn
  <2> QED  BY <1>2, <2>1, <2>4
<1> QED  BY <1>2, <1>3 DEF PinFits

LEMMA CallFitsStays ==
  ASSUME SupplyTypes, Fits, \A o \in Orders : Stands(o), \A q \in RequestIds : GoesOn(q),
         NEW u \in Users, pend'[u] = pend[u]
  PROVE  CallFits(pend[u])'
<1>1. PICK x : x = pend[u] /\ CallTyped(x) /\ CallFits(x)  BY DEF SupplyTypes, Fits
<1>2. ASSUME x.op = "customize"
      PROVE  Exists(x.order)' /\ (~order'[x.order].custom => x.sku = order'[x.order].sku /\ ~x.custom)
  <2>1. x.order \in Orders /\ Stands(x.order) /\ CustomizeFits(x)
    BY <1>1, <1>2 DEF CallTyped, CallFits
  <2>2. Exists(x.order)  BY <1>2, <2>1 DEF CustomizeFits
  <2>3. Exists(x.order)'  BY <2>1, <2>2 DEF Stands
  <2>4. ASSUME ~order'[x.order].custom PROVE x.sku = order'[x.order].sku /\ ~x.custom
    <3>1. ~order[x.order].custom  BY <2>1, <2>2, <2>4 DEF Stands
    <3> QED  BY <1>2, <2>1, <2>2, <3>1 DEF CustomizeFits, Stands
  <2> QED  BY <2>3, <2>4
<1>3. ASSUME x.op = "request", x.line # NoLine
      PROVE  Exists(x.line)' /\ (~order'[x.line].custom => x.sku = order'[x.line].sku)
  <2>1. x.line \in Orders /\ Stands(x.line) /\ AskFits(x)
    BY <1>1, <1>3 DEF CallTyped, CallFits, LineIds
  <2>2. Exists(x.line)  BY <1>3, <2>1 DEF AskFits
  <2>3. Exists(x.line)'  BY <2>1, <2>2 DEF Stands
  <2>4. ASSUME ~order'[x.line].custom PROVE x.sku = order'[x.line].sku
    <3>1. ~order[x.line].custom  BY <2>1, <2>2, <2>4 DEF Stands
    <3> QED  BY <1>3, <2>1, <2>2, <3>1 DEF AskFits, Stands
  <2> QED  BY <2>3, <2>4
<1>4. ASSUME x.op = "receive"
      PROVE  /\ request'[x.request].status \in Locking \cup {"CANCELLED"}
             /\ x.sku = request'[x.request].sku
             /\ x.line # NoLine => x.line = request'[x.request].line
  <2>1. x.request \in RequestIds /\ GoesOn(x.request) /\ BringFits(x)
    BY <1>1, <1>4 DEF CallTyped, CallFits
  <2>2. request[x.request].status \in Locking \cup {"CANCELLED"}  BY <1>4, <2>1 DEF BringFits
  <2>3. request[x.request].status # "NONE"  BY <2>2 DEF Locking
  <2> QED  BY <1>4, <2>1, <2>2, <2>3 DEF BringFits, GoesOn
<1>5. ReleaseFits(x)  BY <1>1 DEF CallFits
<1>6. CustomizeFits(pend[u])'  BY <1>1, <1>2 DEF CustomizeFits
<1>7. AskFits(pend[u])'  BY <1>1, <1>3 DEF AskFits
<1>8. BringFits(pend[u])'  BY <1>1, <1>4 DEF BringFits
<1>9. ReleaseFits(pend[u])'  BY <1>1, <1>5 DEF ReleaseFits
<1> QED  BY <1>6, <1>7, <1>8, <1>9 DEF CallFits

\* A step that leaves orders and requests what they are, but for what it adds.
LEMMA FitsKept ==
  ASSUME SupplyTypes, Fits, overtaken \subseteq overtaken',
         \A o \in Orders : Stands(o), \A q \in RequestIds : GoesOn(q),
         \A q \in RequestIds : request[q].status = "NONE" =>
           request'[q].status = "NONE" \/ RequestFits(q)',
         \A s \in Skus, o \in Orders : pinned[s][o] > 0 \/ ~(pinned'[s][o] > 0) \/ PinFits(s, o)',
         \A u \in Users : pend'[u] = pend[u] \/ CallFits(pend[u])'
  PROVE  Fits'
<1>1. ASSUME NEW q \in RequestIds PROVE RequestFits(q)'
  <2>1. CASE request[q].status = "NONE"  BY <2>1 DEF RequestFits
  <2>2. CASE request[q].status # "NONE"  BY <2>2, RequestFitsStays
  <2> QED  BY <2>1, <2>2
<1>2. ASSUME NEW s \in Skus, NEW o \in Orders PROVE PinFits(s, o)'
  <2>1. CASE pinned[s][o] > 0  BY <2>1, PinFitsStays
  <2>2. CASE ~(pinned'[s][o] > 0)  BY <2>2 DEF PinFits
  <2> QED  BY <2>1, <2>2
<1>3. ASSUME NEW u \in Users PROVE CallFits(pend[u])'
  BY <1>3, CallFitsStays
<1> QED  BY <1>1, <1>2, <1>3 DEF Fits

\* Most steps leave orders, requests or both alone.
LEMMA OrdersStand == ASSUME order' = order PROVE \A o \in Orders : Stands(o)
BY DEF Stands, Exists

LEMMA RequestsGoOn == ASSUME request' = request PROVE \A q \in RequestIds : GoesOn(q)
BY DEF GoesOn

LEMMA OrderMoves ==
  ASSUME SupplyTypes, NEW o \in Orders, NEW to \in OrderStatuses \ {"NONE"},
         order' = [order EXCEPT ![o].status = to]
  PROVE  \A p \in Orders : Stands(p)
<1>1. order[o] \in OrderRow  BY DEF SupplyTypes
<1>2. PICK x : x = [order[o] EXCEPT !.status = to]  OBVIOUS
<1>3. x.status = to /\ x.sku = order[o].sku /\ x.custom = order[o].custom  BY <1>1, <1>2 DEF OrderRow
<1>4. \A p \in Orders : order'[p] = IF p = o THEN x ELSE order[p]  BY <1>2 DEF SupplyTypes
<1> QED  BY <1>3, <1>4 DEF Stands, Exists

LEMMA RequestMoves ==
  ASSUME SupplyTypes, NEW q \in RequestIds, NEW z,
         request' = [request EXCEPT ![q] = z],
         request[q].status # "NONE" => /\ z.status # "NONE"
                                       /\ z.sku = request[q].sku /\ z.line = request[q].line,
         request[q].status \in Brought => z.status \in Brought,
         request[q].status \in Locking \cup {"CANCELLED"} => z.status \in Locking \cup {"CANCELLED"},
         (z.status \in Asked /\ request[q].line \in Orders \ overtaken') =>
            request[q].status \in Asked \cup {"NONE"}
  PROVE  \A p \in RequestIds : GoesOn(p)
<1>1. \A p \in RequestIds : request'[p] = IF p = q THEN z ELSE request[p]  BY DEF SupplyTypes
<1>2. GoesOn(q)  BY <1>1 DEF GoesOn
<1>3. ASSUME NEW p \in RequestIds \ {q} PROVE GoesOn(p)  BY <1>1 DEF GoesOn
<1> QED  BY <1>2, <1>3

\* A call that reads what it is about.
LEMMA CallsFit ==
  ASSUME SupplyTypes, NEW u \in Users, NEW x, pend' = [pend EXCEPT ![u] = x], CallFits(x)'
  PROVE  \A v \in Users : pend'[v] = pend[v] \/ CallFits(pend[v])'
<1>1. pend'[u] = x /\ \A v \in Users \ {u} : pend'[v] = pend[v]  BY DEF SupplyTypes
<1>2. CallFits(pend[u])'
  BY <1>1 DEF CallFits, CustomizeFits, AskFits, BringFits, ReleaseFits
<1> QED  BY <1>1, <1>2

LEMMA PlainCallFits ==
  ASSUME NEW x, x.op \in {"idle", "notify", "create", "pack"}
  PROVE  CallFits(x)'
BY DEF CallFits, CustomizeFits, AskFits, BringFits, ReleaseFits

LEMMA OrderReadsFit ==
  ASSUME SupplyTypes, Fits, NEW u \in Users, NEW o \in Orders, CustomizeRead(u, o) \/ PackRead(u, o)
  PROVE  Fits'
<1>1. UNCHANGED <<order, own, shared, pinned, locked, request, misread, overtaken>>
  BY DEF CustomizeRead, PackRead, goods
<1>2. CASE CustomizeRead(u, o)
  <2>1. PICK b, x : /\ x = [op |-> "customize", order |-> o, sku |-> order[o].sku,
                            custom |-> order[o].custom, before |-> b]
                    /\ pend' = [pend EXCEPT ![u] = x]
    BY <1>2 DEF CustomizeRead, BeginCall
  <2>2. Exists(o)'  BY <1>1, <1>2 DEF CustomizeRead, Exists
  <2>3. x.op = "customize" /\ x.order = o /\ x.sku = order[o].sku  BY <2>1
  <2>4. x.custom => order[o].custom  BY <2>1
  <2>5. CallFits(x)'
    BY <1>1, <2>2, <2>3, <2>4 DEF CallFits, CustomizeFits, AskFits, BringFits, ReleaseFits
  <2>6. \A v \in Users : pend'[v] = pend[v] \/ CallFits(pend[v])'  BY <2>1, <2>5, CallsFit
  <2> QED  BY <1>1, <2>6, FitsKept, OrdersStand, RequestsGoOn
<1>3. CASE PackRead(u, o)
  <2>1. PICK x : /\ x = [op |-> "pack", order |-> o, sku |-> order[o].sku]
                 /\ pend' = [pend EXCEPT ![u] = x]
    BY <1>3 DEF PackRead, BeginCall
  <2>2. CallFits(x)'  BY <2>1, PlainCallFits
  <2>3. \A v \in Users : pend'[v] = pend[v] \/ CallFits(pend[v])'  BY <2>1, <2>2, CallsFit
  <2> QED  BY <1>1, <2>3, FitsKept, OrdersStand, RequestsGoOn
<1> QED  BY <1>2, <1>3

LEMMA CreateReadFits ==
  ASSUME SupplyTypes, Fits, NEW u \in Users, NEW s, NEW n, NEW custom, CreateRead(u, s, n, custom)
  PROVE  Fits'
<1>1. UNCHANGED <<order, own, shared, pinned, locked, request, misread, overtaken>>
  BY DEF CreateRead, goods
<1>2. PICK x : /\ x = [op |-> "create", sku |-> s, qty |-> n, custom |-> custom, before |-> ShortAmong({s})]
               /\ pend' = [pend EXCEPT ![u] = x]
  BY DEF CreateRead, BeginCall
<1>3. x.op = "create"  BY <1>2
<1>4. CallFits(x)'  BY <1>3, PlainCallFits
<1>5. \A v \in Users : pend'[v] = pend[v] \/ CallFits(pend[v])'  BY <1>2, <1>4, CallsFit
<1> QED  BY <1>1, <1>5, FitsKept, OrdersStand, RequestsGoOn

LEMMA CreateFits ==
  ASSUME SupplyTypes, Fits, NEW u \in Users, NEW o \in Orders, CreateCommit(u, o)
  PROVE  Fits'
<1>1. UNCHANGED <<pinned, request, overtaken>> /\ order[o].status = "NONE"  BY DEF CreateCommit, goods
<1>2. PICK x : order' = [order EXCEPT ![o] = x]  BY DEF CreateCommit
<1>3. \A p \in Orders : Stands(p)
  <2>1. \A p \in Orders \ {o} : order'[p] = order[p]  BY <1>2 DEF SupplyTypes
  <2> QED  BY <1>1, <2>1 DEF Stands, Exists
<1>4. PICK y : pend' = [pend EXCEPT ![u] = y] /\ y.op = "notify"
  <2>1. PICK skus, before : pend' = [pend EXCEPT ![u] = [op |-> "notify", skus |-> skus, before |-> before]]
    BY DEF CreateCommit, Tell
  <2>2. PICK y : y = [op |-> "notify", skus |-> skus, before |-> before]  OBVIOUS
  <2>3. y.op = "notify"  BY <2>2
  <2> QED  BY <2>1, <2>2, <2>3
<1>5. \A v \in Users : pend'[v] = pend[v] \/ CallFits(pend[v])'  BY <1>4, PlainCallFits, CallsFit
<1> QED  BY <1>1, <1>3, <1>5, FitsKept, RequestsGoOn

\* An order packed, handed over or cancelled, and goods sold, are what they were.
LEMMA OrderMovesFit ==
  ASSUME SupplyTypes, SupplyTypes', Fits,
         \/ \E u \in Users : PackCommit(u)
         \/ \E o \in Orders : HandOver(o) \/ CancelOrder(o)
         \/ \E s \in Skus : Sell(s)
  PROVE  Fits'
<1>1. UNCHANGED <<request, overtaken>>  BY DEF PackCommit, HandOver, CancelOrder, Sell
<1>2. \A o \in Orders : Stands(o)
  <2>1. CASE order' = order  BY <2>1, OrdersStand
  <2>2. CASE order' # order
    <3>1. PICK o \in Orders, to \in {"PACKED", "SHIPPING", "CANCELLED"} :
            order' = [order EXCEPT ![o].status = to]
      BY <2>2 DEF PackCommit, HandOver, CancelOrder, Sell, SupplyTypes, CallTyped
    <3>2. to \in OrderStatuses \ {"NONE"}  BY DEF OrderStatuses
    <3> QED  BY <3>1, <3>2, OrderMoves
  <2> QED  BY <2>1, <2>2
<1>3. \A s \in Skus, o \in Orders : pinned[s][o] > 0 \/ ~(pinned'[s][o] > 0)
  <2>1. CASE pinned' = pinned  BY <2>1
  <2>2. CASE pinned' # pinned
    <3>1. PICK o \in Orders : HandOver(o)  BY <2>2 DEF PackCommit, CancelOrder, Sell
    <3>2. PICK s, n : s = order[o].sku /\ s \in Skus /\ n = order[o].qty /\ n \in Nat
      BY DEF SupplyTypes, OrderRow
    <3>3. DrawFits(s, o, n) /\ Draw(s, o, n)  BY <3>1, <3>2 DEF HandOver
    <3>4. ASSUME NEW t \in Skus, NEW p \in Orders
          PROVE  pinned'[t][p] <= pinned[t][p] /\ pinned'[t][p] \in Nat /\ pinned[t][p] \in Nat
      BY <3>2, <3>3, DrawTyped DEF SupplyTypes
    <3> QED  BY <3>4
  <2> QED  BY <2>1, <2>2
<1>4. \A v \in Users : pend'[v] = pend[v] \/ CallFits(pend[v])'
  <2>1. CASE pend' = pend  BY <2>1
  <2>2. CASE pend' # pend
    <3>1. PICK u \in Users : pend' = [pend EXCEPT ![u] = NoCall]
      BY <2>2 DEF PackCommit, HandOver, CancelOrder, Sell, EndCall
    <3>2. NoCall.op = "idle"  BY DEF NoCall
    <3> QED  BY <3>1, <3>2, PlainCallFits, CallsFit
  <2> QED  BY <2>1, <2>2
<1> QED  BY <1>1, <1>2, <1>3, <1>4, FitsKept, RequestsGoOn

LEMMA RequestReadsFit ==
  ASSUME SupplyTypes, Fits, NEW u \in Users,
         \/ \E s \in Catalogue, l \in LineIds, n \in RequestQtys : RequestRead(u, s, l, n)
         \/ \E q \in RequestIds : ReleaseRead(u, q)
         \/ \E q \in RequestIds, n \in ReceiptQtys : \E defect \in 0..n : BringRead(u, q, n, defect)
         \/ Notify(u)
  PROVE  Fits'
<1>1. UNCHANGED <<order, own, shared, pinned, locked, request, misread, overtaken>>
  BY DEF RequestRead, ReleaseRead, BringRead, Notify, goods
<1>2. PICK x : pend' = [pend EXCEPT ![u] = x] /\ CallFits(x)'
  <2>1. ASSUME NEW s \in Catalogue, NEW l \in LineIds, NEW n, RequestRead(u, s, l, n)
        PROVE  \E x : pend' = [pend EXCEPT ![u] = x] /\ CallFits(x)'
    <3>1. PICK x : x = [op |-> "request", sku |-> s, line |-> l, qty |-> n]  OBVIOUS
    <3>2. x.op = "request" /\ x.sku = s /\ x.line = l  BY <3>1
    <3>3. l # NoLine => Exists(l)' /\ s = order'[l].sku
      BY <1>1, <2>1 DEF RequestRead, LineFits, Exists, Unshipped
    <3>4. CallFits(x)'  BY <3>2, <3>3 DEF CallFits, CustomizeFits, AskFits, BringFits, ReleaseFits
    <3> QED  BY <2>1, <3>1, <3>4 DEF RequestRead, BeginCall
  <2>2. ASSUME NEW q \in RequestIds, ReleaseRead(u, q)
        PROVE  \E x : pend' = [pend EXCEPT ![u] = x] /\ CallFits(x)'
    <3>1. PICK b, x : /\ x = [op |-> "release", request |-> q, was |-> request[q].status,
                              to |-> ReleaseTarget(q), sku |-> request[q].sku, before |-> b]
                      /\ pend' = [pend EXCEPT ![u] = x]
      BY <2>2 DEF ReleaseRead, BeginCall
    <3>2. x.op = "release" /\ x.was = request[q].status /\ x.to = ReleaseTarget(q)  BY <3>1
    <3>3. request[q].got \in Nat  BY DEF SupplyTypes, RequestRow
    <3>4. \/ request[q].status \in {"DRAFT", "SENT"} /\ ReleaseTarget(q) = "CANCELLED"
          \/ request[q].status = "PARTIALLY_RECEIVED" /\ ReleaseTarget(q) = "COMPLETED"
      BY <2>2, <3>3 DEF ReleaseRead, ReleaseTarget
    <3>5. CallFits(x)'  BY <3>2, <3>4 DEF CallFits, CustomizeFits, AskFits, BringFits, ReleaseFits
    <3> QED  BY <3>1, <3>5
  <2>3. ASSUME NEW q \in RequestIds, NEW n, NEW defect, BringRead(u, q, n, defect)
        PROVE  \E x : pend' = [pend EXCEPT ![u] = x] /\ CallFits(x)'
    <3>1. PICK l : l = RowOfRequest(q)[2] /\ (l # NoLine => l = request[q].line)
      BY DEF RowOfRequest
    <3>2. PICK x : x = [op |-> "receive", request |-> q, sku |-> request[q].sku,
                        line |-> l, qty |-> n, defect |-> defect]  OBVIOUS
    <3>3. x.op = "receive" /\ x.request = q /\ x.sku = request[q].sku /\ x.line = l  BY <3>2
    <3>4. request[q].status \in Locking \cup {"CANCELLED"}
      BY <2>3 DEF BringRead, OnOrder, Locking
    <3>5. CallFits(x)'
      BY <1>1, <3>1, <3>3, <3>4 DEF CallFits, CustomizeFits, AskFits, BringFits, ReleaseFits
    <3> QED  BY <2>3, <3>1, <3>2, <3>5 DEF BringRead, BeginCall
  <2>4. CASE Notify(u)
    <3>1. PICK x : x = NoCall  OBVIOUS
    <3>2. x.op = "idle"  BY <3>1 DEF NoCall
    <3>4. CallFits(x)'  BY <3>2, PlainCallFits
    <3>3. pend' = [pend EXCEPT ![u] = x]  BY <2>4, <3>1 DEF Notify, EndCall
    <3> QED  BY <3>3, <3>4
  <2> QED  BY <2>1, <2>2, <2>3, <2>4
<1>3. \A v \in Users : pend'[v] = pend[v] \/ CallFits(pend[v])'  BY <1>2, CallsFit
<1> QED  BY <1>1, <1>3, FitsKept, OrdersStand, RequestsGoOn

LEMMA CallEnds ==
  ASSUME SupplyTypes, NEW u \in Users, EndCall(u)
  PROVE  \A v \in Users : pend'[v] = pend[v] \/ CallFits(pend[v])'
<1>1. NoCall.op = "idle"  BY DEF NoCall
<1> QED  BY <1>1, PlainCallFits, CallsFit DEF EndCall

LEMMA AskCommitFits ==
  ASSUME SupplyTypes, Fits, NEW u \in Users, NEW q \in RequestIds, RequestCommit(u, q)
  PROVE  Fits'
<1>1. PICK s, l, n : /\ s = pend[u].sku /\ l = pend[u].line /\ n = pend[u].qty
                     /\ l \in LineIds
  BY DEF RequestCommit, SupplyTypes, CallTyped
<1>2. PICK z : z = [status |-> "DRAFT", sku |-> s, line |-> l, qty |-> n, got |-> 0]  OBVIOUS
<1>3. z.status = "DRAFT" /\ z.sku = s /\ z.line = l  BY <1>2
<1>4. /\ order' = order /\ pinned' = pinned /\ request[q].status = "NONE"
      /\ request' = [request EXCEPT ![q] = z]
      /\ overtaken' = IF l # NoLine /\ order[l].sku # s THEN overtaken \cup {l} ELSE overtaken
  BY <1>1, <1>2 DEF RequestCommit, goods
<1>5. \A p \in RequestIds : GoesOn(p)
  <2>1. \A p \in RequestIds \ {q} : request'[p] = request[p]  BY <1>4 DEF SupplyTypes
  <2> QED  BY <1>4, <2>1 DEF GoesOn
<1>6. request'[q] = z /\ \A p \in RequestIds \ {q} : request'[p] = request[p]
  BY <1>4 DEF SupplyTypes
<1>7. l # NoLine => Exists(l) /\ (~order[l].custom => s = order[l].sku)
  BY <1>1 DEF RequestCommit, Fits, CallFits, AskFits
<1>8. RequestFits(q)'
  <2>1. l # NoLine /\ l \notin overtaken' => s = order[l].sku  BY <1>4
  <2> QED  BY <1>3, <1>4, <1>6, <1>7, <2>1 DEF RequestFits, Exists
<1>9. \A p \in RequestIds : request[p].status = "NONE" => request'[p].status = "NONE" \/ RequestFits(p)'
  BY <1>6, <1>8
<1>10. \A v \in Users : pend'[v] = pend[v] \/ CallFits(pend[v])'  BY CallEnds DEF RequestCommit
<1>11. overtaken \subseteq overtaken'  BY <1>4
<1> QED  BY <1>4, <1>5, <1>9, <1>10, <1>11, FitsKept, OrdersStand

LEMMA RequestMovesFit ==
  ASSUME SupplyTypes, Fits, NEW q \in RequestIds, Send(q) \/ RemoveDraft(q)
  PROVE  Fits'
<1>1. PICK to \in {"SENT", "REMOVED"} : request' = [request EXCEPT ![q].status = to]
  BY DEF Send, RemoveDraft
<1>2. UNCHANGED <<order, pinned, pend, overtaken>> /\ request[q].status = "DRAFT"
  BY DEF Send, RemoveDraft, goods
<1>3. request[q] \in RequestRow  BY DEF SupplyTypes
<1>4. PICK z : z = [request[q] EXCEPT !.status = to]  OBVIOUS
<1>5. z.status = to /\ z.sku = request[q].sku /\ z.line = request[q].line  BY <1>3, <1>4 DEF RequestRow
<1>6. request' = [request EXCEPT ![q] = z]  BY <1>1, <1>4 DEF SupplyTypes
<1>7. \A p \in RequestIds : GoesOn(p)
  BY <1>2, <1>5, <1>6, RequestMoves DEF Asked, Locking, Brought
<1>8. \A p \in RequestIds : request[p].status = "NONE" => request'[p].status = "NONE" \/ RequestFits(p)'
  <2>1. \A p \in RequestIds \ {q} : request'[p] = request[p]  BY <1>6 DEF SupplyTypes
  <2> QED  BY <1>2, <2>1
<1> QED  BY <1>2, <1>7, <1>8, FitsKept, OrdersStand

LEMMA ReleaseCommitFits ==
  ASSUME SupplyTypes, Fits, NEW u \in Users, ReleaseCommit(u)
  PROVE  Fits'
<1>1. PICK q, was, to : /\ q = pend[u].request /\ q \in RequestIds /\ was = pend[u].was /\ to = pend[u].to
                        /\ \/ was \in {"DRAFT", "SENT"} /\ to = "CANCELLED"
                           \/ was = "PARTIALLY_RECEIVED" /\ to = "COMPLETED"
  BY DEF ReleaseCommit, SupplyTypes, CallTyped, Fits, CallFits, ReleaseFits
<1>2. UNCHANGED <<order, pinned, overtaken>>  BY DEF ReleaseCommit, goods
<1>3. \A v \in Users : pend'[v] = pend[v] \/ CallFits(pend[v])'
  <2>1. PICK x : pend' = [pend EXCEPT ![u] = x] /\ x.op \in {"idle", "notify"}
    <3>1. PICK x : /\ pend' = [pend EXCEPT ![u] = x]
                   /\ \/ x = NoCall
                      \/ \E skus, before : x = [op |-> "notify", skus |-> skus, before |-> before]
      BY DEF ReleaseCommit, Tell, EndCall
    <3>2. x.op \in {"idle", "notify"}
      <4>1. CASE x = NoCall  BY <4>1 DEF NoCall
      <4>2. ASSUME NEW skus, NEW before, x = [op |-> "notify", skus |-> skus, before |-> before]
            PROVE  x.op = "notify"
        BY <4>2
      <4> QED  BY <3>1, <4>1, <4>2
    <3> QED  BY <3>1, <3>2
  <2> QED  BY <2>1, PlainCallFits, CallsFit
<1>4. CASE request[q].status = was
  <2>1. request[q] \in RequestRow  BY <1>1 DEF SupplyTypes
  <2>2. PICK z : z = [request[q] EXCEPT !.status = to]  OBVIOUS
  <2>3. z.status = to /\ z.sku = request[q].sku /\ z.line = request[q].line  BY <2>1, <2>2 DEF RequestRow
  <2>4. request' = [request EXCEPT ![q] = z]  BY <1>1, <1>4, <2>2 DEF ReleaseCommit, SupplyTypes
  <2>5. \A p \in RequestIds : GoesOn(p)
    BY <1>1, <1>4, <2>3, <2>4, RequestMoves DEF Asked, Locking, Brought
  <2>6. \A p \in RequestIds : request[p].status = "NONE" => request'[p].status = "NONE" \/ RequestFits(p)'
    <3>1. \A p \in RequestIds \ {q} : request'[p] = request[p]  BY <2>4 DEF SupplyTypes
    <3> QED  BY <1>1, <1>4, <3>1
  <2> QED  BY <1>2, <1>3, <2>5, <2>6, FitsKept, OrdersStand
<1>5. CASE request[q].status # was
  <2>1. request' = request  BY <1>1, <1>5 DEF ReleaseCommit
  <2> QED  BY <1>2, <1>3, <2>1, FitsKept, OrdersStand, RequestsGoOn
<1> QED  BY <1>4, <1>5

\* What a receipt brings for a line is of the line's SKU, unless its request had been cancelled.
LEMMA BringCommitFits ==
  ASSUME SupplyTypes, Fits, NEW u \in Users, BringCommit(u)
  PROVE  Fits'
<1>1. PICK q, s, l, n : /\ q = pend[u].request /\ q \in RequestIds /\ s = pend[u].sku /\ s \in Skus
                        /\ l = pend[u].line /\ l \in LineIds /\ n = pend[u].qty - pend[u].defect
  BY DEF BringCommit, SupplyTypes, CallTyped
<1>2. /\ request[q].status \in Locking \cup {"CANCELLED"}
      /\ s = request[q].sku /\ (l # NoLine => l = request[q].line)
  BY <1>1 DEF BringCommit, Fits, CallFits, BringFits
<1>3. order' = order  BY DEF BringCommit
<1>4. \A v \in Users : pend'[v] = pend[v] \/ CallFits(pend[v])'  BY CallEnds DEF BringCommit
<1>5. CASE UNCHANGED <<request, pinned, overtaken>>
  BY <1>3, <1>4, <1>5, FitsKept, OrdersStand, RequestsGoOn
<1>6. CASE ~UNCHANGED <<request, pinned, overtaken>>
  <2>1. PICK got, to : /\ to \in Brought /\ request' = [request EXCEPT ![q].got = got, ![q].status = to]
                       /\ OpenLot(s, l, n)
                       /\ overtaken' = IF request[q].status = "CANCELLED"
                                       THEN overtaken \cup ({request[q].line} \ {NoLine}) ELSE overtaken
    BY <1>1, <1>6 DEF BringCommit, Brought
  <2>2. request[q] \in RequestRow  BY <1>1 DEF SupplyTypes
  <2>3. PICK z : z = [request[q] EXCEPT !.got = got, !.status = to]  OBVIOUS
  <2>4. z.status = to /\ z.sku = request[q].sku /\ z.line = request[q].line  BY <2>2, <2>3 DEF RequestRow
  <2>5. request' = [request EXCEPT ![q] = z]  BY <1>1, <2>1, <2>3 DEF SupplyTypes
  <2>6. request'[q] = z /\ \A p \in RequestIds \ {q} : request'[p] = request[p]
    BY <1>1, <2>5 DEF SupplyTypes
  <2>7. overtaken \subseteq overtaken'  BY <2>1
  <2>8. (z.status \in Asked /\ request[q].line \in Orders \ overtaken') => request[q].status \in Asked
    <3>1. request[q].line \in Orders => request[q].line # NoLine  BY SupplyAssumption
    <3> QED  BY <1>2, <2>1, <3>1 DEF Asked
  <2>9. \A p \in RequestIds : GoesOn(p)
    <3>1. z.status \in Brought /\ z.status \in Locking \cup {"CANCELLED"} /\ z.status # "NONE"
      BY <2>1, <2>4 DEF Brought, Locking
    <3> QED  BY <1>1, <2>4, <2>5, <2>8, <3>1, RequestMoves
  <2>10. \A p \in RequestIds : request[p].status = "NONE" => request'[p].status = "NONE" \/ RequestFits(p)'
    BY <1>2, <2>6 DEF Locking
  <2>11. \A t \in Skus, o \in Orders : pinned[t][o] > 0 \/ ~(pinned'[t][o] > 0) \/ PinFits(t, o)'
    <3>1. CASE l = NoLine  BY <2>1, <3>1 DEF OpenLot
    <3>2. CASE l # NoLine
      <4>1. l \in Orders  BY <1>1, <3>2 DEF LineIds
      <4>2. pinned' = [pinned EXCEPT ![s][l] = @ + n]  BY <2>1, <3>2 DEF OpenLot
      <4>3. pinned[s] \in [Orders -> Nat]  BY <1>1 DEF SupplyTypes
      <4>4. PICK row : row = [pinned[s] EXCEPT ![l] = @ + n] /\ \A o \in Orders \ {l} : row[o] = pinned[s][o]
        BY <4>3
      <4>5. pinned' = [pinned EXCEPT ![s] = row]  BY <4>2, <4>4
      <4>6. \A t \in Skus, o \in Orders : t # s \/ o # l => pinned'[t][o] = pinned[t][o]
        BY <1>1, <4>4, <4>5 DEF SupplyTypes
      <4>7. PinFits(s, l)'
        <5>1. request[q].status # "NONE" /\ l = request[q].line /\ RequestFits(q)
          BY <1>1, <1>2, <3>2 DEF Fits, Locking
        <5>2. Exists(l)'  BY <1>3, <3>2, <5>1 DEF RequestFits, Exists
        <5>3. ASSUME l \notin overtaken' PROVE order'[l].sku = s
          <6>1. request[q].status \in Asked /\ l \notin overtaken
            BY <1>2, <2>1, <3>2, <5>1, <5>3 DEF Asked
          <6> QED  BY <1>2, <1>3, <3>2, <5>1, <6>1 DEF RequestFits
        <5>4. request'[q].line = l /\ request'[q].status \in Brought  BY <2>1, <2>4, <2>6, <5>1
        <5> QED  BY <1>1, <5>2, <5>3, <5>4 DEF PinFits
      <4> QED  BY <4>6, <4>7
    <3> QED  BY <3>1, <3>2
  <2> QED  BY <1>3, <1>4, <2>7, <2>9, <2>10, <2>11, FitsKept, OrdersStand
<1> QED  BY <1>5, <1>6

\* A line is customized: what is still a draft of it follows, what is asked of it or
\* has been made for it is left behind, and the line is known to be overtaken.
LEMMA CustomizeCommitFits ==
  ASSUME SupplyTypes, Fits, NEW u \in Users, CustomizeCommit(u)
  PROVE  Fits'
<1>1. PICK o : o = pend[u].order /\ o \in Orders
  BY DEF CustomizeCommit, SupplyTypes, CallTyped
<1>2. /\ pinned' = pinned /\ overtaken \subseteq overtaken'
      /\ order[o].status = "CONFIRMED" \/ UNCHANGED <<order, request>>
  BY <1>1 DEF CustomizeCommit, goods
<1>3. PICK y : pend' = [pend EXCEPT ![u] = y] /\ y.op \in {"idle", "notify"}
  <2>1. PICK x : /\ pend' = [pend EXCEPT ![u] = x]
                 /\ \/ x = NoCall
                    \/ \E skus, before : x = [op |-> "notify", skus |-> skus, before |-> before]
    BY DEF CustomizeCommit, Tell, EndCall
  <2>2. x.op \in {"idle", "notify"}
    <3>1. CASE x = NoCall  BY <3>1 DEF NoCall
    <3>2. ASSUME NEW skus, NEW before, x = [op |-> "notify", skus |-> skus, before |-> before]
          PROVE  x.op = "notify"
      BY <3>2
    <3> QED  BY <2>1, <3>1, <3>2
  <2> QED  BY <2>1, <2>2
<1>4. \A v \in Users \ {u} : pend'[v] = pend[v]  BY <1>3 DEF SupplyTypes
<1>5. CASE UNCHANGED <<order, request>>
  <2>1. \A v \in Users : pend'[v] = pend[v] \/ CallFits(pend[v])'  BY <1>3, PlainCallFits, CallsFit
  <2> QED  BY <1>2, <1>5, <2>1, FitsKept, OrdersStand, RequestsGoOn
<1>6. CASE ~UNCHANGED <<order, request>>
  <2>1. PICK s : /\ order' = [order EXCEPT ![o].sku = s, ![o].custom = TRUE]
                 /\ request' = Repointed(o, s)
                 /\ AssertNotLocked(o) \/ o \in overtaken'
    BY <1>1, <1>6 DEF CustomizeCommit
  <2>2. order[o] \in OrderRow  BY <1>1 DEF SupplyTypes
  <2>3. PICK x : x = [order[o] EXCEPT !.sku = s, !.custom = TRUE]  OBVIOUS
  <2>4. x.sku = s /\ x.custom /\ x.status = order[o].status  BY <2>2, <2>3 DEF OrderRow
  <2>5. order' = [order EXCEPT ![o] = x]  BY <1>1, <2>1, <2>3 DEF SupplyTypes
  <2>6. order'[o] = x /\ \A p \in Orders \ {o} : order'[p] = order[p]  BY <1>1, <2>5 DEF SupplyTypes
  <2>7. Exists(o)' /\ order'[o].sku = s /\ order'[o].custom  BY <1>2, <1>6, <2>4, <2>6 DEF Exists
  <2>8. ASSUME NEW q \in RequestIds
        PROVE  /\ request'[q].status = request[q].status /\ request'[q].line = request[q].line
               /\ IF request[q].line = o /\ request[q].status = "DRAFT" THEN request'[q].sku = s
                  ELSE request'[q] = request[q]
    <3>1. request[q] \in RequestRow  BY DEF SupplyTypes
    <3>2. PICK z : z = [request[q] EXCEPT !.sku = s]  OBVIOUS
    <3>3. z.sku = s /\ z.status = request[q].status /\ z.line = request[q].line
      BY <3>1, <3>2 DEF RequestRow
    <3>4. request'[q] = IF request[q].line = o /\ request[q].status = "DRAFT" THEN z ELSE request[q]
      BY <2>1, <3>2 DEF Repointed
    <3> QED  BY <3>3, <3>4
  <2>9. ASSUME NEW q \in RequestIds PROVE RequestFits(q)'
    <3>1. PICK l : l = request[q].line /\ request'[q].line = l /\ l \in LineIds
      BY <2>8 DEF SupplyTypes, RequestRow
    <3>2. CASE request[q].status = "NONE" \/ l = NoLine  BY <2>8, <3>1, <3>2 DEF RequestFits
    <3>3. CASE request[q].status # "NONE" /\ l # NoLine /\ l # o
      <4>1. RequestFits(q) /\ l \in Orders \ {o}  BY <3>1, <3>3 DEF Fits, LineIds
      <4>2. order'[l] = order[l] /\ request'[q] = request[q]  BY <2>6, <2>8, <3>1, <3>3, <4>1
      <4> QED  BY <1>2, <3>1, <3>3, <4>1, <4>2 DEF RequestFits, Exists
    <3>4. CASE request[q].status # "NONE" /\ l = o
      <4>1. ASSUME request'[q].status \in Asked, o \notin overtaken' PROVE request'[q].sku = s
        <5>1. request[q].status \in Asked /\ AssertNotLocked(o)  BY <2>1, <2>8, <4>1
        <5>2. request[q].status = "DRAFT"  BY <3>1, <3>4, <5>1 DEF Asked, AssertNotLocked
        <5> QED  BY <2>8, <3>1, <3>4, <5>2
      <4> QED  BY <2>7, <3>1, <3>4, <4>1 DEF RequestFits
    <3> QED  BY <3>2, <3>3, <3>4
  <2>10. ASSUME NEW t \in Skus, NEW p \in Orders PROVE PinFits(t, p)'
    <3>1. CASE ~(pinned[t][p] > 0)  BY <1>2, <3>1 DEF PinFits
    <3>2. CASE pinned[t][p] > 0
      <4>1. PinFits(t, p)  BY DEF Fits
      <4>2. Exists(p)'  BY <2>6, <2>7, <3>2, <4>1 DEF PinFits, Exists
      <4>3. ASSUME p \notin overtaken'
            PROVE  /\ order'[p].sku = t
                   /\ \E q \in RequestIds : request'[q].line = p /\ request'[q].status \in Brought
        <5>1. order[p].sku = t /\ \E q \in RequestIds : request[q].line = p /\ request[q].status \in Brought
          BY <1>2, <3>2, <4>1, <4>3 DEF PinFits
        <5>2. PICK q \in RequestIds : request[q].line = p /\ request[q].status \in Brought  BY <5>1
        <5>3. request'[q].line = p /\ request'[q].status \in Brought  BY <2>8, <5>2
        <5>4. p # o  BY <2>1, <4>3, <5>2 DEF AssertNotLocked, Brought, Locking
        <5> QED  BY <2>6, <5>1, <5>3, <5>4
      <4> QED  BY <4>2, <4>3 DEF PinFits
    <3> QED  BY <3>1, <3>2
  <2>11. ASSUME NEW v \in Users PROVE CallFits(pend[v])'
    <3>1. CASE v = u
      <4>1. \A w \in Users : pend'[w] = pend[w] \/ CallFits(pend[w])'  BY <1>3, PlainCallFits, CallsFit
      <4>2. pend'[u] = y  BY <1>3 DEF SupplyTypes
      <4> QED  BY <1>3, <3>1, <4>2 DEF CallFits, CustomizeFits, AskFits, BringFits, ReleaseFits
    <3>2. CASE v # u
      <4>1. PICK w : w = pend[v] /\ CallTyped(w) /\ CallFits(w)  BY DEF SupplyTypes, Fits
      <4>2. pend'[v] = w  BY <1>4, <3>2, <4>1
      <4>3. ASSUME NEW p \in Orders, Exists(p), ~order'[p].custom PROVE order'[p] = order[p]
        BY <2>6, <2>7, <4>3
      <4>4. ASSUME NEW p \in Orders, Exists(p) PROVE Exists(p)'  BY <2>6, <2>7, <4>4 DEF Exists
      <4>5. CustomizeFits(pend[v])'
        <5>1. w.op = "customize" => w.order \in Orders /\ CustomizeFits(w)  BY <4>1 DEF CallTyped, CallFits
        <5> QED  BY <4>2, <4>3, <4>4, <5>1 DEF CustomizeFits
      <4>6. AskFits(pend[v])'
        <5>1. w.op = "request" /\ w.line # NoLine => w.line \in Orders /\ AskFits(w)
          BY <4>1 DEF CallTyped, CallFits, LineIds
        <5> QED  BY <4>2, <4>3, <4>4, <5>1 DEF AskFits
      <4>7. BringFits(pend[v])'
        <5>1. w.op = "receive" => w.request \in RequestIds /\ BringFits(w)  BY <4>1 DEF CallTyped, CallFits
        <5>2. w.op = "receive" => request'[w.request] = request[w.request]
          BY <2>8, <5>1 DEF BringFits, Locking
        <5> QED  BY <4>2, <5>1, <5>2 DEF BringFits
      <4>8. ReleaseFits(pend[v])'  BY <4>1, <4>2 DEF CallFits, ReleaseFits
      <4> QED  BY <4>5, <4>6, <4>7, <4>8 DEF CallFits
    <3> QED  BY <3>1, <3>2
  <2> QED  BY <2>9, <2>10, <2>11 DEF Fits
<1> QED  BY <1>5, <1>6

LEMMA FitsStep ==
  ASSUME SupplyTypes, SupplyTypes', Fits, [SupplyNext]_supplyVars
  PROVE  Fits'
<1>1. ASSUME NEW u \in Users, OrderStep(u) PROVE Fits'
  BY <1>1, CreateReadFits, CreateFits, OrderReadsFit, CustomizeCommitFits, OrderMovesFit DEF OrderStep
<1>2. ASSUME NEW u \in Users, RequestStep(u) \/ Notify(u) PROVE Fits'
  <2>1. CASE RequestStep(u)
    BY <2>1, RequestReadsFit, AskCommitFits, ReleaseCommitFits, BringCommitFits DEF RequestStep
  <2>2. CASE Notify(u)  BY <2>2, RequestReadsFit
  <2> QED  BY <1>2, <2>1, <2>2
<1>3. CASE UNCHANGED supplyVars
  BY <1>3, FitsKept, OrdersStand, RequestsGoOn DEF supplyVars
<1> QED  BY <1>1, <1>2, <1>3, OrderMovesFit, RequestMovesFit DEF SupplyNext, Step

LEMMA FitsInit == SupplyInit => Fits
<1> SUFFICES ASSUME SupplyInit PROVE Fits  OBVIOUS
<1>1. \A q \in RequestIds : request[q].status = "NONE"  BY DEF SupplyInit, NoRequest
<1>2. \A u \in Users : pend[u].op = "idle"  BY DEF SupplyInit, NoCall
<1>3. \A s \in Skus, o \in Orders : pinned[s][o] = 0  BY DEF SupplyInit
<1>4. \A u \in Users : CallFits(pend[u])
  BY <1>2 DEF CallFits, CustomizeFits, AskFits, BringFits, ReleaseFits
<1> QED  BY <1>1, <1>3, <1>4 DEF Fits, RequestFits, PinFits

LEMMA MadeFits == SupplyTypes /\ Fits => MadeToMeasureFits
BY DEF Fits, PinFits, MadeToMeasureFits

-------------------------------------------------------------------------------
(* The alert *)

\* The row is one that an alert under way is to tell.
Awaited(row) ==
  \E u \in Users : /\ pend[u].op = "notify"
                   /\ row[1] \in pend[u].skus /\ row \notin pend[u].before
SilentAwaited ==
  /\ silent \subseteq Rows /\ missed \subseteq Rows
  /\ \A row \in silent : Short(row) > 0
  /\ \A row \in silent \ missed : row[1] \notin misread => Awaited(row)

\* What is short of a row follows from its lines, its requests and its stock.
LEMMA ShortSame ==
  ASSUME SupplyTypes, NEW row, RowStock(row)' = RowStock(row), Waiting(row)' = Waiting(row),
         \A o \in Waiting(row) : order'[o].qty = order[o].qty,
         \A q \in RequestIds : request'[q].qty = request[q].qty /\ request'[q].got = request[q].got,
         Bringing(row, OnOrder)' = Bringing(row, OnOrder), Bringing(row, {"DRAFT"})' = Bringing(row, {"DRAFT"})
  PROVE  Short(row)' = Short(row)
<1>1. Demand(row)' = Demand(row)
  <2>1. IsFiniteSet(Waiting(row)) /\ Waiting(row) \subseteq Orders  BY DemandIsUnits
  <2>2. \A o \in Waiting(row) : Qtys'[o] = Qtys[o]  BY <2>1 DEF Qtys
  <2>3. SumFunctionOnSet(Qtys', Waiting(row)) = SumFunctionOnSet(Qtys, Waiting(row))
    BY <2>1, <2>2, SumSame
  <2>4. Demand(row)' = SumFunctionOnSet(Qtys', Waiting(row)')  BY DEF Demand
  <2> QED  BY <2>3, <2>4 DEF Demand
<1>2. Outstanding' = Outstanding  BY DEF Outstanding
<1>3. /\ Coming(row, OnOrder)' = SumFunctionOnSet(Outstanding', Bringing(row, OnOrder)')
      /\ Coming(row, {"DRAFT"})' = SumFunctionOnSet(Outstanding', Bringing(row, {"DRAFT"})')
  BY DEF Coming
<1>4. Coming(row, OnOrder)' = Coming(row, OnOrder) /\ Coming(row, {"DRAFT"})' = Coming(row, {"DRAFT"})
  BY <1>2, <1>3 DEF Coming
<1>5. Short(row)' = AtLeastZero(Demand(row)' - RowStock(row)' - Coming(row, OnOrder)' - Coming(row, {"DRAFT"})')
  BY DEF Short
<1> QED  BY <1>1, <1>4, <1>5 DEF Short

LEMMA StockStays ==
  ASSUME NEW row, UNCHANGED <<shared, pinned>>
  PROVE  RowStock(row)' = RowStock(row)
BY DEF RowStock, Stock, PinnedTo

LEMMA ShortStill ==
  ASSUME SupplyTypes, NEW row, UNCHANGED <<order, shared, pinned, request>>
  PROVE  Short(row)' = Short(row)
<1>1. Waiting(row)' = Waiting(row)  BY DEF Waiting, RowOfOrder
<1>2. \A statuses : Bringing(row, statuses)' = Bringing(row, statuses)
  BY DEF Bringing, RowOfRequest
<1>3. \A o \in Waiting(row) : order'[o].qty = order[o].qty  OBVIOUS
<1> QED  BY <1>1, <1>2, <1>3, StockStays, ShortSame

\* A row nobody waits in is not short.
LEMMA NobodyWaits ==
  ASSUME SupplyTypes, SupplyTypes', UNCHANGED <<shared, pinned>>, NEW row \in Rows, Waiting(row)' = {}
  PROVE  Short(row)' = 0
<1>1. Demand(row)' = SumFunctionOnSet(Qtys', Waiting(row)')  BY DEF Demand
<1>2. Demand(row)' = 0  BY <1>1, SumEmpty
<1>3. ASSUME NEW q \in RequestIds PROVE Outstanding'[q] \in Nat
  <2>1. request'[q].qty \in Nat /\ request'[q].got \in Nat  BY DEF SupplyTypes, RequestRow
  <2>2. PICK k : k = request'[q].qty - request'[q].got /\ k \in Int  BY <2>1
  <2>3. Outstanding'[q] = AtLeastZero(k)  BY <2>2 DEF Outstanding
  <2> QED  BY <2>2, <2>3 DEF AtLeastZero
<1>4. ASSUME NEW statuses PROVE Coming(row, statuses)' \in Nat
  <2>1. Bringing(row, statuses)' \subseteq RequestIds  BY DEF Bringing
  <2>2. IsFiniteSet(Bringing(row, statuses)')  BY <2>1, SupplyAssumption, FS_Subset
  <2>3. \A q \in Bringing(row, statuses)' : Outstanding'[q] \in Nat  BY <1>3, <2>1
  <2>4. SumFunctionOnSet(Outstanding', Bringing(row, statuses)') \in Nat  BY <2>2, <2>3, SumNat
  <2> QED  BY <2>4 DEF Coming
<1>5. RowStock(row)' \in Nat
  <2>1. PICK s \in Skus, l \in LineIds : row = <<s, l>>  BY DEF Rows
  <2>2. RowStock(row) \in Nat  BY <2>1, UnitsOfSku
  <2> QED  BY <2>2, StockStays
<1>6. PICK k, c, d : /\ k = RowStock(row)' /\ k \in Nat /\ c = Coming(row, OnOrder)' /\ c \in Nat
                     /\ d = Coming(row, {"DRAFT"})' /\ d \in Nat
  BY <1>4, <1>5
<1>7. Short(row)' = AtLeastZero(0 - k - c - d)  BY <1>2, <1>6 DEF Short
<1> QED  BY <1>6, <1>7 DEF AtLeastZero

LEMMA TellSays ==
  ASSUME SupplyTypes, NEW u \in Users, NEW skus, NEW before, Tell(u, skus, before)
  PROVE  pend'[u].op = "notify" /\ pend'[u].skus = skus /\ pend'[u].before = before
<1>1. PICK y : y = [op |-> "notify", skus |-> skus, before |-> before]  OBVIOUS
<1>2. y.op = "notify" /\ y.skus = skus /\ y.before = before  BY <1>1
<1>3. pend'[u] = y  BY <1>1 DEF Tell, SupplyTypes
<1> QED  BY <1>2, <1>3

\* A new order asks for goods of its SKU alone.
LEMMA CreateTells ==
  ASSUME SupplyTypes, SupplyTypes', Fits, NEW u \in Users, NEW o \in Orders, CreateCommit(u, o),
         NEW row \in Rows, row[1] \notin pend'[u].skus
  PROVE  Short(row)' = Short(row)
<1>1. PICK x : order' = [order EXCEPT ![o] = x]  BY DEF CreateCommit
<1>2. /\ order'[o] = x /\ \A p \in Orders \ {o} : order'[p] = order[p]
      /\ UNCHANGED <<shared, pinned, request>> /\ order[o].status = "NONE"
  BY <1>1 DEF CreateCommit, goods, SupplyTypes
<1>3. row[1] # order'[o].sku
  <2>1. PICK y : Tell(u, Pairs(o, y), y.before)  BY DEF CreateCommit
  <2>2. pend'[u].skus = Pairs(o, y)  BY <2>1, TellSays
  <2>3. order'[o].sku \in Pairs(o, y)  BY DEF Pairs
  <2> QED  BY <2>2, <2>3
<1>4. \A p \in Orders : RowOfOrder(p)' = <<order'[p].sku, IF order'[p].custom THEN p ELSE NoLine>>
  BY DEF RowOfOrder
<1>5. Waiting(row)' = Waiting(row)
  <2>1. o \notin Waiting(row)  BY <1>2 DEF Waiting, Unshipped
  <2>2. o \notin Waiting(row)'  BY <1>3, <1>4 DEF Waiting
  <2>3. \A p \in Orders \ {o} : p \in Waiting(row) <=> p \in Waiting(row)'
    BY <1>2 DEF Waiting, RowOfOrder
  <2> QED  BY <2>1, <2>2, <2>3 DEF Waiting
<1>6. ASSUME NEW statuses, "NONE" \notin statuses PROVE Bringing(row, statuses)' = Bringing(row, statuses)
  <2>1. ASSUME NEW q \in RequestIds, request[q].status # "NONE" PROVE RowOfRequest(q)' = RowOfRequest(q)
    <3>1. request[q].line = NoLine \/ request[q].line \in Orders \ {o}
      <4>1. request[q].line \in LineIds  BY DEF SupplyTypes, RequestRow
      <4>2. request[q].line # NoLine => Exists(request[q].line)  BY <2>1 DEF Fits, RequestFits
      <4> QED  BY <1>2, <4>1, <4>2 DEF Exists, LineIds
    <3> QED  BY <1>2, <3>1 DEF RowOfRequest
  <2> QED  BY <1>2, <1>6, <2>1 DEF Bringing
<1>7. Bringing(row, OnOrder)' = Bringing(row, OnOrder) /\ Bringing(row, {"DRAFT"})' = Bringing(row, {"DRAFT"})
  BY <1>6 DEF OnOrder
<1>8. \A p \in Waiting(row) : order'[p].qty = order[p].qty
  BY <1>2 DEF Waiting, Unshipped
<1> QED  BY <1>2, <1>5, <1>7, <1>8, StockStays, ShortSame

\* A request given up leaves the rows of other SKUs as they were.
LEMMA ReleaseTells ==
  ASSUME SupplyTypes, NEW u \in Users, ReleaseCommit(u), pend'[u].op = "notify",
         NEW row \in Rows, row[1] \notin pend'[u].skus, row[1] \notin misread'
  PROVE  Short(row)' = Short(row)
<1>1. PICK q, s : q = pend[u].request /\ q \in RequestIds /\ s = pend[u].sku
  BY DEF ReleaseCommit, SupplyTypes, CallTyped
<1>2. UNCHANGED <<order, shared, pinned>>  BY DEF ReleaseCommit, goods
<1>3. CASE request[q].status = pend[u].was
  <2>1. PICK to, before :
          /\ request' = [request EXCEPT ![q].status = to]
          /\ misread' = IF s = request[q].sku THEN misread ELSE misread \cup {s, request[q].sku}
          /\ pend' = [pend EXCEPT ![u] = [op |-> "notify", skus |-> {s}, before |-> before]]
    BY ZenonT(60), <1>1, <1>3 DEF ReleaseCommit, Tell
  <2>2. PICK y : y = [op |-> "notify", skus |-> {s}, before |-> before]  OBVIOUS
  <2>3. y.skus = {s} /\ pend'[u] = y  BY <2>1, <2>2 DEF SupplyTypes
  <2>4. row[1] # request[q].sku  BY <2>1, <2>3
  <2>5. request[q] \in RequestRow  BY <1>1 DEF SupplyTypes
  <2>6. PICK z : z = [request[q] EXCEPT !.status = to]  OBVIOUS
  <2>7. z.sku = request[q].sku /\ z.line = request[q].line /\ z.qty = request[q].qty /\ z.got = request[q].got
    BY <2>5, <2>6 DEF RequestRow
  <2>8. \A p \in RequestIds : request'[p] = IF p = q THEN z ELSE request[p]
    BY <2>1, <2>6 DEF SupplyTypes
  <2>9. ASSUME NEW statuses PROVE Bringing(row, statuses)' = Bringing(row, statuses)
    <3>1. RowOfRequest(q)[1] = request[q].sku /\ RowOfRequest(q)' = RowOfRequest(q)
      BY <1>1, <1>2, <2>7, <2>8 DEF RowOfRequest
    <3>2. q \notin Bringing(row, statuses) /\ q \notin Bringing(row, statuses)'
      BY <2>4, <3>1 DEF Bringing
    <3>3. \A p \in RequestIds \ {q} : p \in Bringing(row, statuses) <=> p \in Bringing(row, statuses)'
      BY <1>2, <2>8 DEF Bringing, RowOfRequest
    <3> QED  BY <3>2, <3>3 DEF Bringing
  <2>10. Waiting(row)' = Waiting(row)  BY <1>2 DEF Waiting, RowOfOrder
  <2>11. \A p \in RequestIds : request'[p].qty = request[p].qty /\ request'[p].got = request[p].got
    BY <2>7, <2>8
  <2>12. \A p \in Waiting(row) : order'[p].qty = order[p].qty  BY <1>2
  <2> QED  BY <1>2, <2>9, <2>10, <2>11, <2>12, StockStays, ShortSame
<1>4. CASE request[q].status # pend[u].was
  <2>1. request' = request  BY <1>1, <1>4 DEF ReleaseCommit
  <2> QED  BY <1>2, <2>1, ShortStill
<1> QED  BY <1>3, <1>4

\* A line customized takes its demand and its drafts to a row of its own.
LEMMA CustomizeTells ==
  ASSUME SupplyTypes, SupplyTypes', Fits, NEW u \in Users, CustomizeCommit(u), pend'[u].op = "notify",
         NEW row \in Rows, row[1] \notin pend'[u].skus
  PROVE  Short(row)' = Short(row) \/ Short(row)' = 0
<1>1. PICK o, t : o = pend[u].order /\ o \in Orders /\ t = pend[u].sku
  BY DEF CustomizeCommit, SupplyTypes, CallTyped
<1>2. UNCHANGED <<shared, pinned>>  BY DEF CustomizeCommit, goods
<1>3. CASE UNCHANGED <<order, request>>  BY <1>2, <1>3, ShortStill
<1>4. CASE ~UNCHANGED <<order, request>>
  <2>0. /\ ~pend[u].custom
        /\ order' = [order EXCEPT ![o].sku = NextOwn(o), ![o].custom = TRUE]
        /\ request' = Repointed(o, NextOwn(o))
        /\ Tell(u, Pairs(o, pend[u]), pend[u].before)
    BY <1>1, <1>4 DEF CustomizeCommit
  <2>1. PICK s : /\ s = NextOwn(o)
                 /\ order' = [order EXCEPT ![o].sku = s, ![o].custom = TRUE]
                 /\ request' = Repointed(o, s)
    BY <2>0
  <2>2. order[o] \in OrderRow  BY <1>1 DEF SupplyTypes
  <2>3. PICK x : x = [order[o] EXCEPT !.sku = s, !.custom = TRUE]  OBVIOUS
  <2>4. x.sku = s /\ x.custom /\ x.status = order[o].status /\ x.qty = order[o].qty
    BY <2>2, <2>3 DEF OrderRow
  <2>5. order' = [order EXCEPT ![o] = x]  BY <1>1, <2>1, <2>3 DEF SupplyTypes
  <2>6. order'[o] = x /\ \A p \in Orders \ {o} : order'[p] = order[p]  BY <1>1, <2>5 DEF SupplyTypes
  <2>7. row[1] # t /\ row[1] # s
    <3>1. pend'[u].skus = Pairs(o, pend[u])  BY <2>0, TellSays
    <3>2. t \in Pairs(o, pend[u]) /\ s \in Pairs(o, pend[u])  BY <1>1, <2>4, <2>6 DEF Pairs
    <3> QED  BY <3>1, <3>2
  <2>8. ~order[o].custom => t = order[o].sku
    BY <1>1 DEF CustomizeCommit, Fits, CallFits, CustomizeFits
  <2>9. RowOfOrder(o)' = <<s, o>>  BY <2>4, <2>6 DEF RowOfOrder
  <2>10. PICK r \in Skus, l \in LineIds : row = <<r, l>> /\ r # t /\ r # s  BY <2>7 DEF Rows
  <2>11. CASE l = o
    <3>1. ASSUME NEW p \in Orders PROVE p \notin Waiting(row)'
      <4>1. CASE p = o  BY <2>9, <2>10, <4>1 DEF Waiting
      <4>2. CASE p # o
        <5>1. RowOfOrder(p)' = <<order'[p].sku, IF order'[p].custom THEN p ELSE NoLine>>  BY DEF RowOfOrder
        <5>2. RowOfOrder(p)' # row  BY <1>1, <2>10, <2>11, <4>2, <5>1, SupplyAssumption
        <5> QED  BY <5>2 DEF Waiting
      <4> QED  BY <4>1, <4>2
    <3>2. Waiting(row)' = {}  BY <3>1 DEF Waiting
    <3> QED  BY <1>2, <3>2, NobodyWaits
  <2>12. CASE l # o
    <3>1. Waiting(row)' = Waiting(row)
      <4>1. o \notin Waiting(row)'  BY <2>9, <2>10 DEF Waiting
      <4>2. o \notin Waiting(row)  BY <2>8, <2>10, <2>12 DEF Waiting, RowOfOrder
      <4>3. \A p \in Orders \ {o} : p \in Waiting(row) <=> p \in Waiting(row)'
        BY <2>6 DEF Waiting, RowOfOrder
      <4> QED  BY <4>1, <4>2, <4>3 DEF Waiting
    <3>2. ASSUME NEW q \in RequestIds
          PROVE  /\ request'[q].status = request[q].status /\ request'[q].line = request[q].line
                 /\ request'[q].qty = request[q].qty /\ request'[q].got = request[q].got
                 /\ request[q].line # o => request'[q] = request[q]
      <4>1. request[q] \in RequestRow  BY DEF SupplyTypes
      <4>2. PICK z : z = [request[q] EXCEPT !.sku = s]  OBVIOUS
      <4>3. /\ z.status = request[q].status /\ z.line = request[q].line
            /\ z.qty = request[q].qty /\ z.got = request[q].got
        BY <4>1, <4>2 DEF RequestRow
      <4>4. request'[q] = IF request[q].line = o /\ request[q].status = "DRAFT" THEN z ELSE request[q]
        BY <2>1, <4>2 DEF Repointed
      <4> QED  BY <4>3, <4>4
    <3>3. ASSUME NEW statuses, "NONE" \notin statuses, NEW q \in RequestIds
          PROVE  q \in Bringing(row, statuses)' <=> q \in Bringing(row, statuses)
      <4>1. CASE request[q].line = o
        <5>1. o # NoLine  BY <1>1, SupplyAssumption
        <5>2. RowOfRequest(q)'[2] = o  BY <2>4, <2>6, <3>2, <4>1, <5>1 DEF RowOfRequest
        <5>3. q \notin Bringing(row, statuses)'  BY <2>10, <2>12, <5>2 DEF Bringing
        <5>4. ASSUME q \in Bringing(row, statuses) PROVE FALSE
          <6>1. request[q].status # "NONE" /\ RowOfRequest(q) = <<r, l>>  BY <2>10, <3>3, <5>4 DEF Bringing
          <6>2. request[q].sku = r /\ ~order[o].custom  BY <2>12, <4>1, <5>1, <6>1 DEF RowOfRequest
          <6>3. request[q].sku = order[o].sku  BY <4>1, <5>1, <6>1, <6>2 DEF Fits, RequestFits
          <6> QED  BY <2>8, <2>10, <6>2, <6>3
        <5> QED  BY <5>3, <5>4
      <4>2. CASE request[q].line # o
        <5>1. request'[q] = request[q]  BY <3>2, <4>2
        <5>2. request[q].line \in LineIds  BY DEF SupplyTypes, RequestRow
        <5>3. request[q].line # NoLine => order'[request[q].line] = order[request[q].line]
          BY <2>6, <4>2, <5>2 DEF LineIds
        <5> QED  BY <5>1, <5>3 DEF Bringing, RowOfRequest
      <4> QED  BY <4>1, <4>2
    <3>4. Bringing(row, OnOrder)' = Bringing(row, OnOrder) /\ Bringing(row, {"DRAFT"})' = Bringing(row, {"DRAFT"})
      <4>1. ASSUME NEW statuses, "NONE" \notin statuses PROVE Bringing(row, statuses)' = Bringing(row, statuses)
        BY <3>3, <4>1 DEF Bringing
      <4> QED  BY <4>1 DEF OnOrder
    <3>5. \A p \in Waiting(row) : order'[p].qty = order[p].qty  BY <2>4, <2>6 DEF Waiting
    <3> QED  BY <1>2, <3>1, <3>2, <3>4, <3>5, StockStays, ShortSame
  <2> QED  BY <2>11, <2>12
<1> QED  BY <1>3, <1>4

\* A call moves alone.
LEMMA OneCallMoves ==
  ASSUME SupplyTypes, NEW u \in Users, OrderStep(u) \/ RequestStep(u) \/ Notify(u)
  PROVE  \A v \in Users \ {u} : pend'[v] = pend[v]
<1>1. \E x : pend' = [pend EXCEPT ![u] = x]
  <2>1. CASE OrderStep(u)
    BY ZenonT(60), <2>1 DEF OrderStep, CreateRead, CreateCommit, CustomizeRead, PackRead, CustomizeCommit, PackCommit,
         Tell, BeginCall, EndCall
  <2>2. CASE RequestStep(u)
    BY ZenonT(60), <2>2 DEF RequestStep, RequestRead, RequestCommit, ReleaseRead, ReleaseCommit, BringRead,
         BringCommit, Tell, BeginCall, EndCall
  <2>3. CASE Notify(u)  BY <2>3 DEF Notify, EndCall
  <2> QED  BY SMTT(30), <2>1, <2>2, <2>3
<1> QED  BY <1>1 DEF SupplyTypes

\* A call that sends an alert does nothing else.
LEMMA NoticeOnlyEnds ==
  ASSUME SupplyTypes, NEW u \in Users, OrderStep(u) \/ RequestStep(u), pend[u].op = "notify"
  PROVE  FALSE
<1>1. pend[u] # NoCall  BY DEF NoCall
<1>2. CASE OrderStep(u)
  BY <1>1, <1>2 DEF OrderStep, CreateRead, CreateCommit, CustomizeRead, PackRead, CustomizeCommit, PackCommit, BeginCall
<1>3. CASE RequestStep(u)
  BY <1>1, <1>3 DEF RequestStep, RequestRead, RequestCommit, ReleaseRead, ReleaseCommit, BringRead,
       BringCommit, BeginCall
<1> QED  BY <1>2, <1>3

\* A call that reads, or that ends, has nothing to tell.
LEMMA BegunIsSilent ==
  ASSUME SupplyTypes, NEW u \in Users, NEW x, BeginCall(u, x), x.op # "notify"
  PROVE  pend'[u].op # "notify"
<1>1. pend'[u] = x  BY DEF BeginCall, SupplyTypes
<1> QED  BY <1>1

LEMMA EndedIsSilent ==
  ASSUME SupplyTypes, NEW u \in Users, EndCall(u)
  PROVE  pend'[u].op # "notify" /\ pend'[u] = NoCall
<1>1. pend'[u] = NoCall  BY DEF EndCall, SupplyTypes
<1> QED  BY <1>1 DEF NoCall

LEMMA OnlyWritesTell ==
  ASSUME SupplyTypes, NEW u \in Users, OrderStep(u) \/ RequestStep(u), pend'[u].op = "notify"
  PROVE  \/ \E o \in Orders : CreateCommit(u, o)
         \/ CustomizeCommit(u)
         \/ ReleaseCommit(u)
<1>1. ASSUME NEW o, CustomizeRead(u, o) \/ PackRead(u, o) PROVE FALSE
  <2>1. CASE CustomizeRead(u, o)
    <3>1. PICK x : /\ x = [op |-> "customize", order |-> o, sku |-> order[o].sku,
                           custom |-> order[o].custom, before |-> ShortAmong({order[o].sku})]
                   /\ BeginCall(u, x)
      BY <2>1 DEF CustomizeRead
    <3>2. x.op # "notify"  BY <3>1
    <3> QED  BY <3>1, <3>2, BegunIsSilent
  <2>2. CASE PackRead(u, o)
    <3>1. PICK x : x = [op |-> "pack", order |-> o, sku |-> order[o].sku] /\ BeginCall(u, x)
      BY <2>2 DEF PackRead
    <3>2. x.op # "notify"  BY <3>1
    <3> QED  BY <3>1, <3>2, BegunIsSilent
  <2> QED  BY <1>1, <2>1, <2>2
<1>6. ASSUME NEW s, NEW n, NEW custom, CreateRead(u, s, n, custom) PROVE FALSE
  <2>1. PICK x : /\ x = [op |-> "create", sku |-> s, qty |-> n, custom |-> custom,
                         before |-> ShortAmong({s})]
                 /\ BeginCall(u, x)
    BY <1>6 DEF CreateRead
  <2>2. x.op # "notify"  BY <2>1
  <2> QED  BY <2>1, <2>2, BegunIsSilent
<1>2. ASSUME NEW s, NEW l, NEW n, RequestRead(u, s, l, n) PROVE FALSE
  <2>1. PICK x : x = [op |-> "request", sku |-> s, line |-> l, qty |-> n] /\ BeginCall(u, x)
    BY <1>2 DEF RequestRead
  <2>2. x.op # "notify"  BY <2>1
  <2> QED  BY <2>1, <2>2, BegunIsSilent
<1>3. ASSUME NEW q, ReleaseRead(u, q) PROVE FALSE
  <2>1. PICK x : /\ x = [op |-> "release", request |-> q, was |-> request[q].status,
                         to |-> ReleaseTarget(q), sku |-> request[q].sku,
                         before |-> ShortAmong({request[q].sku})]
                 /\ BeginCall(u, x)
    BY <1>3 DEF ReleaseRead
  <2>2. x.op # "notify"  BY <2>1
  <2> QED  BY <2>1, <2>2, BegunIsSilent
<1>4. ASSUME NEW q, NEW n, NEW defect, BringRead(u, q, n, defect) PROVE FALSE
  <2>1. PICK x : /\ x = [op |-> "receive", request |-> q, sku |-> request[q].sku,
                         line |-> RowOfRequest(q)[2], qty |-> n, defect |-> defect]
                 /\ BeginCall(u, x)
    BY <1>4 DEF BringRead
  <2>2. x.op # "notify"  BY <2>1
  <2> QED  BY <2>1, <2>2, BegunIsSilent
<1>5. ASSUME PackCommit(u) \/ BringCommit(u) \/ \E q \in RequestIds : RequestCommit(u, q) PROVE FALSE
  <2>1. EndCall(u)  BY <1>5 DEF PackCommit, BringCommit, RequestCommit
  <2> QED  BY <2>1, EndedIsSilent
<1> QED  BY <1>1, <1>2, <1>3, <1>4, <1>5, <1>6 DEF OrderStep, RequestStep

\* A row that a write makes short is one that its alert is to tell.
LEMMA WriteTells ==
  ASSUME SupplyTypes, SupplyTypes', Fits, NEW u \in Users, OrderStep(u) \/ RequestStep(u),
         pend'[u].op = "notify", NEW row \in Rows, Short(row) = 0, Short(row)' > 0, row[1] \notin misread'
  PROVE  row[1] \in pend'[u].skus
<1> SUFFICES ASSUME row[1] \notin pend'[u].skus PROVE FALSE  OBVIOUS
<1>1. Short(row)' # Short(row) /\ Short(row)' # 0
  <2>1. \A k : k = 0 => ~(k > 0)  OBVIOUS
  <2> QED  BY <2>1
<1>2. ASSUME NEW o \in Orders, CreateCommit(u, o) PROVE FALSE
  BY <1>1, <1>2, CreateTells
<1>3. CASE CustomizeCommit(u)  BY <1>1, <1>3, CustomizeTells
<1>4. CASE ReleaseCommit(u)  BY <1>1, <1>4, ReleaseTells
<1> QED  BY <1>2, <1>3, <1>4, OnlyWritesTell

LEMMA MisreadGrows ==
  ASSUME Step
  PROVE  misread \subseteq misread'
<1>1. ASSUME NEW u \in Users, OrderStep(u) PROVE misread \subseteq misread'
  BY <1>1 DEF OrderStep, CreateRead, CreateCommit, CustomizeRead, PackRead, CustomizeCommit, PackCommit
<1>2. ASSUME NEW u \in Users, RequestStep(u) PROVE misread \subseteq misread'
  BY <1>2 DEF RequestStep, RequestRead, RequestCommit, ReleaseRead, ReleaseCommit, BringRead, BringCommit
<1>4. ASSUME NEW o \in Orders, HandOver(o) \/ CancelOrder(o) PROVE misread' = misread
  BY <1>4 DEF HandOver, CancelOrder
<1>5. ASSUME NEW q \in RequestIds, Send(q) \/ RemoveDraft(q) PROVE misread' = misread
  BY <1>5 DEF Send, RemoveDraft
<1>6. ASSUME NEW s \in Skus, Sell(s) PROVE misread' = misread  BY <1>6 DEF Sell
<1> QED  BY <1>1, <1>2, <1>4, <1>5, <1>6 DEF Step

\* An alert sent, or failed, changes nothing that makes a row short.
LEMMA NotifyAwaited ==
  ASSUME SupplyTypes, SilentAwaited, NEW u \in Users, Notify(u)
  PROVE  SilentAwaited'
<1>1. PICK told \in SUBSET Announced(u) : /\ silent' = silent \ told
                                           /\ missed' = (missed \cup (silent \cap Announced(u))) \ told
  BY DEF Notify
<1>2. UNCHANGED <<order, shared, pinned, request, misread>>  BY DEF Notify, goods
<1>3. ASSUME NEW row PROVE Short(row)' = Short(row)  BY <1>2, ShortStill
<1>4. \A v \in Users \ {u} : pend'[v] = pend[v]  BY OneCallMoves
<1>5. \A row \in silent' : Short(row)' > 0  BY <1>1, <1>3 DEF SilentAwaited
<1>6. missed' \subseteq Rows  BY <1>1 DEF SilentAwaited
<1>7. ASSUME NEW row \in silent' \ missed', row[1] \notin misread' PROVE Awaited(row)'
  <2>1. row \in silent \ missed /\ row \notin Announced(u) /\ row[1] \notin misread
    BY <1>1, <1>2, <1>7
  <2>2. PICK v \in Users : /\ pend[v].op = "notify"
                           /\ row[1] \in pend[v].skus /\ row \notin pend[v].before
    BY <2>1 DEF SilentAwaited, Awaited
  <2>3. v # u
    <3>1. PICK s \in Skus, l \in LineIds : row = <<s, l>>  BY <2>1 DEF SilentAwaited, Rows
    <3>2. v = u => row \in RowsOf(pend[u].skus)  BY <2>2, <3>1 DEF RowsOf
    <3> QED  BY <2>1, <2>2, <3>2 DEF SilentAwaited, Announced, CrossedShortage
  <2> QED  BY <1>4, <2>2, <2>3 DEF Awaited
<1>8. silent' \subseteq Rows  BY <1>1 DEF SilentAwaited
<1> QED  BY <1>5, <1>6, <1>7, <1>8 DEF SilentAwaited

LEMMA SilentAwaitedStep ==
  ASSUME SupplyTypes, SupplyTypes', Fits, SilentAwaited, [SupplyNext]_supplyVars
  PROVE  SilentAwaited'
<1>1. CASE UNCHANGED supplyVars
  <2>1. UNCHANGED <<order, shared, pinned, request, pend, silent, missed, misread>>  BY <1>1 DEF supplyVars
  <2>2. \A row : Short(row)' = Short(row)  BY <2>1, ShortStill
  <2> QED  BY <2>1, <2>2 DEF SilentAwaited, Awaited
<1>2. CASE /\ Step
           /\ silent' = {row \in silent \cup Opened : Short(row)' > 0}
           /\ missed' = {row \in missed \cup Overlooked : Short(row)' > 0}
  <2>1. Opened \subseteq Rows /\ Overlooked \subseteq Opened  BY DEF Opened, Overlooked
  <2>2. silent' \subseteq Rows /\ missed' \subseteq Rows /\ \A row \in silent' : Short(row)' > 0
    BY <1>2, <2>1 DEF SilentAwaited
  <2>3. ASSUME NEW row \in silent' \ missed', row[1] \notin misread' PROVE Awaited(row)'
    <3>1. /\ row \in silent \cup Opened /\ row \notin missed \cup Overlooked /\ Short(row)' > 0
          /\ row \in Rows /\ row[1] \notin misread
      BY <1>2, <2>2, <2>3, MisreadGrows
    <3>2. CASE row \in silent
      <4>1. PICK u \in Users : /\ pend[u].op = "notify"
                               /\ row[1] \in pend[u].skus /\ row \notin pend[u].before
        BY <3>1, <3>2 DEF SilentAwaited, Awaited
      <4>2. pend'[u] = pend[u]
        <5>1. SUFFICES ASSUME pend'[u] # pend[u] PROVE FALSE  OBVIOUS
        <5>2. PICK v \in Users : OrderStep(v) \/ RequestStep(v)
          BY <1>2, <5>1 DEF Step, HandOver, CancelOrder, Send, RemoveDraft, Sell
        <5>3. v = u  BY <5>1, <5>2, OneCallMoves
        <5> QED  BY <4>1, <5>2, <5>3, NoticeOnlyEnds
      <4> QED  BY <4>1, <4>2 DEF Awaited
    <3>3. CASE row \in Opened
      <4>1. PICK u \in Users : Writing(u) /\ Short(row) = 0
        BY <3>3 DEF Opened
      <4>2. pend[u].op # "notify" /\ pend'[u].op = "notify"  BY <4>1 DEF Writing
      <4>3. row \notin pend'[u].before  BY <3>1, <3>3, <4>1 DEF Overlooked
      <4>4. PICK v \in Users : OrderStep(v) \/ RequestStep(v)
        BY <1>2, <4>2 DEF Step, HandOver, CancelOrder, Send, RemoveDraft, Sell
      <4>5. v = u  BY <4>2, <4>4, OneCallMoves
      <4>6. row[1] \in pend'[u].skus  BY <2>3, <3>1, <4>1, <4>2, <4>4, <4>5, WriteTells
      <4> QED  BY <4>2, <4>3, <4>6 DEF Awaited
    <3> QED  BY <3>1, <3>2, <3>3
  <2> QED  BY <2>2, <2>3 DEF SilentAwaited
<1>3. ASSUME NEW u \in Users, Notify(u) PROVE SilentAwaited'  BY <1>3, NotifyAwaited
<1> QED  BY <1>1, <1>2, <1>3 DEF SupplyNext

\* The histories name SKUs and lines.
Histories == misread \subseteq Skus /\ overtaken \subseteq Orders

LEMMA HistoriesStep ==
  ASSUME SupplyTypes, Histories, [SupplyNext]_supplyVars
  PROVE  Histories'
<1>1. /\ \A o \in Orders : order[o].sku \in Skus
      /\ \A q \in RequestIds : request[q].sku \in Skus /\ request[q].line \in LineIds
  BY DEF SupplyTypes, OrderRow, RequestRow
<1>2. ASSUME NEW u \in Users, OrderStep(u) PROVE Histories'
  <2>1. CASE CustomizeCommit(u)
    <3>1. pend[u].order \in Orders  BY <2>1 DEF CustomizeCommit, SupplyTypes, CallTyped
    <3> QED  BY <2>1, <3>1 DEF CustomizeCommit, Histories
  <2>2. CASE PackCommit(u)
    <3>1. PICK o, s : o = pend[u].order /\ o \in Orders /\ s = pend[u].sku /\ s \in Skus
      BY <2>2 DEF PackCommit, SupplyTypes, CallTyped
    <3>2. overtaken' = overtaken /\ (misread' = misread \/ misread' = misread \cup {s, order[o].sku})
      BY <2>2, <3>1 DEF PackCommit
    <3> QED  BY <1>1, <3>1, <3>2 DEF Histories
  <2> QED  BY <1>2, <2>1, <2>2 DEF OrderStep, CreateRead, CreateCommit, CustomizeRead, PackRead, Histories
<1>3. ASSUME NEW u \in Users, RequestStep(u) PROVE Histories'
  <2>1. CASE ReleaseCommit(u)
    <3>1. PICK q, s : q = pend[u].request /\ q \in RequestIds /\ s = pend[u].sku /\ s \in Skus
      BY <2>1 DEF ReleaseCommit, SupplyTypes, CallTyped
    <3>2. overtaken' = overtaken /\ (misread' = misread \/ misread' = misread \cup {s, request[q].sku})
      BY <2>1, <3>1 DEF ReleaseCommit
    <3> QED  BY <1>1, <3>1, <3>2 DEF Histories
  <2>2. CASE BringCommit(u)
    <3>1. PICK q : q = pend[u].request /\ q \in RequestIds
      BY <2>2 DEF BringCommit, SupplyTypes, CallTyped
    <3>2. /\ misread' = misread
          /\ overtaken' = overtaken \/ overtaken' = overtaken \cup ({request[q].line} \ {NoLine})
      BY <2>2, <3>1 DEF BringCommit
    <3> QED  BY <1>1, <3>1, <3>2 DEF Histories, LineIds
  <2>3. ASSUME NEW q \in RequestIds, RequestCommit(u, q) PROVE Histories'
    <3>1. pend[u].line \in LineIds  BY <2>3 DEF RequestCommit, SupplyTypes, CallTyped
    <3> QED  BY <2>3, <3>1 DEF RequestCommit, Histories, LineIds
  <2> QED
    BY <1>3, <2>1, <2>2, <2>3 DEF RequestStep, RequestRead, ReleaseRead, BringRead, Histories
<1>4. ASSUME \/ \E u \in Users : Notify(u)
             \/ \E o \in Orders : HandOver(o) \/ CancelOrder(o)
             \/ \E q \in RequestIds : Send(q) \/ RemoveDraft(q)
             \/ \E s \in Skus : Sell(s)
             \/ UNCHANGED supplyVars
      PROVE  Histories'
  BY <1>4 DEF Notify, HandOver, CancelOrder, Send, RemoveDraft, Sell, supplyVars, Histories
<1> QED  BY <1>2, <1>3, <1>4 DEF SupplyNext, Step

-------------------------------------------------------------------------------
(* The theorems on the list of goods to be made *)

SupplyInv == SupplyTypes /\ LockedFollows /\ Fits /\ SilentAwaited /\ Histories

LEMMA SupplyInvInit == SupplyInit => SupplyInv
<1>1. SupplyInit => SilentAwaited /\ Histories
  BY DEF SupplyInit, SilentAwaited, Histories
<1> QED  BY <1>1, SupplyTypesInit, LockedFollowsInit, FitsInit DEF SupplyInv

LEMMA SupplyInvStep == SupplyInv /\ [SupplyNext]_supplyVars => SupplyInv'
<1> SUFFICES ASSUME SupplyInv, [SupplyNext]_supplyVars PROVE SupplyInv'  OBVIOUS
<1>1. SupplyTypes'  BY SupplyTypesStep DEF SupplyInv
<1>2. LockedFollows'  BY <1>1, LockedFollowsStep DEF SupplyInv
<1>3. Fits'  BY <1>1, FitsStep DEF SupplyInv
<1>4. SilentAwaited'  BY <1>1, SilentAwaitedStep DEF SupplyInv
<1>5. Histories'  BY HistoriesStep DEF SupplyInv
<1> QED  BY <1>1, <1>2, <1>3, <1>4, <1>5 DEF SupplyInv

LEMMA SupplyInvAlways == SupplySpec => []SupplyInv
<1> QED  BY SupplyInvInit, SupplyInvStep, PTL DEF SupplySpec

\* Every order, request and row of stock is what its table's columns hold.
THEOREM SupplyTypeCorrect == SupplySpec => []SupplyTypeOK
<1>1. SupplyInv => SupplyTypeOK
  BY DEF SupplyInv, SupplyTypes, SilentAwaited, Histories, SupplyTypeOK, OrderRow, OrderStatuses,
       RequestRow, RequestStatuses
<1> QED  BY <1>1, SupplyInvAlways, PTL

\* Whatever the interleaving of orders, edits, requests and receipts: when the list shows
\* no row of an SKU short and waits for nothing, every line of it can be packed and handed
\* over (production-list.service.ts, stock-check.ts, inventories.service.ts drawLots).
THEOREM CoveredPlansShip == SupplySpec => []CoveredPlanShips
<1>1. SupplyInv => CoveredPlanShips  BY PlanShipsAlways DEF SupplyInv
<1> QED  BY <1>1, SupplyInvAlways, PTL

\* What the workshop has made for a line is of the line's SKU, but for the lines whose
\* customization raced with a request (order-customization.service.ts, receive).
THEOREM MadeToMeasureFitsTheLine == SupplySpec => []MadeToMeasureFits
<1>1. SupplyInv => MadeToMeasureFits  BY MadeFits DEF SupplyInv
<1> QED  BY <1>1, SupplyInvAlways, PTL

\* No row stays short in silence: while one does, the alert of some write is under way, or
\* the alert for it failed, or the write's snapshot had held it short already
\* (production-list.service.ts notifyNewShortages, order-shortage-alerts.ts).
THEOREM ShortagesAreTold == SupplySpec => []OpenedShortageIsTold
<1>1. SupplyInv => OpenedShortageIsTold
  <2> SUFFICES ASSUME SupplyInv, NEW row \in silent \ missed, row[1] \notin misread
               PROVE  \E u \in Users : pend[u].op = "notify"
    BY DEF OpenedShortageIsTold
  <2> QED  BY DEF SupplyInv, SilentAwaited, Awaited
<1> QED  BY <1>1, SupplyInvAlways, PTL
=============================================================================
