---------------------------- MODULE StockMovement ----------------------------
(***************************************************************************)
(* Stock movement documents (StockMovementRequest) between the locations   *)
(* of a shop, for one product item, with what they act on: the inventory   *)
(* rows, their lots, the ledger and the supplier's debt.                   *)
(*                                                                         *)
(* Every handler reads the document with no lock, checks the status it     *)
(* read, and later writes by id alone: Load, then a commit. Writers of one *)
(* inventory row queue on it (the row is written before its lots), so what *)
(* one transaction does to a row is one step; but returnDrawn reads the    *)
(* ledger before it takes that row, so it is a step of its own: Plan.      *)
(*                                                                         *)
(* EXPORT and RETURN differ only in direction and are both TRANSFER here.  *)
(* Prices are 1, so debt counts units. Lots pinned to a custom order line, *)
(* roles and notifications are left out.                                   *)
(***************************************************************************)
EXTENDS Naturals, Integers, Sequences, SequencesExt

CONSTANTS Locations,
          Opening,   \* the lots there are to begin with, oldest first
          Docs,      \* ids of documents (bound: their number)
          Types,     \* the movement types raised in this instance
          MaxMoved,  \* bound: quantity of a document
          MaxLots,   \* bound: lots ever opened
          MaxEdits,  \* bound: edits of one document
          Clerks     \* concurrent HTTP requests

ASSUME MovementAssumption ==
  /\ IsFiniteSet(Locations) /\ Locations # {}
  /\ Opening \in Seq([at : Locations, left : Nat])
  /\ Types \subseteq {"TRANSFER", "IMPORT", "ADJUST"}
  /\ IsFiniteSet(Docs)
  /\ MaxMoved \in Nat \ {0} /\ MaxLots \in Nat /\ MaxEdits \in Nat
  /\ Len(Opening) <= MaxLots

VARIABLES
  stock, locked,  \* inventories.stock and locked_stock by location
  lots,           \* inventory_lots in the order they were opened
  mov,            \* the documents
  out, into,      \* the ledger: units a document drew from a lot, and
                  \* brought back to it (or to a lot split from it)
  debt,           \* the supplier's outstandingDebt
  task,            \* what each open request has read
  packed,         \* history: units locked for packed orders
  raced,          \* history: documents written on a status read too early
  blind           \* history: locations whose row was deleted with stock in it

shelfVars == <<stock, locked, lots>>
ledgerVars == <<out, into>>
history == <<packed, raced, blind>>
movementVars == <<shelfVars, mov, ledgerVars, debt, task, history>>

LotIds == 1..MaxLots
SumOver(f, S) == SumFunctionOnSet(f, S)
NoneMoved == [k \in LotIds |-> 0]

FinalStatuses == {"RECEIVED", "COMPLETED", "CANCELLED"}
Absent == [type |-> "NONE", status |-> "NONE", from |-> "NONE", to |-> "NONE",
           qty |-> 0, received |-> 0, edits |-> 0]

NoTask == [op |-> "idle"]
Take(r, x) == task' = [task EXCEPT ![r] = x]
Drop(r) == Take(r, NoTask)

-----------------------------------------------------------------------------
(* The inventory primitives *)

Shelf(at) == stock[at] - locked[at]

\* Spreads q over the places of lots in FIFO order, each up to its room.
Older(j, k) == \/ lots[j].age < lots[k].age
               \/ lots[j].age = lots[k].age /\ j < k
RoomBefore(room, k) ==
  SumOver(room, {j \in DOMAIN lots : Older(j, k)})
Spread(room, q) ==
  [k \in LotIds |->
     IF k \notin DOMAIN lots \/ RoomBefore(room, k) >= q THEN 0
     ELSE Min({room[k], q - RoomBefore(room, k)})]

\* planDraw: only lots of the location.
LeftAt(at) == [k \in DOMAIN lots |-> IF lots[k].at = at THEN lots[k].left ELSE 0]
DrawSlices(at, q) == Spread(LeftAt(at), q)
LotsCover(at, q) == SumOver(LeftAt(at), DOMAIN lots) >= q

\* The shelf is checked inside the UPDATE; a wrong variant checks the stock.
StockCovers(at, q) == stock[at] >= q
ShelfCovers(at, q) == Shelf(at) >= q

LotsDrawn(slices) == [k \in DOMAIN lots |->
                        [lots[k] EXCEPT !.left = @ - slices[k]]]

\* deductStock: the row, then the lots; the caller keeps the slices.
DeductStock(at, q) ==
  /\ ShelfCovers(at, q)
  /\ LotsCover(at, q)
  /\ stock' = [stock EXCEPT ![at] = @ - q]
  /\ lots' = LotsDrawn(DrawSlices(at, q))
  /\ UNCHANGED locked

NewLot(at, q) == [at |-> at, left |-> q, age |-> Len(lots) + 1]

\* openLot.
OpenLot(at, q) ==
  /\ Len(lots) < MaxLots
  /\ stock' = [stock EXCEPT ![at] = @ + q]
  /\ lots' = Append(lots, NewLot(at, q))
  /\ UNCHANGED locked

\* planReturn: what the document still has out of each lot.
StillOut(d) == [k \in LotIds |->
                  IF out[d][k] > into[d][k] THEN out[d][k] - into[d][k] ELSE 0]
ReturnSlices(d, q) == Spread(StillOut(d), q)
OutCovers(d, q) == SumOver(StillOut(d), LotIds) >= q
NeverDrawn(d) == out[d] = NoneMoved

\* returnDrawn at commit: into the lot itself at its own location, else into
\* a new lot split from it that keeps its age. A wrong variant puts all of it
\* back into the lots it left.
Split(slices, at) == {k \in DOMAIN lots : slices[k] > 0 /\ lots[k].at # at}
Children(slices, at) ==
  LET ks == SetToSeq(Split(slices, at)) IN
  [i \in DOMAIN ks |-> [at |-> at, left |-> slices[ks[i]],
                        age |-> lots[ks[i]].age]]

LotsReturnedHome(slices, at) ==
  [k \in DOMAIN lots |-> [lots[k] EXCEPT !.left = @ + slices[k]]]
LotsReturned(slices, at) ==
  [k \in DOMAIN lots |->
     IF lots[k].at = at THEN [lots[k] EXCEPT !.left = @ + slices[k]]
     ELSE lots[k]]
  \o Children(slices, at)

ReturnDrawn(d, at, slices, q) ==
  /\ Len(lots) + Cardinality(Split(slices, at)) <= MaxLots
  /\ stock' = [stock EXCEPT ![at] = @ + q]
  /\ lots' = LotsReturned(slices, at)
  /\ into' = [into EXCEPT ![d] = [k \in LotIds |-> @[k] + slices[k]]]
  /\ UNCHANGED <<locked, out>>

-----------------------------------------------------------------------------
(* POST /stock-movements, and its lines while it is being prepared *)

FirstStatus(type) == IF type = "TRANSFER" THEN "DRAFT" ELSE "PENDING"

\* assertStockCovers: advice only, the shelf may be gone by the time it ships.
Advised(type, from, q) == type = "TRANSFER" => q <= Shelf(from)

\* An IMPORT has no source, an ADJUST no destination; its quantity is the
\* recorded stock, or what the client says that is.
Documents(type) ==
  {[type |-> type, status |-> FirstStatus(type), from |-> a, to |-> b,
    qty |-> q, received |-> c, edits |-> 0] :
     a \in IF type = "IMPORT" THEN {"NONE"} ELSE Locations,
     b \in IF type = "ADJUST" THEN {"NONE"} ELSE Locations,
     q \in IF type = "ADJUST" THEN {stock[l] : l \in Locations} \cup 0..MaxMoved ELSE 1..MaxMoved,
     c \in IF type = "ADJUST" THEN 0..MaxMoved ELSE {0}}

Create(d) ==
  /\ mov[d] = Absent
  /\ \E type \in Types : \E m \in Documents(type) :
       /\ m.from # m.to
       /\ Advised(type, m.from, m.qty)
       /\ mov' = [mov EXCEPT ![d] = m]
  /\ UNCHANGED <<shelfVars, ledgerVars, debt, task, history>>

-----------------------------------------------------------------------------
(* The handlers *)

AllowedFrom(op, type) ==
  CASE op = "edit"    -> IF type = "TRANSFER" THEN {"OPENING"} ELSE {"PENDING"}
    [] op = "open"    -> {"DRAFT"}
    [] op = "close"   -> {"OPENING"}
    [] op = "ship"    -> {"CLOSED", "PENDING"}
    [] op = "receive" -> (CASE type = "IMPORT"   -> {"PENDING", "IN_TRANSIT"}
                            [] type = "TRANSFER" -> {"IN_TRANSIT"}
                            [] OTHER             -> {})
    [] op = "approve" -> IF type = "ADJUST" THEN {"PENDING"} ELSE {}
    [] op = "cancel"  -> {"DRAFT", "PENDING", "OPENING", "CLOSED", "IN_TRANSIT"}

Operations == {"edit", "open", "close", "ship", "receive", "approve", "cancel"}

\* findRow and assertStatus. received is what a receipt states; open and close
\* look at the shelf as well.
Load(r) ==
  /\ task[r] = NoTask
  /\ \E op \in Operations, d \in Docs : \E received \in 0..mov[d].qty :
       /\ mov[d] # Absent
       /\ mov[d].status \in AllowedFrom(op, mov[d].type)
       /\ (op = "receive") <=> (received > 0)
       /\ op \in {"open", "close"}
            => Advised(mov[d].type, mov[d].from, mov[d].qty)
       /\ op = "approve" => mov[d].received # mov[d].qty
       /\ Take(r, [op |-> op, doc |-> d, row |-> mov[d],
                   received |-> received, slices |-> NoneMoved])
  /\ UNCHANGED <<shelfVars, mov, ledgerVars, debt, history>>

\* The document as it is when the request writes it, and what it remembers.
Stale(r) == mov[task[r].doc].status # task[r].row.status
            \/ mov[task[r].doc].edits # task[r].row.edits
MarkRaced(r) == raced' = IF Stale(r) THEN raced \cup {task[r].doc} ELSE raced
SetStatus(r, to) ==
  /\ mov' = [mov EXCEPT ![task[r].doc].status = to]
  /\ MarkRaced(r)

EditCommit(r) ==
  LET seen == task[r] IN
  /\ seen.op = "edit"
  /\ mov[seen.doc].edits < MaxEdits
  /\ \E m \in Documents(seen.row.type) :
       /\ m.from = seen.row.from /\ m.to = seen.row.to
       /\ Advised(m.type, m.from, m.qty)
       /\ mov' = [mov EXCEPT ![seen.doc] =
                    [m EXCEPT !.status = mov[seen.doc].status,
                              !.edits = mov[seen.doc].edits + 1]]
  /\ MarkRaced(r)
  /\ Drop(r)
  /\ UNCHANGED <<shelfVars, ledgerVars, debt, packed, blind>>

OpenCommit(r) == /\ task[r].op = "open"
                 /\ SetStatus(r, "OPENING")
                 /\ Drop(r)
                 /\ UNCHANGED <<shelfVars, ledgerVars, debt, packed, blind>>

CloseCommit(r) == /\ task[r].op = "close"
                  /\ SetStatus(r, "CLOSED")
                  /\ Drop(r)
                  /\ UNCHANGED <<shelfVars, ledgerVars, debt, packed, blind>>

\* Only a transfer takes goods off a shelf when it ships.
ShipCommit(r) ==
  LET seen == task[r] IN
  /\ seen.op = "ship"
  /\ IF seen.row.type = "TRANSFER"
     THEN /\ DeductStock(seen.row.from, seen.row.qty)
          /\ out' = [out EXCEPT ![seen.doc] =
                       [k \in LotIds |-> @[k] + DrawSlices(seen.row.from,
                                                         seen.row.qty)[k]]]
     ELSE UNCHANGED <<shelfVars, out>>
  /\ SetStatus(r, "IN_TRANSIT")
  /\ Drop(r)
  /\ UNCHANGED <<into, debt, packed, blind>>

\* returnDrawn reads the ledger, with no lock, and refuses more than is out.
\* A cancelled transfer brings back its whole quantity, if it was on its way.
\* Wrong variants: a receipt brings back what was sent, and charges it.
ShouldReturnStock(row) == row.status = "IN_TRANSIT" /\ row.type = "TRANSFER"
QuantitySent(seen) == seen.row.qty
ToBringBack(seen) == IF seen.op = "receive" THEN seen.received ELSE seen.row.qty
BringsBack(seen) ==
  seen.op \in {"receive", "cancel"} /\ ShouldReturnStock(seen.row)

Plan(r) ==
  LET seen == task[r] IN
  /\ seen.op \in {"receive", "cancel"}
  /\ BringsBack(seen) /\ seen.slices = NoneMoved
  /\ OutCovers(seen.doc, ToBringBack(seen))
  /\ task' = [task EXCEPT ![r].slices = ReturnSlices(seen.doc, ToBringBack(seen))]
  /\ UNCHANGED <<shelfVars, mov, ledgerVars, debt, history>>

\* The received quantity is written to the lines that were read, which an edit
\* has replaced; an import opens a lot and charges the supplier what arrived.
Charged(seen) == seen.received

ReceiveCommit(r) ==
  LET seen == task[r] IN
  /\ seen.op = "receive"
  /\ mov[seen.doc].edits = seen.row.edits
  /\ IF seen.row.type = "IMPORT"
     THEN /\ OpenLot(seen.row.to, seen.received)
          /\ into' = [into EXCEPT ![seen.doc][Len(lots) + 1] = seen.received]
          /\ debt' = debt + Charged(seen)
          /\ UNCHANGED out
     ELSE /\ seen.slices # NoneMoved
          /\ ReturnDrawn(seen.doc, seen.row.to, seen.slices, seen.received)
          /\ UNCHANGED debt
  /\ mov' = [mov EXCEPT ![seen.doc].status = "RECEIVED",
                        ![seen.doc].received = seen.received]
  /\ MarkRaced(r)
  /\ Drop(r)
  /\ UNCHANGED <<packed, blind>>

\* A surplus opens a lot, a shortage is drawn like a sale.
Surplus(row) == row.received - row.qty
ApproveCommit(r) ==
  LET seen == task[r]
      row == seen.row
      at == row.from
  IN /\ seen.op = "approve"
     /\ IF Surplus(row) > 0
        THEN /\ OpenLot(at, Surplus(row))
             /\ into' = [into EXCEPT ![seen.doc][Len(lots) + 1] = Surplus(row)]
             /\ UNCHANGED out
        ELSE /\ DeductStock(at, -Surplus(row))
             /\ out' = [out EXCEPT ![seen.doc] =
                          [k \in LotIds |-> @[k] + DrawSlices(at, -Surplus(row))[k]]]
             /\ UNCHANGED into
     /\ SetStatus(r, "COMPLETED")
     /\ Drop(r)
     /\ UNCHANGED <<debt, packed, blind>>

CancelCommit(r) ==
  LET seen == task[r] IN
  /\ seen.op = "cancel"
  /\ IF BringsBack(seen)
     THEN /\ seen.slices # NoneMoved
          /\ ReturnDrawn(seen.doc, seen.row.from, seen.slices, seen.row.qty)
     ELSE UNCHANGED <<shelfVars, ledgerVars>>
  /\ SetStatus(r, "CANCELLED")
  /\ Drop(r)
  /\ UNCHANGED <<debt, packed, blind>>

\* A refusal, an error or a crash rolls the transaction back.
AbandonTask(r) == /\ task[r] # NoTask
                  /\ Drop(r)
                  /\ UNCHANGED <<shelfVars, mov, ledgerVars, debt, history>>

-----------------------------------------------------------------------------
(* The rest of the shop at the same shelves, one unit at a time *)

Sell(at) == /\ DeductStock(at, 1)
            /\ UNCHANGED <<mov, ledgerVars, debt, task, history>>

LockStock(at) == /\ ShelfCovers(at, 1)
                 /\ locked' = [locked EXCEPT ![at] = @ + 1]
                 /\ packed' = [packed EXCEPT ![at] = @ + 1]
                 /\ UNCHANGED <<stock, lots, mov, ledgerVars, debt, task,
                                raced, blind>>

ReleaseLockedStock(at) ==
  /\ packed[at] > 0 /\ locked[at] >= 1
  /\ locked' = [locked EXCEPT ![at] = @ - 1]
  /\ packed' = [packed EXCEPT ![at] = @ - 1]
  /\ UNCHANGED <<stock, lots, mov, ledgerVars, debt, task, raced, blind>>

ShipLockedStock(at) ==
  /\ packed[at] > 0 /\ locked[at] >= 1 /\ LotsCover(at, 1)
  /\ stock' = [stock EXCEPT ![at] = @ - 1]
  /\ locked' = [locked EXCEPT ![at] = @ - 1]
  /\ lots' = LotsDrawn(DrawSlices(at, 1))
  /\ packed' = [packed EXCEPT ![at] = @ - 1]
  /\ UNCHANGED <<mov, ledgerVars, debt, task, raced, blind>>

\* removeProductFromLocation: reads that nothing is left, then deletes the row.
RemoveRead(r) ==
  /\ task[r] = NoTask
  /\ \E at \in Locations : stock[at] = 0
                           /\ Take(r, [op |-> "remove", at |-> at])
  /\ UNCHANGED <<shelfVars, mov, ledgerVars, debt, history>>

RemoveCommit(r) ==
  /\ task[r].op = "remove"
  /\ LET at == task[r].at IN
       /\ blind' = IF stock[at] > 0 THEN blind \cup {at} ELSE blind
       /\ stock' = [stock EXCEPT ![at] = 0]
       /\ locked' = [locked EXCEPT ![at] = 0]
  /\ Drop(r)
  /\ UNCHANGED <<lots, mov, ledgerVars, debt, packed, raced>>

-----------------------------------------------------------------------------
MovementInit ==
  /\ lots = [k \in DOMAIN Opening |->
               [at |-> Opening[k].at, left |-> Opening[k].left, age |-> k]]
  /\ stock = [at \in Locations |-> SumOver(LeftAt(at), DOMAIN lots)]
  /\ locked = [at \in Locations |-> 0]
  /\ mov = [d \in Docs |-> Absent]
  /\ out = [d \in Docs |-> NoneMoved]
  /\ into = [d \in Docs |-> NoneMoved]
  /\ debt = 0
  /\ task = [r \in Clerks |-> NoTask]
  /\ packed = [at \in Locations |-> 0]
  /\ raced = {}
  /\ blind = {}

MovementNext ==
  \/ \E d \in Docs : Create(d)
  \/ \E r \in Clerks :
       \/ Load(r) \/ Plan(r)
       \/ EditCommit(r) \/ OpenCommit(r) \/ CloseCommit(r) \/ ShipCommit(r)
       \/ ReceiveCommit(r) \/ ApproveCommit(r) \/ CancelCommit(r)
       \/ RemoveRead(r) \/ RemoveCommit(r)
       \/ AbandonTask(r)
  \/ \E at \in Locations : \/ Sell(at) \/ LockStock(at)
                           \/ ReleaseLockedStock(at) \/ ShipLockedStock(at)

MovementSpec == MovementInit /\ [][MovementNext]_movementVars

-----------------------------------------------------------------------------
(* Properties *)

MovementTypes ==
  /\ stock \in [Locations -> Nat] /\ locked \in [Locations -> Nat]
  /\ lots \in Seq([at : Locations, left : Nat, age : Nat])
  /\ Len(lots) <= MaxLots
  /\ out \in [Docs -> [LotIds -> Nat]] /\ into \in [Docs -> [LotIds -> Nat]]
  /\ debt \in Nat
  /\ \A d \in Docs : mov[d].status \in {"NONE", "DRAFT", "PENDING", "OPENING",
                       "CLOSED", "IN_TRANSIT"} \cup FinalStatuses

\* The rule of the inventory primitives survives every race between documents,
\* sales and packed orders: the lots of a location hold exactly its stock, and
\* goods packed for an order are there until it ships or is cancelled, whatever
\* a transfer, stocktake or sale had read before. Only a row deleted by a
\* request that had seen it empty breaks it.
StockIsSound ==
  \A at \in Locations \ blind :
    /\ SumOver(LeftAt(at), DOMAIN lots) = stock[at]
    /\ locked[at] = packed[at] /\ locked[at] <= stock[at]

\* The supplier is owed exactly what the ledger says came in from him, even
\* when the same import is received twice or edited meanwhile.
DebtFollowsGoods ==
  debt = SumOver([d \in Docs |-> SumOver(into[d], LotIds)],
                 {d \in Docs : mov[d].type = "IMPORT"})

NetOut(d) == SumOver(out[d], LotIds) - SumOver(into[d], LotIds)
NetDue(m) ==
  CASE m.type = "TRANSFER" ->
         (CASE m.status = "IN_TRANSIT" -> m.qty
            [] m.status = "RECEIVED"   -> m.qty - m.received
            [] OTHER                   -> 0)
    [] m.type = "IMPORT" -> IF m.status = "RECEIVED" THEN -m.received ELSE 0
    [] m.type = "ADJUST" -> IF m.status = "COMPLETED"
                            THEN m.qty - m.received ELSE 0
    [] OTHER -> 0

\* A document whose every write was decided on the status it still had has
\* moved what its status says: on its way, all of it; received, all but the
\* loss; called off, nothing. And no lot got back more than left it.
DocumentAccountsForGoods ==
  \A d \in Docs \ raced :
    /\ NetOut(d) = NetDue(mov[d])
    /\ mov[d].type = "TRANSFER" => \A k \in LotIds : into[d][k] <= out[d][k]

-----------------------------------------------------------------------------
(* What the repository's comments say and the code does not keep *)

\* inventories.service.ts:440: a return is refused beyond what the document
\* took out and has not brought back. So a transfer never brings back more
\* units of a lot than it drew.
ReturnedWithinDrawn ==
  \A d \in Docs : mov[d].type = "TRANSFER" =>
    SumOver(into[d], LotIds) <= SumOver(out[d], LotIds)
=============================================================================
