------------------------------ MODULE CounterSale ------------------------------
(***************************************************************************)
(* Counter sales (POST /orders/pos, orders.service.ts): a sale takes its   *)
(* goods from the branch at once and is paid at once, unless it is to be   *)
(* paid by a SePay transfer, when it waits for the bank's webhook. A       *)
(* waiting sale can be settled by the webhook, by another means of payment *)
(* (payOffline) or by a clerk's status change, and can be cancelled; a     *)
(* settled one can be returned.                                            *)
(*                                                                         *)
(* Every handler reads the order outside any transaction, and the first    *)
(* statement of its transaction claims the order by what it read, so that  *)
(* a request is two steps: a read and a commit. The row the claim locks    *)
(* makes the commit one step. The webhook may be delivered again, and the  *)
(* process may stop between a read and its commit.                         *)
(*                                                                         *)
(* One product, one unit and the same price for each order. Pricing,       *)
(* combos, the walk-in customer, roles and notifications are left out.     *)
(***************************************************************************)
EXTENDS Naturals, Integers, FiniteSets

CONSTANTS Orders,     \* ids of sales (bound: their number)
          Due,        \* grandTotal of a sale
          Tenders,    \* what a customer may hand over, 0 when it is not said
          OnShelf,    \* units the branch begins with
          Transfers,  \* bank transfers (bound: their number)
          Brought,    \* what a transfer may bring
          For,        \* the sale whose reference a transfer carries
          NoTransfer, \* sepayTransactionId of a sale no transfer has settled
          Calls,   \* concurrent HTTP requests
          MaxAgain    \* bound: webhooks sent again, and crashes

ASSUME CounterAssumption ==
  /\ Due \in Nat \ {0}
  /\ Tenders \subseteq Nat /\ Brought \subseteq Nat \ {0}
  /\ OnShelf \in Nat /\ MaxAgain \in Nat
  /\ For \in [Transfers -> Orders]
  /\ NoTransfer \notin Transfers

VARIABLES
  order,    \* orders, with the money columns
  shelf,    \* stock of the branch
  drawn,    \* the ledger: units the order has out of the branch
  cash,     \* cash_flows by order: what its INCOME and EXPENSE rows add up
            \* to, and its change row, which does not carry its id
  invoice,  \* sale invoice of an order
  adjusted, \* orders with an ADJUSTMENT invoice
  call,      \* what each open request has read
  amount,   \* what a transfer brought, 0 before it is made
  hook,     \* a transfer's webhook: none, due, open, answered
  again,    \* bound counter
  logged    \* transfers reported for a manual refund

sale == <<order, shelf, drawn, cash, invoice, adjusted>>
bank == <<amount, hook, again, logged>>
saleVars == <<sale, call, bank>>

\* INSTANT_COMPLETE_METHODS; the ones that are not cash are alike here.
OfflineMethods == {"CASH", "BANK_TRANSFER"}
Methods == OfflineMethods \cup {"SEPAY"}

\* VALID_ORDER_TRANSITIONS.
Transitions(status) ==
  CASE status = "PENDING" -> {"COMPLETED", "CANCELLED"}
    [] status = "COMPLETED" -> {"RETURNED"}
    [] OTHER -> {}

NoCall == [op |-> "idle"]
Unsold == [status |-> "NONE", payment |-> "UNPAID", method |-> "SEPAY",
           pay |-> 0, change |-> 0, transfer |-> NoTransfer]
NoFlow == [amount |-> 0, method |-> "SEPAY"]
NoCash == [income |-> NoFlow, expense |-> NoFlow, change |-> 0]

\* What is given back; a tender that is not said is exact.
ChangeOf(pay) == IF pay > Due THEN pay - Due ELSE 0
Enough(pay) == pay = 0 \/ pay >= Due

SaleInit ==
  /\ order = [o \in Orders |-> Unsold]
  /\ shelf = OnShelf
  /\ drawn = [o \in Orders |-> 0]
  /\ cash = [o \in Orders |-> NoCash]
  /\ invoice = [o \in Orders |-> "NONE"]
  /\ adjusted = {}
  /\ call = [r \in Calls |-> NoCall]
  /\ amount = [t \in Transfers |-> 0]
  /\ hook = [t \in Transfers |-> "none"]
  /\ again = 0
  /\ logged = {}

BeginCall(r, x) == call[r] = NoCall /\ call' = [call EXCEPT ![r] = x]
EndCall(r) == call' = [call EXCEPT ![r] = NoCall]

-----------------------------------------------------------------------------
(* What a transaction does after its claim *)

\* No index keeps a second row of an order out of cash_flows: rows add up.
Booked(flow, n, m) == [amount |-> flow.amount + n, method |-> m]

\* writeSaleCashFlows: with change to give, the notes taken in and the change.
GivesChange(row, m) == m = "CASH" /\ row.change > 0 /\ row.pay > 0
SaleBook(book, row, m) ==
  IF GivesChange(row, m)
  THEN [income |-> Booked(book.income, row.pay, m), expense |-> book.expense,
        change |-> book.change + row.change]
  ELSE [income |-> Booked(book.income, Due, m), expense |-> book.expense,
        change |-> book.change]
SaleCashFlows(o, row, m) == cash' = [cash EXCEPT ![o] = SaleBook(@, row, m)]

\* issueForOrder, voidPending.
IssueInvoice(o) == invoice' = [invoice EXCEPT ![o] = "ISSUED"]
VoidInvoice(o) ==
  invoice' = [invoice EXCEPT ![o] = IF @ = "PENDING" THEN "CANCELLED" ELSE @]

\* adjustForReturn: only of an issued invoice.
AdjustInvoice(o) ==
  adjusted' = IF invoice[o] = "ISSUED" THEN adjusted \cup {o} ELSE adjusted

\* returnDrawn for the one line of the order.
BringBack(o) ==
  /\ shelf' = shelf + drawn[o]
  /\ drawn' = [drawn EXCEPT ![o] = 0]

-----------------------------------------------------------------------------
(* The counter *)

StatusWhenMade(m) == IF m \in OfflineMethods THEN "COMPLETED" ELSE "PENDING"

\* createPosSale: one transaction, its own order, the branch's stock.
CreateSale(o, m, pay) ==
  LET row == [status |-> StatusWhenMade(m),
              payment |-> IF m \in OfflineMethods THEN "PAID" ELSE "UNPAID",
              method |-> m, pay |-> pay, change |-> ChangeOf(pay),
              transfer |-> NoTransfer] IN
  /\ order[o] = Unsold
  /\ Enough(pay)
  /\ shelf >= 1
  /\ order' = [order EXCEPT ![o] = row]
  /\ shelf' = shelf - 1
  /\ drawn' = [drawn EXCEPT ![o] = 1]
  /\ invoice' = [invoice EXCEPT
                   ![o] = IF m \in OfflineMethods THEN "ISSUED" ELSE "PENDING"]
  /\ \/ m \in OfflineMethods /\ SaleCashFlows(o, row, m)
     \/ m \notin OfflineMethods /\ UNCHANGED cash
  /\ UNCHANGED <<adjusted, call, bank>>

\* updateStatus: the order is read and the transition checked on it.
StatusRead(r, o, to) ==
  /\ to \in Transitions(order[o].status)
  /\ BeginCall(r, [op |-> "status", order |-> o, row |-> order[o], to |-> to])
  /\ UNCHANGED <<sale, bank>>

\* The claims of the three transactions; a wrong variant takes the order as is.
AnyStatus(x) == TRUE
StatusClaim(x) == order[x.order].status = x.row.status
PayClaim(x) == /\ order[x.order].status = "PENDING"
               /\ order[x.order].method = "SEPAY"
HookClaim(x) == order[x.order].status = "PENDING"

Paid(to, was) == CASE to = "COMPLETED" -> "PAID"
                   [] to = "RETURNED" -> "REFUNDED"
                   [] OTHER -> was

Complete(o, row) ==
  /\ SaleCashFlows(o, row, row.method)
  /\ IssueInvoice(o)
  /\ UNCHANGED <<shelf, drawn, adjusted>>
Cancel(o) ==
  /\ BringBack(o)
  /\ VoidInvoice(o)
  /\ UNCHANGED <<cash, adjusted>>
Return(o, row) ==
  /\ BringBack(o)
  /\ AdjustInvoice(o)
  /\ cash' = [cash EXCEPT ![o].expense = Booked(@, Due, row.method)]
  /\ UNCHANGED invoice

StatusCommit(r) ==
  LET x == call[r] IN
  /\ x.op = "status"
  /\ StatusClaim(x)
  /\ order' = [order EXCEPT ![x.order].status = x.to,
                            ![x.order].payment = Paid(x.to, @)]
  /\ \/ x.to = "COMPLETED" /\ Complete(x.order, x.row)
     \/ x.to = "CANCELLED" /\ Cancel(x.order)
     \/ x.to = "RETURNED" /\ Return(x.order, x.row)
  /\ EndCall(r)
  /\ UNCHANGED bank

\* payOffline: the customer pays by other means than the transfer awaited.
PayRead(r, o, m, pay) ==
  /\ order[o].status = "PENDING" /\ order[o].method = "SEPAY"
  /\ Enough(pay)
  /\ BeginCall(r, [op |-> "pay", order |-> o, method |-> m,
              pay |-> IF pay = 0 THEN Due ELSE pay])
  /\ UNCHANGED <<sale, bank>>

\* A wrong variant keeps the change the sale was opened with.
PaidRowKeepingChange(x) ==
  [order[x.order] EXCEPT !.status = "COMPLETED", !.payment = "PAID",
                         !.method = x.method, !.pay = x.pay]
PaidRow(x) == [order[x.order] EXCEPT !.status = "COMPLETED", !.payment = "PAID",
                                     !.method = x.method, !.pay = x.pay,
                                     !.change = ChangeOf(x.pay)]

PayCommit(r) ==
  LET x == call[r] IN
  /\ x.op = "pay"
  /\ PayClaim(x)
  /\ order' = [order EXCEPT ![x.order] = PaidRow(x)]
  /\ SaleCashFlows(x.order, PaidRow(x), x.method)
  /\ IssueInvoice(x.order)
  /\ EndCall(r)
  /\ UNCHANGED <<shelf, drawn, adjusted, bank>>

\* A commit whose claim finds no row: a conflict, nothing is written.
Lost(r) ==
  LET x == call[r] IN
  /\ \/ x.op = "status" /\ ~StatusClaim(x)
     \/ x.op = "pay" /\ ~PayClaim(x)
  /\ EndCall(r)
  /\ UNCHANGED <<sale, bank>>

-----------------------------------------------------------------------------
(* The bank *)

\* A customer makes a transfer for a sale whose QR code they were shown.
MakeTransfer(t, a) ==
  /\ amount[t] = 0
  /\ order[For[t]].status # "NONE" /\ order[For[t]].method = "SEPAY"
  /\ amount' = [amount EXCEPT ![t] = a]
  /\ hook' = [hook EXCEPT ![t] = "due"]
  /\ UNCHANGED <<sale, call, again, logged>>

AwaitsTransfer(o) == order[o].status = "PENDING" /\ order[o].method = "SEPAY"

Answered(t) == hook' = [hook EXCEPT ![t] = "answered"]

\* completeSepayOrder, nothing awaits the transfer: reported in the log.
HookTooLate(t) ==
  /\ hook[t] = "due"
  /\ ~AwaitsTransfer(For[t])
  /\ logged' = logged \cup {t}
  /\ Answered(t)
  /\ UNCHANGED <<sale, call, amount, again>>

\* A short transfer is refused; the order keeps waiting.
HookShort(t) ==
  /\ hook[t] = "due"
  /\ AwaitsTransfer(For[t]) /\ amount[t] < Due
  /\ Answered(t)
  /\ UNCHANGED <<sale, call, amount, again, logged>>

\* A wrong variant answers the bank before the commit.
HookReadAnswering(r, t) ==
  /\ hook[t] = "due"
  /\ AwaitsTransfer(For[t]) /\ amount[t] >= Due
  /\ Answered(t)
  /\ BeginCall(r, [op |-> "hook", order |-> For[t], transfer |-> t])
  /\ UNCHANGED <<sale, amount, again, logged>>
HookRead(r, t) ==
  /\ hook[t] = "due"
  /\ AwaitsTransfer(For[t]) /\ amount[t] >= Due
  /\ hook' = [hook EXCEPT ![t] = "open"]
  /\ BeginCall(r, [op |-> "hook", order |-> For[t], transfer |-> t])
  /\ UNCHANGED <<sale, amount, again, logged>>

HookCommit(r) ==
  LET x == call[r] IN
  /\ x.op = "hook"
  /\ HookClaim(x)
  /\ order' = [order EXCEPT ![x.order].status = "COMPLETED",
                            ![x.order].payment = "PAID",
                            ![x.order].transfer = x.transfer]
  /\ cash' = [cash EXCEPT ![x.order].income =
                Booked(@, amount[x.transfer], "SEPAY")]
  /\ IssueInvoice(x.order)
  /\ Answered(x.transfer)
  /\ EndCall(r)
  /\ UNCHANGED <<shelf, drawn, adjusted, amount, again, logged>>

\* The claim is lost to another way of settling: null, and no report.
HookLost(r) ==
  LET x == call[r] IN
  /\ x.op = "hook"
  /\ ~HookClaim(x)
  /\ Answered(x.transfer)
  /\ EndCall(r)
  /\ UNCHANGED <<sale, amount, again, logged>>

\* The bank sends an answered webhook once more.
SendAgain(t) ==
  /\ again < MaxAgain
  /\ hook[t] = "answered"
  /\ hook' = [hook EXCEPT ![t] = "due"]
  /\ again' = again + 1
  /\ UNCHANGED <<sale, call, amount, logged>>

\* The process stops: its open requests are gone, and the bank, which was
\* never answered, sends their webhooks again.
Crash ==
  /\ again < MaxAgain
  /\ \E r \in Calls : call[r] # NoCall
  /\ again' = again + 1
  /\ call' = [r \in Calls |-> NoCall]
  /\ hook' = [t \in Transfers |-> IF hook[t] = "open" THEN "due" ELSE hook[t]]
  /\ UNCHANGED <<sale, amount, logged>>

-----------------------------------------------------------------------------

Serve(t) == \/ HookTooLate(t) \/ HookShort(t)
            \/ \E r \in Calls : HookRead(r, t)
Finish(r) == StatusCommit(r) \/ PayCommit(r) \/ Lost(r) \/ HookCommit(r) \/ HookLost(r)

SaleNext ==
  \/ \E o \in Orders, m \in Methods, pay \in Tenders : CreateSale(o, m, pay)
  \/ \E r \in Calls, o \in Orders :
       \/ \E to \in {"COMPLETED", "CANCELLED", "RETURNED"} : StatusRead(r, o, to)
       \/ \E m \in OfflineMethods, pay \in Tenders : PayRead(r, o, m, pay)
  \/ \E r \in Calls : Finish(r)
  \/ \E t \in Transfers :
       \/ \E a \in Brought : MakeTransfer(t, a)
       \/ Serve(t) \/ SendAgain(t)
  \/ Crash

\* A request that was read goes on to its commit, and the bank delivers what
\* it owes: SePay retries until it is answered.
Fairness == /\ \A r \in Calls : WF_saleVars(Finish(r))
            /\ \A t \in Transfers : WF_saleVars(Serve(t))

SaleSpec == SaleInit /\ [][SaleNext]_saleVars /\ Fairness

-----------------------------------------------------------------------------
(* Properties *)

Flow == [amount : Nat, method : Methods]

\* Types of every variable.
SaleTypeOK ==
  /\ order \in [Orders ->
       [status : {"NONE", "PENDING", "COMPLETED", "CANCELLED", "RETURNED"},
        payment : {"UNPAID", "PAID", "REFUNDED"}, method : Methods,
        pay : Nat, change : Nat, transfer : Transfers \cup {NoTransfer}]]
  /\ shelf \in Nat
  /\ drawn \in [Orders -> {0, 1}]
  /\ cash \in [Orders -> [income : Flow, expense : Flow, change : Nat]]
  /\ invoice \in [Orders -> {"NONE", "PENDING", "ISSUED", "CANCELLED"}]
  /\ adjusted \subseteq Orders /\ logged \subseteq Transfers
  /\ amount \in [Transfers -> Brought \cup {0}]
  /\ hook \in [Transfers -> {"none", "due", "open", "answered"}]
  /\ again \in 0..MaxAgain

Kept(o) == cash[o].income.amount - cash[o].change
Worth(o) == IF order[o].transfer = NoTransfer THEN Due
            ELSE amount[order[o].transfer]

\* However a sale was settled, and whoever raced whom, the cash book holds its
\* price once (what the transfer brought, when a transfer settled it), by the
\* means of payment on the order, and the refund once when it came back; a
\* waiting or cancelled sale leaves nothing in the book.
BookFollowsSale ==
  \A o \in Orders :
    /\ order[o].status \in {"COMPLETED", "RETURNED"} =>
         /\ Kept(o) = Worth(o)
         /\ cash[o].income.method = order[o].method
    /\ order[o].status \in {"NONE", "PENDING", "CANCELLED"} => cash[o] = NoCash
    /\ cash[o].expense = IF order[o].status # "RETURNED" THEN NoFlow
                         ELSE [amount |-> Due, method |-> order[o].method]
    /\ cash[o].change > 0 => order[o].method = "CASH"
    /\ order[o].transfer # NoTransfer => order[o].method = "SEPAY"

\* A unit is out of the branch for exactly the sales that stand. The invoice
\* is pending while the sale waits, issued once it is settled, withdrawn if
\* it was cancelled first, and adjusted when the unit came back.
GoodsAndBillFollowSale ==
  /\ shelf + Cardinality({o \in Orders : drawn[o] = 1}) = OnShelf
  /\ \A o \in Orders :
       /\ drawn[o] = 1 <=> order[o].status \in {"PENDING", "COMPLETED"}
       /\ invoice[o] = CASE order[o].status = "NONE" -> "NONE"
                         [] order[o].status = "PENDING" -> "PENDING"
                         [] order[o].status = "CANCELLED" -> "CANCELLED"
                         [] OTHER -> "ISSUED"
       /\ o \in adjusted <=> order[o].status = "RETURNED"

\* Cash book, branch and invoice tell of every sale what its status tells.
SaleAddsUp == BookFollowsSale /\ GoodsAndBillFollowSale

\* A sale that has ended keeps what it says of its payment: the late loser of
\* a race never rewrites method, tender, change or transfer, and a cancelled
\* or returned sale does not come back to life.
SettledStaysSettled ==
  [][\A o \in Orders :
       order[o].status \in {"COMPLETED", "CANCELLED", "RETURNED"} =>
         /\ order'[o].method = order[o].method
         /\ order'[o].pay = order[o].pay /\ order'[o].change = order[o].change
         /\ order'[o].transfer = order[o].transfer
         /\ order'[o].status # order[o].status =>
              order[o].status = "COMPLETED" /\ order'[o].status = "RETURNED"]_saleVars

\* Once a sufficient transfer has been made for a waiting sale, the sale does
\* not wait for ever, in spite of lost requests.
TransferSettlesSale ==
  \A t \in Transfers :
    (amount[t] >= Due /\ AwaitsTransfer(For[t])) ~> ~AwaitsTransfer(For[t])

\* "an order already settled is logged loudly, because someone has to refund
\* by hand" (orders.service.ts, completeSepayOrder): a transfer that was
\* answered, was enough, and did not settle its sale is in the log.
LateTransferIsReported ==
  \A t \in Transfers :
    hook[t] = "answered" /\ amount[t] >= Due /\ ~AwaitsTransfer(For[t]) =>
      order[For[t]].transfer = t \/ t \in logged
=============================================================================
