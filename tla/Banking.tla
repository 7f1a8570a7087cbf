------------------------------ MODULE Banking ------------------------------
(***************************************************************************)
(* The bank account a shop is paid into, its link to SePay, and the QR      *)
(* codes customers pay with.                                                *)
(*                                                                          *)
(* src/src/modules/tenants/tenant-self.service.ts saves the account,        *)
(* sepay-account-sync.service.ts links the shops whose account SePay        *)
(* watches, orders/tenant-banking.ts lets only a linked shop issue a code,  *)
(* and orders/sepay-order.service.ts finds the shop of a transfer. All of   *)
(* them are separate statements on the rows of tenants, by id.              *)
(*                                                                          *)
(* SePay is outside: it watches a set of account numbers, which changes, or *)
(* reports with the key of one shop for the account the key was set for.    *)
(* What a matched transfer does to the order is in CounterSale and          *)
(* OrderJourney. Numbers are taken as normalised.                           *)
(***************************************************************************)
EXTENDS Requests, FiniteSets

CONSTANTS Shops,    \* tenants
          Numbers,  \* bank account numbers
          Codes     \* QR codes that may be issued

VARIABLES account,  \* tenants.banking_account_number
          linked,   \* whether tenants.banking_sepay_linked_at is set
          keyed,    \* the account whose transfers come with the shop's own key
          watched,  \* the active accounts of the platform's SePay account
          earned,   \* the account a shop was last linked for
          mixed,    \* shops whose account or link was last written on an outdated read
          code      \* the references ORD... with the account printed on their QR

bankingVars == <<account, linked, keyed, watched, earned, mixed, code>>

NoCode == [status |-> "NONE"]

BankingInit ==
  /\ account = [s \in Shops |-> None]
  /\ linked = [s \in Shops |-> FALSE]
  /\ keyed = [s \in Shops |-> None]
  /\ watched = {}
  /\ earned = [s \in Shops |-> None]
  /\ mixed = {}
  /\ code = [c \in Codes |-> NoCode]

\* isSepayLinked.
IsSepayLinked(s) == keyed[s] # None \/ linked[s]

\* Saves of shop s under way.
Saving(s) == {x \in Requests : req[x].op = "bankSave" /\ req[x].tenant = s}

------------------------------------------------------------------------------
(* The account: tenant-self.service.ts *)

\* updateMine and updateBanking: the account as it was is read first.
SaveRead(r, s, n) ==
  /\ Begin(r, "bankSave", [op |-> "bankSave", at |-> "taken", tenant |-> s,
                           before |-> account[s], to |-> n])
  /\ UNCHANGED bankingVars

NumberChanged(r) == req[r].to # req[r].before

SaveTaken(r) ==
  /\ At(r, {"bankSave"}, "taken")
  /\ LET taken == \E s \in Shops \ {req[r].tenant} : account[s] = req[r].to
     IN req' = CASE ~NumberChanged(r) -> GoTo(r, "write")
                 [] NumberChanged(r) /\ taken -> Done(r)
                 [] OTHER -> GoTo(r, IF req[r].before = None THEN "write" ELSE "pending")
  /\ Frame /\ UNCHANGED bankingVars

\* A wrong variant counts the codes of orders only.
OrderCodesOf(s) == {c \in Codes : code[c].status = "PENDING" /\ code[c].shop = s
                                  /\ code[c].kind = "order"}

\* The codes of orders (orders.payment_reference) and of payments.
PendingCodes(s) == {c \in Codes : code[c].status = "PENDING" /\ code[c].shop = s}

\* assertNoPendingSepay.
SavePending(r) ==
  /\ At(r, {"bankSave"}, "pending")
  /\ req' = IF PendingCodes(req[r].tenant) # {} THEN Done(r) ELSE GoTo(r, "write")
  /\ Frame /\ UNCHANGED bankingVars

\* A wrong variant keeps the link when the number changes.
KeepLink(r) == linked
Unlink(r) == IF NumberChanged(r) THEN [linked EXCEPT ![req[r].tenant] = FALSE] ELSE linked

\* A number belongs to one shop; the unique index has the last word.
SaveWrite(r) ==
  /\ At(r, {"bankSave"}, "write")
  /\ LET s == req[r].tenant
         n == req[r].to
     IN IF \E other \in Shops \ {s} : account[other] = n
        THEN UNCHANGED bankingVars
        ELSE /\ account' = [account EXCEPT ![s] = n]
             /\ linked' = Unlink(r)
             /\ keyed' = IF NumberChanged(r) THEN [keyed EXCEPT ![s] = None] ELSE keyed
             /\ mixed' = IF account[s] # req[r].before THEN mixed \cup {s} ELSE mixed
             /\ UNCHANGED <<watched, earned, code>>
  /\ req' = Done(r) /\ Frame

\* setSepayKey, by the platform: the key of the shop's own SePay account.
SetSepayKey(s) ==
  /\ account[s] # None
  /\ keyed' = [keyed EXCEPT ![s] = account[s]]
  /\ Once("setKey")
  /\ UNCHANGED <<account, linked, watched, earned, mixed, code>>

------------------------------------------------------------------------------
(* The link: sepay-account-sync.service.ts *)

\* SePay's list changes: an account is added, removed or switched off.
SepayChanges(n) ==
  /\ watched' = IF n \in watched THEN watched \ {n} ELSE watched \cup {n}
  /\ Once("sepay")
  /\ UNCHANGED <<account, linked, keyed, earned, mixed, code>>

\* sync, by the cron job or after a save. fetchAccounts may fail: then the
\* sync is over and no shop is touched.
SyncFetch(r) ==
  /\ Begin(r, "sync", [op |-> "sync", at |-> "plan", accounts |-> watched])
  /\ UNCHANGED bankingVars

SyncFails(r) ==
  /\ At(r, {"sync"}, "plan")
  /\ req' = Done(r) /\ Frame /\ UNCHANGED bankingVars

\* planSepayLinks, over the shops as they are read now.
OnSepay(r, s) == account[s] \in req[r].accounts
ToLink(r) == {s \in Shops : OnSepay(r, s) /\ ~linked[s]}
ToUnlink(r) == {s \in Shops : ~OnSepay(r, s) /\ linked[s]}

SyncPlan(r) ==
  /\ At(r, {"sync"}, "plan")
  /\ req' = [req EXCEPT ![r] =
       [op |-> "sync", at |-> "write",
        link |-> [s \in ToLink(r) |-> account[s]], unlink |-> ToUnlink(r)]]
  /\ Frame /\ UNCHANGED bankingVars

SyncWrite(r) ==
  /\ At(r, {"sync"}, "write")
  /\ LET link == {s \in DOMAIN req[r].link : ~linked[s]}
     IN /\ linked' = [s \in Shops |-> (linked[s] \/ s \in link) /\ s \notin req[r].unlink]
        /\ earned' = [s \in Shops |-> IF s \in link THEN req[r].link[s] ELSE earned[s]]
        /\ mixed' = (mixed \ {s \in link : account[s] = req[r].link[s]
                                           /\ keyed[s] \in {None, account[s]}})
                      \cup {s \in link : account[s] # req[r].link[s]}
  /\ req' = Done(r) /\ Frame
  /\ UNCHANGED <<account, keyed, watched, code>>

------------------------------------------------------------------------------
(* Codes: orders/tenant-banking.ts and those that call requireTenantBanking *)

\* requireTenantBanking, before the transaction that saves the reference; the
\* QR is drawn with what was read.
IssueRead(r, s, kind) ==
  /\ account[s] # None /\ IsSepayLinked(s)
  /\ Begin(r, "issue", [op |-> "issue", at |-> "write", tenant |-> s,
                        kind |-> kind, number |-> account[s]])
  /\ UNCHANGED bankingVars

\* "unsure" is a code that was issued while the account was being changed.
IssueWrite(r, c) ==
  /\ At(r, {"issue"}, "write")
  /\ code[c] = NoCode
  /\ LET s == req[r].tenant
     IN code' = [code EXCEPT ![c] =
          [status |-> "PENDING", shop |-> s, kind |-> req[r].kind, number |-> req[r].number,
           unsure |-> Saving(s) # {} \/ account[s] # req[r].number]]
  /\ req' = Done(r) /\ Frame
  /\ UNCHANGED <<account, linked, keyed, watched, earned, mixed>>

\* A pending code of a payment is shown again, with the account of today.
Reprint(c) ==
  /\ code[c].status = "PENDING" /\ code[c].kind = "payment"
  /\ LET s == code[c].shop
     IN /\ account[s] # None /\ IsSepayLinked(s)
        /\ code' = [code EXCEPT ![c].number = account[s]]
  /\ Once("reprint")
  /\ UNCHANGED <<account, linked, keyed, watched, earned, mixed>>

Cancel(c) ==
  /\ code[c].status = "PENDING"
  /\ code' = [code EXCEPT ![c].status = "CANCELLED"]
  /\ Once("cancelCode")
  /\ UNCHANGED <<account, linked, keyed, watched, earned, mixed>>

\* resolveTenant: the shop of the key, or of the account with the platform's key.
ShopsOfTransfer(n) ==
  {s \in Shops : keyed[s] = n} \cup (IF n \in watched THEN {s \in Shops : account[s] = n} ELSE {})

\* The webhook: a reference is looked up within the shop that was found.
Transfer(c) ==
  /\ code[c].status = "PENDING"
  /\ code[c].shop \in ShopsOfTransfer(code[c].number)
  /\ code' = [code EXCEPT ![c].status = "PAID"]
  /\ Once("webhook")
  /\ UNCHANGED <<account, linked, keyed, watched, earned, mixed>>

------------------------------------------------------------------------------
BankingStep(r) ==
  \/ SaveTaken(r) \/ SavePending(r) \/ SaveWrite(r)
  \/ SyncFails(r) \/ SyncPlan(r) \/ SyncWrite(r)
  \/ \E c \in Codes : IssueWrite(r, c)

BankingCall(r) ==
  \/ SyncFetch(r)
  \/ \E s \in Shops : \/ \E n \in Numbers : SaveRead(r, s, n)
                      \/ \E kind \in {"order", "payment"} : IssueRead(r, s, kind)

BankingNext ==
  \/ \E r \in Requests : BankingStep(r) \/ BankingCall(r)
  \/ \E s \in Shops : SetSepayKey(s)
  \/ \E n \in Numbers : SepayChanges(n)
  \/ \E c \in Codes : Reprint(c) \/ Cancel(c) \/ Transfer(c)

------------------------------------------------------------------------------
\* A transfer to the account printed on a code that still waits is credited to
\* nobody but the shop that issued the code, for the account does not move away
\* from under a pending code, unless the code was issued while a save of the
\* account was under way. And a shop counts as linked only for an account SePay
\* was seen to watch, unless a save overlapped a sync or another save
\* (tenant-self.service.ts:120, :124 and :132, sepay-order.service.ts:49,
\* sepay-account-sync.service.ts:60).
TransfersFindTheShop ==
  /\ \A c \in Codes : code[c].status = "PENDING" /\ ~code[c].unsure =>
       /\ account[code[c].shop] = code[c].number
       /\ ShopsOfTransfer(code[c].number) \subseteq {code[c].shop} \cup mixed
  /\ \A s \in Shops \ mixed : linked[s] => earned[s] = account[s]
=============================================================================
