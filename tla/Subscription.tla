----------------------------- MODULE Subscription -----------------------------
(***************************************************************************)
(* The plan of one shop (subscriptions/): free trial, invoices for an      *)
(* upgrade or a renewal, the SePay webhook that activates a paid plan, the *)
(* administrator's change of plan, the expiry rule, applied lazily on each *)
(* read and by the nightly job, and the quota that the creation of users,  *)
(* locations and products asks for.                                        *)
(*                                                                         *)
(* No handler claims what it writes: a row is read, and later updated by   *)
(* id. Each read and each write is a step. Time is counted in days; a      *)
(* request may last over midnight. One resource stands for the three that  *)
(* have a quota. Amounts are left out: a transfer is for the price of its  *)
(* invoice or is ignored.                                                  *)
(***************************************************************************)
EXTENDS Naturals, Integers, Sequences, SequencesExt, FiniteSets, FiniteSetsExt

CONSTANTS Plans,       \* the plans that are paid for
          Trial,       \* the free one (TRIAL)
          Days,        \* billing days of a plan, trial days of the trial
          Quota,       \* what a plan allows of the resource
          Grace,       \* GRACE_PERIOD_DAYS
          Horizon,     \* bound: days
          MaxRows,     \* bound: subscription rows of the shop
          MaxInvoices, \* bound: invoices
          MaxGrants,   \* bound: changes of plan by the administrator
          Callers      \* concurrent HTTP requests

ASSUME SubscriptionAssumption ==
  /\ Trial \notin Plans
  /\ Days \in [Plans \cup {Trial} -> Nat \ {0}]
  /\ Quota \in [Plans \cup {Trial} -> Nat]
  /\ {Grace, Horizon, MaxRows, MaxInvoices, MaxGrants} \subseteq Nat

\* One of the plans allows the most, and the server serves some requests.
ASSUME QuotaAssumption ==
  /\ \E top \in Plans \cup {Trial} :
       \A p \in Plans \cup {Trial} : Quota[p] <= Quota[top]
  /\ IsFiniteSet(Callers) /\ Callers # {}

VARIABLES
  now,       \* the day
  subs,      \* subscriptions, in the order they were created
  invoices,  \* subscription_invoices
  resources, \* rows of the resource that count
  asked,     \* what each open request has read
  sweep,     \* the nightly job: the status it is about to write, by row
  grants,    \* bound counter
  blind      \* history: rows whose status was written over a newer term

shop == <<subs, invoices, resources>>
planVars == <<now, shop, asked, sweep, grants, blind>>

AllPlans == Plans \cup {Trial}
Served == {"TRIAL", "ACTIVE", "PAST_DUE"}
NoCall == [op |-> "idle"]
Open(r, x) == asked' = [asked EXCEPT ![r] = x]
Leave(r) == Open(r, NoCall)
Rows == DOMAIN subs

-----------------------------------------------------------------------------
(* nextSubscriptionStatus: a trial ends on its last day, a paid term is     *)
(* past due for the days of grace. A wrong variant forgets the grace.       *)

Over(row) == IF row.status = "TRIAL" THEN now > row.end ELSE now > row.end + Grace
NextStatusAtOnce(row) ==
  IF row.status \in Served /\ now > row.end THEN "EXPIRED" ELSE row.status
NextStatus(row) ==
  CASE row.status = "TRIAL" /\ now > row.end -> "EXPIRED"
    [] row.status \in {"ACTIVE", "PAST_DUE"} /\ row.end < now - Grace -> "EXPIRED"
    [] row.status \in {"ACTIVE", "PAST_DUE"} /\ row.end >= now - Grace
         /\ now > row.end -> "PAST_DUE"
    [] OTHER -> row.status

Read(row) == [status |-> row.status, term |-> row.term, quota |-> row.quota]

\* What a write by id puts over a row that is not the one it decided on.
Overwrites(s, read) == IF subs[s].term # read.term THEN {s} ELSE {}

PlanInit ==
  /\ now = 0
  /\ subs = <<>> /\ invoices = <<>>
  /\ resources = 0
  /\ asked = [r \in Callers |-> NoCall]
  /\ sweep = <<>>
  /\ grants = 0
  /\ blind = {}

-----------------------------------------------------------------------------
(* Plans *)

\* assignFreeTrial: none yet, then a row.
TrialRead(r) ==
  /\ asked[r] = NoCall
  /\ subs = <<>>
  /\ Open(r, [op |-> "trial"])
  /\ UNCHANGED <<now, shop, sweep, grants, blind>>
TrialCommit(r) ==
  /\ asked[r].op = "trial"
  /\ Len(subs) < MaxRows
  /\ subs' = Append(subs, [plan |-> Trial, status |-> "TRIAL", term |-> 0,
                           end |-> now + Days[Trial], quota |-> Quota[Trial]])
  /\ Leave(r)
  /\ UNCHANGED <<now, invoices, resources, sweep, grants, blind>>

\* A new term of a plan, from today; its quota is frozen in the row.
Term(row, plan) ==
  [plan |-> plan, status |-> "ACTIVE", term |-> row.term + 1,
   end |-> now + Days[plan], quota |-> Quota[plan]]

\* initiateUpgrade, initiateRenewal (the same plan, not the trial).
InvoiceRead(r, s, plan) ==
  /\ asked[r] = NoCall
  /\ Len(invoices) < MaxInvoices
  /\ Open(r, [op |-> "replace", sub |-> s, plan |-> plan])
  /\ UNCHANGED <<now, shop, sweep, grants, blind>>

\* createPlanInvoice: the pending ones of the plan are given up, then
\* another statement writes the new one.
InvoiceReplace(r) ==
  LET x == asked[r] IN
  /\ x.op = "replace"
  /\ invoices' = [i \in DOMAIN invoices |->
       IF invoices[i].plan = x.plan /\ invoices[i].status = "PENDING"
       THEN [invoices[i] EXCEPT !.status = "FAILED"] ELSE invoices[i]]
  /\ Open(r, [x EXCEPT !.op = "invoice"])
  /\ UNCHANGED <<now, subs, resources, sweep, grants, blind>>
InvoiceCreate(r) ==
  LET x == asked[r] IN
  /\ x.op = "invoice"
  /\ Len(invoices) < MaxInvoices
  /\ invoices' = Append(invoices, [sub |-> x.sub, plan |-> x.plan,
                                   status |-> "PENDING", made |-> now])
  /\ Leave(r)
  /\ UNCHANGED <<now, subs, resources, sweep, grants, blind>>

\* The customer has made the transfer, and the webhook is delivered, any
\* number of times: settlePayment looks for the
\* pending invoice ...
HookRead(r, i) ==
  /\ asked[r] = NoCall
  /\ invoices[i].status = "PENDING"
  /\ Open(r, [op |-> "hook", invoice |-> i])
  /\ UNCHANGED <<now, shop, sweep, grants, blind>>

\* ... and writes both by id. The term begins at the payment; a wrong
\* variant takes the period printed on the invoice.
PrintedTerm(inv) == [Term(subs[inv.sub], inv.plan) EXCEPT !.end =
                       inv.made + Days[inv.plan]]
PaidTerm(inv) == Term(subs[inv.sub], inv.plan)
HookCommit(r) ==
  LET x == asked[r]
      inv == invoices[x.invoice] IN
  /\ x.op = "hook"
  /\ subs' = [subs EXCEPT ![inv.sub] = PaidTerm(inv)]
  /\ invoices' = [invoices EXCEPT ![x.invoice].status = "PAID"]
  /\ blind' = blind \ {inv.sub}
  /\ Leave(r)
  /\ UNCHANGED <<now, resources, sweep, grants>>

\* adminUpgradePlan.
Grant(s, plan) ==
  /\ grants < MaxGrants
  /\ grants' = grants + 1
  /\ subs' = [subs EXCEPT ![s] = Term(subs[s], plan)]
  /\ blind' = blind \ {s}
  /\ UNCHANGED <<now, invoices, resources, asked, sweep>>

-----------------------------------------------------------------------------
(* The expiry rule *)

\* settleSubscription, on behalf of a page or of a creation. The status the
\* rule gives is kept beside the row that was read. A page that has nothing
\* to write changes nothing and is left out.
SettleRead(r, s, for) ==
  /\ asked[r] = NoCall
  /\ for = "create" \/ NextStatus(subs[s]) # subs[s].status
  /\ Open(r, [op |-> "settle", sub |-> s, row |-> Read(subs[s]),
              next |-> NextStatus(subs[s]), for |-> for])
  /\ UNCHANGED <<now, shop, sweep, grants, blind>>

AfterSettle(r, x) ==
  IF x.for = "create" /\ x.next \in Served
  THEN Open(r, [op |-> "count", quota |-> x.row.quota])
  ELSE Leave(r)
SettleWrite(r) ==
  LET x == asked[r] IN
  /\ x.op = "settle"
  /\ IF x.next # x.row.status
     THEN /\ subs' = [subs EXCEPT ![x.sub].status = x.next]
          /\ blind' = blind \cup Overwrites(x.sub, x.row)
     ELSE UNCHANGED <<subs, blind>>
  /\ AfterSettle(r, x)
  /\ UNCHANGED <<now, invoices, resources, sweep, grants>>

\* assertQuota: the count, and in a later statement the creation.
QuotaReached(x) == resources <= x.quota
QuotaLeft(x) == resources < x.quota
CountUsed(r) ==
  /\ asked[r].op = "count"
  /\ IF QuotaLeft(asked[r]) THEN Open(r, [op |-> "create"]) ELSE Leave(r)
  /\ UNCHANGED <<now, shop, sweep, grants, blind>>
CreateResource(r) ==
  /\ asked[r].op = "create"
  /\ resources' = resources + 1
  /\ Leave(r)
  /\ UNCHANGED <<now, subs, invoices, sweep, grants, blind>>
RemoveResource ==
  /\ resources > 0
  /\ resources' = resources - 1
  /\ UNCHANGED <<now, subs, invoices, asked, sweep, grants, blind>>

\* runSubscriptionStatusCheck: the candidates are read once; a wrong variant
\* looks only at the terms that are neither expired nor past due.
NotYetDue == {"TRIAL", "ACTIVE"}
Transitionable == {"TRIAL", "ACTIVE", "PAST_DUE"}
Candidates == {s \in Rows : /\ subs[s].status \in Transitionable
                            /\ subs[s].end < now
                            /\ NextStatus(subs[s]) # subs[s].status}
SweepRead ==
  /\ sweep = <<>>
  /\ Candidates # {}
  /\ sweep' = [s \in Candidates |-> [row |-> Read(subs[s]),
                                 next |-> NextStatus(subs[s])]]
  /\ UNCHANGED <<now, shop, asked, grants, blind>>

\* One updateMany for each status that is to be written.
SweepWrite(status) ==
  LET ids == {s \in DOMAIN sweep : sweep[s].next = status} IN
  /\ ids # {}
  /\ subs' = [s \in Rows |-> IF s \in ids THEN [subs[s] EXCEPT !.status = status]
                             ELSE subs[s]]
  /\ sweep' = [s \in DOMAIN sweep \ ids |-> sweep[s]]
  /\ blind' = blind \cup UNION {Overwrites(s, sweep[s].row) : s \in ids}
  /\ UNCHANGED <<now, invoices, resources, asked, grants>>

Tick ==
  /\ now < Horizon
  /\ now' = now + 1
  /\ UNCHANGED <<shop, asked, sweep, grants, blind>>

-----------------------------------------------------------------------------

Sweep == SweepRead \/ \E status \in {"PAST_DUE", "EXPIRED"} : SweepWrite(status)
Finish(r) == \/ TrialCommit(r) \/ InvoiceReplace(r) \/ InvoiceCreate(r)
             \/ HookCommit(r) \/ SettleWrite(r) \/ CountUsed(r) \/ CreateResource(r)

PlanNext ==
  \/ \E r \in Callers :
       \/ TrialRead(r)
       \/ \E s \in Rows, plan \in Plans : InvoiceRead(r, s, plan)
       \/ \E i \in DOMAIN invoices : HookRead(r, i)
       \/ \E s \in Rows, for \in {"view", "create"} : SettleRead(r, s, for)
       \/ Finish(r)
  \/ \E s \in Rows, plan \in Plans : Grant(s, plan)
  \/ RemoveResource
  \/ Sweep
  \/ Tick

\* The job runs every night and is not abandoned half way; days pass.
Fairness == WF_planVars(Sweep) /\ WF_planVars(Tick)

PlanSpec == PlanInit /\ [][PlanNext]_planVars /\ Fairness

-----------------------------------------------------------------------------
(* Properties *)

Row == [plan : AllPlans, status : Served \cup {"EXPIRED"}, term : Nat,
        end : Nat, quota : Nat]

\* Types of the stored rows.
PlanTypes ==
  /\ now \in 0..Horizon
  /\ subs \in Seq(Row) /\ Len(subs) <= MaxRows
  /\ invoices \in Seq([sub : Rows, plan : Plans, made : 0..Horizon,
                       status : {"PENDING", "FAILED", "PAID"}])
  /\ resources \in Nat

\* A shop is locked out only when the term it has is over. The only
\* exception is a term bought while the status of the one before it was
\* being written (see PaidShopIsServed).
ExpiredMeansOver ==
  \A s \in Rows : subs[s].status = "EXPIRED" =>
    \/ now > subs[s].end + (IF subs[s].plan = Trial THEN 0 ELSE Grace)
    \/ s \in blind

\* However many requests pass the quota check together, the shop has at most
\* one row per request more than the largest plan it can have allows.
QuotaOverrunIsBounded ==
  resources <= Max({Quota[p] : p \in AllPlans}) + Cardinality(Callers) - 1

\* Paying again for the plan one has never takes days away.
RenewalNeverShortens ==
  [][\A s \in Rows : subs'[s].term # subs[s].term /\ subs'[s].plan = subs[s].plan =>
       subs'[s].end >= subs[s].end]_planVars

\* A term that is over does not stay in service: the nightly job sees to it,
\* whatever the requests write, unless another term is bought.
ServedForNothing(s) == s \in Rows /\ subs[s].status \in Served /\ Over(subs[s])
OverEnds == \A s \in 1..MaxRows : ServedForNothing(s) ~> ~ServedForNothing(s)

\* "EXPIRED and CANCELLED are final: only a payment changes them, the clock
\* does not" (subscription-status.ts): a paid term that is not over is served.
PaidShopIsServed ==
  \A s \in Rows : subs[s].plan # Trial /\ now <= subs[s].end =>
    subs[s].status # "EXPIRED"
=============================================================================
