------------------------------ MODULE CashDrawer ------------------------------
(***************************************************************************)
(* The cash drawer of one branch: a session per business day, handed from  *)
(* cashier to cashier through shift logs and closed once with a counted    *)
(* total, and the reconciliation of what was counted with the cash flows   *)
(* of the day.                                                             *)
(*                                                                         *)
(* submitShiftLog and finalize read the session with its logs, check, and  *)
(* write it only if its updatedAt is the one they read: two actions each.  *)
(* updatedAt is a version here: no two writes share a millisecond.         *)
(*                                                                         *)
(* Time is a stamp that every stamped row advances (no flow falls on the   *)
(* very instant of a count); the business day is kept with it. till is the *)
(* cash really in the drawer, which no row has.                            *)
(***************************************************************************)
EXTENDS Naturals, Integers, Sequences, FiniteSets, FiniteSetsExt, Functions

CONSTANTS Staff,     \* cashiers of the branch
          Days,      \* bound: business days 1..Days
          Amounts,   \* signed cash flows that may be booked
          Float,     \* cash in the drawer to begin with
          MaxFlows,  \* bound: cash flows booked
          MaxLogs,   \* bound: shift logs of all sessions
          Requests   \* concurrent HTTP requests

ASSUME DrawerAssumption ==
  /\ Days \in Nat \ {0} /\ Float \in Nat
  /\ Amounts \subseteq Int
  /\ MaxFlows \in Nat /\ MaxLogs \in Nat

VARIABLES
  day, now,   \* the business day and the stamp of the last row
  session,    \* cash_drawer_sessions by business day
  flows,      \* cash rows of cash_flows at this branch
  req,        \* what each open request has read
  till,       \* cash really in the drawer
  exact,      \* history: days whose counts all were what the till held
  astray      \* history: days with cash booked while another session, or
              \* none, was open

history == <<till, exact, astray>>
vars == <<day, now, session, flows, req, history>>

BusinessDays == 1..Days
None == "NONE"
NoSession == [status |-> None]
Idle == [op |-> "idle"]
Ask(r, x) == req' = [req EXCEPT ![r] = x]
Done(r) == Ask(r, Idle)

Open(d) == session[d].status = "OPEN"
Closed(d) == session[d].status = "CLOSED"

-----------------------------------------------------------------------------
(* Reconciliation *)

Signed(S) == [f \in S |-> f.amount]
CashIn(S) == SumFunctionOnSet(Signed(S), {f \in S : f.amount > 0})
CashOut(S) == -SumFunctionOnSet(Signed(S), {f \in S : f.amount < 0})
NetCash(S) == CashIn(S) - CashOut(S)

\* businessDayRange: half open, so a flow belongs to one day. A wrong variant
\* takes the flows since the day began.
SinceDayStart(d) == {f \in flows : f.day >= d}
DayFlows(d) == {f \in flows : f.day = d}

\* The flows an ordered walk has consumed when it reaches the i-th count.
FlowsBefore(d, i) ==
  IF i = 0 THEN {}
  ELSE IF i > Len(session[d].logs) THEN DayFlows(d)
  ELSE {f \in DayFlows(d) : f.at < session[d].logs[i].at}

\* The count a segment ends at: a shift log's, or the manager's.
Count(d, i) ==
  IF i = 0 THEN session[d].opening
  ELSE IF i <= Len(session[d].logs) THEN session[d].logs[i].amount
  ELSE session[d].final

\* Each segment starts from the count the one before ended at; a wrong variant
\* starts all of them from the opening amount.
OpeningAlways(d, i) == session[d].opening
OpeningCount(d, i) == Count(d, i - 1)

SegmentKind(d, i) ==
  LET logs == session[d].logs IN
  CASE i = 1                      -> "OPENING"
    [] logs[i - 1].type = "START" -> "SHIFT"
    [] i <= Len(logs)             -> "GAP"
    [] OTHER                      -> "CLOSING"

Segment(d, i) ==
  LET own == FlowsBefore(d, i) \ FlowsBefore(d, i - 1) IN
  [kind     |-> SegmentKind(d, i),
   flows    |-> own,
   variance |-> Count(d, i) - (OpeningCount(d, i) + NetCash(own))]

\* reconcileSession of a closed session.
Segments(d) == [i \in 1..(Len(session[d].logs) + 1) |-> Segment(d, i)]
SessionVariance(d) ==
  session[d].final - (session[d].opening + NetCash(DayFlows(d)))

\* report: the same subtraction from sums grouped in SQL by local day.
GroupedNet(d) == CashIn({f \in flows : f.day = d}) - CashOut({f \in flows : f.day = d})
SummarizeVariance(d) ==
  session[d].final - (session[d].opening + GroupedNet(d))

Settled == {d \in BusinessDays : Closed(d)}
Reported == [d \in Settled |-> SummarizeVariance(d)]
OffDays == {d \in Settled : Reported[d] # 0}
ReportTotals ==
  [sessionsWithVariance |-> Cardinality(OffDays),
   totalVariance |-> SumFunctionOnSet(Reported, OffDays),
   shortfall |-> SumFunctionOnSet(Reported, {d \in OffDays : Reported[d] < 0}),
   overage   |-> SumFunctionOnSet(Reported, {d \in OffDays : Reported[d] > 0})]

-----------------------------------------------------------------------------
(* The drawer *)

\* A count is what the till holds when the request is sent; cash may move
\* before the request is served.
StillExact(d, amount) == exact' = IF amount = till THEN exact ELSE exact \ {d}

\* open: two unique indexes, one session per day and one OPEN per branch.
OpenDrawer(s) ==
  /\ session[day] = NoSession
  /\ ~\E d \in BusinessDays : Open(d)
  /\ session' = [session EXCEPT ![day] =
                   [status |-> "OPEN", opening |-> till, holder |-> s,
                    logs |-> <<>>, final |-> 0, version |-> 0]]
  /\ UNCHANGED <<day, now, flows, req, history>>

NoLog == [type |-> None, staff |-> None, next |-> None]
LastLog(s) == IF s.logs = <<>> THEN NoLog ELSE s.logs[Len(s.logs)]

\* A START opens the first shift or follows an END that named this cashier;
\* an END closes this cashier's own START.
InOrder(s, user, type) ==
  IF type = "START"
  THEN LastLog(s) = NoLog \/ (LastLog(s).type = "END" /\ LastLog(s).next = user)
  ELSE LastLog(s).type = "START" /\ LastLog(s).staff = user

Handovers(user, type) ==
  IF type = "START" THEN {None} ELSE {None} \cup (Staff \ {user})

LogRead(r, d) ==
  /\ req[r] = Idle
  /\ Open(d)
  /\ LET user == session[d].holder IN
     \E type \in {"START", "END"} :
     \E next \in Handovers(user, type) :
       /\ InOrder(session[d], user, type)
       /\ Ask(r, [op |-> "log", day |-> d, seen |-> session[d].version,
                  type |-> type, user |-> user, next |-> next,
                  amount |-> till])
  /\ UNCHANGED <<day, now, session, flows, history>>

\* The claim; wrong variants leave updatedAt, or the status too, out of it.
HolderOnly(d, seen, user) == session[d].holder = user
HeldBy(d, seen, user) == Open(d) /\ session[d].holder = user
Unchanged(d, seen, user) ==
  Open(d) /\ session[d].holder = user /\ session[d].version = seen

Logs(d) == IF session[d] = NoSession THEN <<>> ELSE session[d].logs
LogsFiled == MapThenSumSet(LAMBDA d : Len(Logs(d)), BusinessDays)

\* Who holds the drawer next: the cashier named, or still the same one.
NextHolder(x) == IF x.next = None THEN x.user ELSE x.next

LogCommit(r) ==
  LET x == req[r] IN
  /\ x.op = "log"
  /\ Unchanged(x.day, x.seen, x.user)
  /\ LogsFiled < MaxLogs
  /\ now' = now + 1
  /\ session' = [session EXCEPT
       ![x.day].logs = Append(@, [type |-> x.type, staff |-> x.user,
                                  next |-> x.next, amount |-> x.amount,
                                  at |-> now + 1]),
       ![x.day].holder = NextHolder(x),
       ![x.day].version = @ + 1]
  /\ StillExact(x.day, x.amount)
  /\ Done(r)
  /\ UNCHANGED <<day, flows, till, astray>>

\* finalize: the holder has handed the drawer to nobody.
ClosedOut(s) == /\ LastLog(s).type = "END"
                /\ LastLog(s).staff = s.holder
                /\ LastLog(s).next = None

FinalizeRead(r, d) ==
  /\ req[r] = Idle
  /\ Open(d)
  /\ ClosedOut(session[d])
  /\ Ask(r, [op |-> "finalize", day |-> d, seen |-> session[d].version,
             amount |-> till])
  /\ UNCHANGED <<day, now, session, flows, history>>

FinalizeCommit(r) ==
  LET x == req[r] IN
  /\ x.op = "finalize"
  /\ Open(x.day) /\ session[x.day].version = x.seen
  /\ session' = [session EXCEPT ![x.day].status = "CLOSED",
                                ![x.day].final = x.amount,
                                ![x.day].version = @ + 1]
  /\ StillExact(x.day, x.amount)
  /\ Done(r)
  /\ UNCHANGED <<day, now, flows, till, astray>>

Abandon(r) == /\ req[r] # Idle
              /\ Done(r)
              /\ UNCHANGED <<day, now, session, flows, history>>

\* Cash in or out at the branch: a sale, its change, a refund. Nothing asks
\* for an open drawer.
BookCash ==
  /\ Cardinality(flows) < MaxFlows
  /\ now' = now + 1
  /\ \E amount \in Amounts :
       /\ till + amount >= 0
       /\ flows' = flows \cup {[at |-> now + 1, day |-> day, amount |-> amount]}
       /\ till' = till + amount
       /\ astray' = astray \cup (IF Open(day) THEN {} ELSE {day})
                           \cup {d \in BusinessDays : Open(d) /\ d # day}
  /\ UNCHANGED <<day, session, req, exact>>

Midnight == /\ day < Days
            /\ day' = day + 1
            /\ UNCHANGED <<now, session, flows, req, history>>

-----------------------------------------------------------------------------
Init ==
  /\ day = 1 /\ now = 0
  /\ session = [d \in BusinessDays |-> NoSession]
  /\ flows = {}
  /\ req = [r \in Requests |-> Idle]
  /\ till = Float
  /\ exact = BusinessDays
  /\ astray = {}

Next ==
  \/ \E s \in Staff : OpenDrawer(s)
  \/ \E r \in Requests :
       \/ \E d \in BusinessDays : LogRead(r, d) \/ FinalizeRead(r, d)
       \/ LogCommit(r) \/ FinalizeCommit(r)
       \/ Abandon(r)
  \/ BookCash
  \/ Midnight

Spec == Init /\ [][Next]_vars

-----------------------------------------------------------------------------
(* Properties *)

LogType == [type : {"START", "END"}, staff : Staff, next : Staff \cup {None},
            amount : Int, at : Nat]
SessionOK(s) ==
  \/ s = NoSession
  \/ /\ s.status \in {"OPEN", "CLOSED"}
     /\ s.opening \in Int /\ s.final \in Int
     /\ s.holder \in Staff /\ s.version \in Nat
     /\ s.logs \in Seq(LogType)

TypeOK ==
  /\ day \in BusinessDays /\ now \in Nat
  /\ DOMAIN session = BusinessDays
  /\ \A d \in BusinessDays : SessionOK(session[d])
  /\ \A f \in flows : f.day \in BusinessDays /\ f.amount \in Int
  /\ till \in Nat

\* The chain of custody: shifts alternate and each belongs to the cashier the
\* drawer was handed to, so that every count can be laid at one door, however
\* often two requests (a double click, two tills) file at the same time.
ChainOfCustody ==
  \A d \in BusinessDays : session[d] # NoSession =>
    LET logs == session[d].logs IN
    \A i \in DOMAIN logs :
      /\ logs[i].type = IF i % 2 = 1 THEN "START" ELSE "END"
      /\ i > 1 => /\ logs[i].at >= logs[i - 1].at
                  /\ IF i % 2 = 0 THEN logs[i].staff = logs[i - 1].staff
                     ELSE logs[i].staff = logs[i - 1].next

\* The three levels of the accounts agree. A closed drawer splits into
\* OPENING, shifts with the gaps between them, and CLOSING; each flow of the
\* day is in one segment; what the segments are off by adds up to what the
\* session is off by, and the sessions to the total of the variance report.
\* And nobody is blamed for nothing: when every count was exact and the day's
\* cash moved only through this open session, no segment is off.
AccountsAgree ==
  /\ \A d \in Settled :
       LET seg == Segments(d) IN
       /\ seg[Len(seg)].kind = "CLOSING"
       /\ UNION {seg[i].flows : i \in DOMAIN seg} = DayFlows(d)
       /\ \A i, j \in DOMAIN seg : i # j => seg[i].flows \cap seg[j].flows = {}
       /\ SumFunction([i \in DOMAIN seg |-> seg[i].variance]) = SessionVariance(d)
       /\ d \in exact \ astray => \A i \in DOMAIN seg : seg[i].variance = 0
  /\ ReportTotals.totalVariance = SumFunction([d \in Settled |-> SessionVariance(d)])
  /\ ReportTotals.totalVariance = ReportTotals.shortfall + ReportTotals.overage

\* A closed session is never written again, and the drawer changes hands only
\* by a log of the cashier who held it.
ClosedStaysClosed ==
  [][\A d \in BusinessDays :
       /\ Closed(d) => session'[d] = session[d]
       /\ Open(d) /\ session'[d].holder # session[d].holder
            => LastLog(session'[d]).staff = session[d].holder
               /\ Len(session'[d].logs) = Len(session[d].logs) + 1]_vars
=============================================================================
