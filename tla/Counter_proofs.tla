---------------------------- MODULE Counter_proofs ----------------------------
(***************************************************************************)
(* Theorems about the counter of a branch: its drawer (CashDrawer), for    *)
(* any cashiers, days, amounts and number of requests, and its sales       *)
(* (CounterSale), for any number of sales, transfers and calls, any price, *)
(* tender and shelf. The two have no state in common.                      *)
(*                                                                         *)
(* Who held the drawer when is never in doubt, and the accounts of a       *)
(* closed drawer agree with the cash flows at each of their levels. Cash   *)
(* book, branch and invoice tell of every sale what its status tells, and  *)
(* a sale that has ended keeps what it says of its payment.                *)
(***************************************************************************)
EXTENDS CashDrawer, CounterSale, SumTheorems

-------------------------------------------------------------------------------
(* The cash drawer *)

FlowType == [at : Nat, day : BusinessDays, amount : Int]
SessionType == [status : {"OPEN", "CLOSED"}, opening : Int, holder : Staff,
                logs : Seq(LogType), final : Int, version : Nat]

\* Shifts alternate, in the order of their stamps.
Alternating(logs) ==
  /\ \A i \in DOMAIN logs :
       /\ logs[i].type = IF i % 2 = 1 THEN "START" ELSE "END"
       /\ i > 1 => IF i % 2 = 0 THEN logs[i].staff = logs[i - 1].staff
                   ELSE logs[i].staff = logs[i - 1].next
       /\ logs[i].at <= now
  /\ \A i, j \in DOMAIN logs : i <= j => logs[i].at <= logs[j].at

\* What is still true of what an open request has read: if nobody has written
\* the session since, its check stands.
ReadOK(x) ==
  x.op \in {"log", "finalize"} =>
    /\ x.day \in BusinessDays /\ session[x.day] \in SessionType
    /\ x.amount \in Int /\ x.seen \in Nat
    /\ x.seen <= session[x.day].version
    /\ x.op = "log" =>
         /\ x.type \in {"START", "END"} /\ x.user \in Staff
         /\ x.next \in Staff \cup {None}
         /\ x.seen = session[x.day].version => InOrder(session[x.day], x.user, x.type)
    /\ x.op = "finalize" =>
         (x.seen = session[x.day].version => ClosedOut(session[x.day]))

RowsOK ==
  /\ day \in BusinessDays /\ now \in Nat
  /\ DOMAIN session = BusinessDays
  /\ \A d \in BusinessDays : session[d] = NoSession \/ session[d] \in SessionType
  /\ IsFiniteSet(flows) /\ flows \subseteq FlowType
  /\ \A f \in flows : f.at <= now
  /\ till \in Int
  /\ DOMAIN req = Requests

CustodyInv ==
  /\ RowsOK
  /\ \A r \in Requests : ReadOK(req[r])
  /\ \A d \in BusinessDays : session[d] \in SessionType =>
       /\ Alternating(session[d].logs)
       /\ Closed(d) => LastLog(session[d]).type = "END"

-----------------------------------------------------------------------------
LEMMA DaysNatural == Days \in Nat /\ Days # 0 /\ 1 \in BusinessDays /\ IsFiniteSet(BusinessDays)
BY DrawerAssumption, FS_Interval DEF BusinessDays

LEMMA NoSessionApart == NoSession \notin SessionType
<1>1. NoSession.status = "NONE"  BY DEF NoSession, None
<1> QED  BY <1>1 DEF SessionType

LEMMA SessionFields ==
  ASSUME NEW s \in SessionType
  PROVE  /\ s.status \in {"OPEN", "CLOSED"} /\ s.opening \in Int /\ s.final \in Int
         /\ s.holder \in Staff /\ s.version \in Nat /\ s.logs \in Seq(LogType)
BY DEF SessionType

LEMMA LogFields ==
  ASSUME NEW logs \in Seq(LogType)
  PROVE  /\ Len(logs) \in Nat /\ DOMAIN logs = 1..Len(logs)
         /\ \A i \in DOMAIN logs :
              /\ logs[i] \in LogType /\ logs[i].type \in {"START", "END"}
              /\ logs[i].amount \in Int /\ logs[i].at \in Nat
<1>1. \A i \in DOMAIN logs : logs[i] \in LogType  OBVIOUS
<1> QED  BY <1>1 DEF LogType

LEMMA InitCustody == Init => CustodyInv
<1> SUFFICES ASSUME Init PROVE CustodyInv  OBVIOUS
<1>1. \A d \in BusinessDays : session[d] = NoSession  BY DEF Init
<1>2. \A r \in Requests : ReadOK(req[r])  BY DEF Init, ReadOK, Idle
<1>3. RowsOK
  <2>1. till \in Int  BY DrawerAssumption DEF Init
  <2> QED  BY <1>1, <2>1, DaysNatural, FS_EmptySet DEF Init, RowsOK
<1> QED  BY <1>1, <1>2, <1>3, NoSessionApart DEF CustodyInv

\* Reads and refusals: no row changes.
LEMMA RequestStep ==
  ASSUME CustodyInv, NEW r \in Requests, NEW x, ReadOK(x), Ask(r, x),
         UNCHANGED <<day, now, session, flows, till>>
  PROVE  CustodyInv'
<1>1. req' = [req EXCEPT ![r] = x]  BY DEF Ask
<1>2. req'[r] = x /\ \A q \in Requests \ {r} : req'[q] = req[q]
  BY <1>1 DEF CustodyInv, RowsOK
<1>3. RowsOK'  BY <1>1 DEF CustodyInv, RowsOK
<1>4. \A q \in Requests : ReadOK(req'[q])  BY <1>2 DEF CustodyInv
<1>5. \A q \in Requests : ReadOK(req[q])'  BY <1>4 DEF ReadOK, InOrder, ClosedOut
<1> QED  BY <1>3, <1>5 DEF CustodyInv, Alternating, Closed

LEMMA IdleOK == ReadOK(Idle)
BY DEF ReadOK, Idle

LEMMA ReadStep ==
  ASSUME CustodyInv, NEW r \in Requests, NEW d \in BusinessDays,
         LogRead(r, d) \/ FinalizeRead(r, d)
  PROVE  CustodyInv'
<1>1. session[d] \in SessionType /\ till \in Int /\ session[d].version \in Nat
      /\ session[d].holder \in Staff
  <2>1. session[d].status = "OPEN"  BY DEF LogRead, FinalizeRead, Open
  <2>2. NoSession.status = "NONE"  BY DEF NoSession, None
  <2>3. session[d] \in SessionType /\ till \in Int
    BY <2>1, <2>2 DEF CustodyInv, RowsOK
  <2> QED  BY <2>3 DEF SessionType
<1>2. CASE LogRead(r, d)
  <2> DEFINE X(type, next) ==
        [op |-> "log", day |-> d, seen |-> session[d].version, type |-> type,
         user |-> session[d].holder, next |-> next, amount |-> till]
  <2>0. PICK type \in {"START", "END"} :
          \E next \in Handovers(session[d].holder, type) :
            InOrder(session[d], session[d].holder, type) /\ Ask(r, X(type, next))
    BY <1>2 DEF LogRead
  <2>1. PICK next \in Handovers(session[d].holder, type) :
          InOrder(session[d], session[d].holder, type) /\ Ask(r, X(type, next))
    BY <2>0
  <2>2. PICK x : x = X(type, next)  OBVIOUS
  <2>3. /\ x.op = "log" /\ x.day = d /\ x.seen = session[d].version /\ x.type = type
        /\ x.user = session[d].holder /\ x.next = next /\ x.amount = till
    BY <2>2
  <2>4. next \in Staff \cup {None}  BY <2>1 DEF Handovers
  <2>5. ReadOK(x)  BY <1>1, <2>1, <2>3, <2>4 DEF ReadOK
  <2> QED  BY <1>2, <2>1, <2>2, <2>5, RequestStep DEF LogRead, history
<1>3. CASE FinalizeRead(r, d)
  <2>1. PICK x : x = [op |-> "finalize", day |-> d, seen |-> session[d].version,
                      amount |-> till]
    OBVIOUS
  <2>2. x.op = "finalize" /\ x.day = d /\ x.seen = session[d].version /\ x.amount = till
    BY <2>1
  <2>3. ReadOK(x)  BY <1>1, <1>3, <2>2 DEF ReadOK, FinalizeRead
  <2> QED  BY <1>3, <2>1, <2>3, RequestStep DEF FinalizeRead, history
<1> QED  BY <1>2, <1>3

\* What an appended log makes of the rest.
LEMMA Appended ==
  ASSUME NEW logs \in Seq(LogType), NEW e \in LogType, NEW new, new = Append(logs, e)
  PROVE  /\ new \in Seq(LogType) /\ Len(logs) \in Nat /\ Len(new) = Len(logs) + 1
         /\ DOMAIN new = 1..(Len(logs) + 1) /\ DOMAIN logs = 1..Len(logs)
         /\ new[Len(logs) + 1] = e
         /\ \A i \in 1..Len(logs) : new[i] = logs[i]
OBVIOUS

LEMMA Parity ==
  /\ \A n \in Nat : n % 2 = 1 => (n + 1) % 2 = 0
  /\ \A n \in Nat : n % 2 = 0 => (n + 1) % 2 = 1
  /\ \A n \in Nat : n % 2 \in {0, 1}
OBVIOUS

\* Rows of other kinds change: the sessions and what was read of them do not.
LEMMA CashStep ==
  ASSUME CustodyInv, BookCash \/ Midnight
  PROVE  CustodyInv'
<1>1. UNCHANGED <<session, req>>  BY DEF BookCash, Midnight
<1>2. now' \in Nat /\ now <= now'  BY DEF BookCash, Midnight, CustodyInv, RowsOK
<1>3. RowsOK'
  <2>1. CASE BookCash
    <3>1. PICK sum \in Amounts :
            /\ flows' = flows \cup {[at |-> now + 1, day |-> day, amount |-> sum]}
            /\ till' = till + sum
      BY <2>1 DEF BookCash
    <3>2. sum \in Int /\ now + 1 \in Nat /\ now' = now + 1 /\ day' = day /\ day \in BusinessDays
      BY <2>1, DrawerAssumption DEF BookCash, CustodyInv, RowsOK
    <3>3. PICK f : f = [at |-> now + 1, day |-> day, amount |-> sum]  OBVIOUS
    <3>4. f \in FlowType /\ f.at = now + 1  BY <3>2, <3>3 DEF FlowType
    <3>5. flows' = flows \cup {f}  BY <3>1, <3>3
    <3>6. IsFiniteSet(flows') /\ flows' \subseteq FlowType /\ till' \in Int
      BY <3>1, <3>2, <3>4, <3>5, FS_AddElement DEF CustodyInv, RowsOK
    <3>7. \A g \in flows' : g.at <= now'
      <4>1. \A g \in flows : g.at \in Nat /\ g.at <= now  BY DEF CustodyInv, RowsOK, FlowType
      <4>2. now \in Nat /\ \A n \in Nat : n <= now => n <= now + 1  BY DEF CustodyInv, RowsOK
      <4>3. \A g \in flows : g.at <= now + 1  BY <4>1, <4>2
      <4>4. now + 1 <= now + 1  BY <4>2
      <4> QED  BY <3>2, <3>4, <3>5, <4>3, <4>4
    <3> QED  BY <1>1, <1>2, <3>2, <3>6, <3>7 DEF CustodyInv, RowsOK
  <2>2. CASE Midnight
    <3>1. day' \in BusinessDays
      BY <2>2, DrawerAssumption DEF Midnight, BusinessDays, CustodyInv, RowsOK
    <3> QED  BY <1>1, <2>2, <3>1 DEF Midnight, CustodyInv, RowsOK, history
  <2> QED  BY <2>1, <2>2
<1>4. \A r \in Requests : ReadOK(req[r])'
  BY <1>1 DEF CustodyInv, ReadOK, InOrder, ClosedOut
<1>5. ASSUME NEW d \in BusinessDays, session[d] \in SessionType
      PROVE  Alternating(session[d].logs)'
  <2>1. \A i \in DOMAIN session[d].logs : session[d].logs[i].at \in Nat
    BY <1>5, SessionFields, LogFields
  <2>2. Alternating(session[d].logs) /\ now \in Nat  BY <1>5 DEF CustodyInv, RowsOK
  <2> QED  BY <1>1, <1>2, <2>1, <2>2 DEF Alternating
<1> QED  BY <1>1, <1>3, <1>4, <1>5 DEF CustodyInv, Closed

LEMMA OpenStep ==
  ASSUME CustodyInv, NEW s \in Staff, OpenDrawer(s)
  PROVE  CustodyInv'
<1>1. PICK new : new = [status |-> "OPEN", opening |-> till, holder |-> s,
                        logs |-> <<>>, final |-> 0, version |-> 0]
  OBVIOUS
<1>2. /\ session' = [session EXCEPT ![day] = new] /\ session[day] = NoSession
      /\ UNCHANGED <<day, now, flows, req, till>>
  BY <1>1 DEF OpenDrawer, history
<1>3. /\ new \in SessionType /\ new.logs = <<>> /\ new.status = "OPEN"
  <2>1. till \in Int  BY DEF CustodyInv, RowsOK
  <2> QED  BY <1>1, <2>1 DEF SessionType
<1>4. day \in BusinessDays /\ DOMAIN session = BusinessDays  BY DEF CustodyInv, RowsOK
<1>5. session'[day] = new /\ \A d \in BusinessDays \ {day} : session'[d] = session[d]
  BY <1>2, <1>4
<1>6. RowsOK'
  <2>1. DOMAIN session' = BusinessDays  BY <1>2, <1>4
  <2>2. \A d \in BusinessDays : session'[d] = NoSession \/ session'[d] \in SessionType
    BY <1>3, <1>5 DEF CustodyInv, RowsOK
  <2> QED  BY <1>2, <2>1, <2>2 DEF CustodyInv, RowsOK
<1>7. \A r \in Requests : ReadOK(req[r])'
  <2>1. TAKE r \in Requests
  <2>2. ReadOK(req[r])  BY DEF CustodyInv
  <2>3. req[r].op \in {"log", "finalize"} => req[r].day \in BusinessDays \ {day}
    BY <1>2, <2>2, NoSessionApart DEF ReadOK
  <2>4. req[r].op \in {"log", "finalize"} => session'[req[r].day] = session[req[r].day]
    BY <1>5, <2>3
  <2> QED  BY <1>2, <2>2, <2>4 DEF ReadOK, InOrder, ClosedOut
<1>8. ASSUME NEW d \in BusinessDays, session'[d] \in SessionType
      PROVE  Alternating(session[d].logs)' /\ (Closed(d) => LastLog(session[d]).type = "END")'
  <2>1. CASE d = day
    <3>1. session'[d].logs = <<>> /\ session'[d].status = "OPEN"  BY <1>3, <1>5, <2>1
    <3> QED  BY <3>1 DEF Alternating, Closed
  <2>2. CASE d # day
    <3>1. session'[d] = session[d]  BY <1>5, <2>2
    <3> QED  BY <1>2, <1>8, <3>1 DEF CustodyInv, Alternating, Closed
  <2> QED  BY <2>1, <2>2
<1> QED  BY <1>6, <1>7, <1>8 DEF CustodyInv

\* One session is written and its version moves on, so that no other request's
\* check stands any more.
LEMMA WriteStep ==
  ASSUME CustodyInv, NEW r \in Requests, NEW d \in BusinessDays, NEW new \in SessionType,
         session[d] \in SessionType, now' \in Nat, now <= now',
         new.version = session[d].version + 1,
         session' = [session EXCEPT ![d] = new], Done(r),
         UNCHANGED <<day, flows, till>>,
         Alternating(new.logs)', new.status = "CLOSED" => LastLog(new).type = "END"
  PROVE  CustodyInv'
<1>1. DOMAIN session = BusinessDays /\ session[d].version \in Nat
  BY SessionFields DEF CustodyInv, RowsOK
<1>2. session'[d] = new /\ \A e \in BusinessDays \ {d} : session'[e] = session[e]
  BY <1>1
<1>3. req'[r] = Idle /\ (\A q \in Requests \ {r} : req'[q] = req[q]) /\ DOMAIN req' = Requests
  BY DEF Done, Ask, CustodyInv, RowsOK
<1>4. RowsOK'
  <2>1. DOMAIN session' = BusinessDays  BY <1>1
  <2>2. \A e \in BusinessDays : session'[e] = NoSession \/ session'[e] \in SessionType
    BY <1>2 DEF CustodyInv, RowsOK
  <2>3. \A f \in flows' : f.at <= now'
    <3>1. \A f \in flows : f.at \in Nat /\ f.at <= now  BY DEF CustodyInv, RowsOK, FlowType
    <3>2. \A n \in Nat : n <= now => n <= now'  BY DEF CustodyInv, RowsOK
    <3> QED  BY <3>1, <3>2
  <2> QED  BY <1>3, <2>1, <2>2, <2>3 DEF CustodyInv, RowsOK
<1>5. \A q \in Requests : ReadOK(req[q])'
  <2>1. TAKE q \in Requests
  <2>2. CASE q = r
    BY <1>3, <2>2 DEF ReadOK, Idle
  <2>3. CASE q # r /\ req[q].op \in {"log", "finalize"}
    <3>1. ReadOK(req[q]) /\ req'[q] = req[q]  BY <1>3, <2>3 DEF CustodyInv
    <3>2. CASE req[q].day = d
      <4>1. req[q].seen \in Nat /\ req[q].seen <= session[d].version
        BY <2>3, <3>1, <3>2 DEF ReadOK
      <4>2. req[q].seen <= new.version /\ req[q].seen # new.version  BY <1>1, <4>1
      <4> QED  BY <1>2, <2>3, <3>1, <3>2, <4>2 DEF ReadOK
    <3>3. CASE req[q].day # d
      <4>1. session'[req[q].day] = session[req[q].day]
        BY <1>2, <2>3, <3>1, <3>3 DEF ReadOK
      <4> QED  BY <3>1, <4>1 DEF ReadOK, InOrder, ClosedOut
    <3> QED  BY <3>2, <3>3
  <2>4. CASE q # r /\ req[q].op \notin {"log", "finalize"}
    BY <1>3, <2>4 DEF ReadOK
  <2> QED  BY <2>2, <2>3, <2>4
<1>6. ASSUME NEW e \in BusinessDays, session'[e] \in SessionType
      PROVE  Alternating(session[e].logs)' /\ (Closed(e) => LastLog(session[e]).type = "END")'
  <2>1. CASE e = d
    BY <1>2, <2>1 DEF Alternating, Closed, LastLog
  <2>2. CASE e # d
    <3>1. session'[e] = session[e] /\ session[e].logs \in Seq(LogType)
      BY <1>2, <1>6, <2>2, SessionFields
    <3>2. \A i \in DOMAIN session[e].logs : session[e].logs[i].at \in Nat
      BY <3>1, LogFields
    <3>3. Alternating(session[e].logs) /\ now \in Nat
      BY <1>6, <3>1 DEF CustodyInv, RowsOK
    <3>4. Alternating(session[e].logs)'  BY <3>1, <3>2, <3>3 DEF Alternating
    <3> QED  BY <1>6, <3>1, <3>4 DEF CustodyInv, Closed
  <2> QED  BY <2>1, <2>2
<1> QED  BY <1>4, <1>5, <1>6 DEF CustodyInv

\* The two ways a session is written.
WithFinal(old, sum, version) ==
  [old EXCEPT !.status = "CLOSED", !.final = sum, !.version = version]
WithLog(old, logs, holder, version) ==
  [old EXCEPT !.logs = logs, !.holder = holder, !.version = version]

LEMMA ClosedSession ==
  ASSUME NEW old \in SessionType, NEW sum \in Int, NEW version \in Nat,
         NEW new, new = WithFinal(old, sum, version)
  PROVE  /\ new \in SessionType /\ new.version = version /\ new.logs = old.logs
         /\ new.status = "CLOSED" /\ new.final = sum /\ new.opening = old.opening
<1>1. PICK L : L = Seq(LogType)  OBVIOUS
<1> DEFINE T == [status : {"OPEN", "CLOSED"}, opening : Int, holder : Staff,
                 logs : L, final : Int, version : Nat]
<1>2. old \in T  BY <1>1 DEF SessionType
<1>3. new \in T  BY <1>2 DEF WithFinal
<1>4. /\ new.version = version /\ new.logs = old.logs /\ new.status = "CLOSED"
      /\ new.final = sum /\ new.opening = old.opening
  BY <1>2 DEF WithFinal
<1> QED  BY <1>1, <1>3, <1>4 DEF SessionType

LEMMA LoggedSession ==
  ASSUME NEW old \in SessionType, NEW logs \in Seq(LogType), NEW holder \in Staff,
         NEW version \in Nat
  PROVE  /\ WithLog(old, logs, holder, version) \in SessionType
         /\ WithLog(old, logs, holder, version).version = version
         /\ WithLog(old, logs, holder, version).logs = logs
         /\ WithLog(old, logs, holder, version).holder = holder
         /\ WithLog(old, logs, holder, version).status = old.status
         /\ WithLog(old, logs, holder, version).final = old.final
         /\ WithLog(old, logs, holder, version).opening = old.opening
<1>0. PICK new : new = WithLog(old, logs, holder, version)  OBVIOUS
<1>1. PICK L : L = Seq(LogType)  OBVIOUS
<1> DEFINE T == [status : {"OPEN", "CLOSED"}, opening : Int, holder : Staff,
                 logs : L, final : Int, version : Nat]
<1>2. old \in T  BY <1>1 DEF SessionType
<1>3. new \in T  BY <1>0, <1>1, <1>2 DEF WithLog
<1>4. /\ new.version = version /\ new.logs = logs /\ new.holder = holder
      /\ new.status = old.status /\ new.final = old.final /\ new.opening = old.opening
  BY <1>0, <1>2 DEF WithLog
<1> QED  BY <1>0, <1>1, <1>3, <1>4 DEF SessionType

\* finalize writes a session its holder has handed to nobody.
LEMMA FinalizeStep ==
  ASSUME CustodyInv, NEW r \in Requests, FinalizeCommit(r)
  PROVE  CustodyInv'
<1>0. PICK x : x = req[r]  OBVIOUS
<1>1. /\ ReadOK(x) /\ x.op = "finalize" /\ session[x.day].version = x.seen
      /\ UNCHANGED <<day, now, flows, till>>
  BY <1>0 DEF FinalizeCommit, CustodyInv
<1>2. /\ x.day \in BusinessDays /\ session[x.day] \in SessionType
      /\ ClosedOut(session[x.day]) /\ x.amount \in Int /\ now \in Nat
  BY <1>1 DEF ReadOK, CustodyInv, RowsOK
<1>3. PICK old : old = session[x.day]  OBVIOUS
<1>4. PICK sum, version : sum = x.amount /\ version = old.version + 1  OBVIOUS
<1>5. PICK new : new = WithFinal(old, sum, version)  OBVIOUS
<1>6. /\ new \in SessionType /\ new.version = old.version + 1 /\ new.logs = old.logs
      /\ new.status = "CLOSED"
  <2>1. old \in SessionType /\ sum \in Int /\ version \in Nat
    BY <1>2, <1>3, <1>4, SessionFields
  <2> QED  BY <1>4, <1>5, <2>1, ClosedSession
<1>7. session' = [session EXCEPT ![x.day] = new]
  BY <1>0, <1>3, <1>4, <1>5 DEF FinalizeCommit, WithFinal
<1>8. Alternating(new.logs)'
  BY <1>1, <1>2, <1>3, <1>6 DEF CustodyInv, Alternating
<1>9. LastLog(new).type = "END"
  BY <1>2, <1>3, <1>6 DEF ClosedOut, LastLog
<1>10. Done(r)  BY DEF FinalizeCommit
<1>11. now' \in Nat /\ now <= now'  BY <1>1, <1>2
<1> QED  BY <1>1, <1>2, <1>3, <1>6, <1>7, <1>8, <1>9, <1>10, <1>11, WriteStep

\* A log that is in order keeps the shifts alternating.
LEMMA OneMoreLog ==
  ASSUME NEW s, NEW logs \in Seq(LogType), s.logs = logs, NEW log \in LogType,
         Alternating(logs), now \in Nat, now' \in Nat, now <= now', log.at = now',
         NEW new, new = Append(logs, log),
         InOrder(s, log.staff, log.type)
  PROVE  Alternating(new)'
<1>1. PICK n \in Nat : n = Len(logs)  BY LogFields
<1>2. /\ DOMAIN logs = 1..n /\ DOMAIN new = 1..(n + 1)
      /\ new[n + 1] = log /\ \A i \in 1..n : new[i] = logs[i]
  BY <1>1, Appended
<1>3. \A i \in 1..n : logs[i].at \in Nat /\ logs[i].at <= now
  BY <1>2, LogFields DEF Alternating
<1>4. LastLog(s) = IF n = 0 THEN NoLog ELSE logs[n]
  BY <1>1 DEF LastLog
<1>5. NoLog.type = "NONE" /\ log.type \in {"START", "END"}
  BY DEF NoLog, None, LogType
<1>6. n # 0 => /\ logs[n].type = IF n % 2 = 1 THEN "START" ELSE "END"
               /\ n \in 1..n /\ new[n] = logs[n] /\ (n + 1) - 1 = n
               /\ logs[n].type \in {"START", "END"}
  <2>1. n # 0 => n \in 1..n /\ (n + 1) - 1 = n  OBVIOUS
  <2> QED  BY <1>2, <2>1, LogFields DEF Alternating
<1>7. /\ log.type = IF (n + 1) % 2 = 1 THEN "START" ELSE "END"
      /\ n + 1 > 1 => IF (n + 1) % 2 = 0 THEN log.staff = logs[n].staff
                      ELSE log.staff = logs[n].next
  <2>1. CASE n = 0
    <3>1. log.type = "START"  BY <1>4, <1>5, <2>1 DEF InOrder
    <3> QED  BY <2>1, <3>1
  <2>2. CASE n # 0 /\ n % 2 = 1
    <3>1. (n + 1) % 2 = 0 /\ logs[n].type = "START"  BY <1>6, <2>2, Parity
    <3>2. LastLog(s) = logs[n] /\ NoLog # logs[n]  BY <1>4, <1>5, <2>2, <3>1
    <3>3. log.type = "END" /\ log.staff = logs[n].staff
      BY <1>5, <3>1, <3>2 DEF InOrder
    <3> QED  BY <3>1, <3>3
  <2>3. CASE n # 0 /\ n % 2 = 0
    <3>1. (n + 1) % 2 = 1 /\ logs[n].type = "END"  BY <1>6, <2>3, Parity
    <3>2. LastLog(s) = logs[n] /\ NoLog # logs[n]  BY <1>4, <1>5, <2>3, <3>1
    <3>3. log.type = "START" /\ log.staff = logs[n].next
      BY <1>5, <3>1, <3>2 DEF InOrder
    <3> QED  BY <3>1, <3>3
  <2> QED  BY <2>1, <2>2, <2>3, Parity
<1>8. ASSUME NEW i \in 1..(n + 1)
      PROVE  /\ new[i].type = IF i % 2 = 1 THEN "START" ELSE "END"
             /\ i > 1 => IF i % 2 = 0 THEN new[i].staff = new[i - 1].staff
                         ELSE new[i].staff = new[i - 1].next
             /\ new[i].at <= now'
  <2>1. CASE i = n + 1
    <3>1. new[i] = log /\ i - 1 = n /\ (i > 1 => new[n] = logs[n])
      BY <1>2, <1>6, <2>1
    <3>2. now' <= now'  OBVIOUS
    <3> QED  BY <1>7, <2>1, <3>1, <3>2
  <2>2. CASE i # n + 1
    <3>1. i \in 1..n /\ (i > 1 => i - 1 \in 1..n)  BY <2>2
    <3>2. new[i] = logs[i] /\ (i > 1 => new[i - 1] = logs[i - 1])  BY <1>2, <3>1
    <3>3. /\ logs[i].type = IF i % 2 = 1 THEN "START" ELSE "END"
          /\ i > 1 => IF i % 2 = 0 THEN logs[i].staff = logs[i - 1].staff
                      ELSE logs[i].staff = logs[i - 1].next
      BY <1>2, <3>1 DEF Alternating
    <3>4. logs[i].at <= now'  BY <1>3, <3>1
    <3> QED  BY <3>2, <3>3, <3>4
  <2> QED  BY <2>1, <2>2
<1>9. ASSUME NEW i \in 1..(n + 1), NEW j \in 1..(n + 1), i <= j
      PROVE  new[i].at <= new[j].at
  <2>1. CASE j = n + 1
    BY <1>2, <1>8, <2>1
  <2>2. CASE j # n + 1
    <3>1. i \in 1..n /\ j \in 1..n  BY <1>9, <2>2
    <3> QED  BY <1>2, <1>9, <3>1 DEF Alternating
  <2> QED  BY <2>1, <2>2
<1> QED  BY ZenonT(60), <1>2, <1>8, <1>9 DEF Alternating

LEMMA LogStep ==
  ASSUME CustodyInv, NEW r \in Requests, LogCommit(r)
  PROVE  CustodyInv'
<1>0. PICK x : x = req[r]  OBVIOUS
<1>1. /\ ReadOK(x) /\ x.op = "log" /\ session[x.day].version = x.seen
      /\ Open(x.day) /\ now' = now + 1 /\ UNCHANGED <<day, flows, till>>
  BY <1>0 DEF LogCommit, CustodyInv, Unchanged
<1>2. /\ x.day \in BusinessDays /\ session[x.day] \in SessionType
      /\ InOrder(session[x.day], x.user, x.type) /\ x.amount \in Int /\ now \in Nat
      /\ x.type \in {"START", "END"} /\ x.user \in Staff /\ x.next \in Staff \cup {None}
  BY <1>1 DEF ReadOK, CustodyInv, RowsOK
<1>3. PICK old : old = session[x.day]  OBVIOUS
<1>4. PICK log : log = [type |-> x.type, staff |-> x.user, next |-> x.next,
                        amount |-> x.amount, at |-> now + 1]
  OBVIOUS
<1>5. log \in LogType /\ log.at = now + 1 /\ log.staff = x.user /\ log.type = x.type
  BY <1>2, <1>4 DEF LogType
<1>6. PICK logs, holder, version :
        logs = Append(old.logs, log) /\ holder = NextHolder(x) /\ version = old.version + 1
  OBVIOUS
<1>7. PICK new : new = WithLog(old, logs, holder, version)  OBVIOUS
<1>8. /\ new \in SessionType /\ new.version = old.version + 1
      /\ new.logs = Append(old.logs, log) /\ new.status = old.status
  <2>1. old \in SessionType /\ version \in Nat /\ logs \in Seq(LogType)
    BY <1>2, <1>3, <1>5, <1>6, SessionFields
  <2>2. holder \in Staff  BY <1>2, <1>6 DEF NextHolder
  <2>3. /\ new \in SessionType /\ new.version = version
        /\ new.logs = logs /\ new.status = old.status
    <3>1. old \in SessionType  BY <2>1
    <3>2. version \in Nat  BY <2>1
    <3>3. logs \in Seq(LogType)  BY SMTT(30), <2>1
    <3> QED  BY <1>7, <2>2, <3>1, <3>2, <3>3, LoggedSession
  <2> QED  BY <1>6, <2>3
<1>9. session' = [session EXCEPT ![x.day] = new]
  BY ZenonT(60), <1>0, <1>3, <1>4, <1>6, <1>7 DEF LogCommit, WithLog
<1>10. now' \in Nat /\ now <= now' /\ log.at = now'  BY <1>1, <1>2, <1>5
<1>11. Alternating(old.logs) /\ old.logs \in Seq(LogType)
  BY <1>2, <1>3, SessionFields DEF CustodyInv
<1>12. Alternating(new.logs)'
  <2>1. PICK seq : seq = Append(old.logs, log)  OBVIOUS
  <2>2. InOrder(old, log.staff, log.type)  BY <1>2, <1>3, <1>5
  <2>3. Alternating(seq)'  BY <1>2, <1>5, <1>10, <1>11, <2>1, <2>2, OneMoreLog
  <2> QED  BY <1>8, <2>1, <2>3
<1>13. new.status # "CLOSED"  BY <1>1, <1>3, <1>8 DEF Open
<1>14. Done(r)  BY DEF LogCommit
<1> QED  BY <1>1, <1>2, <1>3, <1>8, <1>9, <1>10, <1>12, <1>13, <1>14, WriteStep

LEMMA CustodyNext == CustodyInv /\ [Next]_vars => CustodyInv'
<1> SUFFICES ASSUME CustodyInv, [Next]_vars PROVE CustodyInv'  OBVIOUS
<1>1. ASSUME NEW s \in Staff, OpenDrawer(s) PROVE CustodyInv'
  BY <1>1, OpenStep
<1>2. ASSUME NEW r \in Requests, NEW d \in BusinessDays, LogRead(r, d) \/ FinalizeRead(r, d)
      PROVE  CustodyInv'
  BY <1>2, ReadStep
<1>3. ASSUME NEW r \in Requests, LogCommit(r) \/ FinalizeCommit(r) PROVE CustodyInv'
  BY <1>3, LogStep, FinalizeStep
<1>4. ASSUME NEW r \in Requests, Abandon(r) PROVE CustodyInv'
  BY <1>4, IdleOK, RequestStep DEF Abandon, Done, history
<1>5. CASE BookCash \/ Midnight
  BY <1>5, CashStep
<1>6. CASE UNCHANGED vars
  BY <1>6 DEF vars, history, CustodyInv, RowsOK, ReadOK, InOrder, ClosedOut, Alternating,
              Closed
<1> QED  BY <1>1, <1>2, <1>3, <1>4, <1>5, <1>6 DEF Next

LEMMA CustodyAlways == Spec => []CustodyInv
BY InitCustody, CustodyNext, PTL DEF Spec

\* The chain of custody holds for any number of requests at a time, of any
\* cashiers, on any number of days.
THEOREM CustodyIsUnbroken == Spec => []ChainOfCustody
<1>1. CustodyInv => ChainOfCustody
  <2> SUFFICES ASSUME CustodyInv, NEW d \in BusinessDays, session[d] # NoSession,
                      NEW i \in DOMAIN session[d].logs
               PROVE  /\ session[d].logs[i].type = IF i % 2 = 1 THEN "START" ELSE "END"
                      /\ i > 1 =>
                           /\ session[d].logs[i].at >= session[d].logs[i - 1].at
                           /\ IF i % 2 = 0
                              THEN session[d].logs[i].staff = session[d].logs[i - 1].staff
                              ELSE session[d].logs[i].staff = session[d].logs[i - 1].next
    BY DEF ChainOfCustody
  <2>1. session[d] \in SessionType  BY DEF CustodyInv, RowsOK
  <2>2. Alternating(session[d].logs)  BY <2>1 DEF CustodyInv
  <2>3. session[d].logs \in Seq(LogType)  BY <2>1, SessionFields
  <2>4. i > 1 => i - 1 \in DOMAIN session[d].logs /\ i - 1 <= i  BY <2>3, LogFields
  <2>5. i > 1 => session[d].logs[i].at >= session[d].logs[i - 1].at
    BY <2>2, <2>3, <2>4, LogFields DEF Alternating
  <2> QED  BY <2>2, <2>5 DEF Alternating
<1> QED  BY <1>1, CustodyAlways, PTL

\* A closed session is never written again, and the drawer changes hands only
\* by a log of the one who held it: the claim of updatedAt, status and holder.
THEOREM ClosedStays == Spec => ClosedStaysClosed
<1>1. ASSUME CustodyInv, [Next]_vars, NEW d \in BusinessDays
      PROVE  /\ Closed(d) => session'[d] = session[d]
             /\ Open(d) /\ session'[d].holder # session[d].holder
                  => LastLog(session'[d]).staff = session[d].holder
                     /\ Len(session'[d].logs) = Len(session[d].logs) + 1
  <2>1. CASE UNCHANGED session
    BY <2>1
  <2>2. CASE \E s \in Staff : OpenDrawer(s)
    <3>1. session[day] = NoSession /\ NoSession.status = "NONE"
      BY <2>2 DEF OpenDrawer, NoSession, None
    <3>2. Closed(d) \/ Open(d) => d # day  BY <3>1 DEF Closed, Open
    <3> QED  BY <2>2, <3>2 DEF OpenDrawer
  <2>3. ASSUME NEW r \in Requests, FinalizeCommit(r)
        PROVE  /\ Closed(d) => session'[d] = session[d]
               /\ session'[d].holder = session[d].holder
    <3>1. PICK x : x = req[r]  OBVIOUS
    <3>2. PICK old, version : old = session[x.day] /\ version = old.version + 1  OBVIOUS
    <3>3. PICK new : new = WithFinal(old, x.amount, version)  OBVIOUS
    <3>4. session' = [session EXCEPT ![x.day] = new] /\ old.status = "OPEN"
      BY <2>3, <3>1, <3>2, <3>3 DEF FinalizeCommit, WithFinal, Open
    <3>5. new.holder = old.holder
      <4>1. ReadOK(x) /\ x.op = "finalize"  BY <2>3, <3>1, <1>1 DEF CustodyInv, FinalizeCommit
      <4>2. old \in SessionType  BY <3>2, <4>1 DEF ReadOK
      <4>3. PICK L : L = Seq(LogType)  OBVIOUS
      <4> QED  BY <3>3, <4>2, <4>3 DEF SessionType, WithFinal
    <3>6. d = x.day => session'[d] = new
      BY <1>1, <3>4 DEF CustodyInv, RowsOK
    <3> QED  BY <3>2, <3>4, <3>5, <3>6 DEF Closed
  <2>4. ASSUME NEW r \in Requests, LogCommit(r)
        PROVE  /\ Closed(d) => session'[d] = session[d]
               /\ session'[d].holder # session[d].holder
                    => LastLog(session'[d]).staff = session[d].holder
                       /\ Len(session'[d].logs) = Len(session[d].logs) + 1
    <3>1. PICK x : x = req[r]  OBVIOUS
    <3>2. PICK old, version : old = session[x.day] /\ version = old.version + 1  OBVIOUS
    <3>3. PICK log : log = [type |-> x.type, staff |-> x.user, next |-> x.next,
                            amount |-> x.amount, at |-> now + 1]
      OBVIOUS
    <3>4. PICK logs : logs = Append(old.logs, log)  OBVIOUS
    <3>5. PICK new : new = WithLog(old, logs, NextHolder(x), version)  OBVIOUS
    <3>6. /\ session' = [session EXCEPT ![x.day] = new] /\ old.status = "OPEN"
          /\ x.op = "log" /\ old.holder = x.user
      BY ZenonT(60), <2>4, <3>1, <3>2, <3>3, <3>4, <3>5 DEF LogCommit, WithLog, Unchanged, Open
    <3>7. old \in SessionType /\ x.day \in BusinessDays
      <4>1. ReadOK(x)  BY <3>1, <1>1 DEF CustodyInv
      <4> QED  BY <3>2, <3>6, <4>1 DEF ReadOK
    <3>8. new.logs = logs
      <4>1. PICK L : L = Seq(LogType)  OBVIOUS
      <4> QED  BY <3>5, <3>7, <4>1 DEF SessionType, WithLog
    <3>9. log.staff = x.user  BY <3>3
    <3>10. LastLog(new).staff = x.user /\ Len(logs) = Len(old.logs) + 1
      <4>1. PICK n \in Nat : n = Len(old.logs)  BY <3>7, SessionFields, LogFields
      <4>2. log \in LogType
        <5>1. ReadOK(x) /\ now + 1 \in Nat  BY <3>1, <1>1 DEF CustodyInv, RowsOK
        <5> QED  BY <3>3, <3>6, <5>1 DEF ReadOK, LogType
      <4>3. Len(logs) = n + 1 /\ logs[n + 1] = log /\ logs \in Seq(LogType)
        BY <3>4, <3>7, <4>1, <4>2, SessionFields, Appended
      <4>4. logs # << >>  BY <4>1, <4>3
      <4> QED  BY <3>8, <3>9, <4>1, <4>3, <4>4 DEF LastLog
    <3>11. d = x.day => session'[d] = new
      BY <1>1, <3>6 DEF CustodyInv, RowsOK
    <3> QED  BY <3>2, <3>6, <3>8, <3>10, <3>11 DEF Closed
  <2> QED
    BY <1>1, <2>1, <2>2, <2>3, <2>4
    DEF Next, LogRead, FinalizeRead, Abandon, BookCash, Midnight, vars
<1>2. CustodyInv /\ [Next]_vars =>
        [\A d \in BusinessDays :
           /\ Closed(d) => session'[d] = session[d]
           /\ Open(d) /\ session'[d].holder # session[d].holder
                => LastLog(session'[d]).staff = session[d].holder
                   /\ Len(session'[d].logs) = Len(session[d].logs) + 1]_vars
  BY <1>1
<1> QED  BY <1>2, CustodyAlways, PTL DEF Spec, ClosedStaysClosed

-----------------------------------------------------------------------------
(* Sums of signed flows *)

Flows == {S \in SUBSET FlowType : IsFiniteSet(S)}

LEMMA FlowsSigned ==
  ASSUME NEW S \in Flows
  PROVE  /\ IsFiniteSet(S) /\ S \subseteq FlowType
         /\ \A f \in S : f.amount \in Int /\ f.at \in Nat /\ Signed(S)[f] = f.amount
<1>1. IsFiniteSet(S) /\ S \subseteq FlowType  BY DEF Flows
<1> QED  BY <1>1 DEF FlowType, Signed

\* What came in less what went out is the signed sum.
LEMMA NetIsSum ==
  ASSUME NEW S \in Flows
  PROVE  NetCash(S) = SumFunctionOnSet(Signed(S), S) /\ NetCash(S) \in Int
<1>1. PICK P, N : P = {f \in S : f.amount > 0} /\ N = {f \in S : f.amount < 0}  OBVIOUS
<1>2. IsFiniteSet(S) /\ \A f \in S : Signed(S)[f] = f.amount /\ Signed(S)[f] \in Int
  BY FlowsSigned
<1>3. PICK v : v = Signed(S)  OBVIOUS
<1>4. P \in SUBSET S /\ N \in SUBSET (S \ P)  BY <1>1, <1>2
<1>5. IsFiniteSet(P) /\ IsFiniteSet(N) /\ IsFiniteSet(S \ P)  BY <1>2, <1>4, FS_Subset
<1>6. \A f \in S : v[f] \in Int  BY <1>2, <1>3
<1>7. SumFunctionOnSet(v, S) = SumFunctionOnSet(v, P) + SumFunctionOnSet(v, S \ P)
  BY <1>2, <1>4, <1>6, SumParts
<1>8. SumFunctionOnSet(v, S \ P) = SumFunctionOnSet(v, N)
  <2>1. \A f \in (S \ P) \ N : v[f] = 0
    <3>1. \A f \in (S \ P) \ N : f \in S /\ ~(f.amount > 0) /\ ~(f.amount < 0)
      BY <1>1
    <3>2. \A n \in Int : ~(n > 0) /\ ~(n < 0) => n = 0  OBVIOUS
    <3> QED  BY <1>2, <1>3, <3>1, <3>2
  <2>2. \A f \in S \ P : v[f] \in Int  BY <1>6
  <2> QED  BY <1>4, <1>5, <2>1, <2>2, SumNonZero
<1>9. SumFunctionOnSet(v, P) \in Int /\ SumFunctionOnSet(v, N) \in Int
  <2>1. (\A f \in P : v[f] \in Int) /\ (\A f \in N : v[f] \in Int)  BY <1>4, <1>6
  <2> QED  BY <1>5, <2>1, SumType
<1>10. NetCash(S) = SumFunctionOnSet(v, P) - (-SumFunctionOnSet(v, N))
  BY <1>1, <1>3 DEF NetCash, CashIn, CashOut
<1> QED  BY <1>3, <1>7, <1>8, <1>9, <1>10

LEMMA NetOfNone == {} \in Flows /\ NetCash({}) = 0
<1>1. {} \in Flows  BY FS_EmptySet DEF Flows
<1> QED  BY <1>1, NetIsSum, SumEmpty

LEMMA NetOfParts ==
  ASSUME NEW S \in Flows, NEW T \in SUBSET S
  PROVE  /\ T \in Flows /\ S \ T \in Flows
         /\ NetCash(S) = NetCash(T) + NetCash(S \ T)
<1>1. IsFiniteSet(S) /\ S \subseteq FlowType  BY FlowsSigned
<1>2. PICK U : U = S \ T  OBVIOUS
<1>3. T \in Flows /\ U \in Flows  BY <1>1, <1>2, FS_Subset DEF Flows
<1>4. /\ NetCash(S) = SumFunctionOnSet(Signed(S), S)
      /\ NetCash(T) = SumFunctionOnSet(Signed(T), T)
      /\ NetCash(U) = SumFunctionOnSet(Signed(U), U)
  BY <1>3, NetIsSum
<1>5. /\ \A f \in S : Signed(S)[f] = f.amount /\ Signed(S)[f] \in Int
      /\ \A f \in T : Signed(T)[f] = f.amount
      /\ \A f \in U : Signed(U)[f] = f.amount
  BY <1>3, FlowsSigned
<1>6. IsFiniteSet(T) /\ IsFiniteSet(U)  BY <1>3, FlowsSigned
<1>7. SumFunctionOnSet(Signed(T), T) = SumFunctionOnSet(Signed(S), T)
  <2>1. \A f \in T : Signed(T)[f] = Signed(S)[f]  BY <1>5
  <2> QED  BY <1>6, <2>1, SumSame
<1>8. SumFunctionOnSet(Signed(U), U) = SumFunctionOnSet(Signed(S), U)
  <2>1. \A f \in U : Signed(U)[f] = Signed(S)[f]  BY <1>2, <1>5
  <2> QED  BY <1>6, <2>1, SumSame
<1>9. SumFunctionOnSet(Signed(S), S) =
        SumFunctionOnSet(Signed(S), T) + SumFunctionOnSet(Signed(S), S \ T)
  <2>1. \A f \in S : Signed(S)[f] \in Int  BY <1>5
  <2> QED  BY <1>1, <2>1, SumParts
<1> QED  BY <1>2, <1>3, <1>4, <1>7, <1>8, <1>9

LEMMA NetOfOneMore ==
  ASSUME NEW S \in Flows, NEW f \in FlowType, f \notin S
  PROVE  S \cup {f} \in Flows /\ NetCash(S \cup {f}) = NetCash(S) + f.amount
<1>1. PICK T : T = S \cup {f}  OBVIOUS
<1>2. T \in Flows  BY <1>1, FlowsSigned, FS_AddElement DEF Flows
<1>3. S \in SUBSET T /\ T \ S = {f}  BY <1>1
<1>4. NetCash(T) = NetCash(S) + NetCash({f}) /\ {f} \in Flows
  BY <1>2, <1>3, NetOfParts
<1>5. NetCash({f}) = f.amount
  <2>1. NetCash({f}) = SumFunctionOnSet(Signed({f}), {} \cup {f}) /\ Signed({f})[f] = f.amount
    BY <1>4, NetIsSum, FlowsSigned
  <2>2. f.amount \in Int  BY DEF FlowType
  <2>3. SumFunctionOnSet(Signed({f}), {} \cup {f}) =
          Signed({f})[f] + SumFunctionOnSet(Signed({f}), {})
    <3>1. \A x \in {} \cup {f} : Signed({f})[x] \in Int  BY <2>1, <2>2
    <3> QED  BY <3>1, FS_EmptySet, SumAdd
  <2> QED  BY <2>1, <2>2, <2>3, SumEmpty
<1> QED  BY <1>1, <1>2, <1>4, <1>5

-----------------------------------------------------------------------------
(* The till and the rows *)

\* A day whose counts were exact and whose cash moved only through its open
\* session: every count is what the drawer began with and the flows before it.
DayBalanced(d) ==
  LET logs == session[d].logs IN
  /\ \A i \in DOMAIN logs :
       logs[i].amount = session[d].opening + NetCash({f \in DayFlows(d) : f.at < logs[i].at})
  /\ Open(d) => till = session[d].opening + NetCash(DayFlows(d))
  /\ Closed(d) => session[d].final = session[d].opening + NetCash(DayFlows(d))

MoneyInv ==
  /\ exact \subseteq BusinessDays
  /\ \A d \in exact \ astray :
       /\ session[d] = NoSession => DayFlows(d) = {}
       /\ session[d] \in SessionType => DayBalanced(d)

LEMMA DayFlowsAreFlows ==
  ASSUME RowsOK, NEW d
  PROVE  DayFlows(d) \in Flows /\ \A n : {f \in DayFlows(d) : f.at < n} \in Flows
BY FS_Subset DEF RowsOK, DayFlows, Flows

LEMMA InitMoney == Init => MoneyInv
<1> SUFFICES ASSUME Init PROVE MoneyInv  OBVIOUS
<1>1. \A d \in BusinessDays : session[d] = NoSession /\ DayFlows(d) = {}
  BY DEF Init, DayFlows
<1> QED  BY <1>1, NoSessionApart DEF Init, MoneyInv

LEMMA StaysBalanced ==
  ASSUME NEW d, DayBalanced(d), session'[d] = session[d], DayFlows(d)' = DayFlows(d),
         Open(d) => till' = till
  PROVE  DayBalanced(d)'
<1>1. \A S : NetCash(S)' = NetCash(S)  BY DEF NetCash, CashIn, CashOut, Signed
<1>2. \A i \in DOMAIN session[d].logs :
        session[d].logs[i].amount
          = session[d].opening + NetCash({f \in DayFlows(d) : f.at < session[d].logs[i].at})
  BY DEF DayBalanced
<1>3. \A i \in DOMAIN session'[d].logs :
        session'[d].logs[i].amount
          = session'[d].opening
              + NetCash({f \in DayFlows(d)' : f.at < session'[d].logs[i].at})
  BY <1>1, <1>2
<1>4. NetCash(DayFlows(d)') = NetCash(DayFlows(d))  OBVIOUS
<1> QED  BY <1>1, <1>3, <1>4 DEF DayBalanced, Open, Closed

\* Steps that write neither a session nor a flow nor the till.
LEMMA QuietMoney ==
  ASSUME MoneyInv, UNCHANGED <<session, flows, history>>
  PROVE  MoneyInv'
<1>1. UNCHANGED <<session, flows, till, exact, astray>>  BY DEF history
<1>2. \A d : DayFlows(d)' = DayFlows(d)  BY <1>1 DEF DayFlows
<1>3. \A d : DayBalanced(d) => DayBalanced(d)'  BY <1>1, <1>2, StaysBalanced
<1> QED  BY <1>1, <1>2, <1>3 DEF MoneyInv

LEMMA OpenMoney ==
  ASSUME CustodyInv, MoneyInv, NEW s \in Staff, OpenDrawer(s)
  PROVE  MoneyInv'
<1>1. PICK new : new = [status |-> "OPEN", opening |-> till, holder |-> s,
                        logs |-> <<>>, final |-> 0, version |-> 0]
  OBVIOUS
<1>2. /\ session' = [session EXCEPT ![day] = new] /\ session[day] = NoSession
      /\ UNCHANGED <<day, now, flows, req, history>>
  BY <1>1 DEF OpenDrawer
<1>3. new.logs = <<>> /\ new.status = "OPEN" /\ new.opening = till  BY <1>1
<1>4. session'[day] = new /\ \A d \in BusinessDays \ {day} : session'[d] = session[d]
  BY <1>2 DEF CustodyInv, RowsOK
<1>5. UNCHANGED <<flows, till, exact, astray>>  BY <1>2 DEF history
<1>6. ASSUME NEW d \in exact' \ astray'
      PROVE  /\ session'[d] = NoSession => DayFlows(d)' = {}
             /\ session'[d] \in SessionType => DayBalanced(d)'
  <2>0. d \in exact \ astray /\ d \in BusinessDays /\ DayFlows(d)' = DayFlows(d)
    BY <1>5, <1>6 DEF MoneyInv, DayFlows
  <2>1. CASE d = day
    <3>1. DayFlows(d) = {}  BY <1>2, <2>0, <2>1 DEF MoneyInv
    <3>2. new.opening = new.opening + 0
      BY <1>3 DEF CustodyInv, RowsOK
    <3>3. NetCash(DayFlows(d))' = 0
      <4>1. NetCash(DayFlows(d)) = 0  BY <3>1, NetOfNone
      <4> QED  BY <2>0, <4>1 DEF NetCash, CashIn, CashOut, Signed
    <3>4. session'[d] = new /\ new.status # "CLOSED" /\ till' = till
      BY <1>3, <1>4, <1>5, <2>1
    <3>5. DayBalanced(d)'
      BY <1>3, <3>2, <3>3, <3>4 DEF DayBalanced, Open, Closed
    <3> QED  BY <2>0, <3>1, <3>5
  <2>2. CASE d # day
    <3>1. session'[d] = session[d]  BY <1>4, <2>0, <2>2
    <3>2. DayBalanced(d) => DayBalanced(d)'
      BY <1>5, <2>0, <3>1, StaysBalanced
    <3> QED  BY <2>0, <3>1, <3>2 DEF MoneyInv
  <2> QED  BY <2>1, <2>2
<1> QED  BY <1>5, <1>6 DEF MoneyInv

\* Cash moves: only a day with its own session open takes it without going
\* astray, and there the till and the rows move alike.
LEMMA CashMoney ==
  ASSUME CustodyInv, MoneyInv, BookCash
  PROVE  MoneyInv'
<1>1. PICK sum \in Amounts :
        /\ flows' = flows \cup {[at |-> now + 1, day |-> day, amount |-> sum]}
        /\ till' = till + sum
        /\ astray' = astray \cup (IF Open(day) THEN {} ELSE {day})
                            \cup {d \in BusinessDays : Open(d) /\ d # day}
  BY DEF BookCash
<1>2. sum \in Int /\ now \in Nat /\ day \in BusinessDays /\ till \in Int
      /\ UNCHANGED <<day, session, exact>> /\ RowsOK
  BY DrawerAssumption DEF BookCash, CustodyInv, RowsOK
<1>3. PICK f : f = [at |-> now + 1, day |-> day, amount |-> sum]  OBVIOUS
<1>4. f \in FlowType /\ f.at = now + 1 /\ f.day = day /\ f.amount = sum
  BY <1>2, <1>3 DEF FlowType
<1>5. f \notin flows
  <2>1. \A g \in flows : g.at <= now  BY <1>2 DEF RowsOK
  <2>2. ~ (now + 1 <= now)  BY <1>2
  <2> QED  BY <1>4, <2>1, <2>2
<1>6. \A d : DayFlows(d)' = IF d = day THEN DayFlows(d) \cup {f} ELSE DayFlows(d)
  BY <1>1, <1>3, <1>4 DEF DayFlows
<1>7. ASSUME NEW d \in exact' \ astray'
      PROVE  /\ session'[d] = NoSession => DayFlows(d)' = {}
             /\ session'[d] \in SessionType => DayBalanced(d)'
  <2>1. d \in exact \ astray /\ d \in BusinessDays /\ session'[d] = session[d]
    BY <1>1, <1>2, <1>7 DEF MoneyInv
  <2>2. (Open(d) => d = day) /\ (d = day => Open(d))
    BY <1>1, <1>2, <1>7, <2>1
  <2>3. CASE d # day
    <3>1. DayFlows(d)' = DayFlows(d) /\ ~Open(d)  BY <1>6, <2>2, <2>3
    <3>2. DayBalanced(d) => DayBalanced(d)'
      BY <2>1, <3>1, StaysBalanced
    <3> QED  BY <2>1, <3>1, <3>2 DEF MoneyInv
  <2>4. CASE d = day
    <3>1. Open(d) /\ ~Closed(d) /\ session[d] # NoSession
      BY <2>2, <2>4 DEF Open, Closed, NoSession, None
    <3>2. session[d] \in SessionType  BY <2>1, <3>1, <1>2 DEF RowsOK
    <3>3. DayBalanced(d)  BY <2>1, <3>2 DEF MoneyInv
    <3>4. DayFlows(d)' = DayFlows(d) \cup {f}  BY <1>6, <2>4
    <3>5. f \notin DayFlows(d) /\ DayFlows(d) \in Flows
      BY <1>2, <1>5, DayFlowsAreFlows DEF DayFlows
    <3>6. NetCash(DayFlows(d) \cup {f}) = NetCash(DayFlows(d)) + sum
      BY <1>4, <3>5, NetOfOneMore
    <3>7. NetCash(DayFlows(d)) \in Int /\ session[d].opening \in Int
      BY <3>2, <3>5, NetIsSum, SessionFields
    <3>8. till' = session[d].opening + NetCash(DayFlows(d) \cup {f})
      <4>1. till = session[d].opening + NetCash(DayFlows(d))  BY <3>1, <3>3 DEF DayBalanced
      <4> QED  BY <1>1, <1>2, <3>6, <3>7, <4>1
    <3>9. ASSUME NEW i \in DOMAIN session[d].logs
          PROVE  {g \in DayFlows(d) \cup {f} : g.at < session[d].logs[i].at}
                   = {g \in DayFlows(d) : g.at < session[d].logs[i].at}
      <4>1. session[d].logs[i].at <= now /\ session[d].logs[i].at \in Nat
        <5>1. Alternating(session[d].logs)  BY <2>1, <3>2 DEF CustodyInv
        <5> QED  BY <3>2, <5>1, SessionFields, LogFields DEF Alternating
      <4>2. ~ (f.at < session[d].logs[i].at)  BY <1>2, <1>4, <4>1
      <4> QED  BY <4>2
    <3>10. DayBalanced(d)'
      <4>1. \A S : NetCash(S)' = NetCash(S)  BY DEF NetCash, CashIn, CashOut, Signed
      <4>2. \A i \in DOMAIN session[d].logs :
              session[d].logs[i].amount = session[d].opening
                + NetCash({g \in DayFlows(d) \cup {f} : g.at < session[d].logs[i].at})
        BY <3>3, <3>9 DEF DayBalanced
      <4> QED  BY <2>1, <3>1, <3>4, <3>8, <4>1, <4>2 DEF DayBalanced, Open, Closed
    <3> QED  BY <2>1, <3>1, <3>10
  <2> QED  BY <2>3, <2>4
<1> QED  BY <1>2, <1>7 DEF MoneyInv

\* finalize: a total that is what the till holds leaves the day balanced.
LEMMA FinalizeMoney ==
  ASSUME CustodyInv, MoneyInv, NEW r \in Requests, FinalizeCommit(r)
  PROVE  MoneyInv'
<1>1. PICK x : x = req[r]  OBVIOUS
<1>2. PICK old, sum, version :
        old = session[x.day] /\ sum = x.amount /\ version = old.version + 1
  OBVIOUS
<1>3. PICK new : new = WithFinal(old, sum, version)  OBVIOUS
<1>4. /\ session' = [session EXCEPT ![x.day] = new] /\ old.status = "OPEN"
      /\ x.op = "finalize" /\ StillExact(x.day, sum) /\ UNCHANGED <<flows, till, astray>>
  BY <1>1, <1>2, <1>3 DEF FinalizeCommit, WithFinal, Open
<1>5. x.day \in BusinessDays /\ old \in SessionType /\ sum \in Int
  <2>1. ReadOK(x)  BY <1>1 DEF CustodyInv
  <2> QED  BY <1>2, <1>4, <2>1 DEF ReadOK
<1>6. /\ new.logs = old.logs /\ new.status = "CLOSED" /\ new.final = sum
      /\ new.opening = old.opening
  <2>1. version \in Nat  BY <1>2, <1>5, SessionFields
  <2> QED  BY <1>3, <1>5, <2>1, ClosedSession
<1>7. session'[x.day] = new /\ \A d \in BusinessDays \ {x.day} : session'[d] = session[d]
  BY <1>4, <1>5 DEF CustodyInv, RowsOK
<1>8. \A d : DayFlows(d)' = DayFlows(d)  BY <1>4 DEF DayFlows
<1>9. exact' \subseteq exact /\ (x.day \in exact' => sum = till)
  BY <1>4 DEF StillExact
<1>10. ASSUME NEW d \in exact' \ astray'
       PROVE  /\ session'[d] = NoSession => DayFlows(d)' = {}
              /\ session'[d] \in SessionType => DayBalanced(d)'
  <2>1. d \in exact \ astray /\ d \in BusinessDays  BY <1>4, <1>9, <1>10 DEF MoneyInv
  <2>2. CASE d # x.day
    <3>1. session'[d] = session[d]  BY <1>7, <2>1, <2>2
    <3>2. DayBalanced(d) => DayBalanced(d)'  BY <1>4, <1>8, <3>1, StaysBalanced
    <3> QED  BY <1>8, <2>1, <3>1, <3>2 DEF MoneyInv
  <2>3. CASE d = x.day
    <3>1. session[d] = old /\ session'[d] = new  BY <1>2, <1>7, <2>3
    <3>2. DayBalanced(d)  BY <1>5, <2>1, <3>1 DEF MoneyInv
    <3>3. sum = old.opening + NetCash(DayFlows(d))
      BY <1>4, <1>9, <1>10, <2>3, <3>1, <3>2 DEF DayBalanced, Open
    <3>4. \A i \in DOMAIN old.logs :
            old.logs[i].amount
              = old.opening + NetCash({f \in DayFlows(d) : f.at < old.logs[i].at})
      BY <3>1, <3>2 DEF DayBalanced
    <3>5. \A S : NetCash(S)' = NetCash(S)  BY DEF NetCash, CashIn, CashOut, Signed
    <3>6. DayBalanced(d)'
      BY <1>6, <1>8, <3>1, <3>3, <3>4, <3>5 DEF DayBalanced, Open, Closed
    <3>7. new # NoSession  BY <1>6 DEF NoSession, None
    <3> QED  BY <3>1, <3>6, <3>7
  <2> QED  BY <2>2, <2>3
<1> QED  BY <1>9, <1>10 DEF MoneyInv

\* A log: it is stamped after every flow of the day so far.
LEMMA LogMoney ==
  ASSUME CustodyInv, MoneyInv, NEW r \in Requests, LogCommit(r)
  PROVE  MoneyInv'
<1>1. PICK x : x = req[r]  OBVIOUS
<1>2. PICK old, version : old = session[x.day] /\ version = old.version + 1  OBVIOUS
<1>3. PICK log : log = [type |-> x.type, staff |-> x.user, next |-> x.next,
                        amount |-> x.amount, at |-> now + 1]
  OBVIOUS
<1>4. PICK logs, holder : logs = Append(old.logs, log) /\ holder = NextHolder(x)  OBVIOUS
<1>5. PICK new : new = WithLog(old, logs, holder, version)  OBVIOUS
<1>6. /\ session' = [session EXCEPT ![x.day] = new] /\ old.status = "OPEN"
      /\ x.op = "log" /\ StillExact(x.day, x.amount) /\ UNCHANGED <<flows, till, astray>>
  BY ZenonT(60), <1>1, <1>2, <1>3, <1>4, <1>5 DEF LogCommit, WithLog, Unchanged, Open
<1>7. /\ x.day \in BusinessDays /\ old \in SessionType /\ x.amount \in Int /\ now \in Nat
      /\ x.type \in {"START", "END"} /\ x.user \in Staff /\ x.next \in Staff \cup {None}
  <2>1. ReadOK(x) /\ now \in Nat  BY <1>1 DEF CustodyInv, RowsOK
  <2> QED  BY <1>2, <1>6, <2>1 DEF ReadOK
<1>8. log \in LogType /\ log.at = now + 1 /\ log.amount = x.amount
  BY <1>3, <1>7 DEF LogType
<1>9. PICK n \in Nat : n = Len(old.logs)  BY <1>7, SessionFields, LogFields
<1>10. /\ logs \in Seq(LogType) /\ DOMAIN logs = 1..(n + 1) /\ DOMAIN old.logs = 1..n
       /\ logs[n + 1] = log /\ \A i \in 1..n : logs[i] = old.logs[i]
  BY <1>4, <1>7, <1>8, <1>9, SessionFields, Appended
<1>11. new.logs = logs /\ new.status = "OPEN" /\ new.opening = old.opening
  <2>1. version \in Nat  BY <1>2, <1>7, SessionFields
  <2>2. holder \in Staff  BY <1>4, <1>7 DEF NextHolder
  <2> QED  BY <1>5, <1>6, <1>7, <1>10, <2>1, <2>2, LoggedSession
<1>12. session'[x.day] = new /\ \A d \in BusinessDays \ {x.day} : session'[d] = session[d]
  BY <1>6, <1>7 DEF CustodyInv, RowsOK
<1>13. \A d : DayFlows(d)' = DayFlows(d)  BY <1>6 DEF DayFlows
<1>14. exact' \subseteq exact /\ (x.day \in exact' => x.amount = till)
  BY <1>6 DEF StillExact
<1>15. ASSUME NEW d \in exact' \ astray'
       PROVE  /\ session'[d] = NoSession => DayFlows(d)' = {}
              /\ session'[d] \in SessionType => DayBalanced(d)'
  <2>1. d \in exact \ astray /\ d \in BusinessDays  BY <1>6, <1>14, <1>15 DEF MoneyInv
  <2>2. CASE d # x.day
    <3>1. session'[d] = session[d]  BY <1>12, <2>1, <2>2
    <3>2. DayBalanced(d) => DayBalanced(d)'  BY <1>6, <1>13, <3>1, StaysBalanced
    <3> QED  BY <1>13, <2>1, <3>1, <3>2 DEF MoneyInv
  <2>3. CASE d = x.day
    <3>1. session[d] = old /\ session'[d] = new  BY <1>2, <1>12, <2>3
    <3>2. DayBalanced(d)  BY <1>7, <2>1, <3>1 DEF MoneyInv
    <3>3. x.amount = old.opening + NetCash(DayFlows(d)) /\ till = x.amount
      BY <1>6, <1>14, <1>15, <2>3, <3>1, <3>2 DEF DayBalanced, Open
    <3>4. DayFlows(d) = {f \in DayFlows(d) : f.at < now + 1}
      <4>1. \A f \in flows : f.at \in Nat /\ f.at <= now  BY DEF CustodyInv, RowsOK, FlowType
      <4>2. \A f \in flows : f.at < now + 1  BY <1>7, <4>1
      <4> QED  BY <4>2 DEF DayFlows
    <3>5. ASSUME NEW i \in DOMAIN logs
          PROVE  logs[i].amount
                   = old.opening + NetCash({f \in DayFlows(d) : f.at < logs[i].at})
      <4>1. CASE i = n + 1
        BY <1>8, <1>10, <3>3, <3>4, <4>1
      <4>2. CASE i # n + 1
        <5>1. i \in 1..n  BY <1>10, <4>2
        <5> QED  BY <1>10, <3>1, <3>2, <5>1 DEF DayBalanced
      <4> QED  BY <4>1, <4>2
    <3>6. \A S : NetCash(S)' = NetCash(S)  BY DEF NetCash, CashIn, CashOut, Signed
    <3>7. DayBalanced(d)'
      BY <1>6, <1>11, <1>13, <3>1, <3>3, <3>5, <3>6 DEF DayBalanced, Open, Closed
    <3>8. new # NoSession  BY <1>11 DEF NoSession, None
    <3> QED  BY <3>1, <3>7, <3>8
  <2> QED  BY <2>2, <2>3
<1> QED  BY <1>14, <1>15 DEF MoneyInv

LEMMA MoneyNext == CustodyInv /\ MoneyInv /\ [Next]_vars => MoneyInv'
<1> SUFFICES ASSUME CustodyInv, MoneyInv, [Next]_vars PROVE MoneyInv'  OBVIOUS
<1>1. ASSUME NEW s \in Staff, OpenDrawer(s) PROVE MoneyInv'
  BY <1>1, OpenMoney
<1>2. ASSUME NEW r \in Requests, NEW d \in BusinessDays, LogRead(r, d) \/ FinalizeRead(r, d)
      PROVE  MoneyInv'
  BY <1>2, QuietMoney DEF LogRead, FinalizeRead
<1>3. ASSUME NEW r \in Requests, LogCommit(r) \/ FinalizeCommit(r) PROVE MoneyInv'
  BY <1>3, LogMoney, FinalizeMoney
<1>4. ASSUME NEW r \in Requests, Abandon(r) PROVE MoneyInv'
  BY <1>4, QuietMoney DEF Abandon
<1>5. CASE BookCash
  BY <1>5, CashMoney
<1>6. CASE Midnight \/ UNCHANGED vars
  BY <1>6, QuietMoney DEF Midnight, vars
<1> QED  BY <1>1, <1>2, <1>3, <1>4, <1>5, <1>6 DEF Next

LEMMA MoneyAlways == Spec => [](CustodyInv /\ MoneyInv)
BY InitCustody, CustodyNext, InitMoney, MoneyNext, PTL DEF Spec

-----------------------------------------------------------------------------
(* The accounts of a closed drawer *)

LEMMA SettledRows ==
  ASSUME CustodyInv, NEW d \in Settled
  PROVE  /\ d \in BusinessDays /\ session[d] \in SessionType /\ Closed(d)
         /\ Len(session[d].logs) \in Nat /\ Len(session[d].logs) # 0
         /\ DOMAIN session[d].logs = 1..Len(session[d].logs)
         /\ session[d].logs[Len(session[d].logs)].type = "END"
<1>1. d \in BusinessDays /\ Closed(d)  BY DEF Settled
<1>2. session[d] \in SessionType
  BY <1>1 DEF CustodyInv, RowsOK, Closed, NoSession, None
<1>3. /\ session[d].logs \in Seq(LogType) /\ Len(session[d].logs) \in Nat
      /\ DOMAIN session[d].logs = 1..Len(session[d].logs)
  BY <1>2, SessionFields, LogFields
<1>4. LastLog(session[d]).type = "END"  BY <1>1, <1>2 DEF CustodyInv
<1>5. session[d].logs # << >>  BY <1>4 DEF LastLog, NoLog, None
<1>6. Len(session[d].logs) # 0  BY <1>3, <1>5
<1> QED  BY <1>1, <1>2, <1>3, <1>4, <1>5, <1>6 DEF LastLog

\* What the walk has consumed at each count: nothing, more and more, everything.
LEMMA WalkOfDay ==
  ASSUME CustodyInv, NEW d \in Settled, NEW n, n = Len(session[d].logs)
  PROVE  /\ FlowsBefore(d, 0) = {} /\ FlowsBefore(d, n + 1) = DayFlows(d)
         /\ \A i \in 1..n :
              FlowsBefore(d, i) = {f \in DayFlows(d) : f.at < session[d].logs[i].at}
         /\ \A i \in 0..(n + 1) : FlowsBefore(d, i) \in Flows
         /\ \A i, j \in 0..(n + 1) : i <= j => FlowsBefore(d, i) \subseteq FlowsBefore(d, j)
<1>1. n \in Nat /\ session[d] \in SessionType /\ DOMAIN session[d].logs = 1..n
  BY SettledRows
<1>2. FlowsBefore(d, 0) = {}  BY DEF FlowsBefore
<1>3. FlowsBefore(d, n + 1) = DayFlows(d)
  <2>1. n + 1 # 0 /\ n + 1 > n  BY <1>1
  <2> QED  BY <2>1 DEF FlowsBefore
<1>4. ASSUME NEW i \in 1..n
      PROVE  FlowsBefore(d, i) = {f \in DayFlows(d) : f.at < session[d].logs[i].at}
  <2>1. i # 0 /\ ~ (i > n)  BY <1>1
  <2> QED  BY <2>1 DEF FlowsBefore
<1>5. \A i \in 0..(n + 1) : i = 0 \/ i \in 1..n \/ i = n + 1  BY <1>1
<1>6. \A i \in 0..(n + 1) : FlowsBefore(d, i) \in Flows /\ FlowsBefore(d, i) \subseteq DayFlows(d)
  <2>1. DayFlows(d) \in Flows /\ \A t : {f \in DayFlows(d) : f.at < t} \in Flows
    BY DayFlowsAreFlows DEF CustodyInv
  <2>2. TAKE i \in 0..(n + 1)
  <2>3. CASE i = 0
    BY <1>2, <2>3, NetOfNone
  <2>4. CASE i = n + 1
    BY <1>3, <2>1, <2>4
  <2>5. CASE i \in 1..n
    <3>1. FlowsBefore(d, i) = {f \in DayFlows(d) : f.at < session[d].logs[i].at}
      BY <1>4, <2>5
    <3> QED  BY <2>1, <3>1
  <2> QED  BY <1>5, <2>3, <2>4, <2>5
<1>7. ASSUME NEW i \in 0..(n + 1), NEW j \in 0..(n + 1), i <= j
      PROVE  FlowsBefore(d, i) \subseteq FlowsBefore(d, j)
  <2>1. CASE i = 0
    BY <1>2, <2>1
  <2>2. CASE j = n + 1
    BY <1>3, <1>6, <2>2
  <2>3. CASE i # 0 /\ j # n + 1
    <3>1. i \in 1..n /\ j \in 1..n  BY <1>1, <1>7, <2>3
    <3>2. session[d].logs[i].at <= session[d].logs[j].at
      <4>1. Alternating(session[d].logs)  BY <1>1 DEF CustodyInv, Settled
      <4>2. i \in DOMAIN session[d].logs /\ j \in DOMAIN session[d].logs  BY <1>1, <3>1
      <4> QED  BY <1>7, <4>1, <4>2 DEF Alternating
    <3>3. session[d].logs[i].at \in Nat /\ session[d].logs[j].at \in Nat
      BY <1>1, <3>1, SessionFields, LogFields
    <3>4. \A f \in DayFlows(d) :
            f.at < session[d].logs[i].at => f.at < session[d].logs[j].at
      <4>1. \A f \in DayFlows(d) : f.at \in Nat
        BY DayFlowsAreFlows, FlowsSigned DEF CustodyInv
      <4> QED  BY <3>2, <3>3, <4>1
    <3> QED  BY <1>4, <3>1, <3>4
  <2> QED  BY <2>1, <2>2, <2>3
<1> QED  BY <1>2, <1>3, <1>4, <1>6, <1>7

LEMMA SegmentsOfDay ==
  ASSUME CustodyInv, NEW d \in Settled, NEW n, n = Len(session[d].logs)
  PROVE  /\ DOMAIN Segments(d) = 1..(n + 1) /\ Len(Segments(d)) = n + 1
         /\ \A i \in 1..(n + 1) :
              /\ Segments(d)[i].kind = SegmentKind(d, i)
              /\ Segments(d)[i].flows = FlowsBefore(d, i) \ FlowsBefore(d, i - 1)
              /\ Segments(d)[i].variance =
                   Count(d, i) - (Count(d, i - 1)
                     + NetCash(FlowsBefore(d, i) \ FlowsBefore(d, i - 1)))
<1>1. n \in Nat  BY SettledRows
<1>2. Segments(d) = [i \in 1..(n + 1) |-> Segment(d, i)]  BY DEF Segments
<1>3. \A i \in 1..(n + 1) : Segments(d)[i] = Segment(d, i)  BY <1>2
<1>4. DOMAIN Segments(d) = 1..(n + 1) /\ Len(Segments(d)) = n + 1
  <2>1. n + 1 \in Nat  BY <1>1
  <2> QED  BY <1>2, <2>1
<1>5. ASSUME NEW i
      PROVE  /\ Segment(d, i).kind = SegmentKind(d, i)
             /\ Segment(d, i).flows = FlowsBefore(d, i) \ FlowsBefore(d, i - 1)
             /\ Segment(d, i).variance =
                  Count(d, i) - (Count(d, i - 1)
                    + NetCash(FlowsBefore(d, i) \ FlowsBefore(d, i - 1)))
  <2>1. PICK own, kind, variance :
          /\ own = FlowsBefore(d, i) \ FlowsBefore(d, i - 1) /\ kind = SegmentKind(d, i)
          /\ variance = Count(d, i) - (Count(d, i - 1) + NetCash(own))
    OBVIOUS
  <2>2. Segment(d, i) = [kind |-> kind, flows |-> own, variance |-> variance]
    BY <2>1 DEF Segment, OpeningCount
  <2> QED  BY <2>1, <2>2
<1> QED  BY <1>3, <1>4, <1>5

\* The last segment is the closing one.
LEMMA LastIsClosing ==
  ASSUME CustodyInv, NEW d \in Settled
  PROVE  Segments(d)[Len(Segments(d))].kind = "CLOSING"
<1>1. PICK n \in Nat : n = Len(session[d].logs)  BY SettledRows
<1>2. n # 0 /\ session[d].logs[n].type = "END"  BY <1>1, SettledRows
<1>3. PICK i : i = n + 1  OBVIOUS
<1>4. i # 1 /\ i - 1 = n /\ ~ (i <= n)  BY <1>2, <1>3
<1>5. SegmentKind(d, i) = "CLOSING"
  <2>1. "END" # "START"  OBVIOUS
  <2>2. session[d].logs[i - 1].type # "START"  BY <1>2, <1>4, <2>1
  <2>3. ~ (i <= Len(session[d].logs))  BY <1>1, <1>4
  <2> QED  BY <1>4, <2>2, <2>3, Zenon DEF SegmentKind
<1>6. i \in 1..(n + 1)  BY <1>3
<1>7. Len(Segments(d)) = i /\ Segments(d)[i].kind = SegmentKind(d, i)
  BY <1>1, <1>3, <1>6, SegmentsOfDay
<1> QED  BY <1>5, <1>7

\* Each flow of the day is in exactly one segment.
LEMMA FlowsInOneSegment ==
  ASSUME CustodyInv, NEW d \in Settled
  PROVE  /\ UNION {Segments(d)[i].flows : i \in DOMAIN Segments(d)} = DayFlows(d)
         /\ \A i, j \in DOMAIN Segments(d) :
              i # j => Segments(d)[i].flows \cap Segments(d)[j].flows = {}
<1>1. PICK n \in Nat : n = Len(session[d].logs)  BY SettledRows
<1>2. /\ DOMAIN Segments(d) = 1..(n + 1)
      /\ \A i \in 1..(n + 1) :
           Segments(d)[i].flows = FlowsBefore(d, i) \ FlowsBefore(d, i - 1)
  BY <1>1, SegmentsOfDay
<1>3. /\ FlowsBefore(d, 0) = {} /\ FlowsBefore(d, n + 1) = DayFlows(d)
      /\ \A i, j \in 0..(n + 1) : i <= j => FlowsBefore(d, i) \subseteq FlowsBefore(d, j)
  BY <1>1, WalkOfDay
<1>4. ASSUME NEW f \in DayFlows(d)
      PROVE  \E i \in 1..(n + 1) : f \in Segments(d)[i].flows
  <2> DEFINE B == {i \in 0..(n + 1) : f \in FlowsBefore(d, i)}
  <2>1. n + 1 \in B  BY <1>3
  <2>2. B \in SUBSET Nat  OBVIOUS
  <2>3. PICK k \in B : \A j \in B : k <= j
    <3> HIDE DEF B
    <3> QED  BY <2>1, <2>2, LeastNumber
  <2>4. k \in 0..(n + 1) /\ f \in FlowsBefore(d, k)  OBVIOUS
  <2>5. k # 0  BY <1>3, <2>4
  <2>6. k \in 1..(n + 1) /\ k - 1 \in 0..(n + 1) /\ ~ (k <= k - 1)  BY <2>4, <2>5
  <2>7. f \notin FlowsBefore(d, k - 1)  BY <2>3, <2>6
  <2> QED  BY <1>2, <2>4, <2>6, <2>7
<1>5. ASSUME NEW i \in 1..(n + 1), NEW f \in Segments(d)[i].flows PROVE f \in DayFlows(d)
  <2>1. i \in 0..(n + 1) /\ n + 1 \in 0..(n + 1) /\ i <= n + 1  OBVIOUS
  <2> QED  BY <1>2, <1>3, <1>5, <2>1
<1>6. ASSUME NEW i \in 1..(n + 1), NEW j \in 1..(n + 1), i < j
      PROVE  Segments(d)[i].flows \cap Segments(d)[j].flows = {}
  <2>1. i \in 0..(n + 1) /\ j - 1 \in 0..(n + 1) /\ i <= j - 1  BY <1>6
  <2>2. FlowsBefore(d, i) \subseteq FlowsBefore(d, j - 1)  BY <1>3, <2>1
  <2> QED  BY <1>2, <2>2
<1>7. UNION {Segments(d)[i].flows : i \in DOMAIN Segments(d)} = DayFlows(d)
  BY <1>2, <1>4, <1>5
<1>8. \A i, j \in DOMAIN Segments(d) :
        i # j => Segments(d)[i].flows \cap Segments(d)[j].flows = {}
  <2>1. \A i, j \in 1..(n + 1) : i # j => i < j \/ j < i  OBVIOUS
  <2> QED  BY <1>2, <1>6, <2>1
<1> QED  BY <1>7, <1>8

\* What a count is off the flows before it; a segment is off by the change.
Drift(d, i) == Count(d, i) - NetCash(FlowsBefore(d, i))

LEMMA VarianceIsDrift ==
  ASSUME CustodyInv, NEW d \in Settled, NEW n, n = Len(session[d].logs)
  PROVE  /\ \A i \in 0..(n + 1) : Drift(d, i) \in Int
         /\ \A i \in 1..(n + 1) :
              Segments(d)[i].variance = Drift(d, i) - Drift(d, i - 1)
         /\ Drift(d, 0) = session[d].opening
         /\ Drift(d, n + 1) = session[d].final - NetCash(DayFlows(d))
         /\ NetCash(DayFlows(d)) \in Int
<1>1. /\ n \in Nat /\ session[d] \in SessionType /\ DOMAIN session[d].logs = 1..n
      /\ session[d].logs \in Seq(LogType)
      /\ session[d].opening \in Int /\ session[d].final \in Int
  BY SettledRows, SessionFields
<1>2. /\ FlowsBefore(d, 0) = {} /\ FlowsBefore(d, n + 1) = DayFlows(d)
      /\ \A i \in 0..(n + 1) : FlowsBefore(d, i) \in Flows
      /\ \A i, j \in 0..(n + 1) : i <= j => FlowsBefore(d, i) \subseteq FlowsBefore(d, j)
  BY WalkOfDay
<1>3. Count(d, 0) = session[d].opening  BY DEF Count
<1>4. Count(d, n + 1) = session[d].final
  <2>1. n + 1 # 0 /\ ~ (n + 1 <= n)  BY <1>1
  <2> QED  BY <2>1 DEF Count
<1>5. \A i \in 1..n : Count(d, i) = session[d].logs[i].amount /\ Count(d, i) \in Int
  <2>1. TAKE i \in 1..n
  <2>2. i # 0 /\ i <= n  BY <1>1
  <2>3. session[d].logs[i].amount \in Int  BY <1>1, LogFields
  <2> QED  BY <2>2, <2>3 DEF Count
<1>6. \A i \in 0..(n + 1) : Count(d, i) \in Int /\ NetCash(FlowsBefore(d, i)) \in Int
  <2>1. TAKE i \in 0..(n + 1)
  <2>2. i = 0 \/ i = n + 1 \/ i \in 1..n  BY <1>1
  <2>3. NetCash(FlowsBefore(d, i)) \in Int  BY <1>2, NetIsSum
  <2> QED  BY <1>1, <1>3, <1>4, <1>5, <2>2, <2>3
<1>7. ASSUME NEW i \in 1..(n + 1)
      PROVE  Segments(d)[i].variance = Drift(d, i) - Drift(d, i - 1)
  <2>1. i \in 0..(n + 1) /\ i - 1 \in 0..(n + 1) /\ i - 1 <= i  BY <1>1
  <2>2. PICK S, T : S = FlowsBefore(d, i) /\ T = FlowsBefore(d, i - 1)  OBVIOUS
  <2>3. S \in Flows /\ T \in SUBSET S  BY <1>2, <2>1, <2>2
  <2>4. NetCash(S) = NetCash(T) + NetCash(S \ T) /\ S \ T \in Flows /\ T \in Flows
    BY <2>3, NetOfParts
  <2>5. NetCash(S) \in Int /\ NetCash(T) \in Int /\ NetCash(S \ T) \in Int
    BY <2>3, <2>4, NetIsSum
  <2>6. Segments(d)[i].variance = Count(d, i) - (Count(d, i - 1) + NetCash(S \ T))
    BY <2>2, SegmentsOfDay
  <2>7. Count(d, i) \in Int /\ Count(d, i - 1) \in Int  BY <1>6, <2>1
  <2>8. \A a, b, x, y, z \in Int :
          x = y + z => a - (b + z) = (a - x) - (b - y)
    OBVIOUS
  <2>9. Count(d, i) - (Count(d, i - 1) + NetCash(S \ T))
          = (Count(d, i) - NetCash(S)) - (Count(d, i - 1) - NetCash(T))
    BY <2>4, <2>5, <2>7, <2>8
  <2> QED  BY <2>2, <2>6, <2>9 DEF Drift
<1>8. \A i \in 0..(n + 1) : Drift(d, i) \in Int  BY <1>6 DEF Drift
<1>9. Drift(d, 0) = session[d].opening
  <2>1. NetCash(FlowsBefore(d, 0)) = 0  BY <1>2, NetOfNone
  <2> QED  BY <1>1, <1>3, <2>1 DEF Drift
<1>10. Drift(d, n + 1) = session[d].final - NetCash(DayFlows(d))
  BY <1>2, <1>4 DEF Drift
<1>11. NetCash(DayFlows(d)) \in Int
  <2>1. n + 1 \in 0..(n + 1)  BY <1>1
  <2> QED  BY <1>2, <1>6, <2>1
<1> QED  BY <1>7, <1>8, <1>9, <1>10, <1>11

\* The segments of a session are off by what the session is off by.
LEMMA SegmentsAddUp ==
  ASSUME CustodyInv, NEW d \in Settled
  PROVE  SumFunction([i \in DOMAIN Segments(d) |-> Segments(d)[i].variance])
           = SessionVariance(d)
         /\ SessionVariance(d) \in Int
<1>1. PICK n, N : n = Len(session[d].logs) /\ N = n + 1  OBVIOUS
<1>2. n \in Nat /\ N \in Nat /\ session[d].opening \in Int /\ session[d].final \in Int
  BY <1>1, SettledRows, SessionFields
<1>3. PICK c : c = [i \in 0..N |-> Drift(d, i)]  OBVIOUS
<1>4. PICK v : v = [i \in DOMAIN Segments(d) |-> Segments(d)[i].variance]  OBVIOUS
<1>5. DOMAIN Segments(d) = 1..N  BY <1>1, SegmentsOfDay
<1>6. DOMAIN v = 1..N /\ \A i \in 1..N : v[i] = Segments(d)[i].variance  BY <1>4, <1>5
<1>7. \A i \in 0..N : c[i] = Drift(d, i) /\ c[i] \in Int  BY <1>1, <1>3, VarianceIsDrift
<1>8. \A i \in 1..N : v[i] = c[i] - c[i - 1]
  <2>1. TAKE i \in 1..N
  <2>2. i \in 0..N /\ i - 1 \in 0..N  BY <1>2
  <2>3. Segments(d)[i].variance = Drift(d, i) - Drift(d, i - 1)
    BY <1>1, VarianceIsDrift
  <2> QED  BY <1>6, <1>7, <2>2, <2>3
<1>9. SumFunctionOnSet(v, 1..N) = c[N] - c[0]  BY <1>2, <1>7, <1>8, SumTelescopes
<1>10. N \in 0..N /\ 0 \in 0..N  BY <1>2
<1>11. /\ c[N] = session[d].final - NetCash(DayFlows(d)) /\ c[0] = session[d].opening
       /\ NetCash(DayFlows(d)) \in Int
  BY <1>1, <1>7, <1>10, VarianceIsDrift
<1>12. SumFunction(v) = SumFunctionOnSet(v, 1..N)  BY <1>6 DEF SumFunction
<1> QED  BY <1>2, <1>4, <1>9, <1>11, <1>12 DEF SessionVariance

\* Exact counts of a day whose cash all moved through its open session blame
\* nobody.
LEMMA NobodyBlamed ==
  ASSUME CustodyInv, MoneyInv, NEW d \in Settled, d \in exact \ astray
  PROVE  \A i \in DOMAIN Segments(d) : Segments(d)[i].variance = 0
<1>1. PICK n, N : n = Len(session[d].logs) /\ N = n + 1  OBVIOUS
<1>2. /\ n \in Nat /\ N \in Nat /\ session[d] \in SessionType /\ Closed(d)
      /\ DOMAIN session[d].logs = 1..n /\ session[d].opening \in Int
      /\ session[d].logs \in Seq(LogType)
  BY <1>1, SettledRows, SessionFields
<1>3. DayBalanced(d)  BY <1>2 DEF MoneyInv
<1>4. \A i \in 0..N : Drift(d, i) = session[d].opening
  <2>1. TAKE i \in 0..N
  <2>2. CASE i = 0
    BY <1>1, <2>2, VarianceIsDrift
  <2>3. CASE i = N
    <3>1. Drift(d, N) = session[d].final - NetCash(DayFlows(d))
          /\ NetCash(DayFlows(d)) \in Int
      BY <1>1, VarianceIsDrift
    <3>2. session[d].final = session[d].opening + NetCash(DayFlows(d))
      BY <1>2, <1>3 DEF DayBalanced
    <3> QED  BY <1>2, <2>3, <3>1, <3>2
  <2>4. CASE i # 0 /\ i # N
    <3>1. i \in 1..n /\ i # 0 /\ i <= n /\ i \in 0..(n + 1)  BY <1>1, <1>2, <2>4
    <3>2. FlowsBefore(d, i) = {f \in DayFlows(d) : f.at < session[d].logs[i].at}
          /\ FlowsBefore(d, i) \in Flows
      BY <1>1, <3>1, WalkOfDay
    <3>3. Count(d, i) = session[d].logs[i].amount  BY <1>1, <3>1 DEF Count
    <3>4. session[d].logs[i].amount = session[d].opening + NetCash(FlowsBefore(d, i))
      BY <1>2, <1>3, <3>1, <3>2 DEF DayBalanced
    <3>5. NetCash(FlowsBefore(d, i)) \in Int  BY <3>2, NetIsSum
    <3> QED  BY <1>2, <3>3, <3>4, <3>5 DEF Drift
  <2> QED  BY <2>2, <2>3, <2>4
<1>5. DOMAIN Segments(d) = 1..N  BY <1>1, SegmentsOfDay
<1>6. ASSUME NEW i \in 1..N PROVE Segments(d)[i].variance = 0
  <2>1. i \in 0..N /\ i - 1 \in 0..N  BY <1>2
  <2>2. Segments(d)[i].variance = Drift(d, i) - Drift(d, i - 1)
    BY <1>1, VarianceIsDrift
  <2> QED  BY <1>2, <1>4, <2>1, <2>2
<1> QED  BY <1>5, <1>6

\* The report totals what the sessions are off by.
LEMMA ReportAddsUp ==
  ASSUME CustodyInv
  PROVE  /\ ReportTotals.totalVariance = SumFunction([d \in Settled |-> SessionVariance(d)])
         /\ ReportTotals.totalVariance = ReportTotals.shortfall + ReportTotals.overage
<1>1. PICK w : w = [d \in Settled |-> SessionVariance(d)]  OBVIOUS
<1>2. Reported = w
  BY <1>1 DEF Reported, SummarizeVariance, GroupedNet, SessionVariance, DayFlows, NetCash
<1>3. IsFiniteSet(Settled)
  <2>1. Settled \subseteq BusinessDays  BY DEF Settled
  <2> QED  BY <2>1, DaysNatural, FS_Subset
<1>4. DOMAIN w = Settled /\ \A d \in Settled : w[d] \in Int  BY <1>1, SegmentsAddUp
<1>5. PICK O, L, G : /\ O = OffDays /\ L = {d \in OffDays : Reported[d] < 0}
                     /\ G = {d \in OffDays : Reported[d] > 0}
  OBVIOUS
<1>6. /\ ReportTotals.totalVariance = SumFunctionOnSet(w, O)
      /\ ReportTotals.shortfall = SumFunctionOnSet(w, L)
      /\ ReportTotals.overage = SumFunctionOnSet(w, G)
  BY <1>2, <1>5 DEF ReportTotals
<1>7. O = {d \in Settled : w[d] # 0}  BY <1>2, <1>5 DEF OffDays
<1>8. O \in SUBSET Settled /\ IsFiniteSet(O)  BY <1>3, <1>7, FS_Subset
<1>9. SumFunctionOnSet(w, Settled) = SumFunctionOnSet(w, O)
  <2>1. \A d \in Settled \ O : w[d] = 0  BY <1>7
  <2> QED  BY <1>3, <1>4, <1>8, <2>1, SumNonZero
<1>10. L \in SUBSET O /\ O \ L = G
  <2>1. L = {d \in O : w[d] < 0} /\ G = {d \in O : w[d] > 0}  BY <1>2, <1>5
  <2>2. \A d \in O : w[d] \in Int /\ w[d] # 0  BY <1>4, <1>7
  <2>3. \A d \in O : d \notin L <=> d \in G  BY <2>1, <2>2
  <2> QED  BY <2>1, <2>3
<1>11. SumFunctionOnSet(w, O) = SumFunctionOnSet(w, L) + SumFunctionOnSet(w, O \ L)
  <2>1. \A d \in O : w[d] \in Int  BY <1>4, <1>8
  <2> QED  BY <1>8, <1>10, <2>1, SumParts
<1>12. SumFunction(w) = SumFunctionOnSet(w, Settled)  BY <1>4 DEF SumFunction
<1> QED  BY <1>1, <1>6, <1>9, <1>10, <1>11, <1>12

\* Segments, sessions and the report agree, whatever the flows and however the
\* counts; and exact counts blame nobody.
THEOREM AccountsAlwaysAgree == Spec => []AccountsAgree
<1>1. CustodyInv /\ MoneyInv => AccountsAgree
  BY LastIsClosing, FlowsInOneSegment, SegmentsAddUp, NobodyBlamed, ReportAddsUp
  DEF AccountsAgree
<1> QED  BY <1>1, MoneyAlways, PTL

-------------------------------------------------------------------------------
(* Sales at the counter *)

OrderRow == [status : {"NONE", "PENDING", "COMPLETED", "CANCELLED", "RETURNED"},
             payment : {"UNPAID", "PAID", "REFUNDED"}, method : Methods,
             pay : Nat, change : Nat, transfer : Transfers \cup {NoTransfer}]
CashRow == [income : Flow, expense : Flow, change : Nat]

SaleRowsOK ==
  /\ order \in [Orders -> OrderRow]
  /\ shelf \in Int
  /\ drawn \in [Orders -> {0, 1}]
  /\ cash \in [Orders -> CashRow]
  /\ invoice \in [Orders -> {"NONE", "PENDING", "ISSUED", "CANCELLED"}]
  /\ adjusted \subseteq Orders
  /\ amount \in [Transfers -> Nat]
  /\ DOMAIN call = Calls

\* The parts of SaleAddsUp that speak of one sale.
BookOK(o) ==
  /\ order[o].status \in {"COMPLETED", "RETURNED"} =>
       /\ Kept(o) = Worth(o)
       /\ cash[o].income.method = order[o].method
  /\ order[o].status \in {"NONE", "PENDING", "CANCELLED"} => cash[o] = NoCash
  /\ cash[o].expense = IF order[o].status # "RETURNED" THEN NoFlow
                       ELSE [amount |-> Due, method |-> order[o].method]
  /\ cash[o].change > 0 => order[o].method = "CASH"
  /\ order[o].transfer # NoTransfer => order[o].method = "SEPAY"

GoodsOK(o) ==
  /\ drawn[o] = 1 <=> order[o].status \in {"PENDING", "COMPLETED"}
  /\ order[o].status \in {"NONE", "PENDING", "CANCELLED"} => invoice[o] = order[o].status
  /\ order[o].status \in {"COMPLETED", "RETURNED"} => invoice[o] = "ISSUED"
  /\ o \in adjusted <=> order[o].status = "RETURNED"

\* A sale waits for a transfer only; a transfer that settled one was made.
WaitsOK(o) ==
  /\ order[o].status \in {"NONE", "PENDING"} =>
       order[o].method = "SEPAY" /\ order[o].transfer = NoTransfer
  /\ order[o].transfer # NoTransfer => amount[order[o].transfer] # 0

SaleOK(o) == BookOK(o) /\ GoodsOK(o) /\ WaitsOK(o)

Out == {o \in Orders : drawn[o] = 1}
ShelfOK == IsFiniteSet(Out) /\ shelf + Cardinality(Out) = OnShelf

\* What is still true of what an open request has read.
OpenOK(x) ==
  /\ x.op \in {"idle", "status", "pay", "hook"}
  /\ x.op = "status" =>
       /\ x.order \in Orders
       /\ x.row \in OrderRow
       /\ x.to \in Transitions(x.row.status)
       /\ x.row.status = "PENDING" =>
            x.row.method = "SEPAY" /\ order[x.order].status # "NONE"
       /\ x.row.status = "COMPLETED" =>
            /\ order[x.order].status \in {"COMPLETED", "RETURNED"}
            /\ x.row.method = order[x.order].method
  /\ x.op = "pay" => /\ x.order \in Orders
                     /\ x.method \in OfflineMethods
                     /\ x.pay \in Nat /\ x.pay >= Due
  /\ x.op = "hook" => /\ x.order \in Orders
                      /\ x.transfer \in Transfers
                      /\ amount[x.transfer] # 0

IndInv == /\ SaleRowsOK
          /\ \A o \in Orders : SaleOK(o)
          /\ ShelfOK
          /\ \A r \in Calls : OpenOK(call[r])

-----------------------------------------------------------------------------
\* The invariant says of every sale what SaleAddsUp does.
LEMMA IndInvSaleAddsUp == IndInv => SaleAddsUp
<1> SUFFICES ASSUME IndInv PROVE SaleAddsUp  OBVIOUS
<1>1. \A o \in Orders : BookOK(o) /\ GoodsOK(o)  BY DEF IndInv, SaleOK
<1>2. BookFollowsSale  BY <1>1 DEF BookFollowsSale, BookOK
<1>3. GoodsAndBillFollowSale
  <2>1. \A o \in Orders : order[o].status \in
          {"NONE", "PENDING", "COMPLETED", "CANCELLED", "RETURNED"}
    BY DEF IndInv, SaleRowsOK, OrderRow
  <2>2. shelf + Cardinality({o \in Orders : drawn[o] = 1}) = OnShelf
    BY DEF IndInv, ShelfOK, Out
  <2>3. ASSUME NEW o \in Orders
        PROVE  invoice[o] = CASE order[o].status = "NONE" -> "NONE"
                              [] order[o].status = "PENDING" -> "PENDING"
                              [] order[o].status = "CANCELLED" -> "CANCELLED"
                              [] OTHER -> "ISSUED"
    <3>1. CASE order[o].status = "NONE"  BY <3>1, <1>1 DEF GoodsOK
    <3>2. CASE order[o].status = "PENDING"  BY <3>2, <1>1 DEF GoodsOK
    <3>3. CASE order[o].status = "CANCELLED"  BY <3>3, <1>1 DEF GoodsOK
    <3>4. CASE order[o].status \in {"COMPLETED", "RETURNED"}
      BY <3>4, <1>1 DEF GoodsOK
    <3> QED  BY <2>1, <3>1, <3>2, <3>3, <3>4
  <2> QED  BY <1>1, <2>2, <2>3, Zenon DEF GoodsAndBillFollowSale, GoodsOK
<1> QED  BY <1>2, <1>3 DEF SaleAddsUp

LEMMA InitIndInv == SaleInit => IndInv
<1> SUFFICES ASSUME SaleInit PROVE IndInv  OBVIOUS
<1> USE CounterAssumption
<1>1. Unsold \in OrderRow /\ NoCash \in CashRow
  BY DEF Unsold, OrderRow, NoCash, NoFlow, CashRow, Flow, Methods, OfflineMethods
<1>2. SaleRowsOK  BY <1>1 DEF SaleInit, SaleRowsOK
<1>3. \A o \in Orders : SaleOK(o)
  BY DEF SaleInit, SaleOK, BookOK, GoodsOK, WaitsOK, Unsold, NoCash, NoFlow
<1>4. ShelfOK
  <2>1. Out = {}  BY DEF SaleInit, Out
  <2> QED  BY <2>1, FS_EmptySet DEF ShelfOK, SaleInit
<1>5. \A r \in Calls : OpenOK(call[r])
  BY DEF SaleInit, OpenOK, NoCall
<1> QED  BY <1>2, <1>3, <1>4, <1>5 DEF IndInv

\* How far the row of a sale may go in one step: what open requests have read
\* of it remains true.
RowMoves(old, new) ==
  \/ new = old
  \/ new.status # "NONE" /\ old.status \in {"NONE", "PENDING"}
  \/ /\ old.status = "COMPLETED" /\ new.status = "RETURNED"
     /\ new.method = old.method

\* A step that closes requests and writes one sale.
LEMMA SaleStep ==
  ASSUME IndInv, NEW o \in Orders,
         SaleRowsOK', ShelfOK', SaleOK(o)',
         \A p \in Orders \ {o} :
           /\ order'[p] = order[p] /\ cash'[p] = cash[p] /\ drawn'[p] = drawn[p]
           /\ invoice'[p] = invoice[p] /\ (p \in adjusted' <=> p \in adjusted),
         RowMoves(order[o], order'[o]),
         amount' = amount,
         \A r \in Calls : call'[r] = call[r] \/ call'[r] = NoCall
  PROVE  IndInv'
<1>1. \A p \in Orders \ {o} : SaleOK(p)'
  BY DEF IndInv, SaleOK, BookOK, GoodsOK, WaitsOK, Kept, Worth
<1>2. \A r \in Calls : OpenOK(call[r])'
  <2> TAKE r \in Calls
  <2>1. CASE call'[r] = NoCall  BY <2>1 DEF OpenOK, NoCall
  <2>2. CASE call'[r] = call[r]
    <3>1. OpenOK(call[r])  BY DEF IndInv
    <3> DEFINE x == call[r]
    <3>2. x.op = "status" => OpenOK(x)'
      <4> SUFFICES ASSUME x.op = "status" PROVE OpenOK(call[r])'  BY <2>2
      <4>1. CASE x.order = o
        BY <4>1, <3>1, <2>2 DEF OpenOK, RowMoves
      <4>2. CASE x.order # o
        BY <4>2, <3>1, <2>2 DEF OpenOK
      <4> QED  BY <4>1, <4>2
    <3>3. x.op # "status" => OpenOK(x)'
      BY <3>1, <2>2 DEF OpenOK
    <3> QED  BY <3>2, <3>3, <2>2
  <2> QED  BY <2>1, <2>2
<1>3. SaleOK(o)'  OBVIOUS
<1> QED  BY <1>1, <1>2, <1>3 DEF IndInv

-----------------------------------------------------------------------------
\* What the rows written for a settled sale add up to.
LEMMA SaleCashAddsUp ==
  ASSUME cash \in [Orders -> CashRow], NEW o \in Orders, NEW m \in Methods,
         NEW row, row.pay \in Nat, row.change \in Nat,
         m = "CASH" => row.change = ChangeOf(row.pay),
         cash[o] = NoCash, SaleCashFlows(o, row, m)
  PROVE  /\ cash' \in [Orders -> CashRow]
         /\ \A p \in Orders \ {o} : cash'[p] = cash[p]
         /\ cash'[o].income.amount - cash'[o].change = Due
         /\ cash'[o].income.method = m
         /\ cash'[o].expense = NoFlow
         /\ cash'[o].change > 0 => m = "CASH"
<1> USE CounterAssumption
<1> DEFINE book == SaleBook(cash[o], row, m)
<1>0. /\ cash[o].income.amount = 0 /\ cash[o].change = 0
      /\ cash[o].expense = NoFlow
  BY DEF NoCash, NoFlow
<1>1. cash' = [cash EXCEPT ![o] = book]
  BY DEF SaleCashFlows
<1>2. book = IF GivesChange(row, m)
             THEN [income |-> [amount |-> row.pay, method |-> m], expense |-> NoFlow,
                   change |-> row.change]
             ELSE [income |-> [amount |-> Due, method |-> m], expense |-> NoFlow,
                   change |-> 0]
  BY <1>0 DEF SaleBook, Booked
<1> HIDE DEF book
<1>3. GivesChange(row, m) => row.pay - row.change = Due /\ m = "CASH"
  BY DEF GivesChange, ChangeOf
<1>4. /\ book \in CashRow
      /\ book.income.amount - book.change = Due
      /\ book.income.method = m
      /\ book.expense = NoFlow
      /\ book.change > 0 => m = "CASH"
  <2>1. CASE GivesChange(row, m)
    BY <2>1, <1>2, <1>3 DEF CashRow, Flow, NoFlow, Methods, OfflineMethods
  <2>2. CASE ~GivesChange(row, m)
    BY <2>2, <1>2 DEF CashRow, Flow, NoFlow, Methods, OfflineMethods
  <2> QED  BY <2>1, <2>2
<1> QED  BY <1>1, <1>4

\* Units leave the branch and come back one by one.
LEMMA UnitLeaves ==
  ASSUME SaleRowsOK, ShelfOK, NEW o \in Orders, drawn[o] = 0,
         shelf' = shelf - 1, drawn' = [drawn EXCEPT ![o] = 1]
  PROVE  ShelfOK'
<1>1. Out' = Out \cup {o} /\ o \notin Out
  BY DEF Out, SaleRowsOK
<1>2. IsFiniteSet(Out) /\ Cardinality(Out) \in Nat
  BY FS_CardinalityType DEF ShelfOK
<1>3. IsFiniteSet(Out') /\ Cardinality(Out') = Cardinality(Out) + 1
  BY <1>1, <1>2, FS_AddElement
<1> QED  BY <1>2, <1>3 DEF ShelfOK, SaleRowsOK

LEMMA UnitComesBack ==
  ASSUME SaleRowsOK, ShelfOK, NEW o \in Orders, drawn[o] = 1, BringBack(o)
  PROVE  ShelfOK' /\ drawn'[o] = 0
<1>1. Out' = Out \ {o} /\ o \in Out /\ drawn'[o] = 0
  BY DEF Out, SaleRowsOK, BringBack
<1>2. IsFiniteSet(Out) /\ Cardinality(Out) \in Nat
  BY FS_CardinalityType DEF ShelfOK
<1>3. IsFiniteSet(Out') /\ Cardinality(Out') = Cardinality(Out) - 1
  BY <1>1, <1>2, FS_RemoveElement
<1>4. shelf' = shelf + 1
  BY DEF BringBack, SaleRowsOK
<1> QED  BY <1>1, <1>2, <1>3, <1>4 DEF ShelfOK, SaleRowsOK

-----------------------------------------------------------------------------
LEMMA CreateSaleStep ==
  ASSUME IndInv, NEW o \in Orders, NEW m \in Methods, NEW pay \in Tenders,
         CreateSale(o, m, pay)
  PROVE  IndInv'
<1> USE CounterAssumption DEF sale, bank
<1> DEFINE row == [status |-> StatusWhenMade(m),
                   payment |-> IF m \in OfflineMethods THEN "PAID" ELSE "UNPAID",
                   method |-> m, pay |-> pay, change |-> ChangeOf(pay),
                   transfer |-> NoTransfer]
<1>1. /\ order[o] = Unsold /\ order' = [order EXCEPT ![o] = row]
      /\ shelf' = shelf - 1 /\ drawn' = [drawn EXCEPT ![o] = 1]
      /\ invoice' = [invoice EXCEPT
                       ![o] = IF m \in OfflineMethods THEN "ISSUED" ELSE "PENDING"]
      /\ m \in OfflineMethods => SaleCashFlows(o, row, m)
      /\ m \notin OfflineMethods => cash' = cash
      /\ UNCHANGED <<adjusted, call, amount>>
  BY DEF CreateSale
<1>2. /\ SaleRowsOK /\ SaleOK(o) /\ ShelfOK
  BY DEF IndInv
<1>3. order[o].status = "NONE" /\ cash[o] = NoCash /\ drawn[o] = 0
  BY <1>1, <1>2 DEF Unsold, SaleOK, BookOK, GoodsOK, SaleRowsOK
<1>4. /\ row \in OrderRow
      /\ row.method = m /\ row.transfer = NoTransfer /\ row.pay = pay
      /\ row.change = ChangeOf(pay)
      /\ row.status = IF m \in OfflineMethods THEN "COMPLETED" ELSE "PENDING"
  BY DEF OrderRow, StatusWhenMade, ChangeOf, Methods
<1> HIDE DEF row
<1>5. /\ cash' \in [Orders -> CashRow]
      /\ \A p \in Orders \ {o} : cash'[p] = cash[p]
      /\ cash'[o].expense = NoFlow
      /\ cash'[o].change > 0 => m = "CASH"
      /\ m \in OfflineMethods => /\ cash'[o].income.amount - cash'[o].change = Due
                                 /\ cash'[o].income.method = m
      /\ m \notin OfflineMethods => cash'[o] = NoCash
  <2>1. CASE m \in OfflineMethods
    <3>1. row.pay \in Nat /\ row.change \in Nat  BY <1>4 DEF OrderRow
    <3>2. cash \in [Orders -> CashRow]  BY <1>2 DEF SaleRowsOK
    <3> QED  BY <2>1, <1>1, <1>3, <1>4, <3>1, <3>2, SaleCashAddsUp
  <2>2. CASE m \notin OfflineMethods
    BY <2>2, <1>1, <1>2, <1>3 DEF SaleRowsOK, NoCash
  <2> QED  BY <2>1, <2>2
<1>6. SaleRowsOK'
  BY <1>1, <1>2, <1>4, <1>5 DEF SaleRowsOK
<1>7. ShelfOK'
  BY <1>1, <1>2, <1>3, UnitLeaves
<1>8. /\ order'[o] = row /\ drawn'[o] = 1
      /\ invoice'[o] = IF m \in OfflineMethods THEN "ISSUED" ELSE "PENDING"
      /\ \A p \in Orders \ {o} :
           order'[p] = order[p] /\ drawn'[p] = drawn[p] /\ invoice'[p] = invoice[p]
  BY <1>1, <1>2 DEF SaleRowsOK
<1>9. SaleOK(o)'
  <2>1. Methods = OfflineMethods \cup {"SEPAY"} /\ "SEPAY" \notin OfflineMethods
    BY DEF Methods, OfflineMethods
  <2>2. o \notin adjusted'  BY <1>1, <1>2, <1>3 DEF SaleOK, GoodsOK
  <2>3. BookOK(o)'
    BY <1>4, <1>5, <1>8, <2>1 DEF BookOK, Kept, Worth
  <2>4. GoodsOK(o)'
    BY <1>4, <1>8, <2>2 DEF GoodsOK
  <2>5. WaitsOK(o)'
    BY <1>4, <1>8, <2>1 DEF WaitsOK
  <2> QED  BY <2>3, <2>4, <2>5 DEF SaleOK
<1>10. RowMoves(order[o], order'[o])
  BY <1>3, <1>4, <1>8 DEF RowMoves
<1> QED  BY <1>1, <1>5, <1>6, <1>7, <1>8, <1>9, <1>10, SaleStep

\* The targets of a transition, as the table gives them.
LEMMA TransitionsTable ==
  ASSUME NEW s, NEW to \in Transitions(s)
  PROVE  \/ s = "PENDING" /\ to \in {"COMPLETED", "CANCELLED"}
         \/ s = "COMPLETED" /\ to = "RETURNED"
<1>1. CASE s = "PENDING"  BY <1>1, Zenon DEF Transitions
<1>2. CASE s = "COMPLETED"  BY <1>2, Zenon DEF Transitions
<1>3. CASE s # "PENDING" /\ s # "COMPLETED"
  <2>1. Transitions(s) = {}  BY <1>3, Zenon DEF Transitions
  <2> QED  BY <2>1
<1> QED  BY <1>1, <1>2, <1>3

-----------------------------------------------------------------------------
\* A step that writes no sale, and makes or delivers transfers: no request it
\* leaves open is about anything new, except the one it opens.
LEMMA QuietStep ==
  ASSUME IndInv, UNCHANGED sale,
         \A t \in Transfers : amount[t] # 0 => amount'[t] = amount[t],
         amount' \in [Transfers -> Nat], DOMAIN call' = Calls,
         \A r \in Calls : call'[r] = call[r] \/ OpenOK(call'[r])
  PROVE  IndInv'
<1> USE DEF sale
<1>1. SaleRowsOK'  BY DEF IndInv, SaleRowsOK
<1>2. \A o \in Orders : SaleOK(o)'
  <2> TAKE o \in Orders
  <2>1. SaleOK(o) /\ (order[o].transfer \in Transfers \cup {NoTransfer})
    BY DEF IndInv, SaleRowsOK, OrderRow
  <2> QED  BY <2>1 DEF SaleOK, BookOK, GoodsOK, WaitsOK, Kept, Worth
<1>3. ShelfOK'  BY DEF IndInv, ShelfOK, Out
<1>4. \A r \in Calls : OpenOK(call[r])'
  <2> TAKE r \in Calls
  <2>1. OpenOK(call'[r])  BY DEF IndInv
  <2> QED  BY <2>1 DEF OpenOK
<1> QED  BY <1>1, <1>2, <1>3, <1>4 DEF IndInv

\* A request is opened with what is true of it now.
LEMMA BeginStep ==
  ASSUME IndInv, UNCHANGED <<sale, amount>>, NEW r \in Calls, NEW x,
         OpenOK(x), BeginCall(r, x)
  PROVE  IndInv'
<1>1. /\ DOMAIN call' = Calls
      /\ \A q \in Calls : call'[q] = call[q] \/ call'[q] = x
  BY DEF BeginCall, IndInv, SaleRowsOK
<1>2. amount' \in [Transfers -> Nat]  BY DEF IndInv, SaleRowsOK
<1> QED  BY <1>1, <1>2, QuietStep

LEMMA NoCallOK == OpenOK(NoCall)
BY DEF OpenOK, NoCall

LEMMA DoneCloses ==
  ASSUME IndInv, NEW r \in Calls, EndCall(r)
  PROVE  /\ DOMAIN call' = Calls
         /\ \A q \in Calls : call'[q] = call[q] \/ call'[q] = NoCall
BY DEF EndCall, IndInv, SaleRowsOK

LEMMA StatusReadStep ==
  ASSUME IndInv, NEW r \in Calls, NEW o \in Orders, NEW to, StatusRead(r, o, to)
  PROVE  IndInv'
<1> DEFINE x == [op |-> "status", order |-> o, row |-> order[o], to |-> to]
<1>1. to \in Transitions(order[o].status) /\ BeginCall(r, x) /\ UNCHANGED <<sale, amount>>
  BY DEF StatusRead, bank
<1>2. order[o] \in OrderRow /\ SaleOK(o)  BY DEF IndInv, SaleRowsOK
<1>3. OpenOK(x)
  BY <1>1, <1>2 DEF OpenOK, SaleOK, WaitsOK
<1> HIDE DEF x
<1> QED  BY <1>1, <1>3, BeginStep

LEMMA PayReadStep ==
  ASSUME IndInv, NEW r \in Calls, NEW o \in Orders, NEW m \in OfflineMethods,
         NEW pay \in Tenders, PayRead(r, o, m, pay)
  PROVE  IndInv'
<1> USE CounterAssumption
<1> DEFINE x == [op |-> "pay", order |-> o, method |-> m,
                 pay |-> IF pay = 0 THEN Due ELSE pay]
<1>1. BeginCall(r, x) /\ Enough(pay) /\ UNCHANGED <<sale, amount>>
  BY DEF PayRead, bank
<1>2. OpenOK(x)
  BY <1>1 DEF OpenOK, Enough
<1> HIDE DEF x
<1> QED  BY <1>1, <1>2, BeginStep

LEMMA HookReadStep ==
  ASSUME IndInv, NEW r \in Calls, NEW t \in Transfers, HookRead(r, t)
  PROVE  IndInv'
<1> USE CounterAssumption
<1> DEFINE x == [op |-> "hook", order |-> For[t], transfer |-> t]
<1>1. BeginCall(r, x) /\ amount[t] >= Due /\ UNCHANGED <<sale, amount>>
  BY DEF HookRead
<1>2. OpenOK(x)
  BY <1>1 DEF OpenOK
<1> HIDE DEF x
<1> QED  BY <1>1, <1>2, BeginStep

-----------------------------------------------------------------------------
\* Goods that come back, for a sale that is cancelled or returned.
LEMMA GoodsBack ==
  ASSUME SaleRowsOK, NEW o \in Orders, BringBack(o)
  PROVE  /\ drawn' \in [Orders -> {0, 1}] /\ shelf' \in Int
         /\ \A p \in Orders \ {o} : drawn'[p] = drawn[p]
BY DEF SaleRowsOK, BringBack

LEMMA StatusCommitStep ==
  ASSUME IndInv, NEW r \in Calls, StatusCommit(r)
  PROVE  IndInv'
<1> USE CounterAssumption DEF sale, bank
<1>0. PICK x : x = call[r]  OBVIOUS
<1> DEFINE o == x.order
           new == [order[o] EXCEPT !.status = x.to, !.payment = Paid(x.to, @)]
<1>1. /\ x.op = "status" /\ StatusClaim(x) /\ EndCall(r) /\ amount' = amount
      /\ order' = [order EXCEPT ![o].status = x.to, ![o].payment = Paid(x.to, @)]
      /\ \/ x.to = "COMPLETED" /\ Complete(o, x.row)
         \/ x.to = "CANCELLED" /\ Cancel(o)
         \/ x.to = "RETURNED" /\ Return(o, x.row)
  BY <1>0 DEF StatusCommit
<1>2. OpenOK(x) /\ o \in Orders
  BY <1>0, <1>1 DEF IndInv, OpenOK
<1>3. /\ x.row \in OrderRow /\ x.row.status = order[o].status
      /\ x.to \in Transitions(x.row.status)
      /\ x.row.status = "PENDING" => x.row.method = "SEPAY"
      /\ x.row.status = "COMPLETED" => x.row.method = order[o].method
  BY <1>1, <1>2 DEF OpenOK, StatusClaim
<1>4. SaleRowsOK /\ SaleOK(o) /\ ShelfOK /\ order[o] \in OrderRow
  BY <1>2 DEF IndInv, SaleRowsOK
<1>5. \/ x.row.status = "PENDING" /\ x.to \in {"COMPLETED", "CANCELLED"}
      \/ x.row.status = "COMPLETED" /\ x.to = "RETURNED"
  BY <1>3, TransitionsTable
<1>6. /\ order' \in [Orders -> OrderRow]
      /\ order'[o].status = x.to /\ order'[o].method = order[o].method
      /\ order'[o].transfer = order[o].transfer
      /\ \A p \in Orders \ {o} : order'[p] = order[p]
  <2>1. Paid(x.to, order[o].payment) \in {"UNPAID", "PAID", "REFUNDED"}
    <3>1. order[o].payment \in {"UNPAID", "PAID", "REFUNDED"}  BY <1>4 DEF OrderRow
    <3>2. CASE x.to = "COMPLETED"  BY <3>2, Zenon DEF Paid
    <3>3. CASE x.to = "RETURNED"  BY <3>3, Zenon DEF Paid
    <3>4. CASE x.to = "CANCELLED"
      <4>1. Paid(x.to, order[o].payment) = order[o].payment  BY <3>4, Zenon DEF Paid
      <4> QED  BY <4>1, <3>1
    <3> QED  BY <1>5, <3>2, <3>3, <3>4
  <2>2. x.to \in {"NONE", "PENDING", "COMPLETED", "CANCELLED", "RETURNED"}  BY <1>5
  <2>3. order' = [order EXCEPT ![o] = new]
    BY <1>1, <1>2, <1>4 DEF SaleRowsOK
  <2>4. new \in OrderRow /\ new.status = x.to /\ new.method = order[o].method
        /\ new.transfer = order[o].transfer
    BY <2>1, <2>2, <1>4 DEF OrderRow
  <2> HIDE DEF new
  <2> QED  BY <1>2, <1>4, <2>3, <2>4 DEF SaleRowsOK
<1>7. RowMoves(order[o], order'[o])
  BY <1>3, <1>5, <1>6 DEF RowMoves
<1>8. /\ \A q \in Calls : call'[q] = call[q] \/ call'[q] = NoCall
      /\ DOMAIN call' = Calls
  BY <1>1, DoneCloses
<1> HIDE DEF o, new
<1>9. CASE x.to = "COMPLETED"
  <2>1. /\ SaleCashFlows(o, x.row, x.row.method) /\ IssueInvoice(o)
        /\ UNCHANGED <<shelf, drawn, adjusted>> /\ x.row.method = "SEPAY"
        /\ order[o].status = "PENDING"
    BY <1>9, <1>1, <1>3, <1>5 DEF Complete
  <2>2. /\ cash[o] = NoCash /\ x.row.pay \in Nat /\ x.row.change \in Nat
        /\ x.row.method \in Methods /\ cash \in [Orders -> CashRow]
    BY <2>1, <1>3, <1>4 DEF SaleOK, BookOK, OrderRow, SaleRowsOK
  <2>3. /\ cash' \in [Orders -> CashRow]
        /\ \A p \in Orders \ {o} : cash'[p] = cash[p]
        /\ cash'[o].income.amount - cash'[o].change = Due
        /\ cash'[o].income.method = "SEPAY"
        /\ cash'[o].expense = NoFlow
        /\ ~(cash'[o].change > 0)
    BY <2>1, <2>2, <1>2, SaleCashAddsUp
  <2>4. SaleRowsOK' /\ invoice'[o] = "ISSUED" /\ \A p \in Orders \ {o} : invoice'[p] = invoice[p]
    BY <2>1, <2>3, <1>2, <1>4, <1>6, <1>1, <1>8 DEF SaleRowsOK, IssueInvoice
  <2>5. SaleOK(o)'
    <3>1. order[o].method = "SEPAY" /\ order[o].transfer = NoTransfer
      BY <2>1, <1>4 DEF SaleOK, WaitsOK
    <3>2. BookOK(o)'
      BY <2>3, <3>1, <1>6, <1>9 DEF BookOK, Kept, Worth
    <3>3. GoodsOK(o)'
      BY <2>1, <2>4, <1>4, <1>6, <1>9 DEF SaleOK, GoodsOK
    <3>4. WaitsOK(o)'
      BY <3>1, <1>6, <1>9 DEF WaitsOK
    <3> QED  BY <3>2, <3>3, <3>4 DEF SaleOK
  <2>6. ShelfOK'  BY <2>1, <1>4 DEF ShelfOK, Out
  <2> QED  BY <2>1, <2>3, <2>4, <2>5, <2>6, <1>1, <1>2, <1>6, <1>7, <1>8, SaleStep
<1>10. CASE x.to = "CANCELLED"
  <2>1. /\ BringBack(o) /\ VoidInvoice(o) /\ UNCHANGED <<cash, adjusted>>
        /\ order[o].status = "PENDING"
    BY <1>10, <1>1, <1>3, <1>5 DEF Cancel
  <2>2. drawn[o] = 1 /\ invoice[o] = "PENDING" /\ cash[o] = NoCash /\ o \notin adjusted
    BY <2>1, <1>4 DEF SaleOK, BookOK, GoodsOK
  <2>3. ShelfOK' /\ drawn'[o] = 0
    BY <2>1, <2>2, <1>2, <1>4, UnitComesBack
  <2>4. /\ drawn' \in [Orders -> {0, 1}] /\ shelf' \in Int
        /\ \A p \in Orders \ {o} : drawn'[p] = drawn[p]
    BY <2>1, <1>2, <1>4, GoodsBack
  <2>5. /\ SaleRowsOK' /\ invoice'[o] = "CANCELLED"
        /\ \A p \in Orders \ {o} : invoice'[p] = invoice[p]
    BY <2>1, <2>2, <2>4, <1>1, <1>2, <1>4, <1>6, <1>8 DEF SaleRowsOK, VoidInvoice
  <2>6. SaleOK(o)'
    <3>1. order[o].method = "SEPAY" /\ order[o].transfer = NoTransfer
      BY <2>1, <1>4 DEF SaleOK, WaitsOK
    <3>2. BookOK(o)'
      BY <2>1, <2>2, <3>1, <1>6, <1>10 DEF BookOK, NoCash, NoFlow
    <3>3. GoodsOK(o)'
      BY <2>1, <2>2, <2>3, <2>5, <1>6, <1>10 DEF GoodsOK
    <3>4. WaitsOK(o)'
      BY <3>1, <1>6, <1>10 DEF WaitsOK
    <3> QED  BY <3>2, <3>3, <3>4 DEF SaleOK
  <2> QED  BY <2>1, <2>3, <2>4, <2>5, <2>6, <1>1, <1>2, <1>6, <1>7, <1>8, SaleStep
<1>11. CASE x.to = "RETURNED"
  <2>1. /\ BringBack(o) /\ AdjustInvoice(o) /\ UNCHANGED invoice
        /\ cash' = [cash EXCEPT ![o].expense = Booked(@, Due, x.row.method)]
        /\ order[o].status = "COMPLETED" /\ x.row.method = order[o].method
    BY <1>11, <1>1, <1>3, <1>5 DEF Return
  <2>2. /\ drawn[o] = 1 /\ invoice[o] = "ISSUED" /\ cash[o].expense = NoFlow
        /\ Kept(o) = Worth(o) /\ cash[o].income.method = order[o].method
        /\ cash[o] \in CashRow /\ order[o].method \in Methods
    BY <2>1, <1>2, <1>4 DEF SaleOK, BookOK, GoodsOK, SaleRowsOK, OrderRow
  <2>3. ShelfOK' /\ drawn'[o] = 0
    BY <2>1, <2>2, <1>2, <1>4, UnitComesBack
  <2>4. /\ drawn' \in [Orders -> {0, 1}] /\ shelf' \in Int
        /\ \A p \in Orders \ {o} : drawn'[p] = drawn[p]
    BY <2>1, <1>2, <1>4, GoodsBack
  <2>5. /\ cash' \in [Orders -> CashRow]
        /\ cash'[o].income = cash[o].income /\ cash'[o].change = cash[o].change
        /\ cash'[o].expense = [amount |-> Due, method |-> order[o].method]
        /\ \A p \in Orders \ {o} : cash'[p] = cash[p]
    <3>1. Booked(cash[o].expense, Due, x.row.method) = [amount |-> Due, method |-> order[o].method]
      BY <2>1, <2>2 DEF Booked, NoFlow
    <3> DEFINE f == Booked(cash[o].expense, Due, x.row.method)
    <3>2. cash' = [cash EXCEPT ![o].expense = f]  BY <2>1
    <3>3. f \in Flow  BY <3>1, <2>2 DEF Flow
    <3> HIDE DEF f
    <3> QED  BY <3>1, <3>2, <3>3, <1>2, <1>4 DEF SaleRowsOK, CashRow, f
  <2>6. adjusted' = adjusted \cup {o}
    BY <2>1, <2>2 DEF AdjustInvoice
  <2>7. SaleRowsOK'
    BY <2>1, <2>4, <2>5, <2>6, <1>1, <1>2, <1>4, <1>6, <1>8 DEF SaleRowsOK
  <2>8. SaleOK(o)'
    <3>1. BookOK(o)'
      <4>1. Kept(o)' = Worth(o)'
        BY <2>2, <2>5, <1>1, <1>6 DEF Kept, Worth
      <4>2. (cash[o].change > 0 => order[o].method = "CASH")
            /\ (order[o].transfer # NoTransfer => order[o].method = "SEPAY")
        BY <1>4 DEF SaleOK, BookOK
      <4> QED  BY <4>1, <4>2, <2>2, <2>5, <1>6, <1>11 DEF BookOK
    <3>2. GoodsOK(o)'
      BY <2>1, <2>2, <2>3, <2>6, <1>6, <1>11 DEF GoodsOK
    <3>3. WaitsOK(o)'
      BY <1>1, <1>4, <1>6, <1>11 DEF SaleOK, WaitsOK
    <3> QED  BY <3>1, <3>2, <3>3 DEF SaleOK
  <2> QED  BY <2>1, <2>3, <2>4, <2>5, <2>6, <2>7, <2>8, <1>1, <1>2, <1>6, <1>7, <1>8, SaleStep
<1> QED  BY <1>5, <1>9, <1>10, <1>11

LEMMA PayCommitStep ==
  ASSUME IndInv, NEW r \in Calls, PayCommit(r)
  PROVE  IndInv'
<1> USE CounterAssumption DEF sale, bank
<1>0. PICK x : x = call[r]  OBVIOUS
<1>1. PICK row : row = PaidRow(x)  OBVIOUS
<1> DEFINE o == x.order
<1>2. /\ x.op = "pay" /\ order[o].status = "PENDING" /\ EndCall(r)
      /\ order' = [order EXCEPT ![o] = row]
      /\ SaleCashFlows(o, row, x.method) /\ IssueInvoice(o)
      /\ UNCHANGED <<shelf, drawn, adjusted, amount>>
  BY <1>0, <1>1 DEF PayCommit, PayClaim
<1>3. o \in Orders /\ x.method \in OfflineMethods /\ x.pay \in Nat
  BY <1>0, <1>2 DEF IndInv, OpenOK
<1>4. SaleRowsOK /\ SaleOK(o) /\ ShelfOK /\ order[o] \in OrderRow
  BY <1>3 DEF IndInv, SaleRowsOK
<1> HIDE DEF o
<1>5. /\ row \in OrderRow /\ row.status = "COMPLETED" /\ row.method = x.method
      /\ row.pay = x.pay /\ row.change = ChangeOf(x.pay) /\ row.transfer = NoTransfer
  <2>1. ChangeOf(x.pay) \in Nat /\ x.method \in Methods
    BY <1>3 DEF ChangeOf, Methods
  <2>2. order[o].transfer = NoTransfer  BY <1>2, <1>4 DEF SaleOK, WaitsOK
  <2> QED  BY <1>1, <1>3, <1>4, <2>1, <2>2 DEF PaidRow, OrderRow, o
<1>6. /\ order' \in [Orders -> OrderRow] /\ order'[o] = row
      /\ \A p \in Orders \ {o} : order'[p] = order[p]
  BY <1>2, <1>3, <1>4, <1>5 DEF SaleRowsOK
<1>7. /\ \A q \in Calls : call'[q] = call[q] \/ call'[q] = NoCall
      /\ DOMAIN call' = Calls
  BY <1>2, DoneCloses
<1>8. /\ cash' \in [Orders -> CashRow]
      /\ \A p \in Orders \ {o} : cash'[p] = cash[p]
      /\ cash'[o].income.amount - cash'[o].change = Due
      /\ cash'[o].income.method = x.method
      /\ cash'[o].expense = NoFlow
      /\ cash'[o].change > 0 => x.method = "CASH"
  <2>1. cash[o] = NoCash /\ cash \in [Orders -> CashRow]
    BY <1>2, <1>4 DEF SaleOK, BookOK, SaleRowsOK
  <2>2. x.method \in Methods /\ row.pay \in Nat /\ row.change \in Nat
    BY <1>3, <1>5 DEF Methods, OrderRow
  <2> QED  BY <2>1, <2>2, <1>2, <1>3, <1>5, SaleCashAddsUp
<1>9. SaleRowsOK' /\ invoice'[o] = "ISSUED" /\ \A p \in Orders \ {o} : invoice'[p] = invoice[p]
  BY <1>2, <1>3, <1>4, <1>6, <1>7, <1>8 DEF SaleRowsOK, IssueInvoice
<1>10. SaleOK(o)'
  <2>1. BookOK(o)'  BY <1>5, <1>6, <1>8 DEF BookOK, Kept, Worth
  <2>2. GoodsOK(o)'  BY <1>2, <1>4, <1>5, <1>6, <1>9 DEF SaleOK, GoodsOK
  <2>3. WaitsOK(o)'  BY <1>5, <1>6 DEF WaitsOK
  <2> QED  BY <2>1, <2>2, <2>3 DEF SaleOK
<1>11. ShelfOK'  BY <1>2, <1>4 DEF ShelfOK, Out
<1>12. RowMoves(order[o], order'[o])  BY <1>2, <1>5, <1>6 DEF RowMoves
<1> QED  BY <1>2, <1>3, <1>6, <1>7, <1>8, <1>9, <1>10, <1>11, <1>12, SaleStep

LEMMA HookCommitStep ==
  ASSUME IndInv, NEW r \in Calls, HookCommit(r)
  PROVE  IndInv'
<1> USE CounterAssumption DEF sale, bank
<1>0. PICK x : x = call[r]  OBVIOUS
<1> DEFINE o == x.order
           t == x.transfer
           row == [order[o] EXCEPT !.status = "COMPLETED", !.payment = "PAID", !.transfer = t]
           flow == Booked(cash[o].income, amount[t], "SEPAY")
<1>1. /\ x.op = "hook" /\ order[o].status = "PENDING" /\ EndCall(r)
      /\ order' = [order EXCEPT ![o].status = "COMPLETED", ![o].payment = "PAID",
                                ![o].transfer = t]
      /\ cash' = [cash EXCEPT ![o].income = flow]
      /\ IssueInvoice(o) /\ UNCHANGED <<shelf, drawn, adjusted, amount>>
  BY <1>0 DEF HookCommit, HookClaim
<1>2. o \in Orders /\ t \in Transfers /\ amount[t] # 0
  BY <1>0, <1>1 DEF IndInv, OpenOK
<1>3. SaleRowsOK /\ SaleOK(o) /\ ShelfOK /\ order[o] \in OrderRow /\ cash[o] = NoCash
  BY <1>1, <1>2 DEF IndInv, SaleRowsOK, SaleOK, BookOK
<1>4. order[o].method = "SEPAY"  BY <1>1, <1>3 DEF SaleOK, WaitsOK
<1>5. flow = [amount |-> amount[t], method |-> "SEPAY"] /\ flow \in Flow
  BY <1>2, <1>3 DEF Booked, NoCash, NoFlow, SaleRowsOK, Flow, Methods
<1>6. row \in OrderRow /\ row.status = "COMPLETED" /\ row.method = "SEPAY" /\ row.transfer = t
  BY <1>2, <1>3, <1>4 DEF OrderRow
<1>7. order' = [order EXCEPT ![o] = row]
  BY <1>1, <1>2, <1>3 DEF SaleRowsOK
<1> HIDE DEF o, t, row, flow
<1>8. /\ order' \in [Orders -> OrderRow] /\ order'[o] = row
      /\ \A p \in Orders \ {o} : order'[p] = order[p]
  BY <1>2, <1>3, <1>6, <1>7 DEF SaleRowsOK
<1>9. /\ cash' \in [Orders -> CashRow]
      /\ cash'[o].income = flow /\ cash'[o].change = 0 /\ cash'[o].expense = NoFlow
      /\ \A p \in Orders \ {o} : cash'[p] = cash[p]
  BY <1>1, <1>2, <1>3, <1>5 DEF SaleRowsOK, CashRow, NoCash
<1>10. /\ \A q \in Calls : call'[q] = call[q] \/ call'[q] = NoCall
       /\ DOMAIN call' = Calls
  BY <1>1, DoneCloses
<1>11. SaleRowsOK' /\ invoice'[o] = "ISSUED" /\ \A p \in Orders \ {o} : invoice'[p] = invoice[p]
  BY <1>1, <1>2, <1>3, <1>8, <1>9, <1>10 DEF SaleRowsOK, IssueInvoice
<1>12. SaleOK(o)'
  <2>1. amount[t] \in Nat /\ t # NoTransfer  BY <1>2, <1>3 DEF SaleRowsOK
  <2>2. BookOK(o)'
    <3>1. cash'[o].income.amount - cash'[o].change = amount[t] /\ cash'[o].income.method = "SEPAY"
      BY <2>1, <1>5, <1>9
    <3>2. /\ order'[o].status = "COMPLETED" /\ order'[o].method = "SEPAY"
          /\ order'[o].transfer = t /\ amount' = amount
      BY <1>1, <1>6, <1>8
    <3> QED  BY <3>1, <3>2, <2>1, <1>9 DEF BookOK, Kept, Worth
  <2>3. GoodsOK(o)'  BY <1>1, <1>3, <1>6, <1>8, <1>11 DEF SaleOK, GoodsOK
  <2>4. WaitsOK(o)'  BY <1>1, <1>2, <1>6, <1>8 DEF WaitsOK
  <2> QED  BY <2>2, <2>3, <2>4 DEF SaleOK
<1>13. ShelfOK'  BY <1>1, <1>3 DEF ShelfOK, Out
<1>14. RowMoves(order[o], order'[o])  BY <1>1, <1>6, <1>8 DEF RowMoves
<1> QED  BY <1>1, <1>2, <1>8, <1>9, <1>10, <1>11, <1>12, <1>13, <1>14, SaleStep

\* What leaves every sale as it is and opens nothing.
LEMMA OtherSteps ==
  ASSUME IndInv,
         \/ \E r \in Calls : Lost(r) \/ HookLost(r)
         \/ \E t \in Transfers : HookTooLate(t) \/ HookShort(t) \/ SendAgain(t)
         \/ Crash
         \/ UNCHANGED saleVars
  PROVE  IndInv'
<1>1. UNCHANGED <<sale, amount>>
  BY DEF Lost, HookLost, HookTooLate, HookShort, SendAgain, Crash, saleVars, bank
<1>2. amount' \in [Transfers -> Nat]  BY <1>1 DEF IndInv, SaleRowsOK
<1>3. /\ DOMAIN call' = Calls
      /\ \A r \in Calls : call'[r] = call[r] \/ call'[r] = NoCall
  <2>1. CASE \E r \in Calls : Lost(r) \/ HookLost(r)
    BY <2>1, DoneCloses DEF Lost, HookLost
  <2>2. CASE Crash  BY <2>2 DEF Crash
  <2>3. CASE call' = call  BY <2>3 DEF IndInv, SaleRowsOK
  <2> QED  BY <2>1, <2>2, <2>3 DEF HookTooLate, HookShort, SendAgain, saleVars
<1>4. \A r \in Calls : call'[r] = call[r] \/ OpenOK(call'[r])
  BY <1>3, NoCallOK
<1> QED  BY <1>1, <1>2, <1>3, <1>4, QuietStep

LEMMA MakeTransferStep ==
  ASSUME IndInv, NEW t \in Transfers, NEW a \in Brought, MakeTransfer(t, a)
  PROVE  IndInv'
<1> USE CounterAssumption
<1>1. /\ UNCHANGED <<sale, call>> /\ amount[t] = 0
      /\ amount' = [amount EXCEPT ![t] = a]
  BY DEF MakeTransfer
<1>2. /\ amount' \in [Transfers -> Nat]
      /\ \A u \in Transfers : amount[u] # 0 => amount'[u] = amount[u]
  BY <1>1 DEF IndInv, SaleRowsOK
<1>3. DOMAIN call' = Calls /\ \A r \in Calls : call'[r] = call[r]
  BY <1>1 DEF IndInv, SaleRowsOK
<1> QED  BY <1>1, <1>2, <1>3, QuietStep

LEMMA NextIndInv == IndInv /\ [SaleNext]_saleVars => IndInv'
<1> SUFFICES ASSUME IndInv, [SaleNext]_saleVars PROVE IndInv'  OBVIOUS
<1>1. ASSUME NEW r \in Calls, Finish(r)  PROVE IndInv'
  BY <1>1, StatusCommitStep, PayCommitStep, HookCommitStep, OtherSteps DEF Finish
<1>2. ASSUME NEW t \in Transfers, Serve(t)  PROVE IndInv'
  BY <1>2, HookReadStep, OtherSteps DEF Serve
<1> QED
  BY <1>1, <1>2, CreateSaleStep, StatusReadStep, PayReadStep, MakeTransferStep, OtherSteps
     DEF SaleNext

-----------------------------------------------------------------------------
\* Whoever settles, cancels or returns a sale, and whichever webhooks are sent
\* again or processes stop, the cash book, the branch and the invoice tell of
\* it what its status tells (orders.service.ts, updateStatus, payOffline and
\* completeSepayOrder).
THEOREM SaleAlwaysAddsUp == SaleSpec => []SaleAddsUp
BY InitIndInv, NextIndInv, IndInvSaleAddsUp, PTL DEF SaleSpec

\* The late loser of a race never rewrites what an ended sale says of its
\* payment, and an ended sale does not come back to life.
THEOREM EndedSalesStay == SaleSpec => SettledStaysSettled
<1> DEFINE Stays == \A o \in Orders :
       order[o].status \in {"COMPLETED", "CANCELLED", "RETURNED"} =>
         /\ order'[o].method = order[o].method
         /\ order'[o].pay = order[o].pay /\ order'[o].change = order[o].change
         /\ order'[o].transfer = order[o].transfer
         /\ order'[o].status # order[o].status =>
              order[o].status = "COMPLETED" /\ order'[o].status = "RETURNED"
<1>1. IndInv /\ [SaleNext]_saleVars => [Stays]_saleVars
  <2> SUFFICES ASSUME IndInv, SaleNext PROVE Stays  OBVIOUS
  <2>0. order \in [Orders -> OrderRow]  BY DEF IndInv, SaleRowsOK
  <2>1. CASE order' = order  BY <2>1
  <2>2. ASSUME NEW o \in Orders, NEW m \in Methods, NEW pay \in Tenders, CreateSale(o, m, pay)
        PROVE  Stays
    <3>1. order[o].status = "NONE" /\ \A p \in Orders \ {o} : order'[p] = order[p]
      BY <2>0, <2>2 DEF CreateSale, Unsold
    <3> QED  BY <3>1
  <2>3. ASSUME NEW r \in Calls, StatusCommit(r)  PROVE Stays
    <3>0. PICK x : x = call[r]  OBVIOUS
    <3>1. /\ x.row.status = order[x.order].status /\ OpenOK(x) /\ x.op = "status"
          /\ order' = [order EXCEPT ![x.order].status = x.to, ![x.order].payment = Paid(x.to, @)]
      BY <3>0, <2>3 DEF StatusCommit, StatusClaim, IndInv
    <3>2. \/ x.row.status = "PENDING"
          \/ x.row.status = "COMPLETED" /\ x.to = "RETURNED"
      BY <3>1, TransitionsTable DEF OpenOK
    <3>3. /\ x.order \in Orders /\ order'[x.order].status = x.to
          /\ order'[x.order].method = order[x.order].method
          /\ order'[x.order].pay = order[x.order].pay
          /\ order'[x.order].change = order[x.order].change
          /\ order'[x.order].transfer = order[x.order].transfer
          /\ \A p \in Orders \ {x.order} : order'[p] = order[p]
      BY <3>1, <2>0 DEF OpenOK, OrderRow
    <3> QED  BY <3>1, <3>2, <3>3
  <2>4. ASSUME NEW r \in Calls, PayCommit(r) \/ HookCommit(r)  PROVE Stays
    <3>0. PICK x : x = call[r]  OBVIOUS
    <3>1. order[x.order].status = "PENDING" /\ \A p \in Orders \ {x.order} : order'[p] = order[p]
      BY <3>0, <2>0, <2>4 DEF PayCommit, PayClaim, HookCommit, HookClaim
    <3> QED  BY <3>1
  <2>5. \/ order' = order
        \/ \E o \in Orders, m \in Methods, pay \in Tenders : CreateSale(o, m, pay)
        \/ \E r \in Calls : StatusCommit(r) \/ PayCommit(r) \/ HookCommit(r)
    BY DEF SaleNext, Finish, Serve, StatusRead, PayRead, Lost, HookLost, MakeTransfer,
           HookTooLate, HookShort, HookRead, SendAgain, Crash, sale
  <2> QED  BY <2>1, <2>2, <2>3, <2>4, <2>5
<1> QED  BY <1>1, InitIndInv, NextIndInv, PTL DEF SaleSpec, SettledStaysSettled
=============================================================================
