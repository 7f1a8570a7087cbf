-------------------------- MODULE BackOffice_proofs --------------------------
(***************************************************************************)
(* Theorems about the back office, for any number of people, shops and     *)
(* requests: sessions end with the password they were opened by, a place   *)
(* is managed by somebody who works, nobody is on two shifts at once, no   *)
(* right comes from anybody but the owner, an order is handled by those in *)
(* charge of it, a transfer finds its shop, the records are sound (codes,  *)
(* holidays, tickets, customers, categories, variants, suppliers).         *)
(***************************************************************************)
EXTENDS BackOffice, SumTheorems, TLAPS

\* The endpoints of each area, by the name its requests carry.
StaffOps == {"update", "createAccount", "accountPassword", "changePassword", "resetPassword",
             "deactivate", "remove", "login", "rotate", "placeRemove", "appoint"}
RosterOps == {"createBulk", "scheduleUpdate", "scheduleRemove", "removeUser"}
AccessOps == {"assign", "roleRemove", "work"}
HandlingOps == {"step", "setAssignee"}
BankingOps == {"bankSave", "sync", "issue"}
DashboardOps == {"overview", "alerts"}
RegisterOps == {"customerCreate", "customerUpdate", "category", "categoryRemove", "product",
                "resolve", "supplierType", "supplierRemove", "import"}
ListOps == {"list", "badges"}
OutsideOps == {"register", "forgotten", "holidaySync", "ticket"}

\* Every request says what it is, and one under way how far it has come.
Named(x) == "op" \in DOMAIN x /\ (x.op # "idle" => "at" \in DOMAIN x)
RequestsNamed == DOMAIN req = Requests /\ \A r \in Requests : Named(req[r])

\* A step changes only requests of these endpoints, and begins only such.
Touches(ops) ==
  /\ RequestsNamed'
  /\ \A r \in Requests : \/ req'[r] = req[r]
                         \/ req[r].op \in ops \cup {"idle"} /\ req'[r].op \in ops \cup {"idle"}

\* A step leaves the requests of these endpoints alone, and begins none.
Keeps(ops) ==
  \A r \in Requests : req[r].op \in ops \/ req'[r].op \in ops => req'[r] = req[r]

------------------------------------------------------------------------------
(* Which requests a step touches *)

LEMMA KeepsOthers ==
  ASSUME NEW some, NEW others, Touches(some), some \cap others = {}, "idle" \notin others
  PROVE  Keeps(others)
BY DEF Touches, Keeps

\* One request goes on.
LEMMA OneTouched ==
  ASSUME RequestsNamed, NEW ops, NEW r \in Requests, NEW x, Named(x),
         req[r].op \in ops \cup {"idle"}, x.op \in ops \cup {"idle"},
         req' = [req EXCEPT ![r] = x]
  PROVE  Touches(ops)
BY DEF RequestsNamed, Touches

LEMMA IdleNamed == Named(Idle) /\ Idle.op = "idle"
BY DEF Named, Idle

\* A request ends.
LEMMA DoneTouches ==
  ASSUME RequestsNamed, NEW ops, NEW r \in Requests, req[r].op \in ops, req' = Done(r)
  PROVE  Touches(ops)
BY OneTouched, IdleNamed DEF Done

\* A request takes its next step, perhaps with changed local variables.
LEMMA GoToTouches ==
  ASSUME RequestsNamed, NEW ops, NEW r \in Requests, req[r].op \in ops, req[r].op # "idle",
         NEW stage, req' = GoTo(r, stage)
  PROVE  Touches(ops)
<1>1. PICK x : x = [req[r] EXCEPT !.at = stage]  OBVIOUS
<1>2. Named(req[r])  BY DEF RequestsNamed
<1>3. Named(x) /\ x.op = req[r].op  BY <1>1, <1>2 DEF Named
<1>4. req' = [req EXCEPT ![r] = x]  BY <1>1 DEF GoTo
<1> QED  BY <1>3, <1>4, OneTouched

\* A request begins.
LEMMA BeginTouches ==
  ASSUME RequestsNamed, NEW ops, NEW r \in Requests, NEW op, NEW x, Named(x), x.op \in ops,
         Begin(r, op, x)
  PROVE  Touches(ops)
<1>1. req[r].op = "idle"  BY IdleNamed DEF Begin, MayBegin
<1>2. req' = [req EXCEPT ![r] = x]  BY DEF Begin
<1> QED  BY <1>1, <1>2, OneTouched

\* No request moves.
LEMMA NoneTouched ==
  ASSUME RequestsNamed, NEW ops, UNCHANGED req
  PROVE  Touches(ops)
BY DEF RequestsNamed, Touches

LEMMA OnceTouches ==
  ASSUME RequestsNamed, NEW ops, NEW op, Once(op)
  PROVE  Touches(ops)
BY NoneTouched DEF Once

\* People, places and sessions.
LEMMA StaffTouches ==
  ASSUME RequestsNamed, StaffNext
  PROVE  Touches(StaffOps)
<1> USE DEF StaffOps
<1>1. CASE UNCHANGED req
  BY <1>1, NoneTouched
<1>2. ASSUME NEW r \in Requests, UpdateWrite(r) \/ CreateAccountWrite(r) \/ PlaceRemoveWrite(r) \/ AppointWrite(r)
      PROVE  Touches(StaffOps)
  BY <1>2, DoneTouches DEF UpdateWrite, CreateAccountWrite, PlaceRemoveWrite, AppointWrite, At
<1>3. ASSUME NEW r \in Requests, NotManager(r) \/ PlaceRemoveCount(r) \/ AppointStaff(r) \/ RefreshRecheck(r)
      PROVE  Touches(StaffOps)
  BY <1>3, DoneTouches, GoToTouches DEF NotManager, PlaceRemoveCount, AppointStaff, RefreshRecheck, At, Exits
<1>4. ASSUME NEW r \in Requests, ChangeWrite(r) \/ RotateDrop(r) PROVE Touches(StaffOps)
  BY <1>4, GoToTouches DEF ChangeWrite, ThenEndSessions, RotateDrop, At, Revoking, Passwords, Exits
<1>5. ASSUME NEW r \in Requests, NEW s \in Sessions, Issue(r, s) PROVE Touches(StaffOps)
  BY <1>5, DoneTouches, GoToTouches DEF Issue, At
<1>6. ASSUME NEW r \in Requests, NEW u, NEW x, Named(x), x.op \in StaffOps \cup {"idle"},
             req[r].op \in StaffOps, req' = [Overlapped(u) EXCEPT ![r] = x]
      PROVE  Touches(StaffOps)
  <2>1. ASSUME NEW q \in Requests, q \in Opening(u)
        PROVE  LET y == [req[q] EXCEPT !.missed = TRUE]
               IN  Named(y) /\ req[q].op \in StaffOps /\ y.op = req[q].op
    <3>1. Named(req[q])  BY DEF RequestsNamed
    <3>2. req[q].op \in {"login", "rotate"}  BY <2>1 DEF Opening, At
    <3>3. PICK y : y = [req[q] EXCEPT !.missed = TRUE]  OBVIOUS
    <3>4. DOMAIN y = DOMAIN req[q] /\ y.op = req[q].op  BY <3>1, <3>3 DEF Named
    <3> QED  BY <3>1, <3>2, <3>3, <3>4 DEF Named
  <2>2. DOMAIN req' = Requests  BY <1>6 DEF Overlapped
  <2>3. req'[r] = x  BY <1>6 DEF Overlapped
  <2>4. \A q \in Requests \ {r} :
          req'[q] = IF q \in Opening(u) THEN [req[q] EXCEPT !.missed = TRUE] ELSE req[q]
    BY <1>6 DEF Overlapped
  <2>5. ASSUME NEW q \in Requests
        PROVE  /\ Named(req'[q])
               /\ \/ req'[q] = req[q]
                  \/ req[q].op \in StaffOps \cup {"idle"} /\ req'[q].op \in StaffOps \cup {"idle"}
    <3>1. CASE q = r  BY <1>6, <2>3, <3>1
    <3>2. CASE q # r /\ q \in Opening(u)  BY <2>1, <2>4, <3>2
    <3>3. CASE q # r /\ q \notin Opening(u)  BY <2>4, <3>3 DEF RequestsNamed
    <3> QED  BY <3>1, <3>2, <3>3
  <2> QED  BY <2>2, <2>5 DEF Touches, RequestsNamed
<1>7. ASSUME NEW r \in Requests, RevokeScan(r) PROVE Touches(StaffOps)
  <2> DEFINE u == req[r].user
             found == IF redis THEN SessionsOf(u) ELSE {}
  <2>1. PICK x : x = [op |-> req[r].op, at |-> "delete", user |-> u, found |-> found]  OBVIOUS
  <2>2. req[r].op \in StaffOps  BY <1>7 DEF RevokeScan, At, Revoking, Passwords, Exits
  <2>3. Named(x) /\ x.op \in StaffOps  BY <2>1, <2>2 DEF Named
  <2>4. req' = [Overlapped(u) EXCEPT ![r] = x]  BY <1>7, <2>1 DEF RevokeScan
  <2> QED  BY <1>6, <2>2, <2>3, <2>4
<1>8. ASSUME NEW r \in Requests, RevokeDelete(r) PROVE Touches(StaffOps)
  <2>1. req[r].op \in StaffOps  BY <1>8 DEF RevokeDelete, At, Revoking, Passwords, Exits
  <2>2. req' = [Overlapped(req[r].user) EXCEPT ![r] = Idle]  BY <1>8 DEF RevokeDelete
  <2> QED  BY <1>6, <2>1, <2>2, IdleNamed
<1>9. ASSUME NEW r \in Requests, Call(r) PROVE Touches(StaffOps)
  <2>1. ASSUME NEW u, NEW p, NEW op, NEW at,
               \/ Change(r, op, u, at) /\ op \in StaffOps
               \/ CreateAccountRead(r, u) \/ SignIn(r, u) \/ PlaceRemoveRead(r, p)
        PROVE  Touches(StaffOps)
    BY <2>1, BeginTouches DEF Named, Change, CreateAccountRead, SignIn, PlaceRemoveRead
  <2>2. ASSUME NEW u, NEW p, NEW s, AppointRead(r, p, u) \/ UpdateRead(r, u, p) \/ RotateRead(r, s)
        PROVE  Touches(StaffOps)
    BY <2>2, BeginTouches DEF Named, AppointRead, UpdateRead, RotateRead
  <2> QED  BY <1>9, <2>1, <2>2 DEF Call, RemoveRead, DeactivateRead, LoginRead, FirebaseLoginRead,
             AccountPasswordRead, ChangePasswordRead, ResetPasswordRead
<1>10. ASSUME NEW r \in Requests, Step(r) PROVE Touches(StaffOps)
  BY <1>2, <1>3, <1>4, <1>5, <1>7, <1>8, <1>10 DEF Step
<1> QED  BY <1>1, <1>9, <1>10 DEF StaffNext, Hire, Logout, PlaceUpdate, Outage

\* Shifts.
LEMMA RosterTouches ==
  ASSUME RequestsNamed, RosterNext
  PROVE  Touches(RosterOps)
<1> USE DEF RosterOps
<1>1. CASE UNCHANGED req
  BY <1>1, NoneTouched
<1>2. ASSUME NEW r \in Requests, NEW x, Named(x), x.op \in RosterOps \cup {"idle"},
             req[r].op \in RosterOps, req' = [OthersStale(r) EXCEPT ![r] = x]
      PROVE  Touches(RosterOps)
  <2>1. ASSUME NEW q \in Requests, Outdated(q)
        PROVE  LET y == [req[q] EXCEPT !.stale = TRUE]
               IN  Named(y) /\ req[q].op \in RosterOps /\ y.op = req[q].op
    <3>1. Named(req[q])  BY DEF RequestsNamed
    <3>2. req[q].op \in RosterOps  BY <2>1 DEF Outdated
    <3>3. PICK y : y = [req[q] EXCEPT !.stale = TRUE]  OBVIOUS
    <3>4. DOMAIN y = DOMAIN req[q] /\ y.op = req[q].op  BY <3>1, <3>3 DEF Named
    <3> QED  BY <3>1, <3>2, <3>3, <3>4 DEF Named
  <2>2. DOMAIN req' = Requests  BY <1>2 DEF OthersStale
  <2>3. req'[r] = x  BY <1>2 DEF OthersStale
  <2>4. \A q \in Requests \ {r} :
          req'[q] = IF Outdated(q) THEN [req[q] EXCEPT !.stale = TRUE] ELSE req[q]
    BY <1>2 DEF OthersStale
  <2>5. ASSUME NEW q \in Requests
        PROVE  /\ Named(req'[q])
               /\ \/ req'[q] = req[q]
                  \/ req[q].op \in RosterOps \cup {"idle"} /\ req'[q].op \in RosterOps \cup {"idle"}
    <3>1. CASE q = r  BY <1>2, <2>3, <3>1
    <3>2. CASE q # r /\ Outdated(q)  BY <2>1, <2>4, <3>2
    <3>3. CASE q # r /\ ~Outdated(q)  BY <2>4, <3>3 DEF RequestsNamed
    <3> QED  BY <3>1, <3>2, <3>3
  <2> QED  BY <2>2, <2>5 DEF Touches, RequestsNamed
<1>3. ASSUME NEW r \in Requests, RemoveWrite(r)
      PROVE  Touches(RosterOps)
  BY <1>3, DoneTouches DEF RemoveWrite, At
<1>4. ASSUME NEW r \in Requests, BulkCheck(r)
      PROVE  Touches(RosterOps)
  <2>1. CASE req' = Done(r)  BY <1>4, <2>1, DoneTouches DEF BulkCheck, At
  <2>2. CASE req' = [req EXCEPT ![r].at = "find", ![r].stale = FALSE]
    <3>1. PICK x : x = [req[r] EXCEPT !.at = "find", !.stale = FALSE]  OBVIOUS
    <3>2. Named(req[r])  BY DEF RequestsNamed
    <3>3. Named(x) /\ x.op = req[r].op  BY <3>1, <3>2 DEF Named
    <3>4. req' = [req EXCEPT ![r] = x]  BY <2>2, <3>1 DEF RequestsNamed
    <3> QED  BY <1>4, <3>3, <3>4, OneTouched DEF BulkCheck, At
  <2> QED  BY <1>4, <2>1, <2>2 DEF BulkCheck
<1>5. ASSUME NEW r \in Requests, BulkFind(r)
      PROVE  Touches(RosterOps)
  <2>1. PICK k : req' = [req EXCEPT ![r] = [op |-> "createBulk", at |-> "save",
                  by |-> @.by, stale |-> @.stale, todo |-> @.todo, into |-> k]]
    BY <1>5 DEF BulkFind
  <2>2. PICK x : x = [op |-> "createBulk", at |-> "save", by |-> req[r].by,
                      stale |-> req[r].stale, todo |-> req[r].todo, into |-> k]  OBVIOUS
  <2>3. req' = [req EXCEPT ![r] = x]  BY <2>1, <2>2 DEF RequestsNamed
  <2>4. Named(x) /\ x.op = "createBulk"  BY <2>2 DEF Named
  <2> QED  BY <1>5, <2>3, <2>4, OneTouched DEF BulkFind, At
<1>6. \A r \in Requests : Named(Remaining(r)) /\ Remaining(r).op \in {"createBulk", "idle"}
  BY SMTT(30) DEF Named, Remaining, Idle
<1>7. ASSUME NEW r \in Requests, BulkAdd(r) \/ \E k \in Shifts : BulkCreate(r, k)
      PROVE  Touches(RosterOps)
  BY ZenonT(60), <1>2, <1>6, <1>7, DoneTouches DEF BulkAdd, BulkCreate, At
<1>8. ASSUME NEW r \in Requests, ScheduleUpdateWrite(r)
      PROVE  Touches(RosterOps)
  BY <1>2, <1>8, DoneTouches, IdleNamed DEF ScheduleUpdateWrite, At
<1>9. ASSUME NEW r \in Requests, ScheduleUpdateCheck(r)
      PROVE  Touches(RosterOps)
  BY <1>9, DoneTouches, GoToTouches DEF ScheduleUpdateCheck, At
<1>10. ASSUME NEW r \in Requests, NEW by, NEW k, NEW a, NEW u, NEW batch,
              BulkRead(r, by, batch) \/ ScheduleUpdateRead(r, by, k, a)
              \/ ScheduleRemoveRead(r, k) \/ RemoveUserRead(r, k, u)
       PROVE  Touches(RosterOps)
  BY <1>10, BeginTouches
     DEF BulkRead, ScheduleUpdateRead, ScheduleRemoveRead, RemoveUserRead, Named
<1>11. CASE \E t \in Templates : TemplateRemove(t) \/ \E h \in Hours : TemplateUpdate(t, h)
  BY <1>11, OnceTouches DEF TemplateRemove, TemplateUpdate
<1> QED  BY <1>3, <1>4, <1>5, <1>7, <1>8, <1>9, <1>10, <1>11 DEF RosterNext

\* Roles and what they allow.
LEMMA RoleTouches ==
  ASSUME RequestsNamed, AccessNext, ~\E r \in Requests, by \in Employees : StaffPlans(r, by)
  PROVE  Touches(AccessOps)
<1> DEFINE ops == AccessOps
<1> USE DEF AccessOps
<1>1. ASSUME NEW r \in Requests, AssignWrite(r) \/ RoleRemoveWrite(r) \/ WorkWrite(r)
      PROVE  Touches(ops)
  BY <1>1, DoneTouches DEF AssignWrite, RoleRemoveWrite, WorkWrite, At
<1>2. ASSUME NEW r \in Requests, NEW x, NEW u, NEW p, NEW by, NEW right,
             RoleRemoveRead(r, x) \/ AssignRead(r, by, u, x) \/ WorkRead(r, by, right, p)
      PROVE  Touches(ops)
  BY <1>2, BeginTouches DEF RoleRemoveRead, AssignRead, WorkRead, Named
<1>3. ASSUME NEW x, NEW g, RoleUpdate(x, g)
      PROVE  Touches(ops)
  <2>1. ASSUME NEW r \in Requests, req[r].op = "assign"
        PROVE  LET y == [req[r] EXCEPT !.overtaken = TRUE] IN Named(y) /\ y.op = "assign"
    <3>1. Named(req[r])  BY DEF RequestsNamed
    <3>2. PICK y : y = [req[r] EXCEPT !.overtaken = TRUE]  OBVIOUS
    <3>3. DOMAIN y = DOMAIN req[r] /\ y.op = "assign"  BY <2>1, <3>1, <3>2 DEF Named
    <3> QED  BY <3>1, <3>2, <3>3, <2>1 DEF Named
  <2>2. DOMAIN req' = Requests  BY <1>3 DEF RoleUpdate, Overtaken
  <2>3. \A r \in Requests : \/ req'[r] = req[r]
                            \/ req[r].op = "assign" /\ req'[r] = [req[r] EXCEPT !.overtaken = TRUE]
    BY <1>3 DEF RoleUpdate, Overtaken
  <2> QED  BY <2>1, <2>2, <2>3 DEF Touches, RequestsNamed
<1>4. CASE TimeGoesBy \/ \E x \in Roles, g \in Grants : RoleCreate(x, g)
  BY <1>4, NoneTouched DEF TimeGoesBy, RoleCreate, Once, requestVars
<1> QED  BY <1>1, <1>2, <1>3, <1>4 DEF AccessNext

\* Roles, and the shifts that staff plan.
LEMMA AccessTouches ==
  ASSUME RequestsNamed, AccessNext
  PROVE  Touches(AccessOps \cup RosterOps)
<1> DEFINE ops == AccessOps \cup RosterOps
<1>1. CASE \E r \in Requests, by \in Employees : StaffPlans(r, by)
  BY <1>1, BeginTouches DEF StaffPlans, BulkRead, ScheduleUpdateRead, Named, RosterOps
<1>2. CASE ~\E r \in Requests, by \in Employees : StaffPlans(r, by)
  BY <1>2, RoleTouches DEF Touches
<1> QED  BY <1>1, <1>2

\* The steps of an order.
LEMMA HandlingTouches ==
  ASSUME RequestsNamed, HandlingNext
  PROVE  Touches(HandlingOps)
<1> USE DEF HandlingOps
<1>1. ASSUME NEW r \in Requests, StepWrite(r) \/ AssigneeWrite(r)
      PROVE  Touches(HandlingOps)
  BY <1>1, DoneTouches DEF StepWrite, AssigneeWrite, At
<1>2. ASSUME NEW r \in Requests, NEW by, NEW u, NEW step, StepRead(r, by, step, u) \/ AssigneeRead(r, by, u)
      PROVE  Touches(HandlingOps)
  BY <1>2, BeginTouches DEF StepRead, AssigneeRead, Named
<1> QED  BY <1>1, <1>2 DEF HandlingNext

\* Accounts, links and codes.
LEMMA BankingTouches ==
  ASSUME RequestsNamed, BankingNext
  PROVE  Touches(BankingOps)
<1> USE DEF BankingOps
<1>1. ASSUME NEW r \in Requests, NEW c, SaveWrite(r) \/ SyncFails(r) \/ SyncWrite(r) \/ IssueWrite(r, c)
      PROVE  Touches(BankingOps)
  BY <1>1, DoneTouches DEF SaveWrite, SyncFails, SyncWrite, IssueWrite, At
<1>2. ASSUME NEW r \in Requests, SaveTaken(r) \/ SavePending(r)
      PROVE  Touches(BankingOps)
  <2>1. req' = Done(r) \/ \E stage : req' = GoTo(r, stage)
    BY <1>2 DEF SaveTaken, SavePending
  <2>2. req[r].op = "bankSave"  BY <1>2 DEF SaveTaken, SavePending, At
  <2> QED  BY <2>1, <2>2, DoneTouches, GoToTouches
<1>3. ASSUME NEW r \in Requests, SyncPlan(r)
      PROVE  Touches(BankingOps)
  <2>1. PICK x : x = [op |-> "sync", at |-> "write",
                      link |-> [s \in ToLink(r) |-> account[s]], unlink |-> ToUnlink(r)]  OBVIOUS
  <2>2. Named(x) /\ x.op = "sync"  BY <2>1 DEF Named
  <2>3. req' = [req EXCEPT ![r] = x]  BY <1>3, <2>1 DEF SyncPlan
  <2> QED  BY <1>3, <2>2, <2>3, OneTouched DEF SyncPlan, At
<1>4. ASSUME NEW r \in Requests, NEW s, NEW n, NEW kind,
             SyncFetch(r) \/ SaveRead(r, s, n) \/ IssueRead(r, s, kind)
      PROVE  Touches(BankingOps)
  BY <1>4, BeginTouches DEF SyncFetch, SaveRead, IssueRead, Named
<1>5. ASSUME NEW s, NEW n, NEW c, \/ SetSepayKey(s) \/ SepayChanges(n)
                                  \/ Reprint(c) \/ Cancel(c) \/ Transfer(c)
      PROVE  Touches(BankingOps)
  BY SMTT(30), <1>5, OnceTouches DEF SetSepayKey, SepayChanges, Reprint, Cancel, Transfer
<1> QED  BY <1>1, <1>2, <1>3, <1>4, <1>5 DEF BankingNext, BankingStep, BankingCall

\* Reports.
LEMMA DashboardTouches ==
  ASSUME RequestsNamed, DashboardNext
  PROVE  Touches(DashboardOps)
<1> USE DEF DashboardOps
<1>1. ASSUME NEW r \in Requests, OverviewCosts(r) \/ AlertsLists(r)
      PROVE  Touches(DashboardOps)
  BY <1>1, DoneTouches DEF OverviewCosts, AlertsLists, At
<1>2. ASSUME NEW r \in Requests, NEW b, AlertsCount(r, b)
      PROVE  Touches(DashboardOps)
  <2>1. PICK x : Begin(r, "alerts", x) /\ "op" \in DOMAIN x /\ "at" \in DOMAIN x /\ x.op = "alerts"
    BY <1>2 DEF AlertsCount
  <2> QED  BY <2>1, BeginTouches DEF Named
<1>3. ASSUME NEW r \in Requests, NEW b, NEW from, OverviewOrders(r, b, from)
      PROVE  Touches(DashboardOps)
  <2>1. PICK x : Begin(r, "overview", x) /\ "op" \in DOMAIN x /\ "at" \in DOMAIN x /\ x.op = "overview"
    BY <1>3 DEF OverviewOrders
  <2> QED  BY <2>1, BeginTouches DEF Named
<1>4. ASSUME UNCHANGED req PROVE Touches(DashboardOps)  BY <1>4, NoneTouched
<1> QED  BY ZenonT(60), <1>1, <1>2, <1>3, <1>4 DEF DashboardNext, Tick, Order, Move, Restock,
                                                  PlaceChange, Once

\* Registers.
LEMMA RegistersTouches ==
  ASSUME RequestsNamed, RegistersNext
  PROVE  Touches(RegisterOps)
<1> USE DEF RegisterOps
<1>1. ASSUME NEW r \in Requests,
             \/ CustomerCreateWrite(r) \/ CustomerUpdateWrite(r) \/ CategoryWrite(r)
             \/ CategoryRemoveWrite(r) \/ ProductUpdateWrite(r)
      PROVE  Touches(RegisterOps)
  BY <1>1, DoneTouches DEF CustomerCreateWrite, CustomerUpdateWrite, CategoryWrite,
       CategoryRemoveWrite, ProductUpdateWrite, At
<1>2. ASSUME NEW r \in Requests,
             ResolveWrite(r) \/ SupplierTypeWrite(r) \/ SupplierRemoveWrite(r) \/ ImportWrite(r)
      PROVE  Touches(RegisterOps)
  BY <1>2, DoneTouches DEF ResolveWrite, SupplierTypeWrite, SupplierRemoveWrite, ImportWrite, At
<1>3. ASSUME NEW r \in Requests, NEW op, NEW x, Named(x), x.op \in RegisterOps, Check(r, op, x)
      PROVE  Touches(RegisterOps)
  BY <1>3, BeginTouches DEF Check
<1>4. ASSUME NEW r \in Requests, NEW c, NEW phone, NEW tag,
             FindOrCreate(r, c, phone) \/ CustomerCreateRead(r, c, phone, tag)
             \/ CustomerUpdateRead(r, c, phone, tag)
      PROVE  Touches(RegisterOps)
  BY <1>3, <1>4 DEF FindOrCreate, CustomerCreateRead, CustomerUpdateRead, Named
<1>5. ASSUME NEW r \in Requests, NEW c, NEW parent, NEW label,
             CategoryCreateRead(r, c, parent, label) \/ CategoryUpdateRead(r, c, parent, label)
             \/ CategoryRemoveRead(r, c) \/ ProductUpdateRead(r, c)
      PROVE  Touches(RegisterOps)
  BY <1>3, <1>5 DEF CategoryCreateRead, CategoryUpdateRead, CategoryRemoveRead, ProductUpdateRead,
     Named
<1>6. ASSUME NEW r \in Requests, NEW i, NEW s, NEW x,
             ResolveRead(r, i, x) \/ SupplierTypeRead(r, s, x) \/ SupplierRemoveRead(r, s)
             \/ ImportRead(r, i, s)
      PROVE  Touches(RegisterOps)
  BY <1>3, <1>6 DEF ResolveRead, SupplierTypeRead, SupplierRemoveRead, ImportRead, Named
<1>7. ASSUME UNCHANGED req PROVE Touches(RegisterOps)  BY <1>7, NoneTouched
<1> QED  BY <1>1, <1>2, <1>4, <1>5, <1>6, <1>7
     DEF RegistersNext, CustomerRemove, ItemCreate, ItemUpdate, ItemRemove, ReplaceAttributes,
         ChangeItem, SupplierCreate, ImportReceive, PayDebt, Once

\* Lists of orders.
LEMMA OrderListTouches ==
  ASSUME RequestsNamed, OrderListNext
  PROVE  Touches(ListOps)
<1> USE DEF ListOps
<1>1. ASSUME NEW r \in Requests, NEW x, Named(x), x.op = req[r].op, req[r].op \in ListOps,
             req' = [req EXCEPT ![r] = x]
      PROVE  Touches(ListOps)
  BY <1>1, OneTouched
<1>2. ASSUME NEW y, "op" \in DOMAIN y, "at" \in DOMAIN y, NEW z, z = [y EXCEPT !.at = "answered"]
      PROVE  Named(z) /\ z.op = y.op
  BY <1>2 DEF Named
<1>3. ASSUME NEW r \in Requests, NEW y, "op" \in DOMAIN y, "at" \in DOMAIN y, y.op = req[r].op,
             req[r].op \in ListOps, req' = Finish(r, y)
      PROVE  Touches(ListOps)
  <2>1. PICK z : z = [y EXCEPT !.at = "answered"]  OBVIOUS
  <2> QED  BY <1>1, <1>2, <1>3, <2>1 DEF Finish
<1>4. \A r \in Requests : req[r].op \in ListOps => "op" \in DOMAIN req[r] /\ "at" \in DOMAIN req[r]
  BY DEF RequestsNamed, Named
<1>5. ASSUME NEW r \in Requests, ListPage(r) PROVE Touches(ListOps)
  <2>1. PICK s : req' = Finish(r, [req[r] EXCEPT !.rows = s])  BY <1>5 DEF ListPage
  <2>2. PICK y : y = [req[r] EXCEPT !.rows = s]  OBVIOUS
  <2>3. req[r].op \in ListOps  BY <1>5 DEF ListPage, Listing, At
  <2> QED  BY <1>3, <1>4, <2>1, <2>2, <2>3
<1>6. ASSUME NEW r \in Requests, FoundAgain(r) PROVE Touches(ListOps)
  <2>1. PICK s : req' = Finish(r, [req[r] EXCEPT !.rows = s])  BY <1>6 DEF FoundAgain
  <2>2. PICK y : y = [req[r] EXCEPT !.rows = s]  OBVIOUS
  <2>3. req[r].op \in ListOps  BY <1>6 DEF FoundAgain, Listing, At
  <2> QED  BY <1>3, <1>4, <2>1, <2>2, <2>3
<1>7. ASSUME NEW r \in Requests, AlertsLate(r) PROVE Touches(ListOps)
  <2>1. PICK s : req' = Finish(r, [req[r] EXCEPT !.late = s])  BY <1>7 DEF AlertsLate
  <2>2. PICK y : y = [req[r] EXCEPT !.late = s]  OBVIOUS
  <2>3. req[r].op \in ListOps  BY <1>7 DEF AlertsLate, At
  <2> QED  BY <1>3, <1>4, <2>1, <2>2, <2>3
<1>8. ASSUME NEW r \in Requests, AlertsDue(r) PROVE Touches(ListOps)
  <2>1. PICK s : req' = [req EXCEPT ![r].due = s, ![r].at = "late"]  BY <1>8 DEF AlertsDue
  <2>2. PICK y : y = [req[r] EXCEPT !.due = s, !.at = "late"]  OBVIOUS
  <2>3. req[r].op \in ListOps  BY <1>8 DEF AlertsDue, At
  <2>4. Named(y) /\ y.op = req[r].op  BY <1>4, <2>2, <2>3 DEF Named
  <2>5. req' = [req EXCEPT ![r] = y]  BY <2>1, <2>2 DEF RequestsNamed
  <2> QED  BY <1>1, <2>3, <2>4, <2>5
<1>9. ASSUME NEW r \in Requests, BucketCount(r) PROVE Touches(ListOps)
  <2>1. req[r].op \in ListOps /\ req[r].op # "idle"  BY <1>9 DEF BucketCount, Listing, At
  <2>2. CASE req' = GoTo(r, "bucket")  BY <2>1, <2>2, GoToTouches
  <2>3. CASE req' = Finish(r, req[r])  BY <1>3, <1>4, <2>1, <2>3
  <2>4. CASE \E n : req' = [req EXCEPT ![r].skip = n, ![r].bucket = @ + 1]
    <3>1. PICK n : req' = [req EXCEPT ![r].skip = n, ![r].bucket = @ + 1]  BY <2>4
    <3>2. PICK y : y = [req[r] EXCEPT !.skip = n, !.bucket = @ + 1]  OBVIOUS
    <3>3. Named(y) /\ y.op = req[r].op  BY <1>4, <2>1, <3>2 DEF Named
    <3>4. req' = [req EXCEPT ![r] = y]  BY <3>1, <3>2 DEF RequestsNamed
    <3> QED  BY <1>1, <2>1, <3>3, <3>4
  <2>5. \/ req' = GoTo(r, "bucket") \/ req' = Finish(r, req[r])
        \/ \E n : req' = [req EXCEPT ![r].skip = n, ![r].bucket = @ + 1]
    BY <1>9 DEF BucketCount
  <2> QED  BY <2>2, <2>3, <2>4, <2>5
<1>10. ASSUME NEW r \in Requests, BucketPage(r) PROVE Touches(ListOps)
  <2>1. req[r].op \in ListOps  BY <1>10 DEF BucketPage, Listing, At
  <2>2. PICK p : LET y == [req[r] EXCEPT !.rows = @ \o RowsOf(p), !.take = @ - Len(p), !.skip = 0,
                                         !.bucket = @ + 1, !.at = "count"]
                 IN  req' = Finish(r, y) \/ req' = [req EXCEPT ![r] = y]
    BY <1>10 DEF BucketPage
  <2>3. PICK y : y = [req[r] EXCEPT !.rows = @ \o RowsOf(p), !.take = @ - Len(p), !.skip = 0,
                                    !.bucket = @ + 1, !.at = "count"]  OBVIOUS
  <2>4. DOMAIN y = DOMAIN req[r] /\ y.op = req[r].op  BY <1>4, <2>1, <2>3
  <2>5. req' = Finish(r, y) \/ req' = [req EXCEPT ![r] = y]  BY <2>2, <2>3
  <2> QED  BY <1>1, <1>3, <1>4, <2>1, <2>4, <2>5 DEF Named
<1>11. ASSUME NEW r \in Requests, Candidates(r) PROVE Touches(ListOps)
  <2>1. req[r].op \in ListOps  BY <1>11 DEF Candidates, Listing, At
  <2>2. PICK s, n : req' = [req EXCEPT ![r] = [req[r] EXCEPT !.rows = s, !.total = n, !.at = "found"]]
    BY <1>11 DEF Candidates
  <2>3. PICK y : y = [req[r] EXCEPT !.rows = s, !.total = n, !.at = "found"]  OBVIOUS
  <2>4. Named(y) /\ y.op = req[r].op  BY <1>4, <2>1, <2>3 DEF Named
  <2> QED  BY <1>1, <2>1, <2>2, <2>3, <2>4
<1>12. ASSUME NEW r \in Requests, Send(r) PROVE Touches(ListOps)
  BY <1>12, DoneTouches DEF Send, At
<1>13. ASSUME NEW r \in Requests, NEW q, ListBegin(r, q) \/ AlertsBegin(r, q) PROVE Touches(ListOps)
  <2>1. PICK op, y : op \in ListOps /\ Begin(r, op, y) /\ "op" \in DOMAIN y /\ "at" \in DOMAIN y /\ y.op = op
    BY <1>13 DEF ListBegin, AlertsBegin
  <2> QED  BY <2>1, BeginTouches DEF Named
<1>14. ASSUME NEW o, NEW kind, Touch(o, kind) PROVE Touches(ListOps)
  <2>1. ASSUME NEW r \in Requests, req[r].op \in ListOps
        PROVE  LET y == [req[r] EXCEPT !.touched = @ \cup {o}] IN Named(y) /\ y.op = req[r].op
    <3>1. PICK y : y = [req[r] EXCEPT !.touched = @ \cup {o}]  OBVIOUS
    <3>2. DOMAIN y = DOMAIN req[r] /\ y.op = req[r].op  BY <1>4, <2>1, <3>1
    <3> QED  BY <1>4, <2>1, <3>1, <3>2 DEF Named
  <2>2. DOMAIN req' = Requests  BY <1>14 DEF Touch
  <2>3. \A r \in Requests :
          req'[r] = IF req[r].op \in ListOps THEN [req[r] EXCEPT !.touched = @ \cup {o}] ELSE req[r]
    BY <1>14 DEF Touch
  <2> QED  BY <2>1, <2>2, <2>3 DEF Touches, RequestsNamed
<1> QED  BY <1>5, <1>6, <1>7, <1>8, <1>9, <1>10, <1>11, <1>12, <1>13, <1>14 DEF OrderListNext

\* Codes, holidays and tickets.
LEMMA OutsideTouches ==
  ASSUME RequestsNamed, OutsideNext
  PROVE  Touches(OutsideOps)
<1> USE DEF OutsideOps
<1>1. ASSUME UNCHANGED req PROVE Touches(OutsideOps)  BY <1>1, NoneTouched
<1>2. ASSUME NEW r \in Requests, RegisterWrite(r) \/ HolidaysWrite(r) \/ AppendMessage(r)
      PROVE  Touches(OutsideOps)
  <2>1. req[r].op \in OutsideOps /\ req' = Done(r)
    BY ZenonT(60), <1>2 DEF RegisterWrite, HolidaysWrite, AppendMessage, At
  <2> QED  BY <2>1, DoneTouches
<1>3. ASSUME NEW r \in Requests, Accept(r) PROVE Touches(OutsideOps)
  BY <1>3, DoneTouches, GoToTouches DEF Accept, At
<1>4. ASSUME NEW r \in Requests, NEW c, NEW t, NEW side,
             RegisterRead(r, c) \/ ForgottenRead(r, c) \/ HolidaysRead(r) \/ ReplyRead(r, t, side)
      PROVE  Touches(OutsideOps)
  BY <1>4, BeginTouches DEF RegisterRead, ForgottenRead, HolidaysRead, ReplyRead, Named
<1> QED  BY ZenonT(60), <1>1, <1>2, <1>3, <1>4
     DEF OutsideNext, CodeRunsOut, SendOtp, CalendarChanges, HolidayRemove, HolidayToggle,
         HolidayCreate, HolidayUpdate, OwnerWrites, TicketCreate, TicketClose, TicketRemove, Once

\* Every step of the back office, and the areas it may belong to.
LEMMA NextNamed ==
  ASSUME RequestsNamed, [Next]_vars
  PROVE  RequestsNamed'
<1>1. CASE UNCHANGED vars  BY <1>1 DEF vars, requestVars, RequestsNamed
<1>2. CASE Next
  BY <1>2, StaffTouches, RosterTouches, AccessTouches, HandlingTouches, BankingTouches,
     DashboardTouches, RegistersTouches, OrderListTouches, OutsideTouches DEF Next, Touches
<1> QED  BY <1>1, <1>2

LEMMA InitNamed == Init => RequestsNamed
BY IdleNamed DEF Init, RequestsInit, RequestsNamed

\* Whatever interleaves, every open request is one of a known endpoint.
THEOREM AlwaysNamed == Spec => []RequestsNamed
<1> QED  BY InitNamed, NextNamed, PTL DEF Spec

\* Nothing but the staff's own requests, and an assignment that hires, touches
\* the people, places and sessions.
LEMMA StaffUntouched ==
  ASSUME RequestsNamed, [Next]_vars, ~StaffNext
  PROVE  /\ Keeps(StaffOps)
         /\ UNCHANGED <<login, post, place, session, redis, era, doubtful>>
         /\ \/ UNCHANGED status
            \/ \E u : status[u] = "NONE" /\ status' = [status EXCEPT ![u] = "INACTIVE"]
<1> USE DEF StaffOps
<1>1. CASE UNCHANGED vars
  BY <1>1 DEF vars, requestVars, areaVars, staffVars, Keeps
<1>2. CASE RosterNext
  <2>1. Keeps(StaffOps)  BY SMTT(30), <1>2, RosterTouches, KeepsOthers DEF RosterOps
  <2>2. UNCHANGED staffVars
    BY ZenonT(60), <1>2 DEF RosterNext, TemplateRemove, TemplateUpdate, BulkRead, BulkCheck, BulkFind, BulkAdd,
         BulkCreate, ScheduleRemoveRead, RemoveUserRead, ScheduleUpdateRead, ScheduleUpdateCheck,
         ScheduleUpdateWrite, RemoveWrite
  <2> QED  BY <2>1, <2>2 DEF staffVars
<1>3. CASE AccessNext
  <2>1. Keeps(StaffOps)  BY <1>3, AccessTouches, KeepsOthers DEF RosterOps, AccessOps
  <2>2. CASE UNCHANGED staffVars  BY <2>1, <2>2 DEF staffVars
  <2>3. CASE \E r \in Requests : AssignWrite(r)
    <3>1. PICK r \in Requests : AssignWrite(r)  BY <2>3
    <3> DEFINE fails == rights[req[r].role] = None \/ (req[r].hire /\ status[req[r].user] # "NONE")
    <3>2. CASE fails  BY <2>1, <3>1, <3>2 DEF AssignWrite
    <3>3. CASE ~fails  BY <2>1, <3>1, <3>3 DEF AssignWrite
    <3> QED  BY <3>2, <3>3
  <2> QED
    BY ZenonT(60), <1>3, <2>2, <2>3 DEF AccessNext, TimeGoesBy, RoleCreate, RoleUpdate, RoleRemoveWrite, WorkWrite,
         RoleRemoveRead, StaffPlans, BulkRead, ScheduleUpdateRead, AssignRead, WorkRead
<1>4. CASE HandlingNext
  <2>1. Keeps(StaffOps)  BY <1>4, HandlingTouches, KeepsOthers DEF HandlingOps
  <2>2. UNCHANGED staffVars
    BY <1>4 DEF HandlingNext, StepWrite, AssigneeWrite, StepRead, AssigneeRead
  <2> QED  BY <2>1, <2>2 DEF staffVars
<1>5. CASE OutsideNext
  <2>1. Keeps(StaffOps)  BY <1>5, OutsideTouches, KeepsOthers DEF OutsideOps
  <2>2. UNCHANGED staffVars  BY <1>5 DEF OutsideNext
  <2> QED  BY <2>1, <2>2 DEF staffVars
<1>6. CASE /\ UNCHANGED staffVars
           /\ BankingNext \/ DashboardNext \/ RegistersNext \/ OrderListNext
  <2>1. Keeps(StaffOps)
    BY <1>6, BankingTouches, DashboardTouches, RegistersTouches, OrderListTouches, KeepsOthers
       DEF BankingOps, DashboardOps, RegisterOps, ListOps
  <2> QED  BY <1>6, <2>1 DEF staffVars
<1> QED  BY <1>1, <1>2, <1>3, <1>4, <1>5, <1>6 DEF Next

------------------------------------------------------------------------------
(* People, places and sessions *)

\* A request that is ending the sessions of an employee, and one that is about to
\* open a session.
Ends(x) == x.op \in Revoking /\ x.at \in {"scan", "delete"}
Opens(x) == \/ x.op \in {"login", "rotate"} /\ x.at = "issue"
            \/ x.op = "rotate" /\ x.at = "drop"

\* What the requests about people, places and sessions carry.
StaffRequestOK(x) ==
  /\ x.op \in StaffOps \ {"placeRemove"} => x.user \in Employees
  /\ x.op \in {"placeRemove", "appoint"} => x.place \in Places
  /\ Opens(x) => x.era \in Nat /\ "missed" \in DOMAIN x

StaffTypes ==
  /\ RequestsNamed
  /\ \A r \in Requests : StaffRequestOK(req[r])
  /\ era \in [Employees -> Nat]
  /\ DOMAIN session = Sessions
  /\ \A s \in Sessions :
       /\ "missed" \in DOMAIN session[s]
       /\ session[s] # NoSession => session[s].user \in Employees /\ session[s].era \in Nat
  /\ DOMAIN status = Employees
  /\ DOMAIN place = Places
  /\ \A p \in Places : /\ "status" \in DOMAIN place[p] /\ "manager" \in DOMAIN place[p]
                       /\ place[p].status \in {"ACTIVE", "DELETED"}

\* An old session that nothing excuses is about to be listed, or is on the list
\* of what is about to be deleted; and so is what it is being renewed to.
SessionsCovered ==
  \A s \in Sessions :
    session[s] # NoSession /\ session[s].era < era[session[s].user] /\ ~session[s].missed =>
      \E r \in Requests : /\ Ends(req[r]) /\ req[r].user = session[s].user
                          /\ req[r].at = "delete" => s \in req[r].found
OpeningsCovered ==
  \A q \in Requests :
    Opens(req[q]) /\ req[q].era < era[req[q].user] /\ ~req[q].missed =>
      \E r \in Requests : Ends(req[r]) /\ req[r].user = req[q].user

SessionInv == StaffTypes /\ SessionsCovered /\ OpeningsCovered

\* Requests that are left alone, or changed into sound ones.
LEMMA RequestsStayOK ==
  ASSUME StaffTypes, NEW r \in Requests, NEW x, StaffRequestOK(x), Named(x),
         req' = [req EXCEPT ![r] = x]
  PROVE  \A q \in Requests : StaffRequestOK(req'[q])
BY DEF StaffTypes, RequestsNamed

LEMMA IdleStaffOK == StaffRequestOK(Idle)
BY DEF StaffRequestOK, Idle, StaffOps, Opens

LEMMA DoneStaffOK ==
  ASSUME StaffTypes, NEW r \in Requests, req' = Done(r)
  PROVE  \A q \in Requests : StaffRequestOK(req'[q])
BY RequestsStayOK, IdleStaffOK, IdleNamed DEF Done

LEMMA GoToStaffOK ==
  ASSUME StaffTypes, NEW r \in Requests, NEW stage, req' = GoTo(r, stage), req[r].op # "idle",
         stage = "issue" => Opens(req[r]), stage # "drop"
  PROVE  \A q \in Requests : StaffRequestOK(req'[q])
<1>1. PICK x : x = [req[r] EXCEPT !.at = stage]  OBVIOUS
<1>2. Named(req[r]) /\ StaffRequestOK(req[r])  BY DEF StaffTypes, RequestsNamed
<1>3. /\ DOMAIN x = DOMAIN req[r] /\ x.op = req[r].op /\ x.at = stage
      /\ x.user = req[r].user /\ x.place = req[r].place /\ x.era = req[r].era
  BY <1>1, <1>2 DEF Named
<1>4. StaffRequestOK(x) /\ Named(x)  BY <1>2, <1>3 DEF StaffRequestOK, Opens, Named
<1>5. req' = [req EXCEPT ![r] = x]  BY <1>1 DEF GoTo
<1> QED  BY <1>4, <1>5, RequestsStayOK

\* The openings of an employee are marked, and one request goes on.
LEMMA MarkedStaff ==
  ASSUME StaffTypes, NEW u, NEW r \in Requests, NEW x, StaffRequestOK(x), Named(x),
         req' = [Overlapped(u) EXCEPT ![r] = x]
  PROVE  /\ req'[r] = x
         /\ \A q \in Requests \ {r} : Opens(req[q]) /\ req[q].user = u => req'[q].missed = TRUE
         /\ \A q \in Requests \ {r} : ~(Opens(req[q]) /\ req[q].user = u) => req'[q] = req[q]
         /\ \A q \in Requests : StaffRequestOK(req'[q])
<1>1. \A q \in Requests : q \in Opening(u) <=> Opens(req[q]) /\ req[q].user = u
  BY DEF Opening, Opens, At
<1>2. req'[r] = x  BY DEF Overlapped
<1>3. \A q \in Requests \ {r} :
        req'[q] = IF q \in Opening(u) THEN [req[q] EXCEPT !.missed = TRUE] ELSE req[q]
  BY DEF Overlapped
<1>4. ASSUME NEW q \in Requests \ {r}, Opens(req[q]), req[q].user = u
      PROVE  /\ req'[q].missed = TRUE
             /\ req'[q].op = req[q].op /\ req'[q].at = req[q].at
             /\ req'[q].user = u /\ req'[q].era = req[q].era
             /\ StaffRequestOK(req'[q])
  <2>1. PICK y : y = [req[q] EXCEPT !.missed = TRUE]  OBVIOUS
  <2>2. "missed" \in DOMAIN req[q] /\ StaffRequestOK(req[q])
    BY <1>4 DEF StaffTypes, StaffRequestOK
  <2>3. /\ y.missed = TRUE /\ y.op = req[q].op /\ y.at = req[q].at /\ y.user = req[q].user
        /\ y.era = req[q].era /\ y.place = req[q].place /\ DOMAIN y = DOMAIN req[q]
    BY <2>1, <2>2
  <2>4. StaffRequestOK(y)  BY <2>2, <2>3 DEF StaffRequestOK, Opens
  <2>5. req'[q] = y  BY <1>1, <1>3, <1>4, <2>1
  <2> QED  BY <1>4, <2>3, <2>4, <2>5
<1>5. \A q \in Requests \ {r} : ~(Opens(req[q]) /\ req[q].user = u) => req'[q] = req[q]
  BY <1>1, <1>3
<1> QED  BY ZenonT(60), <1>2, <1>4, <1>5 DEF StaffTypes

LEMMA StaffRequestsStep ==
  ASSUME StaffTypes, StaffNext
  PROVE  \A q \in Requests : StaffRequestOK(req'[q])
<1> DEFINE Fine == \A q \in Requests : StaffRequestOK(req'[q])
<1>1. ASSUME UNCHANGED req PROVE Fine
  BY <1>1 DEF StaffTypes
<1>2. ASSUME NEW r \in Requests, UpdateWrite(r) \/ CreateAccountWrite(r) \/ PlaceRemoveWrite(r) \/ AppointWrite(r)
      PROVE  Fine
  BY <1>2, DoneStaffOK DEF UpdateWrite, CreateAccountWrite, PlaceRemoveWrite, AppointWrite
<1>3. ASSUME NEW r \in Requests, NotManager(r) \/ PlaceRemoveCount(r) \/ AppointStaff(r) \/ RefreshRecheck(r)
      PROVE  Fine
  BY <1>3, DoneStaffOK, GoToStaffOK DEF NotManager, PlaceRemoveCount, AppointStaff, RefreshRecheck, At, Exits
<1>4. ASSUME NEW r \in Requests, ChangeWrite(r) \/ RotateDrop(r) PROVE Fine
  BY <1>4, GoToStaffOK DEF ChangeWrite, ThenEndSessions, RotateDrop, At, Revoking, Passwords, Exits, Opens
<1>5. ASSUME NEW r \in Requests, NEW s \in Sessions, Issue(r, s) PROVE Fine
  BY <1>5, DoneStaffOK, GoToStaffOK DEF Issue, At
<1>6. ASSUME NEW r \in Requests, RevokeScan(r) PROVE Fine
  <2> DEFINE u == req[r].user
             found == IF redis THEN SessionsOf(u) ELSE {}
  <2>1. PICK x : x = [op |-> req[r].op, at |-> "delete", user |-> u, found |-> found]  OBVIOUS
  <2>2. req[r].op \in StaffOps \ {"placeRemove", "appoint"}
    BY <1>6 DEF RevokeScan, At, Revoking, Passwords, Exits, StaffOps
  <2>3. u \in Employees  BY <2>2 DEF StaffTypes, StaffRequestOK
  <2>4. StaffRequestOK(x) /\ Named(x)  BY <2>1, <2>2, <2>3 DEF StaffRequestOK, Opens, Named
  <2>5. req' = [Overlapped(u) EXCEPT ![r] = x]  BY <1>6, <2>1 DEF RevokeScan
  <2> QED  BY <2>4, <2>5, MarkedStaff
<1>7. ASSUME NEW r \in Requests, RevokeDelete(r) PROVE Fine
  BY <1>7, MarkedStaff, IdleStaffOK, IdleNamed DEF RevokeDelete
<1>8. ASSUME NEW r \in Requests, NEW op, NEW x, StaffRequestOK(x), Named(x), Begin(r, op, x) PROVE Fine
  BY <1>8, RequestsStayOK DEF Begin
<1>9. ASSUME NEW r \in Requests, Call(r) PROVE Fine
  <2>1. ASSUME NEW u \in Employees, NEW at, NEW op \in Revoking, Change(r, op, u, at) PROVE Fine
    <3>1. PICK x : x = [op |-> op, user |-> u, at |-> at]  OBVIOUS
    <3>2. StaffRequestOK(x) /\ Named(x)
      BY <3>1 DEF StaffRequestOK, Opens, Named, Revoking, Passwords, Exits
    <3> QED  BY <1>8, <2>1, <3>1, <3>2 DEF Change
  <2>2. ASSUME NEW u \in Employees, SignIn(r, u) PROVE Fine
    <3>1. PICK x : x = [op |-> "login", at |-> "issue", user |-> u, era |-> era[u], missed |-> FALSE]  OBVIOUS
    <3>2. StaffRequestOK(x) /\ Named(x)  BY <3>1 DEF StaffTypes, StaffRequestOK, Opens, Named
    <3> QED  BY <1>8, <2>2, <3>1, <3>2 DEF SignIn
  <2>3. ASSUME NEW s \in Sessions, RotateRead(r, s) PROVE Fine
    <3>1. PICK x : x = [op |-> "rotate", at |-> "drop", user |-> session[s].user,
                        era |-> session[s].era, missed |-> session[s].missed, old |-> s]  OBVIOUS
    <3>2. session[s].user \in Employees /\ session[s].era \in Nat
      BY <2>3 DEF RotateRead, StaffTypes
    <3>3. StaffRequestOK(x) /\ Named(x)  BY <3>1, <3>2 DEF StaffRequestOK, Opens, Named
    <3> QED  BY <1>8, <2>3, <3>1, <3>3 DEF RotateRead
  <2>4. ASSUME NEW u \in Employees, NEW p \in Places, NEW p0,
               \/ CreateAccountRead(r, u) \/ PlaceRemoveRead(r, p) \/ AppointRead(r, p, u)
               \/ UpdateRead(r, u, p0)
        PROVE  Fine
    BY <1>8, <2>4 DEF CreateAccountRead, PlaceRemoveRead, AppointRead, UpdateRead, StaffRequestOK,
         Opens, Named, StaffOps
  <2>5. ASSUME NEW p \in Places, PlaceRemoveRead(r, p) PROVE Fine
    BY <1>8, <2>5 DEF PlaceRemoveRead, StaffRequestOK, Opens, Named, StaffOps
  <2>6. ASSUME NEW u \in Employees, CreateAccountRead(r, u) PROVE Fine
    BY <1>8, <2>6 DEF CreateAccountRead, StaffRequestOK, Opens, Named, StaffOps
  <2>7. ASSUME NEW u \in Employees, NEW p, UpdateRead(r, u, p) PROVE Fine
    BY <1>8, <2>7 DEF UpdateRead, StaffRequestOK, Opens, Named, StaffOps
  <2>8. ASSUME NEW u \in Employees,
               \/ RemoveRead(r, u) \/ DeactivateRead(r, u) \/ AccountPasswordRead(r, u)
               \/ ChangePasswordRead(r, u) \/ ResetPasswordRead(r, u)
        PROVE  Fine
    BY <2>1, <2>8 DEF RemoveRead, DeactivateRead, AccountPasswordRead, ChangePasswordRead,
         ResetPasswordRead, Revoking, Passwords, Exits
  <2>9. ASSUME NEW u \in Employees, LoginRead(r, u) \/ FirebaseLoginRead(r, u) PROVE Fine
    BY <2>2, <2>9 DEF LoginRead, FirebaseLoginRead
  <2> HIDE DEF Fine
  <2> QED  BY <1>9, <2>3, <2>4, <2>5, <2>6, <2>7, <2>8, <2>9 DEF Call
<1> HIDE DEF Fine
<1>10. ASSUME NEW r \in Requests, Step(r) PROVE Fine
  BY <1>2, <1>3, <1>4, <1>5, <1>6, <1>7, <1>10 DEF Step
<1>11. Fine  BY <1>1, <1>9, <1>10 DEF StaffNext, Hire, Logout, PlaceUpdate, Outage
<1> QED  BY <1>11 DEF Fine

LEMMA StaffTypesStep ==
  ASSUME StaffTypes, [Next]_vars
  PROVE  StaffTypes'
<1>1. RequestsNamed'  BY NextNamed DEF StaffTypes
<1>2. CASE ~StaffNext
  <2>1. /\ Keeps(StaffOps) /\ UNCHANGED <<session, era, place>>
        /\ DOMAIN status' = Employees
    BY <1>2, StaffUntouched DEF StaffTypes
  <2>2. ASSUME NEW q \in Requests PROVE StaffRequestOK(req'[q])
    <3>1. CASE req'[q].op \in StaffOps  BY <2>1, <3>1 DEF Keeps, StaffTypes
    <3>2. CASE req'[q].op \notin StaffOps  BY <3>2 DEF StaffRequestOK, Opens, StaffOps
    <3> QED  BY <3>1, <3>2
  <2> QED  BY <1>1, <2>1, <2>2 DEF StaffTypes
<1>3. CASE StaffNext
  <2>1. \A q \in Requests : StaffRequestOK(req'[q])  BY <1>3, StaffRequestsStep
  <2>2. DOMAIN status' = Employees
    <3>1. ASSUME NEW r \in Requests, CreateAccountWrite(r) PROVE DOMAIN status' = DOMAIN status
      BY <3>1 DEF CreateAccountWrite
    <3>2. ASSUME NEW r \in Requests, ChangeWrite(r) PROVE DOMAIN status' = DOMAIN status
      <4>1. PICK u, to : status' = [status EXCEPT ![u] = to] \/ status' = status
        BY <3>2 DEF ChangeWrite
      <4> QED  BY <4>1
    <3>3. ASSUME NEW r \in Requests, Step(r), ~CreateAccountWrite(r), ~ChangeWrite(r)
          PROVE  status' = status
      BY <3>3 DEF Step, UpdateWrite, NotManager, RevokeScan, RevokeDelete, RotateDrop, RefreshRecheck,
           PlaceRemoveCount, PlaceRemoveWrite, AppointStaff, AppointWrite, Issue, staffVars
    <3>4. ASSUME NEW r \in Requests, Call(r) PROVE status' = status
      BY <3>4 DEF Call, RotateRead, PlaceRemoveRead, CreateAccountRead, LoginRead, FirebaseLoginRead,
           SignIn, Change, RemoveRead, DeactivateRead, AccountPasswordRead, ChangePasswordRead,
           ResetPasswordRead, AppointRead, UpdateRead, staffVars
    <3>5. ASSUME NEW u, NEW p, Hire(u, p) PROVE DOMAIN status' = DOMAIN status
      BY <3>5 DEF Hire
    <3>6. ASSUME \/ \E s \in Sessions : Logout(s)
                 \/ \E p \in Places : PlaceUpdate(p)
                 \/ Outage
          PROVE  status' = status
      BY <3>6 DEF Logout, PlaceUpdate, Outage
    <3>7. DOMAIN status' = DOMAIN status
      BY <1>3, <3>1, <3>2, <3>3, <3>4, <3>5, <3>6 DEF StaffNext
    <3> QED  BY <3>7 DEF StaffTypes
  <2>3. era' \in [Employees -> Nat]
    <3>1. CASE \E r \in Requests : ChangeWrite(r)
      <4>1. PICK r \in Requests : era' = [era EXCEPT ![req[r].user] = @ + 1]
        BY <3>1 DEF ChangeWrite
      <4>2. DOMAIN era' = Employees  BY <4>1 DEF StaffTypes
      <4>3. \A u \in Employees : era'[u] = era[u] \/ era'[u] = era[u] + 1  BY <4>1 DEF StaffTypes
      <4>4. \A u \in Employees : era[u] \in Nat  BY DEF StaffTypes
      <4>5. \A u \in Employees : era'[u] \in Nat  BY <4>3, <4>4
      <4>6. era' = [u \in Employees |-> era'[u]]  BY <4>1, <4>2 DEF StaffTypes
      <4> QED  BY <4>5, <4>6
    <3>2. CASE UNCHANGED era  BY <3>2 DEF StaffTypes
    <3> QED
      BY ZenonT(60), <1>3, <3>1, <3>2 DEF StaffNext, Hire, Logout, PlaceUpdate, Outage, Step, Call, UpdateWrite,
        CreateAccountWrite, NotManager, RevokeScan, RevokeDelete, RotateDrop, RefreshRecheck,
        PlaceRemoveCount, PlaceRemoveWrite, AppointStaff, AppointWrite, Issue, RotateRead, PlaceRemoveRead,
        CreateAccountRead, LoginRead, FirebaseLoginRead, SignIn, Change, RemoveRead, DeactivateRead,
        AccountPasswordRead, ChangePasswordRead, ResetPasswordRead, AppointRead, UpdateRead, staffVars
  <2>4. DOMAIN session' = Sessions /\ \A s \in Sessions :
          /\ "missed" \in DOMAIN session'[s]
          /\ session'[s] # NoSession => session'[s].user \in Employees /\ session'[s].era \in Nat
    <3>0. "missed" \in DOMAIN NoSession  BY DEF NoSession
    <3>1. CASE \E r \in Requests, s \in Sessions : Issue(r, s)
      <4>1. PICK r \in Requests, s \in Sessions : Issue(r, s)  BY <3>1
      <4>2. req[r].user \in Employees /\ req[r].era \in Nat
        BY <4>1 DEF Issue, At, StaffTypes, StaffRequestOK, Opens, StaffOps
      <4>3. \A k \in Sessions : k # s => session'[k] = session[k]  BY <4>1 DEF Issue, StaffTypes
      <4>4. DOMAIN session' = Sessions  BY <4>1 DEF Issue, StaffTypes
      <4>5. \/ session'[s] = session[s]
            \/ /\ session'[s].user = req[r].user /\ session'[s].era = req[r].era
               /\ "missed" \in DOMAIN session'[s]
        <5>1. CASE redis
          <6>1. PICK m : session' = [session EXCEPT ![s] = [user |-> req[r].user, era |-> req[r].era,
                                                            missed |-> m]]
            BY <4>1, <5>1 DEF Issue
          <6> QED  BY <6>1 DEF StaffTypes
        <5>2. CASE ~redis  BY <4>1, <5>2 DEF Issue
        <5> QED  BY <5>1, <5>2
      <4> QED  BY <4>2, <4>3, <4>4, <4>5 DEF StaffTypes
    <3>2. CASE \E r \in Requests : RevokeScan(r)
      <4>1. \A s \in Sessions : session'[s] = session[s] \/ session'[s] = [session[s] EXCEPT !.missed = TRUE]
        BY <3>2 DEF RevokeScan
      <4>2. DOMAIN session' = Sessions  BY <3>2 DEF RevokeScan
      <4>3. ASSUME NEW s \in Sessions, session'[s] # NoSession
            PROVE  session'[s].user \in Employees /\ session'[s].era \in Nat
        <5>1. CASE session'[s] = session[s]  BY <4>3, <5>1 DEF StaffTypes
        <5>2. CASE session'[s] = [session[s] EXCEPT !.missed = TRUE] /\ session[s] # NoSession
          <6>1. session'[s].user = session[s].user /\ session'[s].era = session[s].era  BY <5>2
          <6> QED  BY <5>2, <6>1 DEF StaffTypes
        <5>3. CASE session'[s] = [session[s] EXCEPT !.missed = TRUE] /\ session[s] = NoSession
          <6>1. PICK r \in Requests : RevokeScan(r)  BY <3>2
          <6>2. session'[s] # session[s]  BY <5>3 DEF NoSession
          <6>3. s \in SessionsOf(req[r].user)  BY <6>1, <6>2 DEF RevokeScan
          <6>4. None = req[r].user  BY <5>3, <6>3 DEF SessionsOf, NoSession
          <6>5. req[r].user \in Employees
            BY <6>1 DEF RevokeScan, At, StaffTypes, StaffRequestOK, StaffOps, Revoking, Passwords, Exits
          <6>6. session'[s].user = None /\ session'[s].era = 0  BY <5>3 DEF NoSession
          <6> QED  BY <6>4, <6>5, <6>6
        <5> QED  BY <4>1, <5>1, <5>2, <5>3
      <4> QED  BY <4>1, <4>2, <4>3 DEF StaffTypes
    <3>3. CASE \E r \in Requests : RevokeDelete(r)
      <4>1. DOMAIN session' = Sessions  BY <3>3 DEF RevokeDelete
      <4>2. \A s \in Sessions : \/ session'[s] = session[s]
                                \/ session'[s] = NoSession
                                \/ /\ session[s] # NoSession
                                   /\ session'[s] = [session[s] EXCEPT !.missed = TRUE]
        BY <3>3 DEF RevokeDelete
      <4>3. ASSUME NEW s \in Sessions, session'[s] # NoSession
            PROVE  session'[s].user \in Employees /\ session'[s].era \in Nat
        <5>1. CASE session'[s] = session[s]  BY <4>3, <5>1 DEF StaffTypes
        <5>2. CASE session'[s] = [session[s] EXCEPT !.missed = TRUE] /\ session[s] # NoSession
          <6>1. session'[s].user = session[s].user /\ session'[s].era = session[s].era  BY <5>2
          <6> QED  BY <5>2, <6>1 DEF StaffTypes
        <5> QED  BY <4>2, <4>3, <5>1, <5>2
      <4> QED  BY <3>0, <4>1, <4>2, <4>3 DEF StaffTypes
    <3> DEFINE SessionsStay == /\ DOMAIN session' = Sessions
                               /\ \A s \in Sessions : session'[s] = session[s] \/ session'[s] = NoSession
    <3>4. CASE SessionsStay  BY <3>0, <3>4 DEF StaffTypes
    <3>5. ASSUME UNCHANGED session PROVE SessionsStay  BY <3>5 DEF StaffTypes
    <3>6. ASSUME NEW s0, session' = [session EXCEPT ![s0] = NoSession] PROVE SessionsStay
      BY <3>6 DEF StaffTypes
    <3> HIDE DEF SessionsStay
    <3>7. ASSUME NEW r \in Requests, Call(r) PROVE SessionsStay
      BY <3>5, <3>7 DEF Call, RotateRead, PlaceRemoveRead, CreateAccountRead, LoginRead,
        FirebaseLoginRead, SignIn, Change, RemoveRead, DeactivateRead, AccountPasswordRead,
        ChangePasswordRead, ResetPasswordRead, AppointRead, UpdateRead, staffVars
    <3>8. ASSUME NEW r \in Requests,
                 \/ UpdateWrite(r) \/ CreateAccountWrite(r) \/ NotManager(r) \/ ChangeWrite(r)
                 \/ RotateDrop(r) \/ RefreshRecheck(r) \/ PlaceRemoveCount(r)
                 \/ PlaceRemoveWrite(r) \/ AppointStaff(r) \/ AppointWrite(r)
          PROVE  SessionsStay
      BY <3>5, <3>6, <3>8 DEF UpdateWrite, CreateAccountWrite, NotManager, ChangeWrite, RotateDrop,
        RefreshRecheck, PlaceRemoveCount, PlaceRemoveWrite, AppointStaff, AppointWrite, staffVars
    <3>9. CASE \/ \E s \in Sessions : Logout(s)
               \/ \E u \in Employees, p \in Places : Hire(u, p)
               \/ \E p \in Places : PlaceUpdate(p)
               \/ Outage
      <4>1. SessionsStay  BY <3>5, <3>6, <3>9 DEF Logout, Hire, PlaceUpdate, Outage
      <4> QED  BY <3>4, <4>1
    <3> QED  BY <1>3, <3>1, <3>2, <3>3, <3>4, <3>7, <3>8, <3>9 DEF StaffNext, Step
  <2>5. /\ DOMAIN place' = Places
        /\ \A p \in Places : /\ "status" \in DOMAIN place'[p] /\ "manager" \in DOMAIN place'[p]
                             /\ place'[p].status \in {"ACTIVE", "DELETED"}
    <3>1. CASE \E p \in Places : PlaceUpdate(p)  BY <3>1 DEF PlaceUpdate, StaffTypes
    <3>2. CASE \E r \in Requests : PlaceRemoveWrite(r)  BY <3>2 DEF PlaceRemoveWrite, StaffTypes
    <3>3. CASE \E r \in Requests : AppointWrite(r)  BY <3>3 DEF AppointWrite, StaffTypes
    <3>4. CASE UNCHANGED place  BY <3>4 DEF StaffTypes
    <3> QED
      BY ZenonT(60), <1>3, <3>1, <3>2, <3>3, <3>4
         DEF StaffNext, Hire, Logout, Outage, Step, Call, UpdateWrite,
          CreateAccountWrite, NotManager, ChangeWrite, RevokeScan, RevokeDelete, RotateDrop, RefreshRecheck,
          PlaceRemoveCount, AppointStaff, Issue, RotateRead, PlaceRemoveRead,
          CreateAccountRead, LoginRead, FirebaseLoginRead, SignIn, Change, RemoveRead, DeactivateRead,
          AccountPasswordRead, ChangePasswordRead, ResetPasswordRead, AppointRead, UpdateRead, staffVars
  <2> QED  BY <1>1, <2>1, <2>2, <2>3, <2>4, <2>5 DEF StaffTypes
<1> QED  BY <1>2, <1>3

LEMMA SessionsInit == Init => SessionInv
<1> SUFFICES ASSUME Init PROVE SessionInv  OBVIOUS
<1>1. StaffTypes
  BY InitNamed, IdleStaffOK DEF Init, RequestsInit, StaffInit, StaffTypes, NoSession
<1>2. SessionsCovered  BY DEF Init, StaffInit, SessionsCovered
<1>3. OpeningsCovered  BY DEF Init, RequestsInit, OpeningsCovered, Opens, Idle
<1> QED  BY <1>1, <1>2, <1>3 DEF SessionInv

\* A step in which nobody's sessions are ended and none is opened; what is about to
\* be opened is new, or is what some session was.
LEMMA QuietForSessions ==
  ASSUME SessionInv, UNCHANGED era,
         \A s \in Sessions : session'[s] = session[s] \/ session'[s] = NoSession,
         \A q \in Requests : Ends(req[q]) => req'[q] = req[q],
         \A q \in Requests : Opens(req'[q]) =>
           \/ /\ Opens(req[q]) /\ req'[q].user = req[q].user
              /\ req'[q].era = req[q].era /\ req'[q].missed = req[q].missed
           \/ req'[q].era = era[req'[q].user] /\ req'[q].user \in Employees
           \/ \E s \in Sessions : /\ session[s] # NoSession /\ req'[q].user = session[s].user
                                  /\ req'[q].era = session[s].era /\ req'[q].missed = session[s].missed
  PROVE  SessionsCovered' /\ OpeningsCovered'
<1>1. \A u \in Employees : era[u] \in Nat  BY DEF SessionInv, StaffTypes
<1>2. SessionsCovered'  BY DEF SessionInv, SessionsCovered
<1>3. ASSUME NEW q \in Requests, Opens(req'[q]), req'[q].era < era'[req'[q].user], ~req'[q].missed
      PROVE  \E r \in Requests : Ends(req'[r]) /\ req'[r].user = req'[q].user
  <2>1. CASE /\ Opens(req[q]) /\ req'[q].user = req[q].user
             /\ req'[q].era = req[q].era /\ req'[q].missed = req[q].missed
    <3>1. \E r \in Requests : Ends(req[r]) /\ req[r].user = req[q].user
      BY <1>3, <2>1 DEF SessionInv, OpeningsCovered
    <3> QED  BY <2>1, <3>1
  <2>2. CASE req'[q].era = era[req'[q].user] /\ req'[q].user \in Employees
    BY <1>1, <1>3, <2>2
  <2>3. CASE \E s \in Sessions :
               /\ session[s] # NoSession /\ req'[q].user = session[s].user
               /\ req'[q].era = session[s].era /\ req'[q].missed = session[s].missed
    <3>1. \E r \in Requests : Ends(req[r]) /\ req[r].user = req'[q].user
      BY <1>3, <2>3 DEF SessionInv, SessionsCovered
    <3> QED  BY <3>1
  <2> QED  BY <1>3, <2>1, <2>2, <2>3
<1> QED  BY <1>2, <1>3 DEF OpeningsCovered

\* One request goes on to x, quietly.
LEMMA QuietRequest ==
  ASSUME SessionInv, UNCHANGED era, NEW r \in Requests, NEW x, req' = [req EXCEPT ![r] = x],
         ~Ends(req[r]),
         \A s \in Sessions : session'[s] = session[s] \/ session'[s] = NoSession,
         Opens(x) =>
           \/ /\ Opens(req[r]) /\ x.user = req[r].user
              /\ x.era = req[r].era /\ x.missed = req[r].missed
           \/ x.era = era[x.user] /\ x.user \in Employees
           \/ \E s \in Sessions : /\ session[s] # NoSession /\ x.user = session[s].user
                                  /\ x.era = session[s].era /\ x.missed = session[s].missed
  PROVE  SessionsCovered' /\ OpeningsCovered'
<1>1. \A q \in Requests : req'[q] = IF q = r THEN x ELSE req[q]
  BY DEF SessionInv, StaffTypes, RequestsNamed
<1> QED  BY <1>1, QuietForSessions

LEMMA QuietDone ==
  ASSUME SessionInv, UNCHANGED <<era, session>>, NEW r \in Requests, req' = Done(r), ~Ends(req[r])
  PROVE  SessionsCovered' /\ OpeningsCovered'
BY QuietRequest DEF Done, Opens, Idle

LEMMA QuietGoTo ==
  ASSUME SessionInv, UNCHANGED era, NEW r \in Requests, NEW stage, req' = GoTo(r, stage),
         req[r].op # "idle", ~Ends(req[r]), stage = "issue" => Opens(req[r]), stage # "drop",
         \A s \in Sessions : session'[s] = session[s] \/ session'[s] = NoSession
  PROVE  SessionsCovered' /\ OpeningsCovered'
<1>1. PICK x : x = [req[r] EXCEPT !.at = stage]  OBVIOUS
<1>2. Named(req[r])  BY DEF SessionInv, StaffTypes, RequestsNamed
<1>3. /\ x.op = req[r].op /\ x.at = stage /\ x.user = req[r].user
      /\ x.era = req[r].era /\ x.missed = req[r].missed
  BY <1>1, <1>2 DEF Named
<1>4. req' = [req EXCEPT ![r] = x]  BY <1>1 DEF GoTo
<1>5. Opens(x) => Opens(req[r])  BY <1>3 DEF Opens
<1> QED  BY <1>3, <1>4, <1>5, QuietRequest

LEMMA QuietBegin ==
  ASSUME SessionInv, UNCHANGED <<era, session>>, NEW r \in Requests, NEW op, NEW x, Begin(r, op, x),
         Opens(x) =>
           \/ x.era = era[x.user] /\ x.user \in Employees
           \/ \E s \in Sessions : /\ session[s] # NoSession /\ x.user = session[s].user
                                  /\ x.era = session[s].era /\ x.missed = session[s].missed
  PROVE  SessionsCovered' /\ OpeningsCovered'
<1>1. req[r] = Idle /\ req' = [req EXCEPT ![r] = x]  BY DEF Begin, MayBegin
<1>2. ~Ends(req[r])  BY <1>1 DEF Ends, Idle, Revoking, Passwords, Exits
<1> QED  BY <1>1, <1>2, QuietRequest

\* The password changed, or the employee left: everything older is about to end.
LEMMA ChangeWriteSessions ==
  ASSUME SessionInv, NEW r \in Requests, ChangeWrite(r)
  PROVE  SessionsCovered' /\ OpeningsCovered'
<1> DEFINE u == req[r].user
<1>1. PICK x : x = [req[r] EXCEPT !.at = "scan"]  OBVIOUS
<1>2. Named(req[r]) /\ req[r].op \in Revoking /\ req[r].at = "write"
  BY DEF SessionInv, StaffTypes, RequestsNamed, ChangeWrite, At
<1>3. x.op = req[r].op /\ x.at = "scan" /\ x.user = u
  BY <1>1, <1>2 DEF Named, Revoking, Passwords, Exits
<1>4. \A q \in Requests : req'[q] = IF q = r THEN x ELSE req[q]
  BY <1>1 DEF ChangeWrite, ThenEndSessions, GoTo, SessionInv, StaffTypes, RequestsNamed
<1>5. UNCHANGED session /\ era' = [era EXCEPT ![u] = @ + 1]  BY DEF ChangeWrite
<1>6. \A v : v # u => era'[v] = era[v]  BY <1>5 DEF SessionInv, StaffTypes
<1>7. Ends(req'[r]) /\ req'[r].user = u /\ req'[r].at = "scan"
  BY <1>2, <1>3, <1>4 DEF Ends
<1>8. \A q \in Requests : Ends(req[q]) => req'[q] = req[q]
  BY <1>2, <1>4 DEF Ends
<1>9. \A q \in Requests : Opens(req'[q]) => req'[q] = req[q]
  BY <1>2, <1>3, <1>4 DEF Opens
<1> HIDE DEF u
<1>10. SessionsCovered'
  <2> SUFFICES ASSUME NEW s \in Sessions, session[s] # NoSession,
                      session[s].era < era'[session[s].user], ~session[s].missed
               PROVE  \E q \in Requests : /\ Ends(req'[q]) /\ req'[q].user = session[s].user
                                          /\ req'[q].at = "delete" => s \in req'[q].found
    BY <1>5 DEF SessionsCovered
  <2>1. CASE session[s].user = u  BY <1>7, <2>1
  <2>2. CASE session[s].user # u  BY <1>6, <1>8, <2>2 DEF SessionInv, SessionsCovered
  <2> QED  BY <2>1, <2>2
<1>11. OpeningsCovered'
  <2> SUFFICES ASSUME NEW q \in Requests, Opens(req'[q]),
                      req'[q].era < era'[req'[q].user], ~req'[q].missed
               PROVE  \E p \in Requests : Ends(req'[p]) /\ req'[p].user = req'[q].user
    BY DEF OpeningsCovered
  <2>1. CASE req'[q].user = u  BY <1>7, <2>1
  <2>2. CASE req'[q].user # u  BY <1>6, <1>8, <1>9, <2>2 DEF SessionInv, OpeningsCovered
  <2> QED  BY <2>1, <2>2
<1> QED  BY <1>10, <1>11

\* revokeAllFor lists the keys.
LEMMA RevokeScanSessions ==
  ASSUME SessionInv, NEW r \in Requests, RevokeScan(r)
  PROVE  SessionsCovered' /\ OpeningsCovered'
<1> DEFINE u == req[r].user
           found == IF redis THEN SessionsOf(u) ELSE {}
<1>1. PICK x : x = [op |-> req[r].op, at |-> "delete", user |-> u, found |-> found]  OBVIOUS
<1>2. req[r].op \in Revoking \cup {"rotate"} /\ req[r].at = "scan"  BY DEF RevokeScan, At
<1>3. req[r].op \in StaffOps \ {"placeRemove", "appoint"}
  BY <1>2 DEF Revoking, Passwords, Exits, StaffOps
<1>4. u \in Employees  BY <1>3 DEF SessionInv, StaffTypes, StaffRequestOK
<1>5. StaffRequestOK(x) /\ Named(x)  BY <1>1, <1>3, <1>4 DEF StaffRequestOK, Opens, Named
<1>6. req' = [Overlapped(u) EXCEPT ![r] = x]  BY <1>1 DEF RevokeScan
<1>7. /\ req'[r] = x
      /\ \A q \in Requests \ {r} : Opens(req[q]) /\ req[q].user = u => req'[q].missed = TRUE
      /\ \A q \in Requests \ {r} : ~(Opens(req[q]) /\ req[q].user = u) => req'[q] = req[q]
  <2>1. StaffTypes  BY DEF SessionInv
  <2> HIDE DEF u, found
  <2> QED  BY <1>5, <1>6, <2>1, MarkedStaff
<1>8. UNCHANGED era /\ \A s \in Sessions :
        session'[s] = IF ~redis /\ s \in SessionsOf(u) THEN [session[s] EXCEPT !.missed = TRUE]
                      ELSE session[s]
  BY DEF RevokeScan
<1>9. \A s : s \in SessionsOf(u) <=> s \in Sessions /\ session[s].user = u  BY DEF SessionsOf
<1>10. x.op = req[r].op /\ x.at = "delete" /\ x.user = u /\ x.found = found  BY <1>1
<1>11. \A q \in Requests \ {r} : Ends(req[q]) => req'[q] = req[q]
  BY <1>7 DEF Ends, Opens, Revoking, Passwords, Exits
<1>12. Ends(req[r]) => Ends(req'[r]) /\ req'[r].user = u /\ req'[r].found = found
  BY <1>7, <1>10 DEF Ends
<1> HIDE DEF u, found
<1>13. SessionsCovered'
  <2> SUFFICES ASSUME NEW s \in Sessions, session'[s] # NoSession,
                      session'[s].era < era[session'[s].user], ~session'[s].missed
               PROVE  \E q \in Requests : /\ Ends(req'[q]) /\ req'[q].user = session'[s].user
                                          /\ req'[q].at = "delete" => s \in req'[q].found
    BY <1>8 DEF SessionsCovered
  <2>1. session'[s] = session[s] /\ ~(~redis /\ s \in SessionsOf(u))
    <3>1. "missed" \in DOMAIN session[s]  BY DEF SessionInv, StaffTypes
    <3> QED  BY <1>8, <3>1
  <2>2. PICK q \in Requests : /\ Ends(req[q]) /\ req[q].user = session[s].user
                              /\ req[q].at = "delete" => s \in req[q].found
    BY <2>1 DEF SessionInv, SessionsCovered
  <2>3. CASE q # r  BY <1>11, <2>1, <2>2, <2>3
  <2>4. CASE q = r
    <3>1. session[s].user = u  BY <2>2, <2>4 DEF u
    <3>2. redis  BY <1>9, <2>1, <3>1
    <3>3. s \in found  BY <1>9, <3>1, <3>2 DEF found
    <3> QED  BY <1>12, <2>1, <2>2, <2>4, <3>1, <3>3
  <2> QED  BY <2>3, <2>4
<1>14. OpeningsCovered'
  <2> SUFFICES ASSUME NEW q \in Requests, Opens(req'[q]),
                      req'[q].era < era[req'[q].user], ~req'[q].missed
               PROVE  \E p \in Requests : Ends(req'[p]) /\ req'[p].user = req'[q].user
    BY <1>8 DEF OpeningsCovered
  <2>1. q # r  BY <1>7, <1>10 DEF Opens
  <2>2. req'[q] = req[q]  BY <1>7, <2>1
  <2>3. PICK p \in Requests : Ends(req[p]) /\ req[p].user = req[q].user
    BY <2>2 DEF SessionInv, OpeningsCovered
  <2> QED  BY <1>11, <1>12, <2>2, <2>3 DEF u
<1> QED  BY <1>13, <1>14

\* revokeAllFor deletes the keys it has listed.
LEMMA RevokeDeleteSessions ==
  ASSUME SessionInv, NEW r \in Requests, RevokeDelete(r)
  PROVE  SessionsCovered' /\ OpeningsCovered'
<1> DEFINE u == req[r].user
<1>1. req[r].op \in Revoking \cup {"rotate"} /\ req[r].at = "delete"  BY DEF RevokeDelete, At
<1>2. req' = [Overlapped(u) EXCEPT ![r] = Idle]  BY DEF RevokeDelete
<1>3. /\ req'[r] = Idle
      /\ \A q \in Requests \ {r} : Opens(req[q]) /\ req[q].user = u => req'[q].missed = TRUE
      /\ \A q \in Requests \ {r} : ~(Opens(req[q]) /\ req[q].user = u) => req'[q] = req[q]
  <2>1. StaffTypes  BY DEF SessionInv
  <2>2. StaffRequestOK(Idle) /\ Named(Idle)  BY IdleStaffOK, IdleNamed
  <2> HIDE DEF u
  <2> QED  BY <1>2, <2>1, <2>2, MarkedStaff
<1>4. UNCHANGED era /\ \A s \in Sessions :
        session'[s] = IF s \notin req[r].found \/ session[s] = NoSession THEN session[s]
                      ELSE IF redis THEN NoSession ELSE [session[s] EXCEPT !.missed = TRUE]
  BY DEF RevokeDelete
<1>5. \A q \in Requests \ {r} : Ends(req[q]) => req'[q] = req[q]
  BY <1>3 DEF Ends, Opens, Revoking, Passwords, Exits
<1>6. ~Opens(req'[r])  BY <1>3 DEF Opens, Idle
<1> HIDE DEF u
<1>7. SessionsCovered'
  <2> SUFFICES ASSUME NEW s \in Sessions, session'[s] # NoSession,
                      session'[s].era < era[session'[s].user], ~session'[s].missed
               PROVE  \E q \in Requests : /\ Ends(req'[q]) /\ req'[q].user = session'[s].user
                                          /\ req'[q].at = "delete" => s \in req'[q].found
    BY <1>4 DEF SessionsCovered
  <2>1. session'[s] = session[s] /\ s \notin req[r].found
    <3>1. "missed" \in DOMAIN session[s]  BY DEF SessionInv, StaffTypes
    <3> QED  BY <1>4, <3>1
  <2>2. PICK q \in Requests : /\ Ends(req[q]) /\ req[q].user = session[s].user
                              /\ req[q].at = "delete" => s \in req[q].found
    BY <2>1 DEF SessionInv, SessionsCovered
  <2>3. q # r  BY <1>1, <2>1, <2>2
  <2> QED  BY <1>5, <2>1, <2>2, <2>3
<1>8. OpeningsCovered'
  <2> SUFFICES ASSUME NEW q \in Requests, Opens(req'[q]),
                      req'[q].era < era[req'[q].user], ~req'[q].missed
               PROVE  \E p \in Requests : Ends(req'[p]) /\ req'[p].user = req'[q].user
    BY <1>4 DEF OpeningsCovered
  <2>1. q # r  BY <1>6
  <2>2. req'[q] = req[q] /\ req[q].user # u  BY <1>3, <2>1
  <2>3. PICK p \in Requests : Ends(req[p]) /\ req[p].user = req[q].user
    BY <2>2 DEF SessionInv, OpeningsCovered
  <2>4. p # r  BY <2>2, <2>3 DEF u
  <2> QED  BY <1>5, <2>2, <2>3, <2>4
<1> QED  BY <1>7, <1>8

\* issue stores a session, or finds Redis gone.
LEMMA IssueSessions ==
  ASSUME SessionInv, NEW r \in Requests, NEW s \in Sessions, Issue(r, s)
  PROVE  SessionsCovered' /\ OpeningsCovered'
<1> DEFINE u == req[r].user
<1>1. req[r].op \in {"login", "rotate"} /\ req[r].at = "issue" /\ Named(req[r])
  BY DEF Issue, At, SessionInv, StaffTypes, RequestsNamed
<1>2. PICK x : req' = [req EXCEPT ![r] = x] /\ ~Opens(x) /\ ~Ends(x)
  <2>1. CASE req[r].op = "login"
    <3>1. req' = [req EXCEPT ![r] = Idle]  BY <2>1 DEF Issue, Done
    <3>2. ~Opens(Idle) /\ ~Ends(Idle)  BY DEF Opens, Ends, Idle, Revoking, Passwords, Exits
    <3> QED  BY <3>1, <3>2
  <2>2. CASE req[r].op # "login"
    <3>1. PICK x : x = [req[r] EXCEPT !.at = "recheck"]  OBVIOUS
    <3>2. x.op = "rotate" /\ x.at = "recheck"  BY <1>1, <2>2, <3>1 DEF Named
    <3>3. ~Opens(x) /\ ~Ends(x)  BY <3>2 DEF Opens, Ends
    <3>4. req' = [req EXCEPT ![r] = x]  BY <2>2, <3>1 DEF Issue, GoTo
    <3> QED  BY <3>3, <3>4
  <2> QED  BY <2>1, <2>2
<1>3. \A q \in Requests : req'[q] = IF q = r THEN x ELSE req[q]
  BY <1>2 DEF SessionInv, StaffTypes, RequestsNamed
<1>4. ~Ends(req[r]) /\ Opens(req[r])  BY <1>1 DEF Ends, Opens, Revoking, Passwords, Exits
<1>5. UNCHANGED era  BY DEF Issue
<1>6. OpeningsCovered'  BY <1>2, <1>3, <1>4, <1>5 DEF SessionInv, OpeningsCovered
<1>7. ASSUME NEW k \in Sessions, session'[k] # NoSession,
             session'[k].era < era[session'[k].user], ~session'[k].missed
      PROVE  \E q \in Requests : /\ Ends(req'[q]) /\ req'[q].user = session'[k].user
                                 /\ req'[q].at = "delete" => k \in req'[q].found
  <2>1. CASE session'[k] = session[k]
    <3>1. \E q \in Requests : /\ Ends(req[q]) /\ req[q].user = session[k].user
                              /\ req[q].at = "delete" => k \in req[q].found
      BY <1>7, <2>1 DEF SessionInv, SessionsCovered
    <3> QED  BY <1>3, <1>4, <2>1, <3>1
  <2>2. CASE session'[k] # session[k]
    <3>1. PICK m \in BOOLEAN : /\ session' = [session EXCEPT ![s] = [user |-> u, era |-> req[r].era, missed |-> m]]
                               /\ m <=> req[r].missed \/ BeingRevoked(u)
      BY <2>2 DEF Issue
    <3>2. k = s  BY <2>2, <3>1
    <3>3. session'[s] = [user |-> u, era |-> req[r].era, missed |-> m]
      BY <3>1 DEF SessionInv, StaffTypes
    <3>4. session'[s].user = u /\ session'[s].era = req[r].era /\ session'[s].missed = m
      BY <3>3
    <3>5. ~req[r].missed /\ ~BeingRevoked(u)  BY <1>7, <3>1, <3>2, <3>4
    <3>6. PICK q \in Requests : Ends(req[q]) /\ req[q].user = u
      BY <1>4, <1>7, <3>2, <3>4, <3>5 DEF SessionInv, OpeningsCovered
    <3>7. req[q].at # "delete"  BY <3>5, <3>6 DEF BeingRevoked, At, Ends
    <3>8. req'[q] = req[q]  BY <1>3, <1>4, <3>6
    <3> QED  BY <3>2, <3>4, <3>6, <3>7, <3>8
  <2> QED  BY <2>1, <2>2
<1> QED  BY <1>5, <1>6, <1>7 DEF SessionsCovered

LEMMA SessionsStaffStep ==
  ASSUME SessionInv, StaffNext
  PROVE  SessionsCovered' /\ OpeningsCovered'
<1> DEFINE Held == SessionsCovered' /\ OpeningsCovered'
<1>1. ASSUME UNCHANGED <<req, era>>, \A s \in Sessions : session'[s] = session[s] \/ session'[s] = NoSession
      PROVE  Held
  BY <1>1, QuietForSessions
<1>2. ASSUME NEW r \in Requests, UpdateWrite(r) \/ CreateAccountWrite(r) \/ PlaceRemoveWrite(r) \/ AppointWrite(r)
      PROVE  Held
  BY <1>2, QuietDone DEF UpdateWrite, CreateAccountWrite, PlaceRemoveWrite, AppointWrite, At, Ends
<1>3. ASSUME NEW r \in Requests, NotManager(r) \/ PlaceRemoveCount(r) \/ AppointStaff(r) \/ RefreshRecheck(r)
      PROVE  Held
  <2>1. UNCHANGED <<era, session>>
    BY <1>3 DEF NotManager, PlaceRemoveCount, AppointStaff, RefreshRecheck, staffVars
  <2>2. ~Ends(req[r]) /\ req[r].op # "idle"
    BY <1>3 DEF NotManager, PlaceRemoveCount, AppointStaff, RefreshRecheck, At, Ends, Exits
  <2>3. req' = Done(r) \/ req' = GoTo(r, "write") \/ req' = GoTo(r, "scan")
    BY <1>3 DEF NotManager, PlaceRemoveCount, AppointStaff, RefreshRecheck
  <2> QED  BY <2>1, <2>2, <2>3, QuietDone, QuietGoTo
<1>4. ASSUME NEW r \in Requests, RotateDrop(r) PROVE Held
  <2>1. UNCHANGED era /\ req' = GoTo(r, "issue")  BY <1>4 DEF RotateDrop
  <2>2. ~Ends(req[r]) /\ Opens(req[r]) /\ req[r].op # "idle"
    BY <1>4 DEF RotateDrop, At, Ends, Opens
  <2>3. \A s \in Sessions : session'[s] = session[s] \/ session'[s] = NoSession
    BY <1>4 DEF RotateDrop, SessionInv, StaffTypes
  <2> QED  BY <2>1, <2>2, <2>3, QuietGoTo
<1>5. ASSUME NEW r \in Requests, Call(r) PROVE Held
  <2>1. ASSUME NEW u, NEW at, NEW op \in Revoking, Change(r, op, u, at) PROVE Held
    <3>1. PICK x : x = [op |-> op, user |-> u, at |-> at]  OBVIOUS
    <3>2. ~Opens(x)  BY <3>1 DEF Opens, Revoking, Passwords, Exits
    <3> QED  BY <2>1, <3>1, <3>2, QuietBegin DEF Change, staffVars
  <2>2. ASSUME NEW u \in Employees, SignIn(r, u) PROVE Held
    <3>1. PICK x : x = [op |-> "login", at |-> "issue", user |-> u, era |-> era[u], missed |-> FALSE]  OBVIOUS
    <3>2. x.era = era[x.user] /\ x.user \in Employees  BY <3>1
    <3> QED  BY <2>2, <3>1, <3>2, QuietBegin DEF SignIn, staffVars
  <2>3. ASSUME NEW s \in Sessions, RotateRead(r, s) PROVE Held
    <3>1. PICK x : x = [op |-> "rotate", at |-> "drop", user |-> session[s].user,
                        era |-> session[s].era, missed |-> session[s].missed, old |-> s]  OBVIOUS
    <3>2. x.user = session[s].user /\ x.era = session[s].era /\ x.missed = session[s].missed  BY <3>1
    <3>3. session[s] # NoSession /\ UNCHANGED <<era, session>> /\ Begin(r, "rotate", x)
      BY <2>3, <3>1 DEF RotateRead, staffVars
    <3> QED  BY <3>2, <3>3, QuietBegin
  <2>4. ASSUME NEW op, NEW x, Begin(r, op, x), x.op \in {"createAccount", "placeRemove", "appoint", "update"},
               UNCHANGED staffVars
        PROVE  Held
    BY <2>4, QuietBegin DEF Opens, staffVars
  <2>5. ASSUME NEW u, NEW p, PlaceRemoveRead(r, p) \/ AppointRead(r, p, u) PROVE Held
    BY <2>4, <2>5 DEF PlaceRemoveRead, AppointRead
  <2>6. ASSUME NEW u, NEW p, CreateAccountRead(r, u) \/ UpdateRead(r, u, p) PROVE Held
    BY <2>4, <2>6 DEF CreateAccountRead, UpdateRead
  <2>7. ASSUME NEW u \in Employees,
               \/ RemoveRead(r, u) \/ DeactivateRead(r, u) \/ AccountPasswordRead(r, u)
               \/ ChangePasswordRead(r, u) \/ ResetPasswordRead(r, u)
        PROVE  Held
    BY <2>1, <2>7 DEF RemoveRead, DeactivateRead, AccountPasswordRead, ChangePasswordRead,
         ResetPasswordRead, Revoking, Passwords, Exits
  <2>8. ASSUME NEW u \in Employees, LoginRead(r, u) \/ FirebaseLoginRead(r, u) PROVE Held
    BY <2>2, <2>8 DEF LoginRead, FirebaseLoginRead
  <2> HIDE DEF Held
  <2> QED  BY <1>5, <2>3, <2>5, <2>6, <2>7, <2>8 DEF Call
<1>6. ASSUME NEW r \in Requests, Step(r) PROVE Held
  BY <1>2, <1>3, <1>4, <1>6, ChangeWriteSessions, RevokeScanSessions, RevokeDeleteSessions,
     IssueSessions DEF Step
<1>7. ASSUME NEW s \in Sessions, Logout(s) PROVE Held
  BY <1>1, <1>7 DEF Logout, SessionInv, StaffTypes
<1>8. CASE \/ \E u \in Employees, p \in Places : Hire(u, p)
           \/ \E p \in Places : PlaceUpdate(p)
           \/ Outage
  BY <1>1, <1>8 DEF Hire, PlaceUpdate, Outage
<1> QED  BY <1>5, <1>6, <1>7, <1>8 DEF StaffNext

LEMMA SessionsStep ==
  ASSUME SessionInv, [Next]_vars
  PROVE  SessionInv'
<1>1. StaffTypes'  BY StaffTypesStep DEF SessionInv
<1>2. CASE StaffNext  BY <1>1, <1>2, SessionsStaffStep DEF SessionInv
<1>3. CASE ~StaffNext
  <2>1. Keeps(StaffOps) /\ UNCHANGED <<session, era>>
    BY <1>3, StaffUntouched DEF SessionInv, StaffTypes
  <2>2. \A q \in Requests : Ends(req[q]) => req'[q] = req[q]
    BY <2>1 DEF Keeps, Ends, Revoking, Passwords, Exits, StaffOps
  <2>3. \A q \in Requests : Opens(req'[q]) => req'[q] = req[q]
    BY <2>1 DEF Keeps, Opens, StaffOps
  <2> QED  BY <1>1, <2>1, <2>2, <2>3, QuietForSessions DEF SessionInv
<1> QED  BY <1>2, <1>3

LEMMA SessionInvEnds == SessionInv => OldSessionsEnd
BY DEF SessionInv, SessionsCovered, OldSessionsEnd, Ends

\* Every password change, lock-out and removal ends the sessions opened before it,
\* whatever signs in or is renewed meanwhile, unless it overlapped the ending itself
\* or Redis was away.
THEOREM SessionsEnd == Spec => []OldSessionsEnd
<1>1. Init => SessionInv  BY SessionsInit
<1>2. SessionInv /\ [Next]_vars => SessionInv'  BY SessionsStep
<1>3. SessionInv => OldSessionsEnd  BY SessionInvEnds
<1> QED  BY <1>1, <1>2, <1>3, PTL DEF Spec

------------------------------------------------------------------------------
(* Managers *)

\* A request that is about to lock an employee out, or to remove them.
Leaves(x) == x.op \in Exits /\ x.at = "write"

ExitsChecked ==
  \A r \in Requests : Leaves(req[r]) =>
    \A p \in Places : place[p].manager # None /\ place[p].manager = req[r].user => p \in doubtful
ManagersEmployed == \A p \in Places : place[p].manager # None => place[p].manager \in Employees

ManagerInv == StaffTypes /\ ManagersEmployed /\ ExitsChecked /\ ManagerStands

\* A step that appoints nobody: who stops working manages nothing, and so does
\* whoever may now be locked out.
LEMMA QuietForManagers ==
  ASSUME ManagerInv, UNCHANGED place, doubtful \subseteq doubtful',
         \A u \in Employees : status[u] = "ACTIVE" =>
           \/ status'[u] = "ACTIVE"
           \/ \A p \in Places : place[p].manager # None /\ place[p].manager = u => p \in doubtful',
         \A q \in Requests : Leaves(req'[q]) =>
           \/ Leaves(req[q]) /\ req'[q].user = req[q].user
           \/ MayLeave(req'[q].user)
  PROVE  ManagersEmployed' /\ ExitsChecked' /\ ManagerStands'
<1>1. ManagersEmployed'  BY DEF ManagerInv, ManagersEmployed
<1>2. ExitsChecked'  BY DEF ManagerInv, ExitsChecked, MayLeave
<1>3. ManagerStands'  BY DEF ManagerInv, ManagerStands, ManagersEmployed
<1> QED  BY <1>1, <1>2, <1>3

\* One request goes on to x.
LEMMA QuietManagerRequest ==
  ASSUME ManagerInv, UNCHANGED <<place, doubtful>>, NEW r \in Requests, NEW x,
         req' = [req EXCEPT ![r] = x],
         \A u \in Employees : status[u] = "ACTIVE" => status'[u] = "ACTIVE",
         Leaves(x) => MayLeave(x.user)
  PROVE  ManagersEmployed' /\ ExitsChecked' /\ ManagerStands'
<1>1. \A q \in Requests : req'[q] = IF q = r THEN x ELSE req[q]
  BY DEF ManagerInv, StaffTypes, RequestsNamed
<1> QED  BY <1>1, QuietForManagers

LEMMA DoneManagers ==
  ASSUME ManagerInv, UNCHANGED <<place, doubtful>>, NEW r \in Requests, req' = Done(r),
         \A u \in Employees : status[u] = "ACTIVE" => status'[u] = "ACTIVE"
  PROVE  ManagersEmployed' /\ ExitsChecked' /\ ManagerStands'
BY QuietManagerRequest DEF Done, Idle, Leaves, Exits

\* What a request that goes on keeps.
LEMMA GoesOn ==
  ASSUME RequestsNamed, NEW r \in Requests, NEW stage, req' = GoTo(r, stage), req[r].op # "idle"
  PROVE  /\ req'[r].op = req[r].op /\ req'[r].at = stage
         /\ req'[r].user = req[r].user /\ req'[r].place = req[r].place
         /\ req' = [req EXCEPT ![r] = req'[r]]
<1>1. PICK x : x = [req[r] EXCEPT !.at = stage]  OBVIOUS
<1>2. Named(req[r])  BY DEF RequestsNamed
<1>3. x.op = req[r].op /\ x.at = stage /\ x.user = req[r].user /\ x.place = req[r].place
  BY <1>1, <1>2 DEF Named
<1>4. req' = [req EXCEPT ![r] = x]  BY <1>1 DEF GoTo
<1>5. req'[r] = x  BY <1>4 DEF RequestsNamed
<1> QED  BY <1>3, <1>4, <1>5

LEMMA GoToManagers ==
  ASSUME ManagerInv, UNCHANGED <<place, doubtful, status>>, NEW r \in Requests, NEW stage,
         req' = GoTo(r, stage), req[r].op # "idle",
         stage = "write" => req[r].op \notin Exits \/ MayLeave(req[r].user)
  PROVE  ManagersEmployed' /\ ExitsChecked' /\ ManagerStands'
<1>1. RequestsNamed  BY DEF ManagerInv, StaffTypes
<1> QED  BY <1>1, GoesOn, QuietManagerRequest DEF Leaves

LEMMA ChangeWriteManagers ==
  ASSUME ManagerInv, NEW r \in Requests, ChangeWrite(r)
  PROVE  ManagersEmployed' /\ ExitsChecked' /\ ManagerStands'
<1> DEFINE u == req[r].user
           op == req[r].op
<1>1. RequestsNamed /\ op # "idle"
  BY DEF ManagerInv, StaffTypes, ChangeWrite, At, Revoking, Passwords, Exits
<1>2. UNCHANGED place /\ doubtful \subseteq doubtful'  BY DEF ChangeWrite
<1>3. \A q \in Requests : Leaves(req'[q]) => Leaves(req[q]) /\ req'[q].user = req[q].user
  <2>1. req' = GoTo(r, "scan")  BY DEF ChangeWrite, ThenEndSessions
  <2>2. req'[r].at = "scan" /\ req' = [req EXCEPT ![r] = req'[r]]  BY <1>1, <2>1, GoesOn
  <2>3. \A q \in Requests : req'[q] = IF q = r THEN req'[r] ELSE req[q]  BY <1>1, <2>2 DEF RequestsNamed
  <2> QED  BY <2>2, <2>3 DEF Leaves
<1>4. ASSUME NEW v \in Employees, status[v] = "ACTIVE", status'[v] # "ACTIVE"
      PROVE  \A p \in Places : place[p].manager # None /\ place[p].manager = v => p \in doubtful'
  <2>1. v = u /\ op \in Exits
    <3>1. op \in Exits
      BY <1>4 DEF ChangeWrite, At, Revoking, Exits, Passwords
    <3>2. \/ status' = [status EXCEPT ![u] = "INACTIVE"]
          \/ status' = [status EXCEPT ![u] = "DELETED"]
      BY <3>1 DEF ChangeWrite, Exits
    <3> QED  BY <1>4, <3>1, <3>2 DEF ManagerInv, StaffTypes
  <2>2. Leaves(req[r])  BY <2>1 DEF ChangeWrite, At, Leaves
  <2> QED  BY <1>2, <2>1, <2>2 DEF ManagerInv, ExitsChecked
<1> QED  BY <1>2, <1>3, <1>4, QuietForManagers

\* Marking the openings of an employee changes no request otherwise.
LEMMA MarkedStays ==
  ASSUME RequestsNamed, NEW u, NEW r \in Requests, NEW x, req' = [Overlapped(u) EXCEPT ![r] = x]
  PROVE  /\ req'[r] = x
         /\ \A q \in Requests \ {r} :
              req'[q].op = req[q].op /\ req'[q].at = req[q].at /\ req'[q].user = req[q].user
<1>1. req'[r] = x  BY DEF Overlapped
<1>2. ASSUME NEW q \in Requests \ {r}
      PROVE  req'[q].op = req[q].op /\ req'[q].at = req[q].at /\ req'[q].user = req[q].user
  <2>1. PICK y : y = [req[q] EXCEPT !.missed = TRUE]  OBVIOUS
  <2>2. y.op = req[q].op /\ y.at = req[q].at /\ y.user = req[q].user  BY <2>1
  <2>3. req'[q] = req[q] \/ req'[q] = y  BY <2>1 DEF Overlapped
  <2> QED  BY <2>2, <2>3
<1> QED  BY <1>1, <1>2

LEMMA RevokeManagers ==
  ASSUME ManagerInv, NEW r \in Requests, RevokeScan(r) \/ RevokeDelete(r)
  PROVE  ManagersEmployed' /\ ExitsChecked' /\ ManagerStands'
<1>1. RequestsNamed  BY DEF ManagerInv, StaffTypes
<1>2. PICK x : req' = [Overlapped(req[r].user) EXCEPT ![r] = x] /\ ~Leaves(x)
  <2>1. CASE RevokeScan(r)
    <3>1. PICK x : x = [op |-> req[r].op, at |-> "delete", user |-> req[r].user,
                        found |-> IF redis THEN SessionsOf(req[r].user) ELSE {}]  OBVIOUS
    <3>2. ~Leaves(x)  BY <3>1 DEF Leaves
    <3> QED  BY <2>1, <3>1, <3>2 DEF RevokeScan
  <2>2. CASE RevokeDelete(r)
    <3>1. ~Leaves(Idle)  BY DEF Idle, Leaves, Exits
    <3> QED  BY <2>2, <3>1 DEF RevokeDelete
  <2> QED  BY <2>1, <2>2
<1>3. ASSUME NEW q \in Requests, Leaves(req'[q]) PROVE Leaves(req[q]) /\ req'[q].user = req[q].user
  <2>1. req'[r] = x  BY ZenonT(60), <1>1, <1>2, MarkedStays
  <2>2. q # r  BY <1>2, <1>3, <2>1
  <2>3. req'[q].op = req[q].op /\ req'[q].at = req[q].at /\ req'[q].user = req[q].user
    BY <1>1, <1>2, <2>2, MarkedStays
  <2> QED  BY <1>3, <2>3 DEF Leaves
<1>4. UNCHANGED <<status, place, doubtful>>  BY DEF RevokeScan, RevokeDelete
<1> QED  BY <1>3, <1>4, QuietForManagers

\* The appointment puts the place among the doubtful ones, or has found nobody
\* about to lock the new manager out.
LEMMA AppointWriteManagers ==
  ASSUME ManagerInv, NEW r \in Requests, AppointWrite(r)
  PROVE  ManagersEmployed' /\ ExitsChecked' /\ ManagerStands'
<1> DEFINE u == req[r].user
           p == req[r].place
<1>1. u \in Employees /\ p \in Places
  BY DEF AppointWrite, At, ManagerInv, StaffTypes, StaffRequestOK, StaffOps
<1>2. \A k \in Places : /\ place'[k].manager = IF k = p THEN u ELSE place[k].manager
                        /\ place'[k].status = place[k].status
  BY DEF AppointWrite, ManagerInv, StaffTypes
<1>3. UNCHANGED status /\ doubtful' = IF AppointmentIsLate(u, p) THEN doubtful \cup {p}
                                      ELSE doubtful \ {p}
  BY DEF AppointWrite
<1>4. \A q \in Requests : Leaves(req'[q]) => q # r /\ req'[q] = req[q]
  BY DEF AppointWrite, Done, Idle, Leaves, Exits, ManagerInv, StaffTypes, RequestsNamed
<1>5. ManagersEmployed'  BY <1>1, <1>2 DEF ManagerInv, ManagersEmployed
<1>6. ExitsChecked'
  <2>1. ASSUME NEW q \in Requests, Leaves(req'[q]), NEW k \in Places,
               place'[k].manager # None, place'[k].manager = req'[q].user
        PROVE  k \in doubtful'
    <3>1. Leaves(req[q]) /\ req'[q].user = req[q].user  BY <1>4, <2>1
    <3>2. CASE k # p  BY <1>2, <1>3, <2>1, <3>1, <3>2 DEF ManagerInv, ExitsChecked
    <3>3. CASE k = p
      <4>1. req[q].user = u  BY <1>2, <2>1, <3>1, <3>3
      <4>2. AppointmentIsLate(u, p)  BY <3>1, <4>1 DEF AppointmentIsLate, Leaves, At
      <4> QED  BY <1>3, <3>3, <4>2
    <3> QED  BY <3>2, <3>3
  <2> QED  BY <2>1 DEF ExitsChecked
<1>7. ManagerStands'
  <2>1. ASSUME NEW k \in Places, place'[k].manager # None, k \notin doubtful'
        PROVE  status'[place'[k].manager] = "ACTIVE" /\ place'[k].status = "ACTIVE"
    <3>1. CASE k # p  BY <1>2, <1>3, <2>1, <3>1 DEF ManagerInv, ManagerStands
    <3>2. CASE k = p
      <4>1. ~AppointmentIsLate(u, p)  BY <1>3, <2>1, <3>2
      <4>2. place[p].status \in {"ACTIVE", "DELETED"}  BY <1>1 DEF ManagerInv, StaffTypes
      <4> QED  BY <1>2, <1>3, <3>2, <4>1, <4>2 DEF AppointmentIsLate
    <3> QED  BY <3>1, <3>2
  <2> QED  BY <2>1 DEF ManagerStands
<1> QED  BY <1>5, <1>6, <1>7

LEMMA PlaceWriteManagers ==
  ASSUME ManagerInv,
         \/ \E r \in Requests : PlaceRemoveWrite(r)
         \/ \E p \in Places : PlaceUpdate(p)
  PROVE  ManagersEmployed' /\ ExitsChecked' /\ ManagerStands'
<1>1. PICK p \in Places :
        /\ \A k \in Places : k # p => place'[k] = place[k]
        /\ \/ place'[p].manager = None
           \/ place'[p].status = "ACTIVE" /\ place'[p].manager = place[p].manager
  <2>1. CASE \E r \in Requests : PlaceRemoveWrite(r)
    <3>1. PICK r \in Requests : PlaceRemoveWrite(r)  BY <2>1
    <3>2. req[r].place \in Places
      BY <3>1 DEF PlaceRemoveWrite, At, ManagerInv, StaffTypes, StaffRequestOK
    <3>3. /\ \A k \in Places : k # req[r].place => place'[k] = place[k]
          /\ place'[req[r].place] = [status |-> "DELETED", manager |-> None]
      BY <3>1, <3>2 DEF PlaceRemoveWrite, ManagerInv, StaffTypes
    <3> QED  BY <3>2, <3>3
  <2>2. CASE \E p \in Places : PlaceUpdate(p)  BY <2>2 DEF PlaceUpdate, ManagerInv, StaffTypes
  <2> QED  BY <2>1, <2>2
<1>2. UNCHANGED <<status, doubtful>>  BY DEF PlaceRemoveWrite, PlaceUpdate
<1>3. \A q \in Requests : Leaves(req'[q]) => req'[q] = req[q]
  BY DEF PlaceRemoveWrite, PlaceUpdate, Done, Idle, Leaves, Exits, ManagerInv, StaffTypes, RequestsNamed
<1>4. ManagersEmployed'  BY <1>1 DEF ManagerInv, ManagersEmployed
<1>5. ExitsChecked'  BY <1>1, <1>2, <1>3 DEF ManagerInv, ExitsChecked
<1>6. ManagerStands'  BY <1>1, <1>2 DEF ManagerInv, ManagerStands
<1> QED  BY <1>4, <1>5, <1>6

LEMMA ManagersStaffStep ==
  ASSUME ManagerInv, StaffNext
  PROVE  ManagersEmployed' /\ ExitsChecked' /\ ManagerStands'
<1> DEFINE Held == ManagersEmployed' /\ ExitsChecked' /\ ManagerStands'
<1>0. RequestsNamed  BY DEF ManagerInv, StaffTypes
<1>1. ASSUME NEW r \in Requests, NEW s \in Sessions, Issue(r, s) PROVE Held
  BY <1>1, DoneManagers, GoToManagers DEF Issue, At
<1>2. ASSUME NEW r \in Requests, UpdateWrite(r) PROVE Held
  BY <1>2, DoneManagers DEF UpdateWrite
<1>3. ASSUME NEW r \in Requests, CreateAccountWrite(r) PROVE Held
  <2>1. \A u \in Employees : status[u] = "ACTIVE" => status'[u] = "ACTIVE"
    BY <1>3 DEF CreateAccountWrite, ManagerInv, StaffTypes
  <2> QED  BY <1>3, <2>1, DoneManagers DEF CreateAccountWrite
<1>4. ASSUME NEW r \in Requests,
             \/ NotManager(r) \/ RotateDrop(r) \/ RefreshRecheck(r) \/ PlaceRemoveCount(r) \/ AppointStaff(r)
      PROVE  Held
  <2>1. UNCHANGED <<status, place, doubtful>>
    BY <1>4 DEF NotManager, RotateDrop, RefreshRecheck, PlaceRemoveCount, AppointStaff, staffVars
  <2>2. \/ req' = Done(r)
        \/ \E stage : /\ req' = GoTo(r, stage) /\ req[r].op # "idle"
                      /\ stage = "write" => req[r].op \notin Exits \/ MayLeave(req[r].user)
    BY <1>4 DEF NotManager, RotateDrop, RefreshRecheck, PlaceRemoveCount, AppointStaff, At, Exits
  <2> QED  BY <2>1, <2>2, DoneManagers, GoToManagers
<1>5. ASSUME NEW r \in Requests, NEW op, NEW x, Begin(r, op, x), ~Leaves(x), UNCHANGED staffVars
      PROVE  Held
  BY <1>5, QuietManagerRequest DEF Begin, staffVars
<1>6. ASSUME NEW r \in Requests, Call(r) PROVE Held
  <2>1. ASSUME NEW u, NEW at, NEW op, op \in Passwords \/ at # "write", Change(r, op, u, at) PROVE Held
    BY <1>5, <2>1 DEF Change, Leaves, Exits, Passwords
  <2>2. ASSUME NEW u, SignIn(r, u) PROVE Held  BY <1>5, <2>2 DEF SignIn, Leaves, Exits
  <2>3. ASSUME NEW s, RotateRead(r, s) PROVE Held  BY <1>5, <2>3 DEF RotateRead, Leaves, Exits
  <2>4. ASSUME NEW u, NEW p, PlaceRemoveRead(r, p) \/ AppointRead(r, p, u) PROVE Held
    BY <1>5, <2>4 DEF PlaceRemoveRead, AppointRead, Leaves, Exits
  <2>5. ASSUME NEW u, NEW p, CreateAccountRead(r, u) \/ UpdateRead(r, u, p) PROVE Held
    BY <1>5, <2>5 DEF CreateAccountRead, UpdateRead, Leaves, Exits
  <2>6. ASSUME NEW u, RemoveRead(r, u) \/ DeactivateRead(r, u) PROVE Held
    BY <2>1, <2>6 DEF RemoveRead, DeactivateRead
  <2>7. ASSUME NEW u, AccountPasswordRead(r, u) \/ ChangePasswordRead(r, u) \/ ResetPasswordRead(r, u)
        PROVE Held
    BY <2>1, <2>7 DEF AccountPasswordRead, ChangePasswordRead, ResetPasswordRead, Passwords
  <2>8. ASSUME NEW u, LoginRead(r, u) \/ FirebaseLoginRead(r, u) PROVE Held
    BY <2>2, <2>8 DEF LoginRead, FirebaseLoginRead
  <2> HIDE DEF Held
  <2> QED  BY <1>6, <2>3, <2>4, <2>5, <2>6, <2>7, <2>8 DEF Call
<1>7. ASSUME NEW r \in Requests, Step(r) PROVE Held
  BY <1>1, <1>2, <1>3, <1>4, <1>7, ChangeWriteManagers, RevokeManagers, AppointWriteManagers,
     PlaceWriteManagers DEF Step
<1>8. CASE \E u \in Employees, p \in Places : Hire(u, p)
  <2>1. \A v \in Employees : status[v] = "ACTIVE" => status'[v] = "ACTIVE"
    BY <1>8 DEF Hire, ManagerInv, StaffTypes
  <2> QED  BY <1>8, <2>1, QuietForManagers DEF Hire
<1>9. CASE Outage \/ \E s \in Sessions : Logout(s)
  BY <1>9, QuietForManagers DEF Outage, Logout
<1>10. ASSUME NEW p \in Places, PlaceUpdate(p) PROVE Held  BY <1>10, PlaceWriteManagers
<1>11. CASE \E r \in Requests : Step(r) \/ Call(r)  BY <1>6, <1>7, <1>11
<1> QED  BY <1>8, <1>9, <1>10, <1>11 DEF StaffNext

LEMMA ManagersStep ==
  ASSUME ManagerInv, [Next]_vars
  PROVE  ManagerInv'
<1>1. StaffTypes'  BY StaffTypesStep DEF ManagerInv
<1>2. CASE StaffNext  BY <1>1, <1>2, ManagersStaffStep DEF ManagerInv
<1>3. CASE ~StaffNext
  <2>1. /\ Keeps(StaffOps) /\ UNCHANGED <<place, doubtful>>
        /\ \A u \in Employees : status[u] = "ACTIVE" => status'[u] = "ACTIVE"
    BY <1>3, StaffUntouched DEF ManagerInv, StaffTypes
  <2>2. \A q \in Requests : Leaves(req'[q]) => req'[q] = req[q]
    BY <2>1 DEF Keeps, Leaves, Exits, StaffOps
  <2> QED  BY <1>1, <2>1, <2>2, QuietForManagers DEF ManagerInv
<1> QED  BY <1>2, <1>3

LEMMA ManagersInit == Init => ManagerInv
<1> SUFFICES ASSUME Init PROVE ManagerInv  OBVIOUS
<1>1. StaffTypes  BY SessionsInit DEF SessionInv
<1>2. ExitsChecked  BY DEF Init, RequestsInit, ExitsChecked, Leaves, Exits, Idle
<1>3. ManagersEmployed /\ ManagerStands
  BY DEF Init, StaffInit, ManagersEmployed, ManagerStands
<1> QED  BY <1>1, <1>2, <1>3 DEF ManagerInv

\* A place is never left to a manager who was locked out or removed, nor a deleted
\* place to anybody, unless the appointment overlapped that: the check before
\* either still holds when it is written.
THEOREM ManagersStand == Spec => []ManagerStands
<1>1. Init => ManagerInv  BY ManagersInit
<1>2. ManagerInv /\ [Next]_vars => ManagerInv'  BY ManagersStep
<1>3. ManagerInv => ManagerStands  BY DEF ManagerInv
<1> QED  BY <1>1, <1>2, <1>3, PTL DEF Spec

------------------------------------------------------------------------------
(* The steps of an order *)

\* On what ground a step was let through, when it has been and is not yet written.
StepOwned(x) ==
  x.op = "step" /\ x.at = "write" =>
    /\ x.access \in {"OWNER", "ASSIGNEE", "DRIVER", "PERMISSION"}
    /\ x.access = "OWNER" => x.by = Owner
    /\ x.access = "ASSIGNEE" => x.step # "ship"
    /\ x.access = "DRIVER" => x.step \in {"pickUp", "deliver", "log", "fail"}
    /\ x.access = "PERMISSION" => x.permitted /\ x.step \notin {"pickUp", "deliver"}

HandlingInv == RequestsNamed /\ \A r \in Requests : StepOwned(req[r])

\* What the checks of order-handler.ts and shipment-actor.ts let through.
LEMMA AccessIsEarned ==
  ASSUME NEW by, NEW step \in Steps, AccessTo(by, step) # None
  PROVE  /\ AccessTo(by, step) \in {"OWNER", "ASSIGNEE", "DRIVER", "PERMISSION"}
         /\ AccessTo(by, step) = "OWNER" => by = Owner
         /\ AccessTo(by, step) = "ASSIGNEE" => step # "ship"
         /\ AccessTo(by, step) = "DRIVER" => step \in {"pickUp", "deliver", "log", "fail"}
         /\ AccessTo(by, step) = "PERMISSION" =>
              Permitted(by, step) /\ step \in DOMAIN StepPermission /\ step \notin {"pickUp", "deliver"}
<1>1. \/ AccessTo(by, step) = "OWNER" /\ by = Owner
      \/ AccessTo(by, step) = "ASSIGNEE" /\ step # "ship"
      \/ AccessTo(by, step) = "DRIVER" /\ step \in {"pickUp", "deliver", "log", "fail"}
      \/ /\ AccessTo(by, step) = "PERMISSION" /\ Permitted(by, step)
         /\ step \notin {"pickUp", "deliver"}
  BY DEF AccessTo, TrackingAccess, DeliveryAccess, OrderStepAccess, AssigneeSteps
<1>2. step \in DOMAIN StepPermission \cup {"pickUp", "deliver"}  BY DEF Steps
<1> QED  BY <1>1, <1>2

LEMMA StepReadOwned ==
  ASSUME HandlingInv, NEW r \in Requests, NEW by, NEW u, NEW step \in Steps, StepRead(r, by, step, u)
  PROVE  \A q \in Requests : StepOwned(req'[q])
<1>1. PICK m \in BOOLEAN : m = (step \in DOMAIN StepPermission /\ Permitted(by, step))  OBVIOUS
<1>2. PICK x : x = [op |-> "step", at |-> "write", by |-> by, step |-> step, driver |-> u,
                    access |-> AccessTo(by, step), permitted |-> m]  OBVIOUS
<1>3. /\ x.by = by /\ x.step = step /\ x.access = AccessTo(by, step) /\ x.permitted = m
      /\ AccessTo(by, step) # None
  BY <1>2 DEF StepRead
<1> DEFINE a == AccessTo(by, step)
<1>4. /\ a \in {"OWNER", "ASSIGNEE", "DRIVER", "PERMISSION"}
      /\ a = "OWNER" => by = Owner
      /\ a = "ASSIGNEE" => step # "ship"
      /\ a = "DRIVER" => step \in {"pickUp", "deliver", "log", "fail"}
      /\ a = "PERMISSION" =>
           Permitted(by, step) /\ step \in DOMAIN StepPermission /\ step \notin {"pickUp", "deliver"}
  BY <1>3, AccessIsEarned
<1>5. a = "PERMISSION" => m  BY <1>1, <1>4
<1> HIDE DEF a
<1>6. x.access = a  BY <1>3 DEF a
<1>7. StepOwned(x)
  BY <1>3, <1>4, <1>5, <1>6 DEF StepOwned
<1>8. req' = [req EXCEPT ![r] = x]  BY <1>1, <1>2 DEF StepRead, Begin
<1> QED  BY <1>7, <1>8 DEF HandlingInv, RequestsNamed

LEMMA HandlingStep ==
  ASSUME HandlingInv, [Next]_vars
  PROVE  HandlingInv'
<1>1. RequestsNamed'  BY NextNamed DEF HandlingInv
<1>2. CASE HandlingNext
  <2>1. ASSUME NEW r \in Requests, StepWrite(r) \/ AssigneeWrite(r)
        PROVE  \A q \in Requests : StepOwned(req'[q])
    <3>1. req' = [req EXCEPT ![r] = Idle]  BY <2>1 DEF StepWrite, AssigneeWrite, Done
    <3>2. StepOwned(Idle)  BY DEF StepOwned, Idle
    <3> QED  BY <3>1, <3>2 DEF HandlingInv, RequestsNamed
  <2>2. ASSUME NEW r \in Requests, NEW by, NEW u, AssigneeRead(r, by, u)
        PROVE  \A q \in Requests : StepOwned(req'[q])
    <3>1. PICK x : x = [op |-> "setAssignee", at |-> "write", user |-> u]  OBVIOUS
    <3>2. req' = [req EXCEPT ![r] = x]  BY <2>2, <3>1 DEF AssigneeRead, Begin
    <3>3. StepOwned(x)  BY <3>1 DEF StepOwned
    <3> QED  BY <3>2, <3>3 DEF HandlingInv, RequestsNamed
  <2> QED  BY <1>1, <1>2, <2>1, <2>2, StepReadOwned DEF HandlingNext, HandlingInv
<1>3. CASE ~HandlingNext
  <2>1. CASE UNCHANGED vars  BY <1>1, <2>1 DEF vars, requestVars, HandlingInv
  <2>2. CASE Next
    <3>1. Keeps(HandlingOps)
      BY <1>3, <2>2, StaffTouches, RosterTouches, AccessTouches, BankingTouches,
         DashboardTouches, RegistersTouches, OrderListTouches, OutsideTouches, KeepsOthers
         DEF Next, HandlingInv, StaffOps, RosterOps, AccessOps, HandlingOps, BankingOps, DashboardOps,
             RegisterOps, ListOps, OutsideOps
    <3> QED  BY <1>1, <3>1 DEF Keeps, HandlingInv, HandlingOps, StepOwned
  <2> QED  BY <2>1, <2>2
<1> QED  BY <1>2, <1>3

LEMMA HandlingInit0 == Init => HandlingInv
BY InitNamed DEF Init, RequestsInit, HandlingInv, StepOwned, Idle

\* A step that is written is written for those in charge.
LEMMA StepsHandled ==
  ASSUME HandlingInv, [Next]_vars, NEW r \in Requests, req[r].op = "step", deal' # deal, req'[r] = Idle
  PROVE  \/ req[r].by \in {Owner} \cup (IF req[r].step = "ship" THEN {} ELSE {deal.assignee})
         \/ req[r].by = deal.driver /\ req[r].step \in {"pickUp", "deliver", "log", "fail"}
         \/ req[r].permitted /\ req[r].step \notin {"pickUp", "deliver"}
<1>1. HandlingNext  BY DEF Next, vars, areaVars
<1>2. PICK q \in Requests : StepWrite(q) \/ AssigneeWrite(q)
  BY <1>1 DEF HandlingNext, StepRead, AssigneeRead
<1>3. req' = [req EXCEPT ![q] = Idle]  BY <1>2 DEF StepWrite, AssigneeWrite, Done
<1>4. q = r  BY <1>3, IdleNamed DEF HandlingInv, RequestsNamed
<1>5. StepWrite(r)  BY <1>2, <1>4 DEF AssigneeWrite, At
<1>6. StillTheirs(req[r]) /\ StepOwned(req[r]) /\ req[r].at = "write"
  BY <1>5 DEF StepWrite, At, HandlingInv
<1> QED  BY <1>6 DEF StillTheirs, StepOwned

\* An order is handled by nobody but the owner, the assignee and the driver of that
\* moment, and those permitted the step: a replaced assignee or driver does nothing
\* more, however long ago their request was let through.
THEOREM OrdersHandledByTheirPeople == Spec => HandledByItsPeople
<1>1. Init => HandlingInv  BY HandlingInit0
<1>2. HandlingInv /\ [Next]_vars => HandlingInv'  BY HandlingStep
<1>3. HandlingInv /\ [Next]_vars =>
        [\A r \in Requests :
          req[r].op = "step" /\ deal' # deal /\ req'[r] = Idle =>
         \/ req[r].by \in {Owner} \cup (IF req[r].step = "ship" THEN {} ELSE {deal.assignee})
         \/ req[r].by = deal.driver /\ req[r].step \in {"pickUp", "deliver", "log", "fail"}
         \/ req[r].permitted /\ req[r].step \notin {"pickUp", "deliver"}]_<<deal, req>>
  BY StepsHandled
<1> QED  BY <1>1, <1>2, <1>3, PTL DEF Spec, HandledByItsPeople

------------------------------------------------------------------------------
(* The bank account *)

\* What the requests about accounts and codes carry.
BankRequestOK(x) ==
  /\ x.op = "bankSave" => x.tenant \in Shops
  /\ x.op = "issue" => x.tenant \in Shops /\ x.number # None
  /\ x.op = "sync" /\ x.at = "write" => DOMAIN x.link \subseteq Shops

BankTypes ==
  /\ RequestsNamed
  /\ \A r \in Requests : BankRequestOK(req[r])
  /\ DOMAIN account = Shops /\ DOMAIN keyed = Shops /\ DOMAIN linked = Shops /\ DOMAIN earned = Shops
  /\ DOMAIN code = Codes
  /\ \A c \in Codes : /\ "status" \in DOMAIN code[c]
                      /\ code[c].status = "PENDING" =>
                           /\ code[c].shop \in Shops /\ code[c].number # None
                           /\ "number" \in DOMAIN code[c]

AccountsApart == \A s, t \in Shops : s # t /\ account[s] # None => account[s] # account[t]
KeysFollow == \A s \in Shops \ mixed : keyed[s] \in {None, account[s]}
LinksEarned == \A s \in Shops \ mixed : linked[s] => earned[s] = account[s]

\* A save of the shop that could still take the account away from under a code.
Waits(x, s, n) ==
  x.op = "bankSave" /\ x.tenant = s => x.before = n /\ (x.at = "write" => x.to = n)
CodesCovered ==
  \A c \in Codes : code[c].status = "PENDING" /\ ~code[c].unsure =>
    /\ account[code[c].shop] = code[c].number
    /\ \A r \in Requests : Waits(req[r], code[c].shop, code[c].number)

BankInv == BankTypes /\ AccountsApart /\ KeysFollow /\ LinksEarned /\ CodesCovered

LEMMA BankInvFinds == BankInv => TransfersFindTheShop
<1> SUFFICES ASSUME BankInv PROVE TransfersFindTheShop  OBVIOUS
<1>1. ASSUME NEW c \in Codes, code[c].status = "PENDING", ~code[c].unsure
      PROVE  /\ account[code[c].shop] = code[c].number
             /\ ShopsOfTransfer(code[c].number) \subseteq {code[c].shop} \cup mixed
  <2>1. account[code[c].shop] = code[c].number /\ code[c].number # None /\ code[c].shop \in Shops
    BY <1>1 DEF BankInv, CodesCovered, BankTypes
  <2>2. ASSUME NEW s \in ShopsOfTransfer(code[c].number), s \notin mixed PROVE s = code[c].shop
    <3>1. s \in Shops /\ account[s] = code[c].number
      BY <2>1, <2>2 DEF ShopsOfTransfer, BankInv, KeysFollow
    <3> QED  BY <2>1, <3>1 DEF BankInv, AccountsApart
  <2> QED  BY <2>1, <2>2
<1> QED  BY <1>1 DEF TransfersFindTheShop, BankInv, LinksEarned

\* One request goes on, and no account and no code changes.
LEMMA BankRequest ==
  ASSUME BankInv, UNCHANGED <<account, code>>, NEW r \in Requests, NEW x,
         req' = [req EXCEPT ![r] = x], BankRequestOK(x),
         \A c \in Codes : code[c].status = "PENDING" /\ ~code[c].unsure =>
           Waits(x, code[c].shop, code[c].number)
  PROVE  /\ \A q \in Requests : BankRequestOK(req'[q])
         /\ CodesCovered'
<1>1. \A q \in Requests : req'[q] = IF q = r THEN x ELSE req[q]
  BY DEF BankInv, BankTypes, RequestsNamed
<1>2. \A q \in Requests : BankRequestOK(req'[q])  BY <1>1 DEF BankInv, BankTypes
<1>3. ASSUME NEW c \in Codes, code[c].status = "PENDING", ~code[c].unsure
      PROVE  /\ account'[code[c].shop] = code[c].number
             /\ \A q \in Requests : Waits(req'[q], code[c].shop, code[c].number)
  BY <1>1, <1>3 DEF BankInv, CodesCovered
<1> QED  BY <1>2, <1>3 DEF CodesCovered

LEMMA BankBegins ==
  ASSUME BankInv, [Next]_vars, UNCHANGED bankingVars, NEW r \in Requests, NEW x,
         req' = [req EXCEPT ![r] = x], BankRequestOK(x),
         \A c \in Codes : code[c].status = "PENDING" /\ ~code[c].unsure =>
           Waits(x, code[c].shop, code[c].number)
  PROVE  BankInv'
<1>1. RequestsNamed'  BY NextNamed DEF BankInv, BankTypes
<1>2. (\A q \in Requests : BankRequestOK(req'[q])) /\ CodesCovered'
  BY BankRequest DEF bankingVars
<1> QED
  BY <1>1, <1>2 DEF BankInv, BankTypes, AccountsApart, KeysFollow, LinksEarned, bankingVars

LEMMA BankIdle == BankRequestOK(Idle) /\ \A s, n : Waits(Idle, s, n)
BY DEF BankRequestOK, Waits, Idle

LEMMA BankDone ==
  ASSUME BankInv, [Next]_vars, UNCHANGED bankingVars, NEW r \in Requests, req' = Done(r)
  PROVE  BankInv'
BY BankBegins, BankIdle DEF Done

\* A save goes on to a check, or to its write when the number stays or no code waits.
LEMMA SaveGoesOn ==
  ASSUME BankInv, [Next]_vars, NEW r \in Requests, SaveTaken(r) \/ SavePending(r)
  PROVE  BankInv'
<1>1. UNCHANGED bankingVars /\ req[r].op = "bankSave" /\ RequestsNamed
  BY DEF SaveTaken, SavePending, At, BankInv, BankTypes
<1>2. CASE req' = Done(r)  BY <1>1, <1>2, BankDone
<1>3. ASSUME NEW stage, req' = GoTo(r, stage),
             \A c \in Codes : code[c].status = "PENDING" /\ ~code[c].unsure /\ code[c].shop = req[r].tenant =>
               (stage = "write" => req[r].to = req[r].before)
      PROVE  BankInv'
  <2>1. PICK x : x = [req[r] EXCEPT !.at = stage]  OBVIOUS
  <2>2. Named(req[r])  BY <1>1 DEF RequestsNamed
  <2>3. /\ x.op = "bankSave" /\ x.at = stage /\ x.tenant = req[r].tenant
        /\ x.before = req[r].before /\ x.to = req[r].to
    BY <1>1, <2>1, <2>2 DEF Named
  <2>4. BankRequestOK(x)  BY <1>1, <2>3 DEF BankRequestOK, BankInv, BankTypes
  <2>5. req' = [req EXCEPT ![r] = x]  BY <1>3, <2>1 DEF GoTo
  <2>6. ASSUME NEW c \in Codes, code[c].status = "PENDING", ~code[c].unsure
        PROVE  Waits(x, code[c].shop, code[c].number)
    <3>1. Waits(req[r], code[c].shop, code[c].number)  BY <2>6 DEF BankInv, CodesCovered
    <3> QED  BY <1>1, <1>3, <2>3, <2>6, <3>1 DEF Waits
  <2> QED  BY <1>1, <2>4, <2>5, <2>6, BankBegins
<1>4. CASE SaveTaken(r)
  <2>1. CASE ~NumberChanged(r)  BY <1>3, <1>4, <2>1 DEF SaveTaken, NumberChanged
  <2>2. CASE NumberChanged(r) /\ req[r].before = None
    <3>1. ASSUME NEW c \in Codes, code[c].status = "PENDING", ~code[c].unsure, code[c].shop = req[r].tenant
          PROVE  FALSE
      BY <1>1, <2>2, <3>1 DEF BankInv, CodesCovered, Waits, BankTypes
    <3>2. req' = Done(r) \/ req' = GoTo(r, "write")  BY <1>4, <2>2 DEF SaveTaken
    <3> QED  BY <1>2, <1>3, <3>1, <3>2
  <2>3. CASE NumberChanged(r) /\ req[r].before # None
    <3>1. req' = Done(r) \/ req' = GoTo(r, "pending")  BY <1>4, <2>3 DEF SaveTaken
    <3> QED  BY <1>2, <1>3, <3>1
  <2> QED  BY <2>1, <2>2, <2>3
<1>5. CASE SavePending(r)
  <2>1. CASE PendingCodes(req[r].tenant) # {}  BY <1>2, <1>5, <2>1 DEF SavePending
  <2>2. CASE PendingCodes(req[r].tenant) = {}
    <3>1. ASSUME NEW c \in Codes, code[c].status = "PENDING", ~code[c].unsure, code[c].shop = req[r].tenant
          PROVE  FALSE
      BY <2>2, <3>1 DEF PendingCodes
    <3> QED  BY <1>3, <1>5, <2>2, <3>1 DEF SavePending
  <2> QED  BY <2>1, <2>2
<1> QED  BY <1>4, <1>5

\* A save is written: the account, and with it the link and the key.
LEMMA SaveWriteKeeps ==
  ASSUME BankInv, [Next]_vars, NEW r \in Requests, SaveWrite(r)
  PROVE  BankInv'
<1> DEFINE s == req[r].tenant
           n == req[r].to
<1>1. CASE \E other \in Shops \ {s} : account[other] = n
  <2>1. UNCHANGED bankingVars /\ req' = Done(r)  BY <1>1 DEF SaveWrite
  <2> QED  BY <2>1, BankDone
<1>2. CASE ~\E other \in Shops \ {s} : account[other] = n
  <2>1. /\ account' = [account EXCEPT ![s] = n]
        /\ linked' = Unlink(r)
        /\ keyed' = IF NumberChanged(r) THEN [keyed EXCEPT ![s] = None] ELSE keyed
        /\ mixed' = IF account[s] # req[r].before THEN mixed \cup {s} ELSE mixed
        /\ UNCHANGED <<watched, earned, code>>
        /\ req' = Done(r)
    BY <1>2 DEF SaveWrite
  <2>2. s \in Shops /\ req[r].op = "bankSave" /\ req[r].at = "write"
    BY DEF SaveWrite, At, BankInv, BankTypes, BankRequestOK
  <2>3. /\ DOMAIN account' = Shops /\ account'[s] = n
        /\ \A t \in Shops \ {s} : account'[t] = account[t]
    BY <2>1, <2>2 DEF BankInv, BankTypes
  <2>4. /\ DOMAIN keyed' = Shops /\ DOMAIN linked' = Shops
        /\ \A t \in Shops \ {s} : keyed'[t] = keyed[t] /\ linked'[t] = linked[t]
        /\ NumberChanged(r) => keyed'[s] = None /\ linked'[s] = FALSE
        /\ ~NumberChanged(r) => keyed'[s] = keyed[s] /\ linked'[s] = linked[s]
    BY <2>1, <2>2 DEF BankInv, BankTypes, Unlink
  <2>5. \A q \in Requests : req'[q] = IF q = r THEN Idle ELSE req[q]
    BY <2>1 DEF Done, BankInv, BankTypes, RequestsNamed
  <2>6. BankTypes'
    <3>1. RequestsNamed'  BY NextNamed DEF BankInv, BankTypes
    <3>2. \A q \in Requests : BankRequestOK(req'[q])  BY <2>5, BankIdle DEF BankInv, BankTypes
    <3> QED  BY <2>1, <2>3, <2>4, <3>1, <3>2 DEF BankInv, BankTypes
  <2>7. AccountsApart'
    <3>1. ASSUME NEW t \in Shops, NEW k \in Shops, t # k, account'[t] # None PROVE account'[t] # account'[k]
      BY <1>2, <2>2, <2>3, <3>1 DEF BankInv, AccountsApart
    <3> QED  BY <3>1 DEF AccountsApart
  <2>8. KeysFollow'
    <3>1. ASSUME NEW t \in Shops, t \notin mixed' PROVE keyed'[t] \in {None, account'[t]}
      <4>1. t \notin mixed  BY <2>1, <3>1
      <4>2. CASE t # s  BY <2>3, <2>4, <3>1, <4>1, <4>2 DEF BankInv, KeysFollow
      <4>3. CASE t = s /\ ~NumberChanged(r)
        BY <2>1, <2>2, <2>3, <2>4, <3>1, <4>1, <4>3 DEF BankInv, KeysFollow, NumberChanged
      <4>4. CASE t = s /\ NumberChanged(r)  BY <2>4, <4>4
      <4> QED  BY <4>2, <4>3, <4>4
    <3> QED  BY <3>1 DEF KeysFollow
  <2>9. LinksEarned'
    <3>1. ASSUME NEW t \in Shops, t \notin mixed', linked'[t] PROVE earned'[t] = account'[t]
      <4>1. t \notin mixed  BY <2>1, <3>1
      <4>2. CASE t # s  BY <2>1, <2>3, <2>4, <3>1, <4>1, <4>2 DEF BankInv, LinksEarned
      <4>3. CASE t = s
        <5>1. ~NumberChanged(r)  BY <2>4, <3>1, <4>3
        <5>2. linked[s] /\ account'[s] = account[s]
          BY <2>1, <2>2, <2>3, <2>4, <3>1, <4>3, <5>1 DEF NumberChanged
        <5> QED  BY <2>1, <2>2, <4>1, <4>3, <5>2 DEF BankInv, LinksEarned
      <4> QED  BY <4>2, <4>3
    <3> QED  BY <3>1 DEF LinksEarned
  <2>10. CodesCovered'
    <3>1. ASSUME NEW c \in Codes, code[c].status = "PENDING", ~code[c].unsure
          PROVE  /\ account'[code[c].shop] = code[c].number
                 /\ \A q \in Requests : Waits(req'[q], code[c].shop, code[c].number)
      <4>1. /\ account[code[c].shop] = code[c].number /\ code[c].shop \in Shops
            /\ \A q \in Requests : Waits(req[q], code[c].shop, code[c].number)
        BY <3>1 DEF BankInv, CodesCovered, BankTypes
      <4>2. account'[code[c].shop] = code[c].number
        BY <2>2, <2>3, <4>1 DEF Waits
      <4> QED  BY <2>5, <4>1, <4>2, BankIdle
    <3> QED  BY <2>1, <3>1 DEF CodesCovered
  <2> QED  BY <2>6, <2>7, <2>8, <2>9, <2>10 DEF BankInv
<1> QED  BY <1>1, <1>2

\* A sync is written: a shop is linked for the account it was read with, and counts
\* as mixed when it has another by now.
LEMMA SyncWriteKeeps ==
  ASSUME BankInv, [Next]_vars, NEW r \in Requests, SyncWrite(r)
  PROVE  BankInv'
<1> DEFINE link == {s \in DOMAIN req[r].link : ~linked[s]}
<1>1. /\ linked' = [s \in Shops |-> (linked[s] \/ s \in link) /\ s \notin req[r].unlink]
      /\ earned' = [s \in Shops |-> IF s \in link THEN req[r].link[s] ELSE earned[s]]
      /\ mixed' = (mixed \ {s \in link : account[s] = req[r].link[s]
                                         /\ keyed[s] \in {None, account[s]}})
                    \cup {s \in link : account[s] # req[r].link[s]}
      /\ UNCHANGED <<account, keyed, watched, code>>
      /\ req' = [req EXCEPT ![r] = Idle]
  BY DEF SyncWrite, Done
<1> HIDE DEF link
<1>2. (\A q \in Requests : BankRequestOK(req'[q])) /\ CodesCovered'
  BY <1>1, BankRequest, BankIdle
<1>3. RequestsNamed'  BY NextNamed DEF BankInv, BankTypes
<1>4. BankTypes'  BY <1>1, <1>2, <1>3 DEF BankInv, BankTypes
<1>5. AccountsApart'  BY <1>1 DEF BankInv, AccountsApart
<1>6. KeysFollow'
  <2>1. ASSUME NEW s \in Shops, s \notin mixed' PROVE keyed[s] \in {None, account[s]}
    <3>1. CASE s \notin mixed  BY <3>1 DEF BankInv, KeysFollow
    <3>2. CASE s \in mixed  BY <1>1, <2>1, <3>2
    <3> QED  BY <3>1, <3>2
  <2> QED  BY <1>1, <2>1 DEF KeysFollow
<1>7. LinksEarned'
  <2>1. ASSUME NEW s \in Shops, s \notin mixed', linked'[s] PROVE earned'[s] = account[s]
    <3>1. CASE s \in link
      <4>1. account[s] = req[r].link[s]  BY <1>1, <2>1, <3>1
      <4> QED  BY <1>1, <3>1, <4>1
    <3>2. CASE s \notin link
      <4>1. linked[s] /\ s \notin mixed /\ earned'[s] = earned[s]  BY <1>1, <2>1, <3>2
      <4> QED  BY <4>1 DEF BankInv, LinksEarned
    <3> QED  BY <3>1, <3>2
  <2> QED  BY <1>1, <2>1 DEF LinksEarned
<1> QED  BY <1>2, <1>4, <1>5, <1>6, <1>7 DEF BankInv

\* A code is issued with the account that was read; it is sure when no save of the
\* account is under way and the account is still that one.
LEMMA IssueWriteKeeps ==
  ASSUME BankInv, [Next]_vars, NEW r \in Requests, NEW c \in Codes, IssueWrite(r, c)
  PROVE  BankInv'
<1> DEFINE s == req[r].tenant
<1>1. PICK m \in BOOLEAN : m = (Saving(s) # {} \/ account[s] # req[r].number)  OBVIOUS
<1>2. PICK k : k = [status |-> "PENDING", shop |-> s, kind |-> req[r].kind, number |-> req[r].number,
                    unsure |-> m]  OBVIOUS
<1>3. /\ code' = [code EXCEPT ![c] = k]
      /\ UNCHANGED <<account, linked, keyed, watched, earned, mixed>>
      /\ req' = [req EXCEPT ![r] = Idle]
  BY <1>1, <1>2 DEF IssueWrite, Done
<1>4. s \in Shops /\ req[r].number # None
  BY DEF IssueWrite, At, BankInv, BankTypes, BankRequestOK
<1>5. /\ k.status = "PENDING" /\ k.shop = s /\ k.number = req[r].number /\ k.unsure = m
      /\ {"status", "number"} \subseteq DOMAIN k
  BY <1>2
<1>6. \A d \in Codes : code'[d] = IF d = c THEN k ELSE code[d]
  BY <1>3 DEF BankInv, BankTypes
<1>7. \A q \in Requests : req'[q] = IF q = r THEN Idle ELSE req[q]
  BY <1>3 DEF BankInv, BankTypes, RequestsNamed
<1>8. BankTypes'
  <2>1. RequestsNamed'  BY NextNamed DEF BankInv, BankTypes
  <2>2. \A q \in Requests : BankRequestOK(req'[q])  BY <1>7, BankIdle DEF BankInv, BankTypes
  <2>3. DOMAIN code' = Codes  BY <1>3 DEF BankInv, BankTypes
  <2>4. \A d \in Codes : /\ "status" \in DOMAIN code'[d]
                         /\ code'[d].status = "PENDING" =>
                              /\ code'[d].shop \in Shops /\ code'[d].number # None
                              /\ "number" \in DOMAIN code'[d]
    BY <1>4, <1>5, <1>6 DEF BankInv, BankTypes
  <2> QED  BY <1>3, <2>1, <2>2, <2>3, <2>4 DEF BankInv, BankTypes
<1>9. AccountsApart' /\ KeysFollow' /\ LinksEarned'
  BY <1>3 DEF BankInv, AccountsApart, KeysFollow, LinksEarned
<1>10. CodesCovered'
  <2>1. ASSUME NEW d \in Codes, code'[d].status = "PENDING", ~code'[d].unsure
        PROVE  /\ account[code'[d].shop] = code'[d].number
               /\ \A q \in Requests : Waits(req'[q], code'[d].shop, code'[d].number)
    <3>1. CASE d # c
      <4>1. code'[d] = code[d]  BY <1>6, <3>1
      <4>2. /\ account[code[d].shop] = code[d].number
            /\ \A q \in Requests : Waits(req[q], code[d].shop, code[d].number)
        BY <2>1, <4>1 DEF BankInv, CodesCovered
      <4> QED  BY <1>7, <4>1, <4>2, BankIdle
    <3>2. CASE d = c
      <4>1. code'[d] = k  BY <1>6, <3>2
      <4>2. ~m  BY <1>5, <2>1, <4>1
      <4>3. Saving(s) = {} /\ account[s] = req[r].number  BY <1>1, <4>2
      <4>4. \A q \in Requests : ~(req[q].op = "bankSave" /\ req[q].tenant = s)
        BY <4>3 DEF Saving
      <4>5. \A q \in Requests : Waits(req'[q], s, req[r].number)
        BY <1>7, <4>4, BankIdle DEF Waits
      <4> QED  BY <1>5, <4>1, <4>3, <4>5
    <3> QED  BY <3>1, <3>2
  <2> QED  BY <1>3, <2>1 DEF CodesCovered
<1> QED  BY <1>8, <1>9, <1>10 DEF BankInv

\* A code is printed again, cancelled or paid.
LEMMA CodeChanges ==
  ASSUME BankInv, [Next]_vars, NEW c \in Codes, Reprint(c) \/ Cancel(c) \/ Transfer(c)
  PROVE  BankInv'
<1>1. UNCHANGED <<account, linked, keyed, watched, earned, mixed, req>>
  BY DEF Reprint, Cancel, Transfer, Once
<1>2. DOMAIN code' = Codes /\ \A d \in Codes \ {c} : code'[d] = code[d]
  BY DEF Reprint, Cancel, Transfer, BankInv, BankTypes
<1>3. /\ "status" \in DOMAIN code'[c]
      /\ code'[c].status = "PENDING" =>
           /\ code[c].status = "PENDING" /\ code'[c].shop = code[c].shop
           /\ code'[c].unsure = code[c].unsure /\ "number" \in DOMAIN code'[c]
           /\ code'[c].number = account[code[c].shop] /\ account[code[c].shop] # None
  <2>1. CASE Cancel(c) \/ Transfer(c)
    <3>1. PICK t \in {"CANCELLED", "PAID"} : code' = [code EXCEPT ![c].status = t]
      BY <2>1 DEF Cancel, Transfer
    <3>2. "status" \in DOMAIN code'[c] /\ code'[c].status = t
      BY <3>1 DEF BankInv, BankTypes
    <3> QED  BY <3>2
  <2>2. CASE Reprint(c)
    <3>1. PICK n : n = account[code[c].shop] /\ n # None /\ code' = [code EXCEPT ![c].number = n]
      BY <2>2 DEF Reprint
    <3>2. code[c].status = "PENDING" /\ {"status", "number"} \subseteq DOMAIN code[c]
      BY <2>2 DEF Reprint, BankInv, BankTypes
    <3>3. code'[c] = [code[c] EXCEPT !.number = n]  BY <3>1 DEF BankInv, BankTypes
    <3> QED  BY <3>1, <3>2, <3>3
  <2> QED  BY <2>1, <2>2
<1>4. BankTypes'
  <2>1. RequestsNamed'  BY NextNamed DEF BankInv, BankTypes
  <2>2. \A d \in Codes : /\ "status" \in DOMAIN code'[d]
                         /\ code'[d].status = "PENDING" =>
                              /\ code'[d].shop \in Shops /\ code'[d].number # None
                              /\ "number" \in DOMAIN code'[d]
    BY <1>2, <1>3 DEF BankInv, BankTypes
  <2> QED  BY <1>1, <1>2, <2>1, <2>2 DEF BankInv, BankTypes
<1>5. AccountsApart' /\ KeysFollow' /\ LinksEarned'
  BY <1>1 DEF BankInv, AccountsApart, KeysFollow, LinksEarned
<1>6. CodesCovered'
  <2>1. ASSUME NEW d \in Codes, code'[d].status = "PENDING", ~code'[d].unsure
        PROVE  /\ account[code'[d].shop] = code'[d].number
               /\ \A q \in Requests : Waits(req[q], code'[d].shop, code'[d].number)
    <3>1. CASE d # c
      <4>1. code'[d] = code[d]  BY <1>2, <3>1
      <4> QED  BY <2>1, <4>1 DEF BankInv, CodesCovered
    <3>2. CASE d = c
      <4>1. /\ account[code[c].shop] = code[c].number
            /\ \A q \in Requests : Waits(req[q], code[c].shop, code[c].number)
        BY <1>3, <2>1, <3>2 DEF BankInv, CodesCovered
      <4> QED  BY <1>3, <2>1, <3>2, <4>1
    <3> QED  BY <3>1, <3>2
  <2> QED  BY <1>1, <2>1 DEF CodesCovered
<1> QED  BY <1>1, <1>4, <1>5, <1>6 DEF BankInv

LEMMA SetSepayKeyKeeps ==
  ASSUME BankInv, [Next]_vars, NEW s \in Shops, SetSepayKey(s)
  PROVE  BankInv'
<1>1. /\ keyed' = [keyed EXCEPT ![s] = account[s]]
      /\ UNCHANGED <<account, linked, earned, mixed, code, req>>
  BY DEF SetSepayKey, Once
<1>2. RequestsNamed'  BY NextNamed DEF BankInv, BankTypes
<1>3. DOMAIN keyed' = Shops /\ \A t \in Shops : keyed'[t] = IF t = s THEN account[s] ELSE keyed[t]
  BY <1>1 DEF BankInv, BankTypes
<1>4. BankTypes'  BY <1>1, <1>2, <1>3 DEF BankInv, BankTypes
<1> QED
  BY <1>1, <1>3, <1>4 DEF BankInv, AccountsApart, KeysFollow, LinksEarned, CodesCovered

LEMMA BankStep ==
  ASSUME BankInv, [Next]_vars
  PROVE  BankInv'
<1>1. ASSUME NEW r \in Requests, NEW s \in Shops, NEW n, SaveRead(r, s, n) PROVE BankInv'
  <2>1. PICK x : x = [op |-> "bankSave", at |-> "taken", tenant |-> s, before |-> account[s], to |-> n]
    OBVIOUS
  <2>2. BankRequestOK(x)  BY <2>1 DEF BankRequestOK
  <2>3. \A c \in Codes : code[c].status = "PENDING" /\ ~code[c].unsure =>
          Waits(x, code[c].shop, code[c].number)
    BY <2>1 DEF BankInv, CodesCovered, Waits
  <2> QED  BY <1>1, <2>1, <2>2, <2>3, BankBegins DEF SaveRead, Begin
<1>2. ASSUME NEW r \in Requests, SyncFetch(r) PROVE BankInv'
  <2>1. PICK x : x = [op |-> "sync", at |-> "plan", accounts |-> watched]  OBVIOUS
  <2>2. BankRequestOK(x) /\ \A s, n : Waits(x, s, n)  BY <2>1 DEF BankRequestOK, Waits
  <2> QED  BY <1>2, <2>1, <2>2, BankBegins DEF SyncFetch, Begin
<1>3. ASSUME NEW r \in Requests, SyncFails(r) PROVE BankInv'
  BY <1>3, BankDone DEF SyncFails
<1>4. ASSUME NEW r \in Requests, SyncPlan(r) PROVE BankInv'
  <2>1. PICK f : f = [s \in ToLink(r) |-> account[s]]  OBVIOUS
  <2>2. PICK x : x = [op |-> "sync", at |-> "write", link |-> f, unlink |-> ToUnlink(r)]  OBVIOUS
  <2>3. DOMAIN f \subseteq Shops  BY <2>1 DEF ToLink
  <2>4. BankRequestOK(x) /\ \A s, n : Waits(x, s, n)  BY <2>2, <2>3 DEF BankRequestOK, Waits
  <2> QED  BY <1>4, <2>1, <2>2, <2>4, BankBegins DEF SyncPlan
<1>5. ASSUME NEW r \in Requests, NEW s \in Shops, NEW kind, IssueRead(r, s, kind) PROVE BankInv'
  <2>1. PICK x : x = [op |-> "issue", at |-> "write", tenant |-> s, kind |-> kind, number |-> account[s]]
    OBVIOUS
  <2>2. BankRequestOK(x) /\ \A t, n : Waits(x, t, n)
    BY <1>5, <2>1 DEF BankRequestOK, Waits, IssueRead
  <2> QED  BY <1>5, <2>1, <2>2, BankBegins DEF IssueRead, Begin
<1>6. ASSUME NEW n, SepayChanges(n) PROVE BankInv'
  <2>1. RequestsNamed'  BY NextNamed DEF BankInv, BankTypes
  <2> QED
    BY <1>6, <2>1 DEF SepayChanges, Once, BankInv, BankTypes, AccountsApart, KeysFollow, LinksEarned,
         CodesCovered
<1>7. CASE BankingNext
  <2>1. ASSUME NEW r \in Requests, BankingStep(r) \/ BankingCall(r) PROVE BankInv'
    BY <1>1, <1>2, <1>3, <1>4, <1>5, <2>1, SaveGoesOn, SaveWriteKeeps, SyncWriteKeeps, IssueWriteKeeps
       DEF BankingStep, BankingCall
  <2> QED  BY <1>6, <1>7, <2>1, SetSepayKeyKeeps, CodeChanges DEF BankingNext
<1>8. CASE ~BankingNext
  <2>1. RequestsNamed'  BY NextNamed DEF BankInv, BankTypes
  <2>2. UNCHANGED bankingVars
    BY <1>8 DEF Next, vars, areaVars, farVars
  <2>3. Keeps(BankingOps)
    <3>1. CASE UNCHANGED vars  BY <3>1 DEF Keeps, vars, requestVars
    <3>2. CASE Next
      BY <1>8, <3>2, StaffTouches, RosterTouches, AccessTouches, HandlingTouches,
         DashboardTouches, RegistersTouches, OrderListTouches, OutsideTouches, KeepsOthers
         DEF Next, BankInv, BankTypes, StaffOps, RosterOps, AccessOps, HandlingOps, BankingOps, DashboardOps,
             RegisterOps, ListOps, OutsideOps
    <3> QED  BY <3>1, <3>2
  <2>4. \A q \in Requests : BankRequestOK(req'[q])
    BY <2>3 DEF Keeps, BankingOps, BankRequestOK, BankInv, BankTypes
  <2>5. \A q \in Requests : \A s, n : Waits(req[q], s, n) => Waits(req'[q], s, n)
    BY <2>3 DEF Keeps, BankingOps, Waits
  <2>6. BankTypes' /\ AccountsApart' /\ KeysFollow' /\ LinksEarned'
    BY <2>1, <2>2, <2>4 DEF BankInv, BankTypes, AccountsApart, KeysFollow, LinksEarned, bankingVars
  <2>7. CodesCovered'  BY <2>2, <2>5 DEF BankInv, CodesCovered, bankingVars
  <2> QED  BY <2>6, <2>7 DEF BankInv
<1> QED  BY <1>7, <1>8

LEMMA BankInit == Init => BankInv
<1> SUFFICES ASSUME Init PROVE BankInv  OBVIOUS
<1>1. BankTypes
  BY InitNamed, BankIdle DEF Init, RequestsInit, BankingInit, BankTypes, NoCode
<1> QED
  BY <1>1 DEF Init, BankingInit, BankInv, AccountsApart, KeysFollow, LinksEarned, CodesCovered, NoCode

\* A transfer to the account printed on a waiting code reaches the shop that issued
\* it and no other, and a shop is linked for the account it has, unless requests
\* about its account overlapped.
THEOREM TransfersFound == Spec => []TransfersFindTheShop
<1>1. Init => BankInv  BY BankInit
<1>2. BankInv /\ [Next]_vars => BankInv'  BY BankStep
<1>3. BankInv => TransfersFindTheShop  BY BankInvFinds
<1> QED  BY <1>1, <1>2, <1>3, PTL DEF Spec

------------------------------------------------------------------------------
(* Rights *)

\* What the requests about roles and places carry.
RightsRequestOK(x) ==
  /\ x.op = "assign" => x.role \in Roles /\ "overtaken" \in DOMAIN x
  /\ x.op = "work" /\ x.by # Owner => x.post = x.place /\ (x.own \/ x.onShift)

\* A role that staff are about to give away holds what the owner gave somebody,
\* unless the owner has changed it since.
GrantSound(x, held, out) ==
  x.op = "assign" /\ x.by # Owner /\ ~x.overtaken => held[x.role] = None \/ held[x.role] \subseteq out

RolesHeld == \A u \in Employees : role[u] # None => rights[role[u]] # None /\ rights[role[u]] \subseteq given

RightsInv ==
  /\ RequestsNamed
  /\ \A r \in Requests : RightsRequestOK(req[r]) /\ GrantSound(req[r], rights, given)
  /\ DOMAIN role = Employees /\ DOMAIN rights = Roles
  /\ \A x \in Roles : rights[x] # None => rights[x] \cap BaseRights = {}
  /\ RolesHeld
  /\ deed.by # Owner => deed.post = deed.place /\ (deed.own \/ deed.onShift)

LEMMA RightsInvHolds == RightsInv => RightsComeFromOwner
BY DEF RightsInv, RolesHeld, RightsComeFromOwner, Standing

\* The step leaves roles alone, and one request goes on to x.
LEMMA RightsRequest ==
  ASSUME RightsInv, [Next]_vars, UNCHANGED <<role, rights, given, deed>>, NEW r \in Requests, NEW x,
         req' = [req EXCEPT ![r] = x], RightsRequestOK(x), GrantSound(x, rights, given)
  PROVE  RightsInv'
<1>1. RequestsNamed'  BY NextNamed DEF RightsInv
<1>2. \A q \in Requests : req'[q] = IF q = r THEN x ELSE req[q]
  BY DEF RightsInv, RequestsNamed
<1> QED  BY <1>1, <1>2 DEF RightsInv, RolesHeld

LEMMA RightsIdle == RightsRequestOK(Idle) /\ \A held, out : GrantSound(Idle, held, out)
BY DEF RightsRequestOK, GrantSound, Idle

\* Whoever may act at a place by a right acts at their own, by a right of their
\* own or of a shift that is running.
LEMMA WorkIsEntitled ==
  ASSUME NEW by, by # Owner, NEW right, NEW p, Can(by, right), CanActAt(by, p)
  PROVE  /\ post[by] = p
         /\ right \in BaseRights \cup Standing(by) \/ RunningShifts(by) # {}
<1>1. post[by] = p  BY DEF CanActAt, Supervised
<1>2. ASSUME right \notin BaseRights \cup Standing(by) PROVE RunningShifts(by) # {}
  <2>1. TemporaryOf(by) # {}  BY <1>2 DEF Can, RightsOf
  <2>2. Supervised(by) # {}  BY <2>1 DEF TemporaryOf
  <2>3. {post[m] : m \in UNION {shift[k].who : k \in RunningShifts(by)}} # {}
    BY <2>2 DEF Supervised
  <2> QED  BY <2>3
<1> QED  BY <1>1, <1>2

LEMMA WorkReadRights ==
  ASSUME RightsInv, [Next]_vars, NEW r \in Requests, NEW by, NEW right, NEW p, WorkRead(r, by, right, p)
  PROVE  RightsInv'
<1>1. PICK m \in BOOLEAN : m = (right \in BaseRights \cup Standing(by))
  <2> DEFINE own == right \in BaseRights \cup Standing(by)
  <2>1. own \in BOOLEAN  OBVIOUS
  <2> HIDE DEF own
  <2>2. \E m \in BOOLEAN : m = own  BY <2>1
  <2> QED  BY <2>2 DEF own
<1>2. PICK n \in BOOLEAN : n = (RunningShifts(by) # {})  OBVIOUS
<1>3. PICK x : x = [op |-> "work", at |-> "write", by |-> by, place |-> p, post |-> post[by],
                    own |-> m, onShift |-> n]
  OBVIOUS
<1>4. by # Owner => post[by] = p /\ (m \/ n)
  <2>1. by # Owner => /\ post[by] = p
                      /\ right \in BaseRights \cup Standing(by) \/ RunningShifts(by) # {}
    BY WorkIsEntitled DEF WorkRead
  <2> QED  BY <1>1, <1>2, <2>1
<1>5. /\ x.op = "work" /\ x.by = by /\ x.place = p /\ x.post = post[by] /\ x.own = m /\ x.onShift = n
  BY <1>3
<1>6. RightsRequestOK(x) /\ GrantSound(x, rights, given)
  BY <1>4, <1>5 DEF RightsRequestOK, GrantSound
<1>7. req' = [req EXCEPT ![r] = x]  BY <1>1, <1>2, <1>3 DEF WorkRead, Begin
<1> QED  BY <1>6, <1>7, RightsRequest DEF WorkRead, accessVars

\* Staff give away only roles within what they have been given themselves.
LEMMA AssignReadRights ==
  ASSUME RightsInv, [Next]_vars, NEW r \in Requests, NEW by \in Employees \cup {Owner}, NEW u \in Employees,
         NEW k \in Roles, AssignRead(r, by, u, k)
  PROVE  RightsInv'
<1>1. PICK m \in BOOLEAN : m = (status[u] = "NONE")  OBVIOUS
<1>2. PICK x : x = [op |-> "assign", at |-> "write", by |-> by, user |-> u, hire |-> m, role |-> k,
                    overtaken |-> FALSE]
  OBVIOUS
<1>3. x.op = "assign" /\ x.by = by /\ x.role = k /\ x.overtaken = FALSE /\ "overtaken" \in DOMAIN x
  BY <1>2
<1>4. by # Owner => rights[k] \subseteq given
  <2>1. SUFFICES ASSUME by # Owner PROVE rights[k] \subseteq given  OBVIOUS
  <2>2. rights[k] \subseteq (BaseRights \cup Standing(by) \cup TemporaryOf(by)) \ TemporaryRights
    BY <2>1 DEF AssignRead, WithinGrant, OwnGrantsOf, RightsOf
  <2>3. TemporaryOf(by) \subseteq TemporaryRights  BY DEF TemporaryOf
  <2>4. rights[k] \cap BaseRights = {}  BY DEF AssignRead, RightsInv
  <2>5. Standing(by) \subseteq given  BY <2>1 DEF RightsInv, RolesHeld, Standing
  <2> QED  BY <2>2, <2>3, <2>4, <2>5
<1>5. RightsRequestOK(x) /\ GrantSound(x, rights, given)
  BY <1>3, <1>4 DEF RightsRequestOK, GrantSound
<1>6. req' = [req EXCEPT ![r] = x]  BY <1>1, <1>2 DEF AssignRead, Begin
<1> QED  BY <1>5, <1>6, RightsRequest DEF AssignRead, accessVars

LEMMA AssignWriteRights ==
  ASSUME RightsInv, [Next]_vars, NEW r \in Requests, AssignWrite(r)
  PROVE  RightsInv'
<1> DEFINE u == req[r].user
           x == req[r].role
           fails == rights[x] = None \/ (req[r].hire /\ status[u] # "NONE")
<1>1. UNCHANGED <<rights, deed>> /\ req' = [req EXCEPT ![r] = Idle]
  BY DEF AssignWrite, Done
<1>2. CASE fails
  <2>1. UNCHANGED <<role, given>>  BY <1>2 DEF AssignWrite
  <2> QED  BY <1>1, <2>1, RightsRequest, RightsIdle
<1>3. CASE ~fails
  <2>1. /\ role' = [role EXCEPT ![u] = x]
        /\ given' = IF req[r].by = Owner \/ req[r].overtaken THEN given \cup rights[x] ELSE given
        /\ rights[x] # None
    BY <1>3 DEF AssignWrite
  <2>2. rights[x] \subseteq given' /\ given \subseteq given'
    <3>1. CASE req[r].by = Owner \/ req[r].overtaken  BY <2>1, <3>1
    <3>2. CASE ~(req[r].by = Owner \/ req[r].overtaken)
      <4>1. GrantSound(req[r], rights, given) /\ req[r].op = "assign"
        BY DEF RightsInv, AssignWrite, At
      <4> QED  BY <2>1, <3>2, <4>1 DEF GrantSound
    <3> QED  BY <3>1, <3>2
  <2>3. DOMAIN role' = Employees /\ \A v \in Employees : role'[v] = role[v] \/ role'[v] = x
    BY <2>1 DEF RightsInv
  <2>4. RolesHeld'  BY <1>1, <2>1, <2>2, <2>3 DEF RightsInv, RolesHeld
  <2>5. \A q \in Requests : req'[q] = IF q = r THEN Idle ELSE req[q]
    BY <1>1 DEF RightsInv, RequestsNamed
  <2>6. ASSUME NEW q \in Requests PROVE RightsRequestOK(req'[q]) /\ GrantSound(req'[q], rights, given')
    <3>1. CASE q = r  BY <2>5, <3>1, RightsIdle
    <3>2. CASE q # r
      <4>1. RightsRequestOK(req[q]) /\ GrantSound(req[q], rights, given)  BY DEF RightsInv
      <4> QED  BY <2>2, <2>5, <3>2, <4>1 DEF GrantSound
    <3> QED  BY <3>1, <3>2
  <2>7. RequestsNamed'  BY NextNamed DEF RightsInv
  <2> HIDE DEF fails, u, x
  <2> QED  BY <1>1, <2>3, <2>4, <2>6, <2>7 DEF RightsInv
<1> QED  BY <1>2, <1>3

LEMMA RoleRemoveRights ==
  ASSUME RightsInv, [Next]_vars, NEW r \in Requests, RoleRemoveWrite(r)
  PROVE  RightsInv'
<1> DEFINE x == req[r].role
<1>1. /\ rights' = [rights EXCEPT ![x] = None]
      /\ role' = [u \in Employees |-> IF role[u] = x THEN None ELSE role[u]]
      /\ UNCHANGED <<given, deed>>
      /\ req' = [req EXCEPT ![r] = Idle]
  BY DEF RoleRemoveWrite, Done
<1> HIDE DEF x
<1>2. \A q \in Requests : req'[q] = IF q = r THEN Idle ELSE req[q]
  BY <1>1 DEF RightsInv, RequestsNamed
<1>3. DOMAIN rights' = Roles /\ \A k : k # x => rights'[k] = rights[k]
  BY <1>1 DEF RightsInv
<1>4. \A k \in Roles : rights'[k] = rights[k] \/ rights'[k] = None  BY <1>1 DEF RightsInv
<1>5. RolesHeld'
  <2>1. ASSUME NEW u \in Employees, role'[u] # None
        PROVE  rights'[role'[u]] # None /\ rights'[role'[u]] \subseteq given
    <3>1. role[u] # x /\ role'[u] = role[u]  BY <1>1, <2>1
    <3>2. rights'[role[u]] = rights[role[u]]  BY <1>3, <3>1
    <3> QED  BY <2>1, <3>1, <3>2 DEF RightsInv, RolesHeld
  <2> QED  BY <1>1, <2>1 DEF RolesHeld
<1>6. ASSUME NEW q \in Requests PROVE RightsRequestOK(req'[q]) /\ GrantSound(req'[q], rights', given)
  <2>1. CASE q = r  BY <1>2, <2>1, RightsIdle
  <2>2. CASE q # r
    <3>1. RightsRequestOK(req[q]) /\ GrantSound(req[q], rights, given)  BY DEF RightsInv
    <3>2. req[q].op = "assign" => rights'[req[q].role] \in {None, rights[req[q].role]}
      BY <1>4, <3>1 DEF RightsRequestOK
    <3> QED  BY <1>2, <2>2, <3>1, <3>2 DEF GrantSound
  <2> QED  BY <2>1, <2>2
<1>7. RequestsNamed'  BY NextNamed DEF RightsInv
<1>8. DOMAIN role' = Employees  BY <1>1
<1>9. \A k \in Roles : rights'[k] # None => rights'[k] \cap BaseRights = {}
  BY <1>4 DEF RightsInv
<1> QED  BY <1>1, <1>3, <1>5, <1>6, <1>7, <1>8, <1>9 DEF RightsInv

LEMMA RoleCreateRights ==
  ASSUME RightsInv, [Next]_vars, NEW x \in Roles, NEW g \in Grants, RoleCreate(x, g)
  PROVE  RightsInv'
<1>1. /\ rights[x] = None /\ \A r \in Requests : req[r].op = "assign" => req[r].role # x
      /\ rights' = [rights EXCEPT ![x] = Grantable(g)]
      /\ UNCHANGED <<role, given, deed, req>>
  BY DEF RoleCreate, Once
<1>2. DOMAIN rights' = Roles /\ \A k : k # x => rights'[k] = rights[k]
  BY <1>1 DEF RightsInv
<1>3. rights'[x] = Grantable(g) /\ Grantable(g) \cap BaseRights = {}
  BY <1>1 DEF RightsInv, Grantable
<1>4. RolesHeld'  BY <1>1, <1>2 DEF RightsInv, RolesHeld
<1>5. \A q \in Requests : GrantSound(req[q], rights', given)
  BY <1>1, <1>2 DEF RightsInv, GrantSound
<1>6. RequestsNamed'  BY NextNamed DEF RightsInv
<1>7. \A k \in Roles : rights'[k] # None => rights'[k] \cap BaseRights = {}
  BY <1>2, <1>3 DEF RightsInv
<1> QED  BY <1>1, <1>2, <1>4, <1>5, <1>6, <1>7 DEF RightsInv

\* The owner changes a role: those who hold it hold what the owner says now, and
\* whoever is about to give it away gives what the owner says.
LEMMA RoleUpdateRights ==
  ASSUME RightsInv, [Next]_vars, NEW x \in Roles, NEW g \in Grants, RoleUpdate(x, g)
  PROVE  RightsInv'
<1>1. /\ rights[x] # None
      /\ rights' = [rights EXCEPT ![x] = Grantable(g)]
      /\ given' = IF HeldBy(x) = {} THEN given ELSE given \cup Grantable(g)
      /\ req' = Overtaken(x)
      /\ UNCHANGED <<role, deed>>
  BY DEF RoleUpdate
<1>2. DOMAIN rights' = Roles /\ \A k : k # x => rights'[k] = rights[k]
  BY <1>1 DEF RightsInv
<1>3. rights'[x] = Grantable(g) /\ Grantable(g) \cap BaseRights = {} /\ Grantable(g) # None
  BY <1>1, AccessAssumption DEF RightsInv, Grantable
<1>4. RolesHeld'
  <2>1. ASSUME NEW u \in Employees, role[u] # None
        PROVE  rights'[role[u]] # None /\ rights'[role[u]] \subseteq given'
    <3>1. CASE role[u] = x
      <4>1. u \in HeldBy(x)  BY <3>1 DEF HeldBy
      <4> QED  BY <1>1, <1>3, <3>1, <4>1
    <3>2. CASE role[u] # x  BY <1>1, <1>2, <2>1, <3>2 DEF RightsInv, RolesHeld
    <3> QED  BY <3>1, <3>2
  <2> QED  BY <1>1, <2>1 DEF RolesHeld
<1>5. ASSUME NEW q \in Requests PROVE RightsRequestOK(req'[q]) /\ GrantSound(req'[q], rights', given')
  <2>1. RightsRequestOK(req[q]) /\ GrantSound(req[q], rights, given)  BY DEF RightsInv
  <2>2. CASE req[q].op = "assign" /\ req[q].role = x
    <3>1. PICK y : y = [req[q] EXCEPT !.overtaken = TRUE]  OBVIOUS
    <3>2. req'[q] = y  BY <1>1, <2>2, <3>1 DEF Overtaken
    <3>3. y.overtaken = TRUE /\ y.op = "assign" /\ y.role = x /\ "overtaken" \in DOMAIN y
      BY <2>1, <2>2, <3>1 DEF RightsRequestOK
    <3> QED  BY <3>2, <3>3 DEF RightsRequestOK, GrantSound
  <2>3. CASE ~(req[q].op = "assign" /\ req[q].role = x)
    <3>1. req'[q] = req[q]  BY <1>1, <2>3 DEF Overtaken
    <3>2. req[q].op = "assign" => rights'[req[q].role] = rights[req[q].role]
      BY <1>2, <2>3
    <3>3. given \subseteq given'  BY <1>1
    <3>4. GrantSound(req[q], rights', given')  BY <2>1, <3>2, <3>3 DEF GrantSound
    <3> QED  BY <2>1, <3>1, <3>4
  <2> QED  BY <2>2, <2>3
<1>6. RequestsNamed'  BY NextNamed DEF RightsInv
<1>7. \A k \in Roles : rights'[k] # None => rights'[k] \cap BaseRights = {}
  BY <1>2, <1>3 DEF RightsInv
<1> QED  BY <1>1, <1>2, <1>4, <1>5, <1>6, <1>7 DEF RightsInv

LEMMA RightsStep ==
  ASSUME RightsInv, [Next]_vars
  PROVE  RightsInv'
<1>1. CASE AccessNext
  <2>1. ASSUME NEW r \in Requests, NEW k, RoleRemoveRead(r, k) PROVE RightsInv'
    <3>1. PICK x : x = [op |-> "roleRemove", at |-> "write", role |-> k]  OBVIOUS
    <3>2. RightsRequestOK(x) /\ GrantSound(x, rights, given)
      BY <3>1 DEF RightsRequestOK, GrantSound
    <3> QED  BY <2>1, <3>1, <3>2, RightsRequest DEF RoleRemoveRead, Begin, accessVars
  <2>2. ASSUME NEW r \in Requests, NEW by, StaffPlans(r, by) PROVE RightsInv'
    <3>1. PICK op, x : Begin(r, op, x) /\ x.op \in {"createBulk", "scheduleUpdate"}
      <4>1. ASSUME NEW batch, BulkRead(r, by, batch)
            PROVE  \E op, x : Begin(r, op, x) /\ x.op \in {"createBulk", "scheduleUpdate"}
        <5>1. PICK x : /\ x = [op |-> "createBulk", at |-> "check", by |-> by, stale |-> FALSE,
                               todo |-> Merged([i \in DOMAIN batch |-> Resolved(batch[i])])]
                       /\ Begin(r, "createBulk", x)
          BY <4>1 DEF BulkRead
        <5>2. x.op = "createBulk"  BY <5>1
        <5> QED  BY <5>1, <5>2
      <4>2. ASSUME NEW k, NEW a, ScheduleUpdateRead(r, by, k, a)
            PROVE  \E op, x : Begin(r, op, x) /\ x.op \in {"createBulk", "scheduleUpdate"}
        <5>1. PICK x : /\ x = [op |-> "scheduleUpdate", at |-> "check", by |-> by, stale |-> FALSE,
                               row |-> k, to |-> Resolved(a)]
                       /\ Begin(r, "scheduleUpdate", x)
          BY <4>2 DEF ScheduleUpdateRead
        <5>2. x.op = "scheduleUpdate"  BY <5>1
        <5> QED  BY <5>1, <5>2
      <4> QED  BY <2>2, <4>1, <4>2 DEF StaffPlans
    <3>2. RightsRequestOK(x) /\ GrantSound(x, rights, given)
      BY <3>1 DEF RightsRequestOK, GrantSound
    <3> QED  BY <2>2, <3>1, <3>2, RightsRequest DEF StaffPlans, Begin, accessVars
  <2>3. ASSUME NEW r \in Requests, WorkWrite(r) PROVE RightsInv'
    <3>1. UNCHANGED <<role, rights, given>> /\ req' = [req EXCEPT ![r] = Idle]
      BY <2>3 DEF WorkWrite, Done
    <3>2. /\ deed'.by = req[r].by /\ deed'.post = req[r].post /\ deed'.place = req[r].place
          /\ deed'.own = req[r].own /\ deed'.onShift = req[r].onShift
      BY <2>3 DEF WorkWrite
    <3>3. req[r].by # Owner => req[r].post = req[r].place /\ (req[r].own \/ req[r].onShift)
      BY <2>3 DEF WorkWrite, At, RightsInv, RightsRequestOK
    <3>4. RequestsNamed'  BY NextNamed DEF RightsInv
    <3>5. \A q \in Requests : req'[q] = IF q = r THEN Idle ELSE req[q]
      BY <3>1 DEF RightsInv, RequestsNamed
    <3> QED  BY <3>1, <3>2, <3>3, <3>4, <3>5, RightsIdle DEF RightsInv, RolesHeld
  <2>4. CASE TimeGoesBy
    <3>1. RequestsNamed'  BY NextNamed DEF RightsInv
    <3> QED  BY <2>4, <3>1 DEF TimeGoesBy, requestVars, RightsInv, RolesHeld
  <2> QED
    BY <1>1, <2>1, <2>2, <2>3, <2>4, WorkReadRights, AssignReadRights, AssignWriteRights,
       RoleRemoveRights, RoleCreateRights, RoleUpdateRights DEF AccessNext
<1>2. CASE ~AccessNext
  <2>1. RequestsNamed'  BY NextNamed DEF RightsInv
  <2>2. UNCHANGED accessVars
    <3>1. CASE HandlingNext
      BY <3>1 DEF HandlingNext, StepWrite, AssigneeWrite, StepRead, AssigneeRead
    <3> QED  BY <1>2, <3>1 DEF Next, vars, areaVars
  <2>3. Keeps(AccessOps)
    <3>1. CASE UNCHANGED vars  BY <3>1 DEF Keeps, vars, requestVars
    <3>2. CASE Next
      BY <1>2, <3>2, StaffTouches, RosterTouches, HandlingTouches, BankingTouches,
         DashboardTouches, RegistersTouches, OrderListTouches, OutsideTouches, KeepsOthers
         DEF Next, RightsInv, StaffOps, RosterOps, AccessOps, HandlingOps, BankingOps, DashboardOps,
             RegisterOps, ListOps, OutsideOps
    <3> QED  BY <3>1, <3>2
  <2>4. ASSUME NEW q \in Requests PROVE RightsRequestOK(req'[q]) /\ GrantSound(req'[q], rights, given)
    <3>1. RightsRequestOK(req[q]) /\ GrantSound(req[q], rights, given)  BY DEF RightsInv
    <3>2. req'[q] = req[q] \/ req'[q].op \notin AccessOps  BY <2>3 DEF Keeps
    <3> QED  BY <3>1, <3>2 DEF RightsRequestOK, GrantSound, AccessOps
  <2> QED  BY <2>1, <2>2, <2>4 DEF RightsInv, RolesHeld, accessVars
<1> QED  BY <1>1, <1>2

LEMMA RightsInit == Init => RightsInv
<1> SUFFICES ASSUME Init PROVE RightsInv  OBVIOUS
<1>1. \A r \in Requests : RightsRequestOK(req[r]) /\ GrantSound(req[r], rights, given)
  BY RightsIdle DEF Init, RequestsInit
<1>2. DOMAIN role = Employees /\ DOMAIN rights = Roles  BY DEF Init, AccessInit
<1>3. ASSUME NEW x \in Roles, rights[x] # None PROVE rights[x] \cap BaseRights = {}
  BY <1>3 DEF Init, AccessInit, Grantable
<1>4. RolesHeld
  <2>1. ASSUME NEW u \in Employees, role[u] # None PROVE rights[role[u]] # None /\ rights[role[u]] \subseteq given
    <3>1. role[u] \in Roles /\ rights[role[u]] # None  BY <2>1 DEF Init, AccessInit
    <3>2. Standing(u) = rights[role[u]]  BY <2>1 DEF Standing
    <3>3. given = UNION {Standing(v) : v \in Employees}  BY DEF Init, AccessInit
    <3> QED  BY <3>1, <3>2, <3>3
  <2> QED  BY <2>1 DEF RolesHeld
<1>5. deed.by = Owner  BY DEF Init, AccessInit, NoDeed
<1> QED  BY <1>1, <1>2, <1>3, <1>4, <1>5, InitNamed DEF RightsInv

\* Nobody ever holds what the owner has not given to some employee, however they
\* pass roles on, and the rights of a shift are used at one's own place only.
THEOREM RightsAreTheOwners == Spec => []RightsComeFromOwner
<1>1. Init => RightsInv  BY RightsInit
<1>2. RightsInv /\ [Next]_vars => RightsInv'  BY RightsStep
<1>3. RightsInv => RightsComeFromOwner  BY RightsInvHolds
<1> QED  BY <1>1, <1>2, <1>3, PTL DEF Spec

------------------------------------------------------------------------------
(* Shifts *)

\* What a request plans: some people on a slot.
Planned == [who : SUBSET Employees, type : Types,
            slot : [tmpl : Templates, day : Nat, start : Int, end : Int]]

\* A row that is there, live or not.
Row(k) == k \in Shifts /\ shift[k] # NoShift

RosterRequestOK(x) ==
  /\ x.op = "createBulk" =>
       /\ x.todo \in Seq(Planned) /\ x.todo # <<>> /\ "stale" \in DOMAIN x
       /\ x.at = "save" => x.into = None \/ Row(x.into)
  /\ x.op = "scheduleUpdate" => x.to \in Planned /\ Row(x.row) /\ "stale" \in DOMAIN x
  /\ x.op \in {"scheduleRemove", "removeUser"} => Row(x.row)

RosterTypes ==
  /\ RequestsNamed
  /\ \A r \in Requests : RosterRequestOK(req[r])
  /\ hours \in [Templates -> Hours]
  /\ offered \subseteq Templates
  /\ DOMAIN shift = Shifts
  /\ \A k \in Shifts : /\ "status" \in DOMAIN shift[k]
                       /\ shift[k] # NoShift =>
                            {"who", "type", "tmpl", "day", "start", "end", "managedBy", "unsure"}
                              \subseteq DOMAIN shift[k]

\* The index: one live shift for a slot and a type.
SlotsOnce ==
  \A j, k \in Shifts : j # k /\ Live(j) /\ Live(k) /\ SlotOf(j) = SlotOf(k) =>
    shift[j].type # shift[k].type

\* A request whose check still covers the table finds what it checked.
CheckHolds(x) ==
  /\ x.op = "createBulk" /\ x.at \in {"find", "save"} /\ ~x.stale => ~Clash(Head(x.todo), None)
  /\ x.op = "createBulk" /\ x.at = "save" /\ ~x.stale /\ x.into # None =>
       SlotOf(x.into) = Head(x.todo).slot /\ shift[x.into].type = Head(x.todo).type
  /\ x.op = "scheduleUpdate" /\ x.at = "write" /\ ~x.stale => ~Clash(x.to, x.row)

RosterInv ==
  RosterTypes /\ SlotsOnce /\ NobodyTwiceAtOnce /\ \A r \in Requests : CheckHolds(req[r])

LEMMA RosterIdle == RosterRequestOK(Idle) /\ CheckHolds(Idle)
BY DEF RosterRequestOK, CheckHolds, Idle

\* One request goes on to x, and no shift changes.
LEMMA RosterRequest ==
  ASSUME RosterInv, [Next]_vars, UNCHANGED rosterVars, NEW r \in Requests, NEW x,
         req' = [req EXCEPT ![r] = x], RosterRequestOK(x), CheckHolds(x)
  PROVE  RosterInv'
<1>1. RequestsNamed'  BY NextNamed DEF RosterInv, RosterTypes
<1>2. \A q \in Requests : req'[q] = IF q = r THEN x ELSE req[q]
  BY DEF RosterInv, RosterTypes, RequestsNamed
<1>3. UNCHANGED <<hours, offered, shift>>  BY DEF rosterVars
<1>4. ASSUME NEW q \in Requests PROVE RosterRequestOK(req[q])' /\ CheckHolds(req[q])'
  <2>1. PICK y : y = req'[q] /\ RosterRequestOK(y) /\ CheckHolds(y)
    BY <1>2 DEF RosterInv, RosterTypes
  <2>2. RosterRequestOK(req[q])'  BY <1>3, <2>1 DEF RosterRequestOK, Row
  <2>3. CheckHolds(req[q])'  BY <1>3, <2>1 DEF CheckHolds, Clash, Live, SlotOf
  <2> QED  BY <2>2, <2>3
<1>5. RosterTypes'  BY <1>1, <1>3, <1>4 DEF RosterInv, RosterTypes
<1>6. SlotsOnce' /\ NobodyTwiceAtOnce'
  BY <1>3 DEF RosterInv, SlotsOnce, NobodyTwiceAtOnce, Live, SlotOf
<1> QED  BY <1>4, <1>5, <1>6 DEF RosterInv

LEMMA RosterDone ==
  ASSUME RosterInv, [Next]_vars, UNCHANGED rosterVars, NEW r \in Requests, req' = Done(r)
  PROVE  RosterInv'
BY RosterRequest, RosterIdle DEF Done

\* What is asked for on a day of an offered template is a plan.
LEMMA ResolvedPlanned ==
  ASSUME RosterTypes, NEW a \in Assignments
  PROVE  Resolved(a) \in Planned
<1>1. a.who \in SUBSET Employees /\ a.type \in Types /\ a.tmpl \in Templates /\ a.day \in Nat
  BY RosterAssumption DEF Assignments
<1>2. PICK h : h = hours[a.tmpl]  OBVIOUS
<1>3. h \in Hours  BY <1>1, <1>2 DEF RosterTypes
<1>4. h.start \in Int /\ h.end \in Int /\ DayLength \in Int  BY <1>3, RosterAssumption
<1>5. PICK m : m = a.day * DayLength  OBVIOUS
<1>6. m \in Int  BY <1>1, <1>4, <1>5
<1>7. m + h.start \in Int /\ EndAt(a.day, h) \in Int  BY <1>4, <1>5, <1>6 DEF EndAt
<1>8. Slot(a.tmpl, a.day, h) \in [tmpl : Templates, day : Nat, start : Int, end : Int]
  BY <1>1, <1>5, <1>7 DEF Slot
<1> QED  BY <1>1, <1>2, <1>8 DEF Resolved, Planned

LEMMA MergedPlanned ==
  ASSUME NEW as \in Seq(Planned), as # <<>>
  PROVE  Merged(as) \in Seq(Planned) /\ Merged(as) # <<>>
<1>1. CASE Len(as) = 2 /\ as[1].slot = as[2].slot /\ as[1].type = as[2].type
  <2>1. as[1] \in Planned /\ as[2] \in Planned
    <3>1. ASSUME NEW S, NEW s \in Seq(S), Len(s) = 2 PROVE s[1] \in S /\ s[2] \in S  BY <3>1
    <3> QED  BY <1>1, <3>1
  <2>2. PICK y : y = [as[1] EXCEPT !.who = @ \cup as[2].who]  OBVIOUS
  <2>3. y \in Planned  BY <2>1, <2>2 DEF Planned
  <2>4. Merged(as) = <<y>>  BY <1>1, <2>2 DEF Merged
  <2> QED  BY <2>3, <2>4
<1>2. CASE ~(Len(as) = 2 /\ as[1].slot = as[2].slot /\ as[1].type = as[2].type)
  BY <1>2 DEF Merged
<1> QED  BY <1>1, <1>2

LEMMA BatchesPlanned ==
  ASSUME NEW batch \in Batches
  PROVE  batch \in Seq(Assignments) /\ batch # <<>>
<1>1. CASE \E a \in Assignments : batch = <<a>>  BY <1>1
<1>2. CASE \E a \in Assignments, d \in Days : batch = <<a, [a EXCEPT !.day = d]>>
  <2>1. PICK a \in Assignments, d \in Days : batch = <<a, [a EXCEPT !.day = d]>>  BY <1>2
  <2>2. [a EXCEPT !.day = d] \in Assignments  BY DEF Assignments
  <2> QED  BY <2>1, <2>2
<1> QED  BY <1>1, <1>2 DEF Batches

LEMMA BulkReadRoster ==
  ASSUME RosterInv, [Next]_vars, NEW r \in Requests, NEW by, NEW batch \in Seq(Assignments), batch # <<>>,
         BulkRead(r, by, batch)
  PROVE  RosterInv'
<1>1. PICK as : as = [i \in DOMAIN batch |-> Resolved(batch[i])]  OBVIOUS
<1>2. as \in Seq(Planned) /\ as # <<>>
  <2>1. \A i \in 1 .. Len(batch) : Resolved(batch[i]) \in Planned
    BY ResolvedPlanned DEF RosterInv
  <2>2. as = [i \in 1 .. Len(batch) |-> Resolved(batch[i])]  BY <1>1
  <2>3. Len(batch) \in Nat /\ Len(batch) # 0  OBVIOUS
  <2>4. as \in Seq(Planned) /\ Len(as) = Len(batch)  BY <2>1, <2>2, <2>3
  <2> QED  BY <2>3, <2>4
<1>3. PICK todo : todo = Merged(as)  OBVIOUS
<1>4. todo \in Seq(Planned) /\ todo # <<>>  BY <1>2, <1>3, MergedPlanned
<1>5. PICK x : x = [op |-> "createBulk", at |-> "check", by |-> by, stale |-> FALSE, todo |-> todo]
  OBVIOUS
<1>6. RosterRequestOK(x) /\ CheckHolds(x)  BY <1>4, <1>5 DEF RosterRequestOK, CheckHolds
<1>7. req' = [req EXCEPT ![r] = x]  BY <1>1, <1>3, <1>5 DEF BulkRead, Begin
<1> QED  BY <1>6, <1>7, RosterRequest DEF BulkRead

LEMMA ScheduleReadRoster ==
  ASSUME RosterInv, [Next]_vars, NEW r \in Requests, NEW by, NEW k \in Shifts, NEW a \in Assignments, NEW u,
         ScheduleUpdateRead(r, by, k, a) \/ ScheduleRemoveRead(r, k) \/ RemoveUserRead(r, k, u)
  PROVE  RosterInv'
<1>1. Row(k)  BY DEF ScheduleUpdateRead, ScheduleRemoveRead, RemoveUserRead, Live, Row, NoShift
<1>2. CASE ScheduleUpdateRead(r, by, k, a)
  <2>1. PICK to : to = Resolved(a)  OBVIOUS
  <2>2. to \in Planned  BY <2>1, ResolvedPlanned DEF RosterInv
  <2>3. PICK x : x = [op |-> "scheduleUpdate", at |-> "check", by |-> by, stale |-> FALSE, row |-> k,
                      to |-> to]
    OBVIOUS
  <2>4. RosterRequestOK(x) /\ CheckHolds(x)  BY <1>1, <2>2, <2>3 DEF RosterRequestOK, CheckHolds
  <2>5. req' = [req EXCEPT ![r] = x]  BY <1>2, <2>1, <2>3 DEF ScheduleUpdateRead, Begin
  <2> QED  BY <1>2, <2>4, <2>5, RosterRequest DEF ScheduleUpdateRead
<1>3. ASSUME NEW x, x = [op |-> "scheduleRemove", at |-> "write", row |-> k]
             \/ x = [op |-> "removeUser", at |-> "write", row |-> k, user |-> u]
      PROVE  RosterRequestOK(x) /\ CheckHolds(x)
  BY <1>1, <1>3 DEF RosterRequestOK, CheckHolds
<1>4. CASE ScheduleRemoveRead(r, k) \/ RemoveUserRead(r, k, u)
  <2>1. PICK x : /\ req' = [req EXCEPT ![r] = x]
                 /\ \/ x = [op |-> "scheduleRemove", at |-> "write", row |-> k]
                    \/ x = [op |-> "removeUser", at |-> "write", row |-> k, user |-> u]
    BY <1>4 DEF ScheduleRemoveRead, RemoveUserRead, Begin
  <2> QED  BY <1>3, <1>4, <2>1, RosterRequest DEF ScheduleRemoveRead, RemoveUserRead
<1> QED  BY <1>2, <1>4

\* A batch passes its check, finds the shift of its next slot; an edit passes its check.
LEMMA BulkCheckRoster ==
  ASSUME RosterInv, [Next]_vars, NEW r \in Requests, BulkCheck(r) \/ ScheduleUpdateCheck(r)
  PROVE  RosterInv'
<1>1. UNCHANGED rosterVars  BY DEF BulkCheck, ScheduleUpdateCheck
<1>2. CASE req' = Done(r)  BY <1>1, <1>2, RosterDone
<1>3. RosterRequestOK(req[r]) /\ Named(req[r])
  BY DEF RosterInv, RosterTypes, RequestsNamed
<1>4. CASE BulkCheck(r) /\ ~Clash(Head(req[r].todo), None)
  <2>1. PICK x : x = [req[r] EXCEPT !.at = "find", !.stale = FALSE]  OBVIOUS
  <2>2. req[r].op = "createBulk"  BY <1>4 DEF BulkCheck, At
  <2>3. /\ x.op = "createBulk" /\ x.at = "find" /\ x.todo = req[r].todo
        /\ DOMAIN x = DOMAIN req[r]
    BY <1>3, <2>1, <2>2 DEF Named, RosterRequestOK
  <2>4. RosterRequestOK(x) /\ CheckHolds(x)
    BY <1>3, <1>4, <2>2, <2>3 DEF RosterRequestOK, CheckHolds
  <2>5. req' = [req EXCEPT ![r] = x]
    BY <1>4, <2>1 DEF BulkCheck, RosterInv, RosterTypes, RequestsNamed
  <2> QED  BY <1>1, <2>4, <2>5, RosterRequest
<1>5. CASE ScheduleUpdateCheck(r) /\ ~Clash(req[r].to, req[r].row)
  <2>1. PICK x : x = [req[r] EXCEPT !.at = "write"]  OBVIOUS
  <2>2. req[r].op = "scheduleUpdate"  BY <1>5 DEF ScheduleUpdateCheck, At
  <2>3. /\ x.op = "scheduleUpdate" /\ x.at = "write" /\ x.to = req[r].to /\ x.row = req[r].row
        /\ DOMAIN x = DOMAIN req[r]
    BY <1>3, <2>1, <2>2 DEF Named, RosterRequestOK
  <2>4. RosterRequestOK(x) /\ CheckHolds(x)
    BY <1>3, <1>5, <2>2, <2>3 DEF RosterRequestOK, CheckHolds
  <2>5. req' = [req EXCEPT ![r] = x]  BY <1>5, <2>1 DEF ScheduleUpdateCheck, GoTo
  <2> QED  BY <1>1, <2>4, <2>5, RosterRequest
<1> QED  BY <1>2, <1>4, <1>5 DEF BulkCheck, ScheduleUpdateCheck

LEMMA BulkFindRoster ==
  ASSUME RosterInv, [Next]_vars, NEW r \in Requests, BulkFind(r)
  PROVE  RosterInv'
<1> DEFINE found == SameSlot(Head(req[r].todo))
<1>1. PICK into : into = IF found = {} THEN None ELSE CHOOSE k \in found : TRUE  OBVIOUS
<1>2. into = None \/ into \in found  BY <1>1
<1>3. RosterRequestOK(req[r]) /\ CheckHolds(req[r]) /\ req[r].op = "createBulk" /\ req[r].at = "find"
  BY DEF RosterInv, RosterTypes, BulkFind, At
<1>4. PICK x : x = [op |-> "createBulk", at |-> "save", by |-> req[r].by, stale |-> req[r].stale,
                    todo |-> req[r].todo, into |-> into]
  OBVIOUS
<1>5. /\ x.op = "createBulk" /\ x.at = "save" /\ x.stale = req[r].stale /\ x.todo = req[r].todo
      /\ x.into = into /\ "stale" \in DOMAIN x
  BY <1>4
<1>6. into # None =>
        Row(into) /\ SlotOf(into) = Head(req[r].todo).slot /\ shift[into].type = Head(req[r].todo).type
  BY <1>2 DEF SameSlot, Row, Live, NoShift
<1>7. RosterRequestOK(x)  BY <1>3, <1>5, <1>6 DEF RosterRequestOK
<1>8. CheckHolds(x)  BY <1>3, <1>5, <1>6 DEF CheckHolds
<1>9. req' = [req EXCEPT ![r] = x]
  BY <1>1, <1>4 DEF BulkFind, RosterInv, RosterTypes, RequestsNamed
<1> QED  BY <1>7, <1>8, <1>9, RosterRequest DEF BulkFind

\* One shift is written: it falls on no live shift of its slot and type, and meets
\* none of its people elsewhere unless it is unsure.
LEMMA ShiftPlanned ==
  ASSUME RosterInv, NEW k \in Shifts, NEW slot, NEW type,
         \A j \in Shifts \ {k} : shift'[j] = shift[j],
         Live(k)' =>
           /\ SlotOf(k)' = slot /\ shift'[k].type = type
           /\ \A j \in Shifts \ {k} : Live(j) /\ SlotOf(j) = slot => shift[j].type # type
           /\ ~shift'[k].unsure =>
                \A j \in Shifts \ {k} :
                  /\ Live(j) /\ ~shift[j].unsure
                  /\ shift[j].who \cap shift'[k].who # {} /\ Meet(SlotOf(j), slot)
                  => SlotOf(j) = slot
  PROVE  SlotsOnce' /\ NobodyTwiceAtOnce'
<1>1. ASSUME NEW j \in Shifts \ {k}
      PROVE  (Live(j)' <=> Live(j)) /\ SlotOf(j)' = SlotOf(j) /\ shift'[j] = shift[j]
  BY DEF Live, SlotOf
<1>2. ASSUME NEW j \in Shifts \ {k}, Live(j)', Live(k)', SlotOf(j)' = SlotOf(k)'
      PROVE  shift'[j].type # shift'[k].type
  BY <1>1, <1>2
<1>3. SlotsOnce'
  <2>1. ASSUME NEW i \in Shifts, NEW j \in Shifts, i # j, Live(i)', Live(j)', SlotOf(i)' = SlotOf(j)'
        PROVE  shift'[i].type # shift'[j].type
    <3>1. CASE i = k  BY <1>2, <2>1, <3>1
    <3>2. CASE j = k  BY <1>2, <2>1, <3>2
    <3>3. CASE i # k /\ j # k  BY <1>1, <2>1, <3>3 DEF RosterInv, SlotsOnce
    <3> QED  BY <3>1, <3>2, <3>3
  <2> QED  BY <2>1 DEF SlotsOnce
<1>4. ASSUME NEW j \in Shifts \ {k}, Live(j)', Live(k)', shift'[j].who \cap shift'[k].who # {},
             ~shift'[j].unsure, ~shift'[k].unsure, Meet(SlotOf(j)', SlotOf(k)')
      PROVE  SlotOf(j)' = SlotOf(k)' /\ shift'[j].type # shift'[k].type
  BY <1>1, <1>2, <1>4
<1>5. NobodyTwiceAtOnce'
  <2>1. ASSUME NEW i \in Shifts, NEW j \in Shifts, i # j, Live(i)', Live(j)',
               shift'[i].who \cap shift'[j].who # {},
               ~shift'[i].unsure, ~shift'[j].unsure, Meet(SlotOf(i)', SlotOf(j)')
        PROVE  SlotOf(i)' = SlotOf(j)' /\ shift'[i].type # shift'[j].type
    <3>1. CASE i = k
      <4>1. Meet(SlotOf(j)', SlotOf(k)')  BY <2>1, <3>1 DEF Meet
      <4>2. shift'[j].who \cap shift'[k].who # {}  BY <2>1, <3>1
      <4> QED  BY <1>4, <2>1, <3>1, <4>1, <4>2
    <3>2. CASE j = k  BY <1>4, <2>1, <3>2
    <3>3. CASE i # k /\ j # k  BY <1>1, <2>1, <3>3 DEF RosterInv, NobodyTwiceAtOnce
    <3> QED  BY <3>1, <3>2, <3>3
  <2> QED  BY <2>1 DEF NobodyTwiceAtOnce
<1> QED  BY <1>3, <1>5

\* Whoever saves a shift makes the checks of the others out of date.
LEMMA PlansMarked ==
  ASSUME RosterInv, NEW r \in Requests, NEW x, req' = [OthersStale(r) EXCEPT ![r] = x],
         \A k : Row(k) => Row(k)',
         RosterRequestOK(x), x.op # "scheduleUpdate", x.op = "createBulk" => x.at = "check"
  PROVE  \A q \in Requests : RosterRequestOK(req[q])' /\ CheckHolds(req[q])'
<1>1. req'[r] = x  BY DEF OthersStale
<1>2. \A q \in Requests \ {r} :
        req'[q] = IF Outdated(q) THEN [req[q] EXCEPT !.stale = TRUE] ELSE req[q]
  BY DEF OthersStale
<1>3. RosterRequestOK(req[r])' /\ CheckHolds(req[r])'
  <2>1. RosterRequestOK(req[r])'  BY <1>1 DEF RosterRequestOK
  <2>2. CheckHolds(req[r])'  BY <1>1 DEF CheckHolds
  <2> QED  BY <2>1, <2>2
<1>4. ASSUME NEW q \in Requests \ {r} PROVE RosterRequestOK(req[q])' /\ CheckHolds(req[q])'
  <2>1. RosterRequestOK(req[q])  BY DEF RosterInv, RosterTypes
  <2>2. CASE Outdated(q)
    <3>1. PICK y : y = [req[q] EXCEPT !.stale = TRUE]  OBVIOUS
    <3>2. req'[q] = y  BY <1>2, <2>2, <3>1
    <3>3. "stale" \in DOMAIN req[q] /\ req[q].op \in {"createBulk", "scheduleUpdate"}
      BY <2>1, <2>2 DEF RosterRequestOK, Outdated
    <3>4. /\ y.stale = TRUE /\ y.op = req[q].op /\ y.at = req[q].at /\ y.todo = req[q].todo
          /\ y.into = req[q].into /\ y.to = req[q].to /\ y.row = req[q].row /\ DOMAIN y = DOMAIN req[q]
      BY <3>1, <3>3
    <3>5. RosterRequestOK(req[q])'  BY <2>1, <3>2, <3>4 DEF RosterRequestOK
    <3>6. CheckHolds(req[q])'  BY <3>2, <3>4 DEF CheckHolds
    <3> QED  BY <3>5, <3>6
  <2>3. CASE ~Outdated(q)
    <3>1. req'[q] = req[q]  BY <1>2, <2>3
    <3>2. RosterRequestOK(req[q])'  BY <2>1, <3>1 DEF RosterRequestOK
    <3>3. CheckHolds(req[q])'  BY <2>3, <3>1 DEF CheckHolds, Outdated
    <3> QED  BY <3>2, <3>3
  <2> QED  BY <2>2, <2>3
<1> QED  BY <1>3, <1>4

\* What is left of a batch.
LEMMA RemainingOK ==
  ASSUME RosterInv, NEW r \in Requests, At(r, {"createBulk"}, "save")
  PROVE  /\ RosterRequestOK(Remaining(r)) /\ Remaining(r).op # "scheduleUpdate"
         /\ Remaining(r).op = "createBulk" => Remaining(r).at = "check"
<1>1. req[r].todo \in Seq(Planned) /\ req[r].todo # <<>>
  BY DEF At, RosterInv, RosterTypes, RosterRequestOK
<1>2. CASE Len(req[r].todo) = 1
  <2>1. Remaining(r) = Idle  BY <1>2 DEF Remaining
  <2> QED  BY <2>1, RosterIdle DEF Idle
<1>3. CASE Len(req[r].todo) # 1
  <2>1. ASSUME NEW S, NEW s \in Seq(S), s # <<>>, Len(s) # 1 PROVE Tail(s) \in Seq(S) /\ Tail(s) # <<>>
    <3>1. Len(s) \in Nat /\ Len(s) # 0  BY <2>1
    <3>2. Tail(s) \in Seq(S) /\ Len(Tail(s)) = Len(s) - 1  BY <2>1, <3>1
    <3>3. PICK t : t = Tail(s)  OBVIOUS
    <3>4. t \in Seq(S) /\ Len(t) # 0  BY <2>1, <3>1, <3>2, <3>3
    <3>5. t # <<>>  BY <3>4
    <3> QED  BY <3>3, <3>4, <3>5
  <2>2. PICK rest : rest = Tail(req[r].todo)  OBVIOUS
  <2>3. rest \in Seq(Planned) /\ rest # <<>>  BY <1>1, <1>3, <2>1, <2>2
  <2>4. PICK x : x = [op |-> "createBulk", at |-> "check", by |-> req[r].by, stale |-> FALSE, todo |-> rest]
    OBVIOUS
  <2>5. Remaining(r) = x  BY <1>3, <2>2, <2>4 DEF Remaining
  <2>6. x.op = "createBulk" /\ x.at = "check" /\ x.todo = rest /\ "stale" \in DOMAIN x  BY <2>4
  <2> QED  BY <2>3, <2>5, <2>6 DEF RosterRequestOK
<1> QED  BY <1>2, <1>3

LEMMA PlansKept ==
  ASSUME RosterInv, [Next]_vars, UNCHANGED <<hours, offered>>,
         \A q \in Requests : RosterRequestOK(req[q])' /\ CheckHolds(req[q])',
         SlotsOnce', NobodyTwiceAtOnce', DOMAIN shift' = Shifts,
         NEW k \in Shifts, \A j \in Shifts \ {k} : shift'[j] = shift[j],
         {"status", "who", "type", "tmpl", "day", "start", "end", "managedBy", "unsure"}
           \subseteq DOMAIN shift'[k]
  PROVE  RosterInv'
<1>1. RequestsNamed'  BY NextNamed DEF RosterInv, RosterTypes
<1> QED  BY <1>1 DEF RosterInv, RosterTypes

\* The slot of a row that holds a plan is the plan's.
LEMMA SlotOfPlan ==
  ASSUME NEW a \in Planned, NEW row, row.tmpl = a.slot.tmpl, row.day = a.slot.day,
         row.start = a.slot.start, row.end = a.slot.end
  PROVE  [tmpl |-> row.tmpl, day |-> row.day, start |-> row.start, end |-> row.end] = a.slot
BY DEF Planned

LEMMA BulkCreateRoster ==
  ASSUME RosterInv, [Next]_vars, NEW r \in Requests, NEW k \in Shifts, BulkCreate(r, k)
  PROVE  RosterInv'
<1> DEFINE a == Head(req[r].todo)
<1>1. RosterRequestOK(req[r]) /\ CheckHolds(req[r]) /\ At(r, {"createBulk"}, "save")
  BY DEF RosterInv, RosterTypes, BulkCreate
<1>2. a \in Planned
  <2>1. ASSUME NEW S, NEW s \in Seq(S), s # <<>> PROVE Head(s) \in S  BY <2>1
  <2> QED  BY <1>1, <2>1 DEF RosterRequestOK, At
<1>3. CASE SameSlot(a) # {}
  BY <1>3, RosterDone DEF BulkCreate, rosterVars
<1>4. CASE SameSlot(a) = {}
  <2>1. PICK s : s = [status |-> "SCHEDULED", tmpl |-> a.slot.tmpl, day |-> a.slot.day,
                      start |-> a.slot.start, end |-> a.slot.end, type |-> a.type,
                      who |-> a.who, managedBy |-> req[r].by, unsure |-> req[r].stale]
    OBVIOUS
  <2>2. /\ shift' = [shift EXCEPT ![k] = s] /\ req' = [OthersStale(r) EXCEPT ![r] = Remaining(r)]
        /\ UNCHANGED <<hours, offered>>
    BY <1>4, <2>1 DEF BulkCreate
  <2>3. /\ s.tmpl = a.slot.tmpl /\ s.day = a.slot.day /\ s.start = a.slot.start /\ s.end = a.slot.end
        /\ s.type = a.type /\ s.who = a.who /\ s.unsure = req[r].stale /\ s.status = "SCHEDULED"
        /\ {"status", "who", "type", "tmpl", "day", "start", "end", "managedBy", "unsure"} \subseteq DOMAIN s
    BY <2>1
  <2>4. /\ DOMAIN shift' = Shifts /\ shift'[k] = s
        /\ \A j \in Shifts \ {k} : shift'[j] = shift[j]
    BY <2>2 DEF RosterInv, RosterTypes
  <2>5. SlotOf(k)' = a.slot  BY <1>2, <2>3, <2>4, SlotOfPlan DEF SlotOf
  <2>6. \A j \in Shifts \ {k} : Live(j) /\ SlotOf(j) = a.slot => shift[j].type # a.type
    BY <1>4 DEF SameSlot
  <2>7. ASSUME ~req[r].stale, NEW j \in Shifts \ {k}, Live(j), shift[j].who \cap a.who # {},
               Meet(SlotOf(j), a.slot)
        PROVE  SlotOf(j) = a.slot
    <3>1. ~Clash(a, None)  BY <1>1, <2>7 DEF CheckHolds, At
    <3>2. j # None  BY RosterAssumption
    <3> QED  BY <2>7, <3>1, <3>2 DEF Clash
  <2> HIDE DEF a
  <2>8. SlotsOnce' /\ NobodyTwiceAtOnce'
    BY <2>3, <2>4, <2>5, <2>6, <2>7, ShiftPlanned
  <2>9. \A i : Row(i) => Row(i)'
    BY <2>3, <2>4 DEF Row, NoShift
  <2>10. \A q \in Requests : RosterRequestOK(req[q])' /\ CheckHolds(req[q])'
    BY <1>1, <2>2, <2>9, PlansMarked, RemainingOK
  <2> QED  BY <2>2, <2>3, <2>4, <2>8, <2>10, PlansKept
<1> QED  BY <1>3, <1>4

LEMMA BulkAddRoster ==
  ASSUME RosterInv, [Next]_vars, NEW r \in Requests, BulkAdd(r)
  PROVE  RosterInv'
<1> DEFINE a == Head(req[r].todo)
<1>0. PICK k : k = req[r].into  OBVIOUS
<1>1. RosterRequestOK(req[r]) /\ CheckHolds(req[r]) /\ At(r, {"createBulk"}, "save") /\ k # None
  BY <1>0 DEF RosterInv, RosterTypes, BulkAdd
<1>2. Row(k)  BY <1>0, <1>1 DEF RosterRequestOK, At
<1>3. PICK m : m = (shift[k].unsure \/ req[r].stale)  OBVIOUS
<1>4. ~m => ~shift[k].unsure /\ ~req[r].stale  BY <1>3
<1>5. /\ shift' = [shift EXCEPT ![k].who = @ \cup a.who, ![k].managedBy = req[r].by, ![k].unsure = m]
      /\ req' = [OthersStale(r) EXCEPT ![r] = Remaining(r)]
      /\ UNCHANGED <<hours, offered>>
  BY <1>0, <1>3 DEF BulkAdd
<1> HIDE DEF a
<1>6. PICK s : s = [shift[k] EXCEPT !.who = @ \cup a.who, !.managedBy = req[r].by, !.unsure = m]  OBVIOUS
<1>7. {"status", "who", "type", "tmpl", "day", "start", "end", "managedBy", "unsure"} \subseteq DOMAIN shift[k]
  BY <1>2 DEF RosterInv, RosterTypes, Row
<1>8. /\ s.who = shift[k].who \cup a.who /\ s.unsure = m /\ s.status = shift[k].status
      /\ s.tmpl = shift[k].tmpl /\ s.day = shift[k].day /\ s.start = shift[k].start
      /\ s.end = shift[k].end /\ s.type = shift[k].type /\ DOMAIN s = DOMAIN shift[k]
  BY <1>6, <1>7
<1>9. k \in Shifts /\ DOMAIN shift = Shifts  BY <1>2 DEF Row, RosterInv, RosterTypes
<1>10. DOMAIN shift' = Shifts /\ shift'[k] = s /\ \A j \in Shifts \ {k} : shift'[j] = shift[j]
  BY <1>5, <1>6, <1>9
<1>11. (Live(k)' <=> Live(k)) /\ SlotOf(k)' = SlotOf(k) /\ shift'[k].type = shift[k].type
  BY <1>8, <1>10 DEF Live, SlotOf
<1>12. ASSUME Live(k) PROVE \A j \in Shifts \ {k} : Live(j) /\ SlotOf(j) = SlotOf(k) => shift[j].type # shift[k].type
  BY <1>9, <1>12 DEF RosterInv, SlotsOnce
<1>13. ASSUME Live(k), ~m, NEW j \in Shifts \ {k}, Live(j), ~shift[j].unsure,
              shift[j].who \cap s.who # {}, Meet(SlotOf(j), SlotOf(k))
       PROVE  SlotOf(j) = SlotOf(k)
  <2>1. CASE shift[j].who \cap shift[k].who # {}
    BY <1>4, <1>9, <1>13, <2>1 DEF RosterInv, NobodyTwiceAtOnce
  <2>2. CASE shift[j].who \cap a.who # {}
    <3>1. ~Clash(a, None) /\ SlotOf(k) = a.slot
      BY <1>0, <1>1, <1>4, <1>13 DEF CheckHolds, At, a
    <3>2. j # None  BY RosterAssumption
    <3> QED  BY <1>13, <2>2, <3>1, <3>2 DEF Clash
  <2> QED  BY <1>8, <1>13, <2>1, <2>2
<1>14. SlotsOnce' /\ NobodyTwiceAtOnce'
  BY <1>8, <1>9, <1>10, <1>11, <1>12, <1>13, ShiftPlanned
<1>15. \A i : Row(i) => Row(i)'
  <2>1. shift'[k] # NoShift  BY <1>7, <1>8, <1>10 DEF NoShift
  <2> QED  BY <1>10, <2>1 DEF Row
<1>16. \A q \in Requests : RosterRequestOK(req[q])' /\ CheckHolds(req[q])'
  BY <1>1, <1>5, <1>15, PlansMarked, RemainingOK
<1> QED  BY <1>5, <1>7, <1>8, <1>9, <1>10, <1>14, <1>16, PlansKept

LEMMA ScheduleWriteRoster ==
  ASSUME RosterInv, [Next]_vars, NEW r \in Requests, ScheduleUpdateWrite(r)
  PROVE  RosterInv'
<1>0. PICK k, a : k = req[r].row /\ a = req[r].to  OBVIOUS
<1>1. RosterRequestOK(req[r]) /\ CheckHolds(req[r]) /\ At(r, {"scheduleUpdate"}, "write")
  BY DEF RosterInv, RosterTypes, ScheduleUpdateWrite
<1>2. a \in Planned /\ Row(k)  BY <1>0, <1>1 DEF RosterRequestOK, At
<1>3. CASE Live(k) /\ SameSlot(a) \ {k} # {}
  BY <1>0, <1>3, RosterDone DEF ScheduleUpdateWrite, rosterVars
<1>4. CASE ~(Live(k) /\ SameSlot(a) \ {k} # {})
  <2>1. PICK s : s = [status |-> shift[k].status, tmpl |-> a.slot.tmpl, day |-> a.slot.day,
                      start |-> a.slot.start, end |-> a.slot.end, type |-> a.type,
                      who |-> a.who, managedBy |-> req[r].by, unsure |-> req[r].stale]
    OBVIOUS
  <2>2. /\ shift' = [shift EXCEPT ![k] = s] /\ req' = [OthersStale(r) EXCEPT ![r] = Idle]
        /\ UNCHANGED <<hours, offered>>
    BY <1>0, <1>4, <2>1 DEF ScheduleUpdateWrite
  <2>3. /\ s.tmpl = a.slot.tmpl /\ s.day = a.slot.day /\ s.start = a.slot.start /\ s.end = a.slot.end
        /\ s.type = a.type /\ s.who = a.who /\ s.unsure = req[r].stale /\ s.status = shift[k].status
        /\ {"status", "who", "type", "tmpl", "day", "start", "end", "managedBy", "unsure"} \subseteq DOMAIN s
    BY <2>1
  <2>4. /\ DOMAIN shift' = Shifts /\ shift'[k] = s /\ k \in Shifts
        /\ \A j \in Shifts \ {k} : shift'[j] = shift[j]
    BY <1>2, <2>2 DEF RosterInv, RosterTypes, Row
  <2>5. SlotOf(k)' = a.slot  BY <1>2, <2>3, <2>4, SlotOfPlan DEF SlotOf
  <2>6. ASSUME Live(k)' PROVE \A j \in Shifts \ {k} : Live(j) /\ SlotOf(j) = a.slot => shift[j].type # a.type
    <3>1. Live(k)  BY <2>3, <2>4, <2>6 DEF Live
    <3> QED  BY <1>4, <3>1 DEF SameSlot
  <2>7. ASSUME ~req[r].stale, NEW j \in Shifts \ {k}, Live(j), shift[j].who \cap a.who # {},
               Meet(SlotOf(j), a.slot)
        PROVE  SlotOf(j) = a.slot
    <3>1. ~Clash(a, k)  BY <1>0, <1>1, <2>7 DEF CheckHolds, At
    <3> QED  BY <2>7, <3>1 DEF Clash
  <2>8. SlotsOnce' /\ NobodyTwiceAtOnce'
    BY <2>3, <2>4, <2>5, <2>6, <2>7, ShiftPlanned
  <2>9. \A i : Row(i) => Row(i)'
    BY <2>3, <2>4 DEF Row, NoShift
  <2>10. \A q \in Requests : RosterRequestOK(req[q])' /\ CheckHolds(req[q])'
    BY <2>2, <2>9, PlansMarked, RosterIdle DEF Idle
  <2> QED  BY <2>2, <2>3, <2>4, <2>8, <2>10, PlansKept
<1> QED  BY <1>3, <1>4

\* A shift is removed, or somebody taken off it: what was checked holds all the more.
LEMMA RemoveWriteRoster ==
  ASSUME RosterInv, [Next]_vars, NEW r \in Requests, RemoveWrite(r)
  PROVE  RosterInv'
<1>0. PICK k : k = req[r].row  OBVIOUS
<1>1. Row(k)  BY <1>0 DEF RosterInv, RosterTypes, RosterRequestOK, RemoveWrite, At
<1>2. {"status", "who", "type", "tmpl", "day", "start", "end", "managedBy", "unsure"} \subseteq DOMAIN shift[k]
  BY <1>1 DEF RosterInv, RosterTypes, Row
<1>3. PICK s : /\ shift' = [shift EXCEPT ![k] = s]
               /\ s.tmpl = shift[k].tmpl /\ s.day = shift[k].day /\ s.start = shift[k].start
               /\ s.end = shift[k].end /\ s.type = shift[k].type /\ s.unsure = shift[k].unsure
               /\ DOMAIN s = DOMAIN shift[k] /\ s.who \subseteq shift[k].who
               /\ s.status = shift[k].status \/ s.status = "DELETED"
  <2>1. CASE req[r].op = "scheduleRemove"
    <3>1. PICK s : s = [shift[k] EXCEPT !.status = "DELETED"]  OBVIOUS
    <3>2. shift' = [shift EXCEPT ![k] = s]  BY <1>0, <2>1, <3>1 DEF RemoveWrite
    <3>3. /\ s.tmpl = shift[k].tmpl /\ s.day = shift[k].day /\ s.start = shift[k].start
          /\ s.end = shift[k].end /\ s.type = shift[k].type /\ s.unsure = shift[k].unsure
          /\ DOMAIN s = DOMAIN shift[k] /\ s.who = shift[k].who /\ s.status = "DELETED"
      BY <1>2, <3>1
    <3> QED  BY <3>2, <3>3
  <2>2. CASE req[r].op # "scheduleRemove"
    <3>1. PICK s : s = [shift[k] EXCEPT !.who = @ \ {req[r].user}]  OBVIOUS
    <3>2. shift' = [shift EXCEPT ![k] = s]  BY <1>0, <2>2, <3>1 DEF RemoveWrite
    <3>3. /\ s.tmpl = shift[k].tmpl /\ s.day = shift[k].day /\ s.start = shift[k].start
          /\ s.end = shift[k].end /\ s.type = shift[k].type /\ s.unsure = shift[k].unsure
          /\ DOMAIN s = DOMAIN shift[k] /\ s.status = shift[k].status
          /\ s.who = shift[k].who \ {req[r].user}
      BY <1>2, <3>1
    <3>4. s.who \subseteq shift[k].who  BY <3>3
    <3> QED  BY <3>2, <3>3, <3>4
  <2> QED  BY <2>1, <2>2
<1>4. /\ DOMAIN shift' = Shifts /\ shift'[k] = s /\ k \in Shifts
      /\ \A j \in Shifts \ {k} : shift'[j] = shift[j]
  BY <1>1, <1>3 DEF RosterInv, RosterTypes, Row
<1>5. \A j \in Shifts : /\ Live(j)' => Live(j)
                        /\ SlotOf(j)' = SlotOf(j) /\ shift'[j].type = shift[j].type
                        /\ shift'[j].unsure = shift[j].unsure /\ shift'[j].who \subseteq shift[j].who
  BY <1>3, <1>4 DEF Live, SlotOf
<1>6. SlotsOnce'  BY <1>5 DEF RosterInv, SlotsOnce
<1>7. NobodyTwiceAtOnce'
  <2>1. ASSUME NEW i \in Shifts, NEW j \in Shifts, i # j, Live(i)', Live(j)',
               shift'[i].who \cap shift'[j].who # {},
               ~shift'[i].unsure, ~shift'[j].unsure, Meet(SlotOf(i)', SlotOf(j)')
        PROVE  SlotOf(i)' = SlotOf(j)' /\ shift'[i].type # shift'[j].type
    <3>1. /\ Live(i) /\ Live(j) /\ shift[i].who \cap shift[j].who # {}
          /\ ~shift[i].unsure /\ ~shift[j].unsure /\ Meet(SlotOf(i), SlotOf(j))
      BY <1>5, <2>1
    <3>2. SlotOf(i) = SlotOf(j) /\ shift[i].type # shift[j].type
      BY <2>1, <3>1 DEF RosterInv, NobodyTwiceAtOnce
    <3> QED  BY <1>5, <3>2
  <2> QED  BY <2>1 DEF NobodyTwiceAtOnce
<1>8. \A i : Row(i) => Row(i)'
  <2>1. shift'[k] # NoShift  BY <1>2, <1>3, <1>4 DEF NoShift
  <2> QED  BY <1>4, <2>1 DEF Row
<1>9. ASSUME NEW a, NEW except, Clash(a, except)' PROVE Clash(a, except)
  <2>1. PICK j \in Shifts : /\ j # except /\ Live(j)' /\ shift'[j].who \cap a.who # {}
                            /\ Meet(SlotOf(j)', a.slot) /\ SlotOf(j)' # a.slot
    BY <1>9 DEF Clash
  <2>2. Live(j) /\ shift[j].who \cap a.who # {} /\ SlotOf(j)' = SlotOf(j)  BY <1>5, <2>1
  <2> QED  BY <2>1, <2>2 DEF Clash
<1>10. ASSUME NEW q \in Requests PROVE RosterRequestOK(req[q])' /\ CheckHolds(req[q])'
  <2>1. req' = [req EXCEPT ![r] = Idle]  BY DEF RemoveWrite, Done
  <2>2. CASE q = r
    <3>1. req'[q] = Idle  BY <2>1, <2>2 DEF RosterInv, RosterTypes, RequestsNamed
    <3> QED  BY <3>1 DEF RosterRequestOK, CheckHolds, Idle
  <2>3. CASE q # r
    <3>1. PICK x : x = req[q] /\ req'[q] = x /\ RosterRequestOK(x) /\ CheckHolds(x)
      BY <2>1, <2>3 DEF RosterInv, RosterTypes, RequestsNamed
    <3>2. RosterRequestOK(req[q])'  BY <1>8, <3>1 DEF RosterRequestOK
    <3>3. x.op = "createBulk" /\ x.at = "save" /\ x.into # None => x.into \in Shifts
      BY <3>1 DEF RosterRequestOK, Row
    <3>4. CheckHolds(req[q])'  BY <1>5, <1>9, <3>1, <3>3 DEF CheckHolds
    <3> QED  BY <3>2, <3>4
  <2> QED  BY <2>2, <2>3
<1>11. UNCHANGED <<hours, offered>>  BY DEF RemoveWrite
<1> QED  BY <1>2, <1>3, <1>4, <1>6, <1>7, <1>10, <1>11, PlansKept

LEMMA TemplateRoster ==
  ASSUME RosterInv, [Next]_vars, NEW t \in Templates, NEW h \in Hours,
         TemplateRemove(t) \/ TemplateUpdate(t, h)
  PROVE  RosterInv'
<1>1. RequestsNamed'  BY NextNamed DEF RosterInv, RosterTypes
<1>2. UNCHANGED <<shift, req>>  BY DEF TemplateRemove, TemplateUpdate, Once
<1>3. hours' \in [Templates -> Hours] /\ offered' \subseteq Templates
  BY DEF TemplateRemove, TemplateUpdate, RosterInv, RosterTypes
<1>4. \A q \in Requests : RosterRequestOK(req[q])'
  BY <1>2 DEF RosterInv, RosterTypes, RosterRequestOK, Row
<1>5. \A q \in Requests : CheckHolds(req[q])'
  BY <1>2 DEF RosterInv, CheckHolds, Clash, Live, SlotOf
<1>6. SlotsOnce' /\ NobodyTwiceAtOnce'
  BY <1>2 DEF RosterInv, SlotsOnce, NobodyTwiceAtOnce, Live, SlotOf
<1> QED  BY <1>1, <1>2, <1>3, <1>4, <1>5, <1>6 DEF RosterInv, RosterTypes

LEMMA RosterStep ==
  ASSUME RosterInv, [Next]_vars
  PROVE  RosterInv'
<1>1. CASE RosterNext
  <2>1. ASSUME NEW r \in Requests, NEW by, NEW batch \in Batches, BulkRead(r, by, batch) PROVE RosterInv'
    BY <2>1, BatchesPlanned, BulkReadRoster
  <2>2. ASSUME NEW r \in Requests, NEW k \in Shifts,
               \/ BulkCreate(r, k) \/ ScheduleRemoveRead(r, k)
               \/ \E u \in Employees : RemoveUserRead(r, k, u)
               \/ \E a \in Assignments : ScheduleUpdateRead(r, None, k, a)
        PROVE  RosterInv'
    <3>1. ASSUME ScheduleRemoveRead(r, k) \/ \E u \in Employees : RemoveUserRead(r, k, u)
          PROVE  RosterInv'
      <4>0. Live(k)
        <5>1. CASE ScheduleRemoveRead(r, k)  BY <5>1 DEF ScheduleRemoveRead
        <5>2. CASE \E u \in Employees : RemoveUserRead(r, k, u)
          <6>1. PICK u : RemoveUserRead(r, k, u)  BY <5>2
          <6> QED  BY <6>1 DEF RemoveUserRead
        <5> QED  BY <3>1, <5>1, <5>2
      <4>1. Row(k)  BY <4>0 DEF Live, Row, NoShift
      <4>2. PICK u, x : /\ req' = [req EXCEPT ![r] = x]
                        /\ \/ x = [op |-> "scheduleRemove", at |-> "write", row |-> k]
                           \/ x = [op |-> "removeUser", at |-> "write", row |-> k, user |-> u]
        <5>1. CASE ScheduleRemoveRead(r, k)  BY <5>1 DEF ScheduleRemoveRead, Begin
        <5>2. CASE \E u \in Employees : RemoveUserRead(r, k, u)
          <6>1. PICK u : RemoveUserRead(r, k, u)  BY <5>2
          <6> QED  BY <6>1 DEF RemoveUserRead, Begin
        <5> QED  BY <3>1, <5>1, <5>2
      <4>3. RosterRequestOK(x) /\ CheckHolds(x)  BY <4>1, <4>2 DEF RosterRequestOK, CheckHolds
      <4> QED  BY <3>1, <4>2, <4>3, RosterRequest DEF ScheduleRemoveRead, RemoveUserRead
    <3> QED  BY <2>2, <3>1, BulkCreateRoster, ScheduleReadRoster
  <2>3. CASE \E t \in Templates : TemplateRemove(t) \/ \E h \in Hours : TemplateUpdate(t, h)
    <3>1. PICK t \in Templates : TemplateRemove(t) \/ \E h \in Hours : TemplateUpdate(t, h)
      BY <2>3
    <3>2. hours[t] \in Hours  BY DEF RosterInv, RosterTypes
    <3> QED  BY <3>1, <3>2, TemplateRoster
  <2> QED
    BY <1>1, <2>1, <2>2, <2>3, BulkCheckRoster, BulkFindRoster, BulkAddRoster, ScheduleWriteRoster,
       RemoveWriteRoster DEF RosterNext
<1>2. CASE \E r \in Requests, by \in Employees : StaffPlans(r, by)
  <2>1. PICK r \in Requests, by \in Employees : StaffPlans(r, by)  BY <1>2
  <2>2. ASSUME NEW x \in StaffShifts, BulkRead(r, by, <<x>>) PROVE RosterInv'
    <3>1. x \in Assignments  BY AccessAssumption
    <3>2. <<x>> \in Seq(Assignments) /\ <<x>> # <<>>  BY <3>1
    <3> QED  BY <2>2, <3>2, BulkReadRoster
  <2>3. ASSUME NEW k \in Shifts, NEW x \in StaffShifts, ScheduleUpdateRead(r, by, k, x) PROVE RosterInv'
    BY <2>3, AccessAssumption, ScheduleReadRoster
  <2> QED  BY <2>1, <2>2, <2>3 DEF StaffPlans
<1>3. CASE ~RosterNext /\ ~\E r \in Requests, by \in Employees : StaffPlans(r, by)
  <2>1. RequestsNamed'  BY NextNamed DEF RosterInv, RosterTypes
  <2>2. UNCHANGED <<hours, offered, shift>>
    <3>1. CASE AccessNext
      BY ZenonT(60), <1>3, <3>1 DEF AccessNext, TimeGoesBy, RoleCreate, RoleUpdate, RoleRemoveRead, RoleRemoveWrite,
           AssignRead, AssignWrite, WorkRead, WorkWrite, rosterVars
    <3>2. CASE HandlingNext
      BY <3>2 DEF HandlingNext, StepWrite, AssigneeWrite, StepRead, AssigneeRead, rosterVars
    <3> QED  BY <1>3, <3>1, <3>2 DEF Next, vars, areaVars, rosterVars
  <2>3. Keeps(RosterOps)
    <3>1. CASE UNCHANGED vars  BY <3>1 DEF Keeps, vars, requestVars
    <3>2. CASE Next
      BY <1>3, <3>2, StaffTouches, RoleTouches, HandlingTouches, BankingTouches,
         DashboardTouches, RegistersTouches, OrderListTouches, OutsideTouches, KeepsOthers
         DEF Next, RosterInv, RosterTypes, StaffOps, RosterOps, AccessOps, HandlingOps, BankingOps,
             DashboardOps, RegisterOps, ListOps, OutsideOps
    <3> QED  BY <3>1, <3>2
  <2>4. ASSUME NEW q \in Requests PROVE RosterRequestOK(req[q])' /\ CheckHolds(req[q])'
    <3>1. CASE req'[q] = req[q]
      <4>1. PICK x : x = req[q] /\ req'[q] = x /\ RosterRequestOK(x) /\ CheckHolds(x)
        BY <3>1 DEF RosterInv, RosterTypes
      <4>2. RosterRequestOK(req[q])'  BY <2>2, <4>1 DEF RosterRequestOK, Row
      <4>3. CheckHolds(req[q])'  BY <2>2, <4>1 DEF CheckHolds, Clash, Live, SlotOf
      <4> QED  BY <4>2, <4>3
    <3>2. CASE req'[q].op \notin RosterOps
      <4>1. RosterRequestOK(req[q])'  BY <3>2 DEF RosterRequestOK, RosterOps
      <4>2. CheckHolds(req[q])'  BY <3>2 DEF CheckHolds, RosterOps
      <4> QED  BY <4>1, <4>2
    <3> QED  BY <2>3, <3>1, <3>2 DEF Keeps
  <2>5. SlotsOnce' /\ NobodyTwiceAtOnce'
    BY <2>2 DEF RosterInv, SlotsOnce, NobodyTwiceAtOnce, Live, SlotOf
  <2> QED  BY <2>1, <2>2, <2>4, <2>5 DEF RosterInv, RosterTypes
<1> QED  BY <1>1, <1>2, <1>3

LEMMA RosterInit0 == Init => RosterInv
<1> SUFFICES ASSUME Init PROVE RosterInv  OBVIOUS
<1>1. \A r \in Requests : RosterRequestOK(req[r]) /\ CheckHolds(req[r])
  BY RosterIdle DEF Init, RequestsInit
<1>2. RosterTypes
  BY <1>1, InitNamed DEF Init, RosterInit, RosterTypes, NoShift
<1>3. \A k \in Shifts : ~Live(k)  BY DEF Init, RosterInit, Live, NoShift
<1> QED  BY <1>1, <1>2, <1>3 DEF RosterInv, SlotsOnce, NobodyTwiceAtOnce

\* Nobody is ever planned on two shifts that meet, over midnight too, unless one of
\* the two was saved on a check another request had overtaken.
THEOREM NobodyPlannedTwice == Spec => []NobodyTwiceAtOnce
<1>1. Init => RosterInv  BY RosterInit0
<1>2. RosterInv /\ [Next]_vars => RosterInv'  BY RosterStep
<1>3. RosterInv => NobodyTwiceAtOnce  BY DEF RosterInv
<1> QED  BY <1>1, <1>2, <1>3, PTL DEF Spec

------------------------------------------------------------------------------
(* Codes, holidays and tickets *)

\* What the requests about them carry.
OutsideRequestOK(x) ==
  /\ x.op \in {"register", "forgotten"} => x.otp \in 1 .. MaxCodes
  /\ x.op = "holidaySync" => x.found \subseteq Holidays
  /\ x.op = "ticket" => x.ticket \in Tickets /\ x.side \in {"SHOP", "OPERATOR"}

OutsideTypes ==
  /\ RequestsNamed
  /\ \A r \in Requests : OutsideRequestOK(req[r])

\* A code that an open request found is the last one sent, and not yet accepted.
Clearing(r) == At(r, {"register", "forgotten"}, "clear")
CodesInOrder ==
  /\ CodesServeOnce
  /\ ~unsure => /\ \A r \in Requests : Clearing(r) => req[r].otp = otp.sent
                /\ \A q, r \in Requests : Clearing(q) /\ Clearing(r) => q = r
                /\ otp.redis # 0 => spent[otp.sent] = 0
                /\ \A c \in 1 .. MaxCodes : c > otp.sent => spent[c] = 0
CodeInv ==
  /\ OutsideTypes
  /\ otp \in [redis : Nat, memory : Nat, sent : 0 .. MaxCodes]
  /\ known \subseteq 1 .. MaxCodes
  /\ spent \in [1 .. MaxCodes -> Nat]
  /\ CodesInOrder

\* What the owner wrote, no sync takes for a row of the calendar.
SeenByHand(x, h) == x.op = "holidaySync" /\ h \in x.found => x.seen[h].manual
IsHoliday(x) == {"date", "active", "manual"} \subseteq DOMAIN x
HolidayInv ==
  /\ OutsideTypes
  /\ DOMAIN holiday = Holidays /\ DOMAIN choice = Holidays
  /\ \A h \in Holidays : holiday[h] # None => IsHoliday(holiday[h])
  /\ \A h \in Holidays \ crossed :
       choice[h] # None => /\ holiday[h] = choice[h] /\ choice[h].manual
                           /\ \A r \in Requests : SeenByHand(req[r], h)

IsTicket(x) == {"status", "last", "hidden"} \subseteq DOMAIN x
TicketInv ==
  /\ OutsideTypes
  /\ DOMAIN ticket = Tickets
  /\ \A t \in Tickets : ticket[t] # None => IsTicket(ticket[t])
  /\ \A r \in Requests : req[r].op = "ticket" => IsTicket(ticket[req[r].ticket])
  /\ TurnIsRight

------------------------------------------------------------------------------
\* No code, holiday or ticket changes, and no request about them.
LEMMA OutsideRests ==
  ASSUME RequestsNamed, [Next]_vars, ~OutsideNext
  PROVE  /\ UNCHANGED outsideVars
         /\ \A r \in Requests : req[r].op \in OutsideOps \/ req'[r].op \in OutsideOps => req'[r] = req[r]
<1>1. UNCHANGED outsideVars  BY DEF Next, vars, areaVars, farVars
<1>2. Keeps(OutsideOps)
  <2>1. CASE UNCHANGED vars  BY <2>1 DEF Keeps, vars, requestVars
  <2>2. CASE Next
    BY <2>2, StaffTouches, RosterTouches, AccessTouches, HandlingTouches, BankingTouches,
       DashboardTouches, RegistersTouches, OrderListTouches, KeepsOthers
       DEF Next, StaffOps, RosterOps, AccessOps, HandlingOps, BankingOps, DashboardOps,
           RegisterOps, ListOps, OutsideOps
  <2> QED  BY <2>1, <2>2
<1> QED  BY <1>1, <1>2 DEF Keeps

\* A request goes on with x, the others as they were.
Goes(r, x) == req' = [req EXCEPT ![r] = x]

\* What the requests carry stays known when one goes on with something known.
LEMMA OutsideGoes ==
  ASSUME OutsideTypes, [Next]_vars, NEW r \in Requests, NEW x, OutsideRequestOK(x), Goes(r, x)
  PROVE  OutsideTypes' /\ \A q \in Requests : req'[q] = IF q = r THEN x ELSE req[q]
<1>1. \A q \in Requests : req'[q] = IF q = r THEN x ELSE req[q]
  BY DEF OutsideTypes, RequestsNamed, Goes
<1>2. RequestsNamed'  BY NextNamed DEF OutsideTypes
<1>3. \A q \in Requests : OutsideRequestOK(req'[q])  BY <1>1 DEF OutsideTypes
<1> QED  BY <1>1, <1>2, <1>3 DEF OutsideTypes, OutsideRequestOK

\* And when none about codes, holidays or tickets moves.
LEMMA OutsideStays ==
  ASSUME OutsideTypes, [Next]_vars,
         \A q \in Requests : req[q].op \in OutsideOps \/ req'[q].op \in OutsideOps => req'[q] = req[q]
  PROVE  OutsideTypes'
<1>1. RequestsNamed'  BY NextNamed DEF OutsideTypes
<1>2. ASSUME NEW q \in Requests PROVE OutsideRequestOK(req'[q])
  <2>1. CASE req'[q] = req[q]  BY <2>1 DEF OutsideTypes
  <2>2. CASE req'[q].op \notin OutsideOps  BY <2>2 DEF OutsideRequestOK, OutsideOps
  <2> QED  BY <2>1, <2>2
<1> QED  BY <1>1, <1>2 DEF OutsideTypes, OutsideRequestOK

\* Nothing is asked of a request that is over.
LEMMA IdleOutside == OutsideRequestOK(Idle) /\ Idle.op \notin OutsideOps
BY DEF OutsideRequestOK, Idle, OutsideOps

\* A code begins to be used: Redis is there, no other request is, and the code is the last.
LEMMA CodeRead ==
  ASSUME CodeInv, [Next]_vars, NEW r \in Requests, NEW c \in known,
         RegisterRead(r, c) \/ ForgottenRead(r, c)
  PROVE  CodeInv'
<1>1. PICK x : /\ x = [op |-> "register", at |-> "clear", otp |-> c]
                  \/ x = [op |-> "forgotten", at |-> "clear", otp |-> c]
               /\ Goes(r, x)
  BY DEF RegisterRead, ForgottenRead, Begin, Goes
<1>2. /\ Kept = c /\ unsure' = (unsure \/ ~redis \/ Busy) /\ UNCHANGED <<otp, known, spent>>
  BY DEF RegisterRead, ForgottenRead
<1>3. x.op \in {"register", "forgotten"} /\ x.at = "clear" /\ x.otp = c  BY <1>1
<1>4. c \in 1 .. MaxCodes  BY DEF CodeInv
<1>5. OutsideRequestOK(x)  BY <1>1, <1>3, <1>4 DEF OutsideRequestOK
<1>6. OutsideTypes' /\ \A q \in Requests : req'[q] = IF q = r THEN x ELSE req[q]
  BY <1>1, <1>5, OutsideGoes DEF CodeInv
<1>7. ASSUME ~unsure'
      PROVE  /\ c = otp.sent /\ spent[c] = 0 /\ ~unsure
             /\ \A q \in Requests : q # r => ~Clearing(q)'
  <2>1. ~unsure /\ redis /\ ~Busy  BY <1>2, <1>7
  <2>2. c = otp.sent /\ c = otp.redis
    <3>1. otp.memory = 0 /\ otp.redis \in {0, otp.sent}
      BY <2>1 DEF CodeInv, CodesInOrder, CodesServeOnce
    <3>2. c # 0  BY <1>4, OutsideAssumption
    <3> QED  BY <1>2, <2>1, <3>1, <3>2 DEF Kept
  <2>3. spent[c] = 0
    <3>1. c # 0  BY <1>4, OutsideAssumption
    <3> QED  BY <2>1, <2>2, <3>1 DEF CodeInv, CodesInOrder
  <2>4. \A q \in Requests : q # r => req'[q].op = "idle"  BY <1>6, <2>1, IdleNamed DEF Busy
  <2> QED  BY <2>1, <2>2, <2>3, <2>4 DEF Clearing, At
<1>8. CodesServeOnce'
  <2> SUFFICES ASSUME ~unsure' PROVE CodesServeOnce'  BY DEF CodesServeOnce
  <2>1. ~unsure /\ UNCHANGED <<otp, known, spent>>  BY <1>2, <1>7
  <2>2. ASSUME NEW q \in Requests, Clearing(q)' PROVE spent'[req'[q].otp] = 0
    <3>1. q = r  BY <1>7, <2>2
    <3>2. req'[q].otp = c  BY <1>3, <1>6, <3>1
    <3> QED  BY <1>7, <2>1, <3>2
  <2> QED  BY <2>1, <2>2 DEF CodeInv, CodesInOrder, CodesServeOnce, Clearing
<1>9. CodesInOrder'
  <2> SUFFICES ASSUME ~unsure' PROVE CodesInOrder'  BY <1>8 DEF CodesInOrder
  <2>1. ~unsure /\ UNCHANGED <<otp, known, spent>>  BY <1>2, <1>7
  <2>2. \A q \in Requests : Clearing(q)' => q = r  BY <1>7
  <2>3. req'[r].otp = otp'.sent  BY <1>3, <1>6, <1>7, <2>1
  <2>4. \A q \in Requests : Clearing(q)' => req'[q].otp = otp'.sent  BY <2>2, <2>3
  <2>5. \A q, p \in Requests : Clearing(q)' /\ Clearing(p)' => q = p  BY <2>2
  <2> QED  BY <1>8, <2>1, <2>4, <2>5 DEF CodeInv, CodesInOrder
<1> QED  BY <1>2, <1>6, <1>9 DEF CodeInv

\* The code is cleared, and counts as accepted.
LEMMA CodeAccepted ==
  ASSUME CodeInv, [Next]_vars, NEW r \in Requests, Accept(r)
  PROVE  CodeInv'
<1>1. /\ Clearing(r) /\ otp' = Cleared /\ spent' = [spent EXCEPT ![req[r].otp] = @ + 1]
      /\ unsure' = (unsure \/ ~redis) /\ known' = known
      /\ req' = IF req[r].op = "register" THEN GoTo(r, "create") ELSE Done(r)
  BY DEF Accept, Clearing
<1>2. PICK x : Goes(r, x) /\ OutsideRequestOK(x) /\ (x.op \in {"register", "forgotten"} => x.at # "clear")
  <2>1. CASE req[r].op = "register"
    <3>1. PICK x : x = [req[r] EXCEPT !.at = "create"]  OBVIOUS
    <3>2. "at" \in DOMAIN req[r]  BY <2>1 DEF CodeInv, OutsideTypes, RequestsNamed, Named
    <3>3. x.op = req[r].op /\ x.otp = req[r].otp /\ x.at = "create"  BY <3>1, <3>2
    <3>4. OutsideRequestOK(x)  BY <2>1, <3>3 DEF OutsideRequestOK, CodeInv, OutsideTypes
    <3>5. Goes(r, x)  BY <1>1, <2>1, <3>1 DEF Goes, GoTo
    <3> QED  BY <3>3, <3>4, <3>5
  <2>2. CASE req[r].op # "register"
    <3>1. Goes(r, Idle)  BY <1>1, <2>2 DEF Goes, Done
    <3> QED  BY <3>1, IdleOutside DEF Idle
  <2> QED  BY <2>1, <2>2
<1>3. OutsideTypes' /\ \A q \in Requests : req'[q] = IF q = r THEN x ELSE req[q]
  BY <1>2, OutsideGoes DEF CodeInv
<1>4. \A q \in Requests : Clearing(q)' => q # r /\ Clearing(q) /\ req'[q] = req[q]
  BY <1>2, <1>3 DEF Clearing, At
<1>5. req[r].otp \in 1 .. MaxCodes
  BY <1>1 DEF CodeInv, OutsideTypes, OutsideRequestOK, Clearing, At
<1>6. /\ spent' \in [1 .. MaxCodes -> Nat]
      /\ \A c \in 1 .. MaxCodes : spent'[c] = IF c = req[r].otp THEN spent[c] + 1 ELSE spent[c]
  BY <1>1, <1>5 DEF CodeInv
<1>7. /\ otp' \in [redis : Nat, memory : Nat, sent : 0 .. MaxCodes]
      /\ otp'.memory = 0 /\ otp'.sent = otp.sent /\ (redis => otp'.redis = 0)
  BY <1>1 DEF Cleared, CodeInv
<1>8. ASSUME ~unsure'
      PROVE  /\ ~unsure /\ req[r].otp = otp.sent /\ otp'.redis = 0 /\ spent[otp.sent] = 0
             /\ \A q \in Requests : ~Clearing(q)'
  <2>1. ~unsure /\ redis  BY <1>1, <1>8
  <2>2. req[r].otp = otp.sent /\ spent[req[r].otp] = 0
    BY <1>1, <2>1 DEF CodeInv, CodesInOrder, CodesServeOnce, Clearing
  <2>3. \A q \in Requests : ~Clearing(q)'  BY <1>1, <1>4, <2>1 DEF CodeInv, CodesInOrder
  <2> QED  BY <1>7, <2>1, <2>2, <2>3
<1>9. CodesServeOnce'
  <2> SUFFICES ASSUME ~unsure' PROVE CodesServeOnce'  BY DEF CodesServeOnce
  <2>1. \A c \in 1 .. MaxCodes : spent'[c] <= 1
    BY <1>6, <1>8 DEF CodeInv, CodesInOrder, CodesServeOnce
  <2>2. spent'[otp'.sent] = 1  BY <1>5, <1>6, <1>7, <1>8
  <2> QED  BY <1>7, <1>8, <2>1, <2>2 DEF CodesServeOnce, Clearing
<1>10. CodesInOrder'
  <2> SUFFICES ASSUME ~unsure' PROVE CodesInOrder'  BY <1>9 DEF CodesInOrder
  <2>1. \A c \in 1 .. MaxCodes : c > otp'.sent => spent'[c] = 0
    <3> TAKE c \in 1 .. MaxCodes
    <3> HAVE c > otp'.sent
    <3>1. otp.sent \in 0 .. MaxCodes  BY DEF CodeInv
    <3>2. c # req[r].otp /\ c > otp.sent  BY <1>7, <1>8, <3>1
    <3> QED  BY <1>6, <1>8, <3>2 DEF CodeInv, CodesInOrder
  <2> QED  BY <1>8, <1>9, <2>1 DEF CodesInOrder
<1> QED  BY <1>1, <1>3, <1>6, <1>7, <1>10 DEF CodeInv

\* The oldest code there is runs out.
LEMMA CodeExpires ==
  ASSUME CodeInv, [Next]_vars, CodeRunsOut
  PROVE  CodeInv'
<1>1. PICK c : /\ otp' = [otp EXCEPT !.redis = IF @ = c THEN 0 ELSE @,
                                     !.memory = IF @ = c THEN 0 ELSE @]
               /\ known' = known \ {c}
               /\ UNCHANGED <<spent, unsure, req>>
  BY DEF CodeRunsOut
<1>2. OutsideTypes'  BY <1>1, OutsideStays DEF CodeInv
<1>3. /\ otp' \in [redis : Nat, memory : Nat, sent : 0 .. MaxCodes]
      /\ otp'.redis = (IF otp.redis = c THEN 0 ELSE otp.redis)
      /\ otp'.memory = (IF otp.memory = c THEN 0 ELSE otp.memory)
      /\ otp'.sent = otp.sent
  BY <1>1 DEF CodeInv
<1>4. CodesServeOnce'
  BY <1>1, <1>3 DEF CodesServeOnce, CodeInv, CodesInOrder, At
<1>5. CodesInOrder'
  BY <1>1, <1>3, <1>4 DEF CodeInv, CodesInOrder, Clearing, At
<1> QED  BY SMTT(30), <1>1, <1>2, <1>3, <1>5 DEF CodeInv

\* A fresh code is sent.
LEMMA CodeSent ==
  ASSUME CodeInv, [Next]_vars, NEW arrives \in BOOLEAN, SendOtp(arrives)
  PROVE  CodeInv'
<1>1. PICK c : c = otp.sent + 1  OBVIOUS
<1>2. /\ otp.sent < MaxCodes /\ unsure' = (unsure \/ ~redis \/ Busy)
      /\ otp' = IF redis THEN [otp EXCEPT !.sent = c, !.redis = c]
                ELSE [otp EXCEPT !.sent = c, !.memory = c]
      /\ known' = IF arrives THEN known \cup {c} ELSE known
      /\ UNCHANGED <<spent, req>>
  BY <1>1 DEF SendOtp, Once
<1>3. OutsideTypes'  BY <1>2, OutsideStays DEF CodeInv
<1>4. c \in 1 .. MaxCodes /\ c > otp.sent  BY <1>1, <1>2, OutsideAssumption DEF CodeInv
<1>5. /\ otp' \in [redis : Nat, memory : Nat, sent : 0 .. MaxCodes] /\ otp'.sent = c
      /\ (redis => otp'.redis = c) /\ (redis => otp'.memory = otp.memory)
  <2>1. CASE redis
    <3>1. otp' = [redis |-> c, memory |-> otp.memory, sent |-> c]  BY <1>2, <2>1 DEF CodeInv
    <3>2. c \in Nat /\ c \in 0 .. MaxCodes /\ otp.memory \in Nat  BY <1>4, OutsideAssumption DEF CodeInv
    <3> QED  BY <3>1, <3>2
  <2>2. CASE ~redis
    <3>1. otp' = [redis |-> otp.redis, memory |-> c, sent |-> c]  BY <1>2, <2>2 DEF CodeInv
    <3>2. c \in Nat /\ c \in 0 .. MaxCodes /\ otp.redis \in Nat  BY <1>4, OutsideAssumption DEF CodeInv
    <3> QED  BY <2>2, <3>1, <3>2
  <2> QED  BY <2>1, <2>2
<1>6. ASSUME ~unsure'
      PROVE  /\ ~unsure /\ redis /\ spent[c] = 0 /\ \A r \in Requests : ~Clearing(r)'
  <2>1. ~unsure /\ redis /\ ~Busy  BY <1>2, <1>6
  <2>2. \A r \in Requests : req'[r].op = "idle"  BY <1>2, <2>1, IdleNamed DEF Busy
  <2> QED  BY <1>4, <2>1, <2>2 DEF CodeInv, CodesInOrder, Clearing, At
<1>7. CodesServeOnce'
  BY <1>2, <1>5, <1>6 DEF CodesServeOnce, CodeInv, CodesInOrder, Clearing
<1>8. CodesInOrder'
  <2> SUFFICES ASSUME ~unsure' PROVE CodesInOrder'  BY <1>7 DEF CodesInOrder
  <2>1. \A d \in 1 .. MaxCodes : d > otp'.sent => spent'[d] = 0
    BY <1>2, <1>4, <1>5, <1>6 DEF CodeInv, CodesInOrder
  <2>2. spent'[otp'.sent] = 0  BY <1>2, <1>5, <1>6
  <2> QED  BY <1>6, <1>7, <2>1, <2>2 DEF CodesInOrder
<1> QED  BY <1>2, <1>3, <1>4, <1>5, <1>8 DEF CodeInv

\* A step that leaves the codes alone, and the requests about them but for their end.
LEMMA CodesUntouched ==
  ASSUME CodeInv, OutsideTypes', UNCHANGED <<otp, known, spent, unsure>>,
         \A q \in Requests : Clearing(q)' => req'[q] = req[q]
  PROVE  CodeInv'
<1>1. \A q \in Requests : Clearing(q)' => Clearing(q) /\ req'[q] = req[q]
  BY DEF Clearing, At
<1>2. CodesServeOnce'  BY <1>1 DEF CodeInv, CodesInOrder, CodesServeOnce, Clearing
<1>3. CodesInOrder'  BY <1>1, <1>2 DEF CodeInv, CodesInOrder
<1> QED  BY <1>3 DEF CodeInv

\* Codes serve once, whatever the step.
LEMMA CodeStep ==
  ASSUME CodeInv, [Next]_vars
  PROVE  CodeInv'
<1>1. CASE ~OutsideNext
  <2>1. /\ UNCHANGED outsideVars
        /\ \A r \in Requests : req[r].op \in OutsideOps \/ req'[r].op \in OutsideOps => req'[r] = req[r]
    BY <1>1, OutsideRests DEF CodeInv, OutsideTypes
  <2>2. OutsideTypes'  BY <2>1, OutsideStays DEF CodeInv
  <2>3. \A q \in Requests : Clearing(q)' => req'[q] = req[q]  BY <2>1 DEF Clearing, At, OutsideOps
  <2> QED  BY <2>1, <2>2, <2>3, CodesUntouched DEF outsideVars
\* A request that ends, or goes on with what is not about a code.
<1>2. ASSUME NEW r \in Requests, NEW x, Goes(r, x), OutsideRequestOK(x), x.op \notin {"register", "forgotten"},
             UNCHANGED <<otp, known, spent, unsure>>
      PROVE  CodeInv'
  <2>1. OutsideTypes' /\ \A q \in Requests : req'[q] = IF q = r THEN x ELSE req[q]
    BY <1>2, OutsideGoes DEF CodeInv
  <2>2. \A q \in Requests : Clearing(q)' => req'[q] = req[q]  BY <1>2, <2>1 DEF Clearing, At
  <2> QED  BY <1>2, <2>1, <2>2, CodesUntouched
<1>3. ASSUME NEW r \in Requests, req' = Done(r), UNCHANGED <<otp, known, spent, unsure>>
      PROVE  CodeInv'
  <2>1. Goes(r, Idle) /\ Idle.op \notin {"register", "forgotten"}
    BY <1>3 DEF Goes, Done, Idle
  <2> QED  BY <1>2, <1>3, <2>1, IdleOutside
<1>4. ASSUME UNCHANGED req, UNCHANGED <<otp, known, spent, unsure>> PROVE CodeInv'
  <2>1. OutsideTypes'  BY <1>4, OutsideStays DEF CodeInv
  <2> QED  BY <1>4, <2>1, CodesUntouched
<1>5. ASSUME NEW r \in Requests, HolidaysRead(r) PROVE CodeInv'
  <2>1. PICK x : /\ x.op = "holidaySync" /\ x.found = RowsOn(calendar) /\ Goes(r, x)
    <3>1. PICK x : x = [op |-> "holidaySync", at |-> "write", dates |-> calendar,
                        found |-> RowsOn(calendar), seen |-> [h \in RowsOn(calendar) |-> holiday[h]]]
      OBVIOUS
    <3>2. Goes(r, x)  BY <1>5, <3>1 DEF HolidaysRead, Begin, Goes
    <3> QED  BY <3>1, <3>2
  <2>2. OutsideRequestOK(x)  BY <2>1 DEF OutsideRequestOK, RowsOn
  <2> QED  BY <1>2, <1>5, <2>1, <2>2 DEF HolidaysRead, outsideVars
<1>6. ASSUME NEW r \in Requests, NEW t \in Tickets, NEW side \in {"SHOP", "OPERATOR"}, ReplyRead(r, t, side)
      PROVE  CodeInv'
  <2>1. PICK x : x = [op |-> "ticket", at |-> "append", ticket |-> t, side |-> side]  OBVIOUS
  <2>2. OutsideRequestOK(x) /\ x.op = "ticket"  BY <2>1 DEF OutsideRequestOK
  <2>3. Goes(r, x)  BY <1>6, <2>1 DEF ReplyRead, Begin, Goes
  <2> QED  BY <1>2, <1>6, <2>2, <2>3 DEF ReplyRead, outsideVars
<1>7. CASE OutsideNext
  <2>1. ASSUME NEW h \in Holidays, NEW row, OwnerWrites(h, row) PROVE CodeInv'
    BY <1>4, <2>1 DEF OwnerWrites, Once, codeVars
  <2>2. ASSUME NEW t, TicketCreate(t) \/ TicketClose(t) \/ TicketRemove(t) PROVE CodeInv'
    BY <1>4, <2>2 DEF TicketCreate, TicketClose, TicketRemove, Once, codeVars
  <2>3. ASSUME NEW dates, CalendarChanges(dates) PROVE CodeInv'
    BY SMTT(30), <1>4, <2>3 DEF CalendarChanges, codeVars
  <2>4. ASSUME NEW r \in Requests, RegisterWrite(r) \/ HolidaysWrite(r) \/ AppendMessage(r) PROVE CodeInv'
    BY ZenonT(60), <1>3, <2>4 DEF RegisterWrite, HolidaysWrite, AppendMessage, codeVars
  <2>5. ASSUME NEW h \in Holidays, NEW active, NEW d,
               HolidayRemove(h) \/ HolidayToggle(h, active) \/ HolidayCreate(h, d, active) \/ HolidayUpdate(h, d)
        PROVE  CodeInv'
    BY <2>1, <2>5 DEF HolidayRemove, HolidayToggle, HolidayCreate, HolidayUpdate
  <2> QED
    BY <1>5, <1>6, <1>7, <2>2, <2>3, <2>4, <2>5, CodeExpires, CodeSent, CodeAccepted, CodeRead
       DEF OutsideNext
<1> QED  BY <1>1, <1>7

\* A ticket moves on.
LEMMA TicketsMove ==
  ASSUME TicketInv, OutsideTypes', NEW t \in Tickets, NEW x, IsTicket(x), ticket' = [ticket EXCEPT ![t] = x],
         x.status = "OPEN" => x.last = "SHOP", x.status = "IN_PROGRESS" => x.last = "OPERATOR",
         \A q \in Requests : req'[q].op = "ticket" => req'[q] = req[q]
  PROVE  TicketInv'
<1>1. \A u \in Tickets : ticket'[u] = IF u = t THEN x ELSE ticket[u]  BY DEF TicketInv
<1>2. \A u \in Tickets : ticket'[u] # None => IsTicket(ticket'[u])  BY <1>1 DEF TicketInv
<1>3. \A r \in Requests : req'[r].op = "ticket" => IsTicket(ticket'[req'[r].ticket])
  BY <1>1 DEF TicketInv, OutsideTypes, OutsideRequestOK
<1>4. TurnIsRight'  BY <1>1 DEF TicketInv, TurnIsRight
<1> QED  BY <1>1, <1>2, <1>3, <1>4 DEF TicketInv, IsTicket

\* A step that leaves the tickets alone.
LEMMA TicketsUntouched ==
  ASSUME TicketInv, OutsideTypes', UNCHANGED ticket,
         \A q \in Requests : req'[q].op = "ticket" => req'[q] = req[q]
  PROVE  TicketInv'
BY DEF TicketInv, TurnIsRight, IsTicket

\* Tickets wait for the right side, whatever the step.
LEMMA TicketStep ==
  ASSUME TicketInv, known \subseteq 1 .. MaxCodes, [Next]_vars
  PROVE  TicketInv'
<1>1. CASE ~OutsideNext
  <2>1. /\ UNCHANGED outsideVars
        /\ \A r \in Requests : req[r].op \in OutsideOps \/ req'[r].op \in OutsideOps => req'[r] = req[r]
    BY <1>1, OutsideRests DEF TicketInv, OutsideTypes
  <2>2. OutsideTypes'  BY <2>1, OutsideStays DEF TicketInv
  <2>3. \A q \in Requests : req'[q].op = "ticket" => req'[q] = req[q]  BY <2>1 DEF OutsideOps
  <2> QED  BY <2>1, <2>2, <2>3, TicketsUntouched DEF outsideVars
<1>2. ASSUME UNCHANGED req PROVE OutsideTypes' /\ \A q \in Requests : req'[q].op = "ticket" => req'[q] = req[q]
  BY <1>2, OutsideStays DEF TicketInv
<1>3. ASSUME NEW r \in Requests, NEW x, Goes(r, x), OutsideRequestOK(x), x.op # "ticket"
      PROVE  OutsideTypes' /\ \A q \in Requests : req'[q].op = "ticket" => req'[q] = req[q]
  BY <1>3, OutsideGoes DEF TicketInv
<1>4. ASSUME NEW r \in Requests, req' = Done(r)
      PROVE  OutsideTypes' /\ \A q \in Requests : req'[q].op = "ticket" => req'[q] = req[q]
  <2>1. Goes(r, Idle) /\ Idle.op # "ticket"  BY <1>4 DEF Goes, Done, Idle
  <2> QED  BY <1>3, <2>1, IdleOutside
<1>5. ASSUME NEW t \in Tickets, TicketCreate(t) \/ TicketClose(t) \/ TicketRemove(t) PROVE TicketInv'
  <2>1. UNCHANGED req  BY <1>5 DEF TicketCreate, TicketClose, TicketRemove, Once
  <2>2. CASE TicketCreate(t)
    <3>1. PICK x : x = [status |-> "OPEN", last |-> "SHOP", hidden |-> FALSE]  OBVIOUS
    <3>2. IsTicket(x) /\ x.status = "OPEN" /\ x.last = "SHOP"  BY <3>1 DEF IsTicket
    <3>3. ticket' = [ticket EXCEPT ![t] = x]  BY <2>2, <3>1 DEF TicketCreate
    <3> QED  BY <1>2, <2>1, <3>2, <3>3, TicketsMove
  <2>3. CASE TicketClose(t)
    <3>1. PICK x : x = [ticket[t] EXCEPT !.status = "CLOSED"]  OBVIOUS
    <3>2. IsTicket(ticket[t])  BY <2>3 DEF TicketInv, TicketClose
    <3>3. IsTicket(x) /\ x.status = "CLOSED"  BY <3>1, <3>2 DEF IsTicket
    <3>4. ticket' = [ticket EXCEPT ![t] = x]  BY <2>3, <3>1 DEF TicketClose
    <3> QED  BY <1>2, <2>1, <3>3, <3>4, TicketsMove
  <2>4. CASE TicketRemove(t)
    <3>1. PICK x : x = [ticket[t] EXCEPT !.hidden = TRUE]  OBVIOUS
    <3>2. IsTicket(ticket[t]) /\ ticket[t] # None  BY <2>4 DEF TicketInv, TicketRemove
    <3>3. IsTicket(x) /\ x.status = ticket[t].status /\ x.last = ticket[t].last
      BY <3>1, <3>2 DEF IsTicket
    <3>4. ticket' = [ticket EXCEPT ![t] = x]  BY <2>4, <3>1 DEF TicketRemove
    <3>5. (x.status = "OPEN" => x.last = "SHOP") /\ (x.status = "IN_PROGRESS" => x.last = "OPERATOR")
      BY <3>2, <3>3 DEF TicketInv, TurnIsRight
    <3> QED  BY <1>2, <2>1, <3>3, <3>4, <3>5, TicketsMove
  <2> QED  BY <1>5, <2>2, <2>3, <2>4
<1>6. ASSUME NEW r \in Requests, AppendMessage(r) PROVE TicketInv'
  <2>1. PICK t, side : t = req[r].ticket /\ side = req[r].side  OBVIOUS
  <2>2. req[r].op = "ticket"  BY <1>6 DEF AppendMessage, At
  <2>3. t \in Tickets /\ side \in {"SHOP", "OPERATOR"} /\ IsTicket(ticket[t])
    BY <2>1, <2>2 DEF TicketInv, OutsideTypes, OutsideRequestOK
  <2>4. PICK x : x = [ticket[t] EXCEPT !.status = Turn(t, side), !.last = side]  OBVIOUS
  <2>5. IsTicket(x) /\ x.status = Turn(t, side) /\ x.last = side  BY <2>3, <2>4 DEF IsTicket
  <2>6. ticket' = [ticket EXCEPT ![t] = x]
    <3>1. ticket' = [ticket EXCEPT ![t].status = Turn(t, side), ![t].last = side]
      BY <1>6, <2>1 DEF AppendMessage
    <3> QED  BY <2>3, <2>4, <3>1 DEF TicketInv
  <2> QED  BY <1>4, <1>6, <2>3, <2>5, <2>6, TicketsMove DEF AppendMessage, Turn
<1>7. ASSUME NEW r \in Requests, NEW t \in Tickets, NEW side \in {"SHOP", "OPERATOR"}, ReplyRead(r, t, side)
      PROVE  TicketInv'
  <2>1. PICK x : x = [op |-> "ticket", at |-> "append", ticket |-> t, side |-> side]  OBVIOUS
  <2>2. OutsideRequestOK(x) /\ x.ticket = t  BY <2>1 DEF OutsideRequestOK
  <2>3. Goes(r, x)  BY <1>7, <2>1 DEF ReplyRead, Begin, Goes
  <2>4. OutsideTypes' /\ \A q \in Requests : req'[q] = IF q = r THEN x ELSE req[q]
    BY <2>2, <2>3, OutsideGoes DEF TicketInv
  <2>5. UNCHANGED ticket /\ IsTicket(ticket[t])  BY <1>7 DEF ReplyRead, outsideVars, TicketInv
  <2>6. \A q \in Requests : req'[q].op = "ticket" => IsTicket(ticket'[req'[q].ticket])
    BY <2>2, <2>4, <2>5 DEF TicketInv
  <2> QED  BY <2>4, <2>5, <2>6 DEF TicketInv, TurnIsRight, IsTicket
\* Codes and holidays.
<1>8. ASSUME NEW r \in Requests,
             \/ RegisterWrite(r) \/ HolidaysWrite(r) \/ HolidaysRead(r) \/ Accept(r)
             \/ \E c \in 1 .. MaxCodes : RegisterRead(r, c) \/ ForgottenRead(r, c)
      PROVE  TicketInv'
  <2>1. UNCHANGED ticket
    BY ZenonT(60), <1>8 DEF RegisterWrite, HolidaysWrite, HolidaysRead, Accept, RegisterRead, ForgottenRead, outsideVars
  <2>2. CASE RegisterWrite(r) \/ HolidaysWrite(r)
    BY ZenonT(60), <1>4, <2>1, <2>2, TicketsUntouched DEF RegisterWrite, HolidaysWrite
  <2>3. CASE HolidaysRead(r)
    <3>1. PICK x : /\ x.op = "holidaySync" /\ x.found = RowsOn(calendar) /\ Goes(r, x)
      <4>1. PICK x : x = [op |-> "holidaySync", at |-> "write", dates |-> calendar,
                          found |-> RowsOn(calendar), seen |-> [h \in RowsOn(calendar) |-> holiday[h]]]
        OBVIOUS
      <4>2. Goes(r, x)  BY <2>3, <4>1 DEF HolidaysRead, Begin, Goes
      <4> QED  BY <4>1, <4>2
    <3>2. OutsideRequestOK(x)  BY <3>1 DEF OutsideRequestOK, RowsOn
    <3> QED  BY <1>3, <2>1, <3>1, <3>2, TicketsUntouched
  <2>4. CASE \E c \in 1 .. MaxCodes : RegisterRead(r, c) \/ ForgottenRead(r, c)
    <3>1. PICK c \in 1 .. MaxCodes : RegisterRead(r, c) \/ ForgottenRead(r, c)  BY <2>4
    <3>2. PICK x : /\ x = [op |-> "register", at |-> "clear", otp |-> c]
                      \/ x = [op |-> "forgotten", at |-> "clear", otp |-> c]
                   /\ Goes(r, x)
      BY <3>1 DEF RegisterRead, ForgottenRead, Begin, Goes
    <3>3. OutsideRequestOK(x) /\ x.op # "ticket"  BY <3>2 DEF OutsideRequestOK
    <3> QED  BY <1>3, <2>1, <3>2, <3>3, TicketsUntouched
  <2>5. CASE Accept(r)
    <3>1. CASE req[r].op = "register"
      <4>1. PICK x : x = [req[r] EXCEPT !.at = "create"]  OBVIOUS
      <4>2. "at" \in DOMAIN req[r]  BY <3>1 DEF TicketInv, OutsideTypes, RequestsNamed, Named
      <4>3. x.op = req[r].op /\ x.otp = req[r].otp  BY <4>1, <4>2
      <4>4. OutsideRequestOK(x)  BY <3>1, <4>3 DEF OutsideRequestOK, TicketInv, OutsideTypes
      <4>5. Goes(r, x)  BY <2>5, <3>1, <4>1 DEF Accept, Goes, GoTo
      <4> QED  BY <1>3, <2>1, <3>1, <4>3, <4>4, <4>5, TicketsUntouched
    <3>2. CASE req[r].op # "register"
      BY <1>4, <2>1, <2>5, <3>2, TicketsUntouched DEF Accept
    <3> QED  BY <3>1, <3>2
  <2> QED  BY SMTT(30), <1>8, <2>2, <2>3, <2>4, <2>5
<1>9. ASSUME NEW h, NEW row, NEW arrives, NEW dates,
             CodeRunsOut \/ SendOtp(arrives) \/ CalendarChanges(dates) \/ OwnerWrites(h, row)
      PROVE  TicketInv'
  <2>1. UNCHANGED <<ticket, req>>
    BY <1>9 DEF CodeRunsOut, SendOtp, CalendarChanges, OwnerWrites, Once
  <2> QED  BY <1>2, <2>1, TicketsUntouched
<1>10. ASSUME NEW h \in Holidays, NEW active, NEW d,
              HolidayRemove(h) \/ HolidayToggle(h, active) \/ HolidayCreate(h, d, active) \/ HolidayUpdate(h, d)
       PROVE  TicketInv'
  BY <1>9, <1>10 DEF HolidayRemove, HolidayToggle, HolidayCreate, HolidayUpdate
<1>11. CASE OutsideNext
  BY <1>5, <1>6, <1>7, <1>8, <1>9, <1>10, <1>11 DEF OutsideNext
<1> QED  BY <1>1, <1>11

\* There is no ticket at first.
LEMMA TicketInit == Init => TicketInv
BY IdleOutside, InitNamed DEF Init, RequestsInit, OutsideInit, TicketInv, OutsideTypes, TurnIsRight, Idle

\* A step that leaves the holidays alone, and whose syncs have seen what the owner wrote.
LEMMA HolidaysUntouched ==
  ASSUME HolidayInv, OutsideTypes', UNCHANGED <<holiday, choice, crossed>>,
         \A q \in Requests : req'[q].op = "holidaySync" => req'[q] = req[q]
  PROVE  HolidayInv'
<1>1. \A q \in Requests, h \in Holidays : SeenByHand(req[q], h) => SeenByHand(req'[q], h)
  BY DEF SeenByHand
<1> QED  BY <1>1 DEF HolidayInv

\* The owner writes a row.
LEMMA OwnerKeeps ==
  ASSUME HolidayInv, [Next]_vars, NEW h \in Holidays, NEW row, OwnerWrites(h, row),
         row # None => IsHoliday(row) /\ row.manual
  PROVE  HolidayInv'
<1>1. /\ UNCHANGED req
      /\ crossed' = IF Busy THEN crossed \cup {h} ELSE crossed \ {h}
      /\ holiday' = [holiday EXCEPT ![h] = row] /\ choice' = [choice EXCEPT ![h] = row]
  BY DEF OwnerWrites, Once
<1>2. OutsideTypes'  BY <1>1, OutsideStays DEF HolidayInv
<1>3. /\ DOMAIN holiday' = Holidays /\ DOMAIN choice' = Holidays
      /\ \A k \in Holidays : holiday'[k] = IF k = h THEN row ELSE holiday[k]
      /\ \A k \in Holidays : choice'[k] = IF k = h THEN row ELSE choice[k]
  BY <1>1 DEF HolidayInv
<1>4. \A k \in Holidays : holiday'[k] # None => IsHoliday(holiday'[k])  BY <1>3 DEF HolidayInv
<1>5. ASSUME NEW k \in Holidays, k \notin crossed', choice'[k] # None
      PROVE  holiday'[k] = choice'[k] /\ choice'[k].manual /\ \A r \in Requests : SeenByHand(req'[r], k)
  <2>1. CASE k = h
    <3>1. ~Busy  BY <1>1, <1>5, <2>1
    <3>2. \A r \in Requests : req'[r].op = "idle"  BY <1>1, <3>1, IdleNamed DEF Busy
    <3>3. \A r \in Requests : SeenByHand(req'[r], k)  BY <3>2 DEF SeenByHand
    <3> QED  BY <1>3, <1>5, <2>1, <3>3
  <2>2. CASE k # h
    <3>1. k \in Holidays \ crossed /\ choice[k] # None  BY <1>1, <1>3, <1>5, <2>2
    <3> QED  BY <1>1, <1>3, <2>2, <3>1 DEF HolidayInv
  <2> QED  BY <2>1, <2>2
<1> QED  BY <1>2, <1>3, <1>4, <1>5 DEF HolidayInv, IsHoliday

\* A sync sees which rows the owner has written.
LEMMA SyncSees ==
  ASSUME HolidayInv, [Next]_vars, NEW r \in Requests, HolidaysRead(r)
  PROVE  HolidayInv'
<1>1. PICK x : /\ x.op = "holidaySync" /\ x.found = RowsOn(calendar)
               /\ x.seen = [h \in RowsOn(calendar) |-> holiday[h]] /\ Goes(r, x)
  <2>1. PICK x : x = [op |-> "holidaySync", at |-> "write", dates |-> calendar,
                      found |-> RowsOn(calendar), seen |-> [h \in RowsOn(calendar) |-> holiday[h]]]
    OBVIOUS
  <2>2. Goes(r, x)  BY <2>1 DEF HolidaysRead, Begin, Goes
  <2> QED  BY <2>1, <2>2
<1>2. OutsideRequestOK(x)  BY <1>1 DEF OutsideRequestOK, RowsOn
<1>3. OutsideTypes' /\ \A q \in Requests : req'[q] = IF q = r THEN x ELSE req[q]
  BY <1>1, <1>2, OutsideGoes DEF HolidayInv
<1>4. UNCHANGED <<holiday, choice, crossed>>  BY DEF HolidaysRead, outsideVars, holidayVars
<1>5. ASSUME NEW h \in Holidays, h \notin crossed, choice[h] # None
      PROVE  \A q \in Requests : SeenByHand(req'[q], h)
  <2>1. SeenByHand(x, h)  BY <1>1, <1>5 DEF SeenByHand, HolidayInv
  <2> QED  BY <1>3, <1>5, <2>1 DEF HolidayInv
<1> QED  BY <1>3, <1>4, <1>5 DEF HolidayInv

\* A sync writes the rows that the owner has not written, and new ones.
LEMMA SyncKeeps ==
  ASSUME HolidayInv, [Next]_vars, NEW r \in Requests, HolidaysWrite(r)
  PROVE  HolidayInv'
<1>1. At(r, {"holidaySync"}, "write") /\ Goes(r, Idle) /\ UNCHANGED crossed
  BY DEF HolidaysWrite, holidayVars, Goes, Done
<1>2. OutsideTypes' /\ \A q \in Requests : req'[q] = IF q = r THEN Idle ELSE req[q]
  BY <1>1, IdleOutside, OutsideGoes DEF HolidayInv
<1>3. \A q \in Requests : req'[q].op = "holidaySync" => req'[q] = req[q]  BY <1>2 DEF Idle
<1>4. CASE UNCHANGED <<holiday, choice>>  BY <1>1, <1>2, <1>3, <1>4, HolidaysUntouched
<1>5. CASE ~UNCHANGED <<holiday, choice>>
  <2> DEFINE x == req[r]
             stale == {h \in x.found : ~EditedByHand(x.seen[h])}
             spare == {h \in Holidays : holiday[h] = None}
  <2>1. PICK made :
          /\ made \subseteq spare
          /\ \A h \in stale : holiday[h] # None
          /\ DOMAIN holiday' = Holidays /\ DOMAIN choice' = Holidays
          /\ \A h \in Holidays : h \in made => IsHoliday(holiday'[h]) /\ choice'[h] = None
          /\ \A h \in Holidays : h \notin made => choice'[h] = choice[h]
          /\ \A h \in Holidays : h \notin made =>
               holiday'[h] = IF h \in stale THEN [holiday[h] EXCEPT !.active = TRUE, !.manual = FALSE]
                             ELSE holiday[h]
    <3> DEFINE fresh == x.dates \ {x.seen[h].date : h \in x.found}
               DateOf(slot, h) == CHOOSE d \in fresh : slot[d] = h
    <3>1. PICK slot \in [fresh -> spare] :
            LET made == {slot[d] : d \in fresh}
            IN /\ holiday' = [h \in Holidays |->
                    CASE h \in made -> [date |-> DateOf(slot, h), active |-> TRUE, manual |-> FALSE]
                      [] h \in stale -> [holiday[h] EXCEPT !.active = TRUE, !.manual = FALSE]
                      [] OTHER -> holiday[h]]
               /\ choice' = [h \in Holidays |-> IF h \in made THEN None ELSE choice[h]]
      BY ZenonT(60), <1>5 DEF HolidaysWrite
    <3>2. \A h \in stale : holiday[h] # None  BY <1>5 DEF HolidaysWrite
    <3>3. PICK made : made = {slot[d] : d \in fresh}  OBVIOUS
    <3>4. made \subseteq spare /\ \A h \in made : h \notin stale  BY <3>2, <3>3
    <3> HIDE DEF x, stale, spare, fresh, DateOf
    <3>5. DOMAIN holiday' = Holidays /\ DOMAIN choice' = Holidays  BY <3>1
    <3>6. \A h \in Holidays : choice'[h] = IF h \in made THEN None ELSE choice[h]  BY <3>1, <3>3
    <3>7. ASSUME NEW h \in Holidays, h \in made PROVE IsHoliday(holiday'[h])
      <4>1. PICK y : y = DateOf(slot, h)  OBVIOUS
      <4>2. holiday'[h] = [date |-> y, active |-> TRUE, manual |-> FALSE]  BY <3>1, <3>3, <3>4, <3>7, <4>1
      <4> QED  BY <4>2 DEF IsHoliday
    <3>8. ASSUME NEW h \in Holidays, h \notin made
          PROVE  holiday'[h] = IF h \in stale THEN [holiday[h] EXCEPT !.active = TRUE, !.manual = FALSE]
                               ELSE holiday[h]
      BY <3>1, <3>3, <3>8
    <3> QED  BY ZenonT(60), <3>2, <3>4, <3>5, <3>6, <3>7, <3>8
  <2>2. ASSUME NEW h \in Holidays, holiday'[h] # None PROVE IsHoliday(holiday'[h])
    <3>1. CASE h \in made
      BY <2>1, <3>1 DEF IsHoliday
    <3>2. CASE h \notin made /\ h \in stale
      <4>1. IsHoliday(holiday[h])  BY <2>1, <3>2 DEF HolidayInv
      <4>2. holiday'[h] = [holiday[h] EXCEPT !.active = TRUE, !.manual = FALSE]  BY <2>1, <3>2
      <4> HIDE DEF stale
      <4> QED  BY <4>1, <4>2 DEF IsHoliday
    <3>3. CASE h \notin made /\ h \notin stale
      <4>1. holiday'[h] = holiday[h]  BY <2>1, <3>3
      <4> QED  BY <2>2, <4>1 DEF HolidayInv
    <3> QED  BY <3>1, <3>2, <3>3
  <2>3. ASSUME NEW h \in Holidays, h \notin crossed, choice'[h] # None
        PROVE  holiday'[h] = choice'[h] /\ choice'[h].manual /\ \A q \in Requests : SeenByHand(req'[q], h)
    <3>1. h \notin made /\ choice'[h] = choice[h]  BY <2>1, <2>3
    <3>2. /\ holiday[h] = choice[h] /\ choice[h].manual
          /\ \A q \in Requests : SeenByHand(req[q], h)
      BY <2>3, <3>1 DEF HolidayInv
    <3>3. h \notin stale  BY <1>1, <3>2 DEF SeenByHand, EditedByHand, At
    <3>4. holiday'[h] = holiday[h]  BY <2>1, <3>1, <3>3
    <3>5. \A q \in Requests : SeenByHand(req'[q], h)  BY <1>3, <3>2 DEF SeenByHand
    <3> QED  BY <3>1, <3>2, <3>4, <3>5
  <2>4. DOMAIN holiday' = Holidays /\ DOMAIN choice' = Holidays  BY <2>1
  <2> QED  BY <1>1, <1>2, <2>2, <2>3, <2>4 DEF HolidayInv, IsHoliday
<1> QED  BY SMTT(30), <1>4, <1>5

\* The owner's holidays stand, whatever the step.
LEMMA HolidayStep ==
  ASSUME HolidayInv, known \subseteq 1 .. MaxCodes, [Next]_vars
  PROVE  HolidayInv'
<1>1. CASE ~OutsideNext
  <2>1. /\ UNCHANGED outsideVars
        /\ \A r \in Requests : req[r].op \in OutsideOps \/ req'[r].op \in OutsideOps => req'[r] = req[r]
    BY <1>1, OutsideRests DEF HolidayInv, OutsideTypes
  <2>2. OutsideTypes'  BY <2>1, OutsideStays DEF HolidayInv
  <2>3. \A q \in Requests : req'[q].op = "holidaySync" => req'[q] = req[q]  BY <2>1 DEF OutsideOps
  <2> QED  BY <2>1, <2>2, <2>3, HolidaysUntouched DEF outsideVars, holidayVars
<1>2. ASSUME UNCHANGED req PROVE OutsideTypes' /\ \A q \in Requests : req'[q].op = "holidaySync" => req'[q] = req[q]
  BY <1>2, OutsideStays DEF HolidayInv
<1>3. ASSUME NEW r \in Requests, NEW x, Goes(r, x), OutsideRequestOK(x), x.op # "holidaySync"
      PROVE  OutsideTypes' /\ \A q \in Requests : req'[q].op = "holidaySync" => req'[q] = req[q]
  BY <1>3, OutsideGoes DEF HolidayInv
<1>4. ASSUME NEW r \in Requests, req' = Done(r)
      PROVE  OutsideTypes' /\ \A q \in Requests : req'[q].op = "holidaySync" => req'[q] = req[q]
  <2>1. Goes(r, Idle) /\ Idle.op # "holidaySync"  BY <1>4 DEF Goes, Done, Idle
  <2> QED  BY <1>3, <2>1, IdleOutside
<1>5. ASSUME NEW h \in Holidays, NEW active, NEW d,
             HolidayRemove(h) \/ HolidayToggle(h, active) \/ HolidayCreate(h, d, active) \/ HolidayUpdate(h, d)
      PROVE  HolidayInv'
  <2>1. CASE HolidayRemove(h)  BY <2>1, OwnerKeeps DEF HolidayRemove
  <2>2. CASE HolidayToggle(h, active)
    <3>1. PICK x : x = [holiday[h] EXCEPT !.active = active, !.manual = TRUE]  OBVIOUS
    <3>2. IsHoliday(holiday[h])  BY <2>2 DEF HolidayToggle, HolidayInv
    <3>3. IsHoliday(x) /\ x.manual  BY <3>1, <3>2 DEF IsHoliday
    <3> QED  BY <2>2, <3>1, <3>3, OwnerKeeps DEF HolidayToggle
  <2>3. CASE HolidayCreate(h, d, active)
    <3>1. PICK x : x = [date |-> d, active |-> active, manual |-> TRUE]  OBVIOUS
    <3>2. IsHoliday(x) /\ x.manual  BY <3>1 DEF IsHoliday
    <3> QED  BY <2>3, <3>1, <3>2, OwnerKeeps DEF HolidayCreate
  <2>4. CASE HolidayUpdate(h, d)
    <3>1. PICK x : x = [holiday[h] EXCEPT !.date = d, !.manual = TRUE]  OBVIOUS
    <3>2. IsHoliday(holiday[h])  BY <2>4 DEF HolidayUpdate, HolidayInv
    <3>3. IsHoliday(x) /\ x.manual  BY <3>1, <3>2 DEF IsHoliday
    <3> QED  BY <2>4, <3>1, <3>3, OwnerKeeps DEF HolidayUpdate
  <2> QED  BY <1>5, <2>1, <2>2, <2>3, <2>4
\* Codes and tickets.
<1>6. ASSUME NEW r \in Requests,
             \/ RegisterWrite(r) \/ AppendMessage(r) \/ Accept(r)
             \/ \E c \in 1 .. MaxCodes : RegisterRead(r, c) \/ ForgottenRead(r, c)
             \/ \E t \in Tickets, side \in {"SHOP", "OPERATOR"} : ReplyRead(r, t, side)
      PROVE  HolidayInv'
  <2>1. UNCHANGED <<holiday, choice, crossed>>
    BY <1>6 DEF RegisterWrite, AppendMessage, Accept, RegisterRead, ForgottenRead, ReplyRead, outsideVars,
         holidayVars
  <2>2. CASE RegisterWrite(r) \/ AppendMessage(r)
    BY <1>4, <2>1, <2>2, HolidaysUntouched DEF RegisterWrite, AppendMessage
  <2>3. CASE \E t \in Tickets, side \in {"SHOP", "OPERATOR"} : ReplyRead(r, t, side)
    <3>1. PICK t \in Tickets, side \in {"SHOP", "OPERATOR"} : ReplyRead(r, t, side)  BY <2>3
    <3>2. PICK x : x = [op |-> "ticket", at |-> "append", ticket |-> t, side |-> side]  OBVIOUS
    <3>3. OutsideRequestOK(x) /\ x.op # "holidaySync"  BY <3>2 DEF OutsideRequestOK
    <3>4. Goes(r, x)  BY <3>1, <3>2 DEF ReplyRead, Begin, Goes
    <3> QED  BY <1>3, <2>1, <3>3, <3>4, HolidaysUntouched
  <2>4. CASE \E c \in 1 .. MaxCodes : RegisterRead(r, c) \/ ForgottenRead(r, c)
    <3>1. PICK c \in 1 .. MaxCodes : RegisterRead(r, c) \/ ForgottenRead(r, c)  BY <2>4
    <3>2. PICK x : /\ x = [op |-> "register", at |-> "clear", otp |-> c]
                      \/ x = [op |-> "forgotten", at |-> "clear", otp |-> c]
                   /\ Goes(r, x)
      BY <3>1 DEF RegisterRead, ForgottenRead, Begin, Goes
    <3>3. OutsideRequestOK(x) /\ x.op # "holidaySync"  BY <3>2 DEF OutsideRequestOK
    <3> QED  BY <1>3, <2>1, <3>2, <3>3, HolidaysUntouched
  <2>5. CASE Accept(r)
    <3>1. CASE req[r].op = "register"
      <4>1. PICK x : x = [req[r] EXCEPT !.at = "create"]  OBVIOUS
      <4>2. "at" \in DOMAIN req[r]  BY <3>1 DEF HolidayInv, OutsideTypes, RequestsNamed, Named
      <4>3. x.op = req[r].op /\ x.otp = req[r].otp  BY <4>1, <4>2
      <4>4. OutsideRequestOK(x)  BY <3>1, <4>3 DEF OutsideRequestOK, HolidayInv, OutsideTypes
      <4>5. Goes(r, x)  BY <2>5, <3>1, <4>1 DEF Accept, Goes, GoTo
      <4> QED  BY <1>3, <2>1, <3>1, <4>3, <4>4, <4>5, HolidaysUntouched
    <3>2. CASE req[r].op # "register"
      BY <1>4, <2>1, <2>5, <3>2, HolidaysUntouched DEF Accept
    <3> QED  BY <3>1, <3>2
  <2> QED  BY <1>6, <2>2, <2>3, <2>4, <2>5
<1>7. ASSUME NEW t, NEW arrives, NEW dates,
             \/ CodeRunsOut \/ SendOtp(arrives) \/ CalendarChanges(dates)
             \/ TicketCreate(t) \/ TicketClose(t) \/ TicketRemove(t)
      PROVE  HolidayInv'
  <2>1. UNCHANGED <<holiday, choice, crossed, req>>
    BY <1>7 DEF CodeRunsOut, SendOtp, CalendarChanges, TicketCreate, TicketClose, TicketRemove, Once, holidayVars
  <2> QED  BY <1>2, <2>1, HolidaysUntouched
<1>8. CASE OutsideNext
  BY <1>5, <1>6, <1>7, <1>8, SyncSees, SyncKeeps DEF OutsideNext
<1> QED  BY <1>1, <1>8

\* There is no holiday at first.
LEMMA HolidayInit == Init => HolidayInv
BY IdleOutside, InitNamed
   DEF Init, RequestsInit, OutsideInit, HolidayInv, OutsideTypes, SeenByHand, Idle

\* No code was sent at first.
LEMMA CodeInit == Init => CodeInv
BY OutsideAssumption, IdleOutside, InitNamed
   DEF Init, RequestsInit, OutsideInit, CodeInv, OutsideTypes, CodesInOrder, CodesServeOnce, Clearing, At, Idle

------------------------------------------------------------------------------
(* Registers *)

\* No two requests about registers have met, and none is under way beside another.
Alone == ~raced => \A q, r \in Requests : req[q].op \in RegisterOps /\ req[r].op \in RegisterOps => q = r

\* One request begins, beside no other unless that is noted, or ends; or none moves.
OneMoves(ops) ==
  \/ UNCHANGED req
  \/ \E r \in Requests : \E x :
       /\ req' = [req EXCEPT ![r] = x]
       /\ x.op # "idle" => x.op \in ops /\ (~raced' => \A q \in Requests \ {r} : req[q] = Idle)

\* What concerns each register.
CustomerOps == {"customerCreate", "customerUpdate"}
CustomersMove ==
  \/ \E gone \in SUBSET Customers : CustomerRemove(gone)
  \/ \E r \in Requests : CustomerCreateWrite(r) \/ CustomerUpdateWrite(r)
  \/ \E r \in Requests, c \in Customers, phone \in Phones \cup {None} : \E n :
       CustomerCreateRead(r, c, phone, n) \/ CustomerUpdateRead(r, c, phone, n)

CategoryOps == {"category", "categoryRemove", "product"}
CategoriesMove ==
  \/ \E r \in Requests : CategoryWrite(r) \/ CategoryRemoveWrite(r) \/ ProductUpdateWrite(r)
  \/ \E r \in Requests, c \in Categories, parent \in Categories \cup {None}, label \in Labels :
       CategoryCreateRead(r, c, parent, label) \/ CategoryUpdateRead(r, c, parent, label)
  \/ \E r \in Requests, c \in Categories : CategoryRemoveRead(r, c) \/ ProductUpdateRead(r, c)

VariantsMove ==
  \/ \E v \in Variants, x \in Values : ItemCreate(v, x) \/ ItemUpdate(v, x)
  \/ \E v \in Variants : ItemRemove(v)
  \/ \E wanted \in SUBSET Attributes : ReplaceAttributes(wanted)
  \/ \E r \in Requests : ResolveWrite(r)
  \/ \E r \in Requests, v \in Variants, x \in Values : ResolveRead(r, v, x)

SupplierOps == {"supplierType", "supplierRemove", "import"}
SuppliersMove ==
  \/ \E s \in Suppliers, type \in {"GOODS", "WORKSHOP"} : SupplierCreate(s, type)
  \/ \E i \in Imports, sum \in Sums : ImportReceive(i, sum)
  \/ \E s \in Suppliers, sum \in Sums : PayDebt(s, sum)
  \/ \E r \in Requests : SupplierTypeWrite(r) \/ SupplierRemoveWrite(r) \/ ImportWrite(r)
  \/ \E r \in Requests, s \in Suppliers, type \in {"GOODS", "WORKSHOP"} : SupplierTypeRead(r, s, type)
  \/ \E r \in Requests, s \in Suppliers : SupplierRemoveRead(r, s)
  \/ \E r \in Requests, i \in Imports, s \in Suppliers : ImportRead(r, i, s)

\* A step that is none of a register's leaves its requests as they are.
Untouched(ops) == /\ \A q \in Requests : req'[q].op \in ops => req'[q] = req[q]
                  /\ ~raced' => ~raced

\* A step of the registers is one of a single register.
LEMMA RegistersMoves ==
  RegistersNext => CustomersMove \/ CategoriesMove \/ VariantsMove \/ SuppliersMove
<1> SUFFICES ASSUME RegistersNext
             PROVE  CustomersMove \/ CategoriesMove \/ VariantsMove \/ SuppliersMove
  OBVIOUS
<1>1. ASSUME NEW r \in Requests, NEW c \in Customers, NEW phone \in Phones \cup {None}, FindOrCreate(r, c, phone)
      PROVE  CustomersMove
  BY <1>1 DEF FindOrCreate, CustomersMove
<1>2. ASSUME NEW r \in Requests, NEW c \in Customers, NEW phone \in Phones \cup {None}, NEW n,
             CustomerCreateRead(r, c, phone, n) \/ CustomerUpdateRead(r, c, phone, n)
      PROVE  CustomersMove
  BY <1>2 DEF CustomersMove
<1>3. ASSUME NEW r \in Requests, CustomerCreateWrite(r) \/ CustomerUpdateWrite(r) PROVE CustomersMove
  BY <1>3 DEF CustomersMove
<1>4. ASSUME NEW gone \in SUBSET Customers, CustomerRemove(gone) PROVE CustomersMove
  BY <1>4 DEF CustomersMove
<1>5. ASSUME NEW r \in Requests,
             \/ CategoryWrite(r) \/ CategoryRemoveWrite(r) \/ ProductUpdateWrite(r)
             \/ \E c \in Categories, parent \in Categories \cup {None}, label \in Labels :
                  CategoryCreateRead(r, c, parent, label) \/ CategoryUpdateRead(r, c, parent, label)
             \/ \E c \in Categories : CategoryRemoveRead(r, c) \/ ProductUpdateRead(r, c)
      PROVE  CategoriesMove
  BY <1>5 DEF CategoriesMove
<1>6. ASSUME NEW r \in Requests, ResolveWrite(r) \/ \E v \in Variants, x \in Values : ResolveRead(r, v, x)
      PROVE  VariantsMove
  BY <1>6 DEF VariantsMove
<1>9. ASSUME \/ \E v \in Variants, x \in Values : ItemCreate(v, x) \/ ItemUpdate(v, x)
             \/ \E v \in Variants : ItemRemove(v)
             \/ \E wanted \in SUBSET Attributes : ReplaceAttributes(wanted)
      PROVE  VariantsMove
  BY <1>9 DEF VariantsMove
<1>7. ASSUME NEW r \in Requests,
             \/ SupplierTypeWrite(r) \/ SupplierRemoveWrite(r) \/ ImportWrite(r)
             \/ \E s \in Suppliers, type \in {"GOODS", "WORKSHOP"} : SupplierTypeRead(r, s, type)
             \/ \E s \in Suppliers : SupplierRemoveRead(r, s)
             \/ \E i \in Imports, s \in Suppliers : ImportRead(r, i, s)
      PROVE  SuppliersMove
  BY <1>7 DEF SuppliersMove
<1>8. ASSUME \/ \E s \in Suppliers, type \in {"GOODS", "WORKSHOP"} : SupplierCreate(s, type)
             \/ \E i \in Imports, sum \in Sums : ImportReceive(i, sum)
             \/ \E s \in Suppliers, sum \in Sums : PayDebt(s, sum)
      PROVE  SuppliersMove
  BY <1>8 DEF SuppliersMove
<1> QED  BY <1>1, <1>2, <1>3, <1>4, <1>5, <1>6, <1>7, <1>8, <1>9 DEF RegistersNext

\* A check begins one request.
LEMMA CheckMoves ==
  ASSUME NEW ops, NEW r \in Requests, NEW op, NEW x, x.op \in ops, Check(r, op, x)
  PROVE  OneMoves(ops) /\ (~raced' => ~raced)
BY DEF Check, Begin, OneMoves

\* A write ends one.
LEMMA DoneMoves ==
  ASSUME NEW ops, NEW r \in Requests, req' = Done(r), UNCHANGED raced
  PROVE  OneMoves(ops) /\ (~raced' => ~raced)
<1>1. Idle.op = "idle"  BY IdleNamed
<1> QED  BY <1>1 DEF Done, OneMoves

\* What a step about customers leaves alone.
LEMMA CustomersMoves ==
  ASSUME CustomersMove
  PROVE  /\ OneMoves(CustomerOps) /\ (~raced' => ~raced)
         /\ UNCHANGED <<category, unseen, product, variantVars, supplier, import, paid>>
<1>1. ASSUME NEW gone, CustomerRemove(gone)
      PROVE  OneMoves(CustomerOps) /\ (~raced' => ~raced)
  BY <1>1 DEF CustomerRemove, Once, OneMoves
<1>2. ASSUME NEW r \in Requests, CustomerCreateWrite(r) \/ CustomerUpdateWrite(r)
      PROVE  OneMoves(CustomerOps) /\ (~raced' => ~raced)
  BY <1>2, DoneMoves DEF CustomerCreateWrite, CustomerUpdateWrite
<1>3. ASSUME NEW r \in Requests, NEW c, NEW phone, NEW n,
             CustomerCreateRead(r, c, phone, n) \/ CustomerUpdateRead(r, c, phone, n)
      PROVE  OneMoves(CustomerOps) /\ (~raced' => ~raced)
  <2>1. CASE CustomerCreateRead(r, c, phone, n)
    <3>1. PICK x : x = [op |-> "customerCreate", at |-> "write", row |-> c, phone |-> phone,
                        code |-> IF n = None THEN NextCode ELSE n]
      OBVIOUS
    <3>2. Check(r, "customerCreate", x) /\ x.op \in CustomerOps
      BY <2>1, <3>1 DEF CustomerCreateRead, CustomerOps
    <3> QED  BY <3>2, CheckMoves
  <2>2. CASE CustomerUpdateRead(r, c, phone, n)
    <3>1. PICK x : x = [op |-> "customerUpdate", at |-> "write", row |-> c, phone |-> phone, code |-> n]
      OBVIOUS
    <3>2. Check(r, "customerUpdate", x) /\ x.op \in CustomerOps
      BY <2>2, <3>1 DEF CustomerUpdateRead, CustomerOps
    <3> QED  BY <3>2, CheckMoves
  <2> QED  BY <1>3, <2>1, <2>2
<1>4. OneMoves(CustomerOps) /\ (~raced' => ~raced)  BY <1>1, <1>2, <1>3 DEF CustomersMove
<1>5. UNCHANGED <<category, unseen, product, variantVars, supplier, import, paid>>
  BY DEF CustomersMove, CustomerRemove, CustomerCreateWrite, CustomerUpdateWrite, CustomerCreateRead,
         CustomerUpdateRead, Check
<1> QED  BY <1>4, <1>5

\* What a step about categories and their product leaves alone.
LEMMA CategoriesMoves ==
  ASSUME CategoriesMove
  PROVE  /\ OneMoves(CategoryOps) /\ (~raced' => ~raced)
         /\ UNCHANGED <<customer, variantVars, supplier, import, paid>>
<1>1. ASSUME NEW r \in Requests, CategoryWrite(r) \/ CategoryRemoveWrite(r) \/ ProductUpdateWrite(r)
      PROVE  OneMoves(CategoryOps) /\ (~raced' => ~raced)
  BY <1>1, DoneMoves DEF CategoryWrite, CategoryRemoveWrite, ProductUpdateWrite
<1>2. ASSUME NEW r \in Requests, NEW c, NEW parent, NEW label,
             CategoryCreateRead(r, c, parent, label) \/ CategoryUpdateRead(r, c, parent, label)
      PROVE  OneMoves(CategoryOps) /\ (~raced' => ~raced)
  <2>1. PICK x : x.op = "category" /\ Check(r, "category", x)
    <3>1. PICK x : x = [op |-> "category", at |-> "write", row |-> c, parent |-> parent,
                        label |-> label, fresh |-> TRUE, renamed |-> FALSE, unseen |-> FALSE]
      OBVIOUS
    <3>2. PICK y : y = [op |-> "category", at |-> "write", row |-> c, parent |-> parent,
                        label |-> label, fresh |-> FALSE, renamed |-> label # category[c].label,
                        unseen |-> parent # category[c].parent /\ TooDeep(parent)]
      OBVIOUS
    <3>3. x.op = "category" /\ y.op = "category"  BY <3>1, <3>2
    <3> QED  BY <1>2, <3>1, <3>2, <3>3 DEF CategoryCreateRead, CategoryUpdateRead
  <2> QED  BY <2>1, CheckMoves DEF CategoryOps
<1>3. ASSUME NEW r \in Requests, NEW c, CategoryRemoveRead(r, c) \/ ProductUpdateRead(r, c)
      PROVE  OneMoves(CategoryOps) /\ (~raced' => ~raced)
  <2>1. PICK x : x = [op |-> "categoryRemove", at |-> "write", row |-> c]  OBVIOUS
  <2>2. PICK y : y = [op |-> "product", at |-> "write", row |-> c, label |-> category[c].label]  OBVIOUS
  <2>3. x.op \in CategoryOps /\ y.op \in CategoryOps  BY <2>1, <2>2 DEF CategoryOps
  <2>4. Check(r, "categoryRemove", x) \/ Check(r, "product", y)
    BY <1>3, <2>1, <2>2 DEF CategoryRemoveRead, ProductUpdateRead
  <2> QED  BY <2>3, <2>4, CheckMoves
<1>4. OneMoves(CategoryOps) /\ (~raced' => ~raced)  BY <1>1, <1>2, <1>3 DEF CategoriesMove
<1>5. UNCHANGED <<customer, variantVars, supplier, import, paid>>
  BY DEF CategoriesMove, CategoryWrite, CategoryRemoveWrite, ProductUpdateWrite, CategoryCreateRead,
         CategoryUpdateRead, CategoryRemoveRead, ProductUpdateRead, Check
<1> QED  BY <1>4, <1>5

\* What a step about variants leaves alone.
LEMMA VariantsMoves ==
  ASSUME VariantsMove
  PROVE  /\ OneMoves({"resolve"}) /\ (~raced' => ~raced)
         /\ UNCHANGED <<customer, category, unseen, product, supplier, import, paid>>
<1>1. ASSUME NEW r \in Requests, ResolveWrite(r)
      PROVE  OneMoves({"resolve"}) /\ (~raced' => ~raced)
  BY <1>1, DoneMoves DEF ResolveWrite
<1>2. ASSUME NEW r \in Requests, NEW v, NEW values, ResolveRead(r, v, values)
      PROVE  OneMoves({"resolve"}) /\ (~raced' => ~raced)
  <2>1. PICK x : x = [op |-> "resolve", at |-> "write", row |-> v, values |-> values]  OBVIOUS
  <2>2. x.op \in {"resolve"}  BY <2>1
  <2> QED  BY <1>2, <2>1, <2>2, CheckMoves DEF ResolveRead
<1>3. ASSUME NEW v, NEW x, ItemCreate(v, x) \/ ItemUpdate(v, x) \/ ItemRemove(v) \/ ReplaceAttributes(x)
      PROVE  OneMoves({"resolve"}) /\ (~raced' => ~raced)
  BY <1>3 DEF ItemCreate, ItemUpdate, ItemRemove, ReplaceAttributes, ChangeItem, Once, OneMoves
<1>4. UNCHANGED <<customer, category, unseen, product, supplier, import, paid>>
  BY DEF VariantsMove, ResolveWrite, ResolveRead, Check, ItemCreate, ItemUpdate, ItemRemove,
         ReplaceAttributes, ChangeItem
<1> QED  BY <1>1, <1>2, <1>3, <1>4 DEF VariantsMove

\* What a step about suppliers and imports leaves alone.
LEMMA SuppliersMoves ==
  ASSUME SuppliersMove
  PROVE  /\ OneMoves(SupplierOps) /\ (~raced' => ~raced)
         /\ UNCHANGED <<customer, category, unseen, product, variantVars>>
<1>1. ASSUME NEW s, NEW type, NEW i, NEW sum, SupplierCreate(s, type) \/ ImportReceive(i, sum) \/ PayDebt(s, sum)
      PROVE  OneMoves(SupplierOps) /\ (~raced' => ~raced)
  BY <1>1 DEF SupplierCreate, ImportReceive, PayDebt, Once, OneMoves
<1>2. ASSUME NEW r \in Requests, SupplierTypeWrite(r) \/ SupplierRemoveWrite(r) \/ ImportWrite(r)
      PROVE  OneMoves(SupplierOps) /\ (~raced' => ~raced)
  BY <1>2, DoneMoves DEF SupplierTypeWrite, SupplierRemoveWrite, ImportWrite
<1>3. ASSUME NEW r \in Requests, NEW s, NEW type, NEW i,
             SupplierTypeRead(r, s, type) \/ SupplierRemoveRead(r, s) \/ ImportRead(r, i, s)
      PROVE  OneMoves(SupplierOps) /\ (~raced' => ~raced)
  <2>1. PICK x : x = [op |-> "supplierType", at |-> "write", row |-> s, type |-> type]  OBVIOUS
  <2>2. PICK y : y = [op |-> "supplierRemove", at |-> "write", row |-> s]  OBVIOUS
  <2>3. PICK z : z = [op |-> "import", at |-> "write", row |-> i, from |-> s]  OBVIOUS
  <2>4. x.op \in SupplierOps /\ y.op \in SupplierOps /\ z.op \in SupplierOps
    BY <2>1, <2>2, <2>3 DEF SupplierOps
  <2>5. Check(r, "supplierType", x) \/ Check(r, "supplierRemove", y) \/ Check(r, "import", z)
    BY <1>3, <2>1, <2>2, <2>3 DEF SupplierTypeRead, SupplierRemoveRead, ImportRead
  <2> QED  BY <2>4, <2>5, CheckMoves
<1>4. OneMoves(SupplierOps) /\ (~raced' => ~raced)
  BY <1>1, <1>2, <1>3 DEF SuppliersMove
<1>5. UNCHANGED <<customer, category, unseen, product, variantVars>>
  BY DEF SuppliersMove, SupplierCreate, ImportReceive, PayDebt, SupplierTypeWrite, SupplierRemoveWrite,
         ImportWrite, SupplierTypeRead, SupplierRemoveRead, ImportRead, Check
<1> QED  BY <1>4, <1>5

\* No request joins another one, unless that is noted.
LEMMA MovesAlone ==
  ASSUME RequestsNamed, Alone, NEW ops, ops \subseteq RegisterOps, OneMoves(ops), ~raced' => ~raced
  PROVE  Alone'
<1>1. CASE UNCHANGED req  BY <1>1 DEF Alone
<1>2. ASSUME NEW r \in Requests, NEW x, req' = [req EXCEPT ![r] = x],
             x.op # "idle" => x.op \in ops /\ (~raced' => \A q \in Requests \ {r} : req[q] = Idle)
      PROVE  Alone'
  <2>1. \A q \in Requests : req'[q] = IF q = r THEN x ELSE req[q]  BY <1>2 DEF RequestsNamed
  <2>2. CASE x.op = "idle"
    <3>1. \A q \in Requests : req'[q].op \in RegisterOps => q # r /\ req[q].op \in RegisterOps
      BY <2>1, <2>2 DEF RegisterOps
    <3> QED  BY <3>1 DEF Alone
  <2>3. CASE ~raced' => \A q \in Requests \ {r} : req[q] = Idle
    <3>1. ~raced' => \A q \in Requests : req'[q].op \in RegisterOps => q = r
      BY <2>1, <2>3, IdleNamed DEF RegisterOps
    <3> QED  BY <3>1 DEF Alone
  <2> QED  BY <1>2, <2>2, <2>3
<1> QED  BY <1>1, <1>2 DEF OneMoves

\* A step of one register leaves the requests of another as they are.
LEMMA OtherMoves ==
  ASSUME RequestsNamed, NEW some, NEW others, OneMoves(some), some \cap others = {}, "idle" \notin others,
         ~raced' => ~raced
  PROVE  Untouched(others)
BY DEF RequestsNamed, OneMoves, Untouched

\* A step of another area.
LEMMA RegistersRest ==
  ASSUME RequestsNamed, [Next]_vars, ~RegistersNext
  PROVE  UNCHANGED registersVars /\ Untouched(RegisterOps)
<1>1. UNCHANGED registersVars  BY DEF Next, vars, areaVars, farVars
<1>2. Keeps(RegisterOps)
  <2>1. CASE UNCHANGED vars  BY <2>1 DEF Keeps, vars, requestVars
  <2>2. CASE Next
    BY <2>2, StaffTouches, RosterTouches, AccessTouches, HandlingTouches, BankingTouches,
       DashboardTouches, OutsideTouches, OrderListTouches, KeepsOthers
       DEF Next, StaffOps, RosterOps, AccessOps, HandlingOps, BankingOps, DashboardOps,
           RegisterOps, ListOps, OutsideOps
  <2> QED  BY <2>1, <2>2
<1> QED  BY <1>1, <1>2 DEF Keeps, Untouched, registersVars

\* No request about a register is beside another, unless that is noted.
LEMMA AloneStep ==
  ASSUME RequestsNamed, Alone, [Next]_vars
  PROVE  Alone'
<1>1. CASE ~RegistersNext
  <2>1. Untouched(RegisterOps)  BY <1>1, RegistersRest
  <2> QED  BY <2>1 DEF Untouched, Alone
<1>2. CASE RegistersNext
  <2>1. /\ CustomerOps \subseteq RegisterOps /\ CategoryOps \subseteq RegisterOps
        /\ {"resolve"} \subseteq RegisterOps /\ SupplierOps \subseteq RegisterOps
    BY DEF CustomerOps, CategoryOps, SupplierOps, RegisterOps
  <2> QED
    BY <1>2, <2>1, RegistersMoves, CustomersMoves, CategoriesMoves, VariantsMoves, SuppliersMoves, MovesAlone
<1> QED  BY <1>1, <1>2

\* Once a request about a register has written, none is left, unless two have met.
LEMMA NoneLeft ==
  ASSUME RequestsNamed, Alone, NEW r \in Requests, req[r].op \in RegisterOps, req' = Done(r), ~raced
  PROVE  \A q \in Requests : req'[q].op \notin RegisterOps
<1>1. \A q \in Requests : req'[q] = IF q = r THEN Idle ELSE req[q]  BY DEF RequestsNamed, Done
<1> QED  BY <1>1, IdleNamed DEF Alone, RegisterOps

\* A check changes one request and no row.
LEMMA CheckBegins ==
  ASSUME RequestsNamed, NEW r \in Requests, NEW op, NEW x, Check(r, op, x)
  PROVE  /\ \A q \in Requests : req'[q] = IF q = r THEN x ELSE req[q]
         /\ ~raced' => ~raced
BY DEF RequestsNamed, Check, Begin

------------------------------------------------------------------------------
(* Customers *)

IsCustomer(x) == {"phone", "code", "deleted"} \subseteq DOMAIN x

\* What the checks found is still so.
CustomerStill(x) ==
  /\ x.op = "customerCreate" => (x.phone # None => TakenBy(Customers, x.phone) = {})
  /\ x.op = "customerUpdate" => (x.phone # None => TakenBy(Customers \ {x.row}, x.phone) = {})

PhonesApart ==
  \A c, d \in Customers :
    Present(c) /\ Present(d) /\ customer[c].phone = customer[d].phone => c = d \/ customer[c].phone = None

CustomersInv ==
  /\ DOMAIN customer = Customers
  /\ \A c \in Customers : customer[c] # None => IsCustomer(customer[c])
  /\ \A r \in Requests : req[r].op \in CustomerOps => req[r].row \in Customers
  /\ \A r \in Requests : req[r].op = "customerUpdate" => IsCustomer(customer[req[r].row])
  /\ ~raced => PhonesApart /\ \A r \in Requests : CustomerStill(req[r])

\* A step that concerns no customer.
LEMMA CustomersUntouched ==
  ASSUME CustomersInv, UNCHANGED customer, Untouched(CustomerOps)
  PROVE  CustomersInv'
<1>1. \A r \in Requests : req'[r].op \in CustomerOps => req'[r] = req[r]  BY DEF Untouched
<1>2. \A r \in Requests : CustomerStill(req[r]) /\ req'[r].op \in CustomerOps => CustomerStill(req[r])'
  BY <1>1 DEF CustomerStill, CustomerOps, TakenBy, Present
<1>5. \A r \in Requests : req'[r].op \notin CustomerOps => CustomerStill(req[r])'
  BY DEF CustomerStill, CustomerOps
<1>3. PhonesApart => PhonesApart'  BY DEF PhonesApart, Present
<1>4. ~raced' => ~raced  BY DEF Untouched
<1>6. ~raced' => PhonesApart' /\ \A r \in Requests : CustomerStill(req[r])'
  BY <1>2, <1>3, <1>4, <1>5 DEF CustomersInv
<1> QED  BY <1>1, <1>6 DEF CustomersInv, IsCustomer, CustomerOps

\* A request about a customer begins.
LEMMA CustomerChecked ==
  ASSUME RequestsNamed, CustomersInv, NEW r \in Requests, NEW op, NEW x, Check(r, op, x),
         x.op \in CustomerOps, x.row \in Customers,
         x.op = "customerUpdate" => IsCustomer(customer[x.row]), CustomerStill(x)
  PROVE  CustomersInv'
<1>1. /\ \A q \in Requests : req'[q] = IF q = r THEN x ELSE req[q]
      /\ ~raced' => ~raced
  BY CheckBegins
<1>2. UNCHANGED customer  BY DEF Check
<1>3. \A q \in Requests : CustomerStill(req[q]) => CustomerStill(req[q])'
  <2> TAKE q \in Requests
  <2>1. CASE q = r
    <3>1. req'[q] = x  BY <1>1, <2>1
    <3> QED  BY <1>2, <3>1 DEF CustomerStill, TakenBy, Present
  <2>2. CASE q # r
    <3>1. req'[q] = req[q]  BY <1>1, <2>2
    <3> QED  BY <1>2, <3>1 DEF CustomerStill, TakenBy, Present
  <2> QED  BY <2>1, <2>2
<1>4. PhonesApart => PhonesApart'  BY <1>2 DEF PhonesApart, Present
<1>5. ~raced' => PhonesApart' /\ \A q \in Requests : CustomerStill(req[q])'
  BY <1>1, <1>3, <1>4 DEF CustomersInv
<1> QED  BY <1>1, <1>2, <1>5 DEF CustomersInv, IsCustomer, CustomerOps

\* A request writes a customer whose phone is free, unless that is noted.
LEMMA CustomerWritten ==
  ASSUME RequestsNamed, Alone, CustomersInv, NEW r \in Requests, req[r].op \in CustomerOps, req' = Done(r),
         UNCHANGED raced, NEW w \in Customers, NEW y, customer' = [customer EXCEPT ![w] = y], IsCustomer(y),
         ~raced => (y.phone # None => TakenBy(Customers \ {w}, y.phone) = {})
  PROVE  CustomersInv'
<1>1. \A q \in Requests : req'[q] = IF q = r THEN Idle ELSE req[q]  BY DEF RequestsNamed, Done
<1>2. \A q \in Requests : req'[q].op \in CustomerOps => req'[q] = req[q]
  BY <1>1, IdleNamed DEF CustomerOps
<1>3. \A c \in Customers : customer'[c] = IF c = w THEN y ELSE customer[c]  BY DEF CustomersInv
<1>4. ~raced => \A q \in Requests : CustomerStill(req[q])'
  <2>1. ~raced => \A q \in Requests : req'[q].op \notin RegisterOps
    BY NoneLeft DEF CustomerOps, RegisterOps
  <2> QED  BY <2>1 DEF CustomerStill, RegisterOps
<1>5. ASSUME ~raced PROVE PhonesApart'
  <2>1. y.phone # None => \A d \in Customers \ {w} : ~(Present(d) /\ customer[d].phone = y.phone)
    BY <1>5 DEF TakenBy
  <2>2. \A d \in Customers \ {w} : customer'[d] = customer[d]  BY <1>3
  <2>3. customer'[w] = y  BY <1>3
  <2> QED  BY <1>5, <2>1, <2>2, <2>3 DEF CustomersInv, PhonesApart, Present
<1>6. \A c \in Customers : IsCustomer(customer[c]) => IsCustomer(customer'[c])  BY <1>3
<1>7. \A c \in Customers : customer'[c] # None => IsCustomer(customer'[c])  BY <1>3 DEF CustomersInv
<1>8. \A q \in Requests : req'[q].op = "customerUpdate" => IsCustomer(customer'[req'[q].row])
  BY <1>2, <1>6 DEF CustomersInv, CustomerOps
<1>9. DOMAIN customer' = Customers  BY DEF CustomersInv
<1>10. \A q \in Requests : req'[q].op \in CustomerOps => req'[q].row \in Customers
  BY <1>2 DEF CustomersInv
<1> QED  BY <1>4, <1>5, <1>7, <1>8, <1>9, <1>10 DEF CustomersInv, IsCustomer

\* The customers, whatever the step.
LEMMA CustomersStep ==
  ASSUME RequestsNamed, Alone, CustomersInv, [Next]_vars
  PROVE  CustomersInv'
<1>1. CASE ~RegistersNext
  <2>1. Untouched(CustomerOps) /\ UNCHANGED customer
    BY <1>1, RegistersRest DEF registersVars, Untouched, CustomerOps, RegisterOps
  <2> QED  BY <2>1, CustomersUntouched
<1>2. CASE CategoriesMove \/ VariantsMove \/ SuppliersMove
  <2>1. Untouched(CustomerOps)
    <3>1. /\ CategoryOps \cap CustomerOps = {} /\ {"resolve"} \cap CustomerOps = {}
          /\ SupplierOps \cap CustomerOps = {} /\ "idle" \notin CustomerOps
      BY DEF CategoryOps, CustomerOps, SupplierOps
    <3> QED  BY <1>2, <3>1, CategoriesMoves, VariantsMoves, SuppliersMoves, OtherMoves
  <2>2. UNCHANGED customer  BY <1>2, CategoriesMoves, VariantsMoves, SuppliersMoves
  <2> QED  BY <2>1, <2>2, CustomersUntouched
<1>3. ASSUME NEW r \in Requests, NEW c \in Customers, NEW phone, NEW n, CustomerCreateRead(r, c, phone, n)
      PROVE  CustomersInv'
  <2>1. PICK x : x = [op |-> "customerCreate", at |-> "write", row |-> c, phone |-> phone,
                      code |-> IF n = None THEN NextCode ELSE n]
    OBVIOUS
  <2>2. Check(r, "customerCreate", x) /\ PhoneIsFree(phone, None)
    BY <1>3, <2>1 DEF CustomerCreateRead
  <2>3. x.op = "customerCreate" /\ x.row = c /\ x.phone = phone  BY <2>1
  <2>4. Customers \ {None} = Customers  BY RegistersAssumption
  <2>5. CustomerStill(x)  BY <2>2, <2>3, <2>4 DEF CustomerStill, PhoneIsFree
  <2> QED  BY <2>2, <2>3, <2>5, CustomerChecked DEF CustomerOps
<1>4. ASSUME NEW r \in Requests, NEW c \in Customers, NEW phone, NEW n, CustomerUpdateRead(r, c, phone, n)
      PROVE  CustomersInv'
  <2>1. PICK x : x = [op |-> "customerUpdate", at |-> "write", row |-> c, phone |-> phone, code |-> n]
    OBVIOUS
  <2>2. Check(r, "customerUpdate", x) /\ PhoneIsFree(phone, c) /\ IsCustomer(customer[c])
    BY <1>4, <2>1 DEF CustomerUpdateRead, Present, CustomersInv
  <2>3. x.op = "customerUpdate" /\ x.row = c /\ x.phone = phone  BY <2>1
  <2>4. CustomerStill(x)  BY <2>2, <2>3 DEF CustomerStill, PhoneIsFree
  <2> QED  BY <2>2, <2>3, <2>4, CustomerChecked DEF CustomerOps
<1>5. ASSUME NEW r \in Requests, CustomerCreateWrite(r) PROVE CustomersInv'
  <2>1. /\ req[r].op = "customerCreate" /\ req' = Done(r) /\ UNCHANGED raced
        /\ req[r].row \in Customers
    BY <1>5 DEF CustomerCreateWrite, At, CustomersInv, CustomerOps
  <2>2. PICK y : y = [phone |-> req[r].phone, code |-> req[r].code, deleted |-> FALSE]  OBVIOUS
  <2>3. UNCHANGED customer \/ customer' = [customer EXCEPT ![req[r].row] = y]
    BY <1>5, <2>2 DEF CustomerCreateWrite
  <2>4. CASE UNCHANGED customer
    <3>1. \A q \in Requests : req'[q] = IF q = r THEN Idle ELSE req[q]  BY <2>1 DEF RequestsNamed, Done
    <3>2. Untouched(CustomerOps)  BY <2>1, <3>1, IdleNamed DEF Untouched, CustomerOps
    <3> QED  BY <2>4, <3>2, CustomersUntouched
  <2>5. CASE customer' = [customer EXCEPT ![req[r].row] = y]
    <3>1. IsCustomer(y) /\ y.phone = req[r].phone  BY <2>2 DEF IsCustomer
    <3>2. ~raced => (y.phone # None => TakenBy(Customers \ {req[r].row}, y.phone) = {})
      BY <2>1, <3>1 DEF CustomersInv, CustomerStill, TakenBy
    <3> QED  BY <2>1, <2>5, <3>1, <3>2, CustomerWritten DEF CustomerOps
  <2> QED  BY <2>3, <2>4, <2>5
<1>6. ASSUME NEW r \in Requests, CustomerUpdateWrite(r) PROVE CustomersInv'
  <2>1. /\ req[r].op = "customerUpdate" /\ req' = Done(r) /\ UNCHANGED raced
        /\ req[r].row \in Customers /\ IsCustomer(customer[req[r].row])
    BY <1>6 DEF CustomerUpdateWrite, At, CustomersInv, CustomerOps
  <2>2. PICK w, number : /\ w = req[r].row
                         /\ number = IF req[r].code = None THEN customer[w].code ELSE req[r].code
    OBVIOUS
  <2>3. PICK y : y = [customer[w] EXCEPT !.phone = req[r].phone, !.code = number]  OBVIOUS
  <2>4. UNCHANGED customer \/ customer' = [customer EXCEPT ![w] = y]
    BY <1>6, <2>1, <2>2, <2>3 DEF CustomerUpdateWrite, CustomersInv
  <2>5. CASE UNCHANGED customer
    <3>1. \A q \in Requests : req'[q] = IF q = r THEN Idle ELSE req[q]  BY <2>1 DEF RequestsNamed, Done
    <3>2. Untouched(CustomerOps)  BY <2>1, <3>1, IdleNamed DEF Untouched, CustomerOps
    <3> QED  BY <2>5, <3>2, CustomersUntouched
  <2>6. CASE customer' = [customer EXCEPT ![w] = y]
    <3>1. IsCustomer(y) /\ y.phone = req[r].phone  BY <2>1, <2>2, <2>3 DEF IsCustomer
    <3>2. ~raced => (y.phone # None => TakenBy(Customers \ {w}, y.phone) = {})
      BY <2>1, <2>2, <3>1 DEF CustomersInv, CustomerStill
    <3>3. req[r].op \in CustomerOps /\ w \in Customers  BY <2>1, <2>2 DEF CustomerOps
    <3> QED  BY <2>1, <2>6, <3>1, <3>2, <3>3, CustomerWritten
  <2> QED  BY <2>4, <2>5, <2>6
<1>7. ASSUME NEW gone \in SUBSET Customers, CustomerRemove(gone) PROVE CustomersInv'
  <2>1. /\ UNCHANGED <<req, raced>>
        /\ \A c \in Customers : c \notin gone => customer'[c] = customer[c]
        /\ \A c \in gone : Present(c) /\ customer'[c] = [customer[c] EXCEPT !.deleted = TRUE]
        /\ DOMAIN customer' = Customers
    BY <1>7 DEF CustomerRemove, Once
  <2>2. ASSUME NEW c \in gone PROVE IsCustomer(customer'[c]) /\ customer'[c].deleted
    <3>1. IsCustomer(customer[c])  BY <2>1 DEF Present, CustomersInv
    <3> QED  BY <2>1, <3>1 DEF IsCustomer
  <2>3. \A c \in Customers : IsCustomer(customer[c]) => IsCustomer(customer'[c])  BY <2>1, <2>2
  <2>4. \A c \in Customers : customer'[c] # None => IsCustomer(customer'[c])
    BY <2>1, <2>2 DEF CustomersInv
  <2>5. \A c \in Customers : Present(c)' => Present(c) /\ customer'[c] = customer[c]
    BY <2>1, <2>2 DEF Present
  <2>6. \A others \in SUBSET Customers : \A phone :
          TakenBy(others, phone) = {} => TakenBy(others, phone)' = {}
    BY <2>5 DEF TakenBy
  <2>7. \A r \in Requests : CustomerStill(req[r]) => CustomerStill(req[r])'
    BY <2>1, <2>6 DEF CustomerStill
  <2>8. PhonesApart => PhonesApart'  BY <2>5 DEF PhonesApart
  <2>9. ~raced' => PhonesApart' /\ \A r \in Requests : CustomerStill(req[r])'
    BY <2>1, <2>7, <2>8 DEF CustomersInv
  <2>10. /\ \A r \in Requests : req'[r].op \in CustomerOps => req'[r].row \in Customers
         /\ \A r \in Requests : req'[r].op = "customerUpdate" => IsCustomer(customer'[req'[r].row])
    BY <2>1, <2>3 DEF CustomersInv, CustomerOps
  <2> QED  BY <2>1, <2>4, <2>9, <2>10 DEF CustomersInv, IsCustomer
<1>8. CASE CustomersMove
  BY <1>3, <1>4, <1>5, <1>6, <1>7, <1>8 DEF CustomersMove
<1> QED  BY <1>1, <1>2, <1>8, RegistersMoves

------------------------------------------------------------------------------
(* Variants *)

VariantsApart == \A v, w \in Variants : {v, w} \in apart => variant[v] # variant[w]

\* No SKU has the values that a request is about to make one of.
VariantStill(x) == x.op = "resolve" => \A v \in Made : variant[v] # x.values

VariantTypes == variant \in [Variants -> Values \cup {None}]

VariantsInv ==
  /\ VariantTypes
  /\ \A r \in Requests : req[r].op = "resolve" => req[r].values \in Values
  /\ \A p \in apart : \E v, w \in Made : v # w /\ p = {v, w}
  /\ ~raced => VariantsApart /\ \A r \in Requests : VariantStill(req[r])

\* A step that concerns no variant.
LEMMA VariantsUntouched ==
  ASSUME VariantsInv, UNCHANGED variantVars, Untouched({"resolve"})
  PROVE  VariantsInv'
<1>1. \A r \in Requests : req'[r].op = "resolve" => req'[r] = req[r]  BY DEF Untouched
<1>2. ~raced' => ~raced  BY DEF Untouched
<1>3. UNCHANGED <<variant, apart>> /\ Made' = Made /\ (VariantTypes => VariantTypes')
  BY DEF variantVars, Made, VariantTypes
<1>4. \A r \in Requests : VariantStill(req[r]) => VariantStill(req[r])'
  BY <1>1, <1>3 DEF VariantStill
<1>5. \A r \in Requests : VariantStill(req[r])' \/ req'[r].op = "resolve"  BY DEF VariantStill
<1> QED  BY <1>1, <1>2, <1>3, <1>4, <1>5 DEF VariantsInv, VariantsApart

\* SKUs change without a look at others: the pairs they were in are forgotten,
\* and no request is under way, unless that is noted.
LEMMA ItemsChanged ==
  ASSUME VariantsInv, NEW op, ChangeItem(op), NEW changed, VariantTypes',
         \A v \in Variants \ changed : variant'[v] = variant[v], apart' = ApartBut(changed)
  PROVE  VariantsInv'
<1>1. /\ ~raced' => ~raced /\ \A r \in Requests : req'[r].op # "resolve"
      /\ UNCHANGED req
  BY IdleNamed DEF ChangeItem, Once
<1>2. \A v, w \in Variants : {v, w} \in apart' =>
        {v, w} \in apart /\ variant'[v] = variant[v] /\ variant'[w] = variant[w]
  BY DEF ApartBut
<1>3. VariantsApart => VariantsApart'  BY <1>2 DEF VariantsApart
<1>4. \A p \in apart' : \E v, w \in Made' : v # w /\ p = {v, w}
  <2> TAKE p \in apart'
  <2>1. p \in apart /\ p \cap changed = {}  BY DEF ApartBut
  <2>2. PICK v, w \in Made : v # w /\ p = {v, w}  BY <2>1 DEF VariantsInv
  <2>3. v \in Made' /\ w \in Made'  BY <2>1, <2>2 DEF Made
  <2> QED  BY <2>2, <2>3
<1>5. \A r \in Requests : req'[r].op # "resolve" => VariantStill(req[r])'  BY DEF VariantStill
<1> QED  BY <1>1, <1>3, <1>4, <1>5 DEF VariantsInv

\* The variants, whatever the step.
LEMMA VariantsStep ==
  ASSUME RequestsNamed, Alone, VariantsInv, [Next]_vars
  PROVE  VariantsInv'
<1>1. CASE ~RegistersNext
  <2>1. Untouched({"resolve"}) /\ UNCHANGED variantVars
    BY <1>1, RegistersRest DEF registersVars, Untouched, RegisterOps
  <2> QED  BY <2>1, VariantsUntouched
<1>2. CASE CategoriesMove \/ CustomersMove \/ SuppliersMove
  <2>1. Untouched({"resolve"})
    <3>1. /\ CategoryOps \cap {"resolve"} = {} /\ CustomerOps \cap {"resolve"} = {}
          /\ SupplierOps \cap {"resolve"} = {} /\ "idle" \notin {"resolve"}
      BY DEF CategoryOps, CustomerOps, SupplierOps
    <3> QED  BY <1>2, <3>1, CategoriesMoves, CustomersMoves, SuppliersMoves, OtherMoves
  <2>2. UNCHANGED variantVars  BY <1>2, CategoriesMoves, CustomersMoves, SuppliersMoves
  <2> QED  BY <2>1, <2>2, VariantsUntouched
<1>3. ASSUME NEW r \in Requests, NEW v \in Variants, NEW values \in Values, ResolveRead(r, v, values)
      PROVE  VariantsInv'
  <2>1. PICK x : x = [op |-> "resolve", at |-> "write", row |-> v, values |-> values]  OBVIOUS
  <2>2. Check(r, "resolve", x) /\ \A u \in Made : variant[u] # values
    BY <1>3, <2>1 DEF ResolveRead, Siblings
  <2>3. /\ \A q \in Requests : req'[q] = IF q = r THEN x ELSE req[q]
        /\ ~raced' => ~raced
    BY <2>2, CheckBegins
  <2>4. x.values = values  BY <2>1
  <2>5. UNCHANGED <<variant, apart>> /\ Made' = Made  BY <2>2 DEF Check, variantVars, Made
  <2>6. \A q \in Requests : VariantStill(req[q]) => VariantStill(req[q])'
    <3> TAKE q \in Requests
    <3>1. req'[q] = x \/ req'[q] = req[q]  BY <2>3
    <3> QED  BY <2>2, <2>4, <2>5, <3>1 DEF VariantStill
  <2>7. VariantTypes => VariantTypes'  BY <2>5 DEF VariantTypes
  <2>8. \A q \in Requests : req'[q].op = "resolve" => req'[q].values \in Values
    BY <2>3, <2>4 DEF VariantsInv
  <2> QED  BY <2>3, <2>5, <2>6, <2>7, <2>8 DEF VariantsInv, VariantsApart
<1>4. ASSUME NEW r \in Requests, ResolveWrite(r) PROVE VariantsInv'
  <2>1. req[r].op = "resolve" /\ req' = Done(r) /\ UNCHANGED raced  BY <1>4 DEF ResolveWrite, At
  <2>2. ~raced => \A q \in Requests : VariantStill(req[q])'
    <3>1. ~raced => \A q \in Requests : req'[q].op # "resolve"  BY <2>1, NoneLeft DEF RegisterOps
    <3> QED  BY <3>1 DEF VariantStill
  <2>5. \A q \in Requests : req'[q].op = "resolve" => req'[q] = req[q]
    BY <2>1, IdleNamed DEF RequestsNamed, Done
  <2>6. \A q \in Requests : req'[q].op = "resolve" => req'[q].values \in Values
    BY <2>5 DEF VariantsInv
  <2>3. CASE UNCHANGED <<variant, apart>>
    <3>1. Made' = Made /\ (VariantTypes => VariantTypes')  BY <2>3 DEF Made, VariantTypes
    <3> QED  BY <2>1, <2>2, <2>3, <2>6, <3>1 DEF VariantsInv, VariantsApart
  <2>4. ASSUME NEW v \in Variants \ Made, variant' = [variant EXCEPT ![v] = req[r].values],
               apart' = apart \cup {{v, w} : w \in Made}
        PROVE  VariantsInv'
    <3>1. /\ VariantTypes'
          /\ \A u \in Variants : variant'[u] = IF u = v THEN req[r].values ELSE variant[u]
      BY <2>1, <2>4 DEF VariantsInv, VariantTypes
    <3>2. Made \subseteq Made'  BY <2>4, <3>1 DEF Made
    <3>3. \A p \in apart' : \E u, w \in Made' : u # w /\ p = {u, w}
      <4> TAKE p \in apart'
      <4>1. CASE p \in apart  BY <3>2, <4>1 DEF VariantsInv
      <4>2. ASSUME NEW w \in Made, p = {v, w} PROVE \E u, z \in Made' : u # z /\ p = {u, z}
        <5>1. v # w  BY <2>4
        <5>2. v \in Made'  BY <2>1, <2>4, <3>1, RowsAssumption DEF VariantsInv, Made
        <5> QED  BY <3>2, <4>2, <5>1, <5>2
      <4> QED  BY <2>4, <4>1, <4>2
    <3>4. ASSUME ~raced PROVE VariantsApart'
      <4>1. VariantsApart /\ \A u \in Made : variant[u] # req[r].values
        BY <2>1, <3>4 DEF VariantsInv, VariantStill
      <4>2. ASSUME NEW u \in Variants, NEW w \in Variants, {u, w} \in apart' PROVE variant'[u] # variant'[w]
        <5>1. CASE {u, w} \in apart
          <6>1. PICK y, z \in Made : {u, w} = {y, z}  BY <5>1 DEF VariantsInv
          <6>2. u # v /\ w # v  BY <2>4, <6>1
          <6> QED  BY <3>1, <4>1, <5>1, <6>2 DEF VariantsApart
        <5>2. ASSUME NEW z \in Made, {u, w} = {v, z} PROVE variant'[u] # variant'[w]
          <6>1. z # v /\ z \in Variants  BY <2>4 DEF Made
          <6>2. variant'[v] = req[r].values /\ variant'[z] = variant[z]  BY <3>1, <6>1
          <6>3. (u = v /\ w = z) \/ (u = z /\ w = v)  BY <5>2, <6>1
          <6> QED  BY <4>1, <6>2, <6>3
        <5> QED  BY <2>4, <4>2, <5>1, <5>2
      <4> QED  BY <4>2 DEF VariantsApart
    <3> QED  BY <2>1, <2>2, <2>6, <3>1, <3>3, <3>4 DEF VariantsInv
  <2> QED  BY <1>4, <2>3, <2>4 DEF ResolveWrite
<1>5. ASSUME NEW v \in Variants, NEW x \in Values, ItemCreate(v, x) \/ ItemUpdate(v, x) PROVE VariantsInv'
  <2>1. PICK op : ChangeItem(op)  BY <1>5 DEF ItemCreate, ItemUpdate
  <2>2. variant' = [variant EXCEPT ![v] = x] /\ apart' = ApartBut({v})
    BY <1>5 DEF ItemCreate, ItemUpdate, WriteDetails
  <2>3. VariantTypes' /\ \A u \in Variants \ {v} : variant'[u] = variant[u]
    BY <2>2 DEF VariantsInv, VariantTypes
  <2> QED  BY <2>1, <2>2, <2>3, ItemsChanged
<1>6. ASSUME NEW v \in Variants, ItemRemove(v) PROVE VariantsInv'
  <2>1. ChangeItem("itemRemove") /\ variant' = [variant EXCEPT ![v] = None] /\ apart' = ApartBut({v})
    BY <1>6 DEF ItemRemove
  <2>2. VariantTypes' /\ \A u \in Variants \ {v} : variant'[u] = variant[u]
    BY <2>1 DEF VariantsInv, VariantTypes
  <2> QED  BY <2>1, <2>2, ItemsChanged
<1>7. ASSUME NEW wanted \in SUBSET Attributes, ReplaceAttributes(wanted) PROVE VariantsInv'
  <2>1. PICK gone : gone = OnProduct \ wanted  OBVIOUS
  <2>2. PICK changed : changed = {v \in Made : Uses(variant[v]) \cap gone # {}}  OBVIOUS
  <2>3. /\ ChangeItem("attributes") /\ apart' = ApartBut(changed)
        /\ variant' = [v \in Variants |->
             IF v \in Made THEN [a \in Attributes |-> IF a \in gone THEN None ELSE variant[v][a]] ELSE None]
    BY <1>7, <2>1, <2>2 DEF ReplaceAttributes
  <2>4. ASSUME NEW v \in Variants \ changed PROVE variant'[v] = variant[v]
    <3>1. CASE v \notin Made  BY <2>3, <3>1 DEF Made
    <3>2. CASE v \in Made
      <4>1. Uses(variant[v]) \cap gone = {}  BY <2>2, <2>4, <3>2
      <4>2. \A a \in Attributes : a \in gone => variant[v][a] = None  BY <4>1 DEF Uses
      <4>3. variant[v] \in Values  BY <3>2 DEF VariantsInv, VariantTypes, Made
      <4>4. variant'[v] = [a \in Attributes |-> variant[v][a]]  BY <2>3, <3>2, <4>2
      <4> QED  BY <4>3, <4>4 DEF Values
    <3> QED  BY <3>1, <3>2
  <2>5. VariantTypes'
    <3> SUFFICES ASSUME NEW v \in Variants PROVE variant'[v] \in Values \cup {None}
      BY <2>3 DEF VariantTypes
    <3>1. CASE v \in Made
      <4>1. variant[v] \in Values  BY <3>1 DEF VariantsInv, VariantTypes, Made
      <4>2. [a \in Attributes |-> IF a \in gone THEN None ELSE variant[v][a]] \in Values
        BY <4>1 DEF Values
      <4> QED  BY <2>3, <3>1, <4>2
    <3>2. CASE v \notin Made  BY <2>3, <3>2
    <3> QED  BY <3>1, <3>2
  <2> QED  BY <2>3, <2>4, <2>5, ItemsChanged
<1>8. CASE VariantsMove
  BY <1>3, <1>4, <1>5, <1>6, <1>7, <1>8 DEF VariantsMove
<1> QED  BY <1>1, <1>2, <1>8, RegistersMoves

------------------------------------------------------------------------------
(* Suppliers *)

SupplierTypes ==
  /\ supplier \in [Suppliers -> SupplierRow \cup {None}]
  /\ import \in [Imports -> ImportRow \cup {None}]
  /\ paid \in [Suppliers -> Nat]

SupplierRequestOK(x) ==
  /\ x.op = "supplierType" => x.row \in Suppliers /\ x.type \in {"GOODS", "WORKSHOP"}
  /\ x.op = "supplierRemove" => x.row \in Suppliers
  /\ x.op = "import" => x.row \in Imports /\ x.from \in Suppliers

\* What the checks found is still so.
SupplierStill(x) ==
  /\ x.op \in {"supplierType", "supplierRemove"} => Naming(x.row) = {}
  /\ x.op = "import" => supplier[x.from] # None /\ supplier[x.from].type = "GOODS"

ImportsRight ==
  \A i \in Imports : import[i] # None => import[i].from # None /\ supplier[import[i].from].type = "GOODS"

SuppliersInv ==
  /\ SupplierTypes
  /\ \A r \in Requests : SupplierRequestOK(req[r])
  /\ DebtsAddUp
  /\ ~raced => ImportsRight /\ \A r \in Requests : SupplierStill(req[r])

\* What an import counts for with a supplier.
LEMMA ChargedEach ==
  \A s, i : i \in Imports => Charged(s)[i] = IF i \in Naming(s) THEN import[i].charged ELSE 0
BY DEF Charged

\* It is never less than nothing.
LEMMA ChargedNat ==
  ASSUME SupplierTypes
  PROVE  \A s, i : i \in Imports => Charged(s)[i] \in Nat
BY ChargedEach DEF SupplierTypes, ImportRow, Naming

\* Nothing is asked of a request that is over.
LEMMA SupplierIdle == SupplierRequestOK(Idle) /\ Idle.op \notin SupplierOps
BY DEF SupplierRequestOK, Idle, SupplierOps

\* A step that concerns no supplier and no import.
LEMMA SuppliersUntouched ==
  ASSUME SuppliersInv, UNCHANGED <<supplier, import, paid>>, Untouched(SupplierOps)
  PROVE  SuppliersInv'
<1>1. \A r \in Requests : req'[r].op \in SupplierOps => req'[r] = req[r]  BY DEF Untouched
<1>2. \A r \in Requests : SupplierRequestOK(req'[r])
  <2> TAKE r \in Requests
  <2>1. CASE req'[r] = req[r]  BY <2>1 DEF SuppliersInv
  <2>2. CASE req'[r].op \notin SupplierOps  BY <2>2 DEF SupplierRequestOK, SupplierOps
  <2> QED  BY <1>1, <2>1, <2>2
<1>3. \A r \in Requests : SupplierStill(req[r]) => SupplierStill(req[r])'
  <2> TAKE r \in Requests
  <2>1. CASE req'[r] = req[r]  BY <2>1 DEF SupplierStill, Naming
  <2>2. CASE req'[r].op \notin SupplierOps  BY <2>2 DEF SupplierStill, SupplierOps
  <2> QED  BY <1>1, <2>1, <2>2
<1>4. ImportsRight => ImportsRight'  BY DEF ImportsRight
<1>5. DebtsAddUp'  BY DEF SuppliersInv, DebtsAddUp, Charged, Naming
<1>6. ~raced' => ~raced  BY DEF Untouched
<1>7. SupplierTypes'  BY DEF SuppliersInv, SupplierTypes
<1> QED  BY <1>2, <1>3, <1>4, <1>5, <1>6, <1>7 DEF SuppliersInv, SupplierRequestOK

\* A request about a supplier begins.
LEMMA SupplierChecked ==
  ASSUME RequestsNamed, SuppliersInv, NEW r \in Requests, NEW op, NEW x, Check(r, op, x),
         SupplierRequestOK(x), SupplierStill(x)
  PROVE  SuppliersInv'
<1>1. /\ \A q \in Requests : req'[q] = IF q = r THEN x ELSE req[q]
      /\ ~raced' => ~raced
  BY CheckBegins
<1>2. UNCHANGED <<supplier, import, paid>>  BY DEF Check
<1>3. \A q \in Requests : SupplierStill(req[q]) => SupplierStill(req[q])'
  <2> TAKE q \in Requests
  <2>1. CASE req'[q] = x  BY <1>2, <2>1 DEF SupplierStill, Naming
  <2>2. CASE req'[q] = req[q]  BY <1>2, <2>2 DEF SupplierStill, Naming
  <2> QED  BY <1>1, <2>1, <2>2
<1>4. ImportsRight => ImportsRight'  BY <1>2 DEF ImportsRight
<1>5. DebtsAddUp'  BY <1>2 DEF SuppliersInv, DebtsAddUp, Charged, Naming
<1>6. SupplierTypes'  BY <1>2 DEF SuppliersInv, SupplierTypes
<1>7. \A q \in Requests : SupplierRequestOK(req'[q])  BY <1>1 DEF SuppliersInv
<1> QED  BY <1>1, <1>3, <1>4, <1>5, <1>6, <1>7 DEF SuppliersInv, SupplierRequestOK

\* A request has written.
LEMMA SupplierWritten ==
  ASSUME RequestsNamed, Alone, SuppliersInv, NEW r \in Requests, req[r].op \in SupplierOps, req' = Done(r),
         UNCHANGED raced, SupplierTypes', DebtsAddUp', ~raced => ImportsRight'
  PROVE  SuppliersInv'
<1>1. \A q \in Requests : req'[q] = IF q = r THEN Idle ELSE req[q]  BY DEF RequestsNamed, Done
<1>2. \A q \in Requests : SupplierRequestOK(req'[q])  BY <1>1, SupplierIdle DEF SuppliersInv
<1>3. ~raced => \A q \in Requests : SupplierStill(req[q])'
  <2>1. ~raced => \A q \in Requests : req'[q].op \notin RegisterOps
    BY NoneLeft DEF SupplierOps, RegisterOps
  <2> QED  BY <2>1 DEF SupplierStill, RegisterOps
<1> QED  BY <1>2, <1>3 DEF SuppliersInv, SupplierRequestOK

\* What a request has found is still so when no import changes its supplier.
LEMMA SupplierStays ==
  ASSUME NEW r \in Requests, UNCHANGED req, SupplierStill(req[r]), \A t : Naming(t)' = Naming(t),
         req[r].op = "import" => /\ supplier'[req[r].from] # None
                                 /\ supplier'[req[r].from].type = supplier[req[r].from].type
  PROVE  SupplierStill(req[r])'
<1>1. PICK t : t = req[r].row  OBVIOUS
<1>2. req[r].op \in {"supplierType", "supplierRemove"} => Naming(t) = {}  BY <1>1 DEF SupplierStill
<1>3. req[r].op \in {"supplierType", "supplierRemove"} => Naming(t)' = {}  BY <1>2
<1>4. req[r].op \in {"supplierType", "supplierRemove"} => Naming(req[r].row)' = {}
  BY <1>1, <1>3 DEF Naming
<1> QED  BY <1>4 DEF SupplierStill

\* A supplier is created, to whom nothing is owed.
LEMMA SupplierCreated ==
  ASSUME SuppliersInv, NEW s \in Suppliers, NEW type \in {"GOODS", "WORKSHOP"}, SupplierCreate(s, type)
  PROVE  SuppliersInv'
<1>1. /\ supplier[s] = None /\ paid[s] = 0 /\ Naming(s) = {}
      /\ UNCHANGED <<import, paid, req, raced>>
  BY DEF SupplierCreate, Once
<1>2. PICK y : y = [type |-> type, debt |-> 0]  OBVIOUS
<1>3. y \in SupplierRow /\ y.debt = 0 /\ y # None  BY <1>2, RowsAssumption DEF SupplierRow
<1>4. /\ SupplierTypes'
      /\ \A t \in Suppliers : supplier'[t] = IF t = s THEN y ELSE supplier[t]
  BY <1>1, <1>2, <1>3 DEF SupplierCreate, SuppliersInv, SupplierTypes
<1>5. \A t : Naming(t)' = Naming(t) /\ Charged(t)' = Charged(t)  BY <1>1 DEF Naming, Charged
<1>6. SumFunctionOnSet(Charged(s), Imports) = 0
  <2>1. \A i \in Imports : Charged(s)[i] = 0  BY <1>1, ChargedEach
  <2> QED  BY <2>1, SumZero, RegistersAssumption
<1>7. DebtsAddUp'
  <2>1. \A t \in Suppliers : supplier'[t] # None => supplier'[t].debt + paid'[t] = SumFunctionOnSet(Charged(t), Imports)
    BY <1>1, <1>3, <1>4, <1>6 DEF SuppliersInv, DebtsAddUp
  <2>2. \A t \in Suppliers : supplier'[t] = None => Naming(t) = {}
    BY <1>3, <1>4 DEF SuppliersInv, DebtsAddUp
  <2> QED  BY <1>5, <2>1, <2>2 DEF DebtsAddUp
<1>8. ~raced' => ImportsRight' /\ \A r \in Requests : SupplierStill(req[r])'
  <2> SUFFICES ASSUME ~raced' PROVE ImportsRight' /\ \A r \in Requests : SupplierStill(req[r])'  OBVIOUS
  <2>1. ImportsRight /\ \A r \in Requests : SupplierStill(req[r])  BY <1>1 DEF SuppliersInv
  <2>2. \A i \in Imports : import[i] # None => import[i].from # s  BY <1>1 DEF Naming
  <2>3. \A i \in Imports : import[i] # None => import[i].from \in Suppliers \cup {None}
    BY DEF SuppliersInv, SupplierTypes, ImportRow
  <2>4. ImportsRight'  BY <1>1, <1>4, <2>1, <2>2, <2>3 DEF ImportsRight
  <2>5. ASSUME NEW r \in Requests PROVE SupplierStill(req[r])'
    <3>2. req[r].op = "import" => req[r].from \in Suppliers /\ req[r].from # s
      BY <1>1, <2>1 DEF SupplierStill, SuppliersInv, SupplierRequestOK
    <3> QED  BY <1>1, <1>4, <1>5, <2>1, <3>2, SupplierStays DEF SupplierStill
  <2> QED  BY <2>4, <2>5
<1> QED  BY <1>1, <1>4, <1>7, <1>8 DEF SuppliersInv, SupplierRequestOK

\* A debt is paid: the expense is what the debt loses.
LEMMA DebtPaid ==
  ASSUME SuppliersInv, NEW s \in Suppliers, NEW sum \in Sums, PayDebt(s, sum)
  PROVE  SuppliersInv'
<1>1. /\ supplier[s] # None /\ supplier[s].debt >= sum
      /\ UNCHANGED <<import, req, raced>>
  BY DEF PayDebt, Once
<1>2. sum \in Nat /\ supplier[s] \in SupplierRow /\ supplier[s].debt \in Nat /\ paid[s] \in Nat
  BY <1>1, RegistersAssumption DEF SuppliersInv, SupplierTypes, SupplierRow
<1>3. PICK y : y = [supplier[s] EXCEPT !.debt = @ - sum]  OBVIOUS
<1>4. /\ y \in SupplierRow /\ y.debt = supplier[s].debt - sum /\ y.type = supplier[s].type /\ y # None
  <2>1. y \in SupplierRow /\ y.debt = supplier[s].debt - sum /\ y.type = supplier[s].type
    BY <1>1, <1>2, <1>3 DEF SupplierRow
  <2> QED  BY <2>1, RowsAssumption
<1>5. /\ SupplierTypes'
      /\ \A t \in Suppliers : supplier'[t] = IF t = s THEN y ELSE supplier[t]
      /\ \A t \in Suppliers : paid'[t] = IF t = s THEN paid[s] + sum ELSE paid[t]
  BY <1>1, <1>2, <1>3, <1>4 DEF PayDebt, SuppliersInv, SupplierTypes
<1>6. \A t : Naming(t)' = Naming(t) /\ Charged(t)' = Charged(t)  BY <1>1 DEF Naming, Charged
<1>7. DebtsAddUp'
  <2>1. ASSUME NEW t \in Suppliers, supplier'[t] # None
        PROVE  supplier'[t].debt + paid'[t] = SumFunctionOnSet(Charged(t), Imports)
    <3>1. supplier[t] # None  BY <1>1, <1>5, <2>1
    <3>2. supplier[t].debt + paid[t] = SumFunctionOnSet(Charged(t), Imports)
      BY <3>1 DEF SuppliersInv, DebtsAddUp
    <3>3. CASE t # s  BY <1>5, <3>2, <3>3
    <3>4. CASE t = s
      <4>1. (supplier[s].debt - sum) + (paid[s] + sum) = supplier[s].debt + paid[s]  BY <1>2
      <4> QED  BY <1>4, <1>5, <3>2, <3>4, <4>1
    <3> QED  BY <3>3, <3>4
  <2>2. \A t \in Suppliers : supplier'[t] = None => Naming(t) = {}
    BY <1>4, <1>5 DEF SuppliersInv, DebtsAddUp
  <2> QED  BY <1>6, <2>1, <2>2 DEF DebtsAddUp
<1>8. ~raced' => ImportsRight' /\ \A r \in Requests : SupplierStill(req[r])'
  <2> SUFFICES ASSUME ~raced' PROVE ImportsRight' /\ \A r \in Requests : SupplierStill(req[r])'  OBVIOUS
  <2>1. ImportsRight /\ \A r \in Requests : SupplierStill(req[r])  BY <1>1 DEF SuppliersInv
  <2>2. \A i \in Imports : import[i] # None => import[i].from \in Suppliers \cup {None}
    BY DEF SuppliersInv, SupplierTypes, ImportRow
  <2>3. ImportsRight'  BY <1>1, <1>4, <1>5, <2>1, <2>2 DEF ImportsRight
  <2>4. ASSUME NEW r \in Requests PROVE SupplierStill(req[r])'
    <3>2. req[r].op = "import" => req[r].from \in Suppliers
      BY DEF SuppliersInv, SupplierRequestOK
    <3> QED  BY <1>1, <1>4, <1>5, <1>6, <2>1, <3>2, SupplierStays DEF SupplierStill
  <2> QED  BY <2>3, <2>4
<1> QED  BY <1>1, <1>5, <1>7, <1>8 DEF SuppliersInv, SupplierRequestOK

\* An import is received: the debt grows by what it charges.
LEMMA ImportReceived ==
  ASSUME SuppliersInv, NEW i \in Imports, NEW sum \in Sums, ImportReceive(i, sum)
  PROVE  SuppliersInv'
<1>1. /\ import[i] # None /\ import[i].from # None /\ import[i].charged = 0
      /\ UNCHANGED <<paid, req, raced>>
  BY DEF ImportReceive, Once
<1>2. PICK s : s = import[i].from  OBVIOUS
<1>3. s \in Suppliers /\ import[i] \in ImportRow /\ sum \in Nat /\ i \in Naming(s)
  BY <1>1, <1>2, RegistersAssumption DEF SuppliersInv, SupplierTypes, ImportRow, Naming
<1>4. supplier[s] # None  BY <1>3 DEF SuppliersInv, DebtsAddUp
<1>5. supplier[s] \in SupplierRow /\ supplier[s].debt \in Nat /\ paid[s] \in Nat
  BY <1>3, <1>4 DEF SuppliersInv, SupplierTypes, SupplierRow
<1>6. PICK y : y = [supplier[s] EXCEPT !.debt = @ + sum]  OBVIOUS
<1>7. y \in SupplierRow /\ y.debt = supplier[s].debt + sum /\ y.type = supplier[s].type /\ y # None
  <2>1. y \in SupplierRow /\ y.debt = supplier[s].debt + sum /\ y.type = supplier[s].type
    BY <1>3, <1>5, <1>6 DEF SupplierRow
  <2> QED  BY <2>1, RowsAssumption
<1>8. PICK z : z = [import[i] EXCEPT !.charged = sum]  OBVIOUS
<1>9. z \in ImportRow /\ z.from = s /\ z.charged = sum /\ z # None
  <2>1. z \in ImportRow /\ z.from = s /\ z.charged = sum
    BY <1>2, <1>3, <1>8 DEF ImportRow
  <2> QED  BY <2>1, RowsAssumption
<1>10. supplier' = [supplier EXCEPT ![s] = y] /\ import' = [import EXCEPT ![i] = z]
  <2>1. /\ import' = [import EXCEPT ![i].charged = sum]
        /\ supplier' = [supplier EXCEPT ![s].debt = @ + sum]
    BY <1>2 DEF ImportReceive
  <2> QED  BY <1>3, <1>6, <1>8, <2>1 DEF SuppliersInv, SupplierTypes
<1>11. /\ SupplierTypes'
       /\ \A t \in Suppliers : supplier'[t] = IF t = s THEN y ELSE supplier[t]
       /\ \A j \in Imports : import'[j] = IF j = i THEN z ELSE import[j]
  BY <1>1, <1>7, <1>9, <1>10 DEF SuppliersInv, SupplierTypes
<1>12. \A t : Naming(t)' = Naming(t)  BY <1>1, <1>2, <1>9, <1>11 DEF Naming
<1>13. \A t : t # s => Charged(t)' = Charged(t)
  <2> TAKE t
  <2> HAVE t # s
  <2>1. i \notin Naming(t)  BY <1>2, <1>3 DEF Naming
  <2>2. \A j \in Imports : Charged(t)'[j] = Charged(t)[j]  BY <1>11, <1>12, <2>1 DEF Charged
  <2> QED  BY <2>2 DEF Charged
<1>14. SumFunctionOnSet(Charged(s)', Imports) = SumFunctionOnSet(Charged(s), Imports) + sum
  <2>1. PICK f, g : f = Charged(s) /\ g = Charged(s)'  OBVIOUS
  <2>2. f[i] = 0 /\ g[i] = sum
    BY <1>1, <1>3, <1>9, <1>11, <1>12, <2>1 DEF Charged
  <2>3. \A j \in Imports \ {i} : f[j] = g[j]  BY <1>11, <1>12, <2>1 DEF Charged
  <2>4. \A j \in Imports : f[j] \in Nat  BY <2>1, ChargedNat DEF SuppliersInv
  <2>5. \A j \in Imports : f[j] \in Int /\ g[j] \in Int  BY <1>3, <2>2, <2>3, <2>4
  <2>6. SumFunctionOnSet(g, Imports) = SumFunctionOnSet(f, Imports) - f[i] + g[i]
    BY <2>3, <2>5, SumChange, RegistersAssumption
  <2>7. SumFunctionOnSet(f, Imports) \in Int  BY <2>4, SumNat, RegistersAssumption
  <2> QED  BY <1>3, <2>1, <2>2, <2>6, <2>7
<1>15. DebtsAddUp'
  <2>1. ASSUME NEW t \in Suppliers, supplier'[t] # None
        PROVE  supplier'[t].debt + paid'[t] = SumFunctionOnSet(Charged(t)', Imports)
    <3>1. supplier[t] # None  BY <1>4, <1>11, <2>1
    <3>2. supplier[t].debt + paid[t] = SumFunctionOnSet(Charged(t), Imports)
      BY <3>1 DEF SuppliersInv, DebtsAddUp
    <3>3. CASE t # s  BY <1>1, <1>11, <1>13, <3>2, <3>3
    <3>4. CASE t = s
      <4>1. (supplier[s].debt + sum) + paid[s] = (supplier[s].debt + paid[s]) + sum  BY <1>3, <1>5
      <4> QED  BY <1>1, <1>7, <1>11, <1>14, <3>2, <3>4, <4>1
    <3> QED  BY <3>3, <3>4
  <2>2. \A t \in Suppliers : supplier'[t] = None => Naming(t)' = {}
    BY <1>7, <1>11, <1>12 DEF SuppliersInv, DebtsAddUp
  <2> QED  BY <2>1, <2>2 DEF DebtsAddUp
<1>16. ~raced' => ImportsRight' /\ \A r \in Requests : SupplierStill(req[r])'
  <2> SUFFICES ASSUME ~raced' PROVE ImportsRight' /\ \A r \in Requests : SupplierStill(req[r])'  OBVIOUS
  <2>1. ImportsRight /\ \A r \in Requests : SupplierStill(req[r])  BY <1>1 DEF SuppliersInv
  <2>2. \A j \in Imports : import[j] # None => import[j].from \in Suppliers \cup {None}
    BY DEF SuppliersInv, SupplierTypes, ImportRow
  <2>3. \A t \in Suppliers : supplier'[t].type = supplier[t].type  BY <1>7, <1>11
  <2>4. \A j \in Imports : import'[j] # None => import[j] # None /\ import'[j].from = import[j].from
    BY <1>1, <1>2, <1>9, <1>11
  <2>5. ImportsRight'  BY <2>1, <2>2, <2>3, <2>4 DEF ImportsRight
  <2>6. ASSUME NEW r \in Requests PROVE SupplierStill(req[r])'
    <3>2. req[r].op = "import" => req[r].from \in Suppliers
      BY DEF SuppliersInv, SupplierRequestOK
    <3> QED  BY <1>1, <1>7, <1>11, <1>12, <2>1, <3>2, SupplierStays DEF SupplierStill
  <2> QED  BY <2>5, <2>6
<1> QED  BY <1>1, <1>11, <1>15, <1>16 DEF SuppliersInv, SupplierRequestOK

\* The type of a supplier changes, whom no import names if no two requests have met.
LEMMA TypeWritten ==
  ASSUME RequestsNamed, Alone, SuppliersInv, NEW r \in Requests, SupplierTypeWrite(r)
  PROVE  SuppliersInv'
<1>1. PICK s, type : s = req[r].row /\ type = req[r].type  OBVIOUS
<1>2. /\ req[r].op = "supplierType" /\ req' = Done(r) /\ UNCHANGED <<raced, import, paid>>
  BY DEF SupplierTypeWrite, At
<1>3. s \in Suppliers /\ type \in {"GOODS", "WORKSHOP"}
  BY <1>1, <1>2 DEF SuppliersInv, SupplierRequestOK
<1>4. PICK y : y = [supplier[s] EXCEPT !.type = type]  OBVIOUS
<1>5. supplier[s] # None => y \in SupplierRow /\ y.debt = supplier[s].debt /\ y # None
  <2> HAVE supplier[s] # None
  <2>1. supplier[s] \in SupplierRow  BY <1>3 DEF SuppliersInv, SupplierTypes
  <2>2. y \in SupplierRow /\ y.debt = supplier[s].debt  BY <1>3, <1>4, <2>1 DEF SupplierRow
  <2> QED  BY <2>2, RowsAssumption
<1>6. \A t \in Suppliers : supplier'[t] = IF t = s /\ supplier[s] # None THEN y ELSE supplier[t]
  <2>1. supplier' = IF supplier[s] = None THEN supplier ELSE [supplier EXCEPT ![s].type = type]
    BY <1>1 DEF SupplierTypeWrite
  <2> QED  BY <1>3, <1>4, <2>1 DEF SuppliersInv, SupplierTypes
<1>7. SupplierTypes'
  <2>1. DOMAIN supplier' = Suppliers /\ supplier' = [t \in Suppliers |-> supplier'[t]]
    BY <1>1 DEF SupplierTypeWrite, SuppliersInv, SupplierTypes
  <2>2. \A t \in Suppliers : supplier'[t] \in SupplierRow \cup {None}
    BY <1>5, <1>6 DEF SuppliersInv, SupplierTypes
  <2> QED  BY <1>2, <2>1, <2>2 DEF SuppliersInv, SupplierTypes
<1>8. \A t : Naming(t)' = Naming(t) /\ Charged(t)' = Charged(t)  BY <1>2 DEF Naming, Charged
<1>9. DebtsAddUp'
  <2>1. \A t \in Suppliers : /\ supplier'[t] = None <=> supplier[t] = None
                             /\ supplier[t] # None => supplier'[t].debt = supplier[t].debt
    BY <1>5, <1>6
  <2> QED  BY <1>2, <1>8, <2>1 DEF SuppliersInv, DebtsAddUp
<1>10. ~raced => ImportsRight'
  <2> HAVE ~raced
  <2>1. ImportsRight /\ Naming(s) = {}  BY <1>1, <1>2 DEF SuppliersInv, SupplierStill
  <2>2. \A i \in Imports : import[i] # None => import[i].from # s  BY <2>1 DEF Naming
  <2>3. \A i \in Imports : import[i] # None => import[i].from \in Suppliers \cup {None}
    BY DEF SuppliersInv, SupplierTypes, ImportRow
  <2> QED  BY <1>2, <1>6, <2>1, <2>2, <2>3 DEF ImportsRight
<1> QED  BY <1>2, <1>7, <1>9, <1>10, SupplierWritten DEF SupplierOps

\* A supplier is removed; what named it names none.
LEMMA SupplierRemoved ==
  ASSUME RequestsNamed, Alone, SuppliersInv, NEW r \in Requests, SupplierRemoveWrite(r)
  PROVE  SuppliersInv'
<1>1. PICK s : s = req[r].row  OBVIOUS
<1>2. /\ req[r].op = "supplierRemove" /\ req' = Done(r) /\ UNCHANGED <<raced, paid>>
  BY DEF SupplierRemoveWrite, At
<1>3. s \in Suppliers /\ s # None
  BY <1>1, <1>2, RegistersAssumption DEF SuppliersInv, SupplierRequestOK
<1>4. CASE UNCHANGED <<supplier, import>>
  <2>1. SupplierTypes'  BY <1>2, <1>4 DEF SuppliersInv, SupplierTypes
  <2>2. DebtsAddUp'  BY <1>2, <1>4 DEF SuppliersInv, DebtsAddUp, Charged, Naming
  <2>3. ~raced => ImportsRight'  BY <1>2, <1>4 DEF SuppliersInv, ImportsRight
  <2> QED  BY <1>2, <2>1, <2>2, <2>3, SupplierWritten DEF SupplierOps
<1>5. CASE ~UNCHANGED <<supplier, import>>
  <2>1. /\ supplier' = [supplier EXCEPT ![s] = None]
        /\ import' = [i \in Imports |->
             IF i \in Naming(s) THEN [import[i] EXCEPT !.from = None] ELSE import[i]]
    BY <1>1, <1>5 DEF SupplierRemoveWrite
  <2>2. /\ \A t \in Suppliers : supplier'[t] = IF t = s THEN None ELSE supplier[t]
        /\ \A i \in Imports : i \notin Naming(s) => import'[i] = import[i]
    BY <2>1 DEF SuppliersInv, SupplierTypes
  <2>3. ASSUME NEW i \in Naming(s)
        PROVE  /\ import'[i] \in ImportRow /\ import'[i] # None /\ import'[i].from = None
               /\ import'[i].charged = import[i].charged
    <3>1. PICK z : z = [import[i] EXCEPT !.from = None]  OBVIOUS
    <3>2. import[i] \in ImportRow /\ import'[i] = z
      BY <2>1, <3>1 DEF SuppliersInv, SupplierTypes, Naming
    <3>3. z \in ImportRow /\ z.from = None /\ z.charged = import[i].charged
      BY <3>1, <3>2 DEF ImportRow
    <3> QED  BY <3>2, <3>3, RowsAssumption
  <2>4. SupplierTypes'
    <3>1. \A i \in Imports : import'[i] \in ImportRow \cup {None}
      BY <2>2, <2>3 DEF SuppliersInv, SupplierTypes
    <3> QED  BY <1>2, <2>1, <3>1 DEF SuppliersInv, SupplierTypes
  <2>5. Naming(s)' = {}
    <3>1. \A i \in Imports : ~(import'[i] # None /\ import'[i].from = s)
      <4> TAKE i \in Imports
      <4>1. CASE i \in Naming(s)  BY <1>3, <2>3, <4>1
      <4>2. CASE i \notin Naming(s)  BY <2>2, <4>2 DEF Naming
      <4> QED  BY <4>1, <4>2
    <3> QED  BY <3>1 DEF Naming
  <2>6. ASSUME NEW t \in Suppliers, t # s
        PROVE  Naming(t)' = Naming(t) /\ Charged(t)' = Charged(t)
    <3>1. t # None  BY RegistersAssumption
    <3>2. \A i \in Imports : (import'[i] # None /\ import'[i].from = t) <=> (import[i] # None /\ import[i].from = t)
      <4> TAKE i \in Imports
      <4>1. CASE i \in Naming(s)  BY <2>3, <2>6, <3>1, <4>1 DEF Naming
      <4>2. CASE i \notin Naming(s)  BY <2>2, <4>2
      <4> QED  BY <4>1, <4>2
    <3>3. Naming(t)' = Naming(t)  BY <3>2 DEF Naming
    <3>4. \A i \in Imports : i \in Naming(t) => import'[i] = import[i]
      BY <2>2, <2>6 DEF Naming
    <3> QED  BY <3>3, <3>4 DEF Charged
  <2>7. DebtsAddUp'
    <3>1. ASSUME NEW t \in Suppliers
          PROVE  IF supplier'[t] = None THEN Naming(t)' = {}
                 ELSE supplier'[t].debt + paid'[t] = SumFunctionOnSet(Charged(t)', Imports)
      <4>1. CASE t = s  BY <2>2, <2>5, <4>1
      <4>2. CASE t # s  BY <1>2, <2>2, <2>6, <4>2 DEF SuppliersInv, DebtsAddUp
      <4> QED  BY <4>1, <4>2
    <3> QED  BY <3>1 DEF DebtsAddUp
  <2>8. ~raced => ImportsRight'
    <3> HAVE ~raced
    <3>1. ImportsRight /\ Naming(s) = {}  BY <1>1, <1>2 DEF SuppliersInv, SupplierStill
    <3>2. \A i \in Imports : import'[i] = import[i] /\ (import[i] # None => import[i].from # s)
      BY <2>2, <3>1 DEF Naming
    <3>3. \A i \in Imports : import[i] # None => import[i].from \in Suppliers \cup {None}
      BY DEF SuppliersInv, SupplierTypes, ImportRow
    <3> QED  BY <2>2, <3>1, <3>2, <3>3 DEF ImportsRight
  <2> QED  BY <1>2, <2>4, <2>7, <2>8, SupplierWritten DEF SupplierOps
<1> QED  BY <1>4, <1>5

\* An import is created, which charges nothing yet.
LEMMA ImportWritten ==
  ASSUME RequestsNamed, Alone, SuppliersInv, NEW r \in Requests, ImportWrite(r)
  PROVE  SuppliersInv'
<1>1. PICK i, s : i = req[r].row /\ s = req[r].from  OBVIOUS
<1>2. /\ req[r].op = "import" /\ req' = Done(r) /\ UNCHANGED <<raced, supplier, paid>>
  BY DEF ImportWrite, At
<1>3. i \in Imports /\ s \in Suppliers /\ s # None
  BY <1>1, <1>2, RegistersAssumption DEF SuppliersInv, SupplierRequestOK
<1>4. PICK z : z = [from |-> s, charged |-> 0]  OBVIOUS
<1>5. z \in ImportRow /\ z.from = s /\ z.charged = 0 /\ z # None
  BY <1>3, <1>4, RowsAssumption DEF ImportRow
<1>6. import' = IF supplier[s] = None \/ import[i] # None THEN import ELSE [import EXCEPT ![i] = z]
  BY <1>1, <1>4 DEF ImportWrite
<1>7. CASE supplier[s] = None \/ import[i] # None
  <2>0. UNCHANGED import  BY <1>6, <1>7
  <2>1. SupplierTypes'  BY <1>2, <2>0 DEF SuppliersInv, SupplierTypes
  <2>2. DebtsAddUp'  BY <1>2, <2>0 DEF SuppliersInv, DebtsAddUp, Charged, Naming
  <2>3. ~raced => ImportsRight'  BY <1>2, <2>0 DEF SuppliersInv, ImportsRight
  <2> QED  BY <1>2, <2>1, <2>2, <2>3, SupplierWritten DEF SupplierOps
<1>8. CASE supplier[s] # None /\ import[i] = None
  <2>1. \A j \in Imports : import'[j] = IF j = i THEN z ELSE import[j]
    BY <1>6, <1>8 DEF SuppliersInv, SupplierTypes
  <2>2. SupplierTypes'  BY <1>2, <1>3, <1>5, <1>6, <1>8 DEF SuppliersInv, SupplierTypes
  <2>3. \A t : t # s => Naming(t)' = Naming(t)  BY <1>5, <1>8, <2>1 DEF Naming
  <2>4. Naming(s)' = Naming(s) \cup {i} /\ \A t : i \notin Naming(t)
    BY <1>3, <1>5, <1>8, <2>1 DEF Naming
  <2>5. ASSUME NEW t PROVE Charged(t)' = Charged(t)
    <3>1. \A j \in Imports : Charged(t)'[j] = Charged(t)[j]
      <4> TAKE j \in Imports
      <4>1. CASE j = i
        <5>1. Charged(t)[j] = 0  BY <2>4, <4>1, ChargedEach
        <5>2. Charged(t)'[j] = IF j \in Naming(t)' THEN import'[j].charged ELSE 0  BY DEF Charged
        <5> QED  BY <1>5, <2>1, <4>1, <5>1, <5>2
      <4>2. CASE j # i
        <5>1. j \in Naming(t)' <=> j \in Naming(t)  BY <2>1, <4>2 DEF Naming
        <5> QED  BY <2>1, <4>2, <5>1 DEF Charged
      <4> QED  BY <4>1, <4>2
    <3> QED  BY <3>1 DEF Charged
  <2>6. DebtsAddUp'
    <3>1. \A t \in Suppliers : supplier[t] = None => Naming(t)' = {}
      BY <1>8, <2>3 DEF SuppliersInv, DebtsAddUp
    <3> QED  BY <1>2, <2>5, <3>1 DEF SuppliersInv, DebtsAddUp
  <2>7. ~raced => ImportsRight'
    <3> HAVE ~raced
    <3>1. ImportsRight /\ supplier[s].type = "GOODS"  BY <1>1, <1>2 DEF SuppliersInv, SupplierStill
    <3> QED  BY <1>2, <1>3, <1>5, <2>1, <3>1 DEF ImportsRight
  <2> QED  BY <1>2, <2>2, <2>6, <2>7, SupplierWritten DEF SupplierOps
<1> QED  BY <1>7, <1>8

\* The suppliers and imports, whatever the step.
LEMMA SuppliersStep ==
  ASSUME RequestsNamed, Alone, SuppliersInv, [Next]_vars
  PROVE  SuppliersInv'
<1>1. CASE ~RegistersNext
  <2>1. Untouched(SupplierOps) /\ UNCHANGED <<supplier, import, paid>>
    BY <1>1, RegistersRest DEF registersVars, Untouched, SupplierOps, RegisterOps
  <2> QED  BY <2>1, SuppliersUntouched
<1>2. CASE CategoriesMove \/ CustomersMove \/ VariantsMove
  <2>1. Untouched(SupplierOps)
    <3>1. /\ CategoryOps \cap SupplierOps = {} /\ CustomerOps \cap SupplierOps = {}
          /\ {"resolve"} \cap SupplierOps = {} /\ "idle" \notin SupplierOps
      BY DEF CategoryOps, CustomerOps, SupplierOps
    <3> QED  BY <1>2, <3>1, CategoriesMoves, CustomersMoves, VariantsMoves, OtherMoves
  <2>2. UNCHANGED <<supplier, import, paid>>  BY <1>2, CategoriesMoves, CustomersMoves, VariantsMoves
  <2> QED  BY <2>1, <2>2, SuppliersUntouched
<1>3. ASSUME NEW r \in Requests, NEW s \in Suppliers, NEW type \in {"GOODS", "WORKSHOP"},
             SupplierTypeRead(r, s, type)
      PROVE  SuppliersInv'
  <2>1. PICK x : x = [op |-> "supplierType", at |-> "write", row |-> s, type |-> type]  OBVIOUS
  <2>2. Check(r, "supplierType", x) /\ Naming(s) = {}  BY <1>3, <2>1 DEF SupplierTypeRead
  <2>3. SupplierRequestOK(x) /\ SupplierStill(x)  BY <2>1, <2>2 DEF SupplierRequestOK, SupplierStill
  <2> QED  BY <2>2, <2>3, SupplierChecked
<1>4. ASSUME NEW r \in Requests, NEW s \in Suppliers, SupplierRemoveRead(r, s) PROVE SuppliersInv'
  <2>1. PICK x : x = [op |-> "supplierRemove", at |-> "write", row |-> s]  OBVIOUS
  <2>2. Check(r, "supplierRemove", x) /\ Naming(s) = {}  BY <1>4, <2>1 DEF SupplierRemoveRead
  <2>3. SupplierRequestOK(x) /\ SupplierStill(x)  BY <2>1, <2>2 DEF SupplierRequestOK, SupplierStill
  <2> QED  BY <2>2, <2>3, SupplierChecked
<1>5. ASSUME NEW r \in Requests, NEW i \in Imports, NEW s \in Suppliers, ImportRead(r, i, s)
      PROVE  SuppliersInv'
  <2>1. PICK x : x = [op |-> "import", at |-> "write", row |-> i, from |-> s]  OBVIOUS
  <2>2. Check(r, "import", x) /\ supplier[s] # None /\ supplier[s].type = "GOODS"
    BY <1>5, <2>1 DEF ImportRead
  <2>3. SupplierRequestOK(x) /\ SupplierStill(x)  BY <2>1, <2>2 DEF SupplierRequestOK, SupplierStill
  <2> QED  BY <2>2, <2>3, SupplierChecked
<1>6. CASE SuppliersMove
  BY <1>3, <1>4, <1>5, <1>6, SupplierCreated, DebtPaid, ImportReceived, TypeWritten, SupplierRemoved,
     ImportWritten DEF SuppliersMove
<1> QED  BY <1>1, <1>2, <1>6, RegistersMoves

------------------------------------------------------------------------------
(* Categories *)

CategoryTypes ==
  /\ category \in [Categories -> CategoryRow \cup {None}]
  /\ product \in [category : Categories \cup {None}, label : Labels \cup {None}]

MaybeCategory == Categories \cup {None}
Up == [c \in MaybeCategory |-> ParentOf(c)]

\* A parent is a category or none.
LEMMA ParentIsOne ==
  ASSUME CategoryTypes
  PROVE  /\ Up \in [MaybeCategory -> MaybeCategory] /\ ParentOf(None) = None
         /\ \A c \in StandingCategories : ParentOf(c) = category[c].parent
BY RegistersAssumption DEF CategoryTypes, CategoryRow, Up, MaybeCategory, ParentOf, StandingCategories

\* ancestorsOf climbs from parent to parent.
LEMMA AncestorsClimb ==
  ASSUME CategoryTypes, NEW c \in MaybeCategory
  PROVE  \E u \in [Nat -> MaybeCategory] :
           /\ Repeats(u, c, Up) /\ AncestorsOf(c) = {u[n] : n \in 0 .. (MaxDepth - 1)} \ {None}
           /\ TooDeep(c) <=> u[MaxDepth] # None
<1> DEFINE Recurs(h) == h = [n \in 0 .. MaxDepth |-> IF n = 0 THEN c ELSE ParentOf(h[n - 1])]
<1>1. PICK u \in [Nat -> MaybeCategory] : Repeats(u, c, Up)  BY ParentIsOne, RepeatsExists
<1>2. MaxDepth \in Nat /\ 0 \in 0 .. MaxDepth  BY RegistersAssumption
<1>3. PICK w : w = [n \in 0 .. MaxDepth |-> u[n]]  OBVIOUS
<1>4. Recurs(w)
  <2>1. ASSUME NEW n \in 0 .. MaxDepth, n # 0 PROVE w[n] = ParentOf(w[n - 1])
    <3>1. n - 1 \in Nat /\ (n - 1) + 1 = n /\ n - 1 \in 0 .. MaxDepth  BY <1>2, <2>1
    <3>2. u[n] = Up[u[n - 1]] /\ u[n - 1] \in MaybeCategory  BY <1>1, <3>1 DEF Repeats
    <3> QED  BY <1>3, <3>1, <3>2 DEF Up
  <2>2. w[0] = c  BY <1>1, <1>2, <1>3 DEF Repeats
  <2> QED  BY <1>3, <2>1, <2>2
<1>5. PICK v : v = CHOOSE h : Recurs(h)  OBVIOUS
<1>6. Recurs(v)
  <2> HIDE DEF Recurs
  <2> QED  BY <1>4, <1>5
<1>7. \A n \in 0 .. MaxDepth : v[n] = u[n]
  <2> DEFINE B == {n \in Nat : n <= MaxDepth /\ v[n] # u[n]}
  <2>1. 0 \notin B  BY <1>1, <1>2, <1>6 DEF Repeats
  <2>2. ASSUME NEW n \in Nat, n + 1 \in B PROVE n \in B
    <3>1. n \in 0 .. MaxDepth /\ n + 1 \in 0 .. MaxDepth /\ n + 1 # 0 /\ (n + 1) - 1 = n
      BY <1>2, <2>2
    <3>2. v[n + 1] = ParentOf(v[n])  BY <1>6, <3>1
    <3>3. u[n + 1] = ParentOf(u[n])  BY <1>1 DEF Repeats, Up
    <3> QED  BY <2>2, <3>1, <3>2, <3>3
  <2>3. B \in SUBSET Nat  OBVIOUS
  <2> HIDE DEF B
  <2>4. B = {}  BY <2>1, <2>2, <2>3, NoCounterexample
  <2> QED  BY <1>2, <2>4 DEF B
<1>8. Chain(c) = v  BY <1>5 DEF Chain
<1> HIDE DEF Recurs
<1>9. AncestorsOf(c) = {v[n] : n \in 0 .. (MaxDepth - 1)} \ {None}  BY <1>8 DEF AncestorsOf
<1>10. TooDeep(c) <=> v[MaxDepth] # None  BY <1>8 DEF TooDeep
<1>11. /\ \A n \in 0 .. (MaxDepth - 1) : n \in 0 .. MaxDepth
       /\ MaxDepth \in 0 .. MaxDepth
  BY <1>2
<1> QED  BY <1>1, <1>7, <1>9, <1>10, <1>11

\* When it does not stop before the top, it holds all that is above.
LEMMA AncestorsClosed ==
  ASSUME CategoryTypes, NEW c \in Categories, ~TooDeep(c)
  PROVE  /\ c \in AncestorsOf(c) /\ AncestorsOf(c) \subseteq Categories
         /\ \A d \in AncestorsOf(c) : ParentOf(d) \in AncestorsOf(c) \cup {None}
<1>1. PICK u \in [Nat -> MaybeCategory] :
        /\ Repeats(u, c, Up) /\ AncestorsOf(c) = {u[n] : n \in 0 .. (MaxDepth - 1)} \ {None}
        /\ TooDeep(c) <=> u[MaxDepth] # None
  BY AncestorsClimb DEF MaybeCategory
<1>2. \A n \in Nat : u[n + 1] = ParentOf(u[n]) /\ u[n] \in MaybeCategory  BY <1>1 DEF Repeats, Up
<1>3. u[0] = c /\ c # None /\ MaxDepth \in Nat \ {0}  BY <1>1, RegistersAssumption DEF Repeats
<1>4. c \in AncestorsOf(c)
  <2>1. 0 \in 0 .. (MaxDepth - 1)  BY <1>3
  <2> QED  BY <1>1, <1>3, <2>1
<1>5. \A n \in 0 .. (MaxDepth - 1) : n \in Nat  BY <1>3
<1>6. AncestorsOf(c) \subseteq Categories  BY <1>1, <1>2, <1>5 DEF MaybeCategory
<1>7. ASSUME NEW d \in AncestorsOf(c) PROVE ParentOf(d) \in AncestorsOf(c) \cup {None}
  <2>1. PICK n \in 0 .. (MaxDepth - 1) : d = u[n]  BY <1>1
  <2>2. ParentOf(d) = u[n + 1]  BY <1>2, <1>5, <2>1
  <2>3. CASE n + 1 = MaxDepth  BY <1>1, <2>2, <2>3
  <2>4. CASE n + 1 # MaxDepth
    <3>1. n + 1 \in 0 .. (MaxDepth - 1)  BY <1>3, <2>4
    <3> QED  BY <1>1, <2>2, <3>1
  <2> QED  BY <2>3, <2>4
<1> QED  BY <1>4, <1>6, <1>7

\* Every parent stands, and no categories have all their parents among themselves.
ParentsExist == \A c \in StandingCategories : category[c].parent # None => category[c].parent \in StandingCategories
Grounded == \A S \in SUBSET StandingCategories : S # {} => \E c \in S : category[c].parent \notin S

\* The categories from p upwards are without w.
Clear(w, p) == \E X \in SUBSET Categories : p \in X /\ w \notin X /\ \A d \in X : ParentOf(d) \in X \cup {None}

\* When they stand on the ground, the picker reaches each of them.
LEMMA AllReached == Grounded => Reached = StandingCategories
BY DEF Grounded, Reached

\* A category is created below one that stands, or moved to where it is not above itself.
LEMMA CategoryPlaced ==
  ASSUME CategoryTypes, ParentsExist, NEW w \in Categories, NEW y \in CategoryRow,
         category' = [category EXCEPT ![w] = y], y.parent # None => y.parent # w /\ y.parent \in StandingCategories
  PROVE  /\ ParentsExist'
         /\ /\ Grounded
            /\ \/ w \notin StandingCategories \/ y.parent = None \/ y.parent = category[w].parent
               \/ Clear(w, y.parent)
            => Grounded'
<1>1. /\ \A c \in Categories : category'[c] = IF c = w THEN y ELSE category[c]
      /\ y # None /\ None \notin Categories
  BY RowsAssumption, RegistersAssumption DEF CategoryTypes
<1>2. StandingCategories' = StandingCategories \cup {w}  BY <1>1 DEF StandingCategories
<1>3. \A c \in StandingCategories : c # w => category'[c].parent = category[c].parent  BY <1>1 DEF StandingCategories
<1>4. category'[w].parent = y.parent  BY <1>1
<1>5. ParentsExist'  BY <1>2, <1>3, <1>4 DEF ParentsExist
<1>6. ASSUME Grounded,
             \/ w \notin StandingCategories \/ y.parent = None \/ y.parent = category[w].parent
             \/ Clear(w, y.parent),
             NEW S \in SUBSET (StandingCategories \cup {w}), S # {}, \A c \in S : category'[c].parent \in S
      PROVE  FALSE
  <2>1. None \notin S  BY <1>1 DEF StandingCategories
  <2>2. CASE w \notin S
    <3>1. S \in SUBSET StandingCategories /\ \A c \in S : category[c].parent \in S  BY <1>3, <1>6, <2>2
    <3> QED  BY <1>6, <3>1 DEF Grounded
  <2>3. CASE w \in S /\ w \notin StandingCategories
    <3>1. PICK T : T = S \ {w}  OBVIOUS
    <3>2. y.parent \in T  BY <1>1, <1>4, <1>6, <2>1, <2>3, <3>1
    <3>3. ASSUME NEW d \in T PROVE category[d].parent \in T
      <4>1. d \in StandingCategories /\ d # w /\ category[d].parent \in S  BY <1>3, <1>6, <3>1
      <4>2. category[d].parent \in StandingCategories  BY <2>1, <4>1 DEF ParentsExist
      <4> QED  BY <2>3, <3>1, <4>1, <4>2
    <3>4. T \in SUBSET StandingCategories /\ T # {}  BY <3>1, <3>2
    <3> QED  BY <1>6, <3>3, <3>4 DEF Grounded
  <2>5. CASE w \in StandingCategories /\ y.parent = category[w].parent
    <3>1. S \in SUBSET StandingCategories /\ \A c \in S : category[c].parent \in S
      BY <1>3, <1>4, <1>6, <2>5
    <3> QED  BY <1>6, <3>1 DEF Grounded
  <2>4. CASE w \in S /\ w \in StandingCategories /\ y.parent # category[w].parent
    <3>1. y.parent \in S /\ y.parent # None  BY <1>4, <1>6, <2>1, <2>4
    <3>2. PICK X \in SUBSET Categories :
            y.parent \in X /\ w \notin X /\ \A d \in X : ParentOf(d) \in X \cup {None}
      BY <1>6, <2>4, <3>1 DEF Clear
    <3>3. PICK T : T = S \cap X  OBVIOUS
    <3>4. ASSUME NEW d \in T PROVE category[d].parent \in T
      <4>1. d \in StandingCategories /\ d # w /\ category[d].parent \in S  BY <1>3, <1>6, <3>2, <3>3
      <4>2. ParentOf(d) = category[d].parent  BY <4>1, ParentIsOne
      <4> QED  BY <2>1, <3>2, <3>3, <4>1, <4>2
    <3>5. T \in SUBSET StandingCategories /\ T # {}  BY <3>1, <3>2, <3>3
    <3> QED  BY <1>6, <3>4, <3>5 DEF Grounded
  <2> QED  BY <2>2, <2>3, <2>4, <2>5
<1> QED  BY <1>2, <1>5, <1>6 DEF Grounded

\* A category without children is removed.
LEMMA CategoryGone ==
  ASSUME CategoryTypes, ParentsExist, NEW w \in Categories, category' = [category EXCEPT ![w] = None],
         \A d \in StandingCategories : category[d].parent # w
  PROVE  ParentsExist' /\ (Grounded => Grounded')
<1>1. \A c \in Categories : category'[c] = IF c = w THEN None ELSE category[c]  BY DEF CategoryTypes
<1>2. StandingCategories' = StandingCategories \ {w}  BY <1>1 DEF StandingCategories
<1>3. \A c \in StandingCategories : c # w => category'[c].parent = category[c].parent  BY <1>1 DEF StandingCategories
<1>4. ParentsExist'  BY <1>2, <1>3 DEF ParentsExist
<1>5. ASSUME Grounded, NEW S \in SUBSET (StandingCategories \ {w}), S # {}
      PROVE  \E c \in S : category'[c].parent \notin S
  <2>1. S \in SUBSET StandingCategories /\ w \notin S  BY <1>5
  <2>2. PICK c \in S : category[c].parent \notin S  BY <1>5, <2>1 DEF Grounded
  <2> QED  BY <1>3, <2>1, <2>2
<1>6. Grounded => Grounded'  BY <1>2, <1>5 DEF Grounded
<1> QED  BY <1>4, <1>6

CategoryRequestOK(x) ==
  /\ x.op = "category" => /\ x.row \in Categories /\ x.label \in Labels
                          /\ x.parent \in Categories \cup {None} /\ x.parent # x.row
                          /\ x.fresh \in BOOLEAN /\ x.renamed \in BOOLEAN /\ (x.fresh => ~x.renamed)
                          /\ x.unseen \in BOOLEAN
  /\ x.op = "categoryRemove" => x.row \in Categories
  /\ x.op = "product" => x.row \in Categories /\ x.label \in Labels

\* What the checks found is still so.
CategoryStill(x) ==
  /\ x.op = "category" /\ ~x.fresh =>
       /\ x.unseen \/ x.parent = None \/ x.parent = category[x.row].parent \/ Clear(x.row, x.parent)
       /\ ~x.renamed => x.label = category[x.row].label
  /\ x.op = "product" => x.label = category[x.row].label

LabelsRight ==
  product.category # None => /\ product.category \in StandingCategories
                             /\ product.label = category[product.category].label

CategoriesRight == ParentsExist /\ LabelsRight /\ (~unseen => Grounded)

CategoriesInv ==
  /\ CategoryTypes
  /\ \A r \in Requests : CategoryRequestOK(req[r])
  /\ ~raced => CategoriesRight /\ \A r \in Requests : CategoryStill(req[r])

\* Nothing is asked of a request that is over.
LEMMA CategoryIdle == CategoryRequestOK(Idle) /\ Idle.op \notin CategoryOps
BY DEF CategoryRequestOK, Idle, CategoryOps

\* The categories, and what is above them, depend on the rows alone.
LEMMA CategoriesSame ==
  ASSUME UNCHANGED <<category, unseen, product>>
  PROVE  /\ CategoryTypes => CategoryTypes'
         /\ CategoriesRight => CategoriesRight'
         /\ \A w, p : Clear(w, p) => Clear(w, p)'
<1>1. \A d : ParentOf(d)' = ParentOf(d)  BY DEF ParentOf
<1>2. \A w, p : Clear(w, p) => Clear(w, p)'  BY <1>1 DEF Clear
<1>3. StandingCategories' = StandingCategories  BY DEF StandingCategories
<1>4. CategoriesRight => CategoriesRight'
  BY <1>3 DEF CategoriesRight, ParentsExist, Grounded, LabelsRight
<1> QED  BY <1>2, <1>4 DEF CategoryTypes

\* What a request has found is still so when no category changed.
LEMMA CategoryStays ==
  ASSUME UNCHANGED <<category, unseen, product>>, NEW x, CategoryStill(x)
  PROVE  CategoryStill(x)'
<1>1. PICK w, p : w = x.row /\ p = x.parent  OBVIOUS
<1>2. Clear(w, p) => Clear(w, p)'  BY CategoriesSame
<1> QED  BY <1>1, <1>2 DEF CategoryStill

\* A step that concerns no category.
LEMMA CategoriesUntouched ==
  ASSUME CategoriesInv, UNCHANGED <<category, unseen, product>>, Untouched(CategoryOps)
  PROVE  CategoriesInv'
<1>1. \A r \in Requests : req'[r].op \in CategoryOps => req'[r] = req[r]  BY DEF Untouched
<1>2. \A r \in Requests : CategoryRequestOK(req'[r])
  <2> TAKE r \in Requests
  <2>1. CASE req'[r] = req[r]  BY <2>1 DEF CategoriesInv
  <2>2. CASE req'[r].op \notin CategoryOps  BY <2>2 DEF CategoryRequestOK, CategoryOps
  <2> QED  BY <1>1, <2>1, <2>2
<1>3. \A r \in Requests : CategoryStill(req[r]) => CategoryStill(req[r])'
  <2> TAKE r \in Requests
  <2>1. CASE req'[r] = req[r]
    <3>1. PICK x : x = req[r]  OBVIOUS
    <3>2. CategoryStill(x) => CategoryStill(x)'  BY CategoryStays
    <3> QED  BY <2>1, <3>1, <3>2 DEF CategoryStill
  <2>2. CASE req'[r].op \notin CategoryOps  BY <2>2 DEF CategoryStill, CategoryOps
  <2> QED  BY <1>1, <2>1, <2>2
<1>4. ~raced' => ~raced  BY DEF Untouched
<1> QED  BY <1>2, <1>3, <1>4, CategoriesSame DEF CategoriesInv, CategoryRequestOK

\* A request about a category begins.
LEMMA CategoryChecked ==
  ASSUME RequestsNamed, CategoriesInv, NEW r \in Requests, NEW op, NEW x, Check(r, op, x),
         CategoryRequestOK(x), CategoryStill(x)
  PROVE  CategoriesInv'
<1>1. /\ \A q \in Requests : req'[q] = IF q = r THEN x ELSE req[q]
      /\ ~raced' => ~raced
  BY CheckBegins
<1>2. UNCHANGED <<category, unseen, product>>  BY DEF Check
<1>3. \A q \in Requests : CategoryStill(req[q]) => CategoryStill(req[q])'
  <2> TAKE q \in Requests
  <2>1. PICK y : y = req'[q]  OBVIOUS
  <2>2. (y = x \/ y = req[q]) /\ (CategoryStill(y) => CategoryStill(y)')  BY <1>1, <1>2, <2>1, CategoryStays
  <2>3. CategoryStill(req[q]) => CategoryStill(y)'  BY <2>2
  <2> QED  BY <2>1, <2>3 DEF CategoryStill
<1>4. \A q \in Requests : CategoryRequestOK(req'[q])  BY <1>1 DEF CategoriesInv
<1> QED  BY <1>1, <1>2, <1>3, <1>4, CategoriesSame DEF CategoriesInv, CategoryRequestOK

\* A request has written.
LEMMA CategoryWritten ==
  ASSUME RequestsNamed, Alone, CategoriesInv, NEW r \in Requests, req[r].op \in CategoryOps, req' = Done(r),
         UNCHANGED raced, CategoryTypes', ~raced => CategoriesRight'
  PROVE  CategoriesInv'
<1>1. \A q \in Requests : req'[q] = IF q = r THEN Idle ELSE req[q]  BY DEF RequestsNamed, Done
<1>2. \A q \in Requests : CategoryRequestOK(req'[q])  BY <1>1, CategoryIdle DEF CategoriesInv
<1>3. ~raced => \A q \in Requests : CategoryStill(req[q])'
  <2>1. ~raced => \A q \in Requests : req'[q].op \notin RegisterOps
    BY NoneLeft DEF CategoryOps, RegisterOps
  <2> QED  BY <2>1 DEF CategoryStill, RegisterOps
<1> QED  BY <1>2, <1>3 DEF CategoriesInv, CategoryRequestOK

\* A category is created or changed.
LEMMA CategoryPut ==
  ASSUME RequestsNamed, Alone, CategoriesInv, NEW r \in Requests, CategoryWrite(r)
  PROVE  CategoriesInv'
<1>1. PICK x : x = req[r]  OBVIOUS
<1>2. /\ x.op = "category" /\ req[r].op \in CategoryOps /\ req' = Done(r) /\ UNCHANGED raced
  BY <1>1 DEF CategoryWrite, At, CategoryOps
<1>3. /\ x.row \in Categories /\ x.label \in Labels /\ x.parent \in Categories \cup {None}
      /\ x.parent # x.row /\ x.fresh \in BOOLEAN /\ x.renamed \in BOOLEAN /\ (x.fresh => ~x.renamed)
      /\ x.unseen \in BOOLEAN
  BY <1>1, <1>2 DEF CategoriesInv, CategoryRequestOK
<1>4. CASE UNCHANGED <<category, unseen, product>>
  BY <1>2, <1>4, CategoriesSame, CategoryWritten DEF CategoriesInv
<1>5. CASE ~UNCHANGED <<category, unseen, product>>
  <2>1. PICK y : y = [label |-> x.label, parent |-> x.parent]  OBVIOUS
  <2>2. y \in CategoryRow /\ y.label = x.label /\ y.parent = x.parent /\ y # None
    BY <1>3, <2>1, RowsAssumption DEF CategoryRow
  <2>3. /\ x.fresh <=> category[x.row] = None
        /\ x.parent # None => category[x.parent] # None
        /\ category' = [category EXCEPT ![x.row] = y] /\ unseen' = (unseen \/ x.unseen)
        /\ product' = IF ~x.renamed \/ product.category # x.row THEN product
                      ELSE [product EXCEPT !.label = x.label]
    BY <1>1, <1>3, <1>5, <2>1 DEF CategoryWrite
  <2>4. /\ product'.category = product.category
        /\ product'.label = IF ~x.renamed \/ product.category # x.row THEN product.label ELSE x.label
    BY <2>3 DEF CategoriesInv, CategoryTypes
  <2>5. \A c \in Categories : category'[c] = IF c = x.row THEN y ELSE category[c]
    BY <2>3 DEF CategoriesInv, CategoryTypes
  <2>6. CategoryTypes'
    <3>1. category' \in [Categories -> CategoryRow \cup {None}]
      BY <1>3, <2>2, <2>3 DEF CategoriesInv, CategoryTypes
    <3>2. product' \in [category : Categories \cup {None}, label : Labels \cup {None}]
      BY <1>3, <2>3 DEF CategoriesInv, CategoryTypes
    <3> QED  BY <3>1, <3>2 DEF CategoryTypes
  <2>7. ASSUME ~raced PROVE CategoriesRight'
    <3>1. CategoriesRight /\ CategoryStill(x)  BY <1>1, <2>7 DEF CategoriesInv
    <3>2. ParentsExist' /\ (~unseen' => Grounded')
      <4>1. \/ x.unseen \/ x.row \notin StandingCategories \/ y.parent = None
            \/ y.parent = category[x.row].parent \/ Clear(x.row, y.parent)
        BY <1>2, <2>2, <2>3, <3>1 DEF CategoryStill, StandingCategories
      <4>2. y.parent # None => y.parent # x.row /\ y.parent \in StandingCategories
        BY <1>3, <2>2, <2>3 DEF StandingCategories
      <4>3. unseen' = (unseen \/ x.unseen) /\ (~unseen => Grounded)  BY <2>3, <3>1 DEF CategoriesRight
      <4> QED  BY <1>3, <2>2, <2>3, <3>1, <4>1, <4>2, <4>3, CategoryPlaced DEF CategoriesInv, CategoriesRight
    <3>3. LabelsRight'
      <4>1. LabelsRight  BY <3>1 DEF CategoriesRight
      <4>2. CASE product.category = x.row
        <5>1. x.row # None  BY <1>3, RegistersAssumption
        <5>2. category[x.row] # None /\ product.label = category[x.row].label
          BY <4>1, <4>2, <5>1 DEF LabelsRight, StandingCategories
        <5>3. ~x.renamed => x.label = category[x.row].label
          BY <1>2, <2>3, <3>1, <5>2 DEF CategoryStill
        <5>4. product'.label = x.label  BY <2>4, <4>2, <5>2, <5>3
        <5> QED  BY <1>3, <2>2, <2>4, <2>5, <4>2, <5>4 DEF LabelsRight, StandingCategories
      <4>3. CASE product.category # x.row
        BY <2>4, <2>5, <4>1, <4>3 DEF LabelsRight, StandingCategories
      <4> QED  BY <4>2, <4>3
    <3> QED  BY <3>2, <3>3 DEF CategoriesRight
  <2> QED  BY <1>2, <2>6, <2>7, CategoryWritten
<1> QED  BY <1>4, <1>5

\* A category is removed.
LEMMA CategoryTaken ==
  ASSUME RequestsNamed, Alone, CategoriesInv, NEW r \in Requests, CategoryRemoveWrite(r)
  PROVE  CategoriesInv'
<1>1. PICK w : w = req[r].row  OBVIOUS
<1>2. /\ req[r].op = "categoryRemove" /\ req[r].op \in CategoryOps /\ req' = Done(r) /\ UNCHANGED raced
  BY DEF CategoryRemoveWrite, At, CategoryOps
<1>3. w \in Categories  BY <1>1, <1>2 DEF CategoriesInv, CategoryRequestOK
<1>4. CASE UNCHANGED <<category, unseen, product>>
  BY <1>2, <1>4, CategoriesSame, CategoryWritten DEF CategoriesInv
<1>5. CASE ~UNCHANGED <<category, unseen, product>>
  <2>1. /\ \A d \in StandingCategories : category[d].parent # w
        /\ UNCHANGED unseen
        /\ category' = [category EXCEPT ![w] = None]
        /\ product' = IF product.category # w THEN product ELSE [product EXCEPT !.category = None]
    BY <1>1, <1>5 DEF CategoryRemoveWrite, StandingCategories
  <2>2. /\ product'.category = IF product.category # w THEN product.category ELSE None
        /\ product'.label = product.label
        /\ \A c \in Categories : category'[c] = IF c = w THEN None ELSE category[c]
    BY <2>1 DEF CategoriesInv, CategoryTypes
  <2>3. CategoryTypes'
    <3>1. category' \in [Categories -> CategoryRow \cup {None}]  BY <1>3, <2>1 DEF CategoriesInv, CategoryTypes
    <3>2. product' \in [category : Categories \cup {None}, label : Labels \cup {None}]
      BY <2>1 DEF CategoriesInv, CategoryTypes
    <3> QED  BY <3>1, <3>2 DEF CategoryTypes
  <2>4. ASSUME ~raced PROVE CategoriesRight'
    <3>1. CategoriesRight  BY <2>4 DEF CategoriesInv
    <3>2. ParentsExist' /\ (Grounded => Grounded')
      BY <1>3, <2>1, <3>1, CategoryGone DEF CategoriesInv, CategoriesRight
    <3>3. LabelsRight'  BY <2>2, <3>1 DEF CategoriesRight, LabelsRight, StandingCategories
    <3> QED  BY <2>1, <3>1, <3>2, <3>3 DEF CategoriesRight
  <2> QED  BY <1>2, <2>3, <2>4, CategoryWritten
<1> QED  BY <1>4, <1>5

\* The product is put into a category.
LEMMA ProductPut ==
  ASSUME RequestsNamed, Alone, CategoriesInv, NEW r \in Requests, ProductUpdateWrite(r)
  PROVE  CategoriesInv'
<1>1. PICK x : x = req[r]  OBVIOUS
<1>2. /\ x.op = "product" /\ req[r].op \in CategoryOps /\ req' = Done(r) /\ UNCHANGED <<category, unseen, raced>>
  BY <1>1 DEF ProductUpdateWrite, At, CategoryOps
<1>3. x.row \in Categories /\ x.label \in Labels  BY <1>1, <1>2 DEF CategoriesInv, CategoryRequestOK
<1>4. PICK y : y = [category |-> x.row, label |-> x.label]  OBVIOUS
<1>5. y.category = x.row /\ y.label = x.label  BY <1>4
<1>6. product' = IF category[x.row] = None THEN product ELSE y
  BY <1>1, <1>4 DEF ProductUpdateWrite
<1>7. CategoryTypes'
  <2>1. y \in [category : Categories \cup {None}, label : Labels \cup {None}]  BY <1>3, <1>4
  <2> QED  BY <1>2, <1>6, <2>1 DEF CategoriesInv, CategoryTypes
<1>8. ASSUME ~raced PROVE CategoriesRight'
  <2>1. CategoriesRight /\ CategoryStill(x)  BY <1>1, <1>8 DEF CategoriesInv
  <2>2. StandingCategories' = StandingCategories  BY <1>2 DEF StandingCategories
  <2>3. ParentsExist' /\ (Grounded => Grounded')
    BY <1>2, <2>1, <2>2 DEF CategoriesRight, ParentsExist, Grounded
  <2>4. LabelsRight'
    <3>1. x.label = category[x.row].label  BY <1>2, <2>1 DEF CategoryStill
    <3>2. category[x.row] # None => x.row \in StandingCategories  BY <1>3 DEF StandingCategories
    <3> QED  BY <1>2, <1>5, <1>6, <2>1, <2>2, <3>1, <3>2 DEF CategoriesRight, LabelsRight
  <2> QED  BY <1>2, <2>1, <2>3, <2>4 DEF CategoriesRight
<1> QED  BY <1>2, <1>7, <1>8, CategoryWritten

\* The requests that look before they write.
LEMMA CategoryRead ==
  ASSUME RequestsNamed, CategoriesInv, NEW r \in Requests, NEW c \in Categories,
         NEW parent \in Categories \cup {None}, NEW label \in Labels,
         CategoryCreateRead(r, c, parent, label) \/ CategoryUpdateRead(r, c, parent, label)
  PROVE  CategoriesInv'
<1>0. None \notin Categories  BY RegistersAssumption
<1>1. CASE CategoryCreateRead(r, c, parent, label)
  <2>1. PICK x : x = [op |-> "category", at |-> "write", row |-> c, parent |-> parent,
                      label |-> label, fresh |-> TRUE, renamed |-> FALSE, unseen |-> FALSE]
    OBVIOUS
  <2>2. /\ Check(r, "category", x) /\ category[c] = None /\ (parent # None => category[parent] # None)
    BY <1>1, <2>1 DEF CategoryCreateRead
  <2>3. parent # c  BY <1>0, <2>2
  <2>4. CategoryRequestOK(x)  BY <2>1, <2>3 DEF CategoryRequestOK
  <2>5. CategoryStill(x)  BY <2>1 DEF CategoryStill
  <2> QED  BY <2>2, <2>4, <2>5, CategoryChecked
<1>2. CASE CategoryUpdateRead(r, c, parent, label)
  <2>1. PICK x : x = [op |-> "category", at |-> "write", row |-> c, parent |-> parent,
                      label |-> label, fresh |-> FALSE, renamed |-> label # category[c].label,
                      unseen |-> parent # category[c].parent /\ TooDeep(parent)]
    OBVIOUS
  <2>2. /\ Check(r, "category", x) /\ category[c] # None
        /\ parent # None => category[parent] # None /\ c # parent /\ c \notin AncestorsOf(parent)
    BY <1>2, <2>1 DEF CategoryUpdateRead, NoCycle
  <2>3. /\ x.op = "category" /\ x.row = c /\ x.parent = parent /\ x.label = label
        /\ x.fresh = FALSE /\ x.renamed = (label # category[c].label)
        /\ x.unseen = (parent # category[c].parent /\ TooDeep(parent))
    BY <2>1
  <2>4. parent # c  BY <1>0, <2>2
  <2>5. x.renamed \in BOOLEAN /\ x.unseen \in BOOLEAN  BY <2>3
  <2>6. CategoryRequestOK(x)  BY <2>3, <2>4, <2>5 DEF CategoryRequestOK
  <2>7. parent # None /\ ~TooDeep(parent) => Clear(c, parent)
    <3> HAVE parent # None /\ ~TooDeep(parent)
    <3>1. parent \in Categories  OBVIOUS
    <3>2. PICK X : X = AncestorsOf(parent)  OBVIOUS
    <3>3. parent \in X /\ X \subseteq Categories /\ \A d \in X : ParentOf(d) \in X \cup {None}
      BY <3>1, <3>2, AncestorsClosed DEF CategoriesInv
    <3> QED  BY <2>2, <3>2, <3>3 DEF Clear
  <2>8. CategoryStill(x)  BY <2>3, <2>7 DEF CategoryStill
  <2> QED  BY <2>2, <2>6, <2>8, CategoryChecked
<1> QED  BY <1>1, <1>2

\* A removal, or a product, looks at a category before it writes.
LEMMA CategoryOtherRead ==
  ASSUME RequestsNamed, CategoriesInv, NEW r \in Requests, NEW c \in Categories,
         CategoryRemoveRead(r, c) \/ ProductUpdateRead(r, c)
  PROVE  CategoriesInv'
<1>1. CASE CategoryRemoveRead(r, c)
  <2>1. PICK x : x = [op |-> "categoryRemove", at |-> "write", row |-> c]  OBVIOUS
  <2>2. Check(r, "categoryRemove", x)  BY <1>1, <2>1 DEF CategoryRemoveRead
  <2>3. CategoryRequestOK(x) /\ CategoryStill(x)  BY <2>1 DEF CategoryRequestOK, CategoryStill
  <2> QED  BY <2>2, <2>3, CategoryChecked
<1>2. CASE ProductUpdateRead(r, c)
  <2>1. PICK x : x = [op |-> "product", at |-> "write", row |-> c, label |-> category[c].label]  OBVIOUS
  <2>2. Check(r, "product", x) /\ category[c] # None  BY <1>2, <2>1 DEF ProductUpdateRead
  <2>3. category[c].label \in Labels  BY <2>2 DEF CategoriesInv, CategoryTypes, CategoryRow
  <2>4. CategoryRequestOK(x) /\ CategoryStill(x)  BY <2>1, <2>3 DEF CategoryRequestOK, CategoryStill
  <2> QED  BY <2>2, <2>4, CategoryChecked
<1> QED  BY <1>1, <1>2

\* The categories, whatever the step.
LEMMA CategoriesStep ==
  ASSUME RequestsNamed, Alone, CategoriesInv, [Next]_vars
  PROVE  CategoriesInv'
<1>1. CASE ~RegistersNext
  <2>1. Untouched(CategoryOps) /\ UNCHANGED <<category, unseen, product>>
    BY <1>1, RegistersRest DEF registersVars, Untouched, CategoryOps, RegisterOps
  <2> QED  BY <2>1, CategoriesUntouched
<1>2. CASE SuppliersMove \/ CustomersMove \/ VariantsMove
  <2>1. Untouched(CategoryOps)
    <3>1. /\ SupplierOps \cap CategoryOps = {} /\ CustomerOps \cap CategoryOps = {}
          /\ {"resolve"} \cap CategoryOps = {} /\ "idle" \notin CategoryOps
      BY DEF CategoryOps, CustomerOps, SupplierOps
    <3> QED  BY <1>2, <3>1, SuppliersMoves, CustomersMoves, VariantsMoves, OtherMoves
  <2>2. UNCHANGED <<category, unseen, product>>  BY <1>2, SuppliersMoves, CustomersMoves, VariantsMoves
  <2> QED  BY <2>1, <2>2, CategoriesUntouched
<1>3. CASE CategoriesMove
  BY <1>3, CategoryPut, CategoryTaken, ProductPut, CategoryRead, CategoryOtherRead DEF CategoriesMove
<1> QED  BY <1>1, <1>2, <1>3, RegistersMoves

------------------------------------------------------------------------------
(* The records as a whole *)

\* The records are sound, and what the requests under way hold of them is not
\* stale where that matters.
RecordsInv ==
  /\ RequestsNamed /\ Alone
  /\ CustomersInv /\ CategoriesInv /\ VariantsInv /\ SuppliersInv
  /\ CodeInv /\ HolidayInv /\ TicketInv

\* No request is under way at first.
LEMMA FirstRequests == Init => ~raced /\ \A r \in Requests : req[r] = Idle /\ req[r].op = "idle"
BY IdleNamed DEF Init, RequestsInit, RegistersInit

\* The registers hold nothing at first but one variant of the product, and
\* suppliers nothing is owed to.
LEMMA RegistersBegin ==
  Init => Alone /\ CustomersInv /\ CategoriesInv /\ VariantsInv /\ SuppliersInv
<1> SUFFICES ASSUME Init
             PROVE  Alone /\ CustomersInv /\ CategoriesInv /\ VariantsInv /\ SuppliersInv
  OBVIOUS
<1>1. \A r \in Requests : req[r] = Idle /\ req[r].op = "idle"  BY FirstRequests
<1>2. Alone  BY <1>1 DEF Alone, RegisterOps
<1>3. CustomersInv
  <2>1. /\ DOMAIN customer = Customers
        /\ \A c \in Customers : customer[c] = None
    BY DEF Init, RegistersInit
  <2>2. \A r \in Requests : CustomerStill(req[r])  BY <1>1 DEF CustomerStill
  <2> QED  BY <1>1, <2>1, <2>2 DEF CustomersInv, PhonesApart, Present, CustomerOps
<1>4. CategoriesInv
  <2>1. /\ category = [c \in Categories |-> None]
        /\ product = [category |-> None, label |-> None]
    BY DEF Init, RegistersInit
  <2>2. CategoryTypes  BY <2>1 DEF CategoryTypes
  <2>3. product.category = None  BY <2>1
  <2>4. StandingCategories = {}  BY <2>1 DEF StandingCategories
  <2>5. CategoriesRight  BY <2>3, <2>4 DEF CategoriesRight, ParentsExist, Grounded, LabelsRight
  <2>6. \A r \in Requests : CategoryRequestOK(req[r])  BY <1>1, CategoryIdle
  <2>7. \A r \in Requests : CategoryStill(req[r])  BY <1>1 DEF CategoryStill
  <2> QED  BY <2>2, <2>5, <2>6, <2>7 DEF CategoriesInv
<1>5. VariantsInv
  <2>1. PICK w \in Variants, x \in Values :
          variant = [v \in Variants |-> IF v = w THEN x ELSE None]
    BY DEF Init, RegistersInit
  <2>2. VariantTypes  BY <2>1 DEF VariantTypes
  <2>3. apart = {}  BY DEF Init, RegistersInit
  <2>4. \A r \in Requests : VariantStill(req[r])  BY <1>1 DEF VariantStill
  <2> QED  BY <1>1, <2>2, <2>3, <2>4 DEF VariantsInv, VariantsApart
<1>6. SuppliersInv
  <2>1. PICK y : y = [type |-> "GOODS", debt |-> 0]  OBVIOUS
  <2>2. y \in SupplierRow /\ y.debt = 0  BY <2>1 DEF SupplierRow
  <2>3. /\ supplier \in [Suppliers -> {y, None}]
        /\ import = [i \in Imports |-> None] /\ paid = [s \in Suppliers |-> 0]
    BY <2>1 DEF Init, RegistersInit
  <2>4. SupplierTypes  BY <2>2, <2>3 DEF SupplierTypes
  <2>5. \A s : Naming(s) = {}  BY <2>3 DEF Naming
  <2>6. ASSUME NEW s \in Suppliers PROVE SumFunctionOnSet(Charged(s), Imports) = 0
    <3>1. \A i \in Imports : Charged(s)[i] = 0  BY <2>5, ChargedEach
    <3> QED  BY <3>1, SumZero, RegistersAssumption
  <2>7. \A s \in Suppliers : supplier[s] # None => supplier[s].debt + paid[s] = 0  BY <2>2, <2>3
  <2>8. DebtsAddUp  BY <2>5, <2>6, <2>7 DEF DebtsAddUp
  <2>9. ImportsRight  BY <2>3 DEF ImportsRight
  <2>10. \A r \in Requests : SupplierRequestOK(req[r])  BY <1>1, SupplierIdle
  <2>11. \A r \in Requests : SupplierStill(req[r])  BY <1>1 DEF SupplierStill
  <2> QED  BY <2>4, <2>8, <2>9, <2>10, <2>11 DEF SuppliersInv
<1> QED  BY <1>2, <1>3, <1>4, <1>5, <1>6

\* They hold when the program starts.
LEMMA RecordsInit == Init => RecordsInv
BY RegistersBegin, CodeInit, HolidayInit, TicketInit DEF RecordsInv, CodeInv, OutsideTypes

\* And after every step.
LEMMA RecordsStep ==
  ASSUME RecordsInv, [Next]_vars
  PROVE  RecordsInv'
<1> USE DEF RecordsInv
<1>1. CodeInv'  BY CodeStep
<1>2. known \subseteq 1 .. MaxCodes  BY DEF CodeInv
<1>3. HolidayInv' /\ TicketInv'  BY <1>2, HolidayStep, TicketStep
<1>4. RequestsNamed'  BY <1>1 DEF CodeInv, OutsideTypes
<1>5. Alone'  BY AloneStep
<1>6. CustomersInv' /\ CategoriesInv' /\ VariantsInv' /\ SuppliersInv'
  BY CustomersStep, CategoriesStep, VariantsStep, SuppliersStep
<1> QED  BY <1>1, <1>3, <1>4, <1>5, <1>6

\* They are what the records promise.
LEMMA RecordsInvHolds ==
  ASSUME RecordsInv
  PROVE  RecordsHold
<1>1. DebtsAddUp /\ (~raced => ImportsRight)  BY DEF RecordsInv, SuppliersInv
<1>2. ASSUME ~raced PROVE NothingAmiss
  <2>1. PhonesApart /\ VariantsApart /\ ImportsRight
    BY <1>1, <1>2 DEF RecordsInv, CustomersInv, VariantsInv
  <2>2. CategoriesRight  BY <1>2 DEF RecordsInv, CategoriesInv
  <2>3. ~unseen => Reached = StandingCategories  BY <2>2, AllReached DEF CategoriesRight
  <2>4. product.category # None => product.label = category[product.category].label
    BY <2>2 DEF CategoriesRight, LabelsRight
  <2> QED  BY <2>1, <2>3, <2>4 DEF NothingAmiss, PhonesApart, VariantsApart, ImportsRight
<1>3. CodesServeOnce  BY DEF RecordsInv, CodeInv, CodesInOrder
<1>4. OwnersEditWins  BY DEF RecordsInv, HolidayInv, OwnersEditWins
<1>5. TurnIsRight  BY DEF RecordsInv, TicketInv
<1> QED  BY <1>1, <1>2, <1>3, <1>4, <1>5 DEF RecordsHold, RegistersHold

\* A supplier's debt is what its imports charged less what was paid, a code serves
\* once, what the owner made of a holiday stays, a ticket waits for the right
\* side. While no two requests about a register have overlapped: no two customers
\* share a phone (customers.service.ts:203), resolve makes no twin of a SKU
\* (product-variant.service.ts:62), the product carries the name of its category,
\* and no import is without a supplier of goods (suppliers.service.ts:130). And
\* as long as assertNoCycle saw the top of the tree whenever a category was moved
\* (categories.service.ts:99), every category is below a root, in trees of any
\* depth.
THEOREM RecordsStay == Spec => []RecordsHold
<1>1. Init => RecordsInv  BY RecordsInit
<1>2. RecordsInv /\ [Next]_vars => RecordsInv'  BY RecordsStep
<1>3. RecordsInv => RecordsHold  BY RecordsInvHolds
<1> QED  BY <1>1, <1>2, <1>3, PTL DEF Spec
=============================================================================
