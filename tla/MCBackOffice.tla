---------------------------- MODULE MCBackOffice ----------------------------
(* Instances of BackOffice for TLC. *)
EXTENDS BackOffice, TLC

\* k1 and k2 are the ids of sessions, shifts, tenants and orders
\* alike, and so on: no behaviour uses two of these tables.
CONSTANTS an, binh, shop, r1, r2, k1, k2, night, n1, n2, c1, b1, b2, i1, i2, clerk, chief, p1

\* Each behaviour uses one of these sets of endpoints.
AccountOps == {"hire", "createAccount", "deactivate", "remove", "login", "rotate", "logout"}
PasswordOps == {"accountPassword", "changePassword", "resetPassword", "deactivate", "login",
                "rotate", "outage"}
PlaceOps == {"update", "deactivate", "remove", "placeUpdate", "placeRemove", "appoint"}
RosterOps == {"templates", "batches", "createBulk", "scheduleUpdate", "scheduleRemove",
              "removeUser", "deactivate"}
BankingOps == {"bankSave", "sync", "issue", "setKey", "sepay", "reprint", "cancelCode",
               "webhook"}
SalesOps == {"clock", "order", "move", "restock"}
OverviewOps == {"clock", "order", "overview"}
AccessOps == {"assign", "createBulk", "roleCreate", "roleUpdate", "roleRemove", "work", "time"}
HandlingOps == {"step", "setAssignee"}
StockOps == {"clock", "restock", "sellable", "alerts"}
CustomerOps == {"customerCreate", "customerUpdate", "customerRemove"}
CategoryOps == {"category", "categoryRemove", "product"}
VariantOps == {"resolve", "itemCreate", "itemUpdate", "itemRemove", "attributes"}
SupplierOps == {"supplierCreate", "supplierType", "supplierRemove", "import", "payDebt"}
ListOps == {"list", "badges", "touch"}
CodeOps == {"sendOtp", "register", "forgotten", "outage"}
HolidayOps == {"holidaySync", "holiday"}
TicketOps == {"ticket"}
MCScopes ==
  {[ops |-> ops, max |-> 3] : ops \in {AccountOps, PasswordOps, PlaceOps, RosterOps, AccessOps,
                                            SalesOps, StockOps}}
    \cup {[ops |-> ops, max |-> 4] : ops \in {CustomerOps, CategoryOps, VariantOps, HolidayOps, TicketOps}}
    \cup {[ops |-> ops, max |-> 2] : ops \in {OverviewOps, ListOps}}
    \cup {[ops |-> SupplierOps, max |-> 6], [ops |-> HandlingOps, max |-> 5],
         [ops |-> CodeOps, max |-> 6], [ops |-> BankingOps, max |-> 6]}

\* A night shift and a morning shift; the night runs into the next morning.
MCHours == {[start |-> 3, end |-> 2], [start |-> 1, end |-> 3]}

MCGroups == {{an}, {an, binh}}

\* One product brings more, the other sells more.
MCSaleKinds ==
  {[branch |-> b1, staff |-> an, method |-> "CASH", customer |-> binh,
    sku |-> i1, units |-> 1, goods |-> 3, total |-> 3, fees |-> 1],
   [branch |-> b2, staff |-> None, method |-> "SEPAY", customer |-> None,
    sku |-> i2, units |-> 2, goods |-> 2, total |-> 2, fees |-> 0]}
MCRows == {[sku |-> i1, at |-> b1], [sku |-> i2, at |-> b1], [sku |-> i2, at |-> b2]}

\* A clerk who plans, hires and handles orders, and a chief, whose right a shift gives too.
MCGrants == {{"users:create", "users:update", "schedules:create", "profile:read",
              "orders:pack", "orders:ship", "orders:update",
              "shipments:create", "shipments:update", "shipments:deliver"},
             {"stock_movement:approve"}}
MCStaffShifts == [who : MCGroups, tmpl : {night}, day : {1}, type : {"NORMAL"}]

\* Orders short of goods, due, and waiting for a customer who is late.
MCLines(x, y) == [g \in {i1, i2} |-> IF g = i1 THEN x ELSE y]
MCOnShelf == MCLines(1, 0)
MCOrderKind(fulfillment, state, priority, due, lines) ==
  [branch |-> IF priority = "HIGH" THEN b2 ELSE b1, fulfillment |-> fulfillment, status |-> state,
   priority |-> priority, due |-> due, lines |-> lines]
MCOrderKinds ==
  {MCOrderKind("STORE_PICKUP", "PACKED", "URGENT", 3, MCLines(2, 1)),
   MCOrderKind("DELIVERY", "CONFIRMED", "URGENT", None, MCLines(1, 0)),
   MCOrderKind("DELIVERY", "CONFIRMED", "HIGH", 3, MCLines(2, 0)),
   MCOrderKind("STORE_PICKUP", "CONFIRMED", "NORMAL", 6, MCLines(1, 1)),
   MCOrderKind("TAKEAWAY", "COMPLETED", "NORMAL", None, MCLines(0, 0))}
MCEdits == {k \in MCOrderKinds : k.due = 3}
MCQueries ==
  {[sort |-> sort, want |-> want, branch |-> None, excludePos |-> FALSE, page |-> p[1], limit |-> p[2]] :
     sort \in {"createdAt", "requestedDeliveryDate", "priority"},
     want \in {"ALL", "SHORT", "DUE_SOON", "PICKUP_OVERDUE"},
     p \in {<<1, 2>>, <<2, 1>>}}
    \cup {[sort |-> "priority", want |-> "ALL", branch |-> b1, excludePos |-> TRUE,
           page |-> p, limit |-> 1] : p \in {2, 3}}

\* The first month has one day, the second one two.
MCStarts == [day |-> {0, 1, 2, 3}, month |-> {0, 1, 3}]
MCAgingDays == [WARNING |-> 1, ATTENTION |-> 2, STALE |-> 3]
MCLevels == {[stock |-> 0, locked |-> 0], [stock |-> 2, locked |-> 2], [stock |-> 3, locked |-> 1]}

Symmetry == Permutations(Requests) \cup Permutations({k1, k2}) \cup Permutations(Numbers)

\* A behaviour that hires nobody starts with everyone hired, one that plans no
\* shifts with one template, and so on; Init comes last so that TLC need not
\* enumerate what these conditions exclude.
MCInit ==
  /\ RequestsInit /\ StaffInit /\ RosterInit
  /\ {"hire", "assign"} \cap scope.ops = {} => \A u \in Employees : status[u] = "ACTIVE"
  /\ scope.ops \notin {AccessOps, HandlingOps} => \A u \in Employees : post[u] = None
  /\ \A t \in Templates : hours[t].start = 3
  /\ AccessInit
  /\ CASE scope.ops = AccessOps ->
            /\ \A u \in Employees : role[u] = IF u = an THEN clerk ELSE None
            /\ "users:update" \in rights[clerk] /\ post[binh] # None
       [] scope.ops = HandlingOps ->
            /\ \A u \in Employees : role[u] = (IF u = an THEN None ELSE chief) /\ post[u] # None
            /\ "orders:ship" \in rights[chief] /\ rights[clerk] = None
       [] OTHER -> \A x \in Roles : rights[x] = None
  /\ HandlingInit
  /\ scope.ops # HandlingOps => deal.status = "CONFIRMED" /\ deal.assignee = None
  /\ BankingInit /\ DashboardInit /\ RegistersInit
  /\ scope.ops # SupplierOps => \A s \in Suppliers : supplier[s] = None
  /\ variant[b1] # None
  /\ scope.ops # VariantOps => OnProduct = {}
  /\ OrderListInit
  /\ scope.ops # ListOps => \A o \in Orders : book[o].fulfillment = "TAKEAWAY"
  /\ OutsideInit
  /\ Init

MCSpec == MCInit /\ [][Next]_vars
=============================================================================
