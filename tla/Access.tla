------------------------------- MODULE Access -------------------------------
(***************************************************************************)
(* What the employees of one shop may do, and where.                        *)
(*                                                                          *)
(* Only the owner defines roles (src/src/modules/roles); who may hire or    *)
(* edit staff gives them one, within their own rights (users.service.ts).   *)
(* jwt.strategy.ts reads a person's rights from the database at the start   *)
(* of every request: those every employee has, those of the role, and,      *)
(* while a shift they manage is running, some temporary ones where that     *)
(* shift works (shift-supervisor.service.ts). The handlers keep what was    *)
(* read then, and take no lock.                                             *)
(***************************************************************************)
EXTENDS Roster

CONSTANTS Roles,            \* rows of roles that may be created
          BaseRights,       \* STAFF_BASE_PERMISSIONS
          TemporaryRights,  \* TEMPORARY_PERMISSIONS
          Grants,           \* bound: the permissions the owner sends for a role
          StaffShifts,      \* bound: the shifts planned by staff, one at a time
          Moments           \* bound: the times somebody looks at the clock

ASSUME AccessAssumption ==
  /\ StaffShifts \subseteq Assignments /\ Moments \subseteq Nat
  /\ \A g \in Grants : g \ BaseRights # None

VARIABLES role,    \* users.role_id
          rights,  \* the permissions of each role, None for one that is not there
          moment,  \* the time of day
          given,   \* permissions the owner has put into an employee's hands
          deed     \* the last thing done by right of a place

accessVars == <<role, rights, moment, given, deed>>

\* The tenant owner, as the one who sends a request.
Owner == None
NoDeed == [by |-> Owner]

------------------------------------------------------------------------------
(* Rights: jwt.strategy.ts, shift-supervisor.service.ts, permission.ts *)

Standing(u) == IF role[u] = None THEN {} ELSE rights[role[u]]

RunningShifts(u) ==
  {k \in Shifts : /\ Live(k) /\ shift[k].managedBy = u
                  /\ shift[k].start <= moment /\ moment < shift[k].end}

\* A wrong variant reaches every place the people of the shift work at.
SupervisedAnywhere(u) ==
  IF status[u] # "ACTIVE" THEN {}
  ELSE {post[m] : m \in UNION {shift[k].who : k \in RunningShifts(u)}} \ {None}

\* resolve: the places both of the shift's people and of its manager.
Supervised(u) ==
  IF status[u] # "ACTIVE" THEN {}
  ELSE {post[m] : m \in UNION {shift[k].who : k \in RunningShifts(u)}} \cap ({post[u]} \ {None})

\* keysFor.
TemporaryOf(u) == IF Supervised(u) = {} THEN {} ELSE TemporaryRights

\* validate, for an employee.
RightsOf(u) == BaseRights \cup Standing(u) \cup TemporaryOf(u)

\* can, asked by PermissionsGuard of one who may sign in.
Can(u, right) == u # Owner => status[u] = "ACTIVE" /\ right \in RightsOf(u)

CanActAt(u, p) == u # Owner => p \in Supervised(u) \cup {post[u]}

------------------------------------------------------------------------------
(* Roles: roles.service.ts, behind OwnerOrAdminGuard *)

HeldBy(x) == {u \in Employees : role[u] = x}

\* grantable.
Grantable(g) == g \ BaseRights

\* The changes of staff to a role x that have been checked and not yet written.
Overtaken(x) == [r \in Requests |->
  IF req[r].op = "assign" /\ req[r].role = x THEN [req[r] EXCEPT !.overtaken = TRUE]
  ELSE req[r]]

\* An id is never used twice.
RoleCreate(x, g) ==
  /\ rights[x] = None
  /\ \A r \in Requests : req[r].op = "assign" => req[r].role # x
  /\ rights' = [rights EXCEPT ![x] = Grantable(g)]
  /\ Once("roleCreate")
  /\ UNCHANGED <<staffVars, rosterVars, role, moment, given, deed>>

\* update replaces the permissions in one transaction.
RoleUpdate(x, g) ==
  /\ May("roleUpdate")
  /\ rights[x] # None
  /\ rights' = [rights EXCEPT ![x] = Grantable(g)]
  /\ given' = IF HeldBy(x) = {} THEN given ELSE given \cup Grantable(g)
  /\ req' = Overtaken(x)
  /\ begun' = begun + 1 /\ UNCHANGED scope
  /\ UNCHANGED <<staffVars, rosterVars, role, moment, deed>>

\* remove: no employee but removed ones may hold the role.
RoleRemoveRead(r, x) ==
  /\ rights[x] # None
  /\ \A u \in HeldBy(x) : status[u] = "DELETED"
  /\ Begin(r, "roleRemove", [op |-> "roleRemove", at |-> "write", role |-> x])
  /\ UNCHANGED <<staffVars, rosterVars, accessVars>>

\* Whoever got it meanwhile loses it (ON DELETE SET NULL).
RoleRemoveWrite(r) ==
  /\ At(r, {"roleRemove"}, "write")
  /\ LET x == req[r].role
     IN /\ rights' = [rights EXCEPT ![x] = None]
        /\ role' = [u \in Employees |-> IF role[u] = x THEN None ELSE role[u]]
  /\ req' = Done(r) /\ Frame
  /\ UNCHANGED <<staffVars, rosterVars, moment, given, deed>>

------------------------------------------------------------------------------
(* Giving a role: users.service.ts *)

\* A wrong variant counts the temporary rights in.
AllGrantsOf(by) == RightsOf(by)

\* ownGrantsOf.
OwnGrantsOf(by) == RightsOf(by) \ TemporaryRights

\* assertRoleIsWithinGrant.
WithinGrant(by, x) == by # Owner => rights[x] \subseteq OwnGrantsOf(by)

\* create hires somebody into a role, update gives an employee another one.
AssignRead(r, by, u, x) ==
  /\ Can(by, IF status[u] = "NONE" THEN "users:create" ELSE "users:update")
  /\ status[u] = "NONE" \/ Hired(u)
  /\ by # u
  /\ rights[x] # None /\ WithinGrant(by, x)
  /\ Begin(r, "assign", [op |-> "assign", at |-> "write", by |-> by, user |-> u,
                         hire |-> status[u] = "NONE", role |-> x, overtaken |-> FALSE])
  /\ UNCHANGED <<staffVars, rosterVars, accessVars>>

\* A role that was deleted meanwhile is refused by the foreign key. What an
\* overtaken request gives is put down to the owner, who changed the role.
AssignWrite(r) ==
  /\ At(r, {"assign"}, "write")
  /\ LET u == req[r].user
         x == req[r].role
         fails == rights[x] = None \/ (req[r].hire /\ status[u] # "NONE")
     IN IF fails THEN UNCHANGED <<role, given, status>>
        ELSE /\ role' = [role EXCEPT ![u] = x]
             /\ given' = IF req[r].by = Owner \/ req[r].overtaken
                         THEN given \cup rights[x] ELSE given
             /\ status' = IF req[r].hire THEN [status EXCEPT ![u] = "INACTIVE"] ELSE status
  /\ req' = Done(r) /\ Frame
  /\ UNCHANGED <<login, post, place, session, redis, era, doubtful, rosterVars,
                 rights, moment, deed>>

------------------------------------------------------------------------------
(* Using rights *)

\* createBulk and update of schedules, by staff; the rest of both is in Roster.
StaffPlans(r, by) ==
  /\ \/ /\ MayBegin(r, "createBulk") /\ Can(by, "schedules:create")
        /\ \E x \in StaffShifts : BulkRead(r, by, <<x>>)
     \/ /\ MayBegin(r, "scheduleUpdate") /\ Can(by, "schedules:update")
        /\ \E k \in Shifts, x \in StaffShifts : ScheduleUpdateRead(r, by, k, x)
  /\ UNCHANGED accessVars

\* A handler behind PermissionsGuard that asks canActAt, such as those of stock
\* movements: the guard when the request comes in, the rest later.
WorkRead(r, by, right, p) ==
  /\ Can(by, right) /\ CanActAt(by, p)
  /\ Begin(r, "work", [op |-> "work", at |-> "write", by |-> by, place |-> p,
                       post |-> post[by], own |-> right \in BaseRights \cup Standing(by),
                       onShift |-> RunningShifts(by) # {}])
  /\ UNCHANGED <<staffVars, rosterVars, accessVars>>

WorkWrite(r) ==
  /\ At(r, {"work"}, "write")
  /\ deed' = [by |-> req[r].by, place |-> req[r].place, post |-> req[r].post,
              own |-> req[r].own, onShift |-> req[r].onShift]
  /\ req' = Done(r) /\ Frame
  /\ UNCHANGED <<staffVars, rosterVars, role, rights, moment, given>>

TimeGoesBy ==
  /\ "time" \in scope.ops
  /\ moment' \in {t \in Moments : t > moment}
  /\ UNCHANGED <<staffVars, rosterVars, role, rights, given, deed, requestVars>>

------------------------------------------------------------------------------
AccessInit ==
  /\ rights \in [Roles -> {Grantable(g) : g \in Grants} \cup {None}]
  /\ role \in [Employees -> {x \in Roles : rights[x] # None} \cup {None}]
  /\ \A u \in Employees : status[u] = "NONE" => role[u] = None
  /\ moment = 0
  /\ given = UNION {Standing(u) : u \in Employees}
  /\ deed = NoDeed

AccessNext ==
  \/ TimeGoesBy
  \/ May("roleCreate") /\ \E x \in Roles, g \in Grants : RoleCreate(x, g)
  \/ May("roleUpdate") /\ \E x \in Roles, g \in Grants : RoleUpdate(x, g)
  \/ \E r \in Requests :
       \/ AssignWrite(r) \/ RoleRemoveWrite(r) \/ WorkWrite(r)
       \/ MayBegin(r, "roleRemove") /\ \E x \in Roles : RoleRemoveRead(r, x)
       \/ \E by \in Employees : StaffPlans(r, by)
       \/ MayBegin(r, "assign") /\ \E by \in Employees \cup {Owner}, u \in Employees, x \in Roles :
                                     AssignRead(r, by, u, x)
       \/ MayBegin(r, "work") /\ \E by \in Employees, p \in Places, right \in TemporaryRights :
                                   WorkRead(r, by, right, p)

------------------------------------------------------------------------------
\* No chain of employees who give each other roles, with a shift to manage in
\* between, makes any of them hold what the owner never gave to one of them;
\* and the rights of a shift are good at one's own place only
\* (users.service.ts:513 and :552, shift-supervisor.service.ts:89).
RightsComeFromOwner ==
  /\ \A u \in Employees : Standing(u) \subseteq given
  /\ deed.by # Owner => deed.post = deed.place /\ (deed.own \/ deed.onShift)
=============================================================================
