------------------------------- MODULE Staff -------------------------------
(***************************************************************************)
(* The employees of one shop, the places they work at and the sessions      *)
(* they hold.                                                               *)
(*                                                                          *)
(* src/src/modules/users/users.service.ts hires, posts, signs up, locks and *)
(* removes an employee; locations/location.service.ts deletes a place and   *)
(* appoints its manager; auth/auth.service.ts and refresh-token.service.ts  *)
(* sign in, renew and end sessions. None of them takes a lock: each reads,  *)
(* checks and then writes rows by their id, so a request is several steps.  *)
(*                                                                          *)
(* The rows of users and locations are in PostgreSQL, the sessions in       *)
(* Redis, which may be down: then nothing is stored and nothing deleted.    *)
(* Who may call an endpoint (roles, permissions) is left out.               *)
(***************************************************************************)
EXTENDS Requests, FiniteSets

CONSTANTS Employees,  \* the people that may be hired
          Places,     \* branches and warehouses
          Sessions    \* refresh tokens that may be issued (jti)

VARIABLES status,   \* users.status; NONE before they are hired
          login,    \* whether the employee has a password
          post,     \* users.location_id
          place,    \* the rows of locations
          session,  \* the keys refresh:<user>:<jti> in Redis
          redis,    \* whether Redis answers
          era,      \* how often an employee's sessions were to be ended
          doubtful  \* places whose appointment raced the manager's exit

staffVars == <<status, login, post, place, session, redis, era, doubtful>>

NoSession == [user |-> None, era |-> 0, missed |-> FALSE]
StaffInit ==
  /\ status \in [Employees -> {"NONE", "ACTIVE"}]
  /\ login = [u \in Employees |-> status[u] = "ACTIVE"]
  /\ post \in [Employees -> Places \cup {None}]
  /\ place = [p \in Places |-> [status |-> "ACTIVE", manager |-> None]]
  /\ session = [s \in Sessions |-> NoSession]
  /\ redis = TRUE
  /\ era = [u \in Employees |-> 0]
  /\ doubtful = {}

------------------------------------------------------------------------------
(* Employees: users.service.ts *)

\* requireStaff.
Hired(u) == status[u] \notin {"NONE", "DELETED"}

\* create: INACTIVE, without a password. The place need only exist.
Hire(u, p) ==
  /\ "hire" \in scope.ops /\ status[u] = "NONE"
  /\ status' = [status EXCEPT ![u] = "INACTIVE"]
  /\ post' = [post EXCEPT ![u] = p]
  /\ UNCHANGED <<login, place, session, redis, era, doubtful, req, begun, scope>>

\* update moves an employee; it looks neither at the place's status nor at
\* whom it is managed by.
UpdateRead(r, u, p) ==
  /\ Hired(u)
  /\ Begin(r, "update", [op |-> "update", at |-> "write", user |-> u, to |-> p])
  /\ UNCHANGED staffVars

UpdateWrite(r) ==
  /\ At(r, {"update"}, "write")
  /\ post' = [post EXCEPT ![req[r].user] = req[r].to]
  /\ req' = Done(r) /\ Frame
  /\ UNCHANGED <<status, login, place, session, redis, era, doubtful>>

CreateAccountRead(r, u) ==
  /\ Hired(u) /\ ~(status[u] = "ACTIVE" /\ login[u])
  /\ Begin(r, "createAccount", [op |-> "createAccount", at |-> "write", user |-> u])
  /\ UNCHANGED staffVars

CreateAccountWrite(r) ==
  /\ At(r, {"createAccount"}, "write")
  /\ status' = [status EXCEPT ![req[r].user] = "ACTIVE"]
  /\ login' = [login EXCEPT ![req[r].user] = TRUE]
  /\ req' = Done(r) /\ Frame
  /\ UNCHANGED <<post, place, session, redis, era, doubtful>>

\* The handlers that end every session of an employee.
Passwords == {"accountPassword", "changePassword", "resetPassword"}
Exits == {"deactivate", "remove"}
Revoking == Passwords \cup Exits

\* The first reads of each of them, done.
Change(r, op, u, at) ==
  /\ Begin(r, op, [op |-> op, user |-> u, at |-> at])
  /\ UNCHANGED staffVars

RemoveRead(r, u) == Hired(u) /\ Change(r, "remove", u, "manager")
DeactivateRead(r, u) == status[u] = "ACTIVE" /\ Change(r, "deactivate", u, "manager")

\* updateAccountPassword by a superior, changePassword by oneself.
AccountPasswordRead(r, u) ==
  /\ status[u] = "ACTIVE" /\ login[u]
  /\ Change(r, "accountPassword", u, "write")
ChangePasswordRead(r, u) ==
  /\ status[u] = "ACTIVE" /\ login[u]
  /\ Change(r, "changePassword", u, "write")

\* resetPassword with the token a one-time code was exchanged for.
ResetPasswordRead(r, u) == status[u] = "ACTIVE" /\ Change(r, "resetPassword", u, "write")

\* A wrong variant lets a manager go.
MayLeaveAny(u) == TRUE

\* assertNotAppointedManager.
MayLeave(u) == \A p \in Places : place[p].manager # u

NotManager(r) ==
  /\ At(r, Exits, "manager")
  /\ req' = IF MayLeave(req[r].user) THEN GoTo(r, "write") ELSE Done(r)
  /\ Frame /\ UNCHANGED staffVars

\* The appointments that have found u eligible and are not yet written.
AppointmentsOf(u) == {x \in Requests : At(x, {"appoint"}, "write") /\ req[x].user = u}

\* A wrong variant leaves the sessions open after a password is reset.
EndsMost(r) == IF req[r].op = "resetPassword" THEN Done(r) ELSE GoTo(r, "scan")
ThenEndSessions(r) == GoTo(r, "scan")

ChangeWrite(r) ==
  /\ At(r, Revoking, "write")
  /\ LET u == req[r].user
         op == req[r].op
     IN /\ status' = CASE op = "deactivate" -> [status EXCEPT ![u] = "INACTIVE"]
                       [] op = "remove" -> [status EXCEPT ![u] = "DELETED"]
                       [] OTHER -> status
        /\ login' = [login EXCEPT ![u] = op \in Passwords]
        /\ era' = [era EXCEPT ![u] = @ + 1]
        /\ doubtful' = IF op \in Exits
                       THEN doubtful \cup {req[x].place : x \in AppointmentsOf(u)}
                       ELSE doubtful
  /\ req' = ThenEndSessions(r) /\ Frame
  /\ UNCHANGED <<post, place, session, redis>>

------------------------------------------------------------------------------
(* Sessions: auth.service.ts and refresh-token.service.ts *)

SessionsOf(u) == {s \in Sessions : session[s].user = u}

\* Sign-ins and renewals of u that have not stored their session yet.
Opening(u) == {x \in Requests : /\ At(x, {"login", "rotate"}, "issue")
                                     \/ At(x, {"rotate"}, "drop")
                                /\ req[x].user = u}
Overlapped(u) == [x \in Requests |-> IF x \in Opening(u) THEN [req[x] EXCEPT !.missed = TRUE]
                                     ELSE req[x]]

\* revokeAllFor: the keys are listed, then deleted. With Redis down it ends
\* nothing, silently.
RevokeScan(r) ==
  /\ At(r, Revoking \cup {"rotate"}, "scan")
  /\ LET u == req[r].user
         found == IF redis THEN SessionsOf(u) ELSE {}
     IN /\ req' = [Overlapped(u) EXCEPT
                     ![r] = [op |-> req[r].op, at |-> "delete", user |-> u,
                             found |-> found]]
        /\ session' = [s \in Sessions |->
             IF ~redis /\ s \in SessionsOf(u) THEN [session[s] EXCEPT !.missed = TRUE]
             ELSE session[s]]
  /\ Frame
  /\ UNCHANGED <<status, login, post, place, redis, era, doubtful>>

RevokeDelete(r) ==
  /\ At(r, Revoking \cup {"rotate"}, "delete")
  /\ session' = [s \in Sessions |->
       IF s \notin req[r].found \/ session[s] = NoSession THEN session[s]
       ELSE IF redis THEN NoSession ELSE [session[s] EXCEPT !.missed = TRUE]]
  /\ req' = [Overlapped(req[r].user) EXCEPT ![r] = Idle]
  /\ Frame
  /\ UNCHANGED <<status, login, post, place, redis, era, doubtful>>

\* A sign-in reads the account, and stores the session later.
SignIn(r, u) ==
  /\ Begin(r, "login", [op |-> "login", at |-> "issue", user |-> u,
                        era |-> era[u], missed |-> FALSE])
  /\ UNCHANGED staffVars

LoginRead(r, u) == status[u] = "ACTIVE" /\ login[u] /\ SignIn(r, u)
FirebaseLoginRead(r, u) == status[u] = "ACTIVE" /\ SignIn(r, u)

\* rotate: the key is read, deleted, and a new one stored in its place.
RotateRead(r, s) ==
  /\ redis /\ session[s] # NoSession
  /\ Begin(r, "rotate", [op |-> "rotate", at |-> "drop", user |-> session[s].user,
                         era |-> session[s].era, missed |-> session[s].missed,
                         old |-> s])
  /\ UNCHANGED staffVars

RotateDrop(r) ==
  /\ At(r, {"rotate"}, "drop")
  /\ session' = IF redis THEN [session EXCEPT ![req[r].old] = NoSession] ELSE session
  /\ req' = GoTo(r, "issue") /\ Frame
  /\ UNCHANGED <<status, login, post, place, redis, era, doubtful>>

\* A revocation of u that has listed its keys and not deleted them yet.
BeingRevoked(u) == \E x \in Requests : At(x, Revoking \cup {"rotate"}, "delete")
                                       /\ req[x].user = u

\* issue.
Issue(r, s) ==
  /\ At(r, {"login", "rotate"}, "issue")
  /\ session[s] = NoSession
  /\ LET u == req[r].user
     IN session' = IF redis
          THEN [session EXCEPT ![s] = [user |-> u, era |-> req[r].era,
                                       missed |-> req[r].missed \/ BeingRevoked(u)]]
          ELSE session
  /\ req' = IF req[r].op = "login" THEN Done(r) ELSE GoTo(r, "recheck")
  /\ Frame
  /\ UNCHANGED <<status, login, post, place, redis, era, doubtful>>

\* refresh reads the account after the rotation, and gives up all sessions of
\* one that is not active.
RefreshRecheck(r) ==
  /\ At(r, {"rotate"}, "recheck")
  /\ req' = IF status[req[r].user] = "ACTIVE" THEN Done(r) ELSE GoTo(r, "scan")
  /\ Frame /\ UNCHANGED staffVars

Logout(s) ==
  /\ "logout" \in scope.ops /\ redis /\ session[s] # NoSession
  /\ session' = [session EXCEPT ![s] = NoSession]
  /\ UNCHANGED <<status, login, post, place, redis, era, doubtful, req, begun, scope>>

\* Redis goes away and comes back.
Outage ==
  /\ "outage" \in scope.ops
  /\ redis' = ~redis
  /\ UNCHANGED <<status, login, post, place, session, era, doubtful, req, begun, scope>>

------------------------------------------------------------------------------
(* Places: location.service.ts *)

\* update may give a deleted place its status back.
PlaceUpdate(p) ==
  /\ "placeUpdate" \in scope.ops
  /\ place' = [place EXCEPT ![p].status = "ACTIVE"]
  /\ UNCHANGED <<status, login, post, session, redis, era, doubtful, req, begun, scope>>

PlaceRemoveRead(r, p) ==
  /\ place[p].status # "DELETED"
  /\ Begin(r, "placeRemove", [op |-> "placeRemove", at |-> "count", place |-> p])
  /\ UNCHANGED staffVars

\* Nobody but removed employees may be posted there.
PlaceRemoveCount(r) ==
  /\ At(r, {"placeRemove"}, "count")
  /\ req' = IF \E u \in Employees : Hired(u) /\ post[u] = req[r].place
            THEN Done(r) ELSE GoTo(r, "write")
  /\ Frame /\ UNCHANGED staffVars

PlaceRemoveWrite(r) ==
  /\ At(r, {"placeRemove"}, "write")
  /\ place' = [place EXCEPT ![req[r].place] = [status |-> "DELETED", manager |-> None]]
  /\ req' = Done(r) /\ Frame
  /\ UNCHANGED <<status, login, post, session, redis, era, doubtful>>

AppointRead(r, p, u) ==
  /\ place[p].status # "DELETED"
  /\ Begin(r, "appoint", [op |-> "appoint", at |-> "staff", place |-> p, user |-> u])
  /\ UNCHANGED staffVars

AppointStaff(r) ==
  /\ At(r, {"appoint"}, "staff")
  /\ LET u == req[r].user
     IN req' = IF status[u] = "ACTIVE" /\ post[u] \in {None, req[r].place}
               THEN GoTo(r, "write") ELSE Done(r)
  /\ Frame /\ UNCHANGED staffVars

\* What the appointment has read may be over: the employee is leaving, or the
\* place was deleted.
AppointmentIsLate(u, p) ==
  \/ status[u] # "ACTIVE" \/ place[p].status = "DELETED"
  \/ \E x \in Requests : At(x, Exits, "write") /\ req[x].user = u

AppointWrite(r) ==
  /\ At(r, {"appoint"}, "write")
  /\ LET u == req[r].user
         p == req[r].place
     IN /\ post' = [post EXCEPT ![u] = p]
        /\ place' = [place EXCEPT ![p].manager = u]
        /\ doubtful' = IF AppointmentIsLate(u, p) THEN doubtful \cup {p}
                       ELSE doubtful \ {p}
  /\ req' = Done(r) /\ Frame
  /\ UNCHANGED <<status, login, session, redis, era>>

------------------------------------------------------------------------------
Step(r) ==
  \/ UpdateWrite(r) \/ CreateAccountWrite(r)
  \/ NotManager(r) \/ ChangeWrite(r) \/ RevokeScan(r) \/ RevokeDelete(r)
  \/ RotateDrop(r) \/ RefreshRecheck(r)
  \/ PlaceRemoveCount(r) \/ PlaceRemoveWrite(r)
  \/ AppointStaff(r) \/ AppointWrite(r)
  \/ \E s \in Sessions : Issue(r, s)

Call(r) ==
  \/ \E s \in Sessions : RotateRead(r, s)
  \/ \E p \in Places : PlaceRemoveRead(r, p)
  \/ \E u \in Employees :
       \/ CreateAccountRead(r, u) \/ LoginRead(r, u) \/ FirebaseLoginRead(r, u)
       \/ RemoveRead(r, u) \/ DeactivateRead(r, u)
       \/ AccountPasswordRead(r, u) \/ ChangePasswordRead(r, u) \/ ResetPasswordRead(r, u)
       \/ \E p \in Places : AppointRead(r, p, u)
       \/ \E p \in Places \cup {None} : UpdateRead(r, u, p)

StaffNext ==
  \/ \E r \in Requests : Step(r) \/ Call(r)
  \/ \E u \in Employees, p \in Places : Hire(u, p)
  \/ \E s \in Sessions : Logout(s)
  \/ \E p \in Places : PlaceUpdate(p)
  \/ Outage

------------------------------------------------------------------------------
\* Every password change, lock-out and removal ends the sessions opened before
\* it, for good: one that is still there was being opened or renewed while
\* they were ended, or Redis was down (refresh-token.service.ts:107,
\* auth.service.ts:228 and :405, users.service.ts:399 and :497).
OldSessionsEnd ==
  \A s \in Sessions :
    LET u == session[s].user
    IN session[s] # NoSession /\ session[s].era < era[u] =>
         \/ session[s].missed
         \/ \E r \in Requests : req[r].op \in Revoking /\ req[r].user = u
                                /\ req[r].at \in {"scan", "delete"}

\* A place never points to a manager who was locked out or removed, and a
\* deleted place to nobody, unless the appointment itself overlapped that
\* (users.service.ts:608, location.service.ts:209 and :233).
ManagerStands ==
  \A p \in Places : place[p].manager # None /\ p \notin doubtful =>
    /\ status[place[p].manager] = "ACTIVE"
    /\ place[p].status = "ACTIVE"
=============================================================================
