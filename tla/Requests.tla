------------------------------ MODULE Requests ------------------------------
(***************************************************************************)
(* The HTTP requests and cron jobs under way in the back office.            *)
(*                                                                          *)
(* Most handlers of Staff, Roster, Banking and Dashboard hold no lock: they *)
(* read, check, and write rows by id. Each of them is a chain of steps of a *)
(* request, and the steps of several requests interleave. A request keeps   *)
(* what the handler holds in its local variables between two statements.    *)
(***************************************************************************)
EXTENDS Naturals

CONSTANTS Requests,  \* concurrent requests
          Scopes,    \* the endpoints one behaviour uses, and how many requests
          None       \* SQL null

VARIABLES req,    \* the requests under way
          begun,  \* requests begun so far
          scope   \* ops: the endpoints in use; max: bound on begun

requestVars == <<req, begun, scope>>

Idle == [op |-> "idle"]

RequestsInit ==
  /\ req = [r \in Requests |-> Idle]
  /\ begun = 0
  /\ scope \in Scopes

\* Bound: how many requests there are at once, and in all.
May(op) == begun < scope.max /\ op \in scope.ops
MayBegin(r, op) == req[r] = Idle /\ May(op)

\* A new request; its first reads succeeded and "at" is the step it goes on with.
Begin(r, op, body) ==
  /\ MayBegin(r, op)
  /\ begun' = begun + 1
  /\ req' = [req EXCEPT ![r] = body]
  /\ UNCHANGED scope

\* A request that is over in one statement, or something from outside.
Once(op) ==
  /\ May(op)
  /\ begun' = begun + 1
  /\ UNCHANGED <<req, scope>>

At(r, ops, stage) == req[r].op \in ops /\ req[r].at = stage
GoTo(r, stage) == [req EXCEPT ![r].at = stage]
Done(r) == [req EXCEPT ![r] = Idle]
Frame == UNCHANGED <<begun, scope>>
=============================================================================
