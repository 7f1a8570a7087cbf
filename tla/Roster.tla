------------------------------- MODULE Roster -------------------------------
(***************************************************************************)
(* The shifts of one shop, on top of its staff.                             *)
(*                                                                          *)
(* src/src/modules/shift-templates keeps the hours of the shifts, and       *)
(* working-schedules/working-schedules.service.ts puts employees on them    *)
(* day by day; whoever plans a shift last manages it, which gives them more *)
(* rights while it runs (Access). createBulk checks and saves its assignments one after the    *)
(* other, outside a transaction; update, remove and removeUser check one    *)
(* read and write by id. The partial unique index working_schedules_one_    *)
(* per_slot allows one live shift of a template, day, type and time.        *)
(*                                                                          *)
(* Times count from the first midnight, DayLength to a day. CANCELLED and   *)
(* COMPLETED are read by this code and written by none of it.               *)
(***************************************************************************)
EXTENDS Staff, Sequences

CONSTANTS Templates,  \* shift templates
          Hours,      \* bound: the start and end times a template may have
          DayLength,  \* the length of a day
          Days,       \* bound: the days that are planned
          Types,      \* NORMAL, OVERTIME
          Groups,     \* bound: the people sent for a shift
          Shifts      \* rows of working_schedules that may be created

ASSUME RosterAssumption ==
  /\ Groups \subseteq (SUBSET Employees) \ {{}}
  /\ None \notin Shifts
  /\ DayLength \in Nat \ {0} /\ Days \subseteq Nat
  /\ Hours \subseteq [start : 0 .. DayLength - 1, end : 0 .. DayLength - 1]

VARIABLES hours,    \* startTime and endTime of each template
          offered,  \* the templates that are ACTIVE
          shift     \* the rows of working_schedules and working_schedule_users

rosterVars == <<hours, offered, shift>>

\* "unsure" is a shift whose people or hours were written on a check that was
\* no longer true of the table.
NoShift == [status |-> "NONE"]

RosterInit ==
  /\ hours \in [Templates -> Hours]
  /\ offered = Templates
  /\ shift = [k \in Shifts |-> NoShift]

Live(k) == shift[k].status = "SCHEDULED"

\* shiftInterval: a shift that ends before it starts ends on the next day.
EndAt(day, h) ==
  day * DayLength + h.end + (IF h.end < h.start THEN DayLength ELSE 0)

Slot(t, day, h) == [tmpl |-> t, day |-> day,
                    start |-> day * DayLength + h.start, end |-> EndAt(day, h)]

SlotOf(k) == [tmpl |-> shift[k].tmpl, day |-> shift[k].day,
              start |-> shift[k].start, end |-> shift[k].end]

Meet(a, b) == a.start < b.end /\ b.start < a.end

\* What is asked for: some people on a template's shift of a day.
Assignments == [who : Groups, tmpl : Templates, day : Days, type : Types]

Valid(a) == a.tmpl \in offered /\ \A u \in a.who : status[u] = "ACTIVE"

\* resolveAssignments.
Resolved(a) == [who |-> a.who, type |-> a.type, slot |-> Slot(a.tmpl, a.day, hours[a.tmpl])]

\* mergeBySlot: what falls into one slot is saved together.
Merged(as) ==
  IF Len(as) = 2 /\ as[1].slot = as[2].slot /\ as[1].type = as[2].type
  THEN <<[as[1] EXCEPT !.who = @ \cup as[2].who]>>
  ELSE as

------------------------------------------------------------------------------
(* Templates: shift-templates.service.ts *)

TemplateUpdate(t, h) ==
  /\ t \in offered
  /\ hours' = [hours EXCEPT ![t] = h]
  /\ Once("templates")
  /\ UNCHANGED <<staffVars, offered, shift>>

TemplateRemove(t) ==
  /\ t \in offered
  /\ offered' = offered \ {t}
  /\ Once("templates")
  /\ UNCHANGED <<staffVars, hours, shift>>

------------------------------------------------------------------------------
(* Schedules: working-schedules.service.ts *)

\* A wrong variant looks at the shifts of the same day only.
ClashThatDay(a, except) ==
  \E k \in Shifts :
    /\ k # except /\ Live(k) /\ shift[k].day = a.slot.day
    /\ shift[k].who \cap a.who # {}
    /\ Meet(SlotOf(k), a.slot)
    /\ SlotOf(k) # a.slot

\* assertNoOverlap: a live shift of one of these people at that time, other
\* than the slot itself and the shift being edited.
Clash(a, except) ==
  \E k \in Shifts :
    /\ k # except /\ Live(k)
    /\ shift[k].who \cap a.who # {}
    /\ Meet(SlotOf(k), a.slot)
    /\ SlotOf(k) # a.slot

BulkRead(r, by, batch) ==
  /\ \A i \in DOMAIN batch : Valid(batch[i])
  /\ Begin(r, "createBulk",
           [op |-> "createBulk", at |-> "check", by |-> by, stale |-> FALSE,
            todo |-> Merged([i \in DOMAIN batch |-> Resolved(batch[i])])])
  /\ UNCHANGED <<staffVars, rosterVars>>

BulkCheck(r) ==
  /\ At(r, {"createBulk"}, "check")
  /\ req' = IF Clash(Head(req[r].todo), None) THEN Done(r)
            ELSE [req EXCEPT ![r].at = "find", ![r].stale = FALSE]
  /\ Frame /\ UNCHANGED <<staffVars, rosterVars>>

\* The live shift of a slot and type; the index allows one.
SameSlot(a) == {k \in Shifts : Live(k) /\ SlotOf(k) = a.slot /\ shift[k].type = a.type}

BulkFind(r) ==
  /\ At(r, {"createBulk"}, "find")
  /\ LET found == SameSlot(Head(req[r].todo))
     IN req' = [req EXCEPT ![r] = [op |-> "createBulk", at |-> "save",
                  by |-> @.by, stale |-> @.stale, todo |-> @.todo,
                  into |-> IF found = {} THEN None ELSE CHOOSE k \in found : TRUE]]
  /\ Frame /\ UNCHANGED <<staffVars, rosterVars>>

\* The requests whose check no longer covers the table.
Outdated(x) == req[x].op \in {"createBulk", "scheduleUpdate"} /\ req[x].at # "check"
OthersStale(r) == [x \in Requests |-> IF x # r /\ Outdated(x)
                                      THEN [req[x] EXCEPT !.stale = TRUE] ELSE req[x]]

\* The rest of the batch, or the end of the request.
Remaining(r) ==
  IF Len(req[r].todo) = 1 THEN Idle
  ELSE [op |-> "createBulk", at |-> "check", by |-> req[r].by, stale |-> FALSE,
        todo |-> Tail(req[r].todo)]

\* upsertSlot creates the shift, unless the index refuses it, or adds the
\* people to the one it has found, whatever became of it.
BulkCreate(r, k) ==
  /\ At(r, {"createBulk"}, "save") /\ req[r].into = None
  /\ LET a == Head(req[r].todo)
     IN IF SameSlot(a) # {}
        THEN /\ req' = Done(r)
             /\ UNCHANGED shift
        ELSE /\ shift[k] = NoShift
             /\ shift' = [shift EXCEPT ![k] =
                  [status |-> "SCHEDULED", tmpl |-> a.slot.tmpl, day |-> a.slot.day,
                   start |-> a.slot.start, end |-> a.slot.end, type |-> a.type,
                   who |-> a.who, managedBy |-> req[r].by, unsure |-> req[r].stale]]
             /\ req' = [OthersStale(r) EXCEPT ![r] = Remaining(r)]
  /\ Frame /\ UNCHANGED <<staffVars, hours, offered>>

BulkAdd(r) ==
  /\ At(r, {"createBulk"}, "save") /\ req[r].into # None
  /\ LET k == req[r].into
     IN shift' = [shift EXCEPT ![k].who = @ \cup Head(req[r].todo).who,
                               ![k].managedBy = req[r].by,
                               ![k].unsure = @ \/ req[r].stale]
  /\ req' = [OthersStale(r) EXCEPT ![r] = Remaining(r)]
  /\ Frame /\ UNCHANGED <<staffVars, hours, offered>>

\* update: read, check, and one transaction that replaces the people.
ScheduleUpdateRead(r, by, k, a) ==
  /\ Live(k) /\ Valid(a)
  /\ Begin(r, "scheduleUpdate",
           [op |-> "scheduleUpdate", at |-> "check", by |-> by, stale |-> FALSE, row |-> k,
            to |-> Resolved(a)])
  /\ UNCHANGED <<staffVars, rosterVars>>

ScheduleUpdateCheck(r) ==
  /\ At(r, {"scheduleUpdate"}, "check")
  /\ req' = IF Clash(req[r].to, req[r].row) THEN Done(r) ELSE GoTo(r, "write")
  /\ Frame /\ UNCHANGED <<staffVars, rosterVars>>

ScheduleUpdateWrite(r) ==
  /\ At(r, {"scheduleUpdate"}, "write")
  /\ LET k == req[r].row
         a == req[r].to
     IN IF Live(k) /\ SameSlot(a) \ {k} # {}
        THEN /\ req' = Done(r)
             /\ UNCHANGED shift
        ELSE /\ shift' = [shift EXCEPT ![k] =
                  [status |-> shift[k].status, tmpl |-> a.slot.tmpl, day |-> a.slot.day,
                   start |-> a.slot.start, end |-> a.slot.end, type |-> a.type,
                   who |-> a.who, managedBy |-> req[r].by, unsure |-> req[r].stale]]
             /\ req' = [OthersStale(r) EXCEPT ![r] = Idle]
  /\ Frame /\ UNCHANGED <<staffVars, hours, offered>>

ScheduleRemoveRead(r, k) ==
  /\ Live(k)
  /\ Begin(r, "scheduleRemove", [op |-> "scheduleRemove", at |-> "write", row |-> k])
  /\ UNCHANGED <<staffVars, rosterVars>>

\* removeUser deletes the shift when it reads that nobody else is on it.
RemoveUserRead(r, k, u) ==
  /\ Live(k) /\ u \in shift[k].who
  /\ Begin(r, "removeUser",
           IF shift[k].who = {u} THEN [op |-> "scheduleRemove", at |-> "write", row |-> k]
           ELSE [op |-> "removeUser", at |-> "write", row |-> k, user |-> u])
  /\ UNCHANGED <<staffVars, rosterVars>>

RemoveWrite(r) ==
  /\ At(r, {"scheduleRemove", "removeUser"}, "write")
  /\ LET k == req[r].row
     IN shift' = IF req[r].op = "scheduleRemove"
                 THEN [shift EXCEPT ![k].status = "DELETED"]
                 ELSE [shift EXCEPT ![k].who = @ \ {req[r].user}]
  /\ req' = Done(r) /\ Frame
  /\ UNCHANGED <<staffVars, hours, offered>>

------------------------------------------------------------------------------
\* Bound: a batch of two puts one person on NORMAL shifts of one or two days;
\* where rights are in question the owner plans nothing.
Batches == {<<x>> : x \in Assignments}
           \cup {<<x, [x EXCEPT !.day = d]>> :
                   x \in {y \in Assignments : Cardinality(y.who) = 1 /\ y.type = "NORMAL"},
                   d \in Days}

\* What the shop owner, None, or the server does; Access adds what staff plan.
RosterNext ==
  \/ May("templates") /\ \E t \in Templates : \/ TemplateRemove(t)
                                              \/ \E h \in Hours : TemplateUpdate(t, h)
  \/ \E r \in Requests :
       \/ MayBegin(r, "createBulk") /\ May("batches") /\ \E batch \in Batches : BulkRead(r, None, batch)
       \/ BulkCheck(r) \/ BulkFind(r) \/ BulkAdd(r)
       \/ \E k \in Shifts : \/ BulkCreate(r, k)
                            \/ ScheduleRemoveRead(r, k)
                            \/ \E u \in Employees : RemoveUserRead(r, k, u)
                            \/ /\ MayBegin(r, "scheduleUpdate")
                               /\ \E a \in Assignments : ScheduleUpdateRead(r, None, k, a)
       \/ ScheduleUpdateCheck(r) \/ ScheduleUpdateWrite(r) \/ RemoveWrite(r)

------------------------------------------------------------------------------
\* Nobody is on two live shifts at one time, over midnight too, unless two
\* requests saved them at once; the same slot as NORMAL and OVERTIME is the
\* one pair that is let through (working-schedules.service.ts:454).
NobodyTwiceAtOnce ==
  \A j, k \in Shifts :
    j # k /\ Live(j) /\ Live(k) /\ shift[j].who \cap shift[k].who # {}
      => \/ shift[j].unsure \/ shift[k].unsure
         \/ ~Meet(SlotOf(j), SlotOf(k))
         \/ SlotOf(j) = SlotOf(k) /\ shift[j].type # shift[k].type
=============================================================================
