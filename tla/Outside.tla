------------------------------ MODULE Outside ------------------------------
(***************************************************************************)
(* What a shop exchanges with the outside: one-time codes sent by SMS, the  *)
(* public calendar of holidays, and support tickets.                        *)
(*                                                                          *)
(* A code is kept in Redis, or in the memory of the process while Redis is  *)
(* away. The sync of holidays reads which rows the owner has edited and     *)
(* writes the others by id. A ticket is answered by two sides.              *)
(* All codes belong to one phone number, all holidays to one year.          *)
(***************************************************************************)
EXTENDS Staff

CONSTANTS MaxCodes,            \* bound: codes sent
          Dates, Holidays,     \* days of the year, and rows of the table
          Tickets

ASSUME OutsideAssumption == MaxCodes \in Nat

VARIABLES otp,      \* redis, memory: the code kept there, 0 for none; sent: codes so far
          known,    \* codes that reached the phone and have not run out
          spent,    \* how often each code was accepted
          owner,    \* whether an owner with this phone has registered
          unsure,   \* whether a code was handled without Redis, or beside another request
          calendar, \* the dates of the public calendar
          holiday,  \* [date, active, manual], None for no row
          choice,   \* what the owner last made each row, None if nothing
          crossed,  \* rows edited while a sync was under way
          ticket    \* [status, last, hidden], last: the side that wrote last

outsideVars == <<otp, known, spent, owner, unsure, calendar, holiday, choice, crossed, ticket>>
codeVars == <<otp, known, spent, owner, unsure>>
holidayVars == <<calendar, holiday, choice, crossed>>

OutsideInit ==
  /\ otp = [redis |-> 0, memory |-> 0, sent |-> 0]
  /\ known = {} /\ spent = [c \in 1..MaxCodes |-> 0]
  /\ owner = FALSE /\ unsure = FALSE
  /\ calendar = {}
  /\ holiday = [h \in Holidays |-> None] /\ choice = [h \in Holidays |-> None]
  /\ crossed = {}
  /\ ticket = [t \in Tickets |-> None]

Busy == \E r \in Requests : req[r] # Idle

------------------------------------------------------------------------------
(* One-time codes: otp.service.ts *)

\* read: Redis first, then the memory.
Kept == IF redis /\ otp.redis # 0 THEN otp.redis ELSE otp.memory

\* A wrong variant leaves the code in Redis.
MemoryCleared == [otp EXCEPT !.memory = 0]

\* clear: both places, so far as Redis can be reached.
Cleared == [otp EXCEPT !.memory = 0, !.redis = IF redis THEN 0 ELSE @]

\* sendOtp: a fresh code is stored, and then the SMS may fail.
SendOtp(arrives) ==
  /\ otp.sent < MaxCodes
  /\ Once("sendOtp")
  /\ LET c == otp.sent + 1
     IN /\ otp' = IF redis THEN [otp EXCEPT !.sent = c, !.redis = c]
                  ELSE [otp EXCEPT !.sent = c, !.memory = c]
        /\ known' = IF arrives THEN known \cup {c} ELSE known
  /\ unsure' = (unsure \/ ~redis \/ Busy)
  /\ UNCHANGED <<spent, owner, holidayVars, ticket>>

\* OTP_TTL_SECONDS have passed since the oldest code there is.
CodeRunsOut ==
  /\ "sendOtp" \in scope.ops /\ known \cup {otp.redis, otp.memory} # {0}
  /\ LET c == CHOOSE x \in (known \cup {otp.redis, otp.memory}) \ {0} :
                \A y \in (known \cup {otp.redis, otp.memory}) \ {0} : x <= y
         Left(x) == IF x = c THEN 0 ELSE x
     IN /\ otp' = [otp EXCEPT !.redis = Left(@), !.memory = Left(@)]
        /\ known' = known \ {c}
  /\ UNCHANGED <<spent, owner, unsure, holidayVars, ticket, req, begun, scope>>

\* register: the phone is free and verifyOtp finds the code it is given.
RegisterRead(r, c) ==
  /\ ~owner /\ Kept = c
  /\ Begin(r, "register", [op |-> "register", at |-> "clear", otp |-> c])
  /\ unsure' = (unsure \/ ~redis \/ Busy)
  /\ UNCHANGED <<otp, known, spent, owner, holidayVars, ticket>>

\* verifyForgotPasswordOtp: the same code may serve this too.
ForgottenRead(r, c) ==
  /\ owner /\ Kept = c
  /\ Begin(r, "forgotten", [op |-> "forgotten", at |-> "clear", otp |-> c])
  /\ unsure' = (unsure \/ ~redis \/ Busy)
  /\ UNCHANGED <<otp, known, spent, owner, holidayVars, ticket>>

\* verifyOtp accepts the code once it is cleared.
Accept(r) ==
  /\ At(r, {"register", "forgotten"}, "clear")
  /\ otp' = Cleared
  /\ spent' = [spent EXCEPT ![req[r].otp] = @ + 1]
  /\ unsure' = (unsure \/ ~redis)
  /\ req' = IF req[r].op = "register" THEN GoTo(r, "create") ELSE Done(r)
  /\ Frame /\ UNCHANGED <<known, owner, holidayVars, ticket>>

\* The index on phone numbers refuses a second owner.
RegisterWrite(r) ==
  /\ At(r, {"register"}, "create")
  /\ owner' = TRUE
  /\ req' = Done(r) /\ Frame
  /\ UNCHANGED <<otp, known, spent, unsure, holidayVars, ticket>>

------------------------------------------------------------------------------
(* Holidays: holidays.service.ts, holiday-sync.service.ts *)

RowsOn(dates) == {h \in Holidays : holiday[h] # None /\ holiday[h].date \in dates}

\* The calendar is kept by others.
CalendarChanges(dates) ==
  /\ "holidaySync" \in scope.ops /\ begun = 0 /\ calendar = {} /\ dates # {}
  /\ calendar' = dates
  /\ UNCHANGED <<codeVars, holiday, choice, crossed, ticket, req, begun, scope>>

\* The owner has made row h what "row" says, and says it is by hand.
OwnerWrites(h, row) ==
  /\ Once("holiday")
  /\ holiday' = [holiday EXCEPT ![h] = row]
  /\ choice' = [choice EXCEPT ![h] = row]
  /\ crossed' = IF Busy THEN crossed \cup {h} ELSE crossed \ {h}
  /\ UNCHANGED <<codeVars, calendar, ticket>>

\* create, updateStatus, update and remove. One public holiday per date.
HolidayCreate(h, date, active) ==
  /\ holiday[h] = None /\ RowsOn({date}) = {}
  /\ OwnerWrites(h, [date |-> date, active |-> active, manual |-> TRUE])

HolidayToggle(h, active) ==
  /\ holiday[h] # None
  /\ OwnerWrites(h, [holiday[h] EXCEPT !.active = active, !.manual = TRUE])

HolidayUpdate(h, date) ==
  /\ holiday[h] # None /\ RowsOn({date}) \subseteq {h}
  /\ OwnerWrites(h, [holiday[h] EXCEPT !.date = date, !.manual = TRUE])

HolidayRemove(h) == holiday[h] # None /\ OwnerWrites(h, None)

\* fetchFromGoogle, and which of its dates have a row that may be written over.
HolidaysRead(r) ==
  /\ calendar # {}
  /\ Begin(r, "holidaySync", [op |-> "holidaySync", at |-> "write", dates |-> calendar,
                              found |-> RowsOn(calendar),
                              seen |-> [h \in RowsOn(calendar) |-> holiday[h]]])
  /\ UNCHANGED outsideVars

\* A wrong variant writes over what the owner switched off.
OrSwitchedOff(row) == row.manual /\ row.active
EditedByHand(row) == row.manual

\* One transaction, which fails when a row is gone or a date was taken since.
HolidaysWrite(r) ==
  /\ At(r, {"holidaySync"}, "write")
  /\ LET x == req[r]
         stale == {h \in x.found : ~EditedByHand(x.seen[h])}
         new == x.dates \ {x.seen[h].date : h \in x.found}
         spare == {h \in Holidays : holiday[h] = None}
         fails == (\E h \in stale : holiday[h] = None) \/ RowsOn(new) # {}
     IN IF fails THEN UNCHANGED <<holiday, choice>>
        ELSE \E slot \in {f \in [new -> spare] : \A d, e \in new : f[d] = f[e] => d = e} :
               LET made == {slot[d] : d \in new}
                   DateOf(h) == CHOOSE d \in new : slot[d] = h
               IN /\ holiday' = [h \in Holidays |->
                       CASE h \in made -> [date |-> DateOf(h), active |-> TRUE, manual |-> FALSE]
                         [] h \in stale -> [holiday[h] EXCEPT !.active = TRUE, !.manual = FALSE]
                         [] OTHER -> holiday[h]]
                  /\ choice' = [h \in Holidays |-> IF h \in made THEN None ELSE choice[h]]
  /\ req' = Done(r) /\ Frame
  /\ UNCHANGED <<codeVars, calendar, crossed, ticket>>

------------------------------------------------------------------------------
(* Tickets: tickets.service.ts *)

TicketCreate(t) ==
  /\ ticket[t] = None
  /\ Once("ticket")
  /\ ticket' = [ticket EXCEPT ![t] = [status |-> "OPEN", last |-> "SHOP", hidden |-> FALSE]]
  /\ UNCHANGED <<codeVars, holidayVars>>

\* replyMine reads the status; replyAdmin only looks whether the ticket exists.
ReplyRead(r, t, side) ==
  /\ ticket[t] # None
  /\ side = "SHOP" => ticket[t].status # "CLOSED"
  /\ Begin(r, "ticket", [op |-> "ticket", at |-> "append", ticket |-> t, side |-> side])
  /\ UNCHANGED outsideVars

\* A wrong variant leaves the status as it was.
KeepTurn(t, side) == ticket[t].status
Turn(t, side) == IF side = "SHOP" THEN "OPEN" ELSE "IN_PROGRESS"

\* appendMessage: message and status in one write.
AppendMessage(r) ==
  /\ At(r, {"ticket"}, "append")
  /\ LET t == req[r].ticket
     IN ticket' = [ticket EXCEPT ![t].status = Turn(t, req[r].side), ![t].last = req[r].side]
  /\ req' = Done(r) /\ Frame
  /\ UNCHANGED <<codeVars, holidayVars>>

\* closeAdmin, and remove, which hides it from the shop.
TicketClose(t) ==
  /\ ticket[t] # None
  /\ Once("ticket")
  /\ ticket' = [ticket EXCEPT ![t].status = "CLOSED"]
  /\ UNCHANGED <<codeVars, holidayVars>>

TicketRemove(t) ==
  /\ ticket[t] # None
  /\ Once("ticket")
  /\ ticket' = [ticket EXCEPT ![t].hidden = TRUE]
  /\ UNCHANGED <<codeVars, holidayVars>>

------------------------------------------------------------------------------
OutsideNext ==
  /\ UNCHANGED staffVars
  /\ \/ CodeRunsOut
     \/ May("sendOtp") /\ \E arrives \in BOOLEAN : SendOtp(arrives)
     \/ "holidaySync" \in scope.ops /\ \E dates \in SUBSET Dates : CalendarChanges(dates)
     \/ /\ May("holiday")
        /\ \E h \in Holidays :
             \/ HolidayRemove(h)
             \/ \E active \in BOOLEAN :
                  HolidayToggle(h, active) \/ \E d \in Dates : HolidayCreate(h, d, active)
             \/ \E d \in Dates : HolidayUpdate(h, d)
     \/ May("ticket") /\ \E t \in Tickets : TicketCreate(t) \/ TicketClose(t) \/ TicketRemove(t)
     \/ \E r \in Requests :
          \/ Accept(r) \/ RegisterWrite(r) \/ HolidaysWrite(r) \/ AppendMessage(r)
          \/ MayBegin(r, "register") /\ \E c \in known : RegisterRead(r, c)
          \/ MayBegin(r, "forgotten") /\ \E c \in known : ForgottenRead(r, c)
          \/ MayBegin(r, "holidaySync") /\ HolidaysRead(r)
          \/ MayBegin(r, "ticket") /\ \E t \in Tickets, side \in {"SHOP", "OPERATOR"} :
                                        ReplyRead(r, t, side)

------------------------------------------------------------------------------
\* Unless Redis was away or two requests met, a code is accepted once, no code
\* older than the last one sent is, and the last one is there as long as it has
\* neither run out nor been used (otp.service.ts:26).
CodesServeOnce ==
  ~unsure =>
    /\ \A c \in 1..MaxCodes : spent[c] <= 1
    /\ otp.memory = 0
    /\ \A r \in Requests : At(r, {"register", "forgotten"}, "clear") => spent[req[r].otp] = 0
    /\ otp.redis \in {0, otp.sent}
    /\ otp.sent \in known /\ spent[otp.sent] = 0 => otp.redis = otp.sent

\* What the owner made of a holiday stays so, whatever the calendar says, unless
\* they did so while a sync was under way (holiday-sync.service.ts:119).
OwnersEditWins ==
  \A h \in Holidays \ crossed : choice[h] # None => holiday[h] = choice[h]

\* However replies overlap, an open ticket waits for the operator and one in
\* progress for the shop (tickets.service.ts:112).
TurnIsRight ==
  \A t \in Tickets : ticket[t] # None =>
    /\ ticket[t].status = "OPEN" => ticket[t].last = "SHOP"
    /\ ticket[t].status = "IN_PROGRESS" => ticket[t].last = "OPERATOR"
=============================================================================
