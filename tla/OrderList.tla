----------------------------- MODULE OrderList -----------------------------
(***************************************************************************)
(* The list of orders and its badges (order-read.service.ts).               *)
(*                                                                          *)
(* A page comes about in one of three ways: the database sorts, or the      *)
(* service reads one bucket per priority, or it sorts in memory because the *)
(* filter is on the state of the shelf, which is not stored. All three must *)
(* give the same order, and the badges must count what their lists show,    *)
(* while other requests change the orders between two reads.                *)
(* Orders are numbered by creation. Filters on one column are left out but  *)
(* for the branch and the counter sales.                                    *)
(***************************************************************************)
EXTENDS Requests, Integers, SequencesExt

CONSTANTS Orders,      \* numbers of orders
          OrderKinds,  \* [branch, fulfillment, status, priority, due, lines]: rows of orders,
                       \* lines: quantity of each good that waits for shipping
          Edits,       \* the kinds another request may turn an order into
          OnShelf,     \* stock less locked stock of each good
          Today, DueSoonDays,
          Never,       \* bound: days from today that no order is due after
          Queries      \* [sort, want, branch, excludePos, page, limit]

ASSUME OrderListAssumption ==
  /\ Orders \subseteq Nat \ {0} /\ IsFiniteSet(Orders)
  /\ Today \in Int /\ DueSoonDays \in Nat /\ Never \in Int
  /\ \A kind \in OrderKinds \cup Edits :
       /\ kind.priority \in {"URGENT", "HIGH", "NORMAL"}
       /\ kind.due # None => kind.due \in Int /\ kind.due < Today + Never
  /\ None \notin {"ENOUGH", "PARTIAL", "OUT"}
  /\ \A q \in Queries :
       /\ DOMAIN q = {"sort", "want", "branch", "excludePos", "page", "limit"}
       /\ q.page \in Nat \ {0} /\ q.limit \in Nat \ {0}

VARIABLE book  \* the orders

orderListVars == book

OrderListInit == book \in [Orders -> OrderKinds]

NotShipped(o) == book[o].status \in {"CONFIRMED", "PACKED", "PICKED_UP"}

\* classifyStock: of one line.
ClassifyStock(quantity, stock) ==
  IF quantity <= stock THEN "ENOUGH" ELSE IF stock <= 0 THEN "OUT" ELSE "PARTIAL"

\* computeStockChecks: a packed order has its goods locked.
StockCheck(o, good) ==
  IF book[o].status \in {"PACKED", "PICKED_UP"} THEN "ENOUGH"
  ELSE ClassifyStock(book[o].lines[good], OnShelf[good])

Checkable(o) == IF NotShipped(o) THEN {g \in DOMAIN OnShelf : book[o].lines[g] > 0} ELSE {}

\* summarizeStock: the worst line, null without one to check.
Summary(o) ==
  LET present == {StockCheck(o, g) : g \in Checkable(o)}
      Severity == <<"OUT", "PARTIAL", "ENOUGH">>
      found == {i \in DOMAIN Severity : Severity[i] \in present}
  IN IF found = {} THEN None ELSE Severity[CHOOSE i \in found : \A j \in found : i <= j]

IsShort(summary) == summary \in {"PARTIAL", "OUT"}

\* pickupOverdueWhere.
PickupOverdueWhere(o) ==
  /\ book[o].fulfillment = "STORE_PICKUP" /\ book[o].status = "PACKED"
  /\ book[o].due # None /\ book[o].due < Today

\* isPickupOverdue: the flag of the row, by the calendar of Vietnam.
IsPickupOverdue(o) ==
  IF book[o].fulfillment # "STORE_PICKUP" \/ book[o].status # "PACKED" \/ book[o].due = None
  THEN FALSE ELSE Today > book[o].due

\* A wrong variant counts late pickups here as well.
DueSoonOrLate(o) == book[o].due # None /\ book[o].due <= Today + DueSoonDays

DueSoon(o) == book[o].due # None /\ book[o].due <= Today + DueSoonDays /\ ~PickupOverdueWhere(o)

\* listWhere, with the branch that branchScope and narrowToScope leave.
ListWhere(q) ==
  {o \in Orders :
    /\ q.branch # None => book[o].branch = q.branch
    /\ q.excludePos => book[o].fulfillment # "TAKEAWAY"
    /\ q.want # "ALL" => NotShipped(o)
    /\ q.want = "DUE_SOON" => DueSoon(o)
    /\ q.want = "PICKUP_OVERDUE" => PickupOverdueWhere(o)}

ByStock(q) == q.want \in {"ENOUGH", "PARTIAL", "OUT", "SHORT"}
StockWanted(q, o) == IF q.want = "SHORT" THEN IsShort(Summary(o)) ELSE Summary(o) = q.want

Buckets == <<"URGENT", "HIGH", "NORMAL">>
Bucket(q, i) == {o \in ListWhere(q) : book[o].priority = Buckets[i]}

\* orderByFor: dates rise, orders without one come last, the newest first.
OrderBy(sort, a, b) ==
  IF sort # "requestedDeliveryDate" \/ book[a].due = book[b].due THEN a > b
  ELSE book[b].due = None \/ (book[a].due # None /\ book[a].due < book[b].due)

\* compareFor: the same in memory, by a number.
Rank(sort, o) ==
  CASE sort = "priority" -> CHOOSE i \in 1..3 : Buckets[i] = book[o].priority
    [] sort = "requestedDeliveryDate" /\ book[o].due # None -> book[o].due
    [] sort = "requestedDeliveryDate" /\ book[o].due = None -> Today + Never
    [] OTHER -> 0
CompareFor(sort, a, b) ==
  Rank(sort, a) < Rank(sort, b) \/ (Rank(sort, a) = Rank(sort, b) /\ a > b)

\* The orders a <<before, after>> relation puts in order, the database's or the
\* service's own.
InOrder(S, before) ==
  CHOOSE s \in [1 .. Cardinality(S) -> S] : \A i, j \in DOMAIN s : i < j => <<s[i], s[j]>> \in before
Sorting(sort) == {x \in Orders \X Orders : OrderBy(sort, x[1], x[2])}
Comparing(sort) == {x \in Orders \X Orders : CompareFor(sort, x[1], x[2])}
NewestFirst == {x \in Orders \X Orders : x[1] > x[2]}

Slice(s, skip, take) ==
  SubSeq(s, skip + 1, IF skip + take < Len(s) THEN skip + take ELSE Len(s))
SkipFor(q) == (q.page - 1) * q.limit

\* toOrderListItem, as far as it is computed.
ListRow(o, summary) == [order |-> o, summary |-> summary, overdue |-> IsPickupOverdue(o)]
RowsOf(s) == [i \in DOMAIN s |-> ListRow(s[i], Summary(s[i]))]

Listing(r, stage) == At(r, {"list"}, stage)
Finish(r, body) == [req EXCEPT ![r] = [body EXCEPT !.at = "answered"]]

\* findAll: the request begins with the count of what matches. Bound: one list,
\* which changes nothing for others.
ListBegin(r, q) ==
  /\ begun = 0
  /\ Begin(r, "list", [op |-> "list", at |-> IF ByStock(q) THEN "candidates"
                                             ELSE IF q.sort = "priority" THEN "count" ELSE "page",
                       q |-> q, total |-> Cardinality(ListWhere(q)), touched |-> {},
                       rows |-> << >>, bucket |-> 1, skip |-> SkipFor(q), take |-> q.limit])
  /\ UNCHANGED book

ListPage(r) ==
  /\ Listing(r, "page")
  /\ LET x == req[r]
         all == InOrder(ListWhere(x.q), Sorting(x.q.sort))
     IN req' = Finish(r, [x EXCEPT !.rows = RowsOf(Slice(all, x.skip, x.take))])
  /\ Frame /\ UNCHANGED book

\* A wrong variant skips as much again in the next bucket.
SkipStays(skip, count) == skip
SkipLeft(skip, count) == skip - count

\* pageByPriority: the count of a bucket, which may be skipped.
BucketCount(r) ==
  /\ Listing(r, "count")
  /\ LET x == req[r]
         count == Cardinality(Bucket(x.q, x.bucket))
     IN req' = IF x.skip < count THEN GoTo(r, "bucket")
               ELSE IF x.bucket = Len(Buckets) THEN Finish(r, x)
               ELSE [req EXCEPT ![r].skip = SkipLeft(x.skip, count), ![r].bucket = @ + 1]
  /\ Frame /\ UNCHANGED book

\* pageByPriority: what the page takes from it.
BucketPage(r) ==
  /\ Listing(r, "bucket")
  /\ LET x == req[r]
         page == Slice(InOrder(Bucket(x.q, x.bucket), NewestFirst), x.skip, x.take)
         y == [x EXCEPT !.rows = @ \o RowsOf(page), !.take = @ - Len(page), !.skip = 0,
                        !.bucket = @ + 1, !.at = "count"]
     IN req' = IF y.take = 0 \/ x.bucket = Len(Buckets) THEN Finish(r, y)
               ELSE [req EXCEPT ![r] = y]
  /\ Frame /\ UNCHANGED book

\* listByStockSummary: candidates, their checks, and which of them the page has.
Candidates(r) ==
  /\ Listing(r, "candidates")
  /\ LET x == req[r]
         matched == {o \in ListWhere(x.q) : StockWanted(x.q, o)}
         page == Slice(InOrder(matched, Comparing(x.q.sort)), x.skip, x.take)
     IN req' = [req EXCEPT ![r] = [x EXCEPT !.rows = RowsOf(page), !.total = Cardinality(matched),
                                            !.at = "found"]]
  /\ Frame /\ UNCHANGED book

\* The rows are read once more by id; the checks stay.
FoundAgain(r) ==
  /\ Listing(r, "found")
  /\ req' = Finish(r, [req[r] EXCEPT !.rows =
       [i \in DOMAIN req[r].rows |-> ListRow(req[r].rows[i].order, req[r].rows[i].summary)]])
  /\ Frame /\ UNCHANGED book

Wanting(q, want) == [q EXCEPT !.want = want, !.excludePos = TRUE]
ShortOnes(q) == {o \in ListWhere(Wanting(q, "SHORT")) : IsShort(Summary(o))}

\* alerts: three reads, any other request between them.
AlertsBegin(r, q) ==
  /\ begun = 0
  /\ Begin(r, "badges", [op |-> "badges", at |-> "due", q |-> q, touched |-> {},
                         short |-> ShortOnes(q), due |-> {}, late |-> {}])
  /\ UNCHANGED book

AlertsDue(r) ==
  /\ At(r, {"badges"}, "due")
  /\ req' = [req EXCEPT ![r].due = ListWhere(Wanting(req[r].q, "DUE_SOON")), ![r].at = "late"]
  /\ Frame /\ UNCHANGED book

AlertsLate(r) ==
  /\ At(r, {"badges"}, "late")
  /\ req' = Finish(r, [req[r] EXCEPT !.late = ListWhere(Wanting(req[r].q, "PICKUP_OVERDUE"))])
  /\ Frame /\ UNCHANGED book

Send(r) ==
  /\ At(r, {"list", "badges"}, "answered")
  /\ req' = Done(r) /\ Frame /\ UNCHANGED book

\* Another request changes an order while a page is put together.
Touch(o, kind) ==
  /\ May("touch") /\ begun' = begun + 1 /\ UNCHANGED scope
  /\ \E r \in Requests : req[r].op \in {"list", "badges"} /\ req[r].at # "answered"
  /\ book[o] # kind
  /\ book' = [book EXCEPT ![o] = kind]
  /\ req' = [r \in Requests |-> IF req[r].op \in {"list", "badges"}
                                THEN [req[r] EXCEPT !.touched = @ \cup {o}] ELSE req[r]]

OrderListNext ==
  \/ May("touch") /\ \E o \in Orders, kind \in Edits : Touch(o, kind)
  \/ \E r \in Requests :
       \/ ListPage(r) \/ BucketCount(r) \/ BucketPage(r) \/ Candidates(r) \/ FoundAgain(r)
       \/ AlertsDue(r) \/ AlertsLate(r) \/ Send(r)
       \/ MayBegin(r, "list") /\ \E q \in Queries : ListBegin(r, q)
       \/ MayBegin(r, "badges") /\ \E q \in {p \in Queries : p.page = 1 /\ p.sort = "createdAt" /\ p.want = "ALL"} : AlertsBegin(r, q)

------------------------------------------------------------------------------
Before(q, o) == {p \in ListWhere(q) : (ByStock(q) => StockWanted(q, p)) /\ CompareFor(q.sort, p, o)}
OnPage(q) ==
  {o \in ListWhere(q) : /\ ByStock(q) => StockWanted(q, o)
                        /\ Cardinality(Before(q, o)) \div q.limit = q.page - 1}
Shown(x) == {x.rows[i].order : i \in DOMAIN x.rows}

\* A page that nothing disturbed holds the orders whose number of predecessors
\* puts them there, in order, with what the shelf says of each, out of all that
\* match, whichever of the three ways it came about. A disturbed page still
\* shows no order twice but one that changed.
PageIsRight(x) ==
  /\ \A i, j \in DOMAIN x.rows :
       i # j /\ x.rows[i].order = x.rows[j].order => x.rows[i].order \in x.touched
  /\ Len(x.rows) <= x.q.limit
  /\ x.touched = {} =>
       /\ Shown(x) = OnPage(x.q)
       /\ \A i \in DOMAIN x.rows :
            LET o == x.rows[i].order
            IN /\ Cardinality(Before(x.q, o)) = SkipFor(x.q) + i - 1
               /\ x.rows[i].summary = Summary(o)
               /\ x.rows[i].overdue = PickupOverdueWhere(o)
       /\ x.total = Cardinality({o \in ListWhere(x.q) : ByStock(x.q) => StockWanted(x.q, o)})

\* The badges count no order as due and as late to be fetched, miss no unshipped
\* order whose day has come, and each is the length of the list behind it.
BadgesAreRight(x) ==
  /\ x.due \cap x.late \subseteq x.touched
  /\ x.touched = {} =>
       /\ \A o \in ListWhere(Wanting(x.q, "ENOUGH")) :
            book[o].due # None /\ book[o].due <= Today => o \in x.due \cup x.late
       /\ x.late \subseteq {o \in Orders : IsPickupOverdue(o)}
       /\ x.short \cap {o \in Orders : Summary(o) \in {None, "ENOUGH"}} = {}

\* Lists and badges are right (order-read.service.ts:92 and :398 promise it).
ListsAreRight ==
  \A r \in Requests : /\ Listing(r, "answered") => PageIsRight(req[r])
                      /\ At(r, {"badges"}, "answered") => BadgesAreRight(req[r])
=============================================================================
