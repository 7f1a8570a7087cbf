# IKiot-BE: a verification project in TLA+

IKiot-BE is a NestJS/Prisma backend (PostgreSQL, READ COMMITTED) for furniture
shops: orders are made, packed, shipped or collected, paid in cash or by a
SePay QR code, cancelled, returned; goods come from workshops and suppliers and
move between locations. This directory models what its services do to the
shared state, checks it with TLC and proves theorems about it with TLAPS.

Almost every endpoint has the same shape. It reads rows without a lock, refuses
early on what it read, and then runs one transaction whose conditional updates
(`updateMany ... where status = ...`, called *claims* here) re-check a part of
what was read. What the claim does not re-check may have changed in between,
and that gap is what the models are built around.

Contents: 1 inventory, 2 modules, 3 how they correspond to the code, 4 runs and
bounds, 5 where the code and its documents disagree, 6 what is proved, 7 what is
only model-checked, 8 plan, 9 what is not modelled, 10 running.

## 1. Inventory of the system

| Component (under `src/src/modules`) | State | What is hard | What makes it correct |
|---|---|---|---|
| Order journey (`orders`, `fulfillments`, `shipments`): edit, pack, ship, deliver, collect, hand over, cancel, remit | order, lines, fulfillment, shipments, payments, cash flows, invoice, stock | every endpoint moves the status on its own; the webhook is late, repeated and races cash | goods, shipment and books are what the status says; paid once; nothing open after a cancel |
| Production (`production-requests`, `suppliers`) | request, lines, delivery notes, debt | several receivers; status decided from rows others change | never over-received; a note counts once; credit limit holds |
| Production list (same, `order-customization.service.ts`) | requests, pinned lots, alerts | shelf goods and goods made to measure; snapshots | covered means shippable; goods fit their line; shortages are told |
| Returns (`order-returns`, `invoices`) | returns, `returnedQuantity`, ledger, invoice | reservation outside a transaction; write skew | units come back once; RETURNED when all is back; bill covers what is kept |
| Inventory and movements (`inventories`, `stock-movement-requests`) | rows, lots, ledger, documents, debt | the transaction does not claim the status it read | lots add up to stock; a document accounts for its goods |
| Counter sales (`orders/orders.service.ts`, `payments`) | order, stock, cash flow, invoice | webhook against cancel; the process stops half-way | sale, money and goods agree; a sufficient transfer settles |
| Cash drawer (`cash-drawer-sessions`) | session, shift logs, cash flows | two tills close one session; midnight | unbroken custody; segments, sessions and report agree |
| Subscriptions (`subscriptions`) | subscription, invoices, quota | nothing is claimed: every write is by id | locked out only when over; renewals never shorten; bounded overrun |
| Combos (`products`) | items, component lists, cost, status | a lock most edits take and two do not | every combo can be opened, and costs what its parts cost |
| Promotions and pricing (`promotions`, `orders/order-pricing.service.ts`) | promotions, uses | limits and caps read before they are counted, and edited meanwhile; prices read twice | limits hold; a sale is what was quoted |
| Staff, sessions (`users`, `auth`, `location`) | users, places, refresh tokens in Redis | revocation lists keys and then deletes them; Redis may be away | old sessions end; a place's manager works there |
| Shifts, rights, handling (`working-schedules`, `shift-templates`, `roles`, `orders/order-handler.ts`) | templates, shifts, roles, assignee and driver | checks outside transactions; rights from two sources | nobody twice at once; rights come from the owner; steps are done by those they belong to |
| Bank account (`tenants`, SePay sync) | account, link, codes | numbers change while codes are open | transfers reach the shop that issued the code |
| Dashboard, order list (`stats`, `orders/order-read.service.ts`) | none of their own | figures and pages read by several statements | periods do not overlap; sums agree; badges and pages agree |
| Registers (`customers`, `categories`, `products`, `suppliers`) | rows | checked, then written without lock; edits of SKUs check nothing | no cycles, no second SKU beside its like, no lost debts, where requests do not overlap |
| Codes, holidays, tickets (`auth`, `holidays`, `tickets`) | Redis, rows | Redis away; the sync writes what it read | a code is accepted once; manual edits stay; whose turn a ticket is follows its last reply |

The components meet in the database: the journey endpoints share the order row,
its lines, fulfillment, shipments and payments; packing, shipping, hand-over and
cancelling call the inventory service inside their transaction; completing
issues the invoice; receiving workshop goods opens stock and charges the
supplier; a counter sale writes the cash flows the drawer is reconciled with.
Notifications go out after commit and are never read back.

`PROJECT.json` lists every part, modelled or not, with the reason, and 40 hazards
at the lines where they bite, each with the properties that cover it.

## 2. The modules

| Module | What it is |
|---|---|
| `OrderLifecycle` | abstract specification of the journey: status, where the goods are, the invoice |
| `OrderJourney` | the rows, requests and transactions of one journey order; implements `OrderLifecycle` |
| `WorkshopAgreement` | abstract specification of a production request: fixed lines, goods and debt together, ceiling and credit |
| `ProductionRequest` | one production request with its notes, imports and debt; implements `WorkshopAgreement` |
| `OrderReturns` | the returns of one order whose goods have left, with lines, lots, shipment and invoice |
| `StockMovement` | movement documents and what they act on: rows, lots, ledger and debt of the places of a shop |
| `CashDrawer` | the drawer of a branch, day by day, and its reconciliation |
| `CounterSale` | sales at the counter, their transfers, goods and invoice |
| `Subscription` | the plan of one shop |
| `ComboCatalogue` | combos, what they contain, cost and status |
| `Promotions` | the pricing engine, sales priced with it, uses and limits |
| `WorkshopSupply` | orders waiting for goods, drafts and requests to the workshop, the shelf, alerts |
| `BackOffice` | composes the modules below, which share the web server (`Requests`) |
| `Staff`, `Roster`, `Access`, `Handling` | people, shifts, rights, who carries out an order's steps; each extends the one before |
| `Banking`, `Dashboard`, `Registers`, `OrderList`, `Outside` | account and codes; figures; registers; list; one-time codes, holidays, tickets |
| `MC*` | model values, symmetry and the endpoints of an instance |
| `SumTheorems` | what a sum over a finite set adds up to, and where a repeated step comes to rest |
| `OrderJourney_proofs`, `Workshop_proofs` (`ProductionRequest` and `WorkshopSupply`), `OrderReturns_proofs`, `Counter_proofs` (`CashDrawer` and `CounterSale`), `Pricing_proofs` (`Promotions`, `ComboCatalogue` and `Subscription`), `BackOffice_proofs` (`Staff` to `Banking`, `Registers`, `Outside`), `Reports_proofs` (`Dashboard` and `OrderList`) | inductive invariants and theorems |

## 3. How they correspond to the code

`PROJECT.json` "map" names the lines of every definition. The conventions:

- An open HTTP request or job is a record in `req`: exactly what the handler read
  before its transaction and goes on using. `XRead` is the early checks, `XCommit`
  the transaction with its claims. Endpoints whose transaction repeats all of their
  checks are one action. A transaction is split only where something it read can
  change before it commits.
- `Abandon` is every way a request can end without writing: a lost claim, too
  little stock, a deadlock abort, a crash, a refusal for lack of rights.
- A read with `include` is one atomic read. Within a transaction the statements
  after the first claim see what is committed, and row locks are conditions
  (`NoteLocked`, `LineLocked`, `LockFree`) computed from the open requests.

*OrderJourney.* One order, made by `manual-order.service.ts` (CONFIRMED, deposit
taken). The variables are columns: `status`, `type`, `total`, `payStatus`; `item`,
`ful`, `ship`, `pay`, `refund`, `invoice`; `flow` the cash-flow row of each payment;
`stock` and `locked` of its lines at the packing place. `bank[p]` is what the
customer sent to code `p`, which the shop learns by the webhook only. The optimistic
claim of `update` on `updatedAt` is the flag `fresh`, cleared by every other write of
the order row. `Transfer` is the customer's bank: external, possible also for a code
the shop has cancelled. `Received` is what has really left the customer's hands, and
`GoneAstray` the part of it sent to a cancelled code or beyond what a code asks.

*ProductionRequest.* `receiveGoods` is three actions, because its transaction decides
the next status by counting rows another open transaction may be changing:
`ReceiveRead`, `ReceiveWrite` (claim the note, raise the lines under their ceiling,
count) and `ReceiveCommit`.

*OrderReturns.* `inspect` is one transaction and five actions: `InspectStart` claims
the return, `PlanLine` is `returnDrawn` reading the ledger, `BumpLine` the conditional
increment that locks the line, `SettleRead` is `settleOrder` looking at the order,
`InspectCommit` its conditional write whose count is ignored, the shipment,
`voidPending`, `adjustForReturn` and the commit. `confirmFailedDelivery` is three
transactions, with `Abandon` possible between any two.

*StockMovement.* Handlers read the document with no lock and write by id, so
`Load` and a commit; `returnDrawn` reads the ledger before it takes the row, so
`Plan` is a step of its own. A stocktake starts from the recorded stock or from a quantity
the client sends.

*CashDrawer.* `updatedAt` is a version; `till` is the cash really in the drawer,
which no row has; `astray` marks the days on which cash moved outside a session.

*CounterSale*, *Subscription.* A read and a commit each; webhooks may come again and
the process may stop in between. The open requests of `CounterSale` are in `call`, those
of `Subscription` in `asked`. Time in `Subscription` is days.

*WorkshopSupply.* One SKU per order line. `Bring` is the receipt (`BringRead`,
`BringCommit`: stock, and the lots pinned to the line a request was for), `Release` what
a request that is given up leaves to the list; what a person has read is in `pend`, and a
write that may make a row short goes on as the alert `Notify` has to send, with the
snapshot read before the transaction (`CreateRead` for an order). A failure of snapshot or
alert is swallowed, so `Notify` tells some of its rows or none. `silent` are the rows that
became short and of which nobody has been told; `missed` those among them that never will
be: the alert failed (`Notify`), or a stale snapshot held the row short already although it
had closed before the write (`Overlooked`).

*ComboCatalogue.* `lockComboGraph` is `LockFree`; editing a price and removing a
variant do not take it.

*Promotions.* A cart is a sequence of lines. A sale reads the prices twice: for its
lines (`SellRead`) and in the engine (`Again`). Uses are counted by `ApplyCommit`, against
the limit as it stands and the cap per customer as `ApplyRead` found it; the owner edits
both (`SetLimit`, `SetCap`), and `highest` is the largest cap there has been.

*BackOffice.* Each area is chains of steps of a request; `scope` fixes for a behaviour
which endpoints are in use and how many requests begin.

*Registers.* An SKU is what it says of each attribute of its product. `resolve` looks for an
SKU of the same values before it makes one; `ItemCreate`, `ItemUpdate` and
`ReplaceAttributes` write values in one transaction and look at no other SKU. `apart` are
the pairs of which `resolve` made one beside the other and which nobody has edited since.
`ancestorsOf` climbs `MaxDepth` parents, and `unseen` records that a move passed
`assertNoCycle` below a chain longer than that.

*Dashboard.* Lists that the code cuts with LIMIT are the sets of rows it may return
(`Cut`, ties in any order). A row of stock knows whether its place sells (`onSale`:
`is_sellable` and not DELETED): stock alerts and slow products ask for it, `getInventory`
does not, and `PlaceChange` changes it.

**Abstractions.** Who may act is modelled in `Access` and `Handling` and elsewhere
only refuses. Money is small numbers. Lines are ids with a quantity; products,
combos and services without stock are left out of the journey, and so is what a line
costs (an edit changes lines and total independently, which allows more than the
code). `OrderJourney` and `ProductionRequest` have no lots; `OrderReturns` has the
lots the goods left and not the stock they go back to; a line sold before lots
existed is left out. An invoice is quantities. `MaxQty`, `MaxPays`, `MaxFlows`,
`Horizon` and the like, each commented as a bound where it is declared, are the only
other limits.

**Variables without a row.** Some variables record what the code does not, so that a
property can name its exception exactly: `raced`, `blind`, `overtaken`, `astray`,
`unsure`, `mixed`, `edition`, `missed`, `apart`, `unseen`, `highest`. They steer nothing, with one exception that bounds the
instance: in `ComboCatalogue` prices are no longer edited once two edits have `raced`.

## 4. What the runs check

| Run (distinct states) | Instance | Properties |
|---|---|---|
| `order_delivery` (47,700) | 2 lines, `MaxQty` 2, totals 1..3, 3 payments, 2 shipments, deposit 1, over-payment 1, 2 requests | `GoodsMatchStatus`, `ShipmentFollowsOrder`, `BooksMatchMoney`, `CustomerPaysOnce`, and it implements `OrderLifecycle` (`LifecycleSpec`) |
| `order_counter` (230,000) | 1 line, both fulfillment types, total 3, 2 payments | `PickupEndsClean`, `TransferIsBooked` |
| `production` (2.56 M) | 2 lines, `MaxQty` 2, 2 notes, credit 2 | `NoteCountedOnce`, `StatusShowsReceipts`, and it implements `WorkshopAgreement` (`AgreementSpec`) |
| `returns` (301,000) | 2 lines of 2 lots, 3 returns | `UnitsComeBackOnce`, `ReturnedIsAllBack`, `BillCoversWhatIsKept` |
| `stock` (538,000) | 2 places, 1 document of any of three types, lots of 1 and 2, `MaxMoved` 2, `MaxLots` 5, 1 edit | `StockIsSound`, `DebtFollowsGoods`, `DocumentAccountsForGoods` |
| `drawer` (232,000) | 2 cashiers, 2 days, flows of 2 and -1, `MaxFlows` 2, `MaxLogs` 4 | `ChainOfCustody`, `AccountsAgree` |
| `counter` (317,000) | 2 sales due 2, 1 transfer of 1..3, tenders 0, 1, 3, one unit on the shelf, 1 repetition | `SaleAddsUp`, `TransferSettlesSale` |
| `subscription` (1.39 M) | 3 days, grace 1, 2 invoices, 1 grant, 1 row | `ExpiredMeansOver`, `QuotaOverrunIsBounded`, `RenewalNeverShortens`, `OverEnds` |
| `combos` (490,000) | 3 combos, 1 good, depth 2, prices 1, 2 | `CombosCanBeSold`, `CostsAddUp` |
| `promotions` (367,000) | 2 promotions, 2 items, 2 lines, prices 1 and 3, 2 orders, caps 1 and 2 | `CustomerWithinCap`, `SaleHonoursQuote` |
| `supply` (1.03 M) | 2 orders (one made to measure), an empty shelf, 1 request of 2 units received one by one | `CoveredPlanShips`, `MadeToMeasureFits`, `OpenedShortageIsTold` |
| `back_office` (432,000) | 2 employees, 1 place, 2 sessions, 2 shops, 2 numbers, 3 orders, 3 categories with `MaxDepth` 2, 3 SKUs of 2 attributes, lists of 1 and 2; one scope per behaviour | `OldSessionsEnd`, `ManagerStands`, `NobodyTwiceAtOnce`, `TransfersFindTheShop`, `FiguresAgree`, `RightsComeFromOwner`, `RecordsHold`, `ListsAreRight`, `HandledByItsPeople` |

Every run has two concurrent requests, which give every pairwise race of the
endpoints; one-step endpoints, webhooks, the bank, the clock and the nightly job run
beside them. The bounds let the interesting cases happen: stock suffices for
one quantity and not for the largest, so packing can fail; two shipments allow a
second attempt; three payments allow a code, a cancelled code and cash; credit 2 lets
each of two receipts fit and both together not; three returns are two that compete
for one unit and one of the other line; two days of a drawer have a midnight between
them; three days with a grace of one reach EXPIRED; three combos nest twice; a
promotion of half and one of a fixed sum share a line, so that rounding and
the cap per line both show; a shift over midnight (3 to 2 of a day of 4) overlaps the
next day's morning; three categories in a chain are deeper than `MaxDepth`; lists of one
row are cut.

`back_office` fixes one scope per behaviour: `AccountOps`, `PasswordOps`, `PlaceOps`,
`RosterOps`, `AccessOps`, `SalesOps`, `StockOps` begin 3 requests; `CustomerOps`,
`CategoryOps`, `VariantOps`, `HolidayOps`, `TicketOps` 4; `HandlingOps` 5;
`SupplierOps`, `CodeOps`, `BankingOps` 6; `OverviewOps` and `ListOps` 2. Areas that
share no table never need to interleave, and within an area two requests are open at
a time. Its instance has two shop-wide roles of which one is a right shifts give too,
26 queries on the order list with 5 kinds of orders, months of one and two days, and
one report per behaviour.

Requests may stop at any time and orders rest in final states, so deadlock is not
checked except where the configuration leaves it on.

**Fairness.** Three liveness properties. `FairSpec` of `OrderJourney` assumes weak
fairness of `SettleSepayBalance` only: SePay repeats a webhook until it is answered.
`CounterSale` assumes it of the second half of a request that was read (`Finish`) and
of serving each transfer (`Serve`): the gateway repeats its webhook until it is
answered. `Subscription` assumes it of the nightly job (`Sweep`, a cron) and of the
clock (`Tick`). No fairness is assumed of people.

**Mutants.** Beside every property stands a plausible bug that breaks it (a forgotten
claim, a ceiling only checked early, cash booked while the shipper still holds it,
a snapshot replaced by plain reads). The operators that end in such names
(`PackUnclaimed`, `ChargeTrusted`, `CapWasLeft`, ...) exist for that and are used by
no action. In `Promotions` the mutant adds a promotion's discount up by item and reads
it back by line, so that an item on two lines of a cart is discounted twice.

## 5. Where the code and its documents disagree

Each of these was met while modelling. The first group is stated as a property,
in the module named, that TLC refutes; the properties the runs check are worded so as
to exclude exactly these cases.

| Property | What happens |
|---|---|
| `PackedAsOrdered` (`MCOrderDelivery.cfg`) | an edit commits between packing's read and its claim on the status alone: the goods locked are those of the old lines |
| `DeliveryNotCollectedTwice` (`MCOrderCounter.cfg` with total 2 and no over-payment) | `order-pickup.service.ts:179`: a counter collection lands after the switch to delivery, which is then collected again |
| `HandOverOnlyWhenPaid` (`MCOrderCounter.cfg` with totals {2, 3}) | an edit raises the total after hand-over computed that nothing was due |
| `CancelEndsTheCode` (`MCOrderCounter.cfg`) | a code is created while the order is being cancelled, and stays open |
| `FinalIsFinal` (`MCProductionRequest`) | a receipt under way reopens a cancelled or closed request |
| `FullyReceivedIsCompleted` (`MCProductionRequest`) | two receipts miss each other's lines; the request stays partial |
| `BillFollowsReturns` (`MCOrderReturns`) | a return settles while a completion that did not see it issues the invoice |
| `ReturnedWithinDrawn` (`MCStockMovement`) | `inventories.service.ts:440`: two plans from one ledger give one lot back more than left it |
| `LateTransferIsReported` (`MCCounterSale`) | a transfer whose claim is lost to another payment goes unreported |
| `PaidShopIsServed` (`MCSubscription`) | a term bought while the nightly job holds what it decided is written EXPIRED |
| `StoredCostIsRight` (`MCComboCatalogue`) | `combo-components.ts:269`: overlapping price edits store an outdated cost |
| `FreedGoodsAreStock`, `SentLineIsFixed` (`MCWorkshopSupply`) | lots of a cancelled line stay pinned; a line gets its own SKU while its draft is sent |

Others, without a property of their own:

- Orders: money sent to a code that pay-cash has cancelled is paid on top of the cash, and
  the webhook only logs it (`shipment-delivery.service.ts:491`). `CustomerPaysOnce` counts it:
  all that was received is at most the total plus what went astray that way or beyond a
  code. A shipment read before the switch to pickup is created after it
  (`shipments.service.ts:110`) and stays open when the order is handed over; a free
  order completes UNPAID; two open returns may together hold more than is left; an
  order whose lines came back by two concurrent inspections may stay COMPLETED. The
  comment at `orders.service.ts:634` counts on a unique index that migration
  `20261002120000` dropped.
- Staff and shifts: one slot planned as NORMAL and as OVERTIME has a person twice
  (`working-schedules.service.ts:469` against `:454`); two `removeUser` leave an empty
  live shift (`:297`); `createAccount` after a concurrent removal revives a DELETED
  employee; hiring into a DELETED place is not refused (`location.service.ts:209`);
  an update moves a manager elsewhere; a Redis outage loses a revocation silently, and
  a sign-in or renewal that overlaps one survives it.
- Rights: a role given between `remove`'s count and its delete is taken away silently
  (`roles.service.ts:106`, the foreign key sets null); an assignment that overlaps an
  update of its role gives the enlarged role.
- Promotions: a sale compares with the cap per customer it read before its transaction
  (`promotions.service.ts:361`), so after the owner lowers it (`:205`) a customer can get one
  use too many; nobody goes past the largest cap there was.
- Shortage alerts: the comments say that a row is told exactly once when it becomes short
  (`order-shortage-alerts.ts:36`, `production-list.ts:223`). A row that was short when the
  snapshot was read, was closed by another write, and is opened again by the one that holds
  the snapshot, is never told; nor is one whose snapshot or alert failed, since failures are
  swallowed (`production-list.service.ts:263`, `order-shortage-alerts.ts:62`, `:73`, `:93`).
- Bank account: a code issued during a save, and a link written by an outdated sync
  (until the next sync). Dashboard: the overview's profit may mix two moments
  (`stats.service.ts:145`, no snapshot). `getInventory` counts rows of places that do not sell or
  are DELETED (`stats.service.ts:773`), for which there are no alerts (`:871`), so a row out of
  stock need not be among the alerts.
- Registers: two concurrent moves make a category cycle (`categories.service.ts:144`);
  two live customers with one phone (`customers.service.ts:203`); twin SKUs by two
  concurrent `resolve` (`product-variant.service.ts:62`) and, with no overlap at all, by
  creating or editing an SKU or taking an attribute away (`products.service.ts:997`, `:784`,
  `product-attributes.ts:74` compare nothing, against "exactly one SKU" at
  `product-variant.service.ts:23`); with no overlap either, a category moved below its own
  descendant more than MAX_DEPTH = 20 levels down, where `ancestorsOf` no longer sees it
  (`categories.service.ts:99`); a supplier deleted between count and delete leaves
  an import without supplier, received without debt (the comment near
  `suppliers.service.ts:129` says the database would refuse); a supplier's type changed
  while an import is created (`:103`); a stale copy of a category's name
  (`products.service.ts:1413`).
- Order list: an order whose priority changes between two bucket reads appears twice
  or not at all.
- Outside: a holiday sync that overlaps an owner's edit overwrites it although the
  comment (`holiday-sync.service.ts:111`) says the edit wins, and two events on one
  date would fail the whole sync; a code stored or cleared while Redis is down can be
  used again, clearing after a newer `sendOtp` deletes the newer code, two concurrent
  verifications accept one code twice; tenant names are checked but not unique; a
  shop's reply read before a close reopens the ticket.

## 6. What is proved

For every value of the constants that satisfies the named assumptions of the modules
(finite sets of lines, promotions and so on, natural quantities; `...Assumption` in
each module, which TLC evaluates on the instances): any number of requests, lines,
payments, notes, returns, cashiers, days, orders, customers.

| Theorem | States | Its inductive invariant |
|---|---|---|
| `GoodsTypeCorrect`, `GoodsAccountedFor` | types; `GoodsMatchStatus` | `IndInv` of `OrderJourney` |
| `JourneyImplementsLifecycle` | `LifecycleSpec` | `IndInv` |
| `BooksHoldTheMoney`, `SettledMoneyStays` | `BooksMatchMoney`, `SettledMoneyIsFinal` | `MoneyInv` |
| `ShipmentsFollow` | `DeliveryOnly =>` `ShipmentFollowsOrder` | `ShipmentInv` |
| `DeliveryPaidOnce` | `DeliveryOnly /\ CostsSomething =>` `CustomerPaysOnce` | `PaidInv` |
| `PickupsEndClean` | `OneTotal =>` `PickupEndsClean` | `CounterInv` |
| `NeverOverReceived`, `ReceiptsShown`, `CreditHolds`, `LinesStayFixed` | `ReceivedWithinOrder`, `StatusShowsReceipts`, `DebtWithinLimit`, `LinesFixedOnceSent` | `IndInv` of `ProductionRequest` |
| `NotesCountOnce` | `NoteCountedOnce` | `NoteInv` |
| `RequestKeepsAgreement` | `AgreementSpec` | `IndInv`, `AgreeInv` |
| `ReturnedMeansAllBack`, `BillCovers`, `ReturnsFollowTable` | `ReturnedIsAllBack`, `BillCoversWhatIsKept`, `StatusFollowsTable` | `IndInv` of `OrderReturns` |
| `UnitsBackOnce` | `UnitsComeBackOnce` | `UnitsInv` |
| `MovementsKeepTypes`, `StockStaysSound`, `DebtStaysRight`, `DocumentsAccountForGoods` | types; `StockIsSound`, `DebtFollowsGoods`, `DocumentAccountsForGoods` | `MovementInv` (`MovementsFit`) |
| `CustodyIsUnbroken`, `ClosedStays` | `ChainOfCustody`, `ClosedStaysClosed` | `CustodyInv` |
| `AccountsAlwaysAgree` | `AccountsAgree` | `CustodyInv`, `MoneyInv` of `CashDrawer` |
| `CoveredPlansShip`, `MadeToMeasureFitsTheLine`, `ShortagesAreTold` | `CoveredPlanShips`, `MadeToMeasureFits`, `OpenedShortageIsTold` | `SupplyInv` |
| `SaleAlwaysAddsUp`, `EndedSalesStay` | `SaleAddsUp`, and that ended sales are not rewritten | `IndInv` of `CounterSale` |
| `UsesAreLoggedAlways`, `CustomerStaysWithinCap`, `LimitIsKept`, `SalesHonourQuotes` | types and `UsesAreLogged`, `CustomerWithinCap`, `LimitHolds`, `SaleHonoursQuote` | `IndInv` of `Promotions` |
| `CombosStaySellable` | `CombosCanBeSold` | `SellableInv` of `ComboCatalogue` |
| `CostsAlwaysAddUp` | `CostsAddUp` | `CostInv` of `ComboCatalogue` |
| `LockedOutOnlyWhenOver`, `RenewalsLengthen` | `ExpiredMeansOver`, `RenewalNeverShortens` | `TermInv` |
| `OverrunIsBounded` | `QuotaOverrunIsBounded` | `QuotaInv` |
| `SessionsEnd` | `OldSessionsEnd` | `SessionInv` |
| `ManagersStand` | `ManagerStands` | `ManagerInv` |
| `NobodyPlannedTwice` | `NobodyTwiceAtOnce` | `RosterInv` |
| `RightsAreTheOwners` | `RightsComeFromOwner` | `RightsInv` |
| `OrdersHandledByTheirPeople` | `HandledByItsPeople` | `HandlingInv` |
| `TransfersFound` | `TransfersFindTheShop` | `BankInv` |
| `FiguresAlwaysAgree` | `FiguresAgree` | `ReportsInv` |
| `ListsStayRight` | `ListsAreRight` | `ListsInv` |
| `RecordsStay` | `RecordsHold` | `RecordsInv` |

*OrderJourney, goods.* `GoodsMatchStatus` is not inductive: a stale request could take
the wrong units. `IndInv` adds where the fulfillment and the invoice are for each
status, and `ReadsStillTrue`: as long as the status is the one a request will claim,
the quantities it read are still those of the fulfillment. The refinement follows:
status moves along the table (`StatusMoves`), and where the goods are is a function
of the status (`GoodsPlaceFollowsStatus`).

*OrderJourney, money.* `MoneyInv` says of each payment on its own what its cash flow
and the bank have (`Booked`); that settled money stays follows from it, since a step
moves a payment only as its row allows (`PaysMove`). `PaidInv` says what payments a
delivery has at each status (`PaidState`): none alive up to SHIPPING and none once
cancelled, exactly one when RECEIVED, asking the total less the deposit, and that one
paid when COMPLETED; and what the open requests hold of it (`PaidRead`). What a payment has
received is at most its amount plus what went astray on it (`ReceivedAtMost`), and what
a cancelled one has received is all astray; so the customer gave the total once. `CounterInv`
says of a pickup that deposit and collections reach the total once it is COMPLETED or
any payment of it is PAID, and that before that a pending payment, and a collection
under way, ask at least what is missing.

The hypotheses exclude what section 5 shows to be false, and nothing else.
`DeliveryOnly` (`Types = {"HOME_DELIVERY"}`): with switches between delivery and
pickup an order is collected twice and a shipment survives the hand-over.
`CostsSomething` (no total is 0): a free delivery has no payment to count.
`OneTotal` (edits do not change the total): otherwise goods leave with money due.
The instances of `order_delivery` and `order_counter` satisfy them.

*ProductionRequest.* A transaction that has raised a line holds it until it commits
(`LinesHeld`), so the room it saw is still there. A request holding a status change
read it while what it judged was true, and an open receipt carries at least one unit.
`NoteInv` adds that a receipt takes no more than its note carries, that the note is
PENDING while the receipt writes, and that two receipts that write have different
notes. The refinement of `WorkshopAgreement` maps the commit of a receipt to `Receive`;
`AgreeInv` says that the amount charged is within the worth of the goods and that a
receipt which decided COMPLETED, possibly long before it commits, still brings all that
is missing. What `WorkshopAgreement` does not promise is that the last receipt completes
the request or that a final status stays: section 5.

*WorkshopSupply.* `CoveredPlanShips` compares what a row of the list demands with the
shelf. `LockedFollows` says that what is locked of an SKU is the sum of its packed
orders, so that a free shelf is free for the lines that wait; an SKU that some write took
for another by then is marked (`misread`). `Fits` says of every request for a line, of
every lot pinned to one and of every open call that it is of the line's SKU: an SKU
changes only when the line is customized, and a line on which a request already stands
is customized only by a call that had read it before (`overtaken`). `OpenedShortageIsTold` is not inductive by itself,
because the number of what is short depends on four sums; `SilentAwaited` says for each
row made short in silence that a request is about to tell, and each step either leaves
the row's demand, stock and requests alone, puts the row on an alert of its own, or has
read it as short and so marks it (`missed`). An alert that is sent takes from `silent` what it
told and puts the rest on `missed`.

*OrderReturns.* The lines an inspection has raised are held by it alone (`LocksApart`),
so what it brings back still fits under `Sold` (`OpenOK`); if it saw every line back,
no other inspection can hold one. A failed delivery covers all that is still out and
goes on doing so, because `returned` only grows (`BringsAll`). `UnitsInv` accounts for
units: `returned` of a line is what its settled returns bring, which is also what came
back to its lots, and open inspections hold different returns. `planReturn`
fills the lots in their order: by telescoping, it hands out exactly what the return
brings (`FilledInOrder`, `PlanAddsUp`).

*StockMovement.* `MovementInv` has six parts. `ShelfOK` is `StockIsSound` with types. For
it, each primitive is a lemma about the lots of one place: what is spread over them
oldest first adds up to the quantity asked, none gives more than it has (`SpreadAddsUp`,
from `PlacedInOrder`, where the smallest place that is not filled up to its turn gives
the contradiction), what is drawn leaves the place by that much and the others alone
(`HeldAfterDraw`), and so for a lot opened (`HeldAfterOpening`) and for what comes back,
part into the lots themselves and part into lots split from them (`HeldAfterReturn`).
`DocsOK`, `TasksOK` and `LedgerOK` type the rows, what the requests have read and
planned, and the ledger, which knows only lots there are. `DebtOK` is `DebtFollowsGoods`
over all documents; it needs no
hypothesis about races, because the ledger and the debt are written together. `UnracedOK`
carries `DocumentAccountsForGoods`, which is not inductive: two requests that have read one
status could both write. It adds `Follows`: a document only moves forward in `Rank` or
is edited, so what a request has read is behind it, and where status and edits are
still the same the row is the one it read and its plan is within what the document still
has out. Each commit then either marks the document `raced` or was decided on the row as
it is. `MaxMoved` and `MaxEdits` bound the instances only.

*CashDrawer.* `CustodyInv`: a request whose version is still the session's has read
the session as it is, shift logs alternate and belong to the holder. `MoneyInv`, for
every day whose counts are exact and whose cash did not move outside a session: each
count in the shift log is the opening float plus the flows before it, and the till, or
the final count once it is closed, is the float plus all flows (`DayBalanced`). The
reconciliation is then proved as the code computes it: every flow of a day lies in
exactly one segment (`FlowsInOneSegment`), the variance of a segment is how far the till
drifted (`VarianceIsDrift`), and drifts telescope to the session's (`SegmentsAddUp`).

*CounterSale.* `IndInv` says of each sale on its own how its cash book, its goods and
what it waits for agree with its status (`SaleOK`), of the shelf that it accounts for
the units sold (`ShelfOK`), and of an open request that what it read is still so or the
sale has moved on in one of the ways its claim notices (`OpenOK`). *Subscription.*
`TermInv`: a term ends no later than a plan bought now would, and a sweep or a
settlement that decided EXPIRED was right unless the term has changed since (`ReadOK`).
`QuotaInv`: rows and creators that are past the check stay within the highest quota
plus the other requests.

*Promotions.* The count under the lock of the promotion's row decides, and the cap a sale
holds, read earlier, is one the promotion has had (`RequestOK`); so the log rows of a
customer never exceed the largest cap (`UsesWithin`), and the step that goes past the one
that stands is a commit that had read another. `SalesHonourQuotes` is about the engine's
arithmetic on any cart: rounding a share adds at most a half (`RoundedBelow`), so the
shares of one promotion exceed what it grants by at most half a dong per matched line
(`SharesAddUp`); summed by line and by promotion they are the same
(`SumSwapped`); the cap per line makes every line total non-negative, so that the sum
of what is left is the sum of the lines less the sum of the discounts
(`ChargedAsQuoted`).

*ComboCatalogue.* `SellableInv`: a component list under way is written by the holder of
the lock (`HeldOK`), and what it checked is still so when it commits. Removing a variant
does not queue behind the lock, so `StillOpens` says of the graph with the new list
written that all of it opens, unless a combo of the list or the combo itself is gone,
which the commit refuses; a combo is only removed when none contains it, so what is left
opens as before (`OpensSame`). `CostInv` adds, while no two pricings have overlapped,
that one is under way at most, that its sums are those of the costs as stored now, and
that a price edit about to be written leaves every combo with the cost of its parts.
What opens, what is above an item and what is repriced are recursions of the model. The
proof reads each as a step repeated (`Repeats`); steps that give more for more come to
rest after as many as there are combos (`ComesToRest`), so the items above a change are
closed (`AboveClosed`), a combo that opens is not above itself (`NotAboveItself`), and
repricing settles level by level from the goods upwards (`RecomputedAdds`). Facts about
every repetition are proved by a smallest counterexample (`NoCounterexample`), as with
sums; these lemmas are part of `SumTheorems`. That the items of a shop are finitely many is an assumption of the module.

*BackOffice.* Eleven modules share the table of requests; a first group of lemmas says
which kinds of requests each step touches (`Touches`, `Keeps`), so that an area is proved
with the others as stuttering, for any scope and number of requests. `SessionInv`: an
old session that no overlap or outage excuses, and one about to be opened with an old
password, is on the list of a revocation under way, or will be listed by it
(`SessionsCovered`, `OpeningsCovered`). `ManagerInv`: whoever is about to be locked out
manages no place but doubtful ones (`ExitsChecked`). `RosterInv`: slots are unique
(`SlotsOnce`, the database index) and a check that no write has overtaken still finds no
clash (`CheckHolds`); whether two shifts meet over midnight is arithmetic on days.
`RightsInv`: what staff are about to pass on is what the owner gave somebody
(`GrantSound`), and a deed is done at one's own place (`deed`). `HandlingInv`: a request
let through the checks holds the ground it was let through on (`StepOwned`), which the
claim inside the transaction compares again. `BankInv`: numbers are unique
(`AccountsApart`, the unique index), keys and links follow the number but for the shops
where requests overlapped (`mixed`), and the shop of a waiting code has the code's
number and no save under way that would change it (`CodesCovered`). An earlier form of
`Banking` took a shop off `mixed` whenever a sync wrote its link; the invariant was
not inductive, because the sync writes the link and leaves an outdated key, and `SyncWrite`
now clears the mark only where the key is the account's.

*The figures of the dashboard.* Of what one statement reads, `FiguresAgree` follows from
the types of the tables alone (`SplitsAgree`, `PeriodsAreFair`): sales split by day, hour,
method, staff, branch or product add up to the whole because each sale is in exactly one
group (`SumGrouped`, `GroupsAddUp`), and the two periods compared share no order because
the earlier one ends before the start that the later one was given. For the reports of two
statements `ReportsInv` says what each holds in between: an overview, as long as no
order has changed, the takings of the orders as they are now; the alerts, the counts
of the snapshot that their lists will be read from.

*The list of orders.* What filtering, sorting and cutting return is stated first, for any
set with a strict order: it can be listed in that order (`ListExists`), the element at
place k of the list has k - 1 of the set before it (`ListPlaces`), and a slice holds
consecutive places (`SliceInOrder`). So where an order stands is how many come before it,
and that number, not a sequence, is what `ListsInv` speaks of: of a page that is being put
together the i-th row is the order with `SkipFor` + i - 1 before it. The three ways then
come together: database and service compare alike (`DatabaseOrders`), and an order of
bucket k stands behind the buckets ahead and those before it in its own (`BucketPlaces`).
Between two buckets the invariant balances the books: what the page begins with and has
is what the buckets done hold and what is still to be skipped. Once an order changed,
all this is given up for the list under way, and what remains is that rows of unchanged
orders belong to buckets that are done, so no later bucket brings them again. The badges
keep of an order counted as due that it still is, unless it changed. Used assumptions:
orders are finitely many, have one of the three priorities and a date below `Never`, the
bound that stands for the `Infinity` of `compareFor`.

*The records of BackOffice.* `RecordsInv` is a conjunction by register, each proved with
the steps of the others as stuttering. Two requests about registers are never both under
way unless `raced` says so (`Alone`), and until then what a request has found is still so
when it writes (`CustomerStill`, `SupplierStill`, `CategoryStill`); debts need none of
that, because they move in conditional updates: the sum of what a supplier's imports
charged changes by the one import that moves (`SumChange`). For codes, `CodesInOrder`
adds that the code Redis keeps is the last one sent and unspent; for holidays,
`SeenByHand`, that a sync that would overwrite the owner's row has seen it as theirs.
Of categories two facts are kept, that a parent exists and that no set of categories has
all its parents within itself (`Grounded`); the second is acyclicity without a path. A
move preserves it because the new parent's ancestors, which `assertNoCycle` has looked at,
are a set closed upwards without the category (`Clear`), and it makes every category
`Reached`. `ancestorsOf` climbs MAX_DEPTH = 20 steps (`categories.service.ts:15`) and its
result is closed upwards only if the chain ends within them. A move judged on a longer
one is marked (`unseen`), so both facts are claimed while there was none, whatever the
number of categories. Of variants it is kept that a request holding no match for its values
still has none (`Alone` excludes the edits in between), so that `resolve` never makes
an SKU beside its like. The proof of
what `ancestorsOf` returns (`AncestorsClosed`) is once more a step repeated until it comes
to rest. Used assumptions: rows are not SQL null, identifiers are not either, and the
categories and imports of a shop are finitely many.

*Sums.* The models add with `SumFunctionOnSet` of the community modules, a function
defined by recursion on subsets. The library's induction theorems take an operator as
a parameter, so `SumTheorems` argues by a smallest counterexample instead: strict
inclusion of subsets of a finite set is well-founded, a well-founded set of
counterexamples has a smallest one, and taking one element out of that one
contradicts it. From that come `SumAdd`, `SumRemove`, `SumChange`, `SumOfTwo`,
`SumParts`, `SumBelow`, `SumScaled`, `SumOfOnes`, `SumSwapped`, `SumGrouped` and `SumTelescopes`.

## 7. Only model-checked

- Liveness: `TransferIsBooked`, `TransferSettlesSale`, `OverEnds`. Fairness needs
  ENABLED, which the prover does not support.
- That `SumFunctionOnSet` and TLC's evaluation agree is TLC's own business; the
  definitions are the same ones.

## 8. Plan

1. More abstract specifications of what is promised, proved from the invariants there
   are: of the drawer (custody handed on, counts against flows), of a counter sale (sold,
   paid and returned as one), and of a return (units out, on their way, back).
2. An abstract specification for `StockMovement`: units in places, moved and never made.

## 9. Not modelled

Tenants and sales channels, administrator's statistics, the audit log, notifications,
push, e-mail, uploads and AI chat: rows written one at a time, queries over other
components' rows, output never read back. Within modelled components: addresses,
fees, texts, images, codes and their numbering, combos and custom lines in the
journey, search and import of files, brands, plans, the calendar months of the nightly
jobs. The order of row locks inside PostgreSQL is not modelled; its deadlock aborts
are (`Abandon`). About a third of the implementation's lines are mapped; the rest is
mostly what this paragraph lists, besides controllers, DTOs, error texts, seeds and the
mapping of rows to responses.

## 10. Running

    tlc -workers 2 -config MCOrderDelivery.cfg MCOrderJourney.tla
    tlc -workers 2 -config MCOrderCounter.cfg  MCOrderJourney.tla
    tlc -workers 2 -config MC<Module>.cfg MC<Module>.tla     # the other runs
    tlapm OrderJourney_proofs.tla                            # and the other *_proofs
    tlapm SumTheorems.tla

The longest runs take up to three minutes on two workers; the proofs of
`OrderJourney_proofs`, `OrderReturns_proofs`, `Workshop_proofs`, `Counter_proofs`, `Pricing_proofs`,
`BackOffice_proofs` and `Reports_proofs` (which uses lemmas of `BackOffice_proofs`) take from several minutes to half an hour each from nothing.
