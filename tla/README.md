# backend-celtas: formal models

TLA+ specifications of the ordering backend in `src/` (NestJS, TypeORM,
PostgreSQL), the TLC configurations that check them on small instances, and
proofs that the TLA+ proof system checks for every instance.

The core of the program is a set of request handlers that run at the same time
over one database. Each handler is a transaction that locks rows with
`SELECT ... FOR UPDATE`, decides by what it read, writes, commits, and then runs
best-effort work of its own. Nearly every rule in `docs/business-rules.md` is a
statement about what such handlers may do to each other, and no test in the
repository runs two of them at once. That is what these models are for.

## Inventory

| Component | Source | State | Operations | What makes it correct |
|---|---|---|---|---|
| Orders | `modules/orders/orders.service.ts` | `orders` rows, `users.totalSpent` | checkout (`placeOrder`, from `create` and `createOrderByAdmin`), `updateStatus`, `markWhatsappSent`, `linkAnonymousOrders` | totals counted once, no customer replaced, benefits paid once, first confirmation kept, every change signalled |
| Coupons | `modules/coupons/coupons.service.ts` | `coupons` rows | redeem, mark used, reactivate, generate automatically, grant manually, campaign, daily maintenance | one order per coupon, spending earns one coupon, at most one active automatic coupon |
| Rewards | `modules/rewards/rewards.service.ts` | `reward_redemptions` rows, the calendar month in Lima | recalculate stars, validate claims, mark used, reactivate | one reward per milestone and month, one order per reward |
| Order event outbox | `modules/orders/events/order-events.service.ts` | `order_events` rows, head and floor, per process the LISTEN connection and a position | record, publish, distribute, replay, purge, reconnect | no event lost, repeated or out of order |
| SSE streams | `modules/orders/events/order-events-stream.service.ts` | per connection: phase, cursor, pending rows, queue; limits; roles | connect, replay, live, drain, heartbeat, role check, shutdown | a client sees the log or is told to reset; a revoked administrator is cut off |
| Users and roles | `modules/users/users.service.ts` | `users` rows, `fcm_token_generations` | profile, FCM token, role | a late PATCH or DELETE kills no newer token; an administrator is left |
| Auth, routes | `modules/auth`, the controllers, guards and strategies | tokens in circulation | register, log in, refresh, Google, every route | no account is taken over; a path reaches its own handler; a lost role counts at once |
| Addresses | `modules/users/addresses.service.ts` | `addresses` rows | create, update, default, delete | at most one default |
| Notifications | `modules/notifications/notifications.service.ts` | none | send, clean up unregistered tokens | a clean-up never removes a newer token |
| Star promotions and milestones | `modules/rewards/star-promotions.service.ts`, `reward-milestones.service.ts` | two tables | create, update, delete, progress of a customer | promotions never overlap; what is shown as reached is granted |
| Delivery | `modules/delivery/*.ts` | zones, mode, tiers | zones, mode, the fee of an address | mode ZONES has an active zone, a spot has one fee |
| Settings, business hours | `modules/settings/settings.service.ts` | the key-value table | seed, update, automatic coupons, open or closed, next change | the app misses no change; no coupon above 100 % |
| Catalogue | `modules/{menu,fries-types,sauces,beverages,extra-portions}` | product tables and links | CRUD, default fries type, public menu | one default; the menu shows what is charged |
| Prices | `orders.service.ts`, `coupons.service.ts`, `money.util.ts` | none | items, discount, total, WhatsApp message | menu, charge and message agree |
| Banners | `modules/banners/banners.service.ts` | `banners` rows | create, update, remove, reorder | begins before it ends; reordering is all or nothing |
| Reports, dashboard | `modules/reports`, `modules/admin` | none | every panel, as a query over the orders | the panels agree with each other |
| Geocoding, image storage, configuration | | | | remote calls and constants |

Interactions. Checkout calls the coupon and reward services inside its own
transaction; so does a cancellation. Deliveries and links call the coupon and
the reward service *after* their commit, one transaction each, errors logged
and dropped. The daily cron expires coupons and makes up for generations that
were lost. Every write of an order inserts a row of the outbox in the same
transaction. All of these meet only in the database rows they lock.

What is hard: handlers interleave at every statement; locks are taken one row
at a time, in an order that differs from handler to handler; some values are
read before the transaction or computed in memory and written later; what runs
after the commit can be lost; some waits end only because PostgreSQL kills
somebody; the month may end between two readings of the clock.

## Modules

| Module | Models |
|---|---|
| `RowLocks` | External: PostgreSQL row locks as the services use them |
| `Coupons` | the coupons table and the operators of `coupons.service.ts` on it |
| `Rewards` | the reward_redemptions table, the month, and the operators of `rewards.service.ts` |
| `Orders` | the handlers: composes the three above |
| `OrderBook` | abstract: the same operations as atomic actions, with no locks, handlers or clock |
| `OrdersRefinement` | extends `Orders` with the mapping under which it implements `OrderBook` |
| `EventFeed` | abstract: what one process promises its streams about the log of order events |
| `OrderEvents` | the outbox, its publication by several processes, replay, retention and LISTEN; implements `EventFeed` for each process |
| `OrderStream` | the SSE streams of one process over `EventFeed` |
| `Handlers` | what the small components share: requests, each at an await, and writes of a table |
| `FcmTokens` | FCM tokens, their generations, pushes and the clean-up of dead tokens |
| `Accounts` | registration, logins, Google accounts, roles |
| `Addresses` | addresses under the lock of their owner |
| `Promotions` | star promotions under the advisory lock |
| `StarProgress` | milestones, and the progress that is shown of them |
| `Delivery` | zones, mode and tiers under the advisory lock, and orders that read them without it |
| `Polygon` | the geometry of zones, with exact fractions |
| `BusinessHours` | open or closed, and the next change, in Lima's time |
| `Settings` | seeds, closing by hand with its push, the configuration of automatic coupons |
| `Catalog` | products, categories, their links, and the four catalogs of options |
| `Pricing` | the public menu, the items of an order, discounts, totals and messages |
| `Reports` | every panel of the dashboard and of the reports |
| `Banners` | banners, whose reordering is a transaction |
| `Access` | every route of every controller, and the guards |
| `BackOffice` | the components from `FcmTokens` to `Access` side by side |
| `MCOrders` (of `OrdersRefinement`), `MCOrderEvents`, `MCBackOffice` | constants for TLC |
| `OrderBook_proofs` | theorems about the abstract book |
| `Orders_proofs`, `OrdersRefinement_proofs` | theorems about the handlers; the second one, on top of the first, about coupons and rewards and the abstract book |
| `OrderEvents_proofs`, `OrderStream_proofs` | theorems about the log and its streams |
| `BackOffice_proofs` | theorems about the components of the back office whose handlers read, decide and write |
| `BackOfficeAnswers_proofs` | theorems about those that answer: hours, routes, prices, reports |
| `Polygon_proofs` | theorems about the geometry, over any grid |

The next three sections are about `Orders`; the other modules follow them.

### State

| Variable | Code |
|---|---|
| `orders` | the orders table: `status`, `userId`, `customerPhone`, `whatsappSentAt`, the month of `deliveredAt`, and what the order was granted (`coupon`, `rewards`) |
| `spent[u][o]` | `users.totalSpent`, as a bag: how often the total of `o` has been added to it |
| `phone` | `users.phone`, normalised |
| `coupons`, `rewards` | the two benefit tables |
| `outbox` | the dedupe keys in `order_events` |
| `issued` | ids drawn by `randomUUID()` |
| `month` | the clock |
| `holder` | which transaction has each row FOR UPDATE |
| `pc`, `mem` | where a handler is in its code, and its local variables |

### Actions

One action per statement that can wait or that decides, named for what the code
does there.

* `placeOrder`: `StartPlace`, `ApplyToOrder` or `CouponRefused` (lock the
  coupon, `assertUsable`), `ValidateForOrder` or `RewardRefused` for each claim
  in UUID order, `SaveOrder` (insert, both `markUsed`, `record`, COMMIT).
* `updateStatus`: `StartStatus`, `LockOrderForStatus` or `StatusRefused`; a
  cancellation then locks the coupon (`LockCouponOfCancelled`) and the rewards
  (`LockRewardOfCancelled`, `RewardsLocked`), a delivery the customer
  (`LockUserOfDelivered`); `SaveStatus` writes everything.
* `markWhatsappSent`: `StartWhatsapp`, `LockOrderForWhatsapp` or
  `WhatsappUnchanged`, `SaveWhatsapp`.
* `linkAnonymousOrders`: `StartLink` reads the phone, `SelectLinkable` and
  `LockLinkable` lock the rows of `IN (ids)` in any order, `LinkRefused` or
  `LockUserOfLink`, and `SaveLink` writes a balance computed in memory.
* Tasks after a commit: `BeginTask`; `LockUserOfGeneration`,
  `CheckActiveCoupon`, `SumSinceLastCoupon`, `InsertCoupon` for
  `checkAndGenerateForUser`; `LockUserOfStars`, `ReadStars`, `InsertRewards` for
  `recalculateForUser`; and the early returns of both.
* The cron: `StartMaintenance`, `LockLapsed`, `SaveExpired`, then a generation
  for every customer.
* Single statements: `GenerateManual`, `ChangePhone`. The clock:
  `CouponLapses`, `MonthEnds`.
* Failures: `Fail` rolls a transaction back at any statement; `Crash` loses the
  tasks that were still to run.

A transaction writes in its last step. Under READ COMMITTED nobody sees its
writes before that, and its own later reads are modelled to see them, so this
loses no interleaving. Reads that the code does before the transaction, or
under a lock on another row, are steps of their own.

### The event log and its streams

`OrderEvents` has a transaction that records an event (`RecordEvent`, under the
row lock of its order, and `CommitEvent`), and for every process the publication
(`SelectBatch`, `Publish`, `PublicationFails`), the LISTEN connection (`Listen`,
`ReadHead`, `BecomeReady`, `LoseConnection`, `Notification`), the timer and the
distribution (`Replay`, `CallBack`, `DistributionFails`). `Restart` is a crash of
the process anywhere. `wake()` and `distribute()` are operators of the actions
that call them, with what they absorb. What a process calls back with is
`EventFeed`: consecutive events, or a reset.

`OrderStream` builds on `EventFeed` and not on `OrderEvents`, which has been
shown to implement it for every process. A stream goes from `Authorize` (the
guard) by `Open`, `Replay` and `Initialize` to `"live"`; `Drain`, `Heartbeat` and
the callback of the feed write frames, of which the socket takes as many as it
likes; `StartCheck`, `ReadRoles` and `StopRevoked` are `checkRoles`, while
`ChangeRole` may come at any time.

### The back office

In these modules a request is a record: its `step` names the await where it is,
the other fields are its local variables (`Handlers`). A transaction writes in
its last step, as in `Orders`; where there is no transaction, every statement
is a step and a row that was read may be stale when it is saved.

| Module | State | Actions |
|---|---|---|
| `FcmTokens` | `fcm`, `generations`, `locked`; `unregistered` is Firebase's | legacy `LegacyPatch`, `LegacyClear`; `changeFcmGeneration` from `StartGeneration` to `AcceptGeneration`, `RevokeGeneration` or `RefuseGeneration`; `StartPush`, `PushAnswered`, `CleanupTokens` |
| `Accounts` | `accounts`, `tokens` | registration, password login and Google login in the statements where they can be overtaken; `updateRole` |
| `Addresses` | `addresses`, `ownerLock` | `StartWrite`, `LockOwner`, `ReadAddresses`, then `CreateAddress`, `UpdateAddress` or `RemoveAddress` |
| `Promotions` | `promotions`, the advisory lock | `StartPromotion`, `LockPromotions`, `CheckPromotion`, `SavePromotion` |
| `StarProgress` | milestones, deliveries, promotions, rewards of one customer and month | writes of milestones, `Deliver`, `Promote`, and `getProgress` as `Recalculate`, `ReadMilestones`, `ReadStats`, `ShowProgress` |
| `Delivery` | `zones`, `mode`, `tiers`, `store`, the advisory lock | a write of the catalogue or the mode under the lock; `computeDelivery` read by read |
| `Polygon` | `rings` that have been drawn | a second polygon is compared with the first: `deliveryPolygonsOverlap`, `pointInDeliveryPolygon` |
| `BusinessHours` | `schedule`, `closedByHand`, the last `answer` | `Ask` at any minute, `CloseByHand` |
| `Settings` | `settings`, `rowLock` | seeds of a start; a closing from `FindClosing` to `NotifyBusinessHoursChange`; the automatic coupons key by key in a transaction |
| `Catalog` | `options`, `category`, `items`, `links` | create, update and remove of options, products and the category, statement by statement |
| `Pricing` | `product`, `menu`, `order`, `whatsapp` | show the menu, switch an option, place an order, make the message again |
| `Reports` | `clock`, `sales`, `shoppers` | orders come, are delivered, cancelled and linked; `metrics` is read in six statements; every other panel is an operator |
| `Banners` | `banners` | find and save; `reorder` item by item, then COMMIT |
| `Access` | `roles`, `issued` tokens, one `request` | every route; `Authenticate`, `Authorize`, `Respond` while roles change |

### Abstractions

* Money. Totals are not numbers: `spent` says which totals were added. The
  coupon threshold and the price of a star count orders. The arithmetic itself
  is in `Pricing`.
* Time. `coupons[c].past` says that the clock is beyond `expiresAt`; `createdAt`
  of a coupon is `cut`, the orders created no later; a reward expires at the end
  of its month.
* `now()` of a generation is the start of its transaction
  (coupons.service.ts:367), which may be long before it gets the user's lock. An
  order created during that wait can count for this coupon and for the next.
  `SpendEarnsOneCoupon` therefore speaks of orders created before both coupons.
* Failed checks of prices, minimum purchase, product catalogues, addresses and
  numeric overflow inside a transaction are `Fail`. Checks before it (business
  hours, geography, DTO validation) only decide whether a request starts.
* `FOR KEY SHARE`, taken by foreign keys, is a condition of the last step
  (`Shareable`): it is asked for by the last statement that can wait.
* The deadlock detector is `DeadlockVictim`, a `Fail` of a handler in a circle.
* `Requests` bounds the kinds of requests in a run, `MaxMonth` the clock.
  Handlers go back to idle and take the next request, so runs are not bounded in
  the number of requests.

* Of `OrderEvents`. The transaction of a publication is one read and one write,
  between which others may do anything; that published rows are 48 hours old is
  a choice, up to `PurgeLimit` at a time. Weights of frames are 1.
* Of the back office. Passwords, e-mails, devices and coordinates are model
  values, a polygon in `Delivery` is the set of spots inside it, dates and
  minutes are small numbers. A `UNIQUE` index is a condition of the INSERT. Two
  reads of `business-hours` are one step. So is `save()`, which selects the row
  once more before it updates what differs: the properties of banners and products
  except requests that overlap, whose columns these two statements could mix.
* Variables marked `history` in their module are not in the code. They remember
  what a property is about, mostly that two requests overlapped
  where the code does not promise anything then (see "Known limits").

## Runs

| Run | Question | Instance |
|---|---|---|
| `OrdersLink` | `CustomerNeverReplaced`, `EveryChangeIsSignalled`, `FirstConfirmationKept`: does an order keep its customer, its signals and its confirmation? | 3 handlers, 2 customers who have had the same phone, 1 order; checkout, status, link, confirmation, profile |
| `OrdersBenefits` | `BenefitPaysOnce`, `OnlyBatchesDeadlock`: is every coupon and reward used by exactly the standing order that was granted it, and which handlers can wait in a circle? | 2 handlers, 2 orders, 2 coupons and 2 rewards; checkouts that redeem a coupon and both rewards or the rewards alone, status, link, lapse, daily expiry |
| `OrdersCoupons` | `SpendEarnsOneCoupon`: do concurrent generations pay twice? | 2 handlers, 2 orders, 2 coupons; deliveries before and after a link, crashes, lapses and the cron |
| `OrdersRefinement` | `ImplementsBook`, `SpentIsDelivered`: does every transaction behave as if it ran alone at its COMMIT, and does totalSpent stay exact? | 2 handlers, 2 orders, 2 coupons and 2 rewards of which one each exists at the start; checkout, status, link, lapse, expiry, generation of a coupon and a reward from two delivered orders |
| `OrdersLive` | `RequestsEnd`: do requests end, even behind two links that lock two orders in opposite order? | 2 handlers, 2 orders, a coupon; checkout, link, maintenance, progress, manual grant |
| `OrdersTasks` | `RequestsEnd` for status changes, confirmations and all tasks; `OneRewardPerMilestone`: do overlapping recalculations grant a milestone twice? | 2 handlers, 1 order, 2 coupons, 3 rewards, 2 months |
| `OrdersSecondCoupon` | violates `NoSecondAutoCoupon` | see findings |
| `OrdersMonthEnd` | violates `RewardBackedByItsMonth` | see findings |
| `OrderEvents` | `LogHasNoHoles`, `OrdersAreToldInOrder`, `TellsTheLog`, `EveryEventIsPublished`, `StreamsCatchUp`: does an event get into the log once, in the order of its order, and to the streams without gaps? | 2 processes, of which one listens; 3 events of 2 orders; batches of 2; one fault (a query, the connection or a process) |
| `OrderStream` | `ClientMissesNothing`, `StreamsKeepTheirLimits`, `NoStreamWithoutTransport`, `RevokedStreamsEnd` | 2 connections of 1 user, 2 events, a queue and a replay of 1 |
| `BackOffice` | `RegistrationsHold`, `CleansOnlyDeadTokens` (`FcmTokens`), `AccountsAreNotMerged`, `AdminsAreLostOnlyTogether` (`Accounts`), `OneDefaultAddress`, `OnePromotionPerDay`, `ProgressIsAligned`, `OneFeePerSpot`, `PolygonsAreRegions` (`InsideIsInATriangle` and `SharedBordersAreAllowed`), `CommonInteriorsAreFound` (`Polygon`), `AppKnowsTheHours`, `GeneratedCouponsAreSound`, `CustomersHearTheLastClosing` (`Settings`), `OneDefaultUnlessStale`, `LinksAreThoseAssigned` (`Catalog`), `EveryoneIsToldOnePrice`, `ReportsAgree`, `LinkingKeepsCustomers` (`Reports`), `BannersAreInOrder`, `RequestsDoWhatTheyMay` (`Access`) | 2 requests at a time in every component, over 1 to 3 rows of each table |
| `PolygonContainment` | violates `ContainmentIsDetected` | see findings |

Why the bounds are enough. Every hazard here is between two handlers and over
one or two rows: two writers of one row, two locks taken in opposite order, one
check-then-act. Two handlers and two rows of each kind that matter are the
smallest instance with all of them, and a third handler is added where a link
and a delivery race a confirmation. In the liveness runs there is a free coupon or
reward row for every generation that may happen, so none waits for a bound.
Mutants of the code (a dropped FOR UPDATE, a lock order by cart instead of UUID, a generation without the customer's lock, a
dedupe key without the status) are caught within these bounds, which shows that
the cases do happen. The proofs below remove the bounds for the central
properties.

Symmetry: handlers and orders are interchangeable (`Symmetry`); customers are
where all have the same phone (`LinkSymmetry`), coupons where none exists yet
(`CouponSymmetry`). Reward ids are ordered, so they are not. Liveness runs use
no symmetry.

`BackOffice` takes one component at a time: `focus` is chosen at the start, and
the others stay as they are. The components share no table, apart from what
orders read of them, so that every interleaving of two is one of each of them
side by side, and no property is about two. Nothing is lost, and the states are a
sum where they would be a product.

`Polygon` draws every ring of 3 or 4 vertices on a grid of 3 by 3, next to every
triangle: that has shared edges, inscribed and crossing polygons, and vertices on
edges. `BusinessHours` takes every schedule of a week of 3 days of 3 ticks, with
hours that cross midnight, ranges that touch, and days without any, and asks at
every tick; Lima is 2 ticks behind, so that the hours of a day in Lima reach into
the second day after in UTC, which those of the real offset do from 19:00 on.
`Pricing` takes every row of a product with two options in every
group, and every order of up to two of them; its `MaxMoney` is reached. In
`Reports` the calendar has a Sunday and the Monday after it, when a new week begins
but no new month. `StarProgress` has a single milestone and a
single order; one promotion is enough to take it over the threshold.

Deadlock is checked everywhere but in `BackOffice`, where a component whose
identifiers are used up, or whose two polygons are drawn, has stopped. Elsewhere a
handler may always fail or take the next request, so the system never stops.

### Fairness

`LiveSpec` asks for strong fairness of each handler's own steps and for weak
fairness of `DeadlockVictim`. Node runs every ready continuation, and PostgreSQL
queues the waiters of a row lock, so a handler whose next row becomes free again
and again gets it. The deadlock detector runs whenever somebody has waited for
`deadlock_timeout`. Nothing else is owed: no request has to arrive, no failure
has to happen, the clock need not move.

`LiveSpec` of `OrderEvents` asks for weak fairness of each process's publication
and distribution steps (queries get answered) and of its 30-second timer. The
connection need not come back: `StreamsCatchUp` speaks of processes that are
ready. `LiveSpec` of `OrderStream` asks for it of the three steps of the role
check, whose timer fires and whose query is raced by a deadline. `BackOffice` has
safety properties only, and states no fairness.

## Findings

* `OrdersSecondCoupon`. `checkAndGenerateForUser` locks the customer and looks
  for an active automatic coupon, then inserts. `reactivateForCancelledOrder`
  gives a coupon back without the customer's lock. A cancellation between the
  two leaves two active automatic coupons, which docs/business-rules.md:77 and
  the comment at coupons.service.ts:81 exclude.
* `OrdersMonthEnd`. `recalculateForUser` reads the clock once for the range of
  the stars and again for `earnedAt`. If the month ends in between, the stars of
  the old month grant a reward that belongs to the new one, and that milestone
  cannot be earned again there (comment at rewards.service.ts:206).

* `PolygonContainment`. `deliveryPolygonsOverlap` tests vertices and the middles of cut
  edges of the first polygon against the second, but only the vertices of the
  second against the first. A triangle inscribed in a zone, with its vertices on
  the border of it, is not found to overlap when it comes second, though the
  comment at polygon.util.ts:172 says containment is detected. Compared in the
  other order it is found (`CommonInteriorsAreFound`, in `BackOffice`), so whether
  two such zones are refused depends on which was there first.

### Known limits

Behaviours met while modelling about which the repository promises nothing, or
which its comments accept. Properties are stated so that they exclude these and
nothing else.

* Two administrators who demote each other at once leave none
  (`AdminsAreLostOnlyTogether`; users.service.ts:294 only speaks of one's own id).
* An update of a fries type that does not mention the default saves the default
  that it read, and may bring back an old one (`OneDefaultUnlessStale`). In the
  same way a product's options may be those of the slower of two requests, and
  `save()` of a row that was removed meanwhile inserts it again.
* Closings by hand that overlap may tell the customers the older news, and a push
  may be lost (`CustomersHearTheLastClosing`).
* Two configurations of automatic coupons that overlap may leave the type of
  one with the amount of the other; `getAutoCouponConfig` falls back to its
  default where that is not valid (`GeneratedCouponsAreSound`).
* Two instances that start for the first time at once: one may fail on a seed.
* A reordering of banners may be the victim of a deadlock, and is then undone
  as a whole.
* Where one day closes at the minute at which the next one opens, the announced change
  changes nothing. The request reads open and next change in two queries.
* An order may find the mode ZONES and then zones of a later mode; it still pays
  the fee of a zone or is refused (`UncoveredIsNotAQuotation`).
* A coupon that takes nothing off is used up, and is not in the message.
* Two accounts may have one phone; `LinkingKeepsCustomers` speaks of phones that
  only one has. A token without generation on a shared device stays with both.

## Proofs

The theorems hold for any set of handlers, customers, orders, coupons and
rewards, any months and milestones, any batches and limits: for all values of
the constants that satisfy the named assumptions of the modules. These say that
null is nobody's id, that ids of rewards, milestones, dates and limits are
numbers, as prices, fees, totals of orders and values of coupons are, that there is
at least one month, that the carts are carts, that what exists at the start is
unused and was earned by then, that there is a first administrator, that a day has
ticks and a week days, that the calendar of the reports is finite and not empty
and its days are in months, and that polygons are drawn between integers and have
three or four vertices.

### The handlers of orders

| Theorem | Property | Module |
|---|---|---|
| `OrdersTyped` | `[]TypeOK`, which no run checks beside it | `Orders_proofs` |
| `TotalsAreExact` | `[]SpentIsDelivered` | |
| `CustomersStay` | `CustomerNeverReplaced` | |
| `ConfirmationsStay` | `FirstConfirmationKept` | |
| `ChangesAreSignalled` | `EveryChangeIsSignalled` | |
| `OnlyBatchesWaitInCircles` | `[]OnlyBatchesDeadlock` | |
| `BenefitsPayOnce` | `[]BenefitPaysOnce` | `OrdersRefinement_proofs` |
| `RewardsAreEarnedOnce` | `[]OneRewardPerMilestone` | |
| `SpendIsAddedUpOnce` | `[]SpendEarnsOneCoupon` | |
| `OrdersImplementBook`, `OrdersImplementBookSpec` | `ImplementsBook`, `Book!Spec` | |
| `BookKeepsItsPromise` | the book's own invariant | `OrderBook_proofs` |

None of these is inductive. Whether `SaveLink` may write `balance + totals`
depends on the balance it read three steps ago. The inductive invariant `Inv`
says what each handler relies on at each place of its code (`HandlerInv`): the
rows it read are locked by it and still are what it read; a checkout's id is
drawn, and its row absent; a link about to write holds all its orders and its
customer. It adds that no two checkouts have the same id (`DraftsDistinct`) and
that absent rows are empty (`RowsIssued`).

The proof that a step of `p` keeps it follows two-phase locking:

1. `StepDisciplined`: `p` leaves the others their places and locks, and writes
   only existing orders and balances it has locked, or its own draft.
2. `OthersRely`: hence what any other handler relies on stays true.
3. `OwnHandler`: after its step, `p` may rely on what its new place says.
4. `RowsStayIssued`, `TotalsStayExact`: the tables still agree, from what each
   of the four writers does (`SaveOrderWrites` ... `SaveLinkWrites`).

The module begins with the typing half (`TypeOK`), action by action.

Signals. A writer's key could be swallowed by `ON CONFLICT DO NOTHING` if it were
in the outbox already, so the invariant is about the keys there (`KeysMatch`):
what each is about has happened to its order and cannot happen again, because a
status is never taken twice (`TransitionsAdvance`) and customer and confirmation
are set once. That the writer finds its order before the change comes from `Inv`.

Deadlock. `LockInv` says which kinds of rows a handler may hold at each place
(`LocksPlaced`), and that the rewards it has are below those it has yet to lock
(`RewardsInOrder`). Rows are asked for in the order: order, coupon, reward,
customer. In a circle each handler is waited for by one that asks for a row of
a kind which he holds. Who holds a customer waits for nothing; if somebody asks
for an order, all that do must be links, which alone hold orders while they ask for
one; failing that, if somebody asks for a coupon, all that do must be daily
expiries; and if all ask for rewards, the lowest one asked for is wanted by
somebody who holds a lower one still, which is asked for too. The property first read
"only links"; the proof failed at two expiries on two instances of the
backend, each of which locks the lapsed coupons in the order in which its plan
finds them. TLC confirmed the circle once the run had two coupons to lapse.

Benefits. `BenefitPaysOnce` alone does not say that the coupon a checkout marks
used was unused, so the invariant adds what is judged under a lock and used later
(`BenefitInv`): a checkout past its coupon holds it, active; every claim it has
locked is somebody's and unused, and before it writes it has locked all of them
(`CheckoutInv`); the daily UPDATE holds only active coupons (`ExpireInv`); nothing
is held between transactions (`IdleInv`). A step takes an active coupon or an
unused reward away only if its handler holds it (`CouponsKept`, `RewardsKept`) and
nobody gets a lock by another's step (`OthersGetNothing`), so this stays true.
Steps other than `SaveOrder` and `SaveStatus` change no link between benefits and
orders (`Quiet`).

Loyalty. `LoyaltyInv` says what a task found under the lock of its customer
(`TaskInv`): the milestones it is about to grant have not been granted this
month, and the orders it has added up are the customer's and later than her last
automatic coupon. No reward is of a month to come (`EarnedByNow`), which is what
lets the month end between the check and the INSERT without a second grant; and
a coupon was paid for by orders of its owner (`PaidByOwner`), so that a link
cannot bring an order to a second customer's coupon.

Refinement. Under the mapping of `OrdersRefinement` the last step of each
transaction is one action of `OrderBook`, whose guard speaks of the book as it is
at that instant: what the handler has judged before is still so by `Inv` and
`BenefitInv`, and what a checkout redeems belongs to its customer
(`OwnersInv`). Every other step leaves the book as it is.

### The event log and its streams

| Theorem | Property |
|---|---|
| `TheLogHasNoHoles` | `[]LogHasNoHoles` |
| `EventsAreToldInOrder` | `[]OrdersAreToldInOrder` |
| `ProcessesTellTheLog` | `TellsTheLog`: each process implements `EventFeed` |
| `ClientsMissNothing` | `[]ClientMissesNothing` |
| `StreamsStayWithinLimits` | `[]StreamsKeepTheirLimits` |
| `StreamsNeedTheirTransport` | `[]NoStreamWithoutTransport` |

`LogInv`: while a process has the advisory lock, the batch it has selected stays
pending and leaves out no event that comes before one of its own in their order
(`BatchIsNext`), though others commit, purge and crash meanwhile; an order's events
are recorded one after the other (`OrdersAreSerial`). `TransportInv`: a distribution under way
has asked for no more than has been called back, and what was answered begins
right after it (`DistributionIsCurrent`). `StreamInv`: the rows sent, pending and queued of
a stream, one after the other, are the log from its cursor (`Sound`), and its
place in the counters is its own (`PlacesAreKept`).

For these proofs the batch of a publication is defined by ranks
(`Rank`, `Batch`) instead of a sorted sequence, and pending heartbeats are counted.

### The back office

A step of `BackOffice` is a step or a stutter of each component, so what is
proved of a component holds of `Spec`.

| Theorem | Property | Argument |
|---|---|---|
| `DefaultsStaySingle` | `[]OneDefaultAddress` | the defaults that a request has read are still those of the owner when it writes (`AddressReliable`): nobody else holds the owner's lock, and a step about one owner spares the addresses of the others (`Spared`) |
| `PromotionsStayApart` | `[]OnePromotionPerDay` | a row that has been found to overlap no other still `FitsBeside` them when it is saved, since `promotionsLock` has one holder |
| `RegistrationsAreKept` | `[]RegistrationsHold` | a PATCH that is about to write knows that its generation is not revoked, since only the holder of the customer's lock can revoke it (`FcmReliable`) |
| `CleanupsSpareTheLiving` | `CleansOnlyDeadTokens` | the tokens that a clean-up carries stay unregistered, and only it takes tokens when it ends |
| `AccountsStayApart` | `[]AccountsAreNotMerged` | `Unmerged`: the UNIQUE indexes decide between overlapping inserts, and whoever has tokens has known the secret |
| `AdminsAreKeptOneByOne` | `[]AdminsAreLostOnlyTogether` | as long as no two changes of roles have overlapped, the one in progress leaves an administrator other than its target (`OneChangeAtATime`) |
| `ProgressAgreesWithRewards` | `[]ProgressIsAligned` | what a progress query has read so far is still so, unless something has disturbed it (`ProgressReliable`) |
| `DeliveryHasOneFee` | `[]OneFeePerSpot` | what has been found permitted under the advisory lock still is when it is written (`ZoneReliable`) |
| `ClosingsAreTold` | `[]CustomersHearTheLastClosing` | what a closing alone has found is what the customers were last told (`ClosingReliable`), seeds and configurations of coupons notwithstanding |
| `LastDefaultStays` | `[]OneDefaultUnlessStale` | `DefaultsInv`: between two steps there is one default, or somebody is still to clear the others |
| `LinksFollowTheAdmin` | `[]LinksAreThoseAssigned` | a request alone in the catalog saves the options that its product still has (`RequestReliable`) |
| `BannersStayInOrder` | `[]BannersAreInOrder` | every row has passed `assertValidDates()` as a whole, and a reordering writes at its COMMIT only |
| `AppKnowsWhenToAsk` | `[]AppKnowsTheHours` | an instant is so many ticks into a day of Lima (`TimeInLima`), only the hours of this day and the one before can contain it (`OpenOnTwoDays`), and what opens within a week opens on a day that `getNextChangeAt` looks at (`OpensInBetween`); the least of them comes before all others |
| `RequestsAreGuarded` | `[]RequestsDoWhatTheyMay` | every request arrives at its own route and nowhere else (`RouteArrives`): in its table no line before it matches (`LaterDiffer`), and of two tables each path of one has a word that no path of the other has there (`ElsewhereNotIn`). Whoever has got past the guards had the role that the route asks for at some time since the request came in, whatever its token says: the roles are those of the row looked up at this request (`AccessInv`) |
| `CustomersAreToldOnePrice` | `[]EveryoneIsToldOnePrice` | the menu and the charge of an item add up the same prices (`PromiseIsKept`), a share of an amount is rounded to its nearest cent and is no more than it (`NearestCent`, `DiscountIsFair`), and what is stored says the total again (`ChargeIsFair`) |
| `LinkedSalesKeepCustomers` | `LinkingKeepsCustomers` | the tables before and after are `SaidAlike`: they differ in an account only, and not in whose customer a sale is; no sale by app is ever linked, as it has an account (`SalesInv`) |
| `FiguresOfOneShop` | `[]ReportsAgree` | a sum is the number of the units it is made of (`SumCountsUnits`), so that it is compared with others by comparing sets of sales; sales only come and are delivered once (`GrowsTo`), so what was read of today stays a part of what is read of the week later (`GoodReads`) |
| `GeneratedCouponsAreConfigurable` | `[]GeneratedCouponsAreSound`, and `GetAutoCouponConfig \in AutoConfigs` | whichever keys a configuration under way has written, the ones that `getAutoCouponConfig` reads together are refused or make sense (`CouponConfigInv`) |

`AppKnowsWhenToAsk` is about arithmetic for weeks and days of any length. Its attempt
found an error of the model: the reference definition `OpenAt` began with the
day before the week, while with Lima behind UTC the hours of the day before that
one, past midnight, still reach into it. The run now has an offset where this
matters.

`SumFunction` of the community modules is a recursive function over a set. That it
adds up the values is itself proved (`SumIsWhatGrows`), for sets of any size, without an
induction theorem: if two ways to add up differed, they would differ on a set of the
least size, and the step there is one of the recursion.

### The geometry of zones

| Theorem | Property |
|---|---|
| `DrawingsAreKnown` | `[]DrawingsInv`, the inductive invariant: what has been drawn is a triangle with an area, or a simple quadrilateral (`Simple4`) |
| `PointsAreInTriangles` | `[]InsideIsInATriangle` |
| `TouchingIsNotOverlapping` | `[]SharedBordersAreAllowed` |
| `PolygonsStayRegions` | `[]PolygonsAreRegions`, both |

These are about the algorithms of `polygon.util.ts` more than about steps, for grids
of any size, and need multiplication, of which the solver knows little. So the signs of
products are stated once, of numbers that have names (`Signs`, `Balanced`, `Flat`), and
everything after that is about signs.

Seen from a point, an edge is two vectors; twice the area between them (`Det`) tells on
which side of the edge the point is. Parity: the ray from a point crosses an odd number
of the edges of a triangle exactly if the three `Det` agree (`TriangleParity`). A ring of
four vertices that `deliveryPolygonError` lets pass has a diagonal with a vertex on
either side (`OneDiagonalCuts`); its edges are those of the two halves, and the diagonal
is crossed twice or not at all (`QuadrilateralParity`). The proof uses that rings
that go back on themselves at a vertex are refused (`Spike`): at any other corner
without an angle the two edges have everything on the same side (`StraightCorner`).

Overlap. `deliveryPolygonsOverlap` says yes for one of four reasons, each of which shows two
triangles that no side separates (`OverlapIsShared`): a vertex of the first polygon,
or the middle of a part of an edge of it, strictly inside of the second (`EdgeMeets`, with
`MidpointsAreOnEdges`); coincident edges with the interiors on one side (`EdgesMeet`),
where a point strictly between the ends of both has a neighbourhood in both; a vertex of
the second one strictly inside of the first (`VertexMeets`), which may lie on the diagonal
along which the first one is cut (`DiagonalPoint`). All end at the same fact: a line
through an interior point has vertices on both sides (`InteriorBeside`).

### What is not proved

Liveness needs fairness and ENABLED, which this prover cannot handle:
`RequestsEnd`, `EveryEventIsPublished`, `StreamsCatchUp`, `RevokedStreamsEnd`.
`CommonInteriorsAreFound`, that no overlap is missed when both orders are tried: it
says that borders that nowhere enter the other polygon enclose nothing of it, for
which signs of products alone give no witness. TLC draws all pairs. Nor does a
theorem speak of more than four vertices: the triangles of a ring, which say what
its inside is, would have to be found by recursion over the ring.

## Plan

Modelled and checked: all modules above. To prove next:

1. `CommonInteriorsAreFound` for two triangles, by the sides that cut each other.
2. `TouchingIsNotOverlapping` for two quadrilaterals: its proof takes the second
   polygon to be a triangle, as the run does.

To check next: that the cron eventually makes up for a lost generation.

## Not modelled

* Listing and tracking of orders, coupons, addresses and notifications: queries
  that change nothing and whose answers no property is about.
* Texts of messages and pushes (but for amounts), the history of campaigns, and
  their audience; the campaign of coupons, which inserts coupons like
  `GenerateManual`, for many customers in one statement.
* Floating point in the geometry: `Polygon` is exact, where the code compares with a
  tolerance of 1e-10.
* Geocoding, image storage, Firebase and Google sign-in: remote services, seen
  only through their answers and failures. Signatures of tokens.
* `findActive` of the banners, the seed of the fries types, the settings that are
  looked up with a default and written by nobody but `PATCH settings`.
* The normal form of a phone, configuration, migrations, DTO decorators but for
  those whose bounds a model uses.
