# FoodFlowAPI in TLA+

A verification project for the FoodFlow back end (TypeScript, Express, Prisma on PostgreSQL, Redis). The
modules are translated from `src/`; documents and tests are used only as the source of claims.

## 1. Inventory

All services are stateless request handlers over one PostgreSQL database. A handler awaits several queries
and then, usually, one `prisma.$transaction` (READ COMMITTED, no version columns, no `SELECT ... FOR
UPDATE`). **Any other request may commit between two awaits**; that is where the hard behaviour of this
system lives, and no test of the repository runs two requests at once.

| component | state | operations | hard behaviour | what makes it correct |
|---|---|---|---|---|
| orders (`modules/orders`) | Order.status, riderId; OrderStatusHistory | createOrder, updateOrderStatus, cancelOrder | validate-then-write on a stale status | statuses move along `ALLOWED_TRANSITIONS`; terminal statuses are final; the audit trail explains the status |
| deliveries (`modules/deliveries`) | Delivery.status, riderId; writes the order too | assignDelivery, updateDeliveryStatus | bypasses the order state machine; two copies of the rider | both riders agree; deliveries move along their graph; only the assigned rider acts |
| payments (`modules/payments`) | Payment.status, Refund rows; the gateway's own state | initiatePayment, processWebhook, processRefund | late, repeated and reordered webhooks; a gateway call outside the transaction; idempotency keys | no status without an accepted webhook; no settled payment leaves its order waiting; recorded refunds were paid; one payment per order |
| carts (`modules/carts`) | Cart.restaurantId, CartItem rows | add, update, remove, clear | several writes without a transaction | one restaurant per cart; nothing ordered twice |
| auth (`modules/auth`, `modules/users`) | RefreshToken rows, User.status | login, refresh, logout, logoutAll, changePassword, suspend | rotation reads before it writes; reuse detection | a revoked session stays revoked |
| rbac, staff (`modules/rbac`, `modules/restaurants`, `authorize.ts`) | Role, UserRole, RolePermission, RestaurantStaff; cached answers in Redis | create, assign, remove, replace permissions, check | count-then-delete; the cache is filled and emptied beside the tables | a SUPER_ADMIN remains; nobody is admitted on more than he holds |
| jobs (`modules/jobs`, `worker.ts`) | a Map, timers | enqueue, processJob, retryJob, registerWorker | retries, timers, restarts | one activation at a time; no retry forgotten |
| caching (`modules/caching`, `infrastructure/cache`) | Redis entries with a TTL | getOrSet, invalidate | fetch-then-set races invalidation; a scan fails half-way | entries are true but for known causes |
| coupons (`modules/coupons`) | Coupon rows; amounts computed in floating point | create, update, toggle, validate | check-then-create; partial updates; roundings, caps | a code keeps its restaurant; what is off stays off; quotes are sound and grow with the subtotal |
| addresses (`modules/addresses`) | Address rows, one isDefault | create, update, setDefault, delete | reads before the transaction; a bulk update that misses what commits meanwhile | one default, and always one while there are addresses |
| reviews (`modules/reviews`) | Review rows; Restaurant.rating | create, update, delete, recalculate | sum read first, written last | the rating is that of the reviews |
| restaurants, menus, discovery, notifications, audit logs | single rows | create, read, update, delete | little | |
| middleware, policies | none | authenticate, authorize, rate limits | authenticate loads no roles | |

Interactions: orders, deliveries and payments share the Order row and the audit trail; checkout turns a cart
into an order; suspension revokes sessions; every service receives `req.user` from `authenticate`.

## 2. Plan

In the order of what matters most; all of it is done.

1. **Fulfilment**: `OrderStateMachine` -> `OrderTables` -> `Orders`, `Deliveries`, `Payments` ->
   `Fulfilment`, which implements the abstract `PaymentLife`, with `FulfilmentProofs` and the claims of the
   documents.
2. **JobQueue** implements the abstract `JobLife`, with `JobQueueProofs`.
3. **Checkout**: `Carts` -> `Checkout`, which implements the abstract `Purchase` but for overtaken requests,
   with `CheckoutProofs`; overlapping requests of one customer.
4. **Sessions** implements the abstract `SessionLife`, with `SessionsProofs`; overlapping requests on one
   account.
5. **Access**, with `AccessProofs`; roles, permissions and their cache, overlapping requests.
6. **Catalog**, with `CatalogProofs`: restaurant rows, their cache, and ratings under overlapping reviews.
7. **Coupons**: `Pricing` -> `Coupons`, with `CouponsProofs`.
8. **Addresses**, with `AddressesProofs`.

Left: staff rows that change under an order update; a refinement for any overlap of the abstract order
(status, audit trail and delivery together), which `Fulfilment` states as separate action properties.

## 3. Modules

| module | models | correspondence |
|---|---|---|
| `OrderStateMachine` | `order-state-machine.ts` | pure operators; a thrown error is FALSE |
| `OrderTables` | the shared rows, `req.user`, handlers | `order`, `history`, `payment`, `refunded`, `refundKeys`, `delivery` are tables; `webhooks` are the events of webhooks the signature check accepts, `moved` belongs to the external gateway; `req[h]` is what handler `h` has read |
| `Orders`, `Deliveries`, `Payments` | the three services | one action per stretch of code between two awaits that matter; a `$transaction` is one action |
| `Fulfilment` | the composition | next-state relation, fairness, all properties, the inductive invariant |
| `MCFulfilment` | small instances | Alice orders from Olga's restaurant; Rita and Rob ride |
| `FulfilmentClaims` | claims of documents, messages and tests | each refuted by one run |
| `FulfilmentProofs` | proofs | |
| `PaymentLife` | what the payment service promises | abstract, per order: a payment is created once, settled only by an accepted webhook event, and each refund the gateway paid is recorded at most once and moves the status by itself; requests, keys and the order are hidden |
| `Carts`, `Checkout`, `MCCheckout` | `carts.service.ts`; `createOrder`, menu edits and restaurant status | `restaurant`, `items` are the customer's Cart and CartItem rows, `menu` and `active` what the restaurants and administrators write, `placed` the orders; `req[h]` as above, one action per query |
| `Purchase` | what the cart and the orders are to a customer | abstract: a basket of one restaurant, with an item at most once, that an order takes as a whole; only an item that leaves the menu leaves baskets and orders; requests, their queries and the cart's `restaurant` column are hidden |
| `CheckoutProofs` | proofs | |
| `JobQueue`, `MCJobQueue`, `JobQueueProofs` | `job-queue.manager.ts` | `jobs` is the Map, `scheduled` counts pending callbacks, `running` the awaited handlers |
| `JobLife` | what the job queue promises | abstract, per job: attempts one at a time within the limit, given up only when all are made, over once it succeeded; timers and handlers are hidden; a restart forgets every job |
| `Catalog`, `MCCatalog`, `CatalogProofs` | `restaurants.service.ts`, `reviews.service.ts`, `cache.manager.ts` | `row`, `reviews` are tables, `cache` the entries `foodflow:restaurants:*`; `stale`, `owed` and `overtaken` are history: keys whose entry nobody will delete, restaurants whose rating nobody will correct, requests whose reads no longer hold; `req[h]` as above |
| `Pricing` | rounding, and the discount of `validateAndCalculateDiscount` | pure operators over cents |
| `Coupons`, `MCCoupons`, `CouponsProofs` | `coupons.service.ts` | `coupon` is the table by code, `now` the clock, `req[h]` as above; `quotes` is what a validation would answer now |
| `SessionLife` | what authentication promises | abstract: a session begins in an account that is not suspended, ends once, stays ended; an *exposed* account breaks that for a session at a time, until all its sessions are ended together |
| `Access`, `MCAccess`, `AccessProofs` | `rbac.service.ts` behind `authorize.ts`; the role `createRestaurant` assigns | `userRoles`, `roles`, `grants` are tables, `cache` the Redis entries; `stale` names the users whose entry is old and will not be deleted, `overtaken` the requests whose reads no longer hold; `req[h]` as above |
| `Addresses`, `MCAddresses`, `AddressesProofs` | `addresses.service.ts` | the rows of one user: `addresses` are their ids in the order of creation, `defaults` those with isDefault; `req[h]` as above |
| `Sessions`, `MCSessions`, `SessionsProofs` | `auth.service.ts`, `updateUserStatus` | `token[u][s]` is user `u`'s RefreshToken row signed in second `s`; `status`, `password` are User columns; `now` is the clock; `req[h]` as above |

Modelling decisions.

* **Transactions.** The first row a transaction writes stays locked until commit, and every later writer of
  that row waits, so a transaction that reads nothing it has not locked is one action. The webhook's
  succeeded transaction locks the payment, then reads the *unlocked* order row, then may write it: it is two
  actions (`LockPaymentReadOrder`, `CommitPaid`) and `paymentLocked` holds the other writers of that payment
  back. The two delivery transactions lock the same two rows in opposite orders; PostgreSQL aborts one of
  two that cross, which is `Abandon`.
* **Overlap.** Most rules of this code do not survive every interleaving, and saying that they hold for one
  request at a time would say little about the server. Their properties are therefore stated for any
  overlap, and name the only steps that may break them: those of a request that was *overtaken*, one whose
  reads no longer hold (`isFreshRead` says, read by read, what that is). Where the step itself shows it, the
  property compares the read with the rows at that step (in `Fulfilment`, `Checkout`, `Addresses` and
  `ChainIsKept`); where its effect is noticed later, a history variable remembers it (`overtaken` in
  `Sessions`, `Access` and `Catalog`, which no guard reads). In `Checkout`, `Sessions` and `Addresses`,
  `ReadsHold` says that a request's own steps do not overtake it, so that the exception is empty for
  requests that do not overlap: a model whose requests overtake themselves violates it.
* **Crashes.** `Abandon(h)` ends a handler at any point with nothing more committed. What it had committed,
  and what the gateway had done, stays.
* **Webhooks.** The route authenticates nobody (payments.routes.ts:12), and `verifyWebhookSignature` accepts
  an HMAC under a secret that the code contains, or the constant that tests/payments.test.ts:56 asserts it
  accepts (mock-stripe.gateway.ts:47-59). `SendWebhook` therefore lets anybody send any event with either
  signature, for any order that has a payment and in any order of events: **no property assumes or shows that
  an event comes from the gateway, and PAID does not mean that the gateway captured anything**, although
  docs/Rules.md:970 says "Never trust payment status supplied by clients.". What the properties show starts
  at the check: no status without an event that passed it. Accepted events are a set that never shrinks, so
  they arrive late, repeatedly and in any order.
* **Refunds.** A refund call moves money at once and answers with a random id (mock-stripe.gateway.ts:38),
  here one that no refund bears yet; `moved` and `refunded` are sets of such refunds, so that what is
  recorded can be compared with what was paid, refund by refund.
* **Roles.** `authenticate.ts` selects no roles into `req.user`; `userContext` therefore has none and no
  user is an administrator, although `isAdmin` and the rider role are in the rules as the code has them.
* **History.** Only the newest `OrderStatusHistory` row of each order is kept: every property about the
  trail is about the row a step appends and the status it explains.
* **Amounts** are small integers; `Total` is the order's amount. Rounding and formatting are left out.
* **Nested reads** (`include`) are one read. Prisma issues one query per relation; only `fromStatus` of an
  audit row could come from a slightly later moment, and the invariants do not depend on it.
* **Carts.** One customer: no query of the cart reads another customer's rows. `addToCart` and
  `removeCartItem` use no transaction, so each of their queries is an action and `Abandon` may follow each.
  A deleted menu item or category takes its rows in carts *and in placed orders* along, as the foreign keys
  say. Row ids are never reused while anything refers to them (cuid). Categories are sets of items because
  `updateMenuItem` does not check whose category it is given (menus.service.ts:223).
* **Sessions.** A refresh token is the signature of its user and second, nothing else, so two issued in one
  second are equal and the second meets the unique `tokenHash`: that login or rotation fails. Signing and
  storing are one action. Expiry is the JWT's own; the column `expiresAt` is never read. Access tokens are
  never revoked: until they expire they act for any status but SUSPENDED and INACTIVE. Login and refresh
  test SUSPENDED alone, so an INACTIVE account logs in again and then cannot do anything. User rows are
  never deleted. The fields `root` and `password` of a row and the sets `unfinished` and `overtaken` are
  history for the properties: the login a token descends from, the password of that login, the users whose
  revocation was due when its request died, and those who got a token from an overtaken request since the
  last revocation. The uniqueness of telephone numbers is left out.
* **Access.** Any Redis command may fail and any entry may expire, as the code ignores the one and sets the
  other; `updateUserStatus`, which also deletes entries, is covered by that. A route's permission check and
  its handler are one request. Looking for an existing row before inserting one is left to the table's
  uniqueness, which refuses the insert anyway. `updateRolePermissions` deletes the rows its statement sees
  and inserts its own later; a replacement that commits in between (the request's own field `overtaken`)
  leaves its rows, and the insert fails on a row both name. The nested reads of `getUserRolesAndPermissions`
  are one read: a commit between them overtakes the read in the model as well. The SUPER_ADMIN `Root` is
  provisioned by hand: the seed creates roles, permissions and grants but no user. Roles are never deleted;
  the role a new account gets at registration precedes its first request and is left out, and so is
  `requireRole`, which no route uses.
* **Catalog.** What an owner edits is one value. A rating is represented by the reviews it is computed from:
  average and count are functions of them. A list is asked for by status; search, cuisine and paging only
  select from it. SCAN returns what is there from its start to its end; it may also return what came later,
  whose deletion is `Expire`, as are the administrators' invalidations and the TTL. A list's count and rows
  are two queries but one read here: a commit between them overtakes the read in the model as well. The
  check of the owner before an update is itself a cached read, `Fetch`, and a restaurant's owner never
  changes; the names of the owner inside an entry are left out. Orders not delivered, or of somebody else,
  are refused a review without effect and left out.
* **Addresses.** One user: no query reads another's rows. The ids are in the order of creation, which is
  what `deleteAddress` orders by. READ COMMITTED lets `updateMany` take the rows it saw when it started and
  check each again once it has its lock, so its start (`seen`) and its effect are apart. A delete that waits
  to promote a successor holds its row; `isFree` makes the other writers of that row wait. A row that is
  gone rolls the transaction back. Columns other than `isDefault` are left out.
* **Coupons.** Amounts are cents and percentages hundredths of a percent, the two decimals of the columns.
  `Math.round(x * 100) / 100` is the nearest cent; of a tie the double may lie on either side, so both cents
  are possible answers.  A validation only reads one row, so it is an
  operator, judged in every state. The subtotal is the client's own and is taken to have two decimals, which
  the schema does not ask. The redemption limits refuse nothing: they compare positive numbers with counts
  that no code ever raises. Every coupon is a restaurant's, because a platform-wide one needs an
  administrator. An update gives fields values but cannot remove a cap or an end.
* **Refund keys.** The empty string, which the code treats as no key in one place and stores in another, is
  left out; so is a payment key shared by two orders.

## 4. Runs

| run | instance | checks |
|---|---|---|
| `fulfilment` | 1 order, 2 users, 2 handlers, no refunds | `TypeOK`, `HistoryExplainsStatus`, `RiderAgreement`, `PaymentFollowsWebhooks`, `TerminalStands`, `NoSettledOrderWaits`, `DeliveryFollowsGraph` |
| `payments` | 1 order, 2 handlers, 1 key, 2 refunds of 1 or 2 each of a payment of 2 | `RefundLedger`, `RefundStatusBacked`, `CaptureIsNoticed`, and that the service implements `PaymentLife` |
| `checkout` | 1 customer, 2 overlapping requests, 2 restaurants, 2 items, 2 row ids, 2 orders | `TypeOK`, `OneRestaurantKept`, `OrderedOnceKept`, and that every step is one of `Purchase` but for overtaken requests (`PurchaseKept`) |
| `sessions` | 1 user, 2 passwords, 2 overlapping requests, 3 seconds, refresh life 2, access life 1 | `TypeOK`, `OneLiveToken`, `PasswordEndsSessions`, `SuspendedHasNoSession`, `ChainIsKept`, and that `Sessions` implements `SessionLife` |
| `access` | 2 users, 2 roles of which one is yet to be created, 1 permission, 8 calls, 2 overlapping requests | `TypeOK`, `CacheTellsTheTruth`, `SuperAdminRemains`, `AdmittedIsEntitled` |
| `catalog` | 1 restaurant, 1 profile, 2 statuses, 1 list, 1 order, 1 rating, 2 restaurant requests, 2 review requests | `TypeOK`, `EntriesAreTrue`, `RatingFollowsReviews` |
| `addresses` | 4 addresses ever created, 2 overlapping requests | `TypeOK`, `OneDefault`, `DefaultStays` |
| `coupons` | 1 code, 2 restaurants with an owner each, 2 handlers, 2 offers, 6 updates, 2 instants, 8 amounts | `QuoteIsSound`, `MoreNeverCostsLess`, `CouponStaysItself` |
| `job_queue` | 2 jobs, 2 queues, 1 or 3 attempts | `TypeOK`, `OneActivation`, `RetryIsArmed`, `DueJobSettles`, and that the queue implements `JobLife` |

Bounds. Every rule of the code relates rows of one order, so one order is enough; two handlers give every
pairwise race (a read of one before and a write after the other's), and the theorems cover any number of
orders, users and handlers. Two users suffice where users only matter as the rider's identity. One key
suffices because a race on keys needs equality only. `RefundIds` stops TLC from paying back for ever: two
refunds give both races (of one key, and of two keys), and a third adds no pair. The code itself has no such
limit. Handlers are interchangeable, so the larger safety runs use symmetry; runs with liveness do not.

`TerminalStands` and `DeliveryFollowsGraph` are what the code's validation promises, and two overlapping
requests break them (below). They are stated for any overlap by naming the one way out: the commit of a
request that was *overtaken*, one whose order status (or delivery status) is no longer the one it decided
on. Every other step, and every request that is not overtaken, keeps them; with one request at a time
nothing is overtaken.

`NoSettledOrderWaits` has no such exception: the webhook reads the order without a lock and confirms it, or
leaves it alone, by what it read, and yet no order stays in PENDING once its payment is settled, because no
service ever takes an order back to PENDING.

`checkout`. Two requests of the customer overlap with each other and with what restaurants and
administrators write, and die between any two of their queries. `OneRestaurantKept` allows a mixed cart only
to an overtaken step of addToCart or removeCartItem, `OrderedOnceKept` a row ordered twice only to an
overtaken createOrder. `PurchaseKept` says what a step may be at all: a step of `Purchase`, or one the
customer does not see, for every cart of one restaurant; an overtaken createOrder (which may order what has
left the cart and wipe what it does not order) and an overtaken addToCart (which may create a row of another
restaurant) are all it excepts. The items are of two restaurants, which gives the clash; two row ids and two
orders give rows that are wiped, ordered and added again. With `MaxQuantity` 1 and one price the run has no
increment of a row and no change of its quantity; with `MaxQuantity` 2 and one request at a time TLC checks
them too, `ImplementsPurchase` included (28 176 states, passes), and the theorems hold for every quantity,
price and number of requests.

`sessions`. A rotation that has read its token before a logoutAll, a password change or a suspension stores
a live successor after it; two rotations of one token both succeed (auth.service.ts:239 revokes whatever the
row says by then) and leave two live tokens; a login races a suspension in the same way (:171). Each puts
the user into `overtaken` and, in `SessionLife`, exposes the account; the next revocation of all tokens
takes him out again, and everything else in the run keeps the promises. One user suffices because no query
reads another user's rows. Three seconds give a login, a rotation and a reuse, or two rotations; the lives
are such that a refresh token expires within the run and an access token expires before its refresh token
does.

`access`. Two removals that both count two SUPER_ADMINs leave none (rbac.service.ts:179-197), although the
comment at :178 says "Prevent deleting last SUPER_ADMIN"; `SuperAdminRemains` allows that to a removal whose
count was overtaken, and to nothing else. An answer read before an assignment or removal is cached after
that has deleted the entry (authorize.ts:42, :72): an overtaken read makes its entry `stale`, as do a death
between two queries, a failure of Redis, and `createRestaurant`, which never deletes its caller's entry.
`Asked` bounds the calls to eight: appointing a second SUPER_ADMIN, removing either by the other, giving,
changing, taking away and creating a role, and a restaurant; with them every handler, and every pair of
handlers that touches the same rows, runs.

`catalog`. Two reviews of one restaurant that overlap write their sums in either order
(reviews.service.ts:223, :232); the one whose sum is old marks the restaurant `owed`. The restaurant
requests give a fetch against an update and two scans against each other. One restaurant suffices because no
query of these services relates two; one order and one rating give the restaurant two ratings. One profile
suffices because a change of status goes through the same commit and the same scan as a change of the
profile, and is visible in both kinds of entry; a second profile multiplies the states by seven and adds no
path.

`addresses`. Four creations give two addresses that race for the default, one deleted meanwhile, and one
created while a successor is looked up.

Why `coupons` has so few codes and so many amounts: no query relates two codes, one suffices for two owners
to race for. The amounts lie at the edges: 15% of 10 and of 30 cents are ties, 5 and 11 lie next to a
minimum of 10 and a fixed discount of 5, 3 is a cap that binds, 15000 a percentage of 150 and a subtotal of
which 15% is whole. The updates change type, value, cap, end and status apart, so every mixture of two
offers arises. Two instants give before, at and after an end. The theorems cover any amounts and any number
of handlers.

Fairness (`payments`). A handler does not hang: an awaited query returns or the handler dies. Whoever sent a
succeeded event sends it until it is acknowledged, as a payment gateway does, and its handling does not die
at the same step for ever (strong fairness). Customers, owners and riders owe nothing. In `job_queue` the
event loop runs due callbacks and handlers settle (the registered ones return at once); enqueue, retryJob,
registration and restarts owe nothing.

### Claims the code does not keep

| run | claim | what happens |
|---|---|---|
| `claim_transition_allowed` | docs/PRD.md:540 "The system must prevent invalid state transitions" | any user assigns himself to a PENDING, DELIVERED or CANCELLED order: `assignDelivery` never asks the state machine |
| `claim_webhook_idempotent` | docs/Design,.md:991 "Webhook processing must be idempotent" | the event of a refunded payment, delivered again, makes it PAID |
| `claim_refund_key` | docs/Architecture.md:1093 idempotency "prevents duplicate side effects caused by retries" | two requests with one key both reach the gateway; one is recorded |

`Purchase` has to allow a further one (`Withdraw`): docs/Rules.md:918 says "Orders are immutable historical
records.", and deleting a menu item erases its line from placed orders (menus.service.ts:250, by the foreign key).

The same stale reads have further consequences that have no run of their own: two status requests read
PENDING, one cancels and the other then confirms, although order-state-machine.ts:53 says "Cannot transition
order from terminal status"; two overlapping addToCart requests claim an empty cart for two restaurants and
both create their rows (carts.service.ts:116), although docs/PRD.md:473 says "One Cart = One Restaurant";
two overlapping updates of a restaurant take each other's columns back (restaurants.service.ts:222); a
delivery update validated before a competing one takes a finished delivery backwards
(deliveries.service.ts:183); a rider replaced between the read and the write still updates; a payment row is
created for an order cancelled while the intent was being created (payments.service.ts:60); two overlapping
createOrder requests turn one cart into two orders (orders.service.ts:19, :96), and rows added after the
first read are wiped unordered (:138); an increment is lost (carts.service.ts:134-137).

Noted while translating, without a run: docs/Rules.md:1039 says "Cache invalidation must occur when relevant
data changes", but neither a new rating (reviews.service.ts:232) nor a new restaurant
(restaurants.service.ts:54) deletes an entry, which `EntriesAreTrue` therefore excepts as `stale`; a failed
payment cancels an order without a history row (payments.service.ts:148), which `HistoryExplainsStatus`
therefore excepts; no request carries roles (authenticate.ts:52), so administrators are refused although
tests/order-lifecycle.test.ts:297 "should allow admin to confirm a PENDING order" builds a context that has
them; an order is placed at the cart's `unitPrice` although docs/PRD.md:478 asks that prices be validated
against the menu's current price; an order can be placed at a restaurant that stopped taking orders after
the item was added (carts.service.ts:94 is the only check); createOrder reads the delivery fee again
(orders.service.ts:89), so an owner who changes it after the customer saw the cart changes what the order
asks for, and nothing compares the two; createOrder stores `discount: 0`
(orders.service.ts:106), so a coupon's quote is never applied, and nothing writes the usages that
docs/Phases.md:976 wants "tracked safely"; a percentage above a hundred is accepted (coupons.schema.ts:12)
and quotes a discount above the subtotal, which `QuoteIsSound` therefore excepts; createOrder never asks for
the restaurant's `minOrderAmount`.

## 5. Proofs

`FulfilmentProofs` proves for all constants that satisfy the named assumptions (`NullIsNoValue`,
`PartiesAreUsers`, `AmountsArePositive`): type correctness, all safety invariants and action properties of
the two runs under any overlap, that the services implement `PaymentLife`, and `RecordedEdgesAreAllowed`:
what the order service and the webhook record are edges of the graph, whatever the order's status did
meanwhile.

The inductive invariant `IInv` adds `InFlightKnows` to the checked invariants: what a handler has read and
*no other request can take away*. A validated edge stays an edge; an accepted event stays; a
delivery row once found stays. Without it `CommitOrderStatus` could append any row and `CommitPaid` could
set PAID without an event. What other requests *can* take away (the status that was read) is exactly what
the refuted claims rely on, and what `overtaken` names in the action properties: `CommitEnds` and
`StatusStep` show that a commit which is not overtaken writes what its validation allowed. Each action has a
lemma-sized case; `TypeOK` is proved first, service by service.

`RefundLedger` carries its own strengthening: beside the rows it speaks of the requests that are about to
record (`recording`). What such a request holds was paid and is not recorded, because it holds the id the
gateway gave to it alone (`unusedIds`); without this part two requests could record one refund and the
invariant would not be inductive. `GatewayRefundLedger` (a fresh id) and `CommitRefundLedger` (the one that
records leaves `recording`) are its two cases; every other step leaves the three sets alone (`LedgerKept`).

`PaymentsHaveOneLife` maps every step of the three services to a step of `PaymentLife` or a stutter: the
commits of a payment, a settlement, the gateway's answer and a recording are its actions; reads, order and
delivery steps stutter, and so does a second `initiatePayment`, whose insert fails. Settling needs
`InFlightKnows` (the event was accepted), recording needs `RefundLedger`, an accepted event needs
`AttemptsHavePayment` (a payment row is never deleted).

`SettledOrdersMoveOn` needs `ReadsOutlast` beside the invariant: a refund in flight found a settled payment,
and a webhook that will not confirm found an order that had left PENDING. Both reads outlast whatever the
others commit: nobody resets a payment (the unique `orderId` refuses a second row), and no edge of the graph,
dispatch or payment leads back to PENDING (`PendingIsLeftForGood`).

`NoOverlapIsOrderly`: while no two requests are in flight together (`OneAtATime`) the exceptions of the
action properties are empty. Orders and deliveries move along their graphs and every audit row starts from
the status the order had, except that dispatch and a failed payment still bypass the graph, which no overlap
is needed for. `ReadsCurrent` is the invariant under that hypothesis: nobody but the request itself has
written what it read.

`CheckoutProofs` proves `TypeOK` and the three action properties of the run for any number of overlapping
requests, and for a customer who waits for each answer (`OneAtATime`) that carts and orders are of one
restaurant, rows are ordered once, and the code implements `Purchase` (`OneRestaurantPerOrder`,
`RowsAreOrderedOnce`, `OneCustomerPurchases`), for all menus, prices, categories and quantities. The first
two action properties need only `TypeOK` and that a cart's rows are on the menu: a step either keeps the rule
by what the request has read, or that read is not fresh. `PurchaseIsKept` needs `LinesInvariant` too: a
request that is about to order has read a cart that is not empty. The foreign key lets the order commit only
when every item read is still on the menu, so that a fresh read is the whole basket, and that is what is
ordered and wiped. The invariant of the
customer who waits adds `FreshReads`: what a request has read still holds when it writes, because nobody
else writes the cart but the cascade of a deleted item, which removes the row and the menu item together.

`SessionsProofs` proves all six properties of the run for any number of overlapping requests, users,
passwords, lives and clocks. Its `IInv` adds `RowsAreOwned`: only registered users have tokens, and the
login of each is still there. A fresh rotation finds its token live and without a live successor, which
keeps the chain from forking; an overtaken one puts its user into `overtaken`, where the invariants ask
nothing until the next revocation. In the refinement a stored token begins a session or exposes the account,
the revocations end some or all of a user's sessions, `CreateUser` and `UpdateUserStatus` change the status,
and a fresh rotation, which hands a live session on, is a stutter like all the reads. `OneIsNotOvertaken`:
with `OneAtATime` the exceptions are empty.

`AccessProofs` proves all properties of the run for any number of overlapping requests, users, roles,
permissions and seeds. Its invariant adds `ReadsHold`: what a request that nothing has overtaken has read is
so, that is, the answer it is about to cache is the tables' answer and its removal leaves a SUPER_ADMIN. The
step of one request keeps this for the others because whoever's read it makes untrue enters `overtaken`. A
step keeps the cache true if every user whose answer changes is due for deletion or marked stale; for the
replacement of a role's permissions those are exactly the role's holders. `LastSuperAdminStays`: with
`OneAtATime` there is always a SUPER_ADMIN.

`CatalogProofs` proves the three invariants for any number of overlapping requests of either kind, for all
restaurants, profiles, statuses, queries and orders. `ReadsHold` again carries the argument: an answer that
was not overtaken is still the database's when it is cached, a sum that was not overtaken is still the
reviews' when it is written. A commit either makes every key due, or marks the entries it changes; and
`updateRestaurant` writes only its own columns, so it leaves ratings alone. `OneReviewerIsNotOvertaken`:
while review requests do not overlap no sum is old when it is written, so that only a death leaves a rating
wrong.

`AddressesProofs` proves the three properties of the run for any number of addresses and overlapping
requests. What `isFreshRead` says is what each case needs: a bulk update that saw every default leaves one,
and a fresh deletion promotes its only successor; `ReadsHold` is proved beside it. `DefaultStays` needs in
addition that no address succeeds itself, which is why `TypeOK` says so. `AloneOneDefault`: with
`OneAtATime` there is never more than one default, and it is given up only by an update that says so.

`CouponsProofs` proves `TypeOK` and every property of the run, for all codes, restaurants, amounts, offers,
updates and any number of overlapping requests. `TypeOK` is the inductive invariant; it includes that a
coupon which an update has found is still there when it is written. The two properties of quotes rest on
`RoundedIsNear`: a rounded amount is within half a cent. Hence a share of at most a hundred percent is at
most the whole (`ShareOfWhole`), and between two subtotals it grows by at most their difference
(`ShareGrowsSlowly`): below a hundred percent the share grows by strictly less than the subtotal, so half a
cent of rounding at either end cannot make it grow by a cent more. A cap or a bound by the subtotal keeps
both (`DiscountIsSound`, `AnswersGrow`).

`JobQueueProofs` proves `TypeOK`, `OneActivation`, `RetryIsArmed` and that the queue implements `JobLife`.
`IInv` there adds that a PENDING job has attempts left, a running job a registered handler and an existing
job a positive limit; the last is what makes the manual retry preserve it. `OneJobStep` reduces every step
to the one job it touches. The refinement is where the invariant pays: `StartJob` tests neither the status
PENDING nor the attempts left, `CompleteJob` and `FailJob` not the status PROCESSING, and `JobLife` asks for
all of them; that a callback belongs to a PENDING job and a handler to a PROCESSING one is `OneActivation`.

Every assumption is one on the constants, as the comment beside it says: that NULL is not a value,
that names lie in their sets, that amounts and limits are natural numbers. `OneAtATime` is no assumption of
a module but the hypothesis of the theorems that say so.

Only model-checked: the two liveness properties (`CaptureIsNoticed`, `DueJobSettles`: fairness and ENABLED
are out of the prover's reach) and the three refuted claims.

## 6. Not modelled

* **Generated client** (`src/src/generated/prisma`, about 53 000 of the repository's 63 000 lines of
  implementation). Type declarations that a tool derives from `schema.prisma`: they hold no behaviour of
  their own, and what the schema says (unique keys, cascades, columns) is modelled where a service relies on
  it. The modules cover about a quarter of the rest.
* **Routes, controllers, validation schemas, index files**: each forwards one request to one service. A
  bound of a schema is modelled where a property depends on it.
* **Staff rows**: a constant of `Fulfilment`, any set of users; that a staff member is removed between the
  read and the write of an order update is left out.
* **Notifications, audit logs**: rows that are inserted and listed, on which nothing decides.
* **Policies**: predicates over one request; where one guards a modelled operation it is that action's
  guard.
* **The totals of carts and orders** (carts.service.ts:288-291, orders.service.ts:86-90): sums of one read,
  which nothing decides on; `Total` stands for what a payment takes from them.
* **Discovery** and all other listings: they read and format.
* **Riders' profiles and whatever else only a role admits**: no request context carries roles
  (authenticate.ts:52). `JobsService` adds just such a check to the manager, which is modelled without it,
  as `worker.ts` and the manager's own timers use it.
* **Rate limits, logging, error formatting, health checks, start-up and shutdown, the seed script**: no
  state that a property is about; a shutdown ends requests, as `Abandon` does.
