# resto-management-backend: a verification project

TLA+ modules of the parts of this NestJS backend whose correctness depends on
the order in which things happen, the TLC runs that check them, and the
theorems TLAPS proves about them. Paths are relative to the repository
(`src/...` is its TypeScript source, `prisma/schema.prisma` its tables).

## 1. The system

One Node process (pm2 runs one instance and restarts it) in front of one
PostgreSQL database, through Prisma. Requests, cron ticks and in-process event
handlers are asynchronous functions: they interleave at every `await`, and never
between two awaits. Only rows survive a restart. Most paths open no transaction;
those that do are said so below.

| Component | State it keeps | Operations | Hard because |
|---|---|---|---|
| Checkout and promotion (`orders/orders.service.ts`) | `CheckoutSession`, `Order`, `DeliveryOrder` rows | `create`, `processCheckoutPaymentApproved` | several callers promote the same checkout; steps are not in a transaction |
| Payment reconciliation (`orders/services/payment-reconciliation.service.ts`) | none; reads `CheckoutSession` | a cron tick every 5 minutes | acts on a batch read earlier; races with webhooks |
| Payment webhooks (`webhooks/`, `mercadopago/mercadopago-webhook.service.ts`) | `WebhookEvent` rows | record, hydrate, promote, close | lost, late, duplicated notifications; restart halfway |
| Coupons (`coupons/`) | `Coupon.usageCount`, `CouponUsage` | `validate`, `incrementUsage` | check and count are far apart |
| Order lifecycle (`orders/orders.service.ts`, `floor/services/salon-delivery-order.service.ts`) | `Order.status`, `paymentStatus` | `updateStatus`, `markPaymentReceived`, `dispatchDeliveryFromSalon`; the salon's `addItems`, `cancel` | validated against a stale read, written by id |
| Scheduled release (`orders/services/scheduled-orders-release.service.ts`) | `Order.kitchenReleasedAt` | a cron tick every minute | two instances while a reload overlaps them |
| Inventory consumption (`business-health/inventory-consumption.service.ts`) | `OrderInventoryDeduction`, stock | `tryDeductForOrder` in the background | started several times, lost by a restart |
| Table sessions (`floor/services/table-session.service.ts`, and the relinking in `tables/`) | `TableSession`, `TableSessionItem`, `Table.currentSessionId`, the comandas and final orders among `Order` | `open`, `addItems`, `sendToKitchen`, `close` (whole or partial), `cancel`, `mergeTables`, `unmergeTable`, `voidSession` | several waiters on one account; transactions repeat none of the checks made before them |
| Cash registers (`floor/services/cash-register.service.ts`, `main-cash-register.service.ts`) | `CashRegisterSession`, `CashMovement` | `open`, `close`, `addMovement`, `recordSale`, deposit into the main register | the open register is read, then written by id; a closing deposits after it has committed |
| Fiscal documents (`floor/services/fiscal-*.ts`) | documents, retry state | issue, retry | an external authority that answers late |
| Event spine and outboxes (`event-spine/`, `ai-platform/events/`) | outbox rows | publish, dispatch, retry | at-least-once delivery (ADR-004) |
| Edge sync (`edge-sync/`, `floor/services/floor-idempotency.service.ts`) | edge outbox, cursors, `FloorClientMutation`, both databases | a till's mutation, the tick (pull, reconcile, push), the cloud's application | two writers, lost answers, replays |
| Subscriptions (`subscriptions/`) | `Subscription`, `Invoice` rows, the saved card | trial, renewal, retry, grace, cancellation, checkout, webhook | the jobs of several instances against webhooks and the owner |
| AI platform (`ai-platform/`) | tasks, plans, budgets | enqueue, run, retry, approve | workers racing for tasks |
| Operations (`operations/`) | shifts, handoffs, tasks, coordination moves | start, end, accept | two people act on one shift |
| Delivery (`delivery/`) | `DeliveryOrder`, `DeliveryDriver` rows | assign, dispatch, move, the driver's run | two rows kept in step; a limit counted, then used |
| Loyalty (`loyalty/`) | accounts, transactions | `earnPoints` | looks for an earlier EARN, then writes one |
| Reservations, tables, kitchen | their rows | CRUD, availability, SSE | availability is a check before an insert |
| Auth, restaurants, menu, builder, storage, email, marketing, analytics, decision engine, leads, onboarding, super-admin, demo world | their rows | content management, read-side computation, external messages | little shared state |

How they interact: `create` validates a coupon, inserts either an order (cash) or
a session and asks the provider for a link. A provider notifies
`webhooks.controller`, which records the event, hydrates the payment and calls
`processCheckoutPaymentApproved`; the cron reaches the same function through the
provider's search API. The function marks the session, inserts the order with the
session's id and number, then creates the delivery row, counts the coupon and
publishes events on the in-process bus. Everything else starts from the `Order`
row: six services write its status or its delivery's, `updateStatus` drags the
delivery row and the loyalty points behind it, a payment starts a deduction of
stock, and the cron tells the kitchen about orders scheduled for later.

The salon is a second way to an order: an account of a table sends its dishes to
the kitchen as comandas (orders without a price of their own), and each payment
creates a final order and then records a sale in the open cash register. The same
requests reach the floor through an *edge* server in the restaurant, which keeps
working when the cloud is out of reach: it records each in an outbox, and a tick
pulls the cloud's accounts and pushes the outbox. Above all of this stands the
subscription of the account, which cron jobs charge and webhooks update.

## 2. Plan

1. **Checkout** (done): `Checkout`, the promise `PaidOrder` it refines, proofs.
2. **OrderLifecycle** (done): status, payment, delivery, stock, points and release
   of an order; proofs of its safety properties. Left: the deletion of drivers.
3. **TableSession** (done): the accounts of the salon with their comandas, payments
   and tables; proofs of its safety properties.
4. **CashRegister** (done): registers of both levels; proofs of its safety properties.
5. **EdgeSync** (done): the outbox, the tick and both idempotencies, with crashes and
   lost answers; proofs of its safety properties.
6. **Subscriptions** (done): the billing of an account; proofs of its safety properties.
7. Left, in this order: the operational and domain
   outboxes (abstract specification: each event handled at least once); the queue of
   AI tasks; shifts and handoffs; fiscal documents.

Abstract specifications: `PaidOrder` for the checkout. The other modules have no
second, simpler program to implement; their promises are the invariants.

## 3. Modules

| Module | What it is |
|---|---|
| `PaidOrder` | the abstract promise: approve, promote once, carry out each effect once |
| `Checkout` | the core: carts, sessions, orders, webhooks, cron, provider, crashes |
| `MCCheckout` | values of the constants and symmetry for TLC |
| `CheckoutProofs` | type correctness |
| `CheckoutSafetyProofs` | safety and refinement |
| `OrderLifecycle` | an order after its creation: requests of six services, deductions, release |
| `MCOrderLifecycle` | symmetry for TLC |
| `OrderLifecycleProofs` | type correctness |
| `OrderSafetyProofs` | safety |
| `TableSession`, `MCTableSession` | the accounts of the salon; symmetry for TLC |
| `TableSessionProofs` | type correctness and safety |
| `CashRegister`, `MCCashRegister` | the cash registers; floats, counts and symmetry for TLC |
| `CashRegisterProofs` | type correctness and safety |
| `EdgeSync`, `MCEdgeSync` | the edge and the cloud; symmetry for TLC |
| `EdgeSyncProofs` | type correctness and safety |
| `Subscriptions`, `MCSubscriptions` | billing; days of retry and anchors for TLC |
| `SubscriptionsProofs` | type correctness and safety |

All modules share one idea. The code checks, awaits, and writes by id; so a write is
correct if what was checked still holds, and nothing in the code makes sure of it.
Each module therefore lets any write happen and keeps a *history variable*
(`disturbed`, `stale`, `doubled`, `late`, `raced`) of the rows that were written on a
check that no longer held. Some properties hold of every row; the others hold of the
rest (`Sound`), which is what a conditional write would give, and the section on the
limits of the code says what happens to the excluded ones. An excuse never looks at what
the property concludes: it is about who read, wrote or failed in between.

### Checkout

A *task* is a running handler (a record: where it is, for which job, checkout and
payment); `Requests` and `Ticks` are the slots that bound how many run at once.
An action is the code from one `await` to the next, so that the row it writes and
the point it reaches change together. `Crash` empties every task and keeps every
row. `StepFails` is a rejected call: the handler throws (`Throw`) to wherever the
code catches: a webhook closes its event with the error, the cron goes on with its
next session, a request ends. A call whose effect is kept but whose answer is lost
is a failure at the following point. A session is marked FAILED in one step and its
failure published in the next (`MarkCheckoutFailed`, `PublishPaymentFailed`): a restart
or a lost answer between the two leaves a FAILED session nobody heard of, which the
history `unsaid` records, and `FailureTrail` says that only such a fault does.

| Variable | Row or state |
|---|---|
| `session`, `linked`, `paidAt`, `age`, `born` | `CheckoutSession.paymentStatus`, `preferenceId`, `paidAt`, `createdAt` (as the cron's window, and as a rank) |
| `number`, `order` | `orderNumber` (one unique index per table), `Order.status` at creation |
| `done` | how often each effect of a new order happened: delivery row, coupon count, coupon use, notices |
| `event` | `WebhookEvent` of a payment; the key has the payment and not its status |
| `failures`, `recoveries` | checkouts about which PaymentFailed / PaymentRecovered were published |
| `unsaid` | history: FAILED sessions whose writer was stopped before it published them |
| `payFor`, `payStatus`, `latest` | the provider (external) |

Merged reads: two consecutive reads are one step where the code cannot tell: the
order number adds two counts of tables that only grow, a payment's approval is
final, and an order once found stays found. Abstracted: amounts, addresses,
customers, the content of events, the other rules of a coupon, signatures, and
which tenant's token hydrates a payment. Notifications are not kept in a network:
any payment that exists may be notified at any time, any number of times or
never, which covers loss, delay, duplication and reordering. A notification of a
payment whose event row exists has no effect and is not a step.

### OrderLifecycle

A request is a record: the point it reached, its job, its order, the target status
and the driver it carries. It begins at an idle slot with what it read (`ReadFor...`),
and writes at a later step with no condition on what the row has become, as the
code does. `disturbed` is a history variable: the orders that two requests worked
on at the same time, or whose request failed.

| Variable | Row or state |
|---|---|
| `kind` | `orderSource`, type and payment method, as far as they decide what happens |
| `status`, `paid`, `cancelledAt` | the `Order` row |
| `held`, `due` | `scheduledFor` set and `kitchenReleasedAt` null; its release time has come |
| `delivery`, `driver`, `available` | `DeliveryOrder.status`, `driverId`; active and available drivers |
| `deducted`, `stockTaken` | the `OrderInventoryDeduction` row; decrements of stock |
| `queued`, `checked` | deductions in the background, before and after their check |
| `earned` | EARN transactions of an order |
| `sweep`, `kitchenTold` | the cron of each instance; notices of a release |

Actions and code: `ReadForStatus`, `SetStatus`, `ReadEarned`, `Credit`,
`ReadForSync`, `DropDelivery`, `ReadyDelivery`, `PickDriver` are one `updateStatus`;
`ReadForPayment`, `SetPaid` are `markPaymentReceived`; a dispatch from the salon is
`ReadForDispatch`, `Collect`, `SetPaid`, `ChooseDriver`, `AssignDriver`, `Close`,
`SetStatus` and what follows. The payment branch of `updateStatus` is dead: its
parser never returns a payment; the old webhook of `payments/` answers 410, so no
code takes a payment back. Merged reads: `assignDriver` reads the delivery, the
driver and the count of active orders; nothing is written between them, and a
write between any two could as well follow all three. An order starts in one of the states its creators
leave (`Placed`); comandas of the floor are not among them yet.

### TableSession

A request is a record: its operation, the point it reached, its account, and what it
read (dishes, tables, absorbed accounts, comandas, the number of its order). It
begins with the checks of the code (`CanPay`, `CanMerge`, ...), and its write is one
step, the transaction. Between the two, `generateOrderNumber` counts the day's orders
(`CountOrders`); the unique index makes the write of a number that was taken fail.
`addItems` and `mergeTables` go on after their commit: `SumItems` and `SaveTotal`
are `recalculateTotals`, which reads and writes outside the transaction, and
`SendAdded` is the sending that `addItems` may end with. A sum saved after a higher one
is out of order: when a request saves, those with a lower sum still to save become
`outrun` (`Slower`), and the account they save it on is `stale`. Nothing looks at
whether the total covers what is owed.

| Variable | Row or state |
|---|---|
| `session` | `TableSession`: status, primary table, total |
| `holder` | `Table.currentSessionId` |
| `item` | `TableSessionItem`: account, kitchen status, comanda, payment |
| `order` | the day's `Order` rows by number: comandas, final orders and others |
| `req`, `started` | the running requests; how many there were, the kitchen's among them |
| `cook` | the running status changes of comandas: which one, to which status |
| `stale`, `outrun` | history: accounts a write reached whose checks no longer held (`StillHolds`); requests whose sum is older than a saved one |

The kitchen answers through `updateStatus` of the orders, which reads the comanda and
checks the transition (`ReadComanda`), and in a later transaction writes the order by its
id and every dish that names it, without a second look (`UpdateComanda`). An answer that
finds its comanda finished or cancelled since makes the accounts of its dishes `stale`: it
revives dishes that were voided (section 6). Every listing of the tables runs `repairOpenSessionTableLinks` first (`ListTables`, `RelinkTable`).
Every dish costs one; discounts, tips and taxes are data of a payment.

### CashRegister

| Variable | Row or state |
|---|---|
| `reg` | the `CashRegisterSession` rows by order of opening |
| `rows`, `deposits` | for each register the sum of its `CashMovement` rows, and how many deposits come from it |
| `worker` | the running requests, with the register and the sum they read |
| `disturbed` | history: registers written after what their writer had read changed |

`ReadFor...` picks the open register (`Current`), the write goes to its id. A movement
and the increment of what is expected are one transaction (`AddMovement`); the
closing (`CloseRegister`) and the deposit (`FindMain`, `DepositFromPartial`) are not.
`Fail` is a rejected query or a stop; the rows stay.

### EdgeSync

Both sides and what travels between them. A till's request is `Ask`, then `Run` (the
handler), `Enqueue` (the outbox row) and `Record` (the id): the three awaits of
`runSyncedFloorMutation` within `FloorIdempotencyService.run`. `Run` ends where the
handler commits; what it awaits after that (`addItems` sums up and calls the kitchen,
`table-session.service.ts:262-268`), the outbox row and the id may each fail
(`EdgeFails`), and so on the cloud's side (`CloudFails`, which `applyMutation` answers
with a refusal, before the commit or after it). A tick is `Tick`
(what was SYNCING becomes PENDING, the answer to the pull is taken), `ReadProtected`,
`ListLocal`, `Reconcile` one account at a time, `InsertOne`, `SendBatch`; the cloud
applies a push with `Look`, `Apply` and `RecordInCloud` per change, and `Answer`
marks the rows. A change that ran and was not recorded is `doubled`: the next request
or push with its id runs it again.

| Variable | Row or state |
|---|---|
| `mut` | what each change is: its kind, account and table |
| `till`, `keys`, `cloudKeys` | handlers of the edge; `FloorClientMutation` of each side |
| `local`, `cloud`, `opened` | the accounts of each side, and the cloud's in order of opening |
| `outbox` | `SyncOutbox`: status, retries, rank of `createdAt` |
| `sync`, `push` | the tick, and the pushes the cloud handles |
| `ran`, `applied`, `refused`, `doubled`, `sync.late` | history |

Inside, a change is one step on either side; TableSession has its interleavings.
An account is named by the side it was opened on, the change that opened it and how
often that change had run there (0 for the accounts of the cloud's own users): that
the two sides and a repeated change give different ids is all the code asks of them.
Opening, adding a dish and closing stand for the floor's operations: they differ in
what they need of the account and what they leave. Faults: a repeated request, a lost
answer (`LoseAnswer`: the push goes on unheard and may overlap the next), a failed
query (`EdgeFails`, `CloudFails`), a crash of either side. The pull answers the open accounts from some cursor
on, whichever it is: the streams' cursors are not modelled further.

### Subscriptions

A worker is a job or a request at work on a subscription, in any instance of the
server; `Lock` is the conditional `updateMany` two jobs begin with, `ChargeApproved`,
`ChargeRejected` and `ChargeLost` are `chargeWithSavedCard` with its idempotency key,
`CheckInvoice`, `SkipForAdmin` and `BookPayment` are `processPaymentApproved`: the look
for an invoice of the payment, the return that books nothing while a SUPER_ADMIN is in
the restaurant (`subscriptions.service.ts:1284-1301`; the jobs that charge do not ask),
and the transaction, which writes the row of the account's anchor. Every other write is
an `Update` by id. The lock of a trial asks only whether the row is still TRIALING;
when the trial it takes is another one (`OtherTrial`), the account is `disturbed`.

| Variable | Row or state |
|---|---|
| `sub` | `Subscription`: status, whether a trial is ahead or past, days left, cancelled, plan, price, card |
| `charged`, `invoices` | keys taken by the provider today; invoices of each payment |
| `web`, `noticed`, `rejected` | the customer's own payment and its notices |
| `worker`, `dunned` | what runs; how many instances retried today |
| `served`, `disturbed` | history: the period was paid; see `Sound` |
| `raced`, `unbooked` | history: payments looked up while another worker was about to book them; payments whose booking failed or was skipped |

A user's restaurants share one billing subscription, the *anchor* (`isBillingAnchor`);
when a restaurant that had its own is linked to an account that has an anchor, its
subscription stays as it is, with `isBillingAnchor: false`
(`subscriptions.service.ts:1662-1667`). `Anchor` gives the anchor of each subscription.
The jobs of trials, retries and grace select anchors only
(`subscriptions-tasks.service.ts:39, 235, 572`); `getSubscriptionsToRenew` and the end of
cancelled periods select any; a payment is booked on the anchor; the customer's requests
reach the anchor. `RenewalDue`, `FinalDue`, `TrialDue`, `GraceDue`, `Overdue` and `Book`
are written so. A subscription beside the anchor starts ACTIVE with its card; one that is
TRIALING is selected by no job and never moves, and a change of the anchor is not modelled.

Time is the number of days left; `NewDay` needs idle workers, because a job of a day
takes minutes.

## 4. Runs

Every run is one restaurant and one day. `MaxFaults` bounds crashes and failed calls.

| Run | Shows |
|---|---|
| `CheckoutOnline` | one MercadoPago checkout, two payments, two webhooks and a tick, one fault (between the FAILED row and its event too): `TypeOK`, `PaidMeansApproved`, `EffectsAtMostOnce`, `FailureTrail`, and `ImplementsPromise` |
| `CheckoutMixed` | a Payway checkout, whose notifications are not recorded, and an order in cash; shared coupon, batch of one: `PaidMeansApproved`, `EffectsAtMostOnce` |
| `CheckoutLive` | two MercadoPago checkouts and a batch of one, one fault, under fairness: `PendingIsSettled`, and `ApprovedIsPromoted` where nothing failed |

The bounds: a race for one checkout needs two promoters of different kinds and a
third to arrive late, hence two requests and a tick; a rejected and an approved
payment of one checkout need two payments; every loss of work needs one crash, and
a second crash only repeats the first from a state with no task. Two checkouts
matter only through the coupon, the numbers and the batch, which `CheckoutMixed`,
`CheckoutNumberCollision` and `CheckoutLive` have. Two ticks that overlap are in no run:
the theorems of section 5 cover any number of them. In `CheckoutLive` the batch (20 in the
code) is smaller than the number of sessions, so that an older session, paid or
abandoned, fills it. It then keeps a younger one out at every tick until its 24 hours end:
the starvation is the code's (section 6), and both properties say that nothing
else stops the cron (`[]<>Crowded(c)`). `CHECK_DEADLOCK FALSE`: with finitely many carts and
payments the system ends up idle.

`OrderLifecycle`:

| Run | Shows |
|---|---|
| `OrderRequests` | one order by phone or from a platform, two requests of any kind: `TypeOK`, `StockFollowsPayment`, `DispatchIsComplete`, `CancelReachesDelivery`, `FinalWhenAlone` |
| `OrderRelease` | one order for pickup or paid online, scheduled or not, a request, two instances, one fault, under fairness: `KitchenToldOnce`, `DeductionLands`, `DueIsTold` |

The bounds: orders meet only in a driver's load, so one order is enough but for
that (left out here: see section 6); a race needs two requests, and a third can
only repeat what one of them does. `DriverLimit` is 1 for the code's 3: a limit is
passed by one assignment more than it allows. pm2 runs one instance in cluster
mode, whose reload starts the next before it stops the last: two instances.
`CHECK_DEADLOCK FALSE`: closed orders leave nothing to do.

`FinalWhenAlone` and `CancelReachesDelivery` speak of orders that are not
`disturbed`, which includes a failed request. That is not a convenience: two requests at once do lose a final status
(section 6), so what the code guarantees is exactly the serial case, and there the
properties still need all six services to agree. `OrderRequests` has no failed calls
(`MaxFaults` is 0): a dispatch that fails halfway is reached through the rejected
assignment (`ChooseDriver`), and failures anywhere by the theorems.

The salon:

| Run | Shows |
|---|---|
| `TableSession` | two requests of any kind and an answer of the kitchen at a time, five in all, over two tables, two accounts and two dishes, with another channel: `TypeOK`, `ChargedOnce`, `ClosedOwesNothing`, `CookedOnce`, `TablesFollowAccounts`, `TotalCoversUnpaid`, `ChargeStays` |
| `CashRegister` | two requests at a time, six in all, four registers, one failure: `TypeOK`, `LedgerAgrees`, `DifferenceStands`, `OneOpenRegister`, `DepositedOnce` |
| `EdgeSync` | one till, two changes, two pushes that may overlap, two tries, one fault: `TypeOK`, `AppliedOnce`, `CompletedIsApplied`, `NoOvertaking`, `PendingIsKept` |
| `EdgeSyncLive` | one push at a time, batches of one row, two tries, one fault, under fairness: `EverythingSettles` |

The bounds: a merge that goes wrong needs two accounts; a partial payment two dishes;
five requests (the kitchen's count) open an account, add, send, and run two more things,
one in the middle of the other. A difference that is lost needs an opening, a movement, a closing and a
fourth request; four registers are two of each level. At the edge, two changes of one
account can be overtaken, and a third adds nothing the pairs do not have; two tills
with one id are as two pushes with one id, since both sides run the same
`FloorIdempotencyService`, so one till's slot and two pushes are enough. One fault and
two tries make the cloud run a change a second time, after a failure past its commit; the edge
needs two faults for that (the failure and the repeated request), which only the proof
covers. The proofs
(section 5) have no such bounds. `CHECK_DEADLOCK FALSE`: requests and changes are
finite.

`ChargeStays` and `LedgerAgrees` hold of every row, whatever overlaps. The others hold
of what was written in time (`Sound`); section 6 says what the rest suffers.

Fairness of `EdgeSync`: the worker ticks for ever (`setInterval`, with a flag against a
second tick) and a tick ends, since `fetch` gives up by itself after minutes; a push the
cloud handles ends. No tick fails as a whole before its push (a failed pull,
`edge-sync-worker.service.ts:92-107`, ends it like `NothingToSend`, and the next one starts
over), and the faults of a behaviour are bounded: a cloud that never answers settles nothing. Nothing is assumed of tills, of the cloud's users or of faults.
`EverythingSettles` counts used-up retries as an end, as the code does.

The account:

| Run | Shows |
|---|---|
| `Subscriptions` | one account whose anchor has another subscription beside it, two workers in two instances, a period of a day, two attempts per charge, one event (a request, a failure or a SUPER_ADMIN) after those of the first state, under fairness: `TypeOK`, `ChargedOnce`, `BooksBalance`, `PaidIsServed`, `PastDueResolves` |

The bounds: accounts meet only in the invoices of free plans, which a subscription and its
anchor share too; two instances are one more than the lock needs; the anchor starts with
or without a card and cancelled or not, which are the requests before the event, and the
event falls anywhere in the life of the account; periods longer than a day only repeat days in
which no job finds anything. Fairness: the days pass, a worker goes on, and the jobs
of retries and of the grace period are scheduled. `PastDueResolves` rests on nothing
else: not on the customer, and not on the charge being approved. It is about the
anchor: the subscription beside it stays PAST_DUE once a renewal was not approved, or
was booked on the anchor (section 6).

Two runs find what the code does against its own words; each is a finding in
`PROJECT.json`:

| Run | What happens |
|---|---|
| `CheckoutNumberCollision` | no fault: an order in cash took the number of the session, the promotion is rethrown after the session was marked PAID, and neither webhook nor cron looks again (`ApprovedStaysInReach`) |
| `SubscriptionsCancelled` | who cancels during the trial is charged when it ends, and the charge undoes the cancellation (`CancelledIsNotCharged`) |

`ApprovedStaysInReach` also fails in two other ways, reached with other constants:
with one fault and one cart, a restart between marking the session PAID and
inserting the order; with two payments and no fault, a later rejected attempt that
hides the approved one from the cron. Nothing is claimed of the coupon's limit:
carts validated against the same count may all redeem the last use.

Fairness of `Checkout` (`FairSpec`): a running task proceeds (Node runs every continuation
whose promise settles; a call that never settles is not modelled, the clients
have timeouts), the scheduler fires the cron, and a session becomes old enough.
Nothing is assumed of customers, webhooks, the end of the window or faults, so
liveness rests on the cron alone. `PendingIsSettled` excuses the end of the 24
hours; it holds with a fault because a crash empties the tasks and the next tick
starts over. It stops at "leaves PENDING": the violation shows that PAID does not
imply an order.

Fairness of `OrderLifecycle`: a call in flight is answered (the requests and the
background deduction), and an instance runs its cron. Nothing is assumed of users,
drivers, the clock or faults. `DeductionLands` and `DueIsTold` excuse a fault
anywhere before them, because the code has no second chance: a restart loses the
background deduction, and the notice that follows `kitchenReleasedAt`.

## 5. Proofs

### Checkout

For every value of the constants under the named assumptions of `Checkout`
(finite set of checkouts, null values outside their sets, each checkout has a
provider):

| Theorem | States |
|---|---|
| `TypeCorrect` | `Spec => []TypeOK` |
| `NoOrderUnpaid` | `Spec => []PaidMeansApproved` |
| `FailuresAreTraced` | `Spec => []FailureTrail` |
| `EffectsHappenOnce` | `Spec => []EffectsAtMostOnce` |
| `CheckoutKeepsPromise` | `Spec => ImplementsPromise` |

The argument. `TypeInv` adds to `TypeOK` the *wiring*: which point implies which
field of a task, and that a payment belongs to a linked session. The *catalogue*
(`Catalogue`) reduces every step to one of thirteen kinds by what it does to one
task and to the rows; most actions (failures, crashes, duplicates, late
insertions) are `Quiet`. Three invariants follow, each relative to those before:

- `Origin`: a checkout has one inserter, and nothing of it exists before it is
  inserted. It gives `Growth`: links, orders, approvals and rejections stay.
- `Evidence`: what a task learnt before an await (an approval, a rejection, the
  previous status, and that a FAILED session is `Traced`) is still true when it acts. `PaidMeansApproved` and
  `FailureTrail` are not inductive without it, because the writes do not check
  what they rely on.
- `Once`: the task that inserted an order is alone with its effects, and the
  effects ahead of it are not done. This is why the unique id is enough.

The refinement uses all of them.

### OrderLifecycle

Under its named assumptions (known kinds, null values outside their sets, a
positive limit), for any number of orders, drivers, requests and instances:

| Theorem | States |
|---|---|
| `LifecycleTypeCorrect` | `Spec => []TypeOK` |
| `StockIsTakenOnce` | `Spec => []StockFollowsPayment` |
| `KitchenHearsOnce` | `Spec => []KitchenToldOnce` |
| `DispatchedOrdersAreComplete` | `Spec => []DispatchIsComplete` |
| `CancellationReachesDelivery` | `Spec => []CancelReachesDelivery` |
| `FinalUnlessDisturbed` | `Spec => FinalWhenAlone` |

The argument. `TypeInv` adds the wiring of a request to `TypeOK`. Then, each
inductive with it:

- `StockInv`: what a deduction checked (the order is paid) stays true, and the row
  and the counter move together.
- `KitchenInv`: an instance that is about to tell an order is the only one, the
  order is released, and it was not told before. Without the middle of the sweep
  in the invariant, `KitchenToldOnce` is not inductive.
- `DispatchInv` (`Carried`): between its steps a dispatch carries what it did:
  paid from the choice of a driver on, and with a driver when it closes.
- `SerialInv`: of an undisturbed order at most one request is running, what it read
  still holds at each of its points (`Fits`), and a cancelled order with a live
  delivery has a request that will drop it (`Loose`, `Dropping`). It is the
  condition the writes of the code lack, and gives both last theorems.

### TableSession

For any tables, accounts, numbers of requests and orders, and any finite set of dishes:

| Theorem | States |
|---|---|
| `TypeCorrect` | `Spec => []TypeOK` |
| `DishesChargedOnce` | `Spec => []ChargedOnce` |
| `NothingOwedAtTheEnd` | `Spec => []ClosedOwesNothing` |
| `DishesCookedOnce` | `Spec => []CookedOnce` |
| `TablesAlwaysFollow` | `Spec => []TablesFollowAccounts` |
| `TotalAlwaysCovers` | `Spec => []TotalCoversUnpaid` |
| `ChargesStay` | `Spec => ChargeStays` |

The argument. `TypeInv` adds the wiring of a request to `TypeOK`. `TableInv` is the
five invariants with four that they lack: a request knows only accounts that exist
(`Known`), a dish and its comanda name each other and its account (`DishesAgree`), and
what was voided is over (`VoidedIsDone`: so an answer of the kitchen that is in time
revives nothing). The fourth, `TotalOnItsWay`, stands for `TotalCoversUnpaid`: once all
requests of an account have added up, the highest sum still to be saved covers it, or
the total does and every lower sum is `outrun`. An account leaves `Sound` in the step
that writes it late, so each action has two cases: its checks still hold, and give
the property again, or the accounts it reaches are no longer spoken of.

### CashRegister

For any number of workers, registers and requests, any floats and counts:
`TypeCorrect`, `LedgerAlwaysAgrees` (`LedgerAgrees`), `DifferenceAlwaysStands`
(`DifferenceStands`), `OneRegisterOpen` (`OneOpenRegister`), `DepositedAtMostOnce`
(`DepositedOnce`).

The argument (`CashInv`): registers are opened in the order of their numbers
(`Contiguous`), a worker refers to an opened register of its level (`Refers`), and what a
worker that is in time has read is still so (`ReadsHold`); a deposit on its way belongs
to one closing and was not made yet (`DepositsHold`). `DifferenceStands` is not
inductive without `ReadsHold`: the closing computes from a sum it read before.

### EdgeSync

For any tables, any finite set of tills and of overlapping pushes, any number of
changes and faults, any batch and any number of retries:

| Theorem | States |
|---|---|
| `TypeCorrect` | `Spec => []TypeOK` |
| `ChangesRunOnce` | `Spec => []AppliedOnce` |
| `CompletedAlwaysApplied` | `Spec => []CompletedIsApplied` |
| `NeverOvertaken` | `Spec => []NoOvertaking` |
| `PendingAlwaysKept` | `Spec => PendingIsKept` |

The argument. `Shape` is the type of the state without its bounds, with the order in
which changes are numbered, rows recorded and accounts of the cloud opened. On it rest:

- `AcceptedIsApplied`: what a push carries back was applied, so marking it is right.
- `OnceOnEdge`, `OnceInCloud`: of a change that is not `doubled`, one handler is at
  work, its id is not recorded, and it has not run before; if it has run and its id is
  not recorded, that handler is about to (one that failed after its commit made it
  `doubled`).
- `InOrder`: a settled row was dealt with; while a batch is chosen no row is in
  between (`resetSyncingToPending`); a push has, with each row, every earlier one that
  was not dealt with. The batch needs it of the oldest due rows: a refused
  row may be passed over, and `NoOvertaking` says so.
- `Guarded`: a change in the outbox when the pull read what to protect keeps its
  account off the list of what the pull goes through.
- `Bounds`, for `TypeOK`: every repetition is paid for by a fault. A change that ran, and
  each till about to run it, was asked for or repeated (`RanBound`); a row beyond
  `MAX_OUTBOX_RETRIES`, with the try on its way, was put back to PENDING by a repeated
  request (`RetryBound`); a change applied in the cloud, each push that may still
  apply it, and one more sending of a change the cloud does not know are
  one more than the faults at most (`AppliedBound`). Each is inductive only with the
  handlers that have not acted yet. Without faults a change is
  applied once and tried `MAX_OUTBOX_RETRIES` times at most, however often the worker
  ticks. `RanBound` and
  `AppliedBound` also bound the ids that new accounts get.

`TypeOK` is more than types here: `retries <= MaxRetries + MaxFaults` fails when
`listPending` stops looking at the retries (the mutant `AlwaysDue`).

### Subscriptions

For any set of accounts, any finite set of workers, any number of instances, any
period, grace and list of days of retry, and any number of requests and failures:

| Theorem | States |
|---|---|
| `TypeCorrect` | `Spec => []TypeOK` |
| `ChargedAtMostOnce` | `Spec => []ChargedOnce` |
| `BooksAlwaysBalance` | `Spec => []BooksBalance` |
| `PaidIsAlwaysServed` | `Spec => []PaidIsServed` |

The argument. `TypeInv` adds the wiring of a worker to the types; `InvoicesBound` (a
payment is booked by who found no invoice of it, once each) gives the bound on invoices
that `TypeOK` has.

- `BooksInv`, of every subscription, is `BooksBalance` with `BookerInv`: of a payment that
  is not `raced` one worker at most has looked and is about to book, and then it has no
  invoice; and a payment a worker has was taken by the provider, or is of a free plan.

Then, of subscriptions that are not `disturbed`:

- `ReadingInv`: while nobody else changed the row, a job about to charge, end or expire
  an account finds it as it was selected (`Truthful`). `PaidIsServed` is inductive with it.
- `RowInv`: an account that is TRIALING has a trial ahead or one that ends today, and an
  ACTIVE one has days left.
- `ChargeInv`: PAST_DUE is a lock. At most one worker is between it and the answer
  of the provider (`LockAt`), a charged account is due no more (`ChargedAt`), and the
  keys it was charged under today are one (`OneKey`).

The proof of `ChargeInv` failed at first, for a good reason: the lock of a trial asks only
for `status: TRIALING` (`subscriptions-tasks.service.ts:52-55`), so a job that selected an
ended trial also takes one that began since. An instance selects the account; another
charges it; it is cancelled, finalised and opened anew with a trial; the first
instance's lock succeeds, and it charges the account a second time that day. The
comment at line 50 (`Esto evita que múltiples instancias del cron cobren la misma
suscripción`) does not hold then. It takes three workers, so the runs (of two) do not
reach it: found by the proof, TLC confirmed it on an instance with three. The model
now marks such an account `disturbed` (`OtherTrial`), and the theorem is of the others.

### What is only model-checked

Every safety invariant and action property of the passing runs has a theorem. What TLC
alone checks are the liveness properties (`PendingIsSettled`, `ApprovedIsPromoted`,
`DeductionLands`, `DueIsTold`, `EverythingSettles`, `PastDueResolves`: fairness is out
of the prover's reach) and the two violations. The proofs take nothing on trust but the
named assumptions of the modules: the finite sets are of slots for things that run at
the same time, and the rest says that bounds are numbers and null values no values.

## 6. Limits of the code

What the properties excuse or do not claim, because the code allows it:

- *Orders.* Two requests that read the same status: the second overwrites DELIVERED or
  CANCELLED, which `API_DOCUMENTATION.md:519-520` calls final. Two assignments count a
  driver's orders before either writes, and pass the limit of `DELIVERY_API.md:868`. An
  order created as paid never has its stock deducted, though
  `inventory-consumption.service.ts:36` says a paid order has. The salon's `cancel` writes
  CANCELLED over a DELIVERED delivery.
- *Checkout.* A tick takes the oldest PENDING sessions of the window, twenty at most
  (`payment-reconciliation.service.ts:50-51`), and one nobody paid stays among them for
  its 24 hours: enough of those keep a younger session that was paid out of every batch. A
  restart, or a lost answer, between the FAILED row and its event (`:201-205`) leaves a
  failure that is never published.
  A tick overwrites PAID with FAILED from a batch it read earlier; a
  notification of a checkout the cron promoted is published as PaymentFailed; a coupon
  may be redeemed above its limit by carts validated against the same count.
- *Salon.* Two payments of one account may both charge a dish. A status of a comanda that
  was read as live and is written after a void or a cancellation revives the order and its
  dishes in an account that has ended (`orders.service.ts:1209-1233`, then `1262-1285` and
  `1479-1482` by id). Two requests save the sums of an account in the other order, or one
  fails between its commit and its sum, and the total is short of what is owed until the
  next sum (`table-session.service.ts:1102-1115`). A payment, merge or
  closing between another request's read and write can leave a table held by an
  account that ended, although `open` (`table-session.service.ts:117`) then refuses the
  table: the next listing relinks open accounts only.
- *Cash.* A sale that was read before a closing is added to the closed register, whose
  difference was already reported. Without a main register, or after a failure between
  the two writes, a deposit exists only in the report of the closing
  (`cash-register.service.ts:175`).
- *Edge.* Neither side records a change in the transaction that makes it. When the handler
  throws after its commit (`addItems`, `table-session.service.ts:216-272`), or the outbox
  row or the id cannot be written (`floor-idempotency.service.ts:35-60` rethrows all but a
  duplicate, and `edge-sync-push-apply.service.ts:117-123` answers a refusal, which is sent
  again), the repeated change runs a second time: its dishes are added twice, with
  no crash. A change recorded after the pull read what to protect does not protect its
  account, which is removed (`edge-sync-pull-apply.service.ts:288`), where the test says
  `no borra sesiones locales con outbox pendiente`. An account opened at the edge gets a
  new id in the cloud, so its later changes are refused until their retries are used up
  and stay FAILED. A change whose handler crashed before its outbox row never reaches
  the cloud unless the till repeats it.
- *Subscriptions.* The comment at `subscriptions.service.ts:1276` says `Implementa
  idempotencia por paymentId para evitar procesar el mismo pago dos veces`. It does not: the
  invoice is looked up and, awaits later, created, with no unique index. Two
  instances that retry an overdue charge under one key, or two notices of a payment, both
  find none and book it twice: two invoices, and the period begins again. `BooksBalance`
  says that this is the only way (`raced`).
  While a SUPER_ADMIN is in a restaurant (`switchRestaurant`, `auth.service.ts:1739-1770`,
  moves one there), `processPaymentApproved` returns before it books, and the jobs that
  charge ask nothing of the kind: the card is charged, no invoice is written, the
  subscription stays PAST_DUE, and the days of retry charge it again.
  The renewal selects subscriptions that are no anchor, which the backfill calls `espejos
  sin cobro` (`prisma/scripts/backfill-subscription-user-id.ts:130`): each is locked PAST_DUE
  and charged, its payment renews the anchor, and no job selects it again, so it is
  PAST_DUE for ever (`subscriptions-tasks.service.ts:39, 235, 572` ask for the anchor,
  `subscriptions.service.ts:1465-1471` does not).
  A charge whose answer is lost is retried under another key; a notice
  of a rejected payment marks any subscription past due; jobs that miss their day leave
  a subscription as it is until the next. A job that read an ended trial may charge
  the account for a trial that began since (section 5).

## 7. Not modelled

Components without a module are listed with their reason in `PROJECT.json` and in
the plan above. Of the modelled ones:

- checkout and orders: signature checks, customer profiles, emails and sockets; the
  deletion of a driver (it clears the driver of past deliveries, so `DispatchIsComplete`
  is about drivers that are kept), redemptions of points, recipes and quantities of
  stock, orders beyond the hundred a sweep reads, and what a delivery platform does with
  an order it took;
- the floor: reserved tables, discounts and tips, fiscal documents, the daily report;
- the edge: the streams of menu, layout and settings, which only flow down, and the
  registration of an edge;
- subscriptions: the change of an account's anchor, the changes of super-administrators, reminders, the features of a plan.
