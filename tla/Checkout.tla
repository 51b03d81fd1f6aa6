------------------------------ MODULE Checkout ------------------------------
(***************************************************************************)
(* From a cart to an order.  One restaurant, one coupon.                   *)
(*                                                                         *)
(* A checkout paid in cash becomes an Order row at once; one paid online   *)
(* becomes a CheckoutSession row and a link to the provider, and is        *)
(* PROMOTED to an Order (with the session's id and number) when a payment  *)
(* of it is seen approved: by the provider's webhook or by the cron that   *)
(* asks the provider about the sessions still PENDING.                     *)
(*                                                                         *)
(* The backend is one Node process: every request and every cron tick is a *)
(* task, and tasks interleave at each `await'.  An action is the code from *)
(* one await to the next; nothing spans two of them (these paths open no   *)
(* database transaction).  Only the rows of the database survive a crash.  *)
(***************************************************************************)
EXTENDS Integers, FiniteSets, FiniteSetsExt

CONSTANTS
  Checkouts,       \* carts a customer submits; also the ids of their rows
  Payments,        \* payments the provider creates
  Requests,        \* slots for HTTP requests served at the same time
  Ticks,           \* slots for cron ticks (a tick may overlap the next one)
  NoCheckout, NoPayment,
  Provider,        \* how each checkout is paid
  Deliveries,      \* the checkouts of type DELIVERY
  Couponed,        \* the checkouts that carry the coupon, with a discount
  CouponLimit,     \* Coupon.usageLimit
  BatchSize,       \* sessions a tick looks at (20 in the code)
  MaxFaults        \* bound: crashes and failed calls in a behaviour

Workers == Requests \cup Ticks
Providers == {"cash", "mercadopago", "payway"}

ASSUME ProviderAssumption == Provider \in [Checkouts -> Providers]
ASSUME NullAssumption == NoCheckout \notin Checkouts /\ NoPayment \notin Payments
ASSUME FiniteAssumption == IsFiniteSet(Checkouts)
ASSUME BoundAssumption ==
  CouponLimit \in Nat \ {0} /\ BatchSize \in Nat \ {0} /\ MaxFaults \in Nat

VARIABLES
  session,         \* CheckoutSession.paymentStatus, "none" without a row
  linked,          \* sessions whose preferenceId is set
  paidAt,          \* sessions whose paidAt is set
  age,             \* a session against the window of the cron: 5 minutes, 24 hours
  born,            \* createdAt, as the rank of the insertion; 0 without a row
  number,          \* orderNumber of the row
  order,           \* Order.status at creation: CONFIRMED in cash, PAID when promoted
  done,            \* how many times each effect of a new order was carried out
  failures,        \* checkouts a PaymentFailed event was published about
  recoveries,      \* checkouts a PaymentRecovered event was published about
  unsaid,          \* history: a fault fell between the FAILED row and its event
  event,           \* the WebhookEvent row of a payment
  payFor, payStatus, latest,   \* the provider's side (external)
  task,            \* the running handlers
  faults

rows == <<session, linked, paidAt, age, born, number, order, done>>
outbox == <<failures, recoveries, unsaid>>
provider == <<payFor, payStatus, latest>>
vars == <<rows, outbox, provider, event, task, faults>>

Effects == {"deliver", "redeem", "record", "announce"}
Points == Effects \cup
  {"idle", "validating", "numbering", "inserting", "linking",
   "recording", "hydrating", "closing", "closingError",
   "polling", "failing", "publishing", "approving", "marking", "creating"}
Jobs == {"none", "create", "mercadopago", "payway", "reconcile"}
SessionStatus == {"none", "PENDING", "PAID", "FAILED"}

Task == [at : Points, job : Jobs, chk : Checkouts \cup {NoCheckout},
         pay : Payments \cup {NoPayment}, num : Nat, prev : SessionStatus,
         todo : SUBSET Checkouts]
New(job, at, chk, pay, todo) ==
  [at |-> at, job |-> job, chk |-> chk, pay |-> pay,
   num |-> 0, prev |-> "none", todo |-> todo]
Idle == New("none", "idle", NoCheckout, NoPayment, {})

TypeOK ==
  /\ session \in [Checkouts -> SessionStatus]
  /\ linked \subseteq Checkouts /\ paidAt \subseteq Checkouts
  /\ age \in [Checkouts -> {"fresh", "due", "stale"}]
  /\ born \in [Checkouts -> Nat] /\ number \in [Checkouts -> Nat]
  /\ order \in [Checkouts -> {"none", "CONFIRMED", "PAID"}]
  /\ done \in [Checkouts -> [Effects -> Nat]]
  /\ failures \subseteq Checkouts /\ recoveries \subseteq Checkouts
  /\ unsaid \subseteq Checkouts
  /\ event \in [Payments -> {"none", "received", "processed", "failed"}]
  /\ payFor \in [Payments -> Checkouts \cup {NoCheckout}]
  /\ payStatus \in [Payments -> {"none", "pending", "approved", "rejected"}]
  /\ latest \in [Checkouts -> Payments \cup {NoPayment}]
  /\ task \in [Workers -> Task]
  /\ faults \in 0..MaxFaults

Init ==
  /\ session = [c \in Checkouts |-> "none"]
  /\ linked = {} /\ paidAt = {}
  /\ age = [c \in Checkouts |-> "fresh"]
  /\ born = [c \in Checkouts |-> 0] /\ number = [c \in Checkouts |-> 0]
  /\ order = [c \in Checkouts |-> "none"]
  /\ done = [c \in Checkouts |-> [e \in Effects |-> 0]]
  /\ failures = {} /\ recoveries = {} /\ unsaid = {}
  /\ event = [p \in Payments |-> "none"]
  /\ payFor = [p \in Payments |-> NoCheckout]
  /\ payStatus = [p \in Payments |-> "none"]
  /\ latest = [c \in Checkouts |-> NoPayment]
  /\ task = [w \in Workers |-> Idle]
  /\ faults = 0

-----------------------------------------------------------------------------
(* Helpers *)

Online(c) == Provider[c] # "cash"
Paid(c, status) == \E p \in Payments : payFor[p] = c /\ payStatus[p] = status

At(w, point) == task[w].at = point
Update(w, t) == task' = [task EXCEPT ![w] = t]
Goto(w, point) == Update(w, [task[w] EXCEPT !.at = point])

\* Where a handler goes when it returns or throws: a MercadoPago webhook still
\* closes its event, the cron turns to its next session, the others are over.
Exit(t, closing) ==
  IF t.job = "mercadopago" THEN [t EXCEPT !.at = closing]
  ELSE IF t.job = "reconcile"
    THEN New("reconcile", "polling", NoCheckout, NoPayment, t.todo)
    ELSE Idle
Return(w) == Update(w, Exit(task[w], "closing"))
Throw(w) == Update(w, Exit(task[w], "closingError"))

UsageCount == MapThenSumSet(LAMBDA c : done[c]["redeem"], Checkouts)
OrderRows == {c \in Checkouts : order[c] # "none"}
SessionRows == {c \in Checkouts : session[c] # "none"}
NumberTaken(rowset, n) == \E c \in rowset : number[c] = n
Promotable(p) ==
  payStatus[p] = "approved" /\ session[payFor[p]] # "PAID" /\ payFor[p] \notin paidAt

\* The effects a new order has on other rows, in the order the code has them.
AfterDelivery(c) == IF c \in Couponed THEN "redeem" ELSE "announce"
FirstEffect(c) == IF c \in Deliveries THEN "deliver" ELSE AfterDelivery(c)
Count(c, e) == done' = [done EXCEPT ![c][e] = @ + 1]

-----------------------------------------------------------------------------
(* POST /orders: OrdersService.create *)

StartCreate(w, c) ==
  /\ At(w, "idle")
  /\ born[c] = 0 /\ \A v \in Workers : task[v].chk # c
  /\ Update(w, New("create", IF c \in Couponed THEN "validating" ELSE "numbering",
                   c, NoPayment, {}))
  /\ UNCHANGED <<rows, outbox, provider, event, faults>>

ValidateCoupon(w) ==
  /\ At(w, "validating")
  /\ IF UsageCount >= CouponLimit THEN Throw(w) ELSE Goto(w, "numbering")
  /\ UNCHANGED <<rows, outbox, provider, event, faults>>

GenerateOrderNumber(w) ==
  /\ At(w, "numbering")
  /\ Update(w, [task[w] EXCEPT !.at = "inserting",
       !.num = Cardinality(OrderRows) + Cardinality(SessionRows) + 1])
  /\ UNCHANGED <<rows, outbox, provider, event, faults>>

\* The unique index on (restaurant, orderNumber) is one per table.
InsertRow(w) ==
  LET c == task[w].chk  n == task[w].num IN
  /\ At(w, "inserting")
  /\ \/ /\ NumberTaken(IF Online(c) THEN SessionRows ELSE OrderRows, n)
        /\ Throw(w)
        /\ UNCHANGED <<session, order, number, born>>
     \/ /\ ~ NumberTaken(IF Online(c) THEN SessionRows ELSE OrderRows, n)
        /\ number' = [number EXCEPT ![c] = n]
        /\ born' = [born EXCEPT ![c] = 1 + Cardinality({d \in Checkouts : born[d] > 0})]
        /\ IF Online(c)
             THEN /\ session' = [session EXCEPT ![c] = "PENDING"]
                  /\ Goto(w, "linking")
                  /\ UNCHANGED order
             ELSE /\ order' = [order EXCEPT ![c] = "CONFIRMED"]
                  /\ Goto(w, FirstEffect(c))
                  /\ UNCHANGED session
  /\ UNCHANGED <<linked, paidAt, age, done, outbox, provider, event, faults>>

\* The provider made the link, its id is stored, the customer gets the URL.
LinkPreference(w) ==
  /\ At(w, "linking")
  /\ linked' = linked \cup {task[w].chk}
  /\ Return(w)
  /\ UNCHANGED <<session, paidAt, age, born, number, order, done,
                 outbox, provider, event, faults>>

-----------------------------------------------------------------------------
(* OrdersService.processCheckoutPaymentApproved, whoever calls it *)

ReadCheckout(w) ==
  LET c == task[w].chk IN
  /\ At(w, "approving")
  /\ IF order[c] # "none"
       THEN Return(w)
       ELSE Update(w, [task[w] EXCEPT !.at = "marking", !.prev = session[c]])
  /\ UNCHANGED <<rows, outbox, provider, event, faults>>

MarkPaid(w) ==
  LET c == task[w].chk IN
  /\ At(w, "marking")
  /\ session' = [session EXCEPT ![c] = "PAID"]
  /\ paidAt' = paidAt \cup {c}
  /\ Goto(w, "creating")
  /\ UNCHANGED <<linked, age, born, number, order, done,
                 outbox, provider, event, faults>>

\* Mutant: an upsert instead of a create, every promoter goes on to the effects.
CreateOrderOrReuse(w) ==
  /\ At(w, "creating")
  /\ order' = [order EXCEPT ![task[w].chk] = "PAID"]
  /\ Goto(w, FirstEffect(task[w].chk))
  /\ UNCHANGED <<session, linked, paidAt, age, born, number, done,
                 outbox, provider, event, faults>>

\* A unique violation on the id means another task was first and its order is
\* returned; one on the number finds no order of that id and is rethrown.
CreateOrder(w) ==
  LET c == task[w].chk IN
  /\ At(w, "creating")
  /\ \/ /\ order[c] # "none"
        /\ Return(w)
        /\ UNCHANGED order
     \/ /\ order[c] = "none" /\ NumberTaken(OrderRows, number[c])
        /\ Throw(w)
        /\ UNCHANGED order
     \/ /\ order[c] = "none" /\ ~ NumberTaken(OrderRows, number[c])
        /\ order' = [order EXCEPT ![c] = "PAID"]
        /\ Goto(w, FirstEffect(c))
  /\ UNCHANGED <<session, linked, paidAt, age, born, number, done,
                 outbox, provider, event, faults>>

-----------------------------------------------------------------------------
(* The effects of a new order, of either kind *)

CreateDeliveryOrder(w) ==
  LET c == task[w].chk IN
  /\ At(w, "deliver")
  /\ Count(c, "deliver")
  /\ Goto(w, AfterDelivery(c))
  /\ UNCHANGED <<session, linked, paidAt, age, born, number, order,
                 outbox, provider, event, faults>>

\* createDeliveryOrder catches every error and lets its caller go on.
SwallowDeliveryError(w) ==
  /\ At(w, "deliver") /\ faults < MaxFaults
  /\ faults' = faults + 1
  /\ Goto(w, AfterDelivery(task[w].chk))
  /\ UNCHANGED <<rows, outbox, provider, event>>

IncrementUsage(w) ==
  /\ At(w, "redeem")
  /\ Count(task[w].chk, "redeem")
  /\ Goto(w, "record")
  /\ UNCHANGED <<session, linked, paidAt, age, born, number, order,
                 outbox, provider, event, faults>>

RecordCouponUse(w) ==
  /\ At(w, "record")
  /\ Count(task[w].chk, "record")
  /\ Goto(w, "announce")
  /\ UNCHANGED <<session, linked, paidAt, age, born, number, order,
                 outbox, provider, event, faults>>

Announce(w) ==
  LET c == task[w].chk IN
  /\ At(w, "announce")
  /\ Count(c, "announce")
  /\ recoveries' = IF task[w].prev = "FAILED" THEN recoveries \cup {c} ELSE recoveries
  /\ Return(w)
  /\ UNCHANGED <<session, linked, paidAt, age, born, number, order,
                 failures, unsaid, provider, event, faults>>

-----------------------------------------------------------------------------
(* Webhooks.  A payment may be notified late, twice or never; an event     *)
(* already recorded for the payment ends the request with no other effect. *)

RecordWebhookEvent(w, p) ==
  /\ At(w, "idle") /\ w \in Requests
  /\ payStatus[p] # "none" /\ Provider[payFor[p]] = "mercadopago"
  /\ event[p] = "none"
  /\ Update(w, New("mercadopago", "recording", NoCheckout, p, {}))
  /\ UNCHANGED <<rows, outbox, provider, event, faults>>

\* The upsert: two deliveries that both found no row both go on.
UpsertWebhookEvent(w) ==
  LET p == task[w].pay IN
  /\ At(w, "recording")
  /\ event' = [event EXCEPT ![p] = IF @ = "none" THEN "received" ELSE @]
  /\ Goto(w, "hydrating")
  /\ UNCHANGED <<rows, outbox, provider, faults>>

\* Mutant: the status of the payment is not looked at.
HydrateAnyStatus(w) ==
  /\ At(w, "hydrating")
  /\ Update(w, [task[w] EXCEPT !.at = "approving", !.chk = payFor[task[w].pay]])
  /\ UNCHANGED <<rows, outbox, provider, event, faults>>

\* handleWebhook asks the provider for the payment, then reads its session (one
\* step: an approval is final, and any other answer ignores the session); all
\* but "approved and unpaid" is published as a failed payment.
HydratePayment(w) ==
  LET c == payFor[task[w].pay] IN
  /\ At(w, "hydrating")
  /\ IF Promotable(task[w].pay)
       THEN /\ Update(w, [task[w] EXCEPT !.at = "approving", !.chk = c])
            /\ UNCHANGED failures
       ELSE /\ failures' = failures \cup {c}
            /\ Goto(w, "closing")
  /\ UNCHANGED <<rows, recoveries, unsaid, provider, event, faults>>

MarkEventProcessed(w) ==
  /\ task[w].at \in {"closing", "closingError"}
  /\ event' = [event EXCEPT ![task[w].pay] =
                 IF At(w, "closing") THEN "processed" ELSE "failed"]
  /\ Update(w, Idle)
  /\ UNCHANGED <<rows, outbox, provider, faults>>

\* Mutant: any notification promotes.
HandleAnyPaywayWebhook(w, p) ==
  /\ At(w, "idle") /\ w \in Requests
  /\ payStatus[p] # "none" /\ Provider[payFor[p]] = "payway"
  /\ Update(w, New("payway", "approving", payFor[p], p, {}))
  /\ UNCHANGED <<rows, outbox, provider, event, faults>>

\* Payway's notification carries the status the payment had when it was sent,
\* and is not recorded: every delivery is handled.
HandlePaywayWebhook(w, p) ==
  LET c == payFor[p] IN
  /\ At(w, "idle") /\ w \in Requests
  /\ payStatus[p] # "none" /\ Provider[c] = "payway"
  /\ \/ /\ payStatus[p] = "approved"
        /\ Update(w, New("payway", "approving", c, p, {}))
        /\ UNCHANGED failures
     \/ /\ failures' = failures \cup {c}
        /\ UNCHANGED task
  /\ UNCHANGED <<rows, recoveries, unsaid, provider, event, faults>>

-----------------------------------------------------------------------------
(* The cron: PaymentReconciliationService *)

Oldest(S, k) == {c \in S : Cardinality({d \in S : born[d] < born[c]}) < k}
\* Mutant: the two ends of the window are exchanged.
ReconcilableReversed ==
  {c \in linked : session[c] = "PENDING" /\ age[c] \notin {"fresh", "due"}}
Reconcilable ==
  {c \in linked : session[c] = "PENDING" /\ age[c] = "due"}

StartReconcile(w) ==
  /\ At(w, "idle") /\ w \in Ticks /\ Reconcilable # {}
  /\ Update(w, New("reconcile", "polling", NoCheckout, NoPayment,
                   Oldest(Reconcilable, BatchSize)))
  /\ UNCHANGED <<rows, outbox, provider, event, faults>>

EndReconcile(w) ==
  /\ At(w, "polling") /\ task[w].todo = {}
  /\ Update(w, Idle)
  /\ UNCHANGED <<rows, outbox, provider, event, faults>>

\* MercadoPago is asked for the newest payment of the checkout; Payway for the
\* payment behind the link, which is any of them as far as this code knows.
ReconcileOne(w) ==
  /\ At(w, "polling")
  /\ \E c \in Oldest(task[w].todo, 1), p \in Payments \cup {NoPayment} :
       /\ \/ Provider[c] = "mercadopago" /\ p = latest[c]
          \/ Provider[c] = "payway" /\ p # NoPayment /\ payFor[p] = c
          \/ latest[c] = NoPayment /\ p = NoPayment
       /\ LET status == IF p = NoPayment THEN "none" ELSE payStatus[p]
              rest == task[w].todo \ {c}
          IN \/ /\ status = "approved"
                /\ Update(w, New("reconcile", "approving", c, p, rest))
             \/ /\ status = "rejected"
                /\ Update(w, New("reconcile", "failing", c, p, rest))
             \/ /\ status \notin {"approved", "rejected"}
                /\ Update(w, New("reconcile", "polling", NoCheckout, NoPayment, rest))
  /\ UNCHANGED <<rows, outbox, provider, event, faults>>

\* Mutant: the provider's word is stored as it comes.
MarkCheckoutRejected(w) ==
  /\ At(w, "failing")
  /\ session' = [session EXCEPT ![task[w].chk] = "rejected"]
  /\ Goto(w, "publishing")
  /\ UNCHANGED <<linked, paidAt, age, born, number, order, done,
                 outbox, provider, event, faults>>

\* The row is overwritten whatever it has become since the batch was read.
MarkCheckoutFailed(w) ==
  /\ At(w, "failing")
  /\ session' = [session EXCEPT ![task[w].chk] = "FAILED"]
  /\ Goto(w, "publishing")
  /\ UNCHANGED <<linked, paidAt, age, born, number, order, done,
                 outbox, provider, event, faults>>

\* Mutant: nothing is published.
PublishNothing(w) ==
  /\ At(w, "publishing")
  /\ Return(w)
  /\ UNCHANGED <<rows, outbox, provider, event, faults>>

\* Only when the write is answered is the failure published.
PublishPaymentFailed(w) ==
  /\ At(w, "publishing")
  /\ failures' = failures \cup {task[w].chk}
  /\ Return(w)
  /\ UNCHANGED <<rows, recoveries, unsaid, provider, event, faults>>

-----------------------------------------------------------------------------
(* The provider and the environment *)

\* The customer pays through the link, once or again.
CreatePayment(p, c) ==
  /\ payStatus[p] = "none" /\ c \in linked
  /\ payStatus' = [payStatus EXCEPT ![p] = "pending"]
  /\ payFor' = [payFor EXCEPT ![p] = c]
  /\ latest' = [latest EXCEPT ![c] = p]
  /\ UNCHANGED <<rows, outbox, event, task, faults>>

DecidePayment(p) ==
  /\ payStatus[p] = "pending"
  /\ \E s \in {"approved", "rejected"} : payStatus' = [payStatus EXCEPT ![p] = s]
  /\ UNCHANGED <<rows, outbox, payFor, latest, event, task, faults>>

\* Sessions enter the window, and leave it, in the order of their createdAt.
OlderSessions(c) == {d \in SessionRows : born[d] < born[c]}

BecomeDue(c) ==
  /\ session[c] # "none" /\ age[c] = "fresh"
  /\ \A d \in OlderSessions(c) : age[d] # "fresh"
  /\ age' = [age EXCEPT ![c] = "due"]
  /\ UNCHANGED <<session, linked, paidAt, born, number, order, done,
                 outbox, provider, event, task, faults>>

LeaveWindow(c) ==
  /\ age[c] = "due"
  /\ \A d \in OlderSessions(c) : age[d] = "stale"
  /\ age' = [age EXCEPT ![c] = "stale"]
  /\ UNCHANGED <<session, linked, paidAt, born, number, order, done,
                 outbox, provider, event, task, faults>>

\* The FAILED rows whose writers have not published them yet.
Unpublished(W) == {task[w].chk : w \in {v \in W : At(v, "publishing")}}

\* The call a task awaits rejects.  A call whose effect is kept while its answer
\* is lost is a failure at the point after it.  A webhook's event stays as it is
\* when the recording or the report of a failed payment rejects; the delivery row
\* of an order in cash is made inside a try.
StepFails(w) ==
  /\ task[w].at \notin {"idle", "closing", "closingError"} /\ faults < MaxFaults
  /\ faults' = faults + 1
  /\ \/ /\ At(w, "polling")
        /\ \E c \in Oldest(task[w].todo, 1) :
             Update(w, [task[w] EXCEPT !.todo = @ \ {c}])
     \/ /\ At(w, "recording") \/ (At(w, "hydrating") /\ ~ Promotable(task[w].pay))
        /\ Update(w, Idle)
     \/ /\ ~ At(w, "polling") /\ ~ At(w, "recording")
        /\ ~ (At(w, "deliver") /\ task[w].job = "create")
        /\ Throw(w)
  /\ unsaid' = unsaid \cup Unpublished({w})
  /\ UNCHANGED <<rows, failures, recoveries, provider, event>>

\* After a promotion the update is inside the try whose catch repeats it with the error.
ClosingFails(w) ==
  /\ task[w].at \in {"closing", "closingError"} /\ faults < MaxFaults
  /\ faults' = faults + 1
  /\ Update(w, IF At(w, "closing") /\ task[w].chk # NoCheckout
                THEN [task[w] EXCEPT !.at = "closingError"] ELSE Idle)
  /\ UNCHANGED <<rows, outbox, provider, event>>

\* The process restarts: every task is gone, every row stays.
Crash ==
  /\ faults < MaxFaults /\ \E w \in Workers : task[w] # Idle
  /\ faults' = faults + 1
  /\ task' = [w \in Workers |-> Idle]
  /\ unsaid' = unsaid \cup Unpublished(Workers)
  /\ UNCHANGED <<rows, failures, recoveries, provider, event>>

-----------------------------------------------------------------------------
(* The specification *)

Promote(w) ==
  ReadCheckout(w) \/ MarkPaid(w) \/ CreateOrder(w)
ApplyEffects(w) ==
  CreateDeliveryOrder(w) \/ IncrementUsage(w) \/ RecordCouponUse(w) \/ Announce(w)

\* What a running task does next by itself.
Proceed(w) ==
  \/ ValidateCoupon(w) \/ GenerateOrderNumber(w) \/ InsertRow(w) \/ LinkPreference(w)
  \/ Promote(w) \/ ApplyEffects(w)
  \/ UpsertWebhookEvent(w) \/ HydratePayment(w) \/ MarkEventProcessed(w)
  \/ EndReconcile(w) \/ ReconcileOne(w)
  \/ MarkCheckoutFailed(w) \/ PublishPaymentFailed(w)

Arrive(w) ==
  \/ w \in Requests /\ \E c \in Checkouts : StartCreate(w, c)
  \/ \E p \in Payments : RecordWebhookEvent(w, p) \/ HandlePaywayWebhook(w, p)
  \/ StartReconcile(w)

Fault(w) == SwallowDeliveryError(w) \/ StepFails(w) \/ ClosingFails(w)

Outside ==
  \/ \E p \in Payments : DecidePayment(p) \/ \E c \in Checkouts : CreatePayment(p, c)
  \/ \E c \in Checkouts : BecomeDue(c) \/ LeaveWindow(c)
  \/ Crash

Next == (\E w \in Workers : Proceed(w) \/ Arrive(w) \/ Fault(w)) \/ Outside

Spec == Init /\ [][Next]_vars

\* A running handler goes on, the scheduler fires, time passes.  Nothing is
\* assumed of customers, of webhooks, of faults, nor of the end of the window.
FairSpec ==
  /\ Spec
  /\ \A w \in Workers : WF_vars(Proceed(w))
  /\ \A w \in Ticks : WF_vars(StartReconcile(w))
  /\ \A c \in Checkouts : WF_vars(BecomeDue(c))
-----------------------------------------------------------------------------
(* Properties *)

\* An order is paid, and a session carries a date of payment, only if the
\* provider approved a payment of that very checkout; a promoted order's session
\* was marked first.  Every road to processCheckoutPaymentApproved carries the
\* approval across several awaits.
PaidMeansApproved ==
  \A c \in Checkouts :
    /\ session[c] = "PAID" => c \in paidAt
    /\ order[c] = "PAID" => c \in paidAt
    /\ c \in paidAt => Paid(c, "approved")

\* However many webhooks and ticks promote a checkout at once, its order gets one
\* delivery row, one increment of the coupon, one record of its use after the
\* increment, and is announced once: the unique id elects a single creator.
EffectsAtMostOnce ==
  \A c \in Checkouts :
    /\ \A e \in Effects : done[c][e] <= 1
    /\ (\E e \in Effects : done[c][e] > 0) => order[c] # "none"
    /\ done[c]["record"] <= done[c]["redeem"]

Traced(c) == c \in failures \cup unsaid \/ \E w \in Workers : At(w, "publishing") /\ task[w].chk = c

\* Behind a FAILED session there is a rejected payment, and its failure was
\* published, or its writer is about to publish it, or a fault fell exactly
\* between the two; a recovery is published only for an order whose session had
\* FAILED so.  (Not that the failure is published first: a webhook may promote
\* the session while the cron's write is being answered.)
FailureTrail ==
  \A c \in Checkouts :
    /\ session[c] = "FAILED" => Traced(c) /\ Paid(c, "rejected")
    /\ c \in recoveries => Traced(c) /\ Paid(c, "rejected") /\ order[c] = "PAID"
    /\ c \in unsaid => faults > 0

\* The checkout implements the promise of PaidOrder.
Promise == INSTANCE PaidOrder WITH
  approved <- {c \in Checkouts : Paid(c, "approved")},
  promoted <- {c \in Checkouts : order[c] = "PAID"},
  carried <- [c \in Checkouts |->
                IF order[c] = "PAID" THEN {e \in Effects : done[c][e] > 0} ELSE {}]
ImplementsPromise == Promise!Spec

Settleable(c) ==
  latest[c] # NoPayment /\ payStatus[latest[c]] = "approved" /\ c \in linked

\* Left out of the next tick by as many older sessions as a batch holds.
Crowded(c) == c \in Reconcilable /\ c \notin Oldest(Reconcilable, BatchSize)

\* The cron settles what webhooks missed: a linked session whose newest payment
\* is approved does not stay PENDING inside its 24 hours, unless older sessions
\* (paid or abandoned) leave it out of the batch again and again.
PendingIsSettled ==
  \A c \in Checkouts :
    <>[](Settleable(c) /\ session[c] = "PENDING" /\ age[c] # "stale") => []<>Crowded(c)

\* Stronger: while nothing fails, an approved payment ends in an order, unless its
\* session is crowded out, grows stale or FAILED for an earlier payment.
ApprovedIsPromoted ==
  \A c \in Checkouts :
    <>[](/\ Settleable(c) /\ order[c] # "PAID"
         /\ session[c] # "FAILED" /\ age[c] # "stale" /\ faults = 0)
      => []<>Crowded(c)

\* Inside the window an approved payment without an order is in the reach of the
\* cron, whatever was lost: its session is PENDING, or a task is at work on it.
ApprovedStaysInReach ==
  \A c \in Checkouts :
    (Settleable(c) /\ order[c] = "none" /\ age[c] # "stale") =>
      (session[c] = "PENDING" \/ \E w \in Workers : task[w].chk = c)
=============================================================================
