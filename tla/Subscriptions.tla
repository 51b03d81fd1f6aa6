---------------------------- MODULE Subscriptions ----------------------------
(***************************************************************************)
(* The billing of an account: the trial and its end, the monthly renewal,  *)
(* the retries of a failed charge, the grace period, cancellation, and the *)
(* payments the customer makes at a checkout.                              *)
(*                                                                         *)
(* Six writers share the row of a subscription.  The cron jobs run in      *)
(* every instance of the server; two of them take the row with a           *)
(* conditional update, and PAST_DUE is their mark of "being processed".    *)
(* The other writes ask for nothing but the id.  An action is the code     *)
(* between two awaits that matter.                                         *)
(*                                                                         *)
(* A user has one subscription, the anchor (isBillingAnchor), for all the  *)
(* restaurants; one that a restaurant had before is left beside it.        *)
(* Requests and payments of any of them are about the row of the anchor.   *)
(*                                                                         *)
(* Time is the number of days left of the current period, negative once it *)
(* is over; a job of a day ends in that day.  Emails never throw and are   *)
(* left out, as are the plan's features, and amounts but for zero.         *)
(***************************************************************************)
EXTENDS Integers, FiniteSets

CONSTANTS
  Subs,
  Anchor,          \* the subscription that stands for the account of each
  Workers,         \* slots for what runs at the same time, in any instance
  Instances,       \* how many instances of the server run the daily jobs
  Period,          \* days of a period, and of a trial
  GraceDays,       \* GRACE_PERIOD_DAYS
  RetryDays,       \* days overdue on which a charge is retried
  Downgrade,       \* days overdue after which the subscription expires
  Attempts,        \* charges of one run of a job
  NoSub,
  MaxEvents        \* bound: requests of the customer, lost answers, failed queries,
                   \* restarts and visits of a SUPER_ADMIN, together

ASSUME SubscriptionAssumption ==
  /\ Period \in Nat \ {0} /\ GraceDays \in Nat \ {0} /\ Downgrade \in Nat \ {0}
  /\ Attempts \in Nat \ {0} /\ RetryDays \subseteq 1..(Downgrade - 1)
  /\ Instances \in Nat /\ MaxEvents \in Nat
  /\ NoSub \notin Subs /\ IsFiniteSet(Workers)
  /\ Anchor \in [Subs -> Subs] /\ \A s \in Subs : Anchor[Anchor[s]] = Anchor[s]

Anchors == {s \in Subs : Anchor[s] = s}

VARIABLES
  sub,             \* Subscription and its card
  charged,         \* keys under which the provider took a payment today
  invoices,        \* how many invoices there are for each payment, by who paid
  web,             \* the customer's own payment at the provider
  noticed,         \* the webhook event of that payment is recorded
  rejected,        \* a rejected payment whose notice is on its way
  worker,          \* what runs
  dunned,          \* how many instances retried the overdue today
  events,          \* requests and failures so far
  served,          \* history: the running period was paid
  disturbed,       \* history: see Sound
  raced,           \* history: payments looked up while another worker was to book them
  unbooked         \* history: payments whose booking failed, or that a SUPER_ADMIN kept
                   \* from being booked

books == <<raced, unbooked>>
vars == <<sub, charged, invoices, web, noticed, rejected, worker, dunned, events,
          served, disturbed, books>>

Statuses == {"TRIALING", "ACTIVE", "PAST_DUE", "CANCELED", "EXPIRED"}

\* The idempotency keys of a day's charges, and the ids of the other payments
CardKeys == ({"trial", "renewal"} \X (1..Attempts)) \cup {<<"dunning", 1>>}
FreeKeys == {<<"free_plan_activation", 0>>, <<"free_plan_renewal", 0>>}
WebKey == <<"web", 1>>
Keys == CardKeys \cup FreeKeys \cup {WebKey}
NoKey == <<"none", 0>>

Longest == IF GraceDays > Period THEN GraceDays ELSE Period
Row == [status : Statuses, trial : {"none", "ahead", "past"},
        left : (-Downgrade)..Longest, cancel : BOOLEAN, free : BOOLEAN,
        priced : BOOLEAN, card : BOOLEAN]
\* What a job or a request remembers of the row it read
Seen == [status : Statuses, card : BOOLEAN, priced : BOOLEAN]
Nothing == [status |-> "EXPIRED", card |-> FALSE, priced |-> FALSE]
Jobs == {"none", "trial", "renewal", "dunning", "grace", "finalize", "web",
         "reactivate", "create", "update"}
Steps == {"idle", "lock", "charge", "check", "book", "extend", "expire", "grace",
          "end", "record", "apply"}
Worker == [job : Jobs, at : Steps, sub : Subs \cup {NoSub}, n : 1..Attempts,
           key : Keys \cup {NoKey}, read : Seen, fresh : BOOLEAN]
Idle == [job |-> "none", at |-> "idle", sub |-> NoSub, n |-> 1, key |-> NoKey,
         read |-> Nothing, fresh |-> TRUE]

TypeOK ==
  /\ sub \in [Subs -> Row]
  /\ charged \in [Subs -> SUBSET CardKeys]
  /\ invoices \in [Subs -> [Keys -> 0..Cardinality(Workers)]]
  /\ web \in [Subs -> {"none", "pending", "approved"}]
  /\ noticed \in [Subs -> BOOLEAN]
  /\ rejected \in [Subs -> {"no", "sent", "done"}]
  /\ worker \in [Workers -> Worker]
  /\ dunned \in [Subs -> 0..Instances]
  /\ events \in 0..MaxEvents
  /\ served \in [Subs -> BOOLEAN]
  /\ disturbed \subseteq Subs
  /\ raced \subseteq Subs \X Keys /\ unbooked \subseteq Subs \X Keys

\* createSubscription of a paid plan, with or without a card added since, cancelled or not;
\* what is left beside an anchor had been paid for with its card
FirstRow(s) ==
  IF s \in Anchors
    THEN [status : {"TRIALING"}, trial : {"ahead"}, left : {Period}, cancel : BOOLEAN,
          free : {FALSE}, priced : {TRUE}, card : BOOLEAN]
    ELSE [status : {"ACTIVE"}, trial : {"none"}, left : {Period}, cancel : {FALSE},
          free : {FALSE}, priced : {TRUE}, card : {TRUE}]

Init ==
  /\ sub \in [Subs -> UNION {FirstRow(s) : s \in Subs}]
  /\ \A s \in Subs : sub[s] \in FirstRow(s)
  /\ charged = [s \in Subs |-> {}]
  /\ invoices = [s \in Subs |-> [k \in Keys |-> 0]]
  /\ web = [s \in Subs |-> "none"] /\ noticed = [s \in Subs |-> FALSE]
  /\ rejected = [s \in Subs |-> "no"]
  /\ worker = [w \in Workers |-> Idle]
  /\ dunned = [s \in Subs |-> 0]
  /\ events = 0
  /\ served = [s \in Subs |-> FALSE]
  /\ disturbed = {} /\ raced = {} /\ unbooked = {}

-----------------------------------------------------------------------------
(* Reading and writing a subscription *)

\* The worker goes on; whoever else works on the subscription has not seen a change
Goes(w, next, s, changed) ==
  worker' = [v \in Workers |->
    IF v = w THEN next
    ELSE IF worker[v].sub = s /\ changed THEN [worker[v] EXCEPT !.fresh = FALSE]
    ELSE worker[v]]
Goes1(w, next) == Goes(w, next, NoSub, FALSE)
Done(w) == Goes1(w, Idle)
At(w, step) == worker[w].at = step
OnTime(w) == disturbed' = IF worker[w].fresh THEN disturbed
                                             ELSE disturbed \cup {worker[w].sub}

\* A request of the customer, or a failure
Event == events < MaxEvents /\ events' = events + 1

others == <<charged, invoices, web, noticed, rejected, dunned, events, books>>

\* A job or a request reads the row and starts to work on it
Start(w, s, job, step) ==
  /\ At(w, "idle")
  /\ Goes1(w, [Idle EXCEPT !.job = job, !.at = step, !.sub = s,
       !.read = [status |-> sub[s].status, card |-> sub[s].card, priced |-> sub[s].priced]])
  /\ UNCHANGED <<sub, served, disturbed>>
Read(w, s, job, step) == Start(w, s, job, step) /\ UNCHANGED others
Request(w, s, job, step) ==
  /\ Event
  /\ Start(w, s, job, step)
  /\ UNCHANGED <<charged, invoices, web, noticed, rejected, dunned, books>>

\* An update of the row by its id, the last thing its worker does
Update(w, row) ==
  LET s == worker[w].sub IN
  /\ sub' = [sub EXCEPT ![s] = row]
  /\ served' = [served EXCEPT ![s] = @ /\ row.left > 0]
  /\ OnTime(w)
  /\ Goes(w, Idle, s, row # sub[s])
  /\ UNCHANGED others

-----------------------------------------------------------------------------
(* What each job selects *)

TrialDue(s) ==
  s \in Anchors /\ sub[s].status = "TRIALING" /\ sub[s].trial = "past" /\ ~sub[s].free

\* The renewal and the end of a cancelled period do not ask for the anchor
RenewalDue(s) == sub[s].status = "ACTIVE" /\ sub[s].left <= 0 /\ ~sub[s].cancel
FinalDue(s) == sub[s].cancel /\ sub[s].left <= 0 /\ sub[s].status # "CANCELED"

\* (mutant) the grace is looked for among the trials still running
GraceOfTrials(s) ==
  s \in Anchors /\ sub[s].status = "TRIALING" /\ sub[s].trial = "past" /\ ~sub[s].card

GraceDue(s) ==
  /\ sub[s].status = "PAST_DUE" /\ sub[s].trial = "past" /\ sub[s].left <= 0
  /\ s \in Anchors /\ ~sub[s].free /\ ~sub[s].card

Overdue(s) == s \in Anchors /\ sub[s].status = "PAST_DUE" /\ ~sub[s].free

Retried(s) == -sub[s].left \in RetryDays /\ sub[s].card /\ sub[s].priced

\* checkExpiredTrials, every hour
ReadTrial(w) == \E s \in Subs : TrialDue(s) /\ Read(w, s, "trial", "lock")

\* processMonthlyRenewals, once a day
ReadRenewal(w) == \E s \in Subs :
  RenewalDue(s) /\ Read(w, s, "renewal", IF sub[s].free THEN "extend" ELSE "lock")

\* (mutant) the lock only looks at whether the subscription may be charged
StillChargeable(w) == sub[worker[w].sub].status \in {"TRIALING", "ACTIVE", "PAST_DUE"}

\* The optimistic lock: the update takes the row if it is still as the job selected it
StillDue(w) ==
  LET s == worker[w].sub IN
  IF worker[w].job = "trial"
    THEN sub[s].status = "TRIALING"
    ELSE sub[s].status = "ACTIVE" /\ sub[s].left <= 0

\* A trial without a card gets its days of grace; without a price there is
\* nothing to charge; a renewal reads the card after the lock
AfterLock(w) ==
  LET q == worker[w]
      card == IF q.job = "trial" THEN q.read.card ELSE sub[q.sub].card
      next == [q EXCEPT !.read = Nothing, !.fresh = TRUE]
  IN
  IF q.job = "trial" /\ ~card THEN [next EXCEPT !.at = "grace"]
  ELSE IF ~q.read.priced
    THEN [next EXCEPT !.at = "check",
            !.key = IF q.job = "trial" THEN <<"free_plan_activation", 0>>
                                       ELSE <<"free_plan_renewal", 0>>]
  ELSE IF ~card THEN Idle
  ELSE [next EXCEPT !.at = "charge"]

\* The lock of a trial looks at the status alone: the trial may be another one by now
OtherTrial(w) == worker[w].job = "trial" /\ sub[worker[w].sub].trial # "past"

Lock(w) ==
  LET s == worker[w].sub IN
  /\ At(w, "lock")
  /\ IF StillDue(w)
       THEN /\ sub' = [sub EXCEPT ![s].status = "PAST_DUE"]
            /\ disturbed' = IF OtherTrial(w) THEN disturbed \cup {s} ELSE disturbed
            /\ Goes(w, AfterLock(w), s, TRUE)
       ELSE Done(w) /\ UNCHANGED <<sub, disturbed>>
  /\ UNCHANGED <<others, served>>

\* retryPastDueSubscriptions, once a day in each instance
ReadDunning(w, s) ==
  /\ Overdue(s) /\ (sub[s].trial # "none" => sub[s].card)
  /\ dunned[s] < Instances
  /\ dunned' = [dunned EXCEPT ![s] = @ + 1]
  /\ \/ -sub[s].left >= Downgrade /\ Start(w, s, "dunning", "expire")
     \/ Retried(s) /\ Start(w, s, "dunning", "charge")
  /\ UNCHANGED <<charged, invoices, web, noticed, rejected, events, books>>

\* checkExpiredTrialGracePeriods, every hour
ReadGrace(w, s) == GraceDue(s) /\ Read(w, s, "grace", "expire")

\* finalizeCanceledSubscriptions, once a day
ReadFinal(w) == \E s \in Subs : FinalDue(s) /\ Read(w, s, "finalize", "end")

-----------------------------------------------------------------------------
(* A charge and its booking *)

Key(w) == <<worker[w].job, worker[w].n>>

\* (mutant) one more attempt than there are
FailedOnce(w) ==
  LET q == worker[w] IN
  IF q.job \in {"trial", "renewal"} /\ q.key \notin FreeKeys
    THEN IF q.n <= Attempts THEN [q EXCEPT !.at = "charge", !.n = @ + 1, !.key = NoKey]
         ELSE Idle
    ELSE Idle

\* The attempt failed: the next one, or the end of the run
Failed(w) ==
  LET q == worker[w] IN
  IF q.job \in {"trial", "renewal"} /\ q.key \notin FreeKeys
    THEN IF q.n < Attempts THEN [q EXCEPT !.at = "charge", !.n = @ + 1, !.key = NoKey]
         ELSE IF q.job = "trial" THEN [q EXCEPT !.at = "expire"]
         ELSE Idle
    ELSE Idle

\* chargeWithSavedCard: a payment taken under a key is not taken again under it
ChargeApproved(w) ==
  LET s == worker[w].sub IN
  /\ At(w, "charge")
  /\ charged' = [charged EXCEPT ![s] = @ \cup {Key(w)}]
  /\ Goes1(w, [worker[w] EXCEPT !.at = "check", !.key = Key(w)])
  /\ OnTime(w)
  /\ UNCHANGED <<sub, invoices, web, noticed, rejected, dunned, events, served, books>>

ChargeRejected(w) ==
  /\ At(w, "charge") /\ Key(w) \notin charged[worker[w].sub]
  /\ Goes1(w, Failed(w))
  /\ UNCHANGED <<sub, served, disturbed, others>>

\* The provider took the payment and its answer is lost
ChargeLost(w) ==
  LET s == worker[w].sub IN
  /\ At(w, "charge") /\ Event
  /\ charged' = [charged EXCEPT ![s] = @ \cup {Key(w)}]
  /\ disturbed' = disturbed \cup {s}
  /\ unbooked' = unbooked \cup {<<s, Key(w)>>}
  /\ Goes1(w, Failed(w))
  /\ UNCHANGED <<sub, invoices, web, noticed, rejected, dunned, served, raced>>

\* (mutant) only the free plans are looked up
InvoicedFree(s, k) == k \in FreeKeys /\ \E u \in Subs : invoices[u][k] > 0

\* processPaymentApproved: an invoice of the payment, of any account, ends it
Invoiced(s, k) ==
  IF k \in FreeKeys THEN \E u \in Subs : invoices[u][k] > 0 ELSE invoices[s][k] > 0

\* A payment that a worker has and that is not booked
Booking(w, s, k) ==
  worker[w].sub = s /\ worker[w].key = k /\ worker[w].at \in {"check", "book"}

CheckInvoice(w) ==
  LET q == worker[w]
      found == Invoiced(q.sub, q.key)
      other == \E v \in Workers \ {w} : Booking(v, q.sub, q.key) /\ At(v, "book")
  IN
  /\ At(w, "check")
  /\ Goes1(w, IF found THEN Idle ELSE [q EXCEPT !.at = "book", !.fresh = TRUE])
  /\ raced' = IF ~found /\ other THEN raced \cup {<<q.sub, q.key>>} ELSE raced
  /\ UNCHANGED <<sub, served, disturbed, charged, invoices, web, noticed, rejected, dunned,
                 events, unbooked>>

\* While a SUPER_ADMIN is in the restaurant its payments are not booked
SkipForAdmin(w) ==
  /\ At(w, "check") /\ Event
  /\ unbooked' = unbooked \cup {<<worker[w].sub, worker[w].key>>}
  /\ Done(w)
  /\ UNCHANGED <<sub, served, disturbed, charged, invoices, web, noticed, rejected, dunned, raced>>

\* The transaction: the account's subscription is active for a period, with its invoice
Book(w, row) ==
  LET q == worker[w] IN
  /\ At(w, "book")
  /\ sub' = [sub EXCEPT ![Anchor[q.sub]] = row]
  /\ invoices' = [invoices EXCEPT ![q.sub][q.key] = @ + 1]
  /\ served' = [served EXCEPT ![Anchor[q.sub]] = TRUE]
  /\ OnTime(w)
  /\ Goes(w, Idle, Anchor[q.sub], TRUE)
  /\ UNCHANGED <<charged, web, noticed, rejected, dunned, events, books>>

\* (mutant) the period of a trial is kept
BookWithinTrial(w) ==
  Book(w, [sub[Anchor[worker[w].sub]] EXCEPT !.status = "ACTIVE", !.trial = "none",
                                             !.cancel = FALSE])

BookPayment(w) ==
  Book(w, [sub[Anchor[worker[w].sub]] EXCEPT !.status = "ACTIVE", !.trial = "none",
                                             !.left = Period, !.cancel = FALSE])

\* markAsExpired
MarkExpired(w) ==
  At(w, "expire") /\ Update(w, [sub[worker[w].sub] EXCEPT !.status = "EXPIRED"])

\* markTrialGracePeriod
MarkGrace(w) ==
  /\ At(w, "grace")
  /\ Update(w, [sub[worker[w].sub] EXCEPT !.status = "PAST_DUE", !.left = GraceDays])

\* extendPeriodWithoutCharge
Extend(w) ==
  At(w, "extend") /\ Update(w, [sub[worker[w].sub] EXCEPT !.status = "ACTIVE", !.left = Period])

FinalizeSubscription(w) ==
  At(w, "end") /\ Update(w, [sub[worker[w].sub] EXCEPT !.status = "CANCELED"])

-----------------------------------------------------------------------------
(* The customer, in any restaurant of the account *)

\* createCheckout and the payment of it: approved at once, or pending for a while
Pay(s) == \E state \in {"pending", "approved"} :
  /\ s \in Anchors /\ Event
  /\ web[s] = "none" /\ web' = [web EXCEPT ![s] = state]
  /\ UNCHANGED <<sub, charged, invoices, noticed, rejected, worker, dunned,
                 served, disturbed, books>>

Approve(s) ==
  /\ web[s] = "pending" /\ web' = [web EXCEPT ![s] = "approved"]
  /\ UNCHANGED <<sub, charged, invoices, noticed, rejected, worker, dunned,
                 events, served, disturbed, books>>

\* A notification: findUnique finds no event of this payment
ReadNotice(w) == \E s \in Subs :
  web[s] # "none" /\ ~noticed[s] /\ Read(w, s, "web", "record")

\* The event is recorded and the payment asked for; a pending one needs no more
RecordNotice(w) ==
  LET s == worker[w].sub IN
  /\ At(w, "record")
  /\ noticed' = [noticed EXCEPT ![s] = TRUE]
  /\ Goes1(w, IF web[s] = "approved" THEN [worker[w] EXCEPT !.at = "check", !.key = WebKey]
                                     ELSE Idle)
  /\ UNCHANGED <<sub, charged, invoices, web, rejected, dunned, events, served,
                 disturbed, books>>

PayRejected(s) ==
  /\ s \in Anchors /\ Event
  /\ rejected[s] = "no" /\ rejected' = [rejected EXCEPT ![s] = "sent"]
  /\ UNCHANGED <<sub, charged, invoices, web, noticed, worker, dunned, served,
                 disturbed, books>>

\* markAsPastDue: whatever the subscription is by then
RejectedNotice(s) ==
  /\ rejected[s] = "sent" /\ rejected' = [rejected EXCEPT ![s] = "done"]
  /\ sub' = [sub EXCEPT ![s].status = "PAST_DUE"]
  /\ disturbed' = disturbed \cup {s}
  /\ worker' = [w \in Workers |-> IF worker[w].sub = s
                                   THEN [worker[w] EXCEPT !.fresh = FALSE] ELSE worker[w]]
  /\ UNCHANGED <<charged, invoices, web, noticed, dunned, events, served, books>>

\* Requests that write what does not depend on what they read
Change(s, row) ==
  /\ s \in Anchors /\ Event
  /\ row # sub[s] /\ sub' = [sub EXCEPT ![s] = row]
  /\ worker' = [w \in Workers |-> IF worker[w].sub = s
                                   THEN [worker[w] EXCEPT !.fresh = FALSE] ELSE worker[w]]
  /\ UNCHANGED <<charged, invoices, web, noticed, rejected, dunned, served, disturbed, books>>

CancelSubscription(s) ==
  sub[s].status # "CANCELED" /\ Change(s, [sub[s] EXCEPT !.cancel = TRUE])
UpgradePlan(s) == \E p \in BOOLEAN : Change(s, [sub[s] EXCEPT !.priced = p])
AddPaymentMethod(s) == Change(s, [sub[s] EXCEPT !.card = TRUE])
RemovePaymentMethod(s) == Change(s, [sub[s] EXCEPT !.card = FALSE])

\* reactivateSubscription: the status it read is written back
ReadForReactivate(w) == \E s \in Anchors :
  /\ sub[s].cancel \/ sub[s].status = "CANCELED"
  /\ sub[s].left > 0
  /\ Request(w, s, "reactivate", "apply")

Reactivate(w) ==
  LET read == worker[w].read.status IN
  /\ At(w, "apply") /\ worker[w].job = "reactivate"
  /\ Update(w, [sub[worker[w].sub] EXCEPT !.cancel = FALSE,
                  !.status = IF read = "CANCELED" THEN "ACTIVE" ELSE read])

\* createSubscription, over one that ended
ReadForCreate(w) == \E s \in Anchors :
  sub[s].status \in {"EXPIRED", "CANCELED"} /\ Request(w, s, "create", "apply")

CreateSubscription(w) == \E priced \in BOOLEAN :
  LET row == [sub[worker[w].sub] EXCEPT !.left = Period, !.cancel = FALSE,
                                        !.priced = priced, !.free = ~priced]
  IN
  /\ At(w, "apply") /\ worker[w].job = "create"
  /\ Update(w, IF priced THEN [row EXCEPT !.status = "TRIALING", !.trial = "ahead"]
                         ELSE [row EXCEPT !.status = "ACTIVE"])

\* updateSubscription: an upgrade during the trial ends it
ReadForUpdate(w) == \E s \in Anchors :
  sub[s].status \notin {"EXPIRED", "CANCELED"} /\ Request(w, s, "update", "apply")

UpdateSubscription(w) == \E priced, upgrade \in BOOLEAN :
  LET row == [sub[worker[w].sub] EXCEPT !.priced = priced, !.free = ~priced] IN
  /\ At(w, "apply") /\ worker[w].job = "update"
  /\ Update(w, IF upgrade /\ worker[w].read.status = "TRIALING"
                 THEN [row EXCEPT !.status = "ACTIVE", !.trial = "none", !.left = Period]
                 ELSE row)

-----------------------------------------------------------------------------
(* Time and failures *)

\* The day's jobs were down, or a past trial was changed to a plan they pass over
Missed(s) ==
  RenewalDue(s) \/ FinalDue(s) \/ (sub[s].status = "TRIALING" /\ sub[s].trial = "past")

\* The day ends when nothing runs
NewDay ==
  /\ \A w \in Workers : At(w, "idle")
  /\ sub' = [s \in Subs |->
       LET left == IF sub[s].left = -Downgrade THEN sub[s].left ELSE sub[s].left - 1 IN
       [sub[s] EXCEPT !.left = left,
                      !.trial = IF @ = "ahead" /\ left <= 0 THEN "past" ELSE @]]
  /\ charged' = [s \in Subs |-> {}]
  /\ invoices' = [s \in Subs |-> [k \in Keys |-> IF k \in CardKeys THEN 0 ELSE invoices[s][k]]]
  /\ dunned' = [s \in Subs |-> 0]
  /\ served' = [s \in Subs |-> served[s] /\ sub[s].left > 1]
  /\ disturbed' = disturbed \cup {s \in Subs : Missed(s)}
  /\ raced' = {p \in raced : p[2] \notin CardKeys}
  /\ unbooked' = {p \in unbooked : p[2] \notin CardKeys}
  /\ UNCHANGED <<web, noticed, rejected, worker, events>>

\* The payment a worker leaves without its invoice
Dropped(w) == {p \in Subs \X Keys : Booking(w, p[1], p[2])}

\* A query rejects: a charge's attempt fails, and the job of the trials puts back
\* the status it found
Fail(w) ==
  LET q == worker[w]
      s == q.sub
      back == q.job = "trial" /\ (q.at \in {"expire", "grace"} \/ q.key \in FreeKeys)
  IN
  /\ q.at \in {"check", "book", "expire", "grace"} /\ Event /\ disturbed' = disturbed \cup {s}
  /\ sub' = IF back THEN [sub EXCEPT ![s].status = "TRIALING"] ELSE sub
  /\ Goes(w, IF back THEN Idle ELSE Failed(w), s, back)
  /\ unbooked' = unbooked \cup Dropped(w)
  /\ UNCHANGED <<charged, invoices, web, noticed, rejected, dunned, served, raced>>

\* An instance stops between two writes; before its first it might not have started
Crash(w) ==
  /\ worker[w].at \in {"charge", "check", "book", "expire", "grace"}
  /\ worker[w].job \in {"trial", "renewal"} \/ worker[w].key # NoKey
  /\ Event /\ disturbed' = disturbed \cup {worker[w].sub}
  /\ unbooked' = unbooked \cup Dropped(w)
  /\ Done(w)
  /\ UNCHANGED <<sub, charged, invoices, web, noticed, rejected, dunned, served, raced>>

Step(w) ==
  \/ Lock(w) \/ ChargeApproved(w) \/ ChargeRejected(w)
  \/ CheckInvoice(w) \/ BookPayment(w)
  \/ MarkExpired(w) \/ MarkGrace(w) \/ Extend(w) \/ FinalizeSubscription(w)
  \/ RecordNotice(w) \/ Reactivate(w) \/ CreateSubscription(w) \/ UpdateSubscription(w)

Select(w) ==
  \/ ReadTrial(w) \/ ReadRenewal(w) \/ ReadFinal(w)
  \/ \E s \in Subs : ReadDunning(w, s) \/ ReadGrace(w, s)

Next ==
  \/ \E w \in Workers :
       \/ Step(w) \/ Select(w)
       \/ ReadNotice(w) \/ ReadForReactivate(w) \/ ReadForCreate(w) \/ ReadForUpdate(w)
       \/ ChargeLost(w) \/ SkipForAdmin(w) \/ Fail(w) \/ Crash(w)
  \/ \E s \in Subs :
       \/ Pay(s) \/ Approve(s) \/ PayRejected(s) \/ RejectedNotice(s)
       \/ CancelSubscription(s) \/ UpgradePlan(s)
       \/ AddPaymentMethod(s) \/ RemovePaymentMethod(s)
  \/ NewDay

\* The jobs are scheduled for ever, what runs goes on, and days pass
Fairness ==
  /\ WF_vars(NewDay)
  /\ \A w \in Workers : WF_vars(Step(w))
  /\ \A s \in Anchors : WF_vars(\E w \in Workers : ReadDunning(w, s) \/ ReadGrace(w, s))

Spec == Init /\ [][Next]_vars /\ Fairness

-----------------------------------------------------------------------------
(* Properties.  A subscription is sound while every charge and write found    *)
(* what its job had read last (the row, or that the payment has no invoice),  *)
(* no lock took another trial than the one that was over, no call failed, no  *)
(* payment was rejected and no job missed its day.                            *)

Sound == Subs \ disturbed

\* However many instances run the jobs, the card of a sound subscription is charged
\* once a day at most: PAST_DUE as a lock elects one of them.
ChargedOnce == \A s \in Sound : Cardinality(charged[s]) <= 1

\* `Implementa idempotencia por paymentId': a payment is booked twice only if two had it
\* and both looked before either booked it.  Every payment of a card is booked or about to
\* be, unless a failure or a SUPER_ADMIN came in between; and what is booked was paid.
BooksBalance ==
  \A s \in Subs, k \in Keys :
    /\ invoices[s][k] > 1 => <<s, k>> \in raced
    /\ k \in charged[s] =>
         \/ invoices[s][k] > 0 \/ <<s, k>> \in unbooked
         \/ \E w \in Workers : Booking(w, s, k)
    /\ invoices[s][k] > 0 /\ k \notin FreeKeys =>
         k \in charged[s] \/ (k = WebKey /\ web[s] = "approved")

\* Who has paid for the running period is served until it ends.
PaidIsServed ==
  \A s \in Sound : served[s] => sub[s].status = "ACTIVE" /\ sub[s].left > 0

\* The subscription of an account that pays is not PAST_DUE for ever: it is charged,
\* cancelled or expires.
PastDueResolves ==
  \A s \in Anchors : []<>(sub[s].status # "PAST_DUE" \/ sub[s].free)

\* `Finaliza suscripciones canceladas al terminar período': who cancels is not charged.
CancelledIsNotCharged ==
  [][\A s \in Subs : sub[s].cancel => charged'[s] \subseteq charged[s]]_vars

=============================================================================
