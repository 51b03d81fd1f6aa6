------------------------- MODULE SubscriptionsProofs -------------------------
(***************************************************************************)
(* Theorems about Subscriptions, for every set of subscriptions and of     *)
(* workers, any number of instances, every period, grace and list of days  *)
(* of retry, and any number of requests and failures.                      *)
(***************************************************************************)
EXTENDS Subscriptions, FiniteSetTheorems, TLAPS

-----------------------------------------------------------------------------
(* Types.  What a worker is about to do needs what it did before: it works  *)
(* on a subscription, under a key of the job it runs.                       *)

Types ==
  /\ sub \in [Subs -> Row]
  /\ charged \in [Subs -> SUBSET CardKeys]
  /\ invoices \in [Subs -> [Keys -> Nat]]
  /\ web \in [Subs -> {"none", "pending", "approved"}]
  /\ noticed \in [Subs -> BOOLEAN]
  /\ rejected \in [Subs -> {"no", "sent", "done"}]
  /\ worker \in [Workers -> Worker]
  /\ dunned \in [Subs -> 0..Instances]
  /\ events \in 0..MaxEvents
  /\ served \in [Subs -> BOOLEAN]
  /\ disturbed \subseteq Subs

Wired(q) ==
  /\ q.at = "idle" => q = Idle
  /\ q.at # "idle" => q.sub \in Subs
  /\ q.job = "dunning" => q.n = 1
  /\ q.at = "lock" => q.job \in {"trial", "renewal"} /\ q.key = NoKey
  /\ q.at = "charge" => q.job \in {"trial", "renewal", "dunning"} /\ q.key = NoKey
  /\ q.at \in {"check", "book"} => q.key \in Keys

TypeInv == Types /\ \A w \in Workers : Wired(worker[w])

\* The others that work on a subscription go on with what they read, and know it is
\* old when the row changes.
Behind(v) ==
  \/ /\ worker'[v] = worker[v]
     /\ worker[v].sub \in Subs => sub'[worker[v].sub] = sub[worker[v].sub]
  \/ worker[v].sub \in Subs /\ worker'[v] = [worker[v] EXCEPT !.fresh = FALSE]
OthersBehind(w) == \A v \in Workers \ {w} : Behind(v)

LEMMA BehindFields ==
  ASSUME NEW v \in Workers, worker[v] \in Worker, Behind(v)
  PROVE  /\ worker'[v].at = worker[v].at /\ worker'[v].job = worker[v].job
         /\ worker'[v].sub = worker[v].sub /\ worker'[v].key = worker[v].key
         /\ worker'[v].n = worker[v].n /\ worker'[v].read = worker[v].read
         /\ worker'[v].fresh =>
              /\ worker[v].fresh
              /\ worker[v].sub \in Subs => sub'[worker[v].sub] = sub[worker[v].sub]
<1>1. CASE /\ worker'[v] = worker[v]
           /\ worker[v].sub \in Subs => sub'[worker[v].sub] = sub[worker[v].sub]
  BY <1>1
<1>2. CASE worker[v].sub \in Subs /\ worker'[v] = [worker[v] EXCEPT !.fresh = FALSE]
  BY <1>2 DEF Worker
<1> QED BY <1>1, <1>2 DEF Behind

LEMMA RowShape ==
  ASSUME NEW r \in Row, NEW b \in BOOLEAN
  PROVE  /\ \A x \in Statuses : [r EXCEPT !.status = x] \in Row
         /\ [r EXCEPT !.cancel = b] \in Row
         /\ [r EXCEPT !.priced = b] \in Row
         /\ [r EXCEPT !.card = b] \in Row
         /\ [r EXCEPT !.status = "PAST_DUE", !.left = GraceDays] \in Row
         /\ [r EXCEPT !.status = "ACTIVE", !.left = Period] \in Row
         /\ [r EXCEPT !.status = "ACTIVE", !.trial = "none", !.left = Period,
                      !.cancel = FALSE] \in Row
<1>1. /\ Period \in (-Downgrade)..Longest /\ GraceDays \in (-Downgrade)..Longest
  BY SubscriptionAssumption DEF SubscriptionAssumption, Longest
<1> HIDE DEF Longest
<1> QED BY <1>1 DEF Row, Statuses

LEMMA IdleShape == Idle \in Worker /\ Wired(Idle)
<1>1. 1 \in 1..Attempts
  BY SubscriptionAssumption DEF SubscriptionAssumption
<1> QED BY <1>1 DEF Idle, Nothing, Worker, Wired, Jobs, Steps, Seen, Statuses

LEMMA StaleShape ==
  ASSUME NEW q \in Worker, q.sub \in Subs, Wired(q)
  PROVE  [q EXCEPT !.fresh = FALSE] \in Worker /\ Wired([q EXCEPT !.fresh = FALSE])
<1>1. q.at # "idle"
  BY SubscriptionAssumption DEF Wired, Idle, SubscriptionAssumption
<1> QED BY <1>1 DEF Worker, Wired

\* A worker goes on alone, with or without a change of the row it works on.
LEMMA GoesAlone ==
  ASSUME TypeInv, NEW w \in Workers, NEW q \in Worker, Wired(q), Goes1(w, q), UNCHANGED sub
  PROVE  /\ worker' \in [Workers -> Worker] /\ \A v \in Workers : Wired(worker'[v])
         /\ worker'[w] = q /\ OthersBehind(w)
<1>1. worker' = [v \in Workers |-> IF v = w THEN q ELSE worker[v]]
  BY DEF Goes1, Goes, TypeInv, Types
<1> QED BY <1>1 DEF TypeInv, Types, OthersBehind, Behind

LEMMA GoesChanging ==
  ASSUME TypeInv, NEW w \in Workers, NEW q \in Worker, Wired(q), NEW s \in Subs, NEW row,
         NEW c \in BOOLEAN, row # sub[s] => c,
         sub' = [sub EXCEPT ![s] = row], Goes(w, q, s, c)
  PROVE  /\ worker' \in [Workers -> Worker] /\ \A v \in Workers : Wired(worker'[v])
         /\ worker'[w] = q /\ OthersBehind(w)
<1>1. ASSUME NEW v \in Workers \ {w}
      PROVE  worker'[v] \in Worker /\ Wired(worker'[v]) /\ Behind(v)
  <2>1. worker[v] \in Worker /\ Wired(worker[v]) /\ sub \in [Subs -> Row]
    BY DEF TypeInv, Types
  <2>2. CASE worker[v].sub = s /\ c
    <3>1. worker'[v] = [worker[v] EXCEPT !.fresh = FALSE]
      BY <2>2 DEF Goes
    <3> QED BY <2>1, <2>2, <3>1, StaleShape DEF Behind
  <2>3. CASE ~(worker[v].sub = s /\ c)
    <3>1. worker'[v] = worker[v]
      BY <2>3 DEF Goes
    <3> QED BY <2>1, <2>3, <3>1 DEF Behind
  <2> QED BY <2>2, <2>3
<1>2. worker'[w] = q /\ worker' = [v \in Workers |-> worker'[v]]
  BY DEF Goes
<1> QED BY <1>1, <1>2 DEF OthersBehind

\* A request or a notice changes the row, and every worker on it is behind.
LEMMA AllBehind ==
  ASSUME TypeInv, NEW s \in Subs, NEW row, sub' = [sub EXCEPT ![s] = row],
         worker' = [w \in Workers |-> IF worker[w].sub = s
                     THEN [worker[w] EXCEPT !.fresh = FALSE] ELSE worker[w]]
  PROVE  /\ worker' \in [Workers -> Worker] /\ \A v \in Workers : Wired(worker'[v])
         /\ \A v \in Workers : Behind(v)
<1>1. ASSUME NEW v \in Workers
      PROVE  worker'[v] \in Worker /\ Wired(worker'[v]) /\ Behind(v)
  <2>1. worker[v] \in Worker /\ Wired(worker[v]) /\ sub \in [Subs -> Row]
    BY DEF TypeInv, Types
  <2>2. CASE worker[v].sub = s
    BY <2>1, <2>2, StaleShape DEF Behind
  <2>3. CASE worker[v].sub # s
    BY <2>1, <2>3 DEF Behind
  <2> QED BY <2>2, <2>3
<1> QED BY <1>1

LEMMA TypeInit == Init => TypeInv
<1> SUFFICES ASSUME Init PROVE TypeInv
  OBVIOUS
<1>1. sub \in [Subs -> Row]
  <2>1. Period \in (-Downgrade)..Longest
    BY SubscriptionAssumption DEF SubscriptionAssumption, Longest
  <2>2. ASSUME NEW s \in Subs PROVE FirstRow(s) \subseteq Row
    <3> HIDE DEF Longest
    <3>1. CASE s \in Anchors
      BY <2>1, <3>1 DEF FirstRow, Row, Statuses
    <3>2. CASE s \notin Anchors
      BY <2>1, <3>2 DEF FirstRow, Row, Statuses
    <3> QED BY <3>1, <3>2
  <2>3. sub = [s \in Subs |-> sub[s]] /\ \A s \in Subs : sub[s] \in FirstRow(s)
    BY DEF Init
  <2> QED BY <2>2, <2>3
<1>2. worker \in [Workers -> Worker] /\ \A w \in Workers : Wired(worker[w])
  BY IdleShape DEF Init
<1> QED BY <1>1, <1>2, SubscriptionAssumption DEF Init, TypeInv, Types, SubscriptionAssumption

\* What a step of worker w leaves of the workers: w is at q, the others behind.
Resumes(w, q) ==
  /\ worker' \in [Workers -> Worker] /\ \A v \in Workers : Wired(worker'[v])
  /\ worker'[w] = q /\ OthersBehind(w)

LEMMA StartWorker ==
  ASSUME TypeInv, NEW w \in Workers, NEW s \in Subs, NEW job \in Jobs,
         NEW step \in {"lock", "charge", "extend", "expire", "end", "record", "apply"},
         step = "lock" => job \in {"trial", "renewal"}, step = "charge" => job = "dunning",
         Start(w, s, job, step)
  PROVE  /\ \E q \in Worker :
              /\ Resumes(w, q)
              /\ q.job = job /\ q.at = step /\ q.sub = s /\ q.n = 1 /\ q.key = NoKey
              /\ q.read.status = sub[s].status /\ q.fresh
         /\ worker[w] = Idle
         /\ UNCHANGED <<sub, served, disturbed>>
<1> DEFINE q == [Idle EXCEPT !.job = job, !.at = step, !.sub = s,
       !.read = [status |-> sub[s].status, card |-> sub[s].card, priced |-> sub[s].priced]]
<1>1. Goes1(w, q) /\ UNCHANGED <<sub, served, disturbed>> /\ worker[w].at = "idle"
  BY DEF Start, At
<1>2. sub[s] \in Row /\ 1 \in 1..Attempts
  BY SubscriptionAssumption DEF TypeInv, Types, SubscriptionAssumption
<1>3. [status |-> sub[s].status, card |-> sub[s].card, priced |-> sub[s].priced] \in Seen
  BY <1>2 DEF Row, Seen
<1>4. /\ q.job = job /\ q.at = step /\ q.sub = s /\ q.n = 1 /\ q.key = NoKey /\ q.fresh
      /\ q.read = [status |-> sub[s].status, card |-> sub[s].card, priced |-> sub[s].priced]
  BY DEF Idle
<1>5. q \in Worker
  BY <1>2, <1>3, IdleShape DEF Worker, Steps
<1>6. Wired(q)
  BY <1>4 DEF Wired
<1>7. worker[w] = Idle
  BY <1>1 DEF TypeInv, Wired
<1> HIDE DEF q
<1>8. Resumes(w, q)
  BY <1>1, <1>5, <1>6, GoesAlone DEF Resumes
<1> QED BY <1>1, <1>3, <1>4, <1>5, <1>7, <1>8

LEMMA FailedShape ==
  ASSUME TypeInv, NEW w \in Workers, worker[w].at # "idle"
  PROVE  /\ Failed(w) \in Worker /\ Wired(Failed(w))
         /\ \/ Failed(w) = Idle
            \/ /\ Failed(w).at \in {"charge", "expire"} /\ Failed(w).sub = worker[w].sub
               /\ Failed(w).job = worker[w].job /\ Failed(w).fresh = worker[w].fresh
               /\ Failed(w).at = "charge" => worker[w].job # "dunning"
               /\ Failed(w).key \in {NoKey, worker[w].key}
<1>1. worker[w] \in Worker /\ Wired(worker[w])
  BY DEF TypeInv, Types
<1>2. CASE Failed(w) = Idle
  BY <1>2, IdleShape
<1>3. CASE /\ worker[w].n < Attempts /\ worker[w].job \in {"trial", "renewal"}
           /\ Failed(w) = [worker[w] EXCEPT !.at = "charge", !.n = @ + 1, !.key = NoKey]
  <2>1. worker[w].n + 1 \in 1..Attempts
    BY <1>1, <1>3, SubscriptionAssumption DEF Worker, SubscriptionAssumption
  <2>2. worker[w].sub \in Subs
    BY <1>1 DEF Wired
  <2> QED BY <1>1, <1>3, <2>1, <2>2 DEF Worker, Wired, Steps
<1>4. CASE worker[w].job = "trial" /\ Failed(w) = [worker[w] EXCEPT !.at = "expire"]
  BY <1>1, <1>4 DEF Worker, Wired, Steps
<1> QED BY <1>2, <1>3, <1>4 DEF Failed

LEMMA AfterLockShape ==
  ASSUME TypeInv, NEW w \in Workers, worker[w].at = "lock"
  PROVE  LET q == AfterLock(w) IN
         /\ q \in Worker /\ Wired(q) /\ q.fresh
         /\ q.at \in {"idle", "grace", "check", "charge"}
         /\ q # Idle => q.sub = worker[w].sub /\ q.job = worker[w].job
         /\ q.at = "check" => q.key \in FreeKeys
<1> DEFINE next == [worker[w] EXCEPT !.read = Nothing, !.fresh = TRUE]
<1>1. worker[w] \in Worker /\ Wired(worker[w])
  BY DEF TypeInv, Types
<1>2. /\ next \in Worker /\ next.sub = worker[w].sub /\ next.job = worker[w].job
      /\ next.n = worker[w].n /\ next.key = NoKey /\ worker[w].sub \in Subs
      /\ worker[w].job \in {"trial", "renewal"} /\ next.at = "lock" /\ next.fresh
  BY <1>1 DEF Worker, Seen, Statuses, Nothing, Wired
<1> HIDE DEF next
<1>3. CASE AfterLock(w) = Idle
  BY <1>3, IdleShape DEF Idle
<1>4. CASE AfterLock(w) \in {[next EXCEPT !.at = "grace"], [next EXCEPT !.at = "charge"]}
  BY <1>2, <1>4 DEF Worker, Wired, Steps
<1>5. CASE \E k \in FreeKeys : AfterLock(w) = [next EXCEPT !.at = "check", !.key = k]
  BY <1>2, <1>5 DEF Worker, Wired, Steps, Keys
<1> QED BY <1>3, <1>4, <1>5 DEF AfterLock, next, FreeKeys

\* The steps that end with an update of the row by its id
Ends(w) ==
  \/ MarkExpired(w) \/ MarkGrace(w) \/ Extend(w) \/ FinalizeSubscription(w)
  \/ Reactivate(w) \/ CreateSubscription(w) \/ UpdateSubscription(w)

\* What they write over the row r that is there
Written(q, r, row) ==
  /\ q.at # "apply" => row.trial = r.trial
  /\ \/ q.at = "expire" /\ row.status = "EXPIRED" /\ row.left = r.left
     \/ q.at = "grace" /\ row.status = "PAST_DUE" /\ row.left = GraceDays
     \/ q.at = "extend" /\ row.status = "ACTIVE" /\ row.left = Period
     \/ q.at = "end" /\ row.status = "CANCELED" /\ row.left = r.left
     \/ /\ q.at = "apply" /\ q.job = "reactivate" /\ row.left = r.left /\ row.trial = r.trial
        /\ row.status = IF q.read.status = "CANCELED" THEN "ACTIVE" ELSE q.read.status
     \/ /\ q.at = "apply" /\ q.job = "create" /\ row.left = Period
        /\ \/ row.status = "TRIALING" /\ row.trial = "ahead"
           \/ row.status = "ACTIVE" /\ row.trial = r.trial
     \/ /\ q.at = "apply" /\ q.job = "update"
        /\ \/ row.status = "ACTIVE" /\ row.trial = "none" /\ row.left = Period
           \/ row.status = r.status /\ row.trial = r.trial /\ row.left = r.left

LEMMA EndWrites ==
  ASSUME TypeInv, NEW w \in Workers, Ends(w)
  PROVE  \E row \in Row : Update(w, row) /\ Written(worker[w], sub[worker[w].sub], row)
<1> DEFINE r == sub[worker[w].sub]
<1>1. /\ worker[w].at \in {"expire", "grace", "extend", "end", "apply"}
      /\ worker[w].sub \in Subs /\ r \in Row /\ worker[w].read.status \in Statuses
  BY DEF Ends, MarkExpired, MarkGrace, Extend, FinalizeSubscription, Reactivate,
     CreateSubscription, UpdateSubscription, At, TypeInv, Types, Wired, Worker, Seen
<1>2. Period \in (-Downgrade)..Longest /\ GraceDays \in (-Downgrade)..Longest
  BY SubscriptionAssumption DEF SubscriptionAssumption, Longest
<1> HIDE DEF Longest, r
<1>3. CASE MarkExpired(w)
  BY <1>1, <1>3 DEF MarkExpired, Written, Row, Statuses, At, r
<1>4. CASE MarkGrace(w)
  <2> DEFINE row == [r EXCEPT !.status = "PAST_DUE", !.left = GraceDays]
  <2>1. Update(w, row) /\ worker[w].at = "grace"
    BY <1>4 DEF MarkGrace, At, r
  <2>2. row \in Row
    BY <1>1, RowShape DEF row
  <2>3. row.status = "PAST_DUE" /\ row.left = GraceDays /\ row.trial = r.trial
    BY <1>1 DEF Row
  <2> QED BY <2>1, <2>2, <2>3 DEF Written, r
<1>5. CASE Extend(w)
  <2> DEFINE row == [r EXCEPT !.status = "ACTIVE", !.left = Period]
  <2>1. Update(w, row) /\ worker[w].at = "extend"
    BY <1>5 DEF Extend, At, r
  <2>2. row \in Row
    BY <1>1, RowShape DEF row
  <2>3. row.status = "ACTIVE" /\ row.left = Period /\ row.trial = r.trial
    BY <1>1 DEF Row
  <2> QED BY <2>1, <2>2, <2>3 DEF Written, r
<1>6. CASE FinalizeSubscription(w)
  BY <1>1, <1>6 DEF FinalizeSubscription, Written, Row, Statuses, At, r
<1>7. CASE Reactivate(w)
  <2> DEFINE status == IF worker[w].read.status = "CANCELED" THEN "ACTIVE"
                                                             ELSE worker[w].read.status
             row == [r EXCEPT !.cancel = FALSE, !.status = status]
  <2>1. Update(w, row) /\ worker[w].at = "apply" /\ worker[w].job = "reactivate"
    BY <1>7 DEF Reactivate, At, r
  <2>2. status \in Statuses
    BY <1>1 DEF Statuses
  <2>3. /\ row \in Row /\ row.status = status /\ row.left = r.left /\ row.trial = r.trial
    <3> HIDE DEF status
    <3> QED BY <1>1, <2>2 DEF Row
  <2> QED BY <2>1, <2>3 DEF Written, r
<1>8. CASE CreateSubscription(w)
  <2>1. PICK priced \in BOOLEAN :
          LET row == [r EXCEPT !.left = Period, !.cancel = FALSE, !.priced = priced,
                               !.free = ~priced]
          IN Update(w, IF priced THEN [row EXCEPT !.status = "TRIALING", !.trial = "ahead"]
                                 ELSE [row EXCEPT !.status = "ACTIVE"])
    BY <1>8 DEF CreateSubscription, r
  <2>2. worker[w].at = "apply" /\ worker[w].job = "create"
    BY <1>8 DEF CreateSubscription, At
  <2> DEFINE row == [r EXCEPT !.left = Period, !.cancel = FALSE, !.priced = priced,
                              !.free = ~priced]
  <2>3. row \in Row /\ row.left = Period /\ row.trial = r.trial
    BY <1>1, <1>2 DEF Row
  <2> HIDE DEF row
  <2>4. [row EXCEPT !.status = "TRIALING", !.trial = "ahead"] \in Row
    BY <2>3 DEF Row, Statuses
  <2>5. [row EXCEPT !.status = "ACTIVE"] \in Row
    BY <2>3 DEF Row, Statuses
  <2>6. Update(w, IF priced THEN [row EXCEPT !.status = "TRIALING", !.trial = "ahead"]
                            ELSE [row EXCEPT !.status = "ACTIVE"])
    BY <2>1 DEF row
  <2>7. CASE priced
    <3> DEFINE new == [row EXCEPT !.status = "TRIALING", !.trial = "ahead"]
    <3>1. new.status = "TRIALING" /\ new.trial = "ahead" /\ new.left = Period
      BY <2>3 DEF Row
    <3> QED BY <2>2, <2>4, <2>6, <2>7, <3>1 DEF Written
  <2>8. CASE ~priced
    <3> DEFINE new == [row EXCEPT !.status = "ACTIVE"]
    <3>1. new.status = "ACTIVE" /\ new.trial = r.trial /\ new.left = Period
      BY <2>3 DEF Row
    <3> QED BY <2>2, <2>5, <2>6, <2>8, <3>1 DEF Written, r
  <2> QED BY <2>7, <2>8
<1>9. CASE UpdateSubscription(w)
  <2>1. PICK priced, upgrade \in BOOLEAN :
          LET row == [r EXCEPT !.priced = priced, !.free = ~priced] IN
          Update(w, IF upgrade /\ worker[w].read.status = "TRIALING"
                    THEN [row EXCEPT !.status = "ACTIVE", !.trial = "none", !.left = Period]
                    ELSE row)
    BY <1>9 DEF UpdateSubscription, r
  <2>2. worker[w].at = "apply" /\ worker[w].job = "update"
    BY <1>9 DEF UpdateSubscription, At
  <2> DEFINE row == [r EXCEPT !.priced = priced, !.free = ~priced]
             new == [row EXCEPT !.status = "ACTIVE", !.trial = "none", !.left = Period]
  <2>3. /\ row \in Row
        /\ row.status = r.status /\ row.left = r.left /\ row.trial = r.trial
    BY <1>1 DEF Row
  <2> HIDE DEF row
  <2>4. new \in Row /\ new.status = "ACTIVE" /\ new.trial = "none" /\ new.left = Period
    BY <1>2, <2>3 DEF Row, Statuses
  <2>5. Update(w, row) \/ Update(w, new)
    BY <2>1 DEF row
  <2>6. /\ Written(worker[w], r, row)
        /\ Written(worker[w], r, new)
    BY <2>2, <2>3, <2>4 DEF Written
  <2> QED BY <2>3, <2>4, <2>5, <2>6 DEF r
<1> QED BY <1>3, <1>4, <1>5, <1>6, <1>7, <1>8, <1>9 DEF Ends

\* The steps that start to work on a subscription, and what they found
Starts(w) ==
  \/ Select(w) \/ ReadNotice(w)
  \/ ReadForReactivate(w) \/ ReadForCreate(w) \/ ReadForUpdate(w)

Found(s, job, step) ==
  \/ step = "lock" /\ job \in {"trial", "renewal"}
  \/ step = "extend" /\ job = "renewal"
  \/ step = "expire" /\ job \in {"dunning", "grace"} /\ sub[s].status = "PAST_DUE"
  \/ step = "charge" /\ job = "dunning" /\ sub[s].status = "PAST_DUE" /\ sub[s].left < 0
  \/ step = "end" /\ job = "finalize" /\ sub[s].left <= 0
  \/ step = "record" /\ job = "web"
  \/ step = "apply" /\ job = "reactivate" /\ sub[s].left > 0
  \/ step = "apply" /\ job = "create" /\ sub[s].status \in {"EXPIRED", "CANCELED"}
  \/ step = "apply" /\ job = "update"

LEMMA StartFinds ==
  ASSUME TypeInv, NEW w \in Workers, Starts(w)
  PROVE  /\ \E s \in Subs : \E job \in Jobs :
              \E step \in {"lock", "charge", "extend", "expire", "end", "record", "apply"} :
                Start(w, s, job, step) /\ Found(s, job, step)
         /\ UNCHANGED <<charged, invoices, web, noticed, rejected, books>>
         /\ dunned' \in [Subs -> 0..Instances] /\ events' \in 0..MaxEvents
<1> DEFINE step == {"lock", "charge", "extend", "expire", "end", "record", "apply"}
           Begins == /\ \E s \in Subs : \E job \in Jobs : \E at \in step :
                          Start(w, s, job, at) /\ Found(s, job, at)
                     /\ UNCHANGED <<charged, invoices, web, noticed, rejected, books>>
           Bounded == dunned' \in [Subs -> 0..Instances] /\ events' \in 0..MaxEvents
<1>0. /\ dunned \in [Subs -> 0..Instances] /\ events \in 0..MaxEvents
      /\ Instances \in Nat /\ MaxEvents \in Nat /\ sub \in [Subs -> Row]
      /\ RetryDays \subseteq 1..(Downgrade - 1) /\ Downgrade \in Nat
  BY SubscriptionAssumption DEF TypeInv, Types, SubscriptionAssumption
<1>a. {"trial", "renewal", "dunning", "grace", "finalize", "web", "reactivate", "create",
       "update"} \subseteq Jobs
  BY DEF Jobs
<1>1. CASE ReadTrial(w) \/ ReadRenewal(w) \/ ReadFinal(w) \/ ReadNotice(w)
  <2>1. Begins
    BY <1>1, <1>a DEF ReadTrial, ReadRenewal, ReadFinal, ReadNotice, Read, Found, FinalDue,
       others
  <2>2. Bounded
    BY <1>0, <1>1 DEF ReadTrial, ReadRenewal, ReadFinal, ReadNotice, Read, others
  <2> QED BY <2>1, <2>2
<1>2. CASE ReadForReactivate(w) \/ ReadForCreate(w) \/ ReadForUpdate(w)
  <2>1. Begins
    BY <1>2, <1>a DEF ReadForReactivate, ReadForCreate, ReadForUpdate, Request, Found, Anchors
  <2>2. Bounded
    BY <1>0, <1>2 DEF ReadForReactivate, ReadForCreate, ReadForUpdate, Request, Event
  <2> QED BY <2>1, <2>2
<1>3. ASSUME NEW s \in Subs, ReadGrace(w, s)
      PROVE  Begins /\ Bounded
  <2>1. Begins
    BY <1>3, <1>a DEF ReadGrace, GraceDue, Read, Found, others
  <2>2. Bounded
    BY <1>0, <1>3 DEF ReadGrace, Read, others
  <2> QED BY <2>1, <2>2
<1>4. ASSUME NEW s \in Subs, ReadDunning(w, s)
      PROVE  Begins /\ Bounded
  <2>1. sub[s].left \in Int /\ sub[s].status = "PAST_DUE"
    BY <1>0, <1>4 DEF ReadDunning, Overdue, Row
  <2>2. Retried(s) => sub[s].left < 0
    BY <1>0, <2>1 DEF Retried
  <2>3. Begins
    BY <1>4, <1>a, <2>1, <2>2 DEF ReadDunning, Found
  <2>4. Bounded
    BY <1>0, <1>4 DEF ReadDunning
  <2> QED BY <2>3, <2>4
<1> QED BY <1>1, <1>2, <1>3, <1>4 DEF Starts, Select

\* What each other step does to the workers
LEMMA UpdateWorker ==
  ASSUME TypeInv, NEW w \in Workers, worker[w].at # "idle", NEW row \in Row, Update(w, row)
  PROVE  /\ Resumes(w, Idle)
         /\ worker[w].sub \in Subs
         /\ sub' = [sub EXCEPT ![worker[w].sub] = row]
<1>1. worker[w].sub \in Subs
  BY DEF TypeInv, Wired
<1>2. /\ sub' = [sub EXCEPT ![worker[w].sub] = row]
      /\ Goes(w, Idle, worker[w].sub, row # sub[worker[w].sub])
  BY DEF Update
<1> QED BY <1>1, <1>2, IdleShape, GoesChanging DEF Resumes

LEMMA LockWorker ==
  ASSUME TypeInv, NEW w \in Workers, Lock(w)
  PROVE  LET s == worker[w].sub IN
         /\ worker[w].at = "lock" /\ s \in Subs
         /\ \/ /\ ~StillDue(w) /\ UNCHANGED <<sub, disturbed>>
               /\ Resumes(w, Idle)
            \/ /\ StillDue(w) /\ sub' = [sub EXCEPT ![s].status = "PAST_DUE"]
               /\ disturbed' = IF OtherTrial(w) THEN disturbed \cup {s} ELSE disturbed
               /\ Resumes(w, AfterLock(w)) /\ Goes(w, AfterLock(w), s, TRUE)
<1> DEFINE s == worker[w].sub
<1>1. worker[w].at = "lock" /\ s \in Subs /\ sub \in [Subs -> Row]
  BY DEF Lock, At, TypeInv, Types, Wired
<1>2. CASE StillDue(w)
  <2>1. /\ sub' = [sub EXCEPT ![s].status = "PAST_DUE"]
        /\ disturbed' = IF OtherTrial(w) THEN disturbed \cup {s} ELSE disturbed
        /\ Goes(w, AfterLock(w), s, TRUE)
    BY <1>2 DEF Lock
  <2>2. AfterLock(w) \in Worker /\ Wired(AfterLock(w))
    BY <1>1, AfterLockShape
  <2>3. sub' = [sub EXCEPT ![s] = [sub[s] EXCEPT !.status = "PAST_DUE"]]
    BY <2>1
  <2>4. Resumes(w, AfterLock(w))
    BY <1>1, <2>1, <2>2, <2>3, GoesChanging DEF Resumes
  <2> QED BY <1>1, <1>2, <2>1, <2>4
<1>3. CASE ~StillDue(w)
  <2>1. Goes1(w, Idle) /\ UNCHANGED <<sub, disturbed>>
    BY <1>3 DEF Lock, Done
  <2> QED BY <1>1, <1>3, <2>1, IdleShape, GoesAlone DEF Resumes
<1> QED BY <1>2, <1>3

LEMMA ChargeWorker ==
  ASSUME TypeInv, NEW w \in Workers,
         ChargeApproved(w) \/ ChargeRejected(w) \/ ChargeLost(w)
  PROVE  /\ worker[w].at = "charge" /\ worker[w].sub \in Subs /\ Key(w) \in CardKeys
         /\ ChargeApproved(w) =>
              Resumes(w, [worker[w] EXCEPT !.at = "check", !.key = Key(w)])
         /\ ~ChargeApproved(w) => Resumes(w, Failed(w))
<1>1. /\ worker[w].at = "charge" /\ UNCHANGED sub /\ worker[w] \in Worker
      /\ Wired(worker[w])
  BY DEF ChargeApproved, ChargeRejected, ChargeLost, At, TypeInv, Types, others
<1>2. worker[w].sub \in Subs /\ Key(w) \in CardKeys
  BY <1>1 DEF Wired, Key, CardKeys, Worker
<1>3. CASE ChargeApproved(w)
  <2> DEFINE q == [worker[w] EXCEPT !.at = "check", !.key = Key(w)]
  <2>1. Goes1(w, q)
    BY <1>3 DEF ChargeApproved
  <2>2. q \in Worker /\ Wired(q)
    BY <1>1, <1>2 DEF Worker, Wired, Steps, Keys
  <2> HIDE DEF q
  <2>3. Resumes(w, q)
    BY <1>1, <2>1, <2>2, GoesAlone DEF Resumes
  <2> QED BY <1>1, <1>2, <1>3, <2>3 DEF q
<1>4. CASE ~ChargeApproved(w)
  <2>1. Goes1(w, Failed(w))
    BY <1>4 DEF ChargeRejected, ChargeLost
  <2>2. Failed(w) \in Worker /\ Wired(Failed(w))
    BY <1>1, FailedShape
  <2>3. Resumes(w, Failed(w))
    BY <1>1, <2>1, <2>2, GoesAlone DEF Resumes
  <2> QED BY <1>1, <1>2, <1>4, <2>3
<1> QED BY <1>3, <1>4

LEMMA CheckWorker ==
  ASSUME TypeInv, NEW w \in Workers, CheckInvoice(w)
  PROVE  /\ worker[w].at = "check" /\ worker[w].sub \in Subs /\ worker[w].key \in Keys
         /\ Resumes(w, IF Invoiced(worker[w].sub, worker[w].key)
                       THEN Idle ELSE [worker[w] EXCEPT !.at = "book", !.fresh = TRUE])
<1>1. /\ worker[w].at = "check" /\ UNCHANGED sub /\ worker[w] \in Worker
      /\ Wired(worker[w])
  BY DEF CheckInvoice, At, TypeInv, Types
<1> DEFINE q == IF Invoiced(worker[w].sub, worker[w].key)
                THEN Idle ELSE [worker[w] EXCEPT !.at = "book", !.fresh = TRUE]
<1>2. Goes1(w, q)
  BY DEF CheckInvoice
<1>3. q \in Worker /\ Wired(q)
  <2>1. CASE Invoiced(worker[w].sub, worker[w].key)
    BY <2>1, IdleShape
  <2>2. CASE ~Invoiced(worker[w].sub, worker[w].key)
    <3>1. q = [worker[w] EXCEPT !.at = "book", !.fresh = TRUE]
      BY <2>2
    <3> QED BY <1>1, <3>1 DEF Worker, Wired, Steps
  <2> QED BY <2>1, <2>2
<1> HIDE DEF q
<1>4. Resumes(w, q)
  BY <1>1, <1>2, <1>3, GoesAlone DEF Resumes
<1> QED BY <1>1, <1>4 DEF q, Wired

LEMMA BookWorker ==
  ASSUME TypeInv, NEW w \in Workers, BookPayment(w)
  PROVE  LET a == Anchor[worker[w].sub] IN
         /\ worker[w].at = "book" /\ worker[w].sub \in Subs /\ worker[w].key \in Keys
         /\ a \in Subs /\ Resumes(w, Idle)
         /\ \E row \in Row :
              /\ sub' = [sub EXCEPT ![a] = row]
              /\ row.status = "ACTIVE" /\ row.left = Period /\ row.trial = "none"
<1> DEFINE a == Anchor[worker[w].sub]
           row == [sub[a] EXCEPT !.status = "ACTIVE", !.trial = "none",
                                 !.left = Period, !.cancel = FALSE]
<1>1. /\ worker[w].at = "book" /\ worker[w].sub \in Subs /\ worker[w].key \in Keys
      /\ a \in Subs /\ sub[a] \in Row
  BY SubscriptionAssumption
     DEF BookPayment, Book, At, TypeInv, Types, Wired, SubscriptionAssumption
<1>2. Goes(w, Idle, a, TRUE) /\ sub' = [sub EXCEPT ![a] = row]
  BY DEF BookPayment, Book
<1>3. row \in Row
  BY <1>1, RowShape
<1>4. row.status = "ACTIVE" /\ row.left = Period /\ row.trial = "none"
  BY <1>1 DEF Row
<1> HIDE DEF row
<1>5. Resumes(w, Idle)
  BY <1>1, <1>2, IdleShape, GoesChanging DEF Resumes
<1> QED BY <1>1, <1>2, <1>3, <1>4, <1>5

LEMMA SkipWorker ==
  ASSUME TypeInv, NEW w \in Workers, SkipForAdmin(w)
  PROVE  /\ worker[w].at = "check" /\ worker[w].sub \in Subs /\ worker[w].key \in Keys
         /\ UNCHANGED sub /\ Resumes(w, Idle)
<1>1. /\ worker[w].at = "check" /\ worker[w].sub \in Subs /\ worker[w].key \in Keys
      /\ UNCHANGED sub /\ Goes1(w, Idle)
  BY DEF SkipForAdmin, At, Done, TypeInv, Wired
<1> QED BY <1>1, IdleShape, GoesAlone DEF Resumes

LEMMA RecordWorker ==
  ASSUME TypeInv, NEW w \in Workers, RecordNotice(w)
  PROVE  /\ worker[w].at = "record" /\ worker[w].sub \in Subs
         /\ \/ Resumes(w, Idle)
            \/ Resumes(w, [worker[w] EXCEPT !.at = "check", !.key = WebKey])
<1>1. /\ worker[w].at = "record" /\ UNCHANGED sub /\ worker[w] \in Worker
      /\ Wired(worker[w])
  BY DEF RecordNotice, At, TypeInv, Types
<1> DEFINE q == [worker[w] EXCEPT !.at = "check", !.key = WebKey]
<1>2. Goes1(w, Idle) \/ Goes1(w, q)
  BY DEF RecordNotice
<1>3. q \in Worker /\ Wired(q)
  <2>1. WebKey \in Keys
    BY DEF Keys
  <2>2. q.at = "check" /\ q.job = worker[w].job /\ q.sub = worker[w].sub
        /\ q.n = worker[w].n /\ q.key = WebKey
    BY <1>1 DEF Worker
  <2>3. q \in Worker
    BY <1>1, <2>1 DEF Worker, Steps
  <2> QED BY <1>1, <2>1, <2>2, <2>3 DEF Wired
<1> HIDE DEF q
<1>4. Resumes(w, Idle) \/ Resumes(w, q)
  BY <1>1, <1>2, <1>3, IdleShape, GoesAlone DEF Resumes
<1> QED BY <1>1, <1>4 DEF q, Wired

LEMMA FailWorker ==
  ASSUME TypeInv, NEW w \in Workers, Fail(w)
  PROVE  /\ worker[w].at # "idle" /\ worker[w].sub \in Subs
         /\ disturbed' = disturbed \cup {worker[w].sub}
         /\ Resumes(w, Idle) \/ Resumes(w, Failed(w))
         /\ \/ UNCHANGED sub
            \/ sub' = [sub EXCEPT ![worker[w].sub].status = "TRIALING"]
<1> DEFINE s == worker[w].sub
           back == worker[w].job = "trial" /\ (worker[w].at \in {"expire", "grace"}
                                               \/ worker[w].key \in FreeKeys)
<1>1. /\ worker[w].at \in {"check", "book", "expire", "grace"} /\ s \in Subs
      /\ sub \in [Subs -> Row] /\ back \in BOOLEAN
  BY DEF Fail, TypeInv, Types, Wired
<1>2. /\ sub' = IF back THEN [sub EXCEPT ![s].status = "TRIALING"] ELSE sub
      /\ Goes(w, IF back THEN Idle ELSE Failed(w), s, back)
      /\ disturbed' = disturbed \cup {s}
  BY DEF Fail
<1> HIDE DEF back
<1>3. CASE back
  <2>1. sub' = [sub EXCEPT ![s] = [sub[s] EXCEPT !.status = "TRIALING"]]
    BY <1>2, <1>3
  <2>2. Goes(w, Idle, s, back)
    BY <1>2, <1>3
  <2>3. Resumes(w, Idle)
    BY <1>1, <1>3, <2>1, <2>2, IdleShape, GoesChanging DEF Resumes
  <2> QED BY <1>1, <1>2, <1>3, <2>3
<1>4. CASE ~back
  <2>1. UNCHANGED sub /\ Goes1(w, Failed(w))
    BY <1>2, <1>4 DEF Goes1, Goes
  <2>2. Failed(w) \in Worker /\ Wired(Failed(w))
    BY <1>1, FailedShape
  <2>3. Resumes(w, Failed(w))
    BY <2>1, <2>2, GoesAlone DEF Resumes
  <2> QED BY <1>1, <1>2, <1>4, <2>3
<1> QED BY <1>3, <1>4

LEMMA CrashWorker ==
  ASSUME TypeInv, NEW w \in Workers, Crash(w)
  PROVE  /\ worker[w].sub \in Subs /\ UNCHANGED sub /\ Resumes(w, Idle)
         /\ disturbed' = disturbed \cup {worker[w].sub}
<1>1. /\ worker[w].sub \in Subs /\ UNCHANGED sub /\ Goes1(w, Idle)
      /\ disturbed' = disturbed \cup {worker[w].sub}
  BY DEF Crash, Done, TypeInv, Wired
<1> QED BY <1>1, IdleShape, GoesAlone DEF Resumes

\* What the customer and the provider do to a row leaves every worker behind.
Changes(s) ==
  \/ RejectedNotice(s) \/ CancelSubscription(s) \/ UpgradePlan(s)
  \/ AddPaymentMethod(s) \/ RemovePaymentMethod(s)

LEMMA ChangeWorkers ==
  ASSUME TypeInv, NEW s \in Subs, Changes(s)
  PROVE  /\ worker' \in [Workers -> Worker] /\ \A v \in Workers : Wired(worker'[v])
         /\ \A v \in Workers : Behind(v)
         /\ \E row \in Row :
              /\ sub' = [sub EXCEPT ![s] = row]
              /\ row.left = sub[s].left /\ row.trial = sub[s].trial
              /\ row.status = sub[s].status \/ s \in disturbed'
<1>1. sub[s] \in Row /\ sub \in [Subs -> Row]
  BY DEF TypeInv, Types
<1>2. ASSUME NEW row \in Row, sub' = [sub EXCEPT ![s] = row],
             worker' = [w \in Workers |-> IF worker[w].sub = s
                         THEN [worker[w] EXCEPT !.fresh = FALSE] ELSE worker[w]]
      PROVE  /\ worker' \in [Workers -> Worker] /\ \A v \in Workers : Wired(worker'[v])
             /\ \A v \in Workers : Behind(v)
  BY <1>2, AllBehind
<1>3. CASE RejectedNotice(s)
  <2> DEFINE row == [sub[s] EXCEPT !.status = "PAST_DUE"]
  <2>1. /\ sub' = [sub EXCEPT ![s] = row] /\ s \in disturbed'
        /\ worker' = [w \in Workers |-> IF worker[w].sub = s
                       THEN [worker[w] EXCEPT !.fresh = FALSE] ELSE worker[w]]
    BY <1>3 DEF RejectedNotice
  <2>2. row \in Row /\ row.left = sub[s].left /\ row.trial = sub[s].trial
    BY <1>1 DEF Row, Statuses
  <2> HIDE DEF row
  <2> QED BY <1>2, <2>1, <2>2
<1>4. ASSUME NEW row \in Row, Change(s, row), row.left = sub[s].left,
             row.trial = sub[s].trial, row.status = sub[s].status
      PROVE  /\ worker' \in [Workers -> Worker] /\ \A v \in Workers : Wired(worker'[v])
             /\ \A v \in Workers : Behind(v)
             /\ \E new \in Row :
                  /\ sub' = [sub EXCEPT ![s] = new]
                  /\ new.left = sub[s].left /\ new.trial = sub[s].trial
                  /\ new.status = sub[s].status \/ s \in disturbed'
  BY <1>2, <1>4 DEF Change
<1>5. ASSUME NEW b \in BOOLEAN,
             \/ Change(s, [sub[s] EXCEPT !.cancel = TRUE])
             \/ Change(s, [sub[s] EXCEPT !.priced = b])
             \/ Change(s, [sub[s] EXCEPT !.card = b])
      PROVE  \E row \in Row : /\ Change(s, row) /\ row.left = sub[s].left
                              /\ row.trial = sub[s].trial /\ row.status = sub[s].status
  <2>1. \A row \in {[sub[s] EXCEPT !.cancel = TRUE], [sub[s] EXCEPT !.priced = b],
                    [sub[s] EXCEPT !.card = b]} :
          /\ row \in Row /\ row.left = sub[s].left
          /\ row.trial = sub[s].trial /\ row.status = sub[s].status
    BY <1>1 DEF Row
  <2> QED BY <1>5, <2>1
<1>6. CASE CancelSubscription(s) \/ AddPaymentMethod(s) \/ RemovePaymentMethod(s)
  BY <1>4, <1>5, <1>6 DEF CancelSubscription, AddPaymentMethod, RemovePaymentMethod
<1>7. CASE UpgradePlan(s)
  BY <1>4, <1>5, <1>7 DEF UpgradePlan
<1> QED BY <1>3, <1>6, <1>7 DEF Changes

\* Pay, Approve and PayRejected leave rows and workers alone.
Pays(s) == Pay(s) \/ Approve(s) \/ PayRejected(s)

LEMMA NextCases ==
  ASSUME [Next]_vars
  PROVE  \/ \E w \in Workers :
              \/ Starts(w) \/ Lock(w)
              \/ ChargeApproved(w) \/ ChargeRejected(w) \/ ChargeLost(w)
              \/ CheckInvoice(w) \/ SkipForAdmin(w) \/ BookPayment(w) \/ Ends(w)
              \/ RecordNotice(w) \/ Fail(w) \/ Crash(w)
         \/ \E s \in Subs : Pays(s) \/ Changes(s)
         \/ NewDay \/ UNCHANGED vars
<1> USE DEF Starts, Ends, Pays, Changes
<1> QED BY DEF Next, Step

\* What the histories hold are payments; most steps leave them alone.
HistoryInv == raced \subseteq Subs \X Keys /\ unbooked \subseteq Subs \X Keys

LEMMA HistoryStep == TypeInv /\ HistoryInv /\ [Next]_vars => HistoryInv'
<1> SUFFICES ASSUME TypeInv, HistoryInv, [Next]_vars PROVE HistoryInv'
  OBVIOUS
<1>1. ASSUME NEW w \in Workers, CheckInvoice(w) PROVE HistoryInv'
  <2>1. <<worker[w].sub, worker[w].key>> \in Subs \X Keys
    BY <1>1, CheckWorker
  <2>2. /\ raced' \in {raced, raced \cup {<<worker[w].sub, worker[w].key>>}}
        /\ unbooked' = unbooked
    BY <1>1 DEF CheckInvoice
  <2> QED BY <2>1, <2>2 DEF HistoryInv
<1>2. ASSUME NEW w \in Workers, SkipForAdmin(w) PROVE HistoryInv'
  BY <1>2, SkipWorker DEF SkipForAdmin, HistoryInv
<1>3. ASSUME NEW w \in Workers, ChargeLost(w) PROVE HistoryInv'
  <2>1. worker[w].sub \in Subs /\ Key(w) \in Keys
    BY <1>3, ChargeWorker DEF Keys
  <2> QED BY <1>3, <2>1 DEF ChargeLost, HistoryInv
<1>4. ASSUME NEW w \in Workers, Fail(w) \/ Crash(w) PROVE HistoryInv'
  BY <1>4 DEF Fail, Crash, Dropped, HistoryInv
<1>5. CASE NewDay
  BY <1>5 DEF NewDay, HistoryInv
<1>6. CASE UNCHANGED books
  BY <1>6 DEF books, HistoryInv
<1>7. ASSUME NEW w \in Workers,
             \/ Starts(w) \/ Lock(w) \/ ChargeApproved(w) \/ ChargeRejected(w)
             \/ BookPayment(w) \/ Ends(w) \/ RecordNotice(w)
      PROVE  UNCHANGED books
  <2>1. CASE Starts(w)
    BY <2>1, StartFinds
  <2>2. CASE Ends(w)
    BY <2>2, EndWrites DEF Update, others
  <2>3. CASE ~Starts(w) /\ ~Ends(w)
    BY <1>7, <2>3 DEF Lock, ChargeApproved, ChargeRejected, BookPayment, Book,
       RecordNotice, others
  <2> QED BY <2>1, <2>2, <2>3
<1>8. ASSUME NEW s \in Subs, Pays(s) \/ Changes(s) PROVE UNCHANGED books
  BY <1>8 DEF Pays, Pay, Approve, PayRejected, Changes, RejectedNotice,
     CancelSubscription, UpgradePlan, AddPaymentMethod, RemovePaymentMethod, Change
<1>9. CASE UNCHANGED vars
  BY <1>6, <1>9 DEF vars
<1> QED BY <1>1, <1>2, <1>3, <1>4, <1>5, <1>6, <1>7, <1>8, <1>9, NextCases

LEMMA NewDayShape ==
  ASSUME TypeInv, NewDay
  PROVE  TypeInv'
<1>1. /\ sub \in [Subs -> Row] /\ invoices \in [Subs -> [Keys -> Nat]]
      /\ served \in [Subs -> BOOLEAN] /\ disturbed \subseteq Subs
  BY DEF TypeInv, Types
<1>2. ASSUME NEW s \in Subs
      PROVE  sub'[s] \in Row
  <2> DEFINE left == IF sub[s].left = -Downgrade THEN sub[s].left ELSE sub[s].left - 1
             trial == IF sub[s].trial = "ahead" /\ left <= 0 THEN "past" ELSE sub[s].trial
  <2>1. sub'[s] = [sub[s] EXCEPT !.left = left, !.trial = trial]
    BY DEF NewDay
  <2>2. sub[s] \in Row /\ sub[s].left \in (-Downgrade)..Longest
    BY <1>1 DEF Row
  <2>3. Downgrade \in Nat /\ Longest \in Nat
    BY SubscriptionAssumption DEF SubscriptionAssumption, Longest
  <2>4. left \in (-Downgrade)..Longest
    BY <2>2, <2>3
  <2>5. trial \in {"none", "ahead", "past"}
    BY <2>2 DEF Row
  <2> HIDE DEF left, trial
  <2> QED BY <2>1, <2>2, <2>4, <2>5 DEF Row
<1>3. sub' \in [Subs -> Row]
  BY <1>2 DEF NewDay
<1>4. invoices' \in [Subs -> [Keys -> Nat]]
  BY <1>1 DEF NewDay
<1>5. served' \in [Subs -> BOOLEAN]
  <2>1. ASSUME NEW s \in Subs
        PROVE  (served[s] /\ sub[s].left > 1) \in BOOLEAN
    OBVIOUS
  <2> QED BY <2>1 DEF NewDay
<1>6. disturbed' \subseteq Subs
  BY <1>1 DEF NewDay
<1>7. 0 \in 0..Instances
  BY SubscriptionAssumption DEF SubscriptionAssumption
<1>8. charged' \in [Subs -> SUBSET CardKeys] /\ dunned' \in [Subs -> 0..Instances]
  BY <1>7 DEF NewDay
<1>9. UNCHANGED <<web, noticed, rejected, worker, events>>
  BY DEF NewDay
<1> QED BY <1>3, <1>4, <1>5, <1>6, <1>8, <1>9 DEF TypeInv, Types

LEMMA TypeStep == TypeInv /\ [Next]_vars => TypeInv'
<1> SUFFICES ASSUME TypeInv, [Next]_vars PROVE TypeInv'
  OBVIOUS
<1> DEFINE Typed == worker' \in [Workers -> Worker] /\ \A v \in Workers : Wired(worker'[v])
<1>0. /\ Types /\ events \in 0..MaxEvents /\ MaxEvents \in Nat
      /\ Event => events' \in 0..MaxEvents
  BY SubscriptionAssumption DEF TypeInv, Types, Event, SubscriptionAssumption
<1>1. ASSUME NEW w \in Workers, Starts(w) PROVE TypeInv'
  <2>1. PICK s \in Subs, job \in Jobs,
          step \in {"lock", "charge", "extend", "expire", "end", "record", "apply"} :
            Start(w, s, job, step) /\ Found(s, job, step)
    BY <1>1, StartFinds
  <2>2. /\ step = "lock" => job \in {"trial", "renewal"}
        /\ step = "charge" => job = "dunning"
    BY <2>1 DEF Found
  <2>3. Typed /\ UNCHANGED <<sub, served, disturbed>>
    BY <2>1, <2>2, StartWorker DEF Resumes
  <2>4. /\ UNCHANGED <<charged, invoices, web, noticed, rejected>>
        /\ dunned' \in [Subs -> 0..Instances] /\ events' \in 0..MaxEvents
    BY <1>1, StartFinds
  <2> QED BY <1>0, <2>3, <2>4 DEF TypeInv, Types
<1>2. ASSUME NEW w \in Workers, Lock(w) PROVE TypeInv'
  <2>1. Typed
    BY <1>2, LockWorker DEF Resumes
  <2>2. /\ worker[w].sub \in Subs
        /\ sub' = sub \/ sub' = [sub EXCEPT ![worker[w].sub].status = "PAST_DUE"]
        /\ disturbed' \subseteq disturbed \cup {worker[w].sub}
    BY <1>2, LockWorker
  <2>3. sub' \in [Subs -> Row]
    <3>1. CASE sub' = sub
      BY <1>0, <3>1 DEF Types
    <3>2. CASE sub' = [sub EXCEPT ![worker[w].sub].status = "PAST_DUE"]
      <4>1. sub[worker[w].sub] \in Row /\ "PAST_DUE" \in Statuses
        BY <1>0, <2>2 DEF Types, Statuses
      <4>2. [sub[worker[w].sub] EXCEPT !.status = "PAST_DUE"] \in Row
        BY <4>1, RowShape
      <4> QED BY <1>0, <3>2, <4>2 DEF Types
    <3> QED BY <2>2, <3>1, <3>2
  <2>4. UNCHANGED <<charged, invoices, web, noticed, rejected, dunned, events, served>>
    BY <1>2 DEF Lock, others
  <2> QED BY <1>0, <2>1, <2>2, <2>3, <2>4 DEF TypeInv, Types
<1>3. ASSUME NEW w \in Workers, ChargeApproved(w) \/ ChargeRejected(w) \/ ChargeLost(w)
      PROVE  TypeInv'
  <2>1. Typed /\ worker[w].sub \in Subs /\ Key(w) \in CardKeys
    BY <1>3, ChargeWorker DEF Resumes
  <2>2. /\ charged' \in {charged, [charged EXCEPT ![worker[w].sub] = @ \cup {Key(w)}]}
        /\ disturbed' \subseteq disturbed \cup {worker[w].sub}
        /\ events' \in 0..MaxEvents
    BY <1>0, <1>3 DEF ChargeApproved, ChargeRejected, ChargeLost, OnTime, others
  <2>3. charged' \in [Subs -> SUBSET CardKeys]
    <3>1. charged \in [Subs -> SUBSET CardKeys]
      BY <1>0 DEF Types
    <3> QED BY <2>1, <2>2, <3>1
  <2>4. UNCHANGED <<sub, invoices, web, noticed, rejected, dunned, served>>
    BY <1>3 DEF ChargeApproved, ChargeRejected, ChargeLost, others
  <2> QED BY <1>0, <2>1, <2>2, <2>3, <2>4 DEF TypeInv, Types
<1>4. ASSUME NEW w \in Workers, CheckInvoice(w) PROVE TypeInv'
  <2>1. Typed
    BY <1>4, CheckWorker DEF Resumes
  <2> QED BY <1>0, <1>4, <2>1 DEF CheckInvoice, others, TypeInv, Types
<1>5. ASSUME NEW w \in Workers, BookPayment(w) PROVE TypeInv'
  <2>1. Typed /\ worker[w].sub \in Subs /\ worker[w].key \in Keys
    BY <1>5, BookWorker DEF Resumes
  <2>2. sub' \in [Subs -> Row]
    BY <1>0, <1>5, <2>1, BookWorker DEF Types
  <2>3. /\ invoices' = [invoices EXCEPT ![worker[w].sub][worker[w].key] = @ + 1]
        /\ served' = [served EXCEPT ![Anchor[worker[w].sub]] = TRUE]
        /\ disturbed' \subseteq disturbed \cup {worker[w].sub}
        /\ UNCHANGED <<charged, web, noticed, rejected, dunned, events>>
    BY <1>5 DEF BookPayment, Book, OnTime
  <2>4. invoices' \in [Subs -> [Keys -> Nat]]
    BY <1>0, <2>1, <2>3 DEF Types
  <2> QED BY <1>0, <2>1, <2>2, <2>3, <2>4 DEF TypeInv, Types
<1>6. ASSUME NEW w \in Workers, Ends(w) PROVE TypeInv'
  <2>1. PICK row \in Row : Update(w, row)
    BY <1>6, EndWrites
  <2>2. worker[w].at # "idle"
    BY <1>6 DEF Ends, MarkExpired, MarkGrace, Extend, FinalizeSubscription, Reactivate,
       CreateSubscription, UpdateSubscription, At
  <2>3. /\ Typed /\ worker[w].sub \in Subs
        /\ sub' = [sub EXCEPT ![worker[w].sub] = row]
    BY <2>1, <2>2, UpdateWorker DEF Resumes
  <2>4. /\ served' = [served EXCEPT ![worker[w].sub] = @ /\ row.left > 0]
        /\ disturbed' \subseteq disturbed \cup {worker[w].sub}
        /\ UNCHANGED others
    BY <2>1 DEF Update, OnTime
  <2>5. served' \in [Subs -> BOOLEAN]
    <3>1. (served[worker[w].sub] /\ row.left > 0) \in BOOLEAN
      OBVIOUS
    <3> QED BY <1>0, <2>4, <3>1 DEF Types
  <2> QED BY <1>0, <2>3, <2>4, <2>5 DEF TypeInv, Types, others
<1>7. ASSUME NEW w \in Workers, RecordNotice(w) PROVE TypeInv'
  <2>1. Typed /\ worker[w].sub \in Subs
    BY <1>7, RecordWorker DEF Resumes
  <2> QED BY <1>0, <1>7, <2>1 DEF RecordNotice, TypeInv, Types
<1>8. ASSUME NEW w \in Workers, Fail(w) PROVE TypeInv'
  <2>1. /\ Typed /\ worker[w].sub \in Subs
        /\ disturbed' = disturbed \cup {worker[w].sub}
        /\ sub' = sub \/ sub' = [sub EXCEPT ![worker[w].sub].status = "TRIALING"]
    BY <1>8, FailWorker DEF Resumes
  <2>2. sub' \in [Subs -> Row]
    <3>1. CASE sub' = sub
      BY <1>0, <3>1 DEF Types
    <3>2. CASE sub' = [sub EXCEPT ![worker[w].sub].status = "TRIALING"]
      <4>1. sub[worker[w].sub] \in Row /\ "TRIALING" \in Statuses
        BY <1>0, <2>1 DEF Types, Statuses
      <4>2. [sub[worker[w].sub] EXCEPT !.status = "TRIALING"] \in Row
        BY <4>1, RowShape
      <4> QED BY <1>0, <3>2, <4>2 DEF Types
    <3> QED BY <2>1, <3>1, <3>2
  <2> QED BY <1>0, <1>8, <2>1, <2>2 DEF Fail, TypeInv, Types
<1>9. ASSUME NEW w \in Workers, Crash(w) PROVE TypeInv'
  <2>1. /\ Typed /\ worker[w].sub \in Subs
        /\ disturbed' = disturbed \cup {worker[w].sub}
    BY <1>9, CrashWorker DEF Resumes
  <2> QED BY <1>0, <1>9, <2>1 DEF Crash, TypeInv, Types
<1>10. ASSUME NEW s \in Subs, Pays(s) PROVE TypeInv'
  BY <1>0, <1>10 DEF Pays, Pay, Approve, PayRejected, TypeInv, Types
<1>11. ASSUME NEW s \in Subs, Changes(s) PROVE TypeInv'
  <2>1. Typed /\ sub' \in [Subs -> Row]
    BY <1>0, <1>11, ChangeWorkers DEF Types
  <2>2. /\ disturbed' \subseteq disturbed \cup {s} /\ events' \in 0..MaxEvents
        /\ rejected' \in [Subs -> {"no", "sent", "done"}]
        /\ UNCHANGED <<charged, invoices, web, noticed, dunned, served>>
    BY <1>0, <1>11 DEF Changes, RejectedNotice, CancelSubscription, UpgradePlan,
       AddPaymentMethod, RemovePaymentMethod, Change, Types
  <2> QED BY <1>0, <2>1, <2>2 DEF TypeInv, Types
<1>12. ASSUME NEW w \in Workers, SkipForAdmin(w) PROVE TypeInv'
  <2>1. Typed
    BY <1>12, SkipWorker DEF Resumes
  <2> QED BY <1>0, <1>12, <2>1 DEF SkipForAdmin, TypeInv, Types
<1>13. CASE UNCHANGED vars
  BY <1>13 DEF vars, TypeInv, Types
<1> QED BY <1>1, <1>2, <1>3, <1>4, <1>5, <1>6, <1>7, <1>8, <1>9, <1>10, <1>11, <1>12, <1>13,
           NextCases, NewDayShape

-----------------------------------------------------------------------------
(* How many invoices a payment gets, at most: it is booked by who found none, *)
(* once each.                                                                 *)

Bookers(s, k) ==
  {w \in Workers : worker[w].at = "book" /\ worker[w].sub = s /\ worker[w].key = k}
InvoicesBound ==
  \A s \in Subs : \A k \in Keys :
    invoices[s][k] = 0 \/ invoices[s][k] + Cardinality(Bookers(s, k)) <= Cardinality(Workers)

LEMMA BookersFinite ==
  ASSUME NEW s \in Subs, NEW k \in Keys
  PROVE  /\ IsFiniteSet(Bookers(s, k)) /\ Cardinality(Bookers(s, k)) \in Nat
         /\ Cardinality(Workers) \in Nat /\ Cardinality(Bookers(s, k)) <= Cardinality(Workers)
<1>1. IsFiniteSet(Workers) /\ Bookers(s, k) \in SUBSET Workers
  BY SubscriptionAssumption DEF SubscriptionAssumption, Bookers
<1> HIDE DEF Bookers
<1> QED BY <1>1, FS_Subset, FS_CardinalityType

LEMMA BookersFewer ==
  ASSUME TypeInv, NEW w \in Workers, OthersBehind(w), worker'[w].at # "book"
  PROVE  \A s \in Subs : \A k \in Keys : Bookers(s, k)' \subseteq Bookers(s, k) \ {w}
<1>1. ASSUME NEW v \in Workers, v # w
      PROVE  /\ worker'[v].at = worker[v].at /\ worker'[v].sub = worker[v].sub
             /\ worker'[v].key = worker[v].key
  BY <1>1, BehindFields DEF TypeInv, Types, OthersBehind
<1> QED BY <1>1 DEF Bookers

LEMMA BoundKept ==
  ASSUME TypeInv, InvoicesBound,
         \A s \in Subs : \A k \in Keys :
           \/ invoices'[s][k] = 0
           \/ invoices'[s][k] = invoices[s][k] /\ Bookers(s, k)' \subseteq Bookers(s, k)
  PROVE  InvoicesBound'
<1> SUFFICES ASSUME NEW s \in Subs, NEW k \in Keys, invoices'[s][k] # 0
             PROVE  invoices'[s][k] + Cardinality(Bookers(s, k)') <= Cardinality(Workers)
  BY DEF InvoicesBound
<1>1. invoices[s][k] + Cardinality(Bookers(s, k)) <= Cardinality(Workers)
  BY DEF InvoicesBound
<1>2. Bookers(s, k)' \in SUBSET Bookers(s, k) /\ invoices'[s][k] = invoices[s][k]
  OBVIOUS
<1>3. invoices[s][k] \in Nat
  BY DEF TypeInv, Types
<1> HIDE DEF Bookers
<1>4. IsFiniteSet(Bookers(s, k)')
  BY <1>2, BookersFinite, FS_Subset
<1>5. /\ Cardinality(Bookers(s, k)') \in Nat
      /\ Cardinality(Bookers(s, k)') <= Cardinality(Bookers(s, k))
  BY <1>2, <1>4, BookersFinite, FS_Subset, FS_CardinalityType
<1> QED BY <1>1, <1>2, <1>3, <1>5, BookersFinite

LEMMA BoundBooked ==
  ASSUME TypeInv, InvoicesBound, NEW w \in Workers, BookPayment(w)
  PROVE  InvoicesBound'
<1> DEFINE t == worker[w].sub
           j == worker[w].key
<1>1. /\ t \in Subs /\ j \in Keys /\ worker[w].at = "book"
      /\ invoices' = [invoices EXCEPT ![t][j] = @ + 1]
      /\ invoices \in [Subs -> [Keys -> Nat]]
  BY BookWorker DEF BookPayment, Book, TypeInv, Types
<1>2. \A s \in Subs : \A k \in Keys : Bookers(s, k)' \subseteq Bookers(s, k) \ {w}
  <2>1. OthersBehind(w) /\ worker'[w].at # "book"
    <3>1. Resumes(w, Idle)
      BY BookWorker
    <3> QED BY <3>1 DEF Resumes, Idle
  <2> QED BY <2>1, BookersFewer
<1> SUFFICES ASSUME NEW s \in Subs, NEW k \in Keys
             PROVE  \/ invoices'[s][k] = 0
                    \/ invoices'[s][k] + Cardinality(Bookers(s, k)') <= Cardinality(Workers)
  BY DEF InvoicesBound
<1>3. IsFiniteSet(Bookers(s, k)) /\ Bookers(s, k) \ {w} \in SUBSET Bookers(s, k)
  BY BookersFinite
<1>4. /\ IsFiniteSet(Bookers(s, k) \ {w})
      /\ Cardinality(Bookers(s, k) \ {w}) = IF w \in Bookers(s, k)
           THEN Cardinality(Bookers(s, k)) - 1 ELSE Cardinality(Bookers(s, k))
  BY <1>3, FS_RemoveElement
<1>5. /\ Cardinality(Bookers(s, k)') \in Nat
      /\ Cardinality(Bookers(s, k)') <= Cardinality(Bookers(s, k) \ {w})
  BY <1>2, <1>4, FS_Subset, FS_CardinalityType
<1>6. CASE s = t /\ k = j
  <2>1. w \in Bookers(s, k)
    BY <1>1, <1>6 DEF Bookers
  <2>2. invoices'[s][k] = invoices[s][k] + 1 /\ invoices[s][k] \in Nat
    BY <1>1, <1>6
  <2>3. \/ invoices[s][k] = 0
        \/ invoices[s][k] + Cardinality(Bookers(s, k)) <= Cardinality(Workers)
    BY DEF InvoicesBound
  <2> HIDE DEF t, j
  <2> QED BY <1>4, <1>5, <2>1, <2>2, <2>3, BookersFinite
<1>7. CASE ~(s = t /\ k = j)
  <2>1. invoices'[s][k] = invoices[s][k] /\ invoices[s][k] \in Nat
    BY <1>1, <1>7
  <2>2. \/ invoices[s][k] = 0
        \/ invoices[s][k] + Cardinality(Bookers(s, k)) <= Cardinality(Workers)
    BY DEF InvoicesBound
  <2> HIDE DEF t, j
  <2> QED BY <1>4, <1>5, <2>1, <2>2, BookersFinite
<1> QED BY <1>6, <1>7

\* Only the look-up of a payment leads to its booking, and only a booking adds an
\* invoice; who leaves a payment without one says so.
Elsewhere(w) ==
  \/ Starts(w) \/ Lock(w) \/ ChargeRejected(w) \/ ChargeLost(w) \/ SkipForAdmin(w)
  \/ Ends(w) \/ RecordNotice(w) \/ Fail(w) \/ Crash(w)

Leaves(w) ==
  /\ OthersBehind(w) /\ UNCHANGED <<invoices, raced, web>>
  /\ worker'[w].at # "book"
  /\ worker'[w].at = "check" =>
       \/ worker'[w].key \in FreeKeys
       \/ worker'[w].key = WebKey /\ web[worker'[w].sub] = "approved"
  /\ worker[w].at \in {"check", "book"} => <<worker[w].sub, worker[w].key>> \in unbooked'
  /\ unbooked \subseteq unbooked'
  /\ \A s \in Subs : charged[s] \subseteq charged'[s]
  /\ \A s \in Subs : \A k \in charged'[s] : k \in charged[s] \/ <<s, k>> \in unbooked'

LEMMA ElsewhereBooks ==
  ASSUME TypeInv, NEW w \in Workers, Elsewhere(w)
  PROVE  Leaves(w)
<1>0. worker[w] \in Worker /\ Wired(worker[w]) /\ charged \in [Subs -> SUBSET CardKeys]
  BY DEF TypeInv, Types
<1>1. CASE Starts(w)
  <2>1. PICK s \in Subs, job \in Jobs,
          step \in {"lock", "charge", "extend", "expire", "end", "record", "apply"} :
            Start(w, s, job, step) /\ Found(s, job, step)
    BY <1>1, StartFinds
  <2>2. /\ step = "lock" => job \in {"trial", "renewal"}
        /\ step = "charge" => job = "dunning"
    BY <2>1 DEF Found
  <2>3. /\ \E q \in Worker : Resumes(w, q) /\ q.at = step /\ q.key = NoKey
        /\ worker[w] = Idle
    BY <2>1, <2>2, StartWorker
  <2>4. UNCHANGED <<invoices, web, charged, raced, unbooked>>
    BY <1>1, StartFinds DEF books
  <2>5. /\ OthersBehind(w) /\ worker'[w].at = step
        /\ worker[w].at = "idle"
    BY <2>3 DEF Resumes, Idle
  <2> QED BY <2>4, <2>5 DEF Leaves
<1>2. CASE Lock(w)
  <2>1. /\ worker[w].at = "lock" /\ (Resumes(w, Idle) \/ Resumes(w, AfterLock(w)))
    BY <1>2, LockWorker
  <2>2. /\ AfterLock(w).at # "book"
        /\ AfterLock(w).at = "check" => AfterLock(w).key \in FreeKeys
    BY <2>1, AfterLockShape
  <2>3. UNCHANGED <<invoices, web, charged, raced, unbooked>>
    BY <1>2 DEF Lock, others, books
  <2>4. /\ OthersBehind(w) /\ worker'[w].at # "book"
        /\ worker'[w].at = "check" => worker'[w].key \in FreeKeys
    BY <2>1, <2>2 DEF Resumes, Idle
  <2> QED BY <2>1, <2>3, <2>4 DEF Leaves
<1>3. CASE ChargeRejected(w) \/ ChargeLost(w)
  <2>1. /\ worker[w].at = "charge" /\ UNCHANGED <<invoices, web, raced>>
        /\ Goes1(w, Failed(w)) /\ UNCHANGED sub
    BY <1>3 DEF ChargeRejected, ChargeLost, At, others, books
  <2>2. /\ Failed(w) \in Worker /\ Wired(Failed(w))
        /\ Failed(w).at \notin {"check", "book"}
    BY <2>1, FailedShape DEF Idle
  <2>3. OthersBehind(w) /\ worker'[w] = Failed(w)
    BY <2>1, <2>2, GoesAlone
  <2>4. /\ unbooked \subseteq unbooked'
        /\ \A s \in Subs : charged[s] \subseteq charged'[s]
        /\ \A s \in Subs : \A k \in charged'[s] : k \in charged[s] \/ <<s, k>> \in unbooked'
    <3>1. CASE ChargeRejected(w)
      BY <3>1 DEF ChargeRejected, others, books
    <3>2. CASE ChargeLost(w)
      BY <1>0, <3>2 DEF ChargeLost
    <3> QED BY <1>3, <3>1, <3>2
  <2> QED BY <2>1, <2>2, <2>3, <2>4 DEF Leaves
<1>4. CASE Ends(w)
  <2>1. PICK row \in Row : Update(w, row)
    BY <1>4, EndWrites
  <2>2. worker[w].at \in {"expire", "grace", "extend", "end", "apply"}
    BY <1>4 DEF Ends, MarkExpired, MarkGrace, Extend, FinalizeSubscription, Reactivate,
       CreateSubscription, UpdateSubscription, At
  <2>3. Resumes(w, Idle) /\ UNCHANGED <<invoices, web, charged, raced, unbooked>>
    BY <2>1, <2>2, UpdateWorker DEF Update, others, books
  <2>4. OthersBehind(w) /\ worker'[w].at = "idle"
    BY <2>3 DEF Resumes, Idle
  <2> QED BY <2>2, <2>3, <2>4 DEF Leaves
<1>5. CASE RecordNotice(w)
  <2>1. worker[w].at = "record" /\ worker[w].sub \in Subs
    BY <1>5, RecordWorker
  <2>2. /\ UNCHANGED <<sub, invoices, web, charged, raced, unbooked>>
        /\ Goes1(w, IF web[worker[w].sub] = "approved"
                     THEN [worker[w] EXCEPT !.at = "check", !.key = WebKey] ELSE Idle)
    BY <1>5 DEF RecordNotice, books
  <2>3. OthersBehind(w)
    BY <1>5, RecordWorker DEF Resumes
  <2>4. \/ worker'[w].at = "idle"
        \/ /\ worker'[w].at = "check" /\ worker'[w].key = WebKey
           /\ web[worker'[w].sub] = "approved"
    <3>1. worker'[w] = IF web[worker[w].sub] = "approved"
                       THEN [worker[w] EXCEPT !.at = "check", !.key = WebKey] ELSE Idle
      BY <2>2 DEF Goes1, Goes
    <3> QED BY <1>0, <3>1 DEF Worker, Idle
  <2> QED BY <2>1, <2>2, <2>3, <2>4 DEF Leaves
<1>6. CASE Fail(w)
  <2>1. /\ worker[w].at # "idle" /\ worker[w].sub \in Subs
        /\ Resumes(w, Idle) \/ Resumes(w, Failed(w))
    BY <1>6, FailWorker
  <2>2. Failed(w).at \notin {"check", "book"}
    BY <2>1, FailedShape DEF Idle
  <2>3. /\ UNCHANGED <<invoices, web, charged, raced>>
        /\ unbooked' = unbooked \cup Dropped(w)
    BY <1>6 DEF Fail
  <2>4. OthersBehind(w) /\ worker'[w].at \notin {"check", "book"}
    BY <2>1, <2>2 DEF Resumes, Idle
  <2> QED BY <1>0, <2>1, <2>3, <2>4 DEF Leaves, Dropped, Booking, Wired
<1>7. CASE Crash(w)
  <2>1. Resumes(w, Idle) /\ worker[w].sub \in Subs
    BY <1>7, CrashWorker
  <2>2. /\ UNCHANGED <<invoices, web, charged, raced>>
        /\ unbooked' = unbooked \cup Dropped(w)
    BY <1>7 DEF Crash
  <2>3. OthersBehind(w) /\ worker'[w].at = "idle"
    BY <2>1 DEF Resumes, Idle
  <2> QED BY <1>0, <2>1, <2>2, <2>3 DEF Leaves, Dropped, Booking, Wired
<1>8. CASE SkipForAdmin(w)
  <2>1. Resumes(w, Idle)
    BY <1>8, SkipWorker
  <2>2. /\ UNCHANGED <<invoices, web, charged, raced>>
        /\ unbooked' = unbooked \cup {<<worker[w].sub, worker[w].key>>}
    BY <1>8 DEF SkipForAdmin
  <2>3. OthersBehind(w) /\ worker'[w].at = "idle"
    BY <2>1 DEF Resumes, Idle
  <2> QED BY <2>2, <2>3 DEF Leaves
<1> QED BY <1>1, <1>2, <1>3, <1>4, <1>5, <1>6, <1>7, <1>8 DEF Elsewhere

LEMMA BoundStep == TypeInv /\ InvoicesBound /\ [Next]_vars => InvoicesBound'
<1> SUFFICES ASSUME TypeInv, InvoicesBound, [Next]_vars PROVE InvoicesBound'
  OBVIOUS
<1>1. ASSUME NEW w \in Workers, Elsewhere(w) PROVE InvoicesBound'
  <2>1. OthersBehind(w) /\ worker'[w].at # "book" /\ UNCHANGED invoices
    BY <1>1, ElsewhereBooks DEF Leaves
  <2> QED BY <2>1, BookersFewer, BoundKept
<1>2. ASSUME NEW w \in Workers, ChargeApproved(w) PROVE InvoicesBound'
  <2>1. Resumes(w, [worker[w] EXCEPT !.at = "check", !.key = Key(w)])
    BY <1>2, ChargeWorker
  <2>2. OthersBehind(w) /\ worker'[w].at = "check" /\ UNCHANGED invoices
    BY <1>2, <2>1 DEF Resumes, ChargeApproved, TypeInv, Types, Worker
  <2> QED BY <2>2, BookersFewer, BoundKept
<1>3. ASSUME NEW w \in Workers, CheckInvoice(w) PROVE InvoicesBound'
  <2> DEFINE t == worker[w].sub
             j == worker[w].key
  <2>1. /\ t \in Subs /\ j \in Keys
        /\ Resumes(w, IF Invoiced(t, j) THEN Idle
                      ELSE [worker[w] EXCEPT !.at = "book", !.fresh = TRUE])
        /\ UNCHANGED invoices
    BY <1>3, CheckWorker DEF CheckInvoice, others
  <2>2. CASE Invoiced(t, j)
    <3>1. OthersBehind(w) /\ worker'[w].at # "book"
      BY <2>1, <2>2 DEF Resumes, Idle
    <3> QED BY <2>1, <3>1, BookersFewer, BoundKept
  <2>3. CASE ~Invoiced(t, j)
    <3>1. /\ OthersBehind(w) /\ worker'[w].sub = t /\ worker'[w].key = j
          /\ invoices[t][j] \in Nat
      BY <2>1, <2>3 DEF Resumes, TypeInv, Types, Worker
    <3>2. invoices'[t][j] = 0
      BY <2>1, <2>3, <3>1 DEF Invoiced
    <3>3. ASSUME NEW s \in Subs, NEW k \in Keys, ~(s = t /\ k = j), NEW v \in Bookers(s, k)'
          PROVE  v \in Bookers(s, k)
      <4>1. /\ v \in Workers /\ worker'[v].at = "book" /\ worker'[v].sub = s
            /\ worker'[v].key = k
        BY <3>3 DEF Bookers
      <4>2. v # w
        BY <3>1, <3>3, <4>1
      <4> QED BY <3>1, <4>1, <4>2, BehindFields DEF Bookers, OthersBehind, TypeInv, Types
    <3> HIDE DEF t, j
    <3> QED BY <2>1, <3>2, <3>3, BoundKept
  <2> QED BY <2>2, <2>3
<1>4. ASSUME NEW w \in Workers, BookPayment(w) PROVE InvoicesBound'
  BY <1>4, BoundBooked
<1>5. ASSUME NEW t \in Subs, Pays(t) \/ Changes(t) PROVE InvoicesBound'
  <2>1. UNCHANGED invoices
    BY <1>5 DEF Pays, Pay, Approve, PayRejected, Changes, RejectedNotice,
       CancelSubscription, UpgradePlan, AddPaymentMethod, RemovePaymentMethod, Change
  <2>2. \/ UNCHANGED worker
        \/ \A v \in Workers : Behind(v)
    BY <1>5, ChangeWorkers DEF Pays, Pay, Approve, PayRejected
  <2>3. \A s \in Subs : \A k \in Keys : Bookers(s, k)' \subseteq Bookers(s, k)
    BY <2>2, BehindFields DEF Bookers, TypeInv, Types
  <2> QED BY <2>1, <2>3, BoundKept
<1>6. CASE NewDay
  <2>1. /\ UNCHANGED worker
        /\ \A s \in Subs : \A k \in Keys : invoices'[s][k] \in {0, invoices[s][k]}
    BY <1>6 DEF NewDay
  <2> QED BY <2>1, BoundKept DEF Bookers
<1>7. CASE UNCHANGED vars
  BY <1>7 DEF vars, InvoicesBound, Bookers
<1> QED BY <1>1, <1>2, <1>3, <1>4, <1>5, <1>6, <1>7, NextCases DEF Elsewhere

LEMMA BoundGivesType == TypeInv /\ HistoryInv /\ InvoicesBound => TypeOK
<1> SUFFICES ASSUME TypeInv, HistoryInv, InvoicesBound PROVE TypeOK
  OBVIOUS
<1>1. ASSUME NEW s \in Subs, NEW k \in Keys
      PROVE  invoices[s][k] \in 0..Cardinality(Workers)
  <2>1. invoices[s][k] \in Nat
    BY DEF TypeInv, Types
  <2>2. \/ invoices[s][k] = 0
        \/ invoices[s][k] + Cardinality(Bookers(s, k)) <= Cardinality(Workers)
    BY DEF InvoicesBound
  <2> QED BY <2>1, <2>2, BookersFinite
<1>2. invoices \in [Subs -> [Keys -> 0..Cardinality(Workers)]]
  BY <1>1 DEF TypeInv, Types
<1> QED BY <1>2 DEF TypeInv, Types, HistoryInv, TypeOK

\* Every variable stays in its type: a payment has no more invoices than there are
\* workers to book it, a job makes no more attempts than it has, and the days overdue
\* are counted to the last one only.
THEOREM TypeCorrect == Spec => []TypeOK
<1>1. Init => InvoicesBound /\ HistoryInv
  BY DEF Init, InvoicesBound, HistoryInv
<1> QED BY <1>1, TypeInit, TypeStep, HistoryStep, BoundStep, BoundGivesType, PTL DEF Spec

-----------------------------------------------------------------------------
(* The books.  What is to be booked was paid.  Unless two have looked up the *)
(* same payment before either booked it, one worker at most is to book it,   *)
(* and no invoice of it is there.                                            *)

AtBook(w, s, k) == Booking(w, s, k) /\ worker[w].at = "book"
Taken(s, k) == k \in charged[s] \/ (k = WebKey /\ web[s] = "approved")
Once(s, k) ==
  /\ \A w \in Workers : AtBook(w, s, k) => invoices[s][k] = 0
  /\ \A v, w \in Workers : AtBook(v, s, k) /\ AtBook(w, s, k) => v = w

BookerInv == \A s \in Subs : \A k \in Keys :
  /\ <<s, k>> \in raced \/ Once(s, k)
  /\ \A w \in Workers : Booking(w, s, k) => k \in FreeKeys \/ Taken(s, k)
BooksInv == BooksBalance /\ BookerInv

LEMMA KeysDiffer ==
  /\ NoKey \notin Keys /\ CardKeys \subseteq Keys /\ WebKey \notin CardKeys
  /\ FreeKeys \cap CardKeys = {}
BY SubscriptionAssumption DEF SubscriptionAssumption, NoKey, Keys, CardKeys, FreeKeys, WebKey

\* The other workers have the payment they had.
LEMMA BookingKept ==
  ASSUME TypeInv, NEW v \in Workers, Behind(v)
  PROVE  \A s \in Subs : \A k \in Keys :
           Booking(v, s, k)' = Booking(v, s, k) /\ AtBook(v, s, k)' = AtBook(v, s, k)
<1>1. /\ worker'[v].at = worker[v].at /\ worker'[v].sub = worker[v].sub
      /\ worker'[v].key = worker[v].key
  BY BehindFields DEF TypeInv, Types
<1> QED BY <1>1 DEF Booking, AtBook

\* A step that books nothing keeps the books, if what its worker leaves is known not to
\* be booked or has its invoice, and what it takes up was paid.
LEMMA BooksFrame ==
  ASSUME TypeInv, BooksInv, NEW w \in Workers, OthersBehind(w),
         UNCHANGED <<invoices, raced, web>>, unbooked \subseteq unbooked',
         worker'[w].at # "book",
         \A s \in Subs : charged[s] \subseteq charged'[s],
         \A s \in Subs : \A k \in Keys :
           Booking(w, s, k)' => k \in FreeKeys \/ Taken(s, k)',
         \A s \in Subs : \A k \in CardKeys :
           Booking(w, s, k) => <<s, k>> \in unbooked' \/ invoices[s][k] > 0,
         \A s \in Subs : \A k \in charged'[s] :
           k \in charged[s] \/ <<s, k>> \in unbooked' \/ Booking(w, s, k)'
  PROVE  BooksInv'
<1>1. \A v \in Workers \ {w} : \A s \in Subs : \A k \in Keys :
        Booking(v, s, k)' = Booking(v, s, k) /\ AtBook(v, s, k)' = AtBook(v, s, k)
  BY BookingKept DEF OthersBehind
<1>2. \A s \in Subs : \A k \in Keys : ~AtBook(w, s, k)'
  BY DEF AtBook
<1>3. \A s \in Subs : \A k \in Keys : Taken(s, k) => Taken(s, k)'
  BY DEF Taken
<1>4. ASSUME NEW s \in Subs, NEW k \in Keys
      PROVE  /\ <<s, k>> \in raced' \/ Once(s, k)'
             /\ \A v \in Workers : Booking(v, s, k)' => k \in FreeKeys \/ Taken(s, k)'
  <2>1. <<s, k>> \in raced' \/ Once(s, k)'
    <3>1. CASE <<s, k>> \in raced
      BY <3>1
    <3>2. CASE Once(s, k)
      BY <1>1, <1>2, <3>2 DEF Once
    <3> QED BY <3>1, <3>2 DEF BooksInv, BookerInv
  <2>2. ASSUME NEW v \in Workers, Booking(v, s, k)' PROVE k \in FreeKeys \/ Taken(s, k)'
    <3>1. CASE v = w
      BY <2>2, <3>1
    <3>2. CASE v # w
      <4>1. Booking(v, s, k)
        BY <1>1, <2>2, <3>2
      <4> QED BY <1>3, <4>1 DEF BooksInv, BookerInv
    <3> QED BY <3>1, <3>2
  <2> QED BY <2>1, <2>2
<1>5. ASSUME NEW s \in Subs, NEW k \in Keys
      PROVE  /\ invoices'[s][k] > 1 => <<s, k>> \in raced'
             /\ k \in charged'[s] =>
                  \/ invoices'[s][k] > 0 \/ <<s, k>> \in unbooked'
                  \/ \E v \in Workers : Booking(v, s, k)'
             /\ invoices'[s][k] > 0 /\ k \notin FreeKeys => Taken(s, k)'
  <2>1. /\ invoices[s][k] > 1 => <<s, k>> \in raced
        /\ k \in charged[s] =>
             \/ invoices[s][k] > 0 \/ <<s, k>> \in unbooked
             \/ \E v \in Workers : Booking(v, s, k)
        /\ invoices[s][k] > 0 /\ k \notin FreeKeys => Taken(s, k)
    BY DEF BooksInv, BooksBalance, Taken
  <2>2. ASSUME k \in charged[s], NEW v \in Workers, Booking(v, s, k)
        PROVE  \/ invoices'[s][k] > 0 \/ <<s, k>> \in unbooked'
               \/ \E u \in Workers : Booking(u, s, k)'
    <3>1. k \in CardKeys
      BY <2>2 DEF TypeInv, Types
    <3>2. CASE v = w
      BY <2>2, <3>1, <3>2
    <3>3. CASE v # w
      BY <1>1, <2>2, <3>3
    <3> QED BY <3>2, <3>3
  <2> QED BY <1>3, <2>1, <2>2
<1> QED BY <1>4, <1>5 DEF BooksInv, BooksBalance, BookerInv, Taken

LEMMA BooksElsewhere ==
  ASSUME TypeInv, BooksInv, NEW w \in Workers, Elsewhere(w)
  PROVE  BooksInv'
<1>1. Leaves(w)
  BY ElsewhereBooks
<1>2. \A s \in Subs : \A k \in Keys : Booking(w, s, k)' => k \in FreeKeys \/ Taken(s, k)'
  BY <1>1 DEF Leaves, Booking, Taken
<1>3. \A s \in Subs : \A k \in Keys : Booking(w, s, k) => <<s, k>> \in unbooked'
  BY <1>1 DEF Leaves, Booking
<1> QED BY <1>1, <1>2, <1>3, BooksFrame, KeysDiffer DEF Leaves

LEMMA BooksCharge ==
  ASSUME TypeInv, BooksInv, NEW w \in Workers, ChargeApproved(w)
  PROVE  BooksInv'
<1> DEFINE t == worker[w].sub
           q == [worker[w] EXCEPT !.at = "check", !.key = Key(w)]
<1>1. Resumes(w, q) /\ worker[w].at = "charge" /\ t \in Subs /\ Key(w) \in CardKeys
  BY ChargeWorker
<1>2. /\ UNCHANGED <<invoices, web, raced, unbooked>>
      /\ charged' = [charged EXCEPT ![t] = @ \cup {Key(w)}]
      /\ charged \in [Subs -> SUBSET CardKeys]
  BY DEF ChargeApproved, books, TypeInv, Types
<1>3. worker'[w].at = "check" /\ worker'[w].key = Key(w) /\ worker'[w].sub = t
  BY <1>1 DEF Resumes, TypeInv, Types, Worker
<1>4. OthersBehind(w)
  BY <1>1 DEF Resumes
<1> HIDE DEF q
<1>5. \A s \in Subs : \A k \in Keys : Booking(w, s, k)' <=> s = t /\ k = Key(w)
  BY <1>3 DEF Booking
<1>6. /\ \A s \in Subs : charged[s] \subseteq charged'[s]
      /\ Key(w) \in charged'[t]
      /\ \A s \in Subs : \A k \in charged'[s] : k \in charged[s] \/ (s = t /\ k = Key(w))
  BY <1>1, <1>2
<1>7. \A s \in Subs : \A k \in Keys : ~Booking(w, s, k)
  BY <1>1 DEF Booking
<1> HIDE DEF t
<1>8. \A s \in Subs : \A k \in Keys : Booking(w, s, k)' => k \in FreeKeys \/ Taken(s, k)'
  BY <1>5, <1>6 DEF Taken
<1>9. \A s \in Subs : \A k \in charged'[s] : k \in charged[s] \/ Booking(w, s, k)'
  BY <1>1, <1>5, <1>6, KeysDiffer
<1> QED BY <1>2, <1>3, <1>4, <1>6, <1>7, <1>8, <1>9, BooksFrame, KeysDiffer

LEMMA BooksCheck ==
  ASSUME TypeInv, BooksInv, NEW w \in Workers, CheckInvoice(w)
  PROVE  BooksInv'
<1> DEFINE t == worker[w].sub
           j == worker[w].key
           q == [worker[w] EXCEPT !.at = "book", !.fresh = TRUE]
           found == Invoiced(t, j)
           other == \E v \in Workers \ {w} : AtBook(v, t, j)
<1>1. /\ worker[w].at = "check" /\ t \in Subs /\ j \in Keys
      /\ Resumes(w, IF found THEN Idle ELSE q)
      /\ UNCHANGED <<invoices, charged, unbooked, web>>
  BY CheckWorker DEF CheckInvoice
<1>2. raced' = IF ~found /\ other THEN raced \cup {<<t, j>>} ELSE raced
  BY DEF CheckInvoice, AtBook, At
<1>3. q.at = "book" /\ q.key = j /\ q.sub = t
  BY DEF TypeInv, Types, Worker
<1> HIDE DEF q
<1>4. invoices \in [Subs -> [Keys -> Nat]]
  BY DEF TypeInv, Types
<1>5. OthersBehind(w)
  BY <1>1 DEF Resumes
<1>6. Booking(w, t, j) /\ \A s \in Subs : \A k \in Keys : Booking(w, s, k) => s = t /\ k = j
  BY <1>1 DEF Booking
<1>7. CASE found
  <2>1. worker'[w] = Idle /\ raced' = raced
    BY <1>1, <1>2, <1>7 DEF Resumes
  <2>2. \A s \in Subs : \A k \in Keys : ~Booking(w, s, k)'
    BY <2>1 DEF Booking, Idle
  <2>3. \A s \in Subs : \A k \in CardKeys : Booking(w, s, k) => invoices[s][k] > 0
    BY <1>6, <1>7, KeysDiffer DEF Invoiced
  <2>4. worker'[w].at # "book"
    BY <2>1 DEF Idle
  <2> HIDE DEF found, t, j
  <2> QED BY <1>1, <1>5, <2>1, <2>2, <2>3, <2>4, BooksFrame
<1>8. CASE ~found
  <2>1. invoices[t][j] = 0
    BY <1>1, <1>4, <1>8 DEF Invoiced
  <2>2. worker'[w] = q
    BY <1>1, <1>8 DEF Resumes
  <2>3. \A s \in Subs : \A k \in Keys : Booking(w, s, k)' <=> s = t /\ k = j
    BY <1>3, <2>2 DEF Booking
  <2>4. \A v \in Workers \ {w} : \A s \in Subs : \A k \in Keys :
          Booking(v, s, k)' = Booking(v, s, k) /\ AtBook(v, s, k)' = AtBook(v, s, k)
    BY <1>5, BookingKept DEF OthersBehind
  <2>5. \A v \in Workers : \A s \in Subs : \A k \in Keys : Booking(v, s, k)' <=> Booking(v, s, k)
    <3>1. \A s \in Subs : \A k \in Keys : Booking(w, s, k)' <=> Booking(w, s, k)
      BY <1>6, <2>3
    <3> QED BY <2>4, <3>1
  <2>6. raced \subseteq raced' /\ (other => <<t, j>> \in raced')
    BY <1>2, <1>8
  <2>7. \A s \in Subs : \A k \in Keys : AtBook(w, s, k)' => s = t /\ k = j
    BY <2>3 DEF AtBook
  <2>8. ~AtBook(w, t, j)
    BY <1>1 DEF AtBook
  <2>9. \A s \in Subs : \A k \in Keys : Taken(s, k)' <=> Taken(s, k)
    BY <1>1 DEF Taken
  <2> HIDE DEF found
  <2>10. ASSUME NEW s \in Subs, NEW k \in Keys
         PROVE  <<s, k>> \in raced' \/ Once(s, k)'
    <3>1. CASE s = t /\ k = j
      <4>1. CASE other
        BY <2>6, <3>1, <4>1
      <4>2. CASE ~other
        <5>1. \A v \in Workers : AtBook(v, s, k)' => v = w
          <6>1. \A v \in Workers \ {w} : ~AtBook(v, s, k)
            BY <3>1, <4>2
          <6> QED BY <2>4, <6>1
        <5>2. invoices'[s][k] = 0
          BY <1>1, <2>1, <3>1
        <5> QED BY <5>1, <5>2 DEF Once
      <4> QED BY <4>1, <4>2
    <3>2. CASE ~(s = t /\ k = j)
      <4>1. \A v \in Workers : AtBook(v, s, k)' => AtBook(v, s, k)
        BY <2>4, <2>7, <3>2
      <4>2. <<s, k>> \in raced \/ Once(s, k)
        BY DEF BooksInv, BookerInv
      <4> QED BY <1>1, <2>6, <4>1, <4>2 DEF Once
    <3> QED BY <3>1, <3>2
  <2> HIDE DEF t, j, other
  <2>11. BookerInv'
    BY <2>5, <2>9, <2>10 DEF BooksInv, BookerInv
  <2>12. BooksBalance'
    BY <1>1, <2>5, <2>6 DEF BooksInv, BooksBalance
  <2> QED BY <2>11, <2>12 DEF BooksInv
<1> QED BY <1>7, <1>8

LEMMA BooksBook ==
  ASSUME TypeInv, BooksInv, NEW w \in Workers, BookPayment(w)
  PROVE  BooksInv'
<1> DEFINE t == worker[w].sub
           j == worker[w].key
<1>1. worker[w].at = "book" /\ t \in Subs /\ j \in Keys /\ Resumes(w, Idle)
  BY BookWorker
<1>2. /\ UNCHANGED <<charged, web, raced, unbooked>>
      /\ invoices' = [invoices EXCEPT ![t][j] = @ + 1]
      /\ invoices \in [Subs -> [Keys -> Nat]]
  BY DEF BookPayment, Book, books, TypeInv, Types
<1>3. /\ invoices'[t][j] = invoices[t][j] + 1 /\ invoices[t][j] \in Nat
      /\ \A s \in Subs : \A k \in Keys : ~(s = t /\ k = j) => invoices'[s][k] = invoices[s][k]
  BY <1>1, <1>2
<1>4. AtBook(w, t, j) /\ Booking(w, t, j)
  BY <1>1 DEF AtBook, Booking
<1>5. \A s \in Subs : \A k \in Keys :
        /\ Booking(w, s, k) => s = t /\ k = j
        /\ ~Booking(w, s, k)' /\ ~AtBook(w, s, k)'
  BY <1>1 DEF Resumes, Idle, Booking, AtBook
<1>6. \A v \in Workers \ {w} : \A s \in Subs : \A k \in Keys :
        Booking(v, s, k)' = Booking(v, s, k) /\ AtBook(v, s, k)' = AtBook(v, s, k)
  BY <1>1, BookingKept DEF Resumes, OthersBehind
<1>7. \A s \in Subs : \A k \in Keys : Taken(s, k)' <=> Taken(s, k)
  BY <1>2 DEF Taken
<1> HIDE DEF t, j
<1>8. ASSUME NEW s \in Subs, NEW k \in Keys
      PROVE  /\ <<s, k>> \in raced' \/ Once(s, k)'
             /\ \A v \in Workers : Booking(v, s, k)' => k \in FreeKeys \/ Taken(s, k)'
  <2>1. <<s, k>> \in raced \/ Once(s, k)
    BY DEF BooksInv, BookerInv
  <2>2. \A v \in Workers : AtBook(v, s, k)' => AtBook(v, s, k) /\ v # w
    BY <1>5, <1>6
  <2>3. s = t /\ k = j /\ Once(s, k) => \A v \in Workers : ~AtBook(v, s, k)'
    BY <1>4, <2>2 DEF Once
  <2>4. <<s, k>> \in raced' \/ Once(s, k)'
    <3>1. CASE s = t /\ k = j
      BY <1>2, <2>1, <2>3, <3>1 DEF Once
    <3>2. CASE ~(s = t /\ k = j)
      BY <1>2, <1>3, <2>1, <2>2, <3>2 DEF Once
    <3> QED BY <3>1, <3>2
  <2>5. \A v \in Workers : Booking(v, s, k)' => Booking(v, s, k)
    BY <1>5, <1>6
  <2> QED BY <1>7, <2>4, <2>5 DEF BooksInv, BookerInv
<1>9. ASSUME NEW s \in Subs, NEW k \in Keys
      PROVE  /\ invoices'[s][k] > 1 => <<s, k>> \in raced'
             /\ k \in charged'[s] =>
                  \/ invoices'[s][k] > 0 \/ <<s, k>> \in unbooked'
                  \/ \E v \in Workers : Booking(v, s, k)'
             /\ invoices'[s][k] > 0 /\ k \notin FreeKeys => Taken(s, k)'
  <2>1. /\ invoices[s][k] > 1 => <<s, k>> \in raced
        /\ k \in charged[s] =>
             \/ invoices[s][k] > 0 \/ <<s, k>> \in unbooked
             \/ \E v \in Workers : Booking(v, s, k)
        /\ invoices[s][k] > 0 /\ k \notin FreeKeys => Taken(s, k)
    BY DEF BooksInv, BooksBalance, Taken
  <2>2. CASE s = t /\ k = j
    <3>1. <<s, k>> \in raced \/ invoices[s][k] = 0
      BY <1>4, <2>2 DEF BooksInv, BookerInv, Once
    <3>2. k \in FreeKeys \/ Taken(s, k)
      BY <1>4, <2>2 DEF BooksInv, BookerInv
    <3>3. invoices'[s][k] > 0 /\ (invoices[s][k] = 0 => invoices'[s][k] = 1)
      BY <1>3, <2>2
    <3> QED BY <1>2, <1>7, <3>1, <3>2, <3>3
  <2>3. CASE ~(s = t /\ k = j)
    <3>1. \A v \in Workers : Booking(v, s, k) => Booking(v, s, k)'
      BY <1>5, <1>6, <2>3
    <3> QED BY <1>2, <1>3, <1>7, <2>1, <2>3, <3>1
  <2> QED BY <2>2, <2>3
<1> QED BY <1>8, <1>9 DEF BooksInv, BooksBalance, BookerInv, Taken

LEMMA BooksStep == TypeInv /\ BooksInv /\ [Next]_vars => BooksInv'
<1> SUFFICES ASSUME TypeInv, BooksInv, [Next]_vars PROVE BooksInv'
  OBVIOUS
\* The workers have the payments they had, and none is taken back.
<1>0. ASSUME UNCHANGED <<invoices, charged, raced, unbooked>>,
             \A s \in Subs : web[s] = "approved" => web'[s] = "approved",
             \A v \in Workers : Behind(v)
      PROVE  BooksInv'
  <2>1. \A v \in Workers : \A s \in Subs : \A k \in Keys :
          Booking(v, s, k)' = Booking(v, s, k) /\ AtBook(v, s, k)' = AtBook(v, s, k)
    BY <1>0, BookingKept
  <2>2. \A s \in Subs : \A k \in Keys : Taken(s, k) => Taken(s, k)'
    BY <1>0 DEF Taken
  <2>3. \A s \in Subs : \A k \in Keys : Once(s, k) => Once(s, k)'
    BY <1>0, <2>1 DEF Once
  <2>4. BookerInv'
    BY <1>0, <2>1, <2>2, <2>3 DEF BooksInv, BookerInv
  <2>5. BooksBalance'
    BY <1>0, <2>1, <2>2 DEF BooksInv, BooksBalance, Taken
  <2> QED BY <2>4, <2>5 DEF BooksInv
<1>1. ASSUME NEW t \in Subs, Pays(t) PROVE BooksInv'
  <2>1. UNCHANGED <<invoices, charged, raced, unbooked, sub, worker>>
    BY <1>1 DEF Pays, Pay, Approve, PayRejected, books
  <2>2. \A s \in Subs : web[s] = "approved" => web'[s] = "approved"
    BY <1>1 DEF Pays, Pay, Approve, PayRejected, TypeInv, Types
  <2> QED BY <1>0, <2>1, <2>2 DEF Behind
<1>2. ASSUME NEW t \in Subs, Changes(t) PROVE BooksInv'
  <2>1. UNCHANGED <<invoices, charged, raced, unbooked, web>>
    BY <1>2 DEF Changes, RejectedNotice, CancelSubscription, UpgradePlan,
       AddPaymentMethod, RemovePaymentMethod, Change, books
  <2> QED BY <1>0, <1>2, <2>1, ChangeWorkers
<1>3. CASE NewDay
  <2>1. /\ \A w \in Workers : worker[w].at = "idle"
        /\ UNCHANGED <<worker, web>>
        /\ \A s \in Subs : charged'[s] = {}
        /\ \A s \in Subs : \A k \in Keys :
             invoices'[s][k] = IF k \in CardKeys THEN 0 ELSE invoices[s][k]
        /\ raced' = {p \in raced : p[2] \notin CardKeys}
    BY <1>3 DEF NewDay, At
  <2>2. \A w \in Workers : \A s \in Subs : \A k \in Keys :
          ~Booking(w, s, k)' /\ ~AtBook(w, s, k)'
    BY <2>1 DEF Booking, AtBook
  <2>3. BookerInv'
    BY <2>2 DEF BookerInv, Once
  <2>4. ASSUME NEW s \in Subs, NEW k \in Keys
        PROVE  /\ invoices'[s][k] > 1 => <<s, k>> \in raced'
               /\ invoices'[s][k] > 0 /\ k \notin FreeKeys => k = WebKey /\ web'[s] = "approved"
    <3>1. CASE k \in CardKeys
      BY <2>1, <3>1
    <3>2. CASE k \notin CardKeys
      <4>1. charged[s] \subseteq CardKeys
        BY DEF TypeInv, Types
      <4>2. /\ invoices[s][k] > 1 => <<s, k>> \in raced
            /\ invoices[s][k] > 0 /\ k \notin FreeKeys => k = WebKey /\ web[s] = "approved"
        BY <3>2, <4>1 DEF BooksInv, BooksBalance
      <4>3. invoices'[s][k] = invoices[s][k] /\ (<<s, k>> \in raced => <<s, k>> \in raced')
        BY <2>1, <3>2
      <4> QED BY <2>1, <4>2, <4>3
    <3> QED BY <3>1, <3>2
  <2>5. BooksBalance'
    BY <2>1, <2>4 DEF BooksBalance
  <2> QED BY <2>3, <2>5 DEF BooksInv
<1>4. CASE UNCHANGED vars
  <2>1. UNCHANGED <<invoices, charged, raced, unbooked, web, worker, sub>>
    BY <1>4 DEF vars, books
  <2> QED BY <1>0, <2>1 DEF Behind
<1> QED BY <1>1, <1>2, <1>3, <1>4, BooksElsewhere, BooksCharge, BooksCheck, BooksBook, NextCases
        DEF Elsewhere

\* However many retries, notices and instances bring a payment, it is booked twice only if
\* two had it and looked it up before either booked it.  A payment that was taken has its
\* invoice or is about to, unless a failure or a SUPER_ADMIN came in between; and an
\* invoice that is not of a free plan stands for a payment the provider took.
THEOREM BooksAlwaysBalance == Spec => []BooksBalance
<1>1. Init => BooksInv
  BY DEF Init, BooksInv, BooksBalance, BookerInv, Once, AtBook, Booking, Idle
<1>2. BooksInv => BooksBalance
  BY DEF BooksInv
<1> QED BY <1>1, <1>2, TypeInit, TypeStep, BooksStep, PTL DEF Spec

-----------------------------------------------------------------------------
(* What a worker read.  While no one else changed the row, a job about to    *)
(* charge, end or expire a subscription finds it as it was selected.         *)

Fresh(w, s) == worker[w].sub = s /\ s \in Sound /\ worker[w].fresh

Truthful(q, r) ==
  /\ q.at \in {"charge", "expire", "grace"} => r.status = "PAST_DUE"
  /\ q.at = "end" => r.left <= 0
  /\ q.at = "apply" /\ q.job = "reactivate" => q.read.status = r.status /\ r.left > 0
  /\ q.at = "apply" /\ q.job = "create" => r.status \in {"EXPIRED", "CANCELED"}
ReadingInv == \A w \in Workers : \A s \in Subs : Fresh(w, s) => Truthful(worker[w], sub[s])

LEMMA ReadingKept ==
  ASSUME TypeInv, ReadingInv, NEW v \in Workers, Behind(v), disturbed \subseteq disturbed',
         NEW s \in Subs, Fresh(v, s)'
  PROVE  Fresh(v, s) /\ sub'[s] = sub[s] /\ Truthful(worker'[v], sub'[s])
<1>1. worker[v] \in Worker
  BY DEF TypeInv, Types
<1>2. Fresh(v, s) /\ sub'[s] = sub[s]
  BY <1>1, BehindFields DEF Fresh, Sound
<1>3. Truthful(worker[v], sub[s])
  BY <1>2 DEF ReadingInv
<1> QED BY <1>1, <1>2, <1>3, BehindFields DEF Truthful

\* It is enough to look at the worker that goes on.
LEMMA ReadingOfOne ==
  ASSUME TypeInv, ReadingInv, NEW w \in Workers, OthersBehind(w),
         disturbed \subseteq disturbed',
         \A s \in Subs : Fresh(w, s)' => Truthful(worker'[w], sub'[s])
  PROVE  ReadingInv'
<1> SUFFICES ASSUME NEW v \in Workers, NEW s \in Subs, Fresh(v, s)'
             PROVE  Truthful(worker'[v], sub'[s])
  BY DEF ReadingInv, Truthful
<1> QED BY ReadingKept DEF OthersBehind

LEMMA ReadingStep == TypeInv /\ ReadingInv /\ [Next]_vars => ReadingInv'
<1> SUFFICES ASSUME TypeInv, ReadingInv, [Next]_vars PROVE ReadingInv'
  OBVIOUS
<1>0. \A r : Truthful(Idle, r)
  BY DEF Truthful, Idle
<1>1. ASSUME NEW w \in Workers, Starts(w) PROVE ReadingInv'
  <2>1. PICK s \in Subs, job \in Jobs,
          step \in {"lock", "charge", "extend", "expire", "end", "record", "apply"} :
            Start(w, s, job, step) /\ Found(s, job, step)
    BY <1>1, StartFinds
  <2>2. /\ step = "lock" => job \in {"trial", "renewal"}
        /\ step = "charge" => job = "dunning"
    BY <2>1 DEF Found
  <2>3. PICK q \in Worker :
          /\ Resumes(w, q) /\ q.job = job /\ q.at = step /\ q.sub = s
          /\ q.read.status = sub[s].status
    BY <2>1, <2>2, StartWorker
  <2>4. UNCHANGED <<sub, disturbed>>
    BY <2>1 DEF Start
  <2>5. Truthful(q, sub[s])
    BY <2>1, <2>3 DEF Found, Truthful
  <2> QED BY <2>3, <2>4, <2>5, ReadingOfOne DEF Resumes, Fresh
<1>2. ASSUME NEW w \in Workers, Lock(w) PROVE ReadingInv'
  <2> DEFINE s == worker[w].sub
  <2>1. disturbed \subseteq disturbed' /\ s \in Subs /\ worker[w].at = "lock"
    BY <1>2, LockWorker
  <2>2. CASE Resumes(w, Idle)
    BY <1>0, <2>1, <2>2, ReadingOfOne DEF Resumes
  <2>3. CASE /\ Resumes(w, AfterLock(w))
             /\ sub' = [sub EXCEPT ![s].status = "PAST_DUE"]
    <3>1. sub'[s].status = "PAST_DUE"
      BY <2>1, <2>3 DEF TypeInv, Types, Row
    <3>2. /\ AfterLock(w).at \in {"idle", "grace", "check", "charge"}
          /\ AfterLock(w) # Idle => AfterLock(w).sub = s
      BY <2>1, AfterLockShape
    <3>3. Fresh(w, s)' => Truthful(AfterLock(w), sub'[s])
      BY <3>1, <3>2 DEF Truthful
    <3>4. worker'[w] = AfterLock(w)
      BY <2>3 DEF Resumes
    <3>5. ASSUME NEW t \in Subs, Fresh(w, t)' PROVE Truthful(worker'[w], sub'[t])
      BY <1>0, <3>2, <3>3, <3>4, <3>5 DEF Fresh
    <3> QED BY <2>1, <2>3, <3>5, ReadingOfOne DEF Resumes
  <2> QED BY <1>2, <2>2, <2>3, LockWorker
<1>3. ASSUME NEW w \in Workers, ChargeApproved(w) PROVE ReadingInv'
  <2> DEFINE q == [worker[w] EXCEPT !.at = "check", !.key = Key(w)]
  <2>1. Resumes(w, q) /\ disturbed \subseteq disturbed'
    BY <1>3, ChargeWorker DEF ChargeApproved, OnTime
  <2>2. q.at = "check"
    BY DEF TypeInv, Types, Worker
  <2> HIDE DEF q
  <2>3. \A r : Truthful(q, r)
    BY <2>2 DEF Truthful
  <2> QED BY <2>1, <2>3, ReadingOfOne DEF Resumes
<1>4. ASSUME NEW w \in Workers, ChargeRejected(w) \/ ChargeLost(w) PROVE ReadingInv'
  <2>1. /\ worker[w].at = "charge" /\ worker[w].sub \in Subs
        /\ UNCHANGED sub /\ Resumes(w, Failed(w)) /\ disturbed \subseteq disturbed'
    <3>1. Goes1(w, Failed(w)) /\ UNCHANGED sub /\ worker[w].at = "charge"
          /\ disturbed \subseteq disturbed'
      BY <1>4 DEF ChargeRejected, ChargeLost, At, others
    <3>2. /\ Failed(w) \in Worker /\ Wired(Failed(w))
      BY <3>1, FailedShape
    <3>3. Resumes(w, Failed(w))
      BY <3>1, <3>2, GoesAlone DEF Resumes
    <3> QED BY <1>4, <3>1, <3>3, ChargeWorker
  <2>2. \/ Failed(w) = Idle
        \/ /\ Failed(w).at \in {"charge", "expire"} /\ Failed(w).sub = worker[w].sub
           /\ Failed(w).fresh = worker[w].fresh
    BY <2>1, FailedShape
  <2>3. ASSUME NEW t \in Subs, Fresh(w, t)' PROVE Truthful(worker'[w], sub'[t])
    <3>1. CASE Failed(w) = Idle
      BY <1>0, <2>1, <3>1 DEF Resumes
    <3>2. CASE Failed(w) # Idle
      <4>1. Fresh(w, t)
        BY <2>1, <2>2, <2>3, <3>2 DEF Fresh, Sound, Resumes
      <4>2. sub[t].status = "PAST_DUE"
        BY <2>1, <4>1 DEF ReadingInv, Truthful
      <4> QED BY <2>1, <2>2, <3>2, <4>2 DEF Truthful, Resumes
    <3> QED BY <3>1, <3>2
  <2> QED BY <2>1, <2>3, ReadingOfOne DEF Resumes
<1>5. ASSUME NEW w \in Workers, CheckInvoice(w) PROVE ReadingInv'
  <2> DEFINE q == [worker[w] EXCEPT !.at = "book", !.fresh = TRUE]
  <2>1. (Resumes(w, Idle) \/ Resumes(w, q)) /\ disturbed \subseteq disturbed'
    BY <1>5, CheckWorker DEF CheckInvoice
  <2>2. q.at = "book"
    BY DEF TypeInv, Types, Worker
  <2> HIDE DEF q
  <2>3. \A r : Truthful(q, r)
    BY <2>2 DEF Truthful
  <2> QED BY <1>0, <2>1, <2>3, ReadingOfOne DEF Resumes
<1>6. ASSUME NEW w \in Workers, BookPayment(w) PROVE ReadingInv'
  <2>1. Resumes(w, Idle) /\ disturbed \subseteq disturbed'
    BY <1>6, BookWorker DEF BookPayment, Book, OnTime
  <2> QED BY <1>0, <2>1, ReadingOfOne DEF Resumes
<1>7. ASSUME NEW w \in Workers, Ends(w) PROVE ReadingInv'
  <2>1. PICK row \in Row : Update(w, row) /\ Written(worker[w], sub[worker[w].sub], row)
    BY <1>7, EndWrites
  <2>2. Resumes(w, Idle) /\ disturbed \subseteq disturbed'
    BY <2>1, UpdateWorker DEF Written, Update, OnTime
  <2> QED BY <1>0, <2>2, ReadingOfOne DEF Resumes
<1>8. ASSUME NEW w \in Workers, RecordNotice(w) PROVE ReadingInv'
  <2> DEFINE q == [worker[w] EXCEPT !.at = "check", !.key = WebKey]
  <2>1. (Resumes(w, Idle) \/ Resumes(w, q)) /\ disturbed \subseteq disturbed'
    BY <1>8, RecordWorker DEF RecordNotice
  <2>2. q.at = "check"
    BY DEF TypeInv, Types, Worker
  <2> HIDE DEF q
  <2>3. \A r : Truthful(q, r)
    BY <2>2 DEF Truthful
  <2> QED BY <1>0, <2>1, <2>3, ReadingOfOne DEF Resumes
<1>9. ASSUME NEW w \in Workers, Fail(w) \/ Crash(w) PROVE ReadingInv'
  <2>1. /\ disturbed' = disturbed \cup {worker[w].sub}
        /\ Resumes(w, Idle) \/ (Resumes(w, Failed(w)) /\ worker[w].at # "idle")
    BY <1>9, FailWorker, CrashWorker
  <2>2. CASE Resumes(w, Idle)
    BY <1>0, <2>1, <2>2, ReadingOfOne DEF Resumes
  <2>3. CASE Resumes(w, Failed(w)) /\ worker[w].at # "idle"
    <3>1. Failed(w) = Idle \/ Failed(w).sub = worker[w].sub
      BY <2>3, FailedShape
    <3> QED BY <1>0, <2>1, <2>3, <3>1, ReadingOfOne DEF Resumes, Fresh, Sound
  <2> QED BY <2>1, <2>2, <2>3
<1>10. ASSUME NEW t \in Subs, Pays(t) \/ Changes(t) PROVE ReadingInv'
  <2>1. disturbed \subseteq disturbed'
    BY <1>10 DEF Pays, Pay, Approve, PayRejected, Changes, RejectedNotice,
       CancelSubscription, UpgradePlan, AddPaymentMethod, RemovePaymentMethod, Change
  <2>2. \A v \in Workers : Behind(v)
    BY <1>10, ChangeWorkers DEF Pays, Pay, Approve, PayRejected, Behind
  <2> QED BY <2>1, <2>2, ReadingKept DEF ReadingInv
<1>11. CASE NewDay
  <2>1. UNCHANGED worker /\ \A w \in Workers : worker[w] = Idle
    BY <1>11 DEF NewDay, At, TypeInv, Wired
  <2> QED BY <1>0, <2>1 DEF ReadingInv
<1>12. ASSUME NEW w \in Workers, SkipForAdmin(w) PROVE ReadingInv'
  <2>1. Resumes(w, Idle) /\ disturbed \subseteq disturbed'
    BY <1>12, SkipWorker DEF SkipForAdmin
  <2> QED BY <1>0, <2>1, ReadingOfOne DEF Resumes
<1>13. CASE UNCHANGED vars
  BY <1>13 DEF vars, ReadingInv, Fresh, Sound, Truthful
<1> QED BY <1>1, <1>2, <1>3, <1>4, <1>5, <1>6, <1>7, <1>8, <1>9, <1>10, <1>11, <1>12, <1>13,
           NextCases

-----------------------------------------------------------------------------
(* Who has paid is served. *)

PaidAt(s) == served[s] => sub[s].status = "ACTIVE" /\ sub[s].left > 0

\* Most steps change neither a row nor what was paid of it.
LEMMA RowFrame ==
  ASSUME TypeInv, [Next]_vars
  PROVE  /\ disturbed \subseteq disturbed'
         /\ \/ UNCHANGED <<sub, served>>
            \/ \E w \in Workers : Lock(w) \/ BookPayment(w) \/ Ends(w) \/ Fail(w)
            \/ \E s \in Subs : Changes(s)
            \/ NewDay
<1> DEFINE Same == UNCHANGED <<sub, served>> /\ disturbed \subseteq disturbed'
<1>1. ASSUME NEW w \in Workers,
             \/ Starts(w) \/ ChargeApproved(w) \/ ChargeRejected(w) \/ ChargeLost(w)
             \/ CheckInvoice(w) \/ SkipForAdmin(w) \/ RecordNotice(w) \/ Crash(w)
      PROVE  Same
  <2>1. CASE Starts(w)
    BY <2>1, StartFinds DEF Start
  <2>2. CASE ~Starts(w)
    BY <1>1, <2>2 DEF ChargeApproved, ChargeRejected, ChargeLost, CheckInvoice,
       SkipForAdmin, RecordNotice, Crash, OnTime
  <2> QED BY <2>1, <2>2
<1>2. ASSUME NEW w \in Workers, Lock(w) \/ BookPayment(w) \/ Ends(w) \/ Fail(w)
      PROVE  disturbed \subseteq disturbed'
  <2>1. CASE Ends(w)
    BY <2>1, EndWrites DEF Update, OnTime
  <2>2. CASE Lock(w)
    BY <2>2, LockWorker
  <2>3. CASE BookPayment(w) \/ Fail(w)
    BY <2>3 DEF BookPayment, Book, Fail, OnTime
  <2> QED BY <1>2, <2>1, <2>2, <2>3
<1>3. ASSUME NEW s \in Subs, Pays(s) PROVE Same
  BY <1>3 DEF Pays, Pay, Approve, PayRejected
<1>4. ASSUME NEW s \in Subs, Changes(s) PROVE disturbed \subseteq disturbed'
  BY <1>4 DEF Changes, RejectedNotice, CancelSubscription, UpgradePlan,
     AddPaymentMethod, RemovePaymentMethod, Change
<1>5. CASE NewDay
  BY <1>5 DEF NewDay
<1>6. CASE UNCHANGED vars
  BY <1>6 DEF vars
<1> QED BY <1>1, <1>2, <1>3, <1>4, <1>5, <1>6, NextCases

LEMMA PaidStep == TypeInv /\ ReadingInv /\ PaidIsServed /\ [Next]_vars => PaidIsServed'
<1> SUFFICES ASSUME TypeInv, ReadingInv, PaidIsServed, [Next]_vars,
                    NEW s \in Subs, s \notin disturbed'
             PROVE  PaidAt(s)'
  BY DEF PaidIsServed, PaidAt, Sound
<1>0. /\ disturbed \subseteq disturbed' /\ s \in Sound /\ PaidAt(s)
      /\ sub \in [Subs -> Row] /\ sub[s] \in Row /\ served \in [Subs -> BOOLEAN]
      /\ Period \in Nat \ {0}
  BY RowFrame, SubscriptionAssumption
     DEF Sound, PaidIsServed, PaidAt, TypeInv, Types, SubscriptionAssumption
<1>1. CASE UNCHANGED <<sub, served>>
  BY <1>0, <1>1 DEF PaidAt
<1>2. ASSUME NEW w \in Workers, Lock(w) PROVE PaidAt(s)'
  <2>1. UNCHANGED served
    BY <1>2 DEF Lock
  <2>2. CASE UNCHANGED sub
    BY <1>0, <2>1, <2>2 DEF PaidAt
  <2>3. CASE /\ StillDue(w) /\ worker[w].sub \in Subs
             /\ sub' = [sub EXCEPT ![worker[w].sub].status = "PAST_DUE"]
    <3>1. worker[w].sub = s => ~(sub[s].status = "ACTIVE" /\ sub[s].left > 0)
      BY <1>0, <2>3 DEF StillDue, Row
    <3>2. worker[w].sub # s => sub'[s] = sub[s]
      BY <1>0, <2>3
    <3> QED BY <1>0, <2>1, <3>1, <3>2 DEF PaidAt
  <2> QED BY <1>2, <2>2, <2>3, LockWorker
<1>3. ASSUME NEW w \in Workers, BookPayment(w) PROVE PaidAt(s)'
  <2>1. PICK row \in Row :
          /\ sub' = [sub EXCEPT ![Anchor[worker[w].sub]] = row]
          /\ row.status = "ACTIVE" /\ row.left = Period
    BY <1>3, BookWorker
  <2>2. served' = [served EXCEPT ![Anchor[worker[w].sub]] = TRUE]
    BY <1>3 DEF BookPayment, Book
  <2>3. CASE Anchor[worker[w].sub] = s
    BY <1>0, <2>1, <2>3 DEF PaidAt
  <2>4. CASE Anchor[worker[w].sub] # s
    BY <1>0, <2>1, <2>2, <2>4 DEF PaidAt
  <2> QED BY <2>3, <2>4
<1>4. ASSUME NEW w \in Workers, Ends(w) PROVE PaidAt(s)'
  <2> DEFINE q == worker[w]
  <2>1. PICK row \in Row : Update(w, row) /\ Written(q, sub[q.sub], row)
    BY <1>4, EndWrites
  <2>2. /\ sub' = [sub EXCEPT ![q.sub] = row]
        /\ served' = [served EXCEPT ![q.sub] = @ /\ row.left > 0]
        /\ disturbed' = IF q.fresh THEN disturbed ELSE disturbed \cup {q.sub}
    BY <2>1 DEF Update, OnTime
  <2>3. CASE q.sub # s
    BY <1>0, <2>2, <2>3 DEF PaidAt
  <2>4. CASE q.sub = s
    <3>1. Truthful(q, sub[s]) /\ Written(q, sub[s], row)
      BY <1>0, <2>1, <2>2, <2>4 DEF ReadingInv, Fresh
    <3>2. /\ sub'[s] = row /\ (served'[s] => served[s] /\ row.left > 0)
      BY <1>0, <2>2, <2>4
    <3>3. served[s] => sub[s].status = "ACTIVE" /\ sub[s].left > 0
      BY <1>0 DEF PaidAt
    <3>4. row.left \in Int /\ sub[s].left \in Int
      BY <1>0 DEF Row
    <3>5. served[s] => row.status = "ACTIVE"
      <4> HIDE DEF q
      <4> QED BY <3>1, <3>3, <3>4 DEF Truthful, Written
    <3> QED BY <3>2, <3>5 DEF PaidAt
  <2> QED BY <2>3, <2>4
<1>5. ASSUME NEW w \in Workers, Fail(w) PROVE PaidAt(s)'
  <2>1. /\ disturbed' = disturbed \cup {worker[w].sub} /\ UNCHANGED served
        /\ \/ UNCHANGED sub
           \/ sub' = [sub EXCEPT ![worker[w].sub].status = "TRIALING"]
    BY <1>5, FailWorker DEF Fail
  <2>2. sub'[s] = sub[s]
    BY <1>0, <2>1
  <2> QED BY <1>0, <2>1, <2>2 DEF PaidAt
<1>6. ASSUME NEW t \in Subs, Changes(t) PROVE PaidAt(s)'
  <2>1. PICK row \in Row :
          /\ sub' = [sub EXCEPT ![t] = row] /\ row.left = sub[t].left
          /\ row.status = sub[t].status \/ t \in disturbed'
    BY <1>6, ChangeWorkers
  <2>2. UNCHANGED served
    BY <1>6 DEF Changes, RejectedNotice, CancelSubscription, UpgradePlan,
       AddPaymentMethod, RemovePaymentMethod, Change
  <2>3. sub'[s].status = sub[s].status /\ sub'[s].left = sub[s].left
    BY <1>0, <2>1
  <2> QED BY <1>0, <2>2, <2>3 DEF PaidAt
<1>7. CASE NewDay
  <2>1. served'[s] => served[s] /\ sub[s].left > 1
    BY <1>7 DEF NewDay
  <2>2. sub[s].left > 1 => sub'[s].left = sub[s].left - 1 /\ sub'[s].status = sub[s].status
    <3>1. Downgrade \in Nat /\ sub[s].left \in Int
      BY <1>0, SubscriptionAssumption DEF SubscriptionAssumption, Row
    <3>2. \E left, trial :
            /\ sub'[s] = [sub[s] EXCEPT !.left = left, !.trial = trial]
            /\ left = IF sub[s].left = -Downgrade THEN sub[s].left ELSE sub[s].left - 1
      BY <1>7 DEF NewDay
    <3> QED BY <1>0, <3>1, <3>2 DEF Row
  <2> QED BY <1>0, <2>1, <2>2 DEF PaidAt, Row
<1> QED BY <1>1, <1>2, <1>3, <1>4, <1>5, <1>6, <1>7, RowFrame

\* Who has paid for the running period is served until it ends: no job, retry, notice or
\* late write of another takes the service away, when it found the row as it read it.
THEOREM PaidIsAlwaysServed == Spec => []PaidIsServed
<1>1. Init => ReadingInv /\ PaidIsServed
  BY DEF Init, ReadingInv, Truthful, Idle, PaidIsServed, Sound
<1> QED BY <1>1, TypeInit, TypeStep, ReadingStep, PaidStep, PTL DEF Spec

-----------------------------------------------------------------------------
(* One charge a day.  The row says which job may charge: a trial or a        *)
(* renewal on its last day, the retries after it.                            *)

AheadAt(s) == sub[s].trial = "ahead" => sub[s].left > 0
DueAt(s) ==
  /\ sub[s].status = "TRIALING" =>
       sub[s].trial = "ahead" \/ (sub[s].trial = "past" /\ sub[s].left = 0)
  /\ sub[s].status = "ACTIVE" => sub[s].left >= 0
RowInv == (\A s \in Subs : AheadAt(s)) /\ \A s \in Sound : DueAt(s)

LEMMA NewDayRow ==
  ASSUME TypeInv, NewDay, NEW s \in Subs
  PROVE  /\ sub'[s].status = sub[s].status
         /\ sub'[s].left = IF sub[s].left = -Downgrade THEN sub[s].left ELSE sub[s].left - 1
         /\ sub'[s].trial = IF sub[s].trial = "ahead" /\ sub'[s].left <= 0
                            THEN "past" ELSE sub[s].trial
<1>1. sub[s] \in Row
  BY DEF TypeInv, Types
<1> DEFINE left == IF sub[s].left = -Downgrade THEN sub[s].left ELSE sub[s].left - 1
           trial == IF sub[s].trial = "ahead" /\ left <= 0 THEN "past" ELSE sub[s].trial
<1>2. sub'[s] = [sub[s] EXCEPT !.left = left, !.trial = trial]
  BY DEF NewDay
<1> HIDE DEF left, trial
<1>3. sub'[s].status = sub[s].status /\ sub'[s].left = left /\ sub'[s].trial = trial
  BY <1>1, <1>2 DEF Row
<1> QED BY <1>3 DEF left, trial

LEMMA RowStep == TypeInv /\ ReadingInv /\ RowInv /\ [Next]_vars => RowInv'
<1> SUFFICES ASSUME TypeInv, ReadingInv, RowInv, [Next]_vars, NEW s \in Subs
             PROVE  AheadAt(s)' /\ (s \notin disturbed' => DueAt(s)')
  BY DEF RowInv, Sound
<1> DEFINE Goal == AheadAt(s)' /\ (s \notin disturbed' => DueAt(s)')
<1>0. /\ disturbed \subseteq disturbed' /\ AheadAt(s) /\ (s \notin disturbed' => DueAt(s))
      /\ sub \in [Subs -> Row] /\ sub[s] \in Row /\ sub[s].left \in Int
      /\ Period \in Nat \ {0} /\ GraceDays \in Nat \ {0} /\ Downgrade \in Nat \ {0}
  BY RowFrame, SubscriptionAssumption
     DEF Sound, RowInv, TypeInv, Types, Row, SubscriptionAssumption
<1>1. ASSUME sub'[s] = sub[s] PROVE Goal
  BY <1>0, <1>1 DEF AheadAt, DueAt
<1>2. ASSUME NEW w \in Workers, Lock(w) PROVE Goal
  <2>1. CASE sub'[s] = sub[s]
    BY <1>1, <2>1
  <2>2. CASE sub'[s] # sub[s]
    <3>1. sub' = [sub EXCEPT ![s].status = "PAST_DUE"]
      BY <1>0, <1>2, <2>2, LockWorker
    <3>2. /\ sub'[s].status = "PAST_DUE" /\ sub'[s].left = sub[s].left
          /\ sub'[s].trial = sub[s].trial
      BY <1>0, <3>1 DEF Row
    <3> QED BY <1>0, <3>2 DEF AheadAt, DueAt
  <2> QED BY <2>1, <2>2
<1>3. ASSUME NEW w \in Workers, BookPayment(w) PROVE Goal
  <2>1. PICK row \in Row :
          /\ sub' = [sub EXCEPT ![Anchor[worker[w].sub]] = row]
          /\ row.status = "ACTIVE" /\ row.left = Period /\ row.trial = "none"
    BY <1>3, BookWorker
  <2>2. CASE Anchor[worker[w].sub] = s
    BY <1>0, <2>1, <2>2 DEF AheadAt, DueAt
  <2>3. CASE Anchor[worker[w].sub] # s
    BY <1>0, <1>1, <2>1, <2>3
  <2> QED BY <2>2, <2>3
<1>4. ASSUME NEW w \in Workers, Ends(w) PROVE Goal
  <2> DEFINE q == worker[w]
  <2>1. PICK row \in Row : Update(w, row) /\ Written(q, sub[q.sub], row)
    BY <1>4, EndWrites
  <2>2. /\ sub' = [sub EXCEPT ![q.sub] = row]
        /\ disturbed' = IF q.fresh THEN disturbed ELSE disturbed \cup {q.sub}
    BY <2>1 DEF Update, OnTime
  <2>3. CASE q.sub # s
    BY <1>0, <1>1, <2>2, <2>3
  <2>4. CASE q.sub = s
    <3>1. Written(q, sub[s], row) /\ sub'[s] = row /\ row.left \in Int
      BY <1>0, <2>1, <2>2, <2>4 DEF Row
    <3>2. s \notin disturbed' => Truthful(q, sub[s])
      BY <1>0, <2>2, <2>4 DEF ReadingInv, Fresh, Sound
    <3> HIDE DEF q
    <3>3. AheadAt(s)'
      BY <1>0, <3>1 DEF AheadAt, Written
    <3>4. s \notin disturbed' => DueAt(s)'
      BY <1>0, <3>1, <3>2 DEF DueAt, Written, Truthful
    <3> QED BY <3>3, <3>4
  <2> QED BY <2>3, <2>4
<1>5. ASSUME NEW w \in Workers, Fail(w) PROVE Goal
  <2>1. /\ disturbed' = disturbed \cup {worker[w].sub} /\ worker[w].sub \in Subs
        /\ \/ UNCHANGED sub
           \/ sub' = [sub EXCEPT ![worker[w].sub].status = "TRIALING"]
    BY <1>5, FailWorker
  <2>2. CASE sub'[s] = sub[s]
    BY <1>1, <2>2
  <2>3. CASE sub'[s] # sub[s]
    <3>1. s \in disturbed' /\ sub' = [sub EXCEPT ![s].status = "TRIALING"]
      BY <1>0, <2>1, <2>3
    <3>2. sub'[s].left = sub[s].left /\ sub'[s].trial = sub[s].trial
      BY <1>0, <3>1 DEF Row
    <3> QED BY <1>0, <3>1, <3>2 DEF AheadAt
  <2> QED BY <2>2, <2>3
<1>6. ASSUME NEW t \in Subs, Changes(t) PROVE Goal
  <2>1. PICK row \in Row :
          /\ sub' = [sub EXCEPT ![t] = row] /\ row.left = sub[t].left
          /\ row.trial = sub[t].trial /\ (row.status = sub[t].status \/ t \in disturbed')
    BY <1>6, ChangeWorkers
  <2>2. /\ sub'[s].left = sub[s].left /\ sub'[s].trial = sub[s].trial
        /\ sub'[s].status = sub[s].status \/ s \in disturbed'
    BY <1>0, <2>1
  <2> QED BY <1>0, <2>2 DEF AheadAt, DueAt
<1>7. CASE NewDay
  <2>1. /\ sub'[s].status = sub[s].status
        /\ sub'[s].left = IF sub[s].left = -Downgrade THEN sub[s].left ELSE sub[s].left - 1
        /\ sub'[s].trial = IF sub[s].trial = "ahead" /\ sub'[s].left <= 0
                           THEN "past" ELSE sub[s].trial
    BY <1>7, NewDayRow
  <2>2. AheadAt(s)'
    BY <1>0, <2>1 DEF AheadAt
  <2>3. ASSUME s \notin disturbed' PROVE DueAt(s)'
    <3>1. ~Missed(s)
      BY <1>7, <2>3 DEF NewDay
    <3>2. CASE sub[s].status = "TRIALING"
      <4>1. sub[s].trial = "ahead" /\ sub[s].left > 0
        BY <1>0, <2>3, <3>1, <3>2 DEF Missed, DueAt, AheadAt
      <4> QED BY <1>0, <2>1, <3>2, <4>1 DEF DueAt
    <3>3. CASE sub[s].status = "ACTIVE"
      <4>1. sub[s].left > 0
        BY <1>0, <3>1, <3>3 DEF Missed, RenewalDue, FinalDue
      <4> QED BY <1>0, <2>1, <3>3, <4>1 DEF DueAt
    <3>4. CASE sub[s].status \notin {"TRIALING", "ACTIVE"}
      BY <2>1, <3>4 DEF DueAt
    <3> QED BY <3>2, <3>3, <3>4
  <2> QED BY <2>2, <2>3
<1> QED BY <1>1, <1>2, <1>3, <1>4, <1>5, <1>6, <1>7, RowFrame

Dunning == <<"dunning", 1>>
Charger(w, s) == Fresh(w, s) /\ worker[w].at = "charge"
Locked(w, s) == Charger(w, s) /\ worker[w].job # "dunning"

\* Who holds the lock may charge on the last day, when nothing was charged; a retry
\* charges after it, under the key that every instance retries with.
ChargerAt(w, s) ==
  /\ Locked(w, s) => sub[s].left = 0 /\ charged[s] = {}
  /\ Charger(w, s) /\ worker[w].job = "dunning" =>
       sub[s].left < 0 /\ charged[s] \subseteq {Dunning}
LockAt(s) ==
  /\ \A w \in Workers : ChargerAt(w, s)
  /\ \A u, w \in Workers : Locked(u, s) /\ Locked(w, s) => u = w

\* What was charged is due no more.
ChargedAt(s) == charged[s] # {} =>
  /\ sub[s].status = "ACTIVE" => sub[s].left > 0
  /\ sub[s].status = "TRIALING" => sub[s].trial = "ahead"
  /\ charged[s] \subseteq {Dunning} \/ sub[s].left >= 0
OneKey(s) == \A j, k \in charged[s] : j = k
ChargeInv == \A s \in Sound : LockAt(s) /\ ChargedAt(s) /\ OneKey(s)

LEMMA OneKeyIsOneCharge == ChargeInv => ChargedOnce
<1> SUFFICES ASSUME NEW s \in Sound, OneKey(s) PROVE Cardinality(charged[s]) <= 1
  BY DEF ChargeInv, ChargedOnce
<1>1. CASE charged[s] = {}
  BY <1>1, FS_EmptySet
<1>2. CASE charged[s] # {}
  <2>1. PICK k \in charged[s] : TRUE
    BY <1>2
  <2>2. charged[s] = {k}
    BY <2>1 DEF OneKey
  <2>3. Cardinality({k}) = 1
    BY FS_Singleton
  <2> QED BY <2>2, <2>3
<1> QED BY <1>1, <1>2

LEMMA ChargerKept ==
  ASSUME TypeInv, NEW v \in Workers, Behind(v), disturbed \subseteq disturbed',
         NEW s \in Subs, ChargerAt(v, s), charged'[s] = charged[s]
  PROVE  ChargerAt(v, s)' /\ (Locked(v, s)' => Locked(v, s))
<1>1. worker[v] \in Worker
  BY DEF TypeInv, Types
<1>2. /\ worker'[v].at = worker[v].at /\ worker'[v].job = worker[v].job
      /\ worker'[v].sub = worker[v].sub
      /\ worker'[v].fresh =>
           worker[v].fresh /\ (worker[v].sub \in Subs => sub'[worker[v].sub] = sub[worker[v].sub])
  BY <1>1, BehindFields
<1>3. Fresh(v, s)' => Fresh(v, s) /\ sub'[s] = sub[s]
  BY <1>2 DEF Fresh, Sound
<1> QED BY <1>2, <1>3 DEF ChargerAt, Charger, Locked

\* A step of a worker that is not about to charge then
LEMMA LockKept ==
  ASSUME TypeInv, NEW w \in Workers, OthersBehind(w), disturbed \subseteq disturbed',
         NEW s \in Subs, LockAt(s), charged'[s] = charged[s],
         ChargerAt(w, s)', Locked(w, s)' => Locked(w, s)
  PROVE  LockAt(s)'
<1>1. \A v \in Workers : ChargerAt(v, s)' /\ (Locked(v, s)' => Locked(v, s))
  BY ChargerKept DEF OthersBehind, LockAt
<1> QED BY <1>1 DEF LockAt

LEMMA ChargeApprovedOnce ==
  ASSUME TypeInv, ReadingInv, RowInv, ChargeInv, NEW w \in Workers, ChargeApproved(w),
         NEW s \in Subs, s \notin disturbed'
  PROVE  LockAt(s)' /\ ChargedAt(s)' /\ OneKey(s)'
<1> DEFINE t == worker[w].sub
           q == [worker[w] EXCEPT !.at = "check", !.key = Key(w)]
<1>1. Resumes(w, q) /\ worker[w].at = "charge" /\ t \in Subs
  BY ChargeWorker
<1>2. /\ UNCHANGED sub
      /\ charged' = [charged EXCEPT ![t] = @ \cup {Key(w)}]
      /\ disturbed' = IF worker[w].fresh THEN disturbed ELSE disturbed \cup {t}
  BY DEF ChargeApproved, OnTime
<1>3. q.at = "check"
  BY DEF TypeInv, Types, Worker
<1> HIDE DEF q
<1>4. worker'[w].at = "check" /\ OthersBehind(w)
  BY <1>1, <1>3 DEF Resumes
<1>5. /\ s \in Sound /\ disturbed \subseteq disturbed'
      /\ LockAt(s) /\ ChargedAt(s) /\ OneKey(s)
  BY <1>2 DEF Sound, ChargeInv
<1>6. CASE s # t
  <2>1. charged'[s] = charged[s]
    BY <1>2, <1>6 DEF TypeInv, Types
  <2>2. ChargerAt(w, s)' /\ ~Locked(w, s)'
    BY <1>4 DEF ChargerAt, Locked, Charger
  <2>3. LockAt(s)'
    BY <1>4, <1>5, <2>1, <2>2, LockKept
  <2> QED BY <1>2, <1>5, <2>1, <2>3 DEF ChargedAt, OneKey
<1>7. CASE s = t
  <2>1. /\ charged'[s] = charged[s] \cup {Key(w)} /\ Charger(w, s)
    BY <1>1, <1>2, <1>5, <1>7 DEF TypeInv, Types, Charger, Fresh
  <2>2. sub[s].status = "PAST_DUE"
    BY <2>1 DEF ReadingInv, Truthful, Charger
  <2>3. sub[s].left \in Int
    BY DEF TypeInv, Types, Row
  <2>4. ASSUME NEW v \in Workers, v # w, Charger(v, s)'
        PROVE  /\ Charger(v, s) /\ worker'[v].job = worker[v].job
               /\ (Locked(v, s)' => Locked(v, s))
    <3>1. worker[v] \in Worker /\ Behind(v)
      BY <1>4, <2>4 DEF OthersBehind, TypeInv, Types
    <3>2. /\ worker'[v].at = worker[v].at /\ worker'[v].job = worker[v].job
          /\ worker'[v].sub = worker[v].sub /\ (worker'[v].fresh => worker[v].fresh)
      BY <3>1, BehindFields
    <3> QED BY <1>5, <2>4, <3>2 DEF Charger, Locked, Fresh
  <2>5. ~Charger(w, s)'
    BY <1>4 DEF Charger
  <2>6. CASE worker[w].job # "dunning"
    <3>1. /\ sub[s].left = 0 /\ charged[s] = {}
          /\ \A v \in Workers : v # w => ~Locked(v, s)
      BY <1>5, <2>1, <2>6 DEF LockAt, ChargerAt, Locked
    <3>2. ASSUME NEW v \in Workers PROVE ~Charger(v, s)'
      <4> SUFFICES ASSUME v # w, Charger(v, s)' PROVE FALSE
        BY <2>5
      <4>1. Charger(v, s)
        BY <2>4
      <4> QED BY <1>5, <2>3, <3>1, <4>1 DEF LockAt, ChargerAt, Locked
    <3>3. LockAt(s)'
      BY <3>2 DEF LockAt, ChargerAt, Locked
    <3> QED BY <1>2, <2>1, <2>2, <3>1, <3>3 DEF ChargedAt, OneKey
  <2>7. CASE worker[w].job = "dunning"
    <3>1. Key(w) = Dunning
      BY <2>7 DEF TypeInv, Wired, Key, Dunning
    <3>2. sub[s].left < 0 /\ charged[s] \subseteq {Dunning}
      BY <1>5, <2>1, <2>7 DEF LockAt, ChargerAt
    <3>3. charged'[s] = {Dunning}
      BY <2>1, <3>1, <3>2
    <3>4. ASSUME NEW v \in Workers
          PROVE  ~Locked(v, s)' /\ ChargerAt(v, s)'
      <4>1. ~Locked(v, s)'
        <5> SUFFICES ASSUME Locked(v, s)' PROVE FALSE
          OBVIOUS
        <5>1. v # w /\ Charger(v, s)'
          BY <2>5 DEF Locked
        <5>2. Locked(v, s)
          BY <2>4, <5>1
        <5> QED BY <1>5, <2>3, <3>2, <5>2 DEF LockAt, ChargerAt
      <4> QED BY <1>2, <3>2, <3>3, <4>1 DEF ChargerAt
    <3>5. LockAt(s)'
      BY <3>4 DEF LockAt
    <3> QED BY <1>2, <2>2, <3>3, <3>5 DEF ChargedAt, OneKey
  <2> QED BY <2>6, <2>7
<1> QED BY <1>6, <1>7

LEMMA LockElects ==
  ASSUME TypeInv, RowInv, ChargeInv, NEW w \in Workers, Lock(w),
         NEW s \in Subs, s \notin disturbed'
  PROVE  LockAt(s)' /\ ChargedAt(s)' /\ OneKey(s)'
<1> DEFINE t == worker[w].sub
<1>1. /\ disturbed \subseteq disturbed' /\ t \in Subs /\ worker[w].at = "lock"
      /\ UNCHANGED charged
  BY LockWorker DEF Lock, others
<1>2. s \in Sound /\ LockAt(s) /\ ChargedAt(s) /\ OneKey(s) /\ DueAt(s)
  BY <1>1 DEF Sound, ChargeInv, RowInv
<1>3. CASE UNCHANGED sub /\ Resumes(w, Idle)
  <2>1. ChargerAt(w, s)' /\ ~Locked(w, s)'
    BY <1>3 DEF ChargerAt, Locked, Charger, Resumes, Idle
  <2>2. LockAt(s)'
    BY <1>1, <1>2, <1>3, <2>1, LockKept DEF Resumes
  <2> QED BY <1>1, <1>2, <1>3, <2>2 DEF ChargedAt, OneKey
<1>4. CASE /\ StillDue(w) /\ sub' = [sub EXCEPT ![t].status = "PAST_DUE"]
           /\ disturbed' = IF OtherTrial(w) THEN disturbed \cup {t} ELSE disturbed
           /\ Resumes(w, AfterLock(w)) /\ Goes(w, AfterLock(w), t, TRUE)
  <2>1. /\ worker'[w] = AfterLock(w) /\ OthersBehind(w)
        /\ AfterLock(w) # Idle => AfterLock(w).sub = t /\ AfterLock(w).job = worker[w].job
    BY <1>1, <1>4, AfterLockShape DEF Resumes
  <2>2. CASE s # t
    <3>1. sub'[s] = sub[s]
      BY <1>1, <1>4, <2>2 DEF TypeInv, Types
    <3>2. ~Charger(w, s)'
      BY <2>1, <2>2 DEF Charger, Fresh, Idle
    <3>3. LockAt(s)'
      BY <1>1, <1>2, <2>1, <3>2, LockKept DEF ChargerAt, Locked
    <3> QED BY <1>1, <1>2, <3>1, <3>3 DEF ChargedAt, OneKey
  <2>3. CASE s = t
    <3>1. /\ sub'[s].status = "PAST_DUE" /\ sub'[s].left = sub[s].left
          /\ sub[s].left \in Int
      BY <1>4, <2>3 DEF TypeInv, Types, Row
    <3>2. sub[s].left = 0 /\ charged[s] = {}
      <4>1. CASE worker[w].job = "trial"
        <5>1. sub[s].status = "TRIALING" /\ sub[s].trial = "past"
          BY <1>4, <2>3, <4>1 DEF StillDue, OtherTrial
        <5> QED BY <1>2, <5>1 DEF DueAt, ChargedAt
      <4>2. CASE worker[w].job # "trial"
        <5>1. sub[s].status = "ACTIVE" /\ sub[s].left <= 0
          BY <1>4, <2>3, <4>2 DEF StillDue
        <5> QED BY <1>2, <3>1, <5>1 DEF DueAt, ChargedAt
      <4> QED BY <4>1, <4>2
    <3>3. ASSUME NEW v \in Workers, v # w PROVE ~Charger(v, s)'
      <4>1. worker[v] \in Worker /\ Behind(v)
        BY <2>1, <3>3 DEF OthersBehind, TypeInv, Types
      <4>2. worker'[v].sub = worker[v].sub
        BY <4>1, BehindFields
      <4>3. worker[v].sub = t => worker'[v] = [worker[v] EXCEPT !.fresh = FALSE]
        BY <1>4, <3>3 DEF Goes
      <4>4. worker[v].sub = t => ~worker'[v].fresh
        BY <4>1, <4>3 DEF Worker
      <4> QED BY <2>3, <4>2, <4>4 DEF Charger, Fresh
    <3>4. Charger(w, s)' => worker'[w].job # "dunning"
      <4>1. worker[w].job \in {"trial", "renewal"}
        BY <1>1 DEF TypeInv, Wired
      <4> QED BY <2>1, <4>1 DEF Charger, Idle
    <3>5. LockAt(s)'
      BY <1>1, <3>1, <3>2, <3>3, <3>4 DEF LockAt, ChargerAt, Locked
    <3> QED BY <1>1, <3>2, <3>5 DEF ChargedAt, OneKey
  <2> QED BY <2>2, <2>3
<1> QED BY <1>3, <1>4, LockWorker

\* A step that charges nothing and leads to no charge, but may write the row
LEMMA ChargedRow ==
  ASSUME TypeInv, ReadingInv, NEW w \in Workers, BookPayment(w) \/ Ends(w) \/ Fail(w),
         NEW s \in Sound, s \notin disturbed', ChargedAt(s)
  PROVE  ChargedAt(s)'
<1>0. /\ UNCHANGED charged /\ Period \in Nat \ {0} /\ GraceDays \in Nat \ {0}
      /\ sub \in [Subs -> Row] /\ sub[s] \in Row /\ sub[s].left \in Int /\ s \in Subs
  <2>1. UNCHANGED charged
    <3>1. CASE Ends(w)
      BY <3>1, EndWrites DEF Update, others
    <3>2. CASE BookPayment(w) \/ Fail(w)
      BY <3>2 DEF BookPayment, Book, Fail
    <3> QED BY <3>1, <3>2
  <2> QED BY <2>1, SubscriptionAssumption
        DEF SubscriptionAssumption, TypeInv, Types, Row, Sound
<1>1. ASSUME sub'[s] = sub[s] PROVE ChargedAt(s)'
  BY <1>0, <1>1 DEF ChargedAt
<1>2. CASE BookPayment(w)
  <2>1. PICK row \in Row :
          /\ sub' = [sub EXCEPT ![Anchor[worker[w].sub]] = row]
          /\ row.status = "ACTIVE" /\ row.left = Period
    BY <1>2, BookWorker
  <2>2. CASE Anchor[worker[w].sub] = s
    BY <1>0, <2>1, <2>2 DEF ChargedAt
  <2>3. CASE Anchor[worker[w].sub] # s
    BY <1>0, <1>1, <2>1, <2>3
  <2> QED BY <2>2, <2>3
<1>3. CASE Ends(w)
  <2> DEFINE q == worker[w]
  <2>1. PICK row \in Row : Update(w, row) /\ Written(q, sub[q.sub], row)
    BY <1>3, EndWrites
  <2>2. /\ sub' = [sub EXCEPT ![q.sub] = row]
        /\ disturbed' = IF q.fresh THEN disturbed ELSE disturbed \cup {q.sub}
    BY <2>1 DEF Update, OnTime
  <2>3. CASE q.sub # s
    BY <1>0, <1>1, <2>2, <2>3
  <2>4. CASE q.sub = s
    <3>1. /\ Written(q, sub[s], row) /\ sub'[s] = row /\ row.left \in Int
          /\ Truthful(q, sub[s])
      BY <1>0, <2>1, <2>2, <2>4 DEF Row, ReadingInv, Fresh
    <3> HIDE DEF q
    <3> QED BY <1>0, <3>1 DEF ChargedAt, Written, Truthful
  <2> QED BY <2>3, <2>4
<1>4. CASE Fail(w)
  <2>1. /\ disturbed' = disturbed \cup {worker[w].sub}
        /\ \/ UNCHANGED sub
           \/ sub' = [sub EXCEPT ![worker[w].sub].status = "TRIALING"]
    BY <1>4, FailWorker
  <2> QED BY <1>0, <1>1, <2>1
<1> QED BY <1>2, <1>3, <1>4

\* The workers after a step that ends, looks up, books or fails: none is about to charge
\* that was not.
LEMMA QuietLock ==
  ASSUME TypeInv, NEW w \in Workers, OthersBehind(w), disturbed \subseteq disturbed',
         worker'[w].at # "charge" \/ worker'[w].sub \in disturbed',
         NEW s \in Subs, LockAt(s), charged'[s] = charged[s]
  PROVE  LockAt(s)'
<1>1. ~Charger(w, s)'
  BY DEF Charger, Fresh, Sound
<1> QED BY <1>1, LockKept DEF ChargerAt, Locked

LEMMA ChargeStep ==
  TypeInv /\ ReadingInv /\ RowInv /\ ChargeInv /\ [Next]_vars => ChargeInv'
<1> SUFFICES ASSUME TypeInv, ReadingInv, RowInv, ChargeInv, [Next]_vars,
                    NEW s \in Subs, s \notin disturbed'
             PROVE  LockAt(s)' /\ ChargedAt(s)' /\ OneKey(s)'
  BY DEF ChargeInv, Sound
<1> DEFINE Goal == LockAt(s)' /\ ChargedAt(s)' /\ OneKey(s)'
<1>0. /\ disturbed \subseteq disturbed' /\ s \in Sound
      /\ LockAt(s) /\ ChargedAt(s) /\ OneKey(s)
  BY RowFrame DEF Sound, ChargeInv
\* A step that writes neither the row nor the charges
<1>a. ASSUME UNCHANGED sub, charged'[s] = charged[s], LockAt(s)' PROVE Goal
  BY <1>0, <1>a DEF ChargedAt, OneKey
<1>1. ASSUME NEW w \in Workers, Starts(w) PROVE Goal
  <2>1. PICK t \in Subs, job \in Jobs,
          step \in {"lock", "charge", "extend", "expire", "end", "record", "apply"} :
            Start(w, t, job, step) /\ Found(t, job, step)
    BY <1>1, StartFinds
  <2>2. /\ step = "lock" => job \in {"trial", "renewal"}
        /\ step = "charge" => job = "dunning"
    BY <2>1 DEF Found
  <2>3. /\ \E q \in Worker : Resumes(w, q) /\ q.job = job /\ q.at = step /\ q.sub = t
        /\ UNCHANGED <<sub, disturbed>>
    BY <2>1, <2>2, StartWorker
  <2>4. OthersBehind(w) /\ worker'[w].job = job /\ worker'[w].at = step
        /\ worker'[w].sub = t
    BY <2>3 DEF Resumes
  <2>5. charged' = charged
    BY <1>1, StartFinds
  <2>6. ~Locked(w, s)'
    BY <2>2, <2>4 DEF Locked, Charger
  <2>7. ChargerAt(w, s)'
    <3> SUFFICES ASSUME Charger(w, s)' PROVE sub[s].left < 0 /\ charged[s] \subseteq {Dunning}
      BY <2>3, <2>5, <2>6 DEF ChargerAt
    <3>1. step = "charge" /\ t = s
      BY <2>4 DEF Charger, Fresh
    <3>2. sub[s].status = "PAST_DUE" /\ sub[s].left < 0 /\ sub[s].left \in Int
      BY <2>1, <3>1 DEF Found, TypeInv, Types, Row
    <3> QED BY <1>0, <3>2 DEF ChargedAt
  <2>8. LockAt(s)'
    BY <1>0, <2>4, <2>5, <2>6, <2>7, LockKept
  <2> QED BY <1>a, <2>3, <2>5, <2>8
<1>2. ASSUME NEW w \in Workers, ChargeRejected(w) \/ ChargeLost(w) PROVE Goal
  <2>1. /\ worker[w].at = "charge" /\ UNCHANGED sub /\ Goes1(w, Failed(w))
        /\ charged'[s] = charged[s] /\ (ChargeLost(w) => worker[w].sub # s)
    BY <1>2 DEF ChargeRejected, ChargeLost, At, others, TypeInv, Types
  <2>2. /\ Failed(w) \in Worker /\ Wired(Failed(w))
        /\ \/ Failed(w) = Idle
           \/ /\ Failed(w).sub = worker[w].sub /\ Failed(w).job = worker[w].job
              /\ Failed(w).fresh = worker[w].fresh
              /\ Failed(w).at = "charge" => worker[w].job # "dunning"
    BY <2>1, FailedShape
  <2>3. OthersBehind(w) /\ worker'[w] = Failed(w)
    BY <2>1, <2>2, GoesAlone
  <2>4. /\ Charger(w, s)' => Locked(w, s)
        /\ Locked(w, s)' => Locked(w, s)
    BY <1>0, <2>1, <2>2, <2>3 DEF Charger, Locked, Fresh, Sound, Idle
  <2>5. ChargerAt(w, s)'
    BY <1>0, <2>1, <2>2, <2>3, <2>4 DEF ChargerAt, Charger, Locked, LockAt, Idle
  <2>6. LockAt(s)'
    BY <1>0, <2>1, <2>3, <2>4, <2>5, LockKept
  <2> QED BY <1>a, <2>1, <2>6
<1>3. ASSUME NEW w \in Workers,
             CheckInvoice(w) \/ SkipForAdmin(w) \/ RecordNotice(w) \/ Crash(w)
      PROVE  Goal
  <2> DEFINE checked == [worker[w] EXCEPT !.at = "check", !.key = WebKey]
             booking == [worker[w] EXCEPT !.at = "book", !.fresh = TRUE]
  <2>1. /\ \/ Resumes(w, Idle) \/ Resumes(w, checked) \/ Resumes(w, booking)
        /\ UNCHANGED <<sub, charged>>
    <3>1. CASE CheckInvoice(w)
      BY <3>1, CheckWorker DEF CheckInvoice, others
    <3>2. CASE RecordNotice(w)
      BY <3>2, RecordWorker DEF RecordNotice
    <3>3. CASE Crash(w)
      BY <3>3, CrashWorker DEF Crash
    <3>4. CASE SkipForAdmin(w)
      BY <3>4, SkipWorker DEF SkipForAdmin
    <3> QED BY <1>3, <3>1, <3>2, <3>3, <3>4
  <2>2. checked.at = "check" /\ booking.at = "book"
    BY DEF TypeInv, Types, Worker
  <2> HIDE DEF checked, booking
  <2>3. OthersBehind(w) /\ worker'[w].at # "charge"
    BY <2>1, <2>2 DEF Resumes, Idle
  <2> QED BY <1>0, <1>a, <2>1, <2>3, QuietLock
<1>4. ASSUME NEW w \in Workers, BookPayment(w) \/ Ends(w) PROVE Goal
  <2>1. Resumes(w, Idle) /\ UNCHANGED charged
    <3>1. CASE BookPayment(w)
      BY <3>1, BookWorker DEF BookPayment, Book
    <3>2. CASE Ends(w)
      <4>1. PICK row \in Row : Update(w, row) /\ Written(worker[w], sub[worker[w].sub], row)
        BY <3>2, EndWrites
      <4> QED BY <4>1, UpdateWorker DEF Written, Update, others
    <3> QED BY <1>4, <3>1, <3>2
  <2>2. LockAt(s)'
    BY <1>0, <2>1, QuietLock DEF Resumes, Idle
  <2>3. ChargedAt(s)'
    BY <1>0, <1>4, ChargedRow
  <2> QED BY <1>0, <2>1, <2>2, <2>3 DEF OneKey
<1>5. ASSUME NEW w \in Workers, Fail(w) PROVE Goal
  <2>1. /\ worker[w].at # "idle" /\ disturbed' = disturbed \cup {worker[w].sub}
        /\ Resumes(w, Idle) \/ Resumes(w, Failed(w))
    BY <1>5, FailWorker
  <2>2. Failed(w) = Idle \/ Failed(w).sub = worker[w].sub
    BY <2>1, FailedShape
  <2>3. /\ OthersBehind(w) /\ UNCHANGED charged
        /\ worker'[w].at # "charge" \/ worker'[w].sub \in disturbed'
    BY <1>5, <2>1, <2>2 DEF Resumes, Idle, Fail
  <2>4. LockAt(s)'
    BY <1>0, <2>3, QuietLock
  <2>5. ChargedAt(s)'
    BY <1>0, <1>5, ChargedRow
  <2> QED BY <1>0, <2>3, <2>4, <2>5 DEF OneKey
<1>6. ASSUME NEW t \in Subs, Pays(t) \/ Changes(t) PROVE Goal
  <2>1. UNCHANGED charged
    BY <1>6 DEF Pays, Pay, Approve, PayRejected, Changes, RejectedNotice,
       CancelSubscription, UpgradePlan, AddPaymentMethod, RemovePaymentMethod, Change
  <2>2. \A v \in Workers : Behind(v)
    BY <1>6, ChangeWorkers DEF Pays, Pay, Approve, PayRejected, Behind
  <2>3. \A v \in Workers : ChargerAt(v, s)' /\ (Locked(v, s)' => Locked(v, s))
    BY <1>0, <2>1, <2>2, ChargerKept DEF LockAt
  <2>4. LockAt(s)'
    BY <1>0, <2>3 DEF LockAt
  <2>5. ChargedAt(s)'
    <3>1. CASE Pays(t)
      BY <1>0, <2>1, <3>1 DEF Pays, Pay, Approve, PayRejected, ChargedAt
    <3>2. CASE Changes(t)
      <4>1. PICK row \in Row :
              /\ sub' = [sub EXCEPT ![t] = row] /\ row.left = sub[t].left
              /\ row.trial = sub[t].trial /\ (row.status = sub[t].status \/ t \in disturbed')
        BY <3>2, ChangeWorkers
      <4>2. /\ sub'[s].left = sub[s].left /\ sub'[s].trial = sub[s].trial
            /\ sub'[s].status = sub[s].status
        BY <4>1 DEF TypeInv, Types
      <4> QED BY <1>0, <2>1, <4>2 DEF ChargedAt
    <3> QED BY <1>6, <3>1, <3>2
  <2> QED BY <1>0, <2>1, <2>4, <2>5 DEF OneKey
<1>7. CASE NewDay
  <2>1. charged'[s] = {} /\ UNCHANGED worker /\ \A v \in Workers : worker[v] = Idle
    BY <1>7 DEF NewDay, At, TypeInv, Wired
  <2>2. \A v \in Workers : ~Charger(v, s)'
    BY <2>1 DEF Charger, Idle
  <2> QED BY <2>1, <2>2 DEF LockAt, ChargerAt, Locked, ChargedAt, OneKey
<1>8. CASE UNCHANGED vars
  BY <1>0, <1>8 DEF vars, LockAt, ChargerAt, Locked, Charger, Fresh, Sound, ChargedAt, OneKey
<1> QED BY <1>1, <1>2, <1>3, <1>4, <1>5, <1>6, <1>7, <1>8, ChargeApprovedOnce, LockElects,
           NextCases

\* However many instances and jobs, requests and failures: the card of a sound
\* subscription is charged under one key a day at most.
THEOREM ChargedAtMostOnce == Spec => []ChargedOnce
<1>1. Init => RowInv /\ ReadingInv
  <2> SUFFICES ASSUME Init PROVE RowInv /\ ReadingInv
    OBVIOUS
  <2>1. ASSUME NEW s \in Subs
        PROVE  /\ sub[s].left > 0
               /\ sub[s].status = "TRIALING" => sub[s].trial = "ahead"
    <3>1. sub[s] \in FirstRow(s) /\ Period > 0
      BY SubscriptionAssumption DEF Init, SubscriptionAssumption
    <3>2. sub[s].left = Period /\ (sub[s].status = "TRIALING" => sub[s].trial = "ahead")
      BY <3>1 DEF FirstRow
    <3> QED BY <3>1, <3>2
  <2>2. ASSUME NEW s \in Subs PROVE AheadAt(s) /\ DueAt(s)
    <3>1. sub[s].left \in Int
      BY TypeInit DEF TypeInv, Types, Row
    <3> QED BY <2>1, <3>1 DEF AheadAt, DueAt
  <2>3. ReadingInv
    BY DEF Init, ReadingInv, Truthful, Idle
  <2> QED BY <2>2, <2>3 DEF RowInv, Sound
<1>2. Init => ChargeInv
  BY DEF Init, ChargeInv, LockAt, ChargerAt, Locked, Charger, Idle, ChargedAt, OneKey, Sound
<1> QED BY <1>1, <1>2, TypeInit, TypeStep, ReadingStep, RowStep, ChargeStep,
           OneKeyIsOneCharge, PTL DEF Spec

=============================================================================
