--------------------------- MODULE CheckoutProofs ---------------------------
(***************************************************************************)
(* Theorems about Checkout, for every set of checkouts, payments and       *)
(* tasks, every mix of providers and every bound.                          *)
(***************************************************************************)
EXTENDS Checkout, FiniteSetTheorems, TLAPS

-----------------------------------------------------------------------------
(* Types.  A task that works on a checkout knows which; a payment that     *)
(* exists belongs to a checkout whose link was stored.                     *)

OnCheckout == Effects \cup
  {"validating", "numbering", "inserting", "linking",
   "approving", "marking", "creating", "failing", "publishing"}
OnEvent == {"recording", "hydrating", "closing", "closingError"}

Wiring ==
  /\ \A w \in Workers :
       /\ task[w].at \in OnCheckout => task[w].chk \in Checkouts
       /\ task[w].at \in OnEvent => task[w].job = "mercadopago"
       /\ task[w].job = "mercadopago" =>
            task[w].pay \in Payments /\ payStatus[task[w].pay] # "none"
       /\ task[w].todo \subseteq linked
  /\ \A p \in Payments : payStatus[p] # "none" => payFor[p] \in linked
  /\ \A c \in Checkouts : latest[c] # NoPayment =>
       payFor[latest[c]] = c /\ payStatus[latest[c]] # "none"

TypeInv == TypeOK /\ Wiring

LEMMA NewType ==
  ASSUME NEW job \in Jobs, NEW at \in Points, NEW chk \in Checkouts \cup {NoCheckout},
         NEW pay \in Payments \cup {NoPayment}, NEW todo \in SUBSET Checkouts
  PROVE  /\ New(job, at, chk, pay, todo) \in Task
         /\ New(job, at, chk, pay, todo).at = at /\ New(job, at, chk, pay, todo).job = job
         /\ New(job, at, chk, pay, todo).chk = chk /\ New(job, at, chk, pay, todo).pay = pay
         /\ New(job, at, chk, pay, todo).todo = todo
         /\ New(job, at, chk, pay, todo).prev = "none"
BY DEF New, Task, SessionStatus

LEMMA IdleType ==
  /\ Idle \in Task /\ Idle.at = "idle" /\ Idle.job = "none" /\ Idle.chk = NoCheckout
  /\ Idle.todo = {} /\ Idle.prev = "none"
BY DEF Idle, New, Task, Points, Jobs, SessionStatus

LEMMA ExitType ==
  ASSUME NEW t \in Task, NEW closing \in {"closing", "closingError"}
  PROVE  /\ Exit(t, closing) \in Task
         /\ Exit(t, closing).at \in {"closing", "closingError", "polling", "idle"}
         /\ Exit(t, closing).at \in OnEvent =>
              t.job = "mercadopago" /\ Exit(t, closing).job = "mercadopago"
         /\ Exit(t, closing).job = "mercadopago" =>
              t.job = "mercadopago" /\ Exit(t, closing).pay = t.pay
         /\ Exit(t, closing).todo \subseteq t.todo
         /\ Exit(t, closing).chk \in {t.chk, NoCheckout}
         /\ Exit(t, closing).prev \in {t.prev, "none"}
<1>1. CASE t.job = "mercadopago"
  <2>1. Exit(t, closing) = [t EXCEPT !.at = closing]
    BY <1>1 DEF Exit
  <2> QED BY <2>1, <1>1 DEF Task, Points, OnEvent
<1>2. CASE t.job = "reconcile"
  <2>1. Exit(t, closing) = New("reconcile", "polling", NoCheckout, NoPayment, t.todo)
    BY <1>2 DEF Exit
  <2> QED BY <2>1, <1>2 DEF New, Task, Points, Jobs, OnEvent, SessionStatus
<1>3. CASE t.job \notin {"mercadopago", "reconcile"}
  <2>1. Exit(t, closing) = Idle
    BY <1>3 DEF Exit
  <2> QED BY <2>1, <1>3, IdleType DEF Task, OnEvent
<1> QED BY <1>1, <1>2, <1>3

LEMMA CountType == ASSUME NEW S \in SUBSET Checkouts PROVE Cardinality(S) \in Nat
BY FiniteAssumption, FS_Subset, FS_CardinalityType

LEMMA OldestType ==
  ASSUME NEW S, NEW k PROVE Oldest(S, k) \subseteq S
BY DEF Oldest

LEMMA TypeInit == Init => TypeInv
<1> SUFFICES ASSUME Init PROVE TypeInv
  OBVIOUS
<1>1. TypeOK
  BY IdleType, BoundAssumption DEF Init, TypeOK, SessionStatus
<1>2. Wiring
  BY IdleType DEF Init, Wiring, OnCheckout, OnEvent, Effects
<1> QED BY <1>1, <1>2 DEF TypeInv

TaskInv == task \in [Workers -> Task] /\ Wiring

\* One task changes, links are only added, the provider's side stands still.
LEMMA TaskStep ==
  ASSUME TypeInv, NEW w \in Workers, NEW t \in Task, Update(w, t),
         t.at \in OnCheckout => t.chk \in Checkouts,
         t.at \in OnEvent => t.job = "mercadopago",
         t.job = "mercadopago" => t.pay \in Payments /\ payStatus[t.pay] # "none",
         t.todo \subseteq linked, linked \subseteq linked', UNCHANGED provider
  PROVE  TaskInv'
BY DEF Update, TypeInv, TypeOK, Wiring, TaskInv, provider

LEMMA GotoStep ==
  ASSUME TypeInv, NEW w \in Workers, NEW point \in Points, Goto(w, point),
         point \in OnCheckout => task[w].chk \in Checkouts,
         point \in OnEvent => task[w].job = "mercadopago",
         linked \subseteq linked', UNCHANGED provider
  PROVE  TaskInv'
<1> DEFINE t == [task[w] EXCEPT !.at = point]
<1>1. Update(w, t)
  BY DEF Goto
<1>2. task[w] \in Task
  BY DEF TypeInv, TypeOK
<1>3. /\ t \in Task /\ t.at = point /\ t.chk = task[w].chk /\ t.job = task[w].job
      /\ t.pay = task[w].pay /\ t.todo = task[w].todo
  BY <1>2 DEF Task
<1>4. /\ task[w].job = "mercadopago" =>
           task[w].pay \in Payments /\ payStatus[task[w].pay] # "none"
      /\ task[w].todo \subseteq linked
  BY DEF TypeInv, Wiring
<1> HIDE DEF t
<1> QED BY <1>1, <1>3, <1>4, TaskStep

LEMMA ExitStep ==
  ASSUME TypeInv, NEW w \in Workers, Return(w) \/ Throw(w),
         linked \subseteq linked', UNCHANGED provider
  PROVE  TaskInv'
<1>1. PICK closing \in {"closing", "closingError"} : Update(w, Exit(task[w], closing))
  BY DEF Return, Throw
<1>2. task[w] \in Task
  BY DEF TypeInv, TypeOK
<1> DEFINE t == Exit(task[w], closing)
<1>3. /\ t \in Task
      /\ t.at \in {"closing", "closingError", "polling", "idle"}
      /\ t.at \in OnEvent => task[w].job = "mercadopago" /\ t.job = "mercadopago"
      /\ t.job = "mercadopago" => task[w].job = "mercadopago" /\ t.pay = task[w].pay
      /\ t.todo \subseteq task[w].todo
  BY <1>2, ExitType
<1>4. /\ task[w].job = "mercadopago" =>
           task[w].pay \in Payments /\ payStatus[task[w].pay] # "none"
      /\ task[w].todo \subseteq linked
  BY DEF TypeInv, Wiring
<1>5. t.at \notin OnCheckout
  BY <1>3 DEF OnCheckout, Effects
<1>6. Update(w, t)
  BY <1>1
<1> HIDE DEF t
<1> QED BY <1>3, <1>4, <1>5, <1>6, TaskStep

LEMMA StartStep ==
  ASSUME TypeInv, NEW w \in Workers,
         NEW job \in Jobs, NEW at \in Points, NEW chk \in Checkouts \cup {NoCheckout},
         NEW pay \in Payments \cup {NoPayment}, NEW todo \in SUBSET linked,
         Update(w, New(job, at, chk, pay, todo)),
         at \in OnCheckout => chk \in Checkouts,
         at \in OnEvent => job = "mercadopago",
         job = "mercadopago" => pay \in Payments /\ payStatus[pay] # "none",
         linked \subseteq linked', UNCHANGED provider
  PROVE  TaskInv'
<1> DEFINE t == New(job, at, chk, pay, todo)
<1>1. todo \in SUBSET Checkouts
  BY DEF TypeInv, TypeOK
<1>2. /\ t \in Task /\ t.at = at /\ t.job = job /\ t.chk = chk /\ t.pay = pay
      /\ t.todo = todo
  BY <1>1, NewType
<1> HIDE DEF t
<1>3. Update(w, t)
  BY DEF t
<1> QED BY <1>2, <1>3, TaskStep

LEMMA IdleStep ==
  ASSUME TypeInv, NEW w \in Workers, Update(w, Idle),
         linked \subseteq linked', UNCHANGED provider
  PROVE  TaskInv'
<1>1. Idle.at \notin OnCheckout /\ Idle.at \notin OnEvent
  BY IdleType DEF OnCheckout, OnEvent, Effects
<1>2. Idle.job # "mercadopago" /\ Idle.todo \subseteq linked /\ Idle \in Task
  BY IdleType
<1> QED BY <1>1, <1>2, TaskStep

LEMMA CountStep ==
  ASSUME TypeOK, NEW c \in Checkouts, NEW e \in Effects, Count(c, e)
  PROVE  /\ done' \in [Checkouts -> [Effects -> Nat]]
         /\ \A d \in Checkouts, f \in Effects :
              done'[d][f] = IF d = c /\ f = e THEN done[d][f] + 1 ELSE done[d][f]
<1> DEFINE g == [done[c] EXCEPT ![e] = @ + 1]
<1>1. done' = [done EXCEPT ![c] = g]
  BY DEF Count
<1>2. done \in [Checkouts -> [Effects -> Nat]]
  BY DEF TypeOK
<1>3. g \in [Effects -> Nat] /\ \A f \in Effects : g[f] = IF f = e THEN done[c][f] + 1 ELSE done[c][f]
  BY <1>2
<1> HIDE DEF g
<1> QED BY <1>1, <1>2, <1>3

LEMMA TypeStep == TypeInv /\ [Next]_vars => TypeInv'
<1> SUFFICES ASSUME TypeInv, [Next]_vars PROVE TypeInv'
  OBVIOUS
<1> USE DEF rows, outbox, provider
<1>0. ASSUME TaskInv', TypeOK' PROVE TypeInv'
  BY <1>0 DEF TypeInv, TaskInv
<1>t. ASSUME NEW w \in Workers
      PROVE  task[w].at \in OnCheckout => task[w].chk \in Checkouts
  BY DEF TypeInv, Wiring
<1>sk. ASSUME NEW w \in Workers
      PROVE  /\ task[w] \in Task /\ task[w].todo \subseteq linked
             /\ task[w].job = "mercadopago" =>
                  task[w].pay \in Payments /\ payStatus[task[w].pay] # "none"
  BY DEF TypeInv, TypeOK, Wiring
<1>b0. ASSUME NEW W \in SUBSET Workers PROVE Unpublished(W) \subseteq Checkouts
  <2>1. \A w \in W : task[w].at \in OnCheckout => task[w].chk \in Checkouts
    BY DEF TypeInv, Wiring
  <2> QED BY <2>1 DEF Unpublished, At, OnCheckout
<1>a. ASSUME NEW w \in Workers, NEW c \in Checkouts, StartCreate(w, c) PROVE TypeInv'
  <2> DEFINE at == IF c \in Couponed THEN "validating" ELSE "numbering"
  <2>1. Update(w, New("create", at, c, NoPayment, {})) /\ at \in Points /\ at \notin OnEvent
    BY <1>a DEF StartCreate, Points, OnEvent
  <2> HIDE DEF at
  <2>3. "create" \in Jobs /\ {} \in SUBSET linked /\ linked' = linked /\ UNCHANGED provider
    BY <1>a DEF StartCreate, Jobs
  <2>2. TaskInv'
    BY <2>1, <2>3, StartStep
  <2> QED BY <1>0, <1>a, <2>2 DEF StartCreate, TypeInv, TypeOK, TaskInv
<1>b. ASSUME NEW w \in Workers, ValidateCoupon(w) PROVE TypeInv'
  <2>1. task[w].chk \in Checkouts
    BY <1>b, <1>t DEF ValidateCoupon, At, OnCheckout
  <2>2. TaskInv'
    BY <1>b, <2>1, ExitStep, GotoStep DEF ValidateCoupon, Points, OnCheckout, OnEvent
  <2> QED BY <1>0, <1>b, <2>2 DEF ValidateCoupon, TypeInv, TypeOK, TaskInv
<1>c. ASSUME NEW w \in Workers, GenerateOrderNumber(w) PROVE TypeInv'
  <2> DEFINE n == Cardinality(OrderRows) + Cardinality(SessionRows) + 1
  <2>1. n \in Nat
    BY CountType DEF OrderRows, SessionRows
  <2>2. task[w].chk \in Checkouts
    BY <1>c, <1>t DEF GenerateOrderNumber, At, OnCheckout
  <2> DEFINE t == [task[w] EXCEPT !.at = "inserting", !.num = n]
  <2>3. Update(w, t)
    BY <1>c DEF GenerateOrderNumber
  <2> HIDE DEF n
  <2>4. /\ t \in Task /\ t.at = "inserting" /\ t.chk = task[w].chk
        /\ t.job = task[w].job /\ t.pay = task[w].pay /\ t.todo = task[w].todo
    BY <1>sk, <2>1 DEF Task, Points
  <2> HIDE DEF t
  <2>5. TaskInv'
    BY <1>c, <1>sk, <2>2, <2>3, <2>4, TaskStep DEF GenerateOrderNumber, OnEvent
  <2> QED BY <1>0, <1>c, <2>5 DEF GenerateOrderNumber, TypeInv, TypeOK, TaskInv
<1>d. ASSUME NEW w \in Workers, InsertRow(w) PROVE TypeInv'
  <2>1. 1 + Cardinality({d \in Checkouts : born[d] > 0}) \in Nat
    BY CountType
  <2>2. task[w].chk \in Checkouts
    BY <1>d, <1>t DEF InsertRow, At, OnCheckout
  <2>3. task[w].num \in Nat
    BY DEF TypeInv, TypeOK, Task
  <2>4. FirstEffect(task[w].chk) \in Points /\ FirstEffect(task[w].chk) \notin OnEvent
    BY DEF FirstEffect, AfterDelivery, Points, Effects, OnEvent
  <2>5. TaskInv'
    BY <1>d, <2>1, <2>2, <2>3, <2>4, ExitStep, GotoStep DEF InsertRow, Points, OnEvent
  <2> DEFINE c == task[w].chk
             n == task[w].num
             k == 1 + Cardinality({d \in Checkouts : born[d] > 0})
  <2>6. \/ UNCHANGED <<session, order, number, born>>
        \/ /\ number' = [number EXCEPT ![c] = n] /\ born' = [born EXCEPT ![c] = k]
           /\ \/ session' = [session EXCEPT ![c] = "PENDING"] /\ UNCHANGED order
              \/ order' = [order EXCEPT ![c] = "CONFIRMED"] /\ UNCHANGED session
    BY <1>d DEF InsertRow
  <2>7. c \in Checkouts /\ n \in Nat /\ k \in Nat
    BY <2>1, <2>2, <2>3
  <2> HIDE DEF c, n, k
  <2>8. number' \in [Checkouts -> Nat] /\ born' \in [Checkouts -> Nat]
    <3>1. number \in [Checkouts -> Nat] /\ born \in [Checkouts -> Nat]
      BY DEF TypeInv, TypeOK
    <3> QED BY <2>6, <2>7, <3>1
  <2>9. /\ session' \in [Checkouts -> SessionStatus]
        /\ order' \in [Checkouts -> {"none", "CONFIRMED", "PAID"}]
    <3>1. /\ session \in [Checkouts -> SessionStatus] /\ "PENDING" \in SessionStatus
          /\ order \in [Checkouts -> {"none", "CONFIRMED", "PAID"}]
      BY DEF TypeInv, TypeOK, SessionStatus
    <3> QED BY <2>6, <3>1
  <2> QED BY <1>0, <1>d, <2>5, <2>8, <2>9 DEF InsertRow, TypeInv, TypeOK, TaskInv
<1>e. ASSUME NEW w \in Workers, LinkPreference(w) PROVE TypeInv'
  <2>1. TaskInv'
    BY <1>e, ExitStep DEF LinkPreference
  <2>2. task[w].chk \in Checkouts
    BY <1>e, <1>t DEF LinkPreference, At, OnCheckout
  <2> QED BY <1>0, <1>e, <2>1, <2>2 DEF LinkPreference, TypeInv, TypeOK, TaskInv
<1>f. ASSUME NEW w \in Workers, ReadCheckout(w) PROVE TypeInv'
  <2>1. task[w].chk \in Checkouts
    BY <1>f, <1>t DEF ReadCheckout, At, OnCheckout
  <2>2. CASE order[task[w].chk] # "none"
    <3>1. TaskInv'
      BY <1>f, <2>2, ExitStep DEF ReadCheckout
    <3> QED BY <1>0, <1>f, <3>1 DEF ReadCheckout, TypeInv, TypeOK, TaskInv
  <2>3. CASE order[task[w].chk] = "none"
    <3> DEFINE t == [task[w] EXCEPT !.at = "marking", !.prev = session[task[w].chk]]
    <3>1. Update(w, t)
      BY <1>f, <2>3 DEF ReadCheckout
    <3>2. session[task[w].chk] \in SessionStatus
      BY <2>1 DEF TypeInv, TypeOK
    <3>3. /\ t \in Task /\ t.at = "marking" /\ t.chk = task[w].chk
          /\ t.job = task[w].job /\ t.pay = task[w].pay /\ t.todo = task[w].todo
      BY <1>sk, <3>2 DEF Task, Points
    <3> HIDE DEF t
    <3>4. TaskInv'
      BY <1>f, <1>sk, <2>1, <3>1, <3>3, TaskStep DEF ReadCheckout, OnEvent
    <3> QED BY <1>0, <1>f, <3>4 DEF ReadCheckout, TypeInv, TypeOK, TaskInv
  <2> QED BY <2>2, <2>3
<1>g. ASSUME NEW w \in Workers, MarkPaid(w) PROVE TypeInv'
  <2>1. task[w].chk \in Checkouts
    BY <1>g, <1>t DEF MarkPaid, At, OnCheckout
  <2>2. TaskInv'
    BY <1>g, <2>1, GotoStep DEF MarkPaid, Points, OnEvent
  <2> QED BY <1>0, <1>g, <2>1, <2>2 DEF MarkPaid, TypeInv, TypeOK, TaskInv, SessionStatus
<1>h. ASSUME NEW w \in Workers, CreateOrder(w) PROVE TypeInv'
  <2>1. task[w].chk \in Checkouts
    BY <1>h, <1>t DEF CreateOrder, At, OnCheckout
  <2>2. FirstEffect(task[w].chk) \in Points /\ FirstEffect(task[w].chk) \notin OnEvent
    BY DEF FirstEffect, AfterDelivery, Points, Effects, OnEvent
  <2>3. TaskInv'
    BY <1>h, <2>1, <2>2, ExitStep, GotoStep DEF CreateOrder
  <2> QED BY <1>0, <1>h, <2>3 DEF CreateOrder, TypeInv, TypeOK, TaskInv
<1>i. ASSUME NEW w \in Workers, CreateDeliveryOrder(w) PROVE TypeInv'
  <2>1. task[w].chk \in Checkouts
    BY <1>i, <1>t DEF CreateDeliveryOrder, At, OnCheckout, Effects
  <2>2. AfterDelivery(task[w].chk) \in Points /\ AfterDelivery(task[w].chk) \notin OnEvent
    BY DEF AfterDelivery, Points, Effects, OnEvent
  <2>3. TaskInv'
    BY <1>i, <2>1, <2>2, GotoStep DEF CreateDeliveryOrder
  <2>9. done' \in [Checkouts -> [Effects -> Nat]]
    BY <1>i, <2>1, CountStep DEF CreateDeliveryOrder, TypeInv, Effects
  <2> QED BY <1>0, <1>i, <2>9, <2>3 DEF CreateDeliveryOrder, TypeInv, TypeOK, TaskInv
<1>j. ASSUME NEW w \in Workers, SwallowDeliveryError(w) PROVE TypeInv'
  <2>1. task[w].chk \in Checkouts
    BY <1>j, <1>t DEF SwallowDeliveryError, At, OnCheckout, Effects
  <2>2. AfterDelivery(task[w].chk) \in Points /\ AfterDelivery(task[w].chk) \notin OnEvent
    BY DEF AfterDelivery, Points, Effects, OnEvent
  <2>3. TaskInv'
    BY <1>j, <2>1, <2>2, GotoStep DEF SwallowDeliveryError
  <2> QED BY <1>0, <1>j, <2>3, BoundAssumption DEF SwallowDeliveryError, TypeInv, TypeOK, TaskInv
<1>k. ASSUME NEW w \in Workers, IncrementUsage(w) PROVE TypeInv'
  <2>1. task[w].chk \in Checkouts
    BY <1>k, <1>t DEF IncrementUsage, At, OnCheckout, Effects
  <2>2. TaskInv'
    BY <1>k, <2>1, GotoStep DEF IncrementUsage, Points, Effects, OnEvent
  <2>9. done' \in [Checkouts -> [Effects -> Nat]]
    BY <1>k, <2>1, CountStep DEF IncrementUsage, TypeInv, Effects
  <2> QED BY <1>0, <1>k, <2>9, <2>2 DEF IncrementUsage, TypeInv, TypeOK, TaskInv
<1>l. ASSUME NEW w \in Workers, RecordCouponUse(w) PROVE TypeInv'
  <2>1. task[w].chk \in Checkouts
    BY <1>l, <1>t DEF RecordCouponUse, At, OnCheckout, Effects
  <2>2. TaskInv'
    BY <1>l, <2>1, GotoStep DEF RecordCouponUse, Points, Effects, OnEvent
  <2>9. done' \in [Checkouts -> [Effects -> Nat]]
    BY <1>l, <2>1, CountStep DEF RecordCouponUse, TypeInv, Effects
  <2> QED BY <1>0, <1>l, <2>9, <2>2 DEF RecordCouponUse, TypeInv, TypeOK, TaskInv
<1>m. ASSUME NEW w \in Workers, Announce(w) PROVE TypeInv'
  <2>1. task[w].chk \in Checkouts
    BY <1>m, <1>t DEF Announce, At, OnCheckout, Effects
  <2>2. TaskInv'
    BY <1>m, <2>1, ExitStep DEF Announce
  <2>9. done' \in [Checkouts -> [Effects -> Nat]]
    BY <1>m, <2>1, CountStep DEF Announce, TypeInv, Effects
  <2> QED BY <1>0, <1>m, <2>9, <2>1, <2>2 DEF Announce, TypeInv, TypeOK, TaskInv
<1>n. ASSUME NEW w \in Workers, NEW p \in Payments, RecordWebhookEvent(w, p) PROVE TypeInv'
  <2>1. Update(w, New("mercadopago", "recording", NoCheckout, p, {})) /\ payStatus[p] # "none"
    BY <1>n DEF RecordWebhookEvent
  <2>2. TaskInv'
    BY <1>n, <2>1, StartStep DEF RecordWebhookEvent, Jobs, Points, OnCheckout, Effects
  <2> QED BY <1>0, <1>n, <2>2 DEF RecordWebhookEvent, TypeInv, TypeOK, TaskInv
<1>o. ASSUME NEW w \in Workers, UpsertWebhookEvent(w) PROVE TypeInv'
  <2>1. task[w].job = "mercadopago"
    BY <1>o DEF UpsertWebhookEvent, At, OnEvent, TypeInv, Wiring
  <2>2. TaskInv'
    BY <1>o, <2>1, GotoStep DEF UpsertWebhookEvent, Points, OnCheckout, Effects
  <2> QED BY <1>0, <1>o, <2>2 DEF UpsertWebhookEvent, TypeInv, TypeOK, TaskInv
<1>p. ASSUME NEW w \in Workers, HydratePayment(w) PROVE TypeInv'
  <2> DEFINE c == payFor[task[w].pay]
  <2>1. /\ task[w].job = "mercadopago" /\ task[w].pay \in Payments
        /\ payStatus[task[w].pay] # "none" /\ task[w].todo \subseteq linked
        /\ task[w] \in Task
    BY <1>p DEF HydratePayment, At, OnEvent, TypeInv, TypeOK, Wiring
  <2>2. c \in Checkouts
    BY <2>1 DEF TypeInv, TypeOK, Wiring
  <2> DEFINE t == [task[w] EXCEPT !.at = "approving", !.chk = c]
  <2>3. ASSUME Update(w, t) PROVE TaskInv'
    <3>1. /\ t \in Task /\ t.at = "approving" /\ t.chk = c
          /\ t.job = task[w].job /\ t.pay = task[w].pay /\ t.todo = task[w].todo
      BY <2>1, <2>2 DEF Task, Points
    <3>2. linked \subseteq linked' /\ UNCHANGED provider
      BY <1>p DEF HydratePayment
    <3> HIDE DEF t
    <3> QED BY <2>1, <2>2, <2>3, <3>1, <3>2, TaskStep DEF OnEvent
  <2>4. ASSUME Goto(w, "closing") PROVE TaskInv'
    BY <1>p, <2>1, <2>4, GotoStep DEF HydratePayment, Points, OnCheckout, Effects
  <2>5. TaskInv'
    BY <1>p, <2>3, <2>4 DEF HydratePayment
  <2> HIDE DEF c
  <2>6. failures' \subseteq Checkouts
    BY <1>p, <2>2 DEF HydratePayment, TypeInv, TypeOK, c
  <2> QED BY <1>0, <1>p, <2>5, <2>6 DEF HydratePayment, TypeInv, TypeOK, TaskInv
<1>q. ASSUME NEW w \in Workers, MarkEventProcessed(w) PROVE TypeInv'
  <2>1. TaskInv'
    BY <1>q, IdleStep DEF MarkEventProcessed
  <2> QED BY <1>0, <1>q, <2>1 DEF MarkEventProcessed, TypeInv, TypeOK, TaskInv
<1>r. ASSUME NEW w \in Workers, NEW p \in Payments, HandlePaywayWebhook(w, p) PROVE TypeInv'
  <2>1. payFor[p] \in Checkouts
    BY <1>r DEF HandlePaywayWebhook, TypeInv, TypeOK, Wiring
  <2>2. ASSUME Update(w, New("payway", "approving", payFor[p], p, {})) PROVE TaskInv'
    <3>1. /\ "payway" \in Jobs /\ "approving" \in Points /\ "approving" \notin OnEvent
          /\ p \in Payments \cup {NoPayment} /\ payFor[p] \in Checkouts \cup {NoCheckout}
          /\ linked \subseteq linked' /\ UNCHANGED provider /\ {} \in SUBSET linked
      BY <1>r, <2>1 DEF HandlePaywayWebhook, Jobs, Points, OnEvent
    <3> QED BY <2>1, <2>2, <3>1, StartStep
  <2>3. ASSUME UNCHANGED task PROVE TaskInv'
    BY <1>r, <2>3 DEF HandlePaywayWebhook, TaskInv, TypeInv, TypeOK, Wiring
  <2>4. TaskInv'
    BY <1>r, <2>2, <2>3 DEF HandlePaywayWebhook
  <2> QED BY <1>0, <1>r, <2>1, <2>4 DEF HandlePaywayWebhook, TypeInv, TypeOK, TaskInv
<1>s. ASSUME NEW w \in Workers, StartReconcile(w) PROVE TypeInv'
  <2>1. Oldest(Reconcilable, BatchSize) \subseteq linked
    BY OldestType DEF Reconcilable
  <2>2. TaskInv'
    BY <1>s, <2>1, StartStep DEF StartReconcile, Jobs, Points, OnCheckout, OnEvent, Effects
  <2> QED BY <1>0, <1>s, <2>2 DEF StartReconcile, TypeInv, TypeOK, TaskInv
<1>v. ASSUME NEW w \in Workers, EndReconcile(w) PROVE TypeInv'
  <2>1. TaskInv'
    BY <1>v, IdleStep DEF EndReconcile
  <2> QED BY <1>0, <1>v, <2>1 DEF EndReconcile, TypeInv, TypeOK, TaskInv
<1>u. ASSUME NEW w \in Workers, ReconcileOne(w) PROVE TypeInv'
  <2>1. PICK c \in Oldest(task[w].todo, 1), p \in Payments \cup {NoPayment} :
          \/ Update(w, New("reconcile", "approving", c, p, task[w].todo \ {c}))
          \/ Update(w, New("reconcile", "failing", c, p, task[w].todo \ {c}))
          \/ Update(w, New("reconcile", "polling", NoCheckout, NoPayment, task[w].todo \ {c}))
    BY <1>u DEF ReconcileOne
  <2>2. c \in task[w].todo /\ task[w].todo \subseteq linked
    BY OldestType DEF TypeInv, Wiring
  <2>3. c \in Checkouts /\ task[w].todo \ {c} \in SUBSET linked
    BY <2>2 DEF TypeInv, TypeOK
  <2>4. linked \subseteq linked' /\ UNCHANGED provider
    BY <1>u DEF ReconcileOne
  <2>5. ASSUME Update(w, New("reconcile", "approving", c, p, task[w].todo \ {c})) PROVE TaskInv'
    <3>1. /\ "reconcile" \in Jobs /\ "approving" \in Points /\ "approving" \notin OnEvent
      BY DEF Jobs, Points, OnEvent
    <3>2. c \in Checkouts \cup {NoCheckout} /\ p \in Payments \cup {NoPayment}
      BY <2>3
    <3> QED BY <2>3, <2>4, <2>5, <3>1, <3>2, StartStep
  <2>6. ASSUME Update(w, New("reconcile", "failing", c, p, task[w].todo \ {c})) PROVE TaskInv'
    <3>1. /\ "reconcile" \in Jobs /\ "failing" \in Points /\ "failing" \notin OnEvent
      BY DEF Jobs, Points, OnEvent
    <3>2. c \in Checkouts \cup {NoCheckout} /\ p \in Payments \cup {NoPayment}
      BY <2>3
    <3> QED BY <2>3, <2>4, <2>6, <3>1, <3>2, StartStep
  <2>7. ASSUME Update(w, New("reconcile", "polling", NoCheckout, NoPayment, task[w].todo \ {c})) PROVE TaskInv'
    <3>1. /\ "reconcile" \in Jobs /\ "polling" \in Points /\ "polling" \notin OnEvent
          /\ "polling" \notin OnCheckout
      BY DEF Jobs, Points, OnEvent, OnCheckout, Effects
    <3>2. NoCheckout \in Checkouts \cup {NoCheckout} /\ NoPayment \in Payments \cup {NoPayment}
      OBVIOUS
    <3>3. task[w].todo \ {c} \in SUBSET linked
      BY <2>3
    <3>4. w \in Workers
      BY <2>3
    <3> QED BY <2>4, <2>7, <3>1, <3>2, <3>3, <3>4, StartStep
  <2>8. TaskInv'
    BY <2>1, <2>5, <2>6, <2>7
  <2> QED BY <1>0, <1>u, <2>8 DEF ReconcileOne, TypeInv, TypeOK, TaskInv
<1>w. ASSUME NEW w \in Workers, MarkCheckoutFailed(w) PROVE TypeInv'
  <2>1. task[w].chk \in Checkouts
    BY <1>w, <1>t DEF MarkCheckoutFailed, At, OnCheckout
  <2>2. TaskInv'
    BY <1>w, <2>1, GotoStep DEF MarkCheckoutFailed, Points, OnEvent
  <2> QED BY <1>0, <1>w, <2>1, <2>2 DEF MarkCheckoutFailed, TypeInv, TypeOK, TaskInv, SessionStatus
<1>5. ASSUME NEW w \in Workers, PublishPaymentFailed(w) PROVE TypeInv'
  <2>1. task[w].chk \in Checkouts
    BY <1>5, <1>t DEF PublishPaymentFailed, At, OnCheckout
  <2>2. TaskInv'
    BY <1>5, <2>1, ExitStep DEF PublishPaymentFailed
  <2> QED BY <1>0, <1>5, <2>1, <2>2 DEF PublishPaymentFailed, TypeInv, TypeOK, TaskInv
<1>x. ASSUME NEW w \in Workers, StepFails(w) PROVE TypeInv'
  <2>0. linked \subseteq linked' /\ UNCHANGED provider
    BY <1>x DEF StepFails
  <2>1. ASSUME NEW c \in Oldest(task[w].todo, 1), At(w, "polling"),
               Update(w, [task[w] EXCEPT !.todo = @ \ {c}])
        PROVE  TaskInv'
    <3> DEFINE t == [task[w] EXCEPT !.todo = @ \ {c}]
    <3>1. /\ t \in Task /\ t.at = task[w].at /\ t.chk = task[w].chk
          /\ t.job = task[w].job /\ t.pay = task[w].pay /\ t.todo = task[w].todo \ {c}
      BY <1>sk DEF Task
    <3>2. t.at \notin OnCheckout /\ t.at \notin OnEvent
      BY <2>1, <3>1 DEF At, OnCheckout, OnEvent, Effects
    <3>3. Update(w, t)
      BY <2>1
    <3> HIDE DEF t
    <3> QED BY <1>sk, <2>0, <3>1, <3>2, <3>3, TaskStep
  <2>2. ASSUME Update(w, Idle) PROVE TaskInv'
    BY <2>0, <2>2, IdleStep
  <2>3. ASSUME Throw(w) PROVE TaskInv'
    BY <2>0, <2>3, ExitStep
  <2>4. TaskInv'
    BY <1>x, <2>1, <2>2, <2>3 DEF StepFails
  <2>5. unsaid' = unsaid \cup Unpublished({w})
    BY <1>x, Zenon DEF StepFails
  <2>6. unsaid \subseteq Checkouts /\ Unpublished({w}) \subseteq Checkouts
    BY <1>b0 DEF TypeInv, TypeOK
  <2>7. unsaid' \subseteq Checkouts
    BY <2>5, <2>6
  <2>8. /\ faults < MaxFaults /\ faults' = faults + 1
        /\ UNCHANGED <<rows, failures, recoveries, provider, event>>
    BY <1>x, Zenon DEF StepFails
  <2> QED BY <1>0, <2>4, <2>7, <2>8, BoundAssumption DEF TypeInv, TypeOK, TaskInv
<1>y. ASSUME NEW w \in Workers, ClosingFails(w) PROVE TypeInv'
  <2>1. task[w].job = "mercadopago"
    BY <1>y DEF ClosingFails, At, OnEvent, TypeInv, Wiring
  <2>2. Goto(w, "closingError") \/ Update(w, Idle)
    BY <1>y DEF ClosingFails,  Goto
  <2>3. TaskInv'
    BY <1>y, <2>1, <2>2, IdleStep, GotoStep DEF ClosingFails, Points, OnCheckout, Effects
  <2> QED BY <1>0, <1>y, <2>3, BoundAssumption DEF ClosingFails, TypeInv, TypeOK, TaskInv
<1>z. ASSUME NEW p \in Payments, NEW c \in Checkouts, CreatePayment(p, c) PROVE TypeInv'
  BY <1>z, NullAssumption DEF CreatePayment, TypeInv, TypeOK, Wiring
<1>1. ASSUME NEW p \in Payments, DecidePayment(p) PROVE TypeInv'
  BY <1>1 DEF DecidePayment, TypeInv, TypeOK, Wiring
<1>2. ASSUME NEW c \in Checkouts, BecomeDue(c) \/ LeaveWindow(c) PROVE TypeInv'
  BY <1>2 DEF BecomeDue, LeaveWindow, TypeInv, TypeOK, Wiring
<1>3. ASSUME Crash PROVE TypeInv'
  <2>1. unsaid' \subseteq Checkouts
    BY <1>b0, <1>3 DEF Crash, TypeInv, TypeOK
  <2> QED
    BY <1>3, <2>1, IdleType, BoundAssumption
    DEF Crash, TypeInv, TypeOK, Wiring, OnCheckout, OnEvent, Effects
<1>4. ASSUME UNCHANGED vars PROVE TypeInv'
  BY <1>4 DEF vars, TypeInv, TypeOK, Wiring
<1> QED
  BY <1>a, <1>b, <1>c, <1>d, <1>e, <1>f, <1>g, <1>h, <1>i, <1>j, <1>k, <1>l, <1>m,
     <1>n, <1>o, <1>p, <1>q, <1>r, <1>s, <1>u, <1>v, <1>w, <1>x, <1>y, <1>z,
     <1>1, <1>2, <1>3, <1>4, <1>5
  DEF Next, Proceed, Arrive, Fault, Outside, Promote, ApplyEffects

\* Every reachable state is well typed, and every task knows what it works on.
THEOREM TypeCorrect == Spec => []TypeOK
<1>1. Init => TypeInv
  BY TypeInit
<1>2. TypeInv /\ [Next]_vars => TypeInv'
  BY TypeStep
<1>3. TypeInv => TypeOK
  BY DEF TypeInv
<1> QED BY <1>1, <1>2, <1>3, PTL DEF Spec
=============================================================================
