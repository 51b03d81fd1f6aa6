------------------------ MODULE CheckoutSafetyProofs ------------------------
(***************************************************************************)
(* The safety properties of Checkout, proved for every value of its        *)
(* constants.  The argument has five layers:                               *)
(*   Catalogue  every step, seen as what it does to one task and to the    *)
(*              rows; most steps are Quiet, they only let a task rest;     *)
(*   Origin     who may still insert a checkout, and what exists of it;    *)
(*   Trail      what was published, is about to be, or was cut off;        *)
(*   Evidence   what a task in flight carries from one await to the next;  *)
(*   Once       who owns the effects of an order, and which are not done.  *)
(***************************************************************************)
EXTENDS CheckoutProofs

Before == {"validating", "numbering", "inserting"}
Deciding == {"approving", "marking", "creating", "failing", "publishing"}
Rest == {"idle", "polling", "recording", "hydrating", "closing", "closingError"}

-----------------------------------------------------------------------------
(* The catalogue of steps *)

Others(w) == \A v \in Workers \ {w} : task'[v] = task[v]
Moved(w, point) ==
  /\ task'[w].at = point /\ task'[w].chk = task[w].chk /\ task'[w].prev = task[w].prev
  /\ Others(w)
Rests(w) == task'[w].at \in Rest /\ Others(w)

facts == <<session, linked, paidAt, born, order, done, failures, recoveries,
           payFor, payStatus>>

Quiet ==
  /\ UNCHANGED <<session, linked, paidAt, born, order, done, recoveries, payFor, payStatus>>
  /\ failures \subseteq failures'
  /\ \A v \in Workers : task'[v] = task[v] \/ task'[v].at \in Rest

Enters(w) ==
  /\ task'[w].at \in Before /\ task'[w].chk \in Checkouts /\ task'[w].prev = "none"
  /\ born[task'[w].chk] = 0 /\ \A v \in Workers : task[v].chk # task'[w].chk
  /\ Others(w) /\ UNCHANGED facts

Prepares(w) ==
  /\ task[w].at \in Before /\ \E point \in Before : Moved(w, point)
  /\ UNCHANGED facts

Inserts(w) ==
  /\ task[w].at = "inserting"
  /\ \E k \in Nat \ {0} : born' = [born EXCEPT ![task[w].chk] = k]
  /\ \/ /\ session' = [session EXCEPT ![task[w].chk] = "PENDING"]
        /\ Moved(w, "linking") /\ UNCHANGED order
     \/ /\ order' = [order EXCEPT ![task[w].chk] = "CONFIRMED"]
        /\ Moved(w, FirstEffect(task[w].chk)) /\ UNCHANGED session
  /\ UNCHANGED <<linked, paidAt, done, failures, recoveries, payFor, payStatus>>

Links(w) ==
  /\ task[w].at = "linking" /\ linked' = linked \cup {task[w].chk} /\ Rests(w)
  /\ UNCHANGED <<session, paidAt, born, order, done, failures, recoveries, payFor, payStatus>>

Decides(w) ==
  /\ task'[w].chk \in linked /\ Others(w) /\ UNCHANGED facts
  /\ \/ task'[w].at = "approving" /\ Paid(task'[w].chk, "approved")
     \/ task'[w].at = "failing" /\ Paid(task'[w].chk, "rejected")

Reads(w) ==
  /\ task[w].at = "approving" /\ task'[w].at = "marking" /\ task'[w].chk = task[w].chk
  /\ task'[w].prev = session[task[w].chk]
  /\ Others(w) /\ UNCHANGED facts

Marks(w) ==
  /\ task[w].at = "marking" /\ Moved(w, "creating")
  /\ session' = [session EXCEPT ![task[w].chk] = "PAID"]
  /\ paidAt' = paidAt \cup {task[w].chk}
  /\ UNCHANGED <<linked, born, order, done, failures, recoveries, payFor, payStatus>>

Creates(w) ==
  /\ task[w].at = "creating" /\ Moved(w, FirstEffect(task[w].chk))
  /\ order[task[w].chk] = "none" /\ order' = [order EXCEPT ![task[w].chk] = "PAID"]
  /\ UNCHANGED <<session, linked, paidAt, born, done, failures, recoveries, payFor, payStatus>>

Skips(w) ==
  /\ task[w].at = "deliver" /\ Moved(w, AfterDelivery(task[w].chk))
  /\ UNCHANGED facts

Counted(c, e) ==
  \A d \in Checkouts, f \in Effects :
    done'[d][f] = IF d = c /\ f = e THEN done[d][f] + 1 ELSE done[d][f]

Applies(w) ==
  /\ task[w].at \in Effects /\ Counted(task[w].chk, task[w].at)
  /\ \/ task[w].at = "deliver" /\ Moved(w, AfterDelivery(task[w].chk)) /\ UNCHANGED recoveries
     \/ task[w].at = "redeem" /\ Moved(w, "record") /\ UNCHANGED recoveries
     \/ task[w].at = "record" /\ Moved(w, "announce") /\ UNCHANGED recoveries
     \/ /\ task[w].at = "announce" /\ Rests(w)
        /\ \/ UNCHANGED recoveries
           \/ task[w].prev = "FAILED" /\ recoveries' = recoveries \cup {task[w].chk}
  /\ UNCHANGED <<session, linked, paidAt, born, order, failures, payFor, payStatus>>

Fails(w) ==
  /\ task[w].at = "failing" /\ Moved(w, "publishing")
  /\ session' = [session EXCEPT ![task[w].chk] = "FAILED"]
  /\ UNCHANGED <<linked, paidAt, born, order, done, failures, recoveries, payFor, payStatus>>

Provides ==
  /\ UNCHANGED <<session, linked, paidAt, born, order, done, failures, recoveries, task>>
  /\ \E p \in Payments :
       \/ /\ payStatus[p] = "none" /\ payStatus' = [payStatus EXCEPT ![p] = "pending"]
          /\ \E c \in Checkouts : payFor' = [payFor EXCEPT ![p] = c]
       \/ /\ payStatus[p] = "pending" /\ UNCHANGED payFor
          /\ \E s \in {"approved", "rejected"} : payStatus' = [payStatus EXCEPT ![p] = s]

Kinds ==
  \/ Quiet \/ Provides
  \/ \E w \in Workers :
       \/ Enters(w) \/ Prepares(w) \/ Inserts(w) \/ Links(w) \/ Decides(w) \/ Reads(w)
       \/ Marks(w) \/ Creates(w) \/ Skips(w) \/ Applies(w) \/ Fails(w)

LEMMA Updated ==
  ASSUME TypeOK, NEW w \in Workers, NEW t, Update(w, t)
  PROVE  task'[w] = t /\ Others(w)
BY DEF TypeOK, Update, Others

LEMMA GotoMoves ==
  ASSUME TypeOK, NEW w \in Workers, NEW point \in Points, Goto(w, point)
  PROVE  Moved(w, point)
<1>1. task[w] \in Task
  BY DEF TypeOK
<1>2. task'[w] = [task[w] EXCEPT !.at = point] /\ Others(w)
  BY Updated DEF Goto
<1> QED BY <1>1, <1>2 DEF Moved, Task

LEMMA ExitRests ==
  ASSUME TypeOK, NEW w \in Workers, Return(w) \/ Throw(w)
  PROVE  Rests(w)
<1>1. PICK closing \in {"closing", "closingError"} : Update(w, Exit(task[w], closing))
  BY DEF Return, Throw
<1>2. task[w] \in Task
  BY DEF TypeOK
<1>3. Exit(task[w], closing).at \in {"closing", "closingError", "polling", "idle"}
  BY <1>2, ExitType
<1>4. task'[w] = Exit(task[w], closing) /\ Others(w)
  BY <1>1, Updated
<1> QED BY <1>3, <1>4 DEF Rests, Rest

LEMMA IdleRests ==
  ASSUME TypeOK, NEW w \in Workers, Update(w, Idle)
  PROVE  Rests(w)
<1>1. task'[w] = Idle /\ Others(w)
  BY Updated
<1> QED BY <1>1, IdleType DEF Rests, Rest

LEMMA NewStarts ==
  ASSUME TypeOK, NEW w \in Workers,
         NEW job \in Jobs, NEW at \in Points, NEW chk \in Checkouts \cup {NoCheckout},
         NEW pay \in Payments \cup {NoPayment}, NEW todo \in SUBSET Checkouts,
         Update(w, New(job, at, chk, pay, todo))
  PROVE  task'[w].at = at /\ task'[w].chk = chk /\ task'[w].prev = "none" /\ Others(w)
<1>1. task'[w] = New(job, at, chk, pay, todo) /\ Others(w)
  BY Updated
<1> QED BY <1>1, NewType

\* A resting task is quiet when nothing else moved.
LEMMA RestIsQuiet ==
  ASSUME NEW w \in Workers, Rests(w), failures \subseteq failures',
         UNCHANGED <<session, linked, paidAt, born, order, done, recoveries,
                     payFor, payStatus>>
  PROVE  Quiet
BY DEF Rests, Others, Quiet

LEMMA Catalogue == TypeInv /\ [Next]_vars => Kinds
<1> SUFFICES ASSUME TypeInv, [Next]_vars PROVE Kinds
  OBVIOUS
<1> USE DEF rows, outbox, provider
<1>0. TypeOK
  BY DEF TypeInv
<1>t. ASSUME NEW w \in Workers
      PROVE  task[w].at \in OnCheckout => task[w].chk \in Checkouts
  BY DEF TypeInv, Wiring
<1>sk. ASSUME NEW w \in Workers
       PROVE  /\ task[w] \in Task /\ task[w].todo \subseteq linked
              /\ task[w].job = "mercadopago" =>
                   task[w].pay \in Payments /\ payStatus[task[w].pay] # "none"
  BY DEF TypeInv, TypeOK, Wiring
<1>l. linked \subseteq Checkouts
  BY DEF TypeInv, TypeOK
<1>r. ASSUME NEW w \in Workers, Return(w) \/ Throw(w) PROVE Rests(w)
  BY <1>r, <1>0, ExitRests
<1>i. ASSUME NEW w \in Workers, Update(w, Idle) PROVE Rests(w)
  BY <1>i, <1>0, IdleRests
<1>a. ASSUME NEW w \in Workers, NEW c \in Checkouts, StartCreate(w, c) PROVE Kinds
  <2> DEFINE at == IF c \in Couponed THEN "validating" ELSE "numbering"
  <2>1. Update(w, New("create", at, c, NoPayment, {})) /\ at \in Points /\ at \in Before
    BY <1>a DEF StartCreate, Points, Before
  <2>2. /\ "create" \in Jobs /\ c \in Checkouts \cup {NoCheckout}
        /\ NoPayment \in Payments \cup {NoPayment} /\ {} \in SUBSET Checkouts
    BY DEF Jobs
  <2> HIDE DEF at
  <2>3. task'[w].at = at /\ task'[w].chk = c /\ task'[w].prev = "none" /\ Others(w)
    BY <1>0, <2>1, <2>2, NewStarts
  <2>4. Enters(w)
    BY <1>a, <2>1, <2>3 DEF StartCreate, Enters, facts
  <2> QED BY <2>4 DEF Kinds
<1>b. ASSUME NEW w \in Workers, ValidateCoupon(w) PROVE Kinds
  <2>1. CASE Throw(w)
    BY <1>b, <1>r, <2>1, RestIsQuiet DEF ValidateCoupon, Kinds
  <2>2. CASE Goto(w, "numbering")
    <3>1. Moved(w, "numbering")
      BY <1>0, <2>2, GotoMoves DEF Points
    <3>2. Prepares(w)
      BY <1>b, <3>1 DEF ValidateCoupon, Prepares, At, Before, facts
    <3> QED BY <3>2 DEF Kinds
  <2> QED BY <1>b, <2>1, <2>2 DEF ValidateCoupon
<1>c. ASSUME NEW w \in Workers, GenerateOrderNumber(w) PROVE Kinds
  <2> DEFINE n == Cardinality(OrderRows) + Cardinality(SessionRows) + 1
  <2> DEFINE t == [task[w] EXCEPT !.at = "inserting", !.num = n]
  <2>1. Update(w, t)
    BY <1>c DEF GenerateOrderNumber
  <2> HIDE DEF n
  <2>2. t.at = "inserting" /\ t.chk = task[w].chk /\ t.prev = task[w].prev
    BY <1>sk DEF Task
  <2> HIDE DEF t
  <2>3. Moved(w, "inserting")
    BY <1>0, <2>1, <2>2, Updated DEF Moved
  <2>4. Prepares(w)
    BY <1>c, <2>3 DEF GenerateOrderNumber, Prepares, At, Before, facts
  <2> QED BY <2>4 DEF Kinds
<1>d. ASSUME NEW w \in Workers, InsertRow(w) PROVE Kinds
  <2> DEFINE c == task[w].chk
             k == 1 + Cardinality({d \in Checkouts : born[d] > 0})
  <2>1. k \in Nat \ {0}
    BY CountType
  <2>2. FirstEffect(c) \in Points
    BY DEF FirstEffect, AfterDelivery, Points, Effects
  <2>3. \/ Throw(w) /\ UNCHANGED <<session, order, born>>
        \/ /\ born' = [born EXCEPT ![c] = k]
           /\ \/ session' = [session EXCEPT ![c] = "PENDING"] /\ UNCHANGED order /\ Goto(w, "linking")
              \/ order' = [order EXCEPT ![c] = "CONFIRMED"] /\ UNCHANGED session /\ Goto(w, FirstEffect(c))
    BY <1>d DEF InsertRow
  <2>4. /\ task[w].at = "inserting"
        /\ UNCHANGED <<linked, paidAt, done, failures, recoveries, payFor, payStatus>>
    BY <1>d DEF InsertRow, At
  <2> HIDE DEF k
  <2>5. CASE Throw(w) /\ UNCHANGED <<session, order, born>>
    BY <1>r, <2>4, <2>5, RestIsQuiet DEF Kinds
  <2>6. CASE /\ born' = [born EXCEPT ![c] = k] /\ Goto(w, "linking")
             /\ session' = [session EXCEPT ![c] = "PENDING"] /\ UNCHANGED order
    <3>1. Moved(w, "linking")
      BY <1>0, <2>6, GotoMoves DEF Points
    <3>2. Inserts(w)
      BY <2>1, <2>4, <2>6, <3>1 DEF Inserts
    <3> QED BY <3>2 DEF Kinds
  <2>7. CASE /\ born' = [born EXCEPT ![c] = k] /\ Goto(w, FirstEffect(c))
             /\ order' = [order EXCEPT ![c] = "CONFIRMED"] /\ UNCHANGED session
    <3>1. Moved(w, FirstEffect(c))
      BY <1>0, <2>2, <2>7, GotoMoves
    <3>2. Inserts(w)
      BY <2>1, <2>4, <2>7, <3>1 DEF Inserts
    <3> QED BY <3>2 DEF Kinds
  <2> QED BY <2>3, <2>5, <2>6, <2>7
<1>e. ASSUME NEW w \in Workers, LinkPreference(w) PROVE Kinds
  <2>1. Links(w)
    BY <1>e, <1>r DEF LinkPreference, Links, At
  <2> QED BY <2>1 DEF Kinds
<1>f. ASSUME NEW w \in Workers, ReadCheckout(w) PROVE Kinds
  <2>1. CASE Return(w)
    BY <1>f, <1>r, <2>1, RestIsQuiet DEF ReadCheckout, Kinds
  <2>2. CASE Update(w, [task[w] EXCEPT !.at = "marking", !.prev = session[task[w].chk]])
    <3> DEFINE t == [task[w] EXCEPT !.at = "marking", !.prev = session[task[w].chk]]
    <3>1. t.at = "marking" /\ t.chk = task[w].chk /\ t.prev = session[task[w].chk]
      BY <1>sk DEF Task
    <3>2. Update(w, t)
      BY <2>2
    <3> HIDE DEF t
    <3>3. task'[w] = t /\ Others(w)
      BY <1>0, <3>2, Updated
    <3>4. Reads(w)
      BY <1>f, <3>1, <3>3 DEF ReadCheckout, Reads, At, facts
    <3> QED BY <3>4 DEF Kinds
  <2> QED BY <1>f, <2>1, <2>2 DEF ReadCheckout
<1>g. ASSUME NEW w \in Workers, MarkPaid(w) PROVE Kinds
  <2>1. Moved(w, "creating")
    BY <1>0, <1>g, GotoMoves DEF MarkPaid, Points
  <2>2. Marks(w)
    BY <1>g, <2>1 DEF MarkPaid, Marks, At
  <2> QED BY <2>2 DEF Kinds
<1>h. ASSUME NEW w \in Workers, CreateOrder(w) PROVE Kinds
  <2>1. CASE (Return(w) \/ Throw(w)) /\ UNCHANGED order
    BY <1>h, <1>r, <2>1, RestIsQuiet DEF CreateOrder, Kinds
  <2>2. CASE /\ order[task[w].chk] = "none" /\ Goto(w, FirstEffect(task[w].chk))
             /\ order' = [order EXCEPT ![task[w].chk] = "PAID"]
    <3>1. FirstEffect(task[w].chk) \in Points
      BY DEF FirstEffect, AfterDelivery, Points, Effects
    <3>2. Moved(w, FirstEffect(task[w].chk))
      BY <1>0, <2>2, <3>1, GotoMoves
    <3>3. Creates(w)
      BY <1>h, <2>2, <3>2 DEF CreateOrder, Creates, At
    <3> QED BY <3>3 DEF Kinds
  <2> QED BY <1>h, <2>1, <2>2 DEF CreateOrder
<1>j. ASSUME NEW w \in Workers, CreateDeliveryOrder(w) \/ SwallowDeliveryError(w) PROVE Kinds
  <2>1. task[w].at = "deliver" /\ Goto(w, AfterDelivery(task[w].chk))
    BY <1>j DEF CreateDeliveryOrder, SwallowDeliveryError, At
  <2>2. AfterDelivery(task[w].chk) \in Points /\ task[w].chk \in Checkouts
    BY <1>t, <2>1 DEF AfterDelivery, Points, Effects, OnCheckout
  <2>3. Moved(w, AfterDelivery(task[w].chk))
    BY <1>0, <2>1, <2>2, GotoMoves
  <2>4. CASE CreateDeliveryOrder(w)
    <3>1. Counted(task[w].chk, "deliver")
      BY <1>0, <2>2, <2>4, CountStep DEF CreateDeliveryOrder, Counted, Effects
    <3>2. Applies(w)
      BY <2>1, <2>3, <2>4, <3>1 DEF CreateDeliveryOrder, Applies, Effects
    <3> QED BY <3>2 DEF Kinds
  <2>5. CASE SwallowDeliveryError(w)
    <3>1. Skips(w)
      BY <2>1, <2>3, <2>5 DEF SwallowDeliveryError, Skips, facts
    <3> QED BY <3>1 DEF Kinds
  <2> QED BY <1>j, <2>4, <2>5
<1>k. ASSUME NEW w \in Workers, IncrementUsage(w) PROVE Kinds
  <2>1. task[w].at = "redeem" /\ Count(task[w].chk, "redeem") /\ Goto(w, "record")
    BY <1>k DEF IncrementUsage, At
  <2>2. Moved(w, "record")
    BY <1>0, <2>1, GotoMoves DEF Points, Effects
  <2>3. Counted(task[w].chk, "redeem")
    BY <1>0, <1>t, <2>1, CountStep DEF Counted, Effects, OnCheckout
  <2>4. Applies(w)
    BY <1>k, <2>1, <2>2, <2>3 DEF IncrementUsage, Applies, Effects
  <2> QED BY <2>4 DEF Kinds
<1>m. ASSUME NEW w \in Workers, RecordCouponUse(w) PROVE Kinds
  <2>1. task[w].at = "record" /\ Count(task[w].chk, "record") /\ Goto(w, "announce")
    BY <1>m DEF RecordCouponUse, At
  <2>2. Moved(w, "announce")
    BY <1>0, <2>1, GotoMoves DEF Points, Effects
  <2>3. Counted(task[w].chk, "record")
    BY <1>0, <1>t, <2>1, CountStep DEF Counted, Effects, OnCheckout
  <2>4. Applies(w)
    BY <1>m, <2>1, <2>2, <2>3 DEF RecordCouponUse, Applies, Effects
  <2> QED BY <2>4 DEF Kinds
<1>n. ASSUME NEW w \in Workers, Announce(w) PROVE Kinds
  <2>1. task[w].at = "announce" /\ Count(task[w].chk, "announce") /\ Rests(w)
    BY <1>n, <1>r DEF Announce, At
  <2>2. Counted(task[w].chk, "announce")
    BY <1>0, <1>t, <2>1, CountStep DEF Counted, Effects, OnCheckout
  <2>3. Applies(w)
    BY <1>n, <2>1, <2>2 DEF Announce, Applies, Effects
  <2> QED BY <2>3 DEF Kinds
<1>o. ASSUME NEW w \in Workers, NEW p \in Payments, RecordWebhookEvent(w, p) PROVE Kinds
  <2>1. /\ "mercadopago" \in Jobs /\ "recording" \in Points
        /\ NoCheckout \in Checkouts \cup {NoCheckout} /\ {} \in SUBSET Checkouts
        /\ p \in Payments \cup {NoPayment}
    BY DEF Jobs, Points
  <2>2. task'[w].at = "recording" /\ Others(w)
    BY <1>0, <1>o, <2>1, NewStarts DEF RecordWebhookEvent
  <2> QED BY <1>o, <2>2, RestIsQuiet DEF RecordWebhookEvent, Rests, Rest, Kinds
<1>p. ASSUME NEW w \in Workers, UpsertWebhookEvent(w) PROVE Kinds
  <2>1. Moved(w, "hydrating")
    BY <1>0, <1>p, GotoMoves DEF UpsertWebhookEvent, Points
  <2> QED BY <1>p, <2>1, RestIsQuiet DEF UpsertWebhookEvent, Moved, Rests, Rest, Kinds
<1>q. ASSUME NEW w \in Workers, HydratePayment(w) PROVE Kinds
  <2> DEFINE c == payFor[task[w].pay]
  <2>1. task[w].pay \in Payments /\ payStatus[task[w].pay] # "none"
    BY <1>q DEF HydratePayment, At, OnEvent, TypeInv, Wiring
  <2>2. c \in linked
    BY <2>1 DEF TypeInv, Wiring
  <2> DEFINE t == [task[w] EXCEPT !.at = "approving", !.chk = c]
  <2>3. \/ /\ payStatus[task[w].pay] = "approved" /\ Update(w, t) /\ UNCHANGED failures
        \/ Goto(w, "closing") /\ failures \subseteq failures'
    BY <1>q DEF HydratePayment, Promotable
  <2>4. UNCHANGED <<session, linked, paidAt, born, order, done, recoveries, payFor, payStatus>>
    BY <1>q DEF HydratePayment
  <2>5. CASE payStatus[task[w].pay] = "approved" /\ Update(w, t) /\ UNCHANGED failures
    <3>1. t.at = "approving" /\ t.chk = c
      BY <1>sk DEF Task
    <3>2. Paid(c, "approved")
      BY <2>1, <2>5 DEF Paid
    <3> HIDE DEF t, c
    <3>3. task'[w] = t /\ Others(w)
      BY <1>0, <2>5, Updated
    <3>4. Decides(w)
      BY <2>2, <2>4, <2>5, <3>1, <3>2, <3>3 DEF Decides, facts
    <3> QED BY <3>4 DEF Kinds
  <2>6. CASE Goto(w, "closing") /\ failures \subseteq failures'
    <3>1. Moved(w, "closing")
      BY <1>0, <2>6, GotoMoves DEF Points
    <3> QED BY <2>4, <2>6, <3>1, RestIsQuiet DEF Moved, Rests, Rest, Kinds
  <2> QED BY <2>3, <2>5, <2>6
<1>s. ASSUME NEW w \in Workers, MarkEventProcessed(w) PROVE Kinds
  BY <1>s, <1>i, RestIsQuiet DEF MarkEventProcessed, Kinds
<1>u. ASSUME NEW w \in Workers, NEW p \in Payments, HandlePaywayWebhook(w, p) PROVE Kinds
  <2>1. payFor[p] \in linked
    BY <1>u DEF HandlePaywayWebhook, TypeInv, Wiring
  <2>2. UNCHANGED <<session, linked, paidAt, born, order, done, recoveries, payFor, payStatus>>
    BY <1>u DEF HandlePaywayWebhook
  <2>3. CASE /\ payStatus[p] = "approved" /\ UNCHANGED failures
             /\ Update(w, New("payway", "approving", payFor[p], p, {}))
    <3>1. /\ "payway" \in Jobs /\ "approving" \in Points /\ {} \in SUBSET Checkouts
          /\ p \in Payments \cup {NoPayment} /\ payFor[p] \in Checkouts \cup {NoCheckout}
      BY <1>l, <2>1 DEF Jobs, Points
    <3>2. task'[w].at = "approving" /\ task'[w].chk = payFor[p] /\ Others(w)
      BY <1>0, <2>3, <3>1, NewStarts
    <3>3. Decides(w)
      BY <2>1, <2>2, <2>3, <3>2 DEF Decides, Paid, facts
    <3> QED BY <3>3 DEF Kinds
  <2>4. CASE UNCHANGED task /\ failures \subseteq failures'
    BY <2>2, <2>4 DEF Quiet, Kinds
  <2> QED BY <1>u, <2>3, <2>4 DEF HandlePaywayWebhook
<1>v. ASSUME NEW w \in Workers, StartReconcile(w) PROVE Kinds
  <2>1. /\ "reconcile" \in Jobs /\ "polling" \in Points
        /\ NoCheckout \in Checkouts \cup {NoCheckout} /\ NoPayment \in Payments \cup {NoPayment}
    BY DEF Jobs, Points
  <2>2. Oldest(Reconcilable, BatchSize) \in SUBSET Checkouts
    BY <1>l, OldestType DEF Reconcilable
  <2>3. task'[w].at = "polling" /\ Others(w)
    BY <1>0, <1>v, <2>1, <2>2, NewStarts DEF StartReconcile
  <2> QED BY <1>v, <2>3, RestIsQuiet DEF StartReconcile, Rests, Rest, Kinds
<1>w. ASSUME NEW w \in Workers, EndReconcile(w) PROVE Kinds
  BY <1>w, <1>i, RestIsQuiet DEF EndReconcile, Kinds
<1>x. ASSUME NEW w \in Workers, ReconcileOne(w) PROVE Kinds
  <2>1. PICK c \in Oldest(task[w].todo, 1), p \in Payments \cup {NoPayment} :
          /\ \/ Provider[c] = "mercadopago" /\ p = latest[c]
             \/ Provider[c] = "payway" /\ p # NoPayment /\ payFor[p] = c
             \/ latest[c] = NoPayment /\ p = NoPayment
          /\ \/ /\ p # NoPayment /\ payStatus[p] = "approved"
                /\ Update(w, New("reconcile", "approving", c, p, task[w].todo \ {c}))
             \/ /\ p # NoPayment /\ payStatus[p] = "rejected"
                /\ Update(w, New("reconcile", "failing", c, p, task[w].todo \ {c}))
             \/ Update(w, New("reconcile", "polling", NoCheckout, NoPayment, task[w].todo \ {c}))
    BY <1>x DEF ReconcileOne
  <2>2. c \in linked
    BY <1>sk, OldestType
  <2>3. /\ "reconcile" \in Jobs /\ {"approving", "failing", "polling"} \subseteq Points
        /\ c \in Checkouts \cup {NoCheckout} /\ task[w].todo \ {c} \in SUBSET Checkouts
        /\ NoCheckout \in Checkouts \cup {NoCheckout} /\ NoPayment \in Payments \cup {NoPayment}
    BY <1>l, <1>sk, <2>2 DEF Jobs, Points
  <2>4. UNCHANGED facts
    BY <1>x DEF ReconcileOne, facts
  <2>5. p # NoPayment => p \in Payments /\ payFor[p] = c
    BY <1>l, <2>1, <2>2 DEF TypeInv, Wiring
  <2>6. CASE /\ p # NoPayment /\ payStatus[p] = "approved"
             /\ Update(w, New("reconcile", "approving", c, p, task[w].todo \ {c}))
    <3>1. task'[w].at = "approving" /\ task'[w].chk = c /\ Others(w)
      BY <1>0, <2>3, <2>6, NewStarts
    <3>2. Decides(w)
      BY <2>2, <2>4, <2>5, <2>6, <3>1 DEF Decides, Paid
    <3> QED BY <3>2 DEF Kinds
  <2>7. CASE /\ p # NoPayment /\ payStatus[p] = "rejected"
             /\ Update(w, New("reconcile", "failing", c, p, task[w].todo \ {c}))
    <3>1. task'[w].at = "failing" /\ task'[w].chk = c /\ Others(w)
      BY <1>0, <2>3, <2>7, NewStarts
    <3>2. Decides(w)
      BY <2>2, <2>4, <2>5, <2>7, <3>1 DEF Decides, Paid
    <3> QED BY <3>2 DEF Kinds
  <2>8. CASE Update(w, New("reconcile", "polling", NoCheckout, NoPayment, task[w].todo \ {c}))
    <3>1. task'[w].at = "polling" /\ Others(w)
      BY <1>0, <2>3, <2>8, NewStarts
    <3> QED BY <2>4, <3>1, RestIsQuiet DEF facts, Rests, Rest, Kinds
  <2> QED BY <2>1, <2>6, <2>7, <2>8
<1>y. ASSUME NEW w \in Workers, MarkCheckoutFailed(w) PROVE Kinds
  <2>1. Moved(w, "publishing")
    BY <1>0, <1>y, GotoMoves DEF MarkCheckoutFailed, Points
  <2>2. Fails(w)
    BY <1>y, <2>1 DEF MarkCheckoutFailed, Fails, At
  <2> QED BY <2>2 DEF Kinds
<1>7. ASSUME NEW w \in Workers, PublishPaymentFailed(w) PROVE Kinds
  BY <1>7, <1>r, RestIsQuiet DEF PublishPaymentFailed, Kinds
<1>z. ASSUME NEW w \in Workers, StepFails(w) PROVE Kinds
  <2>1. UNCHANGED facts
    BY <1>z, Zenon DEF StepFails, facts
  <2>2. CASE Throw(w) \/ Update(w, Idle)
    BY <1>i, <1>r, <2>1, <2>2, RestIsQuiet DEF facts, Kinds
  <2>3. ASSUME NEW c \in Oldest(task[w].todo, 1), At(w, "polling"),
               Update(w, [task[w] EXCEPT !.todo = @ \ {c}])
        PROVE  Kinds
    <3>1. [task[w] EXCEPT !.todo = @ \ {c}].at = task[w].at
      BY <1>sk DEF Task
    <3>2. Rests(w)
      BY <1>0, <2>3, <3>1, Updated DEF At, Rests, Rest
    <3> QED BY <2>1, <3>2, RestIsQuiet DEF facts, Kinds
  <2> QED BY <1>z, <2>2, <2>3 DEF StepFails
<1>1. ASSUME NEW w \in Workers, ClosingFails(w) PROVE Kinds
  <2>1. Goto(w, "closingError") \/ Update(w, Idle)
    BY <1>1 DEF ClosingFails, Goto
  <2>2. Rests(w)
    BY <1>0, <1>i, <2>1, GotoMoves DEF Points, Moved, Rests, Rest
  <2> QED BY <1>1, <2>2, RestIsQuiet DEF ClosingFails, Kinds
<1>2. ASSUME NEW p \in Payments, NEW c \in Checkouts, CreatePayment(p, c) PROVE Kinds
  <2>1. Provides
    BY <1>2 DEF CreatePayment, Provides
  <2> QED BY <2>1 DEF Kinds
<1>3. ASSUME NEW p \in Payments, DecidePayment(p) PROVE Kinds
  <2>1. Provides
    BY <1>3 DEF DecidePayment, Provides
  <2> QED BY <2>1 DEF Kinds
<1>4. ASSUME NEW c \in Checkouts, BecomeDue(c) \/ LeaveWindow(c) PROVE Kinds
  BY <1>4 DEF BecomeDue, LeaveWindow, Quiet, Kinds
<1>5. ASSUME Crash PROVE Kinds
  BY <1>5, IdleType DEF Crash, Quiet, Rest, Kinds
<1>6. ASSUME UNCHANGED vars PROVE Kinds
  BY <1>6 DEF vars, Quiet, Kinds
<1> QED
  BY <1>a, <1>b, <1>c, <1>d, <1>e, <1>f, <1>g, <1>h, <1>j, <1>k, <1>m, <1>n, <1>o,
     <1>p, <1>q, <1>s, <1>u, <1>v, <1>w, <1>x, <1>y, <1>z,
     <1>1, <1>2, <1>3, <1>4, <1>5, <1>6, <1>7
  DEF Next, Proceed, Arrive, Fault, Outside, Promote, ApplyEffects


-----------------------------------------------------------------------------
(* Origin.  A checkout has one inserter, nothing of it exists before it is *)
(* inserted, and only a linked session can be promoted or failed.          *)

Origin ==
  /\ \A w \in Workers :
       /\ task[w].at \in Before => born[task[w].chk] = 0 /\ task[w].prev = "none"
       /\ task[w].at \in {"linking"} \cup Effects => born[task[w].chk] > 0
       /\ task[w].at \in Deciding => task[w].chk \in linked
  /\ \A v, w \in Workers :
       (task[v].at \in Before /\ task[w].at \in Before /\ task[v].chk = task[w].chk) => v = w
  /\ \A c \in Checkouts : c \in linked \/ order[c] # "none" => born[c] > 0

\* A step takes nothing back: links, dates of payment, orders and the
\* provider's decisions stay.
Growth ==
  /\ linked \subseteq linked' /\ paidAt \subseteq paidAt'
  /\ \A c \in Checkouts :
       /\ born[c] > 0 => born'[c] > 0
       /\ order[c] # "none" => order'[c] = order[c]
       /\ \A s \in {"approved", "rejected"} : Paid(c, s) => Paid(c, s)'

LEMMA Chk ==
  ASSUME TypeInv, NEW w \in Workers, task[w].at \in Before \cup Effects \cup Deciding \cup {"linking"}
  PROVE  task[w].chk \in Checkouts
BY DEF TypeInv, Wiring, OnCheckout, Before, Deciding

LEMMA EffectPoints ==
  \A c : FirstEffect(c) \in Effects /\ AfterDelivery(c) \in {"redeem", "announce"}
BY DEF FirstEffect, AfterDelivery, Effects

LEMMA OriginInit == Init => Origin
BY IdleType DEF Init, Origin, Before, Deciding, Effects

LEMMA OriginStep == TypeInv /\ Origin /\ [Next]_vars => Origin' /\ Growth
<1> SUFFICES ASSUME TypeInv, Origin, Kinds PROVE Origin' /\ Growth
  BY Catalogue
<1>0. /\ linked \subseteq Checkouts /\ born \in [Checkouts -> Nat]
      /\ order \in [Checkouts -> {"none", "CONFIRMED", "PAID"}]
      /\ payStatus \in [Payments -> {"none", "pending", "approved", "rejected"}]
      /\ payFor \in [Payments -> Checkouts \cup {NoCheckout}]
  BY DEF TypeInv, TypeOK
<1> USE DEF facts, Others, Moved, Rests
<1>g. ASSUME UNCHANGED <<linked, paidAt, born, order, payFor, payStatus>>
      PROVE  Growth
  BY <1>g DEF Growth, Paid
<1>r. /\ \A e \in Rest : e \notin Before /\ e \notin Deciding /\ e \notin {"linking"} \cup Effects
      /\ \A e \in Before : e \notin Deciding /\ e \notin {"linking"} \cup Effects
      /\ \A e \in Deciding : e \notin {"linking"} \cup Effects
  BY DEF Rest, Before, Deciding, Effects
<1>a. CASE Quiet
  <2>1. Growth
    BY <1>a, <1>g DEF Quiet
  <2>2. Origin'
    BY <1>a, <1>r DEF Quiet, Origin
  <2> QED BY <2>1, <2>2
<1>b. CASE Provides
  <2>1. Origin'
    BY <1>b DEF Provides, Origin
  <2>2. Growth
    BY <1>b, <1>0 DEF Provides, Growth, Paid
  <2> QED BY <2>1, <2>2
<1>c. ASSUME NEW w \in Workers, Enters(w) PROVE Origin' /\ Growth
  <2>1. Growth
    BY <1>c, <1>g DEF Enters
  <2>2. Origin'
    BY <1>c, <1>r DEF Enters, Origin
  <2> QED BY <2>1, <2>2
<1>d. ASSUME NEW w \in Workers, Prepares(w) PROVE Origin' /\ Growth
  <2>1. Growth
    BY <1>d, <1>g DEF Prepares
  <2>2. Origin'
    BY <1>d, <1>r DEF Prepares, Origin
  <2> QED BY <2>1, <2>2
<1>e. ASSUME NEW w \in Workers, Inserts(w) PROVE Origin' /\ Growth
  <2> DEFINE c == task[w].chk
  <2>1. c \in Checkouts /\ task[w].at \in Before /\ born[c] = 0 /\ c \notin linked /\ order[c] = "none"
    BY <1>e, <1>0, Chk DEF Inserts, Origin, Before
  <2>2. PICK k \in Nat \ {0} : born' = [born EXCEPT ![c] = k]
    BY <1>e DEF Inserts
  <2>3. /\ UNCHANGED <<linked, paidAt, failures, payFor, payStatus>>
        /\ order' = order \/ order' = [order EXCEPT ![c] = "CONFIRMED"]
        /\ task'[w].at \in {"linking"} \cup Effects /\ task'[w].chk = c
        /\ \A v \in Workers \ {w} : task'[v] = task[v]
    BY <1>e, EffectPoints DEF Inserts
  <2> HIDE DEF c
  <2>4. \A d \in Checkouts : born'[d] = IF d = c THEN k ELSE born[d]
    BY <1>0, <2>2
  <2>5. \A d \in Checkouts : d # c => order'[d] = order[d]
    BY <1>0, <2>3
  <2>6. Growth
    BY <2>1, <2>2, <2>3, <2>4, <2>5 DEF Growth, Paid
  <2>7. \A v \in Workers \ {w} : task[v].at \in Before => task[v].chk # c
    BY <2>1, <2>3 DEF Origin, c
  <2>8. \A v \in Workers :
          /\ task'[v].at \in Before => v # w /\ born'[task'[v].chk] = 0 /\ task'[v].prev = "none"
          /\ task'[v].at \in {"linking"} \cup Effects => born'[task'[v].chk] > 0
          /\ task'[v].at \in Deciding => task'[v].chk \in linked'
    <3> SUFFICES ASSUME NEW v \in Workers
                 PROVE  /\ task'[v].at \in Before =>
                             v # w /\ born'[task'[v].chk] = 0 /\ task'[v].prev = "none"
                        /\ task'[v].at \in {"linking"} \cup Effects => born'[task'[v].chk] > 0
                        /\ task'[v].at \in Deciding => task'[v].chk \in linked'
      OBVIOUS
    <3>1. CASE v = w
      BY <1>r, <2>1, <2>2, <2>3, <2>4, <3>1
    <3>2. CASE v # w
      <4>1. task[v].at \in Before \cup Effects \cup {"linking"} => task[v].chk \in Checkouts
        BY Chk
      <4> QED BY <2>2, <2>3, <2>4, <2>7, <3>2, <4>1 DEF Origin
    <3> QED BY <3>1, <3>2
  <2>9. Origin'
    BY <2>1, <2>2, <2>3, <2>4, <2>5, <2>8 DEF Origin
  <2> QED BY <2>6, <2>9
<1>f. ASSUME NEW w \in Workers, Links(w) PROVE Origin' /\ Growth
  <2>1. Growth
    BY <1>f DEF Links, Growth, Paid
  <2>2. Origin'
    BY <1>f, <1>r DEF Links, Origin
  <2> QED BY <2>1, <2>2
<1>h. ASSUME NEW w \in Workers, Decides(w) PROVE Origin' /\ Growth
  <2>1. Growth
    BY <1>h, <1>g DEF Decides
  <2>2. task'[w].at \in Deciding
    BY <1>h DEF Decides, Deciding
  <2>3. Origin'
    BY <1>h, <1>r, <2>2 DEF Decides, Origin
  <2> QED BY <2>1, <2>3
<1>i. ASSUME NEW w \in Workers, Reads(w) PROVE Origin' /\ Growth
  <2>1. Growth
    BY <1>i, <1>g DEF Reads
  <2>2. task[w].at \in Deciding /\ task'[w].at \in Deciding
    BY <1>i DEF Reads, Deciding
  <2>3. Origin'
    BY <1>i, <1>r, <2>2 DEF Reads, Origin
  <2> QED BY <2>1, <2>3
<1>j. ASSUME NEW w \in Workers, Marks(w) PROVE Origin' /\ Growth
  <2>1. Growth
    BY <1>j DEF Marks, Growth, Paid
  <2>2. task[w].at \in Deciding /\ task'[w].at \in Deciding
    BY <1>j DEF Marks, Deciding
  <2>3. Origin'
    BY <1>j, <1>r, <2>2 DEF Marks, Origin
  <2> QED BY <2>1, <2>3
<1>k. ASSUME NEW w \in Workers, Creates(w) PROVE Origin' /\ Growth
  <2> DEFINE c == task[w].chk
  <2>1. task[w].at \in Deciding /\ task'[w].at \in Effects /\ task'[w].chk = c
    BY <1>k, EffectPoints DEF Creates, Deciding
  <2>2. c \in linked /\ c \in Checkouts /\ born[c] > 0
    BY <1>0, <2>1 DEF Origin
  <2>3. \A d \in Checkouts : d # c => order'[d] = order[d]
    BY <1>k, <1>0 DEF Creates
  <2>4. Growth
    BY <1>k, <2>3 DEF Creates, Growth, Paid
  <2>5. Origin'
    BY <1>k, <1>r, <2>1, <2>2, <2>3 DEF Creates, Origin
  <2> QED BY <2>4, <2>5
<1>l. ASSUME NEW w \in Workers, Skips(w) PROVE Origin' /\ Growth
  <2>1. Growth
    BY <1>l, <1>g DEF Skips
  <2>2. task[w].at \in Effects /\ task'[w].at \in Effects
    BY <1>l, EffectPoints DEF Skips, Effects
  <2>3. Origin'
    BY <1>l, <1>r, <2>2 DEF Skips, Origin
  <2> QED BY <2>1, <2>3
<1>m. ASSUME NEW w \in Workers, Applies(w) PROVE Origin' /\ Growth
  <2>1. Growth
    BY <1>m, <1>g DEF Applies
  <2>2. /\ task[w].at \in Effects
        /\ task'[w].at \in Rest \/ (task'[w].at \in Effects /\ task'[w].chk = task[w].chk)
    <3>1. task[w].at \in Effects
      BY <1>m DEF Applies
    <3>2. \/ Moved(w, AfterDelivery(task[w].chk)) \/ Moved(w, "record") \/ Moved(w, "announce")
          \/ task'[w].at \in Rest
      BY <1>m DEF Applies
    <3>3. {"record", "announce", AfterDelivery(task[w].chk)} \subseteq Effects
      BY EffectPoints DEF Effects
    <3> QED BY <3>1, <3>2, <3>3
  <2>3. UNCHANGED <<linked, born, order>> /\ \A v \in Workers \ {w} : task'[v] = task[v]
    BY <1>m DEF Applies
  <2>4. Origin'
    BY <1>r, <2>2, <2>3 DEF Origin
  <2> QED BY <2>1, <2>4
<1>n. ASSUME NEW w \in Workers, Fails(w) PROVE Origin' /\ Growth
  <2>1. Growth
    BY <1>n, <1>g DEF Fails
  <2>2. task[w].at \in Deciding /\ task'[w].at \in Deciding
    BY <1>n DEF Fails, Deciding
  <2>3. Origin'
    BY <1>n, <1>r, <2>2 DEF Fails, Origin
  <2> QED BY <2>1, <2>3
<1> QED
  BY <1>a, <1>b, <1>c, <1>d, <1>e, <1>f, <1>h, <1>i, <1>j, <1>k, <1>l, <1>m, <1>n
  DEF Kinds


-----------------------------------------------------------------------------
(* The trail.  What was published stays so, and a task leaves "publishing" *)
(* by publishing, or by a fault that is written down.                      *)

Trail ==
  /\ \A c \in Checkouts : Traced(c) => Traced(c)'
  /\ UNCHANGED <<unsaid, faults>> \/ faults' > 0

\* Of the steps of one task only that of a publisher touches the trail.
LEMMA TrailKept ==
  ASSUME TypeInv, NEW w \in Workers, NEW t, Update(w, t), task[w].at # "publishing",
         failures \subseteq failures', unsaid' = unsaid, faults' = faults
  PROVE  Trail
<1>1. \A v \in Workers : task[v].at = "publishing" => task'[v] = task[v]
  BY DEF Update, TypeInv, TypeOK
<1> QED BY <1>1 DEF Trail, Traced, At

LEMMA TrailWritten ==
  ASSUME TypeInv, failures' = failures, NEW W \in SUBSET Workers,
         unsaid' = unsaid \cup Unpublished(W), faults' = faults + 1,
         \A v \in Workers \ W : task'[v] = task[v]
  PROVE  Trail
<1>1. faults' > 0
  BY DEF TypeInv, TypeOK
<1>2. ASSUME NEW c \in Checkouts, Traced(c) PROVE Traced(c)'
  BY <1>2 DEF Traced, Unpublished, At
<1> QED BY <1>1, <1>2 DEF Trail

LEMMA TrailStep == TypeInv /\ [Next]_vars => Trail
<1> SUFFICES ASSUME TypeInv, [Next]_vars PROVE Trail
  OBVIOUS
<1> USE DEF outbox
<1>0. /\ task \in [Workers -> Task] /\ faults \in Nat
      /\ (UNCHANGED <<outbox, task>> /\ faults' = faults => Trail)
  BY DEF Trail, Traced, At, TypeInv, TypeOK
<1>1. ASSUME NEW w \in Workers,
             \/ ValidateCoupon(w) \/ GenerateOrderNumber(w) \/ InsertRow(w) \/ LinkPreference(w)
             \/ ReadCheckout(w) \/ MarkPaid(w) \/ CreateOrder(w)
             \/ (\E c \in Checkouts : StartCreate(w, c))
             \/ (\E p \in Payments : RecordWebhookEvent(w, p))
      PROVE  Trail
  <2>1. PICK t : Update(w, t)
    BY <1>1
    DEF ValidateCoupon, GenerateOrderNumber, InsertRow, LinkPreference, ReadCheckout, MarkPaid,
        CreateOrder, StartCreate, RecordWebhookEvent, Return, Throw, Goto
  <2>2. task[w].at # "publishing" /\ UNCHANGED outbox /\ faults' = faults
    BY <1>1
    DEF ValidateCoupon, GenerateOrderNumber, InsertRow, LinkPreference, ReadCheckout, MarkPaid,
        CreateOrder, StartCreate, RecordWebhookEvent, At
  <2> QED BY <2>1, <2>2, TrailKept
<1>2. ASSUME NEW w \in Workers,
             \/ CreateDeliveryOrder(w) \/ IncrementUsage(w) \/ RecordCouponUse(w) \/ Announce(w)
             \/ UpsertWebhookEvent(w) \/ HydratePayment(w) \/ MarkEventProcessed(w)
             \/ EndReconcile(w) \/ MarkCheckoutFailed(w) \/ StartReconcile(w)
      PROVE  Trail
  <2>1. PICK t : Update(w, t)
    BY <1>2
    DEF CreateDeliveryOrder, IncrementUsage, RecordCouponUse, Announce, UpsertWebhookEvent,
        HydratePayment, MarkEventProcessed, EndReconcile, MarkCheckoutFailed, StartReconcile,
        Return, Goto
  <2>2. /\ task[w].at # "publishing" /\ failures \subseteq failures'
        /\ unsaid' = unsaid /\ faults' = faults
    BY <1>2
    DEF CreateDeliveryOrder, IncrementUsage, RecordCouponUse, Announce, UpsertWebhookEvent,
        HydratePayment, MarkEventProcessed, EndReconcile, MarkCheckoutFailed, StartReconcile, At
  <2> QED BY <2>1, <2>2, TrailKept
<1>3. ASSUME NEW w \in Workers, ReconcileOne(w) PROVE Trail
  <2>1. PICK t : Update(w, t)
    BY <1>3, Zenon DEF ReconcileOne
  <2>2. task[w].at # "publishing" /\ UNCHANGED outbox /\ faults' = faults
    BY <1>3 DEF ReconcileOne, At
  <2> QED BY <2>1, <2>2, TrailKept
<1>4. ASSUME NEW w \in Workers, NEW p \in Payments, HandlePaywayWebhook(w, p) PROVE Trail
  <2>1. /\ At(w, "idle") /\ failures \subseteq failures' /\ unsaid' = unsaid /\ faults' = faults
        /\ UNCHANGED task \/ \E t : Update(w, t)
    BY <1>4 DEF HandlePaywayWebhook
  <2>2. CASE UNCHANGED task
    BY <1>0, <2>1, <2>2 DEF Trail, Traced, At
  <2> QED BY <2>1, <2>2, TrailKept DEF At
<1>5. ASSUME NEW w \in Workers, PublishPaymentFailed(w) PROVE Trail
  <2>1. PICK t : Update(w, t)
    BY <1>5 DEF PublishPaymentFailed, Return
  <2>2. /\ failures' = failures \cup {task[w].chk} /\ unsaid' = unsaid /\ faults' = faults
        /\ \A v \in Workers \ {w} : task'[v] = task[v]
    BY <1>0, <1>5, <2>1 DEF PublishPaymentFailed, Update
  <2> QED BY <1>0, <2>2 DEF Trail, Traced, At
<1>6. ASSUME NEW w \in Workers, StepFails(w) PROVE Trail
  <2>1. PICK t : Update(w, t)
    BY <1>6, Zenon DEF StepFails, Throw
  <2>2. /\ failures' = failures /\ unsaid' = unsaid \cup Unpublished({w})
        /\ faults' = faults + 1
    BY <1>6, Zenon DEF StepFails
  <2>3. \A v \in Workers \ {w} : task'[v] = task[v]
    BY <1>0, <2>1 DEF Update
  <2> QED BY <2>2, <2>3, TrailWritten
<1>7. ASSUME NEW w \in Workers, SwallowDeliveryError(w) \/ ClosingFails(w) PROVE Trail
  <2>1. PICK t : Update(w, t)
    BY <1>7, Zenon DEF SwallowDeliveryError, ClosingFails, Goto
  <2>2. task[w].at # "publishing" /\ UNCHANGED outbox /\ faults' = faults + 1
    BY <1>7 DEF SwallowDeliveryError, ClosingFails, At
  <2>3. Unpublished({w}) = {}
    BY <2>2 DEF Unpublished, At
  <2>4. \A v \in Workers \ {w} : task'[v] = task[v]
    BY <1>0, <2>1 DEF Update
  <2> QED BY <2>2, <2>3, <2>4, TrailWritten
<1>8. CASE Crash
  BY <1>8, TrailWritten DEF Crash
<1>9. ASSUME \/ \E p \in Payments : DecidePayment(p) \/ \E c \in Checkouts : CreatePayment(p, c)
             \/ \E c \in Checkouts : BecomeDue(c) \/ LeaveWindow(c)
             \/ UNCHANGED vars
      PROVE  Trail
  BY <1>0, <1>9 DEF DecidePayment, CreatePayment, BecomeDue, LeaveWindow, vars
<1> QED
  BY <1>1, <1>2, <1>3, <1>4, <1>5, <1>6, <1>7, <1>8, <1>9
  DEF Next, Proceed, Arrive, Fault, Outside, Promote, ApplyEffects


-----------------------------------------------------------------------------
(* Evidence.  What a task learnt before an await is still true after it:   *)
(* an approval and a rejection are final, a date of payment stays, and so  *)
(* does the trail.                                                         *)

Carries(w) ==
  /\ task[w].at \in {"approving", "marking", "creating"} => Paid(task[w].chk, "approved")
  /\ task[w].at = "creating" => task[w].chk \in paidAt
  /\ task[w].at = "failing" => Paid(task[w].chk, "rejected")
  /\ task[w].at \in {"marking", "creating"} \cup Effects =>
       (task[w].prev = "FAILED" =>
          Traced(task[w].chk) /\ Paid(task[w].chk, "rejected"))
  /\ task[w].at \in Effects =>
       order[task[w].chk] # "none" /\ (task[w].prev # "none" => order[task[w].chk] = "PAID")

Evidence == PaidMeansApproved /\ FailureTrail /\ \A w \in Workers : Carries(w)

LEMMA EvidenceInit == Init => Evidence
BY IdleType DEF Init, Evidence, PaidMeansApproved, FailureTrail, Carries, Effects

LEMMA CarriesOn ==
  ASSUME TypeInv, Evidence, Growth, Trail, NEW v \in Workers, task'[v] = task[v]
  PROVE  Carries(v)'
<1>1. task[v].at \in {"approving", "marking", "creating", "failing"} \cup Effects =>
        task[v].chk \in Checkouts
  BY Chk DEF Deciding
<1>2. Carries(v)
  BY DEF Evidence
<1> QED BY <1>1, <1>2 DEF Carries, Growth, Trail

LEMMA RestCarries ==
  ASSUME NEW v \in Workers, task'[v].at \in Rest \cup Before \cup {"linking"}
  PROVE  Carries(v)'
BY DEF Carries, Rest, Before, Effects

\* What FailureTrail asks of a step that may mark a session or publish a recovery.
LEMMA TrailOn ==
  ASSUME TypeInv, Evidence, Growth, Trail,
         \A c \in Checkouts : session'[c] = "FAILED" =>
            session[c] = "FAILED" \/ (Traced(c)' /\ Paid(c, "rejected")'),
         \A c \in Checkouts : c \in recoveries' =>
            \/ c \in recoveries
            \/ Traced(c) /\ Paid(c, "rejected") /\ order[c] = "PAID"
  PROVE  FailureTrail'
<1> SUFFICES ASSUME NEW c \in Checkouts
             PROVE  /\ session'[c] = "FAILED" => Traced(c)' /\ Paid(c, "rejected")'
                    /\ c \in recoveries' =>
                         Traced(c)' /\ Paid(c, "rejected")' /\ order'[c] = "PAID"
                    /\ c \in unsaid' => faults' > 0
  BY DEF FailureTrail
<1>1. /\ session[c] = "FAILED" => Traced(c) /\ Paid(c, "rejected")
      /\ c \in recoveries => Traced(c) /\ Paid(c, "rejected") /\ order[c] = "PAID"
      /\ c \in unsaid => faults > 0
  BY DEF Evidence, FailureTrail
<1>2. /\ Traced(c) => Traced(c)'
      /\ Paid(c, "rejected") => Paid(c, "rejected")'
      /\ order[c] = "PAID" => order'[c] = "PAID"
  BY DEF Growth, Trail
<1>3. c \in unsaid' => faults' > 0
  BY <1>1 DEF Trail
<1> QED BY <1>1, <1>2, <1>3

\* While no session and no order changes and no recovery is published, growth
\* is all that the global part needs.
LEMMA GlobalOn ==
  ASSUME TypeInv, Evidence, Growth, Trail, UNCHANGED <<session, paidAt, order, recoveries>>
  PROVE  PaidMeansApproved' /\ FailureTrail'
<1>1. PaidMeansApproved'
  BY DEF Evidence, PaidMeansApproved, Growth
<1>2. FailureTrail'
  BY TrailOn DEF Evidence, FailureTrail
<1> QED BY <1>1, <1>2

LEMMA EvidenceStep == TypeInv /\ Origin /\ Evidence /\ [Next]_vars => Evidence'
<1> SUFFICES ASSUME TypeInv, Origin, Evidence, Kinds, Growth, Trail PROVE Evidence'
  BY Catalogue, OriginStep, TrailStep
<1> USE DEF facts, Others, Moved, Rests
<1>0. /\ session \in [Checkouts -> SessionStatus] /\ paidAt \subseteq Checkouts
      /\ order \in [Checkouts -> {"none", "CONFIRMED", "PAID"}] /\ faults \in Nat
  BY DEF TypeInv, TypeOK
<1>c. \A v \in Workers : Carries(v)
  BY DEF Evidence
<1>o. ASSUME NEW w \in Workers, Others(w), Carries(w)' PROVE \A v \in Workers : Carries(v)'
  BY <1>o, CarriesOn
<1>a. CASE Quiet
  <2>1. \A v \in Workers : Carries(v)'
    BY <1>a, CarriesOn, RestCarries DEF Quiet
  <2> QED BY <1>a, <2>1, GlobalOn DEF Quiet, Evidence
<1>b. CASE Provides
  <2>1. \A v \in Workers : Carries(v)'
    BY <1>b, CarriesOn DEF Provides
  <2> QED BY <1>b, <2>1, GlobalOn DEF Provides, Evidence
<1>d. ASSUME NEW w \in Workers, Enters(w) \/ Prepares(w) PROVE Evidence'
  <2>1. task'[w].at \in Before /\ Others(w) /\ UNCHANGED facts
    BY <1>d DEF Enters, Prepares
  <2>2. Carries(w)'
    BY <2>1, RestCarries
  <2> QED BY <1>o, <2>1, <2>2, GlobalOn DEF Evidence
<1>e. ASSUME NEW w \in Workers, Inserts(w) PROVE Evidence'
  <2> DEFINE c == task[w].chk
  <2>1. c \in Checkouts /\ born[c] = 0 /\ task[w].prev = "none" /\ order[c] = "none"
    BY <1>e, <1>0, Chk DEF Inserts, Origin, Before
  <2>2. CASE /\ session' = [session EXCEPT ![c] = "PENDING"]
             /\ Moved(w, "linking") /\ UNCHANGED order
    <3>1. Carries(w)'
      BY <2>2, RestCarries
    <3>2. PaidMeansApproved'
      BY <1>e, <1>0, <2>2 DEF Inserts, Evidence, PaidMeansApproved, Growth
    <3>3. FailureTrail'
      BY <1>e, <1>0, <2>2, TrailOn DEF Inserts
    <3> QED BY <1>o, <2>2, <3>1, <3>2, <3>3 DEF Evidence
  <2>3. CASE /\ order' = [order EXCEPT ![c] = "CONFIRMED"]
             /\ Moved(w, FirstEffect(c)) /\ UNCHANGED session
    <3>1. /\ task'[w].at \in Effects /\ task'[w].chk = c /\ task'[w].prev = "none"
          /\ order'[c] # "none"
      BY <1>0, <2>1, <2>3, EffectPoints
    <3>2. Carries(w)'
      BY <3>1 DEF Carries, Effects
    <3>3. PaidMeansApproved'
      BY <1>e, <1>0, <2>1, <2>3 DEF Inserts, Evidence, PaidMeansApproved, Growth
    <3>4. FailureTrail'
      BY <1>e, <2>3, TrailOn DEF Inserts
    <3> QED BY <1>o, <2>3, <3>2, <3>3, <3>4 DEF Evidence
  <2> QED BY <1>e, <2>2, <2>3 DEF Inserts
<1>f. ASSUME NEW w \in Workers, Links(w) PROVE Evidence'
  <2>1. Carries(w)'
    BY <1>f, RestCarries DEF Links
  <2> QED BY <1>f, <1>o, <2>1, GlobalOn DEF Links, Evidence
<1>h. ASSUME NEW w \in Workers, Decides(w) PROVE Evidence'
  <2>1. task'[w].chk \in Checkouts
    BY <1>h DEF Decides, TypeInv, TypeOK
  <2>2. Carries(w)'
    BY <1>h, <2>1 DEF Decides, Carries, Growth, Trail, Effects
  <2> QED BY <1>h, <1>o, <2>2, GlobalOn DEF Decides, Evidence
<1>i. ASSUME NEW w \in Workers, Reads(w) PROVE Evidence'
  <2> DEFINE c == task[w].chk
  <2>1. c \in Checkouts /\ Paid(c, "approved")
    BY <1>i, <1>c, Chk DEF Reads, Carries, Deciding
  <2>2. session[c] = "FAILED" => Traced(c) /\ Paid(c, "rejected")
    BY <2>1 DEF Evidence, FailureTrail
  <2>3. Carries(w)'
    BY <1>i, <2>1, <2>2 DEF Reads, Carries, Growth, Trail, Effects
  <2> QED BY <1>i, <1>o, <2>3, GlobalOn DEF Reads, Evidence
<1>j. ASSUME NEW w \in Workers, Marks(w) PROVE Evidence'
  <2> DEFINE c == task[w].chk
  <2>1. /\ c \in Checkouts /\ Paid(c, "approved")
        /\ task[w].prev = "FAILED" => Traced(c) /\ Paid(c, "rejected")
    BY <1>j, <1>c, Chk DEF Marks, Carries, Deciding
  <2>2. Carries(w)'
    BY <1>j, <2>1 DEF Marks, Carries, Growth, Trail, Effects
  <2>3. \A d \in Checkouts : d = c => Paid(d, "approved")'
    BY <2>1 DEF Growth
  <2>4. PaidMeansApproved'
    BY <1>j, <1>0, <2>1, <2>3 DEF Marks, Evidence, PaidMeansApproved, Growth
  <2>5. FailureTrail'
    BY <1>j, <1>0, TrailOn DEF Marks
  <2> QED BY <1>j, <1>o, <2>2, <2>4, <2>5 DEF Marks, Evidence
<1>k. ASSUME NEW w \in Workers, Creates(w) PROVE Evidence'
  <2> DEFINE c == task[w].chk
  <2>1. /\ c \in Checkouts /\ Paid(c, "approved") /\ c \in paidAt
        /\ task[w].prev = "FAILED" => Traced(c) /\ Paid(c, "rejected")
    BY <1>k, <1>c, Chk DEF Creates, Carries, Deciding
  <2>2. /\ task'[w].at \in Effects /\ task'[w].chk = c /\ order'[c] = "PAID"
        /\ task'[w].prev = task[w].prev
    BY <1>k, <1>0, <2>1, EffectPoints DEF Creates
  <2>3. Carries(w)'
    BY <1>k, <2>1, <2>2 DEF Creates, Carries, Growth, Trail, Effects
  <2>4. PaidMeansApproved'
    BY <1>k, <1>0, <2>1, <2>2 DEF Creates, Evidence, PaidMeansApproved, Growth
  <2>5. FailureTrail'
    BY <1>k, TrailOn DEF Creates
  <2> QED BY <1>k, <1>o, <2>3, <2>4, <2>5 DEF Creates, Evidence
<1>l. ASSUME NEW w \in Workers, task[w].at \in Effects, task'[w].at \in Effects,
             task'[w].chk = task[w].chk, task'[w].prev = task[w].prev
      PROVE  Carries(w)'
  <2>1. task[w].chk \in Checkouts
    BY <1>l, Chk
  <2>2. Carries(w)
    BY <1>c
  <2> QED BY <1>l, <2>1, <2>2 DEF Carries, Growth, Trail, Effects
<1>m. ASSUME NEW w \in Workers, Skips(w) PROVE Evidence'
  <2>1. Carries(w)'
    BY <1>l, <1>m, EffectPoints DEF Skips, Effects
  <2> QED BY <1>m, <1>o, <2>1, GlobalOn DEF Skips, Evidence
<1>n. ASSUME NEW w \in Workers, Applies(w) PROVE Evidence'
  <2> DEFINE c == task[w].chk
  <2>1. task[w].at \in Effects /\ c \in Checkouts /\ UNCHANGED <<session, paidAt, order>>
    BY <1>n, Chk DEF Applies
  <2>2. Others(w) /\ (Rests(w) \/ \E point \in Effects : Moved(w, point))
    <3>1. {"record", "announce", AfterDelivery(task[w].chk)} \subseteq Effects
      BY EffectPoints DEF Effects
    <3> QED BY <1>n, <3>1 DEF Applies
  <2>3. Carries(w)'
    BY <1>l, <2>1, <2>2, RestCarries
  <2>4. PaidMeansApproved'
    BY <2>1 DEF Evidence, PaidMeansApproved, Growth
  <2>5. CASE UNCHANGED recoveries
    BY <1>o, <2>1, <2>2, <2>3, <2>5, GlobalOn DEF Evidence
  <2>6. CASE task[w].prev = "FAILED" /\ recoveries' = recoveries \cup {c}
    <3>1. Traced(c) /\ Paid(c, "rejected") /\ order[c] = "PAID"
      BY <1>c, <2>1, <2>6 DEF Carries
    <3>2. FailureTrail'
      BY <2>1, <2>6, <3>1, TrailOn
    <3> QED BY <1>o, <2>2, <2>3, <2>4, <3>2 DEF Evidence
  <2> QED BY <1>n, <2>5, <2>6 DEF Applies
<1>p. ASSUME NEW w \in Workers, Fails(w) PROVE Evidence'
  <2> DEFINE c == task[w].chk
  <2>1. c \in Checkouts /\ Paid(c, "rejected")
    BY <1>p, <1>c, Chk DEF Fails, Carries, Deciding
  <2>2. task'[w].at = "publishing" /\ task'[w].chk = c
    BY <1>p DEF Fails
  <2>3. Carries(w)'
    BY <2>2 DEF Carries, Effects
  <2>4. \A d \in Checkouts : d = c => Paid(d, "rejected")' /\ Traced(d)'
    BY <2>1, <2>2 DEF Growth, Traced, At
  <2>5. PaidMeansApproved'
    BY <1>p, <1>0, <2>1 DEF Fails, Evidence, PaidMeansApproved, Growth
  <2>6. FailureTrail'
    BY <1>p, <1>0, <2>4, TrailOn DEF Fails
  <2> QED BY <1>p, <1>o, <2>3, <2>5, <2>6 DEF Fails, Evidence
<1> QED
  BY <1>a, <1>b, <1>d, <1>e, <1>f, <1>h, <1>i, <1>j, <1>k, <1>m, <1>n, <1>p DEF Kinds

\* The whole invariant is inductive as it stands.
Sound == TypeInv /\ Origin /\ Evidence

LEMMA Soundness == Spec => []Sound
<1>1. Init => Sound
  BY TypeInit, OriginInit, EvidenceInit DEF Sound
<1>2. Sound /\ [Next]_vars => Sound'
  BY TypeStep, OriginStep, EvidenceStep DEF Sound
<1> QED BY <1>1, <1>2, PTL DEF Spec

\* No order without a payment the provider approved, whatever tasks do between
\* their awaits (PaidMeansApproved).
THEOREM NoOrderUnpaid == Spec => []PaidMeansApproved
<1>1. Sound => PaidMeansApproved
  BY DEF Sound, Evidence
<1> QED BY <1>1, Soundness, PTL

\* Every session marked FAILED, and every recovery, has a rejection behind it and
\* a failure that was published, is about to be, or was cut off by a fault exactly
\* between the write and the event (FailureTrail).
THEOREM FailuresAreTraced == Spec => []FailureTrail
<1>1. Sound => FailureTrail
  BY DEF Sound, Evidence
<1> QED BY <1>1, Soundness, PTL


-----------------------------------------------------------------------------
(* Once.  The task that inserted an order is alone with its effects, and   *)
(* those from its point on are not done yet.                               *)

Ahead(point) ==
  IF point = "deliver" THEN Effects
  ELSE IF point = "redeem" THEN {"redeem", "record", "announce"}
  ELSE IF point = "record" THEN {"record", "announce"} ELSE {"announce"}

Once ==
  /\ \A c \in Checkouts :
       /\ \A e \in Effects : done[c][e] <= 1 /\ (order[c] = "none" => done[c][e] = 0)
       /\ done[c]["record"] <= done[c]["redeem"]
  /\ \A w \in Workers : task[w].at \in Effects =>
       /\ \A e \in Ahead(task[w].at) : done[task[w].chk][e] = 0
       /\ task[w].at = "record" => done[task[w].chk]["redeem"] = 1
  /\ \A v, w \in Workers :
       (task[v].at \in Effects /\ task[w].at \in Effects /\ task[v].chk = task[w].chk) => v = w

LEMMA AheadOf ==
  /\ \A p : Ahead(p) \subseteq Effects
  /\ \A p \in Effects : p \in Ahead(p)
  /\ Ahead("record") = Ahead("redeem") \ {"redeem"}
  /\ Ahead("announce") = Ahead("record") \ {"record"}
  /\ \A c : Ahead(AfterDelivery(c)) \subseteq Ahead("deliver") \ {"deliver"}
  /\ \A c : AfterDelivery(c) # "record" /\ FirstEffect(c) # "record"
BY DEF Ahead, Effects, AfterDelivery, FirstEffect

LEMMA OnceInit == Init => Once
BY IdleType DEF Init, Once, Effects

LEMMA OnceStep == TypeInv /\ Origin /\ Evidence /\ Once /\ [Next]_vars => Once'
<1> SUFFICES ASSUME TypeInv, Origin, Evidence, Once, Kinds PROVE Once'
  BY Catalogue
<1> USE DEF facts, Others, Moved, Rests
<1>0. /\ done \in [Checkouts -> [Effects -> Nat]]
      /\ order \in [Checkouts -> {"none", "CONFIRMED", "PAID"}]
  BY DEF TypeInv, TypeOK
<1>1. \A v \in Workers : task[v].at \in Effects =>
        task[v].chk \in Checkouts /\ order[task[v].chk] # "none"
  BY Chk DEF Evidence, Carries
\* No task reaches an effect, and no row of an order or of its effects changes.
<1>a. ASSUME UNCHANGED <<order, done>>,
             \A v \in Workers : task'[v] = task[v] \/ task'[v].at \notin Effects
      PROVE  Once'
  BY <1>a DEF Once
<1>b. CASE Quiet
  <2>1. \A v \in Workers : task'[v] = task[v] \/ task'[v].at \notin Effects
    BY <1>b DEF Quiet, Rest, Effects
  <2> QED BY <1>a, <1>b, <2>1 DEF Quiet
<1>c. CASE Provides
  BY <1>a, <1>c DEF Provides
<1>d. ASSUME NEW w \in Workers,
             \/ Enters(w) \/ Prepares(w) \/ Links(w) \/ Decides(w) \/ Reads(w) \/ Marks(w) \/ Fails(w)
      PROVE  Once'
  <2>1. Others(w) /\ UNCHANGED <<order, done>>
    BY <1>d DEF Enters, Prepares, Links, Decides, Reads, Marks, Fails
  <2>2. task'[w].at \in Before \cup Deciding \cup Rest
    BY <1>d DEF Enters, Prepares, Links, Decides, Reads, Marks, Fails, Deciding
  <2>3. task'[w].at \notin Effects
    BY <2>2 DEF Before, Deciding, Rest, Effects
  <2> QED BY <1>a, <2>1, <2>3
\* A new order: nobody is at its effects and none of them is done.
<1>e. ASSUME NEW w \in Workers, NEW c \in Checkouts, c = task[w].chk, order[c] = "none",
             NEW s \in {"CONFIRMED", "PAID"}, order' = [order EXCEPT ![c] = s],
             Moved(w, FirstEffect(c)), UNCHANGED done
      PROVE  Once'
  <2>1. task'[w].chk = c /\ task'[w].at \in Effects /\ task'[w].at # "record"
    BY <1>e, EffectPoints, AheadOf
  <2>2. \A v \in Workers \ {w} : task[v].at \in Effects => task[v].chk # c
    BY <1>e, <1>1
  <2>3. \A d \in Checkouts : order'[d] = IF d = c THEN s ELSE order[d]
    BY <1>e, <1>0
  <2>4. \A e \in Effects : done[c][e] = 0
    BY <1>e DEF Once
  <2>5. \A d \in Checkouts :
          /\ \A e \in Effects : done'[d][e] <= 1 /\ (order'[d] = "none" => done'[d][e] = 0)
          /\ done'[d]["record"] <= done'[d]["redeem"]
    BY <1>e, <2>3 DEF Once
  <2>6. \A v \in Workers : task'[v].at \in Effects =>
          /\ \A e \in Ahead(task'[v].at) : done'[task'[v].chk][e] = 0
          /\ task'[v].at = "record" => done'[task'[v].chk]["redeem"] = 1
    BY <1>e, <2>1, <2>4, AheadOf DEF Once
  <2>7. \A v, u \in Workers :
          (task'[v].at \in Effects /\ task'[u].at \in Effects /\ task'[v].chk = task'[u].chk) => v = u
    BY <1>e, <2>1, <2>2 DEF Once
  <2> QED BY <2>5, <2>6, <2>7 DEF Once
<1>f. ASSUME NEW w \in Workers, Inserts(w) PROVE Once'
  <2>1. task[w].chk \in Checkouts /\ order[task[w].chk] = "none"
    BY <1>f, <1>0, Chk DEF Inserts, Origin, Before
  <2>2. CASE Moved(w, "linking") /\ UNCHANGED order
    BY <1>a, <1>f, <2>2 DEF Inserts, Effects
  <2>3. CASE /\ order' = [order EXCEPT ![task[w].chk] = "CONFIRMED"]
             /\ Moved(w, FirstEffect(task[w].chk))
    BY <1>e, <1>f, <2>1, <2>3 DEF Inserts
  <2> QED BY <1>f, <2>2, <2>3 DEF Inserts
<1>g. ASSUME NEW w \in Workers, Creates(w) PROVE Once'
  <2>1. task[w].chk \in Checkouts
    BY <1>g, Chk DEF Creates, Deciding
  <2> QED BY <1>e, <1>g, <2>1 DEF Creates
\* The owner moves on within its order.
<1>h. ASSUME NEW w \in Workers, task[w].at \in Effects, Others(w),
             NEW c \in Checkouts, c = task[w].chk, UNCHANGED order,
             done' = done \/ Counted(c, task[w].at),
             task[w].at = "record" => done[c]["redeem"] = 1,
             \/ Rests(w)
             \/ /\ task'[w].at \in Effects /\ task'[w].chk = c
                /\ Ahead(task'[w].at) \subseteq Ahead(task[w].at) \ {task[w].at}
                /\ task'[w].at = "record" => task[w].at = "redeem" /\ Counted(c, "redeem")
      PROVE  Once'
  <2>1. /\ \A e \in Ahead(task[w].at) : done[c][e] = 0
        /\ order[c] # "none" /\ done[c][task[w].at] = 0
        /\ \A v \in Workers \ {w} : task[v].at \in Effects => task[v].chk # c
    BY <1>h, <1>1, AheadOf DEF Once
  <2>2. /\ \A d \in Checkouts \ {c}, e \in Effects : done'[d][e] = done[d][e]
        /\ \A e \in Effects \ {task[w].at} : done'[c][e] = done[c][e]
        /\ done'[c][task[w].at] \in {0, 1}
    BY <1>h, <1>0, <2>1 DEF Counted
  <2>3. {"redeem", "record"} \subseteq Effects
    BY DEF Effects
  <2>4. \A d \in Checkouts :
          \A e \in Effects : done'[d][e] <= 1 /\ (order'[d] = "none" => done'[d][e] = 0)
    BY <1>h, <2>1, <2>2 DEF Once
  <2>5. \A d \in Checkouts : done'[d]["record"] <= done'[d]["redeem"]
    <3>1. CASE task[w].at = "record"
      BY <1>h, <2>2, <2>3, <3>1 DEF Once
    <3>2. CASE task[w].at = "redeem"
      <4>1. done[c]["redeem"] = 0 /\ done[c]["record"] <= 0
        BY <2>1, <3>2 DEF Once
      <4>2. done[c]["record"] \in Nat
        BY <1>0, <2>3
      <4> QED BY <1>h, <2>2, <2>3, <3>2, <4>1, <4>2 DEF Once
    <3>3. CASE task[w].at \notin {"redeem", "record"}
      BY <1>h, <2>2, <2>3, <3>3 DEF Once
    <3> QED BY <3>1, <3>2, <3>3
  <2>6. \A v \in Workers \ {w} : task'[v].at \in Effects =>
          /\ \A e \in Ahead(task'[v].at) : done'[task'[v].chk][e] = 0
          /\ task'[v].at = "record" => done'[task'[v].chk]["redeem"] = 1
    BY <1>h, <1>1, <2>1, <2>2, <2>3, AheadOf DEF Once
  <2>7. task'[w].at \in Effects =>
          /\ \A e \in Ahead(task'[w].at) : done'[task'[w].chk][e] = 0
          /\ task'[w].at = "record" => done'[task'[w].chk]["redeem"] = 1
    <3>1. Rests(w) => task'[w].at \notin Effects
      BY DEF Rest, Effects
    <3>2. Counted(c, "redeem") => done'[c]["redeem"] = done[c]["redeem"] + 1
      BY <2>3 DEF Counted
    <3> QED BY <1>h, <2>1, <2>2, <3>1, <3>2, AheadOf
  <2>8. \A v, u \in Workers :
          (task'[v].at \in Effects /\ task'[u].at \in Effects /\ task'[v].chk = task'[u].chk) => v = u
    <3>1. Rests(w) => task'[w].at \notin Effects
      BY DEF Rest, Effects
    <3> QED BY <1>h, <2>1, <3>1 DEF Once
  <2> QED BY <2>4, <2>5, <2>6, <2>7, <2>8 DEF Once
<1>i. ASSUME NEW w \in Workers, Skips(w) PROVE Once'
  <2>1. /\ task[w].at = "deliver" /\ task[w].at \in Effects /\ task[w].chk \in Checkouts
        /\ task'[w].at \in Effects /\ task'[w].at # "record"
        /\ task'[w].at = AfterDelivery(task[w].chk)
    BY <1>i, Chk, EffectPoints DEF Skips, Effects
  <2>2. Ahead(task'[w].at) \subseteq Ahead(task[w].at) \ {task[w].at}
    BY <2>1, AheadOf
  <2> QED BY <1>h, <1>i, <2>1, <2>2 DEF Skips
<1>j. ASSUME NEW w \in Workers, Applies(w) PROVE Once'
  <2>1. task[w].at \in Effects /\ task[w].chk \in Checkouts /\ Counted(task[w].chk, task[w].at)
        /\ UNCHANGED order
    BY <1>j, Chk DEF Applies
  <2>2. task[w].at = "record" => done[task[w].chk]["redeem"] = 1
    BY <2>1 DEF Once
  <2>3. CASE task[w].at = "deliver" /\ Moved(w, AfterDelivery(task[w].chk))
    <3>1. /\ task'[w].at \in Effects /\ task'[w].at # "record"
          /\ Ahead(task'[w].at) \subseteq Ahead(task[w].at) \ {task[w].at}
      BY <2>3, EffectPoints, AheadOf DEF Effects
    <3> QED BY <1>h, <2>1, <2>2, <2>3, <3>1
  <2>4. CASE task[w].at = "redeem" /\ Moved(w, "record")
    <3>1. /\ task'[w].at \in Effects /\ Counted(task[w].chk, "redeem")
          /\ Ahead(task'[w].at) \subseteq Ahead(task[w].at) \ {task[w].at}
      BY <2>1, <2>4, AheadOf DEF Effects
    <3> QED BY <1>h, <2>1, <2>2, <2>4, <3>1
  <2>5. CASE task[w].at = "record" /\ Moved(w, "announce")
    <3>1. /\ task'[w].at \in Effects /\ task'[w].at # "record"
          /\ Ahead(task'[w].at) \subseteq Ahead(task[w].at) \ {task[w].at}
      BY <2>5, AheadOf DEF Effects
    <3> QED BY <1>h, <2>1, <2>2, <2>5, <3>1
  <2>6. CASE Rests(w)
    BY <1>h, <2>1, <2>2, <2>6
  <2> QED BY <1>j, <2>3, <2>4, <2>5, <2>6 DEF Applies
<1> QED BY <1>b, <1>c, <1>d, <1>f, <1>g, <1>i, <1>j DEF Kinds

LEMMA OnceAlways == Spec => []Once
<1>1. Init => Once
  BY OnceInit
<1>2. Sound /\ Once /\ [Next]_vars => Once'
  BY OnceStep DEF Sound
<1> QED BY <1>1, <1>2, Soundness, PTL DEF Spec

\* However many tasks promote a checkout at once, each effect of its order
\* happens at most once, and only after the order exists (EffectsAtMostOnce).
THEOREM EffectsHappenOnce == Spec => []EffectsAtMostOnce
<1>1. TypeInv /\ Once => EffectsAtMostOnce
  BY DEF TypeInv, TypeOK, Once, EffectsAtMostOnce
<1>2. Sound => TypeInv
  BY DEF Sound
<1> QED BY <1>1, <1>2, Soundness, OnceAlways, PTL


-----------------------------------------------------------------------------
(* Refinement.  Every step of Checkout is a step of PaidOrder or changes   *)
(* nothing that PaidOrder sees.                                            *)

Approved == {c \in Checkouts : Paid(c, "approved")}
Promoted == {c \in Checkouts : order[c] = "PAID"}
Carried == [c \in Checkouts |->
              IF order[c] = "PAID" THEN {e \in Effects : done[c][e] > 0} ELSE {}]
PromiseStep == Promise!Next \/ UNCHANGED <<Approved, Promoted, Carried>>

LEMMA PromiseInit == Init => Promise!Init
BY DEF Init, Promise!Init, Paid

LEMMA PromiseActions ==
  ASSUME NEW c \in Checkouts
  PROVE  /\ Approved' = Approved \cup {c} /\ UNCHANGED <<Promoted, Carried>> => Promise!Next
         /\ (c \in Approved \ Promoted /\ Promoted' = Promoted \cup {c}
             /\ UNCHANGED <<Approved, Carried>>) => Promise!Next
         /\ \A e \in Effects :
              (c \in Promoted /\ e \notin Carried[c]
               /\ Carried' = [Carried EXCEPT ![c] = @ \cup {e}]
               /\ UNCHANGED <<Approved, Promoted>>) => Promise!Next
<1>1. Approved' = Approved \cup {c} /\ UNCHANGED <<Promoted, Carried>> => Promise!Approve(c)
  BY DEF Promise!Approve, Approved, Promoted, Carried
<1>2. (c \in Approved \ Promoted /\ Promoted' = Promoted \cup {c}
       /\ UNCHANGED <<Approved, Carried>>) => Promise!Promote(c)
  BY DEF Promise!Promote, Approved, Promoted, Carried
<1>3. ASSUME NEW e \in Effects, c \in Promoted, e \notin Carried[c],
             Carried' = [Carried EXCEPT ![c] = @ \cup {e}], UNCHANGED <<Approved, Promoted>>
      PROVE  Promise!CarryOut(c, e)
  BY <1>3 DEF Promise!CarryOut, Approved, Promoted, Carried
<1> QED BY <1>1, <1>2, <1>3 DEF Promise!Next

LEMMA SameRows ==
  ASSUME UNCHANGED <<order, done>> PROVE UNCHANGED <<Promoted, Carried>>
BY DEF Promoted, Carried

LEMMA SamePayments ==
  ASSUME UNCHANGED <<payFor, payStatus>> PROVE UNCHANGED Approved
BY DEF Approved, Paid

LEMMA PromiseNext == Sound /\ Once /\ [Next]_vars => PromiseStep
<1> SUFFICES ASSUME TypeInv, Origin, Evidence, Once, Kinds PROVE PromiseStep
  BY Catalogue DEF Sound
<1> USE DEF facts
<1>0. /\ done \in [Checkouts -> [Effects -> Nat]]
      /\ order \in [Checkouts -> {"none", "CONFIRMED", "PAID"}]
      /\ payStatus \in [Payments -> {"none", "pending", "approved", "rejected"}]
      /\ payFor \in [Payments -> Checkouts \cup {NoCheckout}]
  BY DEF TypeInv, TypeOK
<1>a. CASE UNCHANGED <<order, done, payFor, payStatus>>
  BY <1>a, SameRows, SamePayments DEF PromiseStep
<1>b. CASE Provides
  <2>1. UNCHANGED <<Promoted, Carried>>
    BY <1>b, SameRows DEF Provides
  <2>2. PICK p \in Payments :
          \/ /\ payStatus[p] = "none" /\ payStatus' = [payStatus EXCEPT ![p] = "pending"]
             /\ \E c \in Checkouts : payFor' = [payFor EXCEPT ![p] = c]
          \/ /\ payStatus[p] = "pending" /\ UNCHANGED payFor
             /\ \E s \in {"approved", "rejected"} : payStatus' = [payStatus EXCEPT ![p] = s]
    BY <1>b DEF Provides
  <2>3. CASE payStatus[p] = "pending" /\ UNCHANGED payFor
             /\ payStatus' = [payStatus EXCEPT ![p] = "approved"]
    <3>1. payFor[p] \in Checkouts
      BY <2>3 DEF TypeInv, TypeOK, Wiring
    <3>2. Approved' = Approved \cup {payFor[p]}
      BY <1>0, <2>3, <3>1 DEF Approved, Paid
    <3> QED BY <2>1, <3>1, <3>2, PromiseActions DEF PromiseStep
  <2>4. CASE payStatus[p] = "pending" /\ UNCHANGED payFor
             /\ payStatus' = [payStatus EXCEPT ![p] = "rejected"]
    <3>1. Approved' = Approved
      BY <1>0, <2>4 DEF Approved, Paid
    <3> QED BY <2>1, <3>1 DEF PromiseStep
  <2>5. CASE /\ payStatus[p] = "none" /\ payStatus' = [payStatus EXCEPT ![p] = "pending"]
             /\ \E c \in Checkouts : payFor' = [payFor EXCEPT ![p] = c]
    <3>1. Approved' = Approved
      BY <1>0, <2>5 DEF Approved, Paid
    <3> QED BY <2>1, <3>1 DEF PromiseStep
  <2> QED BY <2>2, <2>3, <2>4, <2>5
<1>c. ASSUME NEW w \in Workers, Inserts(w) PROVE PromiseStep
  <2> DEFINE c == task[w].chk
  <2>1. c \in Checkouts /\ order[c] = "none"
    BY <1>c, <1>0, Chk DEF Inserts, Origin, Before
  <2>2. order' = order \/ order' = [order EXCEPT ![c] = "CONFIRMED"]
    BY <1>c DEF Inserts
  <2>3. UNCHANGED Approved /\ UNCHANGED done
    BY <1>c, SamePayments DEF Inserts
  <2>4. \A d \in Checkouts : order'[d] = "PAID" <=> order[d] = "PAID"
    BY <1>0, <2>1, <2>2
  <2>5. UNCHANGED <<Promoted, Carried>>
    BY <2>3, <2>4 DEF Promoted, Carried
  <2> QED BY <2>3, <2>5 DEF PromiseStep
<1>d. ASSUME NEW w \in Workers, Creates(w) PROVE PromiseStep
  <2>0. task[w].chk \in Checkouts /\ Paid(task[w].chk, "approved")
    BY <1>d, Chk DEF Creates, Deciding, Evidence, Carries
  <2>1. PICK c \in Checkouts : c = task[w].chk
    BY <2>0
  <2>2. /\ order[c] = "none" /\ order' = [order EXCEPT ![c] = "PAID"]
        /\ UNCHANGED <<done, payFor, payStatus>>
    BY <1>d, <2>1 DEF Creates
  <2>3. c \in Approved \ Promoted
    BY <2>0, <2>1, <2>2 DEF Approved, Promoted
  <2>4. Promoted' = Promoted \cup {c}
    BY <1>0, <2>2 DEF Promoted
  <2>5. {e \in Effects : done[c][e] > 0} = {}
    BY <2>2 DEF Once
  <2>6. Carried' = Carried
    <3>1. \A d \in Checkouts :
            (IF order'[d] = "PAID" THEN {e \in Effects : done'[d][e] > 0} ELSE {})
            = (IF order[d] = "PAID" THEN {e \in Effects : done[d][e] > 0} ELSE {})
      BY <1>0, <2>2, <2>5
    <3> QED BY <3>1 DEF Carried
  <2> QED BY <2>2, <2>3, <2>4, <2>6, SamePayments, PromiseActions DEF PromiseStep
<1>e. ASSUME NEW w \in Workers, Applies(w) PROVE PromiseStep
  <2>0. task[w].chk \in Checkouts /\ task[w].at \in Effects
    BY <1>e, Chk DEF Applies
  <2>1. PICK c \in Checkouts, e \in Effects : c = task[w].chk /\ e = task[w].at
    BY <2>0
  <2>2. Counted(c, e) /\ UNCHANGED <<order, payFor, payStatus>>
    BY <1>e, <2>1 DEF Applies
  <2>3. UNCHANGED <<Approved, Promoted>>
    BY <2>2, SamePayments DEF Promoted
  <2>4. done[c][e] = 0
    BY <2>1, AheadOf DEF Once
  <2>5. \A d \in Checkouts :
          {f \in Effects : done'[d][f] > 0} =
            IF d = c THEN {f \in Effects : done[d][f] > 0} \cup {e}
                     ELSE {f \in Effects : done[d][f] > 0}
    BY <1>0, <2>2 DEF Counted
  <2>6. CASE order[c] = "PAID"
    <3>1. c \in Promoted /\ e \notin Carried[c]
      BY <2>4, <2>6 DEF Promoted, Carried
    <3>2. \A d \in Checkouts :
            Carried'[d] = IF d = c THEN Carried[c] \cup {e} ELSE Carried[d]
      BY <2>2, <2>5, <2>6 DEF Carried
    <3>3. Carried' = [Carried EXCEPT ![c] = @ \cup {e}]
      <4>1. DOMAIN Carried = Checkouts /\ DOMAIN Carried' = Checkouts
        BY DEF Carried
      <4>2. Carried = [d \in Checkouts |-> Carried[d]] /\ Carried' = [d \in Checkouts |-> Carried'[d]]
        BY DEF Carried
      <4> QED BY <3>2, <4>1, <4>2
    <3> QED BY <2>3, <3>1, <3>3, PromiseActions DEF PromiseStep
  <2>7. CASE order[c] # "PAID"
    <3>1. \A d \in Checkouts :
            (IF order'[d] = "PAID" THEN {f \in Effects : done'[d][f] > 0} ELSE {})
            = (IF order[d] = "PAID" THEN {f \in Effects : done[d][f] > 0} ELSE {})
      BY <2>2, <2>5, <2>7
    <3>2. Carried' = Carried
      BY <3>1 DEF Carried
    <3> QED BY <2>3, <3>2 DEF PromiseStep
  <2> QED BY <2>6, <2>7
<1>f. ASSUME NEW w \in Workers,
             \/ Enters(w) \/ Prepares(w) \/ Links(w) \/ Decides(w) \/ Reads(w)
             \/ Marks(w) \/ Skips(w) \/ Fails(w)
      PROVE  PromiseStep
  <2>1. UNCHANGED <<order, done, payFor, payStatus>>
    BY <1>f DEF Enters, Prepares, Links, Decides, Reads, Marks, Skips, Fails
  <2> QED BY <1>a, <2>1
<1>g. CASE Quiet
  BY <1>a, <1>g DEF Quiet
<1> QED BY <1>b, <1>c, <1>d, <1>e, <1>f, <1>g DEF Kinds

\* The checkout keeps the promise of PaidOrder: orders only for approved
\* payments, each created once, each effect after its order and at most once.
THEOREM CheckoutKeepsPromise == Spec => ImplementsPromise
<1>1. Init => Promise!Init
  BY PromiseInit
<1>2. Sound /\ Once /\ [Next]_vars =>
        Promise!Next \/ UNCHANGED <<Approved, Promoted, Carried>>
  BY PromiseNext DEF PromiseStep
<1> QED
  BY <1>1, <1>2, Soundness, OnceAlways, PTL
  DEF Spec, ImplementsPromise, Promise!Spec, Approved, Promoted, Carried
=============================================================================
