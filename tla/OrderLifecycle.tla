--------------------------- MODULE OrderLifecycle ---------------------------
(***************************************************************************)
(* The life of an Order row once it exists: its status, its payment, the   *)
(* DeliveryOrder row that shadows it, the stock and the loyalty points it  *)
(* moves, and its release to the kitchen when it was scheduled.            *)
(*                                                                         *)
(* Six services write these rows: orders, delivery, the driver's run, the  *)
(* salon's home deliveries, the inventory consumption and the cron that    *)
(* releases scheduled orders.  Each reads the row, decides, and writes it  *)
(* after an `await', with no condition on what it read.  An action is the  *)
(* code from one await to the next; consecutive reads of one decision are  *)
(* merged where every write between them could as well come after them.    *)
(***************************************************************************)
EXTENDS Integers, FiniteSets

CONSTANTS
  Orders,
  Drivers,         \* DeliveryDriver rows
  Requests,        \* slots for HTTP requests served at the same time
  Instances,       \* backend processes, each with its release cron: one, and its
                   \* successor while a reload overlaps the two
  NoOrder, NoDriver,
  Kinds,           \* the ways of placing an order this instance has, see Kind
  DriverLimit,     \* active orders a driver may carry (3 in the code)
  MaxFaults        \* bound: failed calls and crashes in a behaviour

\* pickup, delivery: placed by the customer, paid on delivery; online: promoted
\* from a paid checkout; salon: taken by phone; external: a delivery platform.
Kind == {"pickup", "delivery", "online", "salon", "external"}

ASSUME KindAssumption == Kinds \subseteq Kind
ASSUME AbsentAssumption == NoOrder \notin Orders /\ NoDriver \notin Drivers
ASSUME LimitAssumption == DriverLimit \in Nat \ {0} /\ MaxFaults \in Nat

VARIABLES
  kind,            \* how the order was placed
  status, paid,    \* Order.status; the orders with paymentStatus = PAID
  held,            \* scheduled orders with kitchenReleasedAt null
  due,             \* held orders whose release time has come
  cancelledAt,     \* orders with cancelledAt set
  delivery,        \* DeliveryOrder.status, "none" without a row
  driver,          \* DeliveryOrder.driverId
  available,       \* drivers that are active and available
  deducted,        \* orders with an OrderInventoryDeduction row
  stockTaken,      \* how many times the stock of an order was decremented
  earned,          \* EARN transactions of an order
  queued, checked, \* deductions under way, by how far they are
  req, sweep,      \* the running requests; the running releases
  kitchenTold,     \* how many times the release of an order reached the kitchen
  \* history:
  dispatched,      \* orders closed by a dispatch from the salon
  disturbed,       \* orders with two requests at once, or one that failed
  faults

row == <<kind, status, paid, held, cancelledAt>>
shipping == <<delivery, driver, available>>
inventory == <<deducted, stockTaken, queued, checked>>
release == <<due, sweep, kitchenTold>>
history == <<dispatched, disturbed, faults>>
vars == <<row, shipping, inventory, earned, release, req, history>>

Status == {"PENDING", "PAID", "CONFIRMED", "PREPARING", "READY",
           "DELIVERED", "CANCELLED"}
Terminal == {"DELIVERED", "CANCELLED"}
DeliveryStatus == {"PENDING", "READY", "ASSIGNED", "PICKED_UP", "IN_TRANSIT",
                   "DELIVERED", "CANCELLED"}
ActiveRun == {"ASSIGNED", "PICKED_UP", "IN_TRANSIT"}

\* validateStatusTransition of the orders service
Allowed == [s \in Status |->
  CASE s = "PENDING"   -> {"PAID", "CONFIRMED", "CANCELLED"}
    [] s = "PAID"      -> {"PENDING", "CONFIRMED", "PREPARING", "CANCELLED"}
    [] s = "CONFIRMED" -> {"PAID", "PREPARING", "READY", "CANCELLED"}
    [] s = "PREPARING" -> {"CONFIRMED", "READY", "CANCELLED"}
    [] s = "READY"     -> {"PREPARING", "CONFIRMED", "DELIVERED", "CANCELLED"}
    [] OTHER           -> {}]

\* resolveStatusTransitionSteps: accepting and cooking at once goes through
\* CONFIRMED, and both steps are validated
MayBecome(s, t) ==
  \/ t \in Allowed[s]
  \/ s \in {"PENDING", "PAID"} /\ t = "PREPARING"

\* validateStatusTransition of the delivery service, of the driver's run
DeliveryAllowed == [s \in DeliveryStatus |->
  CASE s = "PENDING"    -> {"READY", "CANCELLED"}
    [] s = "READY"      -> {"ASSIGNED", "CANCELLED"}
    [] s = "ASSIGNED"   -> {"PICKED_UP", "CANCELLED"}
    [] s = "PICKED_UP"  -> {"IN_TRANSIT", "CANCELLED"}
    [] s = "IN_TRANSIT" -> {"DELIVERED", "CANCELLED"}
    [] OTHER            -> {}]
RunAllowed == [s \in ActiveRun |->
  CASE s = "ASSIGNED"   -> "PICKED_UP"
    [] s = "PICKED_UP"  -> "IN_TRANSIT"
    [] s = "IN_TRANSIT" -> "DELIVERED"]

HasRow(o) == delivery[o] # "none"
IsDelivery(o) == kind[o] # "pickup"
\* the salon and the platforms leave no e-mail, so their orders earn no points
EarnsPoints(o) == kind[o] \in {"pickup", "delivery", "online"}
Load(d) == Cardinality({o \in Orders : driver[o] = d /\ delivery[o] \in ActiveRun})
HasRoom(d) == d \in available /\ Load(d) < DriverLimit

-----------------------------------------------------------------------------
(* Requests in flight *)

Points == {"idle", "setting", "earning", "crediting", "syncing", "dropping",
           "readying", "dispatching", "collecting", "paying", "choosing",
           "assigning", "closing", "moving", "finishing", "adding", "voiding"}
Jobs == {"none", "status", "payment", "dispatch", "assign", "delivery", "run",
         "items", "cancel"}

Request == [at : Points, job : Jobs, ord : Orders \cup {NoOrder},
            to : Status \cup DeliveryStatus \cup {"none"},
            drv : Drivers \cup {NoDriver}]
Idle == [at |-> "idle", job |-> "none", ord |-> NoOrder, to |-> "none",
         drv |-> NoDriver]

At(r, p) == req[r].at = p
Busy(o) == {r \in Requests : req[r].ord = o}

\* r starts working on o: an order two requests work on is disturbed
Begin(r, p, job, o, t, d) ==
  /\ At(r, "idle")
  /\ req' = [req EXCEPT ![r] =
       [at |-> p, job |-> job, ord |-> o, to |-> t, drv |-> d]]
  /\ disturbed' = IF Busy(o) = {} THEN disturbed ELSE disturbed \cup {o}
  /\ UNCHANGED <<dispatched, faults>>
GoTo(r, p) == req' = [req EXCEPT ![r].at = p]
Finish(r) == req' = [req EXCEPT ![r] = Idle]

-----------------------------------------------------------------------------
TypeOK ==
  /\ kind \in [Orders -> Kind]
  /\ status \in [Orders -> Status]
  /\ paid \subseteq Orders /\ held \subseteq Orders /\ due \subseteq Orders
  /\ cancelledAt \subseteq Orders
  /\ delivery \in [Orders -> DeliveryStatus \cup {"none"}]
  /\ driver \in [Orders -> Drivers \cup {NoDriver}]
  /\ available \subseteq Drivers
  /\ deducted \subseteq Orders
  /\ stockTaken \in [Orders -> Nat] /\ earned \in [Orders -> Nat]
  /\ queued \in [Orders -> Nat] /\ checked \in [Orders -> Nat]
  /\ req \in [Requests -> Request]
  /\ sweep \in [Instances -> [left : SUBSET Orders, tell : Orders \cup {NoOrder}]]
  /\ kitchenTold \in [Orders -> Nat]
  /\ dispatched \subseteq Orders /\ disturbed \subseteq Orders
  /\ faults \in 0..MaxFaults

\* How the services that create an order leave its rows.  A promoted order has
\* its stock deduction already queued; the DeliveryOrder of a customer's order
\* may be missing, for its creation is caught when it fails.
Placed(o) ==
  \/ /\ kind[o] \in {"pickup", "delivery"}
     /\ status[o] = "CONFIRMED" /\ o \notin paid /\ queued[o] = 0
     /\ delivery[o] \in IF kind[o] = "pickup" THEN {"none"} ELSE {"none", "PENDING"}
  \/ /\ kind[o] = "online"
     /\ status[o] = "PAID" /\ o \in paid /\ queued[o] = 1
     /\ delivery[o] \in {"none", "PENDING"}
  \/ /\ kind[o] = "salon"
     /\ status[o] = "CONFIRMED" /\ o \notin held /\ queued[o] = 0
     /\ delivery[o] = "PENDING"
  \/ /\ kind[o] = "external"
     /\ status[o] = "CONFIRMED" /\ o \notin held /\ o \in paid /\ queued[o] = 0
     /\ delivery[o] = "READY"

Init ==
  /\ kind \in [Orders -> Kinds]
  /\ status \in [Orders -> {"CONFIRMED", "PAID"}]
  /\ paid \in SUBSET Orders /\ held \in SUBSET Orders
  /\ queued \in [Orders -> {0, 1}]
  /\ delivery \in [Orders -> {"none", "PENDING", "READY"}]
  /\ \A o \in Orders : Placed(o)
  /\ due = {} /\ cancelledAt = {} /\ deducted = {}
  /\ driver = [o \in Orders |-> NoDriver]
  /\ available = Drivers
  /\ stockTaken = [o \in Orders |-> 0] /\ earned = [o \in Orders |-> 0]
  /\ checked = [o \in Orders |-> 0] /\ kitchenTold = [o \in Orders |-> 0]
  /\ req = [r \in Requests |-> Idle]
  /\ sweep = [i \in Instances |-> [left |-> {}, tell |-> NoOrder]]
  /\ dispatched = {} /\ disturbed = {} /\ faults = 0

-----------------------------------------------------------------------------
(* orders.updateStatus *)

\* reads the order and validates; a target it may not become is rejected, the
\* status it has already is returned: neither changes anything
ReadForStatus(r, o, t) ==
  /\ MayBecome(status[o], t)
  /\ Begin(r, "setting", "status", o, t, NoDriver)
  /\ UNCHANGED <<row, shipping, inventory, earned, release>>

\* the transaction: writes the last step whatever the status is by now
SetStatus(r) ==
  /\ At(r, "setting")
  /\ LET o == req[r].ord  t == req[r].to IN
     /\ status' = [status EXCEPT ![o] = t]
     /\ cancelledAt' = IF t = "CANCELLED" THEN cancelledAt \cup {o} ELSE cancelledAt
     /\ dispatched' = IF req[r].job = "dispatch" THEN dispatched \cup {o} ELSE dispatched
     /\ CASE t = "DELIVERED" -> GoTo(r, "earning")
          [] t \in {"READY", "CANCELLED"} /\ IsDelivery(o) -> GoTo(r, "syncing")
          [] OTHER -> Finish(r)
  /\ UNCHANGED <<kind, paid, held, shipping, inventory, earned, release, disturbed, faults>>

\* awardLoyaltyPointsForDeliveredOrder: looks for an earlier EARN, then credits
ReadEarned(r) ==
  /\ At(r, "earning")
  /\ IF EarnsPoints(req[r].ord) /\ earned[req[r].ord] = 0
     THEN GoTo(r, "crediting") ELSE Finish(r)
  /\ UNCHANGED <<row, shipping, inventory, earned, release, history>>

Credit(r) ==
  /\ At(r, "crediting")
  /\ earned' = [earned EXCEPT ![req[r].ord] = @ + 1]
  /\ Finish(r)
  /\ UNCHANGED <<row, shipping, inventory, release, history>>

\* Mutant: an order already given to a driver is left to the driver.
ReadForSyncUnassigned(r) ==
  /\ At(r, "syncing")
  /\ LET s == delivery[req[r].ord] IN
     CASE req[r].to = "CANCELLED" /\ s \in {"PENDING", "READY"} -> GoTo(r, "dropping")
       [] req[r].to = "READY" /\ s = "PENDING" -> GoTo(r, "readying")
       [] OTHER -> Finish(r)
  /\ UNCHANGED <<row, shipping, inventory, earned, release, history>>

\* syncDeliveryOrderForOrderStatus: reads the row, then writes it
ReadForSync(r) ==
  /\ At(r, "syncing")
  /\ LET s == delivery[req[r].ord] IN
     CASE req[r].to = "CANCELLED" /\ s \notin {"none", "DELIVERED", "CANCELLED"} ->
            GoTo(r, "dropping")
       [] req[r].to = "READY" /\ s = "PENDING" -> GoTo(r, "readying")
       [] OTHER -> Finish(r)
  /\ UNCHANGED <<row, shipping, inventory, earned, release, history>>

DropDelivery(r) ==
  /\ At(r, "dropping")
  /\ delivery' = [delivery EXCEPT ![req[r].ord] = "CANCELLED"]
  /\ Finish(r)
  /\ UNCHANGED <<row, driver, available, inventory, earned, release, history>>

ReadyDelivery(r) ==
  /\ At(r, "readying")
  /\ delivery' = [delivery EXCEPT ![req[r].ord] = "READY"]
  /\ GoTo(r, "dispatching")
  /\ UNCHANGED <<row, driver, available, inventory, earned, release, history>>

\* dispatchOrder: a delivery platform takes it (the first outcome, and that of
\* a salon order or of no driver with room), or the least loaded driver is chosen
PickDriver(r) ==
  /\ At(r, "dispatching")
  /\ \/ Finish(r)
     \/ \E d \in Drivers :
          /\ delivery[req[r].ord] = "READY" /\ kind[req[r].ord] # "salon"
          /\ HasRoom(d)
          /\ \A e \in available : Load(d) <= Load(e)
          /\ req' = [req EXCEPT ![r].at = "assigning", ![r].drv = d]
  /\ UNCHANGED <<row, shipping, inventory, earned, release, history>>

-----------------------------------------------------------------------------
(* orders.markPaymentReceived and orders.dispatchDeliveryFromSalon *)

\* an order already paid is returned as it is
ReadForPayment(r, o) ==
  /\ o \notin paid
  /\ Begin(r, "paying", "payment", o, "none", NoDriver)
  /\ UNCHANGED <<row, shipping, inventory, earned, release>>

\* writes the payment and starts a stock deduction nobody waits for
SetPaid(r) ==
  /\ At(r, "paying")
  /\ paid' = paid \cup {req[r].ord}
  /\ queued' = [queued EXCEPT ![req[r].ord] = @ + 1]
  /\ IF req[r].job = "dispatch" THEN GoTo(r, "choosing") ELSE Finish(r)
  /\ UNCHANGED <<kind, status, held, cancelledAt, shipping, deducted, stockTaken,
                 checked, earned, release, history>>

\* Mutant: the dispatch leaves the payment to the driver.
ReadForDispatchUnpaid(r, o, d) ==
  /\ IsDelivery(o) /\ status[o] = "READY"
  /\ Begin(r, "choosing", "dispatch", o, "DELIVERED", d)
  /\ UNCHANGED <<row, shipping, inventory, earned, release>>

ReadForDispatch(r, o, d) ==
  /\ IsDelivery(o) /\ status[o] = "READY"
  /\ Begin(r, IF o \in paid THEN "choosing" ELSE "collecting",
           "dispatch", o, "DELIVERED", d)
  /\ UNCHANGED <<row, shipping, inventory, earned, release>>

\* markPaymentReceived, called by the dispatch, reads the payment again
Collect(r) ==
  /\ At(r, "collecting")
  /\ GoTo(r, IF req[r].ord \in paid THEN "choosing" ELSE "paying")
  /\ UNCHANGED <<row, shipping, inventory, earned, release, history>>

\* assignDriver, called by the dispatch: what it rejects ends the dispatch, the
\* payment it took stays
ChooseDriver(r) ==
  /\ At(r, "choosing")
  /\ IF delivery[req[r].ord] = "READY" /\ HasRoom(req[r].drv)
     THEN GoTo(r, "assigning") ELSE Finish(r)
  /\ UNCHANGED <<row, shipping, inventory, earned, release, history>>

\* updateStatus(DELIVERED), called by the dispatch
Close(r) ==
  /\ At(r, "closing")
  /\ IF MayBecome(status[req[r].ord], "DELIVERED")
     THEN GoTo(r, "setting") ELSE Finish(r)
  /\ UNCHANGED <<row, shipping, inventory, earned, release, history>>

-----------------------------------------------------------------------------
(* delivery.assignDriver, delivery.updateStatus, deliveryRun.updateOrderStatus *)

ReadForAssign(r, o, d) ==
  /\ delivery[o] = "READY" /\ HasRoom(d)
  /\ Begin(r, "assigning", "assign", o, "none", d)
  /\ UNCHANGED <<row, shipping, inventory, earned, release>>

\* the write of assignDriver and of autoAssignDriver
AssignDriver(r) ==
  /\ At(r, "assigning")
  /\ driver' = [driver EXCEPT ![req[r].ord] = req[r].drv]
  /\ delivery' = [delivery EXCEPT ![req[r].ord] = "ASSIGNED"]
  /\ IF req[r].job = "dispatch" THEN GoTo(r, "closing") ELSE Finish(r)
  /\ UNCHANGED <<row, available, inventory, earned, release, history>>

ReadForDelivery(r, o, t) ==
  /\ HasRow(o) /\ t \in DeliveryAllowed[delivery[o]]
  /\ Begin(r, "moving", "delivery", o, t, NoDriver)
  /\ UNCHANGED <<row, shipping, inventory, earned, release>>

\* only the driver of the order, and only along the run
ReadForRun(r, o, d) ==
  /\ driver[o] = d /\ delivery[o] \in ActiveRun
  /\ Begin(r, "moving", "run", o, RunAllowed[delivery[o]], d)
  /\ UNCHANGED <<row, shipping, inventory, earned, release>>

\* Mutant: the delivery's status is copied onto the order as it is.
MoveBothRows(r) ==
  /\ At(r, "moving")
  /\ delivery' = [delivery EXCEPT ![req[r].ord] = req[r].to]
  /\ status' = [status EXCEPT ![req[r].ord] = req[r].to]
  /\ Finish(r)
  /\ UNCHANGED <<kind, paid, held, cancelledAt, driver, available, inventory, earned,
                 release, history>>

MoveDelivery(r) ==
  /\ At(r, "moving")
  /\ delivery' = [delivery EXCEPT ![req[r].ord] = req[r].to]
  /\ IF req[r].job = "run" /\ req[r].to = "DELIVERED"
     THEN GoTo(r, "finishing") ELSE Finish(r)
  /\ UNCHANGED <<row, driver, available, inventory, earned, release, history>>

\* the driver's delivery closes the order, whatever its status
FinishOrder(r) ==
  /\ At(r, "finishing")
  /\ status' = [status EXCEPT ![req[r].ord] = "DELIVERED"]
  /\ Finish(r)
  /\ UNCHANGED <<kind, paid, held, cancelledAt, shipping, inventory, earned,
                 release, history>>

\* deliveryDrivers.updateDriver
SetAvailability(d) ==
  /\ available' = IF d \in available THEN available \ {d} ELSE available \cup {d}
  /\ UNCHANGED <<row, delivery, driver, inventory, earned, release, req, history>>

-----------------------------------------------------------------------------
(* The salon's home deliveries: addItems and cancel *)

\* Mutant: only the cancelled orders are closed.
EditableUntilCancelled(o) == kind[o] = "salon" /\ status[o] # "CANCELLED"

Editable(o) == kind[o] = "salon" /\ status[o] \notin Terminal

\* the status that will be written is computed from the one read; items sent
\* to the kitchen move the order to PREPARING
ReadForItems(r, o) ==
  /\ Editable(o)
  /\ \E t \in {status[o]} \cup
              (IF status[o] \in {"CONFIRMED", "PAID"} THEN {"PREPARING"} ELSE {}) :
       Begin(r, "adding", "items", o, t, NoDriver)
  /\ UNCHANGED <<row, shipping, inventory, earned, release>>

WriteItems(r) ==
  /\ At(r, "adding")
  /\ status' = [status EXCEPT ![req[r].ord] = req[r].to]
  /\ Finish(r)
  /\ UNCHANGED <<kind, paid, held, cancelledAt, shipping, inventory, earned,
                 release, history>>

ReadForVoid(r, o) ==
  /\ Editable(o)
  /\ Begin(r, "voiding", "cancel", o, "CANCELLED", NoDriver)
  /\ UNCHANGED <<row, shipping, inventory, earned, release>>

\* one transaction cancels both rows
WriteVoid(r) ==
  /\ At(r, "voiding")
  /\ LET o == req[r].ord IN
     /\ status' = [status EXCEPT ![o] = "CANCELLED"]
     /\ cancelledAt' = cancelledAt \cup {o}
     /\ delivery' = IF HasRow(o) THEN [delivery EXCEPT ![o] = "CANCELLED"] ELSE delivery
  /\ Finish(r)
  /\ UNCHANGED <<kind, paid, held, driver, available, inventory, earned, release, history>>

-----------------------------------------------------------------------------
(* inventoryConsumption.tryDeductForOrder, in the background *)

\* Mutant: no deduction before the restaurant accepts the order.
CheckAcceptedStock(o) ==
  /\ queued[o] > 0
  /\ queued' = [queued EXCEPT ![o] = @ - 1]
  /\ checked' = IF status[o] \notin {"CANCELLED", "PAID"} /\ o \in paid /\ o \notin deducted
                THEN [checked EXCEPT ![o] = @ + 1] ELSE checked
  /\ UNCHANGED <<row, shipping, deducted, stockTaken, earned, release, req, history>>

\* reads the order and the row of an earlier deduction.  The restaurant deducts
\* on sale and the dishes of the order have recipes.
CheckStock(o) ==
  /\ queued[o] > 0
  /\ queued' = [queued EXCEPT ![o] = @ - 1]
  /\ checked' = IF status[o] # "CANCELLED" /\ o \in paid /\ o \notin deducted
                THEN [checked EXCEPT ![o] = @ + 1] ELSE checked
  /\ UNCHANGED <<row, shipping, deducted, stockTaken, earned, release, req, history>>

\* Mutant: the order of the row is not unique.
TakeStockAgain(o) ==
  /\ checked[o] > 0
  /\ checked' = [checked EXCEPT ![o] = @ - 1]
  /\ deducted' = deducted \cup {o}
  /\ stockTaken' = [stockTaken EXCEPT ![o] = @ + 1]
  /\ UNCHANGED <<row, shipping, queued, earned, release, req, history>>

\* one transaction: the row, whose order is unique, then the decrements; a
\* second row is refused, the transaction rolls back and the error is logged
TakeStock(o) ==
  /\ checked[o] > 0
  /\ checked' = [checked EXCEPT ![o] = @ - 1]
  /\ IF o \in deducted THEN UNCHANGED <<deducted, stockTaken>>
     ELSE /\ deducted' = deducted \cup {o}
          /\ stockTaken' = [stockTaken EXCEPT ![o] = @ + 1]
  /\ UNCHANGED <<row, shipping, queued, earned, release, req, history>>

-----------------------------------------------------------------------------
(* scheduledOrdersRelease, every minute in every instance *)

NotSweeping == [left |-> {}, tell |-> NoOrder]

\* the release time of a scheduled order comes
TimePasses(o) ==
  /\ o \in held \ due
  /\ due' = due \cup {o}
  /\ UNCHANGED <<row, shipping, inventory, earned, sweep, kitchenTold, req, history>>

\* Mutant: only the orders the restaurant accepted are released.
ReleasableAccepted(o) ==
  o \in held \cap due /\ status[o] \notin Terminal \cup {"PENDING", "PAID"}
    /\ o \notin cancelledAt
Releasable(o) == o \in held \cap due /\ status[o] \notin Terminal /\ o \notin cancelledAt

Sweep(i) ==
  /\ sweep[i] = NotSweeping
  /\ \E o \in Orders : Releasable(o)
  /\ sweep' = [sweep EXCEPT ![i].left = {o \in Orders : Releasable(o)}]
  /\ UNCHANGED <<row, shipping, inventory, earned, due, kitchenTold, req, history>>

\* Mutant: the update asks only for the id.
ReleaseUnconditionally(i, o) ==
  /\ o \in sweep[i].left /\ sweep[i].tell = NoOrder
  /\ sweep' = [sweep EXCEPT ![i] = [left |-> sweep[i].left \ {o}, tell |-> o]]
  /\ held' = held \ {o}
  /\ UNCHANGED <<kind, status, paid, cancelledAt, shipping, inventory, earned,
                 due, kitchenTold, req, history>>

\* the conditional update: only the instance that sets kitchenReleasedAt goes on
Release(i, o) ==
  /\ o \in sweep[i].left /\ sweep[i].tell = NoOrder
  /\ sweep' = [sweep EXCEPT ![i] =
       [left |-> sweep[i].left \ {o}, tell |-> IF o \in held THEN o ELSE NoOrder]]
  /\ held' = held \ {o}
  /\ UNCHANGED <<kind, status, paid, cancelledAt, shipping, inventory, earned,
                 due, kitchenTold, req, history>>

TellKitchen(i) ==
  /\ sweep[i].tell # NoOrder
  /\ kitchenTold' = [kitchenTold EXCEPT ![sweep[i].tell] = @ + 1]
  /\ sweep' = [sweep EXCEPT ![i].tell = NoOrder]
  /\ UNCHANGED <<row, shipping, inventory, earned, due, req, history>>

-----------------------------------------------------------------------------
(* A call fails or the process stops: what was written stays *)

FailRequest(r) ==
  /\ ~At(r, "idle") /\ faults < MaxFaults
  /\ disturbed' = disturbed \cup {req[r].ord}
  /\ Finish(r)
  /\ faults' = faults + 1
  /\ UNCHANGED <<row, shipping, inventory, earned, release, dispatched>>

FailStock(o) ==
  /\ faults < MaxFaults
  /\ \/ /\ queued[o] > 0
        /\ queued' = [queued EXCEPT ![o] = @ - 1] /\ UNCHANGED checked
     \/ /\ checked[o] > 0
        /\ checked' = [checked EXCEPT ![o] = @ - 1] /\ UNCHANGED queued
  /\ faults' = faults + 1
  /\ UNCHANGED <<row, shipping, deducted, stockTaken, earned, release, req,
                 dispatched, disturbed>>

FailSweep(i) ==
  /\ sweep[i] # NotSweeping /\ faults < MaxFaults
  /\ sweep' = [sweep EXCEPT ![i] = NotSweeping]
  /\ faults' = faults + 1
  /\ UNCHANGED <<row, shipping, inventory, earned, due, kitchenTold, req,
                 dispatched, disturbed>>

-----------------------------------------------------------------------------
(* The specification *)

\* What a running request does next by itself.
Proceed(r) ==
  \/ SetStatus(r) \/ ReadEarned(r) \/ Credit(r)
  \/ ReadForSync(r) \/ DropDelivery(r) \/ ReadyDelivery(r) \/ PickDriver(r)
  \/ SetPaid(r) \/ Collect(r) \/ ChooseDriver(r) \/ AssignDriver(r) \/ Close(r)
  \/ MoveDelivery(r) \/ FinishOrder(r) \/ WriteItems(r) \/ WriteVoid(r)

Arrive(r) ==
  \E o \in Orders :
    \/ \E t \in Status : ReadForStatus(r, o, t)
    \/ ReadForPayment(r, o)
    \/ \E d \in Drivers :
         ReadForDispatch(r, o, d) \/ ReadForAssign(r, o, d) \/ ReadForRun(r, o, d)
    \/ \E t \in DeliveryStatus : ReadForDelivery(r, o, t)
    \/ ReadForItems(r, o) \/ ReadForVoid(r, o)

Deduct(o) == CheckStock(o) \/ TakeStock(o)
RunCron(i) == Sweep(i) \/ TellKitchen(i) \/ \E o \in Orders : Release(i, o)

Outside ==
  \/ \E d \in Drivers : SetAvailability(d)
  \/ \E o \in Orders : TimePasses(o) \/ FailStock(o)
  \/ \E r \in Requests : FailRequest(r)
  \/ \E i \in Instances : FailSweep(i)

Next ==
  \/ \E r \in Requests : Arrive(r) \/ Proceed(r)
  \/ \E o \in Orders : Deduct(o)
  \/ \E i \in Instances : RunCron(i)
  \/ Outside

Spec == Init /\ [][Next]_vars

\* A call in flight is answered, the cron of an instance fires.  Nothing is
\* assumed of users, drivers, the clock or faults.
FairSpec ==
  /\ Spec
  /\ \A r \in Requests : WF_vars(Proceed(r))
  /\ \A o \in Orders : WF_vars(Deduct(o))
  /\ \A i \in Instances : WF_vars(RunCron(i))

-----------------------------------------------------------------------------
(* Properties *)

\* The stock of an order is decremented once, with the row that says so, and only
\* for an order that was paid: two requests that mark it paid start two
\* deductions, which both pass the check before either writes.
StockFollowsPayment ==
  /\ \A o \in Orders : stockTaken[o] = IF o \in deducted THEN 1 ELSE 0
  /\ deducted \subseteq paid

\* The kitchen hears of the release of a scheduled order at most once, and only
\* once it is released, however many instances sweep at the same time.
KitchenToldOnce ==
  \A o \in Orders :
    /\ kitchenTold[o] <= 1
    /\ kitchenTold[o] = 1 => o \in due \ held

\* An order closed by a dispatch from the salon is paid and was given a driver,
\* whatever other requests do between the three steps of the dispatch.
DispatchIsComplete ==
  \A o \in dispatched : o \in paid /\ driver[o] # NoDriver

\* As long as requests on an order come one at a time and succeed, the order
\* never leaves DELIVERED or CANCELLED, through any of the six services.
FinalWhenAlone ==
  [][\A o \in Orders \ disturbed' :
       status[o] \in Terminal => status'[o] = status[o]]_vars

\* ... and cancelling the order reaches its delivery: between requests no
\* cancelled order is still being prepared for, or carried by, a driver.
CancelReachesDelivery ==
  \A o \in Orders \ disturbed :
    (status[o] = "CANCELLED" /\ Busy(o) = {}) =>
      delivery[o] \in {"none", "DELIVERED", "CANCELLED"}

\* A deduction that was started takes the stock, unless a call fails or the order
\* is cancelled before it looks.
DeductionLands ==
  \A o \in Orders :
    queued[o] > 0 ~> (o \in deducted \/ status[o] = "CANCELLED" \/ faults > 0)

\* A scheduled order whose time has come reaches the kitchen, unless it is closed
\* or cancelled before, or a call fails.
DueIsTold ==
  \A o \in Orders :
    o \in due ~> (kitchenTold[o] = 1 \/ status[o] \in Terminal
                  \/ o \in cancelledAt \/ faults > 0)
=============================================================================
