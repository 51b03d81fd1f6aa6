-------------------------- MODULE OrderSafetyProofs --------------------------
(***************************************************************************)
(* The safety properties of OrderLifecycle, for every set of orders,       *)
(* drivers, requests and instances.                                        *)
(***************************************************************************)
EXTENDS OrderLifecycleProofs

-----------------------------------------------------------------------------
(* Stock.  A deduction that passed the check was for a paid order, and an  *)
(* order never stops being paid.                                           *)

CheckedIsPaid == \A o \in Orders : checked[o] > 0 => o \in paid
StockInv == StockFollowsPayment /\ CheckedIsPaid

LEMMA StockFrame ==
  ASSUME [Next]_vars
  PROVE  \/ UNCHANGED <<paid, deducted, stockTaken, checked>>
         \/ \E r \in Requests : SetPaid(r)
         \/ \E o \in Orders : CheckStock(o) \/ TakeStock(o) \/ FailStock(o)
<1> USE DEF row, inventory
<1> DEFINE Same == UNCHANGED <<paid, deducted, stockTaken, checked>>
<1>1. ASSUME NEW r \in Requests, Arrive(r) PROVE Same
  BY <1>1 DEF Arrive, ReadForStatus, ReadForPayment, ReadForDispatch, ReadForAssign,
     ReadForRun, ReadForDelivery, ReadForItems, ReadForVoid
<1>2. ASSUME NEW r \in Requests, Proceed(r) PROVE Same \/ SetPaid(r)
  BY <1>2 DEF Proceed, SetStatus, ReadEarned, Credit, ReadForSync, DropDelivery,
     ReadyDelivery, PickDriver, Collect, ChooseDriver, AssignDriver, Close,
     MoveDelivery, FinishOrder, WriteItems, WriteVoid
<1>3. ASSUME Outside PROVE Same \/ \E o \in Orders : FailStock(o)
  BY <1>3 DEF Outside, SetAvailability, TimePasses, FailRequest, FailSweep
<1>4. ASSUME NEW i \in Instances, RunCron(i) PROVE Same
  BY <1>4 DEF RunCron, Sweep, Release, TellKitchen
<1>5. CASE UNCHANGED vars
  BY <1>5 DEF vars
<1> QED BY <1>1, <1>2, <1>3, <1>4, <1>5 DEF Next, Deduct

LEMMA StockStep == TypeInv /\ StockInv /\ [Next]_vars => StockInv'
<1> SUFFICES ASSUME TypeInv, StockInv, [Next]_vars PROVE StockInv'
  OBVIOUS
<1> USE DEF StockInv, StockFollowsPayment, CheckedIsPaid
<1>0. /\ stockTaken \in [Orders -> Nat] /\ checked \in [Orders -> Nat]
      /\ queued \in [Orders -> Nat]
  BY DEF TypeInv, TypeOK
<1>1. CASE UNCHANGED <<paid, deducted, stockTaken, checked>>
  BY <1>1
<1>2. ASSUME NEW r \in Requests, SetPaid(r) PROVE StockInv'
  BY <1>2 DEF SetPaid
<1>3. ASSUME NEW o \in Orders, CheckStock(o) PROVE StockInv'
  BY <1>0, <1>3 DEF CheckStock, row
<1>4. ASSUME NEW o \in Orders, TakeStock(o) PROVE StockInv'
  BY <1>0, <1>4 DEF TakeStock, row
<1>5. ASSUME NEW o \in Orders, FailStock(o) PROVE StockInv'
  BY <1>0, <1>5 DEF FailStock, row
<1> QED BY <1>1, <1>2, <1>3, <1>4, <1>5, StockFrame

\* The stock of an order is taken once, with its row, and only for a paid order,
\* however many deductions run at the same time.
THEOREM StockIsTakenOnce == Spec => []StockFollowsPayment
<1>1. Init => StockInv
  BY DEF Init, StockInv, StockFollowsPayment, CheckedIsPaid
<1>2. StockInv => StockFollowsPayment
  BY DEF StockInv
<1> QED BY <1>1, <1>2, TypeInit, TypeStep, StockStep, PTL DEF Spec

-----------------------------------------------------------------------------
(* Release.  The instance whose update sets kitchenReleasedAt is the only  *)
(* one that holds the order for telling, and it has not told it yet.       *)

Told(o) == kitchenTold[o] = 0 \/ (kitchenTold[o] = 1 /\ o \in due \ held)
Telling(i) ==
  sweep[i].tell # NoOrder =>
    /\ sweep[i].tell \in due \ held
    /\ kitchenTold[sweep[i].tell] = 0
OneTells ==
  \A i, j \in Instances :
    i # j /\ sweep[i].tell # NoOrder => sweep[i].tell # sweep[j].tell
KitchenInv ==
  /\ \A o \in Orders : Told(o)
  /\ \A i \in Instances : Telling(i) /\ sweep[i].left \subseteq due
  /\ OneTells

LEMMA KitchenFrame ==
  ASSUME [Next]_vars
  PROVE  \/ UNCHANGED <<held, release>>
         \/ \E o \in Orders : TimePasses(o)
         \/ \E i \in Instances : RunCron(i) \/ FailSweep(i)
<1> USE DEF row, release
<1> DEFINE Same == UNCHANGED <<held, release>>
<1>1. ASSUME NEW r \in Requests, Arrive(r) PROVE Same
  BY <1>1 DEF Arrive, ReadForStatus, ReadForPayment, ReadForDispatch, ReadForAssign,
     ReadForRun, ReadForDelivery, ReadForItems, ReadForVoid
<1>2. ASSUME NEW r \in Requests, Proceed(r) PROVE Same
  BY <1>2 DEF Proceed, SetStatus, ReadEarned, Credit, ReadForSync, DropDelivery,
     ReadyDelivery, PickDriver, SetPaid, Collect, ChooseDriver, AssignDriver, Close,
     MoveDelivery, FinishOrder, WriteItems, WriteVoid
<1>3. ASSUME Outside
      PROVE  \/ Same \/ \E o \in Orders : TimePasses(o)
             \/ \E i \in Instances : FailSweep(i)
  BY <1>3 DEF Outside, SetAvailability, FailStock, FailRequest
<1>4. ASSUME NEW o \in Orders, Deduct(o) PROVE Same
  BY <1>4 DEF Deduct, CheckStock, TakeStock
<1>5. CASE UNCHANGED vars
  BY <1>5 DEF vars
<1> QED BY <1>1, <1>2, <1>3, <1>4, <1>5 DEF Next

LEMMA KitchenStep == TypeInv /\ KitchenInv /\ [Next]_vars => KitchenInv'
<1> SUFFICES ASSUME TypeInv, KitchenInv, [Next]_vars PROVE KitchenInv'
  OBVIOUS
<1> USE DEF KitchenInv, Told, Telling, OneTells
<1>0. /\ sweep \in [Instances -> [left : SUBSET Orders, tell : Orders \cup {NoOrder}]]
      /\ kitchenTold \in [Orders -> Nat]
  BY DEF TypeInv, TypeOK
<1>1. CASE UNCHANGED <<held, release>>
  BY <1>1 DEF release
<1>2. ASSUME NEW o \in Orders, TimePasses(o) PROVE KitchenInv'
  BY <1>2 DEF TimePasses, row
<1>3. ASSUME NEW i \in Instances, Sweep(i) PROVE KitchenInv'
  BY <1>0, <1>3 DEF Sweep, row, Releasable
<1>4. ASSUME NEW i \in Instances, NEW o \in Orders, Release(i, o) PROVE KitchenInv'
  BY <1>0, <1>4 DEF Release
<1>5. ASSUME NEW i \in Instances, TellKitchen(i) PROVE KitchenInv'
  BY <1>0, <1>5 DEF TellKitchen, row
<1>6. ASSUME NEW i \in Instances, FailSweep(i) PROVE KitchenInv'
  BY <1>0, <1>6 DEF FailSweep, NotSweeping, row
<1> QED BY <1>1, <1>2, <1>3, <1>4, <1>5, <1>6, KitchenFrame DEF RunCron

\* The kitchen hears of a release at most once, and only of a released order,
\* however many instances of the backend run the cron.
THEOREM KitchenHearsOnce == Spec => []KitchenToldOnce
<1>1. ASSUME Init PROVE KitchenInv
  <2>1. /\ \A o \in Orders : kitchenTold[o] = 0
        /\ \A i \in Instances : sweep[i].tell = NoOrder /\ sweep[i].left = {}
    BY <1>1 DEF Init
  <2>2. \A o \in Orders : Told(o)
    BY <2>1 DEF Told
  <2>3. \A i \in Instances : Telling(i) /\ sweep[i].left \subseteq due
    BY <2>1 DEF Telling
  <2>4. OneTells
    BY <2>1 DEF OneTells
  <2> QED BY <2>2, <2>3, <2>4 DEF KitchenInv
<1>2. KitchenInv => KitchenToldOnce
  BY DEF KitchenInv, Told, KitchenToldOnce
<1> QED BY <1>1, <1>2, TypeInit, TypeStep, KitchenStep, PTL DEF Spec
-----------------------------------------------------------------------------
(* Dispatch.  Between its steps a dispatch carries what it has done: the   *)
(* order is paid from the moment it chooses a driver, and has one when it  *)
(* closes.  Payments are never undone and no write takes a driver away.    *)

Carried(q) ==
  q.job = "dispatch" =>
    /\ q.at \in {"choosing", "assigning", "closing", "setting"} => q.ord \in paid
    /\ q.at \in {"closing", "setting"} => driver[q.ord] # NoDriver
DispatchInv == DispatchIsComplete /\ \A r \in Requests : Carried(req[r])

\* Nothing but the request of the step and its own order changed, for the better.
LEMMA DispatchKeeps ==
  ASSUME TypeInv, DispatchInv, NEW r \in Requests, Others(r),
         paid \subseteq paid',
         \A o \in Orders : driver[o] # NoDriver => driver'[o] # NoDriver,
         \A o \in dispatched' :
           o \in dispatched \/ (o \in paid' /\ driver'[o] # NoDriver),
         Carried(req[r])'
  PROVE  DispatchInv'
<1>1. \A q \in Requests : Wired(req[q]) /\ Carried(req[q])
  BY DEF TypeInv, DispatchInv
<1>2. \A q \in Requests : q # r => Carried(req[q])'
  BY <1>1 DEF Others, Carried, Wired
<1>3. dispatched \subseteq Orders
  BY DEF TypeInv, TypeOK
<1>4. DispatchIsComplete'
  BY <1>3 DEF DispatchInv, DispatchIsComplete
<1>5. \A q \in Requests : Carried(req[q])'
  BY <1>2
<1> QED BY <1>4, <1>5 DEF DispatchInv

LEMMA DispatchStep == TypeInv /\ DispatchInv /\ [Next]_vars => DispatchInv'
<1> SUFFICES ASSUME TypeInv, DispatchInv, [Next]_vars PROVE DispatchInv'
  OBVIOUS
<1> USE DEF row, shipping, history
<1> DEFINE Same == UNCHANGED <<paid, driver, dispatched>>
<1>0. \A r \in Requests : Carried(req[r]) /\ Wired(req[r])
  BY DEF TypeInv, DispatchInv
<1>a. ASSUME NEW r \in Requests, Ended(r), Same PROVE DispatchInv'
  BY <1>a, DispatchKeeps DEF Ended, Carried
<1>b. ASSUME NEW r \in Requests, NEW p, NEW job, NEW o \in Orders, NEW t, NEW d,
             Begin(r, p, job, o, t, d), Same, job # "dispatch"
      PROVE  DispatchInv'
  <2>1. Begun(r, p, job, o, t, d)
    BY <1>b, BeginBegins
  <2> QED BY <1>b, <2>1, DispatchKeeps DEF Begun, Carried
<1>c. ASSUME NEW r \in Requests, NEW p, GoTo(r, p), Same, req[r].job # "dispatch"
      PROVE  DispatchInv'
  BY <1>c, GoToMoves, DispatchKeeps DEF Moved, Carried
<1>1. ASSUME NEW r \in Requests, NEW o \in Orders, NEW d \in Drivers,
             ReadForDispatch(r, o, d)
      PROVE  DispatchInv'
  <2>1. Begin(r, IF o \in paid THEN "choosing" ELSE "collecting",
              "dispatch", o, "DELIVERED", d) /\ Same
    BY <1>1 DEF ReadForDispatch, Begin
  <2>2. Begun(r, IF o \in paid THEN "choosing" ELSE "collecting",
              "dispatch", o, "DELIVERED", d)
    BY <2>1, BeginBegins
  <2> QED BY <2>1, <2>2, DispatchKeeps DEF Begun, Carried
<1>2. ASSUME NEW r \in Requests, Arrive(r) PROVE DispatchInv'
  BY <1>2, <1>1, <1>b, ZenonT(60) DEF Arrive, Begin, ReadForStatus, ReadForPayment, ReadForAssign,
     ReadForRun, ReadForDelivery, ReadForItems, ReadForVoid
<1>3. ASSUME NEW r \in Requests, SetStatus(r) PROVE DispatchInv'
  <2>1. /\ req[r].at = "setting" /\ UNCHANGED <<paid, driver>>
        /\ dispatched' = IF req[r].job = "dispatch" THEN dispatched \cup {req[r].ord}
                         ELSE dispatched
        /\ GoTo(r, "earning") \/ GoTo(r, "syncing") \/ Finish(r)
    BY <1>3 DEF SetStatus, At
  <2>2. \/ Moved(r, "earning") \/ Moved(r, "syncing") \/ Ended(r)
    BY <2>1, GoToMoves, FinishEnds
  <2> QED BY <1>0, <2>1, <2>2, DispatchKeeps DEF Moved, Ended, Carried
<1>4. ASSUME NEW r \in Requests, SetPaid(r) PROVE DispatchInv'
  <2>1. /\ paid' = paid \cup {req[r].ord} /\ UNCHANGED <<driver, dispatched>>
        /\ GoTo(r, "choosing") \/ Finish(r)
    BY <1>4 DEF SetPaid
  <2>2. Moved(r, "choosing") \/ Ended(r)
    BY <2>1, GoToMoves, FinishEnds
  <2> QED BY <2>1, <2>2, DispatchKeeps DEF Moved, Ended, Carried
<1>5. ASSUME NEW r \in Requests, Collect(r) PROVE DispatchInv'
  <2>1. Moved(r, IF req[r].ord \in paid THEN "choosing" ELSE "paying") /\ Same
    BY <1>5, GoToMoves DEF Collect
  <2> QED BY <2>1, DispatchKeeps DEF Moved, Carried
<1>6. ASSUME NEW r \in Requests, ChooseDriver(r) PROVE DispatchInv'
  <2>1. req[r].at = "choosing" /\ (Moved(r, "assigning") \/ Ended(r)) /\ Same
    BY <1>6, GoToMoves, FinishEnds DEF ChooseDriver, At
  <2> QED BY <1>0, <2>1, DispatchKeeps DEF Moved, Ended, Carried
<1>7. ASSUME NEW r \in Requests, AssignDriver(r) PROVE DispatchInv'
  <2>1. /\ req[r].at = "assigning" /\ req[r].ord \in Orders /\ req[r].drv # NoDriver
        /\ driver \in [Orders -> Drivers \cup {NoDriver}]
    BY <1>7, <1>0, AbsentAssumption DEF AssignDriver, At, Wired, TypeInv, TypeOK
  <2>2. driver' = [driver EXCEPT ![req[r].ord] = req[r].drv]
        /\ UNCHANGED <<paid, dispatched>>
    BY <1>7 DEF AssignDriver
  <2>3. Moved(r, "closing") \/ Ended(r)
    BY <1>7, GoToMoves, FinishEnds DEF AssignDriver
  <2> QED BY <1>0, <2>1, <2>2, <2>3, DispatchKeeps DEF Moved, Ended, Carried
<1>8. ASSUME NEW r \in Requests, Close(r) PROVE DispatchInv'
  <2>1. req[r].at = "closing" /\ (Moved(r, "setting") \/ Ended(r)) /\ Same
    BY <1>8, GoToMoves, FinishEnds DEF Close, At
  <2> QED BY <1>0, <2>1, DispatchKeeps DEF Moved, Ended, Carried
<1>9. ASSUME NEW r \in Requests, PickDriver(r) PROVE DispatchInv'
  <2>1. req[r].job # "dispatch" /\ Same
    BY <1>9, <1>0 DEF PickDriver, At, Wired
  <2>2. CASE Finish(r)
    BY <2>1, <2>2, <1>a, FinishEnds
  <2>3. CASE \E d \in Drivers : req' = [req EXCEPT ![r].at = "assigning", ![r].drv = d]
    <3>1. Others(r) /\ req'[r].job = req[r].job
      BY <2>3 DEF Others, TypeInv, TypeOK, Request
    <3> QED BY <2>1, <3>1, DispatchKeeps DEF Carried
  <2> QED BY <1>9, <2>2, <2>3 DEF PickDriver
<1>10. ASSUME NEW r \in Requests,
              \/ ReadEarned(r) \/ Credit(r) \/ ReadForSync(r) \/ DropDelivery(r)
              \/ ReadyDelivery(r) \/ MoveDelivery(r) \/ FinishOrder(r)
              \/ WriteItems(r) \/ WriteVoid(r)
       PROVE  DispatchInv'
  <2>1. /\ Same
        /\ \/ Moved(r, "crediting") \/ Moved(r, "dropping") \/ Moved(r, "readying")
           \/ Moved(r, "dispatching") \/ Moved(r, "finishing") \/ Ended(r)
    BY <1>10, GoToMoves, FinishEnds DEF ReadEarned, Credit, ReadForSync, DropDelivery,
       ReadyDelivery, MoveDelivery, FinishOrder, WriteItems, WriteVoid
  <2> QED BY <2>1, DispatchKeeps DEF Moved, Ended, Carried
<1>11. ASSUME NEW r \in Requests, FailRequest(r) PROVE DispatchInv'
  BY <1>11, <1>a, FinishEnds DEF FailRequest
<1>12. CASE UNCHANGED <<paid, driver, dispatched, req>>
  BY <1>12 DEF DispatchInv, DispatchIsComplete, Carried
<1> QED
  <2>1. ASSUME NEW r \in Requests, Proceed(r) PROVE DispatchInv'
    BY <2>1, <1>3, <1>4, <1>5, <1>6, <1>7, <1>8, <1>9, <1>10 DEF Proceed
  <2>2. ASSUME Outside PROVE DispatchInv'
    BY <2>2, <1>11, <1>12
    DEF Outside, SetAvailability, TimePasses, FailStock, FailSweep
  <2>3. ASSUME NEW o \in Orders, Deduct(o) PROVE DispatchInv'
    BY <2>3, <1>12 DEF Deduct, CheckStock, TakeStock
  <2>4. ASSUME NEW i \in Instances, RunCron(i) PROVE DispatchInv'
    BY <2>4, <1>12 DEF RunCron, Sweep, Release, TellKitchen
  <2>5. CASE UNCHANGED vars
    BY <2>5, <1>12 DEF vars
  <2> QED BY <1>2, <2>1, <2>2, <2>3, <2>4, <2>5 DEF Next

\* An order closed by a dispatch from the salon is paid and has a driver, with
\* any number of requests running beside the dispatch.
THEOREM DispatchedOrdersAreComplete == Spec => []DispatchIsComplete
<1>1. Init => DispatchInv
  BY DEF Init, Idle, DispatchInv, DispatchIsComplete, Carried
<1>2. DispatchInv => DispatchIsComplete
  BY DEF DispatchInv
<1> QED BY <1>1, <1>2, TypeInit, TypeStep, DispatchStep, PTL DEF Spec
-----------------------------------------------------------------------------
(* Serial orders.  As long as no two requests met on an order and none     *)
(* failed, the one request working on it knows what it read still holds,   *)
(* and a cancelled order with a live delivery has a request that will drop *)
(* the delivery.  It is the missing condition of every write in the code.  *)

Settled == {"none", "DELIVERED", "CANCELLED"}

\* What the points of a request remember of its order.
Fits(q, o) ==
  /\ q.at \in {"setting", "adding", "voiding"} => status[o] \notin Terminal
  /\ q.at = "adding" => q.to \notin Terminal
  /\ q.at \in {"dropping", "readying", "assigning", "moving"} =>
       delivery[o] \notin Settled
  /\ q.at = "finishing" => status[o] # "CANCELLED"
Dropping(q) == q.at \in {"syncing", "dropping"} /\ q.to = "CANCELLED"
Loose(o) == status[o] = "CANCELLED" /\ delivery[o] \notin Settled

Serial(o) ==
  /\ ~IsDelivery(o) => delivery[o] = "none"
  /\ \A q, r \in Requests : q # r /\ req[q].ord = o => req[r].ord # o
  /\ \A r \in Requests : req[r].ord = o => Fits(req[r], o)
  /\ Loose(o) => \E r \in Requests : req[r].ord = o /\ Dropping(req[r])
SerialInv == \A o \in Orders : o \notin disturbed => Serial(o)

\* A step of a request on another order leaves o serial.
LEMMA SerialElsewhere ==
  ASSUME NEW o \in Orders, Serial(o), NEW r \in Requests, Others(r),
         req[r].ord # o, req'[r].ord # o,
         kind' = kind, status'[o] = status[o], delivery'[o] = delivery[o]
  PROVE  Serial(o)'
<1>1. /\ (~IsDelivery(o) => delivery[o] = "none")'
      /\ Loose(o)' <=> Loose(o)
  BY DEF Serial, IsDelivery, Loose
<1>2. \A q \in Requests : req'[q].ord = o => q # r /\ req'[q] = req[q]
  BY DEF Others
<1>3. \A q \in Requests : req[q].ord = o => q # r /\ req'[q] = req[q]
  BY DEF Others
<1>4. (\A p, q \in Requests : p # q /\ req[p].ord = o => req[q].ord # o)'
  BY <1>2 DEF Serial
<1>5. (\A q \in Requests : req[q].ord = o => Fits(req[q], o))'
  BY <1>2 DEF Serial, Fits
<1>6. (Loose(o) => \E q \in Requests : req[q].ord = o /\ Dropping(req[q]))'
  BY <1>1, <1>3 DEF Serial, Dropping
<1> QED BY <1>1, <1>4, <1>5, <1>6 DEF Serial

\* A step of the only request on o, which leaves it where the code expects it.
LEMMA SerialHere ==
  ASSUME NEW o \in Orders, NEW r \in Requests, Others(r),
         \A q \in Requests : q # r => req[q].ord # o,
         (~IsDelivery(o) => delivery[o] = "none")',
         (req[r].ord = o => Fits(req[r], o))',
         (Loose(o) => req[r].ord = o /\ Dropping(req[r]))'
  PROVE  Serial(o)'
<1>1. \A q \in Requests : q # r => req'[q].ord # o
  BY DEF Others
<1> QED BY <1>1 DEF Serial

\* What the request on a serial order may rely on.
LEMMA Relies ==
  ASSUME TypeInv, SerialInv, NEW r \in Requests, req[r].at # "idle",
         req[r].ord \notin disturbed
  PROVE  /\ req[r].ord \in Orders /\ Serial(req[r].ord)
         /\ \A q \in Requests : q # r => req[q].ord # req[r].ord
         /\ Fits(req[r], req[r].ord)
         /\ Loose(req[r].ord) => Dropping(req[r])
         /\ ~IsDelivery(req[r].ord) => delivery[req[r].ord] = "none"
<1>1. req[r].ord \in Orders
  BY DEF TypeInv, Wired
<1> QED BY <1>1 DEF SerialInv, Serial

\* A step of a running request: only its own order is in question.
LEMMA Runs ==
  ASSUME TypeInv, SerialInv, NEW r \in Requests, req[r].at # "idle", Others(r),
         req'[r].ord \in {req[r].ord, NoOrder},
         kind' = kind, disturbed \subseteq disturbed',
         \A o \in Orders : o # req[r].ord =>
           status'[o] = status[o] /\ delivery'[o] = delivery[o],
         req[r].ord \notin disturbed' =>
           LET o == req[r].ord IN
           /\ (~IsDelivery(o) => delivery'[o] = "none")
           /\ req'[r].ord = o =>
                /\ req'[r].at \in {"setting", "adding", "voiding"} =>
                     status'[o] \notin Terminal
                /\ req'[r].at = "adding" => req'[r].to \notin Terminal
                /\ req'[r].at \in {"dropping", "readying", "assigning", "moving"} =>
                     delivery'[o] \notin Settled
                /\ req'[r].at = "finishing" => status'[o] # "CANCELLED"
           /\ status'[o] = "CANCELLED" /\ delivery'[o] \notin Settled =>
                /\ req'[r].ord = o
                /\ req'[r].at \in {"syncing", "dropping"} /\ req'[r].to = "CANCELLED"
  PROVE  SerialInv'
<1> SUFFICES ASSUME NEW o \in Orders, o \notin disturbed' PROVE Serial(o)'
  BY DEF SerialInv
<1>0. o \notin disturbed /\ Serial(o) /\ NoOrder \notin Orders
  BY AbsentAssumption DEF SerialInv
<1>1. CASE o # req[r].ord
  BY <1>0, <1>1, SerialElsewhere
<1>2. CASE o = req[r].ord
  <2>1. \A q \in Requests : q # r => req[q].ord # o
    BY <1>0, <1>2, Relies
  <2>2. (~IsDelivery(o) => delivery[o] = "none")'
    BY <1>2 DEF IsDelivery
  <2>3. (req[r].ord = o => Fits(req[r], o))'
    BY <1>2 DEF Fits
  <2>4. (Loose(o) => req[r].ord = o /\ Dropping(req[r]))'
    BY <1>2 DEF Loose, Dropping
  <2> QED BY <2>1, <2>2, <2>3, <2>4, SerialHere
<1> QED BY <1>1, <1>2

\* A request arrives at an order it has read.
LEMMA Arrives ==
  ASSUME TypeInv, SerialInv, NEW r \in Requests, NEW p, NEW job, NEW o \in Orders,
         NEW t, NEW d, Begin(r, p, job, o, t, d),
         UNCHANGED <<kind, status, delivery>>,
         p \in {"setting", "adding", "voiding"} => status[o] \notin Terminal,
         p = "adding" => t \notin Terminal,
         p \in {"dropping", "readying", "assigning", "moving"} => delivery[o] \notin Settled,
         p # "finishing"
  PROVE  SerialInv'
<1> SUFFICES ASSUME NEW e \in Orders, e \notin disturbed' PROVE Serial(e)'
  BY DEF SerialInv
<1>0. Begun(r, p, job, o, t, d) /\ disturbed \subseteq disturbed'
  BY BeginBegins
<1>1. Serial(e) /\ req[r].ord # e
  BY <1>0, AbsentAssumption DEF SerialInv, Begun
<1>2. CASE e # o
  BY <1>0, <1>1, <1>2, SerialElsewhere DEF Begun
<1>3. CASE e = o
  <2>1. \A q \in Requests : req[q].ord # o
    BY <1>3, BeginBegins
  <2>2. Others(r) /\ (req[r].ord = o => Fits(req[r], o))'
    BY <1>0 DEF Begun, Fits
  <2>3. (~IsDelivery(o) => delivery[o] = "none")' /\ ~Loose(o)'
    BY <1>1, <1>3, <2>1 DEF Serial, IsDelivery, Loose
  <2> QED BY <1>3, <2>1, <2>2, <2>3, SerialHere
<1> QED BY <1>2, <1>3

LEMMA SerialStep == TypeInv /\ SerialInv /\ [Next]_vars => SerialInv'
<1> SUFFICES ASSUME TypeInv, SerialInv, [Next]_vars PROVE SerialInv'
  OBVIOUS
<1> USE DEF row, shipping, history
<1>0. /\ status \in [Orders -> Status]
      /\ delivery \in [Orders -> DeliveryStatus \cup {"none"}]
      /\ \A r \in Requests : Wired(req[r])
  BY DEF TypeInv, TypeOK
<1>1. ASSUME NEW r \in Requests, Arrive(r) PROVE SerialInv'
  <2> PICK o \in Orders :
        \/ \E t \in Status : ReadForStatus(r, o, t)
        \/ ReadForPayment(r, o)
        \/ \E d \in Drivers :
             ReadForDispatch(r, o, d) \/ ReadForAssign(r, o, d) \/ ReadForRun(r, o, d)
        \/ \E t \in DeliveryStatus : ReadForDelivery(r, o, t)
        \/ ReadForItems(r, o) \/ ReadForVoid(r, o)
    BY <1>1 DEF Arrive
  <2>0. status[o] \in Status
    BY <1>0
  <2>1. ASSUME NEW t \in Status, ReadForStatus(r, o, t) PROVE SerialInv'
    BY <2>0, <2>1, AllowedType, Arrives DEF ReadForStatus
  <2>2. CASE ReadForPayment(r, o)
    BY <2>2, Arrives DEF ReadForPayment
  <2>3. ASSUME NEW d \in Drivers, ReadForDispatch(r, o, d) PROVE SerialInv'
    <3>1. CASE o \in paid
      BY <2>3, <3>1, Arrives DEF ReadForDispatch
    <3>2. CASE o \notin paid
      BY <2>3, <3>2, Arrives DEF ReadForDispatch
    <3> QED BY <3>1, <3>2
  <2>4. ASSUME NEW d \in Drivers, ReadForAssign(r, o, d) PROVE SerialInv'
    BY <2>4, Arrives DEF ReadForAssign, Settled
  <2>5. ASSUME NEW d \in Drivers, ReadForRun(r, o, d) PROVE SerialInv'
    BY <2>5, Arrives DEF ReadForRun, ActiveRun, Settled
  <2>6. ASSUME NEW t \in DeliveryStatus, ReadForDelivery(r, o, t) PROVE SerialInv'
    <3>1. delivery[o] \in DeliveryStatus
      BY <1>0, <2>6 DEF ReadForDelivery, HasRow
    <3> QED BY <2>6, <3>1, AllowedType, Arrives DEF ReadForDelivery, HasRow, Settled
  <2>7. CASE ReadForItems(r, o)
    <3>1. PICK t : Begin(r, "adding", "items", o, t, NoDriver)
                   /\ (t = status[o] \/ t = "PREPARING")
      BY <2>7 DEF ReadForItems
    <3> QED BY <2>7, <3>1, Arrives DEF ReadForItems, Editable, Terminal
  <2>8. CASE ReadForVoid(r, o)
    BY <2>8, Arrives DEF ReadForVoid, Editable
  <2> QED BY <2>1, <2>2, <2>3, <2>4, <2>5, <2>6, <2>7, <2>8
<1>2. ASSUME NEW r \in Requests, SetStatus(r) PROVE SerialInv'
  <2> DEFINE o == req[r].ord  t == req[r].to
  <2>1. /\ req[r].at = "setting" /\ o \in Orders /\ t \in Status
        /\ status' = [status EXCEPT ![o] = t]
        /\ UNCHANGED <<kind, delivery, disturbed>>
    BY <1>0, <1>2 DEF SetStatus, At, Wired
  <2>2. status'[o] = t /\ \A e \in Orders : e # o => status'[e] = status[e]
    BY <1>0, <2>1
  <2>3. \/ t = "DELIVERED" /\ Moved(r, "earning")
        \/ t \in {"READY", "CANCELLED"} /\ IsDelivery(o) /\ Moved(r, "syncing")
        \/ ~(t = "CANCELLED" /\ IsDelivery(o)) /\ Ended(r)
    <3>1. CASE t = "DELIVERED"
      BY <1>2, <3>1, GoToMoves DEF SetStatus
    <3>2. CASE t \in {"READY", "CANCELLED"} /\ IsDelivery(o)
      BY <1>2, <3>2, GoToMoves DEF SetStatus
    <3>3. CASE t # "DELIVERED" /\ ~(t \in {"READY", "CANCELLED"} /\ IsDelivery(o))
      BY <1>2, <3>3, FinishEnds DEF SetStatus
    <3> QED BY <3>1, <3>2, <3>3
  <2>4. o \notin disturbed => (~IsDelivery(o) => delivery[o] = "none")
    BY <2>1, Relies
  <2> HIDE DEF o, t
  <2>5. CASE t = "DELIVERED" /\ Moved(r, "earning")
    BY <2>1, <2>2, <2>4, <2>5, Runs DEF Moved, IsDelivery, o
  <2>6. CASE t \in {"READY", "CANCELLED"} /\ IsDelivery(o) /\ Moved(r, "syncing")
    BY <2>1, <2>2, <2>4, <2>6, Runs DEF Moved, IsDelivery, o, t
  <2>7. CASE ~(t = "CANCELLED" /\ IsDelivery(o)) /\ Ended(r)
    BY <2>1, <2>2, <2>4, <2>7, Runs, AbsentAssumption DEF Ended, IsDelivery, Settled, o
  <2> QED BY <2>3, <2>5, <2>6, <2>7
<1>3. ASSUME NEW r \in Requests, ReadForSync(r) PROVE SerialInv'
  <2> DEFINE o == req[r].ord
  <2>1. /\ req[r].at = "syncing" /\ o \in Orders
        /\ UNCHANGED <<kind, status, delivery, disturbed>>
    BY <1>0, <1>3 DEF ReadForSync, At, Wired
  <2>2. \/ /\ Moved(r, "dropping") /\ req[r].to = "CANCELLED"
           /\ delivery[o] \notin Settled
        \/ /\ Moved(r, "readying") /\ req[r].to = "READY" /\ delivery[o] = "PENDING"
        \/ /\ Ended(r) /\ ~(req[r].to = "CANCELLED" /\ delivery[o] \notin Settled)
    <3>1. CASE req[r].to = "CANCELLED" /\ delivery[o] \notin Settled
      BY <1>3, <3>1, GoToMoves DEF ReadForSync, Settled
    <3>2. CASE req[r].to = "READY" /\ delivery[o] = "PENDING"
      BY <1>3, <3>2, GoToMoves DEF ReadForSync
    <3>3. CASE /\ ~(req[r].to = "CANCELLED" /\ delivery[o] \notin Settled)
               /\ ~(req[r].to = "READY" /\ delivery[o] = "PENDING")
      BY <1>3, <3>3, FinishEnds DEF ReadForSync, Settled
    <3> QED BY <3>1, <3>2, <3>3
  <2>3. o \notin disturbed =>
          /\ ~IsDelivery(o) => delivery[o] = "none"
          /\ Loose(o) => req[r].to = "CANCELLED"
    BY <2>1, Relies DEF Dropping
  <2> HIDE DEF o
  <2> QED BY <2>1, <2>2, <2>3, Runs DEF Moved, Ended, IsDelivery, Loose, Settled, o
<1>4. ASSUME NEW r \in Requests, DropDelivery(r) PROVE SerialInv'
  <2>1. req[r].at = "dropping" /\ Wired(req[r]) /\ (Ended(r))
    BY <1>0, <1>4, GoToMoves, FinishEnds DEF DropDelivery, At
  <2>2. Others(r) /\ req'[r].ord \in {req[r].ord, NoOrder}
    BY <2>1 DEF Moved, Ended
  <2> QED
    BY <1>0, <1>4, <2>1, <2>2, Relies, Runs
    DEF DropDelivery, Moved, Ended, Wired, Fits, Loose, Dropping, Settled, Terminal, IsDelivery
<1>5. ASSUME NEW r \in Requests, ReadyDelivery(r) PROVE SerialInv'
  <2>1. req[r].at = "readying" /\ Wired(req[r]) /\ (Moved(r, "dispatching") \/ Ended(r))
    BY <1>0, <1>5, GoToMoves, FinishEnds DEF ReadyDelivery, At
  <2>2. Others(r) /\ req'[r].ord \in {req[r].ord, NoOrder}
    BY <2>1 DEF Moved, Ended
  <2> QED
    BY <1>0, <1>5, <2>1, <2>2, Relies, Runs
    DEF ReadyDelivery, Moved, Ended, Wired, Fits, Loose, Dropping, Settled, Terminal, IsDelivery
<1>6. ASSUME NEW r \in Requests, ChooseDriver(r) PROVE SerialInv'
  <2>1. req[r].at = "choosing" /\ Wired(req[r])
    BY <1>0, <1>6 DEF ChooseDriver, At
  <2>2. \/ Moved(r, "assigning") /\ delivery[req[r].ord] = "READY"
        \/ Ended(r)
    BY <1>0, <1>6, <2>1, GoToMoves, FinishEnds DEF ChooseDriver
  <2>3. Others(r) /\ req'[r].ord \in {req[r].ord, NoOrder}
    BY <2>2 DEF Moved, Ended
  <2> QED
    BY <1>0, <1>6, <2>1, <2>2, <2>3, Relies, Runs
    DEF ChooseDriver, Moved, Ended, Wired, Fits, Loose, Dropping, Settled, IsDelivery
<1>7. ASSUME NEW r \in Requests, AssignDriver(r) PROVE SerialInv'
  <2>1. req[r].at = "assigning" /\ Wired(req[r]) /\ (Moved(r, "closing") \/ Ended(r))
    BY <1>0, <1>7, GoToMoves, FinishEnds DEF AssignDriver, At
  <2>2. Others(r) /\ req'[r].ord \in {req[r].ord, NoOrder}
    BY <2>1 DEF Moved, Ended
  <2> QED
    BY <1>0, <1>7, <2>1, <2>2, Relies, Runs
    DEF AssignDriver, Moved, Ended, Wired, Fits, Loose, Dropping, Settled, IsDelivery
<1>8. ASSUME NEW r \in Requests, Close(r) PROVE SerialInv'
  <2>1. req[r].at = "closing" /\ Wired(req[r])
    BY <1>0, <1>8 DEF Close, At
  <2>2. \/ Moved(r, "setting") /\ status[req[r].ord] \notin Terminal
        \/ Ended(r)
    BY <1>0, <1>8, <2>1, GoToMoves, FinishEnds, AllowedType DEF Close, Wired
  <2>3. Others(r) /\ req'[r].ord \in {req[r].ord, NoOrder}
    BY <2>2 DEF Moved, Ended
  <2> QED
    BY <1>0, <1>8, <2>1, <2>2, <2>3, Relies, Runs
    DEF Close, Moved, Ended, Wired, Fits, Loose, Dropping, Settled, IsDelivery
<1>9. ASSUME NEW r \in Requests, MoveDelivery(r) PROVE SerialInv'
  <2>1. req[r].at = "moving" /\ Wired(req[r]) /\ (Moved(r, "finishing") \/ Ended(r))
    BY <1>0, <1>9, GoToMoves, FinishEnds DEF MoveDelivery, At
  <2>2. Others(r) /\ req'[r].ord \in {req[r].ord, NoOrder}
    BY <2>1 DEF Moved, Ended
  <2> QED
    BY <1>0, <1>9, <2>1, <2>2, Relies, Runs
    DEF MoveDelivery, Moved, Ended, Wired, Fits, Loose, Dropping, Settled, IsDelivery
<1>10. ASSUME NEW r \in Requests, FinishOrder(r) PROVE SerialInv'
  <2>1. req[r].at = "finishing" /\ Wired(req[r]) /\ (Ended(r))
    BY <1>0, <1>10, GoToMoves, FinishEnds DEF FinishOrder, At
  <2>2. Others(r) /\ req'[r].ord \in {req[r].ord, NoOrder}
    BY <2>1 DEF Moved, Ended
  <2> QED
    BY <1>0, <1>10, <2>1, <2>2, Relies, Runs
    DEF FinishOrder, Moved, Ended, Wired, Fits, Loose, Dropping, Settled, IsDelivery
<1>11. ASSUME NEW r \in Requests, WriteItems(r) PROVE SerialInv'
  <2>1. req[r].at = "adding" /\ Wired(req[r]) /\ (Ended(r))
    BY <1>0, <1>11, GoToMoves, FinishEnds DEF WriteItems, At
  <2>2. Others(r) /\ req'[r].ord \in {req[r].ord, NoOrder}
    BY <2>1 DEF Moved, Ended
  <2> QED
    BY <1>0, <1>11, <2>1, <2>2, Relies, Runs
    DEF WriteItems, Moved, Ended, Wired, Fits, Loose, Dropping, Settled, Terminal, IsDelivery
<1>12. ASSUME NEW r \in Requests, WriteVoid(r) PROVE SerialInv'
  <2>1. req[r].at = "voiding" /\ Wired(req[r]) /\ (Ended(r))
    BY <1>0, <1>12, GoToMoves, FinishEnds DEF WriteVoid, At
  <2>2. Others(r) /\ req'[r].ord \in {req[r].ord, NoOrder}
    BY <2>1 DEF Moved, Ended
  <2> QED
    BY <1>0, <1>12, <2>1, <2>2, Relies, Runs
    DEF WriteVoid, Moved, Ended, Wired, Fits, Loose, Dropping, Settled, IsDelivery, HasRow
<1>13. ASSUME NEW r \in Requests, PickDriver(r) PROVE SerialInv'
  <2>1. /\ req[r].at = "dispatching" /\ UNCHANGED <<kind, status, delivery, disturbed>>
    BY <1>13 DEF PickDriver, At
  <2>2. \/ Ended(r)
        \/ /\ Others(r) /\ delivery[req[r].ord] = "READY"
           /\ req'[r].at = "assigning" /\ req'[r].ord = req[r].ord
    BY <1>13, FinishEnds DEF PickDriver, Others, TypeInv, TypeOK, Request
  <2>3. Others(r) /\ req'[r].ord \in {req[r].ord, NoOrder}
    BY <2>2 DEF Ended
  <2> QED BY <2>1, <2>2, <2>3, Relies, Runs DEF Ended, Loose, Dropping, IsDelivery, Settled
<1>14. ASSUME NEW r \in Requests,
              ReadEarned(r) \/ Credit(r) \/ SetPaid(r) \/ Collect(r)
       PROVE  SerialInv'
  <2>1. /\ req[r].at \in {"earning", "crediting", "paying", "collecting"}
        /\ UNCHANGED <<kind, status, delivery, disturbed>>
    BY <1>14 DEF ReadEarned, Credit, SetPaid, Collect, At
  <2>2. Moved(r, "crediting") \/ Moved(r, "choosing") \/ Moved(r, "paying") \/ Ended(r)
    BY <1>14, GoToMoves, FinishEnds DEF ReadEarned, Credit, SetPaid, Collect
  <2>3. Others(r) /\ req'[r].ord \in {req[r].ord, NoOrder}
    BY <2>2 DEF Moved, Ended
  <2> QED BY <2>1, <2>2, <2>3, Relies, Runs
          DEF Moved, Ended, Loose, Dropping, IsDelivery
<1>15. ASSUME NEW r \in Requests, FailRequest(r) PROVE SerialInv'
  <2>1. /\ req[r].at # "idle" /\ UNCHANGED <<kind, status, delivery>> /\ Ended(r)
        /\ disturbed' = disturbed \cup {req[r].ord}
    BY <1>15, FinishEnds DEF FailRequest, At
  <2> QED BY <2>1, Runs DEF Ended
<1>16. CASE UNCHANGED <<kind, status, delivery, req, disturbed>>
  BY <1>16 DEF SerialInv, Serial, Fits, Loose, Dropping, IsDelivery
<1> QED
  <2>1. ASSUME NEW r \in Requests, Proceed(r) PROVE SerialInv'
    BY <2>1, <1>2, <1>3, <1>4, <1>5, <1>6, <1>7, <1>8, <1>9, <1>10, <1>11, <1>12,
       <1>13, <1>14 DEF Proceed
  <2>2. ASSUME Outside PROVE SerialInv'
    BY <2>2, <1>15, <1>16 DEF Outside, SetAvailability, TimePasses, FailStock, FailSweep
  <2>3. ASSUME NEW o \in Orders, Deduct(o) PROVE SerialInv'
    BY <2>3, <1>16 DEF Deduct, CheckStock, TakeStock
  <2>4. ASSUME NEW i \in Instances, RunCron(i) PROVE SerialInv'
    BY <2>4, <1>16 DEF RunCron, Sweep, Release, TellKitchen
  <2>5. CASE UNCHANGED vars
    BY <2>5, <1>16 DEF vars
  <2> QED BY <1>1, <2>1, <2>2, <2>3, <2>4, <2>5 DEF Next

LEMMA SerialInit == Init => SerialInv
<1> SUFFICES ASSUME Init, NEW o \in Orders PROVE Serial(o)
  BY DEF SerialInv
<1>1. \A r \in Requests : req[r].ord = NoOrder
  BY DEF Init, Idle
<1>2. ~IsDelivery(o) => delivery[o] = "none"
  BY DEF Init, Placed, IsDelivery
<1>3. status[o] # "CANCELLED"
  BY DEF Init
<1> QED BY <1>1, <1>2, <1>3, AbsentAssumption DEF Serial, Loose

\* As long as the requests on an order come one at a time and succeed, a
\* cancelled order's delivery is cancelled with it, once its request is over.
THEOREM CancellationReachesDelivery == Spec => []CancelReachesDelivery
<1>1. SerialInv => CancelReachesDelivery
  BY DEF SerialInv, Serial, Loose, Settled, CancelReachesDelivery, Busy
<1> QED BY <1>1, SerialInit, SerialStep, TypeInit, TypeStep, PTL DEF Spec

StaysFinal ==
  \A o \in Orders \ disturbed' : status[o] \in Terminal => status'[o] = status[o]

LEMMA FinalStep == TypeInv /\ SerialInv /\ [Next]_vars => StaysFinal
<1> SUFFICES ASSUME TypeInv, SerialInv, [Next]_vars PROVE StaysFinal
  OBVIOUS
<1> USE DEF row, history
<1>0. /\ status \in [Orders -> Status]
      /\ \A r \in Requests : Wired(req[r])
  BY DEF TypeInv, TypeOK
<1>1. CASE UNCHANGED status
  BY <1>1 DEF StaysFinal
\* a write of the status by the request on an undisturbed order
<1>2. ASSUME NEW r \in Requests, NEW s,
             status' = [status EXCEPT ![req[r].ord] = s], disturbed' = disturbed,
             \/ req[r].at \in {"setting", "adding", "voiding"}
             \/ req[r].at = "finishing" /\ s = "DELIVERED"
      PROVE  StaysFinal
  <2> SUFFICES ASSUME NEW o \in Orders, o \notin disturbed', status[o] \in Terminal
               PROVE  status'[o] = status[o]
    BY DEF StaysFinal
  <2>1. CASE o # req[r].ord
    BY <1>0, <1>2, <2>1
  <2>2. CASE o = req[r].ord
    BY <1>0, <1>2, <2>2, Relies DEF Fits, Terminal
  <2> QED BY <2>1, <2>2
<1>3. ASSUME NEW r \in Requests, Proceed(r) PROVE StaysFinal
  <2>1. CASE SetStatus(r)
    BY <1>2, <2>1 DEF SetStatus, At
  <2>2. CASE FinishOrder(r)
    BY <1>2, <2>2 DEF FinishOrder, At
  <2>3. CASE WriteItems(r)
    BY <1>2, <2>3 DEF WriteItems, At
  <2>4. CASE WriteVoid(r)
    BY <1>2, <2>4 DEF WriteVoid, At
  <2> QED
    BY <1>1, <1>3, <2>1, <2>2, <2>3, <2>4
    DEF Proceed, ReadEarned, Credit, ReadForSync, DropDelivery, ReadyDelivery,
        PickDriver, SetPaid, Collect, ChooseDriver, AssignDriver, Close, MoveDelivery
<1>4. ASSUME NEW r \in Requests, Arrive(r) PROVE StaysFinal
  BY <1>1, <1>4 DEF Arrive, ReadForStatus, ReadForPayment, ReadForDispatch,
     ReadForAssign, ReadForRun, ReadForDelivery, ReadForItems, ReadForVoid
<1>5. ASSUME Outside PROVE StaysFinal
  BY <1>1, <1>5
  DEF Outside, SetAvailability, TimePasses, FailStock, FailRequest, FailSweep
<1>6. ASSUME NEW o \in Orders, Deduct(o) PROVE StaysFinal
  BY <1>1, <1>6 DEF Deduct, CheckStock, TakeStock
<1>7. ASSUME NEW i \in Instances, RunCron(i) PROVE StaysFinal
  BY <1>1, <1>7 DEF RunCron, Sweep, Release, TellKitchen
<1>8. CASE UNCHANGED vars
  BY <1>1, <1>8 DEF vars
<1> QED BY <1>3, <1>4, <1>5, <1>6, <1>7, <1>8 DEF Next

\* DELIVERED and CANCELLED are final, through every service that writes the
\* status, as long as the requests on an order come one at a time and succeed.
THEOREM FinalUnlessDisturbed == Spec => FinalWhenAlone
<1>1. TypeInv /\ SerialInv /\ [Next]_vars =>
        [\A o \in Orders \ disturbed' :
           status[o] \in Terminal => status'[o] = status[o]]_vars
  BY FinalStep DEF StaysFinal
<1> QED
  BY <1>1, SerialInit, SerialStep, TypeInit, TypeStep, PTL DEF Spec, FinalWhenAlone
=============================================================================
