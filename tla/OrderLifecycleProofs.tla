------------------------ MODULE OrderLifecycleProofs ------------------------
(***************************************************************************)
(* Theorems about OrderLifecycle, for every set of orders, drivers,        *)
(* requests and instances, every mix of kinds and every bound.             *)
(***************************************************************************)
EXTENDS OrderLifecycle, TLAPS

-----------------------------------------------------------------------------
(* Types.  A running request knows its order, the driver it needs and a    *)
(* status of the right kind.                                               *)

Wired(q) ==
  /\ q.at = "idle" => q.ord = NoOrder
  /\ q.at # "idle" => q.ord \in Orders
  /\ q.at \in {"setting", "adding"} => q.to \in Status
  /\ q.at = "moving" => q.to \in DeliveryStatus
  /\ q.at = "assigning" \/ q.job = "dispatch" => q.drv \in Drivers
  /\ q.job = "dispatch" => q.to = "DELIVERED"
  /\ q.at \in {"readying", "dispatching"} => q.job # "dispatch"
  /\ q.at \in {"collecting", "choosing", "closing"} => q.job = "dispatch"

TypeInv == TypeOK /\ \A r \in Requests : Wired(req[r])

\* The three ways a request changes, with what stays.
Others(r) == \A q \in Requests : q # r => req'[q] = req[q]
Moved(r, p) ==
  /\ req'[r].at = p /\ req'[r].job = req[r].job /\ req'[r].ord = req[r].ord
  /\ req'[r].to = req[r].to /\ req'[r].drv = req[r].drv
  /\ Others(r)
Ended(r) ==
  /\ req'[r].at = "idle" /\ req'[r].job = "none" /\ req'[r].ord = NoOrder
  /\ Others(r)
Begun(r, p, job, o, t, d) ==
  /\ req[r].ord = NoOrder
  /\ req'[r].at = p /\ req'[r].job = job /\ req'[r].ord = o
  /\ req'[r].to = t /\ req'[r].drv = d
  /\ Others(r)

LEMMA IdleType == Idle \in Request /\ Wired(Idle)
BY DEF Idle, Request, Points, Jobs, Wired

LEMMA AllowedType ==
  /\ \A s \in Status : \A t : MayBecome(s, t) => s \notin Terminal /\ t \in Status
  /\ \A s \in DeliveryStatus : \A t : t \in DeliveryAllowed[s] =>
       s \notin {"DELIVERED", "CANCELLED"} /\ t \in DeliveryStatus
  /\ \A s \in ActiveRun : s \in DeliveryStatus /\ RunAllowed[s] \in DeliveryStatus
<1>1. \A s \in Status : \A t : MayBecome(s, t) => s \notin Terminal /\ t \in Status
  BY DEF MayBecome, Allowed, Status, Terminal
<1>2. \A s \in DeliveryStatus : \A t : t \in DeliveryAllowed[s] =>
        s \notin {"DELIVERED", "CANCELLED"} /\ t \in DeliveryStatus
  BY DEF DeliveryAllowed, DeliveryStatus
<1>3. \A s \in ActiveRun : s \in DeliveryStatus /\ RunAllowed[s] \in DeliveryStatus
  BY DEF RunAllowed, ActiveRun, DeliveryStatus
<1> QED BY <1>1, <1>2, <1>3

LEMMA GoToMoves ==
  ASSUME TypeInv, NEW r \in Requests, NEW p, GoTo(r, p)
  PROVE  Moved(r, p)
BY DEF TypeInv, TypeOK, GoTo, Moved, Others, Request

LEMMA FinishEnds ==
  ASSUME TypeInv, NEW r \in Requests, Finish(r)
  PROVE  Ended(r)
BY DEF TypeInv, TypeOK, Finish, Idle, Ended, Others

LEMMA BeginBegins ==
  ASSUME TypeInv, NEW r \in Requests, NEW p, NEW job, NEW o \in Orders, NEW t, NEW d,
         Begin(r, p, job, o, t, d)
  PROVE  /\ Begun(r, p, job, o, t, d)
         /\ disturbed' \subseteq Orders /\ disturbed \subseteq disturbed'
         /\ o \in disturbed' \/ \A q \in Requests : req[q].ord # o
<1>1. Begun(r, p, job, o, t, d)
  BY DEF TypeInv, TypeOK, Wired, Begin, At, Begun, Others
<1>2. disturbed' = IF Busy(o) = {} THEN disturbed ELSE disturbed \cup {o}
  BY DEF Begin
<1>3. disturbed \subseteq Orders
  BY DEF TypeInv, TypeOK
<1>4. Busy(o) = {} => \A q \in Requests : req[q].ord # o
  BY DEF Busy
<1> QED BY <1>1, <1>2, <1>3, <1>4

ReqInv == req \in [Requests -> Request] /\ \A r \in Requests : Wired(req[r])

LEMMA GoToStep ==
  ASSUME TypeInv, NEW r \in Requests, NEW p \in Points \ {"idle"}, GoTo(r, p),
         req[r].at # "idle",
         p \in {"setting", "adding"} => req[r].to \in Status,
         p = "moving" => req[r].to \in DeliveryStatus,
         p = "assigning" => req[r].drv \in Drivers,
         p \in {"readying", "dispatching"} => req[r].job # "dispatch",
         p \in {"collecting", "choosing", "closing"} => req[r].job = "dispatch"
  PROVE  ReqInv'
<1>1. req \in [Requests -> Request] /\ req[r] \in Request
  BY DEF TypeInv, TypeOK
<1>2. req' = [req EXCEPT ![r] = [req[r] EXCEPT !.at = p]]
  BY <1>1 DEF GoTo
<1>3. [req[r] EXCEPT !.at = p] \in Request
  BY <1>1 DEF Request
<1>4. Moved(r, p)
  BY GoToMoves
<1>5. Wired(req'[r])
  BY <1>4 DEF Moved, Wired, TypeInv
<1>6. \A q \in Requests : Wired(req'[q])
  BY <1>4, <1>5 DEF Moved, Others, TypeInv
<1>7. req' \in [Requests -> Request]
  BY <1>1, <1>2, <1>3
<1> QED BY <1>6, <1>7 DEF ReqInv, Wired

LEMMA FinishStep ==
  ASSUME TypeInv, NEW r \in Requests, Finish(r)
  PROVE  ReqInv'
<1>1. req \in [Requests -> Request]
  BY DEF TypeInv, TypeOK
<1>2. req' = [req EXCEPT ![r] = Idle]
  BY DEF Finish
<1>3. \A q \in Requests : Wired(req'[q])
  BY <1>1, <1>2, IdleType DEF TypeInv
<1> QED BY <1>1, <1>2, <1>3, IdleType DEF ReqInv, Wired

LEMMA BeginStep ==
  ASSUME TypeInv, NEW r \in Requests, NEW p \in Points \ {"idle", "readying", "dispatching"},
         NEW job \in Jobs,
         NEW o \in Orders, NEW t \in Status \cup DeliveryStatus \cup {"none"},
         NEW d \in Drivers \cup {NoDriver}, Begin(r, p, job, o, t, d),
         p \in {"setting", "adding"} => t \in Status,
         p = "moving" => t \in DeliveryStatus,
         p = "assigning" \/ job = "dispatch" => d \in Drivers,
         job = "dispatch" => t = "DELIVERED",
         p \in {"collecting", "choosing", "closing"} => job = "dispatch"
  PROVE  ReqInv' /\ UNCHANGED <<dispatched, faults>> /\ disturbed' \subseteq Orders
<1> DEFINE n == [at |-> p, job |-> job, ord |-> o, to |-> t, drv |-> d]
<1>1. req \in [Requests -> Request]
  BY DEF TypeInv, TypeOK
<1>2. req' = [req EXCEPT ![r] = n] /\ UNCHANGED <<dispatched, faults>>
  BY DEF Begin
<1>3. n \in Request /\ Wired(n)
  BY DEF Request, Wired
<1>4. \A q \in Requests : Wired(req'[q])
  BY <1>1, <1>2, <1>3 DEF TypeInv
<1>5. req' \in [Requests -> Request]
  BY <1>1, <1>2, <1>3
<1> QED BY <1>2, <1>4, <1>5, BeginBegins DEF ReqInv, Wired

LEMMA TypeInit == Init => TypeInv
<1> SUFFICES ASSUME Init PROVE TypeInv
  OBVIOUS
<1>1. kind \in [Orders -> Kind] /\ status \in [Orders -> Status]
      /\ delivery \in [Orders -> DeliveryStatus \cup {"none"}]
  BY KindAssumption DEF Init, Status, DeliveryStatus
<1>2. TypeOK
  BY <1>1, IdleType, LimitAssumption DEF Init, TypeOK
<1>3. \A r \in Requests : Wired(req[r])
  BY IdleType DEF Init
<1> QED BY <1>2, <1>3 DEF TypeInv

LEMMA TypeStep == TypeInv /\ [Next]_vars => TypeInv'
<1> SUFFICES ASSUME TypeInv, [Next]_vars PROVE TypeInv'
  OBVIOUS
<1> USE DEF row, shipping, inventory, release, history
<1>0. TypeOK
  BY DEF TypeInv
<1>w. ASSUME NEW r \in Requests
      PROVE  /\ req[r] \in Request /\ Wired(req[r])
             /\ req[r].at # "idle" => req[r].ord \in Orders
  BY DEF TypeInv, TypeOK, Wired
<1>a. ASSUME NEW r \in Requests, NEW o \in Orders, NEW t \in Status, ReadForStatus(r, o, t)
      PROVE  TypeInv'
  <2>1. ReqInv' /\ UNCHANGED <<dispatched, faults>> /\ disturbed' \subseteq Orders
    BY <1>a, BeginStep DEF ReadForStatus, Points, Jobs
  <2> QED BY <1>0, <1>a, <2>1 DEF ReadForStatus, TypeInv, TypeOK, ReqInv
<1>b. ASSUME NEW r \in Requests, SetStatus(r) PROVE TypeInv'
  <2>1. req[r].at = "setting" /\ req[r].ord \in Orders /\ req[r].to \in Status
    BY <1>b, <1>w DEF SetStatus, At, Wired
  <2>2. GoTo(r, "earning") \/ GoTo(r, "syncing") \/ Finish(r)
    BY <1>b DEF SetStatus
  <2>3. ReqInv'
    BY <2>1, <2>2, GoToStep, FinishStep DEF Points
  <2> QED BY <1>0, <1>b, <2>1, <2>3 DEF SetStatus, TypeInv, TypeOK, ReqInv
<1>c. ASSUME NEW r \in Requests, ReadEarned(r) PROVE TypeInv'
  <2>1. ReqInv'
    BY <1>c, GoToStep, FinishStep DEF ReadEarned, At, Points
  <2> QED BY <1>0, <1>c, <2>1 DEF ReadEarned, TypeInv, TypeOK, ReqInv
<1>d. ASSUME NEW r \in Requests, Credit(r) PROVE TypeInv'
  <2>1. ReqInv' /\ req[r].ord \in Orders
    BY <1>d, <1>w, FinishStep DEF Credit, At
  <2> QED BY <1>0, <1>d, <2>1 DEF Credit, TypeInv, TypeOK, ReqInv
<1>e. ASSUME NEW r \in Requests, ReadForSync(r) PROVE TypeInv'
  <2>1. \/ GoTo(r, "dropping")
        \/ GoTo(r, "readying") /\ req[r].to = "READY"
        \/ Finish(r)
    BY <1>e DEF ReadForSync
  <2>2. ReqInv'
    BY <1>e, <1>w, <2>1, GoToStep, FinishStep DEF ReadForSync, At, Points, Wired
  <2> QED BY <1>0, <1>e, <2>2 DEF ReadForSync, TypeInv, TypeOK, ReqInv
<1>f. ASSUME NEW r \in Requests, DropDelivery(r) PROVE TypeInv'
  <2>1. ReqInv' /\ req[r].ord \in Orders
    BY <1>f, <1>w, FinishStep DEF DropDelivery, At
  <2> QED BY <1>0, <1>f, <2>1 DEF DropDelivery, TypeInv, TypeOK, ReqInv, DeliveryStatus
<1>g. ASSUME NEW r \in Requests, ReadyDelivery(r) PROVE TypeInv'
  <2>1. req[r].at = "readying" /\ req[r].ord \in Orders /\ req[r].job # "dispatch"
    BY <1>g, <1>w DEF ReadyDelivery, At, Wired
  <2>2. ReqInv'
    BY <1>g, <2>1, GoToStep DEF ReadyDelivery, Points
  <2> QED BY <1>0, <1>g, <2>1, <2>2 DEF ReadyDelivery, TypeInv, TypeOK, ReqInv, DeliveryStatus
<1>h. ASSUME NEW r \in Requests, PickDriver(r) PROVE TypeInv'
  <2>1. req[r].at = "dispatching" /\ req[r].ord \in Orders /\ req[r].job # "dispatch"
    BY <1>h, <1>w DEF PickDriver, At, Wired
  <2>2. ASSUME NEW d \in Drivers, req' = [req EXCEPT ![r].at = "assigning", ![r].drv = d]
        PROVE  ReqInv'
    <3> DEFINE n == [req[r] EXCEPT !.at = "assigning", !.drv = d]
    <3>1. req \in [Requests -> Request] /\ req[r] \in Request
      BY <1>0 DEF TypeOK
    <3>2. req' = [req EXCEPT ![r] = n]
      BY <2>2, <3>1
    <3>3. n \in Request /\ n.at = "assigning" /\ n.ord \in Orders /\ n.drv \in Drivers
          /\ n.job # "dispatch"
      BY <2>1, <3>1 DEF Request, Points
    <3>4. Wired(n)
      BY <3>3 DEF Wired
    <3> HIDE DEF n
    <3>5. \A q \in Requests : Wired(req'[q])
      BY <3>1, <3>2, <3>4 DEF TypeInv
    <3> QED BY <3>1, <3>2, <3>3, <3>5 DEF ReqInv, Wired
  <2>3. ReqInv'
    BY <1>h, <2>2, FinishStep DEF PickDriver
  <2> QED BY <1>0, <1>h, <2>3 DEF PickDriver, TypeInv, TypeOK, ReqInv
<1>i. ASSUME NEW r \in Requests, NEW o \in Orders, ReadForPayment(r, o)
      PROVE  TypeInv'
  <2>1. ReqInv' /\ UNCHANGED <<dispatched, faults>> /\ disturbed' \subseteq Orders
    BY <1>0, <1>i, BeginStep DEF ReadForPayment, Points, Jobs
  <2> QED BY <1>0, <1>i, <2>1 DEF ReadForPayment, TypeInv, TypeOK, ReqInv
<1>j. ASSUME NEW r \in Requests, SetPaid(r) PROVE TypeInv'
  <2>1. req[r].at = "paying" /\ Wired(req[r]) /\ req[r].ord \in Orders
    BY <1>j, <1>w DEF SetPaid, At
  <2>2. ReqInv'
    BY <1>j, <2>1, GoToStep, FinishStep DEF SetPaid, Points, Wired
  <2> QED BY <1>0, <1>j, <1>w, <2>1, <2>2 DEF SetPaid, TypeInv, TypeOK, ReqInv, Wired
<1>k. ASSUME NEW r \in Requests, NEW o \in Orders, NEW d \in Drivers, ReadForDispatch(r, o, d)
      PROVE  TypeInv'
  <2>1. ReqInv' /\ UNCHANGED <<dispatched, faults>> /\ disturbed' \subseteq Orders
    BY <1>0, <1>k, BeginStep DEF ReadForDispatch, Points, Jobs, Status
  <2> QED BY <1>0, <1>k, <2>1 DEF ReadForDispatch, TypeInv, TypeOK, ReqInv
<1>l. ASSUME NEW r \in Requests, Collect(r) PROVE TypeInv'
  <2>1. req[r].at = "collecting" /\ Wired(req[r]) /\ req[r].ord \in Orders
    BY <1>l, <1>w DEF Collect, At
  <2>2. ReqInv'
    BY <1>l, <2>1, GoToStep, FinishStep DEF Collect, Points, Wired
  <2> QED BY <1>0, <1>l, <1>w, <2>1, <2>2 DEF Collect, TypeInv, TypeOK, ReqInv, Wired
<1>m. ASSUME NEW r \in Requests, ChooseDriver(r) PROVE TypeInv'
  <2>1. req[r].at = "choosing" /\ Wired(req[r]) /\ req[r].ord \in Orders
    BY <1>m, <1>w DEF ChooseDriver, At
  <2>2. ReqInv'
    BY <1>m, <2>1, GoToStep, FinishStep DEF ChooseDriver, Points, Wired
  <2> QED BY <1>0, <1>m, <1>w, <2>1, <2>2 DEF ChooseDriver, TypeInv, TypeOK, ReqInv, Wired
<1>n. ASSUME NEW r \in Requests, Close(r) PROVE TypeInv'
  <2>1. req[r].at = "closing" /\ Wired(req[r]) /\ req[r].ord \in Orders
    BY <1>n, <1>w DEF Close, At
  <2>2. ReqInv'
    BY <1>n, <2>1, GoToStep, FinishStep DEF Close, Points, Wired, Status
  <2> QED BY <1>0, <1>n, <1>w, <2>1, <2>2 DEF Close, TypeInv, TypeOK, ReqInv, Wired
<1>o. ASSUME NEW r \in Requests, NEW o \in Orders, NEW d \in Drivers, ReadForAssign(r, o, d)
      PROVE  TypeInv'
  <2>1. ReqInv' /\ UNCHANGED <<dispatched, faults>> /\ disturbed' \subseteq Orders
    BY <1>0, <1>o, BeginStep DEF ReadForAssign, Points, Jobs
  <2> QED BY <1>0, <1>o, <2>1 DEF ReadForAssign, TypeInv, TypeOK, ReqInv
<1>p. ASSUME NEW r \in Requests, AssignDriver(r) PROVE TypeInv'
  <2>1. req[r].at = "assigning" /\ Wired(req[r]) /\ req[r].ord \in Orders
    BY <1>p, <1>w DEF AssignDriver, At
  <2>2. ReqInv'
    BY <1>p, <2>1, GoToStep, FinishStep DEF AssignDriver, Points, Wired
  <2> QED BY <1>0, <1>p, <1>w, <2>1, <2>2 DEF AssignDriver, TypeInv, TypeOK, ReqInv, Wired, DeliveryStatus
<1>q. ASSUME NEW r \in Requests, NEW o \in Orders, NEW t \in DeliveryStatus, ReadForDelivery(r, o, t)
      PROVE  TypeInv'
  <2>1. ReqInv' /\ UNCHANGED <<dispatched, faults>> /\ disturbed' \subseteq Orders
    BY <1>0, <1>q, BeginStep DEF ReadForDelivery, Points, Jobs
  <2> QED BY <1>0, <1>q, <2>1 DEF ReadForDelivery, TypeInv, TypeOK, ReqInv
<1>r. ASSUME NEW r \in Requests, NEW o \in Orders, NEW d \in Drivers, ReadForRun(r, o, d)
      PROVE  TypeInv'
  <2>1. ReqInv' /\ UNCHANGED <<dispatched, faults>> /\ disturbed' \subseteq Orders
    BY <1>0, <1>r, BeginStep, AllowedType DEF ReadForRun, Points, Jobs
  <2> QED BY <1>0, <1>r, <2>1 DEF ReadForRun, TypeInv, TypeOK, ReqInv
<1>s. ASSUME NEW r \in Requests, MoveDelivery(r) PROVE TypeInv'
  <2>1. req[r].at = "moving" /\ Wired(req[r]) /\ req[r].ord \in Orders
    BY <1>s, <1>w DEF MoveDelivery, At
  <2>2. ReqInv'
    BY <1>s, <2>1, GoToStep, FinishStep DEF MoveDelivery, Points, Wired
  <2> QED BY <1>0, <1>s, <1>w, <2>1, <2>2 DEF MoveDelivery, TypeInv, TypeOK, ReqInv, Wired
<1>t. ASSUME NEW r \in Requests, FinishOrder(r) PROVE TypeInv'
  <2>1. req[r].at = "finishing" /\ Wired(req[r]) /\ req[r].ord \in Orders
    BY <1>t, <1>w DEF FinishOrder, At
  <2>2. ReqInv'
    BY <1>t, <2>1, GoToStep, FinishStep DEF FinishOrder, Points, Wired
  <2> QED BY <1>0, <1>t, <1>w, <2>1, <2>2 DEF FinishOrder, TypeInv, TypeOK, ReqInv, Wired, Status
<1>u. ASSUME NEW d \in Drivers, SetAvailability(d) PROVE TypeInv'
  BY <1>0, <1>u DEF SetAvailability, TypeInv, TypeOK
<1>v. ASSUME NEW r \in Requests, NEW o \in Orders, ReadForItems(r, o) PROVE TypeInv'
  <2>1. PICK t \in Status : Begin(r, "adding", "items", o, t, NoDriver)
    <3>1. status[o] \in Status /\ "PREPARING" \in Status
      BY <1>0 DEF TypeOK, Status
    <3> QED BY <1>v, <3>1 DEF ReadForItems
  <2>2. ReqInv' /\ UNCHANGED <<dispatched, faults>> /\ disturbed' \subseteq Orders
    BY <2>1, BeginStep DEF Points, Jobs
  <2> QED BY <1>0, <1>v, <2>2 DEF ReadForItems, TypeInv, TypeOK, ReqInv
<1>x. ASSUME NEW r \in Requests, WriteItems(r) PROVE TypeInv'
  <2>1. req[r].at = "adding" /\ Wired(req[r]) /\ req[r].ord \in Orders
    BY <1>x, <1>w DEF WriteItems, At
  <2>2. ReqInv'
    BY <1>x, <2>1, GoToStep, FinishStep DEF WriteItems, Points, Wired
  <2> QED BY <1>0, <1>x, <1>w, <2>1, <2>2 DEF WriteItems, TypeInv, TypeOK, ReqInv, Wired
<1>y. ASSUME NEW r \in Requests, NEW o \in Orders, ReadForVoid(r, o)
      PROVE  TypeInv'
  <2>1. ReqInv' /\ UNCHANGED <<dispatched, faults>> /\ disturbed' \subseteq Orders
    BY <1>0, <1>y, BeginStep DEF ReadForVoid, Points, Jobs, Status
  <2> QED BY <1>0, <1>y, <2>1 DEF ReadForVoid, TypeInv, TypeOK, ReqInv
<1>z. ASSUME NEW r \in Requests, WriteVoid(r) PROVE TypeInv'
  <2>1. req[r].at = "voiding" /\ Wired(req[r]) /\ req[r].ord \in Orders
    BY <1>z, <1>w DEF WriteVoid, At
  <2>2. ReqInv'
    BY <1>z, <2>1, GoToStep, FinishStep DEF WriteVoid, Points, Wired
  <2> QED BY <1>0, <1>z, <1>w, <2>1, <2>2 DEF WriteVoid, TypeInv, TypeOK, ReqInv, Wired, Status, DeliveryStatus
<1>aa. ASSUME NEW o \in Orders, CheckStock(o) PROVE TypeInv'
  BY <1>0, <1>aa DEF CheckStock, TypeInv, TypeOK
<1>ab. ASSUME NEW o \in Orders, TakeStock(o) PROVE TypeInv'
  BY <1>0, <1>ab DEF TakeStock, TypeInv, TypeOK
<1>ac. ASSUME NEW o \in Orders, TimePasses(o) PROVE TypeInv'
  BY <1>0, <1>ac DEF TimePasses, TypeInv, TypeOK
<1>ad. ASSUME NEW i \in Instances, Sweep(i) PROVE TypeInv'
  BY <1>0, <1>ad DEF Sweep, TypeInv, TypeOK
<1>ae. ASSUME NEW i \in Instances, NEW o \in Orders, Release(i, o) PROVE TypeInv'
  BY <1>0, <1>ae DEF Release, TypeInv, TypeOK
<1>af. ASSUME NEW i \in Instances, TellKitchen(i) PROVE TypeInv'
  BY <1>0, <1>af DEF TellKitchen, TypeInv, TypeOK
<1>ag. ASSUME NEW r \in Requests, FailRequest(r) PROVE TypeInv'
  <2>1. ReqInv' /\ req[r].ord \in Orders
    BY <1>ag, <1>w, FinishStep DEF FailRequest, At
  <2> QED BY <1>0, <1>ag, <2>1, LimitAssumption DEF FailRequest, TypeInv, TypeOK, ReqInv
<1>ah. ASSUME NEW o \in Orders, FailStock(o) PROVE TypeInv'
  BY <1>0, <1>ah, LimitAssumption DEF FailStock, TypeInv, TypeOK
<1>ai. ASSUME NEW i \in Instances, FailSweep(i) PROVE TypeInv'
  BY <1>0, <1>ai, LimitAssumption DEF FailSweep, NotSweeping, TypeInv, TypeOK
<1>aj. CASE UNCHANGED vars
  BY <1>0, <1>aj DEF vars, TypeInv, TypeOK
<1> QED
  <2>1. ASSUME NEW r \in Requests, Arrive(r) PROVE TypeInv'
    BY <2>1, <1>a, <1>i, <1>k, <1>o, <1>q, <1>r, <1>v, <1>y DEF Arrive
  <2>2. ASSUME NEW r \in Requests, Proceed(r) PROVE TypeInv'
    BY <2>2, <1>b, <1>c, <1>d, <1>e, <1>f, <1>g, <1>h, <1>j, <1>l, <1>m, <1>n, <1>p,
       <1>s, <1>t, <1>x, <1>z DEF Proceed
  <2>3. ASSUME Outside PROVE TypeInv'
    BY <2>3, <1>u, <1>ac, <1>ag, <1>ah, <1>ai DEF Outside
  <2> QED
    BY <2>1, <2>2, <2>3, <1>aa, <1>ab, <1>ad, <1>ae, <1>af, <1>aj
    DEF Next, Deduct, RunCron

\* In every reachable state the rows, the requests in flight and the releases
\* have the types TypeOK says, whatever the number of concurrent requests.
THEOREM LifecycleTypeCorrect == Spec => []TypeOK
<1>1. TypeInv => TypeOK
  BY DEF TypeInv
<1> QED BY <1>1, TypeInit, TypeStep, PTL DEF Spec
=============================================================================
