CONSTANTS
  c1 = c1
  c2 = c2
  Checkouts = {c1}
  Payments = {p1, p2}
  Requests = {r1, r2}
  Ticks = {t1}
  NoCheckout = NoCheckout
  NoPayment = NoPayment
  Provider <- OneMercadoPago
  Deliveries = {c1}
  Couponed = {c1}
  CouponLimit = 1
  BatchSize = 20
  MaxFaults = 1
SPECIFICATION Spec
SYMMETRY Symmetry
INVARIANTS
  TypeOK
  PaidMeansApproved
  EffectsAtMostOnce
  FailureTrail
PROPERTY ImplementsPromise
CHECK_DEADLOCK FALSE
