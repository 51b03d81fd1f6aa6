CONSTANTS
  c1 = c1
  c2 = c2
  Checkouts = {c1, c2}
  Payments = {p1, p2}
  Requests = {r1, r2}
  Ticks = {t1}
  NoCheckout = NoCheckout
  NoPayment = NoPayment
  Provider <- PaywayAndCash
  Deliveries = {c2}
  Couponed = {c1, c2}
  CouponLimit = 1
  BatchSize = 1
  MaxFaults = 1
SPECIFICATION Spec
SYMMETRY Symmetry
INVARIANTS
  PaidMeansApproved
  EffectsAtMostOnce
CHECK_DEADLOCK FALSE
