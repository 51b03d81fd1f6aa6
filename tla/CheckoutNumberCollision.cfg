CONSTANTS
  c1 = c1
  c2 = c2
  Checkouts = {c1, c2}
  Payments = {p1}
  Requests = {r1, r2}
  Ticks = {t1}
  NoCheckout = NoCheckout
  NoPayment = NoPayment
  Provider <- OnlineAndCash
  Deliveries = {}
  Couponed = {}
  CouponLimit = 1
  BatchSize = 20
  MaxFaults = 0
SPECIFICATION Spec
INVARIANT ApprovedStaysInReach
CHECK_DEADLOCK FALSE
