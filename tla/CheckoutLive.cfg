CONSTANTS
  c1 = c1
  c2 = c2
  Checkouts = {c1, c2}
  Payments = {p1}
  Requests = {r1}
  Ticks = {t1}
  NoCheckout = NoCheckout
  NoPayment = NoPayment
  Provider <- TwoMercadoPago
  Deliveries = {}
  Couponed = {}
  CouponLimit = 1
  BatchSize = 1
  MaxFaults = 1
SPECIFICATION FairSpec
PROPERTIES
  PendingIsSettled
  ApprovedIsPromoted
CHECK_DEADLOCK FALSE
