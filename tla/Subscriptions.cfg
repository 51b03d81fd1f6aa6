CONSTANTS
  Subs = {s1, s2}
  Anchor <- OneAccount
  Workers = {w1, w2}
  Instances = 2
  Period = 1
  GraceDays = 2
  RetryDays <- Retries
  Downgrade = 2
  Attempts = 2
  NoSub = NoSub
  MaxEvents = 1
SPECIFICATION Spec
INVARIANTS
  TypeOK
  ChargedOnce
  BooksBalance
  PaidIsServed
CHECK_DEADLOCK FALSE
PROPERTY PastDueResolves
