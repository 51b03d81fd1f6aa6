CONSTANTS
  Subs = {s1}
  Anchor <- OneAccount
  Workers = {w1, w2}
  Instances = 2
  Period = 1
  GraceDays = 2
  RetryDays <- Retries
  Downgrade = 2
  Attempts = 2
  NoSub = NoSub
  MaxEvents = 2
SPECIFICATION Spec
PROPERTY CancelledIsNotCharged
CHECK_DEADLOCK FALSE
