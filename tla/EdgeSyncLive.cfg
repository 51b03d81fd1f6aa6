CONSTANTS
  Tables = {t1}
  Tills = {w1}
  Pushes = {p1}
  BatchSize = 1
  MaxRetries = 2
  MaxMutations = 2
  MaxFaults = 1
SPECIFICATION Spec
PROPERTY EverythingSettles
CHECK_DEADLOCK FALSE
