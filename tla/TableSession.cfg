CONSTANTS
  Tables = {t1, t2}
  Sessions = {s1, s2}
  Items = {i1, i2}
  Requests = {r1, r2}
  Cooks = {c1}
  None = None
  MaxNumber = 3
  MaxOthers = 1
  MaxRequests = 5
SPECIFICATION Spec
SYMMETRY Symmetry
INVARIANTS
  TypeOK
  ChargedOnce
  ClosedOwesNothing
  CookedOnce
  TablesFollowAccounts
  TotalCoversUnpaid
PROPERTY ChargeStays
CHECK_DEADLOCK FALSE
