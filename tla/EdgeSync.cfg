CONSTANTS
  Tables = {t1}
  Tills = {w1}
  Pushes = {p1, p2}
  BatchSize = 2
  MaxRetries = 2
  MaxMutations = 2
  MaxFaults = 1
SPECIFICATION Spec
INVARIANTS
  TypeOK
  AppliedOnce
  CompletedIsApplied
  NoOvertaking
PROPERTY PendingIsKept
SYMMETRY SlotSymmetry
CHECK_DEADLOCK FALSE
