CONSTANTS
  Workers = {w1, w2}
  Floats <- OneFloat
  SaleAmount = 2
  Counts <- OneCount
  MaxRegisters = 4
  MaxRequests = 6
  MaxFaults = 1
SPECIFICATION Spec
SYMMETRY WorkerSymmetry
INVARIANTS
  TypeOK
  LedgerAgrees
  DifferenceStands
  OneOpenRegister
  DepositedOnce
CHECK_DEADLOCK FALSE
