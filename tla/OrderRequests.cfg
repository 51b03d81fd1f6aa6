CONSTANTS
  Orders = {o1}
  Drivers = {d1}
  Requests = {r1, r2}
  Instances = {}
  NoOrder = NoOrder
  NoDriver = NoDriver
  Kinds = {"salon", "external"}
  DriverLimit = 1
  MaxFaults = 0
SPECIFICATION Spec
SYMMETRY Symmetry
INVARIANTS
  TypeOK
  StockFollowsPayment
  DispatchIsComplete
  CancelReachesDelivery
PROPERTY FinalWhenAlone
CHECK_DEADLOCK FALSE
