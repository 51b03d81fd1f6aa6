CONSTANTS
  Orders = {o1}
  Drivers = {d1}
  Requests = {r1}
  Instances = {i1, i2}
  NoOrder = NoOrder
  NoDriver = NoDriver
  Kinds = {"pickup", "online"}
  DriverLimit = 1
  MaxFaults = 1
SPECIFICATION FairSpec
INVARIANT KitchenToldOnce
PROPERTIES
  DeductionLands
  DueIsTold
CHECK_DEADLOCK FALSE
