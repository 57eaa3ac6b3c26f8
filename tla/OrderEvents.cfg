SPECIFICATION LiveSpec
CONSTANTS
  MaxEvents = 3
  OrderOf <- TwoOrders
  Instances = {i1, i2}
  Listeners = {i1}
  None = None
  BatchLimit = 2
  ReplayLimit = 1
  PurgeLimit = 1
  MaxFaults = 1
INVARIANTS LogHasNoHoles OrdersAreToldInOrder
PROPERTIES  EveryEventIsPublished StreamsCatchUp
