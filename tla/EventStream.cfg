SPECIFICATION Spec
CONSTANTS
  Clients = {c1, c2}
  ReplayLimit = 2
  QueueSize = 2
  MaxEvents = 5
  MaxConnects = 2
INVARIANTS
  TypeOK
  SeenInOrder
PROPERTIES
  LatestArrives
CHECK_DEADLOCK FALSE
