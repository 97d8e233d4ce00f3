SPECIFICATION Spec
CONSTANTS
  Clients = {c1}
  ReplayLimit = 5
  QueueSize = 2
  MaxEvents = 5
  MaxConnects = 2
INVARIANT
  NoneMissed
CHECK_DEADLOCK FALSE
