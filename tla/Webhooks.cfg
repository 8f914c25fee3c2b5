SPECIFICATION Spec
CONSTANTS
  Endpoints <- MCEndpoints
  Backends = {"sync", "thread", "custom"}
  MaxRetries = 1
  MaxWorkers = 2
  MaxSaves = 2
  MayCrash = TRUE
INVARIANTS TypeOK OnlyCommittedOnce
PROPERTIES DeliverySettles
CHECK_DEADLOCK FALSE
