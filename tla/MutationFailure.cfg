SPECIFICATION MutationSpec
CONSTANTS
  r1 = r1
  r2 = r2
  i1 = i1
  i2 = i2
  Roots = {r1, r2}
  Items = {i1, i2}
  Nobody = nobody
  Gone = gone
  Schemas <- MCSchemas
  Asks <- MCAsks
  MaxRequests = 1
  MaxRaces = 0
INVARIANT FailedMutationWritesNothing
CHECK_DEADLOCK FALSE
