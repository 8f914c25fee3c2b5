SPECIFICATION Spec
CONSTANTS
  Threads = {t1, t2}
  Models = {m1, m2}
  Apps <- MCApps
  NoThread = nothread
  MaxCalls = 2
  MaxDecisions = 2
INVARIANTS TypeOK CacheIsSound DecisionsStand
SYMMETRY Symmetry
CHECK_DEADLOCK FALSE
