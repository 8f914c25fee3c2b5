SPECIFICATION Spec
CONSTANTS
  Backends = {"thread", "celery", "dramatiq"}
  Transactions = {"atomic", "autocommit", "manual"}
  Reports <- MCReports
  MaxRetries = 2
  MaxFaults = 2
INVARIANTS TypeOK RunsOnlyCommitted OutcomeIsEarned
PROPERTIES ObeysLifecycle TaskSettles
CHECK_DEADLOCK FALSE
