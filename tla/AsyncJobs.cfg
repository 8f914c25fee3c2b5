SPECIFICATION Spec
CONSTANTS
  Viewers = {v1, v2}
  Kinds = {"export", "excel", "pdf"}
  Ttl = 2
  MaxReports = 2
  MayCrash = TRUE
INVARIANTS TypeOK EntryOutlivesExpiry CompletedHasFile ServesWholeFile
PROPERTIES ObeysLifecycle
CHECK_DEADLOCK FALSE
