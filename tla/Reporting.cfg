SPECIFICATION Spec
CONSTANTS
  Runs = {r1, r2}
  Creator = creator
  Nobody = nobody
  MaxVersion = 2
  MaxFaults = 1
INVARIANTS TypeOK CompletedFileMatchesPayload RunningIsAttended
PROPERTIES ExportEnds
CHECK_DEADLOCK FALSE
