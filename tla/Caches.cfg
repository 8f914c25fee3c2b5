SPECIFICATION CacheSpec
CONSTANTS
  Kinds = {"permission", "query"}
  Clients = {c1, c2}
  Asker = c1
  Ttl = 2
  Checks <- MCChecks
  MaxChanges = 1
  MaxBumps = 1
INVARIANTS CacheTypeOK StaleHasCause
PROPERTIES StalenessEnds
