SPECIFICATION Spec
CONSTANTS
  Threads = {t1, t2}
  Limits <- MCLimits
  Window = 2
  Http = {TRUE, FALSE}
  Fields = 2
INVARIANTS TypeOK WindowBounded
PROPERTIES WindowEnds
