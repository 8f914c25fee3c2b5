CONSTANTS
  Clients = {c1, c2}
  NoClient = nobody
  Rows = {2, 3}
  Inputs = {good, other, bad}
  Bad = {bad}
  MaxRequests = 3
SPECIFICATION Spec
SYMMETRY Symmetry
INVARIANTS NoPatchLost StatusRepaired
CHECK_DEADLOCK FALSE
