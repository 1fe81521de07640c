SPECIFICATION Spec
CONSTANTS
  Clients = {c1, c2}
  Pcbs = {p1, p2}
  NULL = NULL
  NumSlots = 2
  Closes = FALSE
  Resets = TRUE
  Reuse = TRUE
  MaxConns = 3
  MaxData = 1
INVARIANTS SlotsExclusive ArgIsLiveOwner
SYMMETRY Addresses
CHECK_DEADLOCK FALSE
