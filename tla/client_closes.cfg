SPECIFICATION Spec
CONSTANTS
  Clients = {c1, c2, c3}
  Pcbs = {p1, p2}
  NULL = NULL
  NumSlots = 1
  Closes = TRUE
  Resets = FALSE
  Reuse = FALSE
  MaxConns = 3
  MaxData = 1
INVARIANTS LwipTouchesLive ClientsEndOnce OnlyFinComesLate
PROPERTIES StrayCallsExplained
SYMMETRY Addresses
CHECK_DEADLOCK FALSE
