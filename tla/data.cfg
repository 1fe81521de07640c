SPECIFICATION Spec
CONSTANTS
  x = x
  y = y
INVARIANTS TextRoundTrips NodesOwnedOnce OwnersAreSound SocketsAreSound
SYMMETRY Symmetry
CHECK_DEADLOCK FALSE
