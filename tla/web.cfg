SPECIFICATION Spec
CONSTANTS
  c1 = c1
  c2 = c2
  c3 = c3
  p1 = p1
  p2 = p2
  NULL = NULL
INVARIANTS BodiesAreRead PagesAreFilled EventsAreHeard
PROPERTIES EverythingEnds
CHECK_DEADLOCK FALSE
