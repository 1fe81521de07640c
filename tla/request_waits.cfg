SPECIFICATION Spec
CONSTANTS
  Requests <- MCGet
  Responses <- MCWaiting
  HeadLen = 3
  ContinueLen = 1
  SendBufs = {12}
  AckLens = {2}
  WritesFail = FALSE
  SourcesFail = FALSE
  MaxWaits = 1
  MaxEvents = 2
  NULL = NULL
INVARIANT NothingIsMissed
CHECK_DEADLOCK FALSE
