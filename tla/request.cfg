SPECIFICATION FairSpec
CONSTANTS
  Requests <- MCRequests
  Responses <- MCResponses
  HeadLen = 10
  ContinueLen = 2
  SendBufs = {10, 19}
  AckLens = {4}
  WritesFail = TRUE
  SourcesFail = TRUE
  MaxWaits = 1
  MaxEvents = 2
  NULL = NULL
INVARIANTS HandledOnce ResponseWhole
PROPERTY ConnectionSettles
CHECK_DEADLOCK FALSE
