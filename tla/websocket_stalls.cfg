SPECIFICATION FairSpec
CONSTANTS
  SendBuf = 14
  SharedMessages = {}
  MaxQueued = 2
  MessageLens = {8}
  PayloadLens = {2}
  AckLens = {}
  WritesFail = FALSE
  MaxMessages = 1
  MaxControls = 1
  MaxAcks = 2
PROPERTIES MessagesArrive
CHECK_DEADLOCK FALSE
