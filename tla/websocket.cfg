SPECIFICATION FairSpec
CONSTANTS
  SendBuf = 14
  SharedMessages = {2}
  MaxQueued = 2
  MessageLens = {8}
  PayloadLens = {2}
  AckLens = {2}
  WritesFail = TRUE
  MaxMessages = 2
  MaxControls = 2
  MaxAcks = 2
INVARIANTS PeerReadsInOrder
PROPERTIES MessagesArriveUnlessNoted CloseCompletes
CHECK_DEADLOCK FALSE
