SPECIFICATION Spec
CONSTANTS
  Apps = {ota0, ota1}
  Data = spiffs
  SectorSize = 4
  PartitionSize = 8
  ImageLen = 6
  Sizes = {0, 6, 8}
  Md5 = {TRUE, FALSE}
  Evens = {TRUE, FALSE}
  Commands = {"FLASH", "SPIFFS"}
  Faults = TRUE
  MaxUpdates = 2
  MaxChunk = 2
INVARIANTS PartialNotBootable ErrorEndsUpdate StreamInOrder
PROPERTIES KeepsSlots
