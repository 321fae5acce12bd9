SPECIFICATION FairSpec
CONSTANTS
  MAX_PACKET_SIZE_EP0 = 3
  CodingLength = 2
  Requests <- AllRequests
  Prompt = TRUE
  MaxEvents = 6
INVARIANTS HostNeverWaits AnswersInFull LockHeld DeviceInv
PROPERTIES SentWhenTrue WriteEnds
CHECK_DEADLOCK FALSE
