SPECIFICATION FairSpec
CONSTANTS
  SeqSpace = 32
  FragSpace = 4
  First = 2
  MaxPacket = 4
  MaxTries = 2
  Window = 3
  MaxGiveUps = 1
  Timeout = TRUE
  MaxTeardowns = 1
INVARIANTS TypeOK AcknowledgedIsKept
PROPERTIES DeliversInOrder OlderThanRequestForwarded BufferedIsHandedUp
CHECK_DEADLOCK FALSE
