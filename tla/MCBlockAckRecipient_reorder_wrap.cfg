SPECIFICATION Spec
CONSTANTS
  SeqSpace = 32
  FragSpace = 4
  First = 30
  MaxPacket = 4
  MaxTries = 2
  Window = 3
  MaxGiveUps = 1
  Timeout = FALSE
  MaxTeardowns = 0
PROPERTY OlderThanRequestForwarded
CHECK_DEADLOCK FALSE
