SPECIFICATION Spec
CONSTANTS
  N = 2
  Slot = 2
  Sifs = 1
  EifsNoDifs = 2
  Aifsn <- MCAifsn
  CwMin <- MCCwMin
  CwMax <- MCCwMax
  FirstFrames = {"rts", "ack", "noack"}
  TxDurations = {2}
  RxDurations = {2}
  CcaDurations = {}
  NavDurations = {0}
  SwitchDurations = {2}
  ResponseTimeout = 4
  BlockAckTimeout = 4
  MayDecline = TRUE
  Originators = {2}
  Wifox = {2}
  High <- MCHigh
  Low <- MCLow
  MaxTime = 14
  MaxDisturbances = 2
INVARIANT AssertionsHold
INVARIANT WindowWithinParameters
INVARIANT HeldPacketIsPending
PROPERTY ExchangesDoNotOverlap
