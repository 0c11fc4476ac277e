SPECIFICATION Spec
CONSTANTS
  N = 2
  Slot = 2
  Sifs = 1
  EifsNoDifs = 2
  Aifsn <- MCAifsnEqual
  CwMin <- MCCwZero
  CwMax <- MCCwZero
  FirstFrames = {"ack"}
  TxDurations = {2}
  RxDurations = {2}
  CcaDurations = {}
  NavDurations = {0}
  SwitchDurations = {}
  ResponseTimeout = 4
  BlockAckTimeout = 4
  MayDecline = TRUE
  Originators = {}
  Wifox = {}
  High <- MCHigh
  Low <- MCLow
  MaxTime = 14
  MaxDisturbances = 1
INVARIANT RequestHasTimer
