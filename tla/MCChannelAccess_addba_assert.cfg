SPECIFICATION Spec
CONSTANTS
  N = 2
  Slot = 2
  Sifs = 1
  EifsNoDifs = 2
  Aifsn <- MCAifsn
  CwMin <- MCCwMin
  CwMax <- MCCwMax
  FirstFrames = {"ack", "ba"}
  TxDurations = {2}
  RxDurations = {2}
  CcaDurations = {}
  NavDurations = {6}
  SwitchDurations = {}
  ResponseTimeout = 3
  BlockAckTimeout = 6
  MayDecline = FALSE
  Originators = {2}
  Wifox = {}
  High <- MCHigh
  Low <- MCLow
  MaxTime = 14
  MaxDisturbances = 2
INVARIANT ContendersAssert
