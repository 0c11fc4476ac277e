SPECIFICATION Spec
CONSTANTS
  N = 2
  Slot = 2
  Sifs = 1
  EifsNoDifs = 2
  Aifsn <- MCAifsn
  CwMin <- MCCwMinLong
  CwMax <- MCCwMax
  FirstFrames = {"noack", "ba"}
  TxDurations = {2}
  RxDurations = {2}
  CcaDurations = {2}
  NavDurations = {0, 3}
  SwitchDurations = {2}
  ResponseTimeout = 4
  BlockAckTimeout = 4
  MayDecline = FALSE
  Originators = {2}
  Wifox = {2}
  High <- MCHigh
  Low <- MCLow
  MaxTime = 11
  MaxDisturbances = 2
INVARIANT TypeOK
INVARIANT RequestHasTimer
PROPERTY BackoffCountsDown
PROPERTY SlotsCountedWhenIdle
PROPERTY GrantedWhenIdle
