SPECIFICATION FairSpec
CONSTANTS
  d1 = d1
  d2 = d2
  Clients <- Two
  Group = Group
  Lifetime = 1
  MaxSize = 3
  Threshold = 2
  MaxTries = 2
  UseRts = TRUE
  MaxArrivals = 3
  MaxTimeouts = 1
  MaxTicks = 1
  MaySwitch = TRUE
INVARIANTS TypeOK WorkIsRequested AgreementStartsAtNext
PROPERTY DestinationServed
CHECK_DEADLOCK FALSE
