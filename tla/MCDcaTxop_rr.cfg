SPECIFICATION Spec
CONSTANTS
  c1 = c1
  c2 = c2
  c3 = c3
  Clients <- Three
  Group = Group
  Lifetime = 2
  MaxSize = 2
  Roles <- AnyRole
  NumClients = 2
  EpochLength = 1
  RetryLimit = 1
  MayBeMgt <- Either
  WaitedBound = 3
  MaySwitch = TRUE
  NewMaxSizes = {3}
SYMMETRY Symmetry
INVARIANT TypeOK
INVARIANT SizeCountsItems
INVARIANT WaitingWorkIsRequested
INVARIANT TurnWithinRound
PROPERTY NoExpiredPacketSent
PROPERTY ReceiverOrderKept
PROPERTY FullQueueDropsArrivals
