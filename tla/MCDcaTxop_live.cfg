SPECIFICATION FairSpec
CONSTANTS
  c1 = c1
  c2 = c2
  c3 = c3
  Clients <- Three
  Group = Group
  Lifetime <- ForeverLifetime
  MaxSize = 3
  Roles <- AnyRole
  NumClients = 1
  EpochLength = 1
  RetryLimit = 1
  MayBeMgt <- NotMgt
  WaitedBound = 3
  MaySwitch = FALSE
  NewMaxSizes = {}
PROPERTY ClientServed
PROPERTY GroupServed
