SPECIFICATION FairSpec
CONSTANTS
  ProbeTimeout = 1
  AssocTimeout = 3
  BeaconInterval = 2
  WatchdogDelays = {4, 5}
  Statuses <- AnyStatus
  MaxLosses = 6
  MaxDelays = 3
INVARIANTS TypeOK StationNotStranded
PROPERTIES WatchdogIsPatient AssociationSettles AssociationEndsAsKnown
