SPECIFICATION FairSpec
CONSTANTS
  Total = 2
  StartTypes = {"Remote"}
  LoginLost = 1
  StopLost = 2
PROPERTY OfflineStops
