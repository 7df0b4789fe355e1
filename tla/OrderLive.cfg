SPECIFICATION FairSpec
CONSTANTS
  CON = {c1}
  MaxOrders = 1
  MaxLosses = 0
  BusyStarts = TRUE
  MaxItem = 4
  RemoveOldItem = 2
PROPERTY EndedIsStored
