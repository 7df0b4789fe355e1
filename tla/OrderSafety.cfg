SPECIFICATION Spec
CONSTANTS
  CON = {c1}
  MaxOrders = 2
  MaxLosses = 1
  BusyStarts = TRUE
  MaxItem = 1
  RemoveOldItem = 1
INVARIANT TypeOK
INVARIANT StoredOnce
INVARIANT KeptUntilStored
PROPERTY ListKeeps
