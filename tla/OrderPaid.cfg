SPECIFICATION Spec
CONSTANTS
  CON = {c1}
  MaxOrders = 2
  MaxLosses = 0
  BusyStarts = FALSE
  MaxItem = 4
  RemoveOldItem = 2
PROPERTY PaidIsAccepted
