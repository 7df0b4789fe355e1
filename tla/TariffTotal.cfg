SPECIFICATION Spec
CONSTANTS
  Day = 3
  Hour = 2
  SegTime <- MCNightTime
  EnergyFee <- MCEnergyFee
  ServFee <- MCServFee
  Whole = 2
  Cent = 2
  Lead = 1
  LimitTime = 5
  Orders <- MCOrders
  MaxEnergy = 4
  MaxTime = 6
INVARIANT TotalIsMetered
