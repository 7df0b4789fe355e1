SPECIFICATION Spec
CONSTANTS
  Day = 3
  Hour = 3
  SegTime <- MCSegTime
  EnergyFee <- MCEnergyFee
  ServFee <- MCServFee
  Whole = 2
  Cent = 2
  Lead = 1
  LimitTime = 8
  Orders <- MCOrders
  MaxEnergy = 4
  MaxTime = 8
INVARIANT TypeOK
INVARIANT NeverOvercharged
INVARIANT LossBounded
INVARIANT TimesInSession
