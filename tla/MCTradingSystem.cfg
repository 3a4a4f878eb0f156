CONSTANTS
  Code = {c1, c2}
  Price = {8, 11}
  MaxQty = 1
  StopLossPct = 20
  TakeProfitPct = 30
  TrailingStopPct = 10
  MaxWeightPct = 20
  MaxPositions = 1
  DailyLossPct = 3
  TotalCapital = 100
  NoPosition = NoPosition
  Opening = 4
  Closing = 5
  MaxWorking = 1
  MaxBalances = 1
  MaxManual = 1
  Unread = Unread
SPECIFICATION Spec
  
PROPERTIES BlockedOnlyShrinks
CHECK_DEADLOCK FALSE
SYMMETRY Codes
