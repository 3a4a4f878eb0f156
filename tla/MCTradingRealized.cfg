CONSTANTS
  Code = {c1}
  Price = {8, 9, 11}
  MaxQty = 2
  StopLossPct = 20
  TakeProfitPct = 30
  TrailingStopPct = 10
  MaxWeightPct = 30
  MaxPositions = 1
  DailyLossPct = 5
  TotalCapital = 100
  NoPosition = NoPosition
  Opening = 4
  Closing = 4
  MaxWorking = 1
  MaxBalances = 2
  MaxManual = 0
  Unread = Unread
SPECIFICATION Spec
PROPERTY RealizedIsCounted
CHECK_DEADLOCK FALSE
