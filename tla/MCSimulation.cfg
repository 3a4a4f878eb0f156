CONSTANTS
  c1 = c1
  c2 = c2
  Code = {c1, c2}
  BuyCommission = 1000
  SellCommission = 1000
  Tax = 2000
  Slippage = 100
  InitialCapital = 1000
  MaxPositions = 2
  MaxSymbolWeight = 50
  StopLoss = 4
  TakeProfit = 8
  TrailingStop = 3
  DailyLossLimit = 4
  PrevHigh <- MCPrevHigh
  PrevLow <- MCPrevLow
  PrevClose <- MCPrevClose
  Shapes <- MCShapes
  Signals <- MCSignals
  Moments <- MCMoments
  BacktestMoments <- MCBacktestMoments
SPECIFICATION Spec
INVARIANTS TypeOK CapitalAccounted NothingHeldPastItsStop SomeoneWillSell CandlesShown MetricsTrue
PROPERTY ImplementsAccount
SYMMETRY Symmetry
CHECK_DEADLOCK FALSE
