CONSTANTS
  c1 = c1
  Code = {c1}
  NoRef = NoRef
  NoValue = NoValue
  Never = Never
  NoTrader = NoTrader
  InitialCapital = 40
  MaxWeight = 60
  Strategy <- MCStrategy
  Config <- MCConfig
  Watchlist <- MCWatchlist
  Warmup <- MCWarmup
  VolumeBound = {"vwap"}
  Opening = 3
  Closing = 4
  Closes = {3, 5}
  Volumes = {0, 1}
  Readings = {4, 5}
  StartModes = {"paper", "live"}
  MaxCandles = 4
  MaxSwitches = 1
  MaxReloads = 1
SPECIFICATION Spec
INVARIANTS TypeOK CrossesAreFresh OneSidePerCandle DayBeginsFresh ProfitIsTrue
PROPERTIES CooldownKept ImplementsAccount
CHECK_DEADLOCK FALSE
