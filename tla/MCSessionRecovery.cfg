CONSTANTS
  stock = stock
  futures = futures
  Account <- MCAccounts
  AccountList <- MCAccountList
  Preferred = stock
  NoAccount = NoAccount
  InitialHoldings <- MCHoldings
  InitialAccounts = {NoAccount}
  c1 = c1
  c2 = c2
  Code = {c1}
  MaxQty = 1
  MaxRetries = 3
  Interval = 1
  Off = Off
  MaxDrops = 2
  MaxFailures = 1
  MaxTrades = 0
  MaxSelects = 0
SPECIFICATION Spec
INVARIANTS Watched
PROPERTIES Recovers
CHECK_DEADLOCK FALSE
