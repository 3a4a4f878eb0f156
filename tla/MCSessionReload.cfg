CONSTANTS
  stock = stock
  futures = futures
  Account <- MCAccounts
  AccountList <- MCAccountList
  Preferred = stock
  NoAccount = NoAccount
  InitialHoldings <- MCHoldings
  InitialAccounts = {NoAccount}
  c1 = c1
  c2 = c2
  Code <- MCCodes
  MaxQty = 1
  MaxRetries = 2
  Interval = 1
  Off = Off
  MaxDrops = 1
  MaxFailures = 1
  MaxTrades = 1
  MaxSelects = 1
SPECIFICATION Spec
INVARIANTS ReloadSyncs
CHECK_DEADLOCK FALSE
