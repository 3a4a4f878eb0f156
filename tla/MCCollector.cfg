CONSTANTS
  c1 = c1
  c2 = c2
  Codes <- MCCodes
  Script = {"collector", "realtime", "fetch"}
  RealType = {"trade", "quote"}
  Cutoff = 2
  FlushEvery = 2
  PageSize = 2
  MaxMinutes = 5
  MaxTicks = 4
  MaxLost = 1
  MaxCrashes = 1
SPECIFICATION Spec
INVARIANTS TypeOK NoGaps TicksKept
PROPERTY RealtimeStarts
CHECK_DEADLOCK FALSE
