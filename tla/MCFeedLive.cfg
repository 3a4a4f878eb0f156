CONSTANTS
  Code = {c1, c2}
  Minutes = 2
  NoTime = NoTime
  NoCandle = NoCandle
  Trades <- MCTrades
  MaxTicks = 3
  MaxMinute = 2
  MaxLogins = 3
  MaxEdits = 2
SPECIFICATION Spec
PROPERTIES MinuteEndsCandle
CHECK_DEADLOCK FALSE
