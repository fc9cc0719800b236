SPECIFICATION LiveSpec
CONSTANTS
  None = None
  Minute = 1
  Sessions <- MCSessions
  Prices = {2, 3, 4, 5}
  Directions = {"LONG"}
  Triggers = {}
  Signals <- MCSignals
  Configs <- MCConfigs
  Candles <- MCFewCandles
  Created = 0
  ValidSessions = 2
  Instants = {0, 1, 2, 3, 4, 6}
  FreezeReasons = {"SPLIT"}
  Amounts = {1}
PROPERTIES
  ImplementsContract
  EventuallyDecided
CHECK_DEADLOCK FALSE
