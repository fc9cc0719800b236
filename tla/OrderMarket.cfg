SPECIFICATION MarketSpec
CONSTANTS
  None = None
  Minute = 1
  Sessions <- MCSessions
  Prices = {1, 2, 3, 4, 5, 6}
  Directions = {"LONG", "SHORT"}
  Triggers = {5}
  Signals <- MCSignals
  Configs <- MCConfigs
  Candles <- MCCandles
  Created = 0
  ValidSessions = 2
  Instants = {0, 1, 3, 4}
  FreezeReasons = {"SPLIT"}
  Amounts = {1}
INVARIANTS
  EntryGated
  AccountingMatchesEvents
  LastBarDecides
PROPERTIES
  WorstCaseFirst
  
CHECK_DEADLOCK FALSE
