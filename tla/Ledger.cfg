SPECIFICATION Spec
CONSTANTS
  None = None
  Minute = 1
  Sessions <- MCSessions
  Signals <- MCSignals
  Configs <- MCConfigs
  Created = 0
  ValidSessions = 2
  LastInstant = 4
  Bounds <- MCBounds
  MaxEvents = 3
  Amount = 1
  ExSession = 2
INVARIANTS
  HistoryRegenerates
  OnlyForeignIncidents
  FrozenForGood
  SegmentsTile
  
  
CHECK_DEADLOCK FALSE
