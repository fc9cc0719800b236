SPECIFICATION MCSpec
CONSTANTS
  None = None
  Writers = {w1, w2}
  Readers = {r1}
  Feeds = {"spy"}
  Minutes = {1, 2}
  Values = {v1, v2}
  MaxClock = 3
  Minute = 2
  LastMinute = 6
  Prices = {2, 3, 4, 5}
  Calendars <- MCCalendars
  Instants <- MCInstants
  MaxSessions = 2
  Sessions <- ClickSessions
  Signals <- ClickSignals
  Configs <- ClickConfigs
  Candles <- ClickCandles
  Created = 0
  ValidSessions = 2
  Orders = {o1}
  Workers = {w1, w2}
  QualityBounds <- MCQualityBounds
  WatchBounds <- MCWatchBounds
  WatchedFeeds = {"spy"}
  RecentRuns = 4
  FinalAfter = 1
  FailureThreshold = 2
  StaleAfter = 1
  RunLookback = 12
  Troubles = {"incident"}
  Databases = {"up", "down", "slow"}
INVARIANTS
  WatermarkInv
  WindowIsExact
  WindowFixesEveryAnswer
  ManualFollowsAuto
  OneAccountPerSession
  NothingDropped
  OwnerKnows
  NothingMissedSilently
PROPERTIES
  KnowledgeNeverChanges
  ImplementsLog
  NothingLingers
CHECK_DEADLOCK FALSE
