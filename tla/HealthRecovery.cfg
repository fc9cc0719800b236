SPECIFICATION WatchSpec
CONSTANTS
  None = None
  feed = feed
  WatchedFeeds = {feed}
  FailureThreshold = 2
  StaleAfter = 1
  RunLookback = 12
  Troubles = {"incident"}
  Databases = {"up", "down", "slow"}
  WatchBounds <- MCBounds
INVARIANTS
  RecoveryIsTold
CHECK_DEADLOCK FALSE
