SPECIFICATION FairSpec
CONSTANTS
  w1 = w1
  w2 = w2
  review = review
  incident = incident
  None = None
  Workers = {w1, w2}
  ReviewAlerts = {review}
  EventAlerts = {}
  IncidentAlerts = {incident}
  BackoffCap = 1
  AlertExpiry = 2
  Lookback = 3
  Batch = 1
  ScanLimit = 1
  LastRecord = 1
  End = 4
  Bounds <- MCBounds
INVARIANTS
  DuplicatesHaveACause
PROPERTIES
  EveryEventIsHeard
  SessionsDoNotOverlap
CHECK_DEADLOCK FALSE
