SPECIFICATION MCSpec
CONSTANTS
  None = None
  Steps = 10
  Windows <- MCWindows
  Horizons = {1, 3}
  MaxCandles = 3
  CandleShapes <- MCShapes
  Shapes = {"CALM", "STAR"}
  Patterns <- MCPatterns
  Tradable = {"STAR"}
  Bounds <- MCBounds
  MaxSeries = 5
  Start = 400
  Mirror = 800
  Embargoes = {0, 1}
  Sessions = 4
  Lookback = 3
  Revisit = 2
  Span = 2
  Requests = {r1, r2}
SYMMETRY Symmetry
INVARIANTS
  NoLookAhead
  LabelsLiveLikeOrders
  
  TrainingStaysBlind
  ActiveFollowsData
  AnswersTellTheSignal
  AnswersAsTrained
  OneAlertPerCrossing
PROPERTIES
  AsOfIsStable
CHECK_DEADLOCK FALSE
