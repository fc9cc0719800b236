SPECIFICATION Spec
CONSTANTS
  None = None
  Sessions = 4
  Lookback = 3
  Revisit = 2
  Span = 2
  Shapes = {"CALM", "STAR"}
  Patterns <- MCPatterns
  Tradable = {"STAR"}
  Bounds <- MCBounds
  Requests = {r1}
INVARIANTS
  ThesisTravels
CHECK_DEADLOCK FALSE
