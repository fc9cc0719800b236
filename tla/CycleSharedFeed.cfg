SPECIFICATION Spec
CONSTANTS
  o1 = o1
  o2 = o2
  f1 = f1
  f2 = f2
  None = None
  Orders = {o1, o2}
  Feeds = {f1}
  FeedOf <- MCSharedFeed
  UntilOf <- MCUntil
  Closes = {2, 3}
  OrderErrors = FALSE
  SlowCommits = FALSE
  MaxCrashes = 0
INVARIANTS
  EvaluatedWasAsked
  NeverFinalizedBlind
CHECK_DEADLOCK FALSE
