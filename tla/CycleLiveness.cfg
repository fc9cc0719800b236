SPECIFICATION LiveSpec
CONSTANTS
  o1 = o1
  o2 = o2
  f1 = f1
  f2 = f2
  None = None
  Orders = {o1}
  Feeds = {f1}
  FeedOf <- MCOneOrder
  UntilOf <- MCOneUntil
  Closes = {1, 2}
  OrderErrors = TRUE
  SlowCommits = TRUE
  MaxCrashes = 1
PROPERTIES
  KnowledgeAccumulates
  EveryOrderEnds
CHECK_DEADLOCK FALSE
