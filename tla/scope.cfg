SPECIFICATION FairScopeSpec
CONSTANTS
  Habits = {"skips", "callback scopes", "exit ends"}
  Exits = {"thread", "process"}
  Iterations = 4
  MaxScopes = 4
  MaxDefers = 2
INVARIANTS
  ScopesAreLive
  LastScopeIsLive
  DefersRunInOrder
  NothingLost
  InnerFreedFirst
PROPERTIES
  CallsComplete
CHECK_DEADLOCK FALSE
