SPECIFICATION KfSpec
CONSTANTS
  Kind <- OneImage
  PageSize = 1
  MaxCache = 2
  Pulls = {c1, c2}
  MaxCalls = 2
  MaxKfCrashes = 1
INVARIANT RestartSkipsHandled
CHECK_DEADLOCK FALSE
