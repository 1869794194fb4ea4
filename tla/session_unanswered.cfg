SPECIFICATION FairSpec
CONSTANTS
  Kinds = {"initialize", "configurationDone", "disconnect", "other"}
  Care = "orderly"
  MaxRequests = 3
  MaxDepth = 1
  Window = 1
PROPERTIES EveryRequestAnswered
CHECK_DEADLOCK FALSE
