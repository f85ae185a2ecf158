SPECIFICATION FairSpec
CONSTANTS
  Requests = {r1, r2}
  NoRequest = NoRequest
  MaxQueueSize = 1
  MaxConcurrency = 1
  MaxWait = FALSE
  MaxRetries = 1
  HandlerResults = {}
  MayStop = TRUE
  StatsCalls = 0
PROPERTIES
  AcceptedAnswered
  
CHECK_DEADLOCK FALSE
