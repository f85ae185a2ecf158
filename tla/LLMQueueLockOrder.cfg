SPECIFICATION FairSpec
CONSTANTS
  Requests = {r1}
  NoRequest = NoRequest
  MaxQueueSize = 1
  MaxConcurrency = 1
  MaxWait = TRUE
  MaxRetries = 1
  HandlerResults = {"ok"}
  MayStop = FALSE
  StatsCalls = 1
PROPERTY
  ExpiredRemoved
CHECK_DEADLOCK FALSE
