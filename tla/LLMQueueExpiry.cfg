SPECIFICATION Spec
CONSTANTS
  Requests = {r1, r2}
  NoRequest = NoRequest
  MaxQueueSize = 2
  MaxConcurrency = 1
  MaxWait = TRUE
  MaxRetries = 2
  HandlerResults = {"ok", "network"}
  MayStop = TRUE
  StatsCalls = 1
SYMMETRY RequestSymmetry
INVARIANTS
  TypeOK
  SlotAccounting
  NoLostWakeup
  AnsweredOnce
  OnePlace
  
  NoSilentEmptyAnswer
PROPERTY
  AbsSpec
CHECK_DEADLOCK FALSE
