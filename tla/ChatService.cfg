SPECIFICATION Spec
CONSTANTS
  Requests = {r1, r2}
  Callers = {r1, r2}
  Convs = {"c1", "c2"}
  MaxCacheSize = 2
  Budget = 2
  Setups <- MCSetups
  Inputs <- MCInputs
  About <- MCAbout
  Replies <- MCReplies
INVARIANTS
  NoOrphanMessages
  CachedAnswersGenuine
  AnsweredTurnsStored
  StreamIsTheAnswer
  
CHECK_DEADLOCK FALSE
