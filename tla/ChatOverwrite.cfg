SPECIFICATION Spec
CONSTANTS
  Requests = {r1}
  Callers = {r1}
  Convs = {"c1", "c2"}
  MaxCacheSize = 2
  Budget = 1
  Setups <- Postgres
  Inputs <- MCInputs
  About <- MCAbout
  Replies <- MCReplies
INVARIANT
  UserMessagesKept
CHECK_DEADLOCK FALSE
