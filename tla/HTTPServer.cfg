SPECIFICATION ServerSpec
CONSTANTS
  Kinds = {"json", "sse"}
  MaxChunks = 2
  Calls = {r1, r2}
  Followed = r1
  Capacity = 1
  RefillRate = 1
  Second = 2
  MaxTime = 4
  MaxDecisions = 3
CHECK_DEADLOCK FALSE
INVARIANTS
  OneAuthor
  RefusedOnlyAfter504
  LimitKept
PROPERTY
  Responds
