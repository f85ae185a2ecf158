SPECIFICATION FairSpec
CONSTANTS
  Calls = {c1, c2, c3}
  FailureThreshold = 2
  SuccessThreshold = 2
  MaxAttempts = 2
  HistorySize = 2
  FaultBudget = 4
INVARIANTS
  TypeOK
  CountersExact
PROPERTIES
  ChangesForReason
  Recovers
