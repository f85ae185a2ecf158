SPECIFICATION Spec
CONSTANTS
  Requests = {r1, r2}
  Questions <- MCQuestions
  Score <- MCScore
  Threshold = 2
  CacheCapacity = 2
  BatchSize = 3
  Inputs <- MCInputs
  Stocked <- MCStocked
  Guard <- MCGuard
  Budget = 2
  Reloads = 1
INVARIANTS
  HitsSimilar
  
  
SYMMETRY Symmetry
CHECK_DEADLOCK FALSE
