SPECIFICATION Spec
CONSTANTS
  Calls = {c1, c2}
  Names = {"n"}
  Emails = {"e"}
  Admins = {"n"}
  MaxUsers = 1
  MaxSessions = 1
  MaxFaults = 1
  Budget = 3
SYMMETRY CallSymmetry
INVARIANTS
  LogoutFinal
  SpentOnce
  LoggedOutRefused
  MemoryStoreExact
  LatestUsable
CHECK_DEADLOCK FALSE
