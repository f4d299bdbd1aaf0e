SPECIFICATION FairSpec
CONSTANTS
  MaxExecs = 2
  Subjects = {s1, s2}
  Requests = {r1, r2}
  Workers = {w1, w2}
  Effects = {"pending"}
  MaxQueue = 1
  MaxAttempts = 2
  MaxClaims = 2
  MaxFaults = 1
INVARIANTS TypeOK OneEnding SuccessHeardAll OneStartPerRequest
PROPERTIES NoLostUpdate BlockedWhileUncertain EveryExecutionSettles
CHECK_DEADLOCK FALSE
