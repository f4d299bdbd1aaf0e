SPECIFICATION CrewSpec
CONSTANTS
  Tasks = {"a", "g", "b"}
  Gates = {"g"}
  Deps <- ReviewedDeps
  Reviews <- ReviewsA
  Members = {"ann", "bot"}
  Agents = {"bot"}
  Humans = {h1}
  Messages = {m1, m2}
  MaxVersion = 4
  MaxExecs = 1
  Subjects = {"a", "g", "b"}
  Requests <- CrewRequests
  Workers = {w1}
  Projectors = {p1}
  Effects = {}
  MaxQueue = 2
  MaxAttempts = 2
  MaxClaims = 3
  MaxFaults = 0
INVARIANT SteersKept
CHECK_DEADLOCK FALSE
