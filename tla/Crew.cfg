SPECIFICATION CrewSpec
CONSTANTS
  Tasks = {"a", "g", "b"}
  Gates = {"g"}
  Deps <- ReviewedDeps
  Reviews <- ReviewsA
  Members = {"ann", "bot"}
  Agents = {"bot"}
  Humans = {h1}
  Messages = {m1}
  MaxVersion = 6
  MaxExecs = 1
  Subjects = {"a", "g", "b"}
  Requests <- CrewRequests
  Workers = {w1}
  Projectors = {p1}
  Effects = {}
  MaxQueue = 2
  MaxAttempts = 2
  MaxClaims = 2
  MaxFaults = 1
INVARIANTS BoardOK GatesHold ArtifactOnce ProjectedInOrder
PROPERTY HistoryKept
CHECK_DEADLOCK FALSE
