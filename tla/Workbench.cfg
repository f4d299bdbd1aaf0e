SPECIFICATION FairSpec
CONSTANTS
  Users = {"u"}
  MaxRunsLimit = 2
  Endings <- OpenAnsweredAsks
  MaxGoals = 2
  MaxResumes = 1
  MaxCrashes = 1
INVARIANTS TypeOK OneLiveRun
PROPERTIES StartsAreAuthorised GoalSettles
CHECK_DEADLOCK FALSE
