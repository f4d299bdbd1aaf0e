SPECIFICATION FairSpec
CONSTANTS
  Users = {"u"}
  MaxRunsLimit = 2
  Endings <- OpenAnsweredAsks
  MaxGoals = 1
  MaxResumes = 1
  MaxCrashes = 1
PROPERTY RunNotOrphaned
CHECK_DEADLOCK FALSE
