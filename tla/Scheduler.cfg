SPECIFICATION FairSpec
CONSTANTS
  Schedules = {1}
  FirstDue <- DueAt
  Interval <- Every
  Services = {"v1", "v2"}
  Calls = {"c1", "c2"}
  ServiceOf <- Instances
  MaxTime = 1
  MaxFaults = 1
INVARIANT RunsOnce
PROPERTIES DecidedOnce CancelledNotClaimed ClaimedStarts
CHECK_DEADLOCK FALSE
