SPECIFICATION FairSpec
CONSTANTS
  r1 = r1
  s1 = s1
  s2 = s2
  Runs = {r1}
  Parent <- Alone
  Slots = {s1}
  Kernel = "omp"
  Gateway = "durable"
  ContractEval = TRUE
  SettlePolicy = "boot"
  MaxLog = 4
  MaxBegins = 3
  MaxCrashes = 1
  MaxAnswers = 2
  MaxSettles = 0
INVARIANTS
  TypeOK
  FinalIsLast
  CompletedIsEvaluated
PROPERTIES
  SettleSparesActive
  EveryRunSettles
  CloseDrains
CHECK_DEADLOCK FALSE
