SPECIFICATION Spec
CONSTANTS
  r1 = r1
  s1 = s1
  s2 = s2
  Runs = {r1}
  Parent <- Alone
  Slots = {s1, s2}
  Kernel = "pi"
  Gateway = "durable"
  ContractEval = FALSE
  SettlePolicy = "never"
  MaxLog = 6
  MaxBegins = 3
  MaxCrashes = 1
  MaxAnswers = 1
  MaxSettles = 0
INVARIANTS
  SingleDrive
  StartedOnce
  ExplicitRecovery
  ClosingAborts
  ResultIsDurable
PROPERTY ImplementsLifecycle
SYMMETRY SlotSymmetry
CHECK_DEADLOCK FALSE
