SPECIFICATION Spec
CONSTANTS
  r1 = r1
  s1 = s1
  s2 = s2
  Runs = {r1}
  Parent <- Alone
  Slots = {s1}
  Kernel = "pi"
  Gateway = "durable"
  ContractEval = FALSE
  SettlePolicy = "anytime"
  MaxLog = 7
  MaxBegins = 2
  MaxCrashes = 1
  MaxAnswers = 1
  MaxSettles = 1
PROPERTIES
  SettleSparesSuspended
CHECK_DEADLOCK FALSE
