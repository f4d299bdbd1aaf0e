SPECIFICATION Spec
CONSTANTS
  r1 = r1
  s1 = s1
  s2 = s2
  Runs = {r1}
  Parent <- Alone
  Slots = {s1}
  Kernel = "pi"
  Gateway = "durable"
  ContractEval = FALSE
  SettlePolicy = "boot"
  MaxLog = 5
  MaxBegins = 1
  MaxCrashes = 0
  MaxAnswers = 0
  MaxSettles = 0
INVARIANTS
  ApprovalSuspends
CHECK_DEADLOCK FALSE
