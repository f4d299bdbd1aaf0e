\* Every policy decision, two tools on one key, two approvers who may contradict each other, a crash.
SPECIFICATION Spec
CONSTANTS
  Calls = {c1, c2}
  Seams = {s1, s2}
  Keys = {k1}
  NoKey = NoKey
  i1 = i1
  i2 = i2
  Intents = {i1, i2}
  Tool <- TwoTools
  Replay <- SafeAndNone
  Decisions = {"allow", "deny", "require_approval"}
  Approvers = {a1, a2}
  MaxOther = 1
  MaxCrashes = 1
SYMMETRY CallSymmetry
INVARIANTS AtMostOnce ApprovedFirst
CHECK_DEADLOCK FALSE
