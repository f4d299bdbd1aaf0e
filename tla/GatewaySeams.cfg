\* Two seams and three calls of one effect: sharing, orphans, and every call ends.
SPECIFICATION FairSpec
CONSTANTS
  Calls = {c1, c2, c3}
  Seams = {s1, s2}
  Keys = {k1}
  NoKey = NoKey
  i1 = i1
  i2 = i2
  Intents = {i1}
  Tool <- OneTool
  Replay <- NeverReplay
  Decisions = {"allow"}
  Approvers = {}
  MaxOther = 0
  MaxCrashes = 0
INVARIANTS TypeOK AtMostOnce OneTruth ConflictIsForeign
PROPERTIES ImplementsEffectOnce CallsEnd
CHECK_DEADLOCK FALSE
