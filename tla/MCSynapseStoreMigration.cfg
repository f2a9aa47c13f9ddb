SPECIFICATION Spec
CONSTANTS
  Proc = {p1, p2}
  Pair = {ab}
  Personal = personal
  Shared = shared
  Ephemeral = ephemeral
  Structural = structural
  Branch = {branch}
  LearningRate = 4
  WeightCap = 16
  Penalty = 8
  Pruned = 1
  LtpThreshold = 2
  LtpFloor = 4
  Remains <- Halved
  MaxOld = 1
  MaxTime = 2
  MaxWrites = 2
INVARIANT NamespacesKept

