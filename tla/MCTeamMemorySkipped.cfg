SPECIFICATION Spec
CONSTANTS
  Proc = {p1}
  Pair = {ab, cd}
  None = None
  Learned = {{ab, cd}}
  MaxPulls = 1
  MaxEvents = 1
INVARIANTS RetractedStaysOut
