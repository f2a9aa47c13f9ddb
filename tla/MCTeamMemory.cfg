SPECIFICATION Spec
CONSTANTS
  Proc = {p1, p2}
  Pair = {ab, cd}
  None = None
  Learned = {{ab, cd}}
  MaxPulls = 1
  MaxEvents = 2
INVARIANTS TypeOK RetractedStaysOutUndisturbed
PROPERTIES RetractionsTravel
SYMMETRY Symmetry
VIEW Distinct
