SPECIFICATION Spec
CONSTANTS
  Cli = {c1, c2}
  Pid = {d1, d2}
  None = None
  MaxKills = 1
  MaxSlow = 1
INVARIANTS TypeOK ServingIsFound
PROPERTY StartServes
