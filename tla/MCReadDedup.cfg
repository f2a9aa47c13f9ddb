CONSTANTS
    Agent = {a1, a2}
    Key = {k1}
    Content = {c1, c2}
    Root = {r1}
    NoRow = NoRow
    MaxAge = 1
    PruneAge = 1
    MaxRows = 1
    MaxTime = 3
SPECIFICATION Spec
SYMMETRY Symmetry
INVARIANTS TypeOK NeverTwoStubs
PROPERTIES StubMeansHeld
CHECK_DEADLOCK FALSE
