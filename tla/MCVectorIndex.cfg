CONSTANTS
    Proc = {w, b}
    Long = {w}
    w = w
    b = b
    Does <- MCDoes
    Node = {1, 2}
    Doc = {2}
    Text = {t1, t2}
    Gone = Gone
    None = None
    MaxEdits = 2
    MaxTrouble = 1
SPECIFICATION Spec
SYMMETRY Symmetry
INVARIANTS TypeOK RowsHaveVectors
PROPERTIES ForcedBuildRepairs
VIEW Distinct
