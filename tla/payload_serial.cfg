SPECIFICATION Spec
CONSTANTS
    Calls = {c1, c2, c3, g}
    Given = {g}
    NumBlocks = 2
    Serial = TRUE
    Faults = TRUE
    NoDir = NoDir
    Legacy = Legacy
SYMMETRY CallSymmetry
INVARIANT MarkerMeansWhole
CHECK_DEADLOCK FALSE
PROPERTY ImplementsPromise
