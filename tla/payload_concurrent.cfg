SPECIFICATION Spec
CONSTANTS
    Calls = {c1, c2, c3, g}
    Given = {g}
    NumBlocks = 2
    Serial = FALSE
    Faults = TRUE
    NoDir = NoDir
    Legacy = Legacy
SYMMETRY CallSymmetry
INVARIANT TypeOK
INVARIANT DamageNeedsRemoval
INVARIANT OkLasts
INVARIANT NoTempLeft
PROPERTY PublishesWhole
CHECK_DEADLOCK FALSE
