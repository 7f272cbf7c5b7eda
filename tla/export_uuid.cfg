SPECIFICATION Spec
CONSTANTS
    Shapes <- Uuid
    Altered = FALSE
    MaxRows = 1
    BatchSize = 2
    Faults = FALSE
INVARIANT TextIsText
CHECK_DEADLOCK FALSE
