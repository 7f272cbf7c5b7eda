SPECIFICATION Spec
CONSTANTS
    Files <- SomeFiles
    BatchSize = 2
    FlushAt = 25
    MaxTries = 4
    Faults = TRUE
    NoTable = NoTable
INVARIANT TypeOK
INVARIANT OncePerSuccess
INVARIANT BufBounded
PROPERTY RowsComeWhole
CHECK_DEADLOCK FALSE
