SPECIFICATION RoundTripFairSpec
CONSTANTS
    Shapes <- Reshaped
    Altered = TRUE
    MaxRows = 3
    BatchSize = 2
    Faults = TRUE
    FlushAt = 25
    ReadBatch = 2
    NoTable = NoTable
INVARIANT TypeOK
INVARIANT RowsInOrder
INVARIANT WholeOrUnreadable
INVARIANT PanicNeedsAlter
INVARIANT DumpIsRestorable
PROPERTY ImplementsTransfer
PROPERTY DumpEnds
CHECK_DEADLOCK FALSE
