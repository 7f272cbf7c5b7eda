SPECIFICATION Spec
CONSTANTS
    Calls = {c1, c2}
    Given = {}
    NumBlocks = 2
    Serial = TRUE
    Faults = TRUE
    NoDir = NoDir
    Legacy = Legacy
INVARIANT CachedArchiveIsWhole
CHECK_DEADLOCK FALSE
