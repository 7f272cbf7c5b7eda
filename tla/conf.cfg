SPECIFICATION Spec
CONSTANTS
    Starts = {1, 2, 3}
    Port <- PortsInTurn
    UserLines = {"setting", "port", "latin1"}
    Pinned = {"port"}
    Foreign = {"latin1"}
    UserPort = 9
    MaxEdits = 2
INVARIANT OneSection
INVARIANT UserTextKept
PROPERTY OwnPortCounts
CHECK_DEADLOCK FALSE
