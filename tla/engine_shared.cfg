SPECIFICATION FairSpec
CONSTANTS
    Instances = {1, 2}
    Dirs = {1}
    Ports = {1, 2}
    DataDir <- SharedDir
    FixedPort <- Ephemeral
    Temporary <- AllTemporary
    StopDirs = {}
    Serial = FALSE
    Faults = FALSE
    Crashes = FALSE
    NoInst = NoInst
INVARIANT VainWaitNeedsAnother
PROPERTY ReturnsOrWaitsInVain
CHECK_DEADLOCK FALSE
