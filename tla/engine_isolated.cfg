SPECIFICATION FairSpec
CONSTANTS
    Instances = {1, 2}
    Dirs = {1, 2}
    Ports = {1, 2}
    DataDir <- OwnDir
    FixedPort <- Ephemeral
    Temporary <- AllTemporary
    StopDirs = {}
    Serial = FALSE
    Faults = TRUE
    Crashes = TRUE
    NoInst = NoInst
INVARIANT TypeOK
INVARIANT GoneIsClean
INVARIANT ServedDirIsThere
PROPERTY Returns
CHECK_DEADLOCK FALSE
