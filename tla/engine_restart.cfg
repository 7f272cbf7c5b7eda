SPECIFICATION Spec
CONSTANTS
    Instances = {1, 2, 3}
    Dirs = {1}
    Ports = {1, 2}
    DataDir <- SharedDir
    FixedPort <- Ephemeral
    Temporary <- AllPersistent
    StopDirs = {1}
    Serial = TRUE
    Faults = TRUE
    Crashes = TRUE
    NoInst = NoInst
 
PROPERTY ReadyIsOwn
PROPERTY DataKept
CHECK_DEADLOCK FALSE
