SPECIFICATION Spec
CONSTANTS
    t1 = t1
    t2 = t2
    c1 = c1
    c2 = c2
    Tables <- TwoTables
    Clients <- TwoClients
    MaxRuns = 4
    MaxCommits = 2
    Faults = TRUE
SYMMETRY Alike
INVARIANT TypeOK
INVARIANT OkMeansDone
INVARIANT SyncedReport
INVARIANT RefusedInitWasDone
CHECK_DEADLOCK FALSE
