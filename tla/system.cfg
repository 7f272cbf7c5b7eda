SPECIFICATION FairSpec
CONSTANTS
    Instances = {1, 2}
    Ports = {1, 2}
    NumBlocks = 2
    PartOf <- TwoParts
    Legacy = Legacy
    Nobody = Nobody
INVARIANT TypeOK
INVARIANT FailureNeedsRace
INVARIANT CachedArchiveIsWhole
PROPERTY KilledNeedsRace
PROPERTY StartReturns
PROPERTY EventuallyInstalled
CHECK_DEADLOCK FALSE
