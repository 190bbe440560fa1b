CONSTANTS
    k1 = k1
    k2 = k2
    t1 = t1
    t2 = t2
    Keys = {k1, k2}
    Threads = {t1, t2}
    Uses <- MCUses
    SampleAbove = 1
    LocalTtl = 1
    NegativeTtl = 0
    MaxDelay = 1
    MaxWrites = 2
    MaxFaults = 1
    Nothing = Nothing
    Negative = Negative
    Fallback = Fallback
SPECIFICATION FairSpec
INVARIANTS TypeOK StalenessBounded OwnWritesSeen
PROPERTIES Converges
