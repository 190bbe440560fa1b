CONSTANTS
    a = a
    b = b
    c = c
    d = d
    t1 = t1
    t2 = t2
    l1 = l1
    l2 = l2
    Capacity = 3
    Costs = {1, 2, 3}
    Parts = 3
    Rate = 1
    TicksPerMs = 2
    MsPerSecond = 2
    Members <- FourOf
    Limit = 2
    Window = 1
    Items <- TwoOf
    Delays = {0, 2}
    PollCount = 1
    MaxSends = 2
    Ids <- TwoOf
    Fields <- TwoOf
    SessionTtl = 2
    Channels <- TwoOf
    Listeners <- TwoOf
    NoChannel = NoChannel
    Callers <- ThreeOf
    Ttls = {0, 1}
    Jitter = 100
    MaxChanges = 2
    ThreadsOf <- TwoThreads
    Loops <- TwoLoops
    MaxClients = 4
    BloomUsers <- TwoThreads
    OffsetsOf <- Overlapping
SPECIFICATION FairSpec
INVARIANTS TypeOK LimitNeverExceeded AdviceSuffices ItemsAccountedFor SessionLifetime
INVARIANTS HandlerForEverySubscription InvalidationHolds EveryClientHasItsPlace NoFalseNegative
PROPERTIES StopEndsListening StaleEntryExpires
