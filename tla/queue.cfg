CONSTANTS
    c1 = c1
    c2 = c2
    None = None
    Messages = {1, 2}
    Consumers = {c1, c2}
    MaxItems = 2
    MaxNacks = 1
    MaxFaults = 2
SPECIFICATION FairSpec
INVARIANTS NoLoss ExactlyOnceUntilRepeated NothingStranded FirstInFirstOut
PROPERTY EventuallyAcked
CHECK_DEADLOCK FALSE
