CONSTANTS
    auto = auto
    manual = manual
    Consumers = {auto, manual}
    AutoAck = {auto}
    StartIds = {"0", "$"}
    MaxLen = 2
    Count = 2
    ClaimCount = 1
    Scan = 2
    MinIdle = 1
    MaxEntries = 3
    MaxFaults = 1
    MaxGroups = 2
SPECIFICATION Spec
INVARIANTS TypeOK ExclusiveWhilePunctual
PROPERTIES DeliversAtLeastOnce EveryEntryHandled
