CONSTANTS
    t1 = t1
    t2 = t2
    None = None
    Threads = {t1, t2}
    Calls = {1, 2, 3}
    ThreadOf <- ThreeCalls
    Reentrant = TRUE
    Async = TRUE
    AutoRenew = {1}
    Blocking = {2}
    Wait = 1
    Interval = 1
    MaxDelay = 1
    MaxResends = 0
    Faults = {"request_lost", "reply_lost", "crash"}
SPECIFICATION FairSpec
INVARIANT LeaseHonoured
PROPERTIES EveryCallReturns AbandonedKeyExpires
