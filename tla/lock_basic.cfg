CONSTANTS
    t1 = t1
    t2 = t2
    None = None
    Threads = {t1, t2}
    Calls = {1, 2, 3}
    ThreadOf <- ThreeCalls
    Reentrant = FALSE
    Async = FALSE
    AutoRenew = {1}
    Blocking = {2}
    Wait = 2
    Interval = 2
    MaxDelay = 1
    MaxResends = 1
    Faults = {"request_lost", "reply_lost"}
SPECIFICATION FairSpec
INVARIANTS MutualExclusion CleanExitMeansExclusive WatchdogKeepsLease NoKeyLeftBehind
