CONSTANTS
    t1 = t1
    t2 = t2
    None = None
    Threads = {t1, t2}
    Calls = {1, 2}
    ThreadOf <- TwoCalls
    Reentrant = FALSE
    Async = FALSE
    AutoRenew = {1}
    Blocking = {}
    Wait = 1
    Interval = 1
    MaxDelay = 1
    MaxResends = 0
    Faults = {}
SPECIFICATION Spec
INVARIANT AllTimersCancelled
