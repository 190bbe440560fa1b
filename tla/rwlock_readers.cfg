CONSTANTS
    r1 = r1
    r2 = r2
    w1 = w1
    w2 = w2
    None = None
    Readers = {r1, r2}
    Writers = {w1, w2}
    TimeoutOf <- EqualTimeouts
    MaxTimeout = 2
    Blocking = {w1}
    AutoRenew = {w1}
    MaxResends = 0
    Faulty = FALSE
SPECIFICATION Spec
INVARIANT WriteExcludesReaders
