CONSTANTS
    a = a
    b = b
    uuid = uuid
    named = named
    None = None
    Clients = {a, b}
    Ids = {uuid, named}
    CallerIds = {named}
    MaxHistory = 2
    MaxWrites = 4
    MaxFaults = 1
SPECIFICATION Spec
SYMMETRY Symmetry
INVARIANTS VersionNamesState HistoryIsComplete IndexIsComplete
PROPERTY OneVersionAtATime
CHECK_DEADLOCK FALSE
