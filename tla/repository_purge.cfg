CONSTANTS
    a = a
    b = b
    uuid = uuid
    named = named
    None = None
    Clients = {a, b}
    Ids = {uuid, named}
    CallerIds = {named}
    MaxHistory = 2
    MaxWrites = 2
    MaxFaults = 0
SPECIFICATION Spec
CHECK_DEADLOCK FALSE
INVARIANT HardDeleteIsPermanent
