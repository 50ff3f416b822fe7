CONSTANTS
    Clients = {1, 2, 3}
    MaxConnections = 2
    IntRange = 100
SPECIFICATION Spec
INVARIANT EndedIsRemoved
CHECK_DEADLOCK FALSE
