CONSTANTS
    a1 = a1
    a2 = a2
    Apps = {a1, a2}
    Capacity = 2
    PoolSize = 1
    MaxLogs = 4
    MaxSocks = 2
SPECIFICATION Spec
INVARIANTS NoMissedWakeup ConnectionsExclusive
PROPERTIES QueueIsFifo FreeReturnsOrQueueWaits
CHECK_DEADLOCK FALSE
