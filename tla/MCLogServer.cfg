CONSTANTS
    c1 = c1
    c2 = c2
    c3 = c3
    None = None
    Conns = {c1, c2, c3}
    NSlots = 2
    MaxFd = 3
SYMMETRY Symmetry
SPECIFICATION Spec
INVARIANTS ConnectedHasHandler SlotsExclusive
CHECK_DEADLOCK FALSE
