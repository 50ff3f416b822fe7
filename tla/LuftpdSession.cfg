CONSTANTS
    s1 = s1
    s2 = s2
    s3 = s3
    Sessions = {s1, s2, s3}
    PortMin = 1
    PortMax = 1
    MaxCmds = 3
SPECIFICATION Spec
INVARIANTS NothingLeaks AnsweredProperly
PROPERTY CommandEnds
CHECK_DEADLOCK FALSE
