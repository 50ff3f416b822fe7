CONSTANTS
    c1 = c1
    c2 = c2
    Conns = {c1, c2}
    MaxClients = 1
    ValidateVersion = TRUE
    Major = 1
    MaxQueue = 3
    ClientFrames <- DemoFrames
SYMMETRY Symmetry
INIT DemoInit
NEXT DemoNext
INVARIANTS CountMatches LiveSessionsBounded CompletedAgreed SuccessAgreed
PROPERTY RefusedOnlyIfFull
CHECK_DEADLOCK FALSE
