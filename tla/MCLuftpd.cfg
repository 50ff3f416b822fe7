CONSTANTS
    Clients = {1, 2, 3, 4}
    MaxConnections = 2
    IntRange = 3
    Root <- MCRoot
    Dirs <- MCDirs
    Cwd <- MCCwd
    MaxComps = 4
INIT FtpPartsInit
NEXT FtpPartsNext
INVARIANTS TypeOK ThreadsCounted ResolvesMeaning
CHECK_DEADLOCK FALSE
