CONSTANTS
    Root <- MCRoot
    Dirs <- MCDirs
    Cwd <- MCCwd
    MaxComps = 2
SPECIFICATION PathSpec
INVARIANT ClimbingIsRefused
CHECK_DEADLOCK FALSE
