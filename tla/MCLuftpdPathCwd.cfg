CONSTANTS
    Root <- MCRoot
    Dirs <- MCDirs
    Cwd <- MCCwd
    MaxComps = 2
SPECIFICATION SessionSpec
INVARIANT CurrentDirIsBelowRoot
