CONSTANTS
    HdrLen = 2
    MaxText = 1
    RbufSize = 4
    MaxFrames = 3
    TextLens <- MCTextLens
SPECIFICATION Spec
INVARIANTS TypeOK InOrder BlameIsJustified ClosedIsTrue BlocksOnlyIfIncomplete
PROPERTIES Delivery ImplementsChannel
