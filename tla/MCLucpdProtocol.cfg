CONSTANTS
    c1 = c1
    Conns = {c1}
    MaxClients = 1
    ValidateVersion = TRUE
    Major = 1
    MaxQueue = 2
    ClientFrames <- MCFrames
SPECIFICATION OneClientSpec
INVARIANTS CompletedMeansUploaded RepliesInOrder KilledOnlyByEarlyClose
PROPERTIES ClosedPeerEnds StopTerminates TimeoutEndsSession
CHECK_DEADLOCK FALSE
