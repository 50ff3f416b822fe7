\* The TLVs: 8221 and 16445 make frames whose length reads the same in both
\* byte orders, twice 24672 bytes fit into a frame and twice 32896 do not;
\* 32768 is the longest TLV, 65535 the longest a length can say.
CONSTANTS
    MaxCalls = 2
    NRetries = 2
    Tokens <- MCTokens
    Atoi <- MCAtoi
    MaxArgs = 4
    LucpdFiles <- MCLucpdFiles
    FtpFiles <- MCFtpFiles
    BigEndian = FALSE
    TlvSizes = {8221, 12000, 16445, 32768, 65535}
    ip1 = ip1
    ip2 = ip2
    ip3 = ip3
    Ips = {ip1, ip2, ip3}
    Slot <- MCSlot
    Times = {0, 1, 3, 4}
    PeerFrames <- MCPeerFrames
    MaxFrames = 4
SPECIFICATION PartsSpec
INVARIANTS OwnReply StartsAsAsked ConfigInRange ServedFromOneFile AcceptedLengths AnswersItsRequest
PROPERTIES GrantsSpaced CallReturns
CHECK_DEADLOCK FALSE
