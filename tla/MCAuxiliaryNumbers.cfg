CONSTANTS
    MaxCalls = 2
    NRetries = 2
    Tokens <- MCTokens
    Atoi <- MCAtoi
    MaxArgs = 4
    LucpdFiles <- MCLucpdFiles
    FtpFiles <- MCFtpFiles
    BigEndian = FALSE
    TlvSizes = {8221, 12000, 16445, 32768, 65535}
    ip1 = ip1
    ip2 = ip2
    ip3 = ip3
    Ips = {ip1, ip2, ip3}
    Slot <- MCSlot
    Times = {0, 1, 3, 4}
    PeerFrames <- MCPeerFrames
    MaxFrames = 4
INIT PartsInit
NEXT PartsNext
INVARIANT FileNumbersCount
CHECK_DEADLOCK FALSE
