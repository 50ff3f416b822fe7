----------------------------- MODULE MCAuxiliary -----------------------------
(***************************************************************************)
(* The retries of a request, the start of lucpd and of luftpd, the length  *)
(* of a log frame, the rate limit and the demo server.  They share no      *)
(* state, so a behaviour is that of one of them, part, and the others stay *)
(* at one initial state.                                                   *)
(***************************************************************************)
EXTENDS LucpRetry, LucpdStart, LuftpdStart, LogFrame, RateLimit, LucpServerDemo, TLC

CONSTANTS ip1, ip2, ip3

VARIABLE part

MCTokens == {"-c", "-p", "8000", "65536"}
MCAtoi == [t \in MCTokens |-> CASE t = "8000" -> 8000 [] t = "65536" -> 65536
                                [] OTHER -> 0]

\* Files with one line: each setting with a good number and with numbers at
\* the edges, a switch, text and quoted text.
MCValues == {Number(0), Number(20), Number(5000), Value("off", 0), Text,
             Value("quoted", 0)}
MCLucpdFiles ==
    {Unreadable, <<>>} \cup {k :> v : k \in DOMAIN Defaults, v \in MCValues}

MCFtpFiles ==
    {Unreadable, <<>>}
    \cup {k :> v : k \in DOMAIN FtpNumbers, v \in {Number(5), Value("quoted", 0)}}
    \cup {k :> Text : k \in FtpStrings}

\* Two of the three addresses have the same hash value.
MCSlot(ip) == IF ip = ip3 THEN 1 ELSE 0

\* The frames the demo server waits for, under two numbers, and another one.
MCPeerFrames ==
    [type : {"UPLOAD_REQUEST", "FTP_LOGIN_RESULT", "FTP_DOWNLOAD_RESULT"}, seq : 1..2]
        \cup {[type |-> "ACK_START", seq |-> 1]}

PartsInit ==
    /\ part \in {"retry", "lucpd", "luftpd", "frame", "rate", "server"}
    /\ Init /\ (part = "lucpd" \/ argv = <<>>)
    /\ FtpInit /\ (part = "luftpd" \/ {argFile, etcFile} = {Unreadable})
    /\ FrameInit /\ ServerInit /\ RetryInit
    /\ RateInit
    /\ part = "rate" \/ {now} \cup Range(last_access) \cup Range(granted) = {0}

PartsNext ==
    /\ \/ /\ part = "retry" /\ RetryNext
          /\ UNCHANGED <<vars, ftpVars, frameVars, rateVars, serverVars>>
       \/ /\ part = "lucpd" /\ Next
          /\ UNCHANGED <<retryVars, ftpVars, frameVars, rateVars, serverVars>>
       \/ /\ part = "luftpd" /\ FtpNext
          /\ UNCHANGED <<retryVars, vars, frameVars, rateVars, serverVars>>
       \/ /\ part = "frame" /\ FrameNext
          /\ UNCHANGED <<retryVars, vars, ftpVars, rateVars, serverVars>>
       \/ /\ part = "rate" /\ RateNext
          /\ UNCHANGED <<retryVars, vars, ftpVars, frameVars, serverVars>>
       \/ /\ part = "server" /\ ServerNext
          /\ UNCHANGED <<retryVars, vars, ftpVars, frameVars, rateVars>>
    /\ UNCHANGED part

\* The fairness of the only part that has any, see RetrySpec.
PartsSpec ==
    PartsInit /\ [][PartsNext]_<<part, retryVars, vars, ftpVars, frameVars, rateVars, serverVars>>
    /\ WF_retryVars(Caller)
=============================================================================
