-------------------------- MODULE AuxiliaryProofs --------------------------
(***************************************************************************)
(* Proofs about the small modules: the length of a log frame, the rate     *)
(* limit, the demo server, the retries of a request, and the start of the  *)
(* two daemons from their configuration files.                             *)
(***************************************************************************)
EXTENDS LucpServerDemo, RateLimit, LogFrame, LucpRetry, LucpdStart, LuftpdStart,
        SequenceTheorems, TLAPS

-----------------------------------------------------------------------------
(* The length of a log frame.                                              *)

\* The two bytes of a 16-bit number.
LEMMA TwoBytes ==
    ASSUME NEW n \in Nat, n < Word
    PROVE  \E lo, hi \in Nat : /\ lo < 256 /\ hi < 256 /\ n = 256 * hi + lo
                               /\ lo = n % 256 /\ hi = n \div 256
  <1>1. /\ n % 256 \in Nat /\ n % 256 < 256
        /\ n \div 256 \in Nat /\ n \div 256 < 256
        /\ n = 256 * (n \div 256) + (n % 256)
    BY SMT DEF Word
  <1>2. QED
    BY <1>1

\* ntohs of a 16-bit number is one; it is the same number only if its two
\* bytes are equal.
LEMMA NtohsFacts ==
    ASSUME NEW n \in Nat, n < Word
    PROVE  /\ Ntohs(n) \in Nat /\ Ntohs(n) < Word
           /\ Ntohs(n) = n => BigEndian = TRUE \/ n % 256 = n \div 256
  <1>1. PICK lo, hi \in Nat : /\ lo < 256 /\ hi < 256 /\ n = 256 * hi + lo
                              /\ lo = n % 256 /\ hi = n \div 256
    BY TwoBytes
  <1>2. Swapped(n) = lo * 256 + hi
    BY <1>1 DEF Swapped
  <1>3. /\ Swapped(n) \in Nat /\ Swapped(n) < Word
        /\ Swapped(n) = 256 * hi + lo => lo = hi
    <2>1. lo * 256 + hi \in Nat /\ lo * 256 + hi < Word
      BY <1>1, SMT DEF Word
    <2>2. lo * 256 + hi = 256 * hi + lo => lo = hi
      BY <1>1, SMT
    <2>3. QED
      BY <1>2, <2>1, <2>2
  <1>4. Swapped(n) = n => n % 256 = n \div 256
    BY <1>1, <1>3
  <1>5. (Ntohs(n) = n /\ BigEndian = TRUE) \/ Ntohs(n) = Swapped(n)
    BY DEF Ntohs
  <1>6. QED
    BY <1>3, <1>4, <1>5

\* A 16-bit number is its own remainder.
LEMMA SmallRemainder ==
    ASSUME NEW n \in Nat, n < Word
    PROVE  n % Word = n
  BY SMT DEF Word

\* What payload_len becomes when a TLV is added, and that it fits.
LEMMA Added ==
    ASSUME FrameInv, NEW n \in Nat, Fits(n)
    PROVE  /\ NewLen(n) % Word = payload_len + 3 + n
           /\ payload_len + 3 + n < Word
           /\ HeaderSize + (payload_len + 3 + n) <= MaxFrameSize
  <1>1. /\ payload_len + 3 + n \in Nat /\ payload_len + 3 + n < Word
        /\ HeaderSize + (payload_len + 3 + n) <= MaxFrameSize
    BY SMT DEF FrameInv, Fits, NewLen, HeaderSize, MaxFrameSize, Word
  <1>2. QED
    BY <1>1, SmallRemainder DEF NewLen

\* Building, sending and parsing keep the account of the lengths.
LEMMA FrameStep == FrameInv /\ [FrameNext]_frameVars => FrameInv'
  <1> SUFFICES ASSUME FrameInv, [FrameNext]_frameVars PROVE FrameInv'
    OBVIOUS
  <1>1. ASSUME NEW n \in Nat, AddTlv(n) PROVE FrameInv'
    <2>1. /\ payload_len' = payload_len + 3 + n /\ payload_len' < Word
          /\ HeaderSize + payload_len' <= MaxFrameSize
      BY <1>1, Added DEF AddTlv
    <2>2. QED
      BY <1>1, <2>1, SMT DEF AddTlv, FrameInv
  <1>2. CASE Serialize
    BY <1>2, SMT DEF Serialize, FrameInv
  <1>3. CASE ParseHeader
    <2>1. Ntohs(payload_len) \in Nat /\ Ntohs(payload_len) < Word
      BY <1>3, NtohsFacts DEF FrameInv
    <2>2. CASE Ntohs(payload_len) = payload_len
      <3>1. /\ payload_len = body /\ payload_len' = body /\ left' = body
            /\ Ntohs(body) = body /\ skipped = 0
        BY <1>3, <2>2 DEF ParseHeader, FrameInv
      <3>2. QED
        BY <1>3, <2>2, <3>1, SMT DEF ParseHeader, FrameInv
    <2>3. CASE Ntohs(payload_len) # payload_len
      BY <1>3, <2>1, <2>3, SMT DEF ParseHeader, FrameInv
    <2>4. QED
      BY <2>2, <2>3
  <1>4. ASSUME NEW n \in Nat, ParseTlv(n) PROVE FrameInv'
    <2>1. CASE Fits(n)
      <3>1. /\ payload_len' = payload_len + 3 + n /\ payload_len' < Word
            /\ HeaderSize + payload_len' <= MaxFrameSize
        BY <1>4, <2>1, Added DEF ParseTlv
      <3>2. QED
        BY <1>4, <2>1, <3>1, SMT DEF ParseTlv, FrameInv
    <2>2. CASE ~Fits(n)
      BY <1>4, <2>2, SMT DEF ParseTlv, FrameInv
    <2>3. QED
      BY <2>1, <2>2
  <1>5. ASSUME NEW n \in Nat, ParseUnknown(n) PROVE FrameInv'
    BY <1>5, SMT DEF ParseUnknown, FrameInv
  <1>6. CASE ParseBroken
    BY <1>6, SMT DEF ParseBroken, FrameInv
  <1>7. CASE Validate
    BY <1>7, SMT DEF Validate, FrameInv
  <1>8. CASE UNCHANGED frameVars
    BY <1>8, SMT DEF frameVars, FrameInv
  <1>9. \A n \in TlvSizes : n \in Nat
    <2>1. Word - 1 \in Int
      BY SMT DEF Word
    <2>2. \A n \in 0..(Word - 1) : n \in Nat
      BY <2>1, SMT
    <2>3. QED
      BY <2>2, LogFrameAssumption
  <1>10. QED
    BY <1>1, <1>2, <1>3, <1>4, <1>5, <1>6, <1>7, <1>8, <1>9 DEF FrameNext

\* log_frame_parse (log_protocol.c:336) accepts what log_frame_serialize made
\* only if its length is the same in both byte orders and fits in twice; the
\* client and the server of m_log can talk at all only under this condition.
THEOREM FramesRarelyAccepted == FrameSpec => []AcceptedLengths
  <1>1. FrameInit => FrameInv
    BY SMT DEF FrameInit, FrameInv, HeaderSize, MaxFrameSize, Word
  <1>2. FrameInv => AcceptedLengths
    <2> SUFFICES ASSUME FrameInv, stage = "accepted"
                 PROVE  /\ BigEndian = TRUE \/ (body % 256 = body \div 256 /\ body >= 257)
                        /\ payload_len = 2 * body - skipped
                        /\ HeaderSize + payload_len <= MaxFrameSize
      BY DEF AcceptedLengths
    <2>1. body \in Nat /\ body < Word /\ body > 0 /\ Ntohs(body) = body
      BY SMT DEF FrameInv, HeaderSize, MaxFrameSize, Word
    <2>2. BigEndian = TRUE \/ body % 256 = body \div 256
      BY <2>1, NtohsFacts
    <2>3. body % 256 = body \div 256 => body >= 257
      <3>1. PICK lo, hi \in Nat : /\ lo < 256 /\ hi < 256 /\ body = 256 * hi + lo
                                  /\ lo = body % 256 /\ hi = body \div 256
        BY <2>1, TwoBytes
      <3>2. lo = hi => body >= 257
        BY <2>1, <3>1, SMT
      <3>3. QED
        BY <3>1, <3>2
    <2>4. payload_len = 2 * body - skipped /\ HeaderSize + payload_len <= MaxFrameSize
      BY SMT DEF FrameInv
    <2>5. QED
      BY <2>2, <2>3, <2>4
  <1>3. QED
    BY <1>1, <1>2, FrameStep, PTL DEF FrameSpec
-----------------------------------------------------------------------------
(* The rate limit.                                                         *)

\* The time remembered for an address is the time it was last let in.
LEMMA RateStep == RateInv /\ [RateNext]_rateVars => RateInv'
  <1> SUFFICES ASSUME RateInv, [RateNext]_rateVars PROVE RateInv'
    OBVIOUS
  <1>1. ASSUME NEW t \in Times, SetClock(t) PROVE RateInv'
    BY <1>1, RateLimitAssumption DEF SetClock, RateInv, Remembered
  <1>2. ASSUME NEW ip \in Ips, Allow(ip) PROVE RateInv'
    <2>1. Slot(ip) \in Slots
      BY DEF Slots
    <2>2. ASSUME NEW other \in Ips, Remembered(other)'
          PROVE  granted'[other] = last_access'[Slot(other)]
      <3>1. Slot(other) \in Slots
        BY DEF Slots
      <3>2. CASE other = ip
        BY <1>2, <2>1, <3>2 DEF Allow, RateInv
      <3>3. CASE other # ip
        <4>1. Slot(other) # Slot(ip)
          BY <1>2, <2>1, <2>2, <3>3 DEF Allow, RateInv, Remembered
        <4>2. Remembered(other)
          BY <1>2, <2>2, <3>1, <4>1 DEF Allow, RateInv, Remembered
        <4>3. QED
          BY <1>2, <2>1, <3>1, <3>3, <4>1, <4>2 DEF Allow, RateInv
      <3>4. QED
        BY <3>2, <3>3
    <2>3. QED
      BY <1>2, <2>1, <2>2 DEF Allow, RateInv
  <1>3. ASSUME NEW ip \in Ips, Deny(ip) PROVE RateInv'
    BY <1>3 DEF Deny, rateVars, RateInv, Remembered
  <1>4. CASE UNCHANGED rateVars
    BY <1>4 DEF rateVars, RateInv, Remembered
  <1>5. QED
    BY <1>1, <1>2, <1>3, <1>4 DEF RateNext

\* check_rate_limit (lucpd_utils.c:98) keeps an address out for
\* RATE_LIMIT_SECONDS as long as it is the one its hash value remembers.
THEOREM RateIsLimited == RateSpec => GrantsSpaced
  <1>1. RateInit => RateInv
    <2> SUFFICES ASSUME RateInit PROVE RateInv
      OBVIOUS
    <2>1. \A ip \in Ips : ~Remembered(ip)
      BY RateLimitAssumption DEF RateInit, Remembered, Slots
    <2>2. now \in Int /\ last_access \in [Slots -> Int] /\ granted \in [Ips -> Int]
      BY RateLimitAssumption DEF RateInit
    <2>3. QED
      BY <2>1, <2>2 DEF RateInit, RateInv
  <1>2. RateInv /\ [RateNext]_rateVars =>
          [\A ip \in Ips : granted'[ip] # granted[ip] /\ Remembered(ip)
              => granted'[ip] - granted[ip] >= RateLimitSeconds]_rateVars
    <2> SUFFICES ASSUME RateInv, RateNext, NEW ip \in Ips,
                        granted'[ip] # granted[ip], Remembered(ip)
                 PROVE  granted'[ip] - granted[ip] >= RateLimitSeconds
      OBVIOUS
    <2>1. PICK who \in Ips : Allow(who)
      BY DEF RateNext, SetClock, Deny, rateVars
    <2>2. who = ip
      BY <2>1 DEF Allow, RateInv
    <2>3. granted'[ip] = now /\ ~TooSoon(ip) /\ granted[ip] = last_access[Slot(ip)]
      BY <2>1, <2>2 DEF Allow, RateInv
    <2>4. last_access[Slot(ip)] \in Int /\ now \in Int
      BY DEF RateInv, Slots
    <2>5. QED
      BY <2>3, <2>4 DEF TooSoon, RateLimitSeconds
  <1>3. RateInv /\ [RateNext]_rateVars => RateInv'
    BY RateStep
  <1>4. QED
    BY <1>1, <1>2, <1>3, PTL DEF RateSpec, GrantsSpaced
-----------------------------------------------------------------------------
(* The demo server.                                                        *)

\* Appending keeps what is there and adds the element at the end.
LEMMA AppendFacts ==
    ASSUME NEW S, NEW q \in Seq(S), NEW e \in S
    PROVE  /\ Append(q, e) \in Seq(S)
           /\ Len(Append(q, e)) = Len(q) + 1
           /\ Append(q, e)[Len(q) + 1] = e
           /\ \A j \in 1..Len(q) : Append(q, e)[j] = q[j]
  OBVIOUS

\* A reply that is sent is added to the history, or the process ends.
LEMMA SendFacts ==
    ASSUME ServerTypeOK, NEW type \in {"ACK_START", "NOTIFY_DONE"},
           NEW seq \in {f.seq : f \in PeerFrames}, NEW status \in PrepOutcomes,
           NEW next, ServerSend(type, seq, status, next)
    PROVE  /\ sent' \in Seq(Replied) /\ speer' \in ServerPeer
           /\ \/ /\ spc' = "sigpipe" /\ speer = "rst" /\ UNCHANGED <<speer, sent>>
              \/ /\ spc' = next /\ Len(sent') = Len(sent) + 1 /\ speer # "rst"
                 /\ sent'[Len(sent) + 1].written \/ speer' = "rst"
                 /\ sent'[Len(sent) + 1].type = type
                 /\ sent'[Len(sent) + 1].seq = seq
                 /\ sent'[Len(sent) + 1].status = status
                 /\ \A j \in 1..Len(sent) : sent'[j] = sent[j]
  <1> DEFINE reply == [type |-> type, seq |-> seq, status |-> status,
                       written |-> speer # "reset"]
  <1>1. reply \in Replied
    BY DEF Replied
  <1>2. /\ reply.type = type /\ reply.seq = seq /\ reply.status = status
        /\ reply.written \/ speer = "reset"
    OBVIOUS
  <1>3. sent \in Seq(Replied) /\ speer \in ServerPeer
    BY DEF ServerTypeOK
  <1>4. CASE speer = "rst"
    BY <1>3, <1>4 DEF ServerSend
  <1>5. CASE speer # "rst"
    <2>1. /\ sent' = Append(sent, reply) /\ spc' = next /\ speer' \in ServerPeer
          /\ speer = "reset" => speer' = "rst"
      BY <1>3, <1>5 DEF ServerSend, ServerPeer
    <2> HIDE DEF reply
    <2>2. QED
      BY <1>1, <1>2, <1>3, <1>5, <2>1, AppendFacts
  <1>6. QED
    BY <1>4, <1>5

\* A frame that is taken is the one main waits for.
LEMMA TakeFacts ==
    ASSUME ServerTypeOK, RecvAwaited
    PROVE  /\ sin' \in Seq(PeerFrames) /\ taken' \in Seq(PeerFrames)
           /\ Head(sin) \in PeerFrames
           /\ Len(taken') = Len(taken) + 1
           /\ taken'[Len(taken) + 1] = Head(sin)
           /\ Head(sin).type = Awaited[spc]
           /\ \A j \in 1..Len(taken) : taken'[j] = taken[j]
  <1>1. sin \in Seq(PeerFrames) /\ taken \in Seq(PeerFrames) /\ sin # <<>>
    BY DEF ServerTypeOK, RecvAwaited
  <1>2. Head(sin) \in PeerFrames /\ Tail(sin) \in Seq(PeerFrames)
    BY <1>1
  <1>3. QED
    BY <1>1, <1>2, AppendFacts DEF RecvAwaited

\* Every step of the server and of its client keeps the invariant.
LEMMA ServerStep == ServerInv /\ [ServerNext]_serverVars => ServerInv'
  <1> SUFFICES ASSUME ServerInv, [ServerNext]_serverVars PROVE ServerInv'
    OBVIOUS
  <1>0. /\ ServerTypeOK /\ AnswersItsRequest
        /\ Len(taken) \in Nat /\ Len(sent) \in Nat
    BY DEF ServerInv, ServerTypeOK
  <1>1. ASSUME NEW f \in PeerFrames, PeerSends(f) PROVE ServerInv'
    <2>1. sin' \in Seq(PeerFrames)
      BY <1>0, <1>1, AppendFacts DEF PeerSends, ServerTypeOK
    <2>2. QED
      BY <1>1, <2>1 DEF PeerSends, ServerInv, ServerTypeOK, AnswersItsRequest
  <1>2. CASE PeerCloses
    BY <1>2 DEF PeerCloses, ServerInv, ServerTypeOK, AnswersItsRequest, ServerPeer
  <1>3. CASE ServerStart
    BY <1>3 DEF ServerStart, ServerInv, ServerTypeOK, AnswersItsRequest, Progress
  <1>4. CASE ServerRequest
    <2>1. Len(taken) = 0 /\ Len(sent) = 0 /\ spc = "request"
      BY <1>4 DEF ServerRequest, ServerInv, Progress
    <2>2. /\ sin' \in Seq(PeerFrames) /\ taken' \in Seq(PeerFrames)
          /\ Head(sin) \in PeerFrames
          /\ Len(taken') = 1 /\ taken'[1] = Head(sin)
          /\ Head(sin).type = "UPLOAD_REQUEST"
      BY <1>0, <1>4, <2>1, TakeFacts DEF ServerRequest, Awaited
    <2>3. speer # "rst"
      BY <2>1 DEF ServerInv
    <2>4. /\ sent' \in Seq(Replied) /\ speer' \in ServerPeer
          /\ spc' = "prep" /\ Len(sent') = 1
          /\ sent'[1].type = "ACK_START" /\ sent'[1].status = "SUCCESS"
          /\ sent'[1].seq = Head(sin).seq
          /\ sent'[1].written \/ speer' = "rst"
      <3>1. /\ ServerSend("ACK_START", Head(sin).seq, "SUCCESS", "prep")
            /\ Head(sin).seq \in {f.seq : f \in PeerFrames} /\ "SUCCESS" \in PrepOutcomes
        BY <1>4, <2>2 DEF ServerRequest, PrepOutcomes
      <3>2. QED
        BY <1>0, <2>1, <2>3, <3>1, SendFacts
    <2>5. QED
      BY <2>2, <2>4 DEF ServerInv, ServerTypeOK, AnswersItsRequest, Progress
  <1>5. ASSUME NEW status \in PrepOutcomes, ServerNotify(status) PROVE ServerInv'
    <2>1. /\ Len(taken) = 1 /\ Len(sent) = 1
          /\ ServerSend("NOTIFY_DONE", taken[1].seq, status, "login")
      BY <1>5 DEF ServerNotify, ServerInv, Progress
    <2>2. taken[1].seq \in {f.seq : f \in PeerFrames}
      <3>1. taken[1] \in PeerFrames
        <4>1. taken \in Seq(PeerFrames)
          BY <1>0 DEF ServerTypeOK
        <4>2. QED
          BY <2>1, <4>1
      <3>2. QED
        BY <3>1
    <2>3. /\ sent' \in Seq(Replied) /\ speer' \in ServerPeer
          /\ \/ spc' = "sigpipe" /\ UNCHANGED <<speer, sent>>
             \/ /\ spc' = "login" /\ Len(sent') = 2 /\ sent'[1] = sent[1]
                /\ speer # "rst"
                /\ sent'[2].written \/ speer' = "rst"
                /\ sent'[2].type = "NOTIFY_DONE" /\ sent'[2].seq = taken[1].seq
      BY <1>0, <2>1, <2>2, SendFacts
    <2>4. sin' = sin /\ taken' = taken
      BY <1>5 DEF ServerNotify
    <2>5. ServerTypeOK'
      BY <1>0, <2>3, <2>4 DEF ServerTypeOK, Progress
    <2>6. CASE spc' = "sigpipe" /\ UNCHANGED <<speer, sent>>
      <3>1. sent' = sent /\ speer' = speer
        BY <2>6
      <3>2. AnswersItsRequest'
        BY <1>0, <2>4, <3>1 DEF AnswersItsRequest
      <3>3. Len(sent') >= 1
        BY <2>1, <3>1
      <3>4. spc' \notin DOMAIN Progress
        BY <2>6 DEF Progress
      <3>5. QED
        BY <2>5, <3>2, <3>3, <3>4 DEF ServerInv
    <2>7. CASE /\ spc' = "login" /\ Len(sent') = 2 /\ sent'[1] = sent[1]
               /\ speer # "rst"
               /\ sent'[2].written \/ speer' = "rst"
               /\ sent'[2].type = "NOTIFY_DONE" /\ sent'[2].seq = taken[1].seq
      <3>1. Len(taken') = 1 /\ Len(sent') = 2 /\ taken'[1] = taken[1]
        BY <2>1, <2>4, <2>7
      <3>2. /\ taken[1].type = "UPLOAD_REQUEST"
            /\ sent[1].type = "ACK_START" /\ sent[1].status = "SUCCESS"
            /\ sent[1].seq = taken[1].seq
            /\ sent[1].written \/ speer = "rst"
        BY <1>0, <2>1 DEF AnswersItsRequest
      <3>3. AnswersItsRequest'
        BY <2>7, <3>1, <3>2 DEF AnswersItsRequest
      <3>4. <<Len(taken'), Len(sent')>> = Progress[spc']
        BY <2>7, <3>1 DEF Progress
      <3>5. QED
        BY <2>5, <3>1, <3>3, <3>4 DEF ServerInv
    <2>8. QED
      BY <2>3, <2>6, <2>7
  <1>6. CASE ServerResult
    <2>1. /\ Len(sent) = 2 /\ UNCHANGED <<speer, sent>>
          /\ \/ spc = "login" /\ Len(taken) = 1 /\ spc' = "download"
             \/ spc = "download" /\ Len(taken) = 2 /\ spc' = "close"
      <3>1. CASE spc = "login"
        BY <1>6, <3>1 DEF ServerResult, ServerInv, Progress
      <3>2. CASE spc = "download"
        BY <1>6, <3>2 DEF ServerResult, ServerInv, Progress
      <3>3. QED
        BY <1>6, <3>1, <3>2 DEF ServerResult
    <2>2. /\ sin' \in Seq(PeerFrames) /\ taken' \in Seq(PeerFrames)
          /\ Len(taken') = Len(taken) + 1
          /\ taken'[Len(taken) + 1].type = Awaited[spc]
          /\ \A j \in 1..Len(taken) : taken'[j] = taken[j]
      BY <1>0, <1>6, TakeFacts DEF ServerResult
    <2>3. ServerTypeOK'
      BY <1>0, <2>1, <2>2 DEF ServerTypeOK, Progress
    <2>4. /\ sent' = sent /\ speer' = speer
          /\ taken[1].type = "UPLOAD_REQUEST"
          /\ sent[1].type = "ACK_START" /\ sent[1].status = "SUCCESS"
          /\ sent[1].seq = taken[1].seq
          /\ sent[2].type = "NOTIFY_DONE" /\ sent[2].seq = taken[1].seq
          /\ sent[1].written \/ speer = "rst"
          /\ sent[2].written \/ speer = "rst"
      BY <1>0, <2>1 DEF AnswersItsRequest
    <2>5. CASE spc = "login"
      <3>1. /\ Len(taken') = 2 /\ Len(sent') = 2 /\ spc' = "download"
            /\ taken'[1] = taken[1] /\ taken'[2].type = "FTP_LOGIN_RESULT"
        <4>1. Len(taken) = 1 /\ spc' = "download"
          BY <2>1, <2>5
        <4>2. 1 \in 1..Len(taken) /\ Awaited[spc] = "FTP_LOGIN_RESULT"
          BY <2>5, <4>1 DEF Awaited
        <4>3. taken'[1] = taken[1] /\ taken'[2].type = "FTP_LOGIN_RESULT" /\ Len(taken') = 2
          BY <2>2, <4>1, <4>2
        <4>4. QED
          BY <2>1, <2>4, <4>1, <4>3
      <3>2. AnswersItsRequest'
        BY <2>4, <3>1 DEF AnswersItsRequest
      <3>3. <<Len(taken'), Len(sent')>> = Progress[spc']
        BY <3>1 DEF Progress
      <3>4. QED
        BY <2>3, <3>1, <3>2, <3>3 DEF ServerInv
    <2>6. CASE spc = "download"
      <3>1. /\ Len(taken') = 3 /\ Len(sent') = 2 /\ spc' = "close"
            /\ taken'[1] = taken[1] /\ taken'[2] = taken[2]
            /\ taken'[3].type = "FTP_DOWNLOAD_RESULT"
        <4>1. Len(taken) = 2 /\ spc' = "close"
          BY <2>1, <2>6
        <4>2. /\ 1 \in 1..Len(taken) /\ 2 \in 1..Len(taken)
              /\ Awaited[spc] = "FTP_DOWNLOAD_RESULT"
          BY <2>6, <4>1 DEF Awaited
        <4>3. /\ taken'[1] = taken[1] /\ taken'[2] = taken[2] /\ Len(taken') = 3
              /\ taken'[3].type = "FTP_DOWNLOAD_RESULT"
          BY <2>2, <4>1, <4>2
        <4>4. QED
          BY <2>1, <2>4, <4>1, <4>3
      <3>2. taken[2].type = "FTP_LOGIN_RESULT"
        BY <1>0, <2>1, <2>6 DEF AnswersItsRequest
      <3>3. AnswersItsRequest'
        BY <2>4, <3>1, <3>2 DEF AnswersItsRequest
      <3>4. spc' \notin DOMAIN Progress
        BY <3>1 DEF Progress
      <3>5. QED
        BY <2>3, <3>1, <3>3, <3>4 DEF ServerInv
    <2>7. QED
      BY <2>1, <2>5, <2>6
  <1>7. CASE ServerGivesUp
    BY <1>7 DEF ServerGivesUp, ServerInv, ServerTypeOK, AnswersItsRequest, Progress
  <1>8. CASE ServerClose
    BY <1>8 DEF ServerClose, ServerInv, ServerTypeOK, AnswersItsRequest, Progress
  <1>9. CASE UNCHANGED serverVars
    BY <1>9 DEF serverVars, ServerInv, ServerTypeOK, AnswersItsRequest
  <1>10. QED
    BY <1>1, <1>2, <1>3, <1>4, <1>5, <1>6, <1>7, <1>8, <1>9 DEF ServerNext

\* The demo server (lucp_server_demo.c:71-97) answers one request, with its
\* number, however many frames of whatever kind its client sends.
THEOREM ServerAnswersOnce == ServerSpec => []AnswersItsRequest
  <1>1. ServerInit => ServerInv
    BY DEF ServerInit, ServerInv, ServerTypeOK, AnswersItsRequest, Progress, ServerPeer
  <1>2. ServerInv => AnswersItsRequest
    BY DEF ServerInv
  <1>3. QED
    BY <1>1, <1>2, ServerStep, PTL DEF ServerSpec
-----------------------------------------------------------------------------
(* The retries of a request.                                               *)

\* The calls that have returned are those before the current one.
RetryInv ==
    /\ call \in Nat
    /\ results \in Seq([ok : BOOLEAN, seq : Nat])
    /\ Len(results) = IF rpc = "idle" THEN call ELSE call - 1
    /\ rpc # "idle" => call > 0
    /\ OwnReply

\* A call that returns nothing, or the frame with its own number, keeps it.
LEMMA ReturnKeepsInv ==
    ASSUME RetryInv, rpc # "idle", call' = call, NEW ok \in BOOLEAN, NEW seq \in Nat,
           Return(ok, seq), ok => seq = call
    PROVE  RetryInv'
  <1> DEFINE r == [ok |-> ok, seq |-> seq]
  <1>1. /\ call \in Nat /\ call > 0 /\ Len(results) = call - 1
        /\ results \in Seq([ok : BOOLEAN, seq : Nat]) /\ OwnReply
    BY DEF RetryInv
  <1>2. results' = Append(results, r) /\ rpc' = "idle"
    BY DEF Return
  <1>3. r \in [ok : BOOLEAN, seq : Nat] /\ r.ok = ok /\ r.seq = seq
    BY Zenon
  <1> HIDE DEF r
  <1>4. /\ results' \in Seq([ok : BOOLEAN, seq : Nat])
        /\ Len(results') = Len(results) + 1 /\ Len(results) \in Nat
        /\ results'[Len(results) + 1] = r
        /\ \A k \in 1..Len(results) : results'[k] = results[k]
        /\ DOMAIN results' = 1..(Len(results) + 1) /\ DOMAIN results = 1..Len(results)
    BY <1>1, <1>2, <1>3
  <1>5. Len(results') = call /\ results'[call] = r
    BY <1>1, <1>4
  <1>6. ASSUME NEW k \in DOMAIN results', results'[k].ok PROVE results'[k].seq = k
    <2>1. CASE k = call
      BY <1>3, <1>5, <1>6, <2>1
    <2>2. CASE k # call
      <3>1. k \in 1..Len(results)
        BY <1>1, <1>4, <2>2
      <3>2. results'[k] = results[k] /\ k \in DOMAIN results
        BY <1>4, <3>1
      <3>3. QED
        BY <1>1, <1>6, <3>2 DEF OwnReply
    <2>3. QED
      BY <2>1, <2>2
  <1>7. QED
    BY <1>1, <1>2, <1>4, <1>5, <1>6 DEF RetryInv, OwnReply

\* Every step of the caller, of the peer and of a signal keeps it.
LEMMA RetryStep == RetryInv /\ [RetryNext]_retryVars => RetryInv'
  <1> SUFFICES ASSUME RetryInv, [RetryNext]_retryVars PROVE RetryInv'
    OBVIOUS
  <1>1. ASSUME call' = call, results' = results, rpc' = "idle" <=> rpc = "idle"
        PROVE  RetryInv'
    BY <1>1 DEF RetryInv, OwnReply
  <1>2. CASE Call
    <2>1. call' = call + 1 /\ results' = results /\ rpc = "idle" /\ rpc' = "attempt"
      BY <1>2 DEF Call
    <2>2. QED
      BY <2>1 DEF RetryInv, OwnReply
  <1>3. ASSUME NEW f, rpc = "recv", Judge(f), call' = call PROVE RetryInv'
    <2>1. CASE Matches(f)
      <3>1. Return(TRUE, f.seq) /\ f.seq = call /\ call \in Nat
        BY <1>3, <2>1 DEF Judge, Matches, RetryInv
      <3>2. QED
        BY <1>3, <3>1, ReturnKeepsInv
    <2>2. CASE ~Matches(f)
      BY <1>1, <1>3, <2>2 DEF Judge, NextAttempt
    <2>3. QED
      BY <2>1, <2>2
  <1>4. CASE GiveUp
    <2>1. rpc = "attempt" /\ Return(FALSE, 0) /\ call' = call
      BY <1>4 DEF GiveUp
    <2>2. QED
      BY <2>1, ReturnKeepsInv
  <1>5. CASE RecvBuffered
    BY <1>3, <1>5 DEF RecvBuffered
  <1>6. ASSUME NEW n, RecvRead(n) PROVE RetryInv'
    BY <1>3, <1>6 DEF RecvRead
  <1>7. CASE SendRequest \/ SendFails \/ SendKilled \/ SelectReady \/ SelectTimeout
             \/ RecvPart \/ RecvClosed \/ SelectInterrupted
    <2>1. call' = call /\ results' = results
      BY <1>7 DEF SendRequest, SendFails, SendKilled, SelectReady, SelectTimeout, RecvPart,
                  RecvClosed, SelectInterrupted, histories
    <2>2. rpc' # "idle" /\ rpc # "idle"
      BY <1>7 DEF SendRequest, SendFails, SendKilled, SelectReady, SelectTimeout, RecvPart,
                  RecvClosed, SelectInterrupted, NextAttempt
    <2>3. QED
      BY <1>1, <2>1, <2>2
  <1>8. CASE (\E kind \in BOOLEAN : PeerAnswer(kind)) \/ PeerBegin \/ PeerIgnore \/ PeerClose
    BY <1>1, <1>8 DEF PeerAnswer, PeerBegin, PeerIgnore, PeerClose, PeerStep, histories
  <1>9. CASE UNCHANGED retryVars
    BY <1>1, <1>9 DEF retryVars, histories
  <1>10. QED
    BY <1>2, <1>4, <1>5, <1>6, <1>7, <1>8, <1>9 DEF RetryNext, Caller

\* A call that succeeds returns the reply to its own request, with any number
\* of calls and retries before it.
THEOREM RetryReturnsOwnReply == RetrySpec => []OwnReply
  <1>1. RetryInit => RetryInv
    BY DEF RetryInit, RetryInv, OwnReply
  <1>2. RetryInv => OwnReply
    BY DEF RetryInv
  <1>3. QED
    BY <1>1, <1>2, RetryStep, PTL DEF RetrySpec
-----------------------------------------------------------------------------
(* The configuration files.                                                *)

Values == [kind : ValueKinds, n : Int]

\* What lucfg_open returns for a file it accepts.
LEMMA OpenedFile ==
    ASSUME NEW f, NEW h \in Open(f), h.open
    PROVE  DOMAIN h.table = DOMAIN f /\ \A k \in DOMAIN f : h.table[k] \in ParseValue(f[k])
  <1>1. NoHandle.open = FALSE
    BY DEF NoHandle
  <1>2. PICK t \in [DOMAIN f -> UNION {ParseValue(f[k]) : k \in DOMAIN f}] :
          h = Handle(t) /\ \A k \in DOMAIN f : t[k] \in ParseValue(f[k])
    BY <1>1 DEF Open
  <1>3. h.table = t
    BY <1>2 DEF Handle
  <1>4. QED
    BY <1>2, <1>3

\* The entries of a value.
LEMMA EntryFacts ==
    ASSUME NEW v \in Values, NEW e \in ParseValue(v)
    PROVE  /\ e.form \in {"expr", "int", "str"} /\ e.n \in Int
           /\ e.form = "int" => v.kind = "quoted" /\ e.n = 0
           /\ e.form = "expr" => v.kind = "quoted" \/ (v.kind = "number" /\ e.n = v.n)
           /\ e.form = "str" => v.kind = "quoted" \/ e.string = v.kind
           /\ e.string = "off" => v.kind = "off"
           /\ e.form # "str" => e.string = "number"
  <1>1. CASE v.kind = "number"
    <2>1. e = Entry("expr", v)
      BY <1>1 DEF ParseValue
    <2>2. QED
      BY <1>1, <2>1 DEF Entry, Values
  <1>2. CASE v.kind = "quoted"
    <2>1. e \in {Entry("str", Text), Entry("int", Number(0)), Entry("expr", Number(0)),
                 Entry("expr", Number(1))}
      BY <1>2 DEF ParseValue
    <2>2. QED
      BY <1>2, <2>1 DEF Entry, Text, Number, Value
  <1>3. CASE v.kind \notin {"number", "quoted"}
    <2>1. e = Entry("str", v)
      BY <1>3 DEF ParseValue
    <2>2. QED
      BY <1>3, <2>1 DEF Entry, Values
  <1>4. QED
    BY <1>1, <1>2, <1>3

\* lucfg_get_int32 and lucfg_get_uint16 succeed for a lost quoted value only,
\* and it is 0.
LEMMA NarrowFacts ==
    ASSUME NEW f, \A k \in DOMAIN f : f[k] \in Values, NEW h \in Open(f), h.open,
           NEW k, NEW lo \in Int, NEW hi \in Int, GetNarrow(h, k, lo, hi).rc = "OK"
    PROVE  k \in DOMAIN f /\ f[k].kind = "quoted" /\ GetNarrow(h, k, lo, hi).out = 0
  <1>1. DOMAIN h.table = DOMAIN f /\ \A j \in DOMAIN f : h.table[j] \in ParseValue(f[j])
    BY OpenedFile
  <1>2. k \in DOMAIN f
    BY <1>1 DEF GetNarrow, Err
  <1>3. h.table[k].form = "int" /\ GetNarrow(h, k, lo, hi) = CheckRange(h.table[k].n, lo, hi)
    BY <1>1, <1>2 DEF GetNarrow, Err
  <1>4. f[k].kind = "quoted" /\ h.table[k].n = 0
    BY <1>1, <1>2, <1>3, EntryFacts
  <1>5. GetNarrow(h, k, lo, hi).out = 0
    BY <1>3, <1>4 DEF CheckRange, Ok, Err
  <1>6. QED
    BY <1>2, <1>4, <1>5
-----------------------------------------------------------------------------
(* The start of the FTP daemon.                                            *)

\* What is not a default was set by the file.
SetBy(c, f) == \A k \in DOMAIN FtpDefaults : c[k] # FtpDefaults[k] => k \in DOMAIN f

LEMMA FtpLoadFacts ==
    ASSUME NEW f, NEW h \in Open(f)
    PROVE  SetBy(FtpLoad(h), f)
  <1> SUFFICES ASSUME NEW k \in DOMAIN FtpDefaults, k \notin DOMAIN f
               PROVE  FtpLoad(h)[k] = FtpDefaults[k]
    BY DEF SetBy
  <1>1. CASE ~h.open
    BY <1>1 DEF FtpLoad
  <1>2. CASE h.open
    <2>1. k \notin DOMAIN h.table
      BY <1>2, OpenedFile
    <2>2. /\ GetUint16(h, k).rc # "OK" /\ GetInt32(h, k).rc # "OK"
          /\ GetString(h, k).rc # "OK"
      BY <2>1 DEF GetUint16, GetInt32, GetNarrow, GetString, Err
    <2>3. FtpLoad(h) = FtpSettings(h) /\ "port" \notin FtpStrings
      BY <1>2 DEF FtpLoad, FtpStrings
    <2>4. CASE k = "port"
      <3>1. FtpSettings(h)[k] = IF GetUint16(h, k).rc # "OK" THEN FtpDefaults[k]
                                ELSE GetUint16(h, k).out
        BY <2>3, <2>4 DEF FtpSettings
      <3>2. QED
        BY <2>2, <2>3, <3>1
    <2>5. CASE k \in FtpStrings
      <3>1. FtpSettings(h)[k] = IF GetString(h, k).rc # "OK" THEN FtpDefaults[k]
                                ELSE "pointer"
        BY <2>3, <2>5 DEF FtpSettings
      <3>2. QED
        BY <2>2, <2>3, <3>1
    <2>6. CASE k # "port" /\ k \notin FtpStrings
      <3>1. FtpSettings(h)[k] = IF GetInt32(h, k).rc # "OK" THEN FtpDefaults[k]
                                ELSE GetInt32(h, k).out
        BY <2>6 DEF FtpSettings
      <3>2. QED
        BY <2>2, <2>3, <3>1
    <2>7. QED
      BY <2>4, <2>5, <2>6
  <1>3. QED
    BY <1>1, <1>2

\* Whatever the two files are, the FTP daemon runs with settings that come from
\* /etc/luftpd.conf or are defaults, and nothing of main's file is left.
THEOREM FtpServesOneFile == FtpSpec => []ServedFromOneFile
  <1>1. FtpInit => ServedFromOneFile
    BY DEF FtpInit, ServedFromOneFile
  <1>2. ServedFromOneFile /\ [FtpNext]_ftpVars => ServedFromOneFile'
    <2> SUFFICES ASSUME ServedFromOneFile, [FtpNext]_ftpVars PROVE ServedFromOneFile'
      OBVIOUS
    <2>1. ASSUME NEW h \in Open(argFile), MainLoad(h) PROVE ServedFromOneFile'
      BY <2>1 DEF MainLoad, ServedFromOneFile
    <2>2. ASSUME NEW h \in Open(etcFile), ServerLoad(h) PROVE ServedFromOneFile'
      <3>1. etcFile' = etcFile /\ g_luftpd_config' = FtpLoad(h)
        BY <2>2 DEF ServerLoad
      <3>2. SetBy(FtpLoad(h), etcFile)
        BY FtpLoadFacts
      <3>3. QED
        BY <3>1, <3>2 DEF SetBy, ServedFromOneFile
    <2>3. CASE FtpListen \/ UNCHANGED ftpVars
      <3>1. /\ etcFile' = etcFile /\ g_luftpd_config' = g_luftpd_config
            /\ fpc' \in {"bind", "serving"} => fpc \in {"bind", "serving"}
        BY <2>3 DEF FtpListen, ftpVars
      <3>2. QED
        BY <3>1 DEF ServedFromOneFile
    <2>4. QED
      BY <2>1, <2>2, <2>3 DEF FtpNext
  <1>3. QED
    BY <1>1, <1>2, PTL DEF FtpSpec
-----------------------------------------------------------------------------
(* The start of the LUCP daemon.                                           *)

\* The settings a file leads to: its numbers are the defaults, a switch is
\* off only if the file says so or a quoted value was lost.
NumbersKept(c) == \A k \in DOMAIN NumberDefaults : c[k] = NumberDefaults[k]
SwitchesFrom(c, f) ==
    \A k \in SwitchKeys :
        /\ c[k] \in 0..1
        /\ c[k] = 0 =>
             k \in DOMAIN f /\ (f[k].kind \in {"off", "quoted"} \/ f[k] = Number(0))

\* The ports that the settings can have without the command line.
FilePorts == {32100, 0}

LEMMA NumberKeys ==
    ASSUME NEW k \in DOMAIN NumberDefaults
    PROVE  /\ k \in DOMAIN Defaults /\ k # "port" /\ k \notin SwitchKeys
           /\ k \notin StringKeys /\ Defaults[k] = NumberDefaults[k]
           /\ k \in DOMAIN Limits /\ 0 \notin Limits[k]
  <1>1. k \in {"max_clients", "recv_timeout_ms", "send_timeout_ms", "rate_limit_ms",
               "session_timeout_ms", "file_retention_min"}
    BY DEF NumberDefaults
  <1>2. k # "port" /\ k \notin SwitchKeys /\ k \notin StringKeys
    BY <1>1 DEF SwitchKeys, StringKeys
  <1>3. k \in DOMAIN Defaults /\ Defaults[k] = NumberDefaults[k]
    BY <1>2 DEF Defaults
  <1>4. DOMAIN Limits = DOMAIN NumberDefaults
    BY DEF Limits, NumberDefaults
  <1>5. 0 \notin Limits[k]
    <2>1. CASE k = "max_clients"
      BY <2>1 DEF Limits
    <2>2. CASE k = "recv_timeout_ms"
      BY <2>2 DEF Limits
    <2>3. CASE k = "send_timeout_ms"
      BY <2>3 DEF Limits
    <2>4. CASE k = "rate_limit_ms"
      BY <2>4 DEF Limits
    <2>5. CASE k = "session_timeout_ms"
      BY <2>5 DEF Limits
    <2>6. CASE k = "file_retention_min"
      BY <2>6 DEF Limits
    <2>7. QED
      BY <1>1, <2>1, <2>2, <2>3, <2>4, <2>5, <2>6
  <1>6. QED
    BY <1>2, <1>3, <1>4, <1>5

LEMMA OtherKeys ==
    /\ "port" \in DOMAIN Defaults /\ Defaults["port"] = 32100
    /\ "port" \notin DOMAIN Limits \cup SwitchKeys \cup StringKeys
    /\ \A k \in SwitchKeys :
         /\ k \in DOMAIN Defaults /\ Defaults[k] = 1 /\ k # "port"
         /\ k \notin DOMAIN Limits \cup StringKeys
  BY DEF Defaults, Limits, SwitchKeys, StringKeys

\* lucfg_get_bool returns 0 or 1, and 0 for the values that mean it.
LEMMA BoolFacts ==
    ASSUME NEW f, \A k \in DOMAIN f : f[k] \in Values, NEW h \in Open(f), h.open,
           NEW k, GetBool(h, k).rc = "OK"
    PROVE  /\ GetBool(h, k).out \in 0..1
           /\ GetBool(h, k).out = 0 =>
                k \in DOMAIN f /\ (f[k].kind \in {"off", "quoted"} \/ f[k] = Number(0))
  <1>1. DOMAIN h.table = DOMAIN f /\ \A j \in DOMAIN f : h.table[j] \in ParseValue(f[j])
    BY OpenedFile
  <1>2. k \in DOMAIN f
    BY <1>1 DEF GetBool, Err
  <1> DEFINE e == h.table[k]
  <1>3. /\ e.form \in {"expr", "int", "str"} /\ e.n \in Int
        /\ e.form = "int" => f[k].kind = "quoted" /\ e.n = 0
        /\ e.form = "expr" => f[k].kind = "quoted" \/ (f[k].kind = "number" /\ e.n = f[k].n)
        /\ e.string = "off" => f[k].kind = "off"
        /\ e.form # "str" => e.string = "number"
    BY <1>1, <1>2, EntryFacts
  <1>4. CASE e.form = "expr"
    <2>1. GetBool(h, k).out = IF e.n # 0 THEN 1 ELSE 0
      BY <1>1, <1>2, <1>3, <1>4 DEF GetBool, Ok
    <2>2. f[k].kind = "number" => f[k] = Number(f[k].n)
      BY <1>2 DEF Values, Number, Value
    <2>3. QED
      BY <1>2, <1>3, <1>4, <2>1, <2>2
  <1>5. CASE e.form = "int"
    <2>1. GetBool(h, k) = CheckRange(e.n, 0, 1)
      BY <1>1, <1>2, <1>3, <1>5 DEF GetBool
    <2>2. QED
      BY <1>2, <1>3, <1>5, <2>1 DEF CheckRange, Ok, Err
  <1>6. CASE e.form = "str"
    <2>1. GetBool(h, k) = CASE e.string = "on" -> Ok(1) [] e.string = "off" -> Ok(0)
                            [] OTHER -> Err("ERR_TYPE")
      BY <1>1, <1>2, <1>6 DEF GetBool
    <2>2. QED
      BY <1>2, <1>3, <2>1 DEF Ok, Err
  <1>7. QED
    BY <1>3, <1>4, <1>5, <1>6

LEMMA StartLoadFacts ==
    ASSUME NEW f \in LucpdFiles, NEW h \in Open(f)
    PROVE  /\ DOMAIN LoadWithFile(h) = DOMAIN Defaults
           /\ LoadWithFile(h)["port"] \in FilePorts
           /\ NumbersKept(LoadWithFile(h)) /\ SwitchesFrom(LoadWithFile(h), f)
  <1>1. \A k \in DOMAIN f : f[k] \in Values
    BY LucpdStartAssumption DEF Values
  <1>2. CASE ~h.open
    <2>1. LoadWithFile(h) = Defaults
      BY <1>2 DEF LoadWithFile
    <2>2. NumbersKept(Defaults)
      BY NumberKeys DEF NumbersKept
    <2>3. SwitchesFrom(Defaults, f)
      BY OtherKeys DEF SwitchesFrom
    <2>4. QED
      BY <2>1, <2>2, <2>3, OtherKeys DEF FilePorts
  <1>3. CASE h.open
    <2>1. DOMAIN LoadWithFile(h) = DOMAIN Defaults
      BY <1>3 DEF LoadWithFile
    <2>2. LoadWithFile(h)["port"] \in FilePorts
      <3>1. LoadWithFile(h)["port"] =
              IF GetNarrow(h, "port", 0, 65535).rc = "OK"
              THEN GetNarrow(h, "port", 0, 65535).out ELSE 32100
        BY <1>3, OtherKeys DEF LoadWithFile, GetUint16
      <3>2. QED
        BY <1>1, <1>3, <3>1, NarrowFacts DEF FilePorts
    <2>3. NumbersKept(LoadWithFile(h))
      <3> SUFFICES ASSUME NEW k \in DOMAIN NumberDefaults
                   PROVE  LoadWithFile(h)[k] = NumberDefaults[k]
        BY DEF NumbersKept
      <3> DEFINE got == GetNarrow(h, k, -2147483647 - 1, 2147483647)
      <3>1. LoadWithFile(h)[k] =
              IF got.rc = "OK" /\ got.out \in Limits[k] THEN got.out ELSE NumberDefaults[k]
        BY <1>3, NumberKeys DEF LoadWithFile, GetInt32
      <3>2. -2147483647 - 1 \in Int /\ 2147483647 \in Int
        OBVIOUS
      <3>3. got.rc = "OK" => got.out = 0
        BY <1>1, <1>3, <3>2, NarrowFacts
      <3> HIDE DEF got
      <3>4. QED
        BY <3>1, <3>3, NumberKeys
    <2>4. SwitchesFrom(LoadWithFile(h), f)
      <3> SUFFICES ASSUME NEW k \in SwitchKeys
                   PROVE  /\ LoadWithFile(h)[k] \in 0..1
                          /\ LoadWithFile(h)[k] = 0 =>
                               /\ k \in DOMAIN f
                               /\ f[k].kind \in {"off", "quoted"} \/ f[k] = Number(0)
        BY DEF SwitchesFrom
      <3>1. LoadWithFile(h)[k] =
              IF GetBool(h, k).rc = "OK" THEN GetBool(h, k).out ELSE 1
        BY <1>3, OtherKeys DEF LoadWithFile
      <3>2. QED
        BY <1>1, <1>3, <3>1, BoolFacts
    <2>5. QED
      BY <2>1, <2>2, <2>3, <2>4
  <1>4. QED
    BY <1>2, <1>3

\* The last of the first m options that is called name, or there is none.
LastOf(m, name, k) ==
    /\ k \in 1..m /\ argv[2 * k - 1] = name
    /\ \A j \in 1..m : argv[2 * j - 1] = name => j <= k
NoneOf(m, name) == \A k \in 1..m : argv[2 * k - 1] # name

\* The first m options were good and have been read, and no more than these
\* are once the loop is over.
OptionsRead(m) ==
    /\ i = 2 * m + 1 /\ 2 * m <= Len(argv)
    /\ \A j \in 1..m : Good(j)
    /\ \/ \E k \in 1..m : LastOf(m, "-c", k) /\ cfgpath = argv[2 * k]
       \/ NoneOf(m, "-c") /\ cfgpath = DefaultCfgFile
    /\ \/ \E k \in 1..m : LastOf(m, "-p", k) /\ hassetc = TRUE /\ port = Atoi[argv[2 * k]]
       \/ NoneOf(m, "-p") /\ hassetc = FALSE
    /\ pc # "args" => Len(argv) <= 2 * m + 1 \/ ~Good(m + 1)

ArgsInv == argv \in Seq(Tokens) /\ \E m \in Nat : OptionsRead(m)

\* The settings: defaults until the file is loaded, with the port of the
\* command line afterwards if there is one.
SettingsInv ==
    /\ port \in Ports
    /\ ~Loaded => cfg = Defaults
    /\ Loaded => SwitchesFrom(cfg, file)
    /\ Loaded => \/ hassetc = TRUE /\ cfg["port"] = port
                 \/ hassetc = FALSE /\ cfg["port"] \in FilePorts
    /\ NumbersKept(cfg)

LEMMA ArgsInit == Init => ArgsInv
  <1> SUFFICES ASSUME Init PROVE ArgsInv
    OBVIOUS
  <1>1. argv \in UNION {[1..n -> Tokens] : n \in 0..MaxArgs}
    BY DEF Init, BoundedSeq, SeqOf
  <1>2. PICK n \in 0..MaxArgs : argv \in [1..n -> Tokens]
    BY <1>1
  <1>3. n \in Nat
    BY LucpdStartAssumption
  <1>4. argv \in UNION {[1..len -> Tokens] : len \in Nat}
    BY <1>2, <1>3, Zenon
  <1>5. argv \in Seq(Tokens)
    BY <1>4, SeqDef, Zenon
  <1>6. OptionsRead(0)
    BY <1>5 DEF Init, OptionsRead, NoneOf
  <1>7. QED
    BY <1>5, <1>6 DEF ArgsInv

\* Where the option that is read next stands.
LEMMA NextOption ==
    ASSUME NEW m \in Nat, i = 2 * m + 1
    PROVE  /\ 2 * (m + 1) - 1 = i /\ 2 * (m + 1) = i + 1
           /\ 1..(m + 1) = 1..m \cup {m + 1} /\ m + 1 \in Nat
  OBVIOUS

\* An option more, called name, is the last of its name and of no other.
LEMMA OneMore ==
    ASSUME NEW m \in Nat, i = 2 * m + 1, NEW name, argv[i] = name
    PROVE  /\ LastOf(m + 1, name, m + 1)
           /\ \A other : other # name =>
                /\ \A k \in 1..m : LastOf(m, other, k) => LastOf(m + 1, other, k)
                /\ NoneOf(m, other) => NoneOf(m + 1, other)
  <1>1. LastOf(m + 1, name, m + 1)
    BY NextOption DEF LastOf
  <1>2. ASSUME NEW other, other # name, NEW k \in 1..m, LastOf(m, other, k)
        PROVE  LastOf(m + 1, other, k)
    <2>1. k \in 1..(m + 1) /\ argv[2 * k - 1] = other
      BY <1>2 DEF LastOf
    <2>2. ASSUME NEW j \in 1..(m + 1), argv[2 * j - 1] = other PROVE j <= k
      <3>1. j # m + 1
        BY <1>2, <2>2, NextOption
      <3>2. j \in 1..m
        BY <3>1
      <3>3. QED
        BY <1>2, <2>2, <3>2 DEF LastOf
    <2>3. QED
      BY <2>1, <2>2 DEF LastOf
  <1>3. ASSUME NEW other, other # name, NoneOf(m, other) PROVE NoneOf(m + 1, other)
    BY <1>3, NextOption DEF NoneOf
  <1>4. QED
    BY <1>1, <1>2, <1>3

\* The numbers that make a port.
LEMMA PortNumbers == \A n \in Int : n \in Ports <=> n > 0 /\ n <= 65535
  BY DEF Ports

LEMMA ArgsStep == ArgsInv /\ [Next]_vars => ArgsInv'
  <1> SUFFICES ASSUME ArgsInv, [Next]_vars PROVE ArgsInv'
    OBVIOUS
  <1>1. PICK m \in Nat : OptionsRead(m)
    BY DEF ArgsInv
  <1>2. argv \in Seq(Tokens) /\ Len(argv) \in Nat /\ i = 2 * m + 1 /\ argv' = argv
    BY <1>1 DEF ArgsInv, OptionsRead, Next, OptC, OptP, ArgsError, ArgsDone, Load, Listen, vars
  <1>3. /\ \A n, name, k : LastOf(n, name, k)' <=> LastOf(n, name, k)
        /\ \A n, name : NoneOf(n, name)' <=> NoneOf(n, name)
        /\ \A n : Good(n)' <=> Good(n)
    BY <1>2, Zenon DEF LastOf, NoneOf, Good
  <1>4. SUFFICES \E n \in Nat : OptionsRead(n)'
    BY <1>2 DEF ArgsInv
  <1>5. CASE OptC
    <2>1. /\ argv[i] = "-c" /\ i + 1 <= Len(argv) /\ i' = i + 2 /\ cfgpath' = argv[i + 1]
          /\ pc' = "args" /\ port' = port /\ hassetc' = hassetc
      BY <1>5 DEF OptC, HasValue
    <2>2. LastOf(m + 1, "-c", m + 1)
      BY <1>2, <2>1, OneMore
    <2>3. /\ \A k \in 1..m : LastOf(m, "-p", k) => LastOf(m + 1, "-p", k)
          /\ NoneOf(m, "-p") => NoneOf(m + 1, "-p")
      BY <1>2, <2>1, OneMore
    <2>4. \A j \in 1..(m + 1) : Good(j)
      <3>1. argv[2 * (m + 1) - 1] = "-c"
        BY <1>2, <2>1, NextOption
      <3>2. Good(m + 1)
        BY <3>1, Zenon DEF Good
      <3>3. QED
        BY <1>1, <1>2, <3>2, NextOption DEF OptionsRead
    <2>5. \/ \E k \in 1..(m + 1) : /\ LastOf(m + 1, "-p", k) /\ hassetc = TRUE
                                   /\ port = Atoi[argv[2 * k]]
          \/ NoneOf(m + 1, "-p") /\ hassetc = FALSE
      BY <1>1, <2>3 DEF OptionsRead
    <2>6. /\ i' = 2 * (m + 1) + 1 /\ 2 * (m + 1) <= Len(argv) /\ m + 1 \in 1..(m + 1)
          /\ cfgpath' = argv[2 * (m + 1)]
      BY <1>2, <2>1, NextOption
    <2>7. OptionsRead(m + 1)'
      BY <1>2, <1>3, <2>1, <2>2, <2>4, <2>5, <2>6, Zenon DEF OptionsRead
    <2>8. QED
      BY <2>7
  <1>6. CASE OptP
    <2>1. /\ argv[i] = "-p" /\ i + 1 <= Len(argv) /\ i' = i + 2 /\ cfgpath' = cfgpath
          /\ pc' = "args" /\ port' = Atoi[argv[i + 1]] /\ hassetc' = TRUE
      BY <1>6 DEF OptP, HasValue
    <2>2. LastOf(m + 1, "-p", m + 1)
      BY <1>2, <2>1, OneMore
    <2>3. /\ \A k \in 1..m : LastOf(m, "-c", k) => LastOf(m + 1, "-c", k)
          /\ NoneOf(m, "-c") => NoneOf(m + 1, "-c")
      BY <1>2, <2>1, OneMore
    <2>4. Atoi[argv[i + 1]] \in Ports
      <3>1. argv[i + 1] \in Tokens
        BY <1>2, <2>1
      <3>2. Atoi[argv[i + 1]] \in Int
        BY <3>1, LucpdStartAssumption
      <3>3. QED
        BY <1>6, <3>2, PortNumbers DEF OptP, PortOk
    <2>5. \A j \in 1..(m + 1) : Good(j)
      <3>1. argv[2 * (m + 1) - 1] = "-p" /\ Atoi[argv[2 * (m + 1)]] \in Ports
        BY <1>2, <2>1, <2>4, NextOption
      <3>2. Good(m + 1)
        BY <3>1, Zenon DEF Good
      <3>3. QED
        BY <1>1, <1>2, <3>2, NextOption DEF OptionsRead
    <2>6. \/ \E k \in 1..(m + 1) : LastOf(m + 1, "-c", k) /\ cfgpath = argv[2 * k]
          \/ NoneOf(m + 1, "-c") /\ cfgpath = DefaultCfgFile
      BY <1>1, <2>3 DEF OptionsRead
    <2>7. /\ i' = 2 * (m + 1) + 1 /\ 2 * (m + 1) <= Len(argv) /\ m + 1 \in 1..(m + 1)
          /\ port' = Atoi[argv[2 * (m + 1)]]
      BY <1>2, <2>1, NextOption
    <2>8. OptionsRead(m + 1)'
      BY <1>2, <1>3, <2>1, <2>2, <2>5, <2>6, <2>7, Zenon DEF OptionsRead
    <2>9. QED
      BY <2>8
  <1>7. CASE ArgsError \/ ArgsDone
    <2>1. i' = i /\ cfgpath' = cfgpath /\ port' = port /\ hassetc' = hassetc
      BY <1>7 DEF ArgsError, ArgsDone
    <2>2. Len(argv) <= 2 * m + 1 \/ ~Good(m + 1)
      <3>1. SUFFICES ASSUME 2 * m + 1 < Len(argv), Good(m + 1) PROVE FALSE
        BY <1>2
      <3>2. /\ argv[2 * (m + 1) - 1] = argv[i] /\ argv[2 * (m + 1)] = argv[i + 1]
            /\ i + 1 <= Len(argv)
        BY <1>2, <3>1, NextOption
      <3>3. \/ argv[i] = "-c"
            \/ argv[i] = "-p" /\ Atoi[argv[i + 1]] \in Ports
        BY <3>1, <3>2, Zenon DEF Good
      <3>4. Atoi[argv[i + 1]] \in Ports => PortOk
        <4>1. argv[i + 1] \in Tokens
          BY <1>2, <3>2
        <4>2. Atoi[argv[i + 1]] \in Int
          BY <4>1, LucpdStartAssumption
        <4>3. QED
          BY <4>2, PortNumbers DEF PortOk
      <3>5. ~ArgsDone
        BY <1>2, <3>2 DEF ArgsDone
      <3>6. QED
        BY <1>7, <3>2, <3>3, <3>4, <3>5 DEF ArgsError, HasValue
    <2>3. OptionsRead(m)'
      BY <1>1, <1>2, <1>3, <2>1, <2>2, Zenon DEF OptionsRead
    <2>4. QED
      BY <2>3
  <1>8. CASE (\E f \in LucpdFiles : Load(f)) \/ Listen \/ UNCHANGED vars
    <2>1. /\ i' = i /\ cfgpath' = cfgpath /\ port' = port /\ hassetc' = hassetc
          /\ pc' # "args" => pc # "args"
      BY <1>8 DEF Load, Listen, vars
    <2>2. OptionsRead(m)'
      BY <1>1, <1>2, <1>3, <2>1, Zenon DEF OptionsRead
    <2>3. QED
      BY <2>2
  <1>9. QED
    BY <1>5, <1>6, <1>7, <1>8 DEF Next

LEMMA SettingsStep == SettingsInv /\ ArgsInv /\ [Next]_vars => SettingsInv'
  <1> SUFFICES ASSUME SettingsInv, ArgsInv, [Next]_vars PROVE SettingsInv'
    OBVIOUS
  <1>1. CASE OptC \/ ArgsError \/ ArgsDone \/ Listen \/ UNCHANGED vars
    <2>1. /\ port' = port /\ cfg' = cfg /\ file' = file /\ hassetc' = hassetc
          /\ Loaded' <=> Loaded
      BY <1>1 DEF OptC, ArgsError, ArgsDone, Listen, Loaded, vars
    <2>2. QED
      BY <2>1, Zenon DEF SettingsInv, NumbersKept, SwitchesFrom
  <1>2. CASE OptP
    <2>1. /\ port' = Atoi[argv[i + 1]] /\ cfg' = cfg /\ i + 1 <= Len(argv)
          /\ ~Loaded /\ ~Loaded'
      BY <1>2 DEF OptP, Loaded, HasValue
    <2>2. PICK m \in Nat : OptionsRead(m)
      BY DEF ArgsInv
    <2>3. argv[i + 1] \in Tokens
      BY <2>1, <2>2 DEF ArgsInv, OptionsRead
    <2>4. Atoi[argv[i + 1]] \in Int
      BY <2>3, LucpdStartAssumption
    <2>5. Atoi[argv[i + 1]] \in Ports
      BY <1>2, <2>4, PortNumbers DEF OptP, PortOk
    <2>6. QED
      BY <2>1, <2>5, Zenon DEF SettingsInv, NumbersKept, SwitchesFrom
  <1>3. ASSUME NEW f \in LucpdFiles, Load(f) PROVE SettingsInv'
    <2>1. PICK h \in Open(f) : cfg' = SetFileAndPort(LoadWithFile(h))
      BY <1>3 DEF Load
    <2> DEFINE c == LoadWithFile(h)
    <2>2. file' = f /\ port' = port /\ hassetc' = hassetc /\ Loaded'
      BY <1>3 DEF Load, Loaded
    <2>3. /\ DOMAIN c = DOMAIN Defaults /\ c["port"] \in FilePorts
          /\ NumbersKept(c) /\ SwitchesFrom(c, f)
      BY StartLoadFacts
    <2> HIDE DEF c
    <2>4. hassetc \in BOOLEAN
      BY DEF ArgsInv, OptionsRead
    <2>5. CASE hassetc
      <3>1. cfg' = [c EXCEPT !["port"] = port]
        BY <2>1, <2>5 DEF SetFileAndPort, c
      <3>2. cfg'["port"] = port /\ \A k \in DOMAIN Defaults : k # "port" => cfg'[k] = c[k]
        BY <2>3, <3>1, OtherKeys
      <3>3. NumbersKept(cfg')
        BY <2>3, <3>2, NumberKeys DEF NumbersKept
      <3>4. SwitchesFrom(cfg', f)
        BY <2>3, <3>2, OtherKeys DEF SwitchesFrom
      <3>5. QED
        BY <2>2, <2>4, <2>5, <3>2, <3>3, <3>4, Zenon DEF SettingsInv, NumbersKept, SwitchesFrom
    <2>6. CASE ~hassetc
      <3>1. cfg' = c
        BY <2>1, <2>6 DEF SetFileAndPort, c
      <3>2. QED
        BY <2>2, <2>3, <2>4, <2>6, <3>1, Zenon DEF SettingsInv, NumbersKept, SwitchesFrom
    <2>7. QED
      BY <2>4, <2>5, <2>6
  <1>4. QED
    BY <1>1, <1>2, <1>3 DEF Next

\* The invariant of the start: the options that were read, and what the
\* settings are made of.
LEMMA StartInvariant == Spec => [](ArgsInv /\ SettingsInv)
  <1>1. Init => SettingsInv
    <2> SUFFICES ASSUME Init PROVE SettingsInv
      OBVIOUS
    <2>1. cfg = Defaults /\ ~Loaded
      BY DEF Init, Loaded
    <2>2. NumbersKept(Defaults)
      BY NumberKeys DEF NumbersKept
    <2>3. port \in Ports
      BY DEF Init, Ports
    <2>4. QED
      BY <2>1, <2>2, <2>3, Zenon DEF SettingsInv, NumbersKept, SwitchesFrom
  <1>2. QED
    BY <1>1, ArgsInit, ArgsStep, SettingsStep, PTL DEF Spec

\* The options that count are those that were read.
LEMMA ReadAreOptions ==
    ASSUME ArgsInv, NEW m \in Nat, OptionsRead(m), pc # "args"
    PROVE  Options = 1..m
  <1>1. Len(argv) \in Nat /\ 2 * m <= Len(argv) /\ \A j \in 1..m : Good(j)
    BY DEF ArgsInv, OptionsRead
  <1>2. \A n \in Nat : n <= Len(argv) \div 2 <=> 2 * n <= Len(argv)
    BY <1>1
  <1>3. Len(argv) \div 2 \in Nat
    BY <1>1
  <1>4. ASSUME NEW k \in 1..m PROVE k \in Options
    <2>1. k \in 1..(Len(argv) \div 2)
      BY <1>1, <1>2, <1>3
    <2>2. \A j \in 1..k : Good(j)
      BY <1>1
    <2>3. QED
      BY <2>1, <2>2 DEF Options
  <1>5. ASSUME NEW k \in Options, k \notin 1..m PROVE FALSE
    <2>1. k \in 1..(Len(argv) \div 2) /\ \A j \in 1..k : Good(j)
      BY DEF Options
    <2>2. k \in Nat /\ m + 1 <= k /\ k <= Len(argv) \div 2
      BY <1>3, <1>5, <2>1
    <2>3. 2 * k <= Len(argv)
      BY <1>2, <2>2
    <2>4. Good(m + 1)
      BY <2>1, <2>2
    <2>5. ~(Len(argv) <= 2 * m + 1)
      BY <1>1, <2>2, <2>3
    <2>6. QED
      BY <2>4, <2>5 DEF OptionsRead
  <1>6. QED
    BY <1>4, <1>5

\* Whatever the command line and the file are, lucpd starts with the file and
\* the port of the last -c and -p in front of the first mistake.
THEOREM DaemonStartsAsAsked == Spec => []StartsAsAsked
  <1>1. ArgsInv /\ SettingsInv => StartsAsAsked
    <2> SUFFICES ASSUME ArgsInv, SettingsInv, Loaded
                 PROVE  /\ \A k \in LastOption("-c") : cfgpath = argv[2 * k]
                        /\ LastOption("-c") = {} => cfgpath = DefaultCfgFile
                        /\ \A k \in LastOption("-p") : cfg["port"] = Atoi[argv[2 * k]]
      BY DEF StartsAsAsked
    <2>1. PICK m \in Nat : OptionsRead(m)
      BY DEF ArgsInv
    <2>2. Options = 1..m
      BY <2>1, ReadAreOptions DEF Loaded
    <2>3. /\ \A name, k : k \in LastOption(name) <=> LastOf(m, name, k)
          /\ \A name : NoneOf(m, name) => LastOption(name) = {}
      BY <2>2, Zenon DEF LastOption, LastOf, NoneOf
    <2>4. \A name, j, k : LastOf(m, name, j) /\ LastOf(m, name, k) => j = k
      BY DEF LastOf
    <2>5. \/ \E k \in 1..m : LastOf(m, "-c", k) /\ cfgpath = argv[2 * k]
          \/ NoneOf(m, "-c") /\ cfgpath = DefaultCfgFile
      BY <2>1 DEF OptionsRead
    <2>6. \/ \E k \in 1..m : LastOf(m, "-p", k) /\ hassetc = TRUE /\ port = Atoi[argv[2 * k]]
          \/ NoneOf(m, "-p") /\ hassetc = FALSE
      BY <2>1 DEF OptionsRead
    <2>7. hassetc = TRUE => cfg["port"] = port
      BY DEF SettingsInv
    <2>8. /\ \A k \in LastOption("-c") : cfgpath = argv[2 * k]
          /\ LastOption("-c") = {} => cfgpath = DefaultCfgFile
      BY <2>3, <2>4, <2>5, Zenon
    <2>9. \A k \in LastOption("-p") : cfg["port"] = Atoi[argv[2 * k]]
      BY <2>3, <2>4, <2>6, <2>7, Zenon
    <2>10. QED
      BY <2>8, <2>9
  <1>2. QED
    BY <1>1, StartInvariant, PTL

\* Whatever the file holds, every setting stays within the limits the daemon
\* relies on.
THEOREM SettingsAreInRange == Spec => []ConfigInRange
  <1>1. SettingsInv => ConfigInRange
    <2> SUFFICES ASSUME SettingsInv PROVE ConfigInRange
      OBVIOUS
    <2>1. /\ "max_clients" \in DOMAIN NumberDefaults
          /\ "session_timeout_ms" \in DOMAIN NumberDefaults
          /\ "rate_limit_ms" \in DOMAIN NumberDefaults
          /\ "file_retention_min" \in DOMAIN NumberDefaults
          /\ "recv_timeout_ms" \in DOMAIN NumberDefaults
          /\ "send_timeout_ms" \in DOMAIN NumberDefaults
      BY DEF NumberDefaults
    <2>2. /\ cfg.max_clients = NumberDefaults.max_clients
          /\ cfg.session_timeout_ms = NumberDefaults.session_timeout_ms
          /\ cfg.rate_limit_ms = NumberDefaults.rate_limit_ms
          /\ cfg.file_retention_min = NumberDefaults.file_retention_min
          /\ cfg.recv_timeout_ms = NumberDefaults.recv_timeout_ms
          /\ cfg.send_timeout_ms = NumberDefaults.send_timeout_ms
      BY <2>1, Zenon DEF SettingsInv, NumbersKept
    <2>3. cfg.port \in Ports \cup FilePorts
      <3>1. CASE ~Loaded
        BY <3>1, OtherKeys DEF SettingsInv, FilePorts
      <3>2. CASE Loaded
        BY <3>2, Zenon DEF SettingsInv
      <3>3. QED
        BY <3>1, <3>2, Zenon
    <2>4. \A k \in SwitchKeys : cfg[k] \in 0..1
      BY OtherKeys DEF SettingsInv, SwitchesFrom
    <2>5. /\ cfg.max_clients = 10 /\ cfg.session_timeout_ms = 2000
          /\ cfg.rate_limit_ms = 3000 /\ cfg.file_retention_min = 30
          /\ cfg.recv_timeout_ms = 1000 /\ cfg.send_timeout_ms = 1000
      BY <2>2 DEF NumberDefaults
    <2>6. cfg.port \in Ports \cup {0}
      <3>1. 32100 \in Ports
        BY DEF Ports
      <3>2. QED
        BY <2>3, <3>1 DEF FilePorts
    <2>7. QED
      BY ONLY <2>4, <2>5, <2>6 DEF ConfigInRange
  <1>2. QED
    BY <1>1, StartInvariant, PTL
=============================================================================
