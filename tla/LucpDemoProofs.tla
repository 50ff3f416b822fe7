--------------------------- MODULE LucpDemoProofs ---------------------------
(***************************************************************************)
(* Proofs about the demo client and the daemon together, for every number  *)
(* of clients: the composition implements the daemon's specification, the  *)
(* daemon drops no frame of a demo client, and the two agree on which      *)
(* uploads were completed.                                                 *)
(***************************************************************************)
EXTENDS LucpDemo, LucpdProofs, SequenceTheorems
-----------------------------------------------------------------------------
(* Facts about sequences.                                                  *)

\* A concatenation, element by element.
LEMMA ConcatFacts ==
    ASSUME NEW S, NEW a \in Seq(S), NEW q \in Seq(S)
    PROVE  /\ a \o q \in Seq(S) /\ Len(a \o q) = Len(a) + Len(q)
           /\ Len(a) \in Nat /\ Len(q) \in Nat
           /\ \A i \in 1..Len(a) : (a \o q)[i] = a[i]
           /\ q # <<>> => Len(q) >= 1 /\ (a \o q)[Len(a) + 1] = Head(q)
  <1>1. a \o q \in Seq(S) /\ Len(a \o q) = Len(a) + Len(q)
        /\ Len(a) \in Nat /\ Len(q) \in Nat
    OBVIOUS
  <1>2. \A i \in 1..Len(a) : (a \o q)[i] = a[i]
    BY <1>1
  <1>3. ASSUME q # <<>> PROVE Len(q) >= 1 /\ (a \o q)[Len(a) + 1] = Head(q)
    <2>1. Len(q) >= 1
      BY <1>1, <1>3
    <2>2. Head(q) = q[1]
      BY <1>3
    <2>3. Len(a) + 1 \in 1..(Len(a) + Len(q))
      BY <1>1, <2>1
    <2>4. (a \o q)[Len(a) + 1] = q[1]
      BY <1>1, <2>1, <2>3
    <2>5. QED
      BY <2>1, <2>2, <2>4
  <1>4. QED
    BY <1>1, <1>2, <1>3

\* Moving the head of one sequence to the end of the other.
LEMMA MoveHead ==
    ASSUME NEW S, NEW a \in Seq(S), NEW q \in Seq(S), q # <<>>
    PROVE  Append(a, Head(q)) \o Tail(q) = a \o q
  <1>1. Head(q) \in S /\ Tail(q) \in Seq(S) /\ q = <<Head(q)>> \o Tail(q)
    OBVIOUS
  <1>2. Append(a, Head(q)) = a \o <<Head(q)>>
    BY <1>1, AppendIsConcat
  <1>3. (a \o <<Head(q)>>) \o Tail(q) = a \o (<<Head(q)>> \o Tail(q))
    BY <1>1, ConcatAssociative
  <1>4. QED
    BY <1>1, <1>2, <1>3

\* A sequence with one more element.
LEMMA AppendFacts ==
    ASSUME NEW S, NEW s \in Seq(S), NEW f \in S
    PROVE  /\ Len(Append(s, f)) = Len(s) + 1 /\ Len(s) \in Nat
           /\ Append(s, f)[Len(s) + 1] = f
           /\ \A i \in 1..Len(s) : Append(s, f)[i] = s[i]
  OBVIOUS

\* Appending to the second sequence appends to the whole.
LEMMA AppendToConcat ==
    ASSUME NEW S, NEW a \in Seq(S), NEW q \in Seq(S), NEW f \in S
    PROVE  a \o Append(q, f) = Append(a \o q, f)
  <1>1. a \o q \in Seq(S) /\ <<f>> \in Seq(S)
    OBVIOUS
  <1>2. QED
    BY <1>1, AppendIsConcat, ConcatAssociative
-----------------------------------------------------------------------------
(* The composition implements the daemon's specification.                  *)

\* A frame of a demo client is one of the daemon's input frames.
LEMMA DemoFrameIn ==
    ASSUME NEW status \in {"SUCCESS", "FAILED"}
    PROVE  /\ DemoFrame("UPLOAD_REQUEST", "FAILED") \in ClientFrames
           /\ DemoFrame("FTP_LOGIN_RESULT", status) \in ClientFrames
           /\ DemoFrame("FTP_DOWNLOAD_RESULT", status) \in ClientFrames
  BY DemoAssumption DEF DemoFrames

\* What there is to know of such a frame.
LEMMA DemoFrameFacts ==
    ASSUME NEW f \in ClientFrames
    PROVE  /\ f.major = Major
           /\ f.type \in {"UPLOAD_REQUEST", "FTP_LOGIN_RESULT", "FTP_DOWNLOAD_RESULT"}
           /\ f.status \in {"SUCCESS", "FAILED"}
  BY DemoAssumption DEF DemoFrames, DemoFrame

\* Every step of a client and of the daemon is a step the daemon's
\* specification allows.
LEMMA DemoStepImplements == [DemoNext]_demoVars => [Next]_vars
  <1> SUFFICES ASSUME [DemoNext]_demoVars PROVE [Next]_vars
    OBVIOUS
  <1>1. CASE DaemonStep
    BY <1>1 DEF DaemonStep, Next, ClientStep
  <1>2. ASSUME NEW c \in Conns, DemoClient(c) PROVE [Next]_vars
    <2>1. ASSUME NEW r, Finish(c, r) PROVE [Next]_vars
      BY <2>1 DEF Finish, Next, ClientStep
    <2>2. ASSUME NEW f \in ClientFrames, ClientSend(c, f) PROVE [Next]_vars
      BY <2>2 DEF Next, ClientStep
    <2>3. CASE DemoConnect(c)
      BY <2>3 DEF DemoConnect, Next, ClientStep
    <2>4. CASE DemoRequest(c)
      BY <2>2, <2>4, DemoFrameIn DEF DemoRequest
    <2>5. CASE SelectTimeout(c) \/ TakeClosed(c) \/ DemoClose(c)
      BY <2>1, <2>5 DEF SelectTimeout, TakeClosed, DemoClose
    <2>6. ASSUME NEW n, TakeProper(c, n) \/ TakeImproper(c, n) PROVE [Next]_vars
      BY <2>1, <2>6 DEF TakeProper, TakeImproper
    <2>7. ASSUME NEW status \in {"SUCCESS", "FAILED"},
                 DemoLogin(c, status) \/ DemoDownload(c, status)
          PROVE  [Next]_vars
      BY <2>2, <2>7, DemoFrameIn DEF DemoLogin, DemoDownload
    <2>8. QED
      BY <1>2, <2>3, <2>4, <2>5, <2>6, <2>7 DEF DemoClient
  <1>3. CASE UNCHANGED demoVars
    BY <1>3 DEF demoVars
  <1>4. QED
    BY <1>1, <1>2, <1>3 DEF DemoNext

\* The demo clients are clients in the sense of the daemon's specification:
\* the composition implements it (without its fairness).
THEOREM DemoImplementsDaemon == DemoSpec => Init /\ [][Next]_vars
  <1>1. DemoInit => Init
    BY DEF DemoInit
  <1>2. QED
    BY <1>1, DemoStepImplements, PTL DEF DemoSpec
-----------------------------------------------------------------------------
(* What the client and the daemon know of each other.                      *)

\* The frames the client sent: those that advanced the session, then those
\* not yet received.
Sent(c) == acc[c] \o inq[c]

\* The client reported a good download.
Succeeded(c) == cpc[c] = "ok" \/ cres[c] = "ok"

\* The client gave up.
GaveUp(c) == cpc[c] = "failed" \/ (cpc[c] = "end" /\ cres[c] # "ok")

DemoTypeOK ==
    /\ cpc \in [Conns -> {"connect", "request", "ack", "notify", "login",
                          "download", "ok", "failed", "end"}]
    /\ crd \in [Conns -> Nat] /\ cgot \in [Conns -> Nat]
    /\ cres \in [Conns -> {"none", "ok", "failed", "timeout"}]

\* The frames of a client are a request, a login result and, if that was
\* good, a download result; how many there are says where the client is.
Script(c, s) ==
    /\ Len(s) \in 0..3
    /\ Len(s) >= 1 => s[1].type = "UPLOAD_REQUEST"
    /\ Len(s) >= 2 => s[2].type = "FTP_LOGIN_RESULT"
    /\ Len(s) = 3 => s[2].status = "SUCCESS" /\ s[3].type = "FTP_DOWNLOAD_RESULT"
    /\ cpc[c] \in {"connect", "request"} => Len(s) = 0
    /\ cpc[c] \in {"ack", "notify", "login"} => Len(s) = 1
    /\ cpc[c] = "download" => Len(s) = 2 /\ s[2].status = "SUCCESS"
    /\ Succeeded(c) => Len(s) = 3 /\ s[3].status = "SUCCESS"
    /\ GaveUp(c) => Len(s) # 3 \/ s[3].status # "SUCCESS"

\* What the client has been told.
Told(c) ==
    /\ cpc[c] \in {"connect", "request", "ack"} => cgot[c] = 0
    /\ cpc[c] = "notify" => cgot[c] = 1
    /\ cpc[c] \in {"login", "download", "ok"} \/ cres[c] = "ok" =>
         cgot[c] = 2 /\ Len(out[c]) = 2 /\ out[c][2].status = "SUCCESS"
    /\ cgot[c] <= crd[c]

\* The client's end of the connection is open until it ends; a client that
\* ends with success has read every reply and resets nothing.
EndOpen(c) ==
    /\ cpc[c] = "end" <=> peer[c] # "up"
    /\ cpc[c] # "end" => cres[c] = "none"
    /\ peer[c] \in {"reset", "rst"} => cres[c] # "ok"

\* Why a session is over: it completed or failed or the daemon stops; and why
\* it failed: by its timeout, by a failed preparation, or by its client.
Over(c) ==
    /\ at[c] \in {"exit", "closed", "done"} =>
         state[c] \in {"COMPLETED", "ERROR"} \/ ~server_running
    /\ state[c] = "ERROR" =>
         \/ stale[c] /\ at[c] \in {"exit", "closed", "done"}
         \/ Len(out[c]) = 2 /\ out[c][2].status # "SUCCESS"
         \/ GaveUp(c)

Agreement(c) == Script(c, Sent(c)) /\ Told(c) /\ EndOpen(c) /\ Over(c)

\* The inductive invariant of the composition.
DemoInv == SessionInv /\ DemoTypeOK /\ \A c \in Conns : Agreement(c)

\* Nothing was sent, received or reported.
LEMMA DemoInitInv == DemoInit => DemoInv
  <1> SUFFICES ASSUME DemoInit PROVE DemoInv
    OBVIOUS
  <1>1. Init /\ SessionInv
    BY SessionInit DEF DemoInit
  <1>2. DemoTypeOK
    BY DEF DemoInit, DemoTypeOK
  <1>3. ASSUME NEW c \in Conns PROVE Agreement(c)
    <2>1. /\ acc[c] = <<>> /\ inq[c] = <<>> /\ state[c] = "INIT" /\ at[c] = "away"
          /\ peer[c] = "up"
      BY <1>1 DEF Init
    <2>2. cpc[c] = "connect" /\ crd[c] = 0 /\ cgot[c] = 0 /\ cres[c] = "none"
      BY DEF DemoInit
    <2>3. Len(Sent(c)) = 0
      BY <2>1 DEF Sent
    <2>4. Script(c, Sent(c))
      BY <2>2, <2>3 DEF Script, Succeeded, GaveUp
    <2>5. QED
      BY <2>1, <2>2, <2>4 DEF Agreement, Told, EndOpen, Over
  <1>4. QED
    BY <1>1, <1>2, <1>3 DEF DemoInv

\* A connection whose own variables stay keeps the agreement.
LEMMA SameAgreement ==
    ASSUME NEW d \in Conns, Agreement(d), ~server_running => ~server_running',
           state'[d] = state[d], out'[d] = out[d], peer'[d] = peer[d],
           acc'[d] = acc[d], inq'[d] = inq[d],
           cpc'[d] = cpc[d], crd'[d] = crd[d], cgot'[d] = cgot[d], cres'[d] = cres[d],
           at'[d] = at[d] \/ {at'[d], at[d]} \cap {"exit", "closed", "done"} = {}
                          \/ {at'[d], at[d]} \subseteq {"exit", "closed", "done"},
           stale[d] => stale'[d]
    PROVE  Agreement(d)'
  <1>1. Sent(d)' = Sent(d)
    BY DEF Sent
  <1>2. Script(d, Sent(d))'
    BY <1>1 DEF Agreement, Script, Succeeded, GaveUp
  <1>3. Told(d)' /\ EndOpen(d)'
    BY DEF Agreement, Told, EndOpen
  <1>4. Over(d)'
    BY DEF Agreement, Over, GaveUp
  <1>5. QED
    BY <1>2, <1>3, <1>4 DEF Agreement

\* A step of a session changes what belongs to its own connection.
LEMMA SessionLocal ==
    ASSUME TypeOK, NEW c \in Conns, SessionStep(c)
    PROVE  /\ server_running' = server_running
           /\ \A d \in Conns \ {c} :
                /\ at'[d] = at[d] /\ state'[d] = state[d] /\ stale'[d] = stale[d]
                /\ inq'[d] = inq[d] /\ peer'[d] = peer[d] /\ out'[d] = out[d]
                /\ acc'[d] = acc[d]
  <1>1. /\ at \in [Conns -> Places] /\ state \in [Conns -> SessionStates]
        /\ stale \in [Conns -> BOOLEAN] /\ inq \in [Conns -> Seq(ClientFrames)]
        /\ peer \in [Conns -> PeerStates] /\ out \in [Conns -> Seq(Replies)]
        /\ acc \in [Conns -> Seq(ClientFrames)]
    BY DEF TypeOK
  <1> USE DEF mainVars, sessVars
  <1>2. ASSUME NEW r, NetSend(c, r)
        PROVE  \A d \in Conns \ {c} : out'[d] = out[d] /\ peer'[d] = peer[d]
    BY <1>1, <1>2 DEF NetSend
  <1>3. ASSUME NEW f, NEW s, Advance(c, f, s)
        PROVE  \A d \in Conns \ {c} : /\ state'[d] = state[d] /\ acc'[d] = acc[d]
                                      /\ stale'[d] = stale[d]
    BY <1>1, <1>3 DEF Advance
  <1>4. ASSUME NEW f, NetRecv(c, f)
        PROVE  \A d \in Conns \ {c} : inq'[d] = inq[d] /\ at'[d] = at[d]
    BY <1>1, <1>4 DEF NetRecv
  <1>5. CASE LoopTop(c)
    BY <1>1, <1>5 DEF LoopTop
  <1>6. CASE CloseFd(c) \/ CountDown(c) \/ RecvError(c)
    BY <1>1, <1>6 DEF CloseFd, CountDown, RecvError
  <1>7. ASSUME NEW status, Prepare(c, status)
        PROVE  /\ server_running' = server_running
               /\ \A d \in Conns \ {c} :
                    /\ at'[d] = at[d] /\ state'[d] = state[d] /\ stale'[d] = stale[d]
                    /\ inq'[d] = inq[d] /\ peer'[d] = peer[d] /\ out'[d] = out[d]
                    /\ acc'[d] = acc[d]
    BY <1>1, <1>2, <1>7 DEF Prepare
  <1>8. ASSUME NEW f, RecvRequest(c, f) \/ RecvBadVersion(c, f) \/ RecvResult(c, f)
                      \/ RecvOther(c, f)
        PROVE  /\ server_running' = server_running
               /\ \A d \in Conns \ {c} :
                    /\ at'[d] = at[d] /\ state'[d] = state[d] /\ stale'[d] = stale[d]
                    /\ inq'[d] = inq[d] /\ peer'[d] = peer[d] /\ out'[d] = out[d]
                    /\ acc'[d] = acc[d]
    <2>1. CASE RecvRequest(c, f)
      BY <1>2, <1>3, <1>4, <2>1 DEF RecvRequest
    <2>2. CASE RecvBadVersion(c, f)
      BY <1>1, <1>2, <1>4, <2>2 DEF RecvBadVersion
    <2>3. CASE RecvResult(c, f)
      BY <1>3, <1>4, <2>3 DEF RecvResult
    <2>4. CASE RecvOther(c, f)
      BY <1>4, <2>4 DEF RecvOther
    <2>5. QED
      BY <1>8, <2>1, <2>2, <2>3, <2>4
  <1>9. QED
    BY <1>5, <1>6, <1>7, <1>8 DEF SessionStep

\* The frame a session receives is the next one of its client's script, so
\* that none is dropped and none is of another version.
LEMMA ReceivesNext ==
    ASSUME DemoInv, NEW c \in Conns, NEW f \in ClientFrames, NetRecv(c, f)
    PROVE  /\ state[c] \in Receiving
           /\ Len(acc[c]) \in 0..2 /\ f = Sent(c)[Len(acc[c]) + 1]
           /\ Len(Sent(c)) >= Len(acc[c]) + 1
           /\ f.type = Expected[state[c]] /\ f.major = Major
  <1>1. TypeOK /\ Progress(c) /\ Script(c, Sent(c))
    BY DEF DemoInv, SessionInv, Agreement
  <1>2. at[c] = "recv" /\ inq[c] # <<>> /\ f = Head(inq[c])
    BY DEF NetRecv
  <1>3. state[c] \in Receiving
    BY <1>1, <1>2 DEF Progress
  <1>4. acc[c] \in Seq(ClientFrames) /\ inq[c] \in Seq(ClientFrames)
    BY <1>1 DEF TypeOK
  <1>5. /\ Len(acc[c]) \in Nat /\ f = Sent(c)[Len(acc[c]) + 1]
        /\ Len(Sent(c)) >= Len(acc[c]) + 1 /\ Len(Sent(c)) \in Nat
    <2>1. /\ Len(acc[c]) \in Nat /\ Len(inq[c]) \in Nat
          /\ Len(acc[c] \o inq[c]) = Len(acc[c]) + Len(inq[c])
          /\ Len(inq[c]) >= 1
          /\ (acc[c] \o inq[c])[Len(acc[c]) + 1] = Head(inq[c])
      BY <1>2, <1>4, ConcatFacts
    <2>2. f = Sent(c)[Len(acc[c]) + 1] /\ Len(Sent(c)) = Len(acc[c]) + Len(inq[c])
      BY <1>2, <2>1 DEF Sent
    <2>3. \A m, n \in Nat : n >= 1 => m + n >= m + 1 /\ m + n \in Nat
      OBVIOUS
    <2>4. QED
      BY <2>1, <2>2, <2>3
  <1>6. f.major = Major
    BY DemoFrameFacts
  <1>7. CASE state[c] = "INIT"
    <2>1. Len(acc[c]) = 0
      BY <1>1, <1>7 DEF Progress
    <2>2. f.type = "UPLOAD_REQUEST"
      BY <1>1, <1>5, <2>1 DEF Script
    <2>3. QED
      BY <1>3, <1>5, <1>6, <1>7, <2>1, <2>2 DEF Expected
  <1>8. CASE state[c] = "WAITING_FTP_LOGIN_RESULT"
    <2>1. Len(acc[c]) = 1
      BY <1>1, <1>8 DEF Progress
    <2>2. f.type = "FTP_LOGIN_RESULT"
      BY <1>1, <1>5, <2>1 DEF Script
    <2>3. QED
      BY <1>3, <1>5, <1>6, <1>8, <2>1, <2>2 DEF Expected
  <1>9. CASE state[c] = "WAITING_FTP_DOWNLOAD_RESULT"
    <2>1. Len(acc[c]) = 2
      BY <1>1, <1>9 DEF Progress
    <2>2. f.type = "FTP_DOWNLOAD_RESULT"
      <3>1. Len(Sent(c)) >= 3 /\ f = Sent(c)[3]
        BY <1>5, <2>1
      <3>2. Len(Sent(c)) = 3
        BY <1>1, <1>5, <3>1 DEF Script
      <3>3. QED
        BY <1>1, <3>1, <3>2 DEF Script
    <2>3. QED
      BY <1>3, <1>5, <1>6, <1>9, <2>1, <2>2 DEF Expected
  <1>10. QED
    BY <1>3, <1>7, <1>8, <1>9 DEF Receiving

\* A session that accepts a frame moves it from one history to the other.
LEMMA AcceptKeepsSent ==
    ASSUME TypeOK, NEW c \in Conns, NEW f, NetRecv(c, f),
           acc' = [acc EXCEPT ![c] = Append(@, f)]
    PROVE  Sent(c)' = Sent(c)
  <1>1. acc[c] \in Seq(ClientFrames) /\ inq[c] \in Seq(ClientFrames)
    BY DEF TypeOK
  <1>2. inq[c] # <<>> /\ f = Head(inq[c])
    BY DEF NetRecv
  <1>3. acc'[c] = Append(acc[c], f) /\ inq'[c] = Tail(inq[c])
    BY DEF TypeOK, NetRecv
  <1>4. Append(acc[c], Head(inq[c])) \o Tail(inq[c]) = acc[c] \o inq[c]
    BY <1>1, <1>2, MoveHead
  <1>5. QED
    BY <1>2, <1>3, <1>4 DEF Sent

\* A client whose last result was bad gave up.
LEMMA BadResultGaveUp ==
    ASSUME DemoTypeOK, NEW c \in Conns, NEW s, Script(c, s),
           \/ Len(s) \in 2..3 /\ s[2].status # "SUCCESS"
           \/ Len(s) = 3 /\ s[3].status # "SUCCESS"
    PROVE  GaveUp(c)
  <1>1. cpc[c] \in {"connect", "request", "ack", "notify", "login",
                    "download", "ok", "failed", "end"}
    BY DEF DemoTypeOK
  <1>2. Len(s) \in 2..3
    OBVIOUS
  <1>3. cpc[c] \notin {"connect", "request", "ack", "notify", "login", "download"}
    BY <1>2 DEF Script
  <1>4. ~Succeeded(c)
    BY DEF Script
  <1>5. QED
    BY <1>1, <1>3, <1>4 DEF Succeeded, GaveUp

\* The agreement in parts: the client's variables and its frames stay.
LEMMA DaemonSideAgreement ==
    ASSUME NEW c \in Conns, Agreement(c), UNCHANGED clientVars,
           Sent(c)' = Sent(c), Told(c)', EndOpen(c)', Over(c)'
    PROVE  Agreement(c)'
  <1>1. cpc' = cpc /\ cres' = cres
    BY DEF clientVars
  <1>2. Script(c, Sent(c))'
    BY <1>1 DEF Agreement, Script, Succeeded, GaveUp
  <1>3. QED
    BY <1>2 DEF Agreement

\* The request of a demo client is always accepted.
LEMMA RequestAgreement ==
    ASSUME DemoInv, NEW c \in Conns, NEW f \in ClientFrames, RecvRequest(c, f),
           UNCHANGED clientVars
    PROVE  Agreement(c)'
  <1>0. TypeOK /\ Progress(c) /\ Agreement(c)
    BY DEF DemoInv, SessionInv
  <1>1. /\ NetRecv(c, f) /\ Advance(c, f, "WAITING_UPLOAD_REQUEST")
        /\ NetSend(c, Reply(c, "ACK_START", f.seq, "SUCCESS")) /\ state[c] = "INIT"
        /\ acc' = [acc EXCEPT ![c] = Append(@, f)]
    BY DEF RecvRequest, Advance
  <1>2. Len(out[c]) = 0 /\ peer[c] # "rst"
    BY <1>0, <1>1, InitFacts
  <1>3. Sent(c)' = Sent(c)
    BY <1>0, <1>1, AcceptKeepsSent
  <1>4. UNCHANGED <<cpc, crd, cgot, cres>>
    BY DEF clientVars
  <1>5. cpc[c] \notin {"login", "download", "ok"} /\ cres[c] # "ok"
    BY <1>0, <1>2 DEF Agreement, Told
  <1>6. Told(c)'
    BY <1>0, <1>4, <1>5 DEF Agreement, Told
  <1>7. peer \in [Conns -> PeerStates] /\ at \in [Conns -> Places]
    BY <1>0 DEF TypeOK
  <1>8. peer'[c] = IF peer[c] = "up" THEN "up" ELSE "rst"
    BY <1>1, <1>2, <1>7 DEF NetSend
  <1>9. EndOpen(c)'
    BY <1>0, <1>4, <1>5, <1>8 DEF Agreement, EndOpen
  <1>10. state'[c] = "WAITING_UPLOAD_REQUEST" /\ at'[c] = "loop"
    BY <1>0, <1>1, <1>7, AdvanceAppends DEF NetRecv
  <1>11. Over(c)'
    BY <1>10 DEF Over
  <1>12. QED
    BY <1>0, <1>3, <1>6, <1>9, <1>11, DaemonSideAgreement

\* After a notification that is not good, or not sent, the client gives up.
LEMMA PrepareAgreement ==
    ASSUME DemoInv, NEW c \in Conns, NEW status \in PrepStatus, Prepare(c, status),
           UNCHANGED clientVars
    PROVE  Agreement(c)'
  <1> DEFINE r == Reply(c, "NOTIFY_DONE", seq_num[c], status)
  <1>0. TypeOK /\ Progress(c) /\ Agreement(c)
    BY DEF DemoInv, SessionInv
  <1>1. /\ at[c] = "prep" /\ NetSend(c, r)
        /\ state' = [state EXCEPT ![c] =
             IF status = "SUCCESS" THEN "WAITING_FTP_LOGIN_RESULT" ELSE "ERROR"]
        /\ at' = [at EXCEPT ![c] = "loop"] /\ acc' = acc /\ inq' = inq
    BY DEF Prepare
  <1>2. Len(out[c]) = 1
    BY <1>0, <1>1 DEF Progress
  <1>3. Sent(c)' = Sent(c)
    BY <1>1 DEF Sent
  <1>4. UNCHANGED <<cpc, crd, cgot, cres>>
    BY DEF clientVars
  <1>5. cpc[c] \notin {"login", "download", "ok"} /\ cres[c] # "ok"
    BY <1>0, <1>2 DEF Agreement, Told
  <1>6. Told(c)'
    BY <1>0, <1>4, <1>5 DEF Agreement, Told
  <1>7. /\ peer \in [Conns -> PeerStates] /\ at \in [Conns -> Places]
        /\ state \in [Conns -> SessionStates]
    BY <1>0 DEF TypeOK
  <1>8. peer'[c] = IF peer[c] = "up" THEN "up" ELSE "rst"
    BY <1>1, <1>7 DEF NetSend
  <1>9. EndOpen(c)'
    BY <1>0, <1>4, <1>5, <1>8 DEF Agreement, EndOpen
  <1>10. /\ state'[c] = IF status = "SUCCESS" THEN "WAITING_FTP_LOGIN_RESULT" ELSE "ERROR"
         /\ at'[c] = "loop"
    BY <1>1, <1>7
  <1>11. Over(c)'
    <2>1. CASE peer[c] = "rst"
      <3>1. GaveUp(c)'
        BY <1>0, <1>4, <1>5, <2>1 DEF Agreement, EndOpen, GaveUp
      <3>2. QED
        BY <1>10, <3>1 DEF Over
    <2>2. CASE peer[c] # "rst"
      <3>1. r \in Replies
        BY <1>0 DEF Reply, Replies, TypeOK
      <3>2. Len(out'[c]) = Len(out[c]) + 1 /\ out'[c][Len(out[c]) + 1] = r
        BY <1>0, <1>1, <2>2, <3>1, SendAppends
      <3>3. Len(out'[c]) = 2 /\ out'[c][2].status = status
        BY <1>2, <3>2 DEF Reply
      <3>4. QED
        BY <1>10, <3>3 DEF Over
    <2>3. QED
      BY <2>1, <2>2
  <1>12. QED
    BY <1>0, <1>3, <1>6, <1>9, <1>11, DaemonSideAgreement

\* A result that ends the session with an error is the client's last.
LEMMA ResultAgreement ==
    ASSUME DemoInv, NEW c \in Conns, NEW f \in ClientFrames, RecvResult(c, f),
           UNCHANGED clientVars
    PROVE  Agreement(c)'
  <1> DEFINE s == IF f.status = "SUCCESS" THEN AfterSuccess[state[c]] ELSE "ERROR"
  <1>0. TypeOK /\ Progress(c) /\ Agreement(c) /\ DemoTypeOK
    BY DEF DemoInv, SessionInv
  <1>1. /\ NetRecv(c, f) /\ Advance(c, f, s) /\ peer' = peer /\ out' = out
        /\ acc' = [acc EXCEPT ![c] = Append(@, f)]
    BY DEF RecvResult, Advance
  <1>2. Sent(c)' = Sent(c)
    BY <1>0, <1>1, AcceptKeepsSent
  <1>3. UNCHANGED <<cpc, crd, cgot, cres>>
    BY DEF clientVars
  <1>4. Told(c)' /\ EndOpen(c)'
    BY <1>0, <1>1, <1>3 DEF Agreement, Told, EndOpen
  <1>5. state'[c] = s /\ at'[c] = "loop"
    BY <1>0, <1>1, AdvanceAppends DEF NetRecv, TypeOK
  <1>6. ASSUME s = "ERROR" PROVE GaveUp(c)'
    <2>1. f.status # "SUCCESS"
      BY <1>6 DEF RecvResult, AfterSuccess
    <2>2. /\ f = Sent(c)[Len(acc[c]) + 1] /\ Len(Sent(c)) >= Len(acc[c]) + 1
          /\ Script(c, Sent(c))
      BY <1>0, <1>1, ReceivesNext DEF Agreement
    <2>3. Len(acc[c]) \in 1..2
      BY <1>0 DEF RecvResult, AfterSuccess, Progress
    <2>4. Len(Sent(c)) \in 0..3
      BY <2>2 DEF Script
    <2>5. \/ Len(Sent(c)) \in 2..3 /\ Sent(c)[2].status # "SUCCESS"
          \/ Len(Sent(c)) = 3 /\ Sent(c)[3].status # "SUCCESS"
      <3>1. CASE Len(acc[c]) = 1
        BY <2>1, <2>2, <2>4, <3>1
      <3>2. CASE Len(acc[c]) = 2
        BY <2>1, <2>2, <2>4, <3>2
      <3>3. QED
        BY <2>3, <3>1, <3>2
    <2>6. GaveUp(c)
      BY <1>0, <2>2, <2>5, BadResultGaveUp
    <2>7. QED
      BY <1>3, <2>6 DEF GaveUp
  <1> HIDE DEF s
  <1>7. Over(c)'
    BY <1>5, <1>6 DEF Over
  <1>8. QED
    BY <1>0, <1>2, <1>4, <1>7, DaemonSideAgreement

\* lucp_net_recv fails only for a client that gave up.
LEMMA ErrorAgreement ==
    ASSUME DemoInv, NEW c \in Conns, RecvError(c), UNCHANGED clientVars
    PROVE  Agreement(c)'
  <1>0. TypeOK /\ Progress(c) /\ Agreement(c) /\ DemoTypeOK
    BY DEF DemoInv, SessionInv
  <1>1. /\ at[c] = "recv" /\ NetRecvFails(c) /\ state' = [state EXCEPT ![c] = "ERROR"]
        /\ at' = [at EXCEPT ![c] = "loop"]
        /\ inq' = inq /\ peer' = peer /\ out' = out /\ acc' = acc
    BY DEF RecvError
  <1>2. UNCHANGED <<cpc, crd, cgot, cres>>
    BY DEF clientVars
  <1>3. Sent(c)' = Sent(c) /\ Told(c)' /\ EndOpen(c)'
    BY <1>0, <1>1, <1>2 DEF Agreement, Told, EndOpen, Sent
  <1>4. acc[c] \in Seq(ClientFrames) /\ inq[c] \in Seq(ClientFrames)
    BY <1>0 DEF TypeOK
  <1>5. peer[c] # "up"
    <2>1. inq[c] # <<>> => Head(inq[c]) \in ClientFrames
      BY <1>4
    <2>2. inq[c] # <<>> => Head(inq[c]).type # "MALFORMED"
      BY <2>1, DemoFrameFacts
    <2>3. QED
      BY <1>1, <2>2 DEF NetRecvFails
  <1>6. cres[c] # "ok"
    <2> SUFFICES ASSUME cres[c] = "ok" PROVE FALSE
      OBVIOUS
    <2>1. inq[c] = <<>>
      <3>1. peer[c] \notin {"reset", "rst"}
        BY <1>0 DEF Agreement, EndOpen
      <3>2. inq[c] # <<>> => Head(inq[c]) \in ClientFrames
        BY <1>4
      <3>3. inq[c] # <<>> => Head(inq[c]).type # "MALFORMED"
        BY <3>2, DemoFrameFacts
      <3>4. QED
        BY <1>1, <3>1, <3>3 DEF NetRecvFails
    <2>2. Len(Sent(c)) = 3
      BY <1>0 DEF Agreement, Script, Succeeded
    <2>3. Sent(c) = acc[c]
      BY <1>4, <2>1 DEF Sent
    <2>4. Len(acc[c]) # 3
      BY <1>0, <1>1 DEF Progress, Receiving
    <2>5. QED
      BY <2>2, <2>3, <2>4
  <1>7. GaveUp(c)'
    BY <1>0, <1>2, <1>5, <1>6 DEF Agreement, EndOpen, GaveUp
  <1>8. at'[c] = "loop"
    BY <1>0, <1>1 DEF TypeOK
  <1>9. Over(c)'
    BY <1>7, <1>8 DEF Over
  <1>10. QED
    BY <1>0, <1>3, <1>9, DaemonSideAgreement

\* The head of the loop ends a session by its state, its timeout or a signal.
LEMMA LoopAgreement ==
    ASSUME DemoInv, NEW c \in Conns, LoopTop(c), UNCHANGED clientVars
    PROVE  Agreement(c)'
  <1>0. TypeOK /\ Agreement(c)
    BY DEF DemoInv, SessionInv
  <1>1. /\ at[c] = "loop" /\ UNCHANGED <<server_running, stale, inq, peer, out, acc>>
    BY DEF LoopTop
  <1>2. UNCHANGED <<cpc, crd, cgot, cres>>
    BY DEF clientVars
  <1>3. Sent(c)' = Sent(c) /\ Told(c)' /\ EndOpen(c)'
    BY <1>0, <1>1, <1>2 DEF Agreement, Told, EndOpen, Sent
  <1>4. at \in [Conns -> Places] /\ state \in [Conns -> SessionStates]
    BY <1>0 DEF TypeOK
  <1>5. /\ at'[c] = "exit" => state'[c] \in {"COMPLETED", "ERROR"} \/ ~server_running'
        /\ at'[c] \in {"recv", "prep", "exit"}
        /\ state'[c] = "ERROR" => (stale'[c] /\ at'[c] = "exit") \/ state[c] = "ERROR"
    BY <1>1, <1>4 DEF LoopTop, Receiving, SessionStates
  <1>6. state[c] = "ERROR" => \/ Len(out[c]) = 2 /\ out[c][2].status # "SUCCESS"
                              \/ GaveUp(c)
    BY <1>0, <1>1 DEF Agreement, Over
  <1>7. Over(c)'
    BY <1>1, <1>2, <1>5, <1>6 DEF Over, GaveUp
  <1>8. QED
    BY <1>0, <1>3, <1>7, DaemonSideAgreement

\* Every step of main, of a session and of the clock keeps the agreement.
LEMMA DaemonAgreement ==
    ASSUME DemoInv, DaemonStep, NEW d \in Conns
    PROVE  Agreement(d)'
  <1>0. TypeOK /\ Agreement(d)
    BY DEF DemoInv, SessionInv
  <1>1. UNCHANGED clientVars /\ UNCHANGED <<cpc, crd, cgot, cres>>
    BY DEF DaemonStep, clientVars
  <1>2. at \in [Conns -> Places] /\ stale \in [Conns -> BOOLEAN]
    BY <1>0 DEF TypeOK
  <1> USE DEF mainVars, sessVars
  <1>3. CASE HandleSig \/ LoopTest \/ AcceptClosed \/ AcceptError \/ CountUp \/ Exit
    <2>1. /\ UNCHANGED <<at, state, stale, inq, peer, out, acc>>
          /\ ~server_running => ~server_running'
      BY <1>3 DEF HandleSig, LoopTest, AcceptClosed, AcceptError, BreakLoop, CountUp, Exit
    <2>2. QED
      BY <1>0, <1>1, <2>1, SameAgreement
  <1>4. ASSUME NEW c \in Conns, Accept(c) \/ Refuse(c) \/ Spawn(c) \/ SpawnFails(c)
        PROVE  Agreement(d)'
    <2>1. UNCHANGED <<server_running, state, stale, inq, peer, out, acc>>
      BY <1>4 DEF Accept, Refuse, Spawn, SpawnFails
    <2>2. at[c] \in {"backlog", "held"}
      BY <1>0, <1>4 DEF Accept, Refuse, Spawn, SpawnFails, TypeOK
    <2>3. PICK p \in {"held", "refused", "loop", "orphan"} : at' = [at EXCEPT ![c] = p]
      BY <1>4 DEF Accept, Refuse, Spawn, SpawnFails
    <2>4. at'[d] = at[d] \/ {at'[d], at[d]} \cap {"exit", "closed", "done"} = {}
      BY <1>2, <2>2, <2>3
    <2>5. QED
      BY <1>0, <1>1, <2>1, <2>4, SameAgreement
  <1>5. ASSUME NEW c \in Conns, Elapse(c) PROVE Agreement(d)'
    <2>1. /\ UNCHANGED <<server_running, at, state, inq, peer, out, acc>>
          /\ stale' = [stale EXCEPT ![c] = TRUE]
      BY <1>5 DEF Elapse
    <2>2. stale[d] => stale'[d]
      BY <1>2, <2>1, Zenon
    <2>3. QED
      BY <1>0, <1>1, <2>1, <2>2, SameAgreement
  <1>6. ASSUME NEW c \in Conns, SessionStep(c) PROVE Agreement(d)'
    <2>1. CASE d # c
      BY <1>0, <1>1, <1>6, <2>1, SessionLocal, SameAgreement
    <2>2. CASE d = c
      <3>1. CASE LoopTop(c)
        BY <1>1, <2>2, <3>1, LoopAgreement
      <3>2. CASE RecvError(c)
        BY <1>1, <2>2, <3>2, ErrorAgreement
      <3>3. CASE CloseFd(c) \/ CountDown(c)
        <4>1. /\ UNCHANGED <<server_running, state, stale, inq, peer, out, acc>>
              /\ at[c] \in {"exit", "closed"}
          BY <3>3 DEF CloseFd, CountDown
        <4>2. at'[c] \in {"closed", "done"}
          BY <1>2, <3>3 DEF CloseFd, CountDown
        <4>3. QED
          BY <1>0, <1>1, <2>2, <4>1, <4>2, SameAgreement
      <3>4. ASSUME NEW status \in PrepStatus, Prepare(c, status) PROVE Agreement(d)'
        BY <1>1, <2>2, <3>4, PrepareAgreement
      <3>5. ASSUME NEW f \in ClientFrames, RecvRequest(c, f) PROVE Agreement(d)'
        BY <1>1, <2>2, <3>5, RequestAgreement
      <3>6. ASSUME NEW f \in ClientFrames, RecvResult(c, f) PROVE Agreement(d)'
        BY <1>1, <2>2, <3>6, ResultAgreement
      <3>7. ASSUME NEW f \in ClientFrames, RecvBadVersion(c, f) \/ RecvOther(c, f)
            PROVE  FALSE
        <4>1. NetRecv(c, f) /\ (f.major # Major \/ f.type # Expected[state[c]])
          BY <3>7 DEF RecvBadVersion, RecvOther
        <4>2. QED
          BY <4>1, ReceivesNext
      <3>8. QED
        BY <1>6, <3>1, <3>2, <3>3, <3>4, <3>5, <3>6, <3>7 DEF SessionStep
    <2>3. QED
      BY <2>1, <2>2
  <1>7. QED
    BY <1>3, <1>4, <1>5, <1>6 DEF DaemonStep, MainStep

\* A step of a client changes what belongs to its own connection.
LEMMA ClientLocal ==
    ASSUME TypeOK, DemoTypeOK, NEW c \in Conns, DemoClient(c)
    PROVE  /\ UNCHANGED <<server_running, state, stale, out, acc>>
           /\ \A d \in Conns \ {c} :
                /\ at'[d] = at[d] /\ inq'[d] = inq[d] /\ peer'[d] = peer[d]
                /\ cpc'[d] = cpc[d] /\ crd'[d] = crd[d]
                /\ cgot'[d] = cgot[d] /\ cres'[d] = cres[d]
  <1>1. /\ at \in [Conns -> Places] /\ inq \in [Conns -> Seq(ClientFrames)]
        /\ peer \in [Conns -> PeerStates]
        /\ DOMAIN cpc = Conns /\ cgot \in [Conns -> Nat] /\ DOMAIN cres = Conns
        /\ crd \in [Conns -> Nat]
    BY DEF TypeOK, DemoTypeOK
  <1> USE DEF mainVars, sessVars
  <1>2. ASSUME NEW p, GoTo(c, p) PROVE \A d \in Conns \ {c} : cpc'[d] = cpc[d]
    BY <1>1, <1>2 DEF GoTo
  <1>3. ASSUME NEW r, Finish(c, r)
        PROVE  /\ UNCHANGED <<server_running, state, stale, out, acc, at, inq>>
               /\ \A d \in Conns \ {c} :
                    peer'[d] = peer[d] /\ cpc'[d] = cpc[d] /\ cres'[d] = cres[d]
    BY <1>1, <1>2, <1>3 DEF Finish, ClientLeave
  <1>4. ASSUME NEW f, ClientSend(c, f)
        PROVE  /\ UNCHANGED <<server_running, state, stale, out, acc, at, peer>>
               /\ \A d \in Conns \ {c} : inq'[d] = inq[d]
    BY <1>1, <1>4 DEF ClientSend
  <1>5. ASSUME NEW n, Take(c, n)
        PROVE  \A d \in Conns \ {c} : cgot'[d] = cgot[d] /\ crd'[d] = crd[d]
    BY <1>1, <1>5 DEF Take
  <1>6. CASE DemoConnect(c)
    BY <1>1, <1>2, <1>6 DEF DemoConnect, Connect
  <1>7. CASE DemoRequest(c)
    BY <1>2, <1>4, <1>7 DEF DemoRequest
  <1>8. CASE SelectTimeout(c) \/ TakeClosed(c) \/ DemoClose(c)
    BY <1>3, <1>8 DEF SelectTimeout, TakeClosed, DemoClose
  <1>9. CASE \E n \in 1..2 : TakeProper(c, n)
    BY <1>2, <1>5, <1>9 DEF TakeProper, vars
  <1>10. CASE \E n \in 1..2 : TakeImproper(c, n)
    BY <1>3, <1>5, <1>10 DEF TakeImproper
  <1>11. CASE \E status \in {"SUCCESS", "FAILED"} : DemoLogin(c, status)
    BY <1>2, <1>4, <1>11 DEF DemoLogin
  <1>12. CASE \E status \in {"SUCCESS", "FAILED"} : DemoDownload(c, status)
    BY <1>2, <1>4, <1>12 DEF DemoDownload
  <1>13. QED
    BY <1>6, <1>7, <1>8, <1>9, <1>10, <1>11, <1>12 DEF DemoClient

\* A frame sent is one more frame of the client's.
LEMMA ClientSendAppends ==
    ASSUME TypeOK, NEW c \in Conns, NEW f \in ClientFrames, ClientSend(c, f)
    PROVE  /\ Len(Sent(c)') = Len(Sent(c)) + 1 /\ Len(Sent(c)) \in Nat
           /\ Sent(c)'[Len(Sent(c)) + 1] = f
           /\ \A i \in 1..Len(Sent(c)) : Sent(c)'[i] = Sent(c)[i]
  <1>1. acc[c] \in Seq(ClientFrames) /\ inq[c] \in Seq(ClientFrames)
    BY DEF TypeOK
  <1>2. acc'[c] = acc[c] /\ inq'[c] = Append(inq[c], f)
    BY DEF ClientSend, TypeOK
  <1>3. acc[c] \o Append(inq[c], f) = Append(acc[c] \o inq[c], f)
    <2>1. \A a, q \in Seq(ClientFrames) : a \o Append(q, f) = Append(a \o q, f)
      BY AppendToConcat
    <2>2. QED
      BY <1>1, <2>1, Zenon
  <1>4. Sent(c) \in Seq(ClientFrames)
    BY <1>1 DEF Sent
  <1>5. Sent(c)' = Append(Sent(c), f)
    BY <1>2, <1>3 DEF Sent
  <1>6. QED
    BY <1>4, <1>5, AppendFacts

\* The script with one more frame.
LEMMA NextScript ==
    ASSUME NEW c, NEW s, NEW t, NEW f, NEW p, Script(c, s),
           Len(s) \in Nat, Len(t) = Len(s) + 1, t[Len(s) + 1] = f,
           \A i \in 1..Len(s) : t[i] = s[i],
           cpc'[c] = p, cres'[c] = "none",
           \/ cpc[c] = "request" /\ p = "ack" /\ f.type = "UPLOAD_REQUEST"
           \/ /\ cpc[c] = "login" /\ f.type = "FTP_LOGIN_RESULT"
              /\ IF f.status = "SUCCESS" THEN p = "download" ELSE p = "failed"
           \/ /\ cpc[c] = "download" /\ f.type = "FTP_DOWNLOAD_RESULT"
              /\ IF f.status = "SUCCESS" THEN p = "ok" ELSE p = "failed"
    PROVE  Script(c, t)'
  <1>1. CASE cpc[c] = "request"
    <2>1. Len(s) = 0
      BY <1>1 DEF Script
    <2>2. Len(t) = 1 /\ t[1] = f /\ p = "ack" /\ f.type = "UPLOAD_REQUEST"
      BY <1>1, <2>1
    <2>3. QED
      BY <2>2 DEF Script, Succeeded, GaveUp
  <1>2. CASE cpc[c] = "login"
    <2>1. Len(s) = 1 /\ s[1].type = "UPLOAD_REQUEST"
      <3>1. Len(s) = 1
        BY <1>2 DEF Script
      <3>2. s[1].type = "UPLOAD_REQUEST"
        BY <3>1 DEF Script
      <3>3. QED
        BY <3>1, <3>2
    <2>2. Len(t) = 2 /\ t[2] = f /\ t[1] = s[1]
      BY <2>1
    <2>3. /\ p = IF f.status = "SUCCESS" THEN "download" ELSE "failed"
          /\ f.type = "FTP_LOGIN_RESULT"
      BY <1>2
    <2>4. ~Succeeded(c)'
      BY <2>3 DEF Succeeded
    <2>5. QED
      BY <2>1, <2>2, <2>3, <2>4 DEF Script
  <1>3. CASE cpc[c] = "download"
    <2>1. /\ Len(s) = 2 /\ s[1].type = "UPLOAD_REQUEST"
          /\ s[2].type = "FTP_LOGIN_RESULT" /\ s[2].status = "SUCCESS"
      <3>1. Len(s) = 2 /\ s[2].status = "SUCCESS"
        BY <1>3 DEF Script
      <3>2. Len(s) >= 1 /\ Len(s) >= 2
        BY <3>1
      <3>3. s[1].type = "UPLOAD_REQUEST" /\ s[2].type = "FTP_LOGIN_RESULT"
        BY <3>2 DEF Script
      <3>4. QED
        BY <3>1, <3>3
    <2>2. Len(t) = 3 /\ t[3] = f /\ t[1] = s[1] /\ t[2] = s[2]
      BY <2>1
    <2>3. QED
      <3>1. /\ p = IF f.status = "SUCCESS" THEN "ok" ELSE "failed"
            /\ f.type = "FTP_DOWNLOAD_RESULT"
        BY <1>3
      <3>2. /\ Succeeded(c)' => f.status = "SUCCESS"
            /\ GaveUp(c)' => f.status # "SUCCESS"
        BY <3>1 DEF Succeeded, GaveUp
      <3>3. QED
        BY <2>1, <2>2, <3>1, <3>2 DEF Script
  <1>4. QED
    BY <1>1, <1>2, <1>3

\* The client sends its next frame.
LEMMA SendAgreement ==
    ASSUME DemoInv, NEW c \in Conns, NEW f \in ClientFrames, NEW p,
           ClientSend(c, f), GoTo(c, p), UNCHANGED <<crd, cgot, cres>>,
           \/ cpc[c] = "request" /\ p = "ack" /\ f.type = "UPLOAD_REQUEST"
           \/ /\ cpc[c] = "login" /\ f.type = "FTP_LOGIN_RESULT"
              /\ IF f.status = "SUCCESS" THEN p = "download" ELSE p = "failed"
           \/ /\ cpc[c] = "download" /\ f.type = "FTP_DOWNLOAD_RESULT"
              /\ IF f.status = "SUCCESS" THEN p = "ok" ELSE p = "failed"
    PROVE  Agreement(c)'
  <1>0. TypeOK /\ Agreement(c) /\ DemoTypeOK /\ Script(c, Sent(c))
    BY DEF DemoInv, SessionInv, Agreement
  <1>1. /\ UNCHANGED <<server_running, at, state, stale, peer, out, acc>>
        /\ inq' = [inq EXCEPT ![c] = Append(@, f)]
    BY DEF ClientSend
  <1>2. /\ acc[c] \in Seq(ClientFrames) /\ inq[c] \in Seq(ClientFrames)
        /\ inq \in [Conns -> Seq(ClientFrames)] /\ DOMAIN cpc = Conns
    BY <1>0 DEF TypeOK, DemoTypeOK
  <1>3. cpc'[c] = p /\ cres'[c] = cres[c] /\ cgot'[c] = cgot[c]
    BY <1>2 DEF GoTo
  <1>4. crd'[c] = crd[c]
    OBVIOUS
  <1>5. /\ Len(Sent(c)') = Len(Sent(c)) + 1 /\ Len(Sent(c)) \in Nat
        /\ Sent(c)'[Len(Sent(c)) + 1] = f
        /\ \A i \in 1..Len(Sent(c)) : Sent(c)'[i] = Sent(c)[i]
    BY <1>0, ClientSendAppends
  <1>6. cres[c] = "none"
    BY <1>0 DEF Agreement, EndOpen
  <1>7. Script(c, Sent(c))'
    <2>1. cpc'[c] = p /\ cres'[c] = "none" /\ Script(c, Sent(c))
      BY <1>0, <1>3, <1>6
    <2>2. \A s, t : /\ Script(c, s) /\ Len(s) \in Nat /\ Len(t) = Len(s) + 1
                    /\ t[Len(s) + 1] = f /\ \A i \in 1..Len(s) : t[i] = s[i]
                    => Script(c, t)'
      BY <2>1, NextScript
    <2>3. QED
      BY <1>5, <2>1, <2>2, Zenon
  <1>8. Told(c)'
    BY <1>0, <1>1, <1>3, <1>4 DEF Agreement, Told
  <1>9. EndOpen(c)'
    BY <1>0, <1>1, <1>3, <1>6 DEF Agreement, EndOpen
  <1>10. Over(c)'
    BY <1>0, <1>1, <1>3, <1>6 DEF Agreement, Over, GaveUp
  <1>11. QED
    BY <1>7, <1>8, <1>9, <1>10 DEF Agreement

\* The client closes its end: after a good download, or giving up.
LEMMA FinishAgreement ==
    ASSUME DemoInv, NEW c \in Conns, NEW r \in {"ok", "failed", "timeout"}, Finish(c, r),
           r = "ok" => cpc[c] = "ok" /\ cgot' = cgot /\ crd' = crd,
           crd'[c] \in Nat, cgot'[c] <= crd'[c],
           cpc[c] = "ok" => r = "ok",
           cpc[c] \in {"ack", "notify", "ok", "failed"}
    PROVE  Agreement(c)'
  <1>0. TypeOK /\ Agreement(c) /\ DemoTypeOK /\ Script(c, Sent(c))
    BY DEF DemoInv, SessionInv, Agreement
  <1>1. /\ UNCHANGED <<server_running, at, state, stale, inq, out, acc>>
        /\ peer' = [peer EXCEPT ![c] = IF crd'[c] < Len(out[c]) THEN "reset" ELSE "fin"]
        /\ cpc' = [cpc EXCEPT ![c] = "end"] /\ cres' = [cres EXCEPT ![c] = r]
    BY DEF Finish, ClientLeave, GoTo
  <1>2. /\ peer'[c] = IF crd'[c] < Len(out[c]) THEN "reset" ELSE "fin"
        /\ cpc'[c] = "end" /\ cres'[c] = r
    BY <1>0, <1>1 DEF TypeOK, DemoTypeOK
  <1>10. ASSUME r = "ok" PROVE peer'[c] = "fin"
    <2>1. cgot[c] = 2 /\ Len(out[c]) = 2 /\ cgot'[c] = cgot[c]
      BY <1>0, <1>10 DEF Agreement, Told
    <2>2. ~(crd'[c] < Len(out[c]))
      BY <2>1
    <2>3. QED
      BY <1>2, <2>2
  <1>3. Sent(c)' = Sent(c)
    BY <1>1 DEF Sent
  <1>4. GaveUp(c) => GaveUp(c)'
    BY <1>0, <1>2 DEF Agreement, EndOpen, GaveUp
  <1>5. Script(c, Sent(c))'
    <2>1. Len(Sent(c)) \in 0..3
      BY <1>0 DEF Script
    <2>2. CASE r = "ok"
      BY <1>0, <1>2, <1>3, <2>2 DEF Script, Succeeded, GaveUp
    <2>3. CASE r # "ok"
      <3>1. Len(Sent(c)) # 3 \/ Sent(c)[3].status # "SUCCESS"
        BY <1>0, <2>1, <2>3 DEF Script, GaveUp
      <3>2. QED
        BY <1>0, <1>2, <1>3, <2>3, <3>1 DEF Script, Succeeded, GaveUp
    <2>4. QED
      BY <2>2, <2>3
  <1>6. Told(c)'
    BY <1>0, <1>1, <1>2 DEF Agreement, Told
  <1>7. EndOpen(c)'
    BY <1>2, <1>10 DEF EndOpen
  <1>8. Over(c)'
    BY <1>0, <1>1, <1>4 DEF Agreement, Over
  <1>9. QED
    BY <1>5, <1>6, <1>7, <1>8 DEF Agreement

\* lucp_net_recv returns only what was read.
LEMMA TakeReads ==
    ASSUME DemoTypeOK, NEW c \in Conns, NEW n \in 1..2, Take(c, n)
    PROVE  crd'[c] \in Nat /\ cgot'[c] <= crd'[c]
  <1>1. crd \in [Conns -> Nat] /\ cgot \in [Conns -> Nat] /\ cgot[c] \in Nat /\ n \in Nat
    BY DEF DemoTypeOK
  <1>2. crd'[c] = n /\ cgot'[c] = cgot[c] + 1 /\ n > cgot[c]
    BY <1>1 DEF Take
  <1>3. QED
    BY <1>1, <1>2

\* The client takes the reply it waits for.
LEMMA TakeAgreement ==
    ASSUME DemoInv, NEW c \in Conns, NEW n \in 1..2, TakeProper(c, n)
    PROVE  Agreement(c)'
  <1>0. TypeOK /\ Agreement(c) /\ DemoTypeOK /\ Progress(c)
    BY DEF DemoInv, SessionInv
  <1>10. cgot'[c] <= crd'[c]
    BY <1>0, TakeReads DEF TakeProper
  <1>1. /\ UNCHANGED <<server_running, at, state, stale, inq, peer, out, acc>>
        /\ cres' = cres /\ cgot' = [cgot EXCEPT ![c] = @ + 1]
        /\ cpc' = [cpc EXCEPT ![c] = IF cpc[c] = "ack" THEN "notify" ELSE "login"]
        /\ cpc[c] \in {"ack", "notify"}
        /\ n \in crd[c]..Len(out[c]) /\ n > cgot[c]
        /\ Proper(c, out[c][cgot[c] + 1])
    BY DEF TakeProper, Take, GoTo, vars, WaitingFor
  <1>2. /\ cpc'[c] = IF cpc[c] = "ack" THEN "notify" ELSE "login"
        /\ cgot'[c] = cgot[c] + 1 /\ cgot[c] \in Nat
    BY <1>0, <1>1 DEF DemoTypeOK
  <1>3. Sent(c)' = Sent(c)
    BY <1>1 DEF Sent
  <1>4. cres[c] = "none" /\ cres'[c] = "none"
    BY <1>0, <1>1 DEF Agreement, EndOpen
  <1>5. Script(c, Sent(c))'
    BY <1>0, <1>1, <1>2, <1>3, <1>4 DEF Agreement, Script, Succeeded, GaveUp
  <1>6. Told(c)'
    <2>1. CASE cpc[c] = "ack"
      BY <1>0, <1>2, <1>4, <1>10, <2>1 DEF Agreement, Told
    <2>2. CASE cpc[c] = "notify"
      <3>1. cgot[c] = 1
        BY <1>0, <2>2 DEF Agreement, Told
      <3>2. Len(out[c]) \in 0..2 /\ crd[c] \in Nat
        <4>1. out[c] \in Seq(Replies) /\ crd[c] \in Nat /\ Len(out[c]) <= 2
          BY <1>0 DEF TypeOK, DemoTypeOK, Progress, InOrder
        <4>2. \A k \in Nat : k <= 2 => k \in 0..2
          OBVIOUS
        <4>3. Len(out[c]) \in Nat
          BY <4>1
        <4>4. QED
          BY <4>1, <4>2, <4>3, Zenon
      <3>3. Len(out[c]) = 2
        BY <1>1, <3>1, <3>2
      <3>4. out[c][2].status = "SUCCESS"
        BY <1>1, <2>2, <3>1 DEF Proper
      <3>5. QED
        BY <1>1, <1>2, <1>4, <1>10, <2>2, <3>1, <3>3, <3>4 DEF Told
    <2>3. QED
      BY <1>1, <2>1, <2>2
  <1>7. EndOpen(c)'
    BY <1>0, <1>1, <1>2, <1>4 DEF Agreement, EndOpen
  <1>8. Over(c)'
    BY <1>0, <1>1, <1>2, <1>4 DEF Agreement, Over, GaveUp
  <1>9. QED
    BY <1>5, <1>6, <1>7, <1>8 DEF Agreement

\* Every step of a client keeps the agreement.
LEMMA ClientAgreement ==
    ASSUME DemoInv, NEW c \in Conns, DemoClient(c), NEW d \in Conns
    PROVE  Agreement(d)'
  <1>0. TypeOK /\ DemoTypeOK /\ Agreement(c) /\ Agreement(d)
    BY DEF DemoInv, SessionInv
  <1>1. CASE d # c
    BY <1>0, <1>1, ClientLocal, SameAgreement
  <1>2. CASE d = c
    <2>1. CASE DemoConnect(c)
      <3>1. /\ UNCHANGED <<server_running, state, stale, inq, peer, out, acc, crd, cgot, cres>>
            /\ at[c] = "away" /\ cpc[c] = "connect"
            /\ at' = [at EXCEPT ![c] = "backlog"] /\ cpc' = [cpc EXCEPT ![c] = "request"]
        BY <2>1 DEF DemoConnect, Connect, GoTo, sessVars
      <3>2. at'[c] = "backlog" /\ cpc'[c] = "request"
        BY <1>0, <3>1 DEF TypeOK, DemoTypeOK
      <3>3. cres[c] = "none" /\ cres'[c] = "none"
        BY <1>0, <3>1 DEF Agreement, EndOpen
      <3>4. Sent(c)' = Sent(c)
        BY <3>1 DEF Sent
      <3>5. Script(c, Sent(c))'
        BY <1>0, <3>1, <3>2, <3>3, <3>4 DEF Agreement, Script, Succeeded, GaveUp
      <3>6. Told(c)' /\ EndOpen(c)'
        BY <1>0, <3>1, <3>2, <3>3 DEF Agreement, Told, EndOpen
      <3>7. Over(c)'
        BY <1>0, <3>1, <3>2, <3>3 DEF Agreement, Over, GaveUp
      <3>8. QED
        BY <1>2, <3>5, <3>6, <3>7 DEF Agreement
    <2>2. CASE DemoRequest(c)
      <3> DEFINE f == DemoFrame("UPLOAD_REQUEST", "FAILED")
      <3>1. f \in ClientFrames /\ f.type = "UPLOAD_REQUEST"
        BY DemoFrameIn DEF DemoFrame
      <3>2. ClientSend(c, f) /\ GoTo(c, "ack") /\ UNCHANGED <<crd, cgot, cres>> /\ cpc[c] = "request"
        BY <2>2 DEF DemoRequest
      <3> HIDE DEF f
      <3>3. QED
        BY <1>2, <3>1, <3>2, SendAgreement
    <2>3. ASSUME NEW status \in {"SUCCESS", "FAILED"}, DemoLogin(c, status)
          PROVE  Agreement(d)'
      <3> DEFINE f == DemoFrame("FTP_LOGIN_RESULT", status)
      <3>1. f \in ClientFrames /\ f.type = "FTP_LOGIN_RESULT" /\ f.status = status
        BY DemoFrameIn DEF DemoFrame
      <3>2. /\ ClientSend(c, f) /\ cpc[c] = "login" /\ UNCHANGED <<crd, cgot, cres>>
            /\ GoTo(c, IF status = "SUCCESS" THEN "download" ELSE "failed")
        BY <2>3 DEF DemoLogin
      <3> HIDE DEF f
      <3>3. QED
        BY <1>2, <3>1, <3>2, SendAgreement
    <2>4. ASSUME NEW status \in {"SUCCESS", "FAILED"}, DemoDownload(c, status)
          PROVE  Agreement(d)'
      <3> DEFINE f == DemoFrame("FTP_DOWNLOAD_RESULT", status)
      <3>1. f \in ClientFrames /\ f.type = "FTP_DOWNLOAD_RESULT" /\ f.status = status
        BY DemoFrameIn DEF DemoFrame
      <3>2. /\ ClientSend(c, f) /\ cpc[c] = "download" /\ UNCHANGED <<crd, cgot, cres>>
            /\ GoTo(c, IF status = "SUCCESS" THEN "ok" ELSE "failed")
        BY <2>4 DEF DemoDownload
      <3> HIDE DEF f
      <3>3. QED
        BY <1>2, <3>1, <3>2, SendAgreement
    <2>5. CASE SelectTimeout(c) \/ TakeClosed(c)
      <3>1. /\ cpc[c] \in {"ack", "notify"}
            /\ Finish(c, "timeout") \/ Finish(c, "failed")
            /\ crd'[c] \in Nat /\ cgot'[c] <= crd'[c]
        BY <1>0, <2>5 DEF SelectTimeout, TakeClosed, WaitingFor, DemoTypeOK, Agreement, Told
      <3>2. QED
        BY <1>2, <3>1, FinishAgreement
    <2>6. CASE DemoClose(c)
      <3>1. /\ cpc[c] \in {"ok", "failed"} /\ Finish(c, cpc[c]) /\ cgot' = cgot /\ crd' = crd
            /\ crd'[c] \in Nat /\ cgot'[c] <= crd'[c]
        BY <1>0, <2>6 DEF DemoClose, DemoTypeOK, Agreement, Told
      <3>2. QED
        BY <1>2, <3>1, FinishAgreement
    <2>7. ASSUME NEW n \in 1..2, TakeImproper(c, n) PROVE Agreement(d)'
      <3>1. cpc[c] \in {"ack", "notify"} /\ Finish(c, "failed")
        BY <2>7 DEF TakeImproper, Take, WaitingFor
      <3>2. crd'[c] \in Nat /\ cgot'[c] <= crd'[c]
        BY <1>0, <2>7, TakeReads DEF TakeImproper
      <3>3. QED
        BY <1>2, <3>1, <3>2, FinishAgreement
    <2>8. ASSUME NEW n \in 1..2, TakeProper(c, n) PROVE Agreement(d)'
      BY <1>2, <2>8, TakeAgreement
    <2>9. QED
      BY <2>1, <2>2, <2>3, <2>4, <2>5, <2>6, <2>7, <2>8 DEF DemoClient
  <1>3. QED
    BY <1>1, <1>2

\* The client's variables keep their types.
LEMMA DemoTypePreserved ==
    ASSUME DemoTypeOK, [DemoNext]_demoVars
    PROVE  DemoTypeOK'
  <1>1. CASE UNCHANGED clientVars
    BY <1>1 DEF clientVars, DemoTypeOK
  <1>2. ASSUME NEW c \in Conns, DemoClient(c) PROVE DemoTypeOK'
    <2> USE DEF DemoTypeOK, GoTo
    <2>1. CASE DemoConnect(c) \/ DemoRequest(c)
      BY <2>1 DEF DemoConnect, DemoRequest
    <2>2. CASE SelectTimeout(c) \/ TakeClosed(c) \/ DemoClose(c)
      BY <2>2 DEF SelectTimeout, TakeClosed, DemoClose, Finish
    <2>3. ASSUME NEW n \in 1..2, TakeProper(c, n) \/ TakeImproper(c, n) PROVE DemoTypeOK'
      <3>1. crd' \in [Conns -> Nat] /\ cgot' \in [Conns -> Nat]
        <4>1. /\ crd' = [crd EXCEPT ![c] = n] /\ cgot' = [cgot EXCEPT ![c] = @ + 1]
              /\ n \in Nat
          BY <2>3 DEF TakeProper, TakeImproper, Take
        <4>2. QED
          BY <4>1
      <3>2. QED
        BY <2>3, <3>1 DEF TakeProper, TakeImproper, Finish
    <2>4. ASSUME NEW status \in {"SUCCESS", "FAILED"},
                 DemoLogin(c, status) \/ DemoDownload(c, status)
          PROVE  DemoTypeOK'
      BY <2>4 DEF DemoLogin, DemoDownload
    <2>5. QED
      BY <1>2, <2>1, <2>2, <2>3, <2>4 DEF DemoClient
  <1>3. QED
    BY <1>1, <1>2 DEF DemoNext, DaemonStep, demoVars

\* Every step of the composition keeps the invariant.
LEMMA DemoStepPreserves == DemoInv /\ [DemoNext]_demoVars => DemoInv'
  <1> SUFFICES ASSUME DemoInv, [DemoNext]_demoVars PROVE DemoInv'
    OBVIOUS
  <1>1. SessionInv'
    BY DemoStepImplements, SessionStepPreserves DEF DemoInv
  <1>2. DemoTypeOK'
    BY DemoTypePreserved DEF DemoInv
  <1>3. ASSUME NEW d \in Conns PROVE Agreement(d)'
    <2>1. CASE DaemonStep
      BY <2>1, DaemonAgreement
    <2>2. ASSUME NEW c \in Conns, DemoClient(c) PROVE Agreement(d)'
      BY <2>2, ClientAgreement
    <2>3. CASE UNCHANGED demoVars
      <3>1. UNCHANGED <<server_running, at, state, stale, inq, peer, out, acc,
                        cpc, crd, cgot, cres>>
        BY <2>3 DEF demoVars, vars, clientVars
      <3>2. QED
        BY <3>1, SameAgreement DEF DemoInv
    <2>4. QED
      BY <2>1, <2>2, <2>3 DEF DemoNext
  <1>4. QED
    BY <1>1, <1>2, <1>3 DEF DemoInv

\* The client and the daemon always agree on what was sent and reported.
THEOREM DemoInvariant == DemoSpec => []DemoInv
  BY DemoInitInv, DemoStepPreserves, PTL DEF DemoSpec

\* An upload the daemon takes for complete was complete for its client too.
THEOREM CompletedIsAgreed == DemoSpec => []CompletedAgreed
  <1>1. DemoInv => CompletedAgreed
    <2> SUFFICES ASSUME DemoInv, NEW c \in Conns, state[c] = "COMPLETED"
                 PROVE  cgot[c] = 2 /\ (cpc[c] = "ok" \/ cres[c] = "ok")
      BY DEF CompletedAgreed
    <2>1. /\ TypeOK /\ Script(c, Sent(c)) /\ Told(c) /\ DemoTypeOK
          /\ Len(acc[c]) = 3 /\ acc[c][3].status = "SUCCESS"
      BY DEF DemoInv, SessionInv, Progress, Agreement, Reported
    <2>2. acc[c] \in Seq(ClientFrames) /\ inq[c] \in Seq(ClientFrames)
      BY <2>1 DEF TypeOK
    <2>3. Sent(c)[3] = acc[c][3] /\ Len(Sent(c)) = 3 + Len(inq[c]) /\ Len(inq[c]) \in Nat
      <3>1. /\ Len(acc[c] \o inq[c]) = Len(acc[c]) + Len(inq[c]) /\ Len(inq[c]) \in Nat
            /\ \A i \in 1..Len(acc[c]) : (acc[c] \o inq[c])[i] = acc[c][i]
        <4>1. \A a, q \in Seq(ClientFrames) :
                 /\ Len(a \o q) = Len(a) + Len(q) /\ Len(q) \in Nat
                 /\ \A i \in 1..Len(a) : (a \o q)[i] = a[i]
          BY ConcatFacts
        <4>2. QED
          BY <2>2, <4>1, Zenon
      <3>2. 3 \in 1..Len(acc[c])
        BY <2>1
      <3>3. QED
        BY <2>1, <3>1, <3>2 DEF Sent
    <2>4. Len(Sent(c)) = 3
      <3>1. Len(Sent(c)) \in 0..3
        BY <2>1 DEF Script
      <3>2. \A n \in Nat : 3 + n \in 0..3 => 3 + n = 3
        OBVIOUS
      <3>3. QED
        BY <2>3, <3>1, <3>2
    <2>5. /\ cpc[c] \notin {"connect", "request", "ack", "notify", "login", "download"}
          /\ ~GaveUp(c)
      BY <2>1, <2>3, <2>4 DEF Script
    <2>6. cpc[c] = "ok" \/ cres[c] = "ok"
      BY <2>1, <2>5 DEF DemoTypeOK, GaveUp
    <2>7. QED
      BY <2>1, <2>6 DEF Told
  <1>2. QED
    BY <1>1, DemoInvariant, PTL

\* A client that ended with success left a completed session behind, unless
\* the session timed out or the daemon was told to stop.
THEOREM SuccessIsAgreed == DemoSpec => []SuccessAgreed
  <1>1. DemoInv => SuccessAgreed
    <2> SUFFICES ASSUME DemoInv, NEW c \in Conns, cres[c] = "ok", at[c] = "done"
                 PROVE  state[c] = "COMPLETED" \/ stale[c] \/ ~server_running
      BY DEF SuccessAgreed
    <2>1. Told(c) /\ EndOpen(c) /\ Over(c)
      BY DEF DemoInv, Agreement
    <2>2. ~GaveUp(c) /\ out[c][2].status = "SUCCESS"
      BY <2>1 DEF Told, EndOpen, GaveUp
    <2>3. QED
      BY <2>1, <2>2 DEF Over
  <1>2. QED
    BY <1>1, DemoInvariant, PTL

\* The daemon drops no frame of a demo client and refuses none for its version.
THEOREM NoFrameDropped ==
    DemoSpec => [][\A c \in Conns, f \in ClientFrames :
                      ~RecvOther(c, f) /\ ~RecvBadVersion(c, f)]_demoVars
  <1>1. DemoInv => \A c \in Conns, f \in ClientFrames :
                      ~RecvOther(c, f) /\ ~RecvBadVersion(c, f)
    BY ReceivesNext DEF RecvOther, RecvBadVersion
  <1>2. QED
    BY <1>1, DemoInvariant, PTL
=============================================================================
