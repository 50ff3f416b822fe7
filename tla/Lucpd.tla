------------------------------- MODULE Lucpd -------------------------------
(***************************************************************************)
(* The upload daemon (lucpd/src/lucpd.c): the accept loop of main, one     *)
(* session_thread per connection, the counter client_count they share, and *)
(* the shutdown started by handle_sig.                                     *)
(*                                                                         *)
(* Frames travel as FrameChannel promises: lucp_net_recv returns the next  *)
(* frame of inq[c], or -1.  A connection c is one TCP connection; "at[c]"  *)
(* is where it is, from the client's connect() to the end of its thread.   *)
(* Time is one bit per session: stale[c] says that more than               *)
(* session_timeout_ms have passed since last_active_ms was set.            *)
(***************************************************************************)
EXTENDS Integers, Sequences, FiniteSets

CONSTANTS
    Conns,            \* the connections clients make
    MaxClients,       \* network.max_clients
    ValidateVersion,  \* protocol.validate_version
    Major,            \* LUCP_VER_MAJOR
    ClientFrames,     \* the frames clients send
    MaxQueue          \* bound: frames a client has in flight

FrameTypes == {"UPLOAD_REQUEST", "FTP_LOGIN_RESULT", "FTP_DOWNLOAD_RESULT",
               "MALFORMED"}

ASSUME LucpdAssumption ==
    /\ IsFiniteSet(Conns)
    /\ MaxClients \in Nat \ {0}
    /\ ValidateVersion \in BOOLEAN
    /\ ClientFrames \subseteq
         [type : FrameTypes, seq : Nat, status : STRING, major : Nat]
    /\ MaxQueue \in Nat

VARIABLES
    proc,            \* the process: "up", "exited", "sigpipe" or "segv"
    mpc,             \* where main is
    cur,             \* the connection main holds between accept and create
    listen_fd,       \* "open" or "closed"
    server_running,
    client_count,
    at,              \* where each connection is
    state,           \* sess->state
    seq_num,         \* sess->seq_num
    stale,           \* the session timeout has run out
    inq,             \* frames sent by the client and not yet received
    peer,            \* the client's end, see PeerStates
    out,             \* history: the frames handed to lucp_net_send
    acc              \* history: the frames that advanced the session

mainVars == <<mpc, cur, listen_fd>>
sessVars == <<state, seq_num, stale, inq, peer, out, acc>>
vars == <<proc, mpc, cur, listen_fd, server_running, client_count,
          at, state, seq_num, stale, inq, peer, out, acc>>

SessionStates == {"INIT", "WAITING_UPLOAD_REQUEST", "WAITING_FTP_LOGIN_RESULT",
                  "WAITING_FTP_DOWNLOAD_RESULT", "COMPLETED", "ERROR"}
Receiving == {"INIT", "WAITING_FTP_LOGIN_RESULT", "WAITING_FTP_DOWNLOAD_RESULT"}

\* "fin": the client closed.  "reset": it closed with replies unread, or was
\* killed, and an RST is waiting for the next call on the socket.  "rst": that
\* error was reported, or an RST answered a write; another write is EPIPE.
PeerStates == {"up", "fin", "reset", "rst"}
PrepStatus == {"SUCCESS", "ARCHIVE_FAILED", "FTP_UPLOAD_FAILED"}

\* "loop" to "closed": the connection has a session thread.
ThreadAt == {"loop", "recv", "prep", "exit", "closed"}
Places == {"away", "backlog", "held", "refused", "orphan", "done"} \cup ThreadAt

Live == {c \in Conns : at[c] \in ThreadAt}

\* Connections whose pthread_create failed: counted, but no thread is theirs.
Orphans == {c \in Conns : at[c] = "orphan"}

\* The connections that count against max_clients.
Occupying == Live \cup Orphans
-----------------------------------------------------------------------------
Init ==
    /\ proc = "up" /\ mpc = "test" /\ cur = {} /\ listen_fd = "open"
    /\ server_running = TRUE /\ client_count = 0
    /\ at = [c \in Conns |-> "away"]
    /\ state = [c \in Conns |-> "INIT"]
    /\ seq_num = [c \in Conns |-> 0]
    /\ stale = [c \in Conns |-> FALSE]
    /\ inq = [c \in Conns |-> <<>>]
    /\ peer = [c \in Conns |-> "up"]
    /\ out = [c \in Conns |-> <<>>]
    /\ acc = [c \in Conns |-> <<>>]
-----------------------------------------------------------------------------
(* The clients and the clock.                                              *)

Connect(c) ==
    /\ proc = "up" /\ at[c] = "away" /\ listen_fd = "open"
    /\ at' = [at EXCEPT ![c] = "backlog"]
    /\ UNCHANGED <<proc, mainVars, server_running, client_count, sessVars>>

ClientSend(c, f) ==
    /\ proc = "up" /\ at[c] # "away" /\ peer[c] = "up" /\ Len(inq[c]) < MaxQueue
    /\ inq' = [inq EXCEPT ![c] = Append(@, f)]
    /\ UNCHANGED <<proc, mainVars, server_running, client_count,
                   at, state, seq_num, stale, peer, out, acc>>

ClientLeave(c, how) ==
    /\ proc = "up" /\ at[c] # "away" /\ peer[c] = "up"
    /\ peer' = [peer EXCEPT ![c] = how]
    /\ UNCHANGED <<proc, mainVars, server_running, client_count,
                   at, state, seq_num, stale, inq, out, acc>>

\* More than session_timeout_ms have passed since last_active_ms.
Elapse(c) ==
    /\ proc = "up" /\ at[c] \in {"loop", "recv"} /\ ~stale[c]
    /\ stale' = [stale EXCEPT ![c] = TRUE]
    /\ UNCHANGED <<proc, mainVars, server_running, client_count,
                   at, state, seq_num, inq, peer, out, acc>>
-----------------------------------------------------------------------------
(* main and handle_sig.  The kernel gives a signal sent to the process to  *)
(* its main thread, so handle_sig runs between two steps of main and an    *)
(* accept() it interrupts is restarted on the closed descriptor.           *)

\* Mutant: the handler forgets to close the listening socket.
HandleSigKeepsListening ==
    /\ proc = "up" /\ server_running
    /\ server_running' = FALSE
    /\ UNCHANGED <<proc, mpc, cur, listen_fd, client_count, at, sessVars>>

HandleSig ==
    /\ proc = "up" /\ server_running
    /\ server_running' = FALSE
    /\ listen_fd' = "closed"
    /\ UNCHANGED <<proc, mpc, cur, client_count, at, sessVars>>

\* while (server_running); behind the loop, close(listen_fd).
LoopTest ==
    /\ proc = "up" /\ mpc = "test"
    /\ mpc' = IF server_running THEN "accept" ELSE "sleep"
    /\ listen_fd' = IF server_running THEN listen_fd ELSE "closed"
    /\ UNCHANGED <<proc, cur, server_running, client_count, at, sessVars>>

Accept(c) ==
    /\ proc = "up" /\ mpc = "accept" /\ listen_fd = "open" /\ at[c] = "backlog"
    /\ at' = [at EXCEPT ![c] = "held"]
    /\ mpc' = "check" /\ cur' = {c}
    /\ UNCHANGED <<proc, listen_fd, server_running, client_count, sessVars>>

BreakLoop ==
    /\ proc = "up"
    /\ mpc' = "sleep" /\ listen_fd' = "closed"
    /\ UNCHANGED <<proc, cur, server_running, client_count, at, sessVars>>

\* accept() on the closed descriptor fails ...
AcceptClosed == mpc = "accept" /\ listen_fd = "closed" /\ BreakLoop

\* ... and it may fail for other reasons: anything but EINTR ends the loop.
AcceptError == mpc = "accept" /\ listen_fd = "open" /\ BreakLoop

\* Mutant: > for >= in the test of client_count.
FullOffByOne == client_count > MaxClients

Full == client_count >= MaxClients

Refuse(c) ==
    /\ proc = "up" /\ mpc = "check" /\ c \in cur /\ Full
    /\ at' = [at EXCEPT ![c] = "refused"]
    /\ mpc' = "test" /\ cur' = {}
    /\ UNCHANGED <<proc, listen_fd, server_running, client_count, sessVars>>

\* calloc and pthread_create; the thread may run before main goes on.
Spawn(c) ==
    /\ proc = "up" /\ mpc = "check" /\ c \in cur /\ ~Full
    /\ at' = [at EXCEPT ![c] = "loop"]
    /\ mpc' = "count" /\ cur' = {}
    /\ UNCHANGED <<proc, listen_fd, server_running, client_count, sessVars>>

\* pthread_create fails; its result is not looked at, and pthread_detach
\* works on an uninitialised tid.
SpawnFails(c) ==
    /\ proc = "up" /\ mpc = "check" /\ c \in cur /\ ~Full
    /\ at' = [at EXCEPT ![c] = "orphan"]
    /\ proc' \in {"up", "segv"}
    /\ mpc' = "count" /\ cur' = {}
    /\ UNCHANGED <<listen_fd, server_running, client_count, sessVars>>

CountUp ==
    /\ proc = "up" /\ mpc = "count"
    /\ client_count' = client_count + 1
    /\ mpc' = "test"
    /\ UNCHANGED <<proc, cur, listen_fd, server_running, at, sessVars>>

\* sleep(1), then return from main, which ends every thread.
Exit ==
    /\ proc = "up" /\ mpc = "sleep"
    /\ proc' = "exited"
    /\ UNCHANGED <<mainVars, server_running, client_count, at, sessVars>>
-----------------------------------------------------------------------------
(* session_thread.                                                         *)

\* Mutant: the session timeout is not tested.
LoopTopNoTimeout(c) ==
    /\ proc = "up" /\ at[c] = "loop"
    /\ at' = [at EXCEPT ![c] =
         CASE server_running /\ state[c] \in Receiving -> "recv"
           [] server_running /\ state[c] = "WAITING_UPLOAD_REQUEST" -> "prep"
           [] OTHER -> "exit"]
    /\ UNCHANGED <<proc, mainVars, server_running, client_count, sessVars>>

\* The loop test, the timeout check and the switch; a terminal state leaves.
LoopTop(c) ==
    /\ proc = "up" /\ at[c] = "loop"
    /\ LET s == IF stale[c] THEN "ERROR" ELSE state[c]
       IN  IF server_running
           THEN /\ state' = [state EXCEPT ![c] = s]
                /\ at' = [at EXCEPT ![c] =
                     CASE s \in Receiving -> "recv"
                       [] s = "WAITING_UPLOAD_REQUEST" -> "prep"
                       [] OTHER -> "exit"]
           ELSE /\ at' = [at EXCEPT ![c] = "exit"]
                /\ UNCHANGED state
    /\ UNCHANGED <<proc, mainVars, server_running, client_count,
                   seq_num, stale, inq, peer, out, acc>>

Reply(c, type, seq, status) ==
    [type |-> type, seq |-> seq, status |-> status, written |-> peer[c] # "reset"]

\* lucp_net_send(c, r), whose result no caller looks at.  A write to a
\* connection the client has closed succeeds and is answered with RST; on one
\* the client has reset it returns -1 (ECONNRESET).  After either the next
\* write raises SIGPIPE, which lucpd does not handle.
NetSend(c, r) ==
    IF peer[c] = "rst"
    THEN proc' = "sigpipe" /\ UNCHANGED <<out, peer>>
    ELSE /\ out' = [out EXCEPT ![c] = Append(@, r)]
         /\ peer' = [peer EXCEPT ![c] = IF @ = "up" THEN "up" ELSE "rst"]
         /\ UNCHANGED proc

\* lucp_net_recv(c) returns 0 with frame f ...
NetRecv(c, f) ==
    /\ proc = "up" /\ at[c] = "recv" /\ inq[c] # <<>>
    /\ f = Head(inq[c]) /\ f.type # "MALFORMED"
    /\ inq' = [inq EXCEPT ![c] = Tail(@)]
    /\ at' = [at EXCEPT ![c] = "loop"]

\* Mutant: the end of the stream counts before the frames still in it.
NetRecvFailsEarly(c) ==
    \/ peer[c] # "up"
    \/ inq[c] # <<>> /\ Head(inq[c]).type = "MALFORMED"

\* ... or -1: end of stream, a reset connection, a corrupted frame.
NetRecvFails(c) ==
    \/ inq[c] = <<>> /\ peer[c] # "up"
    \/ peer[c] \in {"reset", "rst"}
    \/ inq[c] # <<>> /\ Head(inq[c]).type = "MALFORMED"

Advance(c, f, s) ==
    /\ state' = [state EXCEPT ![c] = s]
    /\ stale' = [stale EXCEPT ![c] = FALSE]
    /\ acc' = [acc EXCEPT ![c] = Append(@, f)]

\* case LUCP_SESSION_INIT, an upload request of a supported version.
RecvRequest(c, f) ==
    /\ state[c] = "INIT" /\ f.type = "UPLOAD_REQUEST"
    /\ ValidateVersion => f.major = Major
    /\ NetRecv(c, f)
    /\ seq_num' = [seq_num EXCEPT ![c] = f.seq]
    /\ Advance(c, f, "WAITING_UPLOAD_REQUEST")
    /\ NetSend(c, Reply(c, "ACK_START", f.seq, "SUCCESS"))
    /\ UNCHANGED <<mainVars, server_running, client_count>>

\* case LUCP_SESSION_INIT, an upload request of another major version.
RecvBadVersion(c, f) ==
    /\ state[c] = "INIT" /\ f.type = "UPLOAD_REQUEST"
    /\ ValidateVersion /\ f.major # Major
    /\ NetRecv(c, f)
    /\ state' = [state EXCEPT ![c] = "ERROR"]
    /\ NetSend(c, Reply(c, "ACK_START", f.seq, "FAILED"))
    /\ UNCHANGED <<mainVars, server_running, client_count,
                   seq_num, stale, acc>>

\* Mutant: the session goes on whatever became of the preparation.
PrepareIgnoresStatus(c, status) ==
    /\ proc = "up" /\ at[c] = "prep"
    /\ NetSend(c, Reply(c, "NOTIFY_DONE", seq_num[c], status))
    /\ state' = [state EXCEPT ![c] = "WAITING_FTP_LOGIN_RESULT"]
    /\ stale' = [stale EXCEPT ![c] = FALSE]
    /\ at' = [at EXCEPT ![c] = "loop"]
    /\ UNCHANGED <<mainVars, server_running, client_count, seq_num, inq, acc>>

\* Mutant: after the notification the session stays where it is.
PrepareAgain(c, status) ==
    /\ proc = "up" /\ at[c] = "prep"
    /\ NetSend(c, Reply(c, "NOTIFY_DONE", seq_num[c], status))
    /\ UNCHANGED state
    /\ stale' = [stale EXCEPT ![c] = FALSE]
    /\ at' = [at EXCEPT ![c] = "loop"]
    /\ UNCHANGED <<mainVars, server_running, client_count, seq_num, inq, acc>>

\* case LUCP_SESSION_WAITING_UPLOAD_REQUEST: 700 ms of preparation with some
\* outcome, the notification, and the next state.
Prepare(c, status) ==
    /\ proc = "up" /\ at[c] = "prep"
    /\ NetSend(c, Reply(c, "NOTIFY_DONE", seq_num[c], status))
    /\ state' = [state EXCEPT ![c] =
         IF status = "SUCCESS" THEN "WAITING_FTP_LOGIN_RESULT" ELSE "ERROR"]
    /\ stale' = [stale EXCEPT ![c] = FALSE]
    /\ at' = [at EXCEPT ![c] = "loop"]
    /\ UNCHANGED <<mainVars, server_running, client_count, seq_num, inq, acc>>

\* What a session waits for in each receiving state, and where it goes on.
Expected ==
    [INIT |-> "UPLOAD_REQUEST",
     WAITING_FTP_LOGIN_RESULT |-> "FTP_LOGIN_RESULT",
     WAITING_FTP_DOWNLOAD_RESULT |-> "FTP_DOWNLOAD_RESULT"]
AfterSuccess ==
    [WAITING_FTP_LOGIN_RESULT |-> "WAITING_FTP_DOWNLOAD_RESULT",
     WAITING_FTP_DOWNLOAD_RESULT |-> "COMPLETED"]

\* Mutant: a failed login or download is taken for a good one.
RecvResultAnyStatus(c, f) ==
    /\ state[c] \in DOMAIN AfterSuccess /\ f.type = Expected[state[c]]
    /\ NetRecv(c, f)
    /\ Advance(c, f, AfterSuccess[state[c]])
    /\ UNCHANGED <<proc, mainVars, server_running, client_count,
                   seq_num, peer, out>>

\* case WAITING_FTP_LOGIN_RESULT and case WAITING_FTP_DOWNLOAD_RESULT.
RecvResult(c, f) ==
    /\ state[c] \in DOMAIN AfterSuccess /\ f.type = Expected[state[c]]
    /\ NetRecv(c, f)
    /\ Advance(c, f, IF f.status = "SUCCESS" THEN AfterSuccess[state[c]]
                                             ELSE "ERROR")
    /\ UNCHANGED <<proc, mainVars, server_running, client_count,
                   seq_num, peer, out>>

\* A frame of another type is dropped, and last_active_ms stays.
RecvOther(c, f) ==
    /\ NetRecv(c, f)
    /\ f.type # Expected[state[c]]
    /\ UNCHANGED <<proc, mainVars, server_running, client_count,
                   state, seq_num, stale, peer, out, acc>>

\* Mutant: an error of lucp_net_recv is ignored.
RecvErrorIgnored(c) ==
    /\ proc = "up" /\ at[c] = "recv" /\ NetRecvFails(c)
    /\ at' = [at EXCEPT ![c] = "loop"]
    /\ UNCHANGED <<proc, mainVars, server_running, client_count,
                   state, seq_num, stale, inq, peer, out, acc>>

RecvError(c) ==
    /\ proc = "up" /\ at[c] = "recv" /\ NetRecvFails(c)
    /\ state' = [state EXCEPT ![c] = "ERROR"]
    /\ at' = [at EXCEPT ![c] = "loop"]
    /\ UNCHANGED <<proc, mainVars, server_running, client_count,
                   seq_num, stale, inq, peer, out, acc>>

\* close(sess->fd) and free(sess).
CloseFd(c) ==
    /\ proc = "up" /\ at[c] = "exit"
    /\ at' = [at EXCEPT ![c] = "closed"]
    /\ UNCHANGED <<proc, mainVars, server_running, client_count, sessVars>>

\* Mutant: the thread ends without giving its slot back.
CountDownForgotten(c) ==
    /\ proc = "up" /\ at[c] = "closed"
    /\ at' = [at EXCEPT ![c] = "done"]
    /\ UNCHANGED <<proc, mainVars, server_running, client_count, sessVars>>

CountDown(c) ==
    /\ proc = "up" /\ at[c] = "closed"
    /\ client_count' = client_count - 1
    /\ at' = [at EXCEPT ![c] = "done"]
    /\ UNCHANGED <<proc, mainVars, server_running, sessVars>>
-----------------------------------------------------------------------------
MainStep ==
    \/ \E c \in Conns : Accept(c) \/ Refuse(c) \/ Spawn(c) \/ SpawnFails(c)
    \/ LoopTest \/ AcceptClosed \/ CountUp \/ Exit

SessionStep(c) ==
    \/ LoopTop(c)
    \/ \E f \in ClientFrames : \/ RecvRequest(c, f) \/ RecvBadVersion(c, f)
                               \/ RecvResult(c, f) \/ RecvOther(c, f)
    \/ RecvError(c)
    \/ \E status \in PrepStatus : Prepare(c, status)
    \/ CloseFd(c) \/ CountDown(c)

ClientStep(c) ==
    \/ Connect(c)
    \/ \E f \in ClientFrames : ClientSend(c, f)
    \/ \E how \in {"fin", "reset"} : ClientLeave(c, how)
    \/ Elapse(c)

Next ==
    \/ MainStep \/ AcceptError \/ HandleSig
    \/ \E c \in Conns : SessionStep(c) \/ ClientStep(c)

\* The scheduler runs every thread that can run; nothing is assumed of the
\* clients, of the clock or of signals.
Fairness ==
    /\ WF_vars(MainStep)
    /\ \A c \in Conns : WF_vars(SessionStep(c))

Spec == Init /\ [][Next]_vars /\ Fairness
-----------------------------------------------------------------------------
Replies == [type : {"ACK_START", "NOTIFY_DONE"}, seq : Nat,
            status : {"FAILED"} \cup PrepStatus, written : BOOLEAN]

TypeOK ==
    /\ proc \in {"up", "exited", "sigpipe", "segv"}
    /\ mpc \in {"test", "accept", "check", "count", "sleep"}
    /\ cur = {c \in Conns : at[c] = "held"}
    /\ cur # {} <=> mpc = "check"
    /\ \A c, d \in cur : c = d
    /\ listen_fd \in {"open", "closed"}
    /\ server_running \in BOOLEAN
    /\ client_count \in Int
    /\ at \in [Conns -> Places]
    /\ state \in [Conns -> SessionStates]
    /\ seq_num \in [Conns -> Nat]
    /\ stale \in [Conns -> BOOLEAN]
    /\ inq \in [Conns -> Seq(ClientFrames)]
    /\ peer \in [Conns -> PeerStates]
    /\ out \in [Conns -> Seq(Replies)]
    /\ acc \in [Conns -> Seq(ClientFrames)]

\* client_count is raised by main after the thread was created and lowered by
\* the thread, perhaps before that.  Whenever main is about to test it, it is
\* the number of threads (and of connections pthread_create failed for).
CountMatches ==
    Cardinality(Occupying) = client_count + (IF mpc = "count" THEN 1 ELSE 0)

\* The test of max_clients in main bounds the session threads at all times,
\* although counting lags behind thread creation.
LiveSessionsBounded == Cardinality(Live) <= MaxClients

\* The inductive invariant behind these two: also counting the connections
\* without a thread, no more than max_clients are occupying a slot.
SlotsBounded == Cardinality(Occupying) <= MaxClients

SlotInv == TypeOK /\ CountMatches /\ SlotsBounded

\* The replies whose lucp_net_send returned -1.
Unwritten(c) == {i \in DOMAIN out[c] : ~out[c][i].written}

\* A session reaches COMPLETED only if the log was prepared and announced, and
\* the client then reported a good login and a good download.  The announcement
\* may have failed to be written, which the session does not notice: only if
\* the client had reset the connection with its results already sent.
CompletedMeansUploaded ==
    \A c \in Conns : state[c] = "COMPLETED" =>
        /\ [i \in DOMAIN out[c] |-> <<out[c][i].type, out[c][i].status>>]
             = << <<"ACK_START", "SUCCESS">>, <<"NOTIFY_DONE", "SUCCESS">> >>
        /\ Unwritten(c) # {} => peer[c] = "rst"
        /\ [i \in DOMAIN acc[c] |-> acc[c][i].type]
             = <<"UPLOAD_REQUEST", "FTP_LOGIN_RESULT", "FTP_DOWNLOAD_RESULT">>
        /\ \A i \in 2..3 : acc[c][i].status = "SUCCESS"

\* One ACK_START, then one NOTIFY_DONE with its sequence number if it was good.
InOrder(c) ==
    /\ Len(out[c]) <= 2
    /\ Len(out[c]) >= 1 => out[c][1].type = "ACK_START"
    /\ Len(out[c]) = 2 => /\ out[c][1].status = "SUCCESS"
                          /\ out[c][2].type = "NOTIFY_DONE"
                          /\ out[c][2].seq = out[c][1].seq

\* Whatever a client sends, and however often, it gets one ACK_START and then
\* at most one NOTIFY_DONE, only after a positive ACK_START and with its
\* sequence number (those a reset kept from being written included).
RepliesInOrder == \A c \in Conns : InOrder(c)

\* The one way a client's leaving ends the whole daemon (SIGPIPE): it asked for
\* an upload and was gone before ACK_START was written, so that the
\* notification meets a connection in error.  A client that leaves at any other point, or sends
\* anything else first, costs only its own session.
KilledOnlyByEarlyClose ==
    proc = "sigpipe" =>
        \E c \in Conns : /\ peer[c] = "rst" /\ c \in Live
                         /\ Len(out[c]) = 1 /\ Len(acc[c]) = 1

\* main refuses a connection only when max_clients threads really are alive,
\* counting those that pthread_create failed to give a thread.
RefusedOnlyIfFull ==
    [][\A c \in Conns : at[c] = "held" /\ at'[c] = "refused"
          => Cardinality(Occupying) >= MaxClients]_vars

\* A session whose client has closed the connection ends and gives its slot
\* back, as long as the daemon runs.
ClosedPeerEnds ==
    \A c \in Conns :
        c \in Live /\ peer[c] # "up" ~> at[c] = "done" \/ proc # "up"

\* After handle_sig the process terminates, whatever the clients do.
StopTerminates == ~server_running ~> proc # "up"

\* The session waits in lucp_net_recv, where nothing watches the time.
Idle(c) == at[c] = "recv" /\ inq[c] = <<>> /\ peer[c] = "up"

\* A session that outlives its timeout (session_timeout_ms) ends unless it
\* makes progress or its client falls silent: frames that do not advance the
\* session, however many, do not keep it alive.
TimeoutEndsSession ==
    \A c \in Conns :
        c \in Live /\ stale[c] ~> \/ c \notin Live \/ ~stale[c] \/ proc # "up"
                                  \/ Idle(c)
=============================================================================
