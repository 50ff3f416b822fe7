--------------------------- MODULE LucpServerDemo ---------------------------
(***************************************************************************)
(* The demo server (demo/lucp_server_demo.c): it serves one client and     *)
(* ends.  Frames travel as FrameChannel promises.  Unlike the daemon of    *)
(* module Lucpd it has no timeout, and it goes on to wait for the client's *)
(* results when its own preparation has failed.                            *)
(***************************************************************************)
EXTENDS Naturals, Sequences

CONSTANTS
    PeerFrames,    \* the frames a client may send
    MaxFrames      \* how many it sends at most

VARIABLES
    spc,      \* where main is
    sin,      \* frames sent by the client and not yet received
    speer,    \* the client's end, see ServerPeer
    taken,    \* history: the frames lucp_net_recv returned
    sent      \* history: the frames handed to lucp_net_send

serverVars == <<spc, sin, speer, taken, sent>>

\* As PeerStates of module Lucpd: closed, reset, and with an error reported.
ServerPeer == {"up", "fin", "reset", "rst"}

ServerInit ==
    /\ spc = "start" /\ speer = "up"
    /\ sin = <<>> /\ taken = <<>> /\ sent = <<>>

\* The client, which may send anything at any time.
PeerSends(f) ==
    /\ spc # "start" /\ speer = "up" /\ Len(taken) + Len(sin) < MaxFrames
    /\ sin' = Append(sin, f)
    /\ UNCHANGED <<spc, speer, taken, sent>>

PeerCloses ==
    /\ spc # "start" /\ speer = "up"
    /\ speer' \in {"fin", "reset"}
    /\ UNCHANGED <<spc, sin, taken, sent>>
-----------------------------------------------------------------------------
\* socket, bind, listen and accept succeed, or one of them ends main.
ServerStart ==
    /\ spc = "start"
    /\ spc' \in {"request", "done"}
    /\ UNCHANGED <<sin, speer, taken, sent>>

\* lucp_net_send; its result is not looked at.  A write to a client that has
\* closed succeeds and one to a client that has reset fails; a write after
\* either raises SIGPIPE.
ServerSend(type, seq, status, next) ==
    IF speer = "rst" THEN spc' = "sigpipe" /\ UNCHANGED <<speer, sent>>
    ELSE /\ sent' = Append(sent, [type |-> type, seq |-> seq, status |-> status,
                                 written |-> speer # "reset"])
         /\ speer' = IF speer = "up" THEN "up" ELSE "rst"
         /\ spc' = next

\* What main waits for at each place.
Awaited == [request |-> "UPLOAD_REQUEST", login |-> "FTP_LOGIN_RESULT",
            download |-> "FTP_DOWNLOAD_RESULT"]

\* Mutant: the type of the frame is not looked at.
RecvAny ==
    /\ spc \in DOMAIN Awaited /\ sin # <<>>
    /\ sin' = Tail(sin)
    /\ taken' = Append(taken, Head(sin))

RecvAwaited ==
    /\ spc \in DOMAIN Awaited /\ sin # <<>> /\ Head(sin).type = Awaited[spc]
    /\ sin' = Tail(sin)
    /\ taken' = Append(taken, Head(sin))

\* 1. and 2.: the request and its acknowledgement.
ServerRequest ==
    /\ spc = "request" /\ RecvAwaited
    /\ ServerSend("ACK_START", Head(sin).seq, "SUCCESS", "prep")

\* The results simulate_log_prep draws from.
PrepOutcomes == {"SUCCESS", "ARCHIVE_FAILED", "FTP_UPLOAD_FAILED"}

\* 3. and 4.: simulate_log_prep, and its outcome under the same number.
ServerNotify(status) ==
    /\ spc = "prep"
    /\ ServerSend("NOTIFY_DONE", taken[1].seq, status, "login")
    /\ UNCHANGED <<sin, taken>>

\* 5. and 6.: the results, whatever they are.
ServerResult ==
    /\ spc \in {"login", "download"} /\ RecvAwaited
    /\ spc' = IF spc = "login" THEN "download" ELSE "close"
    /\ UNCHANGED <<speer, sent>>

\* lucp_net_recv returns -1 or another frame: nothing more is done.
ServerGivesUp ==
    /\ spc \in DOMAIN Awaited
    /\ \/ sin # <<>> /\ Head(sin).type # Awaited[spc]
       \/ sin = <<>> /\ speer # "up"
       \/ speer \in {"reset", "rst"}
    /\ spc' = "close"
    /\ UNCHANGED <<sin, speer, taken, sent>>

ServerClose ==
    /\ spc = "close"
    /\ spc' = "done"
    /\ UNCHANGED <<sin, speer, taken, sent>>

ServerNext ==
    \/ \E f \in PeerFrames : PeerSends(f)
    \/ PeerCloses \/ ServerStart \/ ServerRequest
    \/ \E status \in PrepOutcomes : ServerNotify(status)
    \/ ServerResult \/ ServerGivesUp \/ ServerClose

ServerSpec == ServerInit /\ [][ServerNext]_serverVars
-----------------------------------------------------------------------------
Replied == [type : {"ACK_START", "NOTIFY_DONE"}, seq : {f.seq : f \in PeerFrames},
            status : PrepOutcomes, written : BOOLEAN]

\* How far main is, told by what it has taken and sent.
Progress ==
    [start |-> <<0, 0>>, request |-> <<0, 0>>, prep |-> <<1, 1>>,
     login |-> <<1, 2>>, download |-> <<2, 2>>]

ServerTypeOK ==
    /\ spc \in DOMAIN Progress \cup {"close", "done", "sigpipe"}
    /\ speer \in ServerPeer
    /\ sin \in Seq(PeerFrames) /\ taken \in Seq(PeerFrames) /\ sent \in Seq(Replied)

\* Whatever the client sends and whenever it closes: every reply is to the
\* request that came first and carries its number, ACK_START before
\* NOTIFY_DONE and each once, and results are taken only after both were handed
\* to lucp_net_send.  A reply that was not written for all that, which main
\* does not notice, was lost to a client that had reset the connection.
AnswersItsRequest ==
    /\ Len(taken) <= 3 /\ Len(sent) <= 2
    /\ Len(taken) = 0 <=> Len(sent) = 0
    /\ Len(taken) >= 1 => taken[1].type = "UPLOAD_REQUEST"
    /\ Len(taken) >= 2 => taken[2].type = "FTP_LOGIN_RESULT" /\ Len(sent) = 2
    /\ Len(taken) = 3 => taken[3].type = "FTP_DOWNLOAD_RESULT"
    /\ Len(sent) >= 1 => /\ sent[1].type = "ACK_START" /\ sent[1].status = "SUCCESS"
                         /\ sent[1].seq = taken[1].seq
    /\ Len(sent) = 2 => sent[2].type = "NOTIFY_DONE" /\ sent[2].seq = taken[1].seq
    /\ \A j \in 1..Len(sent) : sent[j].written \/ speer = "rst"

ServerInv ==
    /\ ServerTypeOK /\ AnswersItsRequest
    /\ spc \in DOMAIN Progress => <<Len(taken), Len(sent)>> = Progress[spc]
    /\ speer = "rst" => Len(sent) >= 1
=============================================================================
