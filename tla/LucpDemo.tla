------------------------------ MODULE LucpDemo ------------------------------
(***************************************************************************)
(* The demo client (demo/lucp_client_demo.c) against the daemon of module  *)
(* Lucpd.  Every connection is made by a demo client.  The frames the      *)
(* daemon sent, out[c], are the client's stream: crd[c] of them were read  *)
(* into ctx->rbuf, cgot[c] of them were returned by lucp_net_recv.         *)
(***************************************************************************)
EXTENDS Lucpd

VARIABLES
    cpc,    \* where the client is
    crd,    \* frames of out[c] that read() has moved into rbuf
    cgot,   \* frames of out[c] that lucp_net_recv has returned
    cres    \* how the client ended: "none", "ok", "failed" or "timeout"

clientVars == <<cpc, crd, cgot, cres>>
demoVars == <<vars, clientVars>>

DemoFrame(type, status) ==
    [type |-> type, seq |-> 10001, status |-> status, major |-> Major]

DemoFrames ==
    {DemoFrame("UPLOAD_REQUEST", "FAILED")} \cup
    {DemoFrame(type, status) :
        type \in {"FTP_LOGIN_RESULT", "FTP_DOWNLOAD_RESULT"},
        status \in {"SUCCESS", "FAILED"}}

\* Every client is a demo client.
ASSUME DemoAssumption == ClientFrames = DemoFrames

DemoInit ==
    /\ Init
    /\ cpc = [c \in Conns |-> "connect"]
    /\ crd = [c \in Conns |-> 0]
    /\ cgot = [c \in Conns |-> 0]
    /\ cres = [c \in Conns |-> "none"]
-----------------------------------------------------------------------------
GoTo(c, place) == cpc' = [cpc EXCEPT ![c] = place]

\* close(sockfd); return.  With replies left in the socket, close() resets the
\* connection.
Finish(c, result) ==
    /\ ClientLeave(c, IF crd'[c] < Len(out[c]) THEN "reset" ELSE "fin")
    /\ GoTo(c, "end")
    /\ cres' = [cres EXCEPT ![c] = result]

DemoConnect(c) ==
    /\ cpc[c] = "connect"
    /\ Connect(c)
    /\ GoTo(c, "request")
    /\ UNCHANGED <<crd, cgot, cres>>

\* 1. Send 0x01 request.
DemoRequest(c) ==
    /\ cpc[c] = "request"
    /\ ClientSend(c, DemoFrame("UPLOAD_REQUEST", "FAILED"))
    /\ GoTo(c, "ack")
    /\ UNCHANGED <<crd, cgot, cres>>

\* The daemon has closed its end of the connection.
ServerClosed(c) == at[c] \in {"closed", "done", "refused"}

\* select() sees the socket, never what is already in rbuf.
Readable(c) == crd[c] < Len(out[c]) \/ ServerClosed(c)

WaitingFor == [ack |-> "ACK_START", notify |-> "NOTIFY_DONE"]

\* 2. and 3.: select() gives up after 2 s and 5 s.
SelectTimeout(c) ==
    /\ cpc[c] \in DOMAIN WaitingFor /\ ~Readable(c)
    /\ UNCHANGED <<crd, cgot>>
    /\ Finish(c, "timeout")

\* select() finds the socket readable and lucp_net_recv returns a frame, from
\* rbuf or after a read() that takes some of the frames that have arrived.
Take(c, n) ==
    /\ cpc[c] \in DOMAIN WaitingFor /\ Readable(c)
    /\ n \in crd[c]..Len(out[c]) /\ n > cgot[c]
    /\ n = crd[c] <=> cgot[c] < crd[c]
    /\ crd' = [crd EXCEPT ![c] = n]
    /\ cgot' = [cgot EXCEPT ![c] = @ + 1]

\* The reply the client goes on with: the type it waits for, and for the
\* notification status 1.
Proper(c, r) ==
    /\ r.type = WaitingFor[cpc[c]]
    /\ cpc[c] = "notify" => r.status = "SUCCESS"

TakeProper(c, n) ==
    /\ Take(c, n)
    /\ Proper(c, out[c][cgot[c] + 1])
    /\ GoTo(c, IF cpc[c] = "ack" THEN "notify" ELSE "login")
    /\ UNCHANGED <<vars, cres>>

TakeImproper(c, n) ==
    /\ Take(c, n)
    /\ ~Proper(c, out[c][cgot[c] + 1])
    /\ Finish(c, "failed")

\* lucp_net_recv returns -1: the daemon closed and nothing is left.
TakeClosed(c) ==
    /\ cpc[c] \in DOMAIN WaitingFor
    /\ ServerClosed(c) /\ cgot[c] = Len(out[c])
    /\ UNCHANGED <<crd, cgot>>
    /\ Finish(c, "failed")

\* 4. Send 0x04 with the outcome of the FTP login; a failed one ends it.
DemoLogin(c, status) ==
    /\ cpc[c] = "login"
    /\ ClientSend(c, DemoFrame("FTP_LOGIN_RESULT", status))
    /\ GoTo(c, IF status = "SUCCESS" THEN "download" ELSE "failed")
    /\ UNCHANGED <<crd, cgot, cres>>

\* 5. Send 0x05 with the outcome of the download.
DemoDownload(c, status) ==
    /\ cpc[c] = "download"
    /\ ClientSend(c, DemoFrame("FTP_DOWNLOAD_RESULT", status))
    /\ GoTo(c, IF status = "SUCCESS" THEN "ok" ELSE "failed")
    /\ UNCHANGED <<crd, cgot, cres>>

DemoClose(c) ==
    /\ cpc[c] \in {"ok", "failed"}
    /\ UNCHANGED <<crd, cgot>>
    /\ Finish(c, cpc[c])
-----------------------------------------------------------------------------
DemoClient(c) ==
    \/ DemoConnect(c) \/ DemoRequest(c)
    \/ SelectTimeout(c) \/ TakeClosed(c)
    \/ \E n \in 1..2 : TakeProper(c, n) \/ TakeImproper(c, n)
    \/ \E status \in {"SUCCESS", "FAILED"} :
           DemoLogin(c, status) \/ DemoDownload(c, status)
    \/ DemoClose(c)

DaemonStep ==
    /\ \/ MainStep \/ AcceptError \/ HandleSig
       \/ \E c \in Conns : SessionStep(c) \/ Elapse(c)
    /\ UNCHANGED clientVars

DemoNext == DaemonStep \/ \E c \in Conns : DemoClient(c)

DemoSpec == DemoInit /\ [][DemoNext]_demoVars
-----------------------------------------------------------------------------
\* The daemon takes an upload for complete only if its client took it for
\* complete too: it saw both replies and reported both results as good.
CompletedAgreed ==
    \A c \in Conns : state[c] = "COMPLETED" =>
        cgot[c] = 2 /\ (cpc[c] = "ok" \/ cres[c] = "ok")

\* A client that ends with success leaves a session behind that completed,
\* unless the session timed out, the daemon was told to stop or is gone.
SuccessAgreed ==
    \A c \in Conns : cres[c] = "ok" /\ at[c] = "done" =>
        state[c] = "COMPLETED" \/ stale[c] \/ ~server_running
=============================================================================
