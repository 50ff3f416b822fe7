----------------------------- MODULE LucpRetry -----------------------------
(***************************************************************************)
(* lucp_net_send_with_retries (lucplib/lucp.c): send a request, wait for   *)
(* the reply with select(), and resend up to n_retries times.  A caller    *)
(* makes one call after the other on the same context, with a new sequence *)
(* number each time.  What the peer has sent is first in the socket        *)
(* ("stream") and then, after a read(), in ctx->rbuf ("rbuf"); behind the  *)
(* whole frames in either there may be the first bytes of another ("half").*)
(***************************************************************************)
EXTENDS Naturals, Sequences

CONSTANTS
    MaxCalls,       \* bound: calls made on the connection
    NRetries        \* the n_retries argument

ASSUME RetryAssumption ==
    MaxCalls \in Nat /\ NRetries \in Nat

VARIABLES
    rpc,        \* "idle", "attempt", "select", "recv" or "killed"
    call,       \* sequence number of the current call
    tries,      \* the loop counter i: attempts already made
    requests,   \* sequence numbers the peer has still to look at
    stream,     \* replies in the socket
    rbuf,       \* replies in ctx->rbuf
    half,       \* where the last of an unfinished reply is: "none", "socket", "rbuf"
    conn,       \* the peer's end: "up", "fin", "reset" or "rst", as in Lucpd
    results,    \* history: what each call returned
    signalled,  \* history: a signal interrupted a select() of this call
    cut         \* history: a read() of this call ended within a reply

buffers == <<requests, stream, rbuf, half>>
histories == <<results, signalled, cut>>
retryVars == <<rpc, call, tries, buffers, conn, histories>>

ReplyFrame == [expected : BOOLEAN, seq : 1..MaxCalls]

RetryInit ==
    /\ rpc = "idle" /\ call = 0 /\ tries = 0
    /\ requests = <<>> /\ stream = <<>> /\ rbuf = <<>>
    /\ half = "none" /\ conn = "up"
    /\ results = <<>> /\ signalled = FALSE /\ cut = FALSE
-----------------------------------------------------------------------------
(* The peer: it answers a request with the expected reply or with another  *)
(* frame, whole or in parts, or leaves it unanswered.                      *)

PeerStep == UNCHANGED <<rpc, call, tries, rbuf, histories>>

PeerBegin ==
    /\ conn = "up" /\ requests # <<>> /\ half # "socket"
    /\ half' = "socket"
    /\ PeerStep /\ UNCHANGED <<requests, stream, conn>>

PeerAnswer(kind) ==
    /\ conn = "up" /\ requests # <<>>
    /\ requests' = Tail(requests)
    /\ stream' = Append(stream, [expected |-> kind, seq |-> Head(requests)])
    /\ half' = "none"
    /\ PeerStep /\ UNCHANGED conn

PeerIgnore ==
    /\ conn = "up" /\ requests # <<>> /\ half = "none"
    /\ requests' = Tail(requests)
    /\ PeerStep /\ UNCHANGED <<stream, half, conn>>

\* It closes, or is gone in a way that resets the connection.
PeerClose ==
    /\ conn = "up"
    /\ conn' \in {"fin", "reset"}
    /\ requests' = <<>>
    /\ PeerStep /\ UNCHANGED <<stream, half>>
-----------------------------------------------------------------------------
Call ==
    /\ rpc = "idle" /\ call < MaxCalls
    /\ call' = call + 1
    /\ tries' = 0
    /\ rpc' = "attempt"
    /\ signalled' = FALSE /\ cut' = FALSE
    /\ UNCHANGED <<buffers, conn, results>>

NextAttempt == rpc' = "attempt" /\ tries' = tries + 1

Return(ok, seq) ==
    /\ rpc' = "idle"
    /\ results' = Append(results, [ok |-> ok, seq |-> seq])

\* for (i = 0; i < n_retries; ++i)
MoreAttempts == tries < NRetries

\* A write to a connection the peer has closed succeeds and is answered with
\* RST.
SendRequest ==
    /\ rpc = "attempt" /\ MoreAttempts /\ conn \in {"up", "fin"}
    /\ requests' = IF conn = "up" THEN Append(requests, call) ELSE requests
    /\ conn' = IF conn = "up" THEN "up" ELSE "rst"
    /\ rpc' = "select"
    /\ UNCHANGED <<call, tries, stream, rbuf, half, histories>>

\* lucp_net_send fails on a connection the peer has reset: continue.
SendFails ==
    /\ rpc = "attempt" /\ MoreAttempts /\ conn = "reset"
    /\ conn' = "rst"
    /\ NextAttempt
    /\ UNCHANGED <<call, buffers, histories>>

\* A write after that, or after an RST, raises SIGPIPE.
SendKilled ==
    /\ rpc = "attempt" /\ MoreAttempts /\ conn = "rst"
    /\ rpc' = "killed"
    /\ UNCHANGED <<call, tries, buffers, conn, histories>>

GiveUp ==
    /\ rpc = "attempt" /\ ~MoreAttempts
    /\ Return(FALSE, 0)
    /\ UNCHANGED <<call, tries, buffers, conn, signalled, cut>>

\* Any byte in the socket, its end and an error make it readable.
Readable == stream # <<>> \/ half = "socket" \/ conn # "up"

SelectReady ==
    /\ rpc = "select" /\ Readable
    /\ rpc' = "recv"
    /\ UNCHANGED <<call, tries, buffers, conn, histories>>

\* Mutant: the timeout is not told from a readable socket.
SelectTimeoutReads ==
    /\ rpc = "select" /\ ~Readable
    /\ rpc' = "recv"
    /\ UNCHANGED <<call, tries, buffers, conn, histories>>

\* select() times out (or fails): continue.
SelectTimeout ==
    /\ rpc = "select" /\ ~Readable
    /\ NextAttempt
    /\ UNCHANGED <<call, buffers, conn, histories>>

\* select() is interrupted: the set still holds the descriptor, and the code
\* goes on to lucp_net_recv as if it were readable.
SelectInterrupted ==
    /\ rpc = "select"
    /\ rpc' = "recv"
    /\ signalled' = TRUE
    /\ UNCHANGED <<call, tries, buffers, conn, results, cut>>

\* Mutant: the sequence number of the reply is not compared.
MatchesAnySeq(f) == f.expected

Matches(f) == f.expected /\ f.seq = call

\* lucp_net_recv returned f.
Judge(f) ==
    IF Matches(f) THEN Return(TRUE, f.seq) /\ UNCHANGED tries
                  ELSE NextAttempt /\ UNCHANGED results

RecvBuffered ==
    /\ rpc = "recv" /\ rbuf # <<>>
    /\ rbuf' = Tail(rbuf)
    /\ Judge(Head(rbuf))
    /\ UNCHANGED <<call, requests, stream, half, conn, signalled, cut>>

\* read() takes the first n frames, and perhaps the beginning of the next; the
\* first is returned, the rest stays.
RecvRead(n) ==
    /\ rpc = "recv" /\ rbuf = <<>> /\ n \in 1..Len(stream)
    /\ rbuf' = SubSeq(stream, 2, n)
    /\ stream' = SubSeq(stream, n + 1, Len(stream))
    /\ \/ UNCHANGED half
       \/ n = Len(stream) /\ half = "socket" /\ half' = "rbuf"
    /\ Judge(stream[1])
    /\ UNCHANGED <<call, requests, conn, signalled, cut>>

\* read() takes the beginning of a frame, and the loop goes on to the next
\* read(), which waits for the rest without a timeout.
RecvPart ==
    /\ rpc = "recv" /\ rbuf = <<>> /\ stream = <<>> /\ half = "socket"
    /\ half' = "rbuf" /\ cut' = TRUE
    /\ UNCHANGED <<rpc, call, tries, requests, stream, rbuf, conn, results, signalled>>

\* The end of the stream, or the error of a reset connection.
RecvClosed ==
    /\ rpc = "recv" /\ rbuf = <<>> /\ stream = <<>> /\ conn # "up"
    /\ conn' = IF conn = "reset" THEN "rst" ELSE conn
    /\ NextAttempt
    /\ UNCHANGED <<call, buffers, histories>>
-----------------------------------------------------------------------------
Caller ==
    \/ SendRequest \/ SendFails \/ SendKilled \/ GiveUp
    \/ SelectReady \/ SelectTimeout
    \/ RecvBuffered \/ RecvPart \/ RecvClosed
    \/ \E n \in 1..(MaxCalls * NRetries) : RecvRead(n)

RetryNext ==
    \/ Call \/ Caller \/ SelectInterrupted
    \/ \E kind \in BOOLEAN : PeerAnswer(kind)
    \/ PeerBegin \/ PeerIgnore \/ PeerClose

\* The caller runs whenever it is not blocked; the peer owes nothing.
RetrySpec == RetryInit /\ [][RetryNext]_retryVars /\ WF_retryVars(Caller)
-----------------------------------------------------------------------------
\* A call that succeeds returns the reply to its own request, although late
\* answers to the resent requests of earlier calls are still in the stream.
OwnReply ==
    \A k \in DOMAIN results : results[k].ok => results[k].seq = k

\* Every call returns, whatever the peer does, or its process is killed by a
\* write on a broken connection, unless it reached a read() that has no timeout
\* of its own: a signal led it past select(), or what made the socket readable
\* was not a whole reply.
CallReturns ==
    rpc # "idle" ~> rpc \in {"idle", "killed"} \/ signalled \/ cut
=============================================================================
