------------------------------ MODULE LucpNet ------------------------------
(***************************************************************************)
(* One direction of a LUCP connection (lucplib/lucp.c): lucp_net_send and  *)
(* full_write on the sending side, TCP in between, lucp_net_recv with its  *)
(* reassembly buffer ctx->rbuf on the receiving side.                      *)
(*                                                                         *)
(* TCP carries bytes, not frames.  A byte is named by its offset in the    *)
(* stream, and "wire" records where each packed frame lies in it, so that  *)
(* the content of the stream is known without storing it: "written" bytes  *)
(* were accepted by the kernel, "taken" bytes were read into rbuf, and     *)
(* rbuf holds the offsets taken - rbuf_len .. taken - 1.                   *)
(***************************************************************************)
EXTENDS Integers, Sequences

CONSTANTS
    HdrLen,     \* bytes of a frame header (14)
    MaxText,    \* LUCP_MAX_TEXTINFO_LEN (1010)
    RbufSize,   \* sizeof(ctx->rbuf) (2048)
    TextLens,   \* the textInfo_len values callers pass to lucp_frame_make
    MaxFrames   \* bound: frames put on the stream

ASSUME SizesAssumption ==
    /\ HdrLen \in Nat \ {0}
    /\ MaxText \in Nat
    /\ RbufSize \in Nat
    /\ RbufSize >= HdrLen + MaxText
    /\ TextLens \subseteq Nat
    /\ MaxFrames \in Nat

VARIABLES
    wire,       \* the frames packed so far, with their place in the stream
    queued,     \* offset behind the last packed frame
    written,    \* bytes that write() has accepted
    spc,        \* the sender: "idle", "writing" (in full_write) or "failed"
    conn,       \* "open", "shut" (orderly end of stream) or "reset"
    taken,      \* bytes read() has moved into rbuf
    rbuf_len,   \* ctx->rbuf_len
    rpc,        \* the receiver: "idle" or "read" (in the loop of lucp_net_recv)
    ret,        \* how the last lucp_net_recv ended
    got,        \* the frames lucp_net_recv returned before the first desync
    desync      \* a corrupted frame has been reported

senderVars == <<wire, queued, written, spc, conn>>
receiverVars == <<taken, rbuf_len, rpc, ret, got, desync>>
vars == <<wire, queued, written, spc, conn,
          taken, rbuf_len, rpc, ret, got, desync>>

\* A frame as it lies in the stream: its first byte, whether it begins with
\* LUCP_MAGIC, the length its header declares and the bytes it occupies.
WireFrame == [start : Nat, magic : BOOLEAN, plen : Nat, size : Nat]

WellFormed(f) == f.magic /\ f.plen <= MaxText
-----------------------------------------------------------------------------
\* lucp_frame_make: a text longer than the maximum is truncated.
FrameMake(len) == IF len > MaxText THEN MaxText ELSE len

\* lucp_frame_pack: the bytes of a frame, header first.
FramePack(plen) ==
    [start |-> queued, magic |-> TRUE, plen |-> plen, size |-> HdrLen + plen]

\* What lucp_frame_unpack returns: the bytes consumed and the frame decoded.
Incomplete == [n |-> 0, frame |-> 0]
Corrupted == [n |-> -1, frame |-> 0]

\* Mutant: no upper bound on textInfo_len.
CheckHeaderNoMax(i, len) ==
    IF ~wire[i].magic THEN Corrupted
    ELSE IF len < HdrLen + wire[i].plen THEN Incomplete
    ELSE [n |-> HdrLen + wire[i].plen, frame |-> i]

\* Mutant: <= for < in the completeness check.
CheckHeaderWaits(i, len) ==
    IF ~WellFormed(wire[i]) THEN Corrupted
    ELSE IF len <= HdrLen + wire[i].plen THEN Incomplete
    ELSE [n |-> HdrLen + wire[i].plen, frame |-> i]

\* The header checks of lucp_frame_unpack on the frame that starts here.
CheckHeader(i, len) ==
    IF ~WellFormed(wire[i]) THEN Corrupted
    ELSE IF len < HdrLen + wire[i].plen THEN Incomplete
    ELSE [n |-> HdrLen + wire[i].plen, frame |-> i]

\* Bytes that are not a frame header: they may or may not look like one.
Misread(len) ==
    {Corrupted} \cup
    {IF len < HdrLen + k THEN Incomplete ELSE [n |-> HdrLen + k, frame |-> 0] :
        k \in 0..MaxText}

\* lucp_frame_unpack on the len bytes that start at offset pos.
FrameUnpack(pos, len) ==
    LET here == {i \in DOMAIN wire : wire[i].start = pos}
    IN  IF len < HdrLen THEN {Incomplete}
        ELSE IF here = {} THEN Misread(len)
        ELSE {CheckHeader(i, len) : i \in here}
-----------------------------------------------------------------------------
\* lucp_net_ctx_init on a fresh connection.
Init ==
    /\ wire = <<>> /\ queued = 0 /\ written = 0
    /\ spc = "idle" /\ conn = "open"
    /\ taken = 0 /\ rbuf_len = 0
    /\ rpc = "idle" /\ ret = "none"
    /\ got = <<>> /\ desync = FALSE

PutOnWire(f) ==
    /\ spc = "idle" /\ conn = "open" /\ Len(wire) < MaxFrames
    /\ wire' = Append(wire, f)
    /\ queued' = queued + f.size
    /\ spc' = "writing"
    /\ UNCHANGED <<written, conn, receiverVars>>

\* lucp_net_send: make and pack the frame, then enter full_write.
Send(len) == PutOnWire(FramePack(FrameMake(len)))

\* A peer that puts something else on the stream: a wrong magic, or a length
\* field above the maximum, by one or beyond the buffer.
BadHeaders == {[magic |-> FALSE, plen |-> 0], [magic |-> TRUE, plen |-> MaxText + 1],
               [magic |-> TRUE, plen |-> RbufSize]}

SendMalformed(h, body) ==
    PutOnWire([start |-> queued, magic |-> h.magic,
               plen |-> h.plen, size |-> HdrLen + body])

\* One write() of full_write takes the next n bytes.
Write(n) ==
    /\ spc = "writing" /\ conn = "open"
    /\ n \in 1..(queued - written)
    /\ written' = written + n
    /\ spc' = IF written + n = queued THEN "idle" ELSE "writing"
    /\ UNCHANGED <<wire, queued, conn, receiverVars>>

\* full_write fails and lucp_net_send returns -1.
WriteError ==
    /\ spc = "writing" /\ conn = "reset"
    /\ spc' = "failed"
    /\ UNCHANGED <<wire, queued, written, conn, receiverVars>>

\* The sending process closes the socket or dies, even inside full_write.
Close ==
    /\ conn = "open"
    /\ conn' = "shut"
    /\ spc' = "failed"
    /\ UNCHANGED <<wire, queued, written, receiverVars>>

Reset ==
    /\ conn = "open"
    /\ conn' = "reset"
    /\ UNCHANGED <<wire, queued, written, spc, receiverVars>>
-----------------------------------------------------------------------------
\* Mutant: the bytes behind the frame are dropped instead of moved down.
HandOverDropRest(r, len) ==
    /\ r.n > 0
    /\ rbuf_len' = 0
    /\ got' = IF desync THEN got ELSE Append(got, r.frame)
    /\ rpc' = "idle" /\ ret' = "ok"
    /\ UNCHANGED desync

\* Mutant: the frame is taken to have the size of the largest one.
HandOverLargest(r, len) ==
    /\ r.n > 0
    /\ rbuf_len' = len - (HdrLen + MaxText)
    /\ got' = IF desync THEN got ELSE Append(got, r.frame)
    /\ rpc' = "idle" /\ ret' = "ok"
    /\ UNCHANGED desync

\* Mutant: only the header is taken out of the buffer.
HandOverHeaderOnly(r, len) ==
    /\ r.n > 0
    /\ rbuf_len' = len - HdrLen
    /\ got' = IF desync THEN got ELSE Append(got, r.frame)
    /\ rpc' = "idle" /\ ret' = "ok"
    /\ UNCHANGED desync

\* The three ways lucp_net_recv goes on after lucp_frame_unpack.
HandOver(r, len) ==
    /\ r.n > 0
    /\ rbuf_len' = len - r.n
    /\ got' = IF desync THEN got ELSE Append(got, r.frame)
    /\ rpc' = "idle" /\ ret' = "ok"
    /\ UNCHANGED desync

ClearBuffer(r) ==
    /\ r.n < 0
    /\ rbuf_len' = 0
    /\ desync' = TRUE
    /\ rpc' = "idle" /\ ret' = "corrupted"
    /\ UNCHANGED got

NeedMore(r, len) ==
    /\ r.n = 0
    /\ rbuf_len' = len
    /\ rpc' = "read"
    /\ UNCHANGED <<ret, got, desync>>

TryFrame(len) ==
    \E r \in FrameUnpack(taken - rbuf_len, len) :
        HandOver(r, len) \/ ClearBuffer(r) \/ NeedMore(r, len)

\* Mutant: lucp_net_recv goes to read() without looking at the buffer.
RecvReadFirst ==
    /\ rpc = "idle"
    /\ rpc' = "read"
    /\ UNCHANGED <<rbuf_len, ret, got, desync, taken, senderVars>>

\* lucp_net_recv is called: it looks at the buffered bytes first.
Recv ==
    /\ rpc = "idle"
    /\ TryFrame(rbuf_len)
    /\ UNCHANGED <<taken, senderVars>>

\* A read() of the loop returns n bytes.
Read(n) ==
    /\ rpc = "read"
    /\ n \in 1..(written - taken) /\ n <= RbufSize - rbuf_len
    /\ taken' = taken + n
    /\ TryFrame(rbuf_len + n)
    /\ UNCHANGED senderVars

\* read() returns 0 at the end of the stream, and also when it is asked for
\* no bytes at all; lucp_net_recv takes either for a closed connection.
ZeroRead == (conn = "shut" /\ taken = written) \/ rbuf_len = RbufSize

ReadClosed ==
    /\ rpc = "read" /\ ZeroRead
    /\ rpc' = "idle" /\ ret' = "closed"
    /\ UNCHANGED <<taken, rbuf_len, got, desync, senderVars>>

ReadError ==
    /\ rpc = "read" /\ conn = "reset"
    /\ rpc' = "idle" /\ ret' = "error"
    /\ UNCHANGED <<taken, rbuf_len, got, desync, senderVars>>
-----------------------------------------------------------------------------
Next ==
    \/ \E len \in TextLens : Send(len)
    \/ \E h \in BadHeaders, body \in 0..MaxText : SendMalformed(h, body)
    \/ \E n \in 1..(HdrLen + MaxText) : Write(n)
    \/ WriteError
    \/ Close
    \/ Reset
    \/ Recv
    \/ \E n \in 1..RbufSize : Read(n)
    \/ ReadClosed
    \/ ReadError

\* full_write loops until everything is written; a caller of lucp_net_recv
\* that is not served blocks in read() and is woken by data.
Fairness ==
    /\ WF_vars(\E n \in 1..(HdrLen + MaxText) : Write(n))
    /\ WF_vars(Recv)
    /\ WF_vars(\E n \in 1..RbufSize : Read(n))
    /\ WF_vars(ReadClosed)

Spec == Init /\ [][Next]_vars /\ Fairness
-----------------------------------------------------------------------------
TypeOK ==
    /\ wire \in Seq(WireFrame)
    /\ queued \in Nat /\ written \in Nat /\ taken \in Nat
    /\ spc \in {"idle", "writing", "failed"}
    /\ conn \in {"open", "shut", "reset"}
    /\ rbuf_len \in 0..RbufSize
    /\ rpc \in {"idle", "read"}
    /\ ret \in {"none", "ok", "corrupted", "closed", "error"}
    /\ got \in Seq(Nat)
    /\ desync \in BOOLEAN

\* Frame i of the stream has reached the receiver's kernel completely.
Arrived(i) == i <= Len(wire) /\ wire[i].start + wire[i].size <= written

\* lucp_net_recv (lucp.c:284, "handles partial reads and coalescing"): until
\* it reports a corrupted frame, it returns exactly the frames that were sent,
\* in order, none twice and none skipped, and only once they have arrived,
\* however TCP cuts and joins the bytes.
InOrder ==
    \A i \in 1..Len(got) : got[i] = i /\ Arrived(i) /\ WellFormed(wire[i])

\* lucp_net_recv reports a corrupted frame for the first time only when the
\* next frame of the stream really is malformed: reassembly alone never
\* produces a bad magic or a bad length.
BlameIsJustified ==
    desync => /\ Len(got) < Len(wire)
              /\ ~WellFormed(wire[Len(got) + 1])

\* "Socket closed by peer" is reported only when the peer did close and every
\* byte of the stream was read: the 2048-byte buffer never fills up with an
\* incomplete frame, so read() is never asked for 0 bytes.
ClosedIsTrue ==
    ret = "closed" => conn = "shut" /\ taken = written

\* lucp_net_recv blocks in read() only while no complete frame is buffered.
BlocksOnlyIfIncomplete ==
    rpc = "read" /\ ~desync =>
        \A i \in 1..Len(wire) :
            WellFormed(wire[i]) /\ taken = wire[i].start + rbuf_len
                => taken < wire[i].start + wire[i].size

\* The inductive invariant behind these.  Frames lie in the stream without
\* gaps, and unless it reported corruption the receiver stands exactly behind
\* the frames it has returned, with less than one frame buffered when it reads.
EndOf(k) == IF k = 0 THEN 0 ELSE wire[k].start + wire[k].size

Layout ==
    /\ EndOf(Len(wire)) = queued
    /\ \A i \in 1..Len(wire) :
         /\ wire[i].start = EndOf(i - 1)
         /\ wire[i].start + wire[i].size <= queued
         /\ wire[i].size >= HdrLen
         /\ WellFormed(wire[i]) => wire[i].size = HdrLen + wire[i].plen
    /\ \A i, j \in 1..Len(wire) :
         i < j => wire[i].start + wire[i].size <= wire[j].start

Progress == rbuf_len <= taken /\ taken <= written /\ written <= queued

AtBoundary ==
    ~desync => Len(got) <= Len(wire) /\ taken = EndOf(Len(got)) + rbuf_len

RoomToRead == rpc = "read" => rbuf_len < HdrLen + MaxText

IInv ==
    /\ TypeOK /\ Layout /\ Progress /\ AtBoundary /\ RoomToRead
    /\ InOrder /\ BlameIsJustified /\ ClosedIsTrue /\ BlocksOnlyIfIncomplete

\* Every frame that reached the receiver completely is returned by some later
\* lucp_net_recv, unless the stream is corrupted before it or reset.
Delivery ==
    \A i \in 1..MaxFrames :
        Arrived(i) ~> (Len(got) >= i \/ desync \/ conn = "reset")

KindOf(f) == IF WellFormed(f) THEN "wellformed" ELSE "malformed"

\* What the callers of the library rely on: a reliable channel of frames.
Channel == INSTANCE FrameChannel WITH
    sent <- [i \in 1..Len(wire) |-> KindOf(wire[i])],
    received <- Len(got),
    broken <- desync

\* lucp_net_send and lucp_net_recv implement the frame channel.
ImplementsChannel == Channel!Spec
=============================================================================
