--------------------------- MODULE LucpNetProofs ---------------------------
(***************************************************************************)
(* Proofs about LucpNet for every header size, text size, buffer size and  *)
(* number of frames: the invariants of lucp_net_recv, and that the stream  *)
(* of bytes implements the channel of frames.                              *)
(***************************************************************************)
EXTENDS LucpNet, SequenceTheorems, TLAPS

\* lucp_frame_unpack never consumes more than it was given, and asks for more
\* bytes only if it has less than the largest frame.
LEMMA UnpackBounds ==
    ASSUME TypeOK, NEW pos \in Int, NEW len \in Nat,
           NEW r \in FrameUnpack(pos, len)
    PROVE  /\ r.n \in Int /\ r.n <= len
           /\ r.frame \in Nat
           /\ r.n = 0 => len < HdrLen + MaxText
  <1> DEFINE here == {i \in DOMAIN wire : wire[i].start = pos}
  <1>1. CASE len < HdrLen
    BY <1>1, SizesAssumption DEF FrameUnpack, Incomplete
  <1>2. CASE len >= HdrLen /\ here = {}
    BY <1>2, SizesAssumption DEF FrameUnpack, Misread, Incomplete, Corrupted
  <1>3. CASE len >= HdrLen /\ here # {}
    <2>1. PICK i \in here : r = CheckHeader(i, len)
      BY <1>3, SizesAssumption DEF FrameUnpack
    <2>2. i \in Nat /\ wire[i] \in WireFrame
      BY DEF TypeOK
    <2>3. QED
      BY <2>1, <2>2, SizesAssumption
         DEF CheckHeader, WellFormed, WireFrame, Incomplete, Corrupted
  <1>4. QED
    BY <1>1, <1>2, <1>3, SizesAssumption

\* The end of a frame is an offset.
LEMMA EndOfNat ==
    ASSUME TypeOK, NEW k \in 0..Len(wire)
    PROVE  EndOf(k) \in Nat
  <1>1. CASE k = 0
    BY <1>1 DEF EndOf
  <1>2. CASE k # 0
    <2>1. wire[k] \in WireFrame
      BY <1>2 DEF TypeOK
    <2>2. wire[k].start \in Nat /\ wire[k].size \in Nat
      BY <2>1 DEF WireFrame
    <2>3. QED
      BY <1>2, <2>2 DEF EndOf
  <1>3. QED
    BY <1>1, <1>2

\* No two frames of the stream start at the same byte.
LEMMA StartsDiffer ==
    ASSUME TypeOK, Layout, NEW i \in 1..Len(wire), NEW j \in 1..Len(wire),
           wire[i].start = wire[j].start
    PROVE  i = j
  <1>0. wire[i] \in WireFrame /\ wire[j] \in WireFrame
    BY DEF TypeOK
  <1>1. /\ wire[i].start \in Nat /\ wire[i].size \in Nat /\ wire[i].size >= HdrLen
        /\ wire[j].start \in Nat /\ wire[j].size \in Nat /\ wire[j].size >= HdrLen
    BY <1>0 DEF WireFrame, Layout
  <1>2. ~(i < j)
    BY <1>1, SizesAssumption DEF Layout
  <1>3. ~(j < i)
    BY <1>1, SizesAssumption DEF Layout
  <1>4. QED
    BY <1>2, <1>3 DEF TypeOK

\* At the end of frame k, lucp_frame_unpack sees frame k + 1 and nothing else.
LEMMA UnpackAtBoundary ==
    ASSUME TypeOK, Layout, NEW k \in 0..Len(wire), NEW len \in Nat,
           EndOf(k) + len <= queued,
           NEW r \in FrameUnpack(EndOf(k), len)
    PROVE  /\ r.n > 0 => /\ k < Len(wire) /\ r.frame = k + 1
                         /\ WellFormed(wire[k + 1])
                         /\ r.n = wire[k + 1].size
           /\ r.n < 0 => k < Len(wire) /\ ~WellFormed(wire[k + 1])
           /\ r.n = 0 /\ k < Len(wire) /\ WellFormed(wire[k + 1])
                => len < wire[k + 1].size
  <1>1. CASE len < HdrLen
    <2>1. r.n = 0
      BY <1>1 DEF FrameUnpack, Incomplete
    <2>2. k < Len(wire) => wire[k + 1] \in WireFrame /\ wire[k + 1].size >= HdrLen
      BY DEF Layout, TypeOK
    <2>3. QED
      BY <1>1, <2>1, <2>2, SizesAssumption DEF WireFrame
  <1>2. CASE len >= HdrLen
    <2>1. k < Len(wire)
      BY <1>2, SizesAssumption DEF Layout, TypeOK
    <2>2. wire[k + 1] \in WireFrame /\ wire[k + 1].start = EndOf(k)
      BY <2>1 DEF Layout, TypeOK
    <2>0. DOMAIN wire = 1..Len(wire) /\ Len(wire) \in Nat /\ k + 1 \in 1..Len(wire)
      BY <2>1 DEF TypeOK
    <2>3. ASSUME NEW i \in 1..Len(wire), wire[i].start = EndOf(k) PROVE i = k + 1
      BY <2>0, <2>2, <2>3, StartsDiffer
    <2>4. {i \in DOMAIN wire : wire[i].start = EndOf(k)} = {k + 1}
      BY <2>0, <2>2, <2>3
    <2>5. r = CheckHeader(k + 1, len)
      BY <2>4, <1>2, SizesAssumption DEF FrameUnpack
    <2>6. WellFormed(wire[k + 1]) => wire[k + 1].size = HdrLen + wire[k + 1].plen
      BY <2>1 DEF Layout
    <2>7. wire[k + 1].plen \in Nat /\ HdrLen \in Nat /\ HdrLen > 0
      BY <2>2, SizesAssumption DEF WireFrame
    <2>8. CASE ~WellFormed(wire[k + 1])
      <3>1. r.n = -1
        BY <2>5, <2>8 DEF CheckHeader, Corrupted
      <3>2. QED
        BY <2>1, <2>8, <3>1
    <2>9. CASE WellFormed(wire[k + 1]) /\ len < HdrLen + wire[k + 1].plen
      <3>1. r.n = 0
        BY <2>5, <2>9 DEF CheckHeader, Incomplete
      <3>2. QED
        BY <2>1, <2>6, <2>9, <3>1
    <2>10. CASE WellFormed(wire[k + 1]) /\ ~(len < HdrLen + wire[k + 1].plen)
      <3>1. r.n = HdrLen + wire[k + 1].plen /\ r.frame = k + 1
        BY <2>5, <2>10 DEF CheckHeader
      <3>2. QED
        BY <2>1, <2>6, <2>7, <2>10, <3>1
    <2>11. QED
      BY <2>8, <2>9, <2>10
  <1>3. QED
    BY <1>1, <1>2, SizesAssumption

\* A fresh context on an empty stream satisfies the invariant.
LEMMA InitEstablishes == Init => IInv
  <1> SUFFICES ASSUME Init PROVE IInv
    OBVIOUS
  <1> USE DEF Init
  <1>1. TypeOK
    <2>1. wire \in Seq(WireFrame) /\ got \in Seq(Nat)
      OBVIOUS
    <2>2. rbuf_len \in 0..RbufSize
      BY SizesAssumption
    <2>3. QED
      BY <2>1, <2>2 DEF TypeOK
  <1>2. Len(wire) = 0 /\ Len(got) = 0
    OBVIOUS
  <1>3. Layout /\ AtBoundary /\ Progress
    BY <1>2 DEF Layout, AtBoundary, EndOf, Progress
  <1>4. InOrder /\ BlocksOnlyIfIncomplete
    BY <1>2 DEF InOrder, BlocksOnlyIfIncomplete
  <1>5. RoomToRead /\ BlameIsJustified /\ ClosedIsTrue
    BY DEF RoomToRead, BlameIsJustified, ClosedIsTrue
  <1>6. QED
    BY <1>1, <1>3, <1>4, <1>5 DEF IInv

\* A frame packed behind the others leaves everything as it was.
LEMMA PutOnWirePreserves ==
    ASSUME IInv, NEW f \in WireFrame, PutOnWire(f),
           f.start = queued, f.size >= HdrLen,
           WellFormed(f) => f.size = HdrLen + f.plen
    PROVE  IInv'
  <1> DEFINE L == Len(wire)
  <1> USE DEF PutOnWire, receiverVars
  <1>1. TypeOK'
    BY SizesAssumption DEF IInv, TypeOK, WireFrame
  <1>2. /\ L \in Nat /\ Len(wire') = L + 1
        /\ wire'[L + 1] = f
        /\ \A i \in 1..L : wire'[i] = wire[i] /\ wire[i] \in WireFrame
    BY DEF IInv, TypeOK
  <1>3. Layout'
    <2>1. EndOf(Len(wire))' = queued'
      BY <1>2 DEF EndOf, WireFrame, IInv, TypeOK
    <2>2. ASSUME NEW i \in 1..(L + 1)
          PROVE  /\ wire'[i].start = EndOf(i - 1)'
                 /\ wire'[i].start + wire'[i].size <= queued'
                 /\ wire'[i].size >= HdrLen
                 /\ WellFormed(wire'[i]) => wire'[i].size = HdrLen + wire'[i].plen
      <3>1. CASE i = L + 1
        BY <1>2, <3>1 DEF EndOf, IInv, Layout, TypeOK, WireFrame
      <3>2. CASE i # L + 1
        <4>1. i \in 1..L /\ wire'[i] = wire[i]
          BY <1>2, <3>2
        <4>2. wire'[i].start = EndOf(i - 1)'
          BY <1>2, <4>1 DEF EndOf, IInv, Layout
        <4>3. wire[i].start + wire[i].size <= queued'
          <5>1. /\ wire[i].start + wire[i].size <= queued
                /\ queued \in Nat /\ f.size \in Nat /\ queued' = queued + f.size
            BY <4>1 DEF IInv, Layout, TypeOK, WireFrame
          <5>2. wire[i].start \in Nat /\ wire[i].size \in Nat
            BY <1>2, <4>1 DEF WireFrame
          <5> HIDE DEF PutOnWire
          <5>3. QED
            BY <5>1, <5>2, SMTT(20)
        <4>4. QED
          BY <4>1, <4>2, <4>3 DEF IInv, Layout
      <3>3. QED
        BY <3>1, <3>2
    <2>3. ASSUME NEW i \in 1..(L + 1), NEW j \in 1..(L + 1), i < j
          PROVE  wire'[i].start + wire'[i].size <= wire'[j].start
      <3>1. i \in 1..L /\ wire'[i] = wire[i]
        BY <2>3, <1>2
      <3>2. CASE j = L + 1
        BY <1>2, <3>1, <3>2 DEF IInv, Layout
      <3>3. CASE j # L + 1
        <4>1. j \in 1..L /\ wire'[j] = wire[j]
          BY <1>2, <3>3
        <4>2. QED
          BY <2>3, <3>1, <4>1 DEF IInv, Layout
      <3>4. QED
        BY <3>2, <3>3
    <2>4. QED
      BY <2>1, <2>2, <2>3, <1>2 DEF Layout, WellFormed
  <1>4. Progress'
    BY DEF IInv, Progress, TypeOK, WireFrame
  <1>5. AtBoundary'
    BY <1>2 DEF IInv, AtBoundary, EndOf, TypeOK
  <1>6. RoomToRead' /\ ClosedIsTrue'
    BY DEF IInv, RoomToRead, ClosedIsTrue
  <1>7. InOrder'
    <2> SUFFICES ASSUME NEW i \in 1..Len(got)
                 PROVE  got[i] = i /\ Arrived(i)' /\ WellFormed(wire'[i])
      BY DEF InOrder, WellFormed
    <2>1. got[i] = i /\ Arrived(i) /\ WellFormed(wire[i])
      BY DEF IInv, InOrder
    <2>2. i \in 1..L
      BY <2>1, <1>2 DEF Arrived, IInv, TypeOK
    <2>3. QED
      BY <2>1, <2>2, <1>2 DEF Arrived
  <1>8. BlameIsJustified'
    BY <1>2 DEF IInv, BlameIsJustified, WellFormed, TypeOK
  <1>9. BlocksOnlyIfIncomplete'
    <2> SUFFICES ASSUME rpc = "read", ~desync, NEW i \in 1..(L + 1),
                        WellFormed(wire'[i]), taken = wire'[i].start + rbuf_len
                 PROVE  taken < wire'[i].start + wire'[i].size
      BY <1>2 DEF BlocksOnlyIfIncomplete, WellFormed
    <2>1. CASE i = L + 1
      <3>1. /\ f.size \in Nat /\ queued \in Nat /\ rbuf_len \in Nat /\ taken \in Nat
            /\ taken <= queued /\ taken = queued + rbuf_len
        BY <2>1, <1>2, SizesAssumption DEF IInv, Progress, TypeOK, WireFrame
      <3>2. taken < queued + f.size
        <4> HIDE DEF PutOnWire
        <4>1. f.size > 0
          BY <2>1, <1>2, SizesAssumption DEF WireFrame
        <4>2. QED
          BY <3>1, <4>1
      <3>3. QED
        BY <3>2, <2>1, <1>2
    <2>2. CASE i # L + 1
      BY <2>2, <1>2 DEF IInv, BlocksOnlyIfIncomplete, WellFormed
    <2>3. QED
      BY <2>1, <2>2
  <1>10. QED
    BY <1>1, <1>3, <1>4, <1>5, <1>6, <1>7, <1>8, <1>9 DEF IInv

\* More bytes in the kernel, or a changed connection, disturb nothing.
LEMMA SenderPreserves ==
    ASSUME IInv, UNCHANGED <<wire, queued, taken, rbuf_len, rpc, ret, got, desync>>,
           written' \in Nat, written <= written', written' <= queued,
           spc' \in {"idle", "writing", "failed"},
           \/ conn' = conn /\ (conn = "open" \/ written' = written)
           \/ conn = "open" /\ conn' \in {"shut", "reset"}
    PROVE  IInv'
  <1>1. TypeOK'
    BY DEF IInv, TypeOK
  <1>2. Layout' /\ AtBoundary'
    BY DEF IInv, Layout, AtBoundary, EndOf, WellFormed
  <1>3. RoomToRead' /\ BlameIsJustified' /\ BlocksOnlyIfIncomplete'
    BY DEF IInv, RoomToRead, BlameIsJustified, BlocksOnlyIfIncomplete, WellFormed
  <1>4. Progress'
    BY DEF IInv, Progress, TypeOK
  <1>5. ClosedIsTrue'
    BY DEF IInv, ClosedIsTrue
  <1>6. InOrder'
    <2> SUFFICES ASSUME NEW i \in 1..Len(got)
                 PROVE  got[i] = i /\ Arrived(i)' /\ WellFormed(wire[i])
      BY DEF InOrder, WellFormed
    <2>1. got[i] = i /\ Arrived(i) /\ WellFormed(wire[i])
      BY DEF IInv, InOrder
    <2>2. i \in 1..Len(wire) /\ wire[i] \in WireFrame
      BY <2>1 DEF Arrived, IInv, TypeOK
    <2>3. wire[i].start + wire[i].size <= written
      BY <2>1 DEF Arrived
    <2>4. wire[i].start \in Nat /\ wire[i].size \in Nat /\ written \in Nat
      BY <2>2 DEF WireFrame, IInv, TypeOK
    <2>5. QED
      BY <2>1, <2>2, <2>3, <2>4 DEF Arrived
  <1>7. QED
    BY <1>1, <1>2, <1>3, <1>4, <1>5, <1>6 DEF IInv

\* The part of lucp_net_recv behind lucp_frame_unpack, for the buffered bytes
\* (taken' = taken) and after a read().
LEMMA TryFramePreserves ==
    ASSUME IInv, NEW len \in 0..RbufSize, TryFrame(len), UNCHANGED senderVars,
           taken' \in Nat, taken <= taken', taken' <= written,
           len + taken = rbuf_len + taken'
    PROVE  IInv'
  <1> DEFINE pos == taken - rbuf_len
             k == Len(got)
  <1>0. /\ taken \in Nat /\ rbuf_len \in Nat /\ rbuf_len <= taken
        /\ len \in Int /\ k \in Nat
    BY SizesAssumption DEF IInv, TypeOK, Progress
  <1>2. pos \in Nat /\ len \in Nat /\ pos + len = taken' /\ k \in Nat
    <2>1. len \in Nat
      BY SizesAssumption
    <2>2. pos \in Nat /\ pos + len = taken'
      <3>1. PICK t \in Nat : t = taken'
        OBVIOUS
      <3>2. len + taken = rbuf_len + t
        BY <3>1
      <3>3. taken - rbuf_len \in Nat /\ (taken - rbuf_len) + len = t
        BY <1>0, <2>1, <3>2
      <3>4. QED
        BY <3>1, <3>3
    <2>3. QED
      BY <1>0, <2>1, <2>2
  <1>1. PICK r \in FrameUnpack(pos, len) :
            HandOver(r, len) \/ ClearBuffer(r) \/ NeedMore(r, len)
    BY DEF TryFrame
  <1>3. /\ r.n \in Int /\ r.n <= len /\ r.frame \in Nat
        /\ r.n = 0 => len < HdrLen + MaxText
    <2>1. TypeOK
      BY DEF IInv
    <2>2. QED
      BY <1>2, <2>1, UnpackBounds
  <1>4. ASSUME ~desync
        PROVE  /\ k \in 0..Len(wire) /\ pos = EndOf(k)
               /\ r.n > 0 => /\ k < Len(wire) /\ r.frame = k + 1
                             /\ WellFormed(wire[k + 1])
                             /\ r.n = wire[k + 1].size
               /\ r.n < 0 => k < Len(wire) /\ ~WellFormed(wire[k + 1])
               /\ r.n = 0 /\ k < Len(wire) /\ WellFormed(wire[k + 1])
                    => len < wire[k + 1].size
    <2>1. TypeOK /\ Layout
      BY DEF IInv
    <2>a. k \in 0..Len(wire) /\ taken = EndOf(k) + rbuf_len
      BY <1>2, <1>4, <2>1 DEF IInv, AtBoundary, TypeOK
    <2>b. EndOf(k) \in Nat
      BY <2>1, <2>a, EndOfNat
    <2>2. k \in 0..Len(wire) /\ pos = EndOf(k)
      BY <1>0, <2>a, <2>b
    <2>3. EndOf(k) + len <= queued
      BY <1>2, <2>1, <2>2 DEF IInv, Progress, TypeOK
    <2>4. r \in FrameUnpack(EndOf(k), len)
      BY <2>2
    <2>5. QED
      BY <1>2, <2>1, <2>2, <2>3, <2>4, UnpackAtBoundary
  <1>5. UNCHANGED <<wire, queued, written, spc, conn>>
    BY DEF senderVars
  <1>6. Layout'
    BY <1>5 DEF IInv, Layout, EndOf, WellFormed
  <1>7. CASE HandOver(r, len)
    <2> USE <1>7 DEF HandOver
    <2>0. rbuf_len' \in 0..RbufSize
      BY <1>2, <1>3, SizesAssumption
    <2>a. got' \in Seq(Nat)
      BY <1>3 DEF IInv, TypeOK
    <2>1. TypeOK'
      BY <2>0, <2>a, <1>5 DEF IInv, TypeOK
    <2>2. Progress'
      BY <1>2, <1>3, <1>5 DEF IInv, TypeOK, Progress
    <2>3. RoomToRead' /\ ClosedIsTrue' /\ BlocksOnlyIfIncomplete'
      BY DEF RoomToRead, ClosedIsTrue, BlocksOnlyIfIncomplete
    <2>4. CASE desync
      BY <2>1, <2>2, <2>3, <2>4, <1>5, <1>6
         DEF IInv, AtBoundary, InOrder, Arrived, BlameIsJustified, WellFormed
    <2>5. CASE ~desync
      <3>1. /\ Len(got') = k + 1 /\ got'[k + 1] = k + 1
            /\ \A i \in 1..k : got'[i] = got[i]
        BY <1>2, <1>4, <2>5 DEF IInv, TypeOK
      <3>2. /\ wire[k + 1] \in WireFrame /\ k + 1 \in 1..Len(wire)
            /\ wire[k + 1].start = pos
        BY <1>2, <1>4, <2>5 DEF IInv, TypeOK, Layout
      <3>3. taken' = wire[k + 1].start + wire[k + 1].size + rbuf_len'
        BY <1>2, <1>4, <2>5, <3>2 DEF WireFrame
      <3>4. AtBoundary'
        BY <1>2, <1>5, <2>5, <3>1, <3>2, <3>3 DEF AtBoundary, EndOf
      <3>5. wire[k + 1].start + wire[k + 1].size <= written
        <4>1. wire[k + 1].start = pos /\ wire[k + 1].size <= len
          BY <1>3, <1>4, <2>5, <3>2
        <4>2. wire[k + 1].size \in Nat /\ written \in Nat
          BY <3>2 DEF WireFrame, IInv, TypeOK
        <4>3. QED
          BY <1>2, <4>1, <4>2
      <3>6. InOrder'
        BY <1>2, <1>4, <1>5, <2>5, <3>1, <3>2, <3>5
           DEF IInv, InOrder, Arrived, WellFormed
      <3>7. QED
        BY <1>6, <2>1, <2>2, <2>3, <2>5, <3>4, <3>6 DEF IInv, BlameIsJustified
    <2>6. QED
      BY <2>4, <2>5
  <1>8. CASE ClearBuffer(r)
    <2> USE <1>8 DEF ClearBuffer
    <2>1. TypeOK'
      BY <1>5, SizesAssumption DEF IInv, TypeOK
    <2>2. Progress'
      BY <1>2, <1>5 DEF IInv, TypeOK, Progress
    <2>3. RoomToRead' /\ ClosedIsTrue' /\ BlocksOnlyIfIncomplete' /\ AtBoundary'
      BY DEF RoomToRead, ClosedIsTrue, BlocksOnlyIfIncomplete, AtBoundary
    <2>4. InOrder'
      BY <1>5 DEF IInv, InOrder, Arrived, WellFormed
    <2>5. BlameIsJustified'
      BY <1>4, <1>5 DEF IInv, BlameIsJustified, WellFormed
    <2>6. QED
      BY <1>6, <2>1, <2>2, <2>3, <2>4, <2>5 DEF IInv
  <1>9. CASE NeedMore(r, len)
    <2> USE <1>9 DEF NeedMore
    <2>1. TypeOK'
      BY <1>2, <1>5 DEF IInv, TypeOK
    <2>2. Progress'
      <3>1. rbuf_len' = len /\ len <= taken'
        BY <1>2
      <3>2. QED
        BY <3>1, <1>5 DEF IInv, Progress
    <2>3. RoomToRead'
      BY <1>3 DEF RoomToRead
    <2>4. ClosedIsTrue'
      BY <1>5 DEF IInv, ClosedIsTrue, TypeOK
    <2>5. AtBoundary'
      BY <1>2, <1>4, <1>5 DEF AtBoundary, EndOf
    <2>6. InOrder' /\ BlameIsJustified'
      BY <1>5 DEF IInv, InOrder, Arrived, BlameIsJustified, WellFormed
    <2>7. BlocksOnlyIfIncomplete'
      <3> SUFFICES ASSUME ~desync, NEW i \in 1..Len(wire),
                          WellFormed(wire[i]), taken' = wire[i].start + len
                   PROVE  taken' < wire[i].start + wire[i].size
        BY <1>5 DEF BlocksOnlyIfIncomplete, WellFormed
      <3>1. /\ wire[i] \in WireFrame /\ Len(wire) \in Nat
            /\ wire[i].size >= HdrLen /\ wire[i].start + wire[i].size <= queued
        BY DEF IInv, TypeOK, Layout
      <3>a. wire[i].start = pos
        BY <1>2, <3>1 DEF WireFrame
      <3>2. k < Len(wire)
        BY <1>4, <3>1, <3>a, SizesAssumption DEF IInv, Layout, WireFrame
      <3>3. wire[k + 1].start = pos /\ k + 1 \in 1..Len(wire)
        BY <1>2, <1>4, <3>1, <3>2 DEF IInv, Layout
      <3>4. i = k + 1
        BY <3>3, <3>a, StartsDiffer DEF IInv
      <3>5. len < wire[i].size
        BY <1>4, <3>2, <3>4
      <3>6. QED
        BY <1>2, <3>1, <3>5 DEF WireFrame
    <2>8. QED
      BY <1>6, <2>1, <2>2, <2>3, <2>4, <2>5, <2>6, <2>7 DEF IInv
  <1>10. QED
    BY <1>1, <1>7, <1>8, <1>9

\* Every write, read and call of sender and receiver keeps the invariant.
LEMMA StepPreserves == IInv /\ [Next]_vars => IInv'
  <1> SUFFICES ASSUME IInv, [Next]_vars PROVE IInv'
    OBVIOUS
  <1>0. /\ queued \in Nat /\ written \in Nat /\ taken \in Nat
        /\ rbuf_len \in Nat /\ rbuf_len <= RbufSize
        /\ rbuf_len <= taken /\ taken <= written /\ written <= queued
        /\ spc \in {"idle", "writing", "failed"}
        /\ conn \in {"open", "shut", "reset"}
    BY SizesAssumption DEF IInv, TypeOK, Progress
  <1>1. ASSUME NEW len \in TextLens, Send(len) PROVE IInv'
    <2> DEFINE f == FramePack(FrameMake(len))
    <2>1. FrameMake(len) \in Nat
      BY SizesAssumption DEF FrameMake
    <2>2. /\ f \in WireFrame /\ f.start = queued /\ f.size = HdrLen + f.plen
          /\ f.size >= HdrLen
      BY <1>0, <2>1, SizesAssumption DEF FramePack, WireFrame
    <2>3. PutOnWire(f)
      BY <1>1 DEF Send
    <2> HIDE DEF f
    <2>4. QED
      BY <2>2, <2>3, PutOnWirePreserves
  <1>2. ASSUME NEW h \in BadHeaders, NEW body \in 0..MaxText,
               SendMalformed(h, body)
        PROVE  IInv'
    <2> DEFINE f == [start |-> queued, magic |-> h.magic,
                     plen |-> h.plen, size |-> HdrLen + body]
    <2>0. /\ h.magic \in BOOLEAN /\ h.plen \in Nat
          /\ ~(h.magic /\ h.plen <= MaxText)
      <3>1. CASE h = [magic |-> FALSE, plen |-> 0]
        BY <3>1
      <3>2. CASE h = [magic |-> TRUE, plen |-> MaxText + 1]
        BY <3>2, SizesAssumption
      <3>3. CASE h = [magic |-> TRUE, plen |-> RbufSize]
        <4>1. MaxText < RbufSize
          BY SizesAssumption
        <4>2. QED
          BY <3>3, <4>1, SizesAssumption
      <3>4. QED
        BY <3>1, <3>2, <3>3 DEF BadHeaders
    <2>1. /\ f \in WireFrame /\ f.start = queued /\ f.size >= HdrLen
          /\ ~WellFormed(f)
      BY <1>0, <2>0, SizesAssumption DEF WireFrame, WellFormed
    <2>2. PutOnWire(f)
      BY <1>2 DEF SendMalformed
    <2> HIDE DEF f
    <2>3. QED
      BY <2>1, <2>2, PutOnWirePreserves
  <1>3. ASSUME NEW n \in 1..(HdrLen + MaxText), Write(n) PROVE IInv'
    <2>1. /\ written' \in Nat /\ written <= written' /\ written' <= queued
      BY <1>0, <1>3, SizesAssumption DEF Write
    <2>2. /\ spc' \in {"idle", "writing", "failed"}
          /\ conn = "open" /\ conn' = conn
          /\ UNCHANGED <<wire, queued, taken, rbuf_len, rpc, ret, got, desync>>
      BY <1>3 DEF Write, receiverVars
    <2>3. QED
      BY <2>1, <2>2, SenderPreserves
  <1>4. CASE WriteError
    BY <1>0, <1>4, SenderPreserves DEF WriteError, receiverVars
  <1>5. CASE Close
    BY <1>0, <1>5, SenderPreserves DEF Close, receiverVars
  <1>6. CASE Reset
    BY <1>0, <1>6, SenderPreserves DEF Reset, receiverVars
  <1>7. CASE Recv
    <2>1. /\ TryFrame(rbuf_len) /\ UNCHANGED senderVars /\ taken' = taken
          /\ rbuf_len \in 0..RbufSize
      BY <1>0, <1>7, SizesAssumption DEF Recv
    <2>2. taken' \in Nat /\ taken <= taken' /\ taken' <= written
      BY <1>0, <2>1
    <2>3. rbuf_len + taken = rbuf_len + taken'
      BY <2>1
    <2>4. QED
      BY <2>1, <2>2, <2>3, TryFramePreserves
  <1>8. ASSUME NEW n \in 1..RbufSize, Read(n) PROVE IInv'
    <2>1. /\ TryFrame(rbuf_len + n) /\ UNCHANGED senderVars /\ taken' = taken + n
          /\ n \in 1..(written - taken) /\ n <= RbufSize - rbuf_len
      BY <1>8 DEF Read
    <2>2. rbuf_len + n \in 0..RbufSize /\ taken + n <= written
      BY <1>0, <2>1, SizesAssumption
    <2>3. taken' \in Nat /\ taken <= taken' /\ taken' <= written
      BY <1>0, <2>1, <2>2
    <2>4. (rbuf_len + n) + taken = rbuf_len + taken'
      BY <1>0, <2>1
    <2> HIDE DEF IInv
    <2>5. QED
      BY <2>1, <2>2, <2>3, <2>4, TryFramePreserves
  <1>9. CASE ReadClosed
    <2> USE <1>9 DEF ReadClosed, senderVars
    <2>1. conn = "shut" /\ taken = written
      BY <1>0, SizesAssumption DEF ZeroRead, IInv, RoomToRead
    <2>2. TypeOK' /\ Layout' /\ Progress' /\ AtBoundary'
      BY DEF IInv, TypeOK, Layout, Progress, AtBoundary, EndOf, WellFormed
    <2>3. InOrder' /\ BlameIsJustified'
      BY DEF IInv, InOrder, Arrived, BlameIsJustified, WellFormed
    <2>4. ClosedIsTrue' /\ RoomToRead' /\ BlocksOnlyIfIncomplete'
      BY <2>1 DEF ClosedIsTrue, RoomToRead, BlocksOnlyIfIncomplete
    <2>5. QED
      BY <2>2, <2>3, <2>4 DEF IInv
  <1>10. CASE ReadError
    <2> USE <1>10 DEF ReadError, senderVars
    <2>1. TypeOK' /\ Layout'
      BY DEF IInv, TypeOK, Layout, EndOf, WellFormed
    <2>2. Progress' /\ AtBoundary'
      BY DEF IInv, Progress, AtBoundary, EndOf
    <2>3. InOrder' /\ BlameIsJustified'
      BY DEF IInv, InOrder, Arrived, BlameIsJustified, WellFormed
    <2>4. ClosedIsTrue' /\ RoomToRead' /\ BlocksOnlyIfIncomplete'
      BY DEF ClosedIsTrue, RoomToRead, BlocksOnlyIfIncomplete
    <2>5. QED
      BY <2>1, <2>2, <2>3, <2>4 DEF IInv
  <1>11. CASE UNCHANGED vars
    BY <1>11 DEF vars, IInv, TypeOK, Layout, Progress, AtBoundary, RoomToRead,
                 EndOf, WellFormed, InOrder, Arrived, BlameIsJustified,
                 ClosedIsTrue, BlocksOnlyIfIncomplete
  <1>12. QED
    BY <1>1, <1>2, <1>3, <1>4, <1>5, <1>6, <1>7, <1>8, <1>9, <1>10, <1>11 DEF Next

\* The inductive invariant of the reassembly in lucp_net_recv holds always.
THEOREM InductiveInvariant == Spec => []IInv
  BY InitEstablishes, StepPreserves, PTL DEF Spec

\* rbuf_len never exceeds the buffer of lucp_net_ctx_t, and every other
\* variable keeps its type.
THEOREM TypeCorrect == Spec => []TypeOK
  <1>1. IInv => TypeOK
    BY DEF IInv
  <1>2. QED
    BY <1>1, InductiveInvariant, PTL

\* lucp_net_recv returns the frames that were sent, in order, each once.
THEOREM ReceivesInOrder == Spec => []InOrder
  <1>1. IInv => InOrder
    BY DEF IInv
  <1>2. QED
    BY <1>1, InductiveInvariant, PTL

\* A frame is reported as corrupted only if it was sent malformed.
THEOREM BlamesJustly == Spec => []BlameIsJustified
  <1>1. IInv => BlameIsJustified
    BY DEF IInv
  <1>2. QED
    BY <1>1, InductiveInvariant, PTL

\* lucp_net_recv reports a closed socket only if the peer did close it: with
\* RbufSize >= HdrLen + MaxText the buffer never fills up.
THEOREM ReportsCloseTruly == Spec => []ClosedIsTrue
  <1>1. IInv => ClosedIsTrue
    BY DEF IInv
  <1>2. QED
    BY <1>1, InductiveInvariant, PTL

\* lucp_net_recv never waits for bytes while a complete frame is buffered.
THEOREM NeverWaitsInVain == Spec => []BlocksOnlyIfIncomplete
  <1>1. IInv => BlocksOnlyIfIncomplete
    BY DEF IInv
  <1>2. QED
    BY <1>1, InductiveInvariant, PTL

\* A function on 1..n is a sequence of length n.
LEMMA FunctionIsSeq ==
    ASSUME NEW S, NEW n \in Nat, NEW t \in [1..n -> S]
    PROVE  t \in Seq(S) /\ Len(t) = n
  OBVIOUS

\* A sequence written as a function, and what appending to it does.
LEMMA AppendToMap ==
    ASSUME NEW L \in Nat, NEW s, NEW t, NEW S, NEW e \in S,
           DOMAIN s = 1..L, \A i \in 1..L : s[i] \in S, s = [i \in 1..L |-> s[i]],
           t = [i \in 1..(L + 1) |-> IF i = L + 1 THEN e ELSE s[i]]
    PROVE  t = Append(s, e)
  <1>1. s \in Seq(S) /\ Len(s) = L
    OBVIOUS
  <1>2. t \in Seq(S) /\ Len(t) = L + 1
    <2>1. DOMAIN t = 1..(L + 1) /\ \A i \in 1..(L + 1) : t[i] \in S
      OBVIOUS
    <2>2. t \in [1..(L + 1) -> S]
      BY <2>1
    <2>3. L + 1 \in Nat
      OBVIOUS
    <2>4. QED
      BY <2>2, <2>3, FunctionIsSeq
  <1>3. /\ Append(s, e) \in Seq(S) /\ Len(Append(s, e)) = L + 1
        /\ \A i \in 1..(L + 1) : Append(s, e)[i] = IF i = L + 1 THEN e ELSE s[i]
    BY <1>1
  <1>4. \A i \in 1..(L + 1) : t[i] = Append(s, e)[i]
    BY <1>3
  <1>5. QED
    BY <1>2, <1>3, <1>4, SeqEqual

\* A frame put on the stream is a frame sent on the channel.
LEMMA PutOnWireSends ==
    ASSUME TypeOK, NEW f, PutOnWire(f)
    PROVE  Channel!ChanSend
  <1> DEFINE L == Len(wire)
             s == [i \in 1..L |-> KindOf(wire[i])]
             e == KindOf(f)
             t == [i \in 1..Len(wire') |-> KindOf(wire'[i])]
  <1>1. /\ L \in Nat /\ Len(wire') = L + 1 /\ wire'[L + 1] = f
        /\ \A i \in 1..L : wire'[i] = wire[i]
    BY DEF PutOnWire, TypeOK
  <1>2. t = [i \in 1..(L + 1) |-> IF i = L + 1 THEN e ELSE s[i]]
    BY <1>1
  <1>3. /\ DOMAIN s = 1..L /\ \A i \in 1..L : s[i] \in Channel!FrameKind
        /\ s = [i \in 1..L |-> s[i]]
    BY DEF KindOf, Channel!FrameKind
  <1>4. e \in Channel!FrameKind /\ UNCHANGED <<got, desync>>
    BY DEF KindOf, Channel!FrameKind, PutOnWire, receiverVars
  <1>5. t = Append(s, e)
    BY <1>1, <1>2, <1>3, <1>4, AppendToMap
  <1>6. QED
    BY <1>4, <1>5 DEF Channel!ChanSend, KindOf, WellFormed

\* What lucp_net_recv does with the result of lucp_frame_unpack is a receive
\* or a break of the channel, or invisible to it.
LEMMA TryFrameReceives ==
    ASSUME IInv, IInv', NEW len, TryFrame(len), UNCHANGED senderVars
    PROVE  Channel!ChanRecv \/ Channel!ChanBreak \/ UNCHANGED <<wire, Len(got), desync>>
  <1> USE DEF senderVars
  <1>0. /\ Len(wire) \in Nat /\ Len(got) \in Nat /\ got \in Seq(Nat)
        /\ wire' = wire
    BY DEF IInv, TypeOK
  <1>1. PICK r \in FrameUnpack(taken - rbuf_len, len) :
            HandOver(r, len) \/ ClearBuffer(r) \/ NeedMore(r, len)
    BY DEF TryFrame
  <1>2. CASE HandOver(r, len) /\ ~desync
    <2>1. got' = Append(got, r.frame) /\ desync' = desync /\ got' \in Seq(Nat)
      BY <1>2 DEF HandOver, IInv, TypeOK
    <2>2. Len(got') = Len(got) + 1
      BY <1>0, <2>1
    <2>3. Len(got) + 1 <= Len(wire) /\ WellFormed(wire[Len(got) + 1])
      BY <1>0, <2>2 DEF IInv, InOrder, Arrived, WellFormed
    <2>4. KindOf(wire[Len(got) + 1]) = "wellformed" /\ Len(got) + 1 \in 1..Len(wire)
      BY <1>0, <2>3 DEF KindOf
    <2>5. QED
      BY <1>0, <1>2, <2>1, <2>2, <2>4 DEF Channel!ChanRecv
  <1>3. CASE ClearBuffer(r) /\ ~desync
    <2>1. got' = got /\ desync' = TRUE
      BY <1>3 DEF ClearBuffer
    <2>2. Len(got) < Len(wire) /\ ~WellFormed(wire[Len(got) + 1])
      BY <1>0, <2>1 DEF IInv, BlameIsJustified, WellFormed
    <2>3. KindOf(wire[Len(got) + 1]) = "malformed" /\ Len(got) + 1 \in 1..Len(wire)
      BY <1>0, <2>2 DEF KindOf
    <2>4. /\ Len(got) < Len([i \in 1..Len(wire) |-> KindOf(wire[i])])
          /\ [i \in 1..Len(wire) |-> KindOf(wire[i])][Len(got) + 1] = "malformed"
      BY <1>0, <2>2, <2>3
    <2>5. UNCHANGED <<[i \in 1..Len(wire) |-> KindOf(wire[i])], Len(got)>>
      BY <1>0, <2>1
    <2>6. Channel!ChanBreak
      BY <1>3, <2>1, <2>4, <2>5, Zenon DEF Channel!ChanBreak
    <2>7. QED
      BY <2>6
  <1>4. CASE desync \/ NeedMore(r, len)
    BY <1>0, <1>1, <1>4 DEF HandOver, ClearBuffer, NeedMore, IInv, TypeOK
  <1>5. QED
    BY <1>1, <1>2, <1>3, <1>4

\* lucp_net_send and lucp_net_recv implement the channel of frames.
THEOREM ChannelImplemented == Spec => ImplementsChannel
  <1>1. Init => Channel!ChanInit
    BY DEF Init, Channel!ChanInit
  <1>2. IInv /\ IInv' /\ [Next]_vars => [Channel!Next]_(Channel!chanVars)
    <2> SUFFICES ASSUME IInv, IInv', [Next]_vars
                 PROVE  [Channel!Next]_(Channel!chanVars)
      OBVIOUS
    <2>0. TypeOK
      BY DEF IInv
    <2>1. ASSUME NEW f, PutOnWire(f) PROVE Channel!Next
      BY <2>0, <2>1, PutOnWireSends DEF Channel!Next
    <2>2. ASSUME UNCHANGED <<wire, got, desync>>
          PROVE  UNCHANGED Channel!chanVars
      BY <2>2 DEF Channel!chanVars, KindOf, WellFormed
    <2>3. ASSUME NEW len, TryFrame(len), UNCHANGED senderVars
          PROVE  [Channel!Next]_(Channel!chanVars)
      <3>1. CASE UNCHANGED <<wire, Len(got), desync>>
        BY <3>1 DEF Channel!chanVars, KindOf, WellFormed
      <3>2. QED
        BY <2>3, <3>1, TryFrameReceives DEF Channel!Next
    <2>4. QED
      BY <2>1, <2>2, <2>3
         DEF Next, Send, SendMalformed, Write, WriteError, Close, Reset, Recv, Read,
             ReadClosed, ReadError, vars, receiverVars, senderVars
  <1>3. QED
    BY <1>1, <1>2, InductiveInvariant, PTL DEF Spec, ImplementsChannel, Channel!Spec
=============================================================================
