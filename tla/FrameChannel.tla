---------------------------- MODULE FrameChannel ----------------------------
(***************************************************************************)
(* What lucplib promises to lucpd and to the clients: a first-in first-out *)
(* channel of frames.  sent[i] is the kind of frame i; the receiver gets   *)
(* the well-formed frames one by one, and the channel breaks at the first  *)
(* malformed one and only there.                                           *)
(***************************************************************************)
EXTENDS Naturals, Sequences

VARIABLES sent, received, broken

FrameKind == {"wellformed", "malformed"}

chanVars == <<sent, received, broken>>

ChanInit == sent = <<>> /\ received = 0 /\ broken = FALSE

ChanSend ==
    /\ \E kind \in FrameKind : sent' = Append(sent, kind)
    /\ UNCHANGED <<received, broken>>

ChanRecv ==
    /\ ~broken
    /\ received < Len(sent) /\ sent[received + 1] = "wellformed"
    /\ received' = received + 1
    /\ UNCHANGED <<sent, broken>>

ChanBreak ==
    /\ ~broken
    /\ received < Len(sent) /\ sent[received + 1] = "malformed"
    /\ broken' = TRUE
    /\ UNCHANGED <<sent, received>>

Next == ChanSend \/ ChanRecv \/ ChanBreak

Spec == ChanInit /\ [][Next]_chanVars
=============================================================================
