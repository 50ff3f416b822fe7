---------------------------- MODULE BoundedFifo ----------------------------
(***************************************************************************)
(* What the log queue of m_log promises to the threads that share it       *)
(* (LogQueue in m_log/include/log_protocol.h): a first-in first-out buffer *)
(* of bounded capacity, emptied at its end.  It hides the ring of slots.   *)
(***************************************************************************)
EXTENDS Naturals, Sequences

CONSTANTS Items, Capacity

VARIABLE q

FifoInit == q = <<>>

\* log_queue_enqueue; a full queue refuses the frame and does not change.
Put(x) == Len(q) < Capacity /\ q' = Append(q, x)

\* log_queue_dequeue; it waits for a frame.
Get == q # <<>> /\ q' = Tail(q)

\* log_queue_destroy.
Clear == q' = <<>>

Next == (\E x \in Items : Put(x)) \/ Get \/ Clear

Spec == FifoInit /\ [][Next]_q
=============================================================================
