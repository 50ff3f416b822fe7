-------------------------- MODULE LogServerProofs --------------------------
(***************************************************************************)
(* Proofs about the slots of the log daemon, for any number of connections, *)
(* slots and descriptors.                                                  *)
(***************************************************************************)
EXTENDS LogServer, TLAPS

\* The acceptor has a connection in its hands.
Handing == apc = "find" \/ HasSlot

\* The lock, and what the acceptor has in its hands: a connection without a
\* handler that nobody else waits for.
AcceptorInv ==
    /\ ~(Locked /\ Filling)
    /\ Locked => idx # 0
    /\ Handing => pc[cur.conn] = "none" /\ cur.conn \notin waiting
    /\ Filling => sockfd[slot[cur.conn]] # 0
    /\ \A c \in waiting : pc[c] = "none"

HandlerInv == TypeOK /\ AcceptorInv /\ ConnectedHasHandler

\* Until an application is refused or the server stopped, a slot belongs to
\* the handler stored in it, and to the acceptor while it fills it.
Undisturbed == ~refused /\ running

\* A live handler owns its slot, and its socket until it has closed it.
Owns(c) ==
    /\ connected[slot[c]] /\ thread[slot[c]] = c
    /\ HasSlot => slot[cur.conn] # slot[c]
    /\ pc[c] # "clear" => fds[sockfd[slot[c]]] = c
    /\ pc[c] = "clear" => fds[sockfd[slot[c]]] # c

\* An open descriptor is the acceptor's or its handler's.
Accounted(n) ==
    \/ Handing /\ cur.fd = n
    \/ Live(fds[n]) /\ sockfd[slot[fds[n]]] = n

ExclusiveInv ==
    /\ mpc \in {"closing", "lock", "sweep", "marked", "joining"} => ~running
    /\ Undisturbed =>
         /\ \A c \in Conns : Live(c) => Owns(c)
         /\ \A n \in Fds : fds[n] # None => Accounted(n)
         /\ Handing /\ apc # "unmark" => fds[cur.fd] = cur.conn
         /\ apc = "unmark" => fds[cur.fd] = None
         /\ Filling => sockfd[slot[cur.conn]] = cur.fd
         /\ apc = "create" => connected[slot[cur.conn]]

IInv == HandlerInv /\ ExclusiveInv

\* A live handler works on a slot of the array with a descriptor in it.
LEMMA LiveSlot ==
    ASSUME TypeOK, NEW c \in Conns, Live(c)
    PROVE  slot[c] \in Slots /\ sockfd[slot[c]] \in Fds
<1>1. slot[c] \in Slots \cup {NoSlot} /\ slot[c] # NoSlot /\ sockfd[slot[c]] # 0
    BY DEF TypeOK
<1>2. slot[c] \in Slots
    BY <1>1
<1>3. sockfd[slot[c]] \in 0..MaxFd
    BY <1>2 DEF TypeOK
<1> QED
    BY <1>1, <1>2, <1>3, ServerAssumption DEF Fds

\* So does the acceptor once it has found one.
LEMMA HandedSlot ==
    ASSUME TypeOK, Handing
    PROVE  /\ cur.conn \in Conns /\ cur.fd \in Fds
           /\ HasSlot => slot[cur.conn] \in Slots
<1>1. cur.conn \in Conns /\ cur.fd # 0 /\ cur.fd \in 0..MaxFd
    BY DEF TypeOK, Handing
<1>2. ASSUME HasSlot PROVE slot[cur.conn] \in Slots
    BY <1>1, <1>2 DEF TypeOK
<1> QED
    BY <1>1, <1>2, ServerAssumption DEF Fds

\* A handler's step keeps the types if it keeps those of what it may change,
\* and starts no thread.
LEMMA HandlerType ==
    ASSUME TypeOK, UNCHANGED <<mainVars, sockfd, thread, acceptVars, slot, clientVars>>,
           connected' \in [Slots -> BOOLEAN], fds' \in [Fds -> Conns \cup {None}],
           pc' \in [Conns -> HandlerPlaces], rsock' \in [Conns -> Conns \cup {None}],
           refused' \in BOOLEAN, \A d \in Conns : Live(d)' => Live(d)
    PROVE  TypeOK'
<1>1. UNCHANGED <<running, server_fd, mpc, idx, sockfd, thread, apc, cur, slot,
                  waiting, gone>>
    BY DEF mainVars, acceptVars, clientVars
<1> QED
    BY <1>1 DEF TypeOK, HasSlot, Filling

\* Types are kept: every step assigns values of the right kind, the acceptor
\* hands over a slot only if it has found one, and dlt_server_stop joins the
\* handler that ConnectedHasHandler promises.
LEMMA TypeStep ==
    ASSUME TypeOK, AcceptorInv, ConnectedHasHandler, [Next]_vars
    PROVE  TypeOK'
<1> USE ServerAssumption DEF TypeOK, HandlerPlaces, Slots, Fds, NoSlot, HasSlot, Filling, Live, AcceptorInv, Handing, ConnectedHasHandler,
      mainVars, slotVars, acceptVars, handlerVars, clientVars
<1>1. ASSUME NEW c \in Conns, Connect(c) PROVE TypeOK'
    BY <1>1 DEF Connect, Seen
<1>2. ASSUME NEW c \in Conns, ClientClose(c) PROVE TypeOK'
    BY <1>2 DEF ClientClose
<1>3. CASE AcceptTest
    BY <1>3 DEF AcceptTest
<1>4. ASSUME NEW c \in Conns, Accept(c) PROVE TypeOK'
    BY <1>4 DEF Accept
<1>5. CASE AcceptError
    BY <1>5 DEF AcceptError
<1>6. CASE FindSlot
    <2>1. CASE \E s \in Slots : FirstFree(s) /\ slot' = [slot EXCEPT ![cur.conn] = s]
                                /\ apc' = "fill" /\ UNCHANGED <<fds, pc>>
        BY <1>6, <2>1 DEF FindSlot
    <2>2. CASE /\ fds' = Closed(cur.fd) /\ apc' = "test" /\ UNCHANGED slot
               /\ pc' = [pc EXCEPT ![cur.conn] = "done"]
        BY <1>6, <2>2 DEF FindSlot, Closed
    <2> QED
        BY <1>6, <2>1, <2>2 DEF FindSlot
<1>7. CASE FillSlot
    BY <1>7 DEF FillSlot
<1>8. CASE MarkSlot
    BY <1>8 DEF MarkSlot
<1>9. CASE CreateHandler
    BY <1>9 DEF CreateHandler
<1>10. CASE CreateFails
    BY <1>10 DEF CreateFails, Closed
<1>11. CASE UnmarkSlot
    BY <1>11 DEF UnmarkSlot
<1>12. ASSUME NEW c \in Conns, Start(c) PROVE TypeOK'
    BY <1>12 DEF Start, GoTo
<1>13. ASSUME NEW c \in Conns, StartFails(c) PROVE TypeOK'
    BY <1>13 DEF StartFails, GoTo
<1>14. ASSUME NEW c \in Conns, LoopTest(c) PROVE TypeOK'
    <2>1. PICK place \in {"recv", "close"} : pc' = [pc EXCEPT ![c] = place]
        BY <1>14 DEF LoopTest, GoTo
    <2>2. pc[c] = "loop" /\ \A d \in Conns : pc'[d] = IF d = c THEN place ELSE pc[d]
        BY <1>14, <2>1 DEF LoopTest
    <2>3. Live(c) /\ pc' \in [Conns -> HandlerPlaces]
        BY <2>1, <2>2
    <2>4. \A d \in Conns : Live(d)' => Live(d)
        BY <2>2
    <2>5. slot[c] \in Slots /\ sockfd[slot[c]] \in Fds
        BY <2>3, LiveSlot
    <2>6. rsock' = rsock \/ rsock' = [rsock EXCEPT ![c] = fds[sockfd[slot[c]]]]
        BY <1>14 DEF LoopTest
    <2>7. fds[sockfd[slot[c]]] \in Conns \cup {None}
        BY <2>5
    <2>8. rsock' \in [Conns -> Conns \cup {None}]
        <3>1. rsock \in [Conns -> Conns \cup {None}]
            OBVIOUS
        <3> HIDE DEF TypeOK, AcceptorInv, ConnectedHasHandler
        <3> QED
            BY <2>6, <2>7, <3>1
    <2>9. UNCHANGED <<mainVars, slotVars, acceptVars, slot, clientVars, refused>>
        BY <1>14 DEF LoopTest
    <2> QED
        BY <2>3, <2>4, <2>8, <2>9, HandlerType
<1>15. ASSUME NEW c \in Conns, NEW kind \in FrameKind, RecvFrame(c, kind) PROVE TypeOK'
    BY <1>15, SMTT(20) DEF RecvFrame, GoTo
<1>16. ASSUME NEW c \in Conns, Refuse(c) PROVE TypeOK'
    <2>1. connected' \in [Slots -> BOOLEAN]
        BY <1>16, Zenon DEF Refuse
    <2>2. pc' \in [Conns -> HandlerPlaces] /\ \A d \in Conns : Live(d)' => Live(d)
        BY <1>16 DEF Refuse, GoTo
    <2> QED
        BY <1>16, <2>1, <2>2, HandlerType DEF Refuse
<1>17. ASSUME NEW c \in Conns, RecvEnd(c) PROVE TypeOK'
    BY <1>17 DEF RecvEnd, GoTo
<1>18. ASSUME NEW c \in Conns, RecvGarbage(c) PROVE TypeOK'
    BY <1>18 DEF RecvGarbage, GoTo
<1>19. ASSUME NEW c \in Conns, CloseSock(c) PROVE TypeOK'
    BY <1>19, SMTT(20) DEF CloseSock, Closed, GoTo
<1>20. ASSUME NEW c \in Conns, Clear(c) PROVE TypeOK'
    <2>1. connected' \in [Slots -> BOOLEAN]
        BY <1>20, Zenon DEF Clear
    <2>2. pc' \in [Conns -> HandlerPlaces] /\ \A d \in Conns : Live(d)' => Live(d)
        BY <1>20 DEF Clear, GoTo
    <2> QED
        BY <1>20, <2>1, <2>2, HandlerType DEF Clear
<1>21. CASE Stop
    BY <1>21 DEF Stop
<1>22. CASE StopListening
    BY <1>22 DEF StopListening
<1>23. CASE TakeLock
    BY <1>23 DEF TakeLock
<1>24. CASE Sweep
    <2>1. CASE connected[idx]
        <3>1. /\ connected' = [connected EXCEPT ![idx] = FALSE]
              /\ mpc' = "marked" /\ idx' = idx /\ idx \in Slots
            BY <1>24, <2>1 DEF Sweep, Locked
        <3>2. connected' \in [Slots -> BOOLEAN]
            BY <3>1, Zenon
        <3>3. ~Filling
            BY <1>24 DEF Sweep, Locked
        <3>4. thread[idx] \in Conns
            BY <2>1, <3>1, <3>3
        <3> QED
            BY <1>24, <3>1, <3>2, <3>4 DEF Sweep
    <2>2. CASE ~connected[idx]
        BY <1>24, <2>2 DEF Sweep
    <2> QED
        BY <2>1, <2>2
<1>25. CASE SweepClose
    BY <1>25 DEF SweepClose, Closed
<1>26. CASE Joined
    BY <1>26 DEF Joined
<1>27. CASE SweepDone
    BY <1>27 DEF SweepDone
<1>28. CASE Exit
    BY <1>28 DEF Exit
<1>29. CASE UNCHANGED vars
    BY <1>29 DEF vars
<1> QED
    BY <1>1, <1>2, <1>3, <1>4, <1>5, <1>6, <1>7, <1>8, <1>9, <1>10, <1>11, <1>12,
       <1>13, <1>14, <1>15, <1>16, <1>17, <1>18, <1>19, <1>20, <1>21, <1>22, <1>23, <1>24,
       <1>25, <1>26, <1>27, <1>28, <1>29 DEF Next, Acceptor, Handler, Main

\* The lock is exclusive, and what the acceptor holds stays its own.
LEMMA AcceptorStep ==
    ASSUME TypeOK, AcceptorInv, [Next]_vars
    PROVE  AcceptorInv'
<1> USE ServerAssumption DEF TypeOK, HandlerPlaces, Slots, Fds, NoSlot, HasSlot, Filling, Live, AcceptorInv, Handing, Locked,
      mainVars, slotVars, acceptVars, handlerVars, clientVars
<1>1. ASSUME NEW c \in Conns, Connect(c) PROVE AcceptorInv'
    BY <1>1 DEF Connect, Seen
<1>2. ASSUME NEW c \in Conns, ClientClose(c) PROVE AcceptorInv'
    BY <1>2 DEF ClientClose
<1>3. CASE AcceptTest
    BY <1>3 DEF AcceptTest
<1>4. ASSUME NEW c \in Conns, Accept(c) PROVE AcceptorInv'
    BY <1>4 DEF Accept
<1>5. CASE AcceptError
    BY <1>5 DEF AcceptError
<1>6. CASE FindSlot
    BY <1>6 DEF FindSlot, FirstFree, Closed
<1>7. CASE FillSlot
    BY <1>7 DEF FillSlot
<1>8. CASE MarkSlot
    BY <1>8 DEF MarkSlot
<1>9. CASE CreateHandler
    BY <1>9 DEF CreateHandler
<1>10. CASE CreateFails
    BY <1>10 DEF CreateFails, Closed
<1>11. CASE UnmarkSlot
    BY <1>11 DEF UnmarkSlot
<1>12. ASSUME NEW c \in Conns, Start(c) PROVE AcceptorInv'
    BY <1>12 DEF Start, GoTo
<1>13. ASSUME NEW c \in Conns, StartFails(c) PROVE AcceptorInv'
    BY <1>13 DEF StartFails, GoTo
<1>14. ASSUME NEW c \in Conns, LoopTest(c) PROVE AcceptorInv'
    BY <1>14 DEF LoopTest, GoTo
<1>15. ASSUME NEW c \in Conns, NEW kind \in FrameKind, RecvFrame(c, kind) PROVE AcceptorInv'
    BY <1>15 DEF RecvFrame, GoTo
<1>16. ASSUME NEW c \in Conns, Refuse(c) PROVE AcceptorInv'
    BY <1>16 DEF Refuse, GoTo
<1>17. ASSUME NEW c \in Conns, RecvEnd(c) PROVE AcceptorInv'
    BY <1>17 DEF RecvEnd, GoTo
<1>18. ASSUME NEW c \in Conns, RecvGarbage(c) PROVE AcceptorInv'
    BY <1>18 DEF RecvGarbage, GoTo
<1>19. ASSUME NEW c \in Conns, CloseSock(c) PROVE AcceptorInv'
    BY <1>19 DEF CloseSock, Closed, GoTo
<1>20. ASSUME NEW c \in Conns, Clear(c) PROVE AcceptorInv'
    BY <1>20 DEF Clear, GoTo
<1>21. CASE Stop
    BY <1>21 DEF Stop
<1>22. CASE StopListening
    BY <1>22 DEF StopListening
<1>23. CASE TakeLock
    BY <1>23 DEF TakeLock
<1>24. CASE Sweep
    BY <1>24 DEF Sweep
<1>25. CASE SweepClose
    BY <1>25 DEF SweepClose, Closed
<1>26. CASE Joined
    BY <1>26 DEF Joined
<1>27. CASE SweepDone
    BY <1>27 DEF SweepDone
<1>28. CASE Exit
    BY <1>28 DEF Exit
<1>29. CASE UNCHANGED vars
    BY <1>29 DEF vars
<1> QED
    BY <1>1, <1>2, <1>3, <1>4, <1>5, <1>6, <1>7, <1>8, <1>9, <1>10, <1>11, <1>12,
       <1>13, <1>14, <1>15, <1>16, <1>17, <1>18, <1>19, <1>20, <1>21, <1>22, <1>23, <1>24,
       <1>25, <1>26, <1>27, <1>28, <1>29 DEF Next, Acceptor, Handler, Main

\* A connected slot keeps its handler: only Clear and the refusal of a
\* connection end a thread, and they find the slot unmarked.
LEMMA HandlerStep ==
    ASSUME TypeOK, AcceptorInv, ConnectedHasHandler, [Next]_vars
    PROVE  ConnectedHasHandler'
<1> USE ServerAssumption DEF TypeOK, HandlerPlaces, Slots, Fds, NoSlot, HasSlot, Filling, Live, AcceptorInv, Handing, Locked, ConnectedHasHandler,
      mainVars, slotVars, acceptVars, handlerVars, clientVars
<1>1. ASSUME NEW c \in Conns, Connect(c) PROVE ConnectedHasHandler'
    BY <1>1 DEF Connect, Seen
<1>2. ASSUME NEW c \in Conns, ClientClose(c) PROVE ConnectedHasHandler'
    BY <1>2 DEF ClientClose
<1>3. CASE AcceptTest
    BY <1>3 DEF AcceptTest
<1>4. ASSUME NEW c \in Conns, Accept(c) PROVE ConnectedHasHandler'
    BY <1>4 DEF Accept
<1>5. CASE AcceptError
    BY <1>5 DEF AcceptError
<1>6. CASE FindSlot
    BY <1>6 DEF FindSlot, FirstFree, Closed
<1>7. CASE FillSlot
    BY <1>7 DEF FillSlot
<1>8. CASE MarkSlot
    BY <1>8 DEF MarkSlot
<1>9. CASE CreateHandler
    BY <1>9 DEF CreateHandler
<1>10. CASE CreateFails
    BY <1>10 DEF CreateFails, Closed
<1>11. CASE UnmarkSlot
    BY <1>11 DEF UnmarkSlot
<1>12. ASSUME NEW c \in Conns, Start(c) PROVE ConnectedHasHandler'
    BY <1>12 DEF Start, GoTo
<1>13. ASSUME NEW c \in Conns, StartFails(c) PROVE ConnectedHasHandler'
    BY <1>13 DEF StartFails, GoTo
<1>14. ASSUME NEW c \in Conns, LoopTest(c) PROVE ConnectedHasHandler'
    BY <1>14 DEF LoopTest, GoTo
<1>15. ASSUME NEW c \in Conns, NEW kind \in FrameKind, RecvFrame(c, kind) PROVE ConnectedHasHandler'
    BY <1>15 DEF RecvFrame, GoTo
<1>16. ASSUME NEW c \in Conns, Refuse(c) PROVE ConnectedHasHandler'
    BY <1>16 DEF Refuse, GoTo
<1>17. ASSUME NEW c \in Conns, RecvEnd(c) PROVE ConnectedHasHandler'
    BY <1>17 DEF RecvEnd, GoTo
<1>18. ASSUME NEW c \in Conns, RecvGarbage(c) PROVE ConnectedHasHandler'
    BY <1>18 DEF RecvGarbage, GoTo
<1>19. ASSUME NEW c \in Conns, CloseSock(c) PROVE ConnectedHasHandler'
    BY <1>19 DEF CloseSock, Closed, GoTo
<1>20. ASSUME NEW c \in Conns, Clear(c) PROVE ConnectedHasHandler'
    BY <1>20 DEF Clear, GoTo
<1>21. CASE Stop
    BY <1>21 DEF Stop
<1>22. CASE StopListening
    BY <1>22 DEF StopListening
<1>23. CASE TakeLock
    BY <1>23 DEF TakeLock
<1>24. CASE Sweep
    BY <1>24 DEF Sweep
<1>25. CASE SweepClose
    BY <1>25 DEF SweepClose, Closed
<1>26. CASE Joined
    BY <1>26 DEF Joined
<1>27. CASE SweepDone
    BY <1>27 DEF SweepDone
<1>28. CASE Exit
    BY <1>28 DEF Exit
<1>29. CASE UNCHANGED vars
    BY <1>29 DEF vars
<1> QED
    BY <1>1, <1>2, <1>3, <1>4, <1>5, <1>6, <1>7, <1>8, <1>9, <1>10, <1>11, <1>12,
       <1>13, <1>14, <1>15, <1>16, <1>17, <1>18, <1>19, <1>20, <1>21, <1>22, <1>23, <1>24,
       <1>25, <1>26, <1>27, <1>28, <1>29 DEF Next, Acceptor, Handler, Main

\* Ownership of slots and descriptors: accept() takes a free descriptor,
\* FindSlot a slot without a live handler, and a handler closes its own
\* socket before it gives its slot back.
LEMMA ExclusiveStep ==
    ASSUME TypeOK, AcceptorInv, ExclusiveInv, [Next]_vars
    PROVE  ExclusiveInv'
<1> USE ServerAssumption DEF TypeOK, HandlerPlaces, Slots, Fds, NoSlot, HasSlot, Filling, Live, AcceptorInv, Handing, Locked, ExclusiveInv, Undisturbed, Owns, Accounted,
      mainVars, slotVars, acceptVars, handlerVars, clientVars
<1>1. ASSUME NEW c \in Conns, Connect(c) PROVE ExclusiveInv'
    BY <1>1 DEF Connect, Seen
<1>2. ASSUME NEW c \in Conns, ClientClose(c) PROVE ExclusiveInv'
    BY <1>2 DEF ClientClose
<1>3. CASE AcceptTest
    BY <1>3 DEF AcceptTest
<1>4. ASSUME NEW c \in Conns, Accept(c) PROVE ExclusiveInv'
    BY <1>4 DEF Accept
<1>5. CASE AcceptError
    BY <1>5 DEF AcceptError
<1>6. CASE FindSlot
    <2>1. ASSUME NEW s \in Slots, FirstFree(s), slot' = [slot EXCEPT ![cur.conn] = s],
                 apc' = "fill", UNCHANGED <<fds, pc>>
          PROVE  ExclusiveInv'
        <3>1. \A c \in Conns : Live(c) => c # cur.conn /\ slot'[c] = slot[c]
            BY <1>6, <2>1 DEF FindSlot
        <3>2. slot'[cur.conn] = s /\ ~connected[s]
            BY <1>6, <2>1 DEF FindSlot, FirstFree
        <3>3. Undisturbed => \A c \in Conns : Live(c) => Owns(c)'
            BY <1>6, <2>1, <3>1, <3>2 DEF FindSlot
        <3>4. Undisturbed => \A m \in Fds : fds[m] # None => Accounted(m)'
            BY <1>6, <2>1, <3>1 DEF FindSlot
        <3> QED
            BY <1>6, <2>1, <3>3, <3>4 DEF FindSlot
    <2>2. CASE /\ fds' = Closed(cur.fd) /\ apc' = "test" /\ UNCHANGED slot
               /\ pc' = [pc EXCEPT ![cur.conn] = "done"]
        <3>1. \A c \in Conns : Live(c)' => Live(c) /\ c # cur.conn /\ pc'[c] = pc[c]
            BY <1>6, <2>2 DEF FindSlot
        <3>2. \A m \in Fds : fds'[m] = IF m = cur.fd THEN None ELSE fds[m]
            BY <2>2 DEF Closed
        <3>3. Undisturbed => fds[cur.fd] = cur.conn
            BY <1>6 DEF FindSlot
        <3>4. ASSUME Undisturbed, NEW c \in Conns, Live(c)' PROVE Owns(c)'
            <4>1. sockfd[slot[c]] \in Fds /\ Owns(c) /\ c # cur.conn
                BY <3>1, <3>4, LiveSlot
            <4> QED
                BY <1>6, <2>2, <3>1, <3>2, <3>3, <3>4, <4>1 DEF FindSlot
        <3>5. Undisturbed => \A m \in Fds : fds'[m] # None => Accounted(m)'
            BY <1>6, <2>2, <3>1, <3>2 DEF FindSlot
        <3> QED
            BY <1>6, <2>2, <3>4, <3>5 DEF FindSlot
    <2> QED
        BY <1>6, <2>1, <2>2 DEF FindSlot
<1>7. CASE FillSlot
    BY <1>7 DEF FillSlot
<1>8. CASE MarkSlot
    BY <1>8 DEF MarkSlot
<1>9. CASE CreateHandler
    <2>1. pc' = [pc EXCEPT ![cur.conn] = "start"] /\ cur.conn \in Conns /\ Handing
        BY <1>9 DEF CreateHandler
    <2>2. ASSUME NEW c \in Conns, c # cur.conn PROVE pc'[c] = pc[c]
        BY <2>1, <2>2
    <2>3. slot[cur.conn] \in Slots /\ pc'[cur.conn] = "start"
        BY <1>9, <2>1, HandedSlot DEF CreateHandler
    <2>4. Undisturbed => Owns(cur.conn)'
        BY <1>9, <2>3 DEF CreateHandler
    <2>5. ASSUME Undisturbed, NEW c \in Conns, Live(c), pc'[c] = pc[c] PROVE Owns(c)'
        BY <1>9, <2>3, <2>5 DEF CreateHandler
    <2>6. Undisturbed => \A m \in Fds : fds[m] # None => Accounted(m)'
        BY <1>9, <2>2, <2>3 DEF CreateHandler
    <2> QED
        BY <1>9, <2>2, <2>4, <2>5, <2>6 DEF CreateHandler
<1>10. CASE CreateFails
    BY <1>10 DEF CreateFails, Closed
<1>11. CASE UnmarkSlot
    BY <1>11 DEF UnmarkSlot
<1>12. ASSUME NEW c \in Conns, Start(c) PROVE ExclusiveInv'
    BY <1>12 DEF Start, GoTo
<1>13. ASSUME NEW c \in Conns, StartFails(c) PROVE ExclusiveInv'
    BY <1>13 DEF StartFails, GoTo
<1>14. ASSUME NEW c \in Conns, LoopTest(c) PROVE ExclusiveInv'
    <2>1. PICK place \in {"recv", "close"} : pc' = [pc EXCEPT ![c] = place]
        BY <1>14 DEF LoopTest, GoTo
    <2>2. pc[c] = "loop" /\ \A d \in Conns : pc'[d] = IF d = c THEN place ELSE pc[d]
        BY <1>14, <2>1 DEF LoopTest
    <2>3. ASSUME NEW d \in Conns
          PROVE  (Live(d)' <=> Live(d)) /\ (pc'[d] = "clear" <=> pc[d] = "clear")
        <3>1. CASE d = c
            BY <2>2, <3>1
        <3>2. CASE d # c
            BY <2>2, <3>2
        <3> QED
            BY <3>1, <3>2
    <2>4. UNCHANGED <<mainVars, slotVars, acceptVars, slot, clientVars, refused>>
        BY <1>14 DEF LoopTest
    <2>5. ASSUME Undisturbed, NEW d \in Conns, Live(d)' PROVE Owns(d)'
        <3>1. Owns(d) /\ (pc'[d] = "clear" <=> pc[d] = "clear")
            BY <2>3, <2>5
        <3> QED
            BY <2>4, <3>1
    <2>6. ASSUME Undisturbed, NEW m \in Fds, fds[m] # None PROVE Accounted(m)'
        BY <2>3, <2>4, <2>6
    <2> QED
        BY <2>4, <2>5, <2>6
<1>15. ASSUME NEW c \in Conns, NEW kind \in FrameKind, RecvFrame(c, kind) PROVE ExclusiveInv'
    BY <1>15 DEF RecvFrame, GoTo
<1>16. ASSUME NEW c \in Conns, Refuse(c) PROVE ExclusiveInv'
    BY <1>16 DEF Refuse, GoTo
<1>17. ASSUME NEW c \in Conns, RecvEnd(c) PROVE ExclusiveInv'
    BY <1>17 DEF RecvEnd, GoTo
<1>18. ASSUME NEW c \in Conns, RecvGarbage(c) PROVE ExclusiveInv'
    BY <1>18 DEF RecvGarbage, GoTo
<1>19. ASSUME NEW c \in Conns, CloseSock(c) PROVE ExclusiveInv'
    <2>1. \A d \in Conns : Live(d)' => Live(d) /\ (d # c => pc'[d] = pc[d])
        BY <1>19 DEF CloseSock, GoTo
    <2>2. \A m \in Fds : fds'[m] = IF m = sockfd[slot[c]] THEN None ELSE fds[m]
        BY <1>19 DEF CloseSock, Closed
    <2>3. Undisturbed => fds[sockfd[slot[c]]] = c /\ sockfd[slot[c]] \in Fds
        BY <1>19, LiveSlot DEF CloseSock
    <2>4. Undisturbed => \A d \in Conns : Live(d)' => Owns(d)'
        <3> SUFFICES ASSUME Undisturbed, NEW d \in Conns, Live(d)' PROVE Owns(d)'
            OBVIOUS
        <3>1. sockfd[slot[d]] \in Fds /\ slot[d] \in Slots /\ Owns(d)
            BY <2>1
        <3>2. CASE d = c
            BY <1>19, <2>2, <3>1, <3>2 DEF CloseSock, GoTo
        <3>3. CASE d # c
            BY <1>19, <2>1, <2>2, <2>3, <3>1, <3>3 DEF CloseSock
        <3> QED
            BY <3>2, <3>3
    <2>5. ASSUME Undisturbed, NEW m \in Fds, fds'[m] # None PROVE Accounted(m)'
        <3>1. fds'[m] = fds[m] /\ fds[m] \in Conns /\ Accounted(m)
            BY <2>2, <2>5
        <3>2. \A d \in Conns : Live(d) => Live(d)'
            BY <1>19 DEF CloseSock, GoTo
        <3> QED
            BY <1>19, <3>1, <3>2 DEF CloseSock
    <2>6. Undisturbed /\ Handing => cur.fd # sockfd[slot[c]] \/ apc = "unmark"
        BY <1>19, <2>3 DEF CloseSock
    <2> QED
        BY <1>19, <2>2, <2>4, <2>5, <2>6, SMTT(20) DEF CloseSock
<1>20. ASSUME NEW c \in Conns, Clear(c) PROVE ExclusiveInv'
    <2>1. \A d \in Conns : Live(d)' => Live(d) /\ d # c /\ pc'[d] = pc[d]
        BY <1>20 DEF Clear, GoTo
    <2>2. Undisturbed => \A d \in Conns : Live(d)' => Owns(d)'
        BY <1>20, <2>1 DEF Clear
    <2>3. Undisturbed => \A m \in Fds : fds[m] # None => Accounted(m)'
        BY <1>20 DEF Clear, GoTo
    <2> QED
        BY <1>20, <2>2, <2>3 DEF Clear
<1>21. CASE Stop
    BY <1>21 DEF Stop
<1>22. CASE StopListening
    BY <1>22 DEF StopListening
<1>23. CASE TakeLock
    BY <1>23 DEF TakeLock
<1>24. CASE Sweep
    BY <1>24 DEF Sweep
<1>25. CASE SweepClose
    BY <1>25 DEF SweepClose, Closed
<1>26. CASE Joined
    BY <1>26 DEF Joined
<1>27. CASE SweepDone
    BY <1>27 DEF SweepDone
<1>28. CASE Exit
    BY <1>28 DEF Exit
<1>29. CASE UNCHANGED vars
    BY <1>29 DEF vars
<1> QED
    BY <1>1, <1>2, <1>3, <1>4, <1>5, <1>6, <1>7, <1>8, <1>9, <1>10, <1>11, <1>12,
       <1>13, <1>14, <1>15, <1>16, <1>17, <1>18, <1>19, <1>20, <1>21, <1>22, <1>23, <1>24,
       <1>25, <1>26, <1>27, <1>28, <1>29 DEF Next, Acceptor, Handler, Main

\* The inductive invariant of the slots: see IInv.
THEOREM SlotInvariant == Spec => []IInv
<1>1. Init => IInv
    <2> SUFFICES ASSUME Init PROVE IInv
        OBVIOUS
    <2> USE ServerAssumption DEF Init, Live, HasSlot, Filling
    <2>1. connected \in [Slots -> BOOLEAN]
        BY Zenon
    <2>2. /\ sockfd \in [Slots -> 0..MaxFd] /\ thread \in [Slots -> Conns \cup {None}]
          /\ fds \in [Fds -> Conns \cup {None}] /\ cur \in [fd : 0..MaxFd, conn : Conns \cup {None}]
        OBVIOUS
    <2>3. /\ slot \in [Conns -> Slots \cup {NoSlot}] /\ pc \in [Conns -> HandlerPlaces]
          /\ rsock \in [Conns -> Conns \cup {None}] /\ idx \in 0..(NSlots + 1)
        BY DEF HandlerPlaces
    <2>4. TypeOK
        BY <2>1, <2>2, <2>3 DEF TypeOK
    <2>5. AcceptorInv
        BY DEF AcceptorInv, Handing, Locked
    <2>6. ConnectedHasHandler
        BY DEF ConnectedHasHandler
    <2>7. ExclusiveInv
        BY DEF ExclusiveInv, Handing
    <2> QED
        BY <2>4, <2>5, <2>6, <2>7 DEF IInv, HandlerInv
<1>2. IInv /\ [Next]_vars => IInv'
    BY TypeStep, AcceptorStep, HandlerStep, ExclusiveStep DEF IInv, HandlerInv
<1> QED
    BY <1>1, <1>2, PTL DEF Spec

\* Type correctness: whatever the interleaving, the acceptor never fills a
\* slot it has not found, and dlt_server_stop never joins a thread that was
\* not stored.
THEOREM TypeCorrect == Spec => []TypeOK
<1>1. IInv => TypeOK
    BY DEF IInv, HandlerInv
<1> QED
    BY <1>1, SlotInvariant, PTL

\* A slot that is marked connected has a live handler that works on it,
\* although connection_acceptor and client_handler write it without a common
\* lock.
THEOREM HandlersExist == Spec => []ConnectedHasHandler
<1>1. IInv => ConnectedHasHandler
    BY DEF IInv, HandlerInv
<1> QED
    BY <1>1, SlotInvariant, PTL

\* Until an application is refused or the server stopped, handlers share
\* neither slots nor sockets, and no descriptor is leaked.
THEOREM SlotsAreExclusive == Spec => []SlotsExclusive
<1>1. IInv => SlotsExclusive
    BY DEF IInv, HandlerInv, ExclusiveInv, Undisturbed, Owns, Accounted, Handing,
           SlotsExclusive
<1> QED
    BY <1>1, SlotInvariant, PTL
=============================================================================
