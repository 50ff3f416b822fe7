---------------------------- MODULE LucpdProofs ----------------------------
(***************************************************************************)
(* Proofs about Lucpd for every set of connections and every max_clients:  *)
(* the counter client_count is right although main raises it after the     *)
(* thread has started, so that the number of session threads is bounded.   *)
(***************************************************************************)
EXTENDS Lucpd, FiniteSetTheorems, TLAPS

OccupiedAt == ThreadAt \cup {"orphan"}

\* The occupied slots, by where their connections are.
LEMMA OccupyingDef == Occupying = {c \in Conns : at[c] \in OccupiedAt}
  BY DEF Occupying, Live, Orphans, OccupiedAt

\* They are finitely many, so that they can be counted.
LEMMA OccupyingFinite ==
    /\ IsFiniteSet(Occupying) /\ Cardinality(Occupying) \in Nat
    /\ IsFiniteSet(Live) /\ Cardinality(Live) \in Nat
    /\ Cardinality(Live) <= Cardinality(Occupying)
  <1>1. IsFiniteSet(Occupying)
    BY LucpdAssumption, FS_Subset DEF Occupying, Live, Orphans
  <1>2. Live \subseteq Occupying
    BY DEF Occupying
  <1>3. QED
    BY <1>1, <1>2, FS_Subset, FS_CardinalityType

\* A step that neither takes nor frees a slot.
LEMMA SameSlots ==
    ASSUME SlotInv, Occupying' = Occupying, client_count' = client_count,
           mpc' = "count" <=> mpc = "count"
    PROVE  CountMatches' /\ SlotsBounded'
  BY DEF SlotInv, CountMatches, SlotsBounded

\* One connection moves, and occupies a slot before and after or never.
LEMMA MoveKeepsSlots ==
    ASSUME TypeOK, NEW c \in Conns, NEW p, at' = [at EXCEPT ![c] = p],
           at[c] \in OccupiedAt <=> p \in OccupiedAt
    PROVE  Occupying' = Occupying
  <1>0. at \in [Conns -> Places]
    BY DEF TypeOK
  <1>1. \A d \in Conns : at'[d] \in OccupiedAt <=> at[d] \in OccupiedAt
    BY <1>0
  <1>2. Occupying' = {d \in Conns : at'[d] \in OccupiedAt}
    BY DEF Occupying, Live, Orphans, OccupiedAt
  <1>3. QED
    BY <1>1, <1>2, OccupyingDef

\* Before the first connection no slot is counted or taken.
LEMMA InitEstablishes == Init => SlotInv
  <1> SUFFICES ASSUME Init PROVE SlotInv
    OBVIOUS
  <1>1. TypeOK
    BY DEF Init, TypeOK, Places, SessionStates, ThreadAt, PeerStates
  <1>2. Occupying = {}
    BY DEF Init, Occupying, Live, Orphans, ThreadAt
  <1>3. QED
    BY <1>1, <1>2, FS_EmptySet, LucpdAssumption
       DEF Init, SlotInv, CountMatches, SlotsBounded

\* lucp_net_send keeps the types of what it changes.
LEMMA NetSendType ==
    ASSUME TypeOK, NEW c \in Conns, NEW r \in Replies, NetSend(c, r), proc = "up"
    PROVE  /\ proc' \in {"up", "exited", "sigpipe", "segv"}
           /\ out' \in [Conns -> Seq(Replies)]
           /\ peer' \in [Conns -> PeerStates]
  <1>0. /\ out \in [Conns -> Seq(Replies)]
        /\ peer \in [Conns -> PeerStates]
    BY DEF TypeOK
  <1>1. CASE peer[c] = "rst"
    BY <1>0, <1>1 DEF NetSend
  <1>2. CASE peer[c] # "rst"
    <2>1. Append(out[c], r) \in Seq(Replies)
      BY <1>0
    <2>2. (IF peer[c] = "up" THEN "up" ELSE "rst") \in PeerStates
      BY DEF PeerStates
    <2>3. QED
      BY <1>0, <1>2, <2>1, <2>2 DEF NetSend
  <1>3. QED
    BY <1>1, <1>2

\* So does lucp_net_recv, and it moves no connection that main holds.
LEMMA NetRecvType ==
    ASSUME TypeOK, NEW c \in Conns, NEW f, NetRecv(c, f)
    PROVE  /\ proc = "up" /\ f \in ClientFrames /\ f.seq \in Nat
           /\ inq' \in [Conns -> Seq(ClientFrames)]
           /\ at' \in [Conns -> Places] /\ at' = [at EXCEPT ![c] = "loop"]
           /\ at[c] = "recv"
           /\ {d \in Conns : at'[d] = "held"} = {d \in Conns : at[d] = "held"}
  <1>1. /\ at \in [Conns -> Places] /\ inq \in [Conns -> Seq(ClientFrames)]
        /\ inq[c] \in Seq(ClientFrames)
    BY DEF TypeOK
  <1>2. /\ proc = "up" /\ at[c] = "recv" /\ inq[c] # <<>> /\ f = Head(inq[c])
        /\ inq' = [inq EXCEPT ![c] = Tail(@)] /\ at' = [at EXCEPT ![c] = "loop"]
    BY DEF NetRecv
  <1>3. f \in ClientFrames /\ Tail(inq[c]) \in Seq(ClientFrames)
    BY <1>1, <1>2
  <1>4. f.seq \in Nat
    BY <1>3, LucpdAssumption
  <1>5. inq' \in [Conns -> Seq(ClientFrames)]
    BY <1>1, <1>2, <1>3
  <1>6. at' \in [Conns -> Places]
    BY <1>1, <1>2 DEF Places, ThreadAt
  <1>7. {d \in Conns : at'[d] = "held"} = {d \in Conns : at[d] = "held"}
    BY <1>1, <1>2
  <1>8. QED
    BY <1>2, <1>3, <1>4, <1>5, <1>6, <1>7

\* A step of a session that leaves main alone keeps the types if it keeps
\* those of its own variables, and does not touch the connection main holds.
LEMMA SessionType ==
    ASSUME TypeOK, UNCHANGED <<mainVars, server_running, client_count>>,
           proc' \in {"up", "exited", "sigpipe", "segv"},
           at' \in [Conns -> Places],
           {d \in Conns : at'[d] = "held"} = {d \in Conns : at[d] = "held"},
           state' \in [Conns -> SessionStates], seq_num' \in [Conns -> Nat],
           stale' \in [Conns -> BOOLEAN], inq' \in [Conns -> Seq(ClientFrames)],
           peer' \in [Conns -> PeerStates],
           out' \in [Conns -> Seq(Replies)], acc' \in [Conns -> Seq(ClientFrames)]
    PROVE  TypeOK'
  <1>1. UNCHANGED <<mpc, cur, listen_fd>>
    BY DEF mainVars
  <1>2. cur' = {d \in Conns : at'[d] = "held"}
    BY <1>1 DEF TypeOK
  <1>3. QED
    BY <1>1, <1>2, Zenon DEF TypeOK

\* Every step of the daemon and its clients keeps the types.
LEMMA TypePreserved == TypeOK /\ [Next]_vars => TypeOK'
  <1> SUFFICES ASSUME TypeOK, [Next]_vars PROVE TypeOK'
    OBVIOUS
  <1> USE DEF mainVars, sessVars, Places, ThreadAt, SessionStates
  <1>1. ASSUME NEW c \in Conns, Connect(c) PROVE TypeOK'
    BY <1>1 DEF Connect, TypeOK
  <1>2. ASSUME NEW c \in Conns, NEW f \in ClientFrames, ClientSend(c, f) PROVE TypeOK'
    BY <1>2 DEF ClientSend, TypeOK
  <1>3. ASSUME NEW c \in Conns, NEW how \in {"fin", "reset"}, ClientLeave(c, how)
        PROVE  TypeOK'
    BY <1>3 DEF ClientLeave, PeerStates, TypeOK
  <1>4. ASSUME NEW c \in Conns, Elapse(c) PROVE TypeOK'
    BY <1>4 DEF Elapse, TypeOK
  <1>5. CASE HandleSig
    <2>1. UNCHANGED <<proc, mpc, cur, client_count, at, state, seq_num, stale, inq,
                      peer, out, acc>>
      BY <1>5 DEF HandleSig
    <2>2. listen_fd' \in {"open", "closed"} /\ server_running' \in BOOLEAN
      BY <1>5, Zenon DEF HandleSig
    <2>3. QED
      BY <2>1, <2>2 DEF TypeOK
  <1>6. CASE LoopTest
    BY <1>6 DEF LoopTest, TypeOK
  <1>7. ASSUME NEW c \in Conns, Accept(c) PROVE TypeOK'
    BY <1>7 DEF Accept, TypeOK
  <1>8. CASE AcceptClosed \/ AcceptError
    BY <1>8 DEF AcceptClosed, AcceptError, BreakLoop, TypeOK
  <1>9. ASSUME NEW c \in Conns, Refuse(c) PROVE TypeOK'
    BY <1>9 DEF Refuse, TypeOK
  <1>10. ASSUME NEW c \in Conns, Spawn(c) PROVE TypeOK'
    BY <1>10 DEF Spawn, TypeOK
  <1>11. ASSUME NEW c \in Conns, SpawnFails(c) PROVE TypeOK'
    BY <1>11 DEF SpawnFails, TypeOK
  <1>12. CASE CountUp
    BY <1>12 DEF CountUp, TypeOK
  <1>13. CASE Exit
    BY <1>13 DEF Exit, TypeOK
  <1>14. ASSUME NEW c \in Conns, LoopTop(c) PROVE TypeOK'
    <2>1. PICK p \in {"recv", "prep", "exit"} : at' = [at EXCEPT ![c] = p]
      BY <1>14 DEF LoopTop
    <2>2. /\ at' \in [Conns -> Places] /\ at[c] = "loop"
          /\ {d \in Conns : at'[d] = "held"} = {d \in Conns : at[d] = "held"}
      BY <1>14, <2>1 DEF LoopTop, TypeOK
    <2>3. \/ state' = state \/ state' = [state EXCEPT ![c] = state[c]]
          \/ state' = [state EXCEPT ![c] = "ERROR"]
      BY <1>14 DEF LoopTop
    <2>4. state' \in [Conns -> SessionStates]
      BY <2>3 DEF TypeOK
    <2>5. UNCHANGED <<proc, mainVars, server_running, client_count,
                      seq_num, stale, inq, peer, out, acc>>
      BY <1>14 DEF LoopTop
    <2>6. QED
      BY <2>2, <2>4, <2>5, SessionType DEF TypeOK
  <1>15. ASSUME NEW c \in Conns, NEW f \in ClientFrames, RecvRequest(c, f) PROVE TypeOK'
    <2>1. Reply(c, "ACK_START", f.seq, "SUCCESS") \in Replies
      BY LucpdAssumption DEF Reply, Replies, PrepStatus
    <2>2. NetRecv(c, f) /\ NetSend(c, Reply(c, "ACK_START", f.seq, "SUCCESS"))
      BY <1>15 DEF RecvRequest
    <2>3. Advance(c, f, "WAITING_UPLOAD_REQUEST") /\ seq_num' = [seq_num EXCEPT ![c] = f.seq]
          /\ UNCHANGED <<mainVars, server_running, client_count>>
      BY <1>15 DEF RecvRequest
    <2>4. state' \in [Conns -> SessionStates] /\ acc' \in [Conns -> Seq(ClientFrames)]
      BY <2>3 DEF Advance, TypeOK
    <2>5. stale' \in [Conns -> BOOLEAN]
      BY <2>3, Zenon DEF Advance, TypeOK
    <2>6. seq_num' \in [Conns -> Nat]
      BY <2>2, <2>3, NetRecvType DEF TypeOK
    <2>7. QED
      BY <2>1, <2>2, <2>3, <2>4, <2>5, <2>6, NetSendType, NetRecvType, SessionType
  <1>16. ASSUME NEW c \in Conns, NEW f \in ClientFrames, RecvBadVersion(c, f) PROVE TypeOK'
    <2>1. Reply(c, "ACK_START", f.seq, "FAILED") \in Replies
      BY LucpdAssumption DEF Reply, Replies
    <2>2. /\ NetRecv(c, f) /\ NetSend(c, Reply(c, "ACK_START", f.seq, "FAILED"))
          /\ UNCHANGED <<mainVars, server_running, client_count, seq_num, stale, acc>>
      BY <1>16 DEF RecvBadVersion
    <2>3. state' \in [Conns -> SessionStates]
      BY <1>16 DEF RecvBadVersion, TypeOK
    <2>4. seq_num' \in [Conns -> Nat] /\ stale' \in [Conns -> BOOLEAN]
          /\ acc' \in [Conns -> Seq(ClientFrames)]
      BY <2>2 DEF TypeOK
    <2>5. QED
      BY <2>1, <2>2, <2>3, <2>4, NetSendType, NetRecvType, SessionType
  <1>17. ASSUME NEW c \in Conns, NEW status \in PrepStatus, Prepare(c, status) PROVE TypeOK'
    <2>1. Reply(c, "NOTIFY_DONE", seq_num[c], status) \in Replies
      BY DEF Reply, Replies, TypeOK
    <2>2. /\ proc' \in {"up", "exited", "sigpipe", "segv"}
          /\ out' \in [Conns -> Seq(Replies)] /\ peer' \in [Conns -> PeerStates]
      BY <1>17, <2>1, NetSendType DEF Prepare
    <2>3. /\ at' \in [Conns -> Places]
          /\ {d \in Conns : at'[d] = "held"} = {d \in Conns : at[d] = "held"}
      BY <1>17 DEF Prepare, TypeOK
    <2>4. state' \in [Conns -> SessionStates]
      BY <1>17 DEF Prepare, TypeOK
    <2>5. stale' \in [Conns -> BOOLEAN]
      BY <1>17, Zenon DEF Prepare, TypeOK
    <2>6. UNCHANGED <<mainVars, server_running, client_count, seq_num, inq, acc>>
      BY <1>17 DEF Prepare
    <2>7. QED
      BY <2>2, <2>3, <2>4, <2>5, <2>6, SessionType DEF TypeOK
  <1>18. ASSUME NEW c \in Conns, NEW f \in ClientFrames, RecvResult(c, f) PROVE TypeOK'
    <2>1. PICK s \in SessionStates : Advance(c, f, s)
      BY <1>18 DEF RecvResult, AfterSuccess
    <2>2. state' \in [Conns -> SessionStates] /\ acc' \in [Conns -> Seq(ClientFrames)]
      BY <2>1 DEF Advance, TypeOK
    <2>3. stale' \in [Conns -> BOOLEAN]
      BY <2>1, Zenon DEF Advance, TypeOK
    <2>4. NetRecv(c, f) /\ UNCHANGED <<proc, mainVars, server_running, client_count,
                                      seq_num, peer, out>>
      BY <1>18 DEF RecvResult
    <2>5. QED
      BY <2>2, <2>3, <2>4, NetRecvType, SessionType DEF TypeOK
  <1>19. ASSUME NEW c \in Conns, NEW f \in ClientFrames, RecvOther(c, f) PROVE TypeOK'
    BY <1>19, NetRecvType DEF RecvOther, TypeOK
  <1>20. ASSUME NEW c \in Conns, RecvError(c) PROVE TypeOK'
    BY <1>20 DEF RecvError, TypeOK
  <1>21. ASSUME NEW c \in Conns, CloseFd(c) PROVE TypeOK'
    BY <1>21 DEF CloseFd, TypeOK
  <1>22. ASSUME NEW c \in Conns, CountDown(c) PROVE TypeOK'
    BY <1>22 DEF CountDown, TypeOK
  <1>23. CASE UNCHANGED vars
    BY <1>23 DEF vars, TypeOK
  <1>24. QED
    BY <1>1, <1>2, <1>3, <1>4, <1>5, <1>6, <1>7, <1>8, <1>9, <1>10, <1>11, <1>12,
       <1>13, <1>14, <1>15, <1>16, <1>17, <1>18, <1>19, <1>20, <1>21, <1>22, <1>23
       DEF Next, MainStep, SessionStep, ClientStep

\* A connection gets a slot in the same step in which main leaves its test
\* with a count below max_clients; the count follows later.
LEMMA TakeSlot ==
    ASSUME SlotInv, NEW c \in Conns, at[c] = "held", NEW p \in OccupiedAt,
           at' = [at EXCEPT ![c] = p],
           mpc = "check", mpc' = "count", ~Full, client_count' = client_count
    PROVE  CountMatches' /\ SlotsBounded'
  <1>0. at \in [Conns -> Places] /\ client_count \in Int
    BY DEF SlotInv, TypeOK
  <1>1. c \notin Occupying
    BY OccupyingDef DEF OccupiedAt, ThreadAt
  <1>2. Occupying' = {d \in Conns : at'[d] \in OccupiedAt}
    BY DEF Occupying, Live, Orphans, OccupiedAt
  <1>3. Occupying' = Occupying \cup {c}
    BY <1>0, <1>2, OccupyingDef
  <1>4. Cardinality(Occupying') = Cardinality(Occupying) + 1
    BY <1>1, <1>3, OccupyingFinite, FS_AddElement
  <1>5. Cardinality(Occupying) = client_count /\ client_count < MaxClients
    BY <1>0, OccupyingFinite, LucpdAssumption DEF SlotInv, CountMatches, Full
  <1>6. QED
    BY <1>0, <1>4, <1>5, LucpdAssumption DEF CountMatches, SlotsBounded

\* A thread gives its slot back in the step in which it lowers the count.
LEMMA FreeSlot ==
    ASSUME SlotInv, NEW c \in Conns, CountDown(c)
    PROVE  CountMatches' /\ SlotsBounded'
  <1>0. at \in [Conns -> Places] /\ client_count \in Int
    BY DEF SlotInv, TypeOK
  <1>1. c \in Occupying
    BY OccupyingDef DEF CountDown, OccupiedAt, ThreadAt
  <1>2. Occupying' = {d \in Conns : at'[d] \in OccupiedAt}
    BY DEF Occupying, Live, Orphans, OccupiedAt
  <1>3. Occupying' = Occupying \ {c}
    BY <1>0, <1>2, OccupyingDef DEF CountDown, OccupiedAt, ThreadAt
  <1>4. Cardinality(Occupying') = Cardinality(Occupying) - 1
    BY <1>1, <1>3, OccupyingFinite, FS_RemoveElement
  <1>5. client_count' = client_count - 1 /\ mpc' = mpc
    BY DEF CountDown, mainVars
  <1>6. Cardinality(Occupying) \in Nat
    BY OccupyingFinite
  <1>7. QED
    BY <1>0, <1>4, <1>5, <1>6, LucpdAssumption DEF SlotInv, CountMatches, SlotsBounded

\* Every step of main, of a session and of a client keeps the slots counted.
LEMMA StepPreserves == SlotInv /\ [Next]_vars => SlotInv'
  <1> SUFFICES ASSUME SlotInv, [Next]_vars PROVE SlotInv'
    OBVIOUS
  <1>0. TypeOK /\ TypeOK'
    BY TypePreserved DEF SlotInv
  <1> SUFFICES CountMatches' /\ SlotsBounded'
    BY <1>0 DEF SlotInv
  <1> USE DEF mainVars, sessVars
  <1>1. ASSUME NEW c \in Conns, NEW p, at' = [at EXCEPT ![c] = p],
               at[c] \in OccupiedAt <=> p \in OccupiedAt,
               client_count' = client_count, mpc' = "count" <=> mpc = "count"
        PROVE  CountMatches' /\ SlotsBounded'
    BY <1>0, <1>1, MoveKeepsSlots, SameSlots
  <1>2. ASSUME UNCHANGED <<at, client_count>>, mpc' = "count" <=> mpc = "count"
        PROVE  CountMatches' /\ SlotsBounded'
    <2>1. Occupying' = Occupying
      BY <1>2 DEF Occupying, Live, Orphans
    <2>2. QED
      BY <1>2, <2>1, SameSlots
  <1>3. ASSUME NEW c \in Conns, ClientStep(c) PROVE CountMatches' /\ SlotsBounded'
    <2>1. CASE Connect(c)
      BY <2>1, <1>1 DEF Connect, OccupiedAt, ThreadAt
    <2>2. CASE UNCHANGED <<at, client_count, mpc>>
      BY <2>2, <1>2
    <2>3. QED
      BY <1>3, <2>1, <2>2 DEF ClientStep, ClientSend, ClientLeave, Elapse
  <1>4. CASE HandleSig \/ LoopTest \/ AcceptClosed \/ AcceptError \/ Exit
    BY <1>4, <1>2 DEF HandleSig, LoopTest, AcceptClosed, AcceptError, BreakLoop, Exit
  <1>5. ASSUME NEW c \in Conns, Accept(c) \/ Refuse(c)
        PROVE  CountMatches' /\ SlotsBounded'
    <2>1. c \in cur => at[c] = "held"
      BY <1>0 DEF TypeOK
    <2>2. QED
      BY <1>1, <1>5, <2>1 DEF Accept, Refuse, OccupiedAt, ThreadAt
  <1>6. ASSUME NEW c \in Conns, Spawn(c) \/ SpawnFails(c)
        PROVE  CountMatches' /\ SlotsBounded'
    <2>1. c \in cur => at[c] = "held"
      BY <1>0 DEF TypeOK
    <2>2. QED
      BY <1>6, <2>1, TakeSlot DEF Spawn, SpawnFails, OccupiedAt, ThreadAt
  <1>7. CASE CountUp
    <2>1. Occupying' = Occupying
      BY <1>7 DEF CountUp, Occupying, Live, Orphans
    <2>2. client_count \in Int /\ Cardinality(Occupying) \in Nat
      BY <1>0, OccupyingFinite DEF TypeOK
    <2>3. QED
      BY <1>7, <2>1, <2>2 DEF CountUp, SlotInv, CountMatches, SlotsBounded
  <1>8. ASSUME NEW c \in Conns, SessionStep(c) PROVE CountMatches' /\ SlotsBounded'
    <2>1. CASE CountDown(c)
      BY <2>1, FreeSlot
    <2>2. CASE LoopTop(c)
      <3>1. PICK p \in {"recv", "prep", "exit"} : at' = [at EXCEPT ![c] = p]
        BY <2>2 DEF LoopTop
      <3>2. QED
        BY <2>2, <3>1, <1>1 DEF LoopTop, OccupiedAt, ThreadAt
    <2>3. CASE CloseFd(c) \/ RecvError(c)
      BY <2>3, <1>1 DEF CloseFd, RecvError, OccupiedAt, ThreadAt
    <2>4. ASSUME NEW f, NetRecv(c, f), UNCHANGED <<mainVars, client_count>>
          PROVE  CountMatches' /\ SlotsBounded'
      BY <2>4, <1>1 DEF NetRecv, OccupiedAt, ThreadAt
    <2>5. ASSUME NEW status \in PrepStatus, Prepare(c, status)
          PROVE  CountMatches' /\ SlotsBounded'
      BY <2>5, <1>1 DEF Prepare, OccupiedAt, ThreadAt
    <2>6. QED
      BY <1>8, <2>1, <2>2, <2>3, <2>4, <2>5
         DEF SessionStep, RecvRequest, RecvBadVersion, RecvResult, RecvOther
  <1>9. CASE UNCHANGED vars
    BY <1>9, <1>2 DEF vars
  <1>10. QED
    BY <1>3, <1>4, <1>5, <1>6, <1>7, <1>8, <1>9 DEF Next, MainStep

\* The slot invariant of the daemon holds always.
THEOREM SlotInvariant == Spec => []SlotInv
  BY InitEstablishes, StepPreserves, PTL DEF Spec

\* Every variable of the daemon keeps its type; main holds the one connection
\* that is between accept() and its slot.
THEOREM TypeCorrect == Spec => []TypeOK
  <1>1. SlotInv => TypeOK
    BY DEF SlotInv
  <1>2. QED
    BY <1>1, SlotInvariant, PTL

\* client_count is the number of occupied slots whenever main tests it.
THEOREM CountIsRight == Spec => []CountMatches
  <1>1. SlotInv => CountMatches
    BY DEF SlotInv
  <1>2. QED
    BY <1>1, SlotInvariant, PTL

\* There are never more than max_clients session threads.
THEOREM ThreadsBounded == Spec => []LiveSessionsBounded
  <1>1. SlotInv => LiveSessionsBounded
    BY OccupyingFinite, LucpdAssumption DEF SlotInv, SlotsBounded, LiveSessionsBounded
  <1>2. QED
    BY <1>1, SlotInvariant, PTL

\* main refuses a connection only when all slots are occupied.
THEOREM RefusesOnlyIfFull == Spec => RefusedOnlyIfFull
  <1>1. SlotInv /\ [Next]_vars =>
          [\A c \in Conns : at[c] = "held" /\ at'[c] = "refused"
              => Cardinality(Occupying) >= MaxClients]_vars
    <2> SUFFICES ASSUME SlotInv, Next, NEW c \in Conns,
                        at[c] = "held", at'[c] = "refused"
                 PROVE  Cardinality(Occupying) >= MaxClients
      OBVIOUS
    <2> USE DEF mainVars, sessVars
    <2>0. /\ at \in [Conns -> Places] /\ client_count \in Int
          /\ Cardinality(Occupying) \in Nat
      BY OccupyingFinite DEF SlotInv, TypeOK
    <2>1. \A d \in Conns : ~ClientStep(d)
      BY <2>0 DEF ClientStep, Connect, ClientSend, ClientLeave, Elapse
    <2>2. \A d \in Conns : ~SessionStep(d)
      <3> SUFFICES ASSUME NEW d \in Conns, SessionStep(d) PROVE FALSE
        OBVIOUS
      <3>1. PICK p \in {"loop", "recv", "prep", "exit", "closed", "done"} :
                at' = [at EXCEPT ![d] = p]
        BY DEF SessionStep, LoopTop, RecvRequest, RecvBadVersion, RecvResult,
               RecvOther, NetRecv, RecvError, Prepare, CloseFd, CountDown
      <3>2. QED
        BY <2>0, <3>1
    <2>3. PICK d \in Conns : Refuse(d)
      BY <2>0, <2>1, <2>2
         DEF Next, MainStep, Accept, Spawn, SpawnFails, LoopTest, AcceptClosed,
             AcceptError, BreakLoop, CountUp, Exit, HandleSig
    <2>4. mpc = "check" /\ client_count >= MaxClients
      BY <2>3 DEF Refuse, Full
    <2>5. QED
      BY <2>0, <2>4 DEF SlotInv, CountMatches
  <1>2. QED
    BY <1>1, SlotInvariant, PTL DEF Spec, RefusedOnlyIfFull
-----------------------------------------------------------------------------
(* What the state of a session says about the frames it sent and accepted. *)

Says(r, type, seq, status) == r.type = type /\ r.seq = seq /\ r.status = status

\* The request was accepted and acknowledged.
Asked(c) ==
    /\ Len(acc[c]) >= 1 /\ acc[c][1].type = "UPLOAD_REQUEST"
    /\ Len(out[c]) >= 1 /\ Says(out[c][1], "ACK_START", seq_num[c], "SUCCESS")

\* The prepared log was announced.
Announced(c) ==
    Len(out[c]) = 2 /\ Says(out[c][2], "NOTIFY_DONE", seq_num[c], "SUCCESS")

\* The n-th accepted frame is a good result.
Reported(c, n, type) == acc[c][n].type = type /\ acc[c][n].status = "SUCCESS"

\* The frames of a session in each state.  A session killed by SIGPIPE stands
\* in the state behind the notification that was not sent.
Progress(c) ==
    /\ state[c] = "INIT" => out[c] = <<>> /\ acc[c] = <<>>
    /\ state[c] = "WAITING_UPLOAD_REQUEST" =>
         Asked(c) /\ Len(out[c]) = 1 /\ Len(acc[c]) = 1
    /\ state[c] = "WAITING_FTP_LOGIN_RESULT" =>
         /\ Asked(c) /\ Len(acc[c]) = 1
         /\ proc = "sigpipe" \/ Announced(c)
    /\ state[c] = "WAITING_FTP_DOWNLOAD_RESULT" =>
         /\ Asked(c) /\ Announced(c) /\ Len(acc[c]) = 2
         /\ Reported(c, 2, "FTP_LOGIN_RESULT")
    /\ state[c] = "COMPLETED" =>
         /\ Asked(c) /\ Announced(c) /\ Len(acc[c]) = 3
         /\ Reported(c, 2, "FTP_LOGIN_RESULT") /\ Reported(c, 3, "FTP_DOWNLOAD_RESULT")
    /\ at[c] = "prep" => state[c] = "WAITING_UPLOAD_REQUEST"
    /\ at[c] = "recv" => state[c] \in Receiving
    /\ peer[c] = "rst" => out[c] # <<>>
    /\ Unwritten(c) # {} => peer[c] = "rst"
    /\ InOrder(c)

\* The inductive invariant of the sessions.
SessionInv == TypeOK /\ KilledOnlyByEarlyClose /\ \A c \in Conns : Progress(c)

\* A connection whose own variables stay, up to a step to another place or a
\* close of the client's end, keeps its progress.
LEMMA SameProgress ==
    ASSUME NEW d \in Conns, Progress(d), proc = "up",
           state'[d] = state[d], out'[d] = out[d], acc'[d] = acc[d],
           seq_num'[d] = seq_num[d],
           peer'[d] = peer[d] \/ (peer[d] = "up" /\ peer'[d] # "rst"),
           at'[d] = at[d] \/ at'[d] \notin {"prep", "recv"}
    PROVE  Progress(d)'
  BY DEF Progress, Unwritten, Asked, Announced, Says, Reported, InOrder

\* What lucp_net_send appends on a connection that was not reset.
LEMMA SendAppends ==
    ASSUME TypeOK, NEW c \in Conns, NEW r \in Replies, NetSend(c, r), peer[c] # "rst"
    PROVE  /\ proc' = proc
           /\ Len(out[c]) \in Nat /\ Len(out'[c]) = Len(out[c]) + 1
           /\ out'[c][Len(out[c]) + 1] = r
           /\ \A i \in 1..Len(out[c]) : out'[c][i] = out[c][i]
           /\ peer'[c] = IF peer[c] = "up" THEN "up" ELSE "rst"
           /\ \A d \in Conns \ {c} : out'[d] = out[d] /\ peer'[d] = peer[d]
  <1>1. /\ out \in [Conns -> Seq(Replies)] /\ out[c] \in Seq(Replies)
        /\ peer \in [Conns -> PeerStates]
    BY DEF TypeOK
  <1>2. /\ out' = [out EXCEPT ![c] = Append(@, r)] /\ proc' = proc
        /\ peer' = [peer EXCEPT ![c] = IF @ = "up" THEN "up" ELSE "rst"]
    BY DEF NetSend
  <1>3. out'[c] = Append(out[c], r)
    BY <1>1, <1>2
  <1>4. \A d \in Conns \ {c} : out'[d] = out[d] /\ peer'[d] = peer[d]
    BY <1>1, <1>2
  <1>5. QED
    BY <1>1, <1>2, <1>3, <1>4

\* A reply is lost only to a reset, which the write then reports.
LEMMA SendDelivers ==
    ASSUME TypeOK, NEW c \in Conns, NEW r \in Replies, NetSend(c, r),
           r.written <=> peer[c] # "reset", peer[c] # "rst",
           Unwritten(c) # {} => peer[c] = "rst"
    PROVE  Unwritten(c)' # {} => peer'[c] = "rst"
  <1>1. out[c] \in Seq(Replies) /\ out \in [Conns -> Seq(Replies)]
    BY DEF TypeOK
  <1>2. /\ Len(out[c]) \in Nat /\ Len(out'[c]) = Len(out[c]) + 1
        /\ out'[c][Len(out[c]) + 1] = r
        /\ \A i \in 1..Len(out[c]) : out'[c][i] = out[c][i]
        /\ peer'[c] = IF peer[c] = "up" THEN "up" ELSE "rst"
    BY SendAppends
  <1>3. DOMAIN out[c] = 1..Len(out[c]) /\ DOMAIN out'[c] = 1..Len(out'[c])
    <2>1. out' = [out EXCEPT ![c] = Append(@, r)]
      BY DEF NetSend
    <2>2. out'[c] \in Seq(Replies)
      BY <1>1, <2>1
    <2>3. QED
      BY <1>1, <2>2
  <1>4. \A i \in 1..Len(out[c]) : out[c][i].written
    BY <1>3 DEF Unwritten
  <1>5. SUFFICES ASSUME NEW i \in DOMAIN out'[c], ~out'[c][i].written
                 PROVE  peer'[c] = "rst"
    BY DEF Unwritten
  <1>6. i = Len(out[c]) + 1
    BY <1>2, <1>3, <1>4, <1>5
  <1>7. peer[c] = "reset"
    BY <1>2, <1>5, <1>6
  <1>8. QED
    BY <1>2, <1>7

\* What a step that accepts a frame appends.
LEMMA AdvanceAppends ==
    ASSUME TypeOK, NEW c \in Conns, NEW f \in ClientFrames, NEW s, Advance(c, f, s)
    PROVE  /\ Len(acc[c]) \in Nat /\ Len(acc'[c]) = Len(acc[c]) + 1
           /\ acc'[c][Len(acc[c]) + 1] = f
           /\ \A i \in 1..Len(acc[c]) : acc'[c][i] = acc[c][i]
           /\ state'[c] = s
           /\ \A d \in Conns \ {c} : acc'[d] = acc[d] /\ state'[d] = state[d]
  <1>1. /\ acc \in [Conns -> Seq(ClientFrames)] /\ acc[c] \in Seq(ClientFrames)
        /\ state \in [Conns -> SessionStates]
    BY DEF TypeOK
  <1>2. /\ acc' = [acc EXCEPT ![c] = Append(@, f)]
        /\ state' = [state EXCEPT ![c] = s]
    BY DEF Advance
  <1>3. acc'[c] = Append(acc[c], f) /\ state'[c] = s
    BY <1>1, <1>2
  <1>4. \A d \in Conns \ {c} : acc'[d] = acc[d] /\ state'[d] = state[d]
    BY <1>1, <1>2
  <1>5. QED
    BY <1>1, <1>3, <1>4

\* Receiving the first frame finds an unreset connection with empty histories.
LEMMA InitFacts ==
    ASSUME TypeOK, NEW c \in Conns, Progress(c), state[c] = "INIT"
    PROVE  /\ out[c] = <<>> /\ acc[c] = <<>> /\ peer[c] # "rst"
           /\ Len(out[c]) = 0 /\ Len(acc[c]) = 0
  BY DEF Progress

\* The accepted request.
LEMMA RequestProgress ==
    ASSUME SessionInv, NEW c \in Conns, NEW f \in ClientFrames, RecvRequest(c, f),
           NEW d \in Conns
    PROVE  Progress(d)' /\ proc' = "up"
  <1> DEFINE r == Reply(c, "ACK_START", f.seq, "SUCCESS")
  <1>0. TypeOK /\ Progress(c) /\ Progress(d)
    BY DEF SessionInv
  <1>1. /\ NetRecv(c, f) /\ NetSend(c, r) /\ Advance(c, f, "WAITING_UPLOAD_REQUEST")
        /\ seq_num' = [seq_num EXCEPT ![c] = f.seq]
        /\ state[c] = "INIT" /\ f.type = "UPLOAD_REQUEST"
    BY DEF RecvRequest
  <1>2. proc = "up" /\ f.seq \in Nat /\ at' = [at EXCEPT ![c] = "loop"]
    BY <1>0, <1>1, NetRecvType
  <1>3. r \in Replies
    BY <1>2 DEF Reply, Replies, PrepStatus
  <1>4. peer[c] # "rst" /\ Len(out[c]) = 0 /\ Len(acc[c]) = 0
    BY <1>0, <1>1, InitFacts
  <1> HIDE DEF r
  <1>5. /\ proc' = "up" /\ Len(out'[c]) = 1 /\ out'[c][1] = r
        /\ \A e \in Conns \ {c} : out'[e] = out[e] /\ peer'[e] = peer[e]
    <2>1. /\ proc' = proc /\ Len(out'[c]) = Len(out[c]) + 1
          /\ out'[c][Len(out[c]) + 1] = r
          /\ \A e \in Conns \ {c} : out'[e] = out[e] /\ peer'[e] = peer[e]
      BY <1>0, <1>1, <1>3, <1>4, SendAppends
    <2>2. QED
      BY <1>2, <1>4, <2>1
  <1>12. Unwritten(c)' # {} => peer'[c] = "rst"
    <2>1. r.written <=> peer[c] # "reset"
      BY DEF r, Reply
    <2>2. Unwritten(c) # {} => peer[c] = "rst"
      BY <1>0 DEF Progress
    <2>3. QED
      BY <1>0, <1>1, <1>3, <1>4, <2>1, <2>2, SendDelivers
  <1>6. /\ Len(acc'[c]) = 1 /\ acc'[c][1] = f /\ state'[c] = "WAITING_UPLOAD_REQUEST"
        /\ \A e \in Conns \ {c} : acc'[e] = acc[e] /\ state'[e] = state[e]
    <2>1. /\ Len(acc'[c]) = Len(acc[c]) + 1 /\ acc'[c][Len(acc[c]) + 1] = f
          /\ state'[c] = "WAITING_UPLOAD_REQUEST"
          /\ \A e \in Conns \ {c} : acc'[e] = acc[e] /\ state'[e] = state[e]
      BY <1>0, <1>1, AdvanceAppends
    <2>2. QED
      BY <1>4, <2>1
  <1>7. /\ seq_num'[c] = f.seq /\ at'[c] = "loop"
        /\ \A e \in Conns \ {c} : seq_num'[e] = seq_num[e] /\ at'[e] = at[e]
    BY <1>0, <1>1, <1>2 DEF TypeOK
  <1>8. CASE d = c
    <2>1. r.type = "ACK_START" /\ Says(r, "ACK_START", seq_num'[c], "SUCCESS")
      BY <1>7 DEF r, Reply, Says
    <2>2. out'[c] # <<>>
      BY <1>5
    <2>3. Asked(c)'
      BY <1>1, <1>5, <1>6, <2>1 DEF Asked
    <2>4. InOrder(c)'
      BY <1>5, <2>1 DEF InOrder
    <2>5. QED
      BY <1>5, <1>6, <1>7, <1>8, <1>12, <2>2, <2>3, <2>4 DEF Progress
  <1>9. CASE d # c
    <2>1. /\ out'[d] = out[d] /\ peer'[d] = peer[d] /\ acc'[d] = acc[d]
          /\ state'[d] = state[d] /\ seq_num'[d] = seq_num[d] /\ at'[d] = at[d]
      BY <1>5, <1>6, <1>7, <1>9
    <2>2. QED
      BY <1>0, <1>2, <1>5, <2>1, SameProgress
  <1>10. QED
    BY <1>5, <1>8, <1>9

\* The request of another version.
LEMMA BadVersionProgress ==
    ASSUME SessionInv, NEW c \in Conns, NEW f \in ClientFrames, RecvBadVersion(c, f),
           NEW d \in Conns
    PROVE  Progress(d)' /\ proc' = "up"
  <1> DEFINE r == Reply(c, "ACK_START", f.seq, "FAILED")
  <1>0. TypeOK /\ Progress(c) /\ Progress(d)
    BY DEF SessionInv
  <1>1. /\ NetRecv(c, f) /\ NetSend(c, r) /\ state[c] = "INIT"
        /\ state' = [state EXCEPT ![c] = "ERROR"]
        /\ seq_num' = seq_num /\ acc' = acc
    BY DEF RecvBadVersion
  <1>2. proc = "up" /\ f.seq \in Nat /\ at' = [at EXCEPT ![c] = "loop"]
    BY <1>0, <1>1, NetRecvType
  <1>3. r \in Replies
    BY <1>2 DEF Reply, Replies
  <1>4. peer[c] # "rst" /\ Len(out[c]) = 0
    BY <1>0, <1>1, InitFacts
  <1> HIDE DEF r
  <1>5. /\ proc' = "up" /\ Len(out'[c]) = 1 /\ out'[c][1] = r
        /\ \A e \in Conns \ {c} : out'[e] = out[e] /\ peer'[e] = peer[e]
    <2>1. /\ proc' = proc /\ Len(out'[c]) = Len(out[c]) + 1
          /\ out'[c][Len(out[c]) + 1] = r
          /\ \A e \in Conns \ {c} : out'[e] = out[e] /\ peer'[e] = peer[e]
      BY <1>0, <1>1, <1>3, <1>4, SendAppends
    <2>2. QED
      BY <1>2, <1>4, <2>1
  <1>12. Unwritten(c)' # {} => peer'[c] = "rst"
    <2>1. r.written <=> peer[c] # "reset"
      BY DEF r, Reply
    <2>2. Unwritten(c) # {} => peer[c] = "rst"
      BY <1>0 DEF Progress
    <2>3. QED
      BY <1>0, <1>1, <1>3, <1>4, <2>1, <2>2, SendDelivers
  <1>6. /\ state'[c] = "ERROR" /\ at'[c] = "loop"
        /\ \A e \in Conns \ {c} : state'[e] = state[e] /\ at'[e] = at[e]
    BY <1>0, <1>1, <1>2 DEF TypeOK
  <1>7. CASE d = c
    <2>1. out'[c] # <<>> /\ r.type = "ACK_START"
      BY <1>5 DEF r, Reply
    <2>2. InOrder(c)'
      BY <1>5, <2>1 DEF InOrder
    <2>3. QED
      BY <1>5, <1>6, <1>7, <1>12, <2>1, <2>2 DEF Progress
  <1>8. CASE d # c
    <2>1. /\ out'[d] = out[d] /\ peer'[d] = peer[d] /\ acc'[d] = acc[d]
          /\ state'[d] = state[d] /\ seq_num'[d] = seq_num[d] /\ at'[d] = at[d]
      BY <1>1, <1>5, <1>6, <1>8
    <2>2. QED
      BY <1>0, <1>2, <1>5, <2>1, SameProgress
  <1>9. QED
    BY <1>5, <1>7, <1>8

\* The notification.  On a reset connection it kills the daemon, and the
\* client is one that asked for an upload and closed before the answer.
LEMMA PrepareProgress ==
    ASSUME SessionInv, NEW c \in Conns, NEW status \in PrepStatus, Prepare(c, status),
           NEW d \in Conns
    PROVE  Progress(d)' /\ KilledOnlyByEarlyClose'
  <1> DEFINE r == Reply(c, "NOTIFY_DONE", seq_num[c], status)
  <1>0. TypeOK /\ Progress(c) /\ Progress(d)
    BY DEF SessionInv
  <1>1. /\ proc = "up" /\ at[c] = "prep" /\ NetSend(c, r)
        /\ state' = [state EXCEPT ![c] =
             IF status = "SUCCESS" THEN "WAITING_FTP_LOGIN_RESULT" ELSE "ERROR"]
        /\ at' = [at EXCEPT ![c] = "loop"] /\ seq_num' = seq_num /\ acc' = acc
    BY DEF Prepare
  <1>2. /\ state'[c] = IF status = "SUCCESS" THEN "WAITING_FTP_LOGIN_RESULT" ELSE "ERROR"
        /\ at'[c] = "loop" /\ seq_num'[c] = seq_num[c] /\ acc'[c] = acc[c]
        /\ \A e \in Conns \ {c} : state'[e] = state[e] /\ at'[e] = at[e]
    BY <1>0, <1>1 DEF TypeOK
  <1>3. /\ state[c] = "WAITING_UPLOAD_REQUEST" /\ Asked(c)
        /\ Len(out[c]) = 1 /\ Len(acc[c]) = 1 /\ InOrder(c)
    BY <1>0, <1>1 DEF Progress
  <1>4. CASE peer[c] = "rst"
    <2>1. proc' = "sigpipe" /\ out' = out /\ peer' = peer
      BY <1>1, <1>4 DEF NetSend
    <2>2. KilledOnlyByEarlyClose'
      BY <1>1, <1>2, <1>3, <1>4, <2>1 DEF KilledOnlyByEarlyClose, Live, ThreadAt
    <2>3. CASE d = c
      <3>1. Asked(c)' /\ InOrder(c)'
        BY <1>1, <1>3, <2>1 DEF Asked, InOrder
      <3>2. out[c] # <<>> /\ out'[c] = out[c]
        <4>1. out[c] # <<>>
          BY <1>0, <1>4 DEF Progress
        <4>2. QED
          BY <4>1, <2>1
      <3>3. QED
        BY <1>2, <1>3, <1>4, <2>1, <2>2, <2>3, <3>1, <3>2 DEF Progress
    <2>4. CASE d # c
      BY <1>0, <1>1, <1>2, <2>1, <2>2, <2>4, SameProgress
    <2>5. QED
      BY <2>3, <2>4
  <1>5. CASE peer[c] # "rst"
    <2>1. r \in Replies
      BY <1>0 DEF Reply, Replies, TypeOK
    <2>2. /\ proc' = proc /\ Len(out'[c]) = Len(out[c]) + 1
          /\ out'[c][Len(out[c]) + 1] = r
          /\ \A i \in 1..Len(out[c]) : out'[c][i] = out[c][i]
          /\ \A e \in Conns \ {c} : out'[e] = out[e] /\ peer'[e] = peer[e]
      BY <1>0, <1>1, <1>5, <2>1, SendAppends
    <2>3. KilledOnlyByEarlyClose'
      BY <1>1, <2>2 DEF KilledOnlyByEarlyClose
    <2>4. CASE d = c
      <3>1. Len(out'[c]) = 2 /\ out'[c][1] = out[c][1] /\ out'[c][2] = r
        BY <1>3, <2>2
      <3>2. Asked(c)' /\ InOrder(c)'
        <4>1. /\ out[c][1].type = "ACK_START" /\ out[c][1].status = "SUCCESS"
              /\ out[c][1].seq = seq_num[c]
          BY <1>3 DEF Asked, Says
        <4>2. r.type = "NOTIFY_DONE" /\ r.seq = seq_num[c]
          BY DEF Reply
        <4>3. Asked(c)'
          BY <1>2, <1>3, <3>1 DEF Asked
        <4>4. InOrder(c)'
          BY <3>1, <4>1, <4>2 DEF InOrder
        <4>5. QED
          BY <4>3, <4>4
      <3>3. out'[c] # <<>>
        BY <3>1
      <3>4. status = "SUCCESS" => Announced(c)'
        <4>1. Says(r, "NOTIFY_DONE", seq_num[c], status)
          BY DEF Reply, Says
        <4>2. QED
          BY <1>2, <3>1, <4>1 DEF Announced
      <3>5. Unwritten(c)' # {} => peer'[c] = "rst"
        <4>1. r.written <=> peer[c] # "reset"
          BY DEF Reply
        <4>2. Unwritten(c) # {} => peer[c] = "rst"
          BY <1>0 DEF Progress
        <4>3. QED
          BY <1>0, <1>1, <1>5, <2>1, <4>1, <4>2, SendDelivers
      <3>6. QED
        BY <1>2, <1>3, <2>3, <2>4, <3>2, <3>3, <3>4, <3>5 DEF Progress
    <2>5. CASE d # c
      BY <1>0, <1>1, <1>2, <2>2, <2>3, <2>5, SameProgress
    <2>6. QED
      BY <2>4, <2>5
  <1>6. QED
    BY <1>4, <1>5

\* A login or download result.
LEMMA ResultProgress ==
    ASSUME SessionInv, NEW c \in Conns, NEW f \in ClientFrames, RecvResult(c, f),
           NEW d \in Conns
    PROVE  Progress(d)' /\ proc' = "up"
  <1> DEFINE s == IF f.status = "SUCCESS" THEN AfterSuccess[state[c]] ELSE "ERROR"
  <1>0. TypeOK /\ Progress(c) /\ Progress(d)
    BY DEF SessionInv
  <1>1. /\ NetRecv(c, f) /\ Advance(c, f, s)
        /\ proc' = proc /\ seq_num' = seq_num /\ peer' = peer /\ out' = out
    BY DEF RecvResult
  <1>2. \/ /\ state[c] = "WAITING_FTP_LOGIN_RESULT" /\ f.type = "FTP_LOGIN_RESULT"
           /\ s = IF f.status = "SUCCESS" THEN "WAITING_FTP_DOWNLOAD_RESULT" ELSE "ERROR"
        \/ /\ state[c] = "WAITING_FTP_DOWNLOAD_RESULT" /\ f.type = "FTP_DOWNLOAD_RESULT"
           /\ s = IF f.status = "SUCCESS" THEN "COMPLETED" ELSE "ERROR"
    BY DEF RecvResult, AfterSuccess, Expected
  <1>3. proc = "up" /\ proc' = "up" /\ at' = [at EXCEPT ![c] = "loop"]
    BY <1>0, <1>1, NetRecvType
  <1>4. /\ Len(acc[c]) \in Nat /\ Len(acc'[c]) = Len(acc[c]) + 1
        /\ acc'[c][Len(acc[c]) + 1] = f
        /\ \A i \in 1..Len(acc[c]) : acc'[c][i] = acc[c][i]
        /\ state'[c] = s
        /\ \A e \in Conns \ {c} : acc'[e] = acc[e] /\ state'[e] = state[e]
    BY <1>0, <1>1, AdvanceAppends
  <1>5. at'[c] = "loop" /\ \A e \in Conns \ {c} : at'[e] = at[e]
    BY <1>0, <1>3 DEF TypeOK
  <1> HIDE DEF s
  <1>6. CASE d = c
    <2>1. /\ Asked(c) /\ Announced(c) /\ InOrder(c) /\ (peer[c] = "rst" => out[c] # <<>>)
          /\ Unwritten(c)' # {} => peer'[c] = "rst"
      BY <1>0, <1>1, <1>2, <1>3 DEF Progress, Unwritten
    <2>2. acc'[c][1] = acc[c][1]
      BY <1>4, <2>1 DEF Asked
    <2>3. Asked(c)' /\ Announced(c)' /\ InOrder(c)'
      BY <1>1, <1>4, <2>1, <2>2 DEF Asked, Announced, InOrder
    <2>4. CASE state[c] = "WAITING_FTP_LOGIN_RESULT"
      <3>1. Len(acc[c]) = 1
        BY <1>0, <2>4 DEF Progress
      <3>2. Len(acc'[c]) = 2 /\ acc'[c][2] = f
        BY <1>4, <3>1
      <3>3. f.status = "SUCCESS" => Reported(c, 2, "FTP_LOGIN_RESULT")'
        BY <1>2, <2>4, <3>2 DEF Reported
      <3>4. QED
        BY <1>1, <1>2, <1>3, <1>4, <1>5, <1>6, <2>1, <2>3, <2>4, <3>2, <3>3 DEF Progress
    <2>5. CASE state[c] = "WAITING_FTP_DOWNLOAD_RESULT"
      <3>1. Len(acc[c]) = 2 /\ Reported(c, 2, "FTP_LOGIN_RESULT")
        BY <1>0, <2>5 DEF Progress
      <3>2. Len(acc'[c]) = 3 /\ acc'[c][3] = f /\ acc'[c][2] = acc[c][2]
        BY <1>4, <3>1
      <3>3. /\ Reported(c, 2, "FTP_LOGIN_RESULT")'
            /\ f.status = "SUCCESS" => Reported(c, 3, "FTP_DOWNLOAD_RESULT")'
        BY <1>2, <2>5, <3>1, <3>2 DEF Reported
      <3>4. QED
        BY <1>1, <1>2, <1>3, <1>4, <1>5, <1>6, <2>1, <2>3, <2>5, <3>2, <3>3 DEF Progress
    <2>6. QED
      BY <1>2, <2>4, <2>5
  <1>7. CASE d # c
    BY <1>0, <1>1, <1>3, <1>4, <1>5, <1>7, SameProgress
  <1>8. QED
    BY <1>6, <1>7

Leaves(c) == peer[c] = "up" /\ \E how \in {"fin", "reset"} : peer' = [peer EXCEPT ![c] = how]

\* Every other step leaves the histories and the states alone, or gives a
\* session up.
LEMMA OtherProgress ==
    ASSUME TypeOK, NEW d \in Conns, Progress(d), proc = "up",
           UNCHANGED <<seq_num, out, acc>>, NEW c \in Conns, NEW p \in Places,
           at' = at \/ at' = [at EXCEPT ![c] = p],
           p = "prep" => state'[c] = "WAITING_UPLOAD_REQUEST",
           p = "recv" => state'[c] \in Receiving,
           state' = state \/ state' = [state EXCEPT ![c] = "ERROR"],
           peer' = peer \/ Leaves(c),
           state' # state => at' = [at EXCEPT ![c] = p]
    PROVE  Progress(d)'
  <1>1. /\ at \in [Conns -> Places] /\ state \in [Conns -> SessionStates]
        /\ peer \in [Conns -> PeerStates]
    BY DEF TypeOK
  <1>2. /\ out'[d] = out[d] /\ acc'[d] = acc[d] /\ seq_num'[d] = seq_num[d]
        /\ peer'[d] = peer[d] \/ (peer[d] = "up" /\ peer'[d] # "rst")
    BY <1>1 DEF Leaves
  <1>3. CASE state'[d] = state[d]
    <2>1. CASE at'[d] = at[d] \/ at'[d] \notin {"prep", "recv"}
      BY <1>2, <1>3, <2>1, SameProgress
    <2>2. CASE at'[d] # at[d] /\ at'[d] \in {"prep", "recv"}
      <3>1. d = c /\ p = at'[d]
        BY <1>1, <2>2
      <3>2. /\ at'[d] = "prep" => state'[d] = "WAITING_UPLOAD_REQUEST"
            /\ at'[d] = "recv" => state'[d] \in Receiving
        BY <3>1
      <3>3. QED
        BY <1>2, <1>3, <2>2, <3>2 DEF Progress, Unwritten, Asked, Announced, Says, Reported, InOrder
    <2>3. QED
      BY <2>1, <2>2
  <1>4. CASE state'[d] # state[d]
    <2>1. d = c /\ state'[d] = "ERROR" /\ at' = [at EXCEPT ![c] = p]
      BY <1>1, <1>4
    <2>2. at'[d] = p /\ p # "prep" /\ p # "recv"
      BY <1>1, <2>1 DEF Receiving
    <2>3. /\ InOrder(d) /\ (peer[d] = "rst" => out[d] # <<>>)
          /\ Unwritten(d)' # {} => peer'[d] = "rst"
      BY <1>2 DEF Progress, Unwritten
    <2>4. InOrder(d)'
      BY <1>2, <2>3 DEF InOrder
    <2>5. QED
      BY <1>2, <2>1, <2>2, <2>3, <2>4 DEF Progress
  <1>5. QED
    BY <1>3, <1>4

\* No session has begun.
LEMMA SessionInit == Init => SessionInv
  <1> SUFFICES ASSUME Init PROVE SessionInv
    OBVIOUS
  <1>1. TypeOK
    BY InitEstablishes DEF SlotInv
  <1>2. KilledOnlyByEarlyClose
    BY DEF Init, KilledOnlyByEarlyClose
  <1>3. ASSUME NEW c \in Conns PROVE Progress(c)
    <2>1. state[c] = "INIT" /\ out[c] = <<>> /\ acc[c] = <<>> /\ at[c] = "away" /\ peer[c] = "up"
      BY DEF Init
    <2>2. InOrder(c)
      BY <2>1 DEF InOrder
    <2>3. QED
      BY <2>1, <2>2 DEF Progress, Unwritten
  <1>4. QED
    BY <1>1, <1>2, <1>3 DEF SessionInv

\* Every step of main, of a session and of a client keeps the invariant.
LEMMA SessionStepPreserves == SessionInv /\ [Next]_vars => SessionInv'
  <1> SUFFICES ASSUME SessionInv, [Next]_vars PROVE SessionInv'
    OBVIOUS
  <1>0. TypeOK /\ TypeOK'
    BY TypePreserved DEF SessionInv
  <1> SUFFICES ASSUME NEW d \in Conns PROVE Progress(d)' /\ KilledOnlyByEarlyClose'
    <2>1. (\E d \in Conns : TRUE) => KilledOnlyByEarlyClose'
      OBVIOUS
    <2>2. (Conns = {}) => KilledOnlyByEarlyClose'
      <3> SUFFICES ASSUME Conns = {} PROVE KilledOnlyByEarlyClose'
        OBVIOUS
      <3>1. proc # "sigpipe"
        BY DEF SessionInv, KilledOnlyByEarlyClose
      <3>2. proc' # "sigpipe"
        BY <3>1 DEF Next, MainStep, LoopTest, AcceptClosed, AcceptError, BreakLoop,
                    CountUp, Exit, HandleSig, vars
      <3>3. QED
        BY <3>2 DEF KilledOnlyByEarlyClose
    <2>3. QED
      BY <1>0, <2>1, <2>2 DEF SessionInv
  <1>1. Progress(d)
    BY DEF SessionInv
  <1>2. ASSUME proc' # "sigpipe" PROVE KilledOnlyByEarlyClose'
    BY <1>2 DEF KilledOnlyByEarlyClose
  <1>3. ASSUME UNCHANGED vars PROVE Progress(d)' /\ KilledOnlyByEarlyClose'
    BY <1>1, <1>3 DEF vars, Progress, Unwritten, Asked, Announced, Says, Reported, InOrder,
                       SessionInv, KilledOnlyByEarlyClose, Live
  <1> USE DEF mainVars, sessVars
  <1>4. ASSUME proc = "up", proc' # "sigpipe", UNCHANGED <<seq_num, out, acc>>,
               NEW c \in Conns, NEW p \in Places,
               at' = at \/ at' = [at EXCEPT ![c] = p],
               p = "prep" => state'[c] = "WAITING_UPLOAD_REQUEST",
           p = "recv" => state'[c] \in Receiving,
               state' = state \/ state' = [state EXCEPT ![c] = "ERROR"],
               peer' = peer \/ Leaves(c),
               state' # state => at' = [at EXCEPT ![c] = p]
        PROVE  Progress(d)' /\ KilledOnlyByEarlyClose'
    BY <1>0, <1>1, <1>2, <1>4, OtherProgress
  <1>5. ASSUME NEW c \in Conns, ClientStep(c)
        PROVE  Progress(d)' /\ KilledOnlyByEarlyClose'
    <2>1. /\ proc = "up" /\ proc' = "up" /\ UNCHANGED <<state, seq_num, out, acc>>
          /\ at' = at \/ at' = [at EXCEPT ![c] = "backlog"]
          /\ peer' = peer \/ Leaves(c)
      BY <1>5 DEF ClientStep, Connect, ClientSend, ClientLeave, Elapse, Leaves
    <2>2. QED
      BY <2>1, <1>4 DEF Places
  <1>6. CASE HandleSig \/ LoopTest \/ AcceptClosed \/ AcceptError \/ CountUp \/ Exit
    <2>1. /\ proc = "up" /\ proc' # "sigpipe"
          /\ UNCHANGED <<at, state, seq_num, peer, out, acc>>
      BY <1>6 DEF HandleSig, LoopTest, AcceptClosed, AcceptError, BreakLoop, CountUp, Exit
    <2>2. QED
      BY <2>1, <1>4 DEF Places
  <1>7. ASSUME NEW c \in Conns, Accept(c) \/ Refuse(c) \/ Spawn(c) \/ SpawnFails(c)
        PROVE  Progress(d)' /\ KilledOnlyByEarlyClose'
    <2>1. PICK p \in {"held", "refused", "loop", "orphan"} : at' = [at EXCEPT ![c] = p]
      BY <1>7 DEF Accept, Refuse, Spawn, SpawnFails
    <2>2. /\ proc = "up" /\ proc' # "sigpipe"
          /\ UNCHANGED <<state, seq_num, peer, out, acc>>
      BY <1>7 DEF Accept, Refuse, Spawn, SpawnFails
    <2>3. QED
      BY <2>1, <2>2, <1>4 DEF Places, ThreadAt
  <1>8. ASSUME NEW c \in Conns, SessionStep(c)
        PROVE  Progress(d)' /\ KilledOnlyByEarlyClose'
    <2>1. CASE LoopTop(c)
      <3>1. proc = "up" /\ proc' = "up" /\ UNCHANGED <<seq_num, peer, out, acc>>
        BY <2>1 DEF LoopTop
      <3>2. state \in [Conns -> SessionStates]
        BY <1>0 DEF TypeOK
      <3>3. \E p \in {"recv", "prep", "exit"} :
                /\ at' = [at EXCEPT ![c] = p]
                /\ p = "prep" => state'[c] = "WAITING_UPLOAD_REQUEST"
                /\ p = "recv" => state'[c] \in Receiving
                /\ state' = state \/ state' = [state EXCEPT ![c] = "ERROR"]
        BY <2>1, <3>2 DEF LoopTop, Receiving
      <3>4. QED
        BY <3>1, <3>3, <1>4 DEF Places, ThreadAt
    <2>2. CASE CloseFd(c) \/ CountDown(c) \/ RecvError(c)
      <3>1. PICK p \in {"closed", "done", "loop"} : at' = [at EXCEPT ![c] = p]
        BY <2>2 DEF CloseFd, CountDown, RecvError
      <3>2. /\ proc = "up" /\ proc' = "up" /\ UNCHANGED <<seq_num, peer, out, acc>>
            /\ state' = state \/ state' = [state EXCEPT ![c] = "ERROR"]
        BY <2>2 DEF CloseFd, CountDown, RecvError
      <3>3. QED
        BY <3>1, <3>2, <1>4 DEF Places, ThreadAt
    <2>3. ASSUME NEW f \in ClientFrames, RecvOther(c, f)
          PROVE  Progress(d)' /\ KilledOnlyByEarlyClose'
      <3>1. /\ proc = "up" /\ proc' = "up" /\ UNCHANGED <<state, seq_num, peer, out, acc>>
            /\ at' = [at EXCEPT ![c] = "loop"]
        BY <2>3 DEF RecvOther, NetRecv
      <3>2. "loop" \in Places
        BY DEF Places, ThreadAt
      <3>3. QED
        BY <3>1, <3>2, <1>4
    <2>4. ASSUME NEW f \in ClientFrames,
                 RecvRequest(c, f) \/ RecvBadVersion(c, f) \/ RecvResult(c, f)
          PROVE  Progress(d)' /\ KilledOnlyByEarlyClose'
      <3>1. Progress(d)' /\ proc' = "up"
        BY <2>4, RequestProgress, BadVersionProgress, ResultProgress
      <3>2. QED
        BY <3>1, <1>2
    <2>5. ASSUME NEW status \in PrepStatus, Prepare(c, status)
          PROVE  Progress(d)' /\ KilledOnlyByEarlyClose'
      BY <2>5, PrepareProgress
    <2>6. QED
      BY <1>8, <2>1, <2>2, <2>3, <2>4, <2>5 DEF SessionStep
  <1>9. QED
    BY <1>3, <1>5, <1>6, <1>7, <1>8 DEF Next, MainStep

\* The frames a session handed to lucp_net_send and accepted always fit its
\* state, and a reply was lost only to a reset of the client's.
THEOREM SessionInvariant == Spec => []SessionInv
  BY SessionInit, SessionStepPreserves, PTL DEF Spec

\* Whatever the clients send: one ACK_START, then at most one NOTIFY_DONE, only
\* after a positive one and with its sequence number.
THEOREM RepliesAreInOrder == Spec => []RepliesInOrder
  <1>1. SessionInv => RepliesInOrder
    BY DEF SessionInv, Progress, RepliesInOrder
  <1>2. QED
    BY <1>1, SessionInvariant, PTL

\* The daemon dies of SIGPIPE only on a client that asked for an upload and
\* was gone before ACK_START was written.
THEOREM SigpipeOnlyByEarlyClose == Spec => []KilledOnlyByEarlyClose
  <1>1. SessionInv => KilledOnlyByEarlyClose
    BY DEF SessionInv
  <1>2. QED
    BY <1>1, SessionInvariant, PTL

\* A completed session announced its log and heard of a good login and a good
\* download, in this order and of nothing else; what it announced was written
\* unless the client had reset the connection.
THEOREM CompletedWasUploaded == Spec => []CompletedMeansUploaded
  <1>1. SessionInv => CompletedMeansUploaded
    <2> SUFFICES ASSUME SessionInv, NEW c \in Conns, state[c] = "COMPLETED"
                 PROVE
          /\ [i \in DOMAIN out[c] |-> <<out[c][i].type, out[c][i].status>>]
               = << <<"ACK_START", "SUCCESS">>, <<"NOTIFY_DONE", "SUCCESS">> >>
          /\ Unwritten(c) # {} => peer[c] = "rst"
          /\ [i \in DOMAIN acc[c] |-> acc[c][i].type]
               = <<"UPLOAD_REQUEST", "FTP_LOGIN_RESULT", "FTP_DOWNLOAD_RESULT">>
          /\ \A i \in 2..3 : acc[c][i].status = "SUCCESS"
      BY DEF CompletedMeansUploaded
    <2>1. /\ Asked(c) /\ Announced(c) /\ Len(acc[c]) = 3
          /\ Reported(c, 2, "FTP_LOGIN_RESULT") /\ Reported(c, 3, "FTP_DOWNLOAD_RESULT")
      BY DEF SessionInv, Progress
    <2>2. out[c] \in Seq(Replies) /\ acc[c] \in Seq(ClientFrames)
      BY DEF SessionInv, TypeOK
    <2>3. DOMAIN out[c] = 1..2 /\ DOMAIN acc[c] = 1..3
      BY <2>1, <2>2 DEF Announced
    <2>4. /\ out[c][1].type = "ACK_START" /\ out[c][1].status = "SUCCESS"
          /\ out[c][2].type = "NOTIFY_DONE" /\ out[c][2].status = "SUCCESS"
      BY <2>1 DEF Asked, Announced, Says
    <2>5. /\ acc[c][1].type = "UPLOAD_REQUEST"
          /\ acc[c][2].type = "FTP_LOGIN_RESULT" /\ acc[c][2].status = "SUCCESS"
          /\ acc[c][3].type = "FTP_DOWNLOAD_RESULT" /\ acc[c][3].status = "SUCCESS"
      BY <2>1 DEF Asked, Reported
    <2>6. [i \in DOMAIN out[c] |-> <<out[c][i].type, out[c][i].status>>]
               = << <<"ACK_START", "SUCCESS">>, <<"NOTIFY_DONE", "SUCCESS">> >>
      BY <2>3, <2>4
    <2>7. [i \in DOMAIN acc[c] |-> acc[c][i].type]
               = <<"UPLOAD_REQUEST", "FTP_LOGIN_RESULT", "FTP_DOWNLOAD_RESULT">>
      BY <2>3, <2>5
    <2>8. Unwritten(c) # {} => peer[c] = "rst"
      BY DEF SessionInv, Progress
    <2>9. QED
      BY <2>5, <2>6, <2>7, <2>8
  <1>2. QED
    BY <1>1, SessionInvariant, PTL
=============================================================================
