----------------------------- MODULE LogServer -----------------------------
(***************************************************************************)
(* The log daemon (m_log/src/log_server.c and logd.c): the acceptor thread *)
(* fills the slots of server->clients, one handler thread per connection   *)
(* works on a slot and frees it, and dlt_server_stop, called from a signal *)
(* handler of main, takes everything down.                                 *)
(*                                                                         *)
(* Only the acceptor and dlt_server_stop use clients_lock; a handler reads *)
(* and writes its slot without it, so each of their writes is a step of    *)
(* its own.  The signal is taken by main, the thread the kernel prefers.   *)
(* Descriptors are numbers, as in the code: accept() takes the lowest free *)
(* one, and close() of a number closes whatever it stands for by then.  A  *)
(* connection stands for its handler thread too.                           *)
(***************************************************************************)
EXTENDS Naturals

CONSTANTS
    Conns,    \* the connections clients make
    NSlots,   \* length of server->clients (20)
    MaxFd,    \* bound: descriptor numbers of connections
    None      \* no connection

ASSUME ServerAssumption ==
    /\ None \notin Conns
    /\ NSlots \in Nat \ {0} /\ MaxFd \in Nat

Slots == 1..NSlots
Fds == 1..MaxFd

\* The frames clients send: the initialisation of an application, registered
\* or not, and all others.
FrameKind == {"registered", "unregistered", "other"}

VARIABLES
    running,     \* server->running
    server_fd,   \* "open" or "closed"
    sockfd,      \* clients[i].sockfd; 0 for -1
    connected,   \* clients[i].connected
    thread,      \* clients[i].thread
    fds,         \* the descriptor table: the connection a number stands for
    apc,         \* where the acceptor is
    cur,         \* its client_fd and the connection it accepted under it
    slot,        \* its slot, and then the slot each handler was started with
    pc,          \* where each handler is
    rsock,       \* the connection a handler is in recv() on
    mpc,         \* where main is
    idx,         \* the loop counter of dlt_server_stop
    waiting,     \* connections not yet accepted
    gone,        \* clients that have closed their end
    refused      \* history: some application was found not to be registered

slotVars == <<sockfd, connected, thread, fds>>
acceptVars == <<apc, cur>>
handlerVars == <<slot, pc, rsock>>
mainVars == <<running, server_fd, mpc, idx>>
clientVars == <<waiting, gone>>
vars == <<running, server_fd, sockfd, connected, thread, fds, apc, cur, slot,
          pc, rsock, mpc, idx, waiting, gone, refused>>

NoSlot == 0

Init ==
    /\ running = TRUE /\ server_fd = "open"
    /\ sockfd = [s \in Slots |-> 0]
    /\ connected = [s \in Slots |-> FALSE]
    /\ thread = [s \in Slots |-> None]
    /\ fds = [n \in Fds |-> None]
    /\ apc = "test" /\ cur = [fd |-> 0, conn |-> None]
    /\ slot = [c \in Conns |-> NoSlot]
    /\ pc = [c \in Conns |-> "none"]
    /\ rsock = [c \in Conns |-> None]
    /\ mpc = "join" /\ idx = 0
    /\ waiting = {} /\ gone = {}
    /\ refused = FALSE

Up == mpc # "exited"
Live(c) == pc[c] \notin {"none", "done"}

\* close(n): nothing happens if n is not open.
Closed(n) == [k \in Fds |-> IF k = n THEN None ELSE fds[k]]
-----------------------------------------------------------------------------
(* The clients.  The kernel's listening socket lives as long as server_fd  *)
(* is open or an accept() is under way on it.                              *)

Seen(c) == c \in waiting \/ pc[c] # "none" \/ cur.conn = c \/ c \in gone

Connect(c) ==
    /\ Up /\ ~Seen(c) /\ (server_fd = "open" \/ apc = "accept")
    /\ waiting' = waiting \cup {c}
    /\ UNCHANGED <<mainVars, slotVars, acceptVars, handlerVars, gone, refused>>

ClientClose(c) ==
    /\ Up /\ Seen(c) /\ c \notin gone
    /\ gone' = gone \cup {c}
    /\ UNCHANGED <<mainVars, slotVars, acceptVars, handlerVars, waiting, refused>>
-----------------------------------------------------------------------------
(* connection_acceptor.                                                    *)

\* while (server->running), and accept() on server_fd, which dlt_server_stop
\* may have set to -1 in between.
AcceptTest ==
    /\ Up /\ apc = "test"
    /\ apc' = IF ~running THEN "done"
              ELSE IF server_fd = "open" THEN "accept" ELSE "test"
    /\ UNCHANGED <<mainVars, slotVars, cur, handlerVars, clientVars, refused>>

Accept(c) ==
    /\ Up /\ apc = "accept" /\ c \in waiting
    /\ \E n \in Fds :
         /\ fds[n] = None /\ \A k \in 1..(n - 1) : fds[k] # None
         /\ fds' = [fds EXCEPT ![n] = c]
         /\ cur' = [fd |-> n, conn |-> c]
    /\ waiting' = waiting \ {c}
    /\ apc' = "find"
    /\ UNCHANGED <<mainVars, sockfd, connected, thread, handlerVars, gone,
                   refused>>

\* accept() fails, for instance because the client has given up already.
AcceptError ==
    /\ Up /\ apc = "accept"
    /\ apc' = "test"
    /\ UNCHANGED <<mainVars, slotVars, cur, handlerVars, clientVars, refused>>

\* clients_lock is held by main, or by the acceptor.
Locked == mpc \in {"sweep", "marked", "joining"}
Filling == apc \in {"mark", "create", "unmark"}

FirstFree(s) == ~connected[s] /\ \A t \in 1..(s - 1) : connected[t]

\* find_free_client_slot, or close(client_fd).
FindSlot ==
    /\ Up /\ apc = "find" /\ ~Locked
    /\ \/ \E s \in Slots :
            /\ FirstFree(s)
            /\ slot' = [slot EXCEPT ![cur.conn] = s]
            /\ apc' = "fill"
            /\ UNCHANGED <<fds, pc>>
       \/ /\ \A s \in Slots : connected[s]
          /\ fds' = Closed(cur.fd)
          /\ apc' = "test"
          /\ pc' = [pc EXCEPT ![cur.conn] = "done"]
          /\ UNCHANGED slot
    /\ UNCHANGED <<mainVars, sockfd, connected, thread, cur, rsock, clientVars, refused>>

\* The slot is filled with clients_lock held: its socket, its flag and its
\* handler, three writes that the slot's last handler may see one by one.
FillSlot ==
    /\ Up /\ apc = "fill" /\ ~Locked
    /\ sockfd' = [sockfd EXCEPT ![slot[cur.conn]] = cur.fd]
    /\ apc' = "mark"
    /\ UNCHANGED <<mainVars, connected, thread, fds, cur, handlerVars, clientVars,
                   refused>>

MarkSlot ==
    /\ Up /\ apc = "mark"
    /\ connected' = [connected EXCEPT ![slot[cur.conn]] = TRUE]
    /\ apc' = "create"
    /\ UNCHANGED <<mainVars, sockfd, thread, fds, cur, handlerVars, clientVars, refused>>

CreateHandler ==
    /\ Up /\ apc = "create"
    /\ thread' = [thread EXCEPT ![slot[cur.conn]] = cur.conn]
    /\ pc' = [pc EXCEPT ![cur.conn] = "start"]
    /\ apc' = "test"
    /\ UNCHANGED <<mainVars, sockfd, connected, fds, cur, slot, rsock, clientVars,
                   refused>>

\* pthread_create fails: close(client_fd), connected = 0.
CreateFails ==
    /\ Up /\ apc = "create"
    /\ fds' = Closed(cur.fd)
    /\ apc' = "unmark"
    /\ UNCHANGED <<mainVars, sockfd, connected, thread, cur, handlerVars, clientVars,
                   refused>>

UnmarkSlot ==
    /\ Up /\ apc = "unmark"
    /\ connected' = [connected EXCEPT ![slot[cur.conn]] = FALSE]
    /\ pc' = [pc EXCEPT ![cur.conn] = "done"]
    /\ apc' = "test"
    /\ UNCHANGED <<mainVars, sockfd, thread, fds, cur, slot, rsock, clientVars, refused>>
-----------------------------------------------------------------------------
(* client_handler.  h works on the slot it was started with.               *)

GoTo(h, place) == pc' = [pc EXCEPT ![h] = place]

Start(h) ==
    /\ Up /\ pc[h] = "start"
    /\ GoTo(h, "loop")
    /\ UNCHANGED <<mainVars, slotVars, acceptVars, slot, rsock, clientVars, refused>>

\* log_protocol_config_init fails.
StartFails(h) ==
    /\ Up /\ pc[h] = "start"
    /\ GoTo(h, "close")
    /\ UNCHANGED <<mainVars, slotVars, acceptVars, slot, rsock, clientVars, refused>>

\* while (client->connected), and the socket recv() is called on.
LoopTest(h) ==
    /\ Up /\ pc[h] = "loop"
    /\ IF connected[slot[h]]
       THEN /\ GoTo(h, "recv")
            /\ rsock' = [rsock EXCEPT ![h] = fds[sockfd[slot[h]]]]
       ELSE GoTo(h, "close") /\ UNCHANGED rsock
    /\ UNCHANGED <<mainVars, slotVars, acceptVars, slot, clientVars, refused>>

\* A frame arrives on the socket.  The answer to a registered application
\* cannot be serialised and is not sent; an unregistered one is answered.
RecvFrame(h, kind) ==
    /\ Up /\ pc[h] = "recv" /\ rsock[h] \notin gone \cup {None}
    /\ GoTo(h, IF kind = "unregistered" THEN "refuse" ELSE "loop")
    /\ rsock' = [rsock EXCEPT ![h] = None]
    /\ UNCHANGED <<mainVars, slotVars, acceptVars, slot, clientVars, refused>>

\* handle_init_request, after the answer: client->connected = 0.
Refuse(h) ==
    /\ Up /\ pc[h] = "refuse"
    /\ connected' = [connected EXCEPT ![slot[h]] = FALSE]
    /\ refused' = TRUE
    /\ GoTo(h, "loop")
    /\ UNCHANGED <<mainVars, sockfd, thread, fds, acceptVars, slot, rsock, clientVars>>

\* log_protocol_recv_frame returns NULL: the stream has ended, or the
\* descriptor was not open.
RecvEnd(h) ==
    /\ Up /\ pc[h] = "recv" /\ rsock[h] \in gone \cup {None}
    /\ GoTo(h, "close")
    /\ rsock' = [rsock EXCEPT ![h] = None]
    /\ UNCHANGED <<mainVars, slotVars, acceptVars, slot, clientVars, refused>>

\* It returns NULL too for bytes that are not a frame, and for a frame that
\* arrives in two pieces.
RecvGarbage(h) ==
    /\ Up /\ pc[h] = "recv" /\ rsock[h] \notin gone \cup {None}
    /\ GoTo(h, "close")
    /\ rsock' = [rsock EXCEPT ![h] = None]
    /\ UNCHANGED <<mainVars, slotVars, acceptVars, slot, clientVars, refused>>

\* Mutant: the slot is given back here already, and once more at the end.
CloseSockFreesSlot(h) ==
    /\ Up /\ pc[h] = "close"
    /\ fds' = Closed(sockfd[slot[h]])
    /\ connected' = [connected EXCEPT ![slot[h]] = FALSE]
    /\ GoTo(h, "clear")
    /\ UNCHANGED <<mainVars, sockfd, thread, acceptVars, slot, rsock, clientVars,
                   refused>>

\* close(client->sockfd), whosever it is by now.
CloseSock(h) ==
    /\ Up /\ pc[h] = "close"
    /\ fds' = Closed(sockfd[slot[h]])
    /\ GoTo(h, "clear")
    /\ UNCHANGED <<mainVars, sockfd, connected, thread, acceptVars, slot, rsock,
                   clientVars, refused>>

\* Mutant: the slot stays connected.
ClearForgotten(h) ==
    /\ Up /\ pc[h] = "clear"
    /\ GoTo(h, "done")
    /\ UNCHANGED <<mainVars, slotVars, acceptVars, slot, rsock, clientVars, refused>>

\* client->connected = 0, and the thread ends.
Clear(h) ==
    /\ Up /\ pc[h] = "clear"
    /\ connected' = [connected EXCEPT ![slot[h]] = FALSE]
    /\ GoTo(h, "done")
    /\ UNCHANGED <<mainVars, sockfd, thread, fds, acceptVars, slot, rsock, clientVars,
                   refused>>
-----------------------------------------------------------------------------
(* dlt_server_stop, in a signal handler of main, which is in pthread_join  *)
(* on the acceptor.                                                        *)

Stop ==
    /\ mpc = "join" /\ running
    /\ running' = FALSE
    /\ mpc' = "closing"
    /\ UNCHANGED <<server_fd, idx, slotVars, acceptVars, handlerVars, clientVars, refused>>

\* close(server_fd): this does not wake a thread that is in accept() on it.
StopListening ==
    /\ mpc = "closing"
    /\ server_fd' = "closed"
    /\ mpc' = "lock"
    /\ UNCHANGED <<running, idx, slotVars, acceptVars, handlerVars, clientVars, refused>>

TakeLock ==
    /\ mpc = "lock" /\ ~Filling
    /\ idx' = 1
    /\ mpc' = "sweep"
    /\ UNCHANGED <<running, server_fd, slotVars, acceptVars, handlerVars, clientVars,
                   refused>>

\* The next client that is connected is marked, closed and its handler joined.
Sweep ==
    /\ mpc = "sweep" /\ idx <= NSlots
    /\ IF connected[idx]
       THEN /\ connected' = [connected EXCEPT ![idx] = FALSE]
            /\ mpc' = "marked"
            /\ UNCHANGED idx
       ELSE idx' = idx + 1 /\ UNCHANGED <<connected, mpc>>
    /\ UNCHANGED <<running, server_fd, sockfd, thread, fds, acceptVars, handlerVars,
                   clientVars, refused>>

SweepClose ==
    /\ mpc = "marked"
    /\ fds' = Closed(sockfd[idx])
    /\ mpc' = "joining"
    /\ UNCHANGED <<running, server_fd, idx, sockfd, connected, thread, acceptVars,
                   handlerVars, clientVars, refused>>

Joined ==
    /\ mpc = "joining" /\ pc[thread[idx]] = "done"
    /\ idx' = idx + 1
    /\ mpc' = "sweep"
    /\ UNCHANGED <<running, server_fd, slotVars, acceptVars, handlerVars, clientVars,
                   refused>>

\* clients_lock is released and the signal handler returns.
SweepDone ==
    /\ mpc = "sweep" /\ idx > NSlots
    /\ mpc' = "join"
    /\ UNCHANGED <<running, server_fd, idx, slotVars, acceptVars, handlerVars,
                   clientVars, refused>>

\* dlt_server_start and dlt_server_destroy return, and so does main.  A handler
\* that was not joined may touch the freed server until the process is gone;
\* nothing is said about that moment.
Exit ==
    /\ mpc = "join" /\ apc = "done"
    /\ mpc' = "exited"
    /\ UNCHANGED <<running, server_fd, idx, slotVars, acceptVars, handlerVars,
                   clientVars, refused>>
-----------------------------------------------------------------------------
Acceptor ==
    \/ AcceptTest \/ FindSlot \/ FillSlot \/ MarkSlot \/ CreateHandler \/ UnmarkSlot
    \/ \E c \in Conns : Accept(c)

Handler(h) ==
    \/ Start(h) \/ LoopTest(h) \/ RecvEnd(h) \/ Refuse(h)
    \/ CloseSock(h) \/ Clear(h)

Main == StopListening \/ TakeLock \/ Sweep \/ SweepClose \/ Joined \/ SweepDone \/ Exit

Next ==
    \/ Acceptor \/ AcceptError \/ CreateFails \/ Main \/ Stop
    \/ \E c \in Conns :
         \/ Handler(c) \/ StartFails(c) \/ Connect(c) \/ ClientClose(c)
         \/ \E kind \in FrameKind : RecvFrame(c, kind)
         \/ RecvGarbage(c)

Spec == Init /\ [][Next]_vars
-----------------------------------------------------------------------------
HandlerPlaces == {"none", "start", "loop", "recv", "refuse", "close", "clear", "done"}

HasSlot == apc = "fill" \/ Filling

TypeOK ==
    /\ running \in BOOLEAN /\ server_fd \in {"open", "closed"}
    /\ sockfd \in [Slots -> 0..MaxFd]
    /\ connected \in [Slots -> BOOLEAN]
    /\ thread \in [Slots -> Conns \cup {None}]
    /\ fds \in [Fds -> Conns \cup {None}]
    /\ apc \in {"test", "accept", "find", "fill", "mark", "create", "unmark", "done"}
    /\ cur \in [fd : 0..MaxFd, conn : Conns \cup {None}]
    /\ slot \in [Conns -> Slots \cup {NoSlot}]
    /\ pc \in [Conns -> HandlerPlaces]
    /\ rsock \in [Conns -> Conns \cup {None}]
    /\ mpc \in {"join", "closing", "lock", "sweep", "marked", "joining", "exited"}
    /\ idx \in 0..(NSlots + 1)
    /\ waiting \subseteq Conns /\ gone \subseteq Conns
    /\ refused \in BOOLEAN
    /\ apc = "find" \/ HasSlot => cur.conn \in Conns /\ cur.fd # 0
    /\ HasSlot => slot[cur.conn] # NoSlot
    /\ mpc \in {"marked", "joining"} => idx \in Slots /\ thread[idx] \in Conns
    /\ \A c \in Conns : Live(c) => slot[c] # NoSlot /\ sockfd[slot[c]] # 0

\* However handlers and the acceptor race for a slot: as long as a slot is
\* marked connected and the acceptor is not filling it, the thread stored in
\* it is alive and works on that slot, so that dlt_server_stop joins a thread
\* that exists and a slot is never lost.
ConnectedHasHandler ==
    \A s \in Slots : connected[s] /\ ~(Filling /\ slot[cur.conn] = s) =>
        thread[s] \in Conns /\ Live(thread[s]) /\ slot[thread[s]] = s

\* Until a first application is refused or the server is stopped, the slots
\* are exclusive although handlers free them without clients_lock: each
\* handler has its own slot with its own socket, and exactly the connections
\* of handlers that have not closed yet, and the one in the acceptor's hands,
\* are open.
SlotsExclusive ==
    ~refused /\ running =>
        /\ \A c, d \in Conns : Live(c) /\ Live(d) /\ slot[c] = slot[d] => c = d
        /\ \A c \in Conns : Live(c) /\ pc[c] # "clear" =>
             connected[slot[c]] /\ fds[sockfd[slot[c]]] = c
        /\ \A n \in Fds : fds[n] # None =>
             \/ (apc = "find" \/ HasSlot) /\ cur.fd = n
             \/ Live(fds[n]) /\ sockfd[slot[fds[n]]] = n
=============================================================================
