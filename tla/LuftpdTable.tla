---------------------------- MODULE LuftpdTable ----------------------------
(***************************************************************************)
(* The client table of the FTP daemon (luftpd/src/luftpd.c): g_clients and *)
(* g_client_count, the accept loop of luftpd_start_server that fills it    *)
(* and the threads of luftpd_handle_client that compact it.                *)
(*                                                                         *)
(* A thread keeps a pointer into the table, slot[c], and goes on using it  *)
(* when other threads move the entries.  A client c stands for its socket  *)
(* and for its pthread_t, of which thread_id keeps what an int can hold; 0 *)
(* is the -1 of a closed socket and the thread id of a cleared entry.      *)
(***************************************************************************)
EXTENDS Naturals, FiniteSets, FiniteSetsExt

CONSTANTS
    Clients,         \* the connections clients make, numbered from 1
    MaxConnections,  \* server.max_connections
    IntRange         \* the values an int tells apart

ASSUME TableAssumption ==
    /\ Clients \subseteq Nat \ {0} /\ IsFiniteSet(Clients)
    /\ MaxConnections \in Nat /\ IntRange \in Nat \ {0}

VARIABLES
    g_clients,        \* the table: socket, thread id and is_active
    g_client_count,
    slot,             \* client: the entry a thread works on
    pc,               \* where each connection is
    recv_sock,        \* the socket a thread is in recv() on
    gone,             \* clients that have closed their end
    closed            \* sockets the daemon has closed

vars == <<g_clients, g_client_count, slot, pc, recv_sock, gone, closed>>

Entry == [control_sock : Clients \cup {0}, thread_id : Nat,
          is_active : BOOLEAN]
Cleared == [control_sock |-> 0, thread_id |-> 0, is_active |-> FALSE]

\* (int) thread_id.
CastToInt(tid) == tid % IntRange

Live == {c \in Clients : pc[c] \in {"loop", "recv", "close", "remove"}}

Init ==
    /\ g_clients = [i \in 1..MaxConnections |-> Cleared]
    /\ g_client_count = 0
    /\ slot = [c \in Clients |-> 0]
    /\ pc = [c \in Clients |-> "away"]
    /\ recv_sock = [c \in Clients |-> 0]
    /\ gone = {} /\ closed = {}
-----------------------------------------------------------------------------
(* The accept loop; g_clients_mutex is held from the test to the end.      *)

\* Mutant: > for >= in the test, one entry too many.
FullOffByOne == g_client_count > MaxConnections

Full == g_client_count >= MaxConnections

\* Reply 421 and close.
Refuse(c) ==
    /\ pc[c] = "away" /\ Full
    /\ pc' = [pc EXCEPT ![c] = "refused"]
    /\ closed' = closed \cup {c}
    /\ UNCHANGED <<g_clients, g_client_count, slot, recv_sock, gone>>

\* The entry behind the last one is cleared, filled and given to a thread.
Accept(c) ==
    /\ pc[c] = "away" /\ ~Full
    /\ g_clients' = [g_clients EXCEPT ![g_client_count + 1] =
         [control_sock |-> c, thread_id |-> CastToInt(c), is_active |-> TRUE]]
    /\ g_client_count' = g_client_count + 1
    /\ slot' = [slot EXCEPT ![c] = g_client_count + 1]
    /\ pc' = [pc EXCEPT ![c] = "loop"]
    /\ UNCHANGED <<recv_sock, gone, closed>>

\* pthread_create fails: the entry is filled but not counted.
AcceptFails(c) ==
    /\ pc[c] = "away" /\ ~Full
    /\ g_clients' = [g_clients EXCEPT ![g_client_count + 1] =
         [control_sock |-> c, thread_id |-> 0, is_active |-> TRUE]]
    /\ pc' = [pc EXCEPT ![c] = "refused"]
    /\ closed' = closed \cup {c}
    /\ UNCHANGED <<g_client_count, slot, recv_sock, gone>>

Hangup(c) ==
    /\ pc[c] # "away" /\ c \notin gone
    /\ gone' = gone \cup {c}
    /\ UNCHANGED <<g_clients, g_client_count, slot, pc, recv_sock, closed>>
-----------------------------------------------------------------------------
(* luftpd_handle_client: client is the pointer &g_clients[slot[c]].        *)

\* while (client->is_active), and the socket recv() is called with.
LoopTest(c) ==
    /\ pc[c] = "loop"
    /\ LET client == g_clients[slot[c]]
       IN  IF client.is_active
           THEN /\ pc' = [pc EXCEPT ![c] = "recv"]
                /\ recv_sock' = [recv_sock EXCEPT ![c] = client.control_sock]
           ELSE /\ pc' = [pc EXCEPT ![c] = "close"]
                /\ UNCHANGED recv_sock
    /\ UNCHANGED <<g_clients, g_client_count, slot, gone, closed>>

\* recv() returns a command.  It may do so on a socket that another thread
\* has closed meanwhile, but not on one that was never given to a thread.
Received(c) ==
    /\ pc[c] = "recv" /\ recv_sock[c] \notin gone \cup {0}
    /\ pc[recv_sock[c]] # "refused"

\* The command is answered, on client->control_sock; QUIT leaves the loop.
Serve(c, quit) ==
    /\ Received(c)
    /\ pc' = [pc EXCEPT ![c] = IF quit THEN "close" ELSE "loop"]
    /\ UNCHANGED <<g_clients, g_client_count, slot, recv_sock, gone, closed>>

\* lufptd_close_client(client), whoever's entry that is by now.
CloseEntry(c) ==
    /\ g_clients' = [g_clients EXCEPT ![slot[c]].control_sock = 0,
                                      ![slot[c]].is_active = FALSE]
    /\ closed' = closed \cup ({g_clients[slot[c]].control_sock} \ {0})

\* LIST or RETR cannot open what it has found, and closes the client.
ServeAborts(c) ==
    /\ Received(c)
    /\ CloseEntry(c)
    /\ pc' = [pc EXCEPT ![c] = "loop"]
    /\ UNCHANGED <<g_client_count, slot, recv_sock, gone>>

\* recv() returns 0 or -1.
RecvEnds(c) ==
    /\ pc[c] = "recv" /\ recv_sock[c] \in gone \cup closed \cup {0}
    /\ pc' = [pc EXCEPT ![c] = "close"]
    /\ UNCHANGED <<g_clients, g_client_count, slot, recv_sock, gone, closed>>

CloseClient(c) ==
    /\ pc[c] = "close"
    /\ CloseEntry(c)
    /\ pc' = [pc EXCEPT ![c] = "remove"]
    /\ UNCHANGED <<g_client_count, slot, recv_sock, gone>>

\* Mutant: the search goes on and drops the entry that has moved up as well.
RemoveNoBreak(c) ==
    /\ pc[c] = "remove"
    /\ LET tid == g_clients[slot[c]].thread_id
           found == {i \in 1..g_client_count : g_clients[i].thread_id = tid}
       IN  IF found = {} THEN UNCHANGED <<g_clients, g_client_count>>
           ELSE /\ g_clients' = [i \in 1..MaxConnections |->
                     IF i >= Min(found) /\ i < g_client_count
                     THEN g_clients[i + 1] ELSE g_clients[i]]
                /\ g_client_count' =
                     IF Min(found) < g_client_count THEN g_client_count - 2
                                                    ELSE g_client_count - 1
    /\ pc' = [pc EXCEPT ![c] = "done"]
    /\ UNCHANGED <<slot, recv_sock, gone, closed>>

\* Remove the first entry with client->thread_id from the list, moving the
\* entries behind it; the mutex is held.
RemoveEntry(c) ==
    /\ pc[c] = "remove"
    /\ LET tid == g_clients[slot[c]].thread_id
           found == {i \in 1..g_client_count : g_clients[i].thread_id = tid}
       IN  IF found = {} THEN UNCHANGED <<g_clients, g_client_count>>
           ELSE /\ g_clients' = [i \in 1..MaxConnections |->
                     IF i >= Min(found) /\ i < g_client_count
                     THEN g_clients[i + 1] ELSE g_clients[i]]
                /\ g_client_count' = g_client_count - 1
    /\ pc' = [pc EXCEPT ![c] = "done"]
    /\ UNCHANGED <<slot, recv_sock, gone, closed>>
-----------------------------------------------------------------------------
Thread(c) ==
    \/ LoopTest(c) \/ RecvEnds(c) \/ ServeAborts(c)
    \/ CloseClient(c) \/ RemoveEntry(c)
    \/ \E quit \in BOOLEAN : Serve(c, quit)

Next ==
    \E c \in Clients :
        Accept(c) \/ AcceptFails(c) \/ Refuse(c) \/ Hangup(c) \/ Thread(c)

Spec == Init /\ [][Next]_vars
-----------------------------------------------------------------------------
TypeOK ==
    /\ g_clients \in [1..MaxConnections -> Entry]
    /\ g_client_count \in 0..MaxConnections
    /\ slot \in [Clients -> 0..MaxConnections]
    /\ \A c \in Live : slot[c] # 0
    /\ pc \in [Clients ->
         {"away", "refused", "loop", "recv", "close", "remove", "done"}]
    /\ recv_sock \in [Clients -> Clients \cup {0}]
    /\ gone \subseteq Clients /\ closed \subseteq Clients

\* Every thread is counted, so that max_connections bounds the threads,
\* although threads may remove each other's entries, and although two of
\* them may have the same thread_id.
ThreadsCounted == Cardinality(Live) <= g_client_count

\* "Remove from the global client list" (luftpd.c:405): a thread that has
\* ended has no entry in the list any more.
EndedIsRemoved ==
    \A c \in Clients : pc[c] = "done" =>
        \A i \in 1..g_client_count : g_clients[i].thread_id # CastToInt(c)
=============================================================================
