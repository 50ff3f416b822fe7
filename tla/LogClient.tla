----------------------------- MODULE LogClient -----------------------------
(***************************************************************************)
(* The logging client (m_log/src/log_cli_impl.c) behind a successful       *)
(* dlt_init_client, with the queue and the connection pool it uses         *)
(* (m_log/src/log_protocol.c): application threads that log, the flush     *)
(* thread, the receiver thread, and dlt_free_client.                       *)
(*                                                                         *)
(* The queue is the ring of log_queue_enqueue and log_queue_dequeue; the   *)
(* code between lock and unlock is one step, and the flush thread is the   *)
(* only one that waits on the condition.  The first log it takes ends the  *)
(* process (Extract), so that nothing behind that line of the flush thread *)
(* is a behaviour of the program.  A log is its number, a socket too.  The *)
(* pool of frame objects is left out: a log whose frame cannot be made is  *)
(* dropped like one that is not allowed.  The server may close a           *)
(* connection at any time.                                                 *)
(***************************************************************************)
EXTENDS Naturals, Sequences, SequencesExt

CONSTANTS
    Apps,       \* the application's threads
    Capacity,   \* slots of the ring (1024)
    PoolSize,   \* capacity of the connection pool (3)
    MaxLogs,    \* bound: calls of dlt_log_*
    MaxSocks    \* bound: connections made

ASSUME ClientAssumption ==
    /\ Capacity \in Nat \ {0} /\ PoolSize \in Nat \ {0}
    /\ MaxLogs \in Nat /\ MaxSocks \in Nat

VARIABLES
    proc,       \* the process: "up", "sigpipe", "segv" or "undefined"
    node,       \* the ClientNode: "listed", "unlisted" or "freed"
    running,    \* client->running
    frames, head, tail, count,   \* client->log_buffer
    pool,       \* client->conn_pool: the idle sockets
    sock,       \* each socket made: "up", "fin", "rst" by the server, "closed"
    apc,        \* where each application thread is
    msg,        \* the log it is sending
    asock,      \* the socket it has acquired, or 0
    fpc,        \* where the flush thread is
    rpc,        \* where the receiver thread is
    rsock,      \* its socket, or 0
    dpc,        \* where dlt_free_client is
    logs        \* calls so far

ringVars == <<frames, head, tail, count>>
appVars == <<apc, msg, asock, logs>>
recvVars == <<rpc, rsock>>
sockVars == <<pool, sock>>
nodeVars == <<node, running, dpc>>
vars == <<proc, node, running, frames, head, tail, count, pool, sock, apc, msg, asock,
          fpc, rpc, rsock, dpc, logs>>

Init ==
    /\ proc = "up" /\ node = "listed" /\ running = TRUE /\ dpc = "no"
    /\ frames = [i \in 0..(Capacity - 1) |-> 0]
    /\ head = 0 /\ tail = 0 /\ count = 0
    /\ pool = <<>> /\ sock = <<>>
    /\ apc = [a \in Apps |-> "out"]
    /\ msg = [a \in Apps |-> 0]
    /\ asock = [a \in Apps |-> 0]
    /\ fpc = "test" /\ rpc = "test" /\ rsock = 0
    /\ logs = 0

\* The logs in the ring, oldest first.
InRing == [i \in 1..count |-> frames[(head + i - 1) % Capacity]]
-----------------------------------------------------------------------------
(* The connection pool.                                                    *)

\* Mutant: the connection is handed out and stays in the pool.
AcquireKeeps(s) ==
    \/ /\ pool # <<>> /\ s = Last(pool)
       /\ UNCHANGED <<pool, sock>>
    \/ /\ pool = <<>> /\ Len(sock) < MaxSocks /\ s = Len(sock) + 1
       /\ sock' = Append(sock, "up")
       /\ UNCHANGED pool
    \/ pool = <<>> /\ s = 0 /\ UNCHANGED <<pool, sock>>

\* connection_pool_acquire returns s: the idle connection put back last, or a
\* new one, or 0 for the -1 of a failed connect().
Acquire(s) ==
    \/ /\ pool # <<>> /\ s = Last(pool)
       /\ pool' = Front(pool)
       /\ UNCHANGED sock
    \/ /\ pool = <<>> /\ Len(sock) < MaxSocks /\ s = Len(sock) + 1
       /\ sock' = Append(sock, "up")
       /\ UNCHANGED pool
    \/ pool = <<>> /\ s = 0 /\ UNCHANGED <<pool, sock>>

\* connection_pool_release: put it back, or close it if the pool is full.
Release(s) ==
    IF Len(pool) < PoolSize
    THEN pool' = Append(pool, s) /\ UNCHANGED sock
    ELSE sock' = [sock EXCEPT ![s] = "closed"] /\ UNCHANGED pool

\* log_protocol_send_frame, two calls of send(); its result is ignored.  A
\* server that has closed the connection answers the first one with RST, and
\* a send() after that raises SIGPIPE, which the library does not ignore.
SendFrame(s) ==
    /\ sock' = [sock EXCEPT ![s] = IF @ = "fin" THEN "rst" ELSE @]
    /\ proc' \in (IF sock[s] = "rst" THEN {} ELSE {"up"})
                   \cup (IF sock[s] = "up" THEN {} ELSE {"sigpipe"})
    /\ UNCHANGED pool

Sockets == 0..MaxSocks

\* The server closes a connection.
ServerCloses(s) ==
    /\ proc = "up" /\ s \in DOMAIN sock /\ sock[s] = "up"
    /\ sock' = [sock EXCEPT ![s] = "fin"]
    /\ UNCHANGED <<proc, nodeVars, ringVars, pool, appVars, fpc, recvVars>>
-----------------------------------------------------------------------------
(* dlt_log_common, called by an application thread.                        *)

AppAt(a, place) == proc = "up" /\ apc[a] = place /\ node # "freed"
AppGoTo(a, place) == apc' = [apc EXCEPT ![a] = place]

\* find_client, under list_lock.
FindClient(a) ==
    /\ proc = "up" /\ apc[a] = "out" /\ node = "listed" /\ logs < MaxLogs
    /\ logs' = logs + 1
    /\ msg' = [msg EXCEPT ![a] = logs + 1]
    /\ AppGoTo(a, "found")
    /\ UNCHANGED <<proc, nodeVars, ringVars, sockVars, asock, fpc, recvVars>>

\* client->running, is_log_allowed with the levels the server has set, and the
\* frame of the log.
Prepare(a, allowed) ==
    /\ AppAt(a, "found")
    /\ AppGoTo(a, IF running /\ allowed THEN "enqueue" ELSE "out")
    /\ UNCHANGED <<proc, nodeVars, ringVars, sockVars, msg, asock, logs, fpc, recvVars>>

Wake == IF fpc = "asleep" THEN "woken" ELSE fpc

\* Mutant: the condition is not signalled.
EnqueueNoSignal(a) ==
    /\ AppAt(a, "enqueue") /\ count < Capacity
    /\ frames' = [frames EXCEPT ![tail] = msg[a]]
    /\ tail' = (tail + 1) % Capacity
    /\ count' = count + 1
    /\ AppGoTo(a, "out")
    /\ UNCHANGED <<proc, nodeVars, head, sockVars, msg, asock, logs, fpc, recvVars>>

\* log_queue_enqueue.
Enqueue(a) ==
    /\ AppAt(a, "enqueue") /\ count < Capacity
    /\ frames' = [frames EXCEPT ![tail] = msg[a]]
    /\ tail' = (tail + 1) % Capacity
    /\ count' = count + 1
    /\ fpc' = Wake
    /\ AppGoTo(a, "out")
    /\ UNCHANGED <<proc, nodeVars, head, sockVars, msg, asock, logs, recvVars>>

\* The queue is full: the log is sent directly.
EnqueueFull(a) ==
    /\ AppAt(a, "enqueue") /\ count >= Capacity
    /\ AppGoTo(a, "acquire")
    /\ UNCHANGED <<proc, nodeVars, ringVars, sockVars, msg, asock, logs, fpc, recvVars>>

AppAcquire(a) ==
    /\ AppAt(a, "acquire")
    /\ \E s \in Sockets : /\ Acquire(s)
                          /\ asock' = [asock EXCEPT ![a] = s]
                          /\ AppGoTo(a, IF s = 0 THEN "out" ELSE "send")
    /\ UNCHANGED <<proc, nodeVars, ringVars, msg, logs, fpc, recvVars>>

AppSend(a) ==
    /\ AppAt(a, "send")
    /\ SendFrame(asock[a])
    /\ AppGoTo(a, "release")
    /\ UNCHANGED <<nodeVars, ringVars, msg, asock, logs, fpc, recvVars>>

AppRelease(a) ==
    /\ AppAt(a, "release")
    /\ Release(asock[a])
    /\ asock' = [asock EXCEPT ![a] = 0]
    /\ AppGoTo(a, "out")
    /\ UNCHANGED <<proc, nodeVars, ringVars, msg, logs, fpc, recvVars>>

\* The thread goes on with a client that dlt_free_client has freed.
UseAfterFree(a) ==
    /\ proc = "up" /\ apc[a] # "out" /\ node = "freed"
    /\ proc' = "undefined"
    /\ UNCHANGED <<nodeVars, ringVars, sockVars, appVars, fpc, recvVars>>
-----------------------------------------------------------------------------
(* log_flush_thread.                                                       *)

FlushAt(place) == proc = "up" /\ fpc = place

\* while (client->running); the batch frame may fail and is then tried again.
FlushTest ==
    /\ FlushAt("test")
    /\ fpc' = IF running THEN "collect" ELSE "done"
    /\ UNCHANGED <<proc, nodeVars, ringVars, sockVars, appVars, recvVars>>

\* log_queue_dequeue finds nothing and waits.
Sleep ==
    /\ proc = "up" /\ fpc \in {"collect", "woken"} /\ count = 0
    /\ fpc' = "asleep"
    /\ UNCHANGED <<proc, nodeVars, ringVars, sockVars, appVars, recvVars>>

SpuriousWakeup ==
    /\ FlushAt("asleep")
    /\ fpc' = "woken"
    /\ UNCHANGED <<proc, nodeVars, ringVars, sockVars, appVars, recvVars>>

\* Mutant: the index of the oldest log stays.
DequeueHeadStays ==
    /\ proc = "up" /\ fpc \in {"collect", "woken"} /\ count > 0
    /\ count' = count - 1
    /\ fpc' = "extract"
    /\ UNCHANGED <<proc, nodeVars, frames, head, tail, sockVars, appVars, recvVars>>

\* log_queue_dequeue returns a log.
Dequeue ==
    /\ proc = "up" /\ fpc \in {"collect", "woken"} /\ count > 0
    /\ head' = (head + 1) % Capacity
    /\ count' = count - 1
    /\ fpc' = "extract"
    /\ UNCHANGED <<proc, nodeVars, frames, tail, sockVars, appVars, recvVars>>

\* Every log has its level, message and time, and tlv_get_level(level_tlv, NULL)
\* reads through the NULL it is given for the error.
Extract ==
    /\ FlushAt("extract")
    /\ proc' = "segv"
    /\ UNCHANGED <<nodeVars, ringVars, sockVars, appVars, fpc, recvVars>>
-----------------------------------------------------------------------------
(* server_message_receiver.                                                *)

RecvAt(place) == proc = "up" /\ rpc = place

\* Mutant: the receiver does not look at running.
RecvTestForever ==
    /\ RecvAt("test")
    /\ rpc' = "acquire"
    /\ UNCHANGED <<proc, nodeVars, ringVars, sockVars, appVars, fpc, rsock>>

RecvTest ==
    /\ RecvAt("test")
    /\ rpc' = IF running THEN "acquire" ELSE "done"
    /\ UNCHANGED <<proc, nodeVars, ringVars, sockVars, appVars, fpc, rsock>>

RecvAcquire ==
    /\ RecvAt("acquire")
    /\ \E s \in Sockets : /\ Acquire(s)
                          /\ rsock' = s
                          /\ rpc' = IF s = 0 THEN "test" ELSE "select"
    /\ UNCHANGED <<proc, nodeVars, ringVars, appVars, fpc>>

\* select() with its timeout of a second, perhaps a new configuration, which
\* Prepare takes into account, and back to the pool in any case.
RecvRelease ==
    /\ RecvAt("select")
    /\ Release(rsock)
    /\ rsock' = 0
    /\ rpc' = "test"
    /\ UNCHANGED <<proc, nodeVars, ringVars, appVars, fpc>>
-----------------------------------------------------------------------------
(* dlt_free_client.                                                        *)

\* The node leaves the list, under list_lock.
Unlink ==
    /\ proc = "up" /\ dpc = "no" /\ node = "listed"
    /\ node' = "unlisted"
    /\ dpc' = "stop"
    /\ UNCHANGED <<proc, running, ringVars, sockVars, appVars, fpc, recvVars>>

StopThreads ==
    /\ proc = "up" /\ dpc = "stop"
    /\ running' = FALSE
    /\ dpc' = "join"
    /\ UNCHANGED <<proc, node, ringVars, sockVars, appVars, fpc, recvVars>>

\* Both threads are joined; the pool's sockets are closed, log_queue_destroy
\* frees the logs that are left, and then everything is freed.
FreeClient ==
    /\ proc = "up" /\ dpc = "join" /\ fpc = "done" /\ rpc = "done"
    /\ node' = "freed"
    /\ dpc' = "returned"
    /\ sock' = [s \in DOMAIN sock |-> IF s \in Range(pool) THEN "closed" ELSE sock[s]]
    /\ pool' = <<>>
    /\ head' = (head + count) % Capacity
    /\ count' = 0
    /\ UNCHANGED <<proc, running, frames, tail, appVars, fpc, recvVars>>
-----------------------------------------------------------------------------
App(a) ==
    \/ Enqueue(a) \/ EnqueueFull(a)
    \/ AppAcquire(a) \/ AppSend(a) \/ AppRelease(a) \/ UseAfterFree(a)
    \/ \E allowed \in BOOLEAN : Prepare(a, allowed)

Flush == FlushTest \/ Sleep \/ Dequeue \/ Extract

Receiver == RecvTest \/ RecvAcquire \/ RecvRelease

Freeing == StopThreads \/ FreeClient

Next ==
    \/ \E a \in Apps : FindClient(a) \/ App(a)
    \/ Flush \/ SpuriousWakeup \/ Receiver
    \/ Unlink \/ Freeing
    \/ \E s \in 1..MaxSocks : ServerCloses(s)

\* Every thread of the process runs; nobody has to log, to call
\* dlt_free_client or to close a connection, and nothing wakes a waiting
\* thread but a signal.
Fairness ==
    /\ \A a \in Apps : WF_vars(App(a))
    /\ WF_vars(Flush) /\ WF_vars(Receiver) /\ WF_vars(Freeing)

Spec == Init /\ [][Next]_vars /\ Fairness
-----------------------------------------------------------------------------
TypeOK ==
    /\ proc \in {"up", "sigpipe", "segv", "undefined"}
    /\ node \in {"listed", "unlisted", "freed"} /\ running \in BOOLEAN
    /\ frames \in [0..(Capacity - 1) -> 0..MaxLogs]
    /\ head \in 0..(Capacity - 1) /\ tail \in 0..(Capacity - 1)
    /\ count \in 0..Capacity
    /\ pool \in Seq(1..MaxSocks) /\ Len(pool) <= PoolSize
    /\ sock \in Seq({"up", "fin", "rst", "closed"}) /\ Len(sock) <= MaxSocks
    /\ apc \in [Apps -> {"out", "found", "enqueue", "acquire", "send", "release"}]
    /\ msg \in [Apps -> 0..MaxLogs] /\ asock \in [Apps -> Sockets]
    /\ fpc \in {"test", "collect", "asleep", "woken", "extract", "done"}
    /\ rsock \in Sockets
    /\ rpc \in {"test", "acquire", "select", "done"}
    /\ dpc \in {"no", "stop", "join", "returned"}

\* The ring, its two indices and its counter are a bounded FIFO, whatever the
\* threads that share them do.
Queue == INSTANCE BoundedFifo WITH q <- InRing, Items <- 1..MaxLogs

QueueIsFifo == Queue!Spec

\* The flush thread does not sleep on the condition while a log is queued.
NoMissedWakeup == fpc = "asleep" => count = 0

Holders(s) ==
    {<<"app", a>> : a \in {b \in Apps : asock[b] = s}}
      \cup {x \in {<<"recv", rsock>>} : x[2] = s}
      \cup {<<"pool", i>> : i \in {j \in DOMAIN pool : pool[j] = s}}

\* Every connection that is open has exactly one user: a thread that has
\* acquired it, or the pool; so no frame is written into another one and no
\* connection is leaked or used after it was closed.
ConnectionsExclusive ==
    \A s \in DOMAIN sock :
        IF sock[s] = "closed" THEN Holders(s) = {}
        ELSE \E h \in Holders(s) : Holders(s) = {h}

\* The flush thread waits for a log.
WaitsForLogs == fpc \in {"collect", "asleep", "woken"} /\ count = 0

\* dlt_free_client returns, with every thread joined, or the process ends, or
\* there is one reason why it does not return: the flush thread waits for a log
\* in log_queue_dequeue, where nothing tells it to stop, and stays there.  No
\* other wait, of either thread, outlives the call.
FreeReturnsOrQueueWaits ==
    dpc = "join" ~> \/ dpc = "returned" \/ proc # "up"
                    \/ [](proc = "up" => WaitsForLogs)
=============================================================================
