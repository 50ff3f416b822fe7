# A TLA+ model of lucp

lucp collects logs of a device and hands them over: a client asks the daemon
`lucpd` (protocol LUCP over TCP) to prepare its logs, and fetches them from the
small FTP server `luftpd`. All parts log through `m_log` and are configured
through `lucfg`. This directory models the protocol library, both daemons from
their arguments to their last thread, the demo programs and the log daemon with
its client library in TLA+, checks them with TLC and proves the main results
with TLAPS for every value of the constants.

`PROJECT.json` maps every definition to the source lines it translates and
lists runs, mutants, hazards, findings and theorems.

## Inventory

| Component (source) | State | Operations | What is hard | What makes it correct |
|---|---|---|---|---|
| lucplib framing and transport (`lucplib/lucp.c`) | `lucp_net_ctx_t`: socket, `rbuf`, `rbuf_len` | `frame_make/pack/unpack`, `full_write`, `net_send`, `net_recv` | a byte stream cut and joined anywhere, malformed frames, close and reset, the buffer at its limit | the frames that were sent come out, in order, each as soon as it is complete |
| lucplib retries (same file) | the context, the attempt counter | `lucp_net_send_with_retries` | late answers, answers in parts, signals in `select()`, frames already buffered, a broken connection | the reply returned answers this request; the call returns |
| lucpd (`lucpd/src/lucpd.c`) | `client_count`, `server_running`, `listen_fd`; per session `state`, `seq_num`, `last_active_ms` | `main`'s accept loop, `session_thread`, `handle_sig` | counter shared by main and threads, shutdown during `accept()`, timeouts tested between blocking reads, failing writes and SIGPIPE, failing `pthread_create` | threads never exceed `max_clients`; COMPLETED means uploaded; sessions end |
| demo client (`demo/lucp_client_demo.c`) | its place in the protocol, the context | request, two `select()`+`recv`, login and download results | two frames in one read, closing behind the last frame | client and daemon agree on the outcome |
| luftpd client table (`luftpd/src/luftpd.c`) | `g_clients`, `g_client_count`, a pointer into the table per thread | accept, refuse, `lufptd_close_client`, compaction | entries move under the pointers of other threads | every thread is counted; an ended client has no entry |
| luftpd sessions (same file) | control, passive and data socket, `is_active` | the command loop, PASV, LIST, RETR, QUIT and simple commands | two sessions searching one port range, late data connections, failing `open`, clients that go away | no socket or port leaks, each command is answered and ends |
| luftpd paths (`luftpd/src/luftpd_utils.c`) | `current_dir`, `root_dir` | `luftpd_resolve_path`, CWD | `..` at the root, string lengths at the prefix tests | a path means what its components say and stays in the root |
| m_log queue, pools, asynchronous sender (`m_log/src/log_protocol.c`) | ring of frames, mutex, condition; connection pool; sender thread | enqueue, dequeue, start/stop sender | lost wake-ups, a full ring, joining a thread that sleeps | FIFO, no loss, stop returns |
| m_log frames (same file) | frame with TLVs | serialise, parse, validate | byte order, lengths | parse undoes serialise |
| m_log client (`m_log/src/log_cli_impl.c`) | client table, flush thread | `dlt_*` | use after free, stale pooled connections, join of a blocked thread, a NULL read | a connection has one user, the queue is a FIFO, `dlt_free_client` returns |
| logd (`m_log/src/log_server.c`, `logd.c`) | slots, registered applications | accept, handler, stop | slot reused while its handler still runs, shutdown | one handler per slot, stop returns |
| lucfg (`lucfg/src/lucfg.c`) | the parsed file, one entry per line | open, typed getters | expressions, ranges and conversions in macros, memory freed too early | a getter returns the value of the file or an error |
| start of lucpd (`lucpd/src/lucpd_cfg.c`, `lucpd.c`) | `g_lucpdcfg` | `lucpd_cfg_load_with_entryArgs`, `_with_file`, `main` up to `listen` | options in any order and with mistakes, values out of range | the daemon runs as it was asked to, in its limits |
| start of luftpd (`luftpd/src/luftpd_cfg.c`, `luftpd.c`) | `g_luftpd_config` | `main`, `luftpd_start_server` up to `listen` | the configuration is loaded twice into one global, from different files | the server runs with the settings of one file |
| rate limit (`lucpd/src/lucpd_utils.c`) | an address and a time per hash value | `check_rate_limit` | collisions, a clock that is set back | an address that was not displaced waits |
| demo server (`demo/lucp_server_demo.c`) | its place in the protocol | one session | clients that send anything or leave | every reply answers the one request |

How they interact: clients and `lucpd` exchange frames through lucplib only, so
`Lucpd` and `LucpDemo` are written against `FrameChannel`, the abstract channel
that `LucpNet` is shown to implement. `lucpd` and `luftpd` are separate
processes that share nothing but the file system and the library lucfg, on
which the two start modules are built. Inside each daemon `main` and
the session threads share a counter or table under a mutex. Applications reach
`logd` through the client library of m_log, over connections of its pool.

## Modules

### FrameChannel, LucpNet, LucpNetProofs, MCLucpNet

`LucpNet` is one direction of a connection. Bytes are named by their offset in
the stream; `wire` records which frame lies where, `written` what the kernel
accepted, `taken` what `read()` moved to `rbuf`, so `rbuf` is the interval of
the last `rbuf_len` bytes taken. `Send`/`Write`/`WriteError` are
`lucp_net_send` and `full_write` (any partial write), `Recv` the part of
`lucp_net_recv` before the loop and `Read`, `ZeroRead`, `ReadClosed`,
`ReadError` one iteration of it, `FrameUnpack` is `lucp_frame_unpack`: on bytes
that are not the start of a frame its result is any result the function has
(`Misread`). `SendMalformed` is a peer that puts a frame of bad magic or bad
length on the stream. `FrameChannel` is the promise: a FIFO of frames that
breaks at the first malformed one. `ImplementsChannel` is the refinement.

### LucpRetry

`lucp_net_send_with_retries`, called again and again on one context. What
matters of a reply is whether it is still in the socket (`stream`, seen by
`select()`) or already in `ctx->rbuf` (not seen), and whether it is whole:
`half` says where the beginning of an unfinished one is. Half a reply makes the
socket readable, `lucp_net_recv` takes it (`RecvPart`) and waits in `read()` for
the rest, without a timeout. `SelectInterrupted` is a `select()` that returns -1
with EINTR: neither the error branch nor the timeout branch takes it, and the
code goes on to read. `conn` is the peer's end, as in `Lucpd`: `SendFails` is
the -1 of a write to a connection that was reset, `SendKilled` the SIGPIPE of
the write after that one.

### Lucpd, LucpdProofs, MCLucpd

`at[c]` follows a connection from `connect()` to the end of its thread; `mpc`
is where `main` is; the count is raised by main *after* `pthread_create`
(`CountUp`) and lowered by the thread (`CountDown`), two separate steps as in
the code. `LoopTop` is the top of the session's loop with its test of
`server_running` and of the timeout, the `Recv*` actions are what one received
frame does, each with the send that follows it, and `Prepare` is the archive
and upload work with its NOTIFY. A client may close properly or in a way that
resets the connection, by ending with the ACK unread for instance
(`ClientLeave`). `NetSend` is `lucp_net_send` on such a socket (`PeerStates`):
after a proper close the first write succeeds and is answered by RST, after a
reset it fails, which the session does not notice (`lucpd.c:117`, `:155`); the
reply is then recorded as not `written`. The write after that raises SIGPIPE
(`proc = "sigpipe"`), since no handler is installed. Frames that were received
before remain readable, so that a session can complete although its
notification was never written; `CompletedMeansUploaded` says so. `SpawnFails` is
the unchecked `pthread_create`. Time is one bit per session, `stale`.

### LucpDemo, LucpDemoProofs, MCLucpDemo

The demo client, one action per step of its `main`, composed with `Lucpd`: it
replaces the arbitrary clients, and adds what the client has read (`crd`) and
what it has been handed (`cgot`). `DemoAssumption` says that the frames of the
daemon's clients are those this client can send.

### LuftpdTable, LuftpdProofs, MCLuftpd

The table as the threads see it: `slot[c]` is the pointer a thread was given,
which keeps pointing to the same entry while the clients behind it change.
`RemoveEntry` looks up `client->thread_id` through that pointer and shifts the
entries behind the first match. `thread_id` is a `pthread_t` cut to an `int`
(`CastToInt`, with `IntRange` ids to tell apart), so two live threads may share
one and a removal may take the wrong entry for that reason too. `MCLuftpd` puts
table and paths side by side in one run.

### LuftpdSession, LuftpdSessionProofs

One command at a time per session, split where another thread or the client
can come between: `PasvBind` and `PasvListen` are separate, because
SO_REUSEADDR lets two sessions bind the same port before either listens; the
wait for the data connection, its acceptance, opening the file and sending are
separate as well. `Respond` is `luftpd_send_response`, with the SIGPIPE on a
control connection whose client has gone; `Feat` is the one simple command
that sends more than one reply. Whether a path can be resolved and opened is
left open (`LookupFails`, `OpenFails`).

A session works on its own entry of `g_clients`. When one ends, the compaction
moves the entries of the others under their pointers; as soon as two sessions
are left, or still to come, one may hold another's sockets. `EntriesMixed` is
that step, and the module ends there: what the threads do to the table
afterwards is the subject of `LuftpdTable`, what they do to each other's sockets
is not modelled. Two sessions alone never get there: when one has ended, the
other has the table for itself.

### LuftpdPath, MCLuftpdPath, LuftpdProofs

`ResultPath` is the loop of `luftpd_resolve_path`: a function from the number of
components read to the path built so far. `PathSpec` calls it once, with any
current directory and argument; `SessionSpec` is a session of
`luftpd_handle_cwd`, which stores the result minus the length of the root. The
reference definition `Meaning` keeps the names that no later `..` takes away
and uses neither the loop nor the root's length; `Climbs` says that a `..` has
no directory below the root to leave. `ResolvesMeaning` asks for the meaning of
every path that does not climb, for a refusal from outside the root, and for a
place in the root in any case; that a path that climbs is refused is
`ClimbingIsRefused`, which does not hold. The root `/` is a case of its
own in the code: the byte behind the prefix is then never a slash, so that
only `/` itself counts as a directory in it.

### LogServer, LogServerProofs, MCLogServer

`logd`: the array of clients, the acceptor that fills a slot in three writes
under `clients_lock` (`FillSlot`, `MarkSlot`, `CreateHandler`), the handlers,
which read and write their slot without it, and `dlt_server_stop`, which main
runs in a signal handler with the lock held. Descriptors are numbers: `Closed(n)`
closes what `n` stands for at that moment, and a thread that is in `recv()` or
`accept()` is not woken by it. An application that is refused sets `connected`
to 0 while its handler is still at work on the slot (`Refuse`); from then on two
handlers may share it, which is why `SlotsExclusive` is stated up to `refused`.
`ConnectedHasHandler` holds even then. The answer to a registered application is
never sent, because it cannot be serialised (see below), so `RecvFrame` goes
on without one. `Exit` is the end of main; that `dlt_server_destroy` frees the
server (`log_server.c:420`) while a handler that was not joined may still use
it, in the moments until the process is gone, is left out.

### BoundedFifo, LogClient, LogClientProofs, MCLogClient

A client behind a successful `dlt_init_client`: application threads in
`dlt_log_common`, the flush thread, the receiver thread, `dlt_free_client`, the
ring of `log_queue_enqueue`/`dequeue` with its condition, and the connection
pool. Init needs a server that answers 0x02, which the `logd` of this repository
never does (see below): the module is the library against a server that
conforms to what the client expects.

The flush thread takes its first log out of the ring and hands
`tlv_get_level` a NULL for the error (`log_cli_impl.c:163`), through which that
function reads without a test (`log_protocol.c:631`): the process ends
(`Dequeue`, `Extract`, `proc = "segv"`). A log whose level, message or time were
missing would be passed over, but `dlt_log_common` makes none of that kind. So
the batch frame, its serialisation and its sending behind that line are not
behaviours of the program, and not part of the model; what is left to check are
the interleavings in front of it, with any number of logs enqueued, sent past
the full queue or freed before the thread runs.

`UseAfterFree` is an application thread that goes on with a freed client, after
which nothing is promised; `SendFrame` has the SIGPIPE of a connection that the
server has closed. `BoundedFifo` is what the queue promises to these threads,
whoever they are: a first-in first-out buffer of bounded capacity, with no
ring, no indices, no lock and no condition. `QueueIsFifo` is the refinement,
under which `q` is the contents of the ring from its head (`InRing`).
`FreeReturnsOrQueueWaits` says that a flush thread that waits for a log is the
only thing that can keep `dlt_free_client` from returning.

### Lucfg, LucpdStart, LuftpdStart, MCAuxiliary

`Lucfg` is the library as operators: a file is a function from keys to values,
`Open` the set of results `lucfg_open` may have, and the getters return a code
and a value. Two things of the code decide what comes out. Every number is also
an expression for `try_eval_expr`, and the `break` of `CHECK_RANGE_EXPR` leaves
the loop of the macro instead of the getter, so every number ends as
`LUCFG_ERR_TYPE` (`GetNarrow`). And `parse_value` copies a quoted value out of
memory it has just freed, so that it may read as anything (`ParseValue`); a
value that came out empty is the one that gets through a getter of numbers, as
0.

`LucpdStart` goes through the command line option by option (`OptC`, `OptP`,
`ArgsError`, `ArgsDone`), loads the file and listens. `StartsAsAsked` compares
the outcome with a definition that reads the whole line at once
(`Options`, `LastOption`). `ConfigInRange` is what the other modules assume of
the configuration. `FileNumbersCount`, that a number of the file becomes the
setting, is what the repository says and the getter prevents.
`LuftpdStart` loads twice, as the code does: `main` from its argument and
`luftpd_start_server` from `/etc/luftpd.conf`, over the same global.
`ServedFromOneFile` says that the second load leaves nothing of the first,
whether or not it succeeds. It does not say that what main announced is what
is served: address and root directory differ (see below).

### LogFrame, RateLimit, LucpServerDemo, MCAuxiliary, AuxiliaryProofs

Three small modules; their theorems hold for every TLV length, hash function
and clock, and every sequence of frames. `AuxiliaryProofs` has their proofs and
those about `LucpRetry`, `LucpdStart` and `LuftpdStart`.
`LogFrame` is the length of a log frame from `log_frame_create` through
`log_frame_serialize` to `log_frame_parse`, 16 bits wide, with the byte order of
the machine as a constant. `RateLimit` is `check_rate_limit` with an arbitrary
hash function and a clock that may be set to anything. `GrantsSpaced` compares
the times of two grants; a second grant within the same second changes no
variable and is not told from none. No file of the repository calls the
function yet. `LucpServerDemo` is the demo server against a client that sends
any frames and closes or resets the connection at any time; a reply it could
not write is recorded as such, as in `Lucpd`.

## Runs

| Run | Question | Bounds, and why they suffice |
|---|---|---|
| `net` | Does lucplib implement a FIFO of frames over TCP? | header 2 bytes, text at most 1, buffer 4, three frames; texts 0 and 2 (truncated to 1). The buffer holds a frame and part of the next, a cut may fall inside every header, and a corrupted frame may precede and follow good ones. The proofs hold for all sizes. Deadlock is checked. |
| `lucpd_protocol` | What may a session do, whatever its client does? | one connection, two frames in flight out of seven kinds (good and bad version, both results good and failed, malformed), a close or a reset at any time: login and download result can be under way when the connection is reset in front of the notification. Sessions share nothing but the counter; a single connection is never refused (`OneClientNext`), `demo` has the refusals. |
| `demo` | Do client and daemon agree, and does the shared counter ever miscount? | two clients, one slot: one is served while the other is refused, the slot is freed and reused, or lost with a failed `pthread_create`; all statuses. The slot results are proved for any number of connections. |
| `luftpd` | Do moving entries and equal ids break the bound on threads? Is the result the meaning of the path? | two parts that share no state. Table: four clients on two entries: every entry is reused and moved; three different ids, so that two of the clients share one. Paths: every path of at most four components over three names, a missing name, `.` and `..`; root two levels deep, current directory inside and outside. |
| `ftp_table_leak` (violation) | Does every ended client leave the table? | three clients on two entries. |
| `ftp_session` | Are sockets leaked, commands left unanswered, threads stuck? | three sessions, three commands between them, a single port for all: the range is exhausted and raced for, by two sessions while the third has ended or is still to come; `EntriesMixed` is reached. |
| `ftp_path_climb` (violation) | Is a path that climbs above the root refused? | paths of two components. |
| `ftp_path_cwd` (violation) | Does `current_dir` name a directory below the root? | paths of two components. |
| `log_server` | Can a slot of logd lose its handler, or be shared? | three clients, two slots, three descriptors: slots and numbers are reused while earlier handlers are still at work, and a client is turned away; stop at any time. |
| `log_client` | Is the ring a bounded FIFO, is no wakeup missed, has a connection one user, does `dlt_free_client` return? | two application threads, a ring of two, four logs, two connections and a pool of one: the ring wraps and fills up, a log is sent past it, the pool overflows; `dlt_free_client` at any time. The flush thread takes one log at most. No symmetry, because the run checks liveness. |
| `auxiliary` | Is a foreign reply ever accepted, does the call with retries return? With which settings do the daemons run? Which frames does m_log accept from itself? Can an address come in twice within the limit? Does the demo server answer one request only? | Six parts that share no state; a behaviour is that of one of them (`part`), and the others stay as they are. Retries: two calls of two attempts: a late answer to each request of the first call can meet each attempt of the second. Start: command lines of up to four tokens out of both options, a good and a bad port, which are all orders and mistakes of two options; files of one line, each key with numbers in and out of its limits, a switch, text and quoted text, and no file at all. Frame: a little-endian machine; TLVs of 8221, 12000, 16445, 32768 and 65535 bytes make lengths that read the same in both byte orders and others, twice the length below and above the largest frame, the longest TLV and one that is too long. Rate limit: three addresses, two with one hash value; moments 0, 1, 3 and 4, that is less than, as far as and further apart than the limit, and backwards; any contents of the caller's array. Demo server: up to four frames, one more than it can take, of the three types it waits for under two numbers each and one of another type. |
| `lucpd_numbers` (violation) | Does a number of the file become the setting? | as `auxiliary`. |

Deadlock is switched off where the system may come to rest: all clients served,
or the process gone.

**Fairness.** Weak fairness of the threads of the program only: the scheduler
runs a thread that can run. `net` assumes a receiver that keeps calling
`lucp_net_recv` and a sender that goes on writing; `auxiliary` the steps of the
caller of `lucp_net_send_with_retries` (its other parts are checked for safety
only); `lucpd` main and each session; `ftp_session` a session's own steps except
`send()` of a transfer, which blocks for as long as the client does not read.
`log_client` the application threads, the flush and the receiver thread and the
thread in `dlt_free_client`, each on its own (WF); spurious wake-ups and the
start of new calls are not fair. `log_server` and `luftpd` check safety only.
Nothing is assumed of clients, of the clock or of signals. (A peer that never
answers is the case in which timeouts are to help.)

**Mutants.** Every property of a passing run has a mutated definition beside the
original, marked "Mutant:", under which TLC finds the property violated.

## Disagreements found

Four runs show behaviour that differs from what the repository says:

1. `ftp_table_leak`: after a compaction a thread's pointer leads to another
   client's entry; that one is closed and removed, and its own entry stays.
2. `ftp_path_cwd`: `current_dir` is stored relative to the root but resolved as a
   path of the machine, so unless the root is `/` every path command of a new
   session fails with 550.
3. `ftp_path_climb`: a path that climbs above the root is clamped to it and
   accepted; `test/test2.c:238-239`, on its copy of `luftpd_resolve_path`, asserts
   -1, and the comment at `luftpd_utils.c:237` announces the check that would
   refuse it. (The code has a comment on the clamping too, `luftpd_utils.c:256`.)
4. `lucpd_numbers`: no number in a configuration file has any effect, because of
   the `break` in `CHECK_RANGE_EXPR` (`lucfg.c:467`): `port`, `max_clients` and the
   timeouts of `lucpd.conf` and the ports of `luftpd.conf` keep their defaults, and
   only `-p` can change one. `lucfg.h:37` and `:46` promise integers.

Met while modelling, part of the models, without a run of their own:

* lucpd compares the session timeout only between two calls of a
  `lucp_net_recv` that blocks without a limit, and the receive timeout of its
  configuration (`lucpd_cfg.h:30`) is never set: a silent client keeps its slot.
  `TimeoutEndsSession` is stated up to that (`Idle`).
* If ACK and notification arrive in one `read()`, the second `select()` of the
  demo client looks at an empty socket, and the client reports a timeout while
  the notification is in its buffer (`SelectTimeout` with `crd > cgot`).
  `lucp_net_send_with_retries` overlooks a buffered reply in the same way.
* `lucp_net_send_with_retries` "supports retries and timeouts" (`lucp.h:110`), but
  the timeout is that of `select()` only: an interrupted `select()`, and a reply of
  which only a part has arrived, lead into a receive without one (`CallReturns` is
  stated up to that).
* The daemon and the demo server ignore the result of `lucp_net_send`
  (`lucpd.c:117`, `:155`, `lucp_server_demo.c:76`, `:86`). A client that sends
  request and results in one burst and closes with the ACK unread has its session
  COMPLETED without the notification having been written.
* A peer that closes early ends either daemon by SIGPIPE; `full_write` sees an
  error only on the first write after a reset, `luftpd_send_response` never looks.
* A failed `pthread_create` in lucpd is not noticed; its slot is never freed
  (`Orphans`).
* "Let threads finish" (`lucpd.c:332`): main sleeps one second and returns;
  sessions blocked in a receive are cut off.
* PASV can fail with a free port left, when another session listens first on
  the port both have bound.
* `log_server.c:395` says that closing the listening socket wakes `accept()`; it
  does not, so after a signal logd ends only when one more client connects, and
  `dlt_server_stop` waits with `clients_lock` held for handlers that are in
  `recv()`.
* The "thread that handles buffered logs" (`log_cli_impl.c:134`) ends the process
  at the first log it takes: `tlv_get_level(level_tlv, NULL)` at line 163 reads
  through the NULL (`log_protocol.c:631`).
* `dlt_free_client` joins the flush thread, which waits in `log_queue_dequeue`
  until a log comes: nothing tells it to stop, so without one the call does not
  return.
* A configuration response of logd lacks the TLV that its validation asks for
  (`log_protocol.c:501`), and `payload_len` is converted to network order on
  parsing (`:375`) but not on serialising (`:284`), so that `dlt_init_client`
  cannot succeed against this logd.
* More generally (theorem `FramesRarelyAccepted`), on a little-endian machine
  `log_frame_parse` accepts what `log_frame_serialize` made only if the length is
  a multiple of 257, and then reports twice that length, because
  `log_frame_add_tlv` counts each TLV a second time. `LogServer` and `LogClient`
  take the frames that pass as inputs; with the code as it stands those are
  frames of such lengths, or of big-endian machines.
* luftpd's texts are stored as the address of a string instead of its
  characters (`luftpd_cfg.c:18`), and the string is freed behind it; main's
  argument, the file it loads first, is replaced by `/etc/luftpd.conf`
  (`luftpd.c:425`) behind the line that announces its address and root directory
  (`luftpd.c:545`), and a file that cannot be loaded ends luftpd with status 0.

## Proofs

All are checked by tlapm; each holds for every value of the constants that
satisfies the named ASSUME of the module.

* **LucpNetProofs** (from `SizesAssumption`: a non-empty header and a buffer that
  holds the largest frame). `InOrder` is not inductive: nothing in it says where
  in the stream the receiver stands. `IInv` adds `Layout` (frames lie without
  gaps), `Progress`, `AtBoundary` (until a corruption is reported, `rbuf`
  begins exactly behind the last frame returned) and `RoomToRead` (before a
  `read()` less than a largest frame is buffered, hence `read()` is asked for at
  least one byte). `UnpackAtBoundary` is the key lemma: at a boundary
  `lucp_frame_unpack` tells incomplete, complete and malformed apart. From
  `IInv` follow `TypeOK`, `InOrder`, `BlameIsJustified`, `ClosedIsTrue`,
  `BlocksOnlyIfIncomplete`, and, step by step, the refinement
  `ImplementsChannel`.
* **LucpdProofs** (any finite set of connections, `MaxClients > 0`). `SlotInv`
  strengthens the bound on live threads with `CountMatches`, the exact relation
  between the count and the occupied slots including the moment between
  `pthread_create` and the increment, and `SlotsBounded`, which also counts the
  connections without a thread. From it follow `CountMatches`,
  `LiveSessionsBounded` and `RefusedOnlyIfFull`. The protocol results need
  `SessionInv`: `RepliesInOrder` says nothing of why a reply was sent, and
  `CompletedMeansUploaded` nothing of a session that is half way. `Progress` says
  for each state of a session which replies it has handed to `lucp_net_send` and
  which frames it has accepted, with the exception that makes it true: a session
  killed by SIGPIPE stands one state ahead of the notification it could not send.
  A reply that was not written, which the session does not notice, is allowed for
  only behind a reset. From it follow both, and `KilledOnlyByEarlyClose`.
* **LucpDemoProofs** (the same, with `DemoAssumption`). `DemoImplementsDaemon`
  shows first that the demo clients are clients of the daemon's specification, so
  that `SessionInv` holds here too. `DemoInv` adds four facts about each
  connection: `Script` (the frames the client sent, received or still under way,
  are a prefix of request, login result, download result, and their number says
  where the client is), `Told` (which replies it has been handed), `EndOpen` and
  `Over` (why a session is over, or failed). From it follow `CompletedAgreed`,
  `SuccessAgreed` and the action property `NoFrameDropped`.
* **LuftpdProofs**, the table (any finite set of clients). `TypeOK` says that no
  index or pointer leaves the table; `ThreadsCounted` is inductive with it: an
  ended thread removes at most one entry, whosesoever it is.
* **LuftpdProofs**, the paths (any set of directories without `.` and `..` in
  their names, any root and working directory among them, arguments of any
  length). `PathsAreResolved` is `ResolvesMeaning` for all of them; a path that
  does not climb has the same meaning counted from the root as counted from the
  current directory. The loop
  invariant is `ResultIsListed`: behind `n` components the result is the root
  followed by those names among them that no `..` up to `n` takes away, in their
  order. One component keeps it (`LoopStep`, `KeptNext`): `.` changes nothing, a
  name adds itself at the end, and `..` takes away exactly the last name that
  was kept, because that one and no earlier one has as many `..` as names behind
  it (`LastKept`, `EarlierKept`). `WalkListed` and `RootIsPrefix` compare that
  with the length the code tests, the root's. The induction over `n` is one on
  numbers and is done by a least counterexample; the library's induction
  theorem cannot be used here. `CwdsFail` is the violation of run `ftp_path_cwd`
  in general: with any root but `/`, every CWD of every session fails.
* **LuftpdSessionProofs** (any set of sessions, any range of ports above 0). The
  results hold up to `EntriesMixed`, the first step by which a compaction may give
  a session another's entry, which needs three sessions.
  `SessionOK` ties the three sockets and the replies of a session to its place;
  `NothingLeaks` and `AnsweredProperly` are what is left of it between commands.
  In the middle of a command it needs more: no data connection outside of a
  transfer, no reply before the handler's first, exactly `150` during the
  transfer, and that a session between `bind` and `listen` does not listen yet.
  That the search of `PasvBind` finds a first port rests on well-founded
  induction over the natural numbers.
* **LogServerProofs** (any number of connections, slots and descriptors).
  `ConnectedHasHandler` needs `AcceptorInv`: the lock is exclusive, and the
  connection in the acceptor's hands has no handler yet. `SlotsExclusive` needs
  `ExclusiveInv`: a live handler is the one stored in its slot, its socket is its
  own until it closes it, and every open descriptor is a handler's or the
  acceptor's; the slot the acceptor fills is nobody's. One lemma per part, one
  step per action.
* **LogClientProofs** (any set of application threads, any capacity of the ring and
  size of the pool). `RingEnqueue` and `RingDequeue` are
  the lemmas about the ring: for every position of the head, writing at `tail`
  appends to the logs between the two ends and reading at `head` takes the first
  one; `AcquireFacts` and `ReleaseFacts` are those about the pool. `ClientInv`
  has `RingOK` (`tail` is `head + count` round the ring), and strengthens
  `NoMissedWakeup` with what the flush thread knows at its places (`FlushOK`) and
  `ConnectionsExclusive` with `UsersOK`, which also covers
  connections that were never made and says at which places a thread holds one
  (`AppOK`, `RecvOK`). `QueueImplemented` is the refinement of `BoundedFifo`:
  enqueue and dequeue are its steps, `dlt_free_client` empties it, and every
  other step of any thread leaves its contents alone.
* **AuxiliaryProofs** (TLV lengths are 16-bit numbers, times are integers, no
  address is the empty string; any frames of the demo server's client; the types
  of files, tokens and bounds in the others). `AcceptedLengths` needs `FrameInv`, which relates the
  length in the header with the bytes left and skipped while parsing;
  `GrantsSpaced`, an action property, needs `RateInv`: the time stored for a hash
  value is that of the address remembered there. `AnswersItsRequest` needs
  `ServerInv`, which ties main's place to how much was taken and sent. `OwnReply`
  needs `RetryInv`, which ties the number of results to the number of calls, so
  that the n-th result is that of the n-th call whatever came late. For the start of lucpd,
  `OptionsRead(m)` says what the loop over the command line has established when
  it has read `m` options: all were good, and the path and the port are those of
  the last `-c` and `-p` among them or the defaults; once the loop is over no
  further option is good, so that these are the `Options` of the whole line.
  `SettingsInv` says what the settings are made of. Both start modules rest on
  `EntryFacts`, `NarrowFacts` and `BoolFacts`, which say what the getters of lucfg
  can return: a narrow getter succeeds only for a quoted value that was lost, and
  then returns 0, which no limit accepts. `FtpServesOneFile` needs no more than what
  each of the two loads leaves behind.

With TLC only: liveness (`Delivery`, `CallReturns`, `ClosedPeerEnds`,
`StopTerminates`, `TimeoutEndsSession`, `CommandEnds`,
`FreeReturnsOrQueueWaits`), which needs fairness and with it ENABLED. Every
invariant, action property and refinement of a passing run is stated by a
theorem.

By proof only: the type invariants of Lucpd, LuftpdSession, LogServer and
LogClient (`TypeCorrect`, `SessionTypeOK`, `ClientTypeOK`), which are part of the
inductive invariants and hold for all constants, so that no run repeats them.

## Not modelled

* The asynchronous sender of m_log (`log_protocol.c:945-1037`), which has no
  caller in the repository; the pool of its frame objects only saves
  allocations. What the TLVs of a log frame contain.
* The text processing of lucfg (comments, sections, the expression parser) is
  abstracted to its result; its getters for other types and the listing of
  sections and keys are not called by lucpd or luftpd.
* `logd_cfg.c`: logd's main overwrites the port it reads, whether an application
  is registered is a choice in LogServer, and the rest goes into a response that
  is never sent.
* Logging and printing; `simulate_delay`.
* In the models: the batch of the flush thread and its sending, behind the line at
  which the process ends; what two FTP sessions on one table entry do to each
  other's sockets; the content of texts, symbolic links, length limits of paths,
  several FTP commands in one `recv()`, and the text of replies.

## State of the project

Every module above is complete in the sense of its header, and every safety
property that a run checks is proved. What could follow, in this order: the
getters of lucfg that the daemons do not call; the asynchronous sender, once
something calls it; several FTP commands in one `recv()`.
