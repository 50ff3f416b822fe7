--------------------------- MODULE LuftpdSession ---------------------------
(***************************************************************************)
(* The command loop of luftpd_handle_client (luftpd/src/luftpd.c) with its *)
(* data connections: PASV, LIST and RETR, several sessions sharing the     *)
(* ports data_port_min .. data_port_max.  A command is handled by the      *)
(* session's thread alone, but two threads may be inside                   *)
(* luftpd_enter_pasv_mode at once.                                         *)
(*                                                                         *)
(* Whether the client's path leads to a directory or file, and whether it  *)
(* can be opened, is left open; module LuftpdPath is about the former.  A  *)
(* session works on its own entry of g_clients until another thread moves  *)
(* the entries (EntriesMixed): nothing is said about what follows, which   *)
(* is the subject of module LuftpdTable.                                   *)
(***************************************************************************)
EXTENDS Naturals, Sequences, FiniteSets, FiniteSetsExt

CONSTANTS
    Sessions,
    PortMin, PortMax,   \* config->data_port_min and data_port_max
    MaxCmds             \* bound: commands of all sessions

Ports == PortMin..PortMax

ASSUME SessionAssumption ==
    /\ PortMin \in Nat \ {0} /\ PortMax \in Nat /\ MaxCmds \in Nat

VARIABLES
    proc,        \* the daemon: "up", "sigpipe", or "mixed" (see EntriesMixed)
    pc,          \* where each thread is
    control,     \* control_sock: "open", "fin" or "rst" (its client has
                 \* gone), or "closed" by the daemon
    pasv,        \* pasv_sock: 0 for -1, or the port it is bound to
    listening,   \* the sessions whose pasv_sock listens
    dialled,     \* the sessions whose client has connected to that port
    data,        \* data_sock: "none", or how its peer is: "up", "fin", "rst"
    cmd,         \* the command being handled, or handled last
    replies,     \* history: the replies to it
    cmds         \* commands of all sessions so far

vars == <<proc, pc, control, pasv, listening, dialled, data, cmd, replies, cmds>>
sockVars == <<control, pasv, listening, dialled, data>>

Init ==
    /\ proc = "up"
    /\ pc = [s \in Sessions |-> "recv"]
    /\ control = [s \in Sessions |-> "open"]
    /\ pasv = [s \in Sessions |-> 0]
    /\ listening = {} /\ dialled = {}
    /\ data = [s \in Sessions |-> "none"]
    /\ cmd = [s \in Sessions |-> "CONNECT"]
    /\ replies = [s \in Sessions |-> <<"220">>]
    /\ cmds = 0
-----------------------------------------------------------------------------
At(s, place) == proc = "up" /\ pc[s] = place
GoTo(s, place) == pc' = [pc EXCEPT ![s] = place]

\* luftpd_send_response.  A client that has gone answers the first send() with
\* RST, and the next one raises SIGPIPE, which luftpd does not handle.
Respond(s, code) ==
    /\ replies' = [replies EXCEPT ![s] =
                     IF control[s] = "open" THEN Append(@, code) ELSE @]
    /\ control' = [control EXCEPT ![s] = IF @ = "fin" THEN "rst" ELSE @]
    /\ proc' = IF control[s] = "rst" THEN "sigpipe" ELSE proc

Silent == UNCHANGED <<replies, control, proc>>

\* recv() returns a command and luftpd_handle_client dispatches it.
Command(s, name) ==
    /\ At(s, "recv") /\ cmds < MaxCmds /\ control[s] # "rst"
    /\ cmd' = [cmd EXCEPT ![s] = name]
    /\ replies' = [replies EXCEPT ![s] = <<>>]
    /\ cmds' = cmds + 1
    /\ GoTo(s, name)
    /\ UNCHANGED <<proc, sockVars>>

\* The client closes the control connection, or is gone.
ControlPeerGone(s) ==
    /\ proc = "up" /\ control[s] = "open"
    /\ control' = [control EXCEPT ![s] = "fin"]
    /\ UNCHANGED <<proc, pc, pasv, listening, dialled, data, cmd, replies, cmds>>

\* recv() returns 0, or -1 if the connection is broken.
ControlLost(s) ==
    /\ At(s, "recv") /\ control[s] # "open"
    /\ GoTo(s, "close")
    /\ UNCHANGED <<proc, sockVars, cmd, replies, cmds>>

\* USER, PASS, SYST, FEAT, PWD, TYPE, CWD, SIZE and unknown commands change no
\* socket and are answered once.
Simple(s) ==
    /\ At(s, "SIMPLE")
    /\ Respond(s, "final")
    /\ GoTo(s, "recv")
    /\ UNCHANGED <<pasv, listening, dialled, data, cmd, cmds>>

\* FEAT, whose four replies find a client that has gone.
Feat(s) ==
    /\ At(s, "SIMPLE") /\ control[s] \in {"fin", "rst"}
    /\ proc' = "sigpipe"
    /\ UNCHANGED <<pc, sockVars, cmd, replies, cmds>>

Quit(s) ==
    /\ At(s, "QUIT")
    /\ Respond(s, "221")
    /\ GoTo(s, "close")
    /\ UNCHANGED <<pasv, listening, dialled, data, cmd, cmds>>
-----------------------------------------------------------------------------
(* luftpd_enter_pasv_mode.  With SO_REUSEADDR on both sockets, bind() only *)
(* fails on a port that somebody listens on, and listen() fails if another *)
(* socket bound to the port was faster.                                    *)

Taken == {pasv[s] : s \in listening}

\* The old socket is closed, a new one is bound to the first possible port.
PasvBind(s) ==
    /\ At(s, "PASV")
    /\ LET others == {pasv[t] : t \in listening \ {s}}
           free == Ports \ others
       IN  IF free = {} THEN pasv' = [pasv EXCEPT ![s] = 0] /\ GoTo(s, "recv")
           ELSE pasv' = [pasv EXCEPT ![s] = Min(free)] /\ GoTo(s, "listen")
    /\ listening' = listening \ {s}
    /\ dialled' = dialled \ {s}
    /\ UNCHANGED <<proc, control, data, cmd, replies, cmds>>

\* socket() fails: -1 is returned and nothing is sent.
PasvNoSocket(s) ==
    /\ At(s, "PASV")
    /\ pasv' = [pasv EXCEPT ![s] = 0]
    /\ listening' = listening \ {s}
    /\ dialled' = dialled \ {s}
    /\ GoTo(s, "recv")
    /\ UNCHANGED <<proc, control, data, cmd, replies, cmds>>

PasvListen(s) ==
    /\ At(s, "listen") /\ pasv[s] \notin Taken
    /\ listening' = listening \cup {s}
    /\ Respond(s, "227")
    /\ GoTo(s, "recv")
    /\ UNCHANGED <<pasv, dialled, data, cmd, cmds>>

PasvListenFails(s) ==
    /\ At(s, "listen") /\ pasv[s] \in Taken
    /\ pasv' = [pasv EXCEPT ![s] = 0]
    /\ GoTo(s, "recv")
    /\ UNCHANGED <<proc, control, listening, dialled, data, cmd, replies, cmds>>

\* The client connects to the port it was told.
Dial(s) ==
    /\ proc = "up" /\ s \in listening \ dialled
    /\ dialled' = dialled \cup {s}
    /\ UNCHANGED <<proc, pc, control, pasv, listening, data, cmd, replies, cmds>>
-----------------------------------------------------------------------------
(* luftpd_handle_list and luftpd_handle_retr.                              *)

\* Mutant: no return behind the 425.
LookupNoReturn(s) ==
    /\ At(s, "TRANSFER")
    /\ IF pasv[s] = 0 THEN Respond(s, "425") ELSE Silent
    /\ GoTo(s, "select")
    /\ UNCHANGED <<pasv, listening, dialled, data, cmd, cmds>>

\* The path resolves to something that exists, and a data connection needs a
\* PASV before it.
Lookup(s) ==
    /\ At(s, "TRANSFER")
    /\ IF pasv[s] = 0 THEN Respond(s, "425") /\ GoTo(s, "recv")
                      ELSE Silent /\ GoTo(s, "select")
    /\ UNCHANGED <<pasv, listening, dialled, data, cmd, cmds>>

\* It does not, or nothing is there.
LookupFails(s) ==
    /\ At(s, "TRANSFER")
    /\ Respond(s, "550")
    /\ GoTo(s, "recv")
    /\ UNCHANGED <<pasv, listening, dialled, data, cmd, cmds>>

\* Mutant: select() is called without a timeout.
SelectNoTimeout(s) == At(s, "select") /\ s \notin dialled /\ UNCHANGED vars

\* lufptd_create_data_connection: nobody connects within 10 seconds.
SelectTimeout(s) ==
    /\ At(s, "select") /\ s \notin dialled
    /\ Respond(s, "425")
    /\ GoTo(s, "recv")
    /\ UNCHANGED <<pasv, listening, dialled, data, cmd, cmds>>

StopListening(s) ==
    /\ pasv' = [pasv EXCEPT ![s] = 0]
    /\ listening' = listening \ {s}
    /\ dialled' = dialled \ {s}

AcceptData(s) ==
    /\ At(s, "select") /\ s \in dialled
    /\ StopListening(s)
    /\ data' = [data EXCEPT ![s] = "up"]
    /\ Respond(s, "150")
    /\ GoTo(s, "open")
    /\ UNCHANGED <<cmd, cmds>>

\* accept() fails after all.
AcceptDataFails(s) ==
    /\ At(s, "select") /\ s \in dialled
    /\ StopListening(s)
    /\ Respond(s, "425")
    /\ GoTo(s, "recv")
    /\ UNCHANGED <<data, cmd, cmds>>

Open(s) ==
    /\ At(s, "open")
    /\ GoTo(s, "send")
    /\ UNCHANGED <<proc, sockVars, cmd, replies, cmds>>

\* lufptd_close_client.
CloseClient(s) ==
    /\ control' = [control EXCEPT ![s] = "closed"]
    /\ data' = [data EXCEPT ![s] = "none"]
    /\ StopListening(s)

\* opendir() or fopen() fails: the whole client is closed first, so that the
\* 550 goes nowhere and the loop ends.
OpenFails(s) ==
    /\ At(s, "open")
    /\ CloseClient(s)
    /\ GoTo(s, "close")
    /\ UNCHANGED <<proc, cmd, replies, cmds>>

\* send() on the data connection; a peer that has gone answers the first one
\* with RST, and the next one raises SIGPIPE.
Send(s) ==
    /\ At(s, "send")
    /\ data' = [data EXCEPT ![s] = IF @ = "up" THEN "up" ELSE "rst"]
    /\ proc' = IF data[s] = "rst" THEN "sigpipe" ELSE "up"
    /\ UNCHANGED <<pc, control, pasv, listening, dialled, cmd, replies, cmds>>

DataPeerGone(s) ==
    /\ proc = "up" /\ data[s] = "up"
    /\ data' = [data EXCEPT ![s] = "fin"]
    /\ UNCHANGED <<proc, pc, control, pasv, listening, dialled, cmd, replies, cmds>>

\* Mutant: data_sock is not closed behind the last send().
TransferDoneKeepsData(s) ==
    /\ At(s, "send")
    /\ Respond(s, "226")
    /\ GoTo(s, "recv")
    /\ UNCHANGED <<pasv, listening, dialled, data, cmd, cmds>>

\* Everything was sent, or (RETR) a send() failed: 226 in either case.
TransferDone(s) ==
    /\ At(s, "send")
    /\ data' = [data EXCEPT ![s] = "none"]
    /\ Respond(s, "226")
    /\ GoTo(s, "recv")
    /\ UNCHANGED <<pasv, listening, dialled, cmd, cmds>>

\* Behind the loop.
CleanUp(s) ==
    /\ At(s, "close")
    /\ CloseClient(s)
    /\ GoTo(s, "done")
    /\ UNCHANGED <<proc, cmd, replies, cmds>>

\* A session that has ended has taken an entry out of g_clients and moved those
\* behind it.  With two more sessions, there already or still to come, one may
\* now find the contents of another's entry in its own, or have it cleared for
\* a new client.
EntriesMixed ==
    /\ proc = "up" /\ \E s \in Sessions : pc[s] = "done"
    /\ \E s, t \in Sessions : s # t /\ pc[s] # "done" /\ pc[t] # "done"
    /\ proc' = "mixed"
    /\ UNCHANGED <<pc, sockVars, cmd, replies, cmds>>
-----------------------------------------------------------------------------
Work(s) ==
    \/ Simple(s) \/ Quit(s)
    \/ PasvBind(s) \/ PasvListen(s) \/ PasvListenFails(s)
    \/ Lookup(s) \/ LookupFails(s) \/ SelectTimeout(s)
    \/ AcceptData(s) \/ AcceptDataFails(s)
    \/ Open(s) \/ OpenFails(s) \/ CleanUp(s)

Client(s) ==
    \/ \E name \in {"SIMPLE", "QUIT", "PASV", "TRANSFER"} : Command(s, name)
    \/ ControlPeerGone(s) \/ ControlLost(s) \/ Dial(s) \/ DataPeerGone(s)

Next ==
    \/ \E s \in Sessions :
         Work(s) \/ Client(s) \/ Feat(s) \/ PasvNoSocket(s) \/ Send(s) \/ TransferDone(s)
    \/ EntriesMixed

\* Threads run.  Only a transfer may take forever: send() blocks if the client
\* does not read its data connection.
Fairness == \A s \in Sessions : WF_vars(Work(s))

Spec == Init /\ [][Next]_vars /\ Fairness
-----------------------------------------------------------------------------
TypeOK ==
    /\ proc \in {"up", "sigpipe", "mixed"}
    /\ pc \in [Sessions -> {"recv", "SIMPLE", "QUIT", "PASV", "listen", "TRANSFER",
                            "select", "open", "send", "close", "done"}]
    /\ control \in [Sessions -> {"open", "fin", "rst", "closed"}]
    /\ pasv \in [Sessions -> Ports \cup {0}]
    /\ dialled \subseteq listening /\ listening \subseteq Sessions
    /\ data \in [Sessions -> {"none", "up", "fin", "rst"}]
    /\ cmd \in [Sessions -> {"CONNECT", "SIMPLE", "QUIT", "PASV", "TRANSFER"}]
    /\ cmds \in 0..MaxCmds

\* Descriptors and ports are not leaked, whatever path the handlers take:
\* between two commands there is no data connection, a port is held only by
\* a session that listens on it or is about to, and a session that has ended
\* holds nothing.
NothingLeaks ==
    \A s \in Sessions :
        /\ pc[s] \in {"recv", "SIMPLE", "PASV", "TRANSFER"} => data[s] = "none"
        /\ pasv[s] # 0 <=> s \in listening \/ pc[s] = "listen"
        /\ pc[s] = "done" => control[s] = "closed" /\ data[s] = "none" /\ pasv[s] = 0

\* Between two commands the client has got the replies FTP asks for: one
\* reply, after 150 a second one, and none at all only to a PASV that failed.
AnsweredProperly ==
    \A s \in Sessions : pc[s] = "recv" /\ control[s] = "open" =>
        \/ replies[s] \in {<<"220">>, <<"final">>, <<"550">>, <<"425">>,
                           <<"150", "226">>}
        \/ cmd[s] = "PASV" /\ replies[s] = <<"227">> /\ s \in listening
        \/ cmd[s] = "PASV" /\ replies[s] = <<>> /\ pasv[s] = 0

\* Up to the transfer itself no command hangs: the session returns to its
\* client, ends or begins to send, although it waits for a data connection
\* that the client may never make.
CommandEnds ==
    \A s \in Sessions :
        pc[s] # "recv" ~> pc[s] \in {"recv", "done", "send"} \/ proc # "up"
=============================================================================
