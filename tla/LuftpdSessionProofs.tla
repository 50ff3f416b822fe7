------------------------ MODULE LuftpdSessionProofs ------------------------
(***************************************************************************)
(* Proofs about the FTP sessions: no descriptor and no port is leaked, and *)
(* every command is answered the way FTP asks for.  After EntriesMixed no  *)
(* step is left, so that every statement is about the time before the first *)
(* thread can work on the entry of another; with two sessions that is      *)
(* always, for that step needs three.                                      *)
(***************************************************************************)
EXTENDS LuftpdSession, SequenceTheorems, WellFoundedInduction, TLAPS

\* What holds of one session besides its types.  There is a data connection
\* only during a transfer, a port is held by a session that listens or is
\* about to, and the replies are those of the place the handler has reached.
SessionOK(s) ==
    /\ pc[s] \notin {"open", "send"} => data[s] = "none"
    /\ pasv[s] # 0 <=> s \in listening \/ pc[s] = "listen"
    /\ pc[s] = "listen" => s \notin listening
    /\ control[s] = "closed" => pc[s] \in {"close", "done"}
    /\ pc[s] = "done" => control[s] = "closed" /\ pasv[s] = 0
    /\ pc[s] \in {"PASV", "listen"} => cmd[s] = "PASV"
    /\ control[s] = "open" =>
         /\ pc[s] \in {"SIMPLE", "QUIT", "PASV", "listen", "TRANSFER", "select"} =>
              replies[s] = <<>>
         /\ pc[s] \in {"open", "send"} => replies[s] = <<"150">>
         /\ pc[s] = "recv" =>
              \/ replies[s] \in {<<"220">>, <<"final">>, <<"550">>, <<"425">>,
                                 <<"150", "226">>}
              \/ cmd[s] = "PASV" /\ replies[s] = <<"227">> /\ s \in listening
              \/ cmd[s] = "PASV" /\ replies[s] = <<>> /\ pasv[s] = 0

Codes == {"220", "221", "final", "227", "425", "550", "150", "226"}

Typed == TypeOK /\ replies \in [Sessions -> Seq(Codes)]

SessionInv == Typed /\ \A s \in Sessions : SessionOK(s)
-----------------------------------------------------------------------------
\* A set of ports has a first one.
LEMMA FirstPort ==
    ASSUME NEW S, S \subseteq Nat, S # {}
    PROVE  Min(S) \in S
  <1> DEFINE R == OpToRel(<, Nat)
  <1>1. IsWellFoundedOn(R, Nat)
    BY NatLessThanWellFounded
  <1>2. \A x, y \in Nat : x < y => <<x, y>> \in R
    BY DEF OpToRel
  <1> HIDE DEF R
  <1>3. PICK x \in S : \A y \in S : ~(<<y, x>> \in R)
    BY <1>1, WFMin
  <1>4. ASSUME NEW y \in S PROVE x <= y
    <2>1. x \in Nat /\ y \in Nat /\ ~(y < x)
      BY <1>2, <1>3
    <2>2. QED
      BY <2>1
  <1>5. QED
    BY <1>4 DEF Min

LEMMA RespondFacts ==
    ASSUME Typed, NEW s \in Sessions, NEW code \in Codes, Respond(s, code), proc = "up"
    PROVE  /\ proc' \in {"up", "sigpipe"}
           /\ control' \in [Sessions -> {"open", "fin", "rst", "closed"}]
           /\ replies' \in [Sessions -> Seq(Codes)]
           /\ control'[s] = "open" <=> control[s] = "open"
           /\ control'[s] = "closed" <=> control[s] = "closed"
           /\ control[s] = "open" => replies'[s] = Append(replies[s], code)
           /\ \A t \in Sessions : t # s => control'[t] = control[t] /\ replies'[t] = replies[t]
  <1>1. /\ control \in [Sessions -> {"open", "fin", "rst", "closed"}]
        /\ replies \in [Sessions -> Seq(Codes)]
    BY DEF Typed, TypeOK
  <1>2. /\ control' \in [Sessions -> {"open", "fin", "rst", "closed"}]
        /\ control'[s] = "open" <=> control[s] = "open"
        /\ control'[s] = "closed" <=> control[s] = "closed"
        /\ \A t \in Sessions : t # s => control'[t] = control[t]
    <2>1. CASE control[s] = "fin"
      BY <1>1, <2>1 DEF Respond
    <2>2. CASE control[s] # "fin"
      BY <1>1, <2>2 DEF Respond
    <2>3. QED
      BY <2>1, <2>2
  <1>3. /\ replies' \in [Sessions -> Seq(Codes)]
        /\ control[s] = "open" => replies'[s] = Append(replies[s], code)
        /\ \A t \in Sessions : t # s => replies'[t] = replies[t]
    <2>1. CASE control[s] = "open"
      <3>1. /\ replies' = [replies EXCEPT ![s] = Append(replies[s], code)]
            /\ Append(replies[s], code) \in Seq(Codes)
        BY <1>1, <2>1 DEF Respond
      <3>2. QED
        BY <1>1, <3>1
    <2>2. CASE control[s] # "open"
      <3>1. replies' = [replies EXCEPT ![s] = replies[s]]
        BY <1>1, <2>2 DEF Respond
      <3>2. QED
        BY <1>1, <2>2, <3>1
    <2>3. QED
      BY <2>1, <2>2
  <1>4. proc' \in {"up", "sigpipe"}
    BY DEF Respond
  <1>5. QED
    BY <1>2, <1>3, <1>4

\* A second reply to a command.
LEMMA TwoReplies ==
    ASSUME NEW a \in Codes, NEW b \in Codes
    PROVE  Append(<<a>>, b) = <<a, b>>
  <1> DEFINE q == Append(<<a>>, b)
             r == <<a, b>>
  <1>1. <<a>> \in Seq(Codes) /\ Len(<<a>>) = 1 /\ <<a>>[1] = a
    OBVIOUS
  <1>2. q \in Seq(Codes) /\ Len(q) = 2 /\ q[1] = a /\ q[2] = b
    BY <1>1, AppendProperties
  <1>3. r \in Seq(Codes) /\ Len(r) = 2 /\ r[1] = a /\ r[2] = b
    OBVIOUS
  <1> HIDE DEF q, r
  <1>4. \A j \in 1..2 : q[j] = r[j]
    BY <1>2, <1>3
  <1>5. q = r
    BY <1>2, <1>3, <1>4, SeqEqual
  <1>6. QED
    BY <1>5 DEF q, r

LEMMA SessionInit == Init => SessionInv
  <1> SUFFICES ASSUME Init PROVE SessionInv
    OBVIOUS
  <1>1. Typed
    <2>1. replies \in [Sessions -> Seq(Codes)]
      <3>1. <<"220">> \in Seq(Codes)
        BY DEF Codes
      <3>2. QED
        BY <3>1 DEF Init
    <2>2. cmds \in 0..MaxCmds
      BY SessionAssumption DEF Init
    <2>3. QED
      BY <2>1, <2>2 DEF Init, Typed, TypeOK
  <1>2. \A s \in Sessions : SessionOK(s)
    BY DEF Init, SessionOK
  <1>3. QED
    BY <1>1, <1>2 DEF SessionInv

\* A session that a step does not touch.
Untouched(t) ==
    /\ pc'[t] = pc[t] /\ control'[t] = control[t] /\ pasv'[t] = pasv[t]
    /\ t \in listening' <=> t \in listening
    /\ data'[t] = data[t] /\ cmd'[t] = cmd[t] /\ replies'[t] = replies[t]

LEMMA UntouchedStays ==
    ASSUME NEW t \in Sessions, SessionOK(t), Untouched(t)
    PROVE  SessionOK(t)'
  BY DEF SessionOK, Untouched

\* What a step of session s has to keep.
Kept(s) == Typed' /\ SessionOK(s)' /\ \A t \in Sessions : t # s => Untouched(t)

Places == {"recv", "SIMPLE", "QUIT", "PASV", "listen", "TRANSFER", "select", "open",
           "send", "close", "done"}
Commands == {"CONNECT", "SIMPLE", "QUIT", "PASV", "TRANSFER"}

LEMMA TypesOf ==
    ASSUME SessionInv
    PROVE  /\ proc \in {"up", "sigpipe", "mixed"}
           /\ pc \in [Sessions -> Places]
           /\ control \in [Sessions -> {"open", "fin", "rst", "closed"}]
           /\ pasv \in [Sessions -> Ports \cup {0}]
           /\ dialled \subseteq listening /\ listening \subseteq Sessions
           /\ data \in [Sessions -> {"none", "up", "fin", "rst"}]
           /\ cmd \in [Sessions -> Commands]
           /\ cmds \in 0..MaxCmds
           /\ replies \in [Sessions -> Seq(Codes)]
  BY DEF SessionInv, Typed, TypeOK, Places, Commands

\* recv() returns a command.
LEMMA CommandKeeps ==
    ASSUME SessionInv, NEW s \in Sessions,
           NEW name \in {"SIMPLE", "QUIT", "PASV", "TRANSFER"}, Command(s, name)
    PROVE  Kept(s)
  <1>1. /\ pc[s] = "recv" /\ pc' = [pc EXCEPT ![s] = name]
        /\ cmd' = [cmd EXCEPT ![s] = name] /\ replies' = [replies EXCEPT ![s] = <<>>]
        /\ cmds' = cmds + 1 /\ cmds < MaxCmds
        /\ proc' = proc /\ control' = control /\ pasv' = pasv /\ listening' = listening
        /\ dialled' = dialled /\ data' = data
    BY DEF Command, At, GoTo, sockVars
  <1>2. Typed'
    <2>2. cmds' \in 0..MaxCmds
      BY <1>1, TypesOf, SessionAssumption
    <2>3. replies' \in [Sessions -> Seq(Codes)]
      BY <1>1, TypesOf
    <2>4. QED
      BY <1>1, <2>2, <2>3, TypesOf DEF Typed, TypeOK, Places, Commands
  <1>3. \A t \in Sessions : t # s => Untouched(t)
    BY <1>1, TypesOf DEF Untouched
  <1>4. /\ pc'[s] = name /\ cmd'[s] = name /\ replies'[s] = <<>>
        /\ control'[s] = control[s] /\ pasv'[s] = pasv[s] /\ data'[s] = data[s]
    BY <1>1, TypesOf
  <1>5. SessionOK(s)
    BY DEF SessionInv
  <1>6. SessionOK(s)'
    BY <1>1, <1>4, <1>5 DEF SessionOK
  <1>7. QED
    BY <1>2, <1>3, <1>6 DEF Kept

\* The steps of the client and of the thread that send nothing.
LEMMA QuietKeeps ==
    ASSUME SessionInv, NEW s \in Sessions,
           \/ ControlPeerGone(s) \/ ControlLost(s) \/ Dial(s) \/ DataPeerGone(s)
           \/ Open(s) \/ Send(s)
    PROVE  Kept(s)
  <1>1. SessionOK(s)
    BY DEF SessionInv
  <1>2. CASE ControlPeerGone(s)
    <2>1. /\ control[s] = "open" /\ control' = [control EXCEPT ![s] = "fin"]
          /\ proc' = proc /\ pc' = pc /\ pasv' = pasv /\ listening' = listening
          /\ dialled' = dialled /\ data' = data /\ cmd' = cmd
          /\ replies' = replies /\ cmds' = cmds
      BY <1>2 DEF ControlPeerGone
    <2>2. Typed'
      BY <2>1, TypesOf DEF Typed, TypeOK, Places, Commands
    <2>3. control'[s] = "fin" /\ \A t \in Sessions : t # s => Untouched(t)
      BY <2>1, TypesOf DEF Untouched
    <2>4. SessionOK(s)'
      BY <1>1, <2>1, <2>3 DEF SessionOK
    <2>5. QED
      BY <2>2, <2>3, <2>4 DEF Kept
  <1>3. CASE ControlLost(s) \/ Open(s)
    <2>1. PICK place \in {"close", "send"} :
            /\ pc' = [pc EXCEPT ![s] = place]
            /\ \/ pc[s] = "recv" /\ place = "close"
               \/ pc[s] = "open" /\ place = "send"
      BY <1>3 DEF ControlLost, Open, At, GoTo
    <2>2. /\ proc' = proc /\ control' = control /\ pasv' = pasv /\ listening' = listening
          /\ dialled' = dialled /\ data' = data /\ cmd' = cmd
          /\ replies' = replies /\ cmds' = cmds
      BY <1>3 DEF ControlLost, Open, sockVars
    <2>3. Typed'
      BY <2>1, <2>2, TypesOf DEF Typed, TypeOK, Places, Commands
    <2>4. pc'[s] = place /\ \A t \in Sessions : t # s => Untouched(t)
      BY <2>1, <2>2, TypesOf DEF Untouched
    <2>5. SessionOK(s)'
      <3>1. CASE pc[s] = "recv" /\ place = "close"
        BY <1>1, <2>2, <2>4, <3>1 DEF SessionOK
      <3>2. CASE pc[s] = "open" /\ place = "send"
        BY <1>1, <2>2, <2>4, <3>2 DEF SessionOK
      <3>3. QED
        BY <2>1, <3>1, <3>2
    <2>6. QED
      BY <2>3, <2>4, <2>5 DEF Kept
  <1>4. CASE Dial(s)
    <2>1. /\ s \in listening /\ dialled' = dialled \cup {s} /\ proc' = proc /\ pc' = pc
          /\ control' = control /\ pasv' = pasv /\ listening' = listening /\ data' = data
          /\ cmd' = cmd /\ replies' = replies /\ cmds' = cmds
      BY <1>4 DEF Dial
    <2>2. Typed'
      BY <2>1, TypesOf DEF Typed, TypeOK, Places, Commands
    <2>3. \A t \in Sessions : t # s => Untouched(t)
      BY <2>1 DEF Untouched
    <2>4. SessionOK(s)'
      BY <1>1, <2>1 DEF SessionOK
    <2>5. QED
      BY <2>2, <2>3, <2>4 DEF Kept
  <1>5. CASE DataPeerGone(s) \/ Send(s)
    <2>1. /\ proc' \in {"up", "sigpipe"} /\ pc' = pc
          /\ control' = control /\ pasv' = pasv /\ listening' = listening
          /\ dialled' = dialled /\ cmd' = cmd /\ replies' = replies
          /\ cmds' = cmds
      BY <1>5, TypesOf DEF DataPeerGone, Send
    <2>2. PICK d \in {"up", "fin", "rst"} : data' = [data EXCEPT ![s] = d]
      <3>1. CASE DataPeerGone(s)
        BY <3>1 DEF DataPeerGone
      <3>2. CASE Send(s) /\ data[s] = "up"
        BY <3>2 DEF Send
      <3>3. CASE Send(s) /\ data[s] # "up"
        BY <3>3 DEF Send
      <3>4. QED
        BY <1>5, <3>1, <3>2, <3>3
    <2>3. Typed'
      BY <2>1, <2>2, TypesOf DEF Typed, TypeOK, Places, Commands
    <2>4. \A t \in Sessions : t # s => Untouched(t)
      BY <2>1, <2>2, TypesOf DEF Untouched
    <2>5. pc[s] \in {"open", "send"}
      BY <1>1, <1>5 DEF SessionOK, DataPeerGone, Send, At
    <2>6. SessionOK(s)'
      BY <1>1, <2>1, <2>5 DEF SessionOK
    <2>7. QED
      BY <2>3, <2>4, <2>6 DEF Kept
  <1>6. QED
    BY <1>2, <1>3, <1>4, <1>5

\* A command that is answered and touches no data connection.
LEMMA AnswerKeeps ==
    ASSUME SessionInv, NEW s \in Sessions,
           NEW code \in Codes, NEW place \in Places, proc = "up",
           Respond(s, code), pc' = [pc EXCEPT ![s] = place],
           UNCHANGED <<pasv, listening, dialled, data, cmd, cmds>>,
           control[s] = "open" => replies[s] = <<>>,
           pc[s] \notin {"listen", "open", "send"}, control[s] # "closed",
           \/ place = "recv" /\ code \in {"final", "550", "425"}
           \/ place = "close"
    PROVE  Kept(s)
  <1>1. /\ proc' \in {"up", "sigpipe"}
        /\ control' \in [Sessions -> {"open", "fin", "rst", "closed"}]
        /\ replies' \in [Sessions -> Seq(Codes)]
        /\ control'[s] = "open" <=> control[s] = "open"
        /\ control'[s] = "closed" <=> control[s] = "closed"
        /\ control[s] = "open" => replies'[s] = Append(replies[s], code)
        /\ \A t \in Sessions : t # s => control'[t] = control[t] /\ replies'[t] = replies[t]
    BY RespondFacts DEF SessionInv
  <1>2. /\ pasv' = pasv /\ listening' = listening /\ dialled' = dialled /\ data' = data
        /\ cmd' = cmd /\ cmds' = cmds
    OBVIOUS
  <1>3. Typed'
    BY <1>1, <1>2, TypesOf DEF Typed, TypeOK, Places, Commands
  <1>4. pc'[s] = place /\ \A t \in Sessions : t # s => Untouched(t)
    BY <1>1, <1>2, TypesOf DEF Untouched
  <1>5. SessionOK(s)
    BY DEF SessionInv
  <1>6. control[s] = "open" => replies'[s] = <<code>>
    BY <1>1
  <1>7. SessionOK(s)'
    <2>1. CASE place = "close"
      BY <1>1, <1>2, <1>4, <1>5, <2>1 DEF SessionOK
    <2>2. CASE place = "recv" /\ code \in {"final", "550", "425"}
      BY <1>1, <1>2, <1>4, <1>5, <1>6, <2>2 DEF SessionOK
    <2>3. QED
      BY <2>1, <2>2
  <1>8. QED
    BY <1>3, <1>4, <1>7 DEF Kept

\* Simple commands, QUIT, and a transfer that is refused or not dialled.
LEMMA SimpleKeeps ==
    ASSUME SessionInv, NEW s \in Sessions,
           Simple(s) \/ Quit(s) \/ Lookup(s) \/ LookupFails(s) \/ SelectTimeout(s)
    PROVE  Kept(s)
  <1>1. SessionOK(s)
    BY DEF SessionInv
  <1>2. /\ proc = "up" /\ pc[s] \in {"SIMPLE", "QUIT", "TRANSFER", "select"}
        /\ UNCHANGED <<pasv, listening, dialled, data, cmd, cmds>>
    BY DEF Simple, Quit, Lookup, LookupFails, SelectTimeout, At
  <1>3. control[s] # "closed" /\ (control[s] = "open" => replies[s] = <<>>)
    BY <1>1, <1>2 DEF SessionOK
  <1>4. ASSUME NEW code \in Codes, NEW place \in Places, Respond(s, code),
               pc' = [pc EXCEPT ![s] = place],
               \/ place = "recv" /\ code \in {"final", "550", "425"}
               \/ place = "close"
        PROVE  Kept(s)
    <2>1. pc[s] \notin {"listen", "open", "send"}
      BY <1>2
    <2>2. QED
      BY <1>2, <1>3, <1>4, <2>1, AnswerKeeps
  <1>5. /\ {"final", "550", "425", "221"} \subseteq Codes
        /\ {"recv", "close", "select"} \subseteq Places
    BY DEF Codes, Places
  <1>6. CASE Simple(s)
    BY <1>4, <1>5, <1>6 DEF Simple, GoTo
  <1>7. CASE Quit(s)
    BY <1>4, <1>5, <1>7 DEF Quit, GoTo
  <1>8. CASE SelectTimeout(s)
    BY <1>4, <1>5, <1>8 DEF SelectTimeout, GoTo
  <1>9. CASE Lookup(s)
    <2>2. CASE pasv[s] = 0
      BY <1>4, <1>5, <1>9, <2>2 DEF Lookup, GoTo
    <2>3. CASE pasv[s] # 0
      <3>1. /\ pc' = [pc EXCEPT ![s] = "select"] /\ pc[s] = "TRANSFER"
            /\ replies' = replies /\ control' = control /\ proc' = proc
        BY <1>9, <2>3 DEF Lookup, GoTo, Silent, At
      <3>2. /\ pasv' = pasv /\ listening' = listening /\ dialled' = dialled
            /\ data' = data /\ cmd' = cmd /\ cmds' = cmds
        BY <1>2
      <3>3. Typed'
        BY <3>1, <3>2, TypesOf DEF Typed, TypeOK, Places, Commands
      <3>4. pc'[s] = "select" /\ \A t \in Sessions : t # s => Untouched(t)
        BY <3>1, <3>2, TypesOf DEF Untouched
      <3>5. SessionOK(s)'
        BY <1>1, <3>1, <3>2, <3>4 DEF SessionOK
      <3>6. QED
        BY <3>3, <3>4, <3>5 DEF Kept
    <2>4. QED
      BY <2>2, <2>3
  <1>10. CASE LookupFails(s)
    BY <1>4, <1>5, <1>10 DEF LookupFails, GoTo
  <1>11. QED
    BY <1>6, <1>7, <1>8, <1>9, <1>10

\* A PASV that binds or fails.
LEMMA PasvKeeps ==
    ASSUME SessionInv, NEW s \in Sessions,
           PasvBind(s) \/ PasvNoSocket(s) \/ PasvListenFails(s)
    PROVE  Kept(s)
  <1>1. SessionOK(s)
    BY DEF SessionInv
  <1>2. /\ proc' = proc /\ control' = control /\ data' = data /\ cmd' = cmd
        /\ replies' = replies /\ cmds' = cmds
        /\ pc[s] \in {"PASV", "listen"}
    BY DEF PasvBind, PasvNoSocket, PasvListenFails, At
  <1>3. PICK port \in Ports \cup {0}, place \in {"recv", "listen"} :
          /\ pasv' = [pasv EXCEPT ![s] = port] /\ pc' = [pc EXCEPT ![s] = place]
          /\ port # 0 <=> place = "listen"
    <2>1. CASE PasvNoSocket(s) \/ PasvListenFails(s)
      <3>1. pasv' = [pasv EXCEPT ![s] = 0] /\ pc' = [pc EXCEPT ![s] = "recv"]
        BY <2>1 DEF PasvNoSocket, PasvListenFails, GoTo
      <3>2. QED
        BY <3>1
    <2>2. CASE PasvBind(s)
      <3> DEFINE free == Ports \ {pasv[t] : t \in listening \ {s}}
      <3>1. CASE free = {}
        <4>1. pasv' = [pasv EXCEPT ![s] = 0] /\ pc' = [pc EXCEPT ![s] = "recv"]
          BY <2>2, <3>1 DEF PasvBind, GoTo
        <4>2. QED
          BY <4>1
      <3>2. CASE free # {}
        <4>1. pasv' = [pasv EXCEPT ![s] = Min(free)] /\ pc' = [pc EXCEPT ![s] = "listen"]
          BY <2>2, <3>2 DEF PasvBind, GoTo
        <4>2. free \subseteq Ports /\ Ports \subseteq Nat /\ 0 \notin Ports
          BY SessionAssumption DEF Ports
        <4>3. Min(free) \in Ports /\ Min(free) # 0
          <5>1. free \subseteq Nat
            BY <4>2
          <5> HIDE DEF free
          <5>2. Min(free) \in free
            BY <3>2, <5>1, FirstPort
          <5>3. QED
            BY <4>2, <5>2
        <4>4. QED
          BY <4>1, <4>3
      <3>3. QED
        BY <3>1, <3>2
    <2>3. QED
      BY <2>1, <2>2
  <1>4. listening' = listening \ {s} /\ dialled' = dialled \ {s}
    <2>1. CASE PasvBind(s) \/ PasvNoSocket(s)
      BY <2>1 DEF PasvBind, PasvNoSocket
    <2>2. CASE PasvListenFails(s)
      <3>1. s \notin listening /\ s \notin dialled
        BY <1>1, <2>2, TypesOf DEF SessionOK, PasvListenFails, At
      <3>2. listening' = listening /\ dialled' = dialled
        BY <2>2 DEF PasvListenFails
      <3>3. QED
        BY <3>1, <3>2
    <2>3. QED
      BY <2>1, <2>2
  <1>5. Typed'
    BY <1>2, <1>3, <1>4, TypesOf DEF Typed, TypeOK, Places, Commands
  <1>6. /\ pc'[s] = place /\ pasv'[s] = port /\ s \notin listening'
        /\ \A t \in Sessions : t # s => Untouched(t)
    BY <1>2, <1>3, <1>4, TypesOf DEF Untouched
  <1>7. SessionOK(s)'
    <2>1. CASE place = "recv"
      BY <1>1, <1>2, <1>3, <1>6, <2>1 DEF SessionOK
    <2>2. CASE place = "listen"
      BY <1>1, <1>2, <1>3, <1>6, <2>2 DEF SessionOK
    <2>3. QED
      BY <2>1, <2>2
  <1>8. QED
    BY <1>5, <1>6, <1>7 DEF Kept

LEMMA PasvListenKeeps ==
    ASSUME SessionInv, NEW s \in Sessions, PasvListen(s)
    PROVE  Kept(s)
  <1>1. SessionOK(s)
    BY DEF SessionInv
  <1>2. /\ proc = "up" /\ pc[s] = "listen" /\ Respond(s, "227")
        /\ listening' = listening \cup {s} /\ pc' = [pc EXCEPT ![s] = "recv"]
        /\ pasv' = pasv /\ dialled' = dialled /\ data' = data /\ cmd' = cmd
        /\ cmds' = cmds
    BY DEF PasvListen, At, GoTo
  <1>3. /\ proc' \in {"up", "sigpipe"}
        /\ control' \in [Sessions -> {"open", "fin", "rst", "closed"}]
        /\ replies' \in [Sessions -> Seq(Codes)]
        /\ control'[s] = "open" <=> control[s] = "open"
        /\ control'[s] = "closed" <=> control[s] = "closed"
        /\ control[s] = "open" => replies'[s] = Append(replies[s], "227")
        /\ \A t \in Sessions : t # s => control'[t] = control[t] /\ replies'[t] = replies[t]
    BY <1>2, RespondFacts DEF SessionInv, Codes
  <1>4. Typed'
    BY <1>2, <1>3, TypesOf DEF Typed, TypeOK, Places, Commands
  <1>5. pc'[s] = "recv" /\ s \in listening' /\ \A t \in Sessions : t # s => Untouched(t)
    BY <1>2, <1>3, TypesOf DEF Untouched
  <1>6. control[s] = "open" => replies'[s] = <<"227">>
    BY <1>1, <1>2, <1>3 DEF SessionOK
  <1>7. SessionOK(s)'
    BY <1>1, <1>2, <1>3, <1>5, <1>6 DEF SessionOK
  <1>8. QED
    BY <1>4, <1>5, <1>7 DEF Kept

\* accept() on the data connection, with its 150 or 425.
LEMMA AcceptKeeps ==
    ASSUME SessionInv, NEW s \in Sessions, AcceptData(s) \/ AcceptDataFails(s)
    PROVE  Kept(s)
  <1>1. SessionOK(s)
    BY DEF SessionInv
  <1>2. /\ proc = "up" /\ pc[s] = "select" /\ pasv' = [pasv EXCEPT ![s] = 0]
        /\ listening' = listening \ {s} /\ dialled' = dialled \ {s}
        /\ cmd' = cmd /\ cmds' = cmds
    BY DEF AcceptData, AcceptDataFails, StopListening, At
  <1>3. control[s] # "closed" /\ (control[s] = "open" => replies[s] = <<>>)
        /\ data[s] = "none"
    BY <1>1, <1>2 DEF SessionOK
  <1>4. CASE AcceptData(s)
    <2>1. /\ data' = [data EXCEPT ![s] = "up"] /\ Respond(s, "150")
          /\ pc' = [pc EXCEPT ![s] = "open"]
      BY <1>4 DEF AcceptData, GoTo
    <2>2. /\ proc' \in {"up", "sigpipe"}
          /\ control' \in [Sessions -> {"open", "fin", "rst", "closed"}]
          /\ replies' \in [Sessions -> Seq(Codes)]
          /\ control'[s] = "open" <=> control[s] = "open"
          /\ control'[s] = "closed" <=> control[s] = "closed"
          /\ control[s] = "open" => replies'[s] = Append(replies[s], "150")
          /\ \A t \in Sessions : t # s => control'[t] = control[t] /\ replies'[t] = replies[t]
      BY <1>2, <2>1, RespondFacts DEF SessionInv, Codes
    <2>3. Typed'
      BY <1>2, <2>1, <2>2, TypesOf DEF Typed, TypeOK, Places, Commands
    <2>4. /\ pc'[s] = "open" /\ pasv'[s] = 0 /\ s \notin listening'
          /\ \A t \in Sessions : t # s => Untouched(t)
      BY <1>2, <2>1, <2>2, TypesOf DEF Untouched
    <2>5. control[s] = "open" => replies'[s] = <<"150">>
      BY <1>3, <2>2
    <2>6. SessionOK(s)'
      BY <1>1, <1>3, <2>2, <2>4, <2>5 DEF SessionOK
    <2>7. QED
      BY <2>3, <2>4, <2>6 DEF Kept
  <1>5. CASE AcceptDataFails(s)
    <2>1. data' = data /\ Respond(s, "425") /\ pc' = [pc EXCEPT ![s] = "recv"]
      BY <1>5 DEF AcceptDataFails, GoTo
    <2>2. /\ proc' \in {"up", "sigpipe"}
          /\ control' \in [Sessions -> {"open", "fin", "rst", "closed"}]
          /\ replies' \in [Sessions -> Seq(Codes)]
          /\ control'[s] = "open" <=> control[s] = "open"
          /\ control'[s] = "closed" <=> control[s] = "closed"
          /\ control[s] = "open" => replies'[s] = Append(replies[s], "425")
          /\ \A t \in Sessions : t # s => control'[t] = control[t] /\ replies'[t] = replies[t]
      BY <1>2, <2>1, RespondFacts DEF SessionInv, Codes
    <2>3. Typed'
      BY <1>2, <2>1, <2>2, TypesOf DEF Typed, TypeOK, Places, Commands
    <2>4. /\ pc'[s] = "recv" /\ pasv'[s] = 0 /\ s \notin listening'
          /\ \A t \in Sessions : t # s => Untouched(t)
      BY <1>2, <2>1, <2>2, TypesOf DEF Untouched
    <2>5. control[s] = "open" => replies'[s] = <<"425">>
      BY <1>3, <2>2
    <2>6. SessionOK(s)'
      BY <1>1, <1>3, <2>1, <2>2, <2>4, <2>5 DEF SessionOK
    <2>7. QED
      BY <2>3, <2>4, <2>6 DEF Kept
  <1>6. QED
    BY <1>4, <1>5

LEMMA TransferDoneKeeps ==
    ASSUME SessionInv, NEW s \in Sessions, TransferDone(s)
    PROVE  Kept(s)
  <1>1. SessionOK(s)
    BY DEF SessionInv
  <1>2. /\ proc = "up" /\ pc[s] = "send" /\ Respond(s, "226")
        /\ data' = [data EXCEPT ![s] = "none"] /\ pc' = [pc EXCEPT ![s] = "recv"]
        /\ pasv' = pasv /\ listening' = listening /\ dialled' = dialled /\ cmd' = cmd
        /\ cmds' = cmds
    BY DEF TransferDone, At, GoTo
  <1>3. /\ proc' \in {"up", "sigpipe"}
        /\ control' \in [Sessions -> {"open", "fin", "rst", "closed"}]
        /\ replies' \in [Sessions -> Seq(Codes)]
        /\ control'[s] = "open" <=> control[s] = "open"
        /\ control'[s] = "closed" <=> control[s] = "closed"
        /\ control[s] = "open" => replies'[s] = Append(replies[s], "226")
        /\ \A t \in Sessions : t # s => control'[t] = control[t] /\ replies'[t] = replies[t]
    BY <1>2, RespondFacts DEF SessionInv, Codes
  <1>4. Typed'
    BY <1>2, <1>3, TypesOf DEF Typed, TypeOK, Places, Commands
  <1>5. /\ pc'[s] = "recv" /\ data'[s] = "none"
        /\ \A t \in Sessions : t # s => Untouched(t)
    BY <1>2, <1>3, TypesOf DEF Untouched
  <1>6. control[s] = "open" => replies'[s] = <<"150", "226">>
    <2>1. control[s] = "open" => replies[s] = <<"150">>
      BY <1>1, <1>2 DEF SessionOK
    <2>2. Append(<<"150">>, "226") = <<"150", "226">>
      BY TwoReplies DEF Codes
    <2>3. QED
      BY <1>3, <2>1, <2>2
  <1>7. SessionOK(s)'
    BY <1>1, <1>2, <1>3, <1>5, <1>6 DEF SessionOK
  <1>8. QED
    BY <1>4, <1>5, <1>7 DEF Kept

\* lufptd_close_client, in the middle of a transfer and behind the loop.
LEMMA CloseKeeps ==
    ASSUME SessionInv, NEW s \in Sessions, OpenFails(s) \/ CleanUp(s)
    PROVE  Kept(s)
  <1>1. SessionOK(s)
    BY DEF SessionInv
  <1>2. /\ control' = [control EXCEPT ![s] = "closed"]
        /\ data' = [data EXCEPT ![s] = "none"] /\ pasv' = [pasv EXCEPT ![s] = 0]
        /\ listening' = listening \ {s} /\ dialled' = dialled \ {s}
        /\ proc' = proc /\ cmd' = cmd /\ replies' = replies /\ cmds' = cmds
    BY DEF OpenFails, CleanUp, CloseClient, StopListening
  <1>3. PICK place \in {"close", "done"} : pc' = [pc EXCEPT ![s] = place]
    BY DEF OpenFails, CleanUp, GoTo
  <1>4. Typed'
    BY <1>2, <1>3, TypesOf DEF Typed, TypeOK, Places, Commands
  <1>5. /\ pc'[s] = place /\ control'[s] = "closed" /\ data'[s] = "none" /\ pasv'[s] = 0
        /\ s \notin listening' /\ \A t \in Sessions : t # s => Untouched(t)
    BY <1>2, <1>3, TypesOf DEF Untouched
  <1>6. SessionOK(s)'
    BY <1>3, <1>5 DEF SessionOK
  <1>7. QED
    BY <1>4, <1>5, <1>6 DEF Kept

LEMMA SessionStep == SessionInv /\ [Next]_vars => SessionInv'
  <1> SUFFICES ASSUME SessionInv, [Next]_vars PROVE SessionInv'
    OBVIOUS
  <1>1. ASSUME NEW s \in Sessions, Kept(s) PROVE SessionInv'
    <2>1. \A t \in Sessions : SessionOK(t)'
      BY <1>1, UntouchedStays DEF SessionInv, Kept
    <2>2. QED
      BY <1>1, <2>1 DEF SessionInv, Kept
  <1>2. ASSUME NEW s \in Sessions, Work(s) PROVE Kept(s)
    BY <1>2, SimpleKeeps, PasvKeeps, PasvListenKeeps, AcceptKeeps, QuietKeeps, CloseKeeps
       DEF Work
  <1>3. ASSUME NEW s \in Sessions, Client(s) PROVE Kept(s)
    <2>1. ASSUME NEW name \in {"SIMPLE", "QUIT", "PASV", "TRANSFER"}, Command(s, name)
          PROVE  Kept(s)
      BY <2>1, CommandKeeps
    <2>2. QED
      BY <1>3, <2>1, QuietKeeps DEF Client
  <1>4. ASSUME NEW s \in Sessions, PasvNoSocket(s) \/ Send(s) \/ TransferDone(s)
        PROVE  Kept(s)
    BY <1>4, PasvKeeps, QuietKeeps, TransferDoneKeeps
  <1>5. CASE UNCHANGED vars \/ EntriesMixed \/ \E s \in Sessions : Feat(s)
    <2>1. /\ proc' \in {"up", "sigpipe", "mixed"} /\ pc' = pc /\ control' = control /\ pasv' = pasv
          /\ listening' = listening /\ dialled' = dialled /\ data' = data /\ cmd' = cmd
          /\ replies' = replies /\ cmds' = cmds
      BY <1>5, TypesOf DEF vars, sockVars, EntriesMixed, Feat
    <2>2. Typed'
      BY <2>1 DEF SessionInv, Typed, TypeOK
    <2>3. \A t \in Sessions : Untouched(t)
      BY <2>1 DEF Untouched
    <2>4. QED
      BY <2>2, <2>3, UntouchedStays DEF SessionInv
  <1>6. QED
    BY <1>1, <1>2, <1>3, <1>4, <1>5 DEF Next
-----------------------------------------------------------------------------
\* SessionInv is an invariant of the FTP sessions.
THEOREM SessionInvariant == Spec => []SessionInv
  <1>1. Init => SessionInv
    BY SessionInit
  <1>2. SessionInv /\ [Next]_vars => SessionInv'
    BY SessionStep
  <1>3. QED
    BY <1>1, <1>2, PTL DEF Spec

\* The variables of the sessions keep their types.
THEOREM SessionTypeOK == Spec => []TypeOK
  <1>1. SessionInv => TypeOK
    BY DEF SessionInv, Typed
  <1>2. QED
    BY <1>1, SessionInvariant, PTL

\* No data connection, port or control connection is leaked, for every number
\* of sessions and every range of data ports, as long as each session works on
\* its own entry of g_clients.
THEOREM NothingIsLeaked == Spec => []NothingLeaks
  <1>1. SessionInv => NothingLeaks
    BY DEF SessionInv, SessionOK, NothingLeaks
  <1>2. QED
    BY <1>1, SessionInvariant, PTL

\* Between two commands the client has got the replies FTP asks for, or none
\* to a PASV that failed, as long as each session works on its own entry.
THEOREM CommandsAreAnswered == Spec => []AnsweredProperly
  <1>1. SessionInv => AnsweredProperly
    BY DEF SessionInv, SessionOK, AnsweredProperly
  <1>2. QED
    BY <1>1, SessionInvariant, PTL
=============================================================================
