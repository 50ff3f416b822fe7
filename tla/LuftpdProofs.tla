---------------------------- MODULE LuftpdProofs ----------------------------
(***************************************************************************)
(* Proofs about the FTP daemon's parts: its table, for any number of       *)
(* clients and any max_connections (although a thread may remove another   *)
(* thread's entry, every thread stays counted), and luftpd_resolve_path,   *)
(* for any root, directories and paths.                                    *)
(***************************************************************************)
EXTENDS LuftpdTable, LuftpdPath, FiniteSetTheorems, SequenceTheorems,
        WellFoundedInduction, TLAPS

-----------------------------------------------------------------------------
(* The table.                                                              *)

Running == {"loop", "recv", "close", "remove"}

\* The live threads can be counted.
LEMMA LiveFinite == IsFiniteSet(Live) /\ Cardinality(Live) \in Nat
  BY TableAssumption, FS_Subset, FS_CardinalityType DEF Live

\* The server starts with an empty table and no thread.
LEMMA InitEstablishes == Init => TypeOK /\ ThreadsCounted
  <1> SUFFICES ASSUME Init PROVE TypeOK /\ ThreadsCounted
    OBVIOUS
  <1>1. TypeOK
    BY TableAssumption DEF Init, TypeOK, Entry, Cleared, Live
  <1>2. Live = {}
    BY DEF Init, Live
  <1>3. QED
    BY <1>1, <1>2, FS_EmptySet DEF Init, ThreadsCounted

\* lufptd_close_client keeps the types of the entry, whosesoever it is.
LEMMA CloseEntryType ==
    ASSUME TypeOK, NEW c \in Clients, slot[c] # 0, CloseEntry(c)
    PROVE  g_clients' \in [1..MaxConnections -> Entry] /\ closed' \subseteq Clients
  <1>1. slot[c] \in 1..MaxConnections
    BY TableAssumption DEF TypeOK
  <1>2. g_clients[slot[c]] \in Entry
    BY <1>1 DEF TypeOK
  <1>3. QED
    BY <1>1, <1>2 DEF TypeOK, CloseEntry, Entry

\* Every step keeps indices and pointers inside the table.
LEMMA TypePreserved == TypeOK /\ [Next]_vars => TypeOK'
  <1> SUFFICES ASSUME TypeOK, [Next]_vars PROVE TypeOK'
    OBVIOUS
  <1>0. /\ g_client_count \in Nat /\ g_client_count <= MaxConnections
        /\ MaxConnections \in Nat
    BY TableAssumption DEF TypeOK
  <1>1. ASSUME NEW c \in Clients, Refuse(c) PROVE TypeOK'
    BY <1>1 DEF Refuse, TypeOK, Live
  <1>2. ASSUME NEW c \in Clients, Accept(c) PROVE TypeOK'
    <2>1. g_client_count + 1 \in 1..MaxConnections
      BY <1>0, <1>2 DEF Accept, Full
    <2>2. [control_sock |-> c, thread_id |-> CastToInt(c), is_active |-> TRUE] \in Entry
      BY TableAssumption DEF Entry, CastToInt
    <2>3. g_clients' \in [1..MaxConnections -> Entry]
      BY <1>2, <2>1, <2>2 DEF Accept, TypeOK
    <2>4. QED
      BY <1>0, <1>2, <2>1, <2>3 DEF Accept, TypeOK, Live
  <1>3. ASSUME NEW c \in Clients, AcceptFails(c) PROVE TypeOK'
    <2>1. [control_sock |-> c, thread_id |-> 0, is_active |-> TRUE] \in Entry
      BY DEF Entry
    <2>2. QED
      BY <1>0, <1>3, <2>1 DEF AcceptFails, TypeOK, Live
  <1>4. ASSUME NEW c \in Clients, Hangup(c) PROVE TypeOK'
    BY <1>4 DEF Hangup, TypeOK, Live
  <1>5. ASSUME NEW c \in Clients, LoopTest(c) PROVE TypeOK'
    <2>1. slot[c] \in 1..MaxConnections
      BY <1>5, <1>0 DEF TypeOK, Live, LoopTest
    <2>2. g_clients[slot[c]].control_sock \in Clients \cup {0}
      BY <2>1 DEF TypeOK, Entry
    <2>3. recv_sock' \in [Clients -> Clients \cup {0}]
      BY <1>5, <2>2 DEF LoopTest, TypeOK
    <2>4. QED
      BY <1>5, <2>3 DEF LoopTest, TypeOK, Live
  <1>6. ASSUME NEW c \in Clients, NEW quit \in BOOLEAN, Serve(c, quit) PROVE TypeOK'
    BY <1>6 DEF Serve, Received, TypeOK, Live
  <1>7. ASSUME NEW c \in Clients, ServeAborts(c) PROVE TypeOK'
    <2>1. slot[c] # 0
      BY <1>7 DEF ServeAborts, Received, TypeOK, Live
    <2>2. g_clients' \in [1..MaxConnections -> Entry] /\ closed' \subseteq Clients
      BY <1>7, <2>1, CloseEntryType DEF ServeAborts
    <2>3. QED
      BY <1>7, <2>2 DEF ServeAborts, Received, TypeOK, Live
  <1>8. ASSUME NEW c \in Clients, RecvEnds(c) PROVE TypeOK'
    BY <1>8 DEF RecvEnds, TypeOK, Live
  <1>9. ASSUME NEW c \in Clients, CloseClient(c) PROVE TypeOK'
    <2>1. slot[c] # 0
      BY <1>9 DEF CloseClient, TypeOK, Live
    <2>2. g_clients' \in [1..MaxConnections -> Entry] /\ closed' \subseteq Clients
      BY <1>9, <2>1, CloseEntryType DEF CloseClient
    <2>3. QED
      BY <1>9, <2>2 DEF CloseClient, TypeOK, Live
  <1>10. ASSUME NEW c \in Clients, RemoveEntry(c) PROVE TypeOK'
    <2> DEFINE tid == g_clients[slot[c]].thread_id
               found == {i \in 1..g_client_count : g_clients[i].thread_id = tid}
    <2>1. CASE found = {}
      BY <1>10, <2>1 DEF RemoveEntry, TypeOK, Live
    <2>2. CASE found # {}
      <3>1. g_client_count' = g_client_count - 1 /\ g_client_count > 0
        BY <1>0, <1>10, <2>2 DEF RemoveEntry
      <3>2. g_clients' = [i \in 1..MaxConnections |->
                            IF i >= Min(found) /\ i < g_client_count
                            THEN g_clients[i + 1] ELSE g_clients[i]]
        BY <1>10, <2>2 DEF RemoveEntry
      <3>3. \A i \in 1..MaxConnections :
                i < g_client_count => i + 1 \in 1..MaxConnections
        BY <1>0
      <3>4. g_clients' \in [1..MaxConnections -> Entry]
        BY <3>2, <3>3 DEF TypeOK
      <3>5. QED
        BY <1>0, <1>10, <3>1, <3>4 DEF RemoveEntry, TypeOK, Live
    <2>3. QED
      BY <2>1, <2>2
  <1>11. CASE UNCHANGED vars
    BY <1>11 DEF vars, TypeOK, Live
  <1>12. QED
    BY <1>1, <1>2, <1>3, <1>4, <1>5, <1>6, <1>7, <1>8, <1>9, <1>10, <1>11
       DEF Next, Thread

\* No step lets g_client_count fall below the number of threads.
LEMMA CountPreserved == TypeOK /\ ThreadsCounted /\ [Next]_vars => ThreadsCounted'
  <1> SUFFICES ASSUME TypeOK, ThreadsCounted, [Next]_vars PROVE ThreadsCounted'
    OBVIOUS
  <1>0. /\ g_client_count \in Nat /\ Cardinality(Live) \in Nat
        /\ Cardinality(Live) <= g_client_count
        /\ IsFiniteSet(Live)
        /\ pc \in [Clients ->
             {"away", "refused", "loop", "recv", "close", "remove", "done"}]
    BY TableAssumption, LiveFinite DEF TypeOK, ThreadsCounted
  <1>1. ASSUME NEW c \in Clients, NEW p, pc' = [pc EXCEPT ![c] = p],
               pc[c] \in Running <=> p \in Running,
               g_client_count' = g_client_count
        PROVE  ThreadsCounted'
    <2>1. Live' = Live
      BY <1>0, <1>1 DEF Live, Running
    <2>2. QED
      BY <1>0, <1>1, <2>1 DEF ThreadsCounted
  <1>2. ASSUME NEW c \in Clients, Accept(c) PROVE ThreadsCounted'
    <2>1. Live' = Live \cup {c} /\ c \notin Live
      BY <1>0, <1>2 DEF Accept, Live
    <2>2. Cardinality(Live') = Cardinality(Live) + 1
      BY <1>0, <2>1, FS_AddElement
    <2>3. QED
      BY <1>0, <1>2, <2>2 DEF Accept, ThreadsCounted
  <1>3. ASSUME NEW c \in Clients, RemoveEntry(c) PROVE ThreadsCounted'
    <2>1. Live' = Live \ {c} /\ c \in Live
      BY <1>0, <1>3 DEF RemoveEntry, Live
    <2>2. Cardinality(Live') = Cardinality(Live) - 1
      BY <1>0, <2>1, FS_RemoveElement
    <2>3. g_client_count' = g_client_count \/ g_client_count' = g_client_count - 1
      BY <1>3 DEF RemoveEntry
    <2>4. QED
      BY <1>0, <2>2, <2>3 DEF ThreadsCounted
  <1>4. CASE UNCHANGED <<pc, g_client_count>>
    <2>1. Live' = Live
      BY <1>4 DEF Live
    <2>2. QED
      BY <1>0, <1>4, <2>1 DEF ThreadsCounted
  <1>5. ASSUME NEW c \in Clients,
               \/ Refuse(c) \/ AcceptFails(c) \/ RecvEnds(c) \/ CloseClient(c)
               \/ ServeAborts(c)
        PROVE  ThreadsCounted'
    BY <1>1, <1>5
       DEF Refuse, AcceptFails, RecvEnds, CloseClient, ServeAborts, Received, Running
  <1>6. ASSUME NEW c \in Clients, LoopTest(c) PROVE ThreadsCounted'
    BY <1>1, <1>6 DEF LoopTest, Running
  <1>7. ASSUME NEW c \in Clients, NEW quit \in BOOLEAN, Serve(c, quit)
        PROVE  ThreadsCounted'
    BY <1>1, <1>7 DEF Serve, Received, Running
  <1>8. QED
    BY <1>2, <1>3, <1>4, <1>5, <1>6, <1>7 DEF Next, Thread, Hangup, vars

\* The table keeps its type: its index and count stay within
\* max_connections, and every thread has a pointer into the table.
THEOREM TypeCorrect == Spec => []TypeOK
  <1>1. Init => TypeOK
    BY InitEstablishes
  <1>2. QED
    BY <1>1, TypePreserved, PTL DEF Spec

\* There are never more threads than g_client_count says.
THEOREM CountsThreads == Spec => []ThreadsCounted
  <1>1. Init => ThreadsCounted
    BY InitEstablishes
  <1>2. QED
    BY <1>1, TypeCorrect, CountPreserved, PTL DEF Spec
-----------------------------------------------------------------------------
(* Numbers, and the loop of luftpd_resolve_path.                           *)

\* A set of naturals has a least element, and one below a bound a greatest.
LEMMA Least ==
    ASSUME NEW S, S \subseteq Nat, S # {}
    PROVE  \E x \in S : \A y \in S : x <= y
  <1> DEFINE R == OpToRel(<, Nat)
  <1>1. IsWellFoundedOn(R, Nat)
    BY NatLessThanWellFounded
  <1>2. \A x, y \in Nat : x < y => <<x, y>> \in R
    BY DEF OpToRel
  <1> HIDE DEF R
  <1>3. PICK x \in S : \A y \in S : ~(<<y, x>> \in R)
    BY <1>1, WFMin
  <1>4. ASSUME NEW y \in S PROVE x <= y
    <2>1. x \in Nat /\ y \in Nat /\ ~(y < x)
      BY <1>2, <1>3
    <2>2. QED
      BY <2>1
  <1>5. QED
    BY <1>4

LEMMA Greatest ==
    ASSUME NEW n \in Nat, NEW S, S \subseteq 0..n, S # {}
    PROVE  \E x \in S : \A y \in S : y <= x
  <1> DEFINE T == {n - x : x \in S}
  <1>1. T \subseteq Nat
    OBVIOUS
  <1>2. T # {}
    BY Zenon
  <1>3. PICK t \in T : \A u \in T : t <= u
    <2> HIDE DEF T
    <2> QED
      BY <1>1, <1>2, Least
  <1>4. PICK x \in S : t = n - x
    OBVIOUS
  <1>5. \A y \in S : y <= x
    BY <1>3, <1>4
  <1>6. QED
    BY <1>5

\* The equation of the loop: it has a solution, the one that TLC computes.
LEMMA LoopStep ==
    ASSUME NEW base, NEW comps \in Seq(Components)
    PROVE  /\ ResultPath(base, comps)[0] = base
           /\ \A n \in 1..Len(comps) :
                ResultPath(base, comps)[n] = Walk(ResultPath(base, comps)[n - 1], comps[n])
  <1>0. Len(comps) \in Nat
    OBVIOUS
  <1> DEFINE Loop(g, m) == g = [n \in 0..m |-> IF n = 0 THEN base
                                               ELSE Walk(g[n - 1], comps[n])]
             Short == {m \in 0..Len(comps) : ~ \E g : Loop(g, m)}
  <1>1. Short = {}
    <2> SUFFICES ASSUME Short # {} PROVE FALSE
      OBVIOUS
    <2>1. PICK m \in Short : \A k \in Short : m <= k
      <3>1. Short \subseteq Nat
        OBVIOUS
      <3> HIDE DEF Short
      <3>2. QED
        BY <3>1, Least
    <2>2. CASE m = 0
      <3>1. Loop([n \in 0..0 |-> base], 0)
        OBVIOUS
      <3>2. QED
        BY <2>2, <3>1
    <2>3. CASE m # 0
      <3>1. m \in 1..Len(comps) /\ m - 1 \in 0..Len(comps) /\ m - 1 \notin Short
        <4>1. m \in 0..Len(comps)
          OBVIOUS
        <4>2. m \in 1..Len(comps) /\ m - 1 \in 0..Len(comps) /\ ~(m <= m - 1)
          BY <1>0, <2>3, <4>1
        <4> HIDE DEF Short
        <4>3. QED
          BY <2>1, <4>2
      <3>2. PICK g : Loop(g, m - 1)
        BY <3>1
      <3> DEFINE h == [n \in 0..m |-> IF n = m THEN Walk(g[m - 1], comps[m]) ELSE g[n]]
      <3>3. Loop(h, m)
        <4>1. ASSUME NEW n \in 0..m
              PROVE  h[n] = IF n = 0 THEN base ELSE Walk(h[n - 1], comps[n])
          <5>1. CASE n = 0
            BY <3>1, <3>2, <5>1
          <5>2. CASE n # 0
            <6>1. h[n - 1] = g[n - 1]
              BY <3>1, <5>2
            <6>2. h[n] = Walk(g[n - 1], comps[n])
              BY <3>1, <3>2, <5>2
            <6>3. QED
              BY <5>2, <6>1, <6>2
          <5>3. QED
            BY <5>1, <5>2
        <4>2. QED
          BY <4>1
      <3>4. QED
        BY <2>1, <3>3
    <2>4. QED
      BY <2>2, <2>3
  <1>2. \E g : Loop(g, Len(comps))
    BY <1>1
  <1>3. Loop(ResultPath(base, comps), Len(comps))
    BY <1>2 DEF ResultPath
  <1> DEFINE at == ResultPath(base, comps)
  <1> HIDE DEF at
  <1>4. at = [n \in 0..Len(comps) |-> IF n = 0 THEN base ELSE Walk(at[n - 1], comps[n])]
    BY <1>3 DEF at
  <1>5. at[0] = base /\ \A n \in 1..Len(comps) : at[n] = Walk(at[n - 1], comps[n])
    BY <1>4
  <1>6. QED
    BY <1>5 DEF at
-----------------------------------------------------------------------------
(* Counting.                                                               *)

LEMMA CountType ==
    ASSUME NEW s, NEW a \in Int, NEW b \in Int, NEW S
    PROVE  /\ IsFiniteSet({i \in a..b : s[i] \in S})
           /\ Count(s, a, b, S) \in Nat
           /\ a > b => Count(s, a, b, S) = 0
  <1> DEFINE C == {i \in a..b : s[i] \in S}
  <1>1. IsFiniteSet(a..b)
    BY FS_Interval
  <1>2. C \in SUBSET (a..b)
    OBVIOUS
  <1>3. IsFiniteSet(C)
    BY <1>1, <1>2, FS_Subset
  <1>4. a > b => C = {}
    OBVIOUS
  <1>5. Count(s, a, b, S) = Cardinality(C)
    BY DEF Count
  <1> HIDE DEF C
  <1>6. Cardinality(C) \in Nat /\ (C = {} => Cardinality(C) = 0)
    BY <1>3, FS_CardinalityType, FS_EmptySet
  <1>7. QED
    BY <1>3, <1>4, <1>5, <1>6 DEF C

\* The places from a on, in two parts.
LEMMA CountSplit ==
    ASSUME NEW s, NEW a \in Int, NEW b \in Int, NEW c \in Int, NEW S,
           a <= b + 1, b <= c
    PROVE  Count(s, a, c, S) = Count(s, a, b, S) + Count(s, b + 1, c, S)
  <1> DEFINE X == {i \in a..b : s[i] \in S}
             Y == {i \in (b + 1)..c : s[i] \in S}
  <1>1. X \cup Y = {i \in a..c : s[i] \in S} /\ X \cap Y = {}
    OBVIOUS
  <1>2. IsFiniteSet(X) /\ IsFiniteSet(Y)
    <2>1. b + 1 \in Int
      OBVIOUS
    <2>2. QED
      BY <2>1, CountType, Zenon
  <1>3. /\ Count(s, a, b, S) = Cardinality(X)
        /\ Count(s, b + 1, c, S) = Cardinality(Y)
        /\ Count(s, a, c, S) = Cardinality(X \cup Y)
    BY <1>1 DEF Count
  <1> HIDE DEF X, Y
  <1>4. Cardinality(X) \in Nat /\ Cardinality(Y) \in Nat
    BY <1>2, FS_CardinalityType
  <1>5. Cardinality(X \cup Y) = Cardinality(X) + Cardinality(Y) - Cardinality(X \cap Y)
    BY <1>2, FS_Union
  <1>6. Cardinality(X \cap Y) = 0
    BY <1>1, FS_EmptySet
  <1>7. QED
    BY <1>3, <1>4, <1>5, <1>6

LEMMA CountOne ==
    ASSUME NEW s, NEW a \in Int, NEW S
    PROVE  Count(s, a, a, S) = IF s[a] \in S THEN 1 ELSE 0
  <1>1. CASE s[a] \in S
    <2>1. {i \in a..a : s[i] \in S} = {a}
      BY <1>1
    <2>2. QED
      BY <1>1, <2>1, FS_Singleton DEF Count
  <1>2. CASE s[a] \notin S
    <2>1. {i \in a..a : s[i] \in S} = {}
      BY <1>2
    <2>2. QED
      BY <1>2, <2>1, FS_EmptySet DEF Count
  <1>3. QED
    BY <1>1, <1>2
-----------------------------------------------------------------------------
(* The names that later ".." do not take away.                             *)

Ordinary == Names \cup {"new"}

\* The names less the ".." behind place i, up to place j.
Depth(s, i, j) == Count(s, i + 1, j, Ordinary) - Count(s, i + 1, j, {".."})

\* The places among the first n that keep their names.
Kept(s, n) ==
    {i \in 1..n : s[i] \in Ordinary /\ \A j \in i..n : Depth(s, i, j) >= 0}

LEMMA OrdinaryNames == "." \notin Ordinary /\ ".." \notin Ordinary
  <1>1. \A d \in Dirs : \A i \in DOMAIN d : d[i] \notin {".", ".."}
    BY PathAssumption
  <1>2. QED
    BY <1>1 DEF Ordinary, Names, Range

LEMMA DepthFacts ==
    ASSUME NEW s, NEW i \in Int, NEW j \in Int
    PROVE  /\ Depth(s, i, j) \in Int
           /\ i >= j => Depth(s, i, j) = 0
  <1>1. \A S : \A a, b \in Int : Count(s, a, b, S) \in Nat /\ (a > b => Count(s, a, b, S) = 0)
    BY CountType, Zenon
  <1>2. QED
    BY <1>1 DEF Depth

LEMMA DepthSplit ==
    ASSUME NEW s, NEW i \in Int, NEW x \in Int, NEW j \in Int, i <= x, x <= j
    PROVE  Depth(s, i, j) = Depth(s, i, x) + Depth(s, x, j)
  <1> DEFINE N(a, b) == Count(s, a, b, Ordinary)
             U(a, b) == Count(s, a, b, {".."})
  <1>1. N(i + 1, j) = N(i + 1, x) + N(x + 1, j) /\ U(i + 1, j) = U(i + 1, x) + U(x + 1, j)
    BY CountSplit
  <1>2. /\ N(i + 1, x) \in Nat /\ N(x + 1, j) \in Nat
        /\ U(i + 1, x) \in Nat /\ U(x + 1, j) \in Nat
    <2>1. \A S : \A a, b \in Int : Count(s, a, b, S) \in Nat
      BY CountType, Zenon
    <2>2. QED
      BY <2>1
  <1>3. QED
    BY <1>1, <1>2 DEF Depth

LEMMA DepthNext ==
    ASSUME NEW s, NEW i \in Int, NEW j \in Int, i <= j
    PROVE  Depth(s, i, j + 1) = CASE s[j + 1] \in Ordinary -> Depth(s, i, j) + 1
                                  [] s[j + 1] = ".." -> Depth(s, i, j) - 1
                                  [] OTHER -> Depth(s, i, j)
  <1>1. Depth(s, i, j + 1) = Depth(s, i, j) + Depth(s, j, j + 1)
    BY DepthSplit
  <1>2. Depth(s, j, j + 1) = (IF s[j + 1] \in Ordinary THEN 1 ELSE 0)
                               - (IF s[j + 1] \in {".."} THEN 1 ELSE 0)
    BY CountOne DEF Depth
  <1>3. Depth(s, i, j) \in Int
    BY DepthFacts
  <1>4. QED
    BY <1>1, <1>2, <1>3, OrdinaryNames

\* What one more component changes.
LEMMA KeptMember ==
    ASSUME NEW s, NEW n \in Nat
    PROVE  /\ \A i \in 1..n : i \in Kept(s, n + 1) <=>
                               i \in Kept(s, n) /\ Depth(s, i, n + 1) >= 0
           /\ n + 1 \in Kept(s, n + 1) <=> s[n + 1] \in Ordinary
  <1>1. ASSUME NEW i \in 1..n
        PROVE  (\A j \in i..(n + 1) : Depth(s, i, j) >= 0)
               <=> (\A j \in i..n : Depth(s, i, j) >= 0) /\ Depth(s, i, n + 1) >= 0
    <2>1. i..(n + 1) = (i..n) \cup {n + 1}
      OBVIOUS
    <2>2. QED
      BY <2>1, Zenon
  <1>2. \A j \in (n + 1)..(n + 1) : Depth(s, n + 1, j) >= 0
    <2>1. Depth(s, n + 1, n + 1) = 0
      BY DepthFacts
    <2>2. (n + 1)..(n + 1) = {n + 1}
      OBVIOUS
    <2>3. QED
      BY <2>1, <2>2
  <1>3. (1..n) \subseteq 1..(n + 1) /\ n + 1 \in 1..(n + 1)
    OBVIOUS
  <1>4. ASSUME NEW i \in 1..n
        PROVE  i \in Kept(s, n + 1) <=> i \in Kept(s, n) /\ Depth(s, i, n + 1) >= 0
    BY <1>1, <1>3, Zenon DEF Kept
  <1>5. n + 1 \in Kept(s, n + 1) <=> s[n + 1] \in Ordinary
    BY <1>2, <1>3, Zenon DEF Kept
  <1>6. QED
    BY <1>4, <1>5, Zenon

LEMMA KeptFinite ==
    ASSUME NEW s, NEW n \in Nat
    PROVE  /\ Kept(s, n) \subseteq 1..n
           /\ IsFiniteSet(Kept(s, n))
           /\ \A i \in Kept(s, n) : Depth(s, i, n) \in Nat
  <1>1. Kept(s, n) \in SUBSET (1..n)
    BY DEF Kept
  <1>2. IsFiniteSet(1..n)
    BY FS_Interval
  <1>3. IsFiniteSet(Kept(s, n))
    BY <1>1, <1>2, FS_Subset
  <1>4. ASSUME NEW i \in Kept(s, n) PROVE Depth(s, i, n) \in Nat
    <2>1. i \in 1..n /\ n \in i..n
      BY <1>1
    <2>2. Depth(s, i, n) >= 0
      BY <2>1, Zenon DEF Kept
    <2>3. QED
      BY <2>1, <2>2, DepthFacts
  <1>5. QED
    BY <1>1, <1>3, <1>4

\* A name that is kept with another kept name behind it is one level up from
\* it, at least.
LEMMA EarlierKept ==
    ASSUME NEW s, NEW n \in Nat, NEW i \in Kept(s, n), NEW x \in Kept(s, n), i < x
    PROVE  Depth(s, i, n) >= 1
  <1>1. i \in 1..n /\ x \in 1..n /\ x - 1 \in i..n
    BY KeptFinite
  <1>2. Depth(s, i, n) = Depth(s, i, x) + Depth(s, x, n)
    BY <1>1, DepthSplit
  <1>3. Depth(s, x, n) \in Nat
    BY KeptFinite
  <1>4. Depth(s, i, x - 1) >= 0 /\ s[x] \in Ordinary
    BY <1>1, Zenon DEF Kept
  <1>5. Depth(s, i, x) = Depth(s, i, x - 1) + 1
    <2>1. x - 1 \in Int /\ i <= x - 1 /\ (x - 1) + 1 = x
      BY <1>1
    <2>2. i \in Int /\ s[(x - 1) + 1] \in Ordinary
      BY <1>1, <1>4, <2>1
    <2> DEFINE j == x - 1
    <2> HIDE DEF j
    <2>3. Depth(s, i, j + 1) = CASE s[j + 1] \in Ordinary -> Depth(s, i, j) + 1
                                 [] s[j + 1] = ".." -> Depth(s, i, j) - 1
                                 [] OTHER -> Depth(s, i, j)
      BY <2>1, <2>2, DepthNext DEF j
    <2>4. Depth(s, i, j + 1) = Depth(s, i, j) + 1
      BY <2>2, <2>3, OrdinaryNames DEF j
    <2>5. QED
      BY <2>1, <2>4 DEF j
  <1>6. Depth(s, i, x - 1) \in Int
    BY <1>1, DepthFacts
  <1>7. QED
    BY <1>2, <1>3, <1>4, <1>5, <1>6

\* The last name that is kept has none below it: where the path behind it was
\* at its level for the last time, the next component would be a kept name.
LEMMA LastKept ==
    ASSUME NEW s, NEW n \in Nat, NEW x \in Kept(s, n), \A y \in Kept(s, n) : y <= x
    PROVE  Depth(s, x, n) = 0
  <1> DEFINE Level == {j \in x..n : Depth(s, x, j) = 0}
  <1>1. x \in 1..n /\ x \in x..n
    BY KeptFinite
  <1>2. \A j \in x..n : Depth(s, x, j) \in Int /\ Depth(s, x, j) >= 0
    <2>1. \A j \in x..n : Depth(s, x, j) >= 0
      BY DEF Kept
    <2>2. \A j \in x..n : Depth(s, x, j) \in Int
      BY <1>1, DepthFacts
    <2>3. QED
      BY <2>1, <2>2
  <1>3. PICK z \in Level : \A j \in Level : j <= z
    <2>1. Level \subseteq 0..n
      BY <1>1
    <2>2. x \in Level
      BY <1>1, DepthFacts
    <2> HIDE DEF Level
    <2>3. QED
      BY <2>1, <2>2, Greatest
  <1>4. z \in x..n /\ Depth(s, x, z) = 0 /\ z \in Int
    BY <1>1, <1>3
  <1>5. CASE z = n
    BY <1>4, <1>5
  <1>6. CASE z # n
    <2>1. z + 1 \in (x + 1)..n /\ z + 1 \in x..n
      BY <1>1, <1>4, <1>6
    <2>2. \A j \in (z + 1)..n : Depth(s, x, j) >= 1
      <3>1. ASSUME NEW j \in (z + 1)..n PROVE Depth(s, x, j) >= 1
        <4>1. j \in x..n /\ ~(j <= z)
          BY <1>1, <1>4
        <4>2. Depth(s, x, j) # 0
          BY <1>3, <4>1
        <4>3. QED
          BY <1>2, <4>1, <4>2
      <3>2. QED
        BY <3>1
    <2>3. s[z + 1] \in Ordinary /\ Depth(s, x, z + 1) = 1
      <3>1. Depth(s, x, z + 1) = CASE s[z + 1] \in Ordinary -> Depth(s, x, z) + 1
                                   [] s[z + 1] = ".." -> Depth(s, x, z) - 1
                                   [] OTHER -> Depth(s, x, z)
        BY <1>1, <1>4, DepthNext
      <3>2. Depth(s, x, z + 1) >= 1
        BY <1>4, <2>1, <2>2
      <3>3. QED
        BY <1>4, <3>1, <3>2, OrdinaryNames
    <2>4. ASSUME NEW j \in (z + 1)..n PROVE Depth(s, z + 1, j) >= 0
      <3>1. Depth(s, x, j) = Depth(s, x, z + 1) + Depth(s, z + 1, j)
        <4>1. x \in Int /\ z + 1 \in Int /\ j \in Int /\ x <= z + 1 /\ z + 1 <= j
          BY <1>1, <1>4
        <4>2. QED
          BY <4>1, DepthSplit
      <3>2. Depth(s, x, j) >= 1 /\ Depth(s, z + 1, j) \in Int
        BY <1>4, <2>2, DepthFacts
      <3>3. QED
        BY <2>3, <3>1, <3>2
    <2>5. z + 1 \in Kept(s, n)
      <3>1. z + 1 \in 1..n
        BY <1>1, <2>1
      <3>2. QED
        BY <2>3, <2>4, <3>1 DEF Kept
    <2>6. QED
      BY <1>1, <1>4, <2>5
  <1>7. QED
    BY <1>5, <1>6

\* A name is added at the end, ".." takes the last one away.
LEMMA KeptNext ==
    ASSUME NEW s, NEW n \in Nat
    PROVE  /\ s[n + 1] \in Ordinary => Kept(s, n + 1) = Kept(s, n) \cup {n + 1}
           /\ s[n + 1] \notin Ordinary \cup {".."} => Kept(s, n + 1) = Kept(s, n)
           /\ s[n + 1] = ".." /\ Kept(s, n) = {} => Kept(s, n + 1) = {}
           /\ s[n + 1] = ".." /\ Kept(s, n) # {} =>
                \E x \in Kept(s, n) : /\ \A y \in Kept(s, n) : y <= x
                                      /\ Kept(s, n + 1) = Kept(s, n) \ {x}
  <1>1. ASSUME NEW i \in Kept(s, n)
        PROVE  /\ i \in 1..n /\ Depth(s, i, n) \in Nat
               /\ s[n + 1] \in Ordinary => Depth(s, i, n + 1) = Depth(s, i, n) + 1
               /\ s[n + 1] = ".." => Depth(s, i, n + 1) = Depth(s, i, n) - 1
               /\ s[n + 1] \notin Ordinary \cup {".."} =>
                    Depth(s, i, n + 1) = Depth(s, i, n)
    <2>1. i \in 1..n /\ Depth(s, i, n) \in Nat
      BY KeptFinite
    <2>2. Depth(s, i, n + 1) = CASE s[n + 1] \in Ordinary -> Depth(s, i, n) + 1
                                 [] s[n + 1] = ".." -> Depth(s, i, n) - 1
                                 [] OTHER -> Depth(s, i, n)
      BY <2>1, DepthNext
    <2>3. QED
      BY <2>1, <2>2, OrdinaryNames
  <1>2. Kept(s, n) \subseteq 1..n /\ Kept(s, n + 1) \subseteq 1..(n + 1)
    BY KeptFinite
  <1>3. 1..(n + 1) = (1..n) \cup {n + 1} /\ n + 1 \notin 1..n
    OBVIOUS
  <1>4. /\ \A i \in 1..n : i \in Kept(s, n + 1) <=>
                           i \in Kept(s, n) /\ Depth(s, i, n + 1) >= 0
        /\ n + 1 \in Kept(s, n + 1) <=> s[n + 1] \in Ordinary
    BY KeptMember
  <1>5. ASSUME s[n + 1] # ".." PROVE \A i \in Kept(s, n) : Depth(s, i, n + 1) >= 0
    BY <1>1, <1>5
  <1>6. s[n + 1] \in Ordinary => Kept(s, n + 1) = Kept(s, n) \cup {n + 1}
    <2>1. SUFFICES ASSUME s[n + 1] \in Ordinary
                   PROVE  Kept(s, n + 1) = Kept(s, n) \cup {n + 1}
      OBVIOUS
    <2>2. \A i \in 1..n : i \in Kept(s, n + 1) <=> i \in Kept(s, n)
      BY <1>4, <1>5, <2>1, OrdinaryNames
    <2>3. QED
      BY <1>2, <1>3, <1>4, <2>1, <2>2, Zenon
  <1>7. s[n + 1] \notin Ordinary \cup {".."} => Kept(s, n + 1) = Kept(s, n)
    <2>1. SUFFICES ASSUME s[n + 1] \notin Ordinary \cup {".."}
                   PROVE  Kept(s, n + 1) = Kept(s, n)
      OBVIOUS
    <2>2. \A i \in 1..n : i \in Kept(s, n + 1) <=> i \in Kept(s, n)
      BY <1>4, <1>5, <2>1
    <2>3. n + 1 \notin Kept(s, n + 1)
      BY <1>4, <2>1
    <2>4. QED
      BY <1>2, <1>3, <2>2, <2>3, Zenon
  <1>8. ASSUME s[n + 1] = ".."
        PROVE  Kept(s, n + 1) = {i \in Kept(s, n) : Depth(s, i, n) >= 1}
    <2>1. n + 1 \notin Kept(s, n + 1)
      BY <1>4, <1>8, OrdinaryNames
    <2>2. \A i \in Kept(s, n) : Depth(s, i, n + 1) >= 0 <=> Depth(s, i, n) >= 1
      BY <1>1, <1>8
    <2>3. \A i \in 1..n : i \in Kept(s, n + 1) <=>
                          i \in Kept(s, n) /\ Depth(s, i, n) >= 1
      BY <1>4, <2>2
    <2>4. QED
      BY <1>2, <1>3, <2>1, <2>3, Zenon
  <1>9. s[n + 1] = ".." /\ Kept(s, n) = {} => Kept(s, n + 1) = {}
    BY <1>8, Zenon
  <1>10. s[n + 1] = ".." /\ Kept(s, n) # {} =>
           \E x \in Kept(s, n) : /\ \A y \in Kept(s, n) : y <= x
                                 /\ Kept(s, n + 1) = Kept(s, n) \ {x}
    <2>1. SUFFICES ASSUME s[n + 1] = "..", Kept(s, n) # {}
                   PROVE  \E x \in Kept(s, n) :
                             /\ \A y \in Kept(s, n) : y <= x
                             /\ Kept(s, n + 1) = Kept(s, n) \ {x}
      OBVIOUS
    <2>2. Kept(s, n) \subseteq 0..n
      BY <1>2
    <2>3. PICK x \in Kept(s, n) : \A y \in Kept(s, n) : y <= x
      BY <2>1, <2>2, Greatest
    <2>4. Depth(s, x, n) = 0
      BY <2>3, LastKept
    <2>5. ASSUME NEW i \in Kept(s, n), i # x PROVE Depth(s, i, n) >= 1
      <3>1. i < x
        BY <1>2, <2>3, <2>5
      <3>2. QED
        BY <3>1, EarlierKept
    <2>6. \A i \in Kept(s, n) : Depth(s, i, n) >= 1 <=> i # x
      BY <2>4, <2>5
    <2>7. Kept(s, n + 1) = Kept(s, n) \ {x}
      BY <1>8, <2>1, <2>6
    <2>8. QED
      BY <2>3, <2>7
  <1>11. QED
    BY <1>6, <1>7, <1>9, <1>10, Zenon
-----------------------------------------------------------------------------
(* The kept names, in their order.                                         *)

LEMMA IsSequence ==
    ASSUME NEW m \in Nat, NEW f, DOMAIN f = 1..m, f = [k \in 1..m |-> f[k]]
    PROVE  f \in Seq({f[k] : k \in 1..m}) /\ Len(f) = m
  <1> DEFINE V == {f[k] : k \in 1..m}
  <1>1. f \in [1..m -> V]
    OBVIOUS
  <1>2. f \in UNION {[1..n -> V] : n \in Nat}
    BY <1>1
  <1>3. f \in Seq(V)
    BY <1>2, SeqDef, Zenon
  <1>4. Len(f) \in Nat /\ DOMAIN f = 1..Len(f)
    BY <1>3, LenProperties
  <1>5. \A k \in Nat : 1..k = 1..m => k = m
    OBVIOUS
  <1>6. Len(f) = m
    BY <1>4, <1>5
  <1>7. QED
    BY <1>3, <1>6

LEMMA ListedIsSeq ==
    ASSUME NEW s, NEW S, IsFiniteSet(S)
    PROVE  \E A : Listed(s, S) \in Seq(A)
  <1>1. Cardinality(S) \in Nat
    BY FS_CardinalityType
  <1>2. /\ DOMAIN Listed(s, S) = 1..Cardinality(S)
        /\ Listed(s, S) = [k \in 1..Cardinality(S) |-> Listed(s, S)[k]]
    BY DEF Listed
  <1>3. QED
    BY <1>1, <1>2, IsSequence

\* The places of S, and one behind all of them.
LEMMA ListedMore ==
    ASSUME NEW s, NEW S, S \subseteq Nat, IsFiniteSet(S), NEW x \in Nat,
           \A y \in S : y < x
    PROVE  Listed(s, S \cup {x}) = Append(Listed(s, S), s[x])
  <1> DEFINE T == S \cup {x}
             m == Cardinality(S)
             Upto(U, j) == Cardinality({h \in U : h <= j})
             At(U, k) == {j \in U : Upto(U, j) = k}
  <1>1. m \in Nat /\ Cardinality(T) = m + 1 /\ x \notin S
    BY FS_CardinalityType, FS_AddElement
  <1>2. ASSUME NEW j \in S PROVE Upto(T, j) = Upto(S, j) /\ Upto(S, j) <= m
    <2>1. {h \in T : h <= j} = {h \in S : h <= j}
      BY <1>2
    <2>2. {h \in S : h <= j} \in SUBSET S
      OBVIOUS
    <2>3. QED
      BY <2>1, <2>2, FS_Subset
  <1>3. Upto(T, x) = m + 1
    <2>1. \A h \in T : h <= x
      OBVIOUS
    <2>2. {h \in T : h <= x} = T
      BY <2>1, Zenon
    <2>3. QED
      BY <1>1, <2>2
  <1> HIDE DEF Upto
  <1>4. ASSUME NEW k \in 1..m PROVE Nth(T, k) = Nth(S, k)
    <2>1. k # m + 1
      BY <1>1
    <2>2. At(T, k) = At(S, k)
      BY <1>2, <1>3, <2>1, Zenon
    <2>3. QED
      BY <2>2, Zenon DEF Nth, Upto
  <1>5. Nth(T, m + 1) = x
    <2>1. \A j \in S : Upto(T, j) # m + 1
      <3>1. ASSUME NEW j \in S PROVE Upto(T, j) # m + 1
        <4>1. Upto(T, j) <= m
          BY <1>2
        <4> HIDE DEF T, m
        <4>2. QED
          BY <1>1, <4>1
      <3>2. QED
        BY <3>1
    <2>2. At(T, m + 1) = {x}
      BY <1>3, <2>1, Zenon
    <2>3. Nth(T, m + 1) \in {x}
      BY <2>2, Zenon DEF Nth, Upto
    <2>4. QED
      BY <2>3
  <1>6. Listed(s, S) = [k \in 1..m |-> s[Nth(S, k)]]
    BY DEF Listed
  <1>7. Listed(s, T) = [k \in 1..(m + 1) |-> s[Nth(T, k)]]
    BY <1>1 DEF Listed
  <1> HIDE DEF T, m
  <1>8. Len(Listed(s, S)) = m
    BY <1>1, <1>6, IsSequence
  <1>9. Append(Listed(s, S), s[x]) =
          [k \in 1..(m + 1) |-> IF k = m + 1 THEN s[x] ELSE Listed(s, S)[k]]
    BY <1>1, <1>6, <1>8
  <1>10. \A k \in 1..(m + 1) :
            s[Nth(T, k)] = IF k = m + 1 THEN s[x] ELSE Listed(s, S)[k]
    BY <1>1, <1>4, <1>5, <1>6
  <1>11. QED
    BY <1>7, <1>9, <1>10 DEF T

\* Names only: each of them is kept, in its place.
LEMMA ListedNames ==
    ASSUME NEW s, NEW n \in Nat, \A i \in 1..n : s[i] \in Ordinary
    PROVE  Listed(s, Kept(s, n)) = [k \in 1..n |-> s[k]]
  <1>1. ASSUME NEW i \in 1..n, NEW j \in i..n PROVE Depth(s, i, j) >= 0
    <2>1. {k \in (i + 1)..j : s[k] \in {".."}} = {}
      BY OrdinaryNames
    <2>2. Count(s, i + 1, j, {".."}) = 0
      BY <2>1, FS_EmptySet DEF Count
    <2>3. Count(s, i + 1, j, Ordinary) \in Nat
      <3>1. i + 1 \in Int /\ j \in Int
        OBVIOUS
      <3>2. QED
        BY <3>1, CountType, Zenon
    <2>4. QED
      BY <2>2, <2>3 DEF Depth
  <1>2. Kept(s, n) = 1..n
    BY <1>1, Zenon DEF Kept
  <1>3. Cardinality(1..n) = n
    BY FS_Interval
  <1> DEFINE Upto(j) == Cardinality({h \in 1..n : h <= j})
  <1>4. ASSUME NEW j \in 1..n PROVE Upto(j) = j
    <2>1. {h \in 1..n : h <= j} = 1..j
      OBVIOUS
    <2>2. Cardinality(1..j) = j
      BY FS_Interval
    <2>3. QED
      BY <2>1, <2>2
  <1> HIDE DEF Upto
  <1>5. ASSUME NEW k \in 1..n PROVE Nth(1..n, k) = k
    <2>1. {j \in 1..n : Upto(j) = k} = {k}
      BY <1>4, Zenon
    <2>2. Nth(1..n, k) \in {k}
      BY <2>1, Zenon DEF Nth, Upto
    <2>3. QED
      BY <2>2
  <1>6. Listed(s, 1..n) = [k \in 1..n |-> s[Nth(1..n, k)]]
    BY <1>3 DEF Listed
  <1>7. QED
    BY <1>2, <1>5, <1>6
-----------------------------------------------------------------------------
(* The loop of luftpd_resolve_path.                                        *)

LEMMA RealPaths ==
    /\ Root \in Seq(Ordinary)
    /\ \A d \in Dirs : d \in Seq(Ordinary)
  <1>1. ASSUME NEW d \in Dirs PROVE d \in Seq(Ordinary)
    <2>1. d \in Seq(Names \ {".", ".."})
      BY PathAssumption
    <2>2. Len(d) \in Nat /\ d \in [1..Len(d) -> Names \ {".", ".."}]
      BY <2>1, LenProperties
    <2>3. d \in [1..Len(d) -> Ordinary]
      BY <2>2 DEF Ordinary
    <2>4. d \in UNION {[1..n -> Ordinary] : n \in Nat}
      BY <2>2, <2>3
    <2>5. QED
      BY <2>4, SeqDef, Zenon
  <1>2. QED
    BY <1>1, PathAssumption

\* One component moves a path below the root.
LEMMA WalkBelow ==
    ASSUME NEW A, NEW u \in Seq(A)
    PROVE  /\ Walk(Root \o u, ".") = Root \o u
           /\ u = <<>> => Walk(Root \o u, "..") = Root \o u
           /\ \A e \in A : Walk(Root \o Append(u, e), "..") = Root \o u
           /\ \A c : c \notin {".", ".."} => Walk(Root \o u, c) = Root \o Append(u, c)
  <1> DEFINE B == Ordinary \cup A
  <1>1. Root \in Seq(B) /\ u \in Seq(B)
    BY RealPaths
  <1>2. Walk(Root \o u, ".") = Root \o u
    BY DEF Walk
  <1>3. u = <<>> => Walk(Root \o u, "..") = Root \o u
    BY <1>1 DEF Walk
  <1>4. ASSUME NEW e \in A PROVE Walk(Root \o Append(u, e), "..") = Root \o u
    <2> DEFINE p == Root \o Append(u, e)
    <2>1. Append(u, e) \in Seq(B) /\ e \in B
      BY <1>1, AppendProperties
    <2>2. p = Append(Root \o u, e) /\ Root \o u \in Seq(B)
      BY <1>1, <2>1
    <2>3. Len(p) = Len(Root) + Len(u) + 1 /\ Len(Root) \in Nat /\ Len(u) \in Nat
      BY <1>1, <2>1
    <2>4. Front(p) = Root \o u
      BY <2>1, <2>2 DEF Front
    <2> HIDE DEF p
    <2>5. Walk(p, "..") = Front(p)
      BY <2>3 DEF Walk
    <2>6. QED
      BY <2>4, <2>5 DEF p
  <1>5. ASSUME NEW c, c \notin {".", ".."} PROVE Walk(Root \o u, c) = Root \o Append(u, c)
    <2> DEFINE E == B \cup {c}
    <2>1. Root \in Seq(E) /\ u \in Seq(E) /\ c \in E
      BY <1>1
    <2> HIDE DEF E
    <2>2. Append(Root \o u, c) = Root \o Append(u, c)
      BY <2>1
    <2>3. QED
      BY <1>5, <2>2 DEF Walk
  <1>6. QED
    BY <1>2, <1>3, <1>4, <1>5

LEMMA WalkListed ==
    ASSUME NEW s, NEW n \in Nat, s[n + 1] \in Components
    PROVE  Walk(Root \o Listed(s, Kept(s, n)), s[n + 1]) = Root \o Listed(s, Kept(s, n + 1))
  <1> DEFINE c == s[n + 1]
             K == Kept(s, n)
             u == Listed(s, K)
  <1>1. \A S : IsFiniteSet(S) => \E A : Listed(s, S) \in Seq(A)
    BY ListedIsSeq
  <1>2. K \subseteq 1..n /\ IsFiniteSet(K)
    BY KeptFinite
  <1>3. PICK A : u \in Seq(A)
    BY <1>1, <1>2
  <1>4. CASE c \in Ordinary
    <2>1. Kept(s, n + 1) = K \cup {n + 1}
      BY <1>4, KeptNext
    <2>2. K \subseteq Nat /\ n + 1 \in Nat /\ \A y \in K : y < n + 1
      BY <1>2
    <2> HIDE DEF K
    <2>3. Listed(s, K \cup {n + 1}) = Append(Listed(s, K), s[n + 1])
      BY <1>2, <2>2, ListedMore
    <2>4. c \notin {".", ".."}
      BY <1>4, OrdinaryNames
    <2> HIDE DEF c, u
    <2>5. Walk(Root \o u, c) = Root \o Append(u, c)
      BY <1>3, <2>4, WalkBelow
    <2>6. QED
      BY <2>1, <2>3, <2>5 DEF c, u, K
  <1>5. CASE c = "."
    <2>1. c \notin Ordinary \cup {".."}
      BY <1>5, OrdinaryNames
    <2>2. Kept(s, n + 1) = K
      BY <2>1, KeptNext
    <2>3. QED
      BY <1>3, <1>5, <2>2, WalkBelow
  <1>6. CASE c = ".." /\ K = {}
    <2>1. Kept(s, n + 1) = {}
      BY <1>6, KeptNext
    <2>2. u = <<>>
      BY <1>6, FS_EmptySet DEF Listed
    <2>3. QED
      BY <1>3, <1>6, <2>1, <2>2, WalkBelow
  <1>7. CASE c = ".." /\ K # {}
    <2>1. PICK x \in K : (\A y \in K : y <= x) /\ Kept(s, n + 1) = K \ {x}
      BY <1>7, KeptNext
    <2> DEFINE S == K \ {x}
    <2>2. S \subseteq Nat /\ IsFiniteSet(S) /\ x \in Nat /\ K = S \cup {x}
      BY <1>2, FS_RemoveElement
    <2>3. \A y \in S : y < x
      BY <1>2, <2>1
    <2> HIDE DEF S
    <2>4. Listed(s, K) = Append(Listed(s, S), s[x])
      BY <2>2, <2>3, ListedMore
    <2>5. PICK V : Listed(s, S) \in Seq(V)
      BY <1>1, <2>2
    <2>6. Listed(s, S) \in Seq(V \cup {s[x]}) /\ s[x] \in V \cup {s[x]}
      BY <2>5
    <2>7. Walk(Root \o Append(Listed(s, S), s[x]), "..") = Root \o Listed(s, S)
      BY <2>6, WalkBelow
    <2>8. QED
      BY <1>7, <2>1, <2>4, <2>7 DEF S
  <1>8. QED
    BY <1>4, <1>5, <1>6, <1>7 DEF Components, Ordinary

\* Behind every number of components the loop has listed the names that are
\* kept of them and of the path it started from.
LEMMA ResultIsListed ==
    ASSUME NEW below \in Seq(Ordinary), NEW comps \in Seq(Components)
    PROVE  LET s == below \o comps
           IN  ResultPath(Root \o below, comps)[Len(comps)]
                 = Root \o Listed(s, Kept(s, Len(s)))
  <1> DEFINE s == below \o comps
             J == Len(below)
             at == ResultPath(Root \o below, comps)
             Right(n) == at[n] = Root \o Listed(s, Kept(s, J + n))
             Wrong == {n \in 0..Len(comps) : ~Right(n)}
  <1>1. J \in Nat /\ Len(comps) \in Nat /\ Len(s) = J + Len(comps)
    BY LenProperties, ConcatProperties
  <1>2. /\ \A i \in 1..J : s[i] = below[i] /\ below[i] \in Ordinary
        /\ \A i \in 1..Len(comps) : s[J + i] = comps[i] /\ comps[i] \in Components
    BY <1>1
  <1>3. at[0] = Root \o below /\ \A n \in 1..Len(comps) : at[n] = Walk(at[n - 1], comps[n])
    <2> DEFINE base == Root \o below
    <2> HIDE DEF base
    <2>1. /\ ResultPath(base, comps)[0] = base
          /\ \A n \in 1..Len(comps) :
               ResultPath(base, comps)[n] = Walk(ResultPath(base, comps)[n - 1], comps[n])
      BY LoopStep
    <2>2. QED
      BY <2>1 DEF base
  <1>4. Right(0)
    <2>1. Listed(s, Kept(s, J)) = [k \in 1..J |-> s[k]]
      BY <1>1, <1>2, ListedNames
    <2>2. [k \in 1..J |-> s[k]] = below
      BY <1>1, <1>2
    <2>3. at[0] = Root \o below
      BY <1>1, <1>3
    <2>4. J + 0 = J
      BY <1>1
    <2> HIDE DEF J, s, at
    <2>5. QED
      BY <2>1, <2>2, <2>3, <2>4
  <1>5. ASSUME NEW n \in 1..Len(comps), Right(n - 1) PROVE Right(n)
    <2> DEFINE m == J + (n - 1)
    <2>1. m \in Nat /\ m + 1 = J + n
      BY <1>1
    <2>2. s[m + 1] = comps[n] /\ s[m + 1] \in Components
      BY <1>2, <2>1
    <2>3. at[n - 1] = Root \o Listed(s, Kept(s, m))
      BY <1>5
    <2> HIDE DEF m, s, at
    <2>4. at[n] = Walk(at[n - 1], comps[n])
      BY <1>1, <1>3
    <2>5. Walk(Root \o Listed(s, Kept(s, m)), s[m + 1]) = Root \o Listed(s, Kept(s, m + 1))
      BY <2>1, <2>2, WalkListed
    <2>6. QED
      BY <2>1, <2>2, <2>3, <2>4, <2>5
  <1> HIDE DEF s, at, Right
  <1>6. Wrong = {}
    <2> SUFFICES ASSUME Wrong # {} PROVE FALSE
      OBVIOUS
    <2>1. PICK n \in Wrong : \A k \in Wrong : n <= k
      <3>1. Wrong \subseteq Nat
        OBVIOUS
      <3> HIDE DEF Wrong
      <3>2. QED
        BY <3>1, Least
    <2>2. n # 0 /\ n \in 0..Len(comps) /\ ~Right(n)
      BY <1>4, <2>1
    <2>3. n \in 1..Len(comps) /\ n - 1 \in 0..Len(comps) /\ ~(n <= n - 1)
      BY <1>1, <2>2
    <2>4. Right(n - 1)
      BY <2>1, <2>3
    <2>5. QED
      BY <1>5, <2>2, <2>3, <2>4
  <1>7. Right(Len(comps))
    BY <1>1, <1>6
  <1>8. QED
    BY <1>1, <1>7 DEF Right, s, at

LEMMA NormalIsListed ==
    ASSUME NEW s \in Seq(Components)
    PROVE  Normal(s) = Listed(s, Kept(s, Len(s)))
  <1>1. Len(s) \in Nat /\ DOMAIN s = 1..Len(s)
    BY LenProperties
  <1>2. ASSUME NEW i \in 1..Len(s), NEW j \in i..Len(s)
        PROVE  Count(s, i + 1, j, {".."}) <= Count(s, i + 1, j, Names \cup {"new"})
               <=> Depth(s, i, j) >= 0
    <2>1. i + 1 \in Int /\ j \in Int
      BY <1>1
    <2>2. Count(s, i + 1, j, {".."}) \in Nat /\ Count(s, i + 1, j, Ordinary) \in Nat
      BY <2>1, CountType, Zenon
    <2>3. QED
      BY <2>2 DEF Depth, Ordinary
  <1>3. \A i \in 1..Len(s) : s[i] \notin {".", ".."} <=> s[i] \in Ordinary
    <2>1. \A i \in 1..Len(s) : s[i] \in Components
      OBVIOUS
    <2>2. QED
      BY <2>1, OrdinaryNames DEF Components, Ordinary
  <1>4. ASSUME NEW i \in 1..Len(s)
        PROVE  Survives(s, i) <=> s[i] \in Ordinary /\ \A j \in i..Len(s) : Depth(s, i, j) >= 0
    BY <1>2, <1>3, Zenon DEF Survives
  <1>5. {i \in DOMAIN s : Survives(s, i)} = Kept(s, Len(s))
    BY <1>1, <1>4, Zenon DEF Kept
  <1>6. QED
    BY <1>5 DEF Normal
-----------------------------------------------------------------------------
(* luftpd_resolve_path.                                                    *)

\* What the function does with a path that climbs as well: the root is its own
\* parent.
Clamped ==
    output # Pending =>
      /\ output = IF CurrentIsInRoot THEN Ok(Meaning) ELSE Fail
      /\ output # Fail => IsPrefix(Root, output[2])

PathInv ==
    /\ current_dir \in {PathString(TRUE, d) : d \in Dirs}
    /\ arg \in Arguments
    /\ Clamped

LEMMA RootIsPrefix ==
    ASSUME NEW A, NEW u \in Seq(A)
    PROVE  IsPrefix(Root, Root \o u)
  <1>1. Root \in Seq(Ordinary \cup A) /\ u \in Seq(Ordinary \cup A)
    BY RealPaths
  <1>2. QED
    BY <1>1 DEF IsPrefix

\* The part of a path behind its prefix.
LEMMA BelowRoot ==
    ASSUME NEW d \in Dirs, IsPrefix(Root, d)
    PROVE  Below(d) \in Seq(Ordinary) /\ d = Root \o Below(d)
  <1>1. Root \in Seq(Ordinary) /\ d \in Seq(Ordinary)
    BY RealPaths
  <1>2. Len(Root) <= Len(d) /\ SubSeq(Root, 1, Len(Root)) = SubSeq(d, 1, Len(Root))
    BY DEF IsPrefix
  <1>3. SubSeq(Root, 1, Len(Root)) = Root
    BY <1>1
  <1>4. SubSeq(d, 1, Len(Root)) \o SubSeq(d, Len(Root) + 1, Len(d)) = d
    <2>1. Len(d) \in Nat /\ Len(Root) \in Nat
      BY <1>1, LenProperties
    <2> DEFINE k == Len(Root)
               n == Len(d)
    <2>2. 1 \in 1..(n + 1) /\ k \in (1 - 1)..n /\ n \in k..n
      BY <1>2, <2>1
    <2> HIDE DEF k, n
    <2>3. SubSeq(d, 1, k) \o SubSeq(d, k + 1, n) = SubSeq(d, 1, n)
      BY <1>1, <2>2, ConcatAdjacentSubSeq DEF n
    <2>4. SubSeq(d, 1, Len(d)) = d
      BY <1>1
    <2>5. QED
      BY <2>3, <2>4 DEF k, n
  <1>5. Below(d) \in Seq(Ordinary)
    BY <1>1, <1>2 DEF Below
  <1>6. QED
    BY <1>2, <1>3, <1>4, <1>5 DEF Below

LEMMA ArgumentTypes ==
    ASSUME NEW a \in Arguments
    PROVE  a.abs \in BOOLEAN /\ a.comps \in Seq(Components)
  <1>1. PICK abs \in BOOLEAN, comps \in BoundedSeq(Components, MaxComps) :
            a = PathString(abs, comps)
    BY DEF Arguments
  <1>2. comps \in UNION {[1..m -> Components] : m \in 0..MaxComps}
    BY <1>1 DEF BoundedSeq, SeqOf
  <1>3. comps \in UNION {[1..m -> Components] : m \in Nat}
    BY <1>2, PathAssumption
  <1>4. comps \in Seq(Components)
    BY <1>3, SeqDef, Zenon
  <1>5. QED
    BY <1>1, <1>4 DEF PathString

\* What luftpd_resolve_path returns for a current path of the machine.
LEMMA ResolveFacts ==
    ASSUME NEW d \in Dirs, NEW a \in Arguments
    PROVE  /\ ResolvePath(PathString(TRUE, d), a) =
                IF IsPrefix(Root, d) /\ (Root = <<>> => d = <<>>)
                THEN Ok(Root \o Normal((IF a.abs THEN <<>> ELSE Below(d)) \o a.comps))
                ELSE Fail
           /\ ResolvePath(PathString(TRUE, d), a) # Fail
                => IsPrefix(Root, ResolvePath(PathString(TRUE, d), a)[2])
  <1> DEFINE below == IF a.abs THEN <<>> ELSE Below(d)
             base == IF a.abs THEN Root ELSE d
             s == below \o a.comps
             result == ResultPath(base, a.comps)[Len(a.comps)]
             inside == IsPrefix(Root, d) /\ (Root = <<>> => d = <<>>)
  <1>1. a.abs \in BOOLEAN /\ a.comps \in Seq(Components)
    BY ArgumentTypes
  <1>2. Root \in Seq(Ordinary) /\ d \in Seq(Ordinary)
    BY RealPaths
  <1>3. CurrentInRoot(d) <=> inside
    BY <1>2 DEF CurrentInRoot, IsPrefix
  <1>4. ResolvePath(PathString(TRUE, d), a) =
          IF inside /\ IsPrefix(Root, result) THEN Ok(result) ELSE Fail
    BY <1>3 DEF ResolvePath, RealPath, PathString
  <1>5. ASSUME inside PROVE result = Root \o Normal(s) /\ IsPrefix(Root, result)
    <2>1. below \in Seq(Ordinary) /\ base = Root \o below
      BY <1>1, <1>2, <1>5, BelowRoot
    <2>2. s \in Seq(Components)
      <3>1. below \in Seq(Components)
        BY <2>1 DEF Components, Ordinary
      <3> HIDE DEF below
      <3>2. QED
        BY <1>1, <3>1, ConcatProperties
    <2>3. Normal(s) = Listed(s, Kept(s, Len(s)))
      BY <2>2, NormalIsListed
    <2>4. ResultPath(Root \o below, a.comps)[Len(a.comps)] = Root \o Listed(s, Kept(s, Len(s)))
      <3> HIDE DEF below
      <3>1. QED
        BY <1>1, <2>1, ResultIsListed
    <2> HIDE DEF s, below, base
    <2>5. result = Root \o Normal(s)
      BY <2>1, <2>3, <2>4
    <2>6. \E A : Normal(s) \in Seq(A)
      BY <2>3, <2>2, ListedIsSeq, KeptFinite
    <2>7. QED
      BY <2>5, <2>6, RootIsPrefix
  <1> HIDE DEF inside, result, s
  <1>6. Ok(result)[2] = result
    BY DEF Ok
  <1>7. ResolvePath(PathString(TRUE, d), a) = IF inside THEN Ok(result) ELSE Fail
    BY <1>4, <1>5, Zenon
  <1>8. /\ inside => ResolvePath(PathString(TRUE, d), a) = Ok(Root \o Normal(s))
        /\ ~inside => ResolvePath(PathString(TRUE, d), a) = Fail
    BY <1>5, <1>7, Zenon
  <1>9. ResolvePath(PathString(TRUE, d), a) # Fail
          => IsPrefix(Root, ResolvePath(PathString(TRUE, d), a)[2])
    BY <1>5, <1>6, <1>7, Zenon
  <1>10. QED
    BY <1>8, <1>9, Zenon DEF inside, s

LEMMA PathInit == CallInit => PathInv
  BY DEF CallInit, PathInv, Clamped

LEMMA PathStep == PathInv /\ [Call]_pathVars => PathInv'
  <1> SUFFICES ASSUME PathInv, [Call]_pathVars PROVE PathInv'
    OBVIOUS
  <1>1. CASE Call
    <2>1. /\ current_dir' = current_dir /\ arg' = arg
          /\ output' = ResolvePath(current_dir, arg)
      BY <1>1 DEF Call
    <2>2. PICK d \in Dirs : current_dir = PathString(TRUE, d)
      BY DEF PathInv
    <2>3. arg \in Arguments /\ current_dir.comps = d
      BY <2>2 DEF PathInv, PathString
    <2>4. /\ output' = IF IsPrefix(Root, d) /\ (Root = <<>> => d = <<>>)
                       THEN Ok(Root \o Normal((IF arg.abs THEN <<>> ELSE Below(d)) \o arg.comps))
                       ELSE Fail
          /\ output' # Fail => IsPrefix(Root, output'[2])
      BY <2>1, <2>2, <2>3, ResolveFacts
    <2>5. CurrentIsInRoot <=> IsPrefix(Root, d) /\ (Root = <<>> => d = <<>>)
      BY <2>3, RealPaths DEF CurrentIsInRoot, IsPrefix
    <2>6. CurrentIsInRoot' <=> CurrentIsInRoot
      BY <2>1, Zenon DEF CurrentIsInRoot
    <2>7. Meaning' = Root \o Normal((IF arg.abs THEN <<>> ELSE Below(d)) \o arg.comps)
      BY <2>1, <2>3, Zenon DEF Meaning, FromRoot
    <2>8. Clamped'
      BY <2>4, <2>5, <2>6, <2>7, Zenon DEF Clamped
    <2>9. QED
      BY <2>1, <2>8 DEF PathInv
  <1>2. CASE UNCHANGED pathVars
    <2>1. current_dir' = current_dir /\ arg' = arg /\ output' = output
      BY <1>2 DEF pathVars
    <2>2. QED
      BY <2>1, Zenon DEF PathInv, Clamped, CurrentIsInRoot, Meaning, FromRoot
  <1>3. QED
    BY <1>1, <1>2

\* luftpd_resolve_path: for every root, every directory and every path of the
\* client that does not climb out of the root, of any length, the loop with its
\* comparison of string lengths finds the path that the components mean; for a
\* current path outside the root it fails, and no path leads out of the root.
THEOREM PathsAreResolved == PathSpec => []ResolvesMeaning
  <1>1. PathInv => ResolvesMeaning
    BY DEF PathInv, Clamped, ResolvesMeaning
  <1>2. QED
    BY PathInit, PathStep, <1>1, PTL DEF PathSpec

LEMMA RootIsOutside ==
    ASSUME NEW a, Root # <<>>
    PROVE  ResolvePath(PathString(TRUE, <<>>), a) = Fail
  <1>1. ~IsPrefix(Root, <<>>)
    BY RealPaths DEF IsPrefix
  <1>2. QED
    BY <1>1 DEF ResolvePath, RealPath, PathString, CurrentInRoot

\* luftpd_handle_cwd: the "/" a session starts with is the directory "/" of the
\* machine for luftpd_resolve_path, so with any other root every CWD fails,
\* whatever the client asks for, and leaves the session where it was.
THEOREM CwdsFail == SessionSpec => []EveryCwdFails
  <1>1. SessionInit => EveryCwdFails
    BY DEF SessionInit, EveryCwdFails
  <1>2. EveryCwdFails /\ [HandleCwd]_pathVars => EveryCwdFails'
    <2> SUFFICES ASSUME EveryCwdFails, [HandleCwd]_pathVars, Root # <<>>
                 PROVE  output' = Fail /\ current_dir' = PathString(TRUE, <<>>)
      BY DEF EveryCwdFails
    <2>1. output = Fail /\ current_dir = PathString(TRUE, <<>>)
      BY DEF EveryCwdFails
    <2>2. CASE HandleCwd
      BY <2>1, <2>2, RootIsOutside DEF HandleCwd
    <2>3. CASE UNCHANGED pathVars
      BY <2>1, <2>3 DEF pathVars
    <2>4. QED
      BY <2>2, <2>3
  <1>3. QED
    BY <1>1, <1>2, PTL DEF SessionSpec
=============================================================================
