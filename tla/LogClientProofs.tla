-------------------------- MODULE LogClientProofs --------------------------
(***************************************************************************)
(* Proofs about the logging client: its ring is a bounded FIFO, a          *)
(* connection has one user, and no wakeup is missed.                       *)
(***************************************************************************)
EXTENDS LogClient, SequenceTheorems, TLAPS

-----------------------------------------------------------------------------
(* The ring.                                                               *)

\* A slot that is d behind the head, at most one turn of the ring.
LEMMA Slot ==
    ASSUME NEW C \in Nat \ {0}, NEW h \in 0..(C - 1), NEW d \in 0..C
    PROVE  (h + d) % C = IF h + d < C THEN h + d ELSE h + d - C
  <1>1. \A n \in 0..(C - 1) : n % C = n
    OBVIOUS
  <1>2. \A n \in 0..(C - 1) : (n + C) % C = n
    OBVIOUS
  <1>3. CASE h + d < C
    BY <1>1, <1>3
  <1>4. CASE h + d >= C
    <2>1. h + d - C \in 0..(C - 1) /\ (h + d - C) + C = h + d
      BY <1>4
    <2>2. (h + d) % C = h + d - C
      BY <1>2, <2>1
    <2>3. QED
      BY <1>4, <2>2
  <1>5. QED
    BY <1>3, <1>4

LEMMA NextSlot ==
    ASSUME NEW C \in Nat \ {0}, NEW h \in 0..(C - 1), NEW d \in 0..C, d < C
    PROVE  (((h + d) % C) + 1) % C = (h + (d + 1)) % C
  <1>1. (h + d) % C = IF h + d < C THEN h + d ELSE h + d - C
    BY Slot
  <1>2. (h + (d + 1)) % C = IF h + (d + 1) < C THEN h + (d + 1) ELSE h + (d + 1) - C
    <2>1. d + 1 \in 0..C
      OBVIOUS
    <2>2. QED
      BY <2>1, Slot, Zenon
  <1>3. \A k \in 0..(C - 1) : (k + 1) % C = IF k + 1 < C THEN k + 1 ELSE k + 1 - C
    <2>1. 1 \in 0..C
      OBVIOUS
    <2>2. QED
      BY <2>1, Slot, Zenon
  <1>4. QED
    BY <1>1, <1>2, <1>3

LEMMA SameInterval ==
    ASSUME NEW k \in Nat, NEW n \in Nat, 1..k = 1..n
    PROVE  k = n
  OBVIOUS

Rings == [0..(Capacity - 1) -> 0..MaxLogs]

\* The n logs from slot h on.
Ring(f, h, n) == [j \in 1..n |-> f[(h + j - 1) % Capacity]]

LEMMA RingIsSeq ==
    ASSUME NEW f \in Rings, NEW h \in 0..(Capacity - 1),
           NEW n \in 0..Capacity
    PROVE  /\ Ring(f, h, n) \in Seq(0..MaxLogs) /\ Len(Ring(f, h, n)) = n
           /\ \A j \in 1..n : (h + j - 1) % Capacity \in 0..(Capacity - 1)
           /\ \A j \in 1..n : Ring(f, h, n)[j] = f[(h + j - 1) % Capacity]
  <1>1. Capacity \in Nat \ {0}
    BY ClientAssumption
  <1>2. \A j \in 1..n : (h + j - 1) % Capacity \in 0..(Capacity - 1)
    BY <1>1
  <1>3. \A j \in 1..n : f[(h + j - 1) % Capacity] \in 0..MaxLogs
    BY <1>2 DEF Rings
  <1>4. Ring(f, h, n) \in [1..n -> 0..MaxLogs]
    BY <1>3 DEF Ring
  <1>5. n \in Nat
    BY <1>1
  <1>6. \A j \in 1..n : Ring(f, h, n)[j] = f[(h + j - 1) % Capacity]
    BY DEF Ring
  <1>7. Ring(f, h, n) \in Seq(0..MaxLogs) /\ Len(Ring(f, h, n)) = n
    <2>1. Ring(f, h, n) \in UNION {[1..m -> 0..MaxLogs] : m \in Nat}
      BY <1>4, <1>5, Zenon
    <2>2. Ring(f, h, n) \in Seq(0..MaxLogs)
      BY <2>1, SeqDef, Zenon
    <2>3. /\ DOMAIN Ring(f, h, n) = 1..n
          /\ DOMAIN Ring(f, h, n) = 1..Len(Ring(f, h, n)) /\ Len(Ring(f, h, n)) \in Nat
      BY <1>4, <2>2, LenProperties, Zenon
    <2>4. QED
      BY <1>5, <2>2, <2>3, SameInterval
  <1>8. QED
    BY <1>2, <1>6, <1>7

\* log_queue_enqueue puts a log behind the others and leaves them alone.
LEMMA RingEnqueue ==
    ASSUME NEW f \in Rings, NEW h \in 0..(Capacity - 1),
           NEW n \in 0..Capacity, n < Capacity, NEW m \in 0..MaxLogs
    PROVE  Ring([f EXCEPT ![(h + n) % Capacity] = m], h, n + 1) = Append(Ring(f, h, n), m)
  <1> DEFINE g == [f EXCEPT ![(h + n) % Capacity] = m]
  <1>1. Capacity \in Nat \ {0} /\ n \in Nat /\ n + 1 \in 0..Capacity
    BY ClientAssumption
  <1>2. g \in Rings
    BY DEF Rings
  <1>3. \A j \in 1..n : (h + j - 1) % Capacity # (h + n) % Capacity
    <2> SUFFICES ASSUME NEW j \in 1..n
                 PROVE  (h + j - 1) % Capacity # (h + n) % Capacity
      OBVIOUS
    <2>1. j - 1 \in 0..Capacity /\ h + j - 1 = h + (j - 1)
      BY <1>1
    <2>2. (h + (j - 1)) % Capacity = IF h + (j - 1) < Capacity THEN h + (j - 1)
                                     ELSE h + (j - 1) - Capacity
      BY <1>1, <2>1, Slot
    <2>3. (h + n) % Capacity = IF h + n < Capacity THEN h + n ELSE h + n - Capacity
      BY <1>1, Slot
    <2>4. QED
      BY <1>1, <2>1, <2>2, <2>3
  <1>4. (h + n) % Capacity \in 0..(Capacity - 1)
    BY <1>1
  <1>11. /\ \A x \in 0..(Capacity - 1) : x # (h + n) % Capacity => g[x] = f[x]
         /\ g[(h + n) % Capacity] = m
    BY <1>4 DEF Rings
  <1>5. /\ Ring(f, h, n) \in Seq(0..MaxLogs) /\ Len(Ring(f, h, n)) = n
        /\ \A j \in 1..n : (h + j - 1) % Capacity \in 0..(Capacity - 1)
        /\ \A j \in 1..n : Ring(f, h, n)[j] = f[(h + j - 1) % Capacity]
    BY RingIsSeq, Zenon
  <1>6. /\ Ring(g, h, n + 1) \in Seq(0..MaxLogs) /\ Len(Ring(g, h, n + 1)) = n + 1
        /\ \A j \in 1..n + 1 : Ring(g, h, n + 1)[j] = g[(h + j - 1) % Capacity]
    <2> HIDE DEF g
    <2>1. QED
      BY <1>1, <1>2, RingIsSeq, Zenon
  <1>7. \A j \in 1..n : Ring(g, h, n + 1)[j] = Ring(f, h, n)[j]
    <2> SUFFICES ASSUME NEW j \in 1..n PROVE Ring(g, h, n + 1)[j] = Ring(f, h, n)[j]
      OBVIOUS
    <2>1. j \in 1..n + 1
      BY <1>1
    <2>2. QED
      BY <1>3, <1>5, <1>6, <1>11, <2>1
  <1>8. Ring(g, h, n + 1)[n + 1] = m
    <2>1. n + 1 \in 1..n + 1 /\ h + (n + 1) - 1 = h + n
      BY <1>1
    <2>2. QED
      BY <1>6, <1>11, <2>1
  <1> HIDE DEF g
  <1>9. Ring(g, h, n + 1) = Append(Ring(f, h, n), m)
    BY <1>1, <1>5, <1>6, <1>7, <1>8
  <1>10. QED
    BY <1>9 DEF g

\* log_queue_dequeue takes the oldest log.
LEMMA RingDequeue ==
    ASSUME NEW f \in Rings, NEW h \in 0..(Capacity - 1),
           NEW n \in 0..Capacity, n > 0
    PROVE  /\ (h + 1) % Capacity \in 0..(Capacity - 1)
           /\ (((h + 1) % Capacity) + (n - 1)) % Capacity = (h + n) % Capacity
           /\ Ring(f, h, n) = <<f[h]>> \o Ring(f, (h + 1) % Capacity, n - 1)
  <1> DEFINE k == (h + 1) % Capacity
             q == Ring(f, k, n - 1)
  <1>1. Capacity \in Nat \ {0} /\ n \in Nat /\ n - 1 \in 0..Capacity /\ n - 1 \in Nat
    BY ClientAssumption
  <1>2. k \in 0..(Capacity - 1)
    BY <1>1
  <1>3. \A d \in 0..n - 1 : (k + d) % Capacity = (h + 1 + d) % Capacity
    <2> SUFFICES ASSUME NEW d \in 0..n - 1
                 PROVE  (k + d) % Capacity = (h + 1 + d) % Capacity
      OBVIOUS
    <2>0. /\ Capacity \in Nat \ {0} /\ 1 \in 0..Capacity
          /\ d \in 0..Capacity /\ 1 + d \in 0..Capacity
      BY <1>1
    <2>1. k = IF h + 1 < Capacity THEN h + 1 ELSE h + 1 - Capacity
      BY <2>0, Slot, Zenon
    <2>2. (k + d) % Capacity = IF k + d < Capacity THEN k + d ELSE k + d - Capacity
      BY <2>0, <1>2, Slot, Zenon
    <2>3. (h + (1 + d)) % Capacity = IF h + (1 + d) < Capacity THEN h + (1 + d)
                                     ELSE h + (1 + d) - Capacity
      BY <2>0, Slot, Zenon
    <2>4. h + (1 + d) = h + 1 + d
      BY <1>1
    <2>5. k \in Nat /\ k + d < Capacity + Capacity
      BY <1>1, <1>2
    <2> HIDE DEF k
    <2>6. QED
      BY <1>1, <2>1, <2>2, <2>3, <2>4, <2>5
  <1>4. /\ Ring(f, h, n) \in Seq(0..MaxLogs) /\ Len(Ring(f, h, n)) = n
        /\ \A j \in 1..n : Ring(f, h, n)[j] = f[(h + j - 1) % Capacity]
    BY RingIsSeq, Zenon
  <1>5. /\ q \in Seq(0..MaxLogs) /\ Len(q) = n - 1
        /\ \A j \in 1..n - 1 : q[j] = f[(k + j - 1) % Capacity]
    <2> HIDE DEF k
    <2>1. QED
      BY <1>1, <1>2, RingIsSeq, Zenon
  <1>6. Ring(f, h, n)[1] = f[h]
    <2>1. 1 \in 1..n /\ h + 1 - 1 = h /\ h % Capacity = h
      BY <1>1
    <2>2. QED
      BY <1>4, <2>1
  <1>7. \A j \in 1..n - 1 : q[j] = Ring(f, h, n)[j + 1]
    <2> SUFFICES ASSUME NEW j \in 1..n - 1 PROVE q[j] = Ring(f, h, n)[j + 1]
      OBVIOUS
    <2>1. /\ j - 1 \in 0..n - 1 /\ j + 1 \in 1..n
          /\ k + j - 1 = k + (j - 1) /\ h + 1 + (j - 1) = h + (j + 1) - 1
      BY <1>1, <1>2
    <2> HIDE DEF k
    <2>2. (k + (j - 1)) % Capacity = (h + (j + 1) - 1) % Capacity
      BY <1>3, <2>1
    <2>3. QED
      BY <1>4, <1>5, <2>1, <2>2
  <1>8. (k + (n - 1)) % Capacity = (h + n) % Capacity
    <2>1. n - 1 \in 0..n - 1 /\ h + 1 + (n - 1) = h + n
      BY <1>1
    <2>2. QED
      BY <1>3, <2>1
  <1>9. Ring(f, h, n) = <<f[h]>> \o q
    <2>1. f[h] \in 0..MaxLogs
      BY <1>1 DEF Rings
    <2> HIDE DEF q, k
    <2>2. QED
      BY <1>1, <1>4, <1>5, <1>6, <1>7, <2>1
  <1>10. QED
    BY <1>2, <1>8, <1>9
-----------------------------------------------------------------------------
(* Sequences of logs.                                                      *)

Logs == 1..MaxLogs

\* What follows the first log of a sequence of logs.
LEMMA RestOfLogs ==
    ASSUME NEW x \in 0..MaxLogs, NEW q \in Seq(0..MaxLogs), <<x>> \o q \in Seq(Logs)
    PROVE  x \in Logs /\ q \in Seq(Logs)
  <1> DEFINE s == <<x>> \o q
  <1>1. /\ Len(q) \in Nat /\ q \in [1..Len(q) -> 0..MaxLogs]
        /\ Len(s) = Len(q) + 1 /\ s[1] = x
        /\ \A j \in 1..Len(q) : s[j + 1] = q[j]
    <2>1. Len(q) \in Nat /\ q \in [1..Len(q) -> 0..MaxLogs]
      BY LenProperties
    <2>2. Len(s) = Len(q) + 1 /\ s[1] = x
      OBVIOUS
    <2>3. \A j \in 1..Len(q) : s[j + 1] = q[j]
      OBVIOUS
    <2>4. QED
      BY <2>1, <2>2, <2>3
  <1> HIDE DEF s
  <1>2. s \in Seq(Logs)
    BY DEF s
  <1>3. \A j \in 1..Len(s) : s[j] \in Logs
    BY <1>2, ElementOfSeq
  <1>4. x \in Logs
    <2>1. 1 \in 1..Len(s)
      BY <1>1
    <2>2. QED
      BY <1>1, <1>3, <2>1
  <1>5. \A j \in 1..Len(q) : q[j] \in Logs
    <2> SUFFICES ASSUME NEW j \in 1..Len(q) PROVE q[j] \in Logs
      OBVIOUS
    <2>1. j + 1 \in 1..Len(s)
      BY <1>1
    <2>2. QED
      BY <1>1, <1>3, <2>1
  <1>6. q \in [1..Len(q) -> Logs]
    BY <1>1, <1>5
  <1>7. q \in UNION {[1..n -> Logs] : n \in Nat}
    BY <1>1, <1>6, Zenon
  <1>8. QED
    BY <1>4, <1>7, SeqDef, Zenon

-----------------------------------------------------------------------------
(* The invariant, by the variables its parts are about.                    *)

Fates == {"up", "sigpipe", "segv", "undefined"}

NodeOK ==
    /\ proc \in Fates
    /\ node \in {"listed", "unlisted", "freed"} /\ running \in BOOLEAN
    /\ dpc \in {"no", "stop", "join", "returned"}

\* What is enqueued next goes behind the last log of the ring, and every slot
\* between the two ends holds a log.
RingOK ==
    /\ frames \in Rings
    /\ head \in 0..(Capacity - 1) /\ count \in 0..Capacity
    /\ tail = (head + count) % Capacity
    /\ InRing \in Seq(Logs)

SockStates == {"up", "fin", "rst", "closed"}

SockOK ==
    /\ pool \in Seq(1..MaxSocks) /\ Len(pool) <= PoolSize
    /\ sock \in Seq(SockStates) /\ Len(sock) <= MaxSocks

\* A thread that is past find_client has a log, and it holds a socket from
\* acquire to release.
AppOK ==
    /\ logs \in 0..MaxLogs
    /\ apc \in [Apps -> {"out", "found", "enqueue", "acquire", "send", "release"}]
    /\ msg \in [Apps -> 0..MaxLogs] /\ asock \in [Apps -> Sockets]
    /\ \A a \in Apps : apc[a] # "out" => msg[a] # 0
    /\ \A a \in Apps : apc[a] \in {"send", "release"} <=> asock[a] # 0

FlushOK == fpc \in {"test", "collect", "asleep", "woken", "extract", "done"}

RecvOK ==
    /\ rpc \in {"test", "acquire", "select", "done"}
    /\ rsock \in Sockets
    /\ rpc = "select" <=> rsock # 0

Opened(k, s) == s \in 1..Len(k) /\ k[s] # "closed"
Pooled(p, s) == \E j \in 1..Len(p) : p[j] = s
Used(s) == Pooled(pool, s) \/ rsock = s \/ \E a \in Apps : asock[a] = s

\* No two users of a connection, and the connections with a user are those
\* that were made and are not closed.
UsersOK ==
    /\ \A j, k \in 1..Len(pool) : pool[j] = pool[k] => j = k
    /\ \A a, b \in Apps : asock[a] = asock[b] /\ asock[a] # 0 => a = b
    /\ \A a \in Apps : asock[a] # 0 =>
         ~Pooled(pool, asock[a]) /\ asock[a] # rsock
    /\ rsock # 0 => ~Pooled(pool, rsock)
    /\ \A s \in 1..MaxSocks : Used(s) <=> Opened(sock, s)

ClientInv ==
    /\ NodeOK /\ RingOK /\ SockOK /\ AppOK /\ FlushOK /\ RecvOK
    /\ NoMissedWakeup /\ UsersOK
-----------------------------------------------------------------------------
LEMMA ClientInit == Init => ClientInv
  <1> SUFFICES ASSUME Init PROVE ClientInv
    OBVIOUS
  <1>1. NodeOK
    BY DEF Init, NodeOK, Fates
  <1>2. InRing = <<>> /\ (head + count) % Capacity = 0
    BY ClientAssumption DEF Init, InRing
  <1>3. RingOK
    BY <1>2, ClientAssumption DEF Init, RingOK, Rings
  <1>4. SockOK
    BY ClientAssumption DEF Init, SockOK
  <1>5. AppOK
    BY ClientAssumption DEF Init, AppOK, Sockets
  <1>6. FlushOK
    BY ClientAssumption DEF Init, FlushOK
  <1>7. RecvOK
    BY ClientAssumption DEF Init, RecvOK, Sockets
  <1>8. NoMissedWakeup
    BY DEF Init, NoMissedWakeup
  <1>9. UsersOK
    BY ClientAssumption DEF Init, UsersOK, Used, Pooled, Opened
  <1>10. QED
    BY <1>1, <1>3, <1>4, <1>5, <1>6, <1>7, <1>8, <1>9 DEF ClientInv
-----------------------------------------------------------------------------
(* The connection pool.                                                    *)

LEMMA FrontFacts ==
    ASSUME NEW S, NEW q \in Seq(S), q # <<>>
    PROVE  /\ Front(q) \in Seq(S) /\ Len(Front(q)) = Len(q) - 1
           /\ \A j \in 1..Len(q) - 1 : Front(q)[j] = q[j]
  <1> DEFINE n == Len(q) - 1
             r == SubSeq(q, 1, n)
  <1>1. Len(q) \in Nat \ {0}
    BY EmptySeq
  <1>2. n \in Nat /\ \A j \in 1..n : q[j] \in S
    BY <1>1, ElementOfSeq
  <1> HIDE DEF n
  <1>3. r = [j \in 1..n |-> q[j]]
    BY <1>2
  <1>4. \A j \in 1..n : r[j] = q[j]
    BY <1>3
  <1>5. r \in [1..n -> S]
    BY <1>2, <1>3
  <1>6. r \in Seq(S)
    <2> HIDE DEF r
    <2>1. r \in UNION {[1..m -> S] : m \in Nat}
      BY <1>2, <1>5, Zenon
    <2>2. QED
      BY <2>1, SeqDef, Zenon
  <1>7. Len(r) = n
    BY <1>2, <1>6
  <1>8. QED
    BY <1>4, <1>6, <1>7 DEF Front, n

\* What connection_pool_acquire returns had no user but the pool, and has
\* left it.
LEMMA AcquireFacts ==
    ASSUME SockOK, UsersOK, NEW s \in Sockets, Acquire(s)
    PROVE  /\ SockOK'
           /\ \A t \in 1..MaxSocks : Pooled(pool', t) <=> Pooled(pool, t) /\ t # s
           /\ \A t \in 1..MaxSocks : Opened(sock', t) <=> Opened(sock, t) \/ t = s
           /\ \A j, k \in 1..Len(pool') : pool'[j] = pool'[k] => j = k
           /\ s # 0 => /\ s \in 1..MaxSocks /\ s # rsock
                       /\ \A a \in Apps : asock[a] # s
  <1>0. /\ MaxSocks \in Nat /\ pool \in Seq(1..MaxSocks) /\ Len(pool) <= PoolSize
        /\ sock \in Seq(SockStates) /\ Len(sock) <= MaxSocks
        /\ \A j, k \in 1..Len(pool) : pool[j] = pool[k] => j = k
        /\ Len(pool) \in Nat /\ Len(sock) \in Nat /\ PoolSize \in Nat
        /\ \A j \in 1..Len(pool) : pool[j] \in 1..MaxSocks
    BY ClientAssumption DEF SockOK, UsersOK
  <1>1. CASE pool # <<>> /\ s = Last(pool) /\ pool' = Front(pool) /\ sock' = sock
    <2> DEFINE n == Len(pool)
    <2>1. n \in Nat \ {0} /\ s = pool[n] /\ n \in 1..n
      BY <1>0, <1>1 DEF Last
    <2>2. /\ pool' \in Seq(1..MaxSocks) /\ Len(pool') = n - 1
          /\ \A j \in 1..n - 1 : pool'[j] = pool[j]
      BY <1>0, <1>1, FrontFacts
    <2> HIDE DEF n
    <2>3. SockOK'
      BY <1>0, <1>1, <2>1, <2>2 DEF SockOK, n
    <2>4. \A j, k \in 1..Len(pool') : pool'[j] = pool'[k] => j = k
      <3> SUFFICES ASSUME NEW j \in 1..Len(pool'), NEW k \in 1..Len(pool'),
                          pool'[j] = pool'[k]
                   PROVE  j = k
        OBVIOUS
      <3>1. j \in 1..n /\ k \in 1..n /\ j \in 1..n - 1 /\ k \in 1..n - 1
        BY <2>1, <2>2
      <3>2. QED
        BY <1>0, <2>2, <3>1 DEF n
    <2>5. \A t \in 1..MaxSocks : Pooled(pool', t) <=> Pooled(pool, t) /\ t # s
      <3> SUFFICES ASSUME NEW t \in 1..MaxSocks
                   PROVE  Pooled(pool', t) <=> Pooled(pool, t) /\ t # s
        OBVIOUS
      <3>1. Pooled(pool', t) <=> \E j \in 1..n - 1 : pool'[j] = t
        BY <2>2 DEF Pooled
      <3>2. Pooled(pool, t) <=> \E j \in 1..n : pool[j] = t
        BY DEF Pooled, n
      <3>3. \A j \in 1..n : j \in 1..n - 1 <=> pool[j] # s
        <4>1. \A j \in 1..n : pool[j] = s <=> j = n
          BY <1>0, <2>1 DEF n
        <4>2. \A j \in 1..n : j \in 1..n - 1 <=> j # n
          BY <2>1
        <4>3. QED
          BY <4>1, <4>2
      <3>4. \A j \in 1..n - 1 : j \in 1..n
        BY <2>1
      <3>5. QED
        BY <2>2, <3>1, <3>2, <3>3, <3>4
    <2>6. Pooled(pool, s) /\ s \in 1..MaxSocks
      BY <1>0, <2>1 DEF Pooled, n
    <2>7. Opened(sock, s) /\ \A t \in 1..MaxSocks : Opened(sock', t) <=> Opened(sock, t)
      BY <1>1, <2>6 DEF UsersOK, Used, Opened
    <2>8. /\ s # rsock
          /\ \A a \in Apps : asock[a] # s
      <3>1. s # 0
        BY <1>0, <2>6
      <3>2. /\ \A a \in Apps : asock[a] # 0 => ~Pooled(pool, asock[a])
            /\ rsock # 0 => ~Pooled(pool, rsock)
        BY Zenon DEF UsersOK
      <3>4. s # rsock
        BY <2>6, <3>1, <3>2
      <3>5. ASSUME NEW a \in Apps PROVE asock[a] # s
        BY <2>6, <3>1, <3>2
      <3>6. QED
        BY <3>4, <3>5
    <2>9. \A t \in 1..MaxSocks : Opened(sock', t) <=> Opened(sock, t) \/ t = s
      BY <2>7, Zenon
    <2>10. QED
      BY <2>3, <2>4, <2>5, <2>6, <2>8, <2>9, Zenon
  <1>2. CASE /\ pool = <<>> /\ Len(sock) < MaxSocks /\ s = Len(sock) + 1
             /\ sock' = Append(sock, "up") /\ pool' = pool
    <2>1. /\ s \in 1..MaxSocks /\ ~Opened(sock, s) /\ ~Used(s)
      BY <1>0, <1>2 DEF UsersOK, Opened
    <2>2. /\ sock' \in Seq(SockStates) /\ Len(sock') = Len(sock) + 1 /\ sock'[s] = "up"
          /\ \A j \in 1..Len(sock) : sock'[j] = sock[j]
      BY <1>0, <1>2 DEF SockStates
    <2>3. SockOK'
      BY <1>0, <1>2, <2>2 DEF SockOK
    <2>4. \A t \in 1..MaxSocks : Opened(sock', t) <=> Opened(sock, t) \/ t = s
      BY <1>0, <1>2, <2>2 DEF Opened
    <2>5. \A t \in 1..MaxSocks : (Pooled(pool', t) <=> Pooled(pool, t)) /\ ~Pooled(pool, t)
      BY <1>2 DEF Pooled
    <2>6. \A j, k \in 1..Len(pool') : pool'[j] = pool'[k] => j = k
      BY <1>0, <1>2
    <2>7. /\ s # rsock
          /\ \A a \in Apps : asock[a] # s
      BY <2>1 DEF Used
    <2>8. QED
      BY <2>1, <2>3, <2>4, <2>5, <2>6, <2>7
  <1>3. CASE pool = <<>> /\ s = 0 /\ pool' = pool /\ sock' = sock
    <2>1. SockOK'
      BY <1>3 DEF SockOK
    <2>2. \A t \in 1..MaxSocks : t # s
      BY <1>0, <1>3
    <2>3. \A t \in 1..MaxSocks : /\ Pooled(pool', t) <=> Pooled(pool, t)
                                 /\ Opened(sock', t) <=> Opened(sock, t)
      BY <1>3 DEF Pooled, Opened
    <2>4. \A j, k \in 1..Len(pool') : pool'[j] = pool'[k] => j = k
      BY <1>0, <1>3
    <2>5. QED
      BY <1>3, <2>1, <2>2, <2>3, <2>4
  <1>4. QED
    BY <1>1, <1>2, <1>3 DEF Acquire

\* connection_pool_release makes the pool the user of a connection, or closes
\* it.
LEMMA ReleaseFacts ==
    ASSUME SockOK, UsersOK, NEW s \in 1..MaxSocks, ~Pooled(pool, s), Used(s), Release(s)
    PROVE  /\ SockOK'
           /\ \A j, k \in 1..Len(pool') : pool'[j] = pool'[k] => j = k
           /\ \A t \in 1..MaxSocks : t # s =>
                (Pooled(pool', t) <=> Pooled(pool, t)) /\ (Opened(sock', t) <=> Opened(sock, t))
           /\ Pooled(pool', s) <=> Opened(sock', s)
  <1>0. /\ MaxSocks \in Nat /\ pool \in Seq(1..MaxSocks) /\ Len(pool) <= PoolSize
        /\ sock \in Seq(SockStates) /\ Len(sock) <= MaxSocks
        /\ \A j, k \in 1..Len(pool) : pool[j] = pool[k] => j = k
        /\ Len(pool) \in Nat /\ Len(sock) \in Nat /\ PoolSize \in Nat
        /\ Opened(sock, s)
    BY ClientAssumption DEF SockOK, UsersOK
  <1>1. CASE Len(pool) < PoolSize /\ pool' = Append(pool, s) /\ sock' = sock
    <2> DEFINE n == Len(pool)
    <2>1. /\ pool' \in Seq(1..MaxSocks) /\ Len(pool') = n + 1 /\ pool'[n + 1] = s
          /\ \A j \in 1..n : pool'[j] = pool[j]
          /\ \A j \in 1..n + 1 : j \in 1..n \/ j = n + 1
          /\ \A j \in 1..n : j \in 1..n + 1
          /\ n + 1 \in 1..n + 1
      BY <1>0, <1>1
    <2>2. \A j \in 1..n : pool[j] # s
      BY DEF Pooled
    <2> HIDE DEF n
    <2>3. SockOK'
      BY <1>0, <1>1, <2>1 DEF SockOK, n
    <2>4. \A j, k \in 1..Len(pool') : pool'[j] = pool'[k] => j = k
      <3> SUFFICES ASSUME NEW j \in 1..n + 1, NEW k \in 1..n + 1, pool'[j] = pool'[k]
                   PROVE  j = k
        BY <2>1
      <3>1. QED
        BY <1>0, <2>1, <2>2 DEF n
    <2>5. \A t \in 1..MaxSocks : Opened(sock', t) <=> Opened(sock, t)
      BY <1>1 DEF Opened
    <2>6. Pooled(pool', s)
      BY <2>1 DEF Pooled
    <2>7. \A t \in 1..MaxSocks : t # s => (Pooled(pool', t) <=> Pooled(pool, t))
      <3> SUFFICES ASSUME NEW t \in 1..MaxSocks, t # s
                   PROVE  Pooled(pool', t) <=> Pooled(pool, t)
        OBVIOUS
      <3>1. Pooled(pool', t) <=> \E j \in 1..n + 1 : pool'[j] = t
        BY <2>1 DEF Pooled
      <3>2. Pooled(pool, t) <=> \E j \in 1..n : pool[j] = t
        BY DEF Pooled, n
      <3>3. QED
        BY <2>1, <3>1, <3>2
    <2>8. QED
      BY <1>0, <2>3, <2>4, <2>5, <2>6, <2>7
  <1>2. CASE sock' = [sock EXCEPT ![s] = "closed"] /\ pool' = pool
    <2>1. s \in 1..Len(sock)
      BY <1>0 DEF Opened
    <2>2. /\ sock' \in Seq(SockStates) /\ Len(sock') = Len(sock)
          /\ \A j \in 1..Len(sock) : sock'[j] = IF j = s THEN "closed" ELSE sock[j]
      BY <1>0, <1>2, <2>1, ExceptSeq DEF SockStates
    <2>3. SockOK'
      BY <1>0, <1>2, <2>2 DEF SockOK
    <2>4. \A j, k \in 1..Len(pool') : pool'[j] = pool'[k] => j = k
      BY <1>0, <1>2
    <2>5. \A t \in 1..MaxSocks : (Pooled(pool', t) <=> Pooled(pool, t))
      BY <1>2 DEF Pooled
    <2>6. /\ ~Opened(sock', s)
          /\ \A t \in 1..MaxSocks : t # s => (Opened(sock', t) <=> Opened(sock, t))
      BY <2>2 DEF Opened
    <2>7. QED
      BY <2>3, <2>4, <2>5, <2>6
  <1>3. QED
    BY <1>1, <1>2 DEF Release

LEMMA SameUsers ==
    ASSUME UsersOK, UNCHANGED <<pool, sock, asock, rsock>>
    PROVE  UsersOK'
  BY DEF UsersOK, Used, Pooled, Opened

LEMMA AppAcquires ==
    ASSUME SockOK, UsersOK, asock \in [Apps -> Sockets], NEW a \in Apps, asock[a] = 0,
           NEW s \in Sockets, Acquire(s), asock' = [asock EXCEPT ![a] = s],
           rsock \in Sockets, rsock' = rsock
    PROVE  SockOK' /\ UsersOK'
  <1>1. /\ SockOK'
        /\ \A t \in 1..MaxSocks : Pooled(pool', t) <=> Pooled(pool, t) /\ t # s
        /\ \A t \in 1..MaxSocks : Opened(sock', t) <=> Opened(sock, t) \/ t = s
        /\ \A j, k \in 1..Len(pool') : pool'[j] = pool'[k] => j = k
        /\ s # 0 => /\ s \in 1..MaxSocks /\ s # rsock
                    /\ \A b \in Apps : asock[b] # s
    BY AcquireFacts
  <1>2. /\ asock'[a] = s
        /\ \A b \in Apps : b # a => asock'[b] = asock[b]
        /\ \A b \in Apps : asock[b] \in Sockets
    OBVIOUS
  <1>3. \A t \in Sockets : t # 0 => t \in 1..MaxSocks
    BY ClientAssumption DEF Sockets
  <1>4. \A t \in 1..MaxSocks : t # 0
    BY ClientAssumption
  <1>5. \A b, c \in Apps : asock'[b] = asock'[c] /\ asock'[b] # 0 => b = c
    BY <1>1, <1>2 DEF UsersOK
  <1>6. \A b \in Apps : asock'[b] # 0 =>
          ~Pooled(pool', asock'[b]) /\ asock'[b] # rsock'
    <2> SUFFICES ASSUME NEW b \in Apps, asock'[b] # 0
                 PROVE  ~Pooled(pool', asock'[b]) /\ asock'[b] # rsock'
      OBVIOUS
    <2>1. CASE b = a
      BY <1>1, <1>2, <2>1
    <2>2. CASE b # a
      <3>1. asock'[b] = asock[b] /\ asock[b] \in 1..MaxSocks
        BY <1>2, <1>3, <2>2
      <3>2. ~Pooled(pool, asock[b]) /\ asock[b] # rsock
        BY <3>1 DEF UsersOK
      <3>3. QED
        BY <1>1, <3>1, <3>2
    <2>3. QED
      BY <2>1, <2>2
  <1>7. rsock' # 0 => ~Pooled(pool', rsock')
    BY <1>1, <1>3 DEF UsersOK
  <1>8. \A t \in 1..MaxSocks : Used(t)' <=> Opened(sock', t)
    <2> SUFFICES ASSUME NEW t \in 1..MaxSocks PROVE Used(t)' <=> Opened(sock', t)
      OBVIOUS
    <2>1. Used(t) <=> Opened(sock, t)
      BY DEF UsersOK
    <2>2. (\E b \in Apps : asock'[b] = t) <=> t = s \/ \E b \in Apps : asock[b] = t
      BY <1>2, <1>4
    <2>3. Used(t)' <=> Used(t) \/ t = s
      BY <1>1, <2>2 DEF Used
    <2>4. QED
      BY <1>1, <2>1, <2>3
  <1>9. QED
    BY <1>1, <1>5, <1>6, <1>7, <1>8 DEF UsersOK

LEMMA RecvAcquires ==
    ASSUME SockOK, UsersOK, asock \in [Apps -> Sockets], rsock = 0,
           NEW s \in Sockets, Acquire(s), rsock' = s, asock' = asock
    PROVE  SockOK' /\ UsersOK'
  <1>1. /\ SockOK'
        /\ \A t \in 1..MaxSocks : Pooled(pool', t) <=> Pooled(pool, t) /\ t # s
        /\ \A t \in 1..MaxSocks : Opened(sock', t) <=> Opened(sock, t) \/ t = s
        /\ \A j, k \in 1..Len(pool') : pool'[j] = pool'[k] => j = k
        /\ s # 0 => /\ s \in 1..MaxSocks /\ s # rsock
                    /\ \A b \in Apps : asock[b] # s
    BY AcquireFacts
  <1>2. \A t \in Sockets : t # 0 => t \in 1..MaxSocks
    BY ClientAssumption DEF Sockets
  <1>3. \A t \in 1..MaxSocks : t # 0
    BY ClientAssumption
  <1>4. \A b, c \in Apps : asock'[b] = asock'[c] /\ asock'[b] # 0 => b = c
    BY DEF UsersOK
  <1>5. \A b \in Apps : asock'[b] # 0 =>
          ~Pooled(pool', asock'[b]) /\ asock'[b] # rsock'
    BY <1>1, <1>2 DEF UsersOK
  <1>6. rsock' # 0 => ~Pooled(pool', rsock')
    BY <1>1, <1>2 DEF UsersOK
  <1>7. \A t \in 1..MaxSocks : Used(t)' <=> Opened(sock', t)
    <2> SUFFICES ASSUME NEW t \in 1..MaxSocks PROVE Used(t)' <=> Opened(sock', t)
      OBVIOUS
    <2>1. Used(t) <=> Opened(sock, t)
      BY DEF UsersOK
    <2>2. Used(t)' <=> Used(t) \/ t = s
      BY <1>1, <1>3 DEF Used
    <2>3. QED
      BY <1>1, <2>1, <2>2
  <1>8. QED
    BY <1>1, <1>4, <1>5, <1>6, <1>7 DEF UsersOK

LEMMA RecvReleases ==
    ASSUME SockOK, UsersOK, asock \in [Apps -> Sockets], rsock \in Sockets, rsock # 0,
           Release(rsock), rsock' = 0, asock' = asock
    PROVE  SockOK' /\ UsersOK'
  <1> DEFINE s == rsock
  <1>1. /\ s \in 1..MaxSocks /\ ~Pooled(pool, s) /\ Used(s)
        /\ \A a \in Apps : asock[a] # s
    BY ClientAssumption DEF UsersOK, Used, Sockets
  <1>2. /\ SockOK'
        /\ \A j, k \in 1..Len(pool') : pool'[j] = pool'[k] => j = k
        /\ \A t \in 1..MaxSocks : t # s =>
             (Pooled(pool', t) <=> Pooled(pool, t)) /\ (Opened(sock', t) <=> Opened(sock, t))
        /\ Pooled(pool', s) <=> Opened(sock', s)
    BY <1>1, ReleaseFacts
  <1>3. \A t \in Sockets : t # 0 => t \in 1..MaxSocks
    BY ClientAssumption DEF Sockets
  <1>4. \A t \in 1..MaxSocks : t # 0
    BY ClientAssumption
  <1>5. \A b, c \in Apps : asock'[b] = asock'[c] /\ asock'[b] # 0 => b = c
    BY DEF UsersOK
  <1>6. \A b \in Apps : asock'[b] # 0 =>
          ~Pooled(pool', asock'[b]) /\ asock'[b] # rsock'
    BY <1>1, <1>2, <1>3 DEF UsersOK
  <1>7. rsock' # 0 => ~Pooled(pool', rsock')
    BY <1>1, <1>2, <1>3 DEF UsersOK
  <1>8. \A t \in 1..MaxSocks : Used(t)' <=> Opened(sock', t)
    <2> SUFFICES ASSUME NEW t \in 1..MaxSocks PROVE Used(t)' <=> Opened(sock', t)
      OBVIOUS
    <2>1. Used(t) <=> Opened(sock, t)
      BY DEF UsersOK
    <2>2. CASE t = s
      BY <1>1, <1>2, <1>4, <2>2 DEF Used
    <2>3. CASE t # s
      BY <1>2, <1>4, <2>1, <2>3 DEF Used
    <2>4. QED
      BY <2>2, <2>3
  <1>9. QED
    BY <1>2, <1>5, <1>6, <1>7, <1>8 DEF UsersOK

LEMMA AppReleases ==
    ASSUME SockOK, UsersOK, asock \in [Apps -> Sockets], NEW a \in Apps, asock[a] # 0,
           Release(asock[a]), asock' = [asock EXCEPT ![a] = 0],
           rsock \in Sockets, rsock' = rsock
    PROVE  SockOK' /\ UsersOK'
  <1> DEFINE s == asock[a]
  <1>1. /\ s \in 1..MaxSocks /\ ~Pooled(pool, s) /\ Used(s) /\ s # rsock
        /\ \A b \in Apps : b # a => asock[b] # s
    BY ClientAssumption DEF UsersOK, Used, Sockets
  <1>2. /\ SockOK'
        /\ \A j, k \in 1..Len(pool') : pool'[j] = pool'[k] => j = k
        /\ \A t \in 1..MaxSocks : t # s =>
             (Pooled(pool', t) <=> Pooled(pool, t)) /\ (Opened(sock', t) <=> Opened(sock, t))
        /\ Pooled(pool', s) <=> Opened(sock', s)
    BY <1>1, ReleaseFacts
  <1>3. /\ asock'[a] = 0
        /\ \A b \in Apps : b # a => asock'[b] = asock[b]
        /\ \A b \in Apps : asock[b] \in Sockets
    BY ClientAssumption DEF Sockets
  <1>4. \A t \in Sockets : t # 0 => t \in 1..MaxSocks
    BY ClientAssumption DEF Sockets
  <1>5. \A t \in 1..MaxSocks : t # 0
    BY ClientAssumption
  <1> HIDE DEF s
  <1>6. \A b, c \in Apps : asock'[b] = asock'[c] /\ asock'[b] # 0 => b = c
    BY <1>3 DEF UsersOK
  <1>7. \A b \in Apps : asock'[b] # 0 =>
          ~Pooled(pool', asock'[b]) /\ asock'[b] # rsock'
    <2> SUFFICES ASSUME NEW b \in Apps, asock'[b] # 0
                 PROVE  ~Pooled(pool', asock'[b]) /\ asock'[b] # rsock'
      OBVIOUS
    <2>1. b # a /\ asock'[b] = asock[b] /\ asock[b] \in 1..MaxSocks /\ asock[b] # s
      BY <1>1, <1>3, <1>4
    <2>2. ~Pooled(pool, asock[b]) /\ asock[b] # rsock
      BY <2>1 DEF UsersOK
    <2>3. QED
      BY <1>2, <2>1, <2>2
  <1>8. rsock' # 0 => ~Pooled(pool', rsock')
    BY <1>1, <1>2, <1>4 DEF UsersOK
  <1>9. \A t \in 1..MaxSocks : Used(t)' <=> Opened(sock', t)
    <2> SUFFICES ASSUME NEW t \in 1..MaxSocks PROVE Used(t)' <=> Opened(sock', t)
      OBVIOUS
    <2>1. Used(t) <=> Opened(sock, t)
      BY DEF UsersOK
    <2>2. CASE t = s
      <3>1. ~\E b \in Apps : asock'[b] = t
        BY <1>1, <1>3, <1>5, <2>2
      <3>2. QED
        BY <1>1, <1>2, <2>2, <3>1 DEF Used
    <2>3. CASE t # s
      <3>1. (\E b \in Apps : asock'[b] = t) <=> \E b \in Apps : asock[b] = t
        BY <1>3, <1>5, <2>3 DEF s
      <3>2. QED
        BY <1>2, <2>1, <2>3, <3>1 DEF Used
    <2>4. QED
      BY <2>2, <2>3
  <1>10. QED
    BY <1>2, <1>6, <1>7, <1>8, <1>9 DEF UsersOK

\* A step of the server or a send() changes the state of an open connection,
\* and it stays open.
LEMMA StateOfSocket ==
    ASSUME SockOK, UsersOK, NEW s \in 1..Len(sock), NEW st \in SockStates,
           st = "closed" <=> sock[s] = "closed",
           sock' = [sock EXCEPT ![s] = st], UNCHANGED <<pool, asock, rsock>>
    PROVE  SockOK' /\ UsersOK'
  <1>1. /\ sock' \in Seq(SockStates) /\ Len(sock') = Len(sock)
        /\ \A j \in 1..Len(sock) : sock'[j] = IF j = s THEN st ELSE sock[j]
    BY ExceptSeq DEF SockOK
  <1>2. SockOK'
    BY <1>1 DEF SockOK
  <1>3. \A t \in 1..MaxSocks : Opened(sock', t) <=> Opened(sock, t)
    BY <1>1 DEF Opened
  <1>4. pool' = pool /\ asock' = asock /\ rsock' = rsock
    OBVIOUS
  <1>5. \A t \in 1..MaxSocks : Used(t)' <=> Used(t)
    BY <1>4 DEF Used
  <1>6. QED
    BY <1>2, <1>3, <1>4, <1>5 DEF UsersOK
-----------------------------------------------------------------------------
(* The steps that move logs.                                               *)

LEMMA SameLogs ==
    ASSUME RingOK, UNCHANGED ringVars
    PROVE  RingOK' /\ InRing' = InRing
  <1>1. frames' = frames /\ head' = head /\ tail' = tail /\ count' = count
    BY DEF ringVars
  <1>2. InRing' = InRing
    BY <1>1 DEF InRing
  <1>3. QED
    BY <1>1, <1>2 DEF RingOK

LEMMA EnqueueStep ==
    ASSUME ClientInv, NEW a \in Apps, Enqueue(a)
    PROVE  RingOK' /\ msg[a] \in Logs /\ Queue!Put(msg[a])
  <1>1. /\ frames \in Rings /\ head \in 0..(Capacity - 1) /\ count \in 0..Capacity
        /\ count < Capacity /\ tail = (head + count) % Capacity
        /\ InRing \in Seq(Logs)
        /\ frames' = [frames EXCEPT ![tail] = msg[a]] /\ head' = head
        /\ tail' = (tail + 1) % Capacity /\ count' = count + 1
    BY DEF ClientInv, RingOK, Enqueue
  <1>2. msg[a] \in Logs /\ msg[a] \in 0..MaxLogs
    BY ClientAssumption DEF ClientInv, AppOK, Enqueue, AppAt, Logs
  <1>3. Capacity \in Nat \ {0}
    BY ClientAssumption
  <1>4. Ring([frames EXCEPT ![(head + count) % Capacity] = msg[a]], head, count + 1)
          = Append(Ring(frames, head, count), msg[a])
    BY <1>1, <1>2, RingEnqueue, Zenon
  <1>5. InRing' = Append(InRing, msg[a])
    BY <1>1, <1>4 DEF InRing, Ring
  <1>6. frames' \in Rings
    BY <1>1, <1>2 DEF Rings
  <1>7. (((head + count) % Capacity) + 1) % Capacity = (head + (count + 1)) % Capacity
    BY <1>1, <1>3, NextSlot, Zenon
  <1>8. RingOK'
    <2>1. head' \in 0..(Capacity - 1) /\ count' \in 0..Capacity
      BY <1>1, <1>3
    <2>2. tail' = (head' + count') % Capacity
      BY <1>1, <1>7
    <2>3. InRing' \in Seq(Logs)
      BY <1>1, <1>2, <1>5
    <2>4. QED
      BY <1>6, <2>1, <2>2, <2>3 DEF RingOK
  <1>10. Len(InRing) < Capacity
    <2>1. InRing = Ring(frames, head, count)
      BY DEF InRing, Ring
    <2>2. Len(InRing) = count
      BY <1>1, <2>1, RingIsSeq, Zenon
    <2>3. QED
      BY <1>1, <2>2
  <1>11. QED
    BY <1>2, <1>5, <1>8, <1>10 DEF Queue!Put

LEMMA DequeueStep ==
    ASSUME ClientInv, Dequeue
    PROVE  RingOK' /\ Queue!Get
  <1>1. /\ frames \in Rings /\ head \in 0..(Capacity - 1) /\ count \in 0..Capacity
        /\ count > 0 /\ tail = (head + count) % Capacity
        /\ InRing \in Seq(Logs)
        /\ frames' = frames /\ head' = (head + 1) % Capacity
        /\ tail' = tail /\ count' = count - 1
    BY DEF ClientInv, RingOK, Dequeue
  <1>2. Capacity \in Nat \ {0}
    BY ClientAssumption
  <1>3. /\ (head + 1) % Capacity \in 0..(Capacity - 1)
        /\ (((head + 1) % Capacity) + (count - 1)) % Capacity = (head + count) % Capacity
        /\ Ring(frames, head, count)
             = <<frames[head]>> \o Ring(frames, (head + 1) % Capacity, count - 1)
    BY <1>1, RingDequeue, Zenon
  <1>4. InRing = <<frames[head]>> \o InRing'
    BY <1>1, <1>3 DEF InRing, Ring
  <1>5. InRing' = Ring(frames, (head + 1) % Capacity, count - 1)
    BY <1>1 DEF InRing, Ring
  <1>6. InRing' \in Seq(0..MaxLogs) /\ frames[head] \in 0..MaxLogs
    <2>1. count - 1 \in 0..Capacity
      BY <1>1, <1>2
    <2>2. InRing' \in Seq(0..MaxLogs)
      BY <1>1, <1>3, <1>5, <2>1, RingIsSeq, Zenon
    <2>3. frames[head] \in 0..MaxLogs
      BY <1>1 DEF Rings
    <2>4. QED
      BY <2>2, <2>3
  <1>7. frames[head] \in Logs /\ InRing' \in Seq(Logs)
    BY <1>1, <1>4, <1>6, RestOfLogs
  <1>8. RingOK'
    <2>1. head' \in 0..(Capacity - 1) /\ count' \in 0..Capacity
      BY <1>1, <1>2, <1>3
    <2>2. tail' = (head' + count') % Capacity
      BY <1>1, <1>3
    <2>3. QED
      BY <1>1, <1>7, <2>1, <2>2 DEF RingOK
  <1>12. InRing # <<>> /\ InRing' = Tail(InRing)
    BY <1>4, <1>7
  <1>13. QED
    BY <1>8, <1>12 DEF Queue!Get

LEMMA FreeStep ==
    ASSUME ClientInv, FreeClient
    PROVE  ClientInv'
  <1>1. /\ proc' = "up" /\ node' = "freed" /\ dpc' = "returned" /\ running' = running
        /\ fpc = "done" /\ rpc = "done" /\ fpc' = fpc /\ rpc' = rpc
        /\ pool' = <<>> /\ head' = (head + count) % Capacity /\ count' = 0
        /\ frames' = frames /\ tail' = tail /\ rsock' = rsock
        /\ apc' = apc /\ msg' = msg /\ asock' = asock /\ logs' = logs
        /\ sock' = [s \in DOMAIN sock |-> IF s \in Range(pool) THEN "closed" ELSE sock[s]]
    BY DEF FreeClient, appVars, recvVars
  <1>2. Capacity \in Nat \ {0} /\ head \in 0..(Capacity - 1) /\ count \in 0..Capacity
    BY ClientAssumption DEF ClientInv, RingOK
  <1>3. NodeOK'
    BY <1>1 DEF ClientInv, NodeOK, Fates
  <1>4. InRing' = <<>>
    BY <1>1 DEF InRing
  <1>5. RingOK'
    <2>1. head' \in 0..(Capacity - 1) /\ count' \in 0..Capacity
      BY <1>1, <1>2
    <2>4. \A n \in 0..(Capacity - 1) : (n + 0) % Capacity = n
      BY <1>2
    <2>2. frames' \in Rings /\ tail' = head'
      BY <1>1 DEF ClientInv, RingOK
    <2>3. QED
      BY <1>1, <1>4, <2>1, <2>2, <2>4 DEF RingOK
  <1>6. AppOK'
    BY <1>1 DEF ClientInv, AppOK
  <1>8. FlushOK'
    BY <1>1 DEF ClientInv, FlushOK
  <1>9. RecvOK'
    BY <1>1 DEF ClientInv, RecvOK
  <1>11. NoMissedWakeup'
    BY <1>1 DEF NoMissedWakeup
  <1>12. /\ pool \in Seq(1..MaxSocks) /\ sock \in Seq(SockStates)
         /\ Len(sock) \in Nat /\ Len(sock) <= MaxSocks /\ DOMAIN sock = 1..Len(sock)
         /\ DOMAIN pool = 1..Len(pool) /\ \A j \in 1..Len(sock) : sock[j] \in SockStates
    BY DEF ClientInv, SockOK
  <1>13. \A s : s \in Range(pool) <=> Pooled(pool, s)
    BY <1>12 DEF Range, Pooled
  <1>14. sock' \in [1..Len(sock) -> SockStates]
    BY <1>1, <1>12 DEF SockStates
  <1>15. sock' \in Seq(SockStates) /\ DOMAIN sock' = 1..Len(sock)
    <2>1. sock' \in UNION {[1..n -> SockStates] : n \in Nat}
      BY <1>12, <1>14, Zenon
    <2>2. QED
      BY <1>14, <2>1, SeqDef, Zenon
  <1>16. Len(sock') = Len(sock)
    <2>1. DOMAIN sock' = 1..Len(sock') /\ Len(sock') \in Nat
      BY <1>15, LenProperties, Zenon
    <2>2. QED
      BY <1>12, <1>15, <2>1, SameInterval
  <1>17. SockOK'
    BY <1>1, <1>12, <1>15, <1>16, ClientAssumption DEF SockOK
  <1>18. \A j \in 1..Len(sock) : sock'[j] = IF Pooled(pool, j) THEN "closed" ELSE sock[j]
    BY <1>1, <1>12, <1>13
  <1>19. \A t \in 1..MaxSocks : Opened(sock', t) <=> Opened(sock, t) /\ ~Pooled(pool, t)
    BY <1>16, <1>18 DEF Opened
  <1>20. \A t : ~Pooled(pool', t)
    BY <1>1 DEF Pooled
  <1>21. UsersOK'
    <2>1. rsock = 0 /\ asock \in [Apps -> Sockets]
      BY <1>1 DEF ClientInv, RecvOK, AppOK
    <2>2. \A t \in 1..MaxSocks : Used(t)' <=> Used(t) /\ ~Pooled(pool, t)
      <3> SUFFICES ASSUME NEW t \in 1..MaxSocks
                   PROVE  Used(t)' <=> Used(t) /\ ~Pooled(pool, t)
        OBVIOUS
      <3>1. t # 0
        BY ClientAssumption
      <3>2. Used(t)' <=> \E a \in Apps : asock[a] = t
        BY <1>1, <1>20, <2>1, <3>1 DEF Used
      <3>3. (\E a \in Apps : asock[a] = t) => ~Pooled(pool, t)
        BY <3>1 DEF ClientInv, UsersOK
      <3>4. QED
        BY <2>1, <3>1, <3>2, <3>3 DEF Used
    <2>3. \A t \in 1..MaxSocks : Used(t)' <=> Opened(sock', t)
      BY <1>19, <2>2 DEF ClientInv, UsersOK
    <2>4. \A j, k \in 1..Len(pool') : pool'[j] = pool'[k] => j = k
      BY <1>1
    <2>5. /\ \A a, b \in Apps : asock'[a] = asock'[b] /\ asock'[a] # 0 => a = b
          /\ \A a \in Apps : asock'[a] # 0 => asock'[a] # rsock'
          /\ rsock' = 0
      BY <1>1, <2>1 DEF ClientInv, UsersOK
    <2>6. QED
      BY <1>20, <2>3, <2>4, <2>5 DEF UsersOK
  <1>22. QED
    BY <1>3, <1>5, <1>6, <1>8, <1>9, <1>11, <1>17, <1>21 DEF ClientInv
-----------------------------------------------------------------------------
(* Every step keeps the invariant.                                         *)

\* A part of the invariant stays true with the variables it is about.
LEMMA SameParts ==
    ASSUME ClientInv
    PROVE  /\ proc' \in Fates /\ UNCHANGED nodeVars => NodeOK'
           /\ UNCHANGED ringVars => RingOK'
           /\ UNCHANGED sockVars => SockOK'
           /\ UNCHANGED appVars => AppOK'
           /\ fpc' = fpc => FlushOK'
           /\ UNCHANGED recvVars => RecvOK'
           /\ UNCHANGED sockVars /\ UNCHANGED <<asock, rsock>> => UsersOK'
           /\ UNCHANGED <<fpc, count>> => NoMissedWakeup'
  <1>1. proc' \in Fates /\ UNCHANGED nodeVars => NodeOK'
    BY DEF ClientInv, NodeOK, nodeVars
  <1>2. UNCHANGED ringVars => RingOK'
    BY SameLogs DEF ClientInv
  <1>4. UNCHANGED sockVars => SockOK'
    BY DEF ClientInv, SockOK, sockVars
  <1>5. UNCHANGED appVars => AppOK'
    BY DEF ClientInv, AppOK, appVars
  <1>6. fpc' = fpc => FlushOK'
    BY DEF ClientInv, FlushOK
  <1>7. UNCHANGED recvVars => RecvOK'
    BY DEF ClientInv, RecvOK, recvVars
  <1>8. UNCHANGED sockVars /\ UNCHANGED <<asock, rsock>> => UsersOK'
    BY SameUsers DEF ClientInv, sockVars
  <1>9. UNCHANGED <<fpc, count>> => NoMissedWakeup'
    BY DEF ClientInv, NoMissedWakeup
  <1>10. QED
    BY <1>1, <1>2, <1>4, <1>5, <1>6, <1>7, <1>8, <1>9

\* find_client, is_log_allowed and a full queue move a thread only.
LEMMA AppMoves ==
    ASSUME ClientInv, NEW a \in Apps,
           FindClient(a) \/ EnqueueFull(a) \/ \E allowed \in BOOLEAN : Prepare(a, allowed)
    PROVE  ClientInv'
  <1>1. /\ proc' = proc /\ proc = "up" /\ UNCHANGED nodeVars /\ UNCHANGED ringVars
        /\ UNCHANGED sockVars /\ fpc' = fpc /\ UNCHANGED recvVars /\ asock' = asock
    BY DEF FindClient, EnqueueFull, Prepare, AppAt
  <1>2. UNCHANGED <<asock, rsock>> /\ UNCHANGED <<fpc, count>>
    BY <1>1 DEF recvVars, ringVars
  <1>3. /\ apc \in [Apps -> {"out", "found", "enqueue", "acquire", "send", "release"}]
        /\ msg \in [Apps -> 0..MaxLogs] /\ asock \in [Apps -> Sockets] /\ logs \in 0..MaxLogs
        /\ \A b \in Apps : apc[b] # "out" => msg[b] # 0
        /\ \A b \in Apps : apc[b] \in {"send", "release"} <=> asock[b] # 0
    BY DEF ClientInv, AppOK
  <1>4. AppOK'
    <2>1. CASE FindClient(a)
      <3>1. /\ apc' = [apc EXCEPT ![a] = "found"] /\ msg' = [msg EXCEPT ![a] = logs + 1]
            /\ logs' = logs + 1 /\ logs + 1 \in 0..MaxLogs /\ logs + 1 # 0 /\ apc[a] = "out"
        BY <1>3, <2>1, ClientAssumption DEF FindClient, AppGoTo
      <3>2. QED
        BY <1>1, <1>3, <3>1 DEF AppOK
    <2>2. CASE EnqueueFull(a)
      <3>1. /\ apc' = [apc EXCEPT ![a] = "acquire"] /\ apc[a] = "enqueue"
            /\ msg' = msg /\ logs' = logs
        BY <2>2 DEF EnqueueFull, AppAt, AppGoTo
      <3>2. QED
        BY <1>1, <1>3, <3>1 DEF AppOK
    <2>3. ASSUME NEW allowed \in BOOLEAN, Prepare(a, allowed) PROVE AppOK'
      <3>1. PICK place \in {"enqueue", "out"} : apc' = [apc EXCEPT ![a] = place]
        BY <2>3 DEF Prepare, AppGoTo
      <3>2. apc[a] = "found" /\ msg' = msg /\ logs' = logs
        BY <2>3 DEF Prepare, AppAt
      <3>3. QED
        BY <1>1, <1>3, <3>1, <3>2 DEF AppOK
    <2>4. QED
      BY <2>1, <2>2, <2>3
  <1>5. QED
    BY <1>1, <1>2, <1>4, SameParts DEF ClientInv, Fates

LEMMA EnqueueKeeps ==
    ASSUME ClientInv, NEW a \in Apps, Enqueue(a)
    PROVE  ClientInv'
  <1>1. /\ proc' = proc /\ proc = "up" /\ UNCHANGED nodeVars
        /\ UNCHANGED sockVars /\ UNCHANGED recvVars
        /\ UNCHANGED <<asock, rsock>>
        /\ msg' = msg /\ logs' = logs
        /\ asock' = asock /\ apc[a] = "enqueue" /\ apc' = [apc EXCEPT ![a] = "out"]
        /\ fpc' = IF fpc = "asleep" THEN "woken" ELSE fpc
    BY DEF Enqueue, AppAt, AppGoTo, Wake, recvVars
  <1>2. RingOK'
    BY EnqueueStep
  <1>3. AppOK'
    <2>1. /\ apc \in [Apps -> {"out", "found", "enqueue", "acquire", "send", "release"}]
          /\ \A b \in Apps : apc[b] # "out" => msg[b] # 0
          /\ \A b \in Apps : apc[b] \in {"send", "release"} <=> asock[b] # 0
      BY DEF ClientInv, AppOK
    <2>2. QED
      BY <1>1, <2>1 DEF ClientInv, AppOK
  <1>4. FlushOK'
    BY <1>1 DEF ClientInv, FlushOK
  <1>5. NoMissedWakeup'
    BY <1>1 DEF NoMissedWakeup
  <1>6. NodeOK' /\ SockOK' /\ RecvOK' /\ UsersOK'
    BY <1>1, SameParts DEF Fates
  <1>7. QED
    BY <1>2, <1>3, <1>4, <1>5, <1>6 DEF ClientInv

\* The sends change the state of the socket that the thread holds.
LEMMA SendKeepsSockets ==
    ASSUME ClientInv, NEW s \in 1..MaxSocks, Used(s), SendFrame(s),
           UNCHANGED <<asock, rsock>>
    PROVE  /\ proc' \in Fates /\ SockOK' /\ UsersOK'
  <1>1. s \in 1..Len(sock) /\ sock[s] # "closed" /\ sock[s] \in SockStates
    BY DEF ClientInv, UsersOK, Opened, SockOK
  <1>2. PICK st \in SockStates : st # "closed" /\ sock' = [sock EXCEPT ![s] = st]
    <2>1. CASE sock[s] = "fin"
      BY <2>1 DEF SendFrame, SockStates
    <2>2. CASE sock[s] # "fin"
      BY <1>1, <2>2 DEF SendFrame
    <2>3. QED
      BY <2>1, <2>2
  <1>3. UNCHANGED <<pool, asock, rsock>>
    BY DEF SendFrame
  <1>4. SockOK' /\ UsersOK'
    BY <1>1, <1>2, <1>3, StateOfSocket DEF ClientInv
  <1>5. proc' \in Fates
    BY DEF SendFrame, Fates
  <1>6. QED
    BY <1>4, <1>5

\* The rest of the direct way: acquire, send, release.
LEMMA AppDirect ==
    ASSUME ClientInv, NEW a \in Apps,
           AppAcquire(a) \/ AppSend(a) \/ AppRelease(a) \/ UseAfterFree(a)
    PROVE  ClientInv'
  <1>1. /\ UNCHANGED nodeVars /\ UNCHANGED ringVars /\ fpc' = fpc
        /\ UNCHANGED recvVars /\ msg' = msg /\ logs' = logs
    BY DEF AppAcquire, AppSend, AppRelease, UseAfterFree, appVars
  <1>2. rsock' = rsock /\ UNCHANGED <<fpc, count>>
    BY <1>1 DEF recvVars, ringVars
  <1>3. /\ apc \in [Apps -> {"out", "found", "enqueue", "acquire", "send", "release"}]
        /\ msg \in [Apps -> 0..MaxLogs] /\ asock \in [Apps -> Sockets] /\ logs \in 0..MaxLogs
        /\ \A b \in Apps : apc[b] # "out" => msg[b] # 0
        /\ \A b \in Apps : apc[b] \in {"send", "release"} <=> asock[b] # 0
        /\ rsock \in Sockets /\ SockOK /\ UsersOK
        /\ proc \in Fates
    BY DEF ClientInv, AppOK, RecvOK, NodeOK
  <1>4. /\ proc' \in Fates /\ SockOK' /\ AppOK' /\ UsersOK'
    <2>1. CASE AppAcquire(a)
      <3>1. PICK s \in Sockets : /\ Acquire(s) /\ asock' = [asock EXCEPT ![a] = s]
                                 /\ apc' = [apc EXCEPT ![a] = IF s = 0 THEN "out" ELSE "send"]
        BY <2>1 DEF AppAcquire, AppGoTo
      <3>2. proc' = proc /\ apc[a] = "acquire" /\ asock[a] = 0
        BY <1>3, <2>1 DEF AppAcquire, AppAt
      <3>3. SockOK' /\ UsersOK'
        BY <1>2, <1>3, <3>1, <3>2, AppAcquires
      <3>4. AppOK'
        <4>1. CASE s = 0
          BY <1>1, <1>3, <3>1, <3>2, <4>1 DEF AppOK
        <4>2. CASE s # 0
          BY <1>1, <1>3, <3>1, <3>2, <4>2 DEF AppOK
        <4>3. QED
          BY <4>1, <4>2
      <3>5. QED
        BY <1>3, <3>2, <3>3, <3>4
    <2>2. CASE AppSend(a)
      <3>1. /\ apc[a] = "send" /\ asock[a] # 0 /\ SendFrame(asock[a]) /\ asock' = asock
            /\ apc' = [apc EXCEPT ![a] = "release"]
        BY <1>3, <2>2 DEF AppSend, AppAt, AppGoTo
      <3>2. asock[a] \in 1..MaxSocks /\ Used(asock[a])
        BY <1>3, <3>1, ClientAssumption DEF Sockets, Used
      <3>3. /\ proc' \in Fates /\ SockOK' /\ UsersOK'
        BY <1>2, <3>1, <3>2, SendKeepsSockets
      <3>4. AppOK'
        BY <1>1, <1>3, <3>1 DEF AppOK
      <3>5. QED
        BY <3>3, <3>4
    <2>3. CASE AppRelease(a)
      <3>1. /\ apc[a] = "release" /\ asock[a] # 0 /\ Release(asock[a]) /\ proc' = proc
            /\ asock' = [asock EXCEPT ![a] = 0] /\ apc' = [apc EXCEPT ![a] = "out"]
        BY <1>3, <2>3 DEF AppRelease, AppAt, AppGoTo
      <3>2. SockOK' /\ UsersOK'
        BY <1>2, <1>3, <3>1, AppReleases
      <3>3. 0 \in Sockets
        BY ClientAssumption DEF Sockets
      <3>4. AppOK'
        BY <1>1, <1>3, <3>1, <3>3 DEF AppOK
      <3>5. QED
        BY <1>3, <3>1, <3>2, <3>4
    <2>4. CASE UseAfterFree(a)
      <3>1. proc' = "undefined" /\ UNCHANGED sockVars /\ UNCHANGED appVars
        BY <2>4 DEF UseAfterFree
      <3>2. UNCHANGED <<asock, rsock>>
        BY <1>2, <3>1 DEF appVars
      <3>3. QED
        BY <3>1, <3>2, SameParts DEF Fates
    <2>5. QED
      BY <2>1, <2>2, <2>3, <2>4
  <1>5. QED
    BY <1>1, <1>2, <1>4, SameParts DEF ClientInv

LEMMA FlushMoves ==
    ASSUME ClientInv, FlushTest \/ Sleep \/ SpuriousWakeup \/ Dequeue \/ Extract
    PROVE  ClientInv'
  <1>1. /\ proc' \in Fates /\ UNCHANGED nodeVars /\ UNCHANGED sockVars
        /\ UNCHANGED appVars /\ UNCHANGED recvVars
    BY DEF FlushTest, Sleep, SpuriousWakeup, Dequeue, Extract, FlushAt, Fates
  <1>2. UNCHANGED <<asock, rsock>>
    BY <1>1 DEF appVars, recvVars
  <1>3. NodeOK' /\ SockOK' /\ AppOK' /\ RecvOK' /\ UsersOK'
    BY <1>1, <1>2, SameParts
  <1>4. RingOK'
    <2>1. CASE Dequeue
      BY <2>1, DequeueStep
    <2>2. CASE FlushTest \/ Sleep \/ SpuriousWakeup \/ Extract
      <3>1. UNCHANGED ringVars
        BY <2>2 DEF FlushTest, Sleep, SpuriousWakeup, Extract
      <3>2. QED
        BY <3>1, SameParts
    <2>3. QED
      BY <2>1, <2>2
  <1>5. FlushOK' /\ NoMissedWakeup'
    <2>1. CASE FlushTest
      BY <2>1 DEF FlushTest, FlushOK, NoMissedWakeup
    <2>2. CASE Sleep
      BY <2>2 DEF Sleep, ringVars, FlushOK, NoMissedWakeup
    <2>3. CASE SpuriousWakeup
      BY <2>3 DEF SpuriousWakeup, FlushOK, NoMissedWakeup
    <2>4. CASE Dequeue
      BY <2>4 DEF Dequeue, FlushOK, NoMissedWakeup
    <2>5. CASE Extract
      BY <2>5 DEF Extract, FlushAt, FlushOK, NoMissedWakeup
    <2>6. QED
      BY <2>1, <2>2, <2>3, <2>4, <2>5
  <1>6. QED
    BY <1>3, <1>4, <1>5 DEF ClientInv

LEMMA ReceiverKeeps ==
    ASSUME ClientInv, Receiver
    PROVE  ClientInv'
  <1>1. /\ UNCHANGED nodeVars /\ UNCHANGED ringVars /\ UNCHANGED appVars
        /\ fpc' = fpc /\ proc' = proc /\ proc = "up"
    BY DEF Receiver, RecvTest, RecvAcquire, RecvRelease, RecvAt
  <1>2. asock' = asock /\ UNCHANGED <<fpc, count>>
    BY <1>1 DEF appVars, ringVars
  <1>3. /\ rpc \in {"test", "acquire", "select", "done"} /\ rsock \in Sockets
        /\ rpc = "select" <=> rsock # 0
        /\ asock \in [Apps -> Sockets] /\ SockOK /\ UsersOK
        /\ 0 \in Sockets
    BY ClientAssumption DEF ClientInv, RecvOK, AppOK, Sockets
  <1>4. SockOK' /\ UsersOK' /\ RecvOK'
    <2>1. CASE RecvTest
      <3>1. /\ UNCHANGED sockVars /\ rsock' = rsock /\ rpc = "test"
            /\ rpc' \in {"acquire", "done"}
        BY <2>1 DEF RecvTest, RecvAt
      <3>2. RecvOK'
        BY <1>3, <3>1 DEF RecvOK
      <3>3. UNCHANGED <<asock, rsock>>
        BY <1>2, <3>1
      <3>4. QED
        BY <3>1, <3>2, <3>3, SameParts
    <2>2. CASE RecvAcquire
      <3>1. PICK s \in Sockets : /\ Acquire(s) /\ rsock' = s
                                 /\ rpc' = IF s = 0 THEN "test" ELSE "select"
        BY <2>2 DEF RecvAcquire
      <3>2. rsock = 0
        BY <1>3, <2>2 DEF RecvAcquire, RecvAt
      <3>3. SockOK' /\ UsersOK'
        BY <1>2, <1>3, <3>1, <3>2, RecvAcquires
      <3>4. RecvOK'
        BY <3>1 DEF RecvOK
      <3>5. QED
        BY <3>3, <3>4
    <2>3. CASE RecvRelease
      <3>1. rsock # 0 /\ Release(rsock) /\ rsock' = 0 /\ rpc' = "test"
        BY <1>3, <2>3 DEF RecvRelease, RecvAt
      <3>2. SockOK' /\ UsersOK'
        BY <1>2, <1>3, <3>1, RecvReleases
      <3>3. RecvOK'
        BY <1>3, <3>1 DEF RecvOK
      <3>4. QED
        BY <3>2, <3>3
    <2>4. QED
      BY <2>1, <2>2, <2>3 DEF Receiver
  <1>5. QED
    BY <1>1, <1>2, <1>4, SameParts DEF ClientInv, Fates

\* The server closes a connection; dlt_free_client begins.
LEMMA OthersKeep ==
    ASSUME ClientInv, Unlink \/ StopThreads \/ \E s \in 1..MaxSocks : ServerCloses(s)
    PROVE  ClientInv'
  <1>1. /\ proc' = proc /\ proc = "up" /\ UNCHANGED ringVars /\ UNCHANGED appVars
        /\ fpc' = fpc /\ UNCHANGED recvVars /\ pool' = pool
    BY DEF Unlink, StopThreads, ServerCloses, sockVars
  <1>2. UNCHANGED <<asock, rsock>> /\ UNCHANGED <<fpc, count>>
    BY <1>1 DEF appVars, recvVars, ringVars
  <1>3. RingOK' /\ AppOK' /\ FlushOK' /\ RecvOK' /\ NoMissedWakeup'
    BY <1>1, <1>2, SameParts
  <1>4. NodeOK' /\ SockOK' /\ UsersOK'
    <2>1. CASE Unlink \/ StopThreads
      <3>1. NodeOK'
        BY <1>1, <2>1 DEF Unlink, StopThreads, ClientInv, NodeOK
      <3>2. UNCHANGED sockVars
        BY <2>1 DEF Unlink, StopThreads
      <3>3. QED
        BY <1>2, <3>1, <3>2, SameParts
    <2>2. ASSUME NEW s \in 1..MaxSocks, ServerCloses(s)
          PROVE  NodeOK' /\ SockOK' /\ UsersOK'
      <3>1. /\ UNCHANGED nodeVars /\ s \in DOMAIN sock /\ sock[s] = "up"
            /\ sock' = [sock EXCEPT ![s] = "fin"]
        BY <2>2 DEF ServerCloses
      <3>2. s \in 1..Len(sock) /\ "fin" \in SockStates
        BY <3>1 DEF ClientInv, SockOK, SockStates
      <3>3. UNCHANGED <<pool, asock, rsock>>
        BY <1>1, <1>2
      <3>4. SockOK' /\ UsersOK'
        BY <3>1, <3>2, <3>3, StateOfSocket DEF ClientInv
      <3>5. QED
        BY <1>1, <3>1, <3>4, SameParts DEF Fates
    <2>3. QED
      BY <2>1, <2>2
  <1>5. QED
    BY <1>3, <1>4 DEF ClientInv

LEMMA ClientStep == ClientInv /\ [Next]_vars => ClientInv'
  <1> SUFFICES ASSUME ClientInv, [Next]_vars PROVE ClientInv'
    OBVIOUS
  <1>1. ASSUME NEW a \in Apps, FindClient(a) \/ App(a) PROVE ClientInv'
    BY <1>1, AppMoves, EnqueueKeeps, AppDirect DEF App
  <1>2. CASE Flush \/ SpuriousWakeup
    BY <1>2, FlushMoves DEF Flush
  <1>3. CASE Receiver
    BY <1>3, ReceiverKeeps
  <1>4. CASE Unlink \/ Freeing \/ \E s \in 1..MaxSocks : ServerCloses(s)
    BY <1>4, OthersKeep, FreeStep DEF Freeing
  <1>5. CASE UNCHANGED vars
    <2>1. /\ proc' = proc /\ UNCHANGED nodeVars /\ UNCHANGED ringVars /\ UNCHANGED sockVars
          /\ UNCHANGED appVars /\ fpc' = fpc /\ UNCHANGED recvVars
      BY <1>5 DEF vars, nodeVars, ringVars, sockVars, appVars, recvVars
    <2>2. /\ UNCHANGED <<asock, rsock>> /\ UNCHANGED <<fpc, count>> /\ proc' \in Fates
      BY <1>5 DEF vars, ClientInv, NodeOK
    <2>3. QED
      BY <2>1, <2>2, SameParts DEF ClientInv
  <1>6. QED
    BY <1>1, <1>2, <1>3, <1>4, <1>5 DEF Next
-----------------------------------------------------------------------------
(* What the client promises.                                               *)

\* A connection that is open has exactly one holder, in the words of
\* ConnectionsExclusive.
LEMMA UsersAreHolders ==
    ASSUME SockOK, UsersOK, asock \in [Apps -> Sockets], rsock \in Sockets
    PROVE  ConnectionsExclusive
  <1> SUFFICES ASSUME NEW s \in DOMAIN sock
               PROVE  IF sock[s] = "closed" THEN Holders(s) = {}
                      ELSE \E h \in Holders(s) : Holders(s) = {h}
    BY DEF ConnectionsExclusive
  <1>1. /\ s \in 1..Len(sock) /\ s \in 1..MaxSocks /\ s # 0
        /\ DOMAIN pool = 1..Len(pool)
    BY ClientAssumption DEF SockOK
  <1>2. Used(s) <=> sock[s] # "closed"
    BY <1>1 DEF UsersOK, Opened
  <1>3. \A h : h \in Holders(s) <=>
          \/ \E a \in Apps : asock[a] = s /\ h = <<"app", a>>
          \/ rsock = s /\ h = <<"recv", s>>
          \/ \E j \in 1..Len(pool) : pool[j] = s /\ h = <<"pool", j>>
    BY <1>1 DEF Holders
  <1> HIDE DEF Holders
  <1>4. CASE sock[s] = "closed"
    BY <1>2, <1>3, <1>4 DEF Used, Pooled
  <1>5. CASE sock[s] # "closed"
    <2>1. Used(s)
      BY <1>2, <1>5
    <2>2. CASE Pooled(pool, s)
      <3>1. PICK j \in 1..Len(pool) : pool[j] = s
        BY <2>2 DEF Pooled
      <3>2. /\ \A k \in 1..Len(pool) : pool[k] = s => k = j
            /\ rsock # s /\ \A a \in Apps : asock[a] # s
        BY <1>1, <2>2, <3>1 DEF UsersOK
      <3>3. Holders(s) = {<<"pool", j>>}
        BY <1>3, <3>1, <3>2
      <3>4. QED
        BY <1>5, <3>3
    <2>4. CASE rsock = s
      <3>1. ~Pooled(pool, s) /\ \A a \in Apps : asock[a] # s
        BY <1>1, <2>4 DEF UsersOK
      <3>2. Holders(s) = {<<"recv", s>>}
        BY <1>3, <2>4, <3>1 DEF Pooled
      <3>3. QED
        BY <1>5, <3>2
    <2>5. ASSUME NEW a \in Apps, asock[a] = s
          PROVE  \E h \in Holders(s) : Holders(s) = {h}
      <3>1. /\ ~Pooled(pool, s) /\ rsock # s
            /\ \A b \in Apps : asock[b] = s => b = a
        BY <1>1, <2>5 DEF UsersOK
      <3>2. Holders(s) = {<<"app", a>>}
        BY <1>3, <2>5, <3>1 DEF Pooled
      <3>3. QED
        BY <3>2
    <2>6. QED
      BY <1>5, <2>1, <2>2, <2>4, <2>5 DEF Used
  <1>6. QED
    BY <1>4, <1>5

LEMMA ClientTypes == ClientInv => TypeOK
  <1> SUFFICES ASSUME ClientInv PROVE TypeOK
    OBVIOUS
  <1>1. tail \in 0..(Capacity - 1)
    BY ClientAssumption DEF ClientInv, RingOK
  <1>2. frames \in [0..(Capacity - 1) -> 0..MaxLogs]
    BY DEF ClientInv, RingOK, Rings
  <1>4. sock \in Seq({"up", "fin", "rst", "closed"})
    BY DEF ClientInv, SockOK, SockStates
  <1>5. QED
    BY <1>1, <1>2, <1>4
       DEF ClientInv, NodeOK, Fates, RingOK, SockOK, AppOK, FlushOK, RecvOK, TypeOK

\* ClientInv is an invariant of the logging client.
THEOREM ClientInvariant == Spec => []ClientInv
  <1>1. Init => ClientInv
    BY ClientInit
  <1>2. ClientInv /\ [Next]_vars => ClientInv'
    BY ClientStep
  <1>3. QED
    BY <1>1, <1>2, PTL DEF Spec

\* The variables of the logging client keep their types.
THEOREM ClientTypeOK == Spec => []TypeOK
  <1>1. QED
    BY ClientInvariant, ClientTypes, PTL

\* The flush thread never sleeps on the condition with a log in the queue.
THEOREM NoWakeupIsMissed == Spec => []NoMissedWakeup
  <1>1. ClientInv => NoMissedWakeup
    BY DEF ClientInv
  <1>2. QED
    BY <1>1, ClientInvariant, PTL

\* Every connection that is open has exactly one user, a thread or the pool,
\* and one that is closed has none.
THEOREM ConnectionsAreExclusive == Spec => []ConnectionsExclusive
  <1>1. ClientInv => ConnectionsExclusive
    BY UsersAreHolders DEF ClientInv, AppOK, RecvOK
  <1>2. QED
    BY <1>1, ClientInvariant, PTL

\* A step of the client is a step of the queue, or the queue does not see it.
LEMMA QueueStep ==
    ASSUME ClientInv, [Next]_vars
    PROVE  Queue!Next \/ UNCHANGED InRing
  <1>1. UNCHANGED ringVars => UNCHANGED InRing
    BY DEF ringVars, InRing
  <1>2. ASSUME NEW a \in Apps, Enqueue(a) PROVE Queue!Next
    <2>1. msg[a] \in 1..MaxLogs /\ Queue!Put(msg[a])
      BY <1>2, EnqueueStep DEF Logs
    <2>2. QED
      BY <2>1 DEF Queue!Next
  <1>3. ASSUME NEW a \in Apps, FindClient(a) \/ App(a), ~Enqueue(a) PROVE UNCHANGED ringVars
    BY <1>3 DEF App, FindClient, EnqueueFull, AppAcquire, AppSend, AppRelease,
                UseAfterFree, Prepare
  <1>4. CASE Dequeue
    BY <1>4, DequeueStep DEF Queue!Next
  <1>5. ASSUME Flush \/ SpuriousWakeup \/ Receiver, ~Dequeue PROVE UNCHANGED ringVars
    BY <1>5 DEF Flush, FlushTest, Sleep, SpuriousWakeup, Extract, Receiver, RecvTest,
                RecvAcquire, RecvRelease
  <1>6. CASE FreeClient
    <2>1. InRing' = <<>>
      BY <1>6 DEF FreeClient, InRing
    <2>2. QED
      BY <2>1 DEF Queue!Clear, Queue!Next
  <1>7. ASSUME Unlink \/ StopThreads \/ \E s \in 1..MaxSocks : ServerCloses(s)
        PROVE  UNCHANGED ringVars
    BY <1>7 DEF Unlink, StopThreads, ServerCloses
  <1>8. CASE UNCHANGED vars
    BY <1>8 DEF vars, ringVars, InRing
  <1>9. QED
    BY <1>1, <1>2, <1>3, <1>4, <1>5, <1>6, <1>7, <1>8 DEF Next, Freeing

\* The ring of log_queue_enqueue, log_queue_dequeue and log_queue_destroy
\* implements the bounded FIFO, for every capacity and number of threads.
THEOREM QueueImplemented == Spec => QueueIsFifo
  <1>1. Init => Queue!FifoInit
    BY DEF Init, InRing, Queue!FifoInit
  <1>2. ClientInv /\ [Next]_vars => [Queue!Next]_InRing
    BY QueueStep
  <1>3. QED
    BY <1>1, <1>2, ClientInvariant, PTL DEF Spec, QueueIsFifo, Queue!Spec
=============================================================================
