----------------------------- MODULE RateLimit -----------------------------
(***************************************************************************)
(* check_rate_limit (lucpd/src/lucpd_utils.c): one remembered address per  *)
(* hash value.  The function holds its mutex throughout, so a call is one  *)
(* step.  No file of the repository calls it yet.                          *)
(***************************************************************************)
EXTENDS Integers

CONSTANTS
    Ips,            \* client addresses
    Slot(_),        \* ip_hash_function
    Times           \* what time() may return

RateLimitSeconds == 3

Slots == {Slot(ip) : ip \in Ips}
Empty == ""

ASSUME RateLimitAssumption == Empty \notin Ips /\ Times \subseteq Int

VARIABLES
    now,            \* what time() returns
    ip_hash,        \* the address remembered for each hash value
    last_access,    \* the caller's array
    granted         \* history: when each address was last allowed in

rateVars == <<now, ip_hash, last_access, granted>>

RateInit ==
    /\ now \in Times
    /\ ip_hash = [h \in Slots |-> Empty]
    /\ last_access \in [Slots -> Times]
    /\ granted \in [Ips -> Times]

\* The clock of the machine may be set back as well.
SetClock(t) ==
    /\ now' = t
    /\ UNCHANGED <<ip_hash, last_access, granted>>

Remembered(ip) == ip_hash[Slot(ip)] = ip
TooSoon(ip) == now - last_access[Slot(ip)] < RateLimitSeconds

\* Mutant: the time is remembered for a new address only.
AllowKeepsTime(ip) ==
    /\ ~(Remembered(ip) /\ TooSoon(ip))
    /\ ip_hash' = [ip_hash EXCEPT ![Slot(ip)] = ip]
    /\ last_access' = [last_access EXCEPT ![Slot(ip)] = IF Remembered(ip) THEN @ ELSE now]
    /\ granted' = [granted EXCEPT ![ip] = now]
    /\ UNCHANGED now

\* A remembered address is allowed in if its time is up; any other address
\* takes the place of the one that was remembered.
Allow(ip) ==
    /\ ~(Remembered(ip) /\ TooSoon(ip))
    /\ ip_hash' = [ip_hash EXCEPT ![Slot(ip)] = ip]
    /\ last_access' = [last_access EXCEPT ![Slot(ip)] = now]
    /\ granted' = [granted EXCEPT ![ip] = now]
    /\ UNCHANGED now

Deny(ip) ==
    /\ Remembered(ip) /\ TooSoon(ip)
    /\ UNCHANGED rateVars

RateNext ==
    \/ \E t \in Times : SetClock(t)
    \/ \E ip \in Ips : Allow(ip) \/ Deny(ip)

RateSpec == RateInit /\ [][RateNext]_rateVars
-----------------------------------------------------------------------------
RateInv ==
    /\ now \in Int /\ granted \in [Ips -> Int]
    /\ last_access \in [Slots -> Int] /\ DOMAIN ip_hash = Slots
    /\ \A ip \in Ips : Remembered(ip) => granted[ip] = last_access[Slot(ip)]

\* An address that nobody with its hash value has displaced since is allowed
\* in again only RATE_LIMIT_SECONDS after the last time, through every other
\* call in between and wherever the clock is set.  (A second grant within the
\* same second does not change granted and is not seen.)
GrantsSpaced ==
    [][\A ip \in Ips : granted'[ip] # granted[ip] /\ Remembered(ip)
          => granted'[ip] - granted[ip] >= RateLimitSeconds]_rateVars
=============================================================================
