--------------------------- MODULE DashboardTokens ---------------------------
(* The dashboard proxy's cache of a connector's service-account token         *)
(* (ProxySettings.management_token in dashboard-proxy/server.py).             *)
(*                                                                            *)
(* Every thread notes the time once, looks into the cache under the lock,     *)
(* asks Keycloak without the lock if it has to, and caches what it got: two   *)
(* threads can ask at once, and the slower one may store the older token.     *)
EXTENDS Naturals

CONSTANTS
    Threads,    \* of requests that need the token
    Lifetimes,  \* values of expires_in that Keycloak answers, in seconds
    Margin,     \* 30: the code stops using a token that long before its end
    MaxTime     \* bound on the clock

ASSUME ConstantsAssumption ==
    Lifetimes \subseteq Nat \ {0} /\ Margin \in Nat /\ MaxTime \in Nat

VARIABLES
    clock,
    at,     \* where each thread is in management_token
    now,    \* the time each thread noted
    life,   \* expires_in of the token Keycloak issued to each thread
    until,  \* when the token each thread has ends: what Keycloak goes by
    cached, \* is there an entry?
    cachedUntil, \* the entry's expires_at
    cachedEnd,   \* when the entry's token ends
    cachedLife   \* history: the entry's expires_in

entry == <<cached, cachedUntil, cachedEnd, cachedLife>>
tokenVars == <<clock, at, now, life, until, cached, cachedUntil, cachedEnd, cachedLife>>

TokenInit ==
    /\ clock = 0
    /\ at = [r \in Threads |-> "idle"]
    /\ now = [r \in Threads |-> 0]
    /\ life = [r \in Threads |-> 0]
    /\ until = [r \in Threads |-> 0]
    /\ cached = FALSE /\ cachedUntil = 0 /\ cachedEnd = 0 /\ cachedLife = 0

\* Faulty variant of the next definition: no margin.
UsableWithoutMargin(expiresIn) == expiresIn + 1

\* max(expires_in - 30, 1)
Usable(expiresIn) == IF expiresIn > Margin THEN expiresIn - Margin ELSE 1

GoOn(r, point) == at' = [at EXCEPT ![r] = point]

-----------------------------------------------------------------------------
StartToken(r) ==
    /\ at[r] \in {"idle", "returned", "failed"}
    /\ now' = [now EXCEPT ![r] = clock]
    /\ GoOn(r, "looking")
    /\ UNCHANGED <<clock, life, until, entry>>

LookInCache(r) ==
    /\ at[r] = "looking"
    /\ IF cached /\ cachedUntil > now[r]
       THEN /\ GoOn(r, "returned")
            /\ until' = [until EXCEPT ![r] = cachedEnd]
            /\ life' = [life EXCEPT ![r] = cachedLife]
       ELSE GoOn(r, "asking") /\ UNCHANGED <<until, life>>
    /\ UNCHANGED <<clock, now, entry>>

\* Keycloak issues the token, or refuses; the answer may take its time.
Issue(r) ==
    /\ at[r] = "asking"
    /\ \/ \E l \in Lifetimes :
             /\ life' = [life EXCEPT ![r] = l]
             /\ until' = [until EXCEPT ![r] = clock + l]
             /\ GoOn(r, "issued")
       \/ GoOn(r, "failed") /\ UNCHANGED <<life, until>>
    /\ UNCHANGED <<clock, now, entry>>

\* urlopen's timeout, which is for each read: an answer may still take longer.
GiveUp(r) ==
    /\ at[r] = "issued" /\ GoOn(r, "failed")
    /\ UNCHANGED <<clock, now, life, until, entry>>

CacheToken(r) ==
    /\ at[r] = "issued"
    /\ GoOn(r, "returned")
    /\ cached' = TRUE
    /\ cachedUntil' = now[r] + Usable(life[r])
    /\ cachedEnd' = until[r] /\ cachedLife' = life[r]
    /\ UNCHANGED <<clock, now, life, until>>

Tick ==
    /\ clock < MaxTime
    /\ clock' = clock + 1
    /\ UNCHANGED <<at, now, life, until, entry>>

TokenNext ==
    \/ \E r \in Threads : StartToken(r) \/ LookInCache(r) \/ Issue(r) \/ GiveUp(r) \/ CacheToken(r)
    \/ Tick

TokenSpec == TokenInit /\ [][TokenNext]_tokenVars

-----------------------------------------------------------------------------
\* Every variable holds values of its kind.
TokenTypeOK ==
    /\ clock \in 0 .. MaxTime
    /\ at \in [Threads -> {"idle", "looking", "asking", "issued", "returned", "failed"}]
    /\ now \in [Threads -> 0 .. MaxTime]
    /\ life \in [Threads -> Lifetimes \cup {0}]
    /\ until \in [Threads -> Nat]
    /\ cached \in BOOLEAN
    /\ cachedUntil \in Nat /\ cachedEnd \in Nat /\ cachedLife \in Lifetimes \cup {0}

\* Whatever order the answers of Keycloak arrive in, the entry gives its token up no
\* later than Keycloak does, and the whole margin earlier if it lives that long.
CacheIsHonest ==
    cached => /\ cachedUntil <= cachedEnd
              /\ cachedLife > Margin => cachedUntil + Margin <= cachedEnd

\* A thread never returns a token that was over when the thread started, and a
\* token that lives longer than the margin is good for that margin.
ReturnedIsValid ==
    \A r \in Threads : at[r] = "returned" =>
        /\ until[r] > now[r]
        /\ life[r] > Margin => until[r] > now[r] + Margin
=============================================================================
