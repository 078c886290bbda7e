---------------------------- MODULE SessionState ----------------------------
(***************************************************************************)
(* The two in-memory caches of SessionStateService that every              *)
(* authenticated request goes through: the token version of each user and  *)
(* the validity of each device session.  An entry lives CacheTtl from the  *)
(* instant the lookup STARTED; a full Map is emptied before an insertion.  *)
(* The operators map the value of a cache to its next value, so that the   *)
(* handlers of UserSessions can compose them.  The role kept next to the   *)
(* version is left out: no decision of the session machinery reads it.     *)
(***************************************************************************)
EXTENDS Integers, FiniteSets

CONSTANTS
  Users,            \* accounts
  Sessions,         \* ids of device sessions (UserSession rows, claim sid)
  None,             \* "no row", "no entry", "not revoked"
  CacheTtl,         \* CACHE_TTL_MS
  MaxCachedUsers    \* MAX_CACHED_USERS, the limit of both Maps

ASSUME CacheAssumption == CacheTtl \in Nat /\ MaxCachedUsers \in Nat \ {0}

VARIABLES
  cache,            \* [Users -> CachedState or None]
  deviceSessions    \* [Sessions -> CachedDeviceSession or None]

cacheVars == <<cache, deviceSessions>>

CachedState == [tokenVersion : Nat, expiresAt : Nat]
CachedDeviceSession ==
  [userId : Users \cup {None}, active : BOOLEAN, expiresAt : Nat]

CacheTypeOK ==
  /\ cache \in [Users -> CachedState \cup {None}]
  /\ deviceSessions \in [Sessions -> CachedDeviceSession \cup {None}]

EmptyCache == [u \in Users |-> None]
EmptyDeviceSessions == [s \in Sessions |-> None]

\* A usable answer: present, and not past its end at the instant of the call.
HitForever(entry, t) == entry # None                        \* a mutant
Hit(entry, t) == entry # None /\ entry.expiresAt > t

\* Map.set behind the size limit: a full Map is cleared first, whether or not
\* the key is already in it.
Remember(map, key, entry) ==
  IF Cardinality({k \in DOMAIN map : map[k] # None}) >= MaxCachedUsers
  THEN [k \in DOMAIN map |-> IF k = key THEN entry ELSE None]
  ELSE [map EXCEPT ![key] = entry]

Invalidate(u) == [cache EXCEPT ![u] = None]

InvalidateDeviceSession(s) == [deviceSessions EXCEPT ![s] = None]

\* Compares the user stored in the entry: the entry of an id that had no row
\* belongs to nobody and survives.
InvalidateDeviceSessionsOfUser(u) ==
  [s \in Sessions |->
     IF deviceSessions[s] # None /\ deviceSessions[s].userId = u
     THEN None ELSE deviceSessions[s]]
=============================================================================
