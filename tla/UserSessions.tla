---------------------------- MODULE UserSessions ----------------------------
(***************************************************************************)
(* Device sessions of the backend: UserSessionsService (rows, rotation of  *)
(* refresh tokens), SessionTokenService.revokeAllSessions (the global      *)
(* switch), JwtStrategy (the guard of every authenticated request) over    *)
(* the in-memory state of SessionState and RotationMemory.                 *)
(*                                                                         *)
(* One Node process runs the handlers, interleaved at every await; the     *)
(* tables live in PostgreSQL at Read Committed.  A handler is a request    *)
(* slot with a program counter; a step is one statement together with the  *)
(* synchronous code that follows it (the statement's row lock excludes the *)
(* others, so nothing can be observed between the two).  rowLock/userLock  *)
(* hold the uncommitted row of the transaction that wrote it: readers see  *)
(* the committed row, writers wait and then re-evaluate their WHERE.       *)
(***************************************************************************)
EXTENDS RotationMemory, Sequences

CONSTANTS
  Refreshers, Revokers, Killers, Logins, Guards,  \* request slots by endpoint
  RefreshTtl,       \* REFRESH_TOKEN_TTL_MS
  AccessTtl,        \* ACCESS_TOKEN_TTL_SECONDS
  Retention,        \* REVOKED_SESSION_RETENTION_MS
  CommitsMayBeLost, \* may COMMIT succeed and still be reported as an error?
  MaxTime, MaxToken, MaxVersion   \* bounds of the exploration

ASSUME SessionsAssumption ==
  /\ {RefreshTtl, AccessTtl, Retention} \subseteq Nat \ {0}
  /\ CommitsMayBeLost \in BOOLEAN
  /\ {MaxTime, MaxToken, MaxVersion} \subseteq Nat
  /\ Refreshers \cap Killers = {}
  /\ None \notin Refreshers \cup Killers

VARIABLES
  now,              \* the clock
  tokenVersion, userLock,       \* table User: committed version; writer
  row, rowLock,                 \* table UserSession: committed row; writer
  minted,           \* refresh tokens minted so far, per session
  issued, jwts,     \* refresh tokens and access JWTs that reached a client
  rot, revoke, kill, login, guard,   \* requests in flight
  last, cutAt, endOf, signedOut      \* history, read by the properties only

dbVars == <<tokenVersion, userLock, row, rowLock, minted>>
clientVars == <<issued, jwts>>
requestVars == <<rot, revoke, kill, login, guard>>
historyVars == <<last, cutAt, endOf, signedOut>>
vars == <<now, dbVars, memoryVars, cacheVars, clientVars, requestVars,
          historyVars>>

-----------------------------------------------------------------------------
(* Rows, tokens and request slots: a busy slot refers to what exists.      *)

Reasons == {"TOKEN_REUSE", "GLOBAL_SIGNOUT", "BY_USER"}
NatOrNone == Nat \cup {None}
SessionOrNone == Sessions \cup {None}

Row == [user : Users, hash : Nat, tv : Nat, expiresAt : Nat,
        revokedAt : NatOrNone, reason : Reasons \cup {None}]
RowOrNone == Row \cup {None}
Lock == [by : Refreshers \cup Killers, row : Row]
Jwt == [sid : Sessions, user : Users, tv : Nat, exp : Nat]

\* The last rotation the database committed.
Rotation == [presented : Nat, replaced : Nat, installed : Nat, at : Nat,
             lawful : BOOLEAN]

ASSUME NoneAssumption ==
  None \notin Nat \cup Row \cup Lock \cup Rotation \cup RotationEntry

Tolerated(c) == c.presented # c.replaced

\* What the class comment of UserSessionsService grants, in terms of the
\* COMMITTED rotations: the current token, or the one just before it, once,
\* within the window, and not on top of another tolerated rotation.
MayRotate(s, t, at) ==
  \/ t = row[s].hash
  \/ /\ last[s] # None
     /\ t = last[s].replaced
     /\ ~Tolerated(last[s])
     /\ last[s].at <= at
     /\ at - last[s].at <= GraceWindow

Alive(r) == r # None /\ r.revokedAt = None
Revoked(r, reason, at) == [r EXCEPT !.revokedAt = at, !.reason = reason]

RotPc == {"idle", "readSession", "readUser", "revoke", "swap", "commit",
          "undo", "answer"}
Outcomes == {"none", "rotated", "invalid", "conflict", "reuse"}
RotReq ==
  {q \in [pc : RotPc, sid : SessionOrNone, token : Nat, at : Nat,
          seen : RowOrNone, viaGrace : BOOLEAN, next : Nat,
          prior : RotationEntry \cup {None}, outcome : Outcomes,
          tvFloor : Nat] :
     /\ q.pc # "idle" => q.sid \in Sessions
     /\ q.pc \in {"readUser", "revoke", "swap"} \/ q.outcome = "rotated"
          => q.seen \in Row}
IdleRot == [pc |-> "idle", sid |-> None, token |-> 0, at |-> 0, seen |-> None,
            viaGrace |-> FALSE, next |-> 0, prior |-> None,
            outcome |-> "none", tvFloor |-> 0]

RevokeReq ==
  {q \in [pc : {"idle", "after"}, sid : SessionOrNone, hit : BOOLEAN] :
     q.pc # "idle" => q.sid \in Sessions}
IdleRevoke == [pc |-> "idle", sid |-> None, hit |-> FALSE]

KillReq ==
  {q \in [pc : {"idle", "revokeAll", "confirm", "commit", "after", "afterBump"},
          user : Users \cup {None}, keep : SessionOrNone, tv : Nat] :
     /\ q.pc # "idle" => q.user \in Users
     /\ q.pc = "confirm" => q.keep \in Sessions}
IdleKill == [pc |-> "idle", user |-> None, keep |-> None, tv |-> 0]

LoginReq ==
  {q \in [pc : {"idle", "insert", "answer"}, user : Users \cup {None},
          tv : Nat, sid : SessionOrNone] :
     /\ q.pc # "idle" => q.user \in Users
     /\ q.pc = "answer" => q.sid \in Sessions}
IdleLogin == [pc |-> "idle", user |-> None, tv |-> 0, sid |-> None]

GuardReq ==
  {q \in [pc : {"idle", "readUser", "fillUser", "device", "readDevice",
                "fillDevice", "accepted"},
          jwt : Jwt \cup {None}, at : Nat, seenTv : Nat, active : BOOLEAN,
          owner : Users \cup {None}, userSeenAt : Nat, deviceSeenAt : Nat,
          afterCut : BOOLEAN] :
     q.pc # "idle" => q.jwt \in Jwt}
IdleGuard == [pc |-> "idle", jwt |-> None, at |-> 0, seenTv |-> 0,
              active |-> FALSE, owner |-> None, userSeenAt |-> 0,
              deviceSeenAt |-> 0, afterCut |-> FALSE]

DbTypeOK ==
  /\ tokenVersion \in [Users -> Nat]
  /\ userLock \in [Users -> Killers \cup {None}]
  /\ row \in [Sessions -> RowOrNone]
  /\ rowLock \in [Sessions -> Lock \cup {None}]
  /\ minted \in [Sessions -> Nat]

MemoryTypeOK ==
  /\ lastRotations \in [Sessions -> RotationEntry \cup {None}]
  /\ rotationOrder \in SUBSET (Sessions \X Sessions)

ClientTypeOK ==
  /\ issued \in [Sessions -> SUBSET Nat]
  /\ jwts \in SUBSET Jwt

RequestTypeOK ==
  /\ rot \in [Refreshers -> RotReq]
  /\ revoke \in [Revokers -> RevokeReq]
  /\ kill \in [Killers -> KillReq]
  /\ login \in [Logins -> LoginReq]
  /\ guard \in [Guards -> GuardReq]

HistoryTypeOK ==
  /\ last \in [Sessions -> Rotation \cup {None}]
  /\ cutAt \in [Sessions -> NatOrNone]
  /\ endOf \in [Users -> Seq(Nat)]
  /\ signedOut \in SUBSET Sessions

TypeOK ==
  /\ now \in Nat
  /\ DbTypeOK /\ MemoryTypeOK /\ CacheTypeOK
  /\ ClientTypeOK /\ RequestTypeOK /\ HistoryTypeOK

\* The end of a refresh token minted at instant `at`: it slides forward.
ExpiryBackwards(at) == at - RefreshTtl                      \* a mutant
Expiry(at) == at + RefreshTtl

NoRequests ==
  /\ rot = [r \in Refreshers |-> IdleRot]
  /\ revoke = [v \in Revokers |-> IdleRevoke]
  /\ kill = [k \in Killers |-> IdleKill]
  /\ login = [l \in Logins |-> IdleLogin]
  /\ guard = [g \in Guards |-> IdleGuard]

Init ==
  /\ now = 0
  /\ tokenVersion = [u \in Users |-> 0]
  /\ userLock = [u \in Users |-> None]
  /\ row = [s \in Sessions |-> None]
  /\ rowLock = [s \in Sessions |-> None]
  /\ minted = [s \in Sessions |-> 0]
  /\ lastRotations = EmptyRotations /\ rotationOrder = {}
  /\ cache = EmptyCache /\ deviceSessions = EmptyDeviceSessions
  /\ issued = [s \in Sessions |-> {}] /\ jwts = {}
  /\ NoRequests
  /\ last = [s \in Sessions |-> None]
  /\ cutAt = [s \in Sessions |-> None]
  /\ endOf = [u \in Users |-> <<>>]
  /\ signedOut = {}

-----------------------------------------------------------------------------
(* Transactions: what holder t wrote becomes the committed row, or goes.   *)

Holds(t, s) == rowLock[s] # None /\ rowLock[s].by = t
Free(s) == rowLock[s] = None
Released(t) == [s \in Sessions |-> IF Holds(t, s) THEN None ELSE rowLock[s]]

Cuts(t, s) == Holds(t, s) /\ Alive(row[s]) /\ ~Alive(rowLock[s].row)

CommitRows(t) ==
  /\ row' = [s \in Sessions |-> IF Holds(t, s) THEN rowLock[s].row ELSE row[s]]
  /\ rowLock' = Released(t)
  /\ cutAt' = [s \in Sessions |-> IF Cuts(t, s) THEN now ELSE cutAt[s]]

RollBackRows(t) ==
  /\ rowLock' = Released(t)
  /\ UNCHANGED <<row, cutAt>>

-----------------------------------------------------------------------------
(* Login: the version is read with the user, the row is inserted later.    *)

BeginLogin(l) ==
  /\ login[l].pc = "idle"
  /\ \E u \in Users :
       login' = [login EXCEPT ![l] =
                   [IdleLogin EXCEPT !.pc = "insert", !.user = u,
                                     !.tv = tokenVersion[u]]]
  /\ UNCHANGED <<now, dbVars, memoryVars, cacheVars, clientVars, rot, revoke,
                 kill, guard, historyVars>>

NewRow(u, v) ==
  [user |-> u, hash |-> 1, tv |-> v, expiresAt |-> Expiry(now),
   revokedAt |-> None, reason |-> None]

InsertSession(l) ==
  /\ login[l].pc = "insert"
  /\ \E s \in Sessions :
       /\ minted[s] = 0
       /\ minted' = [minted EXCEPT ![s] = 1]
       /\ row' = [row EXCEPT ![s] = NewRow(login[l].user, login[l].tv)]
       /\ login' = [login EXCEPT ![l] =
                     [@ EXCEPT !.pc = "answer", !.sid = s]]
  /\ UNCHANGED <<now, tokenVersion, userLock, rowLock, memoryVars, cacheVars,
                 clientVars, rot, revoke, kill, guard, historyVars>>

\* An access JWT lives AccessTtl from the instant it is signed.
SignedNow(s, u, v) == [sid |-> s, user |-> u, tv |-> v, exp |-> now + AccessTtl]

AnswerLogin(l) ==
  /\ login[l].pc = "answer"
  /\ \/ LET s == login[l].sid IN
        /\ issued' = [issued EXCEPT ![s] = @ \cup {1}]
        /\ jwts' = jwts \cup {SignedNow(s, login[l].user, login[l].tv)}
     \/ UNCHANGED clientVars            \* the response is lost
  /\ login' = [login EXCEPT ![l] = IdleLogin]
  /\ UNCHANGED <<now, dbVars, memoryVars, cacheVars, rot, revoke, kill, guard,
                 historyVars>>

-----------------------------------------------------------------------------
(* Refresh: rotate / rotateInTransaction.                                  *)

\* Any token a client ever received may come back: the current one, one kept
\* because a response was lost, a copy.  tvFloor is read by a property only.
BeginRotate(r) ==
  /\ rot[r].pc = "idle"
  /\ \E s \in Sessions : \E t \in issued[s] :
       /\ minted[s] < MaxToken
       /\ rot' = [rot EXCEPT ![r] =
                    [IdleRot EXCEPT
                       !.pc = "readSession", !.sid = s, !.token = t, !.at = now,
                       !.tvFloor = IF row[s] = None THEN 0
                                   ELSE tokenVersion[row[s].user]]]
  /\ UNCHANGED <<now, dbVars, memoryVars, cacheVars, clientVars, revoke, kill,
                 login, guard, historyVars>>

\* findUnique with include: the first of its two SELECTs.
ReadSession(r) ==
  LET s == rot[r].sid IN
  /\ rot[r].pc = "readSession"
  /\ rot' = [rot EXCEPT ![r] =
               IF Alive(row[s]) /\ row[s].expiresAt > rot[r].at
               THEN [@ EXCEPT !.pc = "readUser", !.seen = row[s]]
               ELSE [@ EXCEPT !.pc = "commit", !.outcome = "invalid"]]
  /\ UNCHANGED <<now, dbVars, memoryVars, cacheVars, clientVars, revoke, kill,
                 login, guard, historyVars>>

\* The session is of another version than the user has now.
StaleVersionAccepted(seen) == FALSE                         \* a mutant
StaleVersion(seen) == seen.tv # tokenVersion[seen.user]

\* The second SELECT, then the synchronous decision: reuse of an old token,
\* a session older than the global switch, or the compare-and-swap.
ReadUser(r) ==
  LET q == rot[r]
      viaGrace == q.seen.hash # q.token
  IN
  /\ q.pc = "readUser"
  /\ rot' = [rot EXCEPT ![r] =
       IF viaGrace /\ ~IsGraceRetry(q.sid, q.token, q.at)
       THEN [@ EXCEPT !.pc = "revoke", !.outcome = "reuse"]
       ELSE IF StaleVersion(q.seen)
       THEN [@ EXCEPT !.pc = "revoke", !.outcome = "invalid"]
       ELSE [@ EXCEPT !.pc = "swap", !.viaGrace = viaGrace]]
  /\ UNCHANGED <<now, dbVars, memoryVars, cacheVars, clientVars, revoke, kill,
                 login, guard, historyVars>>

\* updateMany where {id, revokedAt: null}: TOKEN_REUSE or GLOBAL_SIGNOUT.
RevokeInRotation(r) ==
  LET q == rot[r]
      s == q.sid
      why == IF q.outcome = "reuse" THEN "TOKEN_REUSE" ELSE "GLOBAL_SIGNOUT"
  IN
  /\ q.pc = "revoke"
  /\ Free(s)
  /\ rowLock' = IF Alive(row[s])
                THEN [rowLock EXCEPT ![s] =
                        [by |-> r, row |-> Revoked(row[s], why, q.at)]]
                ELSE rowLock
  /\ rot' = [rot EXCEPT ![r] = [@ EXCEPT !.pc = "commit"]]
  /\ UNCHANGED <<now, tokenVersion, userLock, row, minted, memoryVars,
                 cacheVars, clientVars, revoke, kill, login, guard,
                 historyVars>>

\* The WHERE of the compare-and-swap, on the row as it is when the lock is
\* obtained: the hash is the one that was READ, also for a tolerated retry.
SwapMatchesRevoked(q) ==                                    \* a mutant
  row[q.sid] # None /\ row[q.sid].hash = q.seen.hash
SwapMatchesAnyHash(q) == Alive(row[q.sid])                  \* a mutant
SwapMatches(q) ==
  /\ Alive(row[q.sid])
  /\ row[q.sid].hash = q.seen.hash
  /\ row[q.sid].expiresAt > q.at

Swap(r) ==
  LET q == rot[r]
      s == q.sid
      next == minted[s] + 1
      swapped == [row[s] EXCEPT !.hash = next, !.expiresAt = Expiry(q.at)]
      entry == [previousHash |-> q.seen.hash, rotatedAt |-> q.at,
                graceSpent |-> q.viaGrace, userId |-> q.seen.user,
                installed |-> next]
  IN
  /\ q.pc = "swap"
  /\ Free(s)
  /\ IF SwapMatches(q)
     THEN /\ rowLock' = [rowLock EXCEPT ![s] = [by |-> r, row |-> swapped]]
          /\ minted' = [minted EXCEPT ![s] = next]
          /\ RememberRotation(s, entry)
          /\ rot' = [rot EXCEPT ![r] =
                       [@ EXCEPT !.pc = "commit", !.outcome = "rotated",
                                 !.next = next, !.prior = lastRotations[s]]]
     ELSE /\ rot' = [rot EXCEPT ![r] =
                       [@ EXCEPT !.pc = "commit", !.outcome = "conflict"]]
          /\ UNCHANGED <<rowLock, minted, memoryVars>>
  /\ UNCHANGED <<now, tokenVersion, userLock, row, cacheVars, clientVars,
                 revoke, kill, login, guard, historyVars>>

\* COMMIT reached the database; "answer" if the process learns it, else the
\* promise rejects as after a rollback.
CommitRotation(r) ==
  LET q == rot[r]
      lost == IF q.outcome = "rotated" THEN "undo" ELSE "idle"
  IN
  /\ q.pc = "commit"
  /\ CommitRows(r)
  /\ last' = IF q.outcome = "rotated"
             THEN [last EXCEPT ![q.sid] =
                     [presented |-> q.token, replaced |-> q.seen.hash,
                      installed |-> q.next, at |-> q.at,
                      lawful |-> MayRotate(q.sid, q.token, q.at)]]
             ELSE last
  /\ \/ rot' = [rot EXCEPT ![r] = [@ EXCEPT !.pc = "answer"]]
     \/ /\ CommitsMayBeLost
        /\ rot' = [rot EXCEPT ![r] =
                     IF lost = "undo" THEN [@ EXCEPT !.pc = "undo"] ELSE IdleRot]
  /\ UNCHANGED <<now, tokenVersion, userLock, minted, memoryVars, cacheVars,
                 clientVars, revoke, kill, login, guard, endOf, signedOut>>

\* A statement fails or the transaction times out: 500, and the memory of a
\* rotation that did not happen is undone by the catch.
AbortRotation(r) ==
  /\ rot[r].pc \in {"readSession", "readUser", "revoke", "swap", "commit"}
  /\ RollBackRows(r)
  /\ rot' = [rot EXCEPT ![r] = IF rot[r].outcome = "rotated"
                               THEN [@ EXCEPT !.pc = "undo"] ELSE IdleRot]
  /\ UNCHANGED <<now, tokenVersion, userLock, minted, memoryVars, cacheVars,
                 clientVars, revoke, kill, login, guard, last, endOf,
                 signedOut>>

UndoMemory(r) ==
  /\ rot[r].pc = "undo"
  /\ UndoRotation(rot[r].sid, rot[r].next, rot[r].prior)
  /\ rot' = [rot EXCEPT ![r] = IdleRot]
  /\ UNCHANGED <<now, dbVars, cacheVars, clientVars, revoke, kill, login,
                 guard, historyVars>>

\* The rotated tokens leave in the response, which may get lost.
AnswerRotated(r) ==
  LET q == rot[r] IN
  /\ q.pc = "answer"
  /\ q.outcome = "rotated"
  /\ \/ /\ issued' = [issued EXCEPT ![q.sid] = @ \cup {q.next}]
        /\ jwts' = jwts \cup {SignedNow(q.sid, q.seen.user, q.seen.tv)}
     \/ UNCHANGED clientVars
  /\ rot' = [rot EXCEPT ![r] = IdleRot]
  /\ UNCHANGED <<now, dbVars, memoryVars, cacheVars, revoke, kill, login,
                 guard, historyVars>>

\* 401.  A conflict leaves the memory alone: it belongs to the winner.
AnswerRejected(r) ==
  LET q == rot[r] IN
  /\ q.pc = "answer"
  /\ q.outcome \in {"invalid", "conflict", "reuse"}
  /\ Forget(IF q.outcome = "conflict" THEN {} ELSE {q.sid})
  /\ deviceSessions' = InvalidateDeviceSession(q.sid)
  /\ rot' = [rot EXCEPT ![r] = IdleRot]
  /\ UNCHANGED <<now, dbVars, cache, clientVars, revoke, kill, login, guard,
                 historyVars>>

RotateStep(r) ==
  \/ ReadSession(r) \/ ReadUser(r) \/ RevokeInRotation(r) \/ Swap(r)
  \/ CommitRotation(r) \/ UndoMemory(r) \/ AnswerRotated(r)
  \/ AnswerRejected(r)

-----------------------------------------------------------------------------
(* revoke: one device, from the Devices page or by logging out.            *)

\* The updateMany runs in a transaction of its own: it waits for the row.
RevokeOne(v) ==
  /\ revoke[v].pc = "idle"
  /\ \E s \in Sessions, u \in Users :
       LET hit == Alive(row[s]) /\ row[s].user = u IN
       /\ minted[s] > 0
       /\ Free(s)
       /\ row' = IF hit THEN [row EXCEPT ![s] = Revoked(row[s], "BY_USER", now)]
                 ELSE row
       /\ cutAt' = IF hit THEN [cutAt EXCEPT ![s] = now] ELSE cutAt
       /\ revoke' = [revoke EXCEPT ![v] =
                       [pc |-> "after", sid |-> s, hit |-> hit]]
  /\ UNCHANGED <<now, tokenVersion, userLock, rowLock, minted, memoryVars,
                 cacheVars, clientVars, rot, kill, login, guard, last, endOf,
                 signedOut>>

AfterRevoke(v) ==
  LET q == revoke[v] IN
  /\ q.pc = "after"
  /\ Forget(IF q.hit THEN {q.sid} ELSE {})
  /\ deviceSessions' = InvalidateDeviceSession(q.sid)
  /\ signedOut' = IF q.hit THEN signedOut \cup {q.sid} ELSE signedOut
  /\ revoke' = [revoke EXCEPT ![v] = IdleRevoke]
  /\ UNCHANGED <<now, dbVars, cache, clientVars, rot, kill, login, guard, last,
                 cutAt, endOf>>

-----------------------------------------------------------------------------
(* revokeAllSessions: the global switch, in one transaction.               *)

\* bumpTokenVersion: UPDATE "User" SET tokenVersion + 1, then invalidate.
BumpOutsideTransaction(k) ==       \* a mutant: the row is not held until COMMIT
  /\ kill[k].pc = "idle"
  /\ \E u \in Users, keep \in SessionOrNone :
       /\ tokenVersion[u] < MaxVersion
       /\ keep # None => \E j \in jwts : j.sid = keep /\ j.user = u
       /\ userLock[u] = None
       /\ kill' = [kill EXCEPT ![k] =
                     [pc |-> "revokeAll", user |-> u, keep |-> keep,
                      tv |-> tokenVersion[u] + 1]]
       /\ cache' = Invalidate(u)
  /\ UNCHANGED <<now, tokenVersion, userLock, row, rowLock, minted, memoryVars,
                 deviceSessions, clientVars, rot, revoke, login, guard,
                 historyVars>>
BumpInTransaction(k) ==
  /\ kill[k].pc = "idle"
  /\ \E u \in Users, keep \in SessionOrNone :
       /\ tokenVersion[u] < MaxVersion
       /\ keep # None => \E j \in jwts : j.sid = keep /\ j.user = u
       /\ userLock[u] = None
       /\ userLock' = [userLock EXCEPT ![u] = k]
       /\ kill' = [kill EXCEPT ![k] =
                     [pc |-> "revokeAll", user |-> u, keep |-> keep,
                      tv |-> tokenVersion[u] + 1]]
       /\ cache' = Invalidate(u)
  /\ UNCHANGED <<now, tokenVersion, row, rowLock, minted, memoryVars,
                 deviceSessions, clientVars, rot, revoke, login, guard,
                 historyVars>>

\* revokeAllExcept.  The statement locks its rows one by one; since each of
\* them is invisible until the commit, it is one step once all are free.
RevokeAllExcept(k) ==
  LET q == kill[k]
      targets == {s \in Sessions : Alive(row[s]) /\ row[s].user = q.user
                                   /\ s # q.keep}
  IN
  /\ q.pc = "revokeAll"
  /\ \A s \in targets : Free(s)
  /\ rowLock' = [s \in Sessions |->
                   IF s \in targets
                   THEN [by |-> k, row |-> Revoked(row[s], "GLOBAL_SIGNOUT", now)]
                   ELSE rowLock[s]]
  /\ Forget(RotationsOfUser(q.user, q.keep))
  /\ deviceSessions' = InvalidateDeviceSessionsOfUser(q.user)
  /\ kill' = [kill EXCEPT ![k] =
               [@ EXCEPT !.pc = IF q.keep = None THEN "commit" ELSE "confirm"]]
  /\ UNCHANGED <<now, tokenVersion, userLock, row, minted, cache, clientVars,
                 rot, revoke, login, guard, historyVars>>

ConfirmTokenVersion(k) ==
  LET q == kill[k] IN
  /\ q.pc = "confirm"
  /\ Free(q.keep)
  /\ rowLock' = IF Alive(row[q.keep]) /\ row[q.keep].user = q.user
                THEN [rowLock EXCEPT ![q.keep] =
                        [by |-> k, row |-> [row[q.keep] EXCEPT !.tv = q.tv]]]
                ELSE rowLock
  /\ kill' = [kill EXCEPT ![k] = [@ EXCEPT !.pc = "commit"]]
  /\ UNCHANGED <<now, tokenVersion, userLock, row, minted, memoryVars,
                 cacheVars, clientVars, rot, revoke, login, guard, historyVars>>

CommitKill(k) ==
  LET q == kill[k] IN
  /\ q.pc = "commit"
  /\ CommitRows(k)
  /\ tokenVersion' = [tokenVersion EXCEPT ![q.user] = q.tv]
  /\ endOf' = [endOf EXCEPT ![q.user] = Append(@, now)]
  /\ userLock' = [userLock EXCEPT ![q.user] = None]
  /\ \/ kill' = [kill EXCEPT ![k] = [@ EXCEPT !.pc = "after"]]
     \/ CommitsMayBeLost /\ kill' = [kill EXCEPT ![k] = IdleKill]
  /\ UNCHANGED <<now, minted, memoryVars, cacheVars, clientVars, rot, revoke,
                 login, guard, last, signedOut>>

AbortKill(k) ==
  /\ kill[k].pc \in {"revokeAll", "confirm", "commit"}
  /\ RollBackRows(k)
  /\ userLock' = [userLock EXCEPT ![kill[k].user] = None]
  /\ kill' = [kill EXCEPT ![k] = IdleKill]
  /\ UNCHANGED <<now, tokenVersion, minted, memoryVars, cacheVars, clientVars,
                 rot, revoke, login, guard, last, endOf, signedOut>>

\* After the commit both caches are invalidated once more, and the kept
\* device gets a JWT of the new version.
AfterKill(k) ==
  LET q == kill[k] IN
  /\ q.pc = "after"
  /\ cache' = Invalidate(q.user)
  /\ deviceSessions' = InvalidateDeviceSessionsOfUser(q.user)
  /\ jwts' = IF q.keep = None THEN jwts
             ELSE jwts \cup {SignedNow(q.keep, q.user, q.tv)}
  /\ signedOut' = signedOut \cup
       {s \in Sessions : row[s] # None /\ row[s].user = q.user
                         /\ row[s].revokedAt # None}
  /\ kill' = [kill EXCEPT ![k] = IdleKill]
  /\ UNCHANGED <<now, dbVars, memoryVars, issued, rot, revoke, login, guard,
                 last, cutAt, endOf>>

\* The OAuth merge bumps the version alone (no transaction, rows untouched);
\* the sessions die at their next refresh.
BumpTokenVersion(k) ==
  /\ kill[k].pc = "idle"
  /\ \E u \in Users :
       /\ tokenVersion[u] < MaxVersion
       /\ userLock[u] = None
       /\ tokenVersion' = [tokenVersion EXCEPT ![u] = @ + 1]
       /\ endOf' = [endOf EXCEPT ![u] = Append(@, now)]
       /\ kill' = [kill EXCEPT ![k] =
                     [IdleKill EXCEPT !.pc = "afterBump", !.user = u]]
  /\ UNCHANGED <<now, userLock, row, rowLock, minted, memoryVars, cacheVars,
                 clientVars, rot, revoke, login, guard, last, cutAt, signedOut>>

AfterBump(k) ==
  /\ kill[k].pc = "afterBump"
  /\ cache' = Invalidate(kill[k].user)
  /\ kill' = [kill EXCEPT ![k] = IdleKill]
  /\ UNCHANGED <<now, dbVars, memoryVars, deviceSessions, clientVars, rot,
                 revoke, login, guard, historyVars>>

KillStep(k) ==
  \/ RevokeAllExcept(k) \/ ConfirmTokenVersion(k) \/ CommitKill(k)
  \/ AfterKill(k) \/ AfterBump(k)

-----------------------------------------------------------------------------
(* JwtStrategy.validate: the version of the user, then the device.         *)

BeginGuard(g) ==
  /\ guard[g].pc = "idle"
  /\ \E j \in jwts :
       /\ now < j.exp
       /\ LET q == [IdleGuard EXCEPT !.jwt = j, !.at = now,
                                     !.afterCut = j.sid \in signedOut]
          IN  guard' = [guard EXCEPT ![g] =
                 IF ~Hit(cache[j.user], now)
                 THEN [q EXCEPT !.pc = "readUser"]
                 ELSE IF cache[j.user].tokenVersion = j.tv
                 THEN [q EXCEPT !.pc = "device", !.userSeenAt = now]
                 ELSE IdleGuard]                             \* 401
  /\ UNCHANGED <<now, dbVars, memoryVars, cacheVars, clientVars, rot, revoke,
                 kill, login, historyVars>>

GuardReadUser(g) ==
  /\ guard[g].pc = "readUser"
  /\ guard' = [guard EXCEPT ![g] =
                 [@ EXCEPT !.pc = "fillUser", !.userSeenAt = now,
                           !.seenTv = tokenVersion[guard[g].jwt.user]]]
  /\ UNCHANGED <<now, dbVars, memoryVars, cacheVars, clientVars, rot, revoke,
                 kill, login, historyVars>>

\* The answer of the SELECT is cached whatever was invalidated meanwhile.
GuardFillUser(g) ==
  LET q == guard[g] IN
  /\ q.pc = "fillUser"
  /\ cache' = Remember(cache, q.jwt.user,
                [tokenVersion |-> q.seenTv, expiresAt |-> q.at + CacheTtl])
  /\ guard' = [guard EXCEPT ![g] = IF q.seenTv = q.jwt.tv
                                   THEN [@ EXCEPT !.pc = "device"] ELSE IdleGuard]
  /\ UNCHANGED <<now, dbVars, memoryVars, deviceSessions, clientVars, rot,
                 revoke, kill, login, historyVars>>

GuardDevice(g) ==
  LET q == guard[g]
      entry == deviceSessions[q.jwt.sid]
  IN
  /\ q.pc = "device"
  /\ guard' = [guard EXCEPT ![g] =
       IF ~Hit(entry, now) THEN [@ EXCEPT !.pc = "readDevice", !.at = now]
       ELSE IF entry.active /\ entry.userId = q.jwt.user
       THEN [@ EXCEPT !.pc = "accepted", !.deviceSeenAt = now]
       ELSE IdleGuard]
  /\ UNCHANGED <<now, dbVars, memoryVars, cacheVars, clientVars, rot, revoke,
                 kill, login, historyVars>>

GuardReadDevice(g) ==
  LET r == row[guard[g].jwt.sid] IN
  /\ guard[g].pc = "readDevice"
  /\ guard' = [guard EXCEPT ![g] =
                 [@ EXCEPT !.pc = "fillDevice", !.deviceSeenAt = now,
                           !.active = Alive(r) /\ r.expiresAt > guard[g].at,
                           !.owner = IF r = None THEN None ELSE r.user]]
  /\ UNCHANGED <<now, dbVars, memoryVars, cacheVars, clientVars, rot, revoke,
                 kill, login, historyVars>>

GuardFillDevice(g) ==
  LET q == guard[g] IN
  /\ q.pc = "fillDevice"
  /\ deviceSessions' = Remember(deviceSessions, q.jwt.sid,
                         [userId |-> q.owner, active |-> q.active,
                          expiresAt |-> q.at + CacheTtl])
  /\ guard' = [guard EXCEPT ![g] = IF q.active /\ q.owner = q.jwt.user
                                   THEN [@ EXCEPT !.pc = "accepted"]
                                   ELSE IdleGuard]
  /\ UNCHANGED <<now, dbVars, memoryVars, cache, clientVars, rot, revoke, kill,
                 login, historyVars>>

EndGuard(g) ==
  /\ guard[g].pc = "accepted"
  /\ guard' = [guard EXCEPT ![g] = IdleGuard]
  /\ UNCHANGED <<now, dbVars, memoryVars, cacheVars, clientVars, rot, revoke,
                 kill, login, historyVars>>

GuardStep(g) ==
  \/ GuardReadUser(g) \/ GuardFillUser(g) \/ GuardDevice(g)
  \/ GuardReadDevice(g) \/ GuardFillDevice(g) \/ EndGuard(g)

-----------------------------------------------------------------------------
(* The cron, the clock and a restart of the process.                       *)

DeleteStaleUserSessions ==
  LET stale == {s \in Sessions :
                  /\ row[s] # None
                  /\ \/ row[s].expiresAt < now
                     \/ /\ row[s].revokedAt # None
                        /\ row[s].revokedAt < now - Retention}
  IN
  /\ stale # {}
  /\ \A s \in stale : Free(s)
  /\ row' = [s \in Sessions |-> IF s \in stale THEN None ELSE row[s]]
  /\ UNCHANGED <<now, tokenVersion, userLock, rowLock, minted, memoryVars,
                 cacheVars, clientVars, requestVars, historyVars>>

Tick ==
  /\ now < MaxTime
  /\ now' = now + 1
  /\ UNCHANGED <<dbVars, memoryVars, cacheVars, clientVars, requestVars,
                 historyVars>>

\* The process dies: its memory and its open transactions go, the committed
\* rows and what the clients hold stay.
Restart ==
  /\ rowLock' = [s \in Sessions |-> None]
  /\ userLock' = [u \in Users |-> None]
  /\ lastRotations' = EmptyRotations /\ rotationOrder' = {}
  /\ cache' = EmptyCache /\ deviceSessions' = EmptyDeviceSessions
  /\ rot' = [r \in Refreshers |-> IdleRot]
  /\ revoke' = [v \in Revokers |-> IdleRevoke]
  /\ kill' = [k \in Killers |-> IdleKill]
  /\ login' = [l \in Logins |-> IdleLogin]
  /\ guard' = [g \in Guards |-> IdleGuard]
  /\ UNCHANGED <<now, tokenVersion, row, minted, clientVars, historyVars>>

Next ==
  \/ \E l \in Logins : BeginLogin(l) \/ InsertSession(l) \/ AnswerLogin(l)
  \/ \E r \in Refreshers :
       BeginRotate(r) \/ RotateStep(r) \/ AbortRotation(r)
  \/ \E v \in Revokers : RevokeOne(v) \/ AfterRevoke(v)
  \/ \E k \in Killers :
       BumpInTransaction(k) \/ BumpTokenVersion(k) \/ KillStep(k) \/ AbortKill(k)
  \/ \E g \in Guards : BeginGuard(g) \/ GuardStep(g)
  \/ DeleteStaleUserSessions \/ Tick \/ Restart

Spec == Init /\ [][Next]_vars

-----------------------------------------------------------------------------
(* Properties.                                                             *)

\* Every committed rotation was allowed by the rules above, whatever was
\* rolled back, undone, evicted or revoked in between.
RotationsLawful == \A s \in Sessions : last[s] # None => last[s].lawful

\* A refresh that starts after a global switch committed never renews a
\* session of an earlier version, also one whose login straddled the switch.
KillSwitchCuts ==
  \A r \in Refreshers :
    rot[r].outcome = "rotated" => rot[r].seen.tv >= rot[r].tvFloor

\* A revoked row never comes back and keeps its first reason and instant
\* (retention and audit depend on them); it can only be deleted.
RevokedStaysRevoked ==
  [][\A s \in Sessions :
       row[s] # None /\ row[s].revokedAt # None => row'[s] \in {row[s], None}]_vars

\* The Map of rotations respects its limit, and its order stays a total
\* order of its keys, so that the one evicted is the oldest rotation.
MemoryWithinLimit ==
  /\ Cardinality(Remembered) <= MaxGraceEntries
  /\ rotationOrder \subseteq Remembered \X Remembered
  /\ \A a, b \in Remembered :
       a # b => (<<a, b>> \in rotationOrder) # (<<b, a>> \in rotationOrder)

\* A request is let in on the word of the caches at most CacheTtl after its
\* device was revoked or its version ended.
StalenessBounded ==
  \A g \in Guards : guard[g].pc = "accepted" =>
    LET q == guard[g]
        j == q.jwt
        InTime(seen, cut) == seen <= cut \/ seen < cut + CacheTtl
    IN  /\ cutAt[j.sid] # None => InTime(q.deviceSeenAt, cutAt[j.sid])
        /\ j.tv < tokenVersion[j.user] =>
             InTime(q.userSeenAt, endOf[j.user][j.tv + 1])

\* "na MESMA instancia o efeito e imediato": a request that starts after the
\* revocation of its device was answered is refused.
RevokedRefusedAtOnce ==
  \A g \in Guards : guard[g].pc = "accepted" => ~guard[g].afterCut

\* "o refresh ve tudo antes ou tudo depois": only sessions of an earlier
\* version die of a global switch, never the device that was kept.
KeptDeviceSurvives ==
  \A s \in Sessions :
    row[s] # None /\ row[s].reason = "GLOBAL_SIGNOUT" =>
      row[s].tv < tokenVersion[row[s].user]

\* The chain of tokens that the committed rows and rotations amount to.
ChainOf(s) ==
  [life |-> IF minted[s] = 0 THEN "fresh"
            ELSE IF Alive(row[s]) THEN "live" ELSE "ended",
   current |-> IF Alive(row[s]) THEN row[s].hash ELSE 0,
   presented |-> IF Alive(row[s]) /\ last[s] # None THEN last[s].presented
                 ELSE None,
   replaced |-> IF Alive(row[s]) /\ last[s] # None THEN last[s].replaced
                ELSE None,
   at |-> IF Alive(row[s]) /\ last[s] # None THEN last[s].at ELSE 0]

Chain == INSTANCE RefreshChain WITH chain <- [s \in Sessions |-> ChainOf(s)]

\* Concurrent refreshes, rollbacks, revocations and restarts together show
\* the clients nothing but the promised chain of tokens.
ImplementsChain == Chain!Spec

-----------------------------------------------------------------------------
(* Fairness: the event loop and the database eventually run every request, *)
(* and the queue of a row lock is served in order, so a request that finds *)
(* the lock free again and again obtains it.                               *)

Fairness ==
  /\ \A r \in Refreshers : SF_vars(RotateStep(r))
  /\ \A k \in Killers : SF_vars(KillStep(k))
  /\ \A v \in Revokers : WF_vars(AfterRevoke(v))

FairSpec == Spec /\ Fairness

\* Every refresh gets an answer and every global switch ends: no two
\* transactions wait for each other's rows.
RequestsAnswered ==
  /\ \A r \in Refreshers : rot[r].pc # "idle" ~> rot[r].pc = "idle"
  /\ \A k \in Killers : kill[k].pc # "idle" ~> kill[k].pc = "idle"
=============================================================================
