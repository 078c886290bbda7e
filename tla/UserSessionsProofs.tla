------------------------- MODULE UserSessionsProofs -------------------------
(***************************************************************************)
(* Theorems about UserSessions, for every number of users, sessions and    *)
(* requests and every value of the windows and bounds.                     *)
(***************************************************************************)
EXTENDS UserSessions, FiniteSetTheorems, TLAPS

-----------------------------------------------------------------------------
(* Type correctness.                                                       *)

\* What a request slot holds when it is idle is of the slot's type.
LEMMA IdleTypes ==
  /\ IdleRot \in RotReq
  /\ IdleRevoke \in RevokeReq
  /\ IdleKill \in KillReq
  /\ IdleLogin \in LoginReq
  /\ IdleGuard \in GuardReq
  BY DEF IdleRot, RotReq, IdleRevoke, RevokeReq, IdleKill, KillReq, IdleLogin,
         LoginReq, IdleGuard, GuardReq, RotPc, Outcomes, SessionOrNone,
         RowOrNone

\* A part of the state that a step leaves alone keeps its type.
LEMMA FrameTypes ==
  /\ DbTypeOK /\ UNCHANGED dbVars => DbTypeOK'
  /\ MemoryTypeOK /\ UNCHANGED memoryVars => MemoryTypeOK'
  /\ CacheTypeOK /\ UNCHANGED cacheVars => CacheTypeOK'
  /\ ClientTypeOK /\ UNCHANGED clientVars => ClientTypeOK'
  /\ RequestTypeOK /\ UNCHANGED requestVars => RequestTypeOK'
  /\ HistoryTypeOK /\ UNCHANGED historyVars => HistoryTypeOK'
  BY DEF DbTypeOK, dbVars, MemoryTypeOK, memoryVars, CacheTypeOK, cacheVars,
         ClientTypeOK, clientVars, RequestTypeOK, requestVars, HistoryTypeOK,
         historyVars

LEMMA InitTypeOK == Init => TypeOK
<1> SUFFICES ASSUME Init PROVE TypeOK
  OBVIOUS
<1>1. DbTypeOK /\ MemoryTypeOK /\ CacheTypeOK /\ ClientTypeOK /\ HistoryTypeOK
  BY DEF Init, DbTypeOK, MemoryTypeOK, CacheTypeOK, ClientTypeOK,
     HistoryTypeOK, EmptyRotations, EmptyCache, EmptyDeviceSessions, RowOrNone,
     NatOrNone
<1>2. RequestTypeOK
  BY IdleTypes DEF Init, RequestTypeOK, NoRequests, IdleRot,
     IdleRevoke, IdleKill, IdleLogin, IdleGuard
<1>3. QED
  BY <1>1, <1>2 DEF TypeOK, Init

\* A request slot may take any value of its type.
LEMMA RotTyped ==
  ASSUME RequestTypeOK, NEW r \in Refreshers, NEW q \in RotReq,
         rot' = [rot EXCEPT ![r] = q], UNCHANGED <<revoke, kill, login, guard>>
  PROVE  RequestTypeOK'
  BY DEF RequestTypeOK

LEMMA RevokeTyped ==
  ASSUME RequestTypeOK, NEW v \in Revokers, NEW q \in RevokeReq,
         revoke' = [revoke EXCEPT ![v] = q], UNCHANGED <<rot, kill, login, guard>>
  PROVE  RequestTypeOK'
  BY DEF RequestTypeOK

LEMMA KillTyped ==
  ASSUME RequestTypeOK, NEW k \in Killers, NEW q \in KillReq,
         kill' = [kill EXCEPT ![k] = q], UNCHANGED <<rot, revoke, login, guard>>
  PROVE  RequestTypeOK'
  BY DEF RequestTypeOK

LEMMA LoginTyped ==
  ASSUME RequestTypeOK, NEW l \in Logins, NEW q \in LoginReq,
         login' = [login EXCEPT ![l] = q], UNCHANGED <<rot, revoke, kill, guard>>
  PROVE  RequestTypeOK'
  BY DEF RequestTypeOK

LEMMA GuardTyped ==
  ASSUME RequestTypeOK, NEW g \in Guards, NEW q \in GuardReq,
         guard' = [guard EXCEPT ![g] = q], UNCHANGED <<rot, revoke, kill, login>>
  PROVE  RequestTypeOK'
  BY DEF RequestTypeOK

\* The operations on the Map of rotations.
LEMMA ForgetType ==
  ASSUME MemoryTypeOK, NEW S, Forget(S)
  PROVE  MemoryTypeOK'
  BY DEF MemoryTypeOK, Forget, Dropped

LEMMA RememberType ==
  ASSUME MemoryTypeOK, NEW s \in Sessions, NEW e \in RotationEntry,
         RememberRotation(s, e)
  PROVE  MemoryTypeOK'
  BY DEF MemoryTypeOK, RememberRotation, MovedToEnd, Dropped, Remembered

LEMMA UndoType ==
  ASSUME MemoryTypeOK, NEW s \in Sessions, NEW n,
         NEW e \in RotationEntry \cup {None}, UndoRotation(s, n, e)
  PROVE  MemoryTypeOK'
  BY DEF MemoryTypeOK, UndoRotation, MovedToEnd, Dropped, Remembered, memoryVars

\* The operations on the two caches.
LEMMA RememberUserType ==
  ASSUME CacheTypeOK, NEW u \in Users, NEW e \in CachedState
  PROVE  Remember(cache, u, e) \in [Users -> CachedState \cup {None}]
<1>1. DOMAIN cache = Users
  BY DEF CacheTypeOK
<1>2. QED
  BY <1>1 DEF CacheTypeOK, Remember

LEMMA RememberDeviceType ==
  ASSUME CacheTypeOK, NEW s \in Sessions, NEW e \in CachedDeviceSession
  PROVE  Remember(deviceSessions, s, e)
           \in [Sessions -> CachedDeviceSession \cup {None}]
<1>1. DOMAIN deviceSessions = Sessions
  BY DEF CacheTypeOK
<1>2. QED
  BY <1>1 DEF CacheTypeOK, Remember

LEMMA InvalidateTypes ==
  ASSUME CacheTypeOK
  PROVE  /\ \A u \in Users : Invalidate(u) \in [Users -> CachedState \cup {None}]
         /\ \A s \in Sessions : InvalidateDeviceSession(s)
              \in [Sessions -> CachedDeviceSession \cup {None}]
         /\ \A u \in Users : InvalidateDeviceSessionsOfUser(u)
              \in [Sessions -> CachedDeviceSession \cup {None}]
  BY DEF CacheTypeOK, Invalidate, InvalidateDeviceSession,
         InvalidateDeviceSessionsOfUser

\* The end of a transaction.
LEMMA CommitRowsType ==
  ASSUME DbTypeOK, HistoryTypeOK, now \in Nat, NEW t, CommitRows(t)
  PROVE  /\ row' \in [Sessions -> RowOrNone]
         /\ rowLock' \in [Sessions -> Lock \cup {None}]
         /\ cutAt' \in [Sessions -> NatOrNone]
<1>1. \A s \in Sessions : Holds(t, s) => rowLock[s].row \in Row
  BY DEF DbTypeOK, Holds, Lock
<1>2. row' \in [Sessions -> RowOrNone]
  BY <1>1 DEF DbTypeOK, CommitRows, RowOrNone
<1>3. rowLock' \in [Sessions -> Lock \cup {None}]
  BY DEF DbTypeOK, CommitRows, Released
<1>4. cutAt' \in [Sessions -> NatOrNone]
  BY DEF HistoryTypeOK, CommitRows, NatOrNone
<1>5. QED
  BY <1>2, <1>3, <1>4

LEMMA RollBackRowsType ==
  ASSUME DbTypeOK, HistoryTypeOK, NEW t, RollBackRows(t)
  PROVE  /\ row' \in [Sessions -> RowOrNone]
         /\ rowLock' \in [Sessions -> Lock \cup {None}]
         /\ cutAt' \in [Sessions -> NatOrNone]
  BY DEF DbTypeOK, HistoryTypeOK, RollBackRows, Released

-----------------------------------------------------------------------------
(* Login.                                                                  *)

LEMMA BeginLoginType ==
  ASSUME TypeOK, NEW l \in Logins, BeginLogin(l)
  PROVE  TypeOK'
<1>1. PICK u \in Users :
        login' = [login EXCEPT ![l] =
                    [IdleLogin EXCEPT !.pc = "insert", !.user = u,
                                      !.tv = tokenVersion[u]]]
  BY DEF BeginLogin
<1>2. [IdleLogin EXCEPT !.pc = "insert", !.user = u, !.tv = tokenVersion[u]]
        \in LoginReq
  BY DEF IdleLogin, LoginReq, SessionOrNone, TypeOK, DbTypeOK
<1>3. RequestTypeOK'
  BY <1>1, <1>2, LoginTyped DEF BeginLogin, TypeOK
<1>4. QED
  BY <1>3, FrameTypes DEF BeginLogin, TypeOK

LEMMA InsertSessionType ==
  ASSUME TypeOK, NEW l \in Logins, InsertSession(l)
  PROVE  TypeOK'
<1>1. PICK s \in Sessions :
        /\ minted' = [minted EXCEPT ![s] = 1]
        /\ row' = [row EXCEPT ![s] = NewRow(login[l].user, login[l].tv)]
        /\ login' = [login EXCEPT ![l] =
                       [login[l] EXCEPT !.pc = "answer", !.sid = s]]
  BY DEF InsertSession, TypeOK, RequestTypeOK
<1>2. login[l] \in LoginReq /\ login[l].user \in Users
  BY DEF TypeOK, RequestTypeOK, LoginReq, InsertSession
<1>3. NewRow(login[l].user, login[l].tv) \in RowOrNone
  BY <1>2, SessionsAssumption
     DEF NewRow, TypeOK, LoginReq, Row, RowOrNone, NatOrNone, Expiry
<1>4. DbTypeOK'
  BY <1>1, <1>3 DEF InsertSession, TypeOK, DbTypeOK
<1>5. [login[l] EXCEPT !.pc = "answer", !.sid = s] \in LoginReq
  BY <1>2 DEF LoginReq, SessionOrNone
<1>6. RequestTypeOK'
  BY <1>1, <1>5, LoginTyped DEF InsertSession, TypeOK
<1>7. QED
  BY <1>4, <1>6, FrameTypes DEF InsertSession, TypeOK

LEMMA AnswerLoginType ==
  ASSUME TypeOK, NEW l \in Logins, AnswerLogin(l)
  PROVE  TypeOK'
<1>1. login[l].sid \in Sessions /\ login[l].user \in Users /\ login[l].tv \in Nat
  BY DEF TypeOK, RequestTypeOK, LoginReq, AnswerLogin
<1>2. SignedNow(login[l].sid, login[l].user, login[l].tv) \in Jwt
  BY <1>1, SessionsAssumption DEF SignedNow, Jwt, TypeOK
<1>3. ClientTypeOK'
  BY <1>1, <1>2 DEF AnswerLogin, TypeOK, ClientTypeOK, clientVars
<1>4. RequestTypeOK'
  BY IdleTypes, LoginTyped DEF AnswerLogin, TypeOK
<1>5. QED
  BY <1>3, <1>4, FrameTypes DEF AnswerLogin, TypeOK

-----------------------------------------------------------------------------
(* Refresh.                                                                *)

\* What a refresh in flight carries.
LEMMA BusyRot ==
  ASSUME TypeOK, NEW r \in Refreshers
  PROVE  /\ rot[r] \in RotReq
         /\ rot[r].token \in Nat /\ rot[r].at \in Nat /\ rot[r].next \in Nat
         /\ rot[r].pc # "idle" => rot[r].sid \in Sessions
         /\ rot[r].pc \in {"readUser", "revoke", "swap"} => rot[r].seen \in Row
         /\ rot[r].outcome = "rotated" => rot[r].seen \in Row
         /\ rot[r].prior \in RotationEntry \cup {None}
         /\ rot[r].viaGrace \in BOOLEAN
  BY DEF TypeOK, RequestTypeOK, RotReq

LEMMA BeginRotateType ==
  ASSUME TypeOK, NEW r \in Refreshers, BeginRotate(r)
  PROVE  TypeOK'
<1> DEFINE floor(s) == IF row[s] = None THEN 0 ELSE tokenVersion[row[s].user]
           q(s, t) == [IdleRot EXCEPT !.pc = "readSession", !.sid = s,
                         !.token = t, !.at = now, !.tvFloor = floor(s)]
<1>1. PICK s \in Sessions, t \in Nat : rot' = [rot EXCEPT ![r] = q(s, t)]
  BY DEF BeginRotate, TypeOK, ClientTypeOK
<1>2. now \in Nat
  BY DEF TypeOK
<1>3. floor(s) \in Nat
  BY DEF TypeOK, DbTypeOK, RowOrNone, Row
<1>4. q(s, t) \in RotReq
  <2> HIDE DEF floor
  <2>1. QED
    BY <1>2, <1>3 DEF IdleRot, RotReq, RotPc, Outcomes, SessionOrNone, RowOrNone
<1>5. RequestTypeOK'
  <2> HIDE DEF q
  <2>1. QED
    BY <1>1, <1>4, RotTyped DEF BeginRotate, TypeOK
<1>6. QED
  BY <1>5, FrameTypes DEF BeginRotate, TypeOK

LEMMA ReadSessionType ==
  ASSUME TypeOK, NEW r \in Refreshers, ReadSession(r)
  PROVE  TypeOK'
<1> DEFINE s == rot[r].sid
           q == IF Alive(row[s]) /\ row[s].expiresAt > rot[r].at
                THEN [rot[r] EXCEPT !.pc = "readUser", !.seen = row[s]]
                ELSE [rot[r] EXCEPT !.pc = "commit", !.outcome = "invalid"]
<1>1. s \in Sessions /\ rot[r] \in RotReq
  BY BusyRot DEF ReadSession
<1>2. Alive(row[s]) => row[s] \in Row
  BY <1>1 DEF TypeOK, DbTypeOK, RowOrNone, Alive
<1>3. q \in RotReq
  BY <1>1, <1>2 DEF RotReq, RotPc, Outcomes, RowOrNone
<1>4. rot' = [rot EXCEPT ![r] = q]
  BY DEF ReadSession, TypeOK, RequestTypeOK
<1>5. RequestTypeOK'
  <2> HIDE DEF q
  <2>1. QED
    BY <1>3, <1>4, RotTyped DEF ReadSession, TypeOK
<1>6. QED
  BY <1>5, FrameTypes DEF ReadSession, TypeOK

LEMMA ReadUserType ==
  ASSUME TypeOK, NEW r \in Refreshers, ReadUser(r)
  PROVE  TypeOK'
<1> DEFINE viaGrace == rot[r].seen.hash # rot[r].token
           q == IF viaGrace /\ ~IsGraceRetry(rot[r].sid, rot[r].token, rot[r].at)
                THEN [rot[r] EXCEPT !.pc = "revoke", !.outcome = "reuse"]
                ELSE IF StaleVersion(rot[r].seen)
                THEN [rot[r] EXCEPT !.pc = "revoke", !.outcome = "invalid"]
                ELSE [rot[r] EXCEPT !.pc = "swap", !.viaGrace = viaGrace]
<1>1. rot[r] \in RotReq /\ rot[r].sid \in Sessions /\ rot[r].seen \in Row
  BY BusyRot DEF ReadUser
<1>2. viaGrace \in BOOLEAN
  OBVIOUS
<1>3. q \in RotReq
  <2> HIDE DEF viaGrace
  <2>1. QED
    BY <1>1, <1>2 DEF RotReq, RotPc, Outcomes
<1>4. rot' = [rot EXCEPT ![r] = q]
  BY DEF ReadUser, TypeOK, RequestTypeOK
<1>5. RequestTypeOK'
  <2> HIDE DEF q
  <2>1. QED
    BY <1>3, <1>4, RotTyped DEF ReadUser, TypeOK
<1>6. QED
  BY <1>5, FrameTypes DEF ReadUser, TypeOK

\* A row keeps its type when it is revoked.
LEMMA RevokedType ==
  ASSUME NEW x \in Row, NEW why \in Reasons, NEW at \in Nat
  PROVE  Revoked(x, why, at) \in Row
  BY DEF Row, Revoked, NatOrNone

LEMMA RevokeInRotationType ==
  ASSUME TypeOK, NEW r \in Refreshers, RevokeInRotation(r)
  PROVE  TypeOK'
<1> DEFINE s == rot[r].sid
           why == IF rot[r].outcome = "reuse" THEN "TOKEN_REUSE"
                  ELSE "GLOBAL_SIGNOUT"
           q == [rot[r] EXCEPT !.pc = "commit"]
           lock == [by |-> r, row |-> Revoked(row[s], why, rot[r].at)]
<1>1. /\ s \in Sessions /\ rot[r] \in RotReq /\ rot[r].at \in Nat
      /\ rot[r].seen \in Row
  BY BusyRot DEF RevokeInRotation
<1>2. why \in Reasons
  BY DEF Reasons
<1>3. Alive(row[s]) => lock \in Lock
  <2> SUFFICES ASSUME Alive(row[s]) PROVE lock \in Lock
    OBVIOUS
  <2>1. row[s] \in Row
    BY <1>1 DEF TypeOK, DbTypeOK, RowOrNone, Alive
  <2> HIDE DEF why
  <2>2. Revoked(row[s], why, rot[r].at) \in Row
    BY <1>1, <1>2, <2>1, RevokedType
  <2>3. QED
    BY <2>2 DEF Lock
<1>4. rowLock' = IF Alive(row[s]) THEN [rowLock EXCEPT ![s] = lock] ELSE rowLock
  BY DEF RevokeInRotation
<1>5. DbTypeOK'
  <2> HIDE DEF lock
  <2>1. QED
    BY <1>1, <1>3, <1>4 DEF RevokeInRotation, TypeOK, DbTypeOK
<1>6. q \in RotReq
  BY <1>1 DEF RotReq, RotPc
<1>7. RequestTypeOK'
  <2>1. rot' = [rot EXCEPT ![r] = q]
    BY DEF RevokeInRotation, TypeOK, RequestTypeOK
  <2> HIDE DEF q
  <2>2. QED
    BY <1>6, <2>1, RotTyped DEF RevokeInRotation, TypeOK
<1>8. QED
  BY <1>5, <1>7, FrameTypes DEF RevokeInRotation, TypeOK

LEMMA SwapType ==
  ASSUME TypeOK, NEW r \in Refreshers, Swap(r)
  PROVE  TypeOK'
<1> DEFINE s == rot[r].sid
           next == minted[s] + 1
           swapped == [row[s] EXCEPT !.hash = next,
                                     !.expiresAt = Expiry(rot[r].at)]
           lock == [by |-> r, row |-> swapped]
           entry == [previousHash |-> rot[r].seen.hash, rotatedAt |-> rot[r].at,
                     graceSpent |-> rot[r].viaGrace,
                     userId |-> rot[r].seen.user, installed |-> next]
           won == [rot[r] EXCEPT !.pc = "commit", !.outcome = "rotated",
                                 !.next = next, !.prior = lastRotations[s]]
           failed == [rot[r] EXCEPT !.pc = "commit", !.outcome = "conflict"]
<1>1. /\ s \in Sessions /\ rot[r] \in RotReq /\ rot[r].at \in Nat
      /\ rot[r].seen \in Row /\ rot[r].viaGrace \in BOOLEAN
  BY BusyRot DEF Swap
<1>2. next \in Nat /\ lastRotations[s] \in RotationEntry \cup {None}
  BY <1>1 DEF TypeOK, DbTypeOK, MemoryTypeOK
<1>3. won \in RotReq /\ failed \in RotReq
  <2> HIDE DEF next
  <2>1. QED
    BY <1>1, <1>2 DEF RotReq, RotPc, Outcomes
<1>4. entry \in RotationEntry
  <2> HIDE DEF next
  <2>1. QED
    BY <1>1, <1>2 DEF RotationEntry, Row
<1>5. CASE SwapMatches(rot[r])
  <2>1. /\ rowLock' = [rowLock EXCEPT ![s] = lock]
        /\ minted' = [minted EXCEPT ![s] = next]
        /\ RememberRotation(s, entry)
        /\ rot' = [rot EXCEPT ![r] = won]
    BY <1>5 DEF Swap, TypeOK, RequestTypeOK
  <2>2. row[s] \in Row
    BY <1>1, <1>5 DEF TypeOK, DbTypeOK, RowOrNone, SwapMatches, Alive
  <2>3. lock \in Lock
    <3>1. Expiry(rot[r].at) \in Nat
      BY <1>1, SessionsAssumption DEF Expiry
    <3>2. swapped \in Row
      <4> HIDE DEF next
      <4>1. QED
        BY <1>2, <2>2, <3>1 DEF Row
    <3> HIDE DEF swapped
    <3>3. QED
      BY <3>2 DEF Lock
  <2> HIDE DEF lock, won, next, entry
  <2>4. DbTypeOK'
    BY <1>1, <1>2, <2>1, <2>3 DEF Swap, TypeOK, DbTypeOK
  <2>5. MemoryTypeOK'
    BY <1>1, <1>4, <2>1, RememberType DEF TypeOK
  <2>6. RequestTypeOK'
    BY <1>3, <2>1, RotTyped DEF Swap, TypeOK
  <2>7. QED
    BY <2>4, <2>5, <2>6, FrameTypes DEF Swap, TypeOK
<1>6. CASE ~SwapMatches(rot[r])
  <2>1. /\ rot' = [rot EXCEPT ![r] = failed]
        /\ UNCHANGED <<rowLock, minted, memoryVars>>
    BY <1>6 DEF Swap, TypeOK, RequestTypeOK
  <2> HIDE DEF failed
  <2>2. RequestTypeOK'
    BY <1>3, <2>1, RotTyped DEF Swap, TypeOK
  <2>3. QED
    BY <2>1, <2>2, FrameTypes DEF Swap, TypeOK, dbVars
<1>7. QED
  BY <1>5, <1>6

LEMMA CommitRotationType ==
  ASSUME TypeOK, NEW r \in Refreshers, CommitRotation(r)
  PROVE  TypeOK'
<1> DEFINE s == rot[r].sid
           e == [presented |-> rot[r].token, replaced |-> rot[r].seen.hash,
                 installed |-> rot[r].next, at |-> rot[r].at,
                 lawful |-> MayRotate(s, rot[r].token, rot[r].at)]
<1>1. /\ s \in Sessions /\ rot[r] \in RotReq /\ rot[r].token \in Nat
      /\ rot[r].at \in Nat /\ rot[r].next \in Nat
      /\ rot[r].outcome = "rotated" => rot[r].seen \in Row
  BY BusyRot DEF CommitRotation
<1>2. DbTypeOK'
  BY CommitRowsType DEF CommitRotation, TypeOK, DbTypeOK
<1>3. HistoryTypeOK'
  <2>1. /\ cutAt' \in [Sessions -> NatOrNone]
        /\ UNCHANGED <<endOf, signedOut>>
        /\ last' = IF rot[r].outcome = "rotated" THEN [last EXCEPT ![s] = e]
                   ELSE last
    BY CommitRowsType DEF CommitRotation, TypeOK
  <2>2. rot[r].outcome = "rotated" => e \in Rotation
    <3>1. MayRotate(s, rot[r].token, rot[r].at) \in BOOLEAN
      BY DEF MayRotate
    <3>2. rot[r].outcome = "rotated" => rot[r].seen.hash \in Nat
      BY <1>1 DEF Row
    <3>3. QED
      BY <1>1, <3>1, <3>2 DEF Rotation
  <2> HIDE DEF e
  <2>3. QED
    BY <1>1, <2>1, <2>2 DEF TypeOK, HistoryTypeOK
<1>4. RequestTypeOK'
  <2>1. /\ [rot[r] EXCEPT !.pc = "answer"] \in RotReq
        /\ [rot[r] EXCEPT !.pc = "undo"] \in RotReq
    BY <1>1 DEF RotReq, RotPc
  <2>2. PICK q \in RotReq : rot' = [rot EXCEPT ![r] = q]
    BY <2>1, IdleTypes DEF CommitRotation, TypeOK, RequestTypeOK
  <2>3. QED
    BY <2>2, RotTyped DEF CommitRotation, TypeOK
<1>5. QED
  BY <1>2, <1>3, <1>4, FrameTypes DEF CommitRotation, TypeOK

LEMMA AbortRotationType ==
  ASSUME TypeOK, NEW r \in Refreshers, AbortRotation(r)
  PROVE  TypeOK'
<1>1. rot[r].sid \in Sessions /\ rot[r] \in RotReq
  BY BusyRot DEF AbortRotation
<1>2. DbTypeOK' /\ HistoryTypeOK'
  BY RollBackRowsType DEF AbortRotation, TypeOK, DbTypeOK, HistoryTypeOK
<1>3. RequestTypeOK'
  <2>1. [rot[r] EXCEPT !.pc = "undo"] \in RotReq
    BY <1>1 DEF RotReq, RotPc
  <2>2. PICK q \in RotReq : rot' = [rot EXCEPT ![r] = q]
    BY <2>1, IdleTypes DEF AbortRotation, TypeOK, RequestTypeOK
  <2>3. QED
    BY <2>2, RotTyped DEF AbortRotation, TypeOK
<1>4. QED
  BY <1>2, <1>3, FrameTypes DEF AbortRotation, TypeOK

LEMMA UndoMemoryType ==
  ASSUME TypeOK, NEW r \in Refreshers, UndoMemory(r)
  PROVE  TypeOK'
<1>1. rot[r].sid \in Sessions /\ rot[r].prior \in RotationEntry \cup {None}
  BY BusyRot DEF UndoMemory
<1>2. MemoryTypeOK'
  BY <1>1, UndoType DEF UndoMemory, TypeOK
<1>3. RequestTypeOK'
  BY IdleTypes, RotTyped DEF UndoMemory, TypeOK
<1>4. QED
  BY <1>2, <1>3, FrameTypes DEF UndoMemory, TypeOK

LEMMA AnswerRotatedType ==
  ASSUME TypeOK, NEW r \in Refreshers, AnswerRotated(r)
  PROVE  TypeOK'
<1>1. rot[r].sid \in Sessions /\ rot[r].next \in Nat /\ rot[r].seen \in Row
  BY BusyRot DEF AnswerRotated
<1>2. SignedNow(rot[r].sid, rot[r].seen.user, rot[r].seen.tv) \in Jwt
  BY <1>1, SessionsAssumption DEF SignedNow, Jwt, Row, TypeOK
<1>3. ClientTypeOK'
  BY <1>1, <1>2 DEF AnswerRotated, TypeOK, ClientTypeOK, clientVars
<1>4. RequestTypeOK'
  BY IdleTypes, RotTyped DEF AnswerRotated, TypeOK
<1>5. QED
  BY <1>3, <1>4, FrameTypes DEF AnswerRotated, TypeOK

LEMMA AnswerRejectedType ==
  ASSUME TypeOK, NEW r \in Refreshers, AnswerRejected(r)
  PROVE  TypeOK'
<1>1. rot[r].sid \in Sessions
  BY BusyRot DEF AnswerRejected
<1>2. MemoryTypeOK'
  BY ForgetType DEF AnswerRejected, TypeOK
<1>3. CacheTypeOK'
  BY <1>1, InvalidateTypes DEF AnswerRejected, TypeOK, CacheTypeOK
<1>4. RequestTypeOK'
  BY IdleTypes, RotTyped DEF AnswerRejected, TypeOK
<1>5. QED
  BY <1>2, <1>3, <1>4, FrameTypes DEF AnswerRejected, TypeOK

-----------------------------------------------------------------------------
(* Revocation of one device.                                               *)

LEMMA RevokeOneType ==
  ASSUME TypeOK, NEW v \in Revokers, RevokeOne(v)
  PROVE  TypeOK'
<1>1. PICK s \in Sessions, hit \in BOOLEAN :
        /\ hit => Alive(row[s])
        /\ row' = IF hit THEN [row EXCEPT ![s] = Revoked(row[s], "BY_USER", now)]
                  ELSE row
        /\ cutAt' = IF hit THEN [cutAt EXCEPT ![s] = now] ELSE cutAt
        /\ revoke' = [revoke EXCEPT ![v] =
                        [pc |-> "after", sid |-> s, hit |-> hit]]
  <2>1. PICK s \in Sessions, u \in Users :
          LET hit == Alive(row[s]) /\ row[s].user = u IN
          /\ row' = IF hit
                    THEN [row EXCEPT ![s] = Revoked(row[s], "BY_USER", now)]
                    ELSE row
          /\ cutAt' = IF hit THEN [cutAt EXCEPT ![s] = now] ELSE cutAt
          /\ revoke' = [revoke EXCEPT ![v] =
                          [pc |-> "after", sid |-> s, hit |-> hit]]
    BY DEF RevokeOne
  <2>2. (Alive(row[s]) /\ row[s].user = u) \in BOOLEAN
    OBVIOUS
  <2>3. QED
    BY <2>1, <2>2, Zenon
<1>2. hit => Revoked(row[s], "BY_USER", now) \in Row
  BY <1>1, RevokedType DEF TypeOK, DbTypeOK, RowOrNone, Alive, Reasons
<1>3. DbTypeOK'
  BY <1>1, <1>2 DEF RevokeOne, TypeOK, DbTypeOK, RowOrNone
<1>4. HistoryTypeOK'
  BY <1>1 DEF RevokeOne, TypeOK, HistoryTypeOK, NatOrNone
<1>5. RequestTypeOK'
  <2>1. [pc |-> "after", sid |-> s, hit |-> hit] \in RevokeReq
    BY DEF RevokeReq, SessionOrNone
  <2>2. QED
    BY <1>1, <2>1, RevokeTyped DEF RevokeOne, TypeOK
<1>6. QED
  BY <1>3, <1>4, <1>5, FrameTypes DEF RevokeOne, TypeOK

LEMMA AfterRevokeType ==
  ASSUME TypeOK, NEW v \in Revokers, AfterRevoke(v)
  PROVE  TypeOK'
<1>1. revoke[v].sid \in Sessions
  BY DEF TypeOK, RequestTypeOK, RevokeReq, AfterRevoke
<1>2. MemoryTypeOK'
  BY ForgetType DEF AfterRevoke, TypeOK
<1>3. CacheTypeOK'
  BY <1>1, InvalidateTypes DEF AfterRevoke, TypeOK, CacheTypeOK
<1>4. RequestTypeOK'
  BY IdleTypes, RevokeTyped DEF AfterRevoke, TypeOK
<1>5. HistoryTypeOK'
  BY <1>1 DEF AfterRevoke, TypeOK, HistoryTypeOK
<1>6. QED
  BY <1>2, <1>3, <1>4, <1>5, FrameTypes DEF AfterRevoke, TypeOK

-----------------------------------------------------------------------------
(* The global switch.                                                      *)

\* What a global switch in flight carries.
LEMMA BusyKill ==
  ASSUME TypeOK, NEW k \in Killers
  PROVE  /\ kill[k] \in KillReq /\ kill[k].tv \in Nat
         /\ kill[k].keep \in SessionOrNone
         /\ kill[k].pc # "idle" => kill[k].user \in Users
         /\ kill[k].pc = "confirm" => kill[k].keep \in Sessions
  BY DEF TypeOK, RequestTypeOK, KillReq

LEMMA BumpInTransactionType ==
  ASSUME TypeOK, NEW k \in Killers, BumpInTransaction(k)
  PROVE  TypeOK'
<1>1. PICK u \in Users, keep \in SessionOrNone :
        /\ userLock' = [userLock EXCEPT ![u] = k]
        /\ kill' = [kill EXCEPT ![k] =
                      [pc |-> "revokeAll", user |-> u, keep |-> keep,
                       tv |-> tokenVersion[u] + 1]]
        /\ cache' = Invalidate(u)
  BY DEF BumpInTransaction
<1>2. [pc |-> "revokeAll", user |-> u, keep |-> keep,
       tv |-> tokenVersion[u] + 1] \in KillReq
  BY DEF KillReq, TypeOK, DbTypeOK
<1>3. RequestTypeOK'
  BY <1>1, <1>2, KillTyped DEF BumpInTransaction, TypeOK
<1>4. DbTypeOK'
  BY <1>1 DEF BumpInTransaction, TypeOK, DbTypeOK
<1>5. CacheTypeOK'
  BY <1>1, InvalidateTypes DEF BumpInTransaction, TypeOK, CacheTypeOK
<1>6. QED
  BY <1>3, <1>4, <1>5, FrameTypes DEF BumpInTransaction, TypeOK

LEMMA RevokeAllExceptType ==
  ASSUME TypeOK, NEW k \in Killers, RevokeAllExcept(k)
  PROVE  TypeOK'
<1> DEFINE targets == {s \in Sessions : /\ Alive(row[s])
                                        /\ row[s].user = kill[k].user
                                        /\ s # kill[k].keep}
           lock(s) == [by |-> k, row |-> Revoked(row[s], "GLOBAL_SIGNOUT", now)]
           q == [kill[k] EXCEPT !.pc = IF kill[k].keep = None THEN "commit"
                                       ELSE "confirm"]
<1>1. kill[k] \in KillReq /\ kill[k].user \in Users
      /\ kill[k].keep \in SessionOrNone
  BY BusyKill DEF RevokeAllExcept
<1>2. q \in KillReq
  BY <1>1 DEF KillReq, SessionOrNone
<1>3. RequestTypeOK'
  <2>1. kill' = [kill EXCEPT ![k] = q]
    BY DEF RevokeAllExcept, TypeOK, RequestTypeOK
  <2> HIDE DEF q
  <2>2. QED
    BY <1>2, <2>1, KillTyped DEF RevokeAllExcept, TypeOK
<1>4. ASSUME NEW s \in targets PROVE lock(s) \in Lock
  <2>1. row[s] \in Row /\ now \in Nat
    BY DEF TypeOK, DbTypeOK, RowOrNone, Alive
  <2>2. Revoked(row[s], "GLOBAL_SIGNOUT", now) \in Row
    BY <2>1, RevokedType DEF Reasons
  <2>3. QED
    BY <2>2 DEF Lock
<1>5. DbTypeOK'
  <2>1. rowLock' = [s \in Sessions |-> IF s \in targets THEN lock(s)
                                       ELSE rowLock[s]]
    BY DEF RevokeAllExcept
  <2> HIDE DEF targets, lock
  <2>2. QED
    BY <1>4, <2>1 DEF RevokeAllExcept, TypeOK, DbTypeOK
<1>6. MemoryTypeOK'
  BY ForgetType DEF RevokeAllExcept, TypeOK
<1>7. CacheTypeOK'
  BY <1>1, InvalidateTypes DEF RevokeAllExcept, TypeOK, CacheTypeOK
<1>8. QED
  BY <1>3, <1>5, <1>6, <1>7, FrameTypes DEF RevokeAllExcept, TypeOK

LEMMA ConfirmTokenVersionType ==
  ASSUME TypeOK, NEW k \in Killers, ConfirmTokenVersion(k)
  PROVE  TypeOK'
<1> DEFINE s == kill[k].keep
           lock == [by |-> k, row |-> [row[s] EXCEPT !.tv = kill[k].tv]]
<1>1. s \in Sessions /\ kill[k] \in KillReq /\ kill[k].tv \in Nat
  BY BusyKill DEF ConfirmTokenVersion
<1>2. Alive(row[s]) => lock \in Lock
  <2> SUFFICES ASSUME Alive(row[s]) PROVE lock \in Lock
    OBVIOUS
  <2>1. row[s] \in Row
    BY <1>1 DEF TypeOK, DbTypeOK, RowOrNone, Alive
  <2>2. [row[s] EXCEPT !.tv = kill[k].tv] \in Row
    BY <1>1, <2>1 DEF Row
  <2>3. QED
    BY <2>2 DEF Lock
<1>3. DbTypeOK'
  <2>1. rowLock' = IF Alive(row[s]) /\ row[s].user = kill[k].user
                   THEN [rowLock EXCEPT ![s] = lock] ELSE rowLock
    BY DEF ConfirmTokenVersion
  <2> HIDE DEF lock
  <2>2. QED
    BY <1>1, <1>2, <2>1 DEF ConfirmTokenVersion, TypeOK, DbTypeOK
<1>4. RequestTypeOK'
  <2>1. [kill[k] EXCEPT !.pc = "commit"] \in KillReq
    BY <1>1 DEF ConfirmTokenVersion, KillReq
  <2>2. kill' = [kill EXCEPT ![k] = [kill[k] EXCEPT !.pc = "commit"]]
    BY DEF ConfirmTokenVersion, TypeOK, RequestTypeOK
  <2>3. QED
    BY <2>1, <2>2, KillTyped DEF ConfirmTokenVersion, TypeOK
<1>5. QED
  BY <1>3, <1>4, FrameTypes DEF ConfirmTokenVersion, TypeOK

LEMMA CommitKillType ==
  ASSUME TypeOK, NEW k \in Killers, CommitKill(k)
  PROVE  TypeOK'
<1>1. kill[k] \in KillReq /\ kill[k].user \in Users /\ kill[k].tv \in Nat
  BY BusyKill DEF CommitKill
<1>2. /\ row' \in [Sessions -> RowOrNone]
      /\ rowLock' \in [Sessions -> Lock \cup {None}]
      /\ cutAt' \in [Sessions -> NatOrNone]
  BY CommitRowsType DEF CommitKill, TypeOK
<1>3. DbTypeOK'
  BY <1>1, <1>2 DEF CommitKill, TypeOK, DbTypeOK
<1>4. HistoryTypeOK'
  <2>1. endOf' \in [Users -> Seq(Nat)]
    <3>1. endOf[kill[k].user] \in Seq(Nat) /\ now \in Nat
      BY <1>1 DEF TypeOK, HistoryTypeOK
    <3>2. Append(endOf[kill[k].user], now) \in Seq(Nat)
      BY <3>1
    <3>3. endOf' = [endOf EXCEPT ![kill[k].user] =
                      Append(endOf[kill[k].user], now)]
      BY <1>1 DEF CommitKill, TypeOK, HistoryTypeOK
    <3>4. QED
      BY <1>1, <3>2, <3>3 DEF TypeOK, HistoryTypeOK
  <2>2. QED
    BY <1>2, <2>1 DEF CommitKill, TypeOK, HistoryTypeOK
<1>5. RequestTypeOK'
  <2>1. [kill[k] EXCEPT !.pc = "after"] \in KillReq
    BY <1>1 DEF KillReq, CommitKill
  <2>2. PICK q \in KillReq : kill' = [kill EXCEPT ![k] = q]
    BY <2>1, IdleTypes DEF CommitKill, TypeOK, RequestTypeOK
  <2>3. QED
    BY <2>2, KillTyped DEF CommitKill, TypeOK
<1>6. QED
  BY <1>3, <1>4, <1>5, FrameTypes DEF CommitKill, TypeOK

LEMMA AbortKillType ==
  ASSUME TypeOK, NEW k \in Killers, AbortKill(k)
  PROVE  TypeOK'
<1>1. kill[k].user \in Users
  BY BusyKill DEF AbortKill
<1>2. /\ row' \in [Sessions -> RowOrNone]
      /\ rowLock' \in [Sessions -> Lock \cup {None}]
      /\ cutAt' \in [Sessions -> NatOrNone]
  BY RollBackRowsType DEF AbortKill, TypeOK
<1>3. DbTypeOK'
  BY <1>1, <1>2 DEF AbortKill, TypeOK, DbTypeOK
<1>4. HistoryTypeOK'
  BY <1>2 DEF AbortKill, TypeOK, HistoryTypeOK
<1>5. RequestTypeOK'
  BY IdleTypes, KillTyped DEF AbortKill, TypeOK
<1>6. QED
  BY <1>3, <1>4, <1>5, FrameTypes DEF AbortKill, TypeOK

LEMMA AfterKillType ==
  ASSUME TypeOK, NEW k \in Killers, AfterKill(k)
  PROVE  TypeOK'
<1>1. /\ kill[k].user \in Users /\ kill[k].tv \in Nat
      /\ kill[k].keep \in SessionOrNone
  BY BusyKill DEF AfterKill
<1>2. CacheTypeOK'
  BY <1>1, InvalidateTypes DEF AfterKill, TypeOK, CacheTypeOK
<1>3. ClientTypeOK'
  <2>1. kill[k].keep # None =>
          SignedNow(kill[k].keep, kill[k].user, kill[k].tv) \in Jwt
    BY <1>1, SessionsAssumption DEF SignedNow, Jwt, SessionOrNone, TypeOK
  <2>2. QED
    BY <2>1 DEF AfterKill, TypeOK, ClientTypeOK
<1>4. HistoryTypeOK'
  BY DEF AfterKill, TypeOK, HistoryTypeOK
<1>5. RequestTypeOK'
  BY IdleTypes, KillTyped DEF AfterKill, TypeOK
<1>6. QED
  BY <1>2, <1>3, <1>4, <1>5, FrameTypes DEF AfterKill, TypeOK

LEMMA BumpTokenVersionType ==
  ASSUME TypeOK, NEW k \in Killers, BumpTokenVersion(k)
  PROVE  TypeOK'
<1>1. PICK u \in Users :
        /\ tokenVersion' = [tokenVersion EXCEPT ![u] = tokenVersion[u] + 1]
        /\ endOf' = [endOf EXCEPT ![u] = Append(endOf[u], now)]
        /\ kill' = [kill EXCEPT ![k] =
                      [IdleKill EXCEPT !.pc = "afterBump", !.user = u]]
  BY DEF BumpTokenVersion, TypeOK, DbTypeOK, HistoryTypeOK
<1>2. DbTypeOK'
  BY <1>1 DEF BumpTokenVersion, TypeOK, DbTypeOK
<1>3. HistoryTypeOK'
  <2>1. endOf[u] \in Seq(Nat) /\ now \in Nat
    BY DEF TypeOK, HistoryTypeOK
  <2>2. Append(endOf[u], now) \in Seq(Nat)
    BY <2>1
  <2>3. QED
    BY <1>1, <2>2 DEF BumpTokenVersion, TypeOK, HistoryTypeOK
<1>4. RequestTypeOK'
  <2>1. [IdleKill EXCEPT !.pc = "afterBump", !.user = u] \in KillReq
    BY DEF IdleKill, KillReq, SessionOrNone
  <2>2. QED
    BY <1>1, <2>1, KillTyped DEF BumpTokenVersion, TypeOK
<1>5. QED
  BY <1>2, <1>3, <1>4, FrameTypes DEF BumpTokenVersion, TypeOK

LEMMA AfterBumpType ==
  ASSUME TypeOK, NEW k \in Killers, AfterBump(k)
  PROVE  TypeOK'
<1>1. kill[k].user \in Users
  BY BusyKill DEF AfterBump
<1>2. CacheTypeOK'
  BY <1>1, InvalidateTypes DEF AfterBump, TypeOK, CacheTypeOK
<1>3. RequestTypeOK'
  BY IdleTypes, KillTyped DEF AfterBump, TypeOK
<1>4. QED
  BY <1>2, <1>3, FrameTypes DEF AfterBump, TypeOK

-----------------------------------------------------------------------------
(* Authenticated requests.                                                 *)

\* What an authenticated request in flight carries.
LEMMA BusyGuard ==
  ASSUME TypeOK, NEW g \in Guards
  PROVE  /\ guard[g] \in GuardReq /\ now \in Nat
         /\ guard[g].at \in Nat /\ guard[g].seenTv \in Nat
         /\ guard[g].active \in BOOLEAN /\ guard[g].owner \in Users \cup {None}
         /\ guard[g].pc # "idle" => guard[g].jwt.user \in Users
         /\ guard[g].pc # "idle" => guard[g].jwt.sid \in Sessions
  BY DEF TypeOK, RequestTypeOK, GuardReq, Jwt

LEMMA BeginGuardType ==
  ASSUME TypeOK, NEW g \in Guards, BeginGuard(g)
  PROVE  TypeOK'
<1> DEFINE q(j) == [IdleGuard EXCEPT !.jwt = j, !.at = now,
                                     !.afterCut = j.sid \in signedOut]
<1>1. PICK j \in jwts :
        guard' = [guard EXCEPT ![g] =
          IF ~Hit(cache[j.user], now)
          THEN [q(j) EXCEPT !.pc = "readUser"]
          ELSE IF cache[j.user].tokenVersion = j.tv
          THEN [q(j) EXCEPT !.pc = "device", !.userSeenAt = now]
          ELSE IdleGuard]
  BY DEF BeginGuard
<1>2. /\ [q(j) EXCEPT !.pc = "readUser"] \in GuardReq
      /\ [q(j) EXCEPT !.pc = "device", !.userSeenAt = now] \in GuardReq
  <2>1. j \in Jwt /\ now \in Nat
    BY DEF TypeOK, ClientTypeOK
  <2>2. (j.sid \in signedOut) \in BOOLEAN
    OBVIOUS
  <2>3. QED
    BY <2>1, <2>2 DEF IdleGuard, GuardReq
<1> HIDE DEF q
<1>3. PICK x \in GuardReq : guard' = [guard EXCEPT ![g] = x]
  BY <1>1, <1>2, IdleTypes
<1>4. RequestTypeOK'
  BY <1>3, GuardTyped DEF BeginGuard, TypeOK
<1>5. QED
  BY <1>4, FrameTypes DEF BeginGuard, TypeOK

LEMMA GuardReadUserType ==
  ASSUME TypeOK, NEW g \in Guards, GuardReadUser(g)
  PROVE  TypeOK'
<1> DEFINE tv == tokenVersion[guard[g].jwt.user]
           q == [guard[g] EXCEPT !.pc = "fillUser", !.userSeenAt = now,
                                 !.seenTv = tv]
<1>1. guard[g] \in GuardReq /\ guard[g].jwt.user \in Users /\ now \in Nat
  BY BusyGuard DEF GuardReadUser
<1>2. tv \in Nat
  BY <1>1 DEF TypeOK, DbTypeOK
<1>3. q \in GuardReq
  <2> HIDE DEF tv
  <2>1. QED
    BY <1>1, <1>2 DEF GuardReadUser, GuardReq
<1>4. guard' = [guard EXCEPT ![g] = q]
  BY DEF GuardReadUser, TypeOK, RequestTypeOK
<1>5. RequestTypeOK'
  <2> HIDE DEF q
  <2>1. QED
    BY <1>3, <1>4, GuardTyped DEF GuardReadUser, TypeOK
<1>6. QED
  BY <1>5, FrameTypes DEF GuardReadUser, TypeOK

LEMMA GuardFillUserType ==
  ASSUME TypeOK, NEW g \in Guards, GuardFillUser(g)
  PROVE  TypeOK'
<1> DEFINE e == [tokenVersion |-> guard[g].seenTv,
                 expiresAt |-> guard[g].at + CacheTtl]
<1>1. /\ guard[g] \in GuardReq /\ guard[g].jwt.user \in Users
      /\ guard[g].at \in Nat /\ guard[g].seenTv \in Nat
  BY BusyGuard DEF GuardFillUser
<1>2. e \in CachedState
  BY <1>1, CacheAssumption DEF CachedState
<1>3. CacheTypeOK'
  <2>1. Remember(cache, guard[g].jwt.user, e) \in [Users -> CachedState \cup {None}]
    BY <1>1, <1>2, RememberUserType DEF TypeOK
  <2>2. QED
    BY <2>1 DEF GuardFillUser, TypeOK, CacheTypeOK
<1>4. RequestTypeOK'
  <2>1. [guard[g] EXCEPT !.pc = "device"] \in GuardReq
    BY <1>1 DEF GuardFillUser, GuardReq
  <2>2. PICK x \in GuardReq : guard' = [guard EXCEPT ![g] = x]
    BY <2>1, IdleTypes DEF GuardFillUser, TypeOK, RequestTypeOK
  <2>3. QED
    BY <2>2, GuardTyped DEF GuardFillUser, TypeOK
<1>5. QED
  BY <1>3, <1>4, FrameTypes DEF GuardFillUser, TypeOK

LEMMA GuardDeviceType ==
  ASSUME TypeOK, NEW g \in Guards, GuardDevice(g)
  PROVE  TypeOK'
<1>1. guard[g] \in GuardReq /\ now \in Nat
  BY BusyGuard
<1>2. /\ [guard[g] EXCEPT !.pc = "readDevice", !.at = now] \in GuardReq
      /\ [guard[g] EXCEPT !.pc = "accepted", !.deviceSeenAt = now] \in GuardReq
  BY <1>1 DEF GuardDevice, GuardReq
<1>3. PICK x \in GuardReq : guard' = [guard EXCEPT ![g] = x]
  BY <1>2, IdleTypes DEF GuardDevice, TypeOK, RequestTypeOK
<1>4. RequestTypeOK'
  BY <1>3, GuardTyped DEF GuardDevice, TypeOK
<1>5. QED
  BY <1>4, FrameTypes DEF GuardDevice, TypeOK

LEMMA GuardReadDeviceType ==
  ASSUME TypeOK, NEW g \in Guards, GuardReadDevice(g)
  PROVE  TypeOK'
<1> DEFINE x == row[guard[g].jwt.sid]
           active == Alive(x) /\ x.expiresAt > guard[g].at
           owner == IF x = None THEN None ELSE x.user
           q == [guard[g] EXCEPT !.pc = "fillDevice", !.deviceSeenAt = now,
                                 !.active = active, !.owner = owner]
<1>1. guard[g] \in GuardReq /\ guard[g].jwt.sid \in Sessions /\ now \in Nat
  BY BusyGuard DEF GuardReadDevice
<1>2. active \in BOOLEAN /\ owner \in Users \cup {None}
  BY <1>1 DEF TypeOK, DbTypeOK, RowOrNone, Row, Alive
<1>3. q \in GuardReq
  <2> HIDE DEF active, owner
  <2>1. QED
    BY <1>1, <1>2 DEF GuardReadDevice, GuardReq
<1>4. guard' = [guard EXCEPT ![g] = q]
  BY DEF GuardReadDevice, TypeOK, RequestTypeOK
<1>5. RequestTypeOK'
  <2> HIDE DEF q
  <2>1. QED
    BY <1>3, <1>4, GuardTyped DEF GuardReadDevice, TypeOK
<1>6. QED
  BY <1>5, FrameTypes DEF GuardReadDevice, TypeOK

LEMMA GuardFillDeviceType ==
  ASSUME TypeOK, NEW g \in Guards, GuardFillDevice(g)
  PROVE  TypeOK'
<1> DEFINE e == [userId |-> guard[g].owner, active |-> guard[g].active,
                 expiresAt |-> guard[g].at + CacheTtl]
<1>1. /\ guard[g] \in GuardReq /\ guard[g].jwt.sid \in Sessions
      /\ guard[g].at \in Nat /\ guard[g].active \in BOOLEAN
      /\ guard[g].owner \in Users \cup {None}
  BY BusyGuard DEF GuardFillDevice
<1>2. e \in CachedDeviceSession
  BY <1>1, CacheAssumption DEF CachedDeviceSession
<1>3. CacheTypeOK'
  <2>1. Remember(deviceSessions, guard[g].jwt.sid, e)
          \in [Sessions -> CachedDeviceSession \cup {None}]
    BY <1>1, <1>2, RememberDeviceType DEF TypeOK
  <2>2. QED
    BY <2>1 DEF GuardFillDevice, TypeOK, CacheTypeOK
<1>4. RequestTypeOK'
  <2>1. [guard[g] EXCEPT !.pc = "accepted"] \in GuardReq
    BY <1>1 DEF GuardFillDevice, GuardReq
  <2>2. PICK x \in GuardReq : guard' = [guard EXCEPT ![g] = x]
    BY <2>1, IdleTypes DEF GuardFillDevice, TypeOK, RequestTypeOK
  <2>3. QED
    BY <2>2, GuardTyped DEF GuardFillDevice, TypeOK
<1>5. QED
  BY <1>3, <1>4, FrameTypes DEF GuardFillDevice, TypeOK

LEMMA EndGuardType ==
  ASSUME TypeOK, NEW g \in Guards, EndGuard(g)
  PROVE  TypeOK'
<1>1. RequestTypeOK'
  BY IdleTypes, GuardTyped DEF EndGuard, TypeOK
<1>2. QED
  BY <1>1, FrameTypes DEF EndGuard, TypeOK

-----------------------------------------------------------------------------
(* The cron, the clock, a restart; the theorem.                            *)

LEMMA DeleteStaleUserSessionsType ==
  ASSUME TypeOK, DeleteStaleUserSessions
  PROVE  TypeOK'
<1>1. DbTypeOK'
  BY DEF DeleteStaleUserSessions, TypeOK, DbTypeOK, RowOrNone
<1>2. QED
  BY <1>1, FrameTypes DEF DeleteStaleUserSessions, TypeOK

LEMMA RestartType ==
  ASSUME TypeOK, Restart
  PROVE  TypeOK'
<1>1. DbTypeOK'
  BY DEF Restart, TypeOK, DbTypeOK
<1>2. MemoryTypeOK' /\ CacheTypeOK'
  BY DEF Restart, MemoryTypeOK, CacheTypeOK, EmptyRotations, EmptyCache,
     EmptyDeviceSessions
<1>3. RequestTypeOK'
  BY IdleTypes DEF Restart, RequestTypeOK
<1>4. QED
  BY <1>1, <1>2, <1>3, FrameTypes DEF Restart, TypeOK

LEMMA NextTypeOK == TypeOK /\ [Next]_vars => TypeOK'
<1> SUFFICES ASSUME TypeOK, [Next]_vars PROVE TypeOK'
  OBVIOUS
<1>1. ASSUME NEW l \in Logins,
             BeginLogin(l) \/ InsertSession(l) \/ AnswerLogin(l)
      PROVE  TypeOK'
  BY <1>1, BeginLoginType, InsertSessionType, AnswerLoginType
<1>2. ASSUME NEW r \in Refreshers,
             BeginRotate(r) \/ RotateStep(r) \/ AbortRotation(r)
      PROVE  TypeOK'
  BY <1>2, BeginRotateType, ReadSessionType, ReadUserType,
     RevokeInRotationType, SwapType, CommitRotationType, UndoMemoryType,
     AnswerRotatedType, AnswerRejectedType, AbortRotationType DEF RotateStep
<1>3. ASSUME NEW v \in Revokers, RevokeOne(v) \/ AfterRevoke(v)
      PROVE  TypeOK'
  BY <1>3, RevokeOneType, AfterRevokeType
<1>4. ASSUME NEW k \in Killers,
             \/ BumpInTransaction(k) \/ BumpTokenVersion(k)
             \/ KillStep(k) \/ AbortKill(k)
      PROVE  TypeOK'
  BY <1>4, BumpInTransactionType, BumpTokenVersionType, RevokeAllExceptType,
     ConfirmTokenVersionType, CommitKillType, AfterKillType, AfterBumpType,
     AbortKillType DEF KillStep
<1>5. ASSUME NEW g \in Guards, BeginGuard(g) \/ GuardStep(g)
      PROVE  TypeOK'
  BY <1>5, BeginGuardType, GuardReadUserType, GuardFillUserType,
     GuardDeviceType, GuardReadDeviceType, GuardFillDeviceType, EndGuardType
     DEF GuardStep
<1>6. CASE Tick
  BY <1>6, FrameTypes DEF Tick, TypeOK
<1>7. CASE UNCHANGED vars
  BY <1>7, FrameTypes DEF vars, TypeOK
<1>8. QED
  BY <1>1, <1>2, <1>3, <1>4, <1>5, <1>6, <1>7, DeleteStaleUserSessionsType,
     RestartType DEF Next

\* Every reachable state of the session machinery is well typed: a busy
\* request refers to rows and users that exist, the clock and every expiry
\* are natural numbers (Expiry slides forward), entries hold what was seen.
THEOREM TypeCorrect == Spec => []TypeOK
<1>1. Init => TypeOK
  BY InitTypeOK
<1>2. TypeOK /\ [Next]_vars => TypeOK'
  BY NextTypeOK
<1>3. QED
  BY <1>1, <1>2, PTL DEF Spec

-----------------------------------------------------------------------------
(* The inductive invariant behind RevokedStaysRevoked and KillSwitchCuts.  *)

\* Only a row that is still alive is ever locked, and its user is fixed.
LockedRows ==
  \A s \in Sessions : rowLock[s] # None =>
    Alive(row[s]) /\ rowLock[s].row.user = row[s].user

\* An id that was never minted has no row, and nobody knows it.
UnusedSessions ==
  /\ \A s \in Sessions : minted[s] = 0 => row[s] = None /\ issued[s] = {}
  /\ \A l \in Logins : login[l].pc = "answer" => minted[login[l].sid] # 0
  /\ \A r \in Refreshers : rot[r].pc # "idle" => minted[rot[r].sid] # 0

\* A global switch in its transaction owns its user and will add one.
BumpsOwned ==
  \A k \in Killers : kill[k].pc \in {"revokeAll", "confirm", "commit"} =>
    /\ userLock[kill[k].user] = k
    /\ kill[k].tv = tokenVersion[kill[k].user] + 1

\* What a refresh has seen is not older than the version it started under.
FloorKept(r) ==
  LET q == rot[r] IN
  /\ q.pc \in {"readSession", "readUser", "swap"} => q.outcome = "none"
  /\ q.pc = "readSession" =>
       row[q.sid] = None \/ q.tvFloor <= tokenVersion[row[q.sid].user]
  /\ q.pc = "readUser" => q.tvFloor <= tokenVersion[q.seen.user]
  /\ q.pc = "swap" \/ q.outcome = "rotated" => q.tvFloor <= q.seen.tv

FloorsKept == \A r \in Refreshers : FloorKept(r)

SessionInv == TypeOK /\ LockedRows /\ UnusedSessions /\ BumpsOwned /\ FloorsKept

LEMMA InitSessionInv == Init => SessionInv
<1> SUFFICES ASSUME Init PROVE SessionInv
  OBVIOUS
<1>1. LockedRows /\ UnusedSessions /\ BumpsOwned /\ FloorsKept
  BY DEF Init, NoRequests, IdleLogin, IdleRot, IdleKill, LockedRows,
     UnusedSessions, BumpsOwned, FloorsKept, FloorKept
<1>2. QED
  BY <1>1, InitTypeOK DEF SessionInv

LEMMA LockedRowsKept ==
  ASSUME TypeOK, LockedRows, UnusedSessions, [Next]_vars
  PROVE  LockedRows'
<1>1. CASE UNCHANGED <<row, rowLock>>
  BY <1>1 DEF LockedRows, Alive
<1>2. ASSUME NEW l \in Logins, InsertSession(l) PROVE LockedRows'
  BY <1>2 DEF InsertSession, LockedRows, UnusedSessions, Alive, TypeOK, DbTypeOK
<1>3. ASSUME NEW r \in Refreshers, RevokeInRotation(r) PROVE LockedRows'
  <2>1. rot[r].sid \in Sessions
    BY <1>3, BusyRot DEF RevokeInRotation
  <2>2. QED
    BY <1>3, <2>1 DEF RevokeInRotation, LockedRows, Alive, TypeOK, DbTypeOK,
       RowOrNone, Row, Revoked
<1>4. ASSUME NEW r \in Refreshers, Swap(r) PROVE LockedRows'
  <2>1. rot[r].sid \in Sessions
    BY <1>4, BusyRot DEF Swap
  <2>2. CASE ~SwapMatches(rot[r])
    BY <1>4, <2>2 DEF Swap, LockedRows, Alive
  <2>3. CASE SwapMatches(rot[r])
    <3> DEFINE x == row[rot[r].sid]
               n == minted[rot[r].sid] + 1
               y == [x EXCEPT !.hash = n, !.expiresAt = Expiry(rot[r].at)]
    <3>1. x \in Row /\ Alive(x)
      BY <2>1, <2>3 DEF SwapMatches, TypeOK, DbTypeOK, RowOrNone, Alive
    <3>2. y.user = x.user
      BY <3>1 DEF Row
    <3>3. rowLock' = [rowLock EXCEPT ![rot[r].sid] = [by |-> r, row |-> y]]
      BY <1>4, <2>3 DEF Swap
    <3>4. UNCHANGED row
      BY <1>4 DEF Swap
    <3> HIDE DEF y
    <3>5. QED
      BY <2>1, <3>1, <3>2, <3>3, <3>4 DEF LockedRows, Alive, TypeOK, DbTypeOK
  <2>4. QED
    BY <2>2, <2>3
<1>5. ASSUME NEW t, CommitRows(t) \/ RollBackRows(t) PROVE LockedRows'
  BY <1>5 DEF CommitRows, RollBackRows, Released, LockedRows, Alive, TypeOK,
     DbTypeOK
<1>6. ASSUME NEW v \in Revokers, RevokeOne(v) PROVE LockedRows'
  BY <1>6 DEF RevokeOne, Free, LockedRows, Alive, TypeOK, DbTypeOK
<1>7. ASSUME NEW k \in Killers, RevokeAllExcept(k) PROVE LockedRows'
  <2> DEFINE lock(s) == [by |-> k,
                         row |-> Revoked(row[s], "GLOBAL_SIGNOUT", now)]
  <2>1. ASSUME NEW s \in Sessions, Alive(row[s])
        PROVE  lock(s).row.user = row[s].user
    <3>1. row[s] \in Row
      BY <2>1 DEF TypeOK, DbTypeOK, RowOrNone, Alive
    <3>2. QED
      BY <3>1 DEF Row, Revoked
  <2>2. PICK targets \in SUBSET {s \in Sessions : Alive(row[s])} :
          rowLock' = [s \in Sessions |-> IF s \in targets THEN lock(s)
                                         ELSE rowLock[s]]
    BY <1>7 DEF RevokeAllExcept
  <2>3. UNCHANGED row
    BY <1>7 DEF RevokeAllExcept
  <2> HIDE DEF lock
  <2>4. QED
    BY <2>1, <2>2, <2>3 DEF LockedRows, Alive
<1>8. ASSUME NEW k \in Killers, ConfirmTokenVersion(k) PROVE LockedRows'
  <2>1. kill[k].keep \in Sessions
    BY <1>8, BusyKill DEF ConfirmTokenVersion
  <2>2. QED
    BY <1>8, <2>1 DEF ConfirmTokenVersion, LockedRows, Alive, TypeOK, DbTypeOK,
       RowOrNone, Row
<1>9. CASE DeleteStaleUserSessions
  BY <1>9 DEF DeleteStaleUserSessions, Free, LockedRows, Alive, TypeOK, DbTypeOK
<1>10. CASE Restart
  BY <1>10 DEF Restart, LockedRows
<1>11. QED
  <2>1. ASSUME NEW l \in Logins, BeginLogin(l) \/ AnswerLogin(l)
        PROVE  UNCHANGED <<row, rowLock>>
    BY <2>1 DEF BeginLogin, AnswerLogin, dbVars
  <2>2. ASSUME NEW r \in Refreshers,
               \/ BeginRotate(r) \/ ReadSession(r) \/ ReadUser(r)
               \/ UndoMemory(r) \/ AnswerRotated(r) \/ AnswerRejected(r)
        PROVE  UNCHANGED <<row, rowLock>>
    BY <2>2 DEF BeginRotate, ReadSession, ReadUser, UndoMemory, AnswerRotated,
       AnswerRejected, dbVars
  <2>3. ASSUME NEW k \in Killers,
               \/ BumpInTransaction(k) \/ BumpTokenVersion(k)
               \/ AfterKill(k) \/ AfterBump(k)
        PROVE  UNCHANGED <<row, rowLock>>
    BY <2>3 DEF BumpInTransaction, BumpTokenVersion, AfterKill, AfterBump, dbVars
  <2>4. ASSUME NEW g \in Guards, BeginGuard(g) \/ GuardStep(g)
        PROVE  UNCHANGED <<row, rowLock>>
    BY <2>4 DEF BeginGuard, GuardStep, GuardReadUser, GuardFillUser,
       GuardDevice, GuardReadDevice, GuardFillDevice, EndGuard, dbVars
  <2>5. ASSUME NEW v \in Revokers, AfterRevoke(v)
        PROVE  UNCHANGED <<row, rowLock>>
    BY <2>5 DEF AfterRevoke, dbVars
  <2>6. Tick \/ UNCHANGED vars => UNCHANGED <<row, rowLock>>
    BY DEF Tick, vars, dbVars
  <2>7. ASSUME NEW r \in Refreshers, CommitRotation(r) \/ AbortRotation(r)
        PROVE  LockedRows'
    BY <2>7, <1>5 DEF CommitRotation, AbortRotation
  <2>8. ASSUME NEW k \in Killers, CommitKill(k) \/ AbortKill(k)
        PROVE  LockedRows'
    BY <2>8, <1>5 DEF CommitKill, AbortKill
  <2>9. QED
    BY <1>1, <1>2, <1>3, <1>4, <1>6, <1>7, <1>8, <1>9, <1>10, <2>1, <2>2, <2>3,
       <2>4, <2>5, <2>6, <2>7, <2>8 DEF Next, RotateStep, KillStep

LEMMA UnusedSessionsKept ==
  ASSUME TypeOK, LockedRows, UnusedSessions, [Next]_vars
  PROVE  UnusedSessions'
<1>1. ASSUME NEW l \in Logins, BeginLogin(l) PROVE UnusedSessions'
  <2>1. \A m \in Logins : login'[m].pc = "answer" => login'[m] = login[m]
    BY <1>1 DEF BeginLogin, IdleLogin, TypeOK, RequestTypeOK
  <2>2. UNCHANGED <<minted, row, issued, rot>>
    BY <1>1 DEF BeginLogin, dbVars, clientVars
  <2>3. QED
    BY <2>1, <2>2 DEF UnusedSessions
<1>2. ASSUME NEW l \in Logins, InsertSession(l) PROVE UnusedSessions'
  <2>1. PICK s \in Sessions :
          /\ minted[s] = 0 /\ minted' = [minted EXCEPT ![s] = 1]
          /\ row' = [row EXCEPT ![s] = NewRow(login[l].user, login[l].tv)]
          /\ login' = [login EXCEPT ![l] =
                         [login[l] EXCEPT !.pc = "answer", !.sid = s]]
    BY <1>2 DEF InsertSession, TypeOK, RequestTypeOK
  <2>2. UNCHANGED <<issued, rot>>
    BY <1>2 DEF InsertSession, clientVars
  <2>3. \A x \in Sessions : minted[x] # 0 => minted'[x] # 0
    BY <2>1 DEF TypeOK, DbTypeOK
  <2>4. \A x \in Sessions : minted'[x] = 0 => row'[x] = None /\ issued'[x] = {}
    BY <2>1, <2>2 DEF TypeOK, DbTypeOK, UnusedSessions
  <2>5. \A m \in Logins : login'[m].pc = "answer" => minted'[login'[m].sid] # 0
    <3> SUFFICES ASSUME NEW m \in Logins, login'[m].pc = "answer"
                 PROVE  minted'[login'[m].sid] # 0
      OBVIOUS
    <3>1. CASE m = l
      <4>1. login'[m].sid = s
        BY <2>1, <3>1 DEF TypeOK, RequestTypeOK, LoginReq
      <4>2. QED
        BY <2>1, <4>1 DEF TypeOK, DbTypeOK
    <3>2. CASE m # l
      BY <2>1, <2>3, <3>2 DEF UnusedSessions, TypeOK, RequestTypeOK, LoginReq
    <3>3. QED
      BY <3>1, <3>2
  <2>6. \A r \in Refreshers : rot'[r].pc # "idle" => minted'[rot'[r].sid] # 0
    BY <2>2, <2>3, BusyRot DEF UnusedSessions
  <2>7. QED
    BY <2>4, <2>5, <2>6 DEF UnusedSessions
<1>3. ASSUME NEW l \in Logins, AnswerLogin(l) PROVE UnusedSessions'
  <2>1. \A m \in Logins : login'[m].pc = "answer" => login'[m] = login[m]
    BY <1>3 DEF AnswerLogin, IdleLogin, TypeOK, RequestTypeOK
  <2>2. UNCHANGED <<minted, row, rot>>
    BY <1>3 DEF AnswerLogin, dbVars
  <2>3. \A x \in Sessions : issued'[x] = issued[x] \/ x = login[l].sid
    BY <1>3 DEF AnswerLogin, clientVars, TypeOK, ClientTypeOK
  <2>4. minted[login[l].sid] # 0
    BY <1>3 DEF AnswerLogin, UnusedSessions
  <2>5. QED
    BY <2>1, <2>2, <2>3, <2>4 DEF UnusedSessions
<1>4. ASSUME NEW r \in Refreshers, BeginRotate(r) PROVE UnusedSessions'
  <2>1. PICK s \in Sessions : issued[s] # {} /\ rot'[r].sid = s
                              /\ \A x \in Refreshers \ {r} : rot'[x] = rot[x]
    BY <1>4 DEF BeginRotate, IdleRot, TypeOK, RequestTypeOK
  <2>2. UNCHANGED <<minted, row, issued, login>>
    BY <1>4 DEF BeginRotate, dbVars, clientVars
  <2>3. QED
    BY <2>1, <2>2 DEF UnusedSessions
<1>5. ASSUME NEW r \in Refreshers, RotateStep(r) \/ AbortRotation(r)
      PROVE  UnusedSessions'
  <2>1. rot[r].pc # "idle" /\ rot[r].sid \in Sessions /\ rot[r] \in RotReq
    BY <1>5, BusyRot DEF RotateStep, ReadSession, ReadUser, RevokeInRotation,
       Swap, CommitRotation, UndoMemory, AnswerRotated, AnswerRejected,
       AbortRotation
  <2>2. \A x \in Refreshers :
          rot'[x].pc # "idle" => rot[x].pc # "idle" /\ rot'[x].sid = rot[x].sid
    <3>1. ReadSession(r) \/ ReadUser(r) \/ RevokeInRotation(r) =>
            \E q : q.sid = rot[r].sid /\ rot' = [rot EXCEPT ![r] = q]
      <4>1. ReadSession(r) =>
              \E q : q.sid = rot[r].sid /\ rot' = [rot EXCEPT ![r] = q]
        <5> DEFINE found == [rot[r] EXCEPT !.pc = "readUser",
                                           !.seen = row[rot[r].sid]]
                   gone == [rot[r] EXCEPT !.pc = "commit",
                                          !.outcome = "invalid"]
        <5>1. found.sid = rot[r].sid /\ gone.sid = rot[r].sid
          BY <2>1 DEF RotReq
        <5>2. ReadSession(r) => \/ rot' = [rot EXCEPT ![r] = found]
                                \/ rot' = [rot EXCEPT ![r] = gone]
          BY DEF ReadSession
        <5> HIDE DEF found, gone
        <5>3. QED
          BY <5>1, <5>2
      <4>2. ReadUser(r) =>
              \E q : q.sid = rot[r].sid /\ rot' = [rot EXCEPT ![r] = q]
        <5> DEFINE reuse == [rot[r] EXCEPT !.pc = "revoke", !.outcome = "reuse"]
                   stale == [rot[r] EXCEPT !.pc = "revoke",
                                           !.outcome = "invalid"]
                   fine == [rot[r] EXCEPT !.pc = "swap",
                              !.viaGrace = (rot[r].seen.hash # rot[r].token)]
        <5>1. /\ reuse.sid = rot[r].sid /\ stale.sid = rot[r].sid
              /\ fine.sid = rot[r].sid
          BY <2>1 DEF RotReq
        <5>2. ReadUser(r) => \/ rot' = [rot EXCEPT ![r] = reuse]
                             \/ rot' = [rot EXCEPT ![r] = stale]
                             \/ rot' = [rot EXCEPT ![r] = fine]
          BY DEF ReadUser
        <5> HIDE DEF reuse, stale, fine
        <5>3. QED
          BY <5>1, <5>2
      <4>3. RevokeInRotation(r) =>
              \E q : q.sid = rot[r].sid /\ rot' = [rot EXCEPT ![r] = q]
        <5> DEFINE done == [rot[r] EXCEPT !.pc = "commit"]
        <5>1. done.sid = rot[r].sid
          BY <2>1 DEF RotReq
        <5>2. RevokeInRotation(r) => rot' = [rot EXCEPT ![r] = done]
          BY DEF RevokeInRotation
        <5> HIDE DEF done
        <5>3. QED
          BY <5>1, <5>2
      <4>4. QED
        BY <4>1, <4>2, <4>3
    <3>2. Swap(r) => \E q : q.sid = rot[r].sid /\ rot' = [rot EXCEPT ![r] = q]
      <4> DEFINE won == [rot[r] EXCEPT !.pc = "commit", !.outcome = "rotated",
                           !.next = minted[rot[r].sid] + 1,
                           !.prior = lastRotations[rot[r].sid]]
                 failed == [rot[r] EXCEPT !.pc = "commit", !.outcome = "conflict"]
      <4>1. won.sid = rot[r].sid /\ failed.sid = rot[r].sid
        BY <2>1 DEF RotReq
      <4>2. Swap(r) => \/ rot' = [rot EXCEPT ![r] = won]
                       \/ rot' = [rot EXCEPT ![r] = failed]
        BY DEF Swap
      <4> HIDE DEF won, failed
      <4>3. QED
        BY <4>1, <4>2
    <3>3. CommitRotation(r) \/ AbortRotation(r) =>
            \E q : /\ q = IdleRot \/ q.sid = rot[r].sid
                   /\ rot' = [rot EXCEPT ![r] = q]
      <4> DEFINE told == [rot[r] EXCEPT !.pc = "answer"]
                 undoing == [rot[r] EXCEPT !.pc = "undo"]
      <4>1. told.sid = rot[r].sid /\ undoing.sid = rot[r].sid
        BY <2>1 DEF RotReq
      <4>2. CommitRotation(r) \/ AbortRotation(r) =>
              \/ rot' = [rot EXCEPT ![r] = told]
              \/ rot' = [rot EXCEPT ![r] = undoing]
              \/ rot' = [rot EXCEPT ![r] = IdleRot]
        BY DEF CommitRotation, AbortRotation
      <4> HIDE DEF told, undoing
      <4>3. QED
        BY <4>1, <4>2
    <3>4. UndoMemory(r) \/ AnswerRotated(r) \/ AnswerRejected(r) =>
            rot' = [rot EXCEPT ![r] = IdleRot]
      BY DEF UndoMemory, AnswerRotated, AnswerRejected
    <3>5. rot \in [Refreshers -> RotReq]
      BY DEF TypeOK, RequestTypeOK
    <3>6. QED
      BY <1>5, <2>1, <3>1, <3>2, <3>3, <3>4, <3>5 DEF RotateStep, IdleRot
  <2>3. UNCHANGED login
    BY <1>5 DEF RotateStep, ReadSession, ReadUser, RevokeInRotation,
       Swap, CommitRotation, UndoMemory, AnswerRotated, AnswerRejected,
       AbortRotation
  <2>4. \A x \in Sessions : minted[x] # 0 => minted'[x] # 0
    <3>1. Swap(r) => minted' = minted \/ minted' =
            [minted EXCEPT ![rot[r].sid] = minted[rot[r].sid] + 1]
      BY DEF Swap
    <3>2. ~Swap(r) => minted' = minted
      BY <1>5 DEF RotateStep, ReadSession, ReadUser, RevokeInRotation,
         CommitRotation, UndoMemory, AnswerRotated, AnswerRejected,
         AbortRotation, dbVars
    <3>3. QED
      BY <2>1, <3>1, <3>2 DEF TypeOK, DbTypeOK
  <2>5. \A x \in Sessions : row[x] = None => row'[x] = None
    <3>1. CommitRotation(r) \/ AbortRotation(r) =>
            CommitRows(r) \/ UNCHANGED row
      BY DEF CommitRotation, AbortRotation, RollBackRows
    <3>2. ~(CommitRotation(r) \/ AbortRotation(r)) => UNCHANGED row
      BY <1>5 DEF RotateStep, ReadSession, ReadUser, RevokeInRotation,
         Swap, UndoMemory, AnswerRotated, AnswerRejected, dbVars
    <3>3. QED
      BY <3>1, <3>2 DEF CommitRows, Holds, LockedRows, Alive
  <2>6. \A x \in Sessions : issued'[x] = issued[x] \/ x = rot[r].sid
    <3>1. AnswerRotated(r) =>
            \A x \in Sessions : issued'[x] = issued[x] \/ x = rot[r].sid
      BY DEF AnswerRotated, clientVars, TypeOK, ClientTypeOK
    <3>2. ~AnswerRotated(r) => UNCHANGED issued
      BY <1>5 DEF RotateStep, ReadSession, ReadUser, RevokeInRotation,
         Swap, CommitRotation, UndoMemory, AnswerRejected, AbortRotation,
         clientVars
    <3>3. QED
      BY <3>1, <3>2
  <2>7. \A l \in Logins : login[l].pc = "answer" => login[l].sid \in Sessions
    BY DEF TypeOK, RequestTypeOK, LoginReq
  <2>8. QED
    BY <2>1, <2>2, <2>3, <2>4, <2>5, <2>6, <2>7, BusyRot DEF UnusedSessions
<1>6. ASSUME NEW v \in Revokers, RevokeOne(v) PROVE UnusedSessions'
  <2>1. \A s \in Sessions : row[s] = None => row'[s] = None
    BY <1>6 DEF RevokeOne, Alive, TypeOK, DbTypeOK
  <2>2. QED
    BY <1>6, <2>1 DEF RevokeOne, clientVars, UnusedSessions
<1>7. ASSUME NEW k \in Killers,
             \/ BumpInTransaction(k) \/ BumpTokenVersion(k)
             \/ KillStep(k) \/ AbortKill(k)
      PROVE  UnusedSessions'
  <2>1. UNCHANGED <<minted, issued, login, rot>>
    BY <1>7 DEF KillStep, BumpInTransaction, BumpTokenVersion,
       RevokeAllExcept, ConfirmTokenVersion, CommitKill, AfterKill, AfterBump,
       AbortKill, dbVars, clientVars
  <2>2. CommitRows(k) \/ UNCHANGED row
    BY <1>7 DEF KillStep, BumpInTransaction, BumpTokenVersion,
       RevokeAllExcept, ConfirmTokenVersion, CommitKill, AfterKill, AfterBump,
       AbortKill, RollBackRows, dbVars
  <2>3. \A s \in Sessions : row[s] = None => row'[s] = None
    BY <2>2 DEF CommitRows, Holds, LockedRows, Alive
  <2>4. QED
    BY <2>1, <2>3 DEF UnusedSessions
<1>8. CASE DeleteStaleUserSessions
  BY <1>8 DEF DeleteStaleUserSessions, UnusedSessions, clientVars, requestVars
<1>9. CASE Restart
  BY <1>9 DEF Restart, UnusedSessions, clientVars, IdleLogin, IdleRot
<1>10. CASE UNCHANGED <<minted, row, issued, login, rot>>
  BY <1>10 DEF UnusedSessions
<1>11. QED
  <2>1. ASSUME NEW g \in Guards, BeginGuard(g) \/ GuardStep(g)
        PROVE  UNCHANGED <<minted, row, issued, login, rot>>
    BY <2>1 DEF BeginGuard, GuardStep, GuardReadUser, GuardFillUser,
       GuardDevice, GuardReadDevice, GuardFillDevice, EndGuard, dbVars,
       clientVars
  <2>2. ASSUME NEW v \in Revokers, AfterRevoke(v)
        PROVE  UNCHANGED <<minted, row, issued, login, rot>>
    BY <2>2 DEF AfterRevoke, dbVars, clientVars
  <2>3. Tick \/ UNCHANGED vars => UNCHANGED <<minted, row, issued, login, rot>>
    BY DEF Tick, vars, dbVars, clientVars, requestVars
  <2>4. QED
    BY <1>1, <1>2, <1>3, <1>4, <1>5, <1>6, <1>7, <1>8, <1>9, <1>10, <2>1, <2>2,
       <2>3 DEF Next

\* The steps that leave the versions, their locks and the switches alone.
LEMMA OtherSteps ==
  ASSUME [Next]_vars, ~Restart,
         ~\E k \in Killers : \/ BumpInTransaction(k) \/ BumpTokenVersion(k)
                             \/ KillStep(k) \/ AbortKill(k)
  PROVE  UNCHANGED <<tokenVersion, userLock, kill>>
<1>1. ASSUME NEW l \in Logins, BeginLogin(l) \/ InsertSession(l) \/ AnswerLogin(l)
      PROVE  UNCHANGED <<tokenVersion, userLock, kill>>
  BY <1>1 DEF BeginLogin, InsertSession, AnswerLogin, dbVars
<1>2. ASSUME NEW r \in Refreshers,
             BeginRotate(r) \/ RotateStep(r) \/ AbortRotation(r)
      PROVE  UNCHANGED <<tokenVersion, userLock, kill>>
  BY <1>2 DEF BeginRotate, RotateStep, ReadSession, ReadUser, RevokeInRotation,
     Swap, CommitRotation, UndoMemory, AnswerRotated, AnswerRejected,
     AbortRotation, dbVars
<1>3. ASSUME NEW v \in Revokers, RevokeOne(v) \/ AfterRevoke(v)
      PROVE  UNCHANGED <<tokenVersion, userLock, kill>>
  BY <1>3 DEF RevokeOne, AfterRevoke, dbVars
<1>4. ASSUME NEW g \in Guards, BeginGuard(g) \/ GuardStep(g)
      PROVE  UNCHANGED <<tokenVersion, userLock, kill>>
  BY <1>4 DEF BeginGuard, GuardStep, GuardReadUser, GuardFillUser, GuardDevice,
     GuardReadDevice, GuardFillDevice, EndGuard, dbVars
<1>5. DeleteStaleUserSessions \/ Tick \/ UNCHANGED vars
        => UNCHANGED <<tokenVersion, userLock, kill>>
  BY DEF DeleteStaleUserSessions, Tick, vars, dbVars, requestVars
<1>6. QED
  BY <1>1, <1>2, <1>3, <1>4, <1>5 DEF Next

LEMMA BumpsOwnedKept ==
  ASSUME TypeOK, BumpsOwned, [Next]_vars
  PROVE  /\ BumpsOwned'
         /\ \A u \in Users : tokenVersion[u] <= tokenVersion'[u]
<1> USE DEF BumpsOwned
<1>0. \A u \in Users : tokenVersion[u] \in Nat
  BY DEF TypeOK, DbTypeOK
<1>1. CASE UNCHANGED <<tokenVersion, userLock, kill>>
  BY <1>0, <1>1
<1>2. ASSUME NEW k \in Killers, BumpInTransaction(k)
      PROVE  BumpsOwned' /\ UNCHANGED tokenVersion
  <2>1. PICK u \in Users, keep \in SessionOrNone :
          /\ userLock[u] = None
          /\ userLock' = [userLock EXCEPT ![u] = k]
          /\ kill' = [kill EXCEPT ![k] =
                        [pc |-> "revokeAll", user |-> u, keep |-> keep,
                         tv |-> tokenVersion[u] + 1]]
    BY <1>2 DEF BumpInTransaction
  <2>2. UNCHANGED tokenVersion
    BY <1>2 DEF BumpInTransaction
  <2>3. kill'[k].user = u /\ kill'[k].tv = tokenVersion[u] + 1
    BY <2>1 DEF TypeOK, RequestTypeOK
  <2>4. ASSUME NEW x \in Killers, x # k,
               kill[x].pc \in {"revokeAll", "confirm", "commit"}
        PROVE  userLock'[kill[x].user] = x
    <3>1. kill[x].user # u /\ kill[x].user \in Users
      BY <2>1, <2>4, BusyKill, SessionsAssumption
    <3>2. QED
      BY <2>1, <2>4, <3>1 DEF TypeOK, DbTypeOK
  <2>5. userLock'[u] = k
    BY <2>1 DEF TypeOK, DbTypeOK
  <2>6. \A x \in Killers \ {k} : kill'[x] = kill[x]
    BY <2>1 DEF TypeOK, RequestTypeOK
  <2>7. /\ userLock'[kill'[k].user] = k
        /\ kill'[k].tv = tokenVersion'[kill'[k].user] + 1
    BY <2>2, <2>3, <2>5
  <2>8. ASSUME NEW x \in Killers, x # k,
               kill'[x].pc \in {"revokeAll", "confirm", "commit"}
        PROVE  /\ userLock'[kill'[x].user] = x
               /\ kill'[x].tv = tokenVersion'[kill'[x].user] + 1
    BY <2>2, <2>4, <2>6, <2>8
  <2>9. QED
    BY <2>2, <2>7, <2>8
<1>3. ASSUME NEW k \in Killers, RevokeAllExcept(k) \/ ConfirmTokenVersion(k)
      PROVE  BumpsOwned' /\ UNCHANGED tokenVersion
  <2>1. UNCHANGED <<tokenVersion, userLock>>
    BY <1>3 DEF RevokeAllExcept, ConfirmTokenVersion
  <2>2. kill[k] \in KillReq /\ kill[k].pc \in {"revokeAll", "confirm"}
    BY <1>3, BusyKill DEF RevokeAllExcept, ConfirmTokenVersion
  <2>3. PICK pc : kill' = [kill EXCEPT ![k] = [kill[k] EXCEPT !.pc = pc]]
    BY <1>3 DEF RevokeAllExcept, ConfirmTokenVersion
  <2>4. kill'[k].user = kill[k].user /\ kill'[k].tv = kill[k].tv
    BY <2>2, <2>3 DEF TypeOK, RequestTypeOK, KillReq
  <2>5. QED
    BY <2>1, <2>2, <2>3, <2>4 DEF TypeOK, RequestTypeOK
<1>4. ASSUME NEW k \in Killers, CommitKill(k) \/ AbortKill(k)
      PROVE  /\ BumpsOwned'
             /\ \A u \in Users : tokenVersion[u] <= tokenVersion'[u]
  <2>1. /\ kill[k].user \in Users /\ kill[k] \in KillReq
        /\ kill[k].pc \in {"revokeAll", "confirm", "commit"}
    BY <1>4, BusyKill DEF CommitKill, AbortKill
  <2>2. kill'[k].pc \notin {"revokeAll", "confirm", "commit"}
    BY <1>4, <2>1 DEF CommitKill, AbortKill, IdleKill, TypeOK, RequestTypeOK,
       KillReq
  <2>3. \A x \in Killers \ {k} : kill'[x] = kill[x]
    BY <1>4 DEF CommitKill, AbortKill, TypeOK, RequestTypeOK
  <2>4. /\ \A u \in Users \ {kill[k].user} : tokenVersion'[u] = tokenVersion[u]
                                             /\ userLock'[u] = userLock[u]
        /\ tokenVersion'[kill[k].user] \in {kill[k].tv, tokenVersion[kill[k].user]}
    BY <1>4, <2>1 DEF CommitKill, AbortKill, TypeOK, DbTypeOK
  <2>5. \A x \in Killers \ {k} :
          kill[x].pc \in {"revokeAll", "confirm", "commit"} =>
            kill[x].user \in Users \ {kill[k].user}
    BY <2>1, BusyKill
  <2>6. BumpsOwned'
    BY <2>2, <2>3, <2>4, <2>5
  <2>7. QED
    BY <1>0, <2>1, <2>4, <2>6
<1>5. ASSUME NEW k \in Killers, AfterKill(k) \/ AfterBump(k)
      PROVE  BumpsOwned' /\ UNCHANGED tokenVersion
  BY <1>5 DEF AfterKill, AfterBump, dbVars, IdleKill, TypeOK, RequestTypeOK
<1>6. ASSUME NEW k \in Killers, BumpTokenVersion(k)
      PROVE  /\ BumpsOwned'
             /\ \A u \in Users : tokenVersion[u] <= tokenVersion'[u]
  <2>1. PICK u \in Users :
          /\ userLock[u] = None
          /\ tokenVersion' = [tokenVersion EXCEPT ![u] = tokenVersion[u] + 1]
          /\ kill' = [kill EXCEPT ![k] =
                        [IdleKill EXCEPT !.pc = "afterBump", !.user = u]]
    BY <1>6 DEF BumpTokenVersion, TypeOK, DbTypeOK
  <2>2. UNCHANGED userLock
    BY <1>6 DEF BumpTokenVersion
  <2>3. kill'[k].pc = "afterBump"
    BY <2>1 DEF IdleKill, TypeOK, RequestTypeOK
  <2>4. \A x \in Killers : kill[x].pc \in {"revokeAll", "confirm", "commit"} =>
          kill[x].user \in Users \ {u}
    BY <2>1, BusyKill, SessionsAssumption
  <2>5. BumpsOwned'
    BY <2>1, <2>2, <2>3, <2>4 DEF TypeOK, RequestTypeOK, DbTypeOK
  <2>6. QED
    BY <1>0, <2>1, <2>5 DEF TypeOK, DbTypeOK
<1>7. CASE Restart
  BY <1>0, <1>7 DEF Restart, IdleKill
<1>8. QED
  BY <1>0, <1>1, <1>2, <1>3, <1>4, <1>5, <1>6, <1>7, OtherSteps DEF KillStep

\* The committed row of a session changes user with no step; it may go.
LEMMA UsersFixed ==
  ASSUME TypeOK, LockedRows, UnusedSessions, [Next]_vars,
         NEW s \in Sessions, minted[s] # 0
  PROVE  row'[s] = None \/ (row[s] # None /\ row'[s].user = row[s].user)
<1> DEFINE Fixed == row'[s] = None \/ (row[s] # None /\ row'[s].user = row[s].user)
<1>1. ASSUME NEW l \in Logins, BeginLogin(l) \/ InsertSession(l) \/ AnswerLogin(l)
      PROVE  UNCHANGED row \/ row'[s] = row[s]
  BY <1>1 DEF BeginLogin, InsertSession, AnswerLogin, dbVars, TypeOK, DbTypeOK
<1>2. ASSUME NEW t, CommitRows(t) PROVE Fixed
  BY <1>2 DEF CommitRows, Holds, LockedRows, Alive
<1>3. ASSUME NEW r \in Refreshers,
             BeginRotate(r) \/ RotateStep(r) \/ AbortRotation(r)
      PROVE  UNCHANGED row \/ CommitRows(r)
  BY <1>3 DEF BeginRotate, RotateStep, ReadSession, ReadUser,
     RevokeInRotation, Swap, CommitRotation, UndoMemory, AnswerRotated,
     AnswerRejected, AbortRotation, RollBackRows, dbVars
<1>4. ASSUME NEW k \in Killers,
             \/ BumpInTransaction(k) \/ BumpTokenVersion(k)
             \/ KillStep(k) \/ AbortKill(k)
      PROVE  UNCHANGED row \/ CommitRows(k)
  BY <1>4 DEF BumpInTransaction, BumpTokenVersion, KillStep, RevokeAllExcept,
     ConfirmTokenVersion, CommitKill, AfterKill, AfterBump, AbortKill,
     RollBackRows, dbVars
<1>5. ASSUME NEW v \in Revokers, RevokeOne(v) PROVE Fixed
  <2>1. PICK x \in Sessions :
          \/ UNCHANGED row
          \/ /\ Alive(row[x])
             /\ row' = [row EXCEPT ![x] = Revoked(row[x], "BY_USER", now)]
    BY <1>5 DEF RevokeOne
  <2>2. Alive(row[x]) => /\ row[x] # None
                         /\ Revoked(row[x], "BY_USER", now).user = row[x].user
    BY DEF Alive, Revoked, TypeOK, DbTypeOK, RowOrNone, Row
  <2>3. QED
    BY <2>1, <2>2 DEF TypeOK, DbTypeOK
<1>6. CASE DeleteStaleUserSessions
  BY <1>6 DEF DeleteStaleUserSessions
<1>7. ASSUME NEW g \in Guards, BeginGuard(g) \/ GuardStep(g) PROVE UNCHANGED row
  BY <1>7 DEF BeginGuard, GuardStep, GuardReadUser, GuardFillUser, GuardDevice,
     GuardReadDevice, GuardFillDevice, EndGuard, dbVars
<1>8. ASSUME NEW v \in Revokers, AfterRevoke(v) PROVE UNCHANGED row
  BY <1>8 DEF AfterRevoke, dbVars
<1>9. Tick \/ Restart \/ UNCHANGED vars => UNCHANGED row
  BY DEF Tick, Restart, vars, dbVars
<1>10. QED
  BY <1>1, <1>2, <1>3, <1>4, <1>5, <1>6, <1>7, <1>8, <1>9 DEF Next

\* The floor of a refresh whose request a step does not touch.
LEMMA FloorFramed ==
  ASSUME SessionInv, [Next]_vars, NEW r \in Refreshers, rot'[r] = rot[r]
  PROVE  FloorKept(r)'
<1>1. \A u \in Users : /\ tokenVersion[u] <= tokenVersion'[u]
                       /\ tokenVersion[u] \in Nat /\ tokenVersion'[u] \in Nat
  BY BumpsOwnedKept, NextTypeOK DEF SessionInv, TypeOK, DbTypeOK
<1>2. rot[r].tvFloor \in Nat
  BY DEF SessionInv, TypeOK, RequestTypeOK, RotReq
<1>3. rot[r].pc = "readSession" => rot[r].sid \in Sessions /\ minted[rot[r].sid] # 0
  BY BusyRot DEF SessionInv, UnusedSessions
<1>4. rot[r].pc = "readUser" => rot[r].seen.user \in Users
  BY BusyRot DEF SessionInv, Row
<1>5. rot[r].pc = "readSession" =>
        \/ row'[rot[r].sid] = None
        \/ /\ row[rot[r].sid] # None
           /\ row[rot[r].sid].user \in Users
           /\ row'[rot[r].sid].user = row[rot[r].sid].user
  BY <1>3, UsersFixed DEF SessionInv, TypeOK, DbTypeOK, RowOrNone, Row
<1>6. rot[r].pc = "readSession" =>
        \/ row'[rot[r].sid] = None
        \/ rot[r].tvFloor <= tokenVersion'[row'[rot[r].sid].user]
  BY <1>1, <1>2, <1>5 DEF SessionInv, FloorsKept, FloorKept
<1>7. rot[r].pc = "readUser" =>
        rot[r].tvFloor <= tokenVersion'[rot[r].seen.user]
  BY <1>1, <1>2, <1>4 DEF SessionInv, FloorsKept, FloorKept
<1>8. QED
  BY <1>6, <1>7 DEF SessionInv, FloorsKept, FloorKept

LEMMA FloorsKeptNext ==
  ASSUME SessionInv, [Next]_vars
  PROVE  FloorsKept'
<1> SUFFICES ASSUME NEW r \in Refreshers PROVE FloorKept(r)'
  BY DEF FloorsKept
<1> USE DEF FloorKept
<1>0. /\ FloorKept(r) /\ rot \in [Refreshers -> RotReq]
      /\ \A u \in Users : tokenVersion[u] \in Nat
  BY DEF SessionInv, FloorsKept, TypeOK, DbTypeOK, RequestTypeOK
<1>1. CASE rot'[r] = rot[r]
  BY <1>1, FloorFramed
<1>2. CASE BeginRotate(r)
  <2>1. PICK s \in Sessions :
          /\ rot'[r].pc = "readSession" /\ rot'[r].sid = s
          /\ rot'[r].outcome = "none"
          /\ rot'[r].tvFloor = IF row[s] = None THEN 0
                               ELSE tokenVersion[row[s].user]
    BY <1>0, <1>2 DEF BeginRotate, IdleRot
  <2>2. UNCHANGED <<row, tokenVersion>>
    BY <1>2 DEF BeginRotate, dbVars
  <2>3. row[s] # None => row[s].user \in Users
    BY DEF SessionInv, TypeOK, DbTypeOK, RowOrNone, Row
  <2>4. QED
    BY <1>0, <2>1, <2>2, <2>3
<1>3. CASE ReadSession(r)
  <2> DEFINE s == rot[r].sid
             found == [rot[r] EXCEPT !.pc = "readUser", !.seen = row[s]]
             gone == [rot[r] EXCEPT !.pc = "commit", !.outcome = "invalid"]
  <2>1. /\ found.pc = "readUser" /\ found.outcome = rot[r].outcome
        /\ found.seen = row[s] /\ found.tvFloor = rot[r].tvFloor
        /\ gone.pc = "commit" /\ gone.outcome = "invalid"
    BY <1>0 DEF RotReq
  <2>2. \/ rot'[r] = found /\ row[s] # None
        \/ rot'[r] = gone
    BY <1>0, <1>3 DEF ReadSession, Alive
  <2>3. UNCHANGED tokenVersion /\ rot[r].pc = "readSession"
    BY <1>3 DEF ReadSession, dbVars
  <2> HIDE DEF found, gone
  <2>4. QED
    BY <1>0, <2>1, <2>2, <2>3
<1>4. CASE ReadUser(r)
  <2> DEFINE reuse == [rot[r] EXCEPT !.pc = "revoke", !.outcome = "reuse"]
             stale == [rot[r] EXCEPT !.pc = "revoke", !.outcome = "invalid"]
             fine == [rot[r] EXCEPT !.pc = "swap",
                        !.viaGrace = (rot[r].seen.hash # rot[r].token)]
  <2>1. /\ reuse.pc = "revoke" /\ reuse.outcome = "reuse"
        /\ stale.pc = "revoke" /\ stale.outcome = "invalid"
        /\ fine.pc = "swap" /\ fine.outcome = rot[r].outcome
        /\ fine.seen = rot[r].seen /\ fine.tvFloor = rot[r].tvFloor
    BY <1>0 DEF RotReq
  <2>2. \/ rot'[r] \in {reuse, stale}
        \/ rot'[r] = fine /\ ~StaleVersion(rot[r].seen)
    BY <1>0, <1>4 DEF ReadUser
  <2>3. UNCHANGED tokenVersion /\ rot[r].pc = "readUser"
    BY <1>4 DEF ReadUser, dbVars
  <2> HIDE DEF reuse, stale, fine
  <2>4. QED
    BY <1>0, <2>1, <2>2, <2>3 DEF StaleVersion
<1>5. CASE RevokeInRotation(r)
  <2>1. /\ rot'[r].pc = "commit" /\ rot'[r].outcome = rot[r].outcome
        /\ rot'[r].seen = rot[r].seen /\ rot'[r].tvFloor = rot[r].tvFloor
    BY <1>0, <1>5 DEF RevokeInRotation, RotReq
  <2>2. QED
    BY <1>0, <2>1
<1>6. CASE Swap(r)
  <2> DEFINE won == [rot[r] EXCEPT !.pc = "commit", !.outcome = "rotated",
                       !.next = minted[rot[r].sid] + 1,
                       !.prior = lastRotations[rot[r].sid]]
             failed == [rot[r] EXCEPT !.pc = "commit", !.outcome = "conflict"]
  <2>1. /\ won.pc = "commit" /\ won.outcome = "rotated"
        /\ won.seen = rot[r].seen /\ won.tvFloor = rot[r].tvFloor
        /\ failed.pc = "commit" /\ failed.outcome = "conflict"
    BY <1>0 DEF RotReq
  <2>2. rot'[r] \in {won, failed} /\ rot[r].pc = "swap"
    BY <1>0, <1>6 DEF Swap
  <2> HIDE DEF won, failed
  <2>3. QED
    BY <1>0, <2>1, <2>2
<1>7. CASE CommitRotation(r) \/ AbortRotation(r)
  <2> DEFINE told == [rot[r] EXCEPT !.pc = "answer"]
             undoing == [rot[r] EXCEPT !.pc = "undo"]
  <2>1. /\ told.pc = "answer" /\ told.outcome = rot[r].outcome
        /\ told.seen = rot[r].seen /\ told.tvFloor = rot[r].tvFloor
        /\ undoing.pc = "undo" /\ undoing.outcome = rot[r].outcome
        /\ undoing.seen = rot[r].seen /\ undoing.tvFloor = rot[r].tvFloor
    BY <1>0 DEF RotReq
  <2>2. rot'[r] \in {told, undoing, IdleRot}
    BY <1>0, <1>7 DEF CommitRotation, AbortRotation
  <2> HIDE DEF told, undoing
  <2>3. QED
    BY <1>0, <2>1, <2>2 DEF IdleRot
<1>8. CASE UndoMemory(r) \/ AnswerRotated(r) \/ AnswerRejected(r) \/ Restart
  <2>1. rot'[r] = IdleRot
    BY <1>0, <1>8 DEF UndoMemory, AnswerRotated, AnswerRejected, Restart
  <2>2. QED
    BY <2>1 DEF IdleRot
<1>9. QED
  <2>1. ASSUME NEW x \in Refreshers \ {r},
               BeginRotate(x) \/ RotateStep(x) \/ AbortRotation(x)
        PROVE  rot'[r] = rot[r]
    BY <1>0, <2>1 DEF BeginRotate, RotateStep, ReadSession, ReadUser,
       RevokeInRotation, Swap, CommitRotation, UndoMemory, AnswerRotated,
       AnswerRejected, AbortRotation
  <2>2. ASSUME NEW l \in Logins, BeginLogin(l) \/ InsertSession(l) \/ AnswerLogin(l)
        PROVE  UNCHANGED rot
    BY <2>2 DEF BeginLogin, InsertSession, AnswerLogin
  <2>3. ASSUME NEW v \in Revokers, RevokeOne(v) \/ AfterRevoke(v)
        PROVE  UNCHANGED rot
    BY <2>3 DEF RevokeOne, AfterRevoke
  <2>4. ASSUME NEW k \in Killers,
               \/ BumpInTransaction(k) \/ BumpTokenVersion(k)
               \/ KillStep(k) \/ AbortKill(k)
        PROVE  UNCHANGED rot
    BY <2>4 DEF BumpInTransaction, BumpTokenVersion, KillStep, RevokeAllExcept,
       ConfirmTokenVersion, CommitKill, AfterKill, AfterBump, AbortKill
  <2>5. ASSUME NEW g \in Guards, BeginGuard(g) \/ GuardStep(g)
        PROVE  UNCHANGED rot
    BY <2>5 DEF BeginGuard, GuardStep, GuardReadUser, GuardFillUser,
       GuardDevice, GuardReadDevice, GuardFillDevice, EndGuard
  <2>6. DeleteStaleUserSessions \/ Tick \/ UNCHANGED vars => UNCHANGED rot
    BY DEF DeleteStaleUserSessions, Tick, vars, requestVars
  <2> HIDE DEF FloorKept
  <2>7. QED
    BY <1>1, <1>2, <1>3, <1>4, <1>5, <1>6, <1>7, <1>8, <2>1, <2>2, <2>3, <2>4,
       <2>5, <2>6 DEF Next, RotateStep

LEMMA NextSessionInv == SessionInv /\ [Next]_vars => SessionInv'
  BY NextTypeOK, LockedRowsKept, UnusedSessionsKept, BumpsOwnedKept,
     FloorsKeptNext DEF SessionInv

LEMMA AlwaysSessionInv == Spec => []SessionInv
  BY InitSessionInv, NextSessionInv, PTL DEF Spec

\* A refresh that starts after a global switch committed never renews a
\* session of an earlier version: rotateInTransaction compares the version
\* of the session it read with that of the user it read afterwards, and
\* neither a concurrent switch, revocation or login can deceive it.
THEOREM KillSwitchHolds == Spec => []KillSwitchCuts
<1>1. SessionInv => KillSwitchCuts
  <2> SUFFICES ASSUME SessionInv, NEW r \in Refreshers,
                      rot[r].outcome = "rotated"
               PROVE  rot[r].seen.tv >= rot[r].tvFloor
    BY DEF KillSwitchCuts
  <2>1. rot[r].seen.tv \in Nat /\ rot[r].tvFloor \in Nat
    BY BusyRot DEF SessionInv, TypeOK, RequestTypeOK, RotReq, Row
  <2>2. QED
    BY <2>1 DEF SessionInv, FloorsKept, FloorKept
<1>2. QED
  BY <1>1, AlwaysSessionInv, PTL

\* No statement of any handler touches a row that is already revoked, except
\* the cron that deletes it: every UPDATE has revokedAt: null in its WHERE,
\* re-evaluated on the row as it is when its lock is obtained.
THEOREM RevocationIsFinal == Spec => RevokedStaysRevoked
<1> DEFINE Final == \A s \in Sessions : row[s] # None /\ row[s].revokedAt # None
                                          => row'[s] \in {row[s], None}
<1>1. SessionInv /\ [Next]_vars => [Final]_vars
  <2> SUFFICES ASSUME SessionInv, [Next]_vars, NEW s \in Sessions,
                      row[s] # None, row[s].revokedAt # None
               PROVE  row'[s] \in {row[s], None}
    OBVIOUS
  <2>1. ~Alive(row[s]) /\ rowLock[s] = None /\ minted[s] # 0
    BY DEF SessionInv, LockedRows, UnusedSessions, Alive
  <2>2. ASSUME NEW t, CommitRows(t) \/ UNCHANGED row PROVE row'[s] = row[s]
    BY <2>1, <2>2 DEF CommitRows, Holds
  <2>3. ASSUME NEW l \in Logins, BeginLogin(l) \/ InsertSession(l) \/ AnswerLogin(l)
        PROVE  row'[s] = row[s]
    BY <2>1, <2>3 DEF BeginLogin, InsertSession, AnswerLogin, dbVars,
       SessionInv, TypeOK, DbTypeOK
  <2>4. ASSUME NEW r \in Refreshers,
               BeginRotate(r) \/ RotateStep(r) \/ AbortRotation(r)
        PROVE  UNCHANGED row \/ CommitRows(r)
    BY <2>4 DEF BeginRotate, RotateStep, ReadSession, ReadUser,
       RevokeInRotation, Swap, CommitRotation, UndoMemory, AnswerRotated,
       AnswerRejected, AbortRotation, RollBackRows, dbVars
  <2>5. ASSUME NEW k \in Killers,
               \/ BumpInTransaction(k) \/ BumpTokenVersion(k)
               \/ KillStep(k) \/ AbortKill(k)
        PROVE  UNCHANGED row \/ CommitRows(k)
    BY <2>5 DEF BumpInTransaction, BumpTokenVersion, KillStep, RevokeAllExcept,
       ConfirmTokenVersion, CommitKill, AfterKill, AfterBump, AbortKill,
       RollBackRows, dbVars
  <2>6. ASSUME NEW v \in Revokers, RevokeOne(v) \/ AfterRevoke(v)
        PROVE  row'[s] = row[s]
    BY <2>1, <2>6 DEF RevokeOne, AfterRevoke, dbVars, SessionInv, TypeOK,
       DbTypeOK
  <2>7. ASSUME NEW g \in Guards, BeginGuard(g) \/ GuardStep(g)
        PROVE  UNCHANGED row
    BY <2>7 DEF BeginGuard, GuardStep, GuardReadUser, GuardFillUser,
       GuardDevice, GuardReadDevice, GuardFillDevice, EndGuard, dbVars
  <2>8. Tick \/ Restart \/ UNCHANGED vars => UNCHANGED row
    BY DEF Tick, Restart, vars, dbVars
  <2>9. DeleteStaleUserSessions => row'[s] \in {row[s], None}
    BY DEF DeleteStaleUserSessions
  <2>10. QED
    BY <2>2, <2>3, <2>4, <2>5, <2>6, <2>7, <2>8, <2>9 DEF Next
<1>2. QED
  BY <1>1, AlwaysSessionInv, PTL DEF Spec, RevokedStaysRevoked
-----------------------------------------------------------------------------
(* The Map of rotations.                                                   *)

\* R orders the keys of S one after the other.
Ordered(R, S) ==
  /\ R \subseteq S \X S
  /\ \A a \in S : <<a, a>> \notin R
  /\ \A a, b \in S : a # b => (<<a, b>> \in R <=> <<b, a>> \notin R)
  /\ \A a, b, c \in S : <<a, b>> \in R /\ <<b, c>> \in R => <<a, c>> \in R

LEMMA OrderedPart ==
  ASSUME NEW R, NEW S, NEW T, Ordered(R, S)
  PROVE  Ordered({p \in R : p[1] \notin T /\ p[2] \notin T}, S \ T)
  BY DEF Ordered

LEMMA OrderedEnd ==
  ASSUME NEW R, NEW S, NEW s, s \notin S, Ordered(R, S)
  PROVE  Ordered(R \cup (S \X {s}), S \cup {s})
<1> DEFINE Q == R \cup (S \X {s})
           In(a, b) == <<a, b>> \in R
<1>1. Q \subseteq (S \cup {s}) \X (S \cup {s})
  BY DEF Ordered
<1>2. \A a, b : <<a, b>> \in Q <=> In(a, b) \/ (a \in S /\ b = s)
  OBVIOUS
<1>3. \A a, b : In(a, b) => a \in S /\ b \in S
  BY DEF Ordered
<1>4. /\ \A a \in S : ~In(a, a)
      /\ \A a, b \in S : a # b => (In(a, b) <=> ~In(b, a))
      /\ \A a, b, c \in S : In(a, b) /\ In(b, c) => In(a, c)
  BY DEF Ordered
<1> HIDE DEF Q, In
<1>5. \A a \in S \cup {s} : <<a, a>> \notin Q
  BY <1>2, <1>3, <1>4
<1>6. \A a, b \in S \cup {s} : a # b => (<<a, b>> \in Q <=> <<b, a>> \notin Q)
  BY <1>2, <1>3, <1>4
<1>7. \A a, b, c \in S \cup {s} : <<a, b>> \in Q /\ <<b, c>> \in Q => <<a, c>> \in Q
  BY <1>2, <1>3, <1>4
<1>8. Ordered(Q, S \cup {s})
  BY <1>1, <1>5, <1>6, <1>7 DEF Ordered
<1> QED BY <1>8 DEF Q

\* A finite set of keys in order has a first one.
LEMMA OrderedFirst ==
  ASSUME NEW R, NEW S, Ordered(R, S), IsFiniteSet(S), S # {}
  PROVE  \E k \in S : \A x \in S : <<x, k>> \notin R
<1> DEFINE Before(k) == {x \in S : <<x, k>> \in R}
           T == {Before(k) : k \in S}
<1>1. T # {} /\ T \subseteq FiniteSubsetsOf(S)
  <2>1. \A A \in SUBSET S : IsFiniteSet(A)
    BY FS_Subset
  <2>2. \A k \in S : Before(k) \in FiniteSubsetsOf(S)
    BY <2>1 DEF FiniteSubsetsOf
  <2> HIDE DEF Before
  <2> QED BY <2>2
<1>2. PICK B \in T : \A A \in T : <<A, B>> \notin StrictSubsetOrdering(S)
  <2>1. IsWellFoundedOn(StrictSubsetOrdering(S), FiniteSubsetsOf(S))
    BY FS_StrictSubsetOrderingWellFounded
  <2> HIDE DEF T
  <2> QED BY <1>1, <2>1, WFMin
<1>3. PICK k \in S : B = Before(k)
  OBVIOUS
<1>4. \A x \in S : <<x, k>> \notin R
  <2> SUFFICES ASSUME NEW x \in S, <<x, k>> \in R PROVE FALSE
    OBVIOUS
  <2>1. Before(x) \subseteq Before(k) /\ x \in Before(k) /\ x \notin Before(x)
    BY <1>3 DEF Ordered
  <2>2. <<Before(x), Before(k)>> \in StrictSubsetOrdering(S)
    BY <2>1 DEF StrictSubsetOrdering
  <2> QED BY <1>2, <1>3, <2>2
<1> QED BY <1>4

MemoryInv ==
  /\ IsFiniteSet(Remembered) /\ Cardinality(Remembered) <= MaxGraceEntries
  /\ Ordered(rotationOrder, Remembered)

LEMMA DroppedOrder ==
  ASSUME MemoryInv, NEW T
  PROVE  /\ Ordered(Dropped(T), Remembered \ T)
         /\ IsFiniteSet(Remembered \ T)
         /\ Cardinality(Remembered \ T) <= Cardinality(Remembered)
         /\ Cardinality(Remembered \ T) \in Nat /\ Cardinality(Remembered) \in Nat
<1>1. Ordered(Dropped(T), Remembered \ T)
  BY OrderedPart DEF MemoryInv, Dropped
<1>2. (Remembered \ T) \in SUBSET Remembered /\ IsFiniteSet(Remembered)
  BY DEF MemoryInv
<1> QED BY <1>1, <1>2, FS_Subset, FS_CardinalityType

\* MovedToEnd takes away the keys of T and puts s behind those that are left.
LEMMA MovedOrder ==
  ASSUME MemoryInv, NEW s, NEW T
  PROVE  Ordered(MovedToEnd(s, T), (Remembered \ (T \cup {s})) \cup {s})
<1> DEFINE S == Remembered \ (T \cup {s})
<1>1. Ordered(Dropped(T \cup {s}), S) /\ s \notin S
  BY DroppedOrder
<1>2. MovedToEnd(s, T) = Dropped(T \cup {s}) \cup (S \X {s})
  BY DEF MovedToEnd
<1> HIDE DEF S
<1>3. Ordered(Dropped(T \cup {s}) \cup (S \X {s}), S \cup {s})
  BY <1>1, OrderedEnd
<1> QED BY <1>2, <1>3 DEF S
LEMMA ForgetKeepsMemory ==
  ASSUME MemoryTypeOK, MemoryInv, NEW S, Forget(S)
  PROVE  MemoryInv'
<1>1. Remembered' = Remembered \ S /\ rotationOrder' = Dropped(S)
  BY DEF Forget, Remembered
<1>2. MaxGraceEntries \in Nat
  BY MemoryAssumption
<1> QED BY <1>1, <1>2, DroppedOrder DEF MemoryInv

\* The Map is full at most, and then the first of the other keys leaves.
LEMMA EvictedRoom ==
  ASSUME MemoryInv, NEW s
  PROVE  LET others == Remembered \ {s} IN
         /\ IsFiniteSet(others \ Evicted(s)) /\ Cardinality(others \ Evicted(s)) \in Nat
         /\ Cardinality(others \ Evicted(s)) <= MaxGraceEntries - 1
<1> DEFINE others == Remembered \ {s}
           left == others \ Evicted(s)
<1>0. MaxGraceEntries \in Nat /\ MaxGraceEntries # 0
  BY MemoryAssumption
<1>1. /\ IsFiniteSet(others) /\ Cardinality(others) \in Nat
      /\ Cardinality(others) <= MaxGraceEntries
  <2>1. /\ Cardinality(Remembered) <= MaxGraceEntries /\ Cardinality(Remembered) \in Nat
        /\ IsFiniteSet(others) /\ Cardinality(others) \in Nat
        /\ Cardinality(others) <= Cardinality(Remembered)
    BY DroppedOrder DEF MemoryInv
  <2> HIDE DEF others
  <2> QED BY <1>0, <2>1
<1>2. left \subseteq others /\ Evicted(s) = {k \in others :
        Cardinality(Elders(k, others)) < Cardinality(others) - MaxGraceEntries + 1}
  BY DEF Evicted
<1> HIDE DEF left
<1>3. IsFiniteSet(left) /\ Cardinality(left) <= Cardinality(others) /\ Cardinality(left) \in Nat
  BY <1>1, <1>2, FS_Subset, FS_CardinalityType
<1>4. CASE Cardinality(others) <= MaxGraceEntries - 1
  BY <1>0, <1>1, <1>3, <1>4 DEF left
<1>5. CASE ~(Cardinality(others) <= MaxGraceEntries - 1)
  <2>1. Cardinality(others) = MaxGraceEntries
    BY <1>0, <1>1, <1>5
  <2>2. others # {}
    BY <1>0, <2>1, FS_EmptySet
  <2>3. Ordered(Dropped({s}), others)
    BY DroppedOrder
  <2> HIDE DEF others
  <2>4. PICK k \in others : \A x \in others : <<x, k>> \notin Dropped({s})
    BY <1>1, <2>2, <2>3, OrderedFirst
  <2>5. Elders(k, others) = {}
    BY <2>4 DEF Elders, Dropped, others
  <2>6. k \in Evicted(s)
    BY <1>0, <1>2, <2>1, <2>4, <2>5, FS_EmptySet
  <2>7. left \subseteq others \ {k}
    BY <2>6 DEF left
  <2>8. /\ IsFiniteSet(others \ {k})
        /\ Cardinality(others \ {k}) = Cardinality(others) - 1
    BY <1>1, <2>4, FS_RemoveElement
  <2>9. Cardinality(left) <= Cardinality(others \ {k})
    BY <2>7, <2>8, FS_Subset
  <2> QED BY <1>0, <1>3, <2>1, <2>8, <2>9 DEF left, others
<1> QED BY <1>4, <1>5

LEMMA RememberKeepsMemory ==
  ASSUME MemoryTypeOK, MemoryInv, NEW s \in Sessions, NEW e \in RotationEntry,
         RememberRotation(s, e)
  PROVE  MemoryInv'
<1> DEFINE left == (Remembered \ {s}) \ Evicted(s)
<1>0. MaxGraceEntries \in Nat /\ e # None
  BY MemoryAssumption, NoneAssumption
<1>1. /\ lastRotations' = [x \in Sessions |-> IF x = s THEN e
                             ELSE IF x \in Evicted(s) THEN None ELSE lastRotations[x]]
      /\ rotationOrder' = MovedToEnd(s, Evicted(s))
  BY DEF RememberRotation
<1>2. Remembered' = left \cup {s}
  BY <1>0, <1>1 DEF Remembered
<1>3. left = Remembered \ (Evicted(s) \cup {s})
  OBVIOUS
<1>4. Ordered(rotationOrder', Remembered')
  BY <1>1, <1>2, <1>3, MovedOrder
<1>5. /\ IsFiniteSet(left) /\ Cardinality(left) \in Nat
      /\ Cardinality(left) <= MaxGraceEntries - 1
  BY EvictedRoom
<1> HIDE DEF left
<1>6. /\ IsFiniteSet(left \cup {s})
      /\ Cardinality(left \cup {s}) = IF s \in left THEN Cardinality(left)
                                       ELSE Cardinality(left) + 1
  BY <1>5, FS_AddElement
<1>7. Cardinality(left \cup {s}) <= MaxGraceEntries
  BY <1>0, <1>5, <1>6
<1> QED BY <1>2, <1>4, <1>6, <1>7 DEF MemoryInv

LEMMA UndoKeepsMemory ==
  ASSUME MemoryTypeOK, MemoryInv, NEW s \in Sessions, NEW n,
         NEW e \in RotationEntry \cup {None}, UndoRotation(s, n, e)
  PROVE  MemoryInv'
<1>0. MaxGraceEntries \in Nat
  BY MemoryAssumption
<1>1. CASE UNCHANGED memoryVars
  BY <1>1 DEF MemoryInv, Remembered, memoryVars
<1>2. CASE /\ lastRotations[s] # None /\ lastRotations' = [lastRotations EXCEPT ![s] = e]
           /\ rotationOrder' = IF e = None THEN Dropped({s}) ELSE MovedToEnd(s, {})
  <2>1. CASE e = None
    <3>1. Remembered' = Remembered \ {s} /\ rotationOrder' = Dropped({s})
      BY <1>2, <2>1 DEF Remembered, MemoryTypeOK
    <3> QED BY <1>0, <3>1, DroppedOrder DEF MemoryInv
  <2>2. CASE e # None
    <3>1. Remembered' = Remembered /\ s \in Remembered /\ rotationOrder' = MovedToEnd(s, {})
      BY <1>2, <2>2 DEF Remembered, MemoryTypeOK
    <3>2. (Remembered \ ({} \cup {s})) \cup {s} = Remembered
      BY <3>1
    <3>3. Ordered(MovedToEnd(s, {}), Remembered)
      BY <3>2, MovedOrder
    <3> QED BY <3>1, <3>3 DEF MemoryInv
  <2> QED BY <2>1, <2>2
<1> QED BY <1>1, <1>2 DEF UndoRotation

LEMMA SwapKeepsMemory ==
  ASSUME TypeOK, MemoryInv, NEW r \in Refreshers, Swap(r)
  PROVE  MemoryInv'
<1> DEFINE q == rot[r]
           entry == [previousHash |-> q.seen.hash, rotatedAt |-> q.at,
                     graceSpent |-> q.viaGrace, userId |-> q.seen.user,
                     installed |-> minted[q.sid] + 1]
<1>1. /\ q.sid \in Sessions /\ q \in RotReq /\ q.at \in Nat
      /\ q.seen \in Row /\ q.viaGrace \in BOOLEAN
  BY BusyRot DEF Swap
<1>2. minted[q.sid] + 1 \in Nat
  BY <1>1 DEF TypeOK, DbTypeOK
<1>3. entry \in RotationEntry
  BY <1>1, <1>2 DEF RotationEntry, Row
<1>4. CASE SwapMatches(q)
  <2>1. RememberRotation(q.sid, entry)
    BY <1>4 DEF Swap
  <2> HIDE DEF entry
  <2> QED BY <1>1, <1>3, <2>1, RememberKeepsMemory DEF TypeOK
<1>5. CASE ~SwapMatches(q)
  BY <1>5 DEF Swap, MemoryInv, Remembered, memoryVars
<1> QED BY <1>4, <1>5

LEMMA NextMemoryInv ==
  ASSUME TypeOK, MemoryInv, [Next]_vars
  PROVE  MemoryInv'
<1>0. MemoryTypeOK
  BY DEF TypeOK
<1>1. CASE UNCHANGED <<lastRotations, rotationOrder>>
  BY <1>1 DEF MemoryInv, Remembered
<1>2. CASE \E S : Forget(S)
  BY <1>0, <1>2, ForgetKeepsMemory
<1>3. CASE \E r \in Refreshers : Swap(r)
  BY <1>3, SwapKeepsMemory
<1>4. CASE \E r \in Refreshers : UndoMemory(r)
  <2> PICK r \in Refreshers : UndoMemory(r)
    BY <1>4
  <2>1. rot[r].sid \in Sessions /\ rot[r].prior \in RotationEntry \cup {None}
    BY BusyRot DEF UndoMemory
  <2> QED BY <1>0, <2>1, UndoKeepsMemory DEF UndoMemory
<1>5. CASE Restart
  <2>1. Remembered' = {} /\ rotationOrder' = {}
    BY <1>5 DEF Restart, EmptyRotations, Remembered
  <2> QED BY <2>1, FS_EmptySet, MemoryAssumption DEF MemoryInv, Ordered
<1>6. \/ UNCHANGED <<lastRotations, rotationOrder>> \/ (\E S : Forget(S)) \/ Restart
      \/ \E r \in Refreshers : Swap(r) \/ UndoMemory(r)
  <2> DEFINE Forgets == \E S : Forget(S)
  <2>1. ASSUME NEW r \in Refreshers, BeginRotate(r) \/ RotateStep(r) \/ AbortRotation(r)
        PROVE  UNCHANGED <<lastRotations, rotationOrder>> \/ Forgets \/ Swap(r) \/ UndoMemory(r)
    <3>1. AnswerRejected(r) => Forgets
      BY DEF AnswerRejected
    <3> HIDE DEF Forgets
    <3> QED BY <2>1, <3>1 DEF BeginRotate, RotateStep, ReadSession, ReadUser,
                  RevokeInRotation, CommitRotation, AnswerRotated, AbortRotation, memoryVars
  <2>2. ASSUME NEW k \in Killers, BumpInTransaction(k) \/ BumpTokenVersion(k)
                                  \/ KillStep(k) \/ AbortKill(k)
        PROVE  UNCHANGED <<lastRotations, rotationOrder>> \/ Forgets
    <3>1. RevokeAllExcept(k) => Forgets
      BY DEF RevokeAllExcept
    <3> HIDE DEF Forgets
    <3> QED BY <2>2, <3>1 DEF BumpInTransaction, BumpTokenVersion, KillStep,
                  ConfirmTokenVersion, CommitKill, AfterKill, AfterBump, AbortKill, memoryVars
  <2>3. ASSUME NEW v \in Revokers, RevokeOne(v) \/ AfterRevoke(v)
        PROVE  UNCHANGED <<lastRotations, rotationOrder>> \/ Forgets
    <3>1. AfterRevoke(v) => Forgets
      BY DEF AfterRevoke
    <3> HIDE DEF Forgets
    <3> QED BY <2>3, <3>1 DEF RevokeOne, memoryVars
  <2>4. ASSUME NEW l \in Logins, BeginLogin(l) \/ InsertSession(l) \/ AnswerLogin(l)
        PROVE  UNCHANGED <<lastRotations, rotationOrder>>
    BY <2>4 DEF BeginLogin, InsertSession, AnswerLogin, memoryVars
  <2>5. ASSUME NEW g \in Guards, BeginGuard(g) \/ GuardStep(g)
        PROVE  UNCHANGED <<lastRotations, rotationOrder>>
    BY <2>5 DEF BeginGuard, GuardStep, GuardReadUser, GuardFillUser, GuardDevice,
                GuardReadDevice, GuardFillDevice, EndGuard, memoryVars
  <2>6. DeleteStaleUserSessions \/ Tick \/ UNCHANGED vars => UNCHANGED <<lastRotations, rotationOrder>>
    BY DEF DeleteStaleUserSessions, Tick, vars, memoryVars
  <2> HIDE DEF Forgets
  <2>7. UNCHANGED <<lastRotations, rotationOrder>> \/ Forgets \/ Restart \/ \E r \in Refreshers : Swap(r) \/ UndoMemory(r)
    BY <2>1, <2>2, <2>3, <2>4, <2>5, <2>6 DEF Next
  <2> QED BY <2>7 DEF Forgets
<1> QED BY <1>1, <1>2, <1>3, <1>4, <1>5, <1>6

\* rememberRotation, undoRotation: the Map never grows beyond its limit and its
\* keys stay in one order, whatever rotations, undos and sign-outs meet, so that
\* the key that leaves is that of the oldest rotation.
THEOREM MemoryIsBounded == Spec => []MemoryWithinLimit
<1>1. Init => MemoryInv
  <2> SUFFICES ASSUME Init PROVE MemoryInv
    OBVIOUS
  <2>1. Remembered = {} /\ rotationOrder = {}
    BY DEF Init, EmptyRotations, Remembered
  <2> QED BY <2>1, FS_EmptySet, MemoryAssumption DEF MemoryInv, Ordered
<1>2. TypeOK /\ MemoryInv /\ [Next]_vars => MemoryInv'
  BY NextMemoryInv
<1>3. MemoryInv => MemoryWithinLimit
  BY DEF MemoryInv, Ordered, MemoryWithinLimit
<1> QED BY <1>1, <1>2, <1>3, TypeCorrect, PTL DEF Spec
-----------------------------------------------------------------------------
(* The two caches: what an entry or a request knows is of an instant not   *)
(* later than the end of what it says, plus the life of an entry.          *)

\* Version v of user u, known at instant t, had not ended before t.
Known(u, v, t) == v < tokenVersion[u] => t <= endOf[u][v + 1]
\* The same of what may have come from an entry of the cache.
KnownTimely(u, v, t) ==
  v < tokenVersion[u] => t <= endOf[u][v + 1] \/ t < endOf[u][v + 1] + CacheTtl
DeviceTimely(s, t) ==
  cutAt[s] # None => t <= cutAt[s] \/ t < cutAt[s] + CacheTtl

\* endOf[u][v + 1] is the instant at which version v of u ended, and a device
\* that was cut off has no row or a revoked one.
Counted == \A u \in Users : Len(endOf[u]) = tokenVersion[u]
CutIsFinal == \A s \in Sessions : cutAt[s] # None => ~Alive(row[s])
NeverUncut == \A s \in Sessions : minted[s] = 0 => cutAt[s] = None

UserEntryFresh(u, e) ==
  /\ e.expiresAt <= now + CacheTtl
  /\ e.tokenVersion < tokenVersion[u] =>
       e.expiresAt <= endOf[u][e.tokenVersion + 1] + CacheTtl
DeviceEntryFresh(s, e) ==
  e.active => /\ e.expiresAt <= now + CacheTtl
              /\ cutAt[s] # None => e.expiresAt <= cutAt[s] + CacheTtl
CachesFresh ==
  /\ \A u \in Users : cache[u] # None => UserEntryFresh(u, cache[u])
  /\ \A s \in Sessions :
       deviceSessions[s] # None => DeviceEntryFresh(s, deviceSessions[s])

GuardFresh(q) ==
  /\ q.pc # "idle" => q.at <= now
  /\ q.pc = "fillUser" =>
       /\ q.at <= q.userSeenAt /\ q.userSeenAt <= now
       /\ Known(q.jwt.user, q.seenTv, q.userSeenAt)
  /\ q.pc \in {"device", "readDevice", "fillDevice", "accepted"} =>
       q.userSeenAt <= now /\ KnownTimely(q.jwt.user, q.jwt.tv, q.userSeenAt)
  /\ q.pc = "fillDevice" =>
       /\ q.at <= q.deviceSeenAt /\ q.deviceSeenAt <= now
       /\ q.active /\ cutAt[q.jwt.sid] # None => q.deviceSeenAt <= cutAt[q.jwt.sid]
  /\ q.pc = "accepted" =>
       q.deviceSeenAt <= now /\ DeviceTimely(q.jwt.sid, q.deviceSeenAt)
GuardsFresh == \A g \in Guards : GuardFresh(guard[g])

StaleInv ==
  Counted /\ CutIsFinal /\ NeverUncut /\ CachesFresh /\ GuardsFresh
LEMMA InitStaleInv == Init => StaleInv
<1> SUFFICES ASSUME Init PROVE StaleInv
  OBVIOUS
<1>1. Counted /\ CutIsFinal /\ NeverUncut /\ CachesFresh
  BY DEF Init, Counted, CutIsFinal, NeverUncut, CachesFresh, EmptyCache, EmptyDeviceSessions
<1>2. GuardsFresh
  BY DEF Init, NoRequests, GuardsFresh, GuardFresh, IdleGuard
<1> QED BY <1>1, <1>2 DEF StaleInv

\* The end of a version is written once, when the version ends.
LEMMA VersionsMove ==
  ASSUME TypeOK, BumpsOwned, Counted, [Next]_vars
  PROVE  /\ Counted'
         /\ \A u \in Users :
              \/ endOf'[u] = endOf[u] /\ tokenVersion'[u] = tokenVersion[u]
              \/ /\ endOf'[u] = Append(endOf[u], now)
                 /\ tokenVersion'[u] = tokenVersion[u] + 1
<1> DEFINE Moved == \A u \in Users :
              \/ endOf'[u] = endOf[u] /\ tokenVersion'[u] = tokenVersion[u]
              \/ /\ endOf'[u] = Append(endOf[u], now)
                 /\ tokenVersion'[u] = tokenVersion[u] + 1
<1>1. ASSUME Moved PROVE Counted'
  <2> SUFFICES ASSUME NEW u \in Users PROVE Len(endOf'[u]) = tokenVersion'[u]
    BY DEF Counted
  <2>1. endOf[u] \in Seq(Nat) /\ now \in Nat /\ Len(endOf[u]) = tokenVersion[u]
    BY DEF Counted, TypeOK, HistoryTypeOK
  <2>2. Len(Append(endOf[u], now)) = Len(endOf[u]) + 1
    BY <2>1
  <2> QED BY <1>1, <2>1, <2>2
<1>2. CASE UNCHANGED <<tokenVersion, endOf>>
  BY <1>1, <1>2
<1>3. ASSUME NEW k \in Killers, CommitKill(k) PROVE Moved
  BY <1>3 DEF CommitKill, BumpsOwned, TypeOK, DbTypeOK, HistoryTypeOK
<1>4. ASSUME NEW k \in Killers, BumpTokenVersion(k) PROVE Moved
  BY <1>4 DEF BumpTokenVersion, TypeOK, DbTypeOK, HistoryTypeOK
<1>5. UNCHANGED <<tokenVersion, endOf>>
      \/ \E k \in Killers : CommitKill(k) \/ BumpTokenVersion(k)
  <2>1. ASSUME NEW r \in Refreshers, BeginRotate(r) \/ RotateStep(r) \/ AbortRotation(r)
        PROVE  UNCHANGED <<tokenVersion, endOf>>
    BY <2>1 DEF BeginRotate, RotateStep, ReadSession, ReadUser, RevokeInRotation,
       Swap, CommitRotation, UndoMemory, AnswerRotated, AnswerRejected,
       AbortRotation, dbVars, historyVars
  <2>2. ASSUME NEW k \in Killers, \/ BumpInTransaction(k) \/ RevokeAllExcept(k)
                                  \/ ConfirmTokenVersion(k) \/ AfterKill(k)
                                  \/ AfterBump(k) \/ AbortKill(k)
        PROVE  UNCHANGED <<tokenVersion, endOf>>
    BY <2>2 DEF BumpInTransaction, RevokeAllExcept, ConfirmTokenVersion,
                AfterKill, AfterBump, AbortKill, dbVars, historyVars
  <2>3. ASSUME NEW v \in Revokers, RevokeOne(v) \/ AfterRevoke(v)
        PROVE  UNCHANGED <<tokenVersion, endOf>>
    BY <2>3 DEF RevokeOne, AfterRevoke, dbVars
  <2>4. ASSUME NEW l \in Logins, BeginLogin(l) \/ InsertSession(l) \/ AnswerLogin(l)
        PROVE  UNCHANGED <<tokenVersion, endOf>>
    BY <2>4 DEF BeginLogin, InsertSession, AnswerLogin, dbVars, historyVars
  <2>5. ASSUME NEW g \in Guards, BeginGuard(g) \/ GuardStep(g)
        PROVE  UNCHANGED <<tokenVersion, endOf>>
    BY <2>5 DEF BeginGuard, GuardStep, GuardReadUser, GuardFillUser, GuardDevice,
                GuardReadDevice, GuardFillDevice, EndGuard, dbVars, historyVars
  <2>6. DeleteStaleUserSessions \/ Tick \/ Restart \/ UNCHANGED vars
          => UNCHANGED <<tokenVersion, endOf>>
    BY DEF DeleteStaleUserSessions, Tick, Restart, vars, dbVars, historyVars
  <2> QED BY <2>1, <2>2, <2>3, <2>4, <2>5, <2>6 DEF Next, KillStep
<1> QED BY <1>1, <1>2, <1>3, <1>4, <1>5

\* A device is cut off once, at the instant its row is revoked.
LEMMA CutsMove ==
  ASSUME TypeOK, LockedRows, UnusedSessions, CutIsFinal, NeverUncut, [Next]_vars
  PROVE  /\ CutIsFinal' /\ NeverUncut'
         /\ \A s \in Sessions : \/ cutAt'[s] = cutAt[s]
                                \/ cutAt[s] = None /\ cutAt'[s] = now
<1> DEFINE Moved == /\ CutIsFinal' /\ NeverUncut'
                    /\ \A s \in Sessions : \/ cutAt'[s] = cutAt[s]
                                           \/ cutAt[s] = None /\ cutAt'[s] = now
<1>1. CASE UNCHANGED <<row, cutAt, minted>>
  BY <1>1 DEF CutIsFinal, NeverUncut, Alive
<1>2. ASSUME NEW r \in Refreshers, Swap(r) PROVE Moved
  <2>1. UNCHANGED <<row, cutAt>> /\ rot[r].sid \in Sessions
    BY <1>2, BusyRot DEF Swap, historyVars
  <2>2. \A s \in Sessions : minted'[s] = 0 => minted[s] = 0
    BY <1>2, <2>1 DEF Swap, TypeOK, DbTypeOK
  <2> QED BY <2>1, <2>2 DEF CutIsFinal, NeverUncut, Alive
<1>3. ASSUME NEW t, CommitRows(t), UNCHANGED minted PROVE Moved
  BY <1>3 DEF CommitRows, Cuts, Holds, LockedRows, UnusedSessions, CutIsFinal,
     NeverUncut, Alive, TypeOK, DbTypeOK, HistoryTypeOK, NatOrNone
<1>4. ASSUME NEW l \in Logins, InsertSession(l) PROVE Moved
  <2>1. PICK s \in Sessions :
          /\ minted[s] = 0
          /\ minted' = [minted EXCEPT ![s] = 1]
          /\ row' = [row EXCEPT ![s] = NewRow(login[l].user, login[l].tv)]
    BY <1>4 DEF InsertSession
  <2>2. UNCHANGED cutAt
    BY <1>4 DEF InsertSession, historyVars
  <2> QED BY <2>1, <2>2 DEF CutIsFinal, NeverUncut, Alive, TypeOK, DbTypeOK
<1>5. ASSUME NEW v \in Revokers, RevokeOne(v) PROVE Moved
  <2>1. PICK s \in Sessions, u \in Users :
          LET hit == Alive(row[s]) /\ row[s].user = u IN
          /\ minted[s] > 0
          /\ row' = IF hit THEN [row EXCEPT ![s] = Revoked(row[s], "BY_USER", now)]
                    ELSE row
          /\ cutAt' = IF hit THEN [cutAt EXCEPT ![s] = now] ELSE cutAt
    BY <1>5 DEF RevokeOne
  <2>2. UNCHANGED minted
    BY <1>5 DEF RevokeOne
  <2>3. CASE Alive(row[s]) /\ row[s].user = u
    <3>1. row[s] \in Row
      BY <2>3 DEF Alive, TypeOK, DbTypeOK, RowOrNone
    <3>2. ~Alive(Revoked(row[s], "BY_USER", now))
      BY <3>1, NoneAssumption DEF Alive, Revoked, Row, TypeOK
    <3> QED BY <2>1, <2>2, <2>3, <3>2 DEF CutIsFinal, NeverUncut, Alive, TypeOK, DbTypeOK, HistoryTypeOK
  <2>4. CASE ~(Alive(row[s]) /\ row[s].user = u)
    BY <2>1, <2>2, <2>4 DEF CutIsFinal, NeverUncut, Alive
  <2> QED BY <2>3, <2>4
<1>6. CASE DeleteStaleUserSessions
  <2>1. UNCHANGED <<cutAt, minted>> /\ \A s \in Sessions : row'[s] \in {row[s], None}
    BY <1>6 DEF DeleteStaleUserSessions, historyVars
  <2> QED BY <2>1 DEF CutIsFinal, NeverUncut, Alive
<1>7. \/ UNCHANGED <<row, cutAt, minted>> \/ DeleteStaleUserSessions
      \/ \E t : CommitRows(t) /\ UNCHANGED minted
      \/ \E r \in Refreshers : Swap(r)
      \/ \E l \in Logins : InsertSession(l)
      \/ \E v \in Revokers : RevokeOne(v)
  <2> DEFINE Still == row' = row /\ cutAt' = cutAt /\ minted' = minted
             Commits == \E t : CommitRows(t) /\ UNCHANGED minted
  <2>1. ASSUME NEW r \in Refreshers, BeginRotate(r) \/ RotateStep(r) \/ AbortRotation(r)
        PROVE  Still \/ Commits \/ Swap(r)
    <3>1. CommitRotation(r) => Commits
      BY DEF CommitRotation
    <3> HIDE DEF Commits
    <3> QED BY <2>1, <3>1 DEF BeginRotate, RotateStep, ReadSession, ReadUser,
             RevokeInRotation, UndoMemory, AnswerRotated, AnswerRejected,
             AbortRotation, RollBackRows, dbVars, historyVars
  <2>2. ASSUME NEW k \in Killers, BumpInTransaction(k) \/ BumpTokenVersion(k)
                                  \/ KillStep(k) \/ AbortKill(k)
        PROVE  Still \/ Commits
    <3>1. CommitKill(k) => Commits
      BY DEF CommitKill
    <3> HIDE DEF Commits
    <3> QED BY <2>2, <3>1 DEF BumpInTransaction, BumpTokenVersion, KillStep,
             RevokeAllExcept, ConfirmTokenVersion, AfterKill, AfterBump,
             AbortKill, RollBackRows, dbVars, historyVars
  <2>3. ASSUME NEW v \in Revokers, AfterRevoke(v) PROVE Still
    BY <2>3 DEF AfterRevoke, dbVars
  <2>4. ASSUME NEW l \in Logins, BeginLogin(l) \/ AnswerLogin(l) PROVE Still
    BY <2>4 DEF BeginLogin, AnswerLogin, dbVars, historyVars
  <2>5. ASSUME NEW g \in Guards, BeginGuard(g) \/ GuardStep(g) PROVE Still
    BY <2>5 DEF BeginGuard, GuardStep, GuardReadUser, GuardFillUser, GuardDevice,
                GuardReadDevice, GuardFillDevice, EndGuard, dbVars, historyVars
  <2>6. Tick \/ Restart \/ UNCHANGED vars => Still
    BY DEF Tick, Restart, vars, dbVars, historyVars
  <2> HIDE DEF Commits
  <2>7. \/ Still \/ Commits \/ DeleteStaleUserSessions
        \/ \E r \in Refreshers : Swap(r)
        \/ \E l \in Logins : InsertSession(l)
        \/ \E v \in Revokers : RevokeOne(v)
    BY <2>1, <2>2, <2>3, <2>4, <2>5, <2>6 DEF Next
  <2> QED BY <2>7 DEF Commits
<1>8. (\E t : CommitRows(t) /\ UNCHANGED minted) => Moved
  BY <1>3
<1> QED BY <1>1, <1>2, <1>4, <1>5, <1>6, <1>7, <1>8
\* What a version that has ended by now ended with.
LEMMA VersionLasts ==
  ASSUME TypeOK, BumpsOwned, Counted, [Next]_vars,
         NEW u \in Users, NEW v \in Nat, v < tokenVersion'[u]
  PROVE  /\ endOf'[u][v + 1] \in Nat
         /\ \/ endOf'[u][v + 1] = now
            \/ v < tokenVersion[u] /\ endOf'[u][v + 1] = endOf[u][v + 1]
<1>1. /\ endOf[u] \in Seq(Nat) /\ now \in Nat
      /\ Len(endOf[u]) = tokenVersion[u] /\ tokenVersion[u] \in Nat
  BY DEF Counted, TypeOK, DbTypeOK, HistoryTypeOK
<1>2. CASE endOf'[u] = endOf[u] /\ tokenVersion'[u] = tokenVersion[u]
  BY <1>1, <1>2
<1>3. CASE /\ endOf'[u] = Append(endOf[u], now)
           /\ tokenVersion'[u] = tokenVersion[u] + 1
  BY <1>1, <1>3
<1> QED BY <1>2, <1>3, VersionsMove

LEMMA ClockMoves ==
  ASSUME TypeOK, [Next]_vars
  PROVE  now \in Nat /\ now' \in Nat /\ now <= now'
<1>1. now \in Nat /\ now' \in Nat
  BY NextTypeOK DEF TypeOK
<1>2. CASE Tick
  BY <1>1, <1>2 DEF Tick
<1>3. CASE ~Tick
  <2>1. ASSUME NEW r \in Refreshers, BeginRotate(r) \/ RotateStep(r) \/ AbortRotation(r)
        PROVE  now' = now
    BY <2>1 DEF BeginRotate, RotateStep, ReadSession, ReadUser, RevokeInRotation,
       Swap, CommitRotation, UndoMemory, AnswerRotated, AnswerRejected, AbortRotation
  <2>2. ASSUME NEW k \in Killers, BumpInTransaction(k) \/ BumpTokenVersion(k)
                                  \/ KillStep(k) \/ AbortKill(k)
        PROVE  now' = now
    BY <2>2 DEF BumpInTransaction, BumpTokenVersion, KillStep, RevokeAllExcept,
       ConfirmTokenVersion, CommitKill, AfterKill, AfterBump, AbortKill
  <2>3. ASSUME NEW v \in Revokers, RevokeOne(v) \/ AfterRevoke(v)
        PROVE  now' = now
    BY <2>3 DEF RevokeOne, AfterRevoke
  <2>4. ASSUME NEW l \in Logins, BeginLogin(l) \/ InsertSession(l) \/ AnswerLogin(l)
        PROVE  now' = now
    BY <2>4 DEF BeginLogin, InsertSession, AnswerLogin
  <2>5. ASSUME NEW g \in Guards, BeginGuard(g) \/ GuardStep(g)
        PROVE  now' = now
    BY <2>5 DEF BeginGuard, GuardStep, GuardReadUser, GuardFillUser, GuardDevice,
                GuardReadDevice, GuardFillDevice, EndGuard
  <2>6. DeleteStaleUserSessions \/ Restart \/ UNCHANGED vars => now' = now
    BY DEF DeleteStaleUserSessions, Restart, vars
  <2>7. now' = now
    BY <1>3, <2>1, <2>2, <2>3, <2>4, <2>5, <2>6 DEF Next
  <2> QED BY <1>1, <2>7
<1> QED BY <1>1, <1>2, <1>3

\* An entry that stays in a cache, and a request that does not move, keep
\* what they know however time passes, versions end and devices are cut.
LEMMA UserEntryLasts ==
  ASSUME SessionInv, StaleInv, [Next]_vars, NEW u \in Users,
         cache[u] # None, cache'[u] = cache[u]
  PROVE  UserEntryFresh(u, cache[u])'
<1> DEFINE e == cache[u]
<1>1. e \in CachedState /\ UserEntryFresh(u, e)
  BY DEF SessionInv, TypeOK, CacheTypeOK, StaleInv, CachesFresh
<1>2. e.expiresAt \in Nat /\ e.tokenVersion \in Nat /\ CacheTtl \in Nat
  BY <1>1, CacheAssumption DEF CachedState
<1>3. now \in Nat /\ now' \in Nat /\ now <= now'
  BY ClockMoves DEF SessionInv
<1>4. e.expiresAt <= now + CacheTtl
  BY <1>1 DEF UserEntryFresh
<1>5. e.expiresAt <= now' + CacheTtl
  BY <1>2, <1>3, <1>4
<1>6. ASSUME e.tokenVersion < tokenVersion'[u]
      PROVE  e.expiresAt <= endOf'[u][e.tokenVersion + 1] + CacheTtl
  <2>1. \/ endOf'[u][e.tokenVersion + 1] = now
        \/ /\ e.tokenVersion < tokenVersion[u]
           /\ endOf'[u][e.tokenVersion + 1] = endOf[u][e.tokenVersion + 1]
    BY <1>2, <1>6, VersionLasts DEF SessionInv, StaleInv
  <2> QED BY <1>1, <1>4, <2>1 DEF UserEntryFresh
<1> QED BY <1>5, <1>6 DEF UserEntryFresh

LEMMA DeviceEntryLasts ==
  ASSUME SessionInv, StaleInv, [Next]_vars, NEW s \in Sessions,
         deviceSessions[s] # None, deviceSessions'[s] = deviceSessions[s]
  PROVE  DeviceEntryFresh(s, deviceSessions[s])'
<1> DEFINE e == deviceSessions[s]
<1>1. e \in CachedDeviceSession /\ DeviceEntryFresh(s, e)
  BY DEF SessionInv, TypeOK, CacheTypeOK, StaleInv, CachesFresh
<1>2. e.expiresAt \in Nat /\ CacheTtl \in Nat
  BY <1>1, CacheAssumption DEF CachedDeviceSession
<1>3. now \in Nat /\ now' \in Nat /\ now <= now'
  BY ClockMoves DEF SessionInv
<1>4. cutAt'[s] = cutAt[s] \/ (cutAt[s] = None /\ cutAt'[s] = now)
  BY CutsMove DEF SessionInv, StaleInv
<1>5. e.active => e.expiresAt <= now + CacheTtl
  BY <1>1 DEF DeviceEntryFresh
<1>6. e.active => e.expiresAt <= now' + CacheTtl
  BY <1>2, <1>3, <1>5
<1> QED BY <1>1, <1>4, <1>5, <1>6 DEF DeviceEntryFresh

LEMMA GuardLasts ==
  ASSUME SessionInv, StaleInv, [Next]_vars, NEW g \in Guards,
         guard'[g] = guard[g]
  PROVE  GuardFresh(guard[g])'
<1> DEFINE q == guard[g]
           u == q.jwt.user
           s == q.jwt.sid
<1>1. q \in GuardReq /\ GuardFresh(q)
  BY DEF SessionInv, TypeOK, RequestTypeOK, StaleInv, GuardsFresh
<1>2. CASE q.pc = "idle"
  BY <1>2 DEF GuardFresh
<1>3. CASE q.pc # "idle"
  <2>1. /\ u \in Users /\ s \in Sessions /\ q.jwt.tv \in Nat /\ q.seenTv \in Nat
        /\ {q.at, q.userSeenAt, q.deviceSeenAt} \subseteq Nat
    BY <1>1, <1>3 DEF GuardReq, Jwt
  <2>2. now \in Nat /\ now' \in Nat /\ now <= now' /\ CacheTtl \in Nat
    BY ClockMoves, CacheAssumption DEF SessionInv
  <2>3. cutAt'[s] = cutAt[s] \/ (cutAt[s] = None /\ cutAt'[s] = now)
    BY <2>1, CutsMove DEF SessionInv, StaleInv
  <2>4. \A v \in Nat : v < tokenVersion'[u] =>
          \/ endOf'[u][v + 1] = now
          \/ v < tokenVersion[u] /\ endOf'[u][v + 1] = endOf[u][v + 1]
    BY <2>1, VersionLasts DEF SessionInv, StaleInv
  <2> HIDE DEF q, u, s
  <2>5. q.at <= now' /\ (q.pc = "fillUser" => q.at <= q.userSeenAt /\ q.userSeenAt <= now')
    BY <1>1, <1>3, <2>1, <2>2 DEF GuardFresh
  <2>6. ASSUME q.pc = "fillUser", q.seenTv < tokenVersion'[u]
        PROVE  q.userSeenAt <= endOf'[u][q.seenTv + 1]
    BY <1>1, <2>1, <2>4, <2>6 DEF GuardFresh, Known, u
  <2>7. ASSUME q.pc \in {"device", "readDevice", "fillDevice", "accepted"}
        PROVE  /\ q.userSeenAt <= now'
               /\ q.jwt.tv < tokenVersion'[u] =>
                    \/ q.userSeenAt <= endOf'[u][q.jwt.tv + 1]
                    \/ q.userSeenAt < endOf'[u][q.jwt.tv + 1] + CacheTtl
    BY <1>1, <2>1, <2>2, <2>4, <2>7 DEF GuardFresh, KnownTimely, u
  <2>8. ASSUME q.pc = "fillDevice"
        PROVE  /\ q.at <= q.deviceSeenAt /\ q.deviceSeenAt <= now'
               /\ q.active /\ cutAt'[s] # None => q.deviceSeenAt <= cutAt'[s]
    BY <1>1, <2>1, <2>2, <2>3, <2>8 DEF GuardFresh, s
  <2>9. ASSUME q.pc = "accepted"
        PROVE  /\ q.deviceSeenAt <= now'
               /\ cutAt'[s] # None => \/ q.deviceSeenAt <= cutAt'[s]
                                      \/ q.deviceSeenAt < cutAt'[s] + CacheTtl
    BY <1>1, <2>1, <2>2, <2>3, <2>9 DEF GuardFresh, DeviceTimely, s
  <2> QED BY <2>5, <2>6, <2>7, <2>8, <2>9
          DEF GuardFresh, Known, KnownTimely, DeviceTimely, q, u, s
<1> QED BY <1>2, <1>3
\* Whatever happens to the caches but a fill only takes entries away.
LEMMA NextCachesFresh ==
  ASSUME SessionInv, StaleInv, [Next]_vars
  PROVE  CachesFresh'
<1> DEFINE KeepsUsers == \A u \in Users : cache'[u] \in {None, cache[u]}
           KeepsDevices == \A s \in Sessions :
                             deviceSessions'[s] \in {None, deviceSessions[s]}
<1>0. CacheTypeOK /\ CacheTypeOK'
  BY NextTypeOK DEF SessionInv, TypeOK
<1>1. ASSUME KeepsUsers, NEW u \in Users, cache'[u] # None
      PROVE  UserEntryFresh(u, cache[u])'
  <2>1. cache'[u] = cache[u] /\ cache[u] # None
    BY <1>1
  <2> QED BY <2>1, UserEntryLasts
<1>2. ASSUME KeepsDevices, NEW s \in Sessions, deviceSessions'[s] # None
      PROVE  DeviceEntryFresh(s, deviceSessions[s])'
  <2>1. deviceSessions'[s] = deviceSessions[s] /\ deviceSessions[s] # None
    BY <1>2
  <2> QED BY <2>1, DeviceEntryLasts
<1>3. ASSUME KeepsUsers, KeepsDevices PROVE CachesFresh'
  BY <1>1, <1>2, <1>3 DEF CachesFresh
<1>4. ASSUME NEW g \in Guards, GuardFillUser(g) PROVE CachesFresh'
  <2> DEFINE q == guard[g]
             entry == [tokenVersion |-> q.seenTv, expiresAt |-> q.at + CacheTtl]
  <2>1. /\ q.pc = "fillUser" /\ deviceSessions' = deviceSessions
        /\ cache' = Remember(cache, q.jwt.user, entry)
        /\ now' = now /\ tokenVersion' = tokenVersion /\ endOf' = endOf
    BY <1>4 DEF GuardFillUser, dbVars, historyVars
  <2>2. /\ q \in GuardReq /\ GuardFresh(q)
        /\ q.jwt.user \in Users /\ q.jwt.sid \in Sessions
    BY <2>1, BusyGuard DEF SessionInv, StaleInv, GuardsFresh
  <2>3. /\ q.at \in Nat /\ q.userSeenAt \in Nat /\ q.seenTv \in Nat
        /\ q.jwt.user \in Users /\ now \in Nat /\ CacheTtl \in Nat
    BY <2>2, CacheAssumption DEF GuardReq, SessionInv, TypeOK
  <2>4. q.seenTv < tokenVersion[q.jwt.user] =>
          endOf[q.jwt.user][q.seenTv + 1] \in Nat
    <3>1. /\ endOf[q.jwt.user] \in Seq(Nat)
          /\ Len(endOf[q.jwt.user]) = tokenVersion[q.jwt.user]
          /\ q.seenTv \in Nat
      BY <2>3 DEF SessionInv, TypeOK, HistoryTypeOK, StaleInv, Counted
    <3> HIDE DEF q
    <3> QED BY <3>1
  <2>5. /\ entry.expiresAt <= now + CacheTtl
        /\ entry.tokenVersion < tokenVersion[q.jwt.user] =>
             entry.expiresAt <= endOf[q.jwt.user][entry.tokenVersion + 1] + CacheTtl
    BY <2>1, <2>2, <2>3, <2>4 DEF GuardFresh, Known
  <2> HIDE DEF q, entry
  <2>6. ASSUME NEW u \in Users
        PROVE  \/ cache'[u] \in {None, cache[u]}
               \/ u = q.jwt.user /\ cache'[u] = entry
    <3>1. DOMAIN cache = Users
      BY <1>0 DEF CacheTypeOK
    <3> QED BY <2>1, <3>1 DEF Remember
  <2>7. ASSUME NEW u \in Users, cache'[u] # None
        PROVE  UserEntryFresh(u, cache[u])'
    <3>1. CASE cache'[u] \in {None, cache[u]}
      BY <2>7, <3>1, UserEntryLasts
    <3>2. CASE u = q.jwt.user /\ cache'[u] = entry
      BY <2>1, <2>5, <3>2 DEF UserEntryFresh
    <3> QED BY <2>6, <3>1, <3>2
  <2>8. KeepsDevices
    BY <2>1
  <2> QED BY <1>2, <2>7, <2>8 DEF CachesFresh
<1>5. ASSUME NEW g \in Guards, GuardFillDevice(g) PROVE CachesFresh'
  <2> DEFINE q == guard[g]
             entry == [userId |-> q.owner, active |-> q.active,
                       expiresAt |-> q.at + CacheTtl]
  <2>1. /\ q.pc = "fillDevice" /\ cache' = cache
        /\ deviceSessions' = Remember(deviceSessions, q.jwt.sid, entry)
        /\ now' = now /\ cutAt' = cutAt
    BY <1>5 DEF GuardFillDevice, historyVars
  <2>2. /\ q \in GuardReq /\ GuardFresh(q)
        /\ q.jwt.user \in Users /\ q.jwt.sid \in Sessions
    BY <2>1, BusyGuard DEF SessionInv, StaleInv, GuardsFresh
  <2>3. /\ q.at \in Nat /\ q.deviceSeenAt \in Nat
        /\ q.jwt.sid \in Sessions /\ now \in Nat /\ CacheTtl \in Nat
        /\ cutAt[q.jwt.sid] # None => cutAt[q.jwt.sid] \in Nat
    BY <2>2, CacheAssumption
       DEF GuardReq, SessionInv, TypeOK, HistoryTypeOK, NatOrNone
  <2>5. entry.active =>
          /\ entry.expiresAt <= now + CacheTtl
          /\ cutAt[q.jwt.sid] # None => entry.expiresAt <= cutAt[q.jwt.sid] + CacheTtl
    BY <2>1, <2>2, <2>3 DEF GuardFresh
  <2> HIDE DEF q, entry
  <2>6. ASSUME NEW s \in Sessions
        PROVE  \/ deviceSessions'[s] \in {None, deviceSessions[s]}
               \/ s = q.jwt.sid /\ deviceSessions'[s] = entry
    <3>1. DOMAIN deviceSessions = Sessions
      BY <1>0 DEF CacheTypeOK
    <3> QED BY <2>1, <3>1 DEF Remember
  <2>7. ASSUME NEW s \in Sessions, deviceSessions'[s] # None
        PROVE  DeviceEntryFresh(s, deviceSessions[s])'
    <3>1. CASE deviceSessions'[s] \in {None, deviceSessions[s]}
      BY <2>7, <3>1, DeviceEntryLasts
    <3>2. CASE s = q.jwt.sid /\ deviceSessions'[s] = entry
      BY <2>1, <2>5, <3>2 DEF DeviceEntryFresh
    <3> QED BY <2>6, <3>1, <3>2
  <2>8. KeepsUsers
    BY <2>1
  <2> QED BY <1>1, <2>7, <2>8 DEF CachesFresh
<1>6. ASSUME ~\E g \in Guards : GuardFillUser(g) \/ GuardFillDevice(g)
      PROVE  KeepsUsers /\ KeepsDevices
  <2> DEFINE Still == cache' = cache /\ deviceSessions' = deviceSessions
  <2>0. /\ \A u, w \in Users : Invalidate(w)[u] \in {None, cache[u]}
        /\ \A s, d \in Sessions :
             InvalidateDeviceSession(d)[s] \in {None, deviceSessions[s]}
        /\ \A s \in Sessions, w \in Users :
             InvalidateDeviceSessionsOfUser(w)[s] \in {None, deviceSessions[s]}
    BY <1>0 DEF CacheTypeOK, Invalidate, InvalidateDeviceSession,
                InvalidateDeviceSessionsOfUser
  <2>1. ASSUME NEW r \in Refreshers, BeginRotate(r) \/ RotateStep(r) \/ AbortRotation(r)
        PROVE  KeepsUsers /\ KeepsDevices
    <3>1. CASE AnswerRejected(r)
      <4>1. rot[r].sid \in Sessions
        BY <3>1, BusyRot DEF AnswerRejected, SessionInv
      <4> QED BY <2>0, <3>1, <4>1 DEF AnswerRejected
    <3>2. CASE ~AnswerRejected(r)
      <4>1. Still
        BY <2>1, <3>2 DEF BeginRotate, RotateStep, ReadSession, ReadUser,
           RevokeInRotation, Swap, CommitRotation, UndoMemory, AnswerRotated,
           AbortRotation, cacheVars
      <4> QED BY <4>1
    <3> QED BY <3>1, <3>2
  <2>2. ASSUME NEW k \in Killers, BumpInTransaction(k) \/ BumpTokenVersion(k)
                                  \/ KillStep(k) \/ AbortKill(k)
        PROVE  KeepsUsers /\ KeepsDevices
    <3>1. CASE BumpInTransaction(k)
      BY <2>0, <3>1 DEF BumpInTransaction
    <3>2. CASE RevokeAllExcept(k)
      <4>1. kill[k].user \in Users
        BY <3>2, BusyKill DEF RevokeAllExcept, SessionInv
      <4> QED BY <2>0, <3>2, <4>1 DEF RevokeAllExcept
    <3>3. CASE AfterKill(k)
      <4>1. kill[k].user \in Users
        BY <3>3, BusyKill DEF AfterKill, SessionInv
      <4> QED BY <2>0, <3>3, <4>1 DEF AfterKill
    <3>4. CASE AfterBump(k)
      <4>1. kill[k].user \in Users
        BY <3>4, BusyKill DEF AfterBump, SessionInv
      <4> QED BY <2>0, <3>4, <4>1 DEF AfterBump
    <3>5. CASE BumpTokenVersion(k) \/ ConfirmTokenVersion(k) \/ CommitKill(k) \/ AbortKill(k)
      <4>1. Still
        BY <3>5 DEF BumpTokenVersion, ConfirmTokenVersion, CommitKill, AbortKill, cacheVars
      <4> QED BY <4>1
    <3> QED BY <2>2, <3>1, <3>2, <3>3, <3>4, <3>5 DEF KillStep
  <2>3. ASSUME NEW v \in Revokers, RevokeOne(v) \/ AfterRevoke(v)
        PROVE  KeepsUsers /\ KeepsDevices
    <3>1. CASE RevokeOne(v)
      BY <3>1 DEF RevokeOne, cacheVars
    <3>2. CASE AfterRevoke(v)
      <4>1. revoke[v].sid \in Sessions
        BY <3>2 DEF AfterRevoke, SessionInv, TypeOK, RequestTypeOK, RevokeReq
      <4> QED BY <2>0, <3>2, <4>1 DEF AfterRevoke
    <3> QED BY <2>3, <3>1, <3>2
  <2>4. ASSUME NEW l \in Logins, BeginLogin(l) \/ InsertSession(l) \/ AnswerLogin(l)
        PROVE  Still
    BY <2>4 DEF BeginLogin, InsertSession, AnswerLogin, cacheVars
  <2>5. ASSUME NEW g \in Guards, BeginGuard(g) \/ GuardStep(g)
        PROVE  Still
    BY <1>6, <2>5 DEF BeginGuard, GuardStep, GuardReadUser, GuardDevice,
                GuardReadDevice, EndGuard, cacheVars
  <2>6. DeleteStaleUserSessions \/ Tick \/ UNCHANGED vars => Still
    BY DEF DeleteStaleUserSessions, Tick, vars, cacheVars
  <2>7. Restart => KeepsUsers /\ KeepsDevices
    BY DEF Restart, EmptyCache, EmptyDeviceSessions
  <2>8. Still => KeepsUsers /\ KeepsDevices
    OBVIOUS
  <2> HIDE DEF Still, KeepsUsers, KeepsDevices
  <2> QED BY <2>1, <2>2, <2>3, <2>4, <2>5, <2>6, <2>7, <2>8 DEF Next
<1> QED BY <1>3, <1>4, <1>5, <1>6
\* A step of a request that is being authenticated: q is what it becomes.
LEMMA GuardMoves ==
  ASSUME SessionInv, StaleInv, NEW g \in Guards, BeginGuard(g) \/ GuardStep(g)
  PROVE  /\ GuardFresh(guard[g])'
         /\ \A h \in Guards : h # g => guard'[h] = guard[h]
<1>0. /\ GuardFresh(guard[g]) /\ now \in Nat /\ guard \in [Guards -> GuardReq]
      /\ CacheTtl \in Nat
  BY CacheAssumption DEF SessionInv, TypeOK, RequestTypeOK, StaleInv, GuardsFresh
<1>1. UNCHANGED <<now, tokenVersion, endOf, cutAt>>
  BY DEF BeginGuard, GuardStep, GuardReadUser, GuardFillUser, GuardDevice,
         GuardReadDevice, GuardFillDevice, EndGuard, dbVars, historyVars
<1>2. \A h \in Guards : h # g => guard'[h] = guard[h]
  BY <1>0 DEF BeginGuard, GuardStep, GuardReadUser, GuardFillUser, GuardDevice,
              GuardReadDevice, GuardFillDevice, EndGuard
<1>3. SUFFICES GuardFresh(guard'[g])
  BY <1>1, <1>2 DEF GuardFresh, Known, KnownTimely, DeviceTimely
<1>4. GuardFresh(IdleGuard)
  BY DEF GuardFresh, IdleGuard
<1>5. CASE BeginGuard(g)
  <2>1. PICK j \in jwts :
          LET q == [IdleGuard EXCEPT !.jwt = j, !.at = now,
                                     !.afterCut = j.sid \in signedOut]
          IN  guard' = [guard EXCEPT ![g] =
                 IF ~Hit(cache[j.user], now)
                 THEN [q EXCEPT !.pc = "readUser"]
                 ELSE IF cache[j.user].tokenVersion = j.tv
                 THEN [q EXCEPT !.pc = "device", !.userSeenAt = now]
                 ELSE IdleGuard]
    BY <1>5 DEF BeginGuard
  <2>2. j \in Jwt /\ j.user \in Users /\ j.tv \in Nat
    BY DEF SessionInv, TypeOK, ClientTypeOK, Jwt
  <2>3. CASE ~Hit(cache[j.user], now)
    <3>1. /\ guard'[g].pc = "readUser" /\ guard'[g].at = now
      BY <1>0, <2>1, <2>3 DEF IdleGuard
    <3> QED BY <1>0, <3>1 DEF GuardFresh
  <2>4. CASE Hit(cache[j.user], now) /\ cache[j.user].tokenVersion = j.tv
    <3>1. /\ guard'[g].pc = "device" /\ guard'[g].at = now
          /\ guard'[g].userSeenAt = now /\ guard'[g].jwt = j
      BY <1>0, <2>1, <2>4 DEF IdleGuard
    <3>2. UserEntryFresh(j.user, cache[j.user]) /\ cache[j.user].expiresAt \in Nat
      BY <2>2, <2>4 DEF Hit, SessionInv, TypeOK, CacheTypeOK, CachedState,
                        StaleInv, CachesFresh
    <3>3. j.tv < tokenVersion[j.user] => endOf[j.user][j.tv + 1] \in Nat
      <4>1. /\ endOf[j.user] \in Seq(Nat)
            /\ Len(endOf[j.user]) = tokenVersion[j.user]
        BY <2>2 DEF SessionInv, TypeOK, HistoryTypeOK, StaleInv, Counted
      <4> QED BY <2>2, <4>1
    <3>4. KnownTimely(j.user, j.tv, now)
      BY <1>0, <2>4, <3>2, <3>3 DEF Hit, UserEntryFresh, KnownTimely
    <3> QED BY <1>0, <3>1, <3>4 DEF GuardFresh
  <2>5. CASE Hit(cache[j.user], now) /\ cache[j.user].tokenVersion # j.tv
    BY <1>0, <1>4, <2>1, <2>5
  <2> QED BY <2>3, <2>4, <2>5
<1>6. CASE GuardReadUser(g)
  <2>1. /\ guard'[g].pc = "fillUser" /\ guard'[g].at = guard[g].at
        /\ guard'[g].userSeenAt = now /\ guard'[g].jwt = guard[g].jwt
        /\ guard'[g].seenTv = tokenVersion[guard[g].jwt.user]
        /\ guard[g].pc = "readUser"
    BY <1>0, <1>6 DEF GuardReadUser, GuardReq
  <2>2. tokenVersion[guard[g].jwt.user] \in Nat
    BY <2>1, BusyGuard DEF SessionInv, TypeOK, DbTypeOK
  <2> QED BY <1>0, <2>1, <2>2 DEF GuardFresh, Known
<1>7. CASE GuardFillUser(g)
  <2>1. CASE guard[g].seenTv = guard[g].jwt.tv
    <3>1. /\ guard'[g].pc = "device" /\ guard'[g].at = guard[g].at
          /\ guard'[g].userSeenAt = guard[g].userSeenAt
          /\ guard'[g].jwt = guard[g].jwt /\ guard[g].pc = "fillUser"
      BY <1>0, <1>7, <2>1 DEF GuardFillUser, GuardReq
    <3> QED BY <1>0, <2>1, <3>1 DEF GuardFresh, Known, KnownTimely
  <2>2. CASE guard[g].seenTv # guard[g].jwt.tv
    BY <1>0, <1>4, <1>7, <2>2 DEF GuardFillUser
  <2> QED BY <2>1, <2>2
<1>8. CASE GuardDevice(g)
  <2> DEFINE q == guard[g]
             e == deviceSessions[q.jwt.sid]
  <2>1. q.pc = "device" /\ q.jwt.sid \in Sessions /\ q \in GuardReq
    BY <1>0, <1>8, BusyGuard DEF GuardDevice, SessionInv
  <2>2. CASE ~Hit(e, now)
    <3>1. /\ guard'[g].pc = "readDevice" /\ guard'[g].at = now
          /\ guard'[g].userSeenAt = q.userSeenAt /\ guard'[g].jwt = q.jwt
      BY <1>0, <1>8, <2>1, <2>2 DEF GuardDevice, GuardReq
    <3> QED BY <1>0, <2>1, <3>1 DEF GuardFresh
  <2>3. CASE Hit(e, now) /\ e.active /\ e.userId = q.jwt.user
    <3>1. /\ guard'[g].pc = "accepted" /\ guard'[g].at = q.at
          /\ guard'[g].userSeenAt = q.userSeenAt /\ guard'[g].jwt = q.jwt
          /\ guard'[g].deviceSeenAt = now
      BY <1>0, <1>8, <2>1, <2>3 DEF GuardDevice, GuardReq
    <3>2. DeviceEntryFresh(q.jwt.sid, e) /\ e.expiresAt \in Nat /\ now < e.expiresAt
      BY <1>0, <2>1, <2>3 DEF Hit, SessionInv, TypeOK, CacheTypeOK,
         CachedDeviceSession, StaleInv, CachesFresh
    <3>3. cutAt[q.jwt.sid] # None => cutAt[q.jwt.sid] \in Nat
      BY <2>1 DEF SessionInv, TypeOK, HistoryTypeOK, NatOrNone
    <3>4. DeviceTimely(q.jwt.sid, now)
      BY <1>0, <2>3, <3>2, <3>3 DEF DeviceEntryFresh, DeviceTimely
    <3> QED BY <1>0, <2>1, <3>1, <3>4 DEF GuardFresh
  <2>4. CASE Hit(e, now) /\ ~(e.active /\ e.userId = q.jwt.user)
    BY <1>0, <1>4, <1>8, <2>4 DEF GuardDevice
  <2> QED BY <2>2, <2>3, <2>4
<1>9. CASE GuardReadDevice(g)
  <2> DEFINE q == guard[g]
             r == row[q.jwt.sid]
  <2>1. q.pc = "readDevice" /\ q.jwt.sid \in Sessions /\ q \in GuardReq /\ q.at \in Nat
    BY <1>0, <1>9, BusyGuard DEF GuardReadDevice, SessionInv
  <2>2. /\ guard'[g].pc = "fillDevice" /\ guard'[g].at = q.at
        /\ guard'[g].userSeenAt = q.userSeenAt /\ guard'[g].jwt = q.jwt
        /\ guard'[g].deviceSeenAt = now
        /\ guard'[g].active => Alive(r)
    BY <1>0, <1>9, <2>1 DEF GuardReadDevice, GuardReq
  <2>3. cutAt[q.jwt.sid] # None => ~Alive(r)
    BY <2>1 DEF StaleInv, CutIsFinal
  <2> QED BY <1>0, <2>1, <2>2, <2>3 DEF GuardFresh
<1>10. CASE GuardFillDevice(g)
  <2> DEFINE q == guard[g]
  <2>1. CASE q.active /\ q.owner = q.jwt.user
    <3>1. /\ guard'[g].pc = "accepted" /\ guard'[g].at = q.at
          /\ guard'[g].userSeenAt = q.userSeenAt /\ guard'[g].jwt = q.jwt
          /\ guard'[g].deviceSeenAt = q.deviceSeenAt /\ q.pc = "fillDevice"
      BY <1>0, <1>10, <2>1 DEF GuardFillDevice, GuardReq
    <3> QED BY <1>0, <2>1, <3>1 DEF GuardFresh, DeviceTimely
  <2>2. CASE ~(q.active /\ q.owner = q.jwt.user)
    BY <1>0, <1>4, <1>10, <2>2 DEF GuardFillDevice
  <2> QED BY <2>1, <2>2
<1>11. CASE EndGuard(g)
  BY <1>0, <1>4, <1>11 DEF EndGuard
<1> QED BY <1>5, <1>6, <1>7, <1>8, <1>9, <1>10, <1>11 DEF GuardStep

LEMMA NextStaleInv ==
  ASSUME SessionInv, StaleInv, [Next]_vars
  PROVE  StaleInv'
<1>1. Counted'
  BY VersionsMove DEF SessionInv, StaleInv
<1>2. CutIsFinal' /\ NeverUncut'
  BY CutsMove DEF SessionInv, StaleInv
<1>3. CachesFresh'
  BY NextCachesFresh
<1>4. CASE \E g \in Guards : BeginGuard(g) \/ GuardStep(g)
  <2> PICK g \in Guards : BeginGuard(g) \/ GuardStep(g)
    BY <1>4
  <2> QED BY <1>1, <1>2, <1>3, GuardMoves, GuardLasts DEF StaleInv, GuardsFresh
<1>5. CASE Restart
  <2>1. \A g \in Guards : guard'[g].pc = "idle"
    BY <1>5 DEF Restart, IdleGuard
  <2>2. GuardsFresh'
    BY <2>1 DEF GuardsFresh, GuardFresh
  <2> QED BY <1>1, <1>2, <1>3, <2>2 DEF StaleInv
<1>6. CASE ~Restart /\ ~\E g \in Guards : BeginGuard(g) \/ GuardStep(g)
  <2>1. ASSUME NEW r \in Refreshers, BeginRotate(r) \/ RotateStep(r) \/ AbortRotation(r)
        PROVE  guard' = guard
    BY <2>1 DEF BeginRotate, RotateStep, ReadSession, ReadUser, RevokeInRotation,
       Swap, CommitRotation, UndoMemory, AnswerRotated, AnswerRejected, AbortRotation
  <2>2. ASSUME NEW k \in Killers, BumpInTransaction(k) \/ BumpTokenVersion(k)
                                  \/ KillStep(k) \/ AbortKill(k)
        PROVE  guard' = guard
    BY <2>2 DEF BumpInTransaction, BumpTokenVersion, KillStep, RevokeAllExcept,
       ConfirmTokenVersion, CommitKill, AfterKill, AfterBump, AbortKill
  <2>3. ASSUME NEW v \in Revokers, RevokeOne(v) \/ AfterRevoke(v)
        PROVE  guard' = guard
    BY <2>3 DEF RevokeOne, AfterRevoke
  <2>4. ASSUME NEW l \in Logins, BeginLogin(l) \/ InsertSession(l) \/ AnswerLogin(l)
        PROVE  guard' = guard
    BY <2>4 DEF BeginLogin, InsertSession, AnswerLogin
  <2>5. DeleteStaleUserSessions \/ Tick \/ UNCHANGED vars => guard' = guard
    BY DEF DeleteStaleUserSessions, Tick, vars, requestVars
  <2>6. guard' = guard
    BY <1>6, <2>1, <2>2, <2>3, <2>4, <2>5 DEF Next
  <2> QED BY <1>1, <1>2, <1>3, <2>6, GuardLasts DEF StaleInv, GuardsFresh
<1> QED BY <1>4, <1>5, <1>6

\* JwtStrategy.validate lets a request in on the word of the caches at most
\* CACHE_TTL_MS after its device was revoked or its version ended: the end of
\* an entry counts from the START of the lookup, so neither a slow SELECT nor
\* one that fills the cache after the invalidation can stretch it.
THEOREM StalenessHolds == Spec => []StalenessBounded
<1>1. StaleInv => StalenessBounded
  BY DEF StaleInv, GuardsFresh, GuardFresh, KnownTimely, DeviceTimely,
         StalenessBounded
<1> QED BY <1>1, InitStaleInv, NextStaleInv, AlwaysSessionInv, PTL DEF Spec

-----------------------------------------------------------------------------
(* Rotations: what the memory and the compare-and-swap achieve together.   *)
(* Every committed rotation is lawful, and UserSessions implements the     *)
(* chain of tokens of RefreshChain, as long as the database tells the      *)
(* process the truth about its COMMIT.                                     *)

\* A rotation that wrote its row and was not answered yet, before and after
\* its transaction failed; a request that works from a row it has read.
Writing(r) == rot[r].outcome = "rotated" /\ rot[r].pc = "commit"
Pending(r) == rot[r].outcome = "rotated" /\ rot[r].pc \in {"commit", "undo"}
Seeing(r) == rot[r].pc \in {"readUser", "swap"} \/ Pending(r)

\* A rotation holds the row of its session until COMMIT, as it has read it.
WriterHolds(r) ==
  LET q == rot[r] IN
  Writing(r) =>
    /\ Holds(r, q.sid)
    /\ Alive(rowLock[q.sid].row) /\ rowLock[q.sid].row.hash = q.next
    /\ row[q.sid].hash = q.seen.hash

\* A row that is held keeps its token, unless a rotation holds it.
LockKeepsToken(s) ==
  rowLock[s] # None =>
    LET t == rowLock[s].by
        x == rowLock[s].row
    IN
    /\ t \in Refreshers => rot[t].sid = s /\ rot[t].pc = "commit"
    /\ Alive(x) => x.hash = row[s].hash \/ (t \in Refreshers /\ Writing(t))

LockInv ==
  /\ \A r \in Refreshers : WriterHolds(r)
  /\ \A s \in Sessions : LockKeepsToken(s)

\* Tokens are numbered as they are minted: no slot holds a later one.
MintedAt(s) ==
  /\ minted[s] = 0 => last[s] = None /\ lastRotations[s] = None
  /\ Alive(row[s]) => row[s].hash <= minted[s]
  /\ lastRotations[s] # None => lastRotations[s].installed <= minted[s]
MintedFor(r) ==
  LET q == rot[r] IN
  /\ Seeing(r) => q.seen.hash <= minted[q.sid]
  /\ Pending(r) => /\ q.next <= minted[q.sid]
                   /\ q.prior # None => q.prior.installed <= minted[q.sid]

\* The token of a rotation that is not committed yet is nobody else's.
NextIsFresh(r) ==
  LET q == rot[r]
      Others == {x \in Refreshers : rot[x].sid = q.sid}
  IN
  /\ Pending(r) =>
       /\ Alive(row[q.sid]) => row[q.sid].hash # q.next
       /\ \A x \in Others : x # r /\ Pending(x) => rot[x].next # q.next
  /\ Writing(r) =>
       /\ Alive(row[q.sid]) => row[q.sid].hash < q.next
       /\ \A x \in Others : Seeing(x) => rot[x].seen.hash # q.next

\* The token presented may still be exchanged if the row did not change.
GrantStands(r) ==
  LET q == rot[r] IN
  /\ q.pc = "swap" \/ Pending(r) => q.viaGrace = (q.seen.hash # q.token)
  /\ /\ q.pc = "swap" \/ Writing(r)
     /\ Alive(row[q.sid]) /\ row[q.sid].hash = q.seen.hash
     => MayRotate(q.sid, q.token, q.at)

\* Entry e tells of the last committed rotation of the session, or of one
\* that replaces the current token and was not committed.
OfLast(s, e) ==
  /\ last[s] # None
  /\ e.installed = last[s].installed /\ e.previousHash = last[s].replaced
  /\ e.rotatedAt = last[s].at /\ e.graceSpent = Tolerated(last[s])
Recalls(s, e) == OfLast(s, e) \/ e.previousHash = row[s].hash

\* The entry is the one rotation r wrote, if it is of the token r installed.
OwnIfInstalled(r, e) ==
  e # None /\ e.installed = rot[r].next => e.previousHash = rot[r].seen.hash

MemoryRecalls(s) ==
  Alive(row[s]) /\ lastRotations[s] # None => Recalls(s, lastRotations[s])
PriorRecalls(r) ==
  LET q == rot[r] IN
  /\ Pending(r) /\ q.prior # None
  /\ Alive(row[q.sid]) /\ row[q.sid].hash = q.seen.hash
  => Recalls(q.sid, q.prior)
OwnEntry(r) ==
  LET q == rot[r]
      e == lastRotations[q.sid]
  IN
  Writing(r) /\ e # None =>
    /\ e.installed = q.next /\ e.previousHash = q.seen.hash
    /\ e.rotatedAt = q.at /\ e.graceSpent = q.viaGrace
EntriesOwned(r) ==
  Pending(r) =>
    /\ OwnIfInstalled(r, lastRotations[rot[r].sid])
    /\ \A x \in Refreshers :
         Pending(x) /\ rot[x].sid = rot[r].sid => OwnIfInstalled(r, rot[x].prior)

\* The current token is the one the last rotation installed, lawfully.
LastLawful(s) ==
  last[s] # None => /\ last[s].lawful
                    /\ Alive(row[s]) => last[s].installed = row[s].hash

SessionTokens(s) == MintedAt(s) /\ MemoryRecalls(s) /\ LastLawful(s)
RequestTokens(r) ==
  /\ rot[r].outcome = "rotated" => rot[r].pc \in {"commit", "undo", "answer"}
  /\ rot[r].pc = "undo" => rot[r].outcome = "rotated"
  /\ MintedFor(r) /\ NextIsFresh(r) /\ GrantStands(r)
  /\ PriorRecalls(r) /\ OwnEntry(r) /\ EntriesOwned(r)

TokenInv ==
  /\ \A s \in Sessions : SessionTokens(s)
  /\ \A r \in Refreshers : RequestTokens(r)

RotationInv == LockInv /\ TokenInv

LEMMA InitRotationInv == Init => RotationInv
<1> SUFFICES ASSUME Init PROVE RotationInv
  OBVIOUS
<1>1. /\ \A s \in Sessions : /\ row[s] = None /\ rowLock[s] = None
                             /\ last[s] = None /\ lastRotations[s] = None
      /\ \A r \in Refreshers : rot[r].pc = "idle" /\ rot[r].outcome = "none"
  BY DEF Init, NoRequests, IdleRot, EmptyRotations
<1>2. \A r \in Refreshers : ~Writing(r) /\ ~Pending(r) /\ ~Seeing(r)
  BY <1>1 DEF Writing, Pending, Seeing
<1>3. LockInv
  BY <1>1, <1>2 DEF LockInv, WriterHolds, LockKeepsToken
<1>4. ASSUME NEW s \in Sessions PROVE SessionTokens(s)
  BY <1>1 DEF SessionTokens, MintedAt, MemoryRecalls, LastLawful, Alive
<1>5. ASSUME NEW r \in Refreshers PROVE RequestTokens(r)
  BY <1>1, <1>2 DEF RequestTokens, MintedFor, NextIsFresh, GrantStands,
     PriorRecalls, OwnEntry, EntriesOwned
<1>6. QED
  BY <1>3, <1>4, <1>5 DEF RotationInv, TokenInv

\* What is compared in the invariant is a natural number.
LEMMA TokensNatural ==
  ASSUME TypeOK
  PROVE  /\ \A s \in Sessions :
              /\ minted[s] \in Nat
              /\ row[s] # None => row[s] \in Row /\ row[s].hash \in Nat
              /\ lastRotations[s] # None => lastRotations[s].installed \in Nat
         /\ \A r \in Refreshers :
              /\ rot[r].next \in Nat
              /\ Seeing(r) => rot[r].sid \in Sessions /\ rot[r].seen.hash \in Nat
              /\ Writing(r) => rot[r].sid \in Sessions
              /\ rot[r].prior # None => rot[r].prior.installed \in Nat
<1>1. ASSUME NEW s \in Sessions
      PROVE  /\ minted[s] \in Nat
             /\ row[s] # None => row[s] \in Row /\ row[s].hash \in Nat
             /\ lastRotations[s] # None => lastRotations[s].installed \in Nat
  BY DEF TypeOK, DbTypeOK, MemoryTypeOK, RowOrNone, Row, RotationEntry
<1>2. ASSUME NEW r \in Refreshers
      PROVE  /\ rot[r].next \in Nat
             /\ Seeing(r) => rot[r].sid \in Sessions /\ rot[r].seen \in Row
             /\ Writing(r) => rot[r].sid \in Sessions
             /\ rot[r].prior \in RotationEntry \cup {None}
  BY BusyRot DEF Seeing, Pending, Writing
<1>3. \A x \in Row : x.hash \in Nat
  BY DEF Row
<1>4. \A e \in RotationEntry : e.installed \in Nat
  BY DEF RotationEntry
<1>5. QED
  BY <1>1, <1>2, <1>3, <1>4

-----------------------------------------------------------------------------
(* Who holds which row.                                                    *)

\* Rows are taken when they are free and change when they are not held, and
\* no rotation begins or ends to write.
LEMMA LocksFramed ==
  ASSUME TypeOK, LockInv,
         \A s \in Sessions :
           \/ rowLock'[s] = rowLock[s]
           \/ /\ Free(s)
              /\ rowLock'[s].by \in Refreshers =>
                   LET q == rot'[rowLock'[s].by] IN q.sid = s /\ q.pc = "commit"
              /\ rowLock'[s].row.hash = row[s].hash
              /\ row'[s] = row[s],
         \A s \in Sessions : row'[s] = row[s] \/ Free(s),
         \A r \in Refreshers : \/ rot'[r] = rot[r]
                               \/ rot[r].pc # "commit" /\ ~Writing(r)'
  PROVE  LockInv'
<1>1. \A r \in Refreshers : /\ Writing(r)' <=> Writing(r)
                            /\ Writing(r) => rot'[r] = rot[r]
  BY DEF Writing
<1>2. ASSUME NEW r \in Refreshers PROVE WriterHolds(r)'
  <2>1. Writing(r) => rot[r].sid \in Sessions
    BY TokensNatural
  <2>2. Writing(r) => /\ rowLock'[rot[r].sid] = rowLock[rot[r].sid]
                      /\ row'[rot[r].sid] = row[rot[r].sid]
    BY <2>1 DEF LockInv, WriterHolds, Holds, Free
  <2>3. QED
    BY <1>1, <2>2 DEF LockInv, WriterHolds, Holds
<1>3. ASSUME NEW s \in Sessions PROVE LockKeepsToken(s)'
  <2>1. CASE rowLock'[s] = rowLock[s]
    BY <1>1, <2>1 DEF LockInv, LockKeepsToken, Free
  <2>2. CASE rowLock'[s] # rowLock[s]
    BY <1>1, <2>2 DEF LockKeepsToken
  <2>3. QED
    BY <2>1, <2>2
<1>4. QED
  BY <1>2, <1>3 DEF LockInv

\* Transaction t ends and its rows are free again.
LEMMA LocksReleased ==
  ASSUME TypeOK, LockInv, NEW t,
         rowLock' = Released(t),
         \A s \in Sessions : row'[s] = row[s] \/ Holds(t, s),
         \A r \in Refreshers : IF r = t THEN ~Writing(r)' ELSE rot'[r] = rot[r]
  PROVE  LockInv'
<1>1. ASSUME NEW r \in Refreshers PROVE WriterHolds(r)'
  <2>1. Writing(r)' => r # t /\ Writing(r) /\ rot'[r] = rot[r]
    BY DEF Writing
  <2>2. Writing(r) => rot[r].sid \in Sessions
    BY TokensNatural
  <2>3. Writing(r)' => /\ rowLock'[rot[r].sid] = rowLock[rot[r].sid]
                       /\ row'[rot[r].sid] = row[rot[r].sid]
    BY <2>1, <2>2 DEF LockInv, WriterHolds, Holds, Released
  <2>4. QED
    BY <2>1, <2>3 DEF LockInv, WriterHolds, Holds
<1>2. ASSUME NEW s \in Sessions PROVE LockKeepsToken(s)'
  <2>1. SUFFICES ASSUME rowLock'[s] # None
                 PROVE  LockKeepsToken(s)'
    BY DEF LockKeepsToken
  <2>2. /\ rowLock'[s] = rowLock[s] /\ rowLock[s] # None /\ rowLock[s].by # t
        /\ row'[s] = row[s]
    BY <2>1 DEF Released, Holds
  <2>3. rowLock[s].by \in Refreshers => rot'[rowLock[s].by] = rot[rowLock[s].by]
    BY <2>2
  <2>4. QED
    BY <2>2, <2>3 DEF LockInv, LockKeepsToken, Writing
<1>3. QED
  BY <1>1, <1>2 DEF LockInv

LEMMA SwapLocks ==
  ASSUME SessionInv, RotationInv, NEW r \in Refreshers, Swap(r)
  PROVE  LockInv'
<1> DEFINE q == rot[r]
           s == rot[r].sid
           n == minted[s] + 1
           y == [row[s] EXCEPT !.hash = n, !.expiresAt = Expiry(q.at)]
           failed == [q EXCEPT !.pc = "commit", !.outcome = "conflict"]
           won == [q EXCEPT !.pc = "commit", !.outcome = "rotated",
                            !.next = n, !.prior = lastRotations[s]]
<1>1. /\ TypeOK /\ s \in Sessions /\ q \in RotReq /\ q.pc = "swap"
      /\ ~Writing(r) /\ Free(s) /\ UNCHANGED row
  BY BusyRot DEF SessionInv, Swap, Writing
<1>2. CASE ~SwapMatches(q)
  <2>1. rot' = [rot EXCEPT ![r] = failed] /\ UNCHANGED rowLock
    BY <1>1, <1>2 DEF Swap, TypeOK, RequestTypeOK
  <2>2. failed.outcome = "conflict"
    BY <1>1 DEF RotReq
  <2> HIDE DEF failed
  <2>3. \A x \in Refreshers : \/ rot'[x] = rot[x]
                              \/ rot[x].pc # "commit" /\ ~Writing(x)'
    BY <1>1, <2>1, <2>2 DEF Writing, TypeOK, RequestTypeOK
  <2>4. QED
    BY <1>1, <2>1, <2>3, LocksFramed DEF RotationInv
<1>3. CASE SwapMatches(q)
  <2>1. /\ rowLock' = [rowLock EXCEPT ![s] = [by |-> r, row |-> y]]
        /\ rot' = [rot EXCEPT ![r] = won]
    BY <1>1, <1>3 DEF Swap, TypeOK, RequestTypeOK
  <2>2. /\ won.pc = "commit" /\ won.outcome = "rotated" /\ won.next = n
        /\ won.sid = s /\ won.seen = q.seen
    BY <1>1 DEF RotReq
  <2>3. row[s] \in Row /\ row[s].revokedAt = None /\ row[s].hash = q.seen.hash
    BY <1>1, <1>3 DEF SwapMatches, Alive, TypeOK, DbTypeOK, RowOrNone
  <2>4. y \in Row /\ y.hash = n /\ Alive(y)
    <3>1. y.hash = n /\ y.revokedAt = None
      BY <2>3 DEF Row
    <3>2. n \in Nat /\ Expiry(q.at) \in Nat
      BY <1>1, BusyRot, SessionsAssumption DEF TypeOK, DbTypeOK, Expiry
    <3>3. y \in Row
      <4> HIDE DEF n
      <4>1. QED
        BY <2>3, <3>2 DEF Row
    <3>4. QED
      BY <3>1, <3>3, NoneAssumption DEF Alive
  <2> HIDE DEF y, won, n
  <2>5. /\ rowLock'[s].by = r /\ rowLock'[s].row = y /\ rot'[r] = won
        /\ \A x \in Sessions : x # s => rowLock'[x] = rowLock[x]
        /\ \A x \in Refreshers : x # r => rot'[x] = rot[x]
    BY <1>1, <2>1 DEF TypeOK, DbTypeOK, RequestTypeOK
  <2>6. rowLock'[s] # None
    <3>2. [by |-> r, row |-> y] \in Lock
      BY <2>4 DEF Lock
    <3>3. rowLock'[s] = [by |-> r, row |-> y]
      BY <1>1, <2>1 DEF TypeOK, DbTypeOK
    <3>4. QED
      BY <3>2, <3>3, NoneAssumption
  <2>7. ASSUME NEW x \in Refreshers PROVE WriterHolds(x)'
    <3>1. CASE x = r
      BY <1>1, <2>2, <2>3, <2>4, <2>5, <2>6, <3>1 DEF WriterHolds, Holds
    <3>2. CASE x # r
      <4>1. Writing(x) => rot[x].sid \in Sessions /\ rot[x].sid # s
        BY <1>1, TokensNatural DEF RotationInv, LockInv, WriterHolds, Holds, Free
      <4>2. Writing(x)' <=> Writing(x)
        BY <2>5, <3>2 DEF Writing
      <4>3. QED
        BY <1>1, <2>5, <3>2, <4>1, <4>2 DEF RotationInv, LockInv, WriterHolds,
           Holds
    <3>3. QED
      BY <3>1, <3>2
  <2>8. ASSUME NEW x \in Sessions PROVE LockKeepsToken(x)'
    <3>1. CASE x = s
      <4>1. Writing(r)'
        BY <2>2, <2>5 DEF Writing
      <4>2. QED
        BY <2>2, <2>5, <3>1, <4>1 DEF LockKeepsToken
    <3>2. CASE x # s
      <4>1. SUFFICES ASSUME rowLock[x] # None PROVE LockKeepsToken(x)'
        BY <2>5, <3>2 DEF LockKeepsToken
      <4>2. rowLock[x].by # r
        BY <1>1, <4>1 DEF RotationInv, LockInv, LockKeepsToken
      <4>3. QED
        BY <1>1, <2>5, <3>2, <4>1, <4>2 DEF RotationInv, LockInv,
           LockKeepsToken, Writing
    <3>3. QED
      BY <3>1, <3>2
  <2>9. QED
    BY <2>7, <2>8 DEF LockInv
<1>4. QED
  BY <1>2, <1>3

LEMMA LockInvKept ==
  ASSUME SessionInv, RotationInv, [Next]_vars
  PROVE  LockInv'
<1>0. TypeOK /\ LockInv /\ LockedRows /\ UnusedSessions
  BY DEF SessionInv, RotationInv
<1>1. ASSUME NEW l \in Logins, BeginLogin(l) \/ InsertSession(l) \/ AnswerLogin(l)
      PROVE  LockInv'
  <2>1. UNCHANGED <<rowLock, rot>>
    BY <1>1 DEF BeginLogin, InsertSession, AnswerLogin, dbVars
  <2>2. \A s \in Sessions : row'[s] = row[s] \/ minted[s] = 0
    BY <1>0, <1>1 DEF BeginLogin, InsertSession, AnswerLogin, dbVars, TypeOK,
       DbTypeOK
  <2>3. \A s \in Sessions : minted[s] = 0 => Free(s)
    BY <1>0 DEF LockedRows, UnusedSessions, Free, Alive
  <2>4. QED
    BY <1>0, <2>1, <2>2, <2>3, LocksFramed
<1>2. ASSUME NEW r \in Refreshers,
             \/ BeginRotate(r) \/ ReadSession(r) \/ ReadUser(r)
             \/ UndoMemory(r) \/ AnswerRotated(r) \/ AnswerRejected(r)
      PROVE  LockInv'
  <2>1. UNCHANGED <<row, rowLock>> /\ rot[r].pc # "commit"
    BY <1>2 DEF BeginRotate, ReadSession, ReadUser, UndoMemory, AnswerRotated,
       AnswerRejected, dbVars
  <2>2. rot[r] \in RotReq /\ (rot[r].outcome = "rotated" =>
                                rot[r].pc \in {"commit", "undo", "answer"})
    BY <1>0, BusyRot DEF RotationInv, TokenInv, RequestTokens
  <2>3. \A x \in Refreshers : x # r => rot'[x] = rot[x]
    BY <1>0, <1>2 DEF BeginRotate, ReadSession, ReadUser, UndoMemory,
       AnswerRotated, AnswerRejected, TypeOK, RequestTypeOK
  <2>4. ~Writing(r)'
    <3>1. CASE ReadSession(r)
      <4>1. rot'[r].pc = "readUser" \/ rot'[r].outcome = "invalid"
        BY <1>0, <2>2, <3>1 DEF ReadSession, TypeOK, RequestTypeOK, RotReq
      <4>2. QED
        BY <4>1 DEF Writing
    <3>2. CASE ~ReadSession(r)
      <4>1. rot'[r].pc # "commit"
        <5>1. BeginRotate(r) => rot'[r].pc = "readSession"
          BY <1>0 DEF BeginRotate, IdleRot, TypeOK, RequestTypeOK
        <5>2. ReadUser(r) => rot'[r].pc \in {"revoke", "swap"}
          BY <1>0, <2>2 DEF ReadUser, TypeOK, RequestTypeOK, RotReq
        <5>3. UndoMemory(r) \/ AnswerRotated(r) \/ AnswerRejected(r)
                => rot'[r].pc = "idle"
          BY <1>0 DEF UndoMemory, AnswerRotated, AnswerRejected, IdleRot, TypeOK,
             RequestTypeOK
        <5>4. QED
          BY <1>2, <3>2, <5>1, <5>2, <5>3
      <4>2. QED
        BY <4>1 DEF Writing
    <3>3. QED
      BY <3>1, <3>2
  <2>5. QED
    BY <1>0, <2>1, <2>3, <2>4, LocksFramed
<1>3. ASSUME NEW r \in Refreshers, RevokeInRotation(r) PROVE LockInv'
  <2> DEFINE s == rot[r].sid
             y == Revoked(row[s], IF rot[r].outcome = "reuse" THEN "TOKEN_REUSE"
                                  ELSE "GLOBAL_SIGNOUT", rot[r].at)
  <2>1. /\ s \in Sessions /\ rot[r] \in RotReq /\ rot[r].pc = "revoke"
        /\ Free(s) /\ UNCHANGED row
        /\ rowLock' = IF Alive(row[s])
                      THEN [rowLock EXCEPT ![s] = [by |-> r, row |-> y]]
                      ELSE rowLock
        /\ rot' = [rot EXCEPT ![r] = [rot[r] EXCEPT !.pc = "commit"]]
    BY <1>0, <1>3, BusyRot DEF RevokeInRotation, TypeOK, RequestTypeOK
  <2>2. rot[r].outcome # "rotated"
    BY <2>1 DEF RotationInv, TokenInv, RequestTokens
  <2>3. /\ rot'[r].pc = "commit" /\ rot'[r].sid = s
        /\ rot'[r].outcome = rot[r].outcome
        /\ \A x \in Refreshers : x # r => rot'[x] = rot[x]
    BY <1>0, <2>1 DEF TypeOK, RequestTypeOK, RotReq
  <2>4. Alive(row[s]) => y.hash = row[s].hash
    BY <1>0, <2>1 DEF Revoked, Alive, TypeOK, DbTypeOK, RowOrNone, Row
  <2> HIDE DEF y
  <2>5. \A x \in Sessions :
          \/ rowLock'[x] = rowLock[x]
          \/ /\ x = s /\ rowLock'[x].by = r /\ rowLock'[x].row = y
             /\ Alive(row[s])
    BY <1>0, <2>1 DEF TypeOK, DbTypeOK
  <2>6. \A x \in Refreshers : \/ rot'[x] = rot[x]
                              \/ rot[x].pc # "commit" /\ ~Writing(x)'
    BY <2>1, <2>2, <2>3 DEF Writing
  <2>7. QED
    BY <1>0, <2>1, <2>3, <2>4, <2>5, <2>6, LocksFramed
<1>4. ASSUME NEW r \in Refreshers, Swap(r) PROVE LockInv'
  BY <1>4, SwapLocks
<1>5. ASSUME NEW r \in Refreshers, CommitRotation(r) \/ AbortRotation(r)
      PROVE  LockInv'
  <2>1. rot[r] \in RotReq
    BY <1>0, BusyRot
  <2>2. /\ rowLock' = Released(r)
        /\ \A s \in Sessions : row'[s] = row[s] \/ Holds(r, s)
    BY <1>0, <1>5 DEF CommitRotation, AbortRotation, CommitRows, RollBackRows,
       TypeOK, DbTypeOK
  <2>3. /\ rot'[r].pc # "commit"
        /\ \A x \in Refreshers : x # r => rot'[x] = rot[x]
    BY <1>0, <1>5, <2>1 DEF CommitRotation, AbortRotation, IdleRot, TypeOK,
       RequestTypeOK, RotReq
  <2>4. QED
    BY <1>0, <2>2, <2>3, LocksReleased DEF Writing
<1>6. ASSUME NEW v \in Revokers, RevokeOne(v) \/ AfterRevoke(v) PROVE LockInv'
  <2>1. UNCHANGED <<rowLock, rot>>
    BY <1>6 DEF RevokeOne, AfterRevoke, dbVars
  <2>2. \A s \in Sessions : row'[s] = row[s] \/ Free(s)
    BY <1>0, <1>6 DEF RevokeOne, AfterRevoke, dbVars, TypeOK, DbTypeOK
  <2>3. QED
    BY <1>0, <2>1, <2>2, LocksFramed
<1>7. ASSUME NEW k \in Killers, RevokeAllExcept(k) PROVE LockInv'
  <2> DEFINE y(s) == Revoked(row[s], "GLOBAL_SIGNOUT", now)
  <2>1. UNCHANGED <<row, rot>>
    BY <1>7 DEF RevokeAllExcept
  <2>2. PICK S \in SUBSET {s \in Sessions : Alive(row[s]) /\ Free(s)} :
          rowLock' = [s \in Sessions |->
                        IF s \in S THEN [by |-> k, row |-> y(s)] ELSE rowLock[s]]
    BY <1>7 DEF RevokeAllExcept
  <2>3. \A s \in Sessions : Alive(row[s]) => y(s).hash = row[s].hash
    BY <1>0 DEF Revoked, Alive, TypeOK, DbTypeOK, RowOrNone, Row
  <2>4. k \notin Refreshers
    BY SessionsAssumption
  <2> HIDE DEF y
  <2>5. QED
    BY <1>0, <2>1, <2>2, <2>3, <2>4, LocksFramed
<1>8. ASSUME NEW k \in Killers, ConfirmTokenVersion(k) PROVE LockInv'
  <2> DEFINE s == kill[k].keep
             y == [row[s] EXCEPT !.tv = kill[k].tv]
  <2>1. UNCHANGED <<row, rot>> /\ s \in Sessions /\ Free(s)
    BY <1>0, <1>8, BusyKill DEF ConfirmTokenVersion
  <2>2. \/ rowLock' = rowLock
        \/ /\ Alive(row[s])
           /\ rowLock' = [rowLock EXCEPT ![s] = [by |-> k, row |-> y]]
    BY <1>8 DEF ConfirmTokenVersion
  <2>3. Alive(row[s]) => y.hash = row[s].hash
    BY <1>0, <2>1 DEF Alive, TypeOK, DbTypeOK, RowOrNone, Row
  <2>4. k \notin Refreshers
    BY SessionsAssumption
  <2> HIDE DEF y
  <2>5. \A x \in Sessions :
          \/ rowLock'[x] = rowLock[x]
          \/ /\ x = s /\ rowLock'[x].by = k /\ rowLock'[x].row = y
             /\ Alive(row[s])
    BY <1>0, <2>1, <2>2 DEF TypeOK, DbTypeOK
  <2>6. QED
    BY <1>0, <2>1, <2>3, <2>4, <2>5, LocksFramed
<1>9. ASSUME NEW k \in Killers, CommitKill(k) \/ AbortKill(k) PROVE LockInv'
  <2>1. /\ rowLock' = Released(k) /\ UNCHANGED rot
        /\ \A s \in Sessions : row'[s] = row[s] \/ Holds(k, s)
    BY <1>0, <1>9 DEF CommitKill, AbortKill, CommitRows, RollBackRows, TypeOK,
       DbTypeOK
  <2>2. k \notin Refreshers
    BY SessionsAssumption
  <2>3. QED
    BY <1>0, <2>1, <2>2, LocksReleased
<1>10. ASSUME NEW k \in Killers,
              \/ BumpInTransaction(k) \/ BumpTokenVersion(k)
              \/ AfterKill(k) \/ AfterBump(k)
       PROVE  UNCHANGED <<row, rowLock, rot>>
  BY <1>10 DEF BumpInTransaction, BumpTokenVersion, AfterKill, AfterBump, dbVars
<1>11. ASSUME NEW g \in Guards, BeginGuard(g) \/ GuardStep(g)
       PROVE  UNCHANGED <<row, rowLock, rot>>
  BY <1>11 DEF BeginGuard, GuardStep, GuardReadUser, GuardFillUser,
     GuardDevice, GuardReadDevice, GuardFillDevice, EndGuard, dbVars
<1>12. Tick \/ UNCHANGED vars => UNCHANGED <<row, rowLock, rot>>
  BY DEF Tick, vars, dbVars, requestVars
<1>13. UNCHANGED <<row, rowLock, rot>> => LockInv'
  BY <1>0, LocksFramed
<1>14. CASE DeleteStaleUserSessions
  <2>1. /\ UNCHANGED <<rowLock, rot>>
        /\ \A s \in Sessions : row'[s] = row[s] \/ Free(s)
    BY <1>14 DEF DeleteStaleUserSessions, requestVars
  <2>2. QED
    BY <1>0, <2>1, LocksFramed
<1>15. CASE Restart
  <2>1. /\ \A s \in Sessions : rowLock'[s] = None
        /\ \A r \in Refreshers : rot'[r].pc = "idle"
    BY <1>15 DEF Restart, IdleRot
  <2>2. QED
    BY <2>1 DEF LockInv, WriterHolds, LockKeepsToken, Writing
<1>16. QED
  BY <1>1, <1>2, <1>3, <1>4, <1>5, <1>6, <1>7, <1>8, <1>9, <1>10, <1>11, <1>12,
     <1>13, <1>14, <1>15 DEF Next, RotateStep, KillStep

-----------------------------------------------------------------------------
(* The steps that say nothing new about the tokens of a session: rows keep *)
(* their token or die, the memory forgets, requests end or begin.          *)

RowKept(s) == Alive(row'[s]) => Alive(row[s]) /\ row'[s].hash = row[s].hash
MemoryKept(s) == lastRotations'[s] \in {lastRotations[s], None}
RequestKept(r) ==
  \/ rot'[r] = rot[r]
  \/ rot'[r].pc \notin {"readUser", "swap", "undo"} /\ rot'[r].outcome # "rotated"
  \/ rot'[r] = [rot[r] EXCEPT !.pc = "undo"] /\ Writing(r)

Calm ==
  /\ UNCHANGED <<minted, last>>
  /\ \A s \in Sessions : RowKept(s) /\ MemoryKept(s)
  /\ \A r \in Refreshers : RequestKept(r)

\* A request that carries on with what it had.
LEMMA CalmRequests ==
  ASSUME TypeOK, TokenInv, Calm, NEW r \in Refreshers
  PROVE  /\ Pending(r)' => Pending(r)
         /\ Writing(r)' => Writing(r)
         /\ Seeing(r)' => Seeing(r)
         /\ rot'[r].pc = "swap" => rot[r].pc = "swap"
         /\ rot'[r].outcome = "rotated" => rot'[r].pc \in {"commit", "undo", "answer"}
         /\ rot'[r].pc = "undo" => rot'[r].outcome = "rotated"
         /\ Seeing(r)' => /\ rot[r].sid \in Sessions /\ rot'[r].sid = rot[r].sid
                          /\ rot'[r].seen = rot[r].seen
                          /\ rot'[r].token = rot[r].token
                          /\ rot'[r].at = rot[r].at
                          /\ rot'[r].viaGrace = rot[r].viaGrace
                          /\ rot'[r].next = rot[r].next
                          /\ rot'[r].prior = rot[r].prior
<1> DEFINE failed == [rot[r] EXCEPT !.pc = "undo"]
<1>1. rot[r] \in RotReq /\ (Seeing(r) => rot[r].sid \in Sessions)
  BY BusyRot, TokensNatural
<1>2. CASE rot'[r] = rot[r]
  BY <1>1, <1>2 DEF Writing, Pending, Seeing, TokenInv, RequestTokens
<1>3. CASE rot'[r].pc \notin {"readUser", "swap", "undo"} /\ rot'[r].outcome # "rotated"
  BY <1>3 DEF Writing, Pending, Seeing
<1>4. CASE rot'[r] = failed /\ Writing(r)
  <2>1. /\ failed.pc = "undo" /\ failed.outcome = rot[r].outcome
        /\ failed.sid = rot[r].sid /\ failed.seen = rot[r].seen
        /\ failed.token = rot[r].token /\ failed.at = rot[r].at
        /\ failed.viaGrace = rot[r].viaGrace /\ failed.next = rot[r].next
        /\ failed.prior = rot[r].prior
    BY <1>1 DEF RotReq
  <2> HIDE DEF failed
  <2>2. QED
    BY <1>1, <1>4, <2>1 DEF Writing, Pending, Seeing
<1>5. QED
  BY <1>2, <1>3, <1>4 DEF Calm, RequestKept

LEMMA CalmSessions ==
  ASSUME TypeOK, TokenInv, Calm, NEW s \in Sessions
  PROVE  SessionTokens(s)'
<1>1. SessionTokens(s) /\ RowKept(s) /\ MemoryKept(s) /\ UNCHANGED <<minted, last>>
  BY DEF TokenInv, Calm
<1>2. MintedAt(s)'
  BY <1>1 DEF SessionTokens, MintedAt, RowKept, MemoryKept
<1>3. MemoryRecalls(s)'
  BY <1>1 DEF SessionTokens, MemoryRecalls, RowKept, MemoryKept, Recalls, OfLast
<1>4. LastLawful(s)'
  BY <1>1 DEF SessionTokens, LastLawful, RowKept
<1>5. QED
  BY <1>2, <1>3, <1>4 DEF SessionTokens

LEMMA CalmTokens ==
  ASSUME TypeOK, TokenInv, Calm
  PROVE  TokenInv'
<1>1. ASSUME NEW r \in Refreshers PROVE RequestTokens(r)'
  <2> DEFINE s == rot[r].sid
  <2>1. RequestTokens(r) /\ UNCHANGED <<minted, last>>
    BY DEF TokenInv, Calm
  <2>2. \A x \in Refreshers :
          /\ Pending(x)' => Pending(x)
          /\ Writing(x)' => Writing(x)
          /\ Seeing(x)' => Seeing(x)
          /\ rot'[x].pc = "swap" => rot[x].pc = "swap"
          /\ Seeing(x)' => /\ rot[x].sid \in Sessions /\ rot'[x].sid = rot[x].sid
                           /\ rot'[x].seen = rot[x].seen
                           /\ rot'[x].token = rot[x].token
                           /\ rot'[x].at = rot[x].at
                           /\ rot'[x].viaGrace = rot[x].viaGrace
                           /\ rot'[x].next = rot[x].next
                           /\ rot'[x].prior = rot[x].prior
          /\ Pending(x)' => Seeing(x)'
          /\ Writing(x)' => Pending(x)'
          /\ rot'[x].pc = "swap" => Seeing(x)'
    BY CalmRequests DEF Pending, Writing, Seeing
  <2>3. s \in Sessions => RowKept(s) /\ MemoryKept(s)
    BY DEF Calm
  <2>4. MintedFor(r)'
    BY <2>1, <2>2 DEF RequestTokens, MintedFor
  <2>5. NextIsFresh(r)'
    BY <2>1, <2>2, <2>3 DEF RequestTokens, NextIsFresh, RowKept
  <2>6. GrantStands(r)'
    BY <2>1, <2>2, <2>3 DEF RequestTokens, GrantStands, RowKept, MayRotate
  <2>7. PriorRecalls(r)'
    BY <2>1, <2>2, <2>3 DEF RequestTokens, PriorRecalls, RowKept, Recalls, OfLast
  <2>8. OwnEntry(r)'
    BY <2>1, <2>2, <2>3 DEF RequestTokens, OwnEntry, MemoryKept
  <2>9. EntriesOwned(r)'
    BY <2>1, <2>2, <2>3 DEF RequestTokens, EntriesOwned, MemoryKept,
       OwnIfInstalled
  <2>10. QED
    BY <2>4, <2>5, <2>6, <2>7, <2>8, <2>9, CalmRequests DEF RequestTokens
<1>2. QED
  BY <1>1, CalmSessions DEF TokenInv

\* The transaction of t commits, and t is not a rotation that wrote.
LEMMA CommitIsCalm ==
  ASSUME SessionInv, RotationInv, NEW t, CommitRows(t),
         ~(t \in Refreshers /\ Writing(t)), NEW s \in Sessions
  PROVE  RowKept(s)
<1>1. CASE ~Holds(t, s)
  BY <1>1 DEF CommitRows, RowKept
<1>2. CASE Holds(t, s)
  <2>1. rowLock[s] # None /\ rowLock[s].by = t /\ row'[s] = rowLock[s].row
    BY <1>2 DEF Holds, CommitRows
  <2>2. Alive(row[s])
    BY <2>1 DEF SessionInv, LockedRows
  <2>3. Alive(rowLock[s].row) => rowLock[s].row.hash = row[s].hash
    BY <2>1 DEF RotationInv, LockInv, LockKeepsToken
  <2>4. QED
    BY <2>1, <2>2, <2>3 DEF RowKept
<1>3. QED
  BY <1>1, <1>2

\* The steps that are not calm.
Telling ==
  \/ \E l \in Logins : InsertSession(l)
  \/ \E r \in Refreshers :
       \/ ReadSession(r) \/ ReadUser(r) \/ Swap(r) \/ UndoMemory(r)
       \/ CommitRotation(r) /\ Writing(r)

LEMMA CalmSteps ==
  ASSUME SessionInv, RotationInv, [Next]_vars, ~Telling
  PROVE  Calm
<1> DEFINE Same == UNCHANGED <<minted, last, row, rot>>
<1>0. /\ TypeOK /\ TokenInv
      /\ rot \in [Refreshers -> RotReq] /\ row \in [Sessions -> RowOrNone]
  BY DEF SessionInv, RotationInv, TypeOK, RequestTypeOK, DbTypeOK
<1>1. Same /\ UNCHANGED memoryVars => Calm
  BY DEF Calm, RowKept, MemoryKept, RequestKept, memoryVars
<1>2. ASSUME NEW S, Same, Forget(S) PROVE Calm
  BY <1>2 DEF Calm, RowKept, MemoryKept, RequestKept, Forget
<1>3. ASSUME NEW l \in Logins, BeginLogin(l) \/ AnswerLogin(l) PROVE Calm
  BY <1>1, <1>3 DEF BeginLogin, AnswerLogin, dbVars, historyVars
<1>4. ASSUME NEW r \in Refreshers, BeginRotate(r) PROVE Calm
  <2>1. /\ UNCHANGED <<minted, last, row, lastRotations>>
        /\ \A x \in Refreshers : x # r => rot'[x] = rot[x]
        /\ rot'[r].pc = "readSession" /\ rot'[r].outcome = "none"
    BY <1>0, <1>4 DEF BeginRotate, IdleRot, dbVars, memoryVars, historyVars
  <2>2. QED
    BY <2>1 DEF Calm, RowKept, MemoryKept, RequestKept
<1>5. ASSUME NEW r \in Refreshers, RevokeInRotation(r) PROVE Calm
  <2> DEFINE q == [rot[r] EXCEPT !.pc = "commit"]
  <2>1. rot[r] \in RotReq /\ rot[r].pc = "revoke" /\ rot[r].outcome # "rotated"
    BY <1>0, <1>5, BusyRot DEF RevokeInRotation, TokenInv, RequestTokens
  <2>2. q.pc = "commit" /\ q.outcome # "rotated"
    BY <2>1 DEF RotReq
  <2>3. /\ UNCHANGED <<minted, last, row, lastRotations>>
        /\ \A x \in Refreshers : x # r => rot'[x] = rot[x]
        /\ rot'[r] = q
    BY <1>0, <1>5 DEF RevokeInRotation, memoryVars, historyVars
  <2>4. QED
    BY <2>2, <2>3 DEF Calm, RowKept, MemoryKept, RequestKept
<1>6. ASSUME NEW r \in Refreshers, CommitRotation(r), ~Writing(r) PROVE Calm
  <2>1. /\ rot[r] \in RotReq /\ rot[r].pc = "commit" /\ rot[r].outcome # "rotated"
        /\ CommitRows(r)
    BY <1>0, <1>6, BusyRot DEF CommitRotation, Writing
  <2>2. /\ UNCHANGED <<minted, last, lastRotations>>
        /\ \A x \in Refreshers : x # r => rot'[x] = rot[x]
    BY <1>0, <1>6, <2>1 DEF CommitRotation, memoryVars
  <2>3. rot'[r].pc \notin {"readUser", "swap", "undo"} /\ rot'[r].outcome # "rotated"
    BY <1>0, <1>6, <2>1 DEF CommitRotation, RotReq, IdleRot
  <2>4. \A s \in Sessions : RowKept(s)
    BY <1>6, <2>1, CommitIsCalm
  <2>5. QED
    BY <2>2, <2>3, <2>4 DEF Calm, MemoryKept, RequestKept
<1>7. ASSUME NEW r \in Refreshers, AbortRotation(r) PROVE Calm
  <2>1. /\ UNCHANGED <<minted, last, row, lastRotations>>
        /\ \A x \in Refreshers : x # r => rot'[x] = rot[x]
    BY <1>0, <1>7 DEF AbortRotation, RollBackRows, memoryVars
  <2>2. CASE rot[r].outcome = "rotated"
    <3>1. Writing(r)
      BY <1>0, <1>7, <2>2 DEF AbortRotation, TokenInv, RequestTokens, Writing
    <3>2. rot'[r] = [rot[r] EXCEPT !.pc = "undo"]
      BY <1>0, <1>7, <2>2 DEF AbortRotation
    <3>3. QED
      BY <2>1, <3>1, <3>2 DEF Calm, RowKept, MemoryKept, RequestKept
  <2>3. CASE rot[r].outcome # "rotated"
    <3>1. rot'[r].pc = "idle" /\ rot'[r].outcome = "none"
      BY <1>0, <1>7, <2>3 DEF AbortRotation, IdleRot
    <3>2. QED
      BY <2>1, <3>1 DEF Calm, RowKept, MemoryKept, RequestKept
  <2>4. QED
    BY <2>2, <2>3
<1>8. ASSUME NEW r \in Refreshers, AnswerRotated(r) \/ AnswerRejected(r)
      PROVE  Calm
  <2>1. /\ UNCHANGED <<minted, last, row>>
        /\ \A x \in Refreshers : x # r => rot'[x] = rot[x]
        /\ rot'[r].pc = "idle" /\ rot'[r].outcome = "none"
    BY <1>0, <1>8 DEF AnswerRotated, AnswerRejected, IdleRot, dbVars, historyVars
  <2>2. \A s \in Sessions : MemoryKept(s)
    BY <1>8 DEF AnswerRotated, AnswerRejected, Forget, memoryVars, MemoryKept
  <2>3. QED
    BY <2>1, <2>2 DEF Calm, RowKept, RequestKept
<1>9. ASSUME NEW v \in Revokers, RevokeOne(v) PROVE Calm
  <2>1. UNCHANGED <<minted, last, rot, lastRotations>>
    BY <1>9 DEF RevokeOne, memoryVars
  <2>2. PICK x \in Sessions :
          \/ UNCHANGED row
          \/ /\ Alive(row[x])
             /\ row' = [row EXCEPT ![x] = Revoked(row[x], "BY_USER", now)]
    BY <1>9 DEF RevokeOne
  <2>3. Alive(row[x]) => Revoked(row[x], "BY_USER", now).hash = row[x].hash
    BY <1>0 DEF Alive, Revoked, RowOrNone, Row
  <2>4. \A s \in Sessions : RowKept(s)
    BY <1>0, <2>2, <2>3 DEF RowKept
  <2>5. QED
    BY <2>1, <2>4 DEF Calm, MemoryKept, RequestKept
<1>10. ASSUME NEW v \in Revokers, AfterRevoke(v) PROVE Calm
  BY <1>2, <1>10 DEF AfterRevoke, dbVars
<1>11. ASSUME NEW k \in Killers, RevokeAllExcept(k) PROVE Calm
  BY <1>2, <1>11 DEF RevokeAllExcept, historyVars
<1>12. ASSUME NEW k \in Killers, CommitKill(k) PROVE Calm
  <2>1. UNCHANGED <<minted, last, rot, lastRotations>> /\ CommitRows(k)
    BY <1>12 DEF CommitKill, memoryVars
  <2>2. \A s \in Sessions : RowKept(s)
    BY <2>1, CommitIsCalm, SessionsAssumption
  <2>3. QED
    BY <2>1, <2>2 DEF Calm, MemoryKept, RequestKept
<1>13. ASSUME NEW k \in Killers,
              \/ BumpInTransaction(k) \/ BumpTokenVersion(k)
              \/ ConfirmTokenVersion(k) \/ AbortKill(k)
              \/ AfterKill(k) \/ AfterBump(k)
       PROVE  Calm
  BY <1>1, <1>13 DEF BumpInTransaction, BumpTokenVersion, ConfirmTokenVersion,
     AbortKill, RollBackRows, AfterKill, AfterBump, dbVars, historyVars
<1>14. ASSUME NEW g \in Guards, BeginGuard(g) \/ GuardStep(g) PROVE Calm
  BY <1>1, <1>14 DEF BeginGuard, GuardStep, GuardReadUser, GuardFillUser,
     GuardDevice, GuardReadDevice, GuardFillDevice, EndGuard, dbVars, historyVars
<1>15. CASE DeleteStaleUserSessions
  <2>1. /\ UNCHANGED <<minted, last, rot, lastRotations>>
        /\ \A s \in Sessions : row'[s] \in {row[s], None}
    BY <1>15 DEF DeleteStaleUserSessions, memoryVars, historyVars, requestVars
  <2>2. QED
    BY <2>1 DEF Calm, RowKept, MemoryKept, RequestKept, Alive
<1>16. CASE Restart
  <2>1. /\ UNCHANGED <<minted, last, row>>
        /\ \A s \in Sessions : lastRotations'[s] = None
        /\ \A r \in Refreshers : rot'[r].pc = "idle" /\ rot'[r].outcome = "none"
    BY <1>16 DEF Restart, EmptyRotations, IdleRot, historyVars
  <2>2. QED
    BY <2>1 DEF Calm, RowKept, MemoryKept, RequestKept
<1>17. Tick \/ UNCHANGED vars => Calm
  BY <1>1 DEF Tick, vars, dbVars, historyVars, requestVars
<1>18. QED
  BY <1>3, <1>4, <1>5, <1>6, <1>7, <1>8, <1>9, <1>10, <1>11, <1>12, <1>13,
     <1>14, <1>15, <1>16, <1>17 DEF Next, Telling, RotateStep, KillStep

-----------------------------------------------------------------------------
(* The steps that are not calm, one by one.                                *)

LEMMA InsertTokens ==
  ASSUME SessionInv, RotationInv, NEW l \in Logins, InsertSession(l)
  PROVE  TokenInv'
<1>0. TypeOK /\ TokenInv /\ UnusedSessions
  BY DEF SessionInv, RotationInv
<1>1. PICK s \in Sessions :
        /\ minted[s] = 0 /\ minted' = [minted EXCEPT ![s] = 1]
        /\ row' = [row EXCEPT ![s] = NewRow(login[l].user, login[l].tv)]
  BY DEF InsertSession
<1>2. UNCHANGED <<last, rot, lastRotations>>
  BY DEF InsertSession, historyVars, memoryVars
<1>3. /\ minted'[s] = 1 /\ row'[s].hash = 1
      /\ \A x \in Sessions : x # s => minted'[x] = minted[x] /\ row'[x] = row[x]
  BY <1>0, <1>1 DEF NewRow, TypeOK, DbTypeOK
<1>4. ASSUME NEW x \in Sessions PROVE SessionTokens(x)'
  <2>1. SessionTokens(x)
    BY <1>0 DEF TokenInv
  <2>2. CASE x = s
    BY <1>1, <1>2, <1>3, <2>1, <2>2 DEF SessionTokens, MintedAt, MemoryRecalls,
       LastLawful
  <2>3. CASE x # s
    BY <1>2, <1>3, <2>1, <2>3 DEF SessionTokens, MintedAt, MemoryRecalls,
       LastLawful, Recalls, OfLast
  <2>4. QED
    BY <2>2, <2>3
<1>5. ASSUME NEW r \in Refreshers PROVE RequestTokens(r)'
  <2>1. RequestTokens(r)
    BY <1>0 DEF TokenInv
  <2>2. rot[r].pc # "idle" => rot[r].sid \in Sessions /\ rot[r].sid # s
    BY <1>0, <1>1, BusyRot DEF UnusedSessions
  <2>3. rot[r].pc # "idle" => /\ minted'[rot[r].sid] = minted[rot[r].sid]
                              /\ row'[rot[r].sid] = row[rot[r].sid]
    BY <1>3, <2>2
  <2>4. rot'[r] = rot[r] /\ (rot[r].pc = "idle" => ~Pending(r) /\ ~Seeing(r))
    BY <1>2 DEF Pending, Seeing
  <2>5. MintedFor(r)' /\ GrantStands(r)' /\ OwnEntry(r)'
    BY <1>2, <2>1, <2>3, <2>4 DEF RequestTokens, MintedFor, GrantStands,
       OwnEntry, MayRotate, Pending, Seeing, Writing
  <2>6. NextIsFresh(r)' /\ EntriesOwned(r)'
    BY <1>2, <2>1, <2>3, <2>4 DEF RequestTokens, NextIsFresh, EntriesOwned,
       OwnIfInstalled, Pending, Seeing, Writing
  <2>7. PriorRecalls(r)'
    BY <1>2, <2>1, <2>3, <2>4 DEF RequestTokens, PriorRecalls, Recalls, OfLast,
       Pending
  <2>8. QED
    BY <2>1, <2>4, <2>5, <2>6, <2>7 DEF RequestTokens
<1>6. QED
  BY <1>4, <1>5 DEF TokenInv

\* Request r reads, and no table, memory or history changes.
LEMMA ReadingTokens ==
  ASSUME TypeOK, TokenInv, NEW r \in Refreshers,
         UNCHANGED <<minted, last, row, lastRotations>>,
         \A x \in Refreshers : x # r => rot'[x] = rot[x],
         ~Pending(r)', rot'[r].outcome # "rotated", rot'[r].pc # "undo", ~Writing(r),
         MintedFor(r)', GrantStands(r)',
         \A x \in Refreshers :
           Writing(x) /\ Seeing(r)' /\ rot'[r].sid = rot[x].sid
             => rot'[r].seen.hash # rot[x].next
  PROVE  TokenInv'
<1>1. ASSUME NEW s \in Sessions PROVE SessionTokens(s)'
  BY DEF TokenInv, SessionTokens, MintedAt, MemoryRecalls, LastLawful,
     Recalls, OfLast
<1>2. ASSUME NEW x \in Refreshers PROVE RequestTokens(x)'
  <2>1. CASE x = r
    BY <2>1 DEF RequestTokens, NextIsFresh, PriorRecalls, OwnEntry,
       EntriesOwned, Writing, Pending
  <2>2. CASE x # r
    <3>1. rot'[x] = rot[x] /\ RequestTokens(x)
      BY <2>2 DEF TokenInv
    <3>2. \A y \in Refreshers :
            /\ Pending(y)' => y # r /\ Pending(y) /\ rot'[y] = rot[y]
            /\ y # r => (Seeing(y)' => Seeing(y)) /\ rot'[y] = rot[y]
      BY DEF Pending, Seeing
    <3>3. MintedFor(x)' /\ GrantStands(x)' /\ OwnEntry(x)' /\ PriorRecalls(x)'
      BY <3>1 DEF RequestTokens, MintedFor, GrantStands, OwnEntry, MayRotate,
         PriorRecalls, Recalls, OfLast, Pending, Seeing, Writing
    <3>4. EntriesOwned(x)'
      BY <3>1, <3>2 DEF RequestTokens, EntriesOwned, OwnIfInstalled
    <3>5. NextIsFresh(x)'
      <4>1. (Writing(x)' => Writing(x)) /\ (Pending(x)' => Pending(x))
        BY <3>1 DEF Writing, Pending
      <4>2. ASSUME Writing(x)', NEW y \in Refreshers, rot'[y].sid = rot'[x].sid,
                   Seeing(y)'
            PROVE  rot'[y].seen.hash # rot'[x].next
        <5>1. CASE y = r
          BY <3>1, <4>1, <4>2, <5>1
        <5>2. CASE y # r
          BY <3>1, <3>2, <4>1, <4>2, <5>2 DEF RequestTokens, NextIsFresh
        <5>3. QED
          BY <5>1, <5>2
      <4>3. QED
        BY <3>1, <3>2, <4>1, <4>2 DEF RequestTokens, NextIsFresh
    <3>6. QED
      BY <3>1, <3>3, <3>4, <3>5 DEF RequestTokens
  <2>3. QED
    BY <2>1, <2>2
<1>3. QED
  BY <1>1, <1>2 DEF TokenInv

LEMMA ReadSessionTokens ==
  ASSUME SessionInv, RotationInv, NEW r \in Refreshers, ReadSession(r)
  PROVE  TokenInv'
<1> DEFINE s == rot[r].sid
           found == [rot[r] EXCEPT !.pc = "readUser", !.seen = row[s]]
           gone == [rot[r] EXCEPT !.pc = "commit", !.outcome = "invalid"]
<1>0. /\ TypeOK /\ TokenInv /\ s \in Sessions /\ rot[r] \in RotReq
      /\ rot[r].pc = "readSession" /\ ~Writing(r)
      /\ rot[r].outcome # "rotated"
  BY BusyRot DEF SessionInv, RotationInv, ReadSession, TokenInv, RequestTokens,
     Writing
<1>1. /\ UNCHANGED <<minted, last, row, lastRotations>>
      /\ \A x \in Refreshers : x # r => rot'[x] = rot[x]
      /\ \/ Alive(row[s]) /\ rot'[r] = found
         \/ rot'[r] = gone
  BY <1>0 DEF ReadSession, TypeOK, RequestTypeOK, dbVars, memoryVars, historyVars
<1>2. CASE rot'[r] = gone
  <2>1. gone.pc = "commit" /\ gone.outcome = "invalid"
    BY <1>0 DEF RotReq
  <2>2. Calm
    BY <1>1, <1>2, <2>1 DEF Calm, RowKept, MemoryKept, RequestKept
  <2>3. QED
    BY <1>0, <2>2, CalmTokens
<1>3. CASE Alive(row[s]) /\ rot'[r] = found
  <2>1. /\ found.pc = "readUser" /\ found.outcome = rot[r].outcome
        /\ found.sid = s /\ found.seen = row[s]
    BY <1>0 DEF RotReq
  <2> HIDE DEF found
  <2>2. row[s].hash <= minted[s]
    BY <1>0, <1>3 DEF TokenInv, SessionTokens, MintedAt
  <2>3. /\ ~Pending(r)' /\ rot'[r].outcome # "rotated" /\ rot'[r].pc # "undo"
        /\ MintedFor(r)' /\ GrantStands(r)'
    BY <1>0, <1>1, <1>3, <2>1, <2>2 DEF Pending, Writing, MintedFor, GrantStands
  <2>4. ASSUME NEW x \in Refreshers, Writing(x), rot'[r].sid = rot[x].sid
        PROVE  rot'[r].seen.hash # rot[x].next
    <3>1. row[s].hash < rot[x].next
      BY <1>0, <1>3, <2>1, <2>4 DEF TokenInv, RequestTokens, NextIsFresh
    <3>2. row[s].hash \in Nat /\ rot[x].next \in Nat
      BY <1>0, <1>3, TokensNatural DEF Alive
    <3>3. QED
      BY <1>3, <2>1, <3>1, <3>2
  <2>5. QED
    BY <1>0, <1>1, <2>3, <2>4, ReadingTokens
<1>4. QED
  BY <1>1, <1>2, <1>3

\* A retry is tolerated only on the word of an entry that tells the truth
\* about the last committed rotation, or else the row is another by now.
LEMMA ReadUserTokens ==
  ASSUME SessionInv, RotationInv, NEW r \in Refreshers, ReadUser(r)
  PROVE  TokenInv'
<1> DEFINE s == rot[r].sid
           q == rot[r]
           viaGrace == q.seen.hash # q.token
           reuse == [q EXCEPT !.pc = "revoke", !.outcome = "reuse"]
           stale == [q EXCEPT !.pc = "revoke", !.outcome = "invalid"]
           on == [q EXCEPT !.pc = "swap", !.viaGrace = viaGrace]
<1>0. /\ TypeOK /\ TokenInv /\ s \in Sessions /\ rot[r] \in RotReq
      /\ rot[r].pc = "readUser" /\ ~Writing(r) /\ Seeing(r)
      /\ rot[r].outcome # "rotated"
  BY BusyRot DEF SessionInv, RotationInv, ReadUser, TokenInv, RequestTokens,
     Writing, Seeing
<1>1. /\ UNCHANGED <<minted, last, row, lastRotations>>
      /\ \A x \in Refreshers : x # r => rot'[x] = rot[x]
      /\ \/ rot'[r] \in {reuse, stale}
         \/ (viaGrace => IsGraceRetry(s, q.token, q.at)) /\ rot'[r] = on
  BY <1>0 DEF ReadUser, TypeOK, RequestTypeOK, dbVars, memoryVars, historyVars
<1>2. CASE rot'[r] \in {reuse, stale}
  <2>1. rot'[r].pc = "revoke" /\ rot'[r].outcome # "rotated"
    BY <1>0, <1>2 DEF RotReq
  <2>2. Calm
    BY <1>1, <2>1 DEF Calm, RowKept, MemoryKept, RequestKept
  <2>3. QED
    BY <1>0, <2>2, CalmTokens
<1>3. CASE (viaGrace => IsGraceRetry(s, q.token, q.at)) /\ rot'[r] = on
  <2>1. /\ on.pc = "swap" /\ on.outcome = q.outcome /\ on.sid = s
        /\ on.seen = q.seen /\ on.token = q.token /\ on.at = q.at
        /\ on.viaGrace = viaGrace
    BY <1>0 DEF RotReq
  <2> HIDE DEF on
  <2>2. ~Pending(r)' /\ rot'[r].outcome # "rotated" /\ rot'[r].pc # "undo"
    BY <1>0, <1>3, <2>1 DEF Pending
  <2>3. MintedFor(r)'
    BY <1>0, <1>1, <1>3, <2>1, <2>2 DEF TokenInv, RequestTokens, MintedFor,
       Seeing
  <2>4. ASSUME Alive(row[s]), row[s].hash = q.seen.hash
        PROVE  MayRotate(s, q.token, q.at)
    <3>1. CASE ~viaGrace
      BY <2>4, <3>1 DEF MayRotate
    <3>2. CASE viaGrace
      <4> DEFINE m == lastRotations[s]
      <4>1. /\ m # None /\ ~m.graceSpent /\ m.previousHash = q.token
            /\ m.rotatedAt <= q.at /\ q.at - m.rotatedAt <= GraceWindow
        BY <1>3, <3>2 DEF IsGraceRetry
      <4>2. Recalls(s, m)
        BY <1>0, <2>4, <4>1 DEF TokenInv, SessionTokens, MemoryRecalls
      <4>3. OfLast(s, m)
        BY <2>4, <3>2, <4>1, <4>2 DEF Recalls
      <4>4. QED
        BY <4>1, <4>3 DEF OfLast, MayRotate
    <3>3. QED
      BY <3>1, <3>2
  <2>5. GrantStands(r)'
    BY <1>1, <1>3, <2>1, <2>4 DEF GrantStands, MayRotate
  <2>6. ASSUME NEW x \in Refreshers, Writing(x), rot'[r].sid = rot[x].sid
        PROVE  rot'[r].seen.hash # rot[x].next
    BY <1>0, <1>3, <2>1, <2>6 DEF TokenInv, RequestTokens, NextIsFresh
  <2>7. QED
    BY <1>0, <1>1, <2>2, <2>3, <2>5, <2>6, ReadingTokens
<1>4. QED
  BY <1>1, <1>2, <1>3

\* The compare-and-swap installs a token that nothing else mentions yet, and
\* remembers an entry of the token that is still the committed one.
LEMMA SwapTokens ==
  ASSUME SessionInv, RotationInv, NEW r \in Refreshers, Swap(r)
  PROVE  TokenInv'
<1> DEFINE q == rot[r]
           s == rot[r].sid
           n == minted[s] + 1
           entry == [previousHash |-> q.seen.hash, rotatedAt |-> q.at,
                     graceSpent |-> q.viaGrace, userId |-> q.seen.user,
                     installed |-> n]
           failed == [q EXCEPT !.pc = "commit", !.outcome = "conflict"]
           won == [q EXCEPT !.pc = "commit", !.outcome = "rotated",
                            !.next = n, !.prior = lastRotations[s]]
<1>0. /\ TypeOK /\ TokenInv /\ LockInv /\ s \in Sessions /\ q \in RotReq
      /\ q.pc = "swap" /\ Free(s) /\ ~Writing(r) /\ Seeing(r)
      /\ UNCHANGED <<row, last>>
  BY BusyRot DEF SessionInv, RotationInv, Swap, historyVars, Writing, Seeing
<1>1. CASE ~SwapMatches(q)
  <2>1. /\ UNCHANGED <<minted, lastRotations>>
        /\ \A x \in Refreshers : x # r => rot'[x] = rot[x]
        /\ rot'[r] = failed
    BY <1>0, <1>1 DEF Swap, memoryVars, TypeOK, RequestTypeOK
  <2>2. failed.pc = "commit" /\ failed.outcome = "conflict"
    BY <1>0 DEF RotReq
  <2>3. Calm
    BY <1>0, <2>1, <2>2 DEF Calm, RowKept, MemoryKept, RequestKept
  <2>4. QED
    BY <1>0, <2>3, CalmTokens
<1>2. CASE SwapMatches(q)
  <2>1. /\ minted' = [minted EXCEPT ![s] = n]
        /\ RememberRotation(s, entry)
        /\ rot' = [rot EXCEPT ![r] = won]
        /\ Alive(row[s]) /\ row[s].hash = q.seen.hash
    BY <1>0, <1>2 DEF Swap, TypeOK, RequestTypeOK, SwapMatches
  <2>2. /\ won.pc = "commit" /\ won.outcome = "rotated" /\ won.next = n
        /\ won.prior = lastRotations[s] /\ won.sid = s /\ won.seen = q.seen
        /\ won.token = q.token /\ won.at = q.at /\ won.viaGrace = q.viaGrace
    BY <1>0 DEF RotReq
  <2>3. /\ entry.previousHash = q.seen.hash /\ entry.rotatedAt = q.at
        /\ entry.graceSpent = q.viaGrace /\ entry.installed = n
    OBVIOUS
  <2>4. /\ minted[s] \in Nat /\ n \in Nat /\ minted[s] < n
        /\ minted'[s] = n
        /\ \A x \in Sessions : x # s => minted'[x] = minted[x]
    BY <1>0, <2>1, TokensNatural DEF TypeOK, DbTypeOK
  <2> HIDE DEF entry, won, failed, n
  <2>5. /\ lastRotations'[s] = entry
        /\ \A x \in Sessions : x # s => MemoryKept(x)
    BY <1>0, <2>1 DEF RememberRotation, MemoryKept
  <2>6. /\ rot'[r] = won /\ Writing(r)' /\ Pending(r)' /\ Seeing(r)'
        /\ \A x \in Refreshers : x # r => rot'[x] = rot[x]
    BY <1>0, <2>1, <2>2 DEF TypeOK, RequestTypeOK, Writing, Pending, Seeing
  <2>7. SessionTokens(s) /\ RequestTokens(r)
    BY <1>0 DEF TokenInv
  <2>8. row[s].hash <= minted[s] /\ row[s].hash \in Nat
    BY <1>0, <2>1, <2>7, TokensNatural DEF SessionTokens, MintedAt, Alive
  \* What was minted, installed or read before is older than n.
  <2>9. /\ lastRotations[s] # None => lastRotations[s].installed \in Nat
                                       /\ lastRotations[s].installed < n
        /\ \A x \in Refreshers :
             /\ Seeing(x) /\ rot[x].sid = s => rot[x].seen.hash < n
                                               /\ rot[x].seen.hash \in Nat
             /\ Pending(x) /\ rot[x].sid = s =>
                  /\ rot[x].next < n /\ rot[x].next \in Nat
                  /\ rot[x].prior # None => /\ rot[x].prior.installed < n
                                            /\ rot[x].prior.installed \in Nat
    <3>1. /\ lastRotations[s] # None => lastRotations[s].installed \in Nat
          /\ lastRotations[s] # None => lastRotations[s].installed <= minted[s]
      BY <1>0, <2>7, TokensNatural DEF SessionTokens, MintedAt
    <3>2. ASSUME NEW x \in Refreshers, rot[x].sid = s
          PROVE  /\ Seeing(x) => rot[x].seen.hash <= minted[s]
                                 /\ rot[x].seen.hash \in Nat
                 /\ Pending(x) =>
                      /\ rot[x].next <= minted[s] /\ rot[x].next \in Nat
                      /\ rot[x].prior # None =>
                           /\ rot[x].prior.installed <= minted[s]
                           /\ rot[x].prior.installed \in Nat
      BY <1>0, <3>2, TokensNatural DEF TokenInv, RequestTokens, MintedFor
    <3>3. QED
      BY <2>4, <3>1, <3>2
  <2>10. ASSUME NEW x \in Sessions PROVE SessionTokens(x)'
    <3>1. SessionTokens(x)
      BY <1>0 DEF TokenInv
    <3>2. CASE x = s
      <4>1. MintedAt(x)'
        BY <1>0, <2>3, <2>4, <2>5, <2>8, <3>2 DEF MintedAt
      <4>2. MemoryRecalls(x)'
        BY <1>0, <2>1, <2>3, <2>5, <3>2 DEF MemoryRecalls, Recalls
      <4>3. QED
        BY <1>0, <3>1, <3>2, <4>1, <4>2 DEF SessionTokens, LastLawful
    <3>3. CASE x # s
      BY <1>0, <2>4, <2>5, <3>1, <3>3 DEF SessionTokens, MintedAt,
         MemoryRecalls, LastLawful, MemoryKept, Recalls, OfLast
    <3>4. QED
      BY <3>2, <3>3
  <2>11. RequestTokens(r)'
    <3>1. MintedFor(r)'
      BY <1>0, <2>2, <2>4, <2>6, <2>9 DEF MintedFor
    <3>2. NextIsFresh(r)'
      <4>1. row'[s].hash < n
        BY <1>0, <2>4, <2>8
      <4>2. ASSUME NEW x \in Refreshers, x # r, rot'[x].sid = s
            PROVE  /\ Pending(x)' => rot'[x].next # n
                   /\ Seeing(x)' => rot'[x].seen.hash # n
        <5>1. rot'[x] = rot[x] /\ (Pending(x)' => Pending(x))
              /\ (Seeing(x)' => Seeing(x))
          BY <2>6, <4>2 DEF Pending, Seeing
        <5>2. QED
          BY <2>4, <2>9, <4>2, <5>1
      <4>3. rot'[r].seen.hash # n
        BY <1>0, <2>2, <2>4, <2>6, <2>9
      <4>4. \A x \in Refreshers : rot'[x].sid = s =>
              /\ x # r /\ Pending(x)' => rot'[x].next # n
              /\ Seeing(x)' => rot'[x].seen.hash # n
        BY <4>2, <4>3
      <4>5. row'[s].hash # n
        BY <2>4, <2>8, <1>0
      <4>6. rot'[r].sid = s /\ rot'[r].next = n
        BY <2>2, <2>6
      <4>7. QED
        BY <4>1, <4>4, <4>5, <4>6 DEF NextIsFresh
    <3>3. GrantStands(r)'
      BY <1>0, <2>1, <2>2, <2>6, <2>7 DEF RequestTokens, GrantStands, MayRotate
    <3>4. PriorRecalls(r)'
      BY <1>0, <2>1, <2>2, <2>6, <2>7 DEF SessionTokens, MemoryRecalls,
         PriorRecalls, Recalls, OfLast
    <3>5. OwnEntry(r)'
      BY <2>2, <2>3, <2>5, <2>6 DEF OwnEntry
    <3>6. EntriesOwned(r)'
      <4>1. OwnIfInstalled(r, lastRotations[rot[r].sid])'
        BY <2>2, <2>3, <2>5, <2>6 DEF OwnIfInstalled
      <4>2. ASSUME NEW x \in Refreshers, Pending(x)', rot'[x].sid = s
            PROVE  OwnIfInstalled(r, rot[x].prior)'
        <5>1. CASE x = r
          BY <2>2, <2>4, <2>6, <2>9, <5>1 DEF OwnIfInstalled
        <5>2. CASE x # r
          <6>1. rot'[x] = rot[x] /\ Pending(x)
            BY <2>6, <4>2, <5>2 DEF Pending
          <6>2. QED
            BY <2>2, <2>4, <2>6, <2>9, <4>2, <6>1 DEF OwnIfInstalled
        <5>3. QED
          BY <5>1, <5>2
      <4>3. rot'[r].sid = s
        BY <2>2, <2>6
      <4>4. QED
        BY <4>1, <4>2, <4>3 DEF EntriesOwned
    <3>7. rot'[r].pc = "commit"
      BY <2>2, <2>6
    <3>8. QED
      BY <3>1, <3>2, <3>3, <3>4, <3>5, <3>6, <3>7 DEF RequestTokens
  <2>12. ASSUME NEW x \in Refreshers, x # r PROVE RequestTokens(x)'
    <3>1. RequestTokens(x) /\ rot'[x] = rot[x]
      BY <1>0, <2>6, <2>12 DEF TokenInv
    <3>2. /\ (Pending(x)' <=> Pending(x)) /\ (Seeing(x)' <=> Seeing(x))
          /\ (Writing(x)' <=> Writing(x))
      BY <3>1 DEF Pending, Seeing, Writing
    <3>3. Seeing(x) \/ rot[x].pc = "swap" => rot[x].sid \in Sessions
      BY <1>0, TokensNatural DEF Seeing
    <3>4. Writing(x) => rot[x].sid \in Sessions /\ rot[x].sid # s
      BY <1>0, TokensNatural DEF LockInv, WriterHolds, Holds, Free
    <3>5. Pending(x) => Seeing(x)
      BY DEF Seeing
    <3>6. \A x1 \in Sessions : minted'[x1] \in Nat /\ minted[x1] <= minted'[x1]
                               /\ minted[x1] \in Nat
      BY <1>0, <2>4, TokensNatural
    <3>7. MintedFor(x)'
      <4>1. Seeing(x) => rot[x].seen.hash \in Nat
        BY <1>0, TokensNatural
      <4>2. rot[x].next \in Nat
            /\ (rot[x].prior # None => rot[x].prior.installed \in Nat)
        BY <1>0, TokensNatural
      <4>3. QED
        BY <3>1, <3>2, <3>3, <3>5, <3>6, <4>1, <4>2 DEF RequestTokens, MintedFor
    <3>8. NextIsFresh(x)'
      <4>1. ASSUME Pending(x), NEW y \in Refreshers, y # x,
                   rot'[y].sid = rot[x].sid, Pending(y)'
            PROVE  rot'[y].next # rot[x].next
        <5>1. CASE y = r
          BY <2>2, <2>4, <2>6, <2>9, <4>1, <5>1
        <5>2. CASE y # r
          <6>1. rot'[y] = rot[y] /\ Pending(y)
            BY <2>6, <4>1, <5>2 DEF Pending
          <6>2. QED
            BY <3>1, <4>1, <6>1 DEF RequestTokens, NextIsFresh
        <5>3. QED
          BY <5>1, <5>2
      <4>2. ASSUME Writing(x), NEW y \in Refreshers,
                   rot'[y].sid = rot[x].sid, Seeing(y)'
            PROVE  rot'[y].seen.hash # rot[x].next
        <5>1. y # r
          BY <2>2, <2>6, <3>4, <4>2
        <5>2. rot'[y] = rot[y] /\ Seeing(y)
          BY <2>6, <4>2, <5>1 DEF Pending, Seeing
        <5>3. QED
          BY <3>1, <4>2, <5>2 DEF RequestTokens, NextIsFresh
      <4>3. QED
        BY <1>0, <3>1, <3>2, <4>1, <4>2 DEF RequestTokens, NextIsFresh
    <3>9. GrantStands(x)'
      BY <1>0, <3>1, <3>2 DEF RequestTokens, GrantStands, MayRotate
    <3>10. PriorRecalls(x)'
      BY <1>0, <3>1, <3>2 DEF RequestTokens, PriorRecalls, Recalls, OfLast
    <3>11. OwnEntry(x)'
      BY <2>5, <3>1, <3>2, <3>4 DEF RequestTokens, OwnEntry, MemoryKept
    <3>12. EntriesOwned(x)'
      <4>1. SUFFICES ASSUME Pending(x)
                     PROVE  EntriesOwned(x)'
        BY <3>2 DEF EntriesOwned
      <4>2. OwnIfInstalled(x, lastRotations[rot[x].sid])'
        <5>1. CASE rot[x].sid = s
          BY <2>3, <2>4, <2>5, <2>9, <3>1, <4>1, <5>1 DEF OwnIfInstalled
        <5>2. CASE rot[x].sid # s
          BY <2>5, <3>1, <3>3, <3>5, <4>1, <5>2 DEF RequestTokens, EntriesOwned,
             OwnIfInstalled, MemoryKept
        <5>3. QED
          BY <5>1, <5>2
      <4>3. ASSUME NEW y \in Refreshers, Pending(y)', rot'[y].sid = rot[x].sid
            PROVE  OwnIfInstalled(x, rot[y].prior)'
        <5>1. CASE y = r
          BY <2>2, <2>6, <3>1, <4>1, <4>3, <5>1 DEF RequestTokens, EntriesOwned,
             OwnIfInstalled
        <5>2. CASE y # r
          <6>1. rot'[y] = rot[y] /\ Pending(y)
            BY <2>6, <4>3, <5>2 DEF Pending
          <6>2. QED
            BY <3>1, <4>1, <4>3, <6>1 DEF RequestTokens, EntriesOwned,
               OwnIfInstalled
        <5>3. QED
          BY <5>1, <5>2
      <4>4. QED
        BY <3>1, <4>2, <4>3 DEF EntriesOwned
    <3>13. QED
      BY <3>1, <3>7, <3>8, <3>9, <3>10, <3>11, <3>12 DEF RequestTokens
  <2>13. QED
    BY <2>10, <2>11, <2>12 DEF TokenInv
<1>3. QED
  BY <1>1, <1>2

\* What the COMMIT of a rotation changes: the row of its session and the last
\* rotation there, which the class comment allows.
LEMMA CommitEffect ==
  ASSUME SessionInv, RotationInv, NEW r \in Refreshers, CommitRotation(r),
         Writing(r), NEW s \in Sessions, rot[r].sid = s
  PROVE  LET q == rot[r] IN
         /\ UNCHANGED <<minted, lastRotations>> /\ minted[s] # 0
         /\ Alive(row[s]) /\ row[s].hash = q.seen.hash /\ q.seen.hash < q.next
         /\ Alive(row'[s]) /\ row'[s].hash = q.next
         /\ last'[s] # None
         /\ last'[s].presented = q.token /\ last'[s].replaced = q.seen.hash
         /\ last'[s].installed = q.next /\ last'[s].at = q.at
         /\ last'[s].lawful /\ MayRotate(s, q.token, q.at)
         /\ \A x \in Sessions : x # s => last'[x] = last[x] /\ row'[x] = row[x]
         /\ \A x \in Refreshers : Writing(x) /\ rot[x].sid = s => x = r
<1> DEFINE q == rot[r]
           e == [presented |-> q.token, replaced |-> q.seen.hash,
                 installed |-> q.next, at |-> q.at,
                 lawful |-> MayRotate(q.sid, q.token, q.at)]
<1>1. /\ TypeOK /\ TokenInv /\ LockInv /\ q \in RotReq
      /\ q.outcome = "rotated" /\ Pending(r) /\ Seeing(r)
      /\ UNCHANGED <<minted, lastRotations>> /\ CommitRows(r)
      /\ minted[s] # 0
  BY BusyRot DEF SessionInv, RotationInv, CommitRotation, memoryVars,
     Writing, Pending, Seeing, UnusedSessions
<1>2. RequestTokens(r) /\ WriterHolds(r) /\ Alive(row[s])
  BY <1>1 DEF TokenInv, LockInv, SessionInv, LockedRows, WriterHolds, Holds
<1>3. MayRotate(s, q.token, q.at) /\ row[s].hash = q.seen.hash
  BY <1>2 DEF RequestTokens, GrantStands, WriterHolds
<1>4. /\ e.presented = q.token /\ e.replaced = q.seen.hash
      /\ e.installed = q.next /\ e.at = q.at /\ e.lawful
  BY <1>3
<1>5. e # None
  <2>1. q.seen.hash \in Nat /\ q.token \in Nat /\ q.next \in Nat /\ q.at \in Nat
    BY <1>1, BusyRot, TokensNatural
  <2>2. MayRotate(q.sid, q.token, q.at) \in BOOLEAN
    BY DEF MayRotate
  <2>3. e \in Rotation
    BY <2>1, <2>2 DEF Rotation
  <2>4. QED
    BY <2>3, NoneAssumption
<1>6. last' = [last EXCEPT ![s] = e]
  BY <1>1 DEF CommitRotation
<1> HIDE DEF e
<1>7. /\ last'[s] = e
      /\ \A x \in Sessions : x # s => last'[x] = last[x]
  BY <1>1, <1>6 DEF TypeOK, HistoryTypeOK
<1>8. /\ Alive(row'[s]) /\ row'[s].hash = q.next
      /\ \A x \in Sessions : x # s => row'[x] = row[x]
  <2>1. \A x \in Sessions : Holds(r, x) => x = s
    BY <1>1 DEF LockInv, LockKeepsToken, Holds
  <2>2. row' = [x \in Sessions |-> IF Holds(r, x) THEN rowLock[x].row ELSE row[x]]
    BY <1>1 DEF CommitRows
  <2>3. Holds(r, s) /\ Alive(rowLock[s].row) /\ rowLock[s].row.hash = q.next
    BY <1>2 DEF WriterHolds
  <2>4. QED
    BY <2>1, <2>2, <2>3
<1>9. q.seen.hash < q.next
  BY <1>2, <1>3 DEF RequestTokens, NextIsFresh
<1>10. \A x \in Refreshers : Writing(x) /\ rot[x].sid = s => x = r
  BY <1>1, <1>2 DEF LockInv, WriterHolds, Holds
<1>11. QED
  BY <1>1, <1>2, <1>3, <1>4, <1>5, <1>7, <1>8, <1>9, <1>10

\* COMMIT makes the new token the current one; the entry that was remembered,
\* if it was not lost meanwhile, now tells of the last committed rotation.
LEMMA CommitTokens ==
  ASSUME SessionInv, RotationInv, ~CommitsMayBeLost,
         NEW r \in Refreshers, CommitRotation(r), Writing(r)
  PROVE  TokenInv'
<1> DEFINE q == rot[r]
<1>1. PICK s \in Sessions : q.sid = s
  BY TokensNatural DEF SessionInv
<1>2. /\ UNCHANGED <<minted, lastRotations>> /\ minted[s] # 0
      /\ row[s].hash = q.seen.hash /\ row'[s].hash = q.next
      /\ last'[s] # None
      /\ last'[s].presented = q.token /\ last'[s].replaced = q.seen.hash
      /\ last'[s].installed = q.next /\ last'[s].at = q.at /\ last'[s].lawful
      /\ \A x \in Sessions : x # s => last'[x] = last[x] /\ row'[x] = row[x]
      /\ \A x \in Refreshers : Writing(x) /\ rot[x].sid = s => x = r
  BY <1>1, CommitEffect
<1>3. /\ TypeOK /\ TokenInv /\ Pending(r) /\ Seeing(r)
      /\ SessionTokens(s) /\ RequestTokens(r)
  BY DEF SessionInv, RotationInv, TokenInv, Writing, Pending, Seeing
<1>4. /\ rot'[r].pc = "answer"
      /\ \A x \in Refreshers : x # r => rot'[x] = rot[x]
  BY <1>3, BusyRot DEF CommitRotation, TypeOK, RequestTypeOK, RotReq
<1>5. ~Pending(r)' /\ ~Seeing(r)' /\ ~Writing(r)' /\ rot'[r].pc = "answer"
  BY <1>4 DEF Pending, Seeing, Writing
<1>6. ASSUME NEW x \in Sessions PROVE SessionTokens(x)'
  <2>1. CASE x # s
    BY <1>2, <1>3, <1>4, <2>1 DEF TokenInv, SessionTokens, MintedAt,
       MemoryRecalls, LastLawful, Recalls, OfLast
  <2>2. CASE x = s
    <3>1. MintedAt(x)'
      <4>1. q.next <= minted[s]
        BY <1>1, <1>2, <1>3 DEF RequestTokens, MintedFor
      <4>2. QED
        BY <1>2, <1>3, <2>2, <4>1 DEF SessionTokens, MintedAt
    <3>2. MemoryRecalls(x)'
      <4>1. SUFFICES ASSUME lastRotations[s] # None
                     PROVE  OfLast(x, lastRotations[x])'
        BY <1>2, <1>3, <2>2 DEF MemoryRecalls, Recalls
      <4>2. /\ lastRotations[s].installed = q.next
            /\ lastRotations[s].previousHash = q.seen.hash
            /\ lastRotations[s].rotatedAt = q.at
            /\ lastRotations[s].graceSpent = q.viaGrace
        BY <1>1, <1>3, <4>1 DEF RequestTokens, OwnEntry
      <4>3. q.viaGrace = Tolerated(last'[s])
        BY <1>2, <1>3 DEF RequestTokens, GrantStands, Tolerated
      <4>4. QED
        BY <1>2, <1>3, <1>4, <2>2, <4>2, <4>3 DEF OfLast
    <3>3. LastLawful(x)'
      BY <1>1, <1>2, <1>4, <2>2 DEF LastLawful
    <3>4. QED
      BY <3>1, <3>2, <3>3 DEF SessionTokens
  <2>3. QED
    BY <2>1, <2>2
<1>7. ASSUME NEW x \in Refreshers PROVE RequestTokens(x)'
  <2>1. CASE x = r
    BY <1>5, <2>1 DEF RequestTokens, MintedFor, NextIsFresh, GrantStands,
       PriorRecalls, OwnEntry, EntriesOwned
  <2>2. CASE x # r
    <3>1. RequestTokens(x) /\ rot'[x] = rot[x]
      BY <1>2, <1>3, <1>4, <2>2 DEF TokenInv
    <3>2. \A y \in Refreshers :
            /\ Pending(y)' => Pending(y) /\ rot'[y] = rot[y]
            /\ Seeing(y)' => Seeing(y) /\ rot'[y] = rot[y]
      BY <1>2, <1>4, <1>5 DEF Pending, Seeing
    <3>3. /\ (Pending(x)' <=> Pending(x)) /\ (Seeing(x)' <=> Seeing(x))
          /\ (Writing(x)' <=> Writing(x)) /\ (Pending(x) => Seeing(x))
      BY <3>1 DEF Pending, Seeing, Writing
    <3>4. /\ Seeing(x) \/ rot[x].pc = "swap" => rot[x].sid \in Sessions
          /\ Writing(x) => rot[x].sid \in Sessions /\ rot[x].sid # s
      BY <1>2, <1>3, <2>2, TokensNatural DEF Seeing
    \* The new token is neither what x has read nor what x would install.
    <3>5. rot[x].sid = s => /\ Seeing(x) => rot[x].seen.hash # q.next
                            /\ Pending(x) => rot[x].next # q.next
      BY <1>1, <1>2, <1>3, <2>2 DEF RequestTokens, NextIsFresh
    <3>6. MintedFor(x)' /\ OwnEntry(x)' /\ EntriesOwned(x)'
      BY <1>2, <1>3, <3>1, <3>2, <3>3 DEF RequestTokens, MintedFor, OwnEntry,
         EntriesOwned, OwnIfInstalled
    <3>7. NextIsFresh(x)'
      <4>1. /\ Pending(x) => rot[x].sid \in Sessions
            /\ Pending(x) /\ Alive(row'[rot[x].sid])
                 => row'[rot[x].sid].hash # rot[x].next
            /\ Writing(x) => row'[rot[x].sid] = row[rot[x].sid]
        BY <1>2, <3>1, <3>3, <3>4, <3>5 DEF RequestTokens, NextIsFresh
      <4>2. QED
        BY <3>1, <3>2, <3>3, <4>1 DEF RequestTokens, NextIsFresh
    <3>8. GrantStands(x)'
      <4>1. rot[x].pc = "swap" => Seeing(x)
        BY DEF Seeing
      <4>2. QED
        BY <1>2, <1>4, <3>1, <3>3, <3>4, <3>5, <4>1 DEF RequestTokens,
           GrantStands, MayRotate
    <3>9. PriorRecalls(x)'
      BY <1>2, <1>4, <3>1, <3>3, <3>4, <3>5 DEF RequestTokens, PriorRecalls,
         Recalls, OfLast
    <3>10. QED
      BY <3>1, <3>6, <3>7, <3>8, <3>9 DEF RequestTokens
  <2>3. QED
    BY <2>1, <2>2
<1>8. QED
  BY <1>6, <1>7 DEF TokenInv

\* The undo of a rotation that failed restores the entry that was there
\* before it only if the current one is its own, and that entry is still true.
LEMMA UndoTokens ==
  ASSUME SessionInv, RotationInv, NEW r \in Refreshers, UndoMemory(r)
  PROVE  TokenInv'
<1> DEFINE q == rot[r]
<1>0. /\ TypeOK /\ TokenInv /\ LockInv /\ q.pc = "undo" /\ q.sid \in Sessions
      /\ UNCHANGED <<minted, row, last>>
  BY BusyRot DEF SessionInv, RotationInv, UndoMemory, dbVars, historyVars
<1>1. /\ rot'[r] = IdleRot
      /\ \A x \in Refreshers : x # r => rot'[x] = rot[x]
  BY <1>0 DEF UndoMemory, TypeOK, RequestTypeOK
<1>2. ~Pending(r)' /\ ~Seeing(r)' /\ ~Writing(r)' /\ rot'[r].outcome = "none"
  BY <1>1 DEF IdleRot, Pending, Seeing, Writing
<1>3. CASE UNCHANGED lastRotations
  <2>1. Calm
    BY <1>0, <1>1, <1>3 DEF Calm, RowKept, MemoryKept, RequestKept, IdleRot
  <2>2. QED
    BY <1>0, <2>1, CalmTokens
<1>4. CASE lastRotations' # lastRotations
  <2>1. /\ lastRotations[q.sid] # None
        /\ lastRotations[q.sid].installed = q.next
        /\ lastRotations' = [lastRotations EXCEPT ![q.sid] = q.prior]
    BY <1>4 DEF UndoMemory, UndoRotation, memoryVars
  <2>2. /\ Pending(r) /\ Seeing(r) /\ RequestTokens(r)
        /\ SessionTokens(q.sid)
    BY <1>0 DEF TokenInv, RequestTokens, Pending, Seeing
  <2>3. /\ lastRotations'[q.sid] = q.prior
        /\ \A x \in Sessions : x # q.sid => lastRotations'[x] = lastRotations[x]
    BY <1>0, <2>1 DEF TypeOK, MemoryTypeOK
  <2>4. Alive(row[q.sid]) /\ q.prior # None => Recalls(q.sid, q.prior)
    <3> SUFFICES ASSUME Alive(row[q.sid]), q.prior # None
                 PROVE  Recalls(q.sid, q.prior)
      OBVIOUS
    <3>1. Recalls(q.sid, lastRotations[q.sid])
      BY <2>1, <2>2 DEF SessionTokens, MemoryRecalls
    <3>2. row[q.sid].hash # q.next
      BY <2>2 DEF RequestTokens, NextIsFresh
    <3>3. ~OfLast(q.sid, lastRotations[q.sid])
      BY <2>1, <2>2, <3>2 DEF SessionTokens, LastLawful, OfLast
    <3>4. lastRotations[q.sid].previousHash = q.seen.hash
      BY <2>1, <2>2 DEF RequestTokens, EntriesOwned, OwnIfInstalled
    <3>5. row[q.sid].hash = q.seen.hash
      BY <3>1, <3>3, <3>4 DEF Recalls
    <3>6. QED
      BY <2>2, <3>5 DEF RequestTokens, PriorRecalls
  <2>5. q.prior # None => q.prior.installed <= minted[q.sid]
    BY <2>2 DEF RequestTokens, MintedFor
  <2>6. minted[q.sid] # 0
    BY <1>0 DEF SessionInv, UnusedSessions
  <2>7. ASSUME NEW x \in Sessions PROVE SessionTokens(x)'
    <3>1. SessionTokens(x)
      BY <1>0 DEF TokenInv
    <3>2. CASE x = q.sid
      BY <1>0, <2>3, <2>4, <2>5, <2>6, <3>1, <3>2 DEF SessionTokens, MintedAt,
         MemoryRecalls, LastLawful, Recalls, OfLast
    <3>3. CASE x # q.sid
      BY <1>0, <2>3, <3>1, <3>3 DEF SessionTokens, MintedAt, MemoryRecalls,
         LastLawful, Recalls, OfLast
    <3>4. QED
      BY <3>2, <3>3
  <2>8. ASSUME NEW x \in Refreshers PROVE RequestTokens(x)'
    <3>1. CASE x = r
      BY <1>1, <1>2, <3>1 DEF IdleRot, RequestTokens, MintedFor, NextIsFresh,
         GrantStands, PriorRecalls, OwnEntry, EntriesOwned
    <3>2. CASE x # r
      <4>1. RequestTokens(x) /\ rot'[x] = rot[x]
        BY <1>0, <1>1, <3>2 DEF TokenInv
      <4>2. \A y \in Refreshers :
              /\ Pending(y)' => Pending(y) /\ rot'[y] = rot[y]
              /\ Seeing(y)' => Seeing(y) /\ rot'[y] = rot[y]
        BY <1>1, <1>2 DEF Pending, Seeing
      <4>3. /\ (Pending(x)' <=> Pending(x)) /\ (Seeing(x)' <=> Seeing(x))
            /\ (Writing(x)' <=> Writing(x)) /\ (Writing(x) => Pending(x))
        BY <4>1 DEF Pending, Seeing, Writing
      <4>4. Pending(x) => rot[x].sid \in Sessions
        BY <1>0, TokensNatural DEF Seeing
      <4>5. MintedFor(x)' /\ NextIsFresh(x)'
        BY <1>0, <4>1, <4>2, <4>3 DEF RequestTokens, MintedFor, NextIsFresh
      <4>6. GrantStands(x)' /\ PriorRecalls(x)'
        BY <1>0, <4>1, <4>3 DEF RequestTokens, GrantStands, MayRotate,
           PriorRecalls, Recalls, OfLast
      \* A rotation that still writes would own the entry.
      <4>7. Writing(x) => rot[x].sid # q.sid
        BY <2>1, <2>2, <3>2, <4>1, <4>3 DEF RequestTokens, OwnEntry, NextIsFresh
      <4>8. OwnEntry(x)'
        BY <2>3, <4>1, <4>3, <4>4, <4>7 DEF RequestTokens, OwnEntry
      <4>9. EntriesOwned(x)'
        <5>1. SUFFICES ASSUME Pending(x) PROVE EntriesOwned(x)'
          BY <4>3 DEF EntriesOwned
        <5>2. EntriesOwned(x)
          BY <4>1 DEF RequestTokens
        <5>3. OwnIfInstalled(x, lastRotations[rot[x].sid])'
          BY <2>2, <2>3, <4>1, <4>4, <5>1, <5>2 DEF EntriesOwned, OwnIfInstalled
        <5>4. ASSUME NEW y \in Refreshers, Pending(y)', rot'[y].sid = rot'[x].sid
              PROVE  OwnIfInstalled(x, rot[y].prior)'
          BY <4>1, <4>2, <5>1, <5>2, <5>4 DEF EntriesOwned, OwnIfInstalled
        <5>5. QED
          BY <5>3, <5>4 DEF EntriesOwned
      <4>10. QED
        BY <4>1, <4>5, <4>6, <4>8, <4>9 DEF RequestTokens
    <3>3. QED
      BY <3>1, <3>2
  <2>9. QED
    BY <2>7, <2>8 DEF TokenInv
<1>5. QED
  BY <1>3, <1>4

LEMMA NextRotationInv ==
  ASSUME SessionInv, RotationInv, [Next]_vars, ~CommitsMayBeLost
  PROVE  RotationInv'
<1>1. TokenInv'
  <2>1. CASE ~Telling
    BY <2>1, CalmSteps, CalmTokens DEF SessionInv, RotationInv
  <2>2. CASE Telling
    BY <2>2, InsertTokens, ReadSessionTokens, ReadUserTokens, SwapTokens,
       UndoTokens, CommitTokens DEF Telling
  <2>3. QED
    BY <2>1, <2>2
<1>2. QED
  BY <1>1, LockInvKept DEF RotationInv

LEMMA AlwaysRotationInv == ~CommitsMayBeLost /\ Spec => []RotationInv
<1>1. CASE ~CommitsMayBeLost
  <2>1. Init => RotationInv
    BY InitRotationInv
  <2>2. SessionInv /\ RotationInv /\ [Next]_vars => RotationInv'
    BY <1>1, NextRotationInv
  <2>3. QED
    BY <2>1, <2>2, AlwaysSessionInv, PTL DEF Spec
<1>2. CASE CommitsMayBeLost
  BY <1>2
<1>3. QED
  BY <1>1, <1>2

\* Whatever is rolled back, undone, evicted, revoked or restarted in between,
\* each rotation the database commits was granted by the rules of the class
\* comment in terms of the rotations committed before it: rotateInTransaction
\* tolerates a retry on the word of lastRotations alone, and its entry can be
\* of a rotation that never committed, or restored by another that failed.
THEOREM RotationsAreLawful == ~CommitsMayBeLost /\ Spec => []RotationsLawful
<1>1. RotationInv => RotationsLawful
  BY DEF RotationInv, TokenInv, SessionTokens, LastLawful, RotationsLawful
<1>2. QED
  BY <1>1, AlwaysRotationInv, PTL

-----------------------------------------------------------------------------
(* UserSessions implements RefreshChain.                                   *)

\* The chain of a session moves with its row, its last rotation and whether
\* it was ever minted, and with nothing else.
LEMMA ChainFramed ==
  ASSUME NEW s \in Sessions, minted'[s] = 0 <=> minted[s] = 0,
         Alive(row'[s]) <=> Alive(row[s]),
         Alive(row[s]) => row'[s].hash = row[s].hash, last'[s] = last[s]
  PROVE  ChainOf(s)' = ChainOf(s)
  BY DEF ChainOf

LEMMA CalmChain ==
  ASSUME SessionInv, Calm, NEW s \in Sessions
  PROVE  ChainOf(s)' = ChainOf(s)
         \/ /\ ChainOf(s).life = "live"
            /\ ChainOf(s)' = Chain!Ended
<1>1. UNCHANGED <<minted, last>> /\ RowKept(s)
  BY DEF Calm
<1>2. minted[s] = 0 => ~Alive(row[s])
  BY DEF SessionInv, UnusedSessions, Alive
<1>3. CASE Alive(row'[s]) <=> Alive(row[s])
  BY <1>1, <1>3, ChainFramed DEF RowKept
<1>4. CASE Alive(row[s]) /\ ~Alive(row'[s])
  BY <1>1, <1>2, <1>4 DEF ChainOf, Chain!Ended, Chain!Link
<1>5. QED
  BY <1>1, <1>3, <1>4 DEF RowKept

LEMMA InsertChain ==
  ASSUME SessionInv, SessionInv', RotationInv, NEW l \in Logins,
         InsertSession(l), NEW s \in Sessions
  PROVE  ChainOf(s)' = ChainOf(s)
         \/ /\ ChainOf(s) = Chain!Fresh
            /\ ChainOf(s)' = Chain!Link("live", ChainOf(s)'.current, None, None, 0)
<1>1. PICK x \in Sessions :
        /\ minted[x] = 0 /\ minted' = [minted EXCEPT ![x] = 1]
        /\ row' = [row EXCEPT ![x] = NewRow(login[l].user, login[l].tv)]
  BY DEF InsertSession
<1>2. UNCHANGED last /\ TypeOK /\ TypeOK'
  BY DEF InsertSession, historyVars, SessionInv
<1>3. CASE s # x
  BY <1>1, <1>2, <1>3, ChainFramed DEF TypeOK, DbTypeOK
<1>4. CASE s = x
  <2>1. minted[s] = 0 /\ row[s] = None /\ last[s] = None
    BY <1>1, <1>4 DEF SessionInv, UnusedSessions, RotationInv, TokenInv,
       SessionTokens, MintedAt
  <2>2. minted'[s] = 1 /\ Alive(row'[s])
    <3>1. row'[s] = NewRow(login[l].user, login[l].tv) /\ minted'[s] = 1
      BY <1>1, <1>2, <1>4 DEF TypeOK, DbTypeOK
    <3>2. NewRow(login[l].user, login[l].tv) \in Row
      BY <1>2, SessionsAssumption DEF InsertSession, TypeOK, RequestTypeOK,
         LoginReq, NewRow, Row, Expiry, NatOrNone
    <3>3. NewRow(login[l].user, login[l].tv).revokedAt = None
      BY DEF NewRow
    <3>4. QED
      BY <3>1, <3>2, <3>3, NoneAssumption DEF Alive
  <2>3. QED
    BY <1>2, <2>1, <2>2 DEF ChainOf, Alive, Chain!Fresh, Chain!Link
<1>5. QED
  BY <1>3, <1>4

LEMMA CommitChain ==
  ASSUME SessionInv, RotationInv, NEW r \in Refreshers, CommitRotation(r),
         Writing(r), NEW s \in Sessions
  PROVE  ChainOf(s)' = ChainOf(s)
         \/ LET c == ChainOf(s)
                d == ChainOf(s)'
            IN  /\ c.life = "live" /\ d.life = "live"
                /\ d.replaced = c.current /\ d.current > c.current
                /\ Chain!MayExchange(c, d.presented, d.at)
<1> DEFINE q == rot[r]
<1>1. PICK x \in Sessions : q.sid = x
  BY TokensNatural DEF SessionInv
<1>2. /\ UNCHANGED minted /\ minted[x] # 0
      /\ Alive(row[x]) /\ row[x].hash = q.seen.hash /\ q.seen.hash < q.next
      /\ Alive(row'[x]) /\ row'[x].hash = q.next
      /\ last'[x] # None
      /\ last'[x].presented = q.token /\ last'[x].replaced = q.seen.hash
      /\ last'[x].at = q.at /\ MayRotate(x, q.token, q.at)
      /\ \A y \in Sessions : y # x => last'[y] = last[y] /\ row'[y] = row[y]
  BY <1>1, CommitEffect
<1>3. CASE s # x
  BY <1>2, <1>3, ChainFramed
<1>4. CASE s = x
  <2> DEFINE c == ChainOf(s)
             d == ChainOf(s)'
  <2>1. /\ c.life = "live" /\ c.current = row[s].hash
        /\ last[s] # None => /\ c.presented = last[s].presented
                             /\ c.replaced = last[s].replaced
                             /\ c.at = last[s].at
    BY <1>2, <1>4 DEF ChainOf
  <2>2. /\ d.life = "live" /\ d.current = q.next
        /\ d.presented = q.token /\ d.replaced = q.seen.hash /\ d.at = q.at
    BY <1>2, <1>4 DEF ChainOf
  <2>3. Chain!MayExchange(c, q.token, q.at)
    BY <1>2, <1>4, <2>1 DEF MayRotate, Tolerated, Chain!MayExchange,
       Chain!Tolerated
  <2>4. row[s].hash \in Nat /\ q.next \in Nat
    BY <1>2, <1>4, TokensNatural DEF SessionInv, Alive
  <2>5. QED
    BY <1>2, <1>4, <2>1, <2>2, <2>3, <2>4
<1>5. QED
  BY <1>3, <1>4

LEMMA NextChain ==
  ASSUME SessionInv, SessionInv', RotationInv, [Next]_vars
  PROVE  [Chain!Next]_([s \in Sessions |-> ChainOf(s)])
<1> DEFINE chain == [s \in Sessions |-> ChainOf(s)]
<1> SUFFICES ASSUME NEW s \in Sessions
             PROVE  Chain!Open(s) \/ Chain!Rotate(s) \/ Chain!End(s)
                    \/ chain'[s] = chain[s]
  BY DEF Chain!Next
<1>1. chain[s] = ChainOf(s) /\ chain'[s] = ChainOf(s)'
  OBVIOUS
<1>2. CASE ~Telling
  <2>1. Calm
    BY <1>2, CalmSteps
  <2>2. QED
    BY <1>1, <2>1, CalmChain DEF Chain!End
<1>3. ASSUME NEW l \in Logins, InsertSession(l)
      PROVE  Chain!Open(s) \/ chain'[s] = chain[s]
  BY <1>1, <1>3, InsertChain DEF Chain!Open
<1>4. ASSUME NEW r \in Refreshers, ReadSession(r) \/ ReadUser(r) \/ UndoMemory(r)
      PROVE  chain'[s] = chain[s]
  <2>1. UNCHANGED <<minted, row, last>>
    BY <1>4 DEF ReadSession, ReadUser, UndoMemory, dbVars, historyVars
  <2>2. QED
    BY <1>1, <2>1, ChainFramed
<1>5. ASSUME NEW r \in Refreshers, Swap(r)
      PROVE  chain'[s] = chain[s]
  <2>1. /\ UNCHANGED <<row, last>> /\ rot[r].sid \in Sessions
        /\ minted[rot[r].sid] # 0 /\ TypeOK
    BY <1>5, BusyRot DEF Swap, historyVars, SessionInv, UnusedSessions
  <2>2. minted' = minted
        \/ minted' = [minted EXCEPT ![rot[r].sid] = minted[rot[r].sid] + 1]
    BY <1>5 DEF Swap
  <2>3. minted'[s] = 0 <=> minted[s] = 0
    BY <2>1, <2>2 DEF TypeOK, DbTypeOK
  <2>4. QED
    BY <1>1, <2>1, <2>3, ChainFramed
<1>6. ASSUME NEW r \in Refreshers, CommitRotation(r), Writing(r)
      PROVE  Chain!Rotate(s) \/ chain'[s] = chain[s]
  BY <1>1, <1>6, CommitChain DEF Chain!Rotate
<1>7. QED
  BY <1>2, <1>3, <1>4, <1>5, <1>6 DEF Telling

\* Concurrent refreshes, rollbacks, revocations, evictions and restarts
\* together show the clients nothing but the chain of tokens that the class
\* comment of UserSessionsService promises: no forks, no token exchanged twice
\* beyond the one tolerated retry, nothing after the end of a session.
THEOREM ChainImplemented == ~CommitsMayBeLost /\ Spec => ImplementsChain
<1>1. Init => Chain!Init
  BY DEF Init, Chain!Init, Chain!Fresh, Chain!Link, ChainOf, Alive
<1>2. SessionInv /\ SessionInv' /\ RotationInv /\ [Next]_vars
        => [Chain!Next]_([s \in Sessions |-> ChainOf(s)])
  BY NextChain
<1>3. QED
  BY <1>1, <1>2, AlwaysSessionInv, AlwaysRotationInv, PTL DEF Spec,
     ImplementsChain, Chain!Spec

=============================================================================
