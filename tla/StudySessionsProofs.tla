------------------------- MODULE StudySessionsProofs -------------------------
(***************************************************************************)
(* What holds of the focus sessions and of the tasks of a student, for     *)
(* every number of rows and requests, and every value of the limits.  Of   *)
(* focus sessions the inductive invariant StudyInv says that heartbeats    *)
(* only move forward: the row that a request is about to close may have    *)
(* got a newer heartbeat since it was read, never an older one, and its id *)
(* is never given to another row.  Of tasks TasksInv says that what a      *)
(* request read of its task is so until it writes, and that what it found  *)
(* room for in a course has room.                                          *)
(***************************************************************************)
EXTENDS StudySessions, Tasks, FiniteSetTheorems, TLAPS

HeartsPast == \A i \in Rows : session[i].heart # None => session[i].heart <= now
OnlyManualBeatless ==
  \A i \in Rows : session[i].heart = None
    => session[i].end # None /\ session[i].closedBy = "user"
RunningUnclosed == \A i \in Active : session[i].closedBy = "nobody"
HeartsGrow ==
  \A q \in Requests :
    req[q].pc = "closeStale" /\ req[q].id \in Rows
      => /\ req[q].seen.heart # None
         /\ session[req[q].id].heart # None
         /\ req[q].seen.heart <= session[req[q].id].heart

StudyInv == /\ TypeOK /\ HeartsPast /\ OnlyManualBeatless /\ RunningUnclosed
            /\ HeartsGrow /\ NoGhostHours

USE StudyAssumption

\* The part of TypeOK about one request.
GoodRequest(r) ==
  /\ r \in Request
  /\ r.pc = "closeStale" => r.seen \in StudySession
  /\ r.pc \in {"closeStale", "beat", "stop", "checkOverlap", "update"} => r.id \in Ids

LEMMA TypeInit == Init => TypeOK
  BY DEF Init, TypeOK, Request, Idle, Pc, NatOrNone

\* A clamp of naturals is a natural.
LEMMA ClampType ==
  ASSUME NEW a \in Nat, NEW b \in Nat
  PROVE  /\ ClampToMaxSession(a, b) \in Nat
         /\ ClampToMaxSession(a, b) <= b
  BY DEF ClampToMaxSession, Earliest

LEMMA LastSeenType ==
  ASSUME NEW s \in StudySession
  PROVE  LastSeen(s) \in Nat
  BY DEF StudySession, NatOrNone, LastSeen

\* A request that changes on its own leaves the others well typed.
LEMMA RequestType ==
  ASSUME TypeOK, NEW q \in Requests, NEW r, GoodRequest(r),
         req' = [req EXCEPT ![q] = r]
  PROVE  /\ req' \in [Requests -> Request]
         /\ \A p \in Requests : GoodRequest(req'[p])
<1>1. r \in Request BY DEF GoodRequest
<1>2. req \in [Requests -> Request] /\ \A p \in Requests : GoodRequest(req[p])
    BY DEF TypeOK, GoodRequest
<1> QED BY <1>1, <1>2

LEMMA SameRequestsType ==
  ASSUME TypeOK, UNCHANGED req
  PROVE  /\ req' \in [Requests -> Request]
         /\ \A p \in Requests : GoodRequest(req'[p])
  BY DEF TypeOK, GoodRequest

LEMMA TypeFromParts ==
  ASSUME now' \in Nat,
         session' \in [Ids -> StudySession \cup {None}],
         heatmap' \in [at : Nat, grid : SUBSET Window] \cup {None},
         req' \in [Requests -> Request], \A p \in Requests : GoodRequest(req'[p])
  PROVE  TypeOK'
  BY DEF TypeOK, GoodRequest

LEMMA IdleGood == GoodRequest(Idle)
  BY DEF GoodRequest, Idle, Request, Pc

LEMMA GotoGood ==
  ASSUME TypeOK, NEW q \in Requests, NEW pc \in Pc \ {"closeStale"},
         pc \in {"beat", "stop", "checkOverlap", "update"} => req[q].id \in Ids
  PROVE  GoodRequest([req[q] EXCEPT !.pc = pc])
<1>1. req[q] \in Request BY DEF TypeOK
<1> QED BY <1>1 DEF GoodRequest, Request

\* The requests after a step that finishes one or moves it on.
LEMMA FinishType ==
  ASSUME TypeOK, NEW q \in Requests, Finish(q)
  PROVE  /\ req' \in [Requests -> Request]
         /\ \A p \in Requests : GoodRequest(req'[p])
  BY IdleGood, RequestType DEF Finish

LEMMA GotoType ==
  ASSUME TypeOK, NEW q \in Requests, NEW pc \in Pc \ {"closeStale"}, Goto(q, pc),
         pc \in {"beat", "stop", "checkOverlap", "update"} => req[q].id \in Ids
  PROVE  /\ req' \in [Requests -> Request]
         /\ \A p \in Requests : GoodRequest(req'[p])
<1>1. req' = [req EXCEPT ![q] = [req[q] EXCEPT !.pc = pc]]
    BY DEF Goto, TypeOK
<1> QED BY <1>1, GotoGood, RequestType

\* The step that writes one row by its id.
LEMMA OverwriteType ==
  ASSUME TypeOK, NEW q \in Requests, NEW new, req[q].id \in Ids,
         session[req[q].id] # None => new \in StudySession, Overwrite(q, new)
  PROVE  /\ session' \in [Ids -> StudySession \cup {None}]
         /\ req' \in [Requests -> Request]
         /\ \A p \in Requests : GoodRequest(req'[p])
<1>1. CASE session[req[q].id] = None
    BY <1>1, FinishType DEF Overwrite, TypeOK
<1>2. CASE session[req[q].id] # None
  <2>1. /\ session' = [session EXCEPT ![req[q].id] = new]
        /\ Goto(q, "forget")
      BY <1>2 DEF Overwrite
  <2>2. session' \in [Ids -> StudySession \cup {None}]
      BY <1>2, <2>1 DEF TypeOK
  <2> QED BY <2>1, <2>2, GotoType DEF Pc
<1> QED BY <1>1, <1>2

\* What a step that begins a request makes of it.
LEMMA BegunClose ==
  ASSUME NEW i \in Ids, NEW s \in StudySession, NEW then \in {"idle", "findActive"}
  PROVE  GoodRequest([Idle EXCEPT !.pc = "closeStale", !.id = i, !.seen = s,
                                  !.then = then])
  BY DEF GoodRequest, Idle, Request, Pc

LEMMA BegunHeartbeat ==
  ASSUME NEW i \in Ids, NEW s \in StudySession
  PROVE  /\ GoodRequest([Idle EXCEPT !.pc = "closeStale", !.id = i, !.seen = s])
         /\ GoodRequest([Idle EXCEPT !.pc = "beat", !.id = i])
  BY DEF GoodRequest, Idle, Request, Pc

LEMMA BegunStop ==
  ASSUME NEW i \in Ids, NEW end \in Nat
  PROVE  GoodRequest([Idle EXCEPT !.pc = "stop", !.id = i, !.end = end])
  BY DEF GoodRequest, Idle, Request, Pc

LEMMA BegunManual ==
  ASSUME NEW start \in Nat, NEW end \in Nat
  PROVE  GoodRequest([Idle EXCEPT !.pc = "insert", !.start = start, !.end = end])
  BY DEF GoodRequest, Idle, Request, Pc

LEMMA BegunUpdate ==
  ASSUME NEW i \in Ids, NEW start \in Nat, NEW end \in Nat
  PROVE  GoodRequest([Idle EXCEPT !.pc = "checkOverlap", !.id = i,
                                  !.start = start, !.end = end])
  BY DEF GoodRequest, Idle, Request, Pc

LEMMA BegunBare ==
  /\ GoodRequest([Idle EXCEPT !.pc = "findActive"])
  /\ GoodRequest([Idle EXCEPT !.pc = "forget"])
  BY DEF GoodRequest, Idle, Request, Pc

LEMMA ActiveType == ASSUME TypeOK PROVE \A i \in Rows : i \in Ids /\ session[i] \in StudySession
  BY DEF TypeOK, Rows

\* Every step keeps the types.
LEMMA TypeNext == TypeOK /\ [Next]_vars => TypeOK'
<1> SUFFICES ASSUME TypeOK, [Next]_vars PROVE TypeOK'
    OBVIOUS
<1>a. /\ now \in Nat
      /\ session \in [Ids -> StudySession \cup {None}]
      /\ heatmap \in [at : Nat, grid : SUBSET Window] \cup {None}
      /\ req \in [Requests -> Request]
      /\ \A p \in Requests : GoodRequest(req[p])
    BY DEF TypeOK, GoodRequest
<1>b. \A i \in Active : i \in Ids /\ session[i] \in StudySession
    BY ActiveType DEF Active
<1>c. \A q \in Requests, then \in {"idle", "findActive"} : AutoClose(q, then) => TypeOK'
  <2> SUFFICES ASSUME NEW q \in Requests, NEW then \in {"idle", "findActive"}, AutoClose(q, then)
               PROVE  TypeOK'
      OBVIOUS
  <2>1. PICK i \in Active : req' = [req EXCEPT ![q] = [Idle EXCEPT !.pc = "closeStale",
                                      !.id = i, !.seen = session[i], !.then = then]]
      BY DEF AutoClose
  <2>2. GoodRequest([Idle EXCEPT !.pc = "closeStale", !.id = i, !.seen = session[i],
                                 !.then = then])
      BY <1>b, BegunClose
  <2>3. UNCHANGED <<now, session, heatmap>>
      BY DEF AutoClose
  <2> QED BY <1>a, <2>1, <2>2, <2>3, RequestType, TypeFromParts
<1>1. ASSUME NEW q \in Requests, BeginStart(q) PROVE TypeOK'
  <2>1. CASE AutoClose(q, "findActive")
      BY <1>c, <2>1
  <2>2. CASE /\ req' = [req EXCEPT ![q] = [Idle EXCEPT !.pc = "findActive"]]
             /\ UNCHANGED <<now, session, heatmap>>
      BY <1>a, <2>2, BegunBare, RequestType, TypeFromParts
  <2> QED BY <1>1, <2>1, <2>2 DEF BeginStart
<1>2. ASSUME NEW q \in Requests, GetActive(q) PROVE TypeOK'
    BY <1>2, <1>c DEF GetActive
<1>3. ASSUME NEW q \in Requests, BeginHeartbeat(q) PROVE TypeOK'
  <2>1. PICK i \in Active : \E p \in {None, session[i].plan} :
          req' = [req EXCEPT ![q] =
            IF IsStale(session[i], ClampPlannedEnd(session[i].start, p))
            THEN [Idle EXCEPT !.pc = "closeStale", !.id = i, !.seen = session[i]]
            ELSE [Idle EXCEPT !.pc = "beat", !.id = i]]
      BY <1>3 DEF BeginHeartbeat
  <2>2. /\ GoodRequest([Idle EXCEPT !.pc = "closeStale", !.id = i, !.seen = session[i]])
        /\ GoodRequest([Idle EXCEPT !.pc = "beat", !.id = i])
      BY <1>b, BegunHeartbeat
  <2>3. PICK r : GoodRequest(r) /\ req' = [req EXCEPT ![q] = r]
      BY <2>1, <2>2
  <2> QED BY <1>a, <1>3, <2>3, RequestType, TypeFromParts DEF BeginHeartbeat
<1>4. ASSUME NEW q \in Requests, BeginStop(q) PROVE TypeOK'
  <2>1. PICK i \in Active, said \in 0 .. now + FutureTolerance :
          req' = [req EXCEPT ![q] = [Idle EXCEPT !.pc = "stop", !.id = i,
                    !.end = ClampToMaxSession(session[i].start, said)]]
      BY <1>4 DEF BeginStop
  <2>2. ClampToMaxSession(session[i].start, said) \in Nat
    <3>1. session[i].start \in Nat BY <1>b DEF StudySession
    <3>2. said \in Nat BY <1>a
    <3> QED BY <3>1, <3>2, ClampType
  <2>3. GoodRequest([Idle EXCEPT !.pc = "stop", !.id = i,
                       !.end = ClampToMaxSession(session[i].start, said)])
      BY <1>b, <2>2, BegunStop
  <2> QED BY <1>a, <1>4, <2>1, <2>3, RequestType, TypeFromParts DEF BeginStop
<1>5. ASSUME NEW q \in Requests, BeginManual(q) PROVE TypeOK'
  <2>1. PICK start \in 0 .. now + FutureTolerance, end \in 0 .. now + FutureTolerance :
          req' = [req EXCEPT ![q] = [Idle EXCEPT !.pc = "insert",
                                       !.start = start, !.end = end]]
      BY <1>5 DEF BeginManual
  <2>2. GoodRequest([Idle EXCEPT !.pc = "insert", !.start = start, !.end = end])
    <3>1. start \in Nat /\ end \in Nat BY <1>a
    <3> QED BY <3>1, BegunManual
  <2> QED BY <1>a, <1>5, <2>1, <2>2, RequestType, TypeFromParts DEF BeginManual
<1>6. ASSUME NEW q \in Requests, BeginUpdate(q) PROVE TypeOK'
  <2>1. PICK i \in Finished, start \in 0 .. now + FutureTolerance,
             end \in 0 .. now + FutureTolerance :
          req' = [req EXCEPT ![q] = [Idle EXCEPT !.pc = "checkOverlap", !.id = i,
                                       !.start = start, !.end = end]]
      BY <1>6 DEF BeginUpdate
  <2>2. GoodRequest([Idle EXCEPT !.pc = "checkOverlap", !.id = i,
                                 !.start = start, !.end = end])
    <3>1. start \in Nat /\ end \in Nat /\ i \in Ids
        BY <1>a DEF Finished, Rows
    <3> QED BY <3>1, BegunUpdate
  <2> QED BY <1>a, <1>6, <2>1, <2>2, RequestType, TypeFromParts DEF BeginUpdate
<1>7. ASSUME NEW q \in Requests, Remove(q) PROVE TypeOK'
  <2>1. /\ req' = [req EXCEPT ![q] = [Idle EXCEPT !.pc = "forget"]]
        /\ UNCHANGED <<now, heatmap>>
        /\ session' \in [Ids -> StudySession \cup {None}]
      BY <1>a, <1>7 DEF Remove, Finished, Rows
  <2> QED BY <1>a, <2>1, BegunBare, RequestType, TypeFromParts
<1>8. ASSUME NEW q \in Requests, BeginHeatmap(q) PROVE TypeOK'
  <2>1. Grid \in SUBSET Window
    <3>1. ASSUME NEW i \in Finished PROVE <<i, session[i].start, session[i].end>> \in Window
      <4>1. i \in Ids /\ session[i] \in StudySession /\ session[i].end # None
          BY ActiveType DEF Finished
      <4> QED BY <4>1 DEF Window, StudySession, NatOrNone
    <3> QED BY <3>1 DEF Grid
  <2>2. GoodRequest([Idle EXCEPT !.pc = "cacheHeatmap", !.grid = Grid])
      BY <2>1 DEF GoodRequest, Idle, Request, Pc
  <2> QED BY <1>a, <1>8, <2>2, RequestType, TypeFromParts DEF BeginHeatmap
<1>9. ASSUME NEW q \in Requests, CloseStale(q) PROVE TypeOK'
  <2> DEFINE new == [session[req[q].id] EXCEPT !.end = EndWhenLost(req[q].seen),
                                               !.closedBy = "contactLost"]
  <2>1. req[q].seen \in StudySession /\ req[q].id \in Ids
      BY <1>9, <1>a DEF CloseStale, GoodRequest
  <2>2. EndWhenLost(req[q].seen) \in Nat
      BY <2>1, ClampType, LastSeenType DEF EndWhenLost, StudySession
  <2>3. session[req[q].id] # None => new \in StudySession
      BY <1>a, <2>1, <2>2 DEF StudySession, NatOrNone
  <2>4. Overwrite(q, new) /\ UNCHANGED <<now, heatmap>>
      BY <1>9 DEF CloseStale
  <2> QED BY <1>a, <2>1, <2>3, <2>4, OverwriteType, TypeFromParts
<1>10. ASSUME NEW q \in Requests, FindActive(q) PROVE TypeOK'
  <2>1. CASE Goto(q, "create")
      BY <1>a, <1>10, <2>1, GotoType, TypeFromParts DEF FindActive, Pc
  <2>2. CASE Finish(q)
      BY <1>a, <1>10, <2>2, FinishType, TypeFromParts DEF FindActive
  <2> QED BY <1>10, <2>1, <2>2 DEF FindActive
<1>11. ASSUME NEW q \in Requests, Create(q) PROVE TypeOK'
  <2>1. session' \in [Ids -> StudySession \cup {None}]
      BY <1>a, <1>11 DEF Create, NewIds, StudySession, NatOrNone
  <2> QED BY <1>a, <1>11, <2>1, FinishType, TypeFromParts DEF Create
<1>12. ASSUME NEW q \in Requests, Beat(q) PROVE TypeOK'
  <2>1. session' \in [Ids -> StudySession \cup {None}]
      BY <1>a, <1>12 DEF Beat, Active, Rows, StudySession, NatOrNone
  <2> QED BY <1>a, <1>12, <2>1, FinishType, TypeFromParts DEF Beat
<1>13. ASSUME NEW q \in Requests, Stop(q) PROVE TypeOK'
  <2> DEFINE new == [session[req[q].id] EXCEPT !.end = req[q].end, !.closedBy = "user"]
  <2>1. req[q].id \in Ids /\ req[q].end \in Nat
      BY <1>13, <1>a DEF Stop, GoodRequest, Request
  <2>2. session[req[q].id] # None => new \in StudySession
      BY <1>a, <2>1 DEF StudySession, NatOrNone
  <2>3. Overwrite(q, new) /\ UNCHANGED <<now, heatmap>>
      BY <1>13 DEF Stop
  <2> QED BY <1>a, <2>1, <2>2, <2>3, OverwriteType, TypeFromParts
<1>14. ASSUME NEW q \in Requests, InsertManual(q) PROVE TypeOK'
  <2>1. req[q].start \in Nat /\ req[q].end \in Nat
      BY <1>a DEF Request
  <2>2. session' \in [Ids -> StudySession \cup {None}]
      BY <1>a, <1>14, <2>1 DEF InsertManual, NewIds, StudySession, NatOrNone
  <2> QED BY <1>a, <1>14, <2>2, GotoType, TypeFromParts DEF InsertManual, Pc
<1>15. ASSUME NEW q \in Requests, CheckOverlap(q) PROVE TypeOK'
  <2>1. req[q].id \in Ids
      BY <1>15, <1>a DEF CheckOverlap, GoodRequest
  <2>2. CASE Goto(q, "update")
      BY <1>a, <1>15, <2>1, <2>2, GotoType, TypeFromParts DEF CheckOverlap, Pc
  <2>3. CASE Finish(q)
      BY <1>a, <1>15, <2>3, FinishType, TypeFromParts DEF CheckOverlap
  <2> QED BY <1>15, <2>2, <2>3 DEF CheckOverlap
<1>16. ASSUME NEW q \in Requests, Update(q) PROVE TypeOK'
  <2> DEFINE new == [session[req[q].id] EXCEPT !.start = req[q].start,
                                               !.end = req[q].end, !.closedBy = "user"]
  <2>1. req[q].id \in Ids /\ req[q].end \in Nat /\ req[q].start \in Nat
      BY <1>16, <1>a DEF Update, GoodRequest, Request
  <2>2. session[req[q].id] # None => new \in StudySession
      BY <1>a, <2>1 DEF StudySession, NatOrNone
  <2>3. Overwrite(q, new) /\ UNCHANGED <<now, heatmap>>
      BY <1>16 DEF Update
  <2> QED BY <1>a, <2>1, <2>2, <2>3, OverwriteType, TypeFromParts
<1>17. ASSUME NEW q \in Requests, CacheHeatmap(q) PROVE TypeOK'
  <2>1. heatmap' \in [at : Nat, grid : SUBSET Window]
      BY <1>a, <1>17 DEF CacheHeatmap, Request
  <2> QED BY <1>a, <1>17, <2>1, FinishType, TypeFromParts DEF CacheHeatmap
<1>18. ASSUME NEW q \in Requests, Forget(q) PROVE TypeOK'
  <2>1. CASE req[q].then = "idle"
    <3>1. req' = [req EXCEPT ![q] = Idle]
        BY <1>a, <1>18, <2>1 DEF Forget
    <3> QED BY <1>a, <1>18, <3>1, IdleGood, RequestType, TypeFromParts DEF Forget
  <2>2. CASE req[q].then # "idle"
    <3> DEFINE r == [req[q] EXCEPT !.pc = req[q].then, !.then = "idle"]
    <3>1. req' = [req EXCEPT ![q] = r]
        BY <1>a, <1>18, <2>2 DEF Forget
    <3>2. req[q].then = "findActive" /\ req[q] \in Request
        BY <1>a, <2>2 DEF Request
    <3>3. GoodRequest(r)
        BY <3>2 DEF GoodRequest, Request, Pc
    <3> QED BY <1>a, <1>18, <3>1, <3>3, RequestType, TypeFromParts DEF Forget
  <2> QED BY <2>1, <2>2
<1>19. CASE RecordDistraction
  <2>1. session' \in [Ids -> StudySession \cup {None}]
      BY <1>a, <1>19 DEF RecordDistraction, Active, Rows, StudySession
  <2> QED BY <1>a, <1>19, <2>1, SameRequestsType, TypeFromParts DEF RecordDistraction
<1>20. CASE Tick
    BY <1>a, <1>20, SameRequestsType, TypeFromParts DEF Tick
<1>21. CASE Restart
  <2>1. req' \in [Requests -> Request] /\ \A p \in Requests : GoodRequest(req'[p])
      BY <1>21, IdleGood DEF Restart, GoodRequest
  <2> QED BY <1>a, <1>21, <2>1, TypeFromParts DEF Restart
<1>22. CASE UNCHANGED vars
    BY <1>a, <1>22, SameRequestsType, TypeFromParts DEF vars
<1> QED
    BY <1>1, <1>2, <1>3, <1>4, <1>5, <1>6, <1>7, <1>8, <1>9, <1>10, <1>11, <1>12,
       <1>13, <1>14, <1>15, <1>16, <1>17, <1>18, <1>19, <1>20, <1>21, <1>22 DEF Next, Step

\* Every reachable state of the focus sessions is well typed, and no counter
\* of distractions passes MAX_DISTRACTIONS_PER_SESSION.
THEOREM StudyTypeCorrect == Spec => []TypeOK
  BY TypeInit, TypeNext, PTL DEF Spec

-----------------------------------------------------------------------------
(* The hours credited to a session that lost contact.                      *)

KeptOrDone == \A p \in Requests : req'[p].pc = "closeStale" => req'[p] = req[p]

LEMMA StudyInit == Init => StudyInv
  BY TypeInit DEF Init, StudyInv, HeartsPast, OnlyManualBeatless, RunningUnclosed,
     HeartsGrow, NoGhostHours, Rows, Active, Idle

\* A step that writes no row and begins no closing.
LEMMA NoRowWritten ==
  ASSUME StudyInv, TypeOK', session' = session, now' \in Nat, now <= now', KeptOrDone
  PROVE  StudyInv'
<1>1. Rows' = Rows /\ Active' = Active BY DEF Rows, Active
<1>2. HeartsPast'
  <2> SUFFICES ASSUME NEW i \in Rows, session[i].heart # None PROVE session[i].heart <= now'
      BY <1>1 DEF HeartsPast
  <2>1. session[i].heart \in Nat BY ActiveType DEF StudyInv, StudySession, NatOrNone
  <2> QED BY <2>1 DEF StudyInv, HeartsPast, TypeOK
<1>3. OnlyManualBeatless' /\ RunningUnclosed'
    BY <1>1 DEF StudyInv, OnlyManualBeatless, RunningUnclosed
<1>4. HeartsGrow'
    BY <1>1 DEF StudyInv, HeartsGrow, KeptOrDone
<1>5. NoGhostHours'
    BY <1>1 DEF StudyInv, NoGhostHours, LastSeen
<1> QED BY <1>2, <1>3, <1>4, <1>5 DEF StudyInv

\* A step that writes one row, old or new, without moving its heartbeat back.
LEMMA RowWritten ==
  ASSUME StudyInv, TypeOK', NEW i \in Ids, NEW new \in StudySession, now' = now,
         KeptOrDone, session' = [session EXCEPT ![i] = new],
         \/ i \in Rows /\ new.heart = session[i].heart
         \/ i \in Rows /\ new.heart = now
         \/ i \in NewIds /\ new.heart \in {now, None},
         new.heart = None => new.end # None /\ new.closedBy = "user",
         new.end = None => new.closedBy = "nobody",
         new.closedBy = "contactLost" => new.end <= LastSeen(new)
  PROVE  StudyInv'
<1>1. session'[i] = new /\ \A j \in Ids \ {i} : session'[j] = session[j]
    BY DEF StudyInv, TypeOK
<1>2. Rows' \subseteq Rows \cup {i} /\ Active' \subseteq Active \cup {i}
    BY <1>1 DEF Rows, Active
<1>3. \A j \in Rows' \ {i} : j \in Rows /\ session'[j] = session[j]
    BY <1>1 DEF Rows
<1>4. HeartsPast'
  <2> SUFFICES ASSUME NEW j \in Rows', session'[j].heart # None
               PROVE  session'[j].heart <= now
      BY DEF HeartsPast
  <2>1. CASE j = i
      BY <1>1, <2>1 DEF StudyInv, HeartsPast, TypeOK
  <2>2. CASE j # i
      BY <1>3, <2>2 DEF StudyInv, HeartsPast
  <2> QED BY <2>1, <2>2
<1>5. OnlyManualBeatless'
    BY <1>1, <1>3 DEF StudyInv, OnlyManualBeatless
<1>6. RunningUnclosed'
    BY <1>1, <1>3 DEF StudyInv, RunningUnclosed, Active
<1>7. NoGhostHours'
    BY <1>1, <1>3 DEF StudyInv, NoGhostHours, LastSeen
<1>8. HeartsGrow'
  <2> SUFFICES ASSUME NEW p \in Requests, req'[p].pc = "closeStale", req'[p].id \in Rows'
               PROVE  /\ req'[p].seen.heart # None
                      /\ session'[req'[p].id].heart # None
                      /\ req'[p].seen.heart <= session'[req'[p].id].heart
      BY DEF HeartsGrow
  <2>1. req'[p] = req[p] /\ req[p].pc = "closeStale" BY DEF KeptOrDone
  <2>2. CASE req[p].id # i
    <3>1. req[p].id \in Rows /\ session'[req[p].id] = session[req[p].id]
        BY <1>3, <2>1, <2>2
    <3> QED BY <2>1, <3>1 DEF StudyInv, HeartsGrow
  <2>3. CASE req[p].id = i
    <3>1. i \in Rows BY <2>3 DEF NewIds
    <3>2. /\ req[p].seen.heart # None
          /\ session[i].heart # None
          /\ req[p].seen.heart <= session[i].heart
        BY <2>1, <2>3, <3>1 DEF StudyInv, HeartsGrow
    <3>3. session[i].heart <= now
        BY <3>1, <3>2 DEF StudyInv, HeartsPast
    <3>4. /\ req[p].seen.heart \in Nat /\ session[i].heart \in Nat /\ now \in Nat
        BY <2>1, <3>1, <3>2, ActiveType DEF StudyInv, TypeOK, StudySession, NatOrNone
    <3>5. new.heart # None /\ req[p].seen.heart <= new.heart
        BY <3>1, <3>2, <3>3, <3>4, StudyAssumption DEF NewIds
    <3> QED BY <1>1, <2>1, <2>3, <3>2, <3>5
  <2> QED BY <2>2, <2>3
<1> QED BY <1>4, <1>5, <1>6, <1>7, <1>8 DEF StudyInv

\* A row that is gone.
LEMMA RowRemoved ==
  ASSUME StudyInv, TypeOK', NEW i \in Ids, now' = now, KeptOrDone,
         session' = [session EXCEPT ![i] = None]
  PROVE  StudyInv'
<1>1. session'[i] = None /\ \A j \in Ids \ {i} : session'[j] = session[j]
    BY DEF StudyInv, TypeOK
<1>2. \A j \in Rows' : j \in Rows /\ session'[j] = session[j]
    BY <1>1 DEF Rows
<1>3. HeartsPast' /\ OnlyManualBeatless'
    BY <1>2 DEF StudyInv, HeartsPast, OnlyManualBeatless
<1>4. RunningUnclosed' /\ NoGhostHours'
    BY <1>2 DEF StudyInv, RunningUnclosed, NoGhostHours, Active, LastSeen
<1>5. HeartsGrow'
    BY <1>2 DEF StudyInv, HeartsGrow, KeptOrDone
<1> QED BY <1>3, <1>4, <1>5 DEF StudyInv

\* A step that reads an active session and decides to close it.
LEMMA ClosingBegun ==
  ASSUME StudyInv, TypeOK', NEW q \in Requests, NEW i \in Active,
         UNCHANGED <<now, session>>, req'[q].id = i, req'[q].seen = session[i],
         \A p \in Requests \ {q} : req'[p] = req[p]
  PROVE  StudyInv'
<1>1. Rows' = Rows /\ Active' = Active BY DEF Rows, Active
<1>2. HeartsPast' /\ OnlyManualBeatless'
    BY <1>1 DEF StudyInv, HeartsPast, OnlyManualBeatless
<1>3. RunningUnclosed' /\ NoGhostHours'
    BY <1>1 DEF StudyInv, RunningUnclosed, NoGhostHours, LastSeen
<1>4. session[i].heart \in Nat
  <2>1. i \in Rows /\ session[i].end = None BY DEF Active
  <2>2. session[i].heart # None BY <2>1 DEF StudyInv, OnlyManualBeatless
  <2> QED BY <2>1, <2>2, ActiveType DEF StudyInv, StudySession, NatOrNone
<1>5. HeartsGrow'
  <2> SUFFICES ASSUME NEW p \in Requests, req'[p].pc = "closeStale", req'[p].id \in Rows'
               PROVE  /\ req'[p].seen.heart # None
                      /\ session'[req'[p].id].heart # None
                      /\ req'[p].seen.heart <= session'[req'[p].id].heart
      BY DEF HeartsGrow
  <2>1. CASE p = q
      BY <1>4, <2>1
  <2>2. CASE p # q
      BY <1>1, <2>2 DEF StudyInv, HeartsGrow
  <2> QED BY <2>1, <2>2
<1> QED BY <1>2, <1>3, <1>5 DEF StudyInv

\* What a request does to itself when it ends or moves on.
LEMMA MovedOn ==
  ASSUME TypeOK, NEW q \in Requests, NEW r, r.pc # "closeStale",
         req' = [req EXCEPT ![q] = r]
  PROVE  KeptOrDone
  BY DEF TypeOK, KeptOrDone

LEMMA GotoMoved ==
  ASSUME TypeOK, NEW q \in Requests, NEW pc \in Pc \ {"closeStale"}, Goto(q, pc)
  PROVE  KeptOrDone
<1>1. req' = [req EXCEPT ![q] = [req[q] EXCEPT !.pc = pc]] BY DEF Goto, TypeOK
<1>2. [req[q] EXCEPT !.pc = pc].pc # "closeStale" BY DEF TypeOK, Request
<1> QED BY <1>1, <1>2, MovedOn

LEMMA FinishMoved ==
  ASSUME TypeOK, NEW q \in Requests, Finish(q)
  PROVE  KeptOrDone
<1>1. Idle.pc # "closeStale" BY DEF Idle
<1> QED BY <1>1, MovedOn DEF Finish

\* A write by id: of a row that is still there, or of nothing.
LEMMA Overwritten ==
  ASSUME StudyInv, TypeOK', NEW q \in Requests, NEW new, req[q].id \in Ids,
         Overwrite(q, new), now' = now,
         req[q].id \in Rows =>
           /\ new \in StudySession
           /\ new.heart = session[req[q].id].heart
           /\ new.end # None
           /\ new.closedBy \in {"user", "contactLost"}
           /\ new.closedBy = "contactLost"
                => new.heart # None /\ new.end <= LastSeen(new)
  PROVE  StudyInv'
<1>1. CASE session[req[q].id] = None
  <2>1. Finish(q) /\ session' = session BY <1>1 DEF Overwrite
  <2> QED BY <2>1, FinishMoved, NoRowWritten DEF StudyInv, TypeOK
<1>2. CASE session[req[q].id] # None
  <2>1. session' = [session EXCEPT ![req[q].id] = new] /\ Goto(q, "forget")
      BY <1>2 DEF Overwrite
  <2>2. req[q].id \in Rows BY <1>2 DEF Rows
  <2>3. KeptOrDone BY <2>1, GotoMoved DEF StudyInv, Pc
  <2>4. new.heart = None => new.closedBy = "user" BY <2>2
  <2> QED BY <2>1, <2>2, <2>3, <2>4, RowWritten
<1> QED BY <1>1, <1>2

\* Every step keeps StudyInv.
LEMMA StudyNext == StudyInv /\ [Next]_vars => StudyInv'
<1> SUFFICES ASSUME StudyInv, [Next]_vars PROVE StudyInv'
    OBVIOUS
<1>a. TypeOK /\ TypeOK'
    BY TypeNext DEF StudyInv
<1>b. now \in Nat /\ req \in [Requests -> Request]
    BY <1>a DEF TypeOK
<1>c. ASSUME NEW q \in Requests, NEW then \in {"idle", "findActive"}, AutoClose(q, then)
      PROVE  StudyInv'
  <2>1. PICK i \in Active : req' = [req EXCEPT ![q] = [Idle EXCEPT !.pc = "closeStale",
                                      !.id = i, !.seen = session[i], !.then = then]]
      BY <1>c DEF AutoClose
  <2>2. /\ req'[q].id = i /\ req'[q].seen = session[i]
        /\ \A p \in Requests \ {q} : req'[p] = req[p]
      BY <1>b, <2>1 DEF Idle
  <2>3. UNCHANGED <<now, session>> BY <1>c DEF AutoClose
  <2> QED BY <1>a, <2>2, <2>3, ClosingBegun
<1>d. ASSUME NEW q \in Requests, NEW r, r.pc # "closeStale",
             req' = [req EXCEPT ![q] = r], UNCHANGED <<now, session>>
      PROVE  StudyInv'
  <2>1. KeptOrDone BY <1>a, <1>d, MovedOn
  <2>2. now' \in Nat /\ now <= now' BY <1>b, <1>d
  <2> QED BY <1>a, <1>d, <2>1, <2>2, NoRowWritten
<1>e. ASSUME NEW q \in Requests, NEW pc \in Pc \ {"closeStale"}, Goto(q, pc),
             UNCHANGED <<now, session>>
      PROVE  StudyInv'
    BY <1>a, <1>b, <1>e, GotoMoved, NoRowWritten
<1>f. ASSUME NEW q \in Requests, Finish(q), UNCHANGED <<now, session>>
      PROVE  StudyInv'
    BY <1>a, <1>b, <1>f, FinishMoved, NoRowWritten
<1>1. ASSUME NEW q \in Requests, BeginStart(q) PROVE StudyInv'
  <2>1. CASE AutoClose(q, "findActive")
      BY <1>c, <2>1
  <2>2. CASE /\ req' = [req EXCEPT ![q] = [Idle EXCEPT !.pc = "findActive"]]
             /\ UNCHANGED <<now, session, heatmap>>
    <3>1. [Idle EXCEPT !.pc = "findActive"].pc # "closeStale" BY DEF Idle
    <3> QED BY <1>d, <2>2, <3>1
  <2> QED BY <1>1, <2>1, <2>2 DEF BeginStart
<1>2. ASSUME NEW q \in Requests, GetActive(q) PROVE StudyInv'
    BY <1>2, <1>c DEF GetActive
<1>3. ASSUME NEW q \in Requests, BeginHeartbeat(q) PROVE StudyInv'
  <2> DEFINE closing(i) == [Idle EXCEPT !.pc = "closeStale", !.id = i, !.seen = session[i]]
  <2> DEFINE beating(i) == [Idle EXCEPT !.pc = "beat", !.id = i]
  <2>1. PICK i \in Active : \/ req' = [req EXCEPT ![q] = closing(i)]
                            \/ req' = [req EXCEPT ![q] = beating(i)]
      BY <1>3 DEF BeginHeartbeat
  <2>2. UNCHANGED <<now, session>> BY <1>3 DEF BeginHeartbeat
  <2>3. CASE req' = [req EXCEPT ![q] = closing(i)]
    <3>1. /\ req'[q].id = i /\ req'[q].seen = session[i]
          /\ \A p \in Requests \ {q} : req'[p] = req[p]
        BY <1>b, <2>3 DEF Idle
    <3> QED BY <1>a, <2>2, <3>1, ClosingBegun
  <2>4. CASE req' = [req EXCEPT ![q] = beating(i)]
    <3>1. beating(i).pc # "closeStale" BY DEF Idle
    <3> HIDE DEF beating
    <3> QED BY <1>d, <2>2, <2>4, <3>1
  <2> QED BY <2>1, <2>3, <2>4
<1>4. ASSUME NEW q \in Requests, BeginStop(q) PROVE StudyInv'
  <2>1. PICK i \in Active, said \in 0 .. now + FutureTolerance :
          req' = [req EXCEPT ![q] = [Idle EXCEPT !.pc = "stop", !.id = i,
                    !.end = ClampToMaxSession(session[i].start, said)]]
      BY <1>4 DEF BeginStop
  <2>2. [Idle EXCEPT !.pc = "stop", !.id = i,
           !.end = ClampToMaxSession(session[i].start, said)].pc # "closeStale"
      BY DEF Idle
  <2> QED BY <1>4, <1>d, <2>1, <2>2 DEF BeginStop
<1>5. ASSUME NEW q \in Requests, BeginManual(q) PROVE StudyInv'
  <2>1. PICK start \in 0 .. now + FutureTolerance, end \in 0 .. now + FutureTolerance :
          req' = [req EXCEPT ![q] = [Idle EXCEPT !.pc = "insert",
                                       !.start = start, !.end = end]]
      BY <1>5 DEF BeginManual
  <2>2. [Idle EXCEPT !.pc = "insert", !.start = start, !.end = end].pc # "closeStale"
      BY DEF Idle
  <2> QED BY <1>5, <1>d, <2>1, <2>2 DEF BeginManual
<1>6. ASSUME NEW q \in Requests, BeginUpdate(q) PROVE StudyInv'
  <2>1. PICK i \in Finished, start \in 0 .. now + FutureTolerance,
             end \in 0 .. now + FutureTolerance :
          req' = [req EXCEPT ![q] = [Idle EXCEPT !.pc = "checkOverlap", !.id = i,
                                       !.start = start, !.end = end]]
      BY <1>6 DEF BeginUpdate
  <2>2. [Idle EXCEPT !.pc = "checkOverlap", !.id = i,
                     !.start = start, !.end = end].pc # "closeStale"
      BY DEF Idle
  <2> QED BY <1>6, <1>d, <2>1, <2>2 DEF BeginUpdate
<1>7. ASSUME NEW q \in Requests, Remove(q) PROVE StudyInv'
  <2>1. PICK i \in Finished : session' = [session EXCEPT ![i] = None]
      BY <1>7 DEF Remove
  <2>2. [Idle EXCEPT !.pc = "forget"].pc # "closeStale" BY DEF Idle
  <2>3. KeptOrDone BY <1>7, <1>a, <2>2, MovedOn DEF Remove
  <2> QED BY <1>7, <1>a, <2>1, <2>3, RowRemoved DEF Remove, Finished, Rows
<1>8. ASSUME NEW q \in Requests, BeginHeatmap(q) PROVE StudyInv'
  <2>1. [Idle EXCEPT !.pc = "cacheHeatmap", !.grid = Grid].pc # "closeStale" BY DEF Idle
  <2> QED BY <1>8, <1>d, <2>1 DEF BeginHeatmap
<1>9. ASSUME NEW q \in Requests, CloseStale(q) PROVE StudyInv'
  <2> DEFINE seen == req[q].seen
  <2> DEFINE new == [session[req[q].id] EXCEPT !.end = EndWhenLost(seen),
                                               !.closedBy = "contactLost"]
  <2>1. seen \in StudySession /\ req[q].id \in Ids /\ req[q].pc = "closeStale"
      BY <1>9, <1>a DEF CloseStale, TypeOK
  <2>2. EndWhenLost(seen) \in Nat /\ EndWhenLost(seen) <= LastSeen(seen)
    <3>1. seen.start \in Nat /\ LastSeen(seen) \in Nat
        BY <2>1, LastSeenType DEF StudySession
    <3> QED BY <3>1, ClampType DEF EndWhenLost
  <2>3. ASSUME req[q].id \in Rows
        PROVE  /\ new \in StudySession
               /\ new.heart = session[req[q].id].heart
               /\ new.end # None
               /\ new.closedBy = "contactLost"
               /\ new.heart # None /\ new.end <= LastSeen(new)
    <3>1. session[req[q].id] \in StudySession BY <2>3, <1>a, ActiveType
    <3>2. /\ new \in StudySession
          /\ new.heart = session[req[q].id].heart
          /\ new.end = EndWhenLost(seen)
          /\ new.closedBy = "contactLost"
        BY <2>2, <3>1 DEF StudySession, NatOrNone
    <3>3. /\ seen.heart # None /\ new.heart # None /\ seen.heart <= new.heart
        BY <2>1, <2>3, <3>2 DEF StudyInv, HeartsGrow
    <3>4. seen.heart \in Nat /\ new.heart \in Nat
        BY <2>1, <3>2, <3>3 DEF StudySession, NatOrNone
    <3>5. LastSeen(new) = new.heart /\ LastSeen(seen) = seen.heart
        BY <3>3 DEF LastSeen
    <3>6. new.end <= LastSeen(new)
      <4> HIDE DEF seen, new
      <4> QED BY <2>2, <3>2, <3>3, <3>4, <3>5
    <3> QED BY <2>2, <3>2, <3>3, <3>6, StudyAssumption
  <2>4. Overwrite(q, new) /\ now' = now BY <1>9 DEF CloseStale
  <2> HIDE DEF new
  <2> QED BY <1>a, <2>1, <2>3, <2>4, Overwritten
<1>10. ASSUME NEW q \in Requests, FindActive(q) PROVE StudyInv'
    BY <1>10, <1>e, <1>f DEF FindActive, Pc
<1>11. ASSUME NEW q \in Requests, Create(q) PROVE StudyInv'
  <2>1. PICK i \in NewIds, p \in {None} \cup {now + d : d \in 1 .. MaxPlanned} :
          session' = [session EXCEPT ![i] =
            [start |-> now, end |-> None, heart |-> now, distractions |-> 0,
             plan |-> p, closedBy |-> "nobody"]]
      BY <1>11 DEF Create
  <2> DEFINE new == [start |-> now, end |-> None, heart |-> now, distractions |-> 0,
                     plan |-> p, closedBy |-> "nobody"]
  <2>2. new \in StudySession /\ i \in Ids
      BY <1>b DEF StudySession, NatOrNone, NewIds
  <2>3. KeptOrDone /\ now' = now
      BY <1>11, <1>a, FinishMoved DEF Create
  <2>4. new.heart = now /\ new.heart # None /\ new.closedBy = "nobody"
      BY <1>b, StudyAssumption
  <2> HIDE DEF new
  <2>5. session' = [session EXCEPT ![i] = new] BY <2>1 DEF new
  <2> QED BY <1>a, <2>2, <2>3, <2>4, <2>5, RowWritten
<1>12. ASSUME NEW q \in Requests, Beat(q) PROVE StudyInv'
  <2>1. Finish(q) /\ now' = now BY <1>12 DEF Beat
  <2>2. CASE req[q].id \in Active
    <3> DEFINE i == req[q].id
    <3> DEFINE new == [session[i] EXCEPT !.heart = now]
    <3>1. i \in Rows /\ session[i].end = None /\ session[i] \in StudySession
        BY <2>2, <1>a, ActiveType DEF Active
    <3>2. session[i].closedBy = "nobody" BY <2>2 DEF StudyInv, RunningUnclosed
    <3>3. /\ new \in StudySession /\ new.heart = now /\ new.heart # None
          /\ new.closedBy = "nobody"
        BY <1>b, <3>1, <3>2 DEF StudySession, NatOrNone
    <3>4. session' = [session EXCEPT ![i] = new]
        BY <1>12, <2>2 DEF Beat
    <3>5. KeptOrDone BY <1>a, <2>1, FinishMoved
    <3>6. i \in Ids BY <3>1 DEF Rows
    <3> HIDE DEF new
    <3> QED BY <1>a, <2>1, <3>1, <3>3, <3>4, <3>5, <3>6, RowWritten
  <2>3. CASE req[q].id \notin Active
      BY <1>12, <1>f, <2>1, <2>3 DEF Beat
  <2> QED BY <2>2, <2>3
<1>13. ASSUME NEW q \in Requests, Stop(q) PROVE StudyInv'
  <2> DEFINE new == [session[req[q].id] EXCEPT !.end = req[q].end, !.closedBy = "user"]
  <2>1. req[q].id \in Ids /\ req[q].end \in Nat
      BY <1>13, <1>a DEF Stop, TypeOK, Request
  <2>2. ASSUME req[q].id \in Rows
        PROVE  /\ new \in StudySession /\ new.heart = session[req[q].id].heart
               /\ new.end # None /\ new.closedBy = "user"
      BY <1>a, <2>1, <2>2, ActiveType DEF StudySession, NatOrNone
  <2>3. Overwrite(q, new) /\ now' = now BY <1>13 DEF Stop
  <2> HIDE DEF new
  <2> QED BY <1>a, <2>1, <2>2, <2>3, Overwritten
<1>14. ASSUME NEW q \in Requests, InsertManual(q) PROVE StudyInv'
  <2> DEFINE new == [start |-> req[q].start, end |-> req[q].end, heart |-> None,
                     distractions |-> 0, plan |-> None, closedBy |-> "user"]
  <2>1. PICK i \in NewIds : session' = [session EXCEPT ![i] = new]
      BY <1>14 DEF InsertManual
  <2>2. req[q].start \in Nat /\ req[q].end \in Nat BY <1>b DEF Request
  <2>3. new \in StudySession /\ i \in Ids
      BY <2>2 DEF StudySession, NatOrNone, NewIds
  <2>4. KeptOrDone /\ now' = now
      BY <1>14, <1>a, GotoMoved DEF InsertManual, Pc
  <2>5. new.heart = None /\ new.end # None /\ new.closedBy = "user"
      BY <2>2, StudyAssumption
  <2> HIDE DEF new
  <2> QED BY <1>a, <2>1, <2>3, <2>4, <2>5, RowWritten
<1>15. ASSUME NEW q \in Requests, CheckOverlap(q) PROVE StudyInv'
    BY <1>15, <1>e, <1>f DEF CheckOverlap, Pc
<1>16. ASSUME NEW q \in Requests, Update(q) PROVE StudyInv'
  <2> DEFINE new == [session[req[q].id] EXCEPT !.start = req[q].start,
                                               !.end = req[q].end, !.closedBy = "user"]
  <2>1. req[q].id \in Ids /\ req[q].end \in Nat /\ req[q].start \in Nat
      BY <1>16, <1>a DEF Update, TypeOK, Request
  <2>2. ASSUME req[q].id \in Rows
        PROVE  /\ new \in StudySession /\ new.heart = session[req[q].id].heart
               /\ new.end # None /\ new.closedBy = "user"
      BY <1>a, <2>1, <2>2, ActiveType DEF StudySession, NatOrNone
  <2>3. Overwrite(q, new) /\ now' = now BY <1>16 DEF Update
  <2> HIDE DEF new
  <2> QED BY <1>a, <2>1, <2>2, <2>3, Overwritten
<1>17. ASSUME NEW q \in Requests, CacheHeatmap(q) PROVE StudyInv'
    BY <1>17, <1>f DEF CacheHeatmap
<1>18. ASSUME NEW q \in Requests, Forget(q) PROVE StudyInv'
  <2> DEFINE r == IF req[q].then = "idle" THEN Idle
                  ELSE [req[q] EXCEPT !.pc = req[q].then, !.then = "idle"]
  <2>1. req' = [req EXCEPT ![q] = r] BY <1>18, <1>b DEF Forget
  <2>2. r.pc # "closeStale" BY <1>b DEF Idle, Request
  <2> HIDE DEF r
  <2> QED BY <1>18, <1>d, <2>1, <2>2 DEF Forget
<1>19. CASE RecordDistraction
  <2>1. PICK i \in Active : /\ session[i].distractions < MaxDistractions
                            /\ session' = [session EXCEPT ![i].distractions = @ + 1]
      BY <1>19 DEF RecordDistraction
  <2> DEFINE new == [session[i] EXCEPT !.distractions = @ + 1]
  <2>2. i \in Rows /\ session[i].end = None /\ session[i] \in StudySession
      BY <1>a, ActiveType DEF Active
  <2>3. session[i].closedBy = "nobody" /\ session[i].heart # None
      BY <2>2 DEF StudyInv, RunningUnclosed, OnlyManualBeatless
  <2>4. /\ new \in StudySession /\ new.heart = session[i].heart
        /\ new.closedBy = "nobody" /\ i \in Ids
      BY <2>1, <2>2, <2>3 DEF StudySession, Rows
  <2>5. session' = [session EXCEPT ![i] = new] BY <2>1
  <2>6. KeptOrDone /\ now' = now BY <1>19 DEF RecordDistraction, KeptOrDone
  <2> HIDE DEF new
  <2> QED BY <1>a, <2>2, <2>3, <2>4, <2>5, <2>6, RowWritten
<1>20. CASE Tick
    BY <1>a, <1>b, <1>20, NoRowWritten DEF Tick, KeptOrDone
<1>21. CASE Restart
  <2>1. KeptOrDone BY <1>21 DEF Restart, KeptOrDone, Idle
  <2> QED BY <1>a, <1>b, <1>21, <2>1, NoRowWritten DEF Restart
<1>22. CASE UNCHANGED vars
    BY <1>a, <1>b, <1>22, NoRowWritten DEF vars, KeptOrDone
<1> QED
    BY <1>1, <1>2, <1>3, <1>4, <1>5, <1>6, <1>7, <1>8, <1>9, <1>10, <1>11, <1>12,
       <1>13, <1>14, <1>15, <1>16, <1>17, <1>18, <1>19, <1>20, <1>21, <1>22 DEF Next, Step

\* However requests race (a heartbeat or a stop between the read that finds a
\* session forgotten and the write that closes it), a session closed for lack
\* of contact is credited with no time after its last heartbeat.
THEOREM GhostHoursNeverCredited == Spec => []NoGhostHours
<1>1. Init => StudyInv BY StudyInit
<1>2. StudyInv /\ [Next]_vars => StudyInv' BY StudyNext
<1>3. StudyInv => NoGhostHours BY DEF StudyInv
<1> QED BY <1>1, <1>2, <1>3, PTL DEF Spec

-----------------------------------------------------------------------------

FinalExcept(i) ==
  session'[i] # None => /\ session'[i].end # None
                        /\ session'[i].heart = session[i].heart
                        /\ session'[i].distractions = session[i].distractions

LEMMA OverwriteFinal ==
  ASSUME TypeOK, NEW q \in Requests, NEW new, req[q].id \in Ids, Overwrite(q, new),
         session[req[q].id] # None =>
           /\ new.end # None
           /\ new.heart = session[req[q].id].heart
           /\ new.distractions = session[req[q].id].distractions
  PROVE  \A i \in Finished : FinalExcept(i)
  BY DEF Overwrite, TypeOK, FinalExcept, Finished, Rows

\* No request revives a closed session: once it has an end, its heartbeat and
\* its distractions never change again, whatever write was already under way.
THEOREM ClosedForGood == Spec => ClosedStaysClosed
<1>1. ASSUME TypeOK, [Next]_vars PROVE \A i \in Finished : FinalExcept(i)
  <2>a. /\ session \in [Ids -> StudySession \cup {None}]
        /\ \A i \in Rows : i \in Ids /\ session[i] \in StudySession
      BY <1>1, ActiveType DEF TypeOK
  <2>b. session' = session => \A i \in Finished : FinalExcept(i)
      BY DEF FinalExcept, Finished
  <2>1. ASSUME NEW q \in Requests, CloseStale(q) PROVE \A i \in Finished : FinalExcept(i)
    <3>1. req[q].id \in Ids /\ req[q].seen \in StudySession
        BY <1>1, <2>1 DEF CloseStale, TypeOK
    <3>2. EndWhenLost(req[q].seen) \in Nat
        BY <3>1, ClampType, LastSeenType DEF EndWhenLost, StudySession
    <3> QED BY <1>1, <2>1, <2>a, <3>1, <3>2, OverwriteFinal, StudyAssumption
            DEF CloseStale, StudySession
  <2>2. ASSUME NEW q \in Requests, Stop(q) PROVE \A i \in Finished : FinalExcept(i)
    <3>1. req[q].id \in Ids /\ req[q].end \in Nat
        BY <1>1, <2>2 DEF Stop, TypeOK, Request
    <3> QED BY <1>1, <2>2, <2>a, <3>1, OverwriteFinal, StudyAssumption
            DEF Stop, StudySession
  <2>3. ASSUME NEW q \in Requests, Update(q) PROVE \A i \in Finished : FinalExcept(i)
    <3>1. req[q].id \in Ids /\ req[q].end \in Nat
        BY <1>1, <2>3 DEF Update, TypeOK, Request
    <3> QED BY <1>1, <2>3, <2>a, <3>1, OverwriteFinal, StudyAssumption
            DEF Update, StudySession
  <2>4. ASSUME NEW q \in Requests, Create(q) \/ InsertManual(q)
        PROVE  \A i \in Finished : FinalExcept(i)
      BY <2>4, <2>a DEF Create, InsertManual, NewIds, Finished, FinalExcept
  <2>5. ASSUME NEW q \in Requests, Beat(q) PROVE \A i \in Finished : FinalExcept(i)
      BY <2>5, <2>a DEF Beat, Active, Finished, FinalExcept
  <2>6. ASSUME NEW q \in Requests, Remove(q) PROVE \A i \in Finished : FinalExcept(i)
      BY <2>6, <2>a DEF Remove, Finished, FinalExcept
  <2>7. CASE RecordDistraction
      BY <2>7, <2>a DEF RecordDistraction, Active, Finished, FinalExcept
  <2>8. ASSUME NEW q \in Requests,
               \/ BeginStart(q) \/ GetActive(q) \/ BeginHeartbeat(q) \/ BeginStop(q)
               \/ BeginManual(q) \/ BeginUpdate(q) \/ BeginHeatmap(q) \/ FindActive(q)
               \/ CheckOverlap(q) \/ CacheHeatmap(q) \/ Forget(q)
        PROVE  session' = session
      BY <2>8 DEF BeginStart, GetActive, AutoClose, BeginHeartbeat, BeginStop, BeginManual,
                  BeginUpdate, BeginHeatmap, FindActive, CheckOverlap, CacheHeatmap, Forget
  <2>9. CASE Tick \/ Restart \/ UNCHANGED vars
      BY <2>9, <2>b DEF Tick, Restart, vars
  <2> QED BY <1>1, <2>b, <2>1, <2>2, <2>3, <2>4, <2>5, <2>6, <2>7, <2>8, <2>9 DEF Next, Step
<1>2. TypeOK /\ [Next]_vars
        => [\A i \in Finished :
              session'[i] # None => /\ session'[i].end # None
                                    /\ session'[i].heart = session[i].heart
                                    /\ session'[i].distractions = session[i].distractions]_vars
    BY <1>1 DEF FinalExcept
<1> QED BY <1>2, TypeInit, TypeNext, PTL DEF Spec, ClosedStaysClosed
-----------------------------------------------------------------------------
(* Requests that follow one another.                                       *)

\* The windows of a row that is finished, or about to be.
Sound(t, start, end) ==
  start <= end /\ end <= t + FutureTolerance /\ end - start <= MaxSession

\* What sets a running session apart from the finished ones is stronger than
\* NoOverlap: it stays true while the session runs on, and whatever its end.
RowsApart ==
  /\ \A i, j \in Active : i = j
  /\ \A i \in Active : /\ session[i].start <= session[i].heart
                       /\ \A j \in Finished : session[j].end - session[i].start <= FutureTolerance
  /\ \A i \in Finished : Sound(now, session[i].start, session[i].end)
  /\ \A i, j \in Finished : i # j =>
       \/ session[i].end - session[j].start <= FutureTolerance
       \/ session[j].end - session[i].start <= FutureTolerance

\* What the request under way has read is still true.
StillTrue(r) ==
  /\ r.pc = "closeStale" => /\ r.id \in Active
                            /\ r.seen.start = session[r.id].start
                            /\ r.seen.heart = session[r.id].heart
  /\ r.pc = "stop" => r.id \in Active /\ Sound(now, session[r.id].start, r.end)
  /\ r.pc = "create" => Active = {}
  /\ r.pc \in {"insert", "checkOverlap", "update"} => Sound(now, r.start, r.end) /\ r.start < r.end
  /\ r.pc = "insert" => ~Clashes(r.start, r.end, None)
  /\ r.pc \in {"checkOverlap", "update"} => r.id \in Finished
  /\ r.pc = "update" => ~Clashes(r.start, r.end, r.id)
  /\ r.pc = "cacheHeatmap" => r.grid = Grid

SerialInv ==
  /\ StudyInv /\ RowsApart /\ HeatmapFresh
  /\ \A q \in Requests : StillTrue(req[q])
LEMMA RowNumbers ==
  ASSUME StudyInv
  PROVE  /\ now \in Nat
         /\ \A i \in Active : /\ i \in Ids /\ session[i].end = None
                              /\ session[i].start \in Nat
                              /\ session[i].heart \in Nat /\ session[i].heart <= now
         /\ \A i \in Finished : /\ i \in Ids /\ session[i].end # None
                                /\ session[i].start \in Nat /\ session[i].end \in Nat
<1>1. now \in Nat BY DEF StudyInv, TypeOK
<1>2. ASSUME NEW i \in Active
      PROVE  /\ i \in Ids /\ session[i].end = None
             /\ session[i].start \in Nat
             /\ session[i].heart \in Nat /\ session[i].heart <= now
  <2>1. i \in Rows /\ i \in Ids /\ session[i] \in StudySession /\ session[i].end = None
      BY ActiveType DEF StudyInv, Active
  <2>2. session[i].heart # None BY <2>1 DEF StudyInv, OnlyManualBeatless
  <2> QED BY <2>1, <2>2 DEF StudyInv, HeartsPast, StudySession, NatOrNone
<1>3. ASSUME NEW i \in Finished
      PROVE  /\ i \in Ids /\ session[i].end # None
             /\ session[i].start \in Nat /\ session[i].end \in Nat
  <2>1. i \in Ids /\ session[i] \in StudySession /\ session[i].end # None
      BY ActiveType DEF StudyInv, Finished
  <2> QED BY <2>1 DEF StudySession, NatOrNone
<1> QED BY <1>1, <1>2, <1>3

\* When a request makes a step, the others are idle.
LEMMA Alone ==
  ASSUME TypeOK, OneByOne, OneByOne', NEW q \in Requests, NEW r,
         req' = [req EXCEPT ![q] = r], req[q] # Idle \/ r # Idle
  PROVE  \A p \in Requests \ {q} : req[p] = Idle /\ req'[p] = Idle
<1>1. req'[q] = r /\ \A p \in Requests \ {q} : req'[p] = req[p] BY DEF TypeOK
<1> QED BY <1>1 DEF OneByOne

LEMMA Serially ==
  ASSUME SerialInv, OneByOne, OneByOne', StudyInv', NEW q \in Requests, NEW r,
         req' = [req EXCEPT ![q] = r], req[q] # Idle \/ r # Idle,
         RowsApart', HeatmapFresh', StillTrue(r)'
  PROVE  SerialInv'
<1>1. req'[q] = r /\ \A p \in Requests \ {q} : req'[p] = Idle
    BY Alone DEF SerialInv, StudyInv, TypeOK
<1>2. \A p \in Requests \ {q} : StillTrue(req[p])'
    BY <1>1 DEF StillTrue, Idle
<1>3. StillTrue(req[q])'
    BY <1>1 DEF StillTrue
<1> QED BY <1>2, <1>3 DEF SerialInv

\* A step that writes no row, at the same time.
LEMMA SerialRead ==
  ASSUME SerialInv, OneByOne, OneByOne', StudyInv', NEW q \in Requests, NEW r,
         req' = [req EXCEPT ![q] = r], req[q] # Idle \/ r # Idle,
         UNCHANGED <<now, session>>, HeatmapFresh', StillTrue(r)
  PROVE  SerialInv'
<1>1. RowsApart'
    BY DEF SerialInv, RowsApart, Active, Finished, Rows, Sound
<1>2. StillTrue(r)'
    BY DEF StillTrue, Active, Finished, Rows, Sound, Clashes, Grid
<1> QED BY <1>1, <1>2, Serially

\* A grid in the cache is the current one unless the request that makes the
\* step is about to delete it.
LEMMA CachedIsCurrent ==
  ASSUME SerialInv, OneByOne, OneByOne', NEW q \in Requests, NEW r,
         req' = [req EXCEPT ![q] = r], req[q] # Idle \/ r # Idle, req[q].pc # "forget"
  PROVE  heatmap = None \/ heatmap.grid = Grid
<1>1. \A p \in Requests \ {q} : req[p] = Idle
    BY Alone DEF SerialInv, StudyInv
<1> QED BY <1>1 DEF SerialInv, HeatmapFresh, Idle

LEMMA SerialQuiet ==
  ASSUME SerialInv, OneByOne, OneByOne', StudyInv', NEW q \in Requests, NEW r,
         req' = [req EXCEPT ![q] = r], req[q] # Idle \/ r # Idle,
         UNCHANGED <<now, session, heatmap>>, req[q].pc # "forget", StillTrue(r)
  PROVE  SerialInv'
<1>1. heatmap = None \/ heatmap.grid = Grid BY CachedIsCurrent
<1>2. Grid' = Grid BY DEF Grid, Finished, Rows
<1>3. HeatmapFresh' BY <1>1, <1>2 DEF HeatmapFresh
<1> QED BY <1>3, SerialRead

\* A step that writes a row and then only forgets the heatmap, or ends.
LEMMA SerialWrite ==
  ASSUME SerialInv, OneByOne, OneByOne', StudyInv', NEW q \in Requests, NEW r,
         req' = [req EXCEPT ![q] = r], req[q] # Idle \/ r # Idle, req[q].pc # "forget",
         r.pc \in {"idle", "forget"}, r.pc = "forget" \/ Grid' = Grid,
         UNCHANGED heatmap, RowsApart'
  PROVE  SerialInv'
<1>1. heatmap = None \/ heatmap.grid = Grid BY CachedIsCurrent
<1>2. req'[q] = r BY DEF SerialInv, StudyInv, TypeOK
<1>3. HeatmapFresh' BY <1>1, <1>2 DEF HeatmapFresh
<1>4. StillTrue(r)' BY DEF StillTrue
<1> QED BY <1>3, <1>4, Serially

-----------------------------------------------------------------------------
(* What one row written does to the others.                                *)

LEMMA OneRow ==
  ASSUME TypeOK, NEW i \in Ids, NEW new, session' = [session EXCEPT ![i] = new]
  PROVE  session'[i] = new /\ \A j \in Ids \ {i} : session'[j] = session[j]
  BY DEF TypeOK

\* The running session ends with a sound window.
LEMMA SessionEnds ==
  ASSUME StudyInv, RowsApart, NEW i \in Active, NEW new \in StudySession,
         new.start = session[i].start, new.end \in Nat, Sound(now, new.start, new.end),
         session' = [session EXCEPT ![i] = new], now' = now
  PROVE  RowsApart'
<1>1. session'[i] = new /\ \A j \in Ids \ {i} : session'[j] = session[j]
    BY OneRow DEF StudyInv, Active, Rows
<1>2. new # None /\ new.end # None /\ new.start \in Nat
    BY NoneAssumption DEF StudySession, NatOrNone
<1>3. Active' = {}
    BY <1>1, <1>2 DEF RowsApart, Active, Rows
<1>4. \A j \in Finished' \ {i} : j \in Finished /\ session'[j] = session[j]
    BY <1>1 DEF Finished, Rows
<1>5. \A j \in Finished : /\ session[j].end \in Nat /\ session[j].start \in Nat
                          /\ session[j].end - session[i].start <= FutureTolerance
                          /\ Sound(now, session[j].start, session[j].end)
    BY RowNumbers DEF RowsApart
<1>6. \A j \in Finished' : Sound(now', session'[j].start, session'[j].end)
    BY <1>1, <1>4, <1>5 DEF Sound
<1>7. \A j, k \in Finished' : j # k =>
        \/ session'[j].end - session'[k].start <= FutureTolerance
        \/ session'[k].end - session'[j].start <= FutureTolerance
    BY <1>1, <1>4, <1>5 DEF RowsApart
<1> QED BY <1>3, <1>6, <1>7 DEF RowsApart
\* A row that is finished, old or new, gets a window of its own.
LEMMA WindowWritten ==
  ASSUME StudyInv, RowsApart, NEW i \in Ids \ Active, NEW new \in StudySession,
         new.end \in Nat, Sound(now, new.start, new.end),
         new.start < new.end, ~Clashes(new.start, new.end, i),
         session' = [session EXCEPT ![i] = new], now' = now
  PROVE  RowsApart'
<1>1. session'[i] = new /\ \A j \in Ids \ {i} : session'[j] = session[j]
    BY OneRow DEF StudyInv
<1>2. new # None /\ new.end # None /\ new.start \in Nat
    BY NoneAssumption DEF StudySession, NatOrNone
<1>3. Active' = Active /\ \A j \in Active : j # i /\ session'[j] = session[j]
    BY <1>1, <1>2 DEF Active, Rows
<1>4. \A j \in Finished' \ {i} : j \in Finished /\ session'[j] = session[j]
    BY <1>1 DEF Finished, Rows
<1>5. /\ \A j \in Finished : /\ session[j].end \in Nat /\ session[j].start \in Nat
                             /\ Sound(now, session[j].start, session[j].end)
      /\ \A j \in Active : session[j].start \in Nat
    BY RowNumbers DEF RowsApart
<1>6. \A j \in Active : new.end - session[j].start <= FutureTolerance
  <2> SUFFICES ASSUME NEW j \in Active PROVE new.end - session[j].start <= FutureTolerance
      OBVIOUS
  <2>1. j \in Rows \ {i} /\ session[j].end = None BY <1>3 DEF Active
  <2>2. ~(session[j].start < new.end) BY <2>1 DEF Clashes
  <2> QED BY <1>5, <2>2
<1>7. \A j \in Finished \ {i} : \/ new.end - session[j].start <= FutureTolerance
                                \/ session[j].end - new.start <= FutureTolerance
  <2> SUFFICES ASSUME NEW j \in Finished \ {i}
               PROVE  \/ new.end - session[j].start <= FutureTolerance
                      \/ session[j].end - new.start <= FutureTolerance
      OBVIOUS
  <2>1. j \in Rows \ {i} BY DEF Finished
  <2>2. ~(session[j].start < new.end) \/ ~(session[j].end > new.start) BY <2>1 DEF Clashes
  <2> QED BY <1>2, <1>5, <2>2
<1>8. \A j \in Finished' : Sound(now', session'[j].start, session'[j].end)
    BY <1>1, <1>4, <1>5 DEF Sound
<1>9. \A j, k \in Finished' : j # k =>
        \/ session'[j].end - session'[k].start <= FutureTolerance
        \/ session'[k].end - session'[j].start <= FutureTolerance
    BY <1>1, <1>4, <1>7 DEF RowsApart
<1>10. \A j \in Active', k \in Finished' : session'[k].end - session'[j].start <= FutureTolerance
    BY <1>1, <1>3, <1>4, <1>6 DEF RowsApart
<1>11. /\ \A j, k \in Active' : j = k
       /\ \A j \in Active' : session'[j].start <= session'[j].heart
    BY <1>3 DEF RowsApart
<1> QED BY <1>8, <1>9, <1>10, <1>11 DEF RowsApart

\* A session starts when none is running.
LEMMA SessionStarts ==
  ASSUME StudyInv, RowsApart, Active = {}, NEW i \in NewIds, NEW new \in StudySession,
         new.start = now, new.heart = now, new.end = None,
         session' = [session EXCEPT ![i] = new], now' = now
  PROVE  RowsApart' /\ Grid' = Grid
<1>1. session'[i] = new /\ \A j \in Ids \ {i} : session'[j] = session[j]
    BY OneRow DEF StudyInv, NewIds
<1>2. new # None /\ i \in Ids /\ i \notin Rows BY NoneAssumption DEF NewIds
<1>3. Active' = {i}
    BY <1>1, <1>2 DEF Active, Rows
<1>4. Finished' = Finished /\ \A j \in Finished : session'[j] = session[j]
    BY <1>1, <1>2 DEF Finished, Rows
<1>5. \A j \in Finished : /\ session[j].end \in Nat /\ session[j].start \in Nat
                          /\ Sound(now, session[j].start, session[j].end)
    BY RowNumbers DEF RowsApart
<1>6. now \in Nat BY RowNumbers
<1>7. Grid' = Grid BY <1>4 DEF Grid
<1>8. \A j \in Finished' : Sound(now', session'[j].start, session'[j].end)
    BY <1>4, <1>5 DEF Sound
<1>9. \A j, k \in Finished' : j # k =>
        \/ session'[j].end - session'[k].start <= FutureTolerance
        \/ session'[k].end - session'[j].start <= FutureTolerance
    BY <1>4 DEF RowsApart
<1>10. \A k \in Finished' : session'[k].end - session'[i].start <= FutureTolerance
    BY <1>1, <1>4, <1>5, <1>6 DEF Sound
<1> QED BY <1>1, <1>3, <1>6, <1>7, <1>8, <1>9, <1>10 DEF RowsApart

\* A session that goes on: its heartbeat or its distractions change.
LEMMA SessionGoesOn ==
  ASSUME StudyInv, RowsApart, NEW i \in Active, NEW new \in StudySession,
         new.start = session[i].start, new.end = None,
         new.heart \in {session[i].heart, now},
         session' = [session EXCEPT ![i] = new], now' = now
  PROVE  /\ RowsApart' /\ Grid' = Grid
         /\ Active' = Active /\ Finished' = Finished /\ Rows' = Rows
         /\ \A j \in Rows : session'[j].start = session[j].start
                            /\ session'[j].end = session[j].end
<1>0. i \in Ids /\ i \in Rows /\ session[i].end = None BY DEF Active, Rows
<1>1. session'[i] = new /\ \A j \in Ids \ {i} : session'[j] = session[j]
    BY <1>0, OneRow DEF StudyInv
<1>2. new # None BY NoneAssumption
<1>3. Rows' = Rows BY <1>0, <1>1, <1>2 DEF Rows
<1>4. Active' = Active /\ Finished' = Finished
    BY <1>0, <1>1, <1>3 DEF Active, Finished, Rows
<1>5. \A j \in Rows : session'[j].start = session[j].start /\ session'[j].end = session[j].end
    BY <1>0, <1>1 DEF Rows
<1>6. \A j \in Finished : session'[j] = session[j]
    BY <1>0, <1>1 DEF Finished, Rows
<1>7. Grid' = Grid BY <1>4, <1>6 DEF Grid
<1>8. \A j \in Active : session'[j].start <= session'[j].heart
    BY <1>1, RowNumbers DEF RowsApart, Active, Rows
<1>9. \A j \in Finished' : Sound(now', session'[j].start, session'[j].end)
    BY <1>4, <1>6 DEF Sound, RowsApart
<1>10. \A j \in Active', k \in Finished' : session'[k].end - session'[j].start <= FutureTolerance
    BY <1>4, <1>5, <1>6 DEF RowsApart, Active
<1>11. \A j, k \in Finished' : j # k =>
        \/ session'[j].end - session'[k].start <= FutureTolerance
        \/ session'[k].end - session'[j].start <= FutureTolerance
    BY <1>4, <1>6 DEF RowsApart
<1> QED BY <1>3, <1>4, <1>5, <1>7, <1>8, <1>9, <1>10, <1>11 DEF RowsApart

\* A finished row is deleted.
LEMMA SessionRemoved ==
  ASSUME StudyInv, RowsApart, NEW i \in Finished,
         session' = [session EXCEPT ![i] = None], now' = now
  PROVE  RowsApart'
<1>0. i \in Ids /\ session[i].end # None BY DEF Finished, Rows
<1>1. session'[i] = None /\ \A j \in Ids \ {i} : session'[j] = session[j]
    BY <1>0 DEF StudyInv, TypeOK
<1>2. /\ Active' = Active /\ \A j \in Active : session'[j] = session[j]
      /\ \A j \in Finished' : j \in Finished /\ session'[j] = session[j]
    BY <1>0, <1>1 DEF Active, Finished, Rows
<1>3. \A j \in Finished' : Sound(now', session'[j].start, session'[j].end)
    BY <1>2 DEF Sound, RowsApart
<1> QED BY <1>2, <1>3 DEF RowsApart
-----------------------------------------------------------------------------
(* The steps of requests that follow one another.                          *)

LEMMA SerialInit == Init => SerialInv
  BY StudyInit DEF Init, SerialInv, RowsApart, HeatmapFresh, StillTrue, Idle, Active,
     Finished, Rows

\* A write by the request that found the row and still finds it.
LEMMA SerialOverwrite ==
  ASSUME SerialInv, OneByOne, OneByOne', StudyInv', NEW q \in Requests, NEW new,
         req[q].id \in Rows, Overwrite(q, new), req[q].pc \in Pc \ {"forget", "idle"},
         UNCHANGED heatmap,
         session' = [session EXCEPT ![req[q].id] = new] => RowsApart'
  PROVE  SerialInv'
<1>1. TypeOK BY DEF SerialInv, StudyInv
<1>2. session' = [session EXCEPT ![req[q].id] = new] /\ Goto(q, "forget")
    BY DEF Overwrite, Rows
<1>3. PICK r : r = [req[q] EXCEPT !.pc = "forget"] OBVIOUS
<1>4. req' = [req EXCEPT ![q] = r] BY <1>1, <1>2, <1>3 DEF Goto, TypeOK
<1>5. r.pc = "forget" BY <1>1, <1>3 DEF TypeOK, Request
<1>6. req[q] # Idle BY DEF Idle
<1> QED BY <1>2, <1>4, <1>5, <1>6, SerialWrite

LEMMA SerialAutoClose ==
  ASSUME SerialInv, OneByOne, OneByOne', StudyInv', NEW q \in Requests,
         NEW then \in {"idle", "findActive"}, AutoClose(q, then)
  PROVE  SerialInv'
<1>1. PICK i \in Active : req' = [req EXCEPT ![q] = [Idle EXCEPT !.pc = "closeStale",
                                    !.id = i, !.seen = session[i], !.then = then]]
    BY DEF AutoClose
<1>2. PICK r : r = [Idle EXCEPT !.pc = "closeStale", !.id = i, !.seen = session[i],
                                !.then = then]
    OBVIOUS
<1>3. r # Idle /\ r.pc = "closeStale" /\ r.id = i /\ r.seen = session[i]
    BY <1>2 DEF Idle
<1>4. StillTrue(r) BY <1>3 DEF StillTrue
<1>5. req[q].pc # "forget" /\ UNCHANGED <<now, session, heatmap>> BY DEF AutoClose
<1> QED BY <1>1, <1>2, <1>3, <1>4, <1>5, SerialQuiet

LEMMA SerialHeartbeat ==
  ASSUME SerialInv, OneByOne, OneByOne', StudyInv', NEW q \in Requests, BeginHeartbeat(q)
  PROVE  SerialInv'
<1>1. PICK i \in Active :
        \/ req' = [req EXCEPT ![q] = [Idle EXCEPT !.pc = "closeStale", !.id = i,
                                                  !.seen = session[i]]]
        \/ req' = [req EXCEPT ![q] = [Idle EXCEPT !.pc = "beat", !.id = i]]
    BY DEF BeginHeartbeat
<1>2. req[q].pc # "forget" /\ UNCHANGED <<now, session, heatmap>> BY DEF BeginHeartbeat
<1>3. CASE req' = [req EXCEPT ![q] = [Idle EXCEPT !.pc = "closeStale", !.id = i,
                                                  !.seen = session[i]]]
  <2>1. PICK r : r = [Idle EXCEPT !.pc = "closeStale", !.id = i, !.seen = session[i]]
      OBVIOUS
  <2>2. r # Idle /\ r.pc = "closeStale" /\ r.id = i /\ r.seen = session[i]
      BY <2>1 DEF Idle
  <2>3. StillTrue(r) BY <2>2 DEF StillTrue
  <2> QED BY <1>2, <1>3, <2>1, <2>2, <2>3, SerialQuiet
<1>4. CASE req' = [req EXCEPT ![q] = [Idle EXCEPT !.pc = "beat", !.id = i]]
  <2>1. PICK r : r = [Idle EXCEPT !.pc = "beat", !.id = i] OBVIOUS
  <2>2. r # Idle /\ r.pc = "beat" BY <2>1 DEF Idle
  <2>3. StillTrue(r) BY <2>2 DEF StillTrue
  <2> QED BY <1>2, <1>4, <2>1, <2>2, <2>3, SerialQuiet
<1> QED BY <1>1, <1>3, <1>4

LEMMA SerialBegins ==
  ASSUME SerialInv, OneByOne, OneByOne', StudyInv', NEW q \in Requests,
         BeginStart(q) \/ BeginStop(q) \/ BeginManual(q) \/ BeginUpdate(q) \/ BeginHeatmap(q)
  PROVE  SerialInv'
<1>1. req[q].pc # "forget" /\ UNCHANGED <<now, session, heatmap>>
    BY DEF BeginStart, AutoClose, BeginStop, BeginManual, BeginUpdate, BeginHeatmap
<1>a. now \in Nat BY DEF SerialInv, StudyInv, TypeOK
<1>2. CASE BeginStart(q)
  <2>1. CASE AutoClose(q, "findActive") BY <2>1, SerialAutoClose
  <2>2. CASE req' = [req EXCEPT ![q] = [Idle EXCEPT !.pc = "findActive"]]
    <3>1. PICK r : r = [Idle EXCEPT !.pc = "findActive"] OBVIOUS
    <3>2. r # Idle /\ r.pc = "findActive" BY <3>1 DEF Idle
    <3>3. StillTrue(r) BY <3>2 DEF StillTrue
    <3> QED BY <1>1, <2>2, <3>1, <3>2, <3>3, SerialQuiet
  <2> QED BY <1>2, <2>1, <2>2 DEF BeginStart
<1>3. CASE BeginStop(q)
  <2>1. PICK i \in Active, said \in 0 .. now + FutureTolerance :
          /\ ValidWindow(session[i].start, ClampToMaxSession(session[i].start, said))
          /\ req' = [req EXCEPT ![q] = [Idle EXCEPT !.pc = "stop", !.id = i,
                       !.end = ClampToMaxSession(session[i].start, said)]]
      BY <1>3 DEF BeginStop
  <2>2. PICK r : r = [Idle EXCEPT !.pc = "stop", !.id = i,
                                  !.end = ClampToMaxSession(session[i].start, said)]
      OBVIOUS
  <2>3. /\ r # Idle /\ r.pc = "stop" /\ r.id = i
        /\ r.end = ClampToMaxSession(session[i].start, said)
      BY <2>2 DEF Idle
  <2>4. session[i].start \in Nat BY RowNumbers DEF SerialInv
  <2>5. ClampToMaxSession(session[i].start, said) \in Nat
    <3>1. said \in Nat BY <1>a
    <3> QED BY <2>4, <3>1, ClampType
  <2>6. StillTrue(r) BY <1>a, <2>1, <2>3, <2>4, <2>5 DEF StillTrue, ValidWindow, Sound
  <2> QED BY <1>1, <2>1, <2>2, <2>3, <2>6, SerialQuiet
<1>4. CASE BeginManual(q)
  <2>1. PICK start \in 0 .. now + FutureTolerance, end \in 0 .. now + FutureTolerance :
          /\ ValidWindow(start, end) /\ ~Clashes(start, end, None)
          /\ req' = [req EXCEPT ![q] = [Idle EXCEPT !.pc = "insert",
                                          !.start = start, !.end = end]]
      BY <1>4 DEF BeginManual
  <2>2. PICK r : r = [Idle EXCEPT !.pc = "insert", !.start = start, !.end = end] OBVIOUS
  <2>3. r # Idle /\ r.pc = "insert" /\ r.start = start /\ r.end = end BY <2>2 DEF Idle
  <2>4. StillTrue(r) BY <1>a, <2>1, <2>3 DEF StillTrue, ValidWindow, Sound
  <2> QED BY <1>1, <2>1, <2>2, <2>3, <2>4, SerialQuiet
<1>5. CASE BeginUpdate(q)
  <2>1. PICK i \in Finished, start \in 0 .. now + FutureTolerance,
             end \in 0 .. now + FutureTolerance :
          /\ ValidWindow(start, end)
          /\ req' = [req EXCEPT ![q] = [Idle EXCEPT !.pc = "checkOverlap", !.id = i,
                                          !.start = start, !.end = end]]
      BY <1>5 DEF BeginUpdate
  <2>2. PICK r : r = [Idle EXCEPT !.pc = "checkOverlap", !.id = i,
                                  !.start = start, !.end = end]
      OBVIOUS
  <2>3. r # Idle /\ r.pc = "checkOverlap" /\ r.id = i /\ r.start = start /\ r.end = end
      BY <2>2 DEF Idle
  <2>4. StillTrue(r) BY <1>a, <2>1, <2>3 DEF StillTrue, ValidWindow, Sound
  <2> QED BY <1>1, <2>1, <2>2, <2>3, <2>4, SerialQuiet
<1>6. CASE BeginHeatmap(q)
  <2>1. PICK r : r = [Idle EXCEPT !.pc = "cacheHeatmap", !.grid = Grid] OBVIOUS
  <2>2. r # Idle /\ r.pc = "cacheHeatmap" /\ r.grid = Grid BY <2>1 DEF Idle
  <2>3. StillTrue(r) BY <2>2 DEF StillTrue
  <2> QED BY <1>1, <1>6, <2>1, <2>2, <2>3, SerialQuiet DEF BeginHeatmap
<1> QED BY <1>2, <1>3, <1>4, <1>5, <1>6

\* The request under way ends, or goes on from what it read.
LEMMA SerialGoesOn ==
  ASSUME SerialInv, OneByOne, OneByOne', StudyInv', NEW q \in Requests,
         FindActive(q) \/ CheckOverlap(q) \/ CacheHeatmap(q) \/ Forget(q)
  PROVE  SerialInv'
<1>1. UNCHANGED <<now, session>> /\ req[q] # Idle
    BY DEF FindActive, CheckOverlap, CacheHeatmap, Forget, Idle
<1>2. TypeOK /\ StillTrue(req[q]) /\ req[q] \in Request BY DEF SerialInv, StudyInv, TypeOK
<1>3. StillTrue(Idle) BY DEF StillTrue, Idle
<1>4. CASE FindActive(q)
  <2>1. CASE Finish(q)
      BY <1>1, <1>3, <1>4, <2>1, SerialQuiet DEF FindActive, Finish
  <2>2. CASE Active = {} /\ Goto(q, "create")
    <3>1. PICK r : r = [req[q] EXCEPT !.pc = "create"] OBVIOUS
    <3>2. req' = [req EXCEPT ![q] = r] /\ r.pc = "create"
        BY <1>2, <2>2, <3>1 DEF Goto, TypeOK, Request
    <3>3. StillTrue(r) BY <2>2, <3>2 DEF StillTrue
    <3> QED BY <1>1, <1>4, <3>2, <3>3, SerialQuiet DEF FindActive
  <2> QED BY <1>4, <2>1, <2>2 DEF FindActive
<1>5. CASE CheckOverlap(q)
  <2>1. CASE Finish(q)
      BY <1>1, <1>3, <1>5, <2>1, SerialQuiet DEF CheckOverlap, Finish
  <2>2. CASE ~Clashes(req[q].start, req[q].end, req[q].id) /\ Goto(q, "update")
    <3>1. PICK r : r = [req[q] EXCEPT !.pc = "update"] OBVIOUS
    <3>2. /\ req' = [req EXCEPT ![q] = r] /\ r.pc = "update" /\ r.id = req[q].id
          /\ r.start = req[q].start /\ r.end = req[q].end
        BY <1>2, <2>2, <3>1 DEF Goto, TypeOK, Request
    <3>3. StillTrue(r) BY <1>2, <1>5, <2>2, <3>2 DEF StillTrue, CheckOverlap
    <3> QED BY <1>1, <1>5, <3>2, <3>3, SerialQuiet DEF CheckOverlap
  <2> QED BY <1>5, <2>1, <2>2 DEF CheckOverlap
<1>6. CASE CacheHeatmap(q)
  <2>1. heatmap'.grid = Grid BY <1>2, <1>6 DEF CacheHeatmap, StillTrue
  <2>2. Grid' = Grid BY <1>1 DEF Grid, Finished, Rows
  <2>3. HeatmapFresh' BY <2>1, <2>2 DEF HeatmapFresh
  <2> QED BY <1>1, <1>3, <1>6, <2>3, SerialRead DEF CacheHeatmap, Finish
<1>7. CASE Forget(q)
  <2>1. HeatmapFresh' BY <1>7 DEF Forget, HeatmapFresh
  <2>2. CASE req[q].then = "idle"
    <3>1. req' = [req EXCEPT ![q] = Idle] BY <1>2, <1>7, <2>2 DEF Forget, TypeOK
    <3> QED BY <1>1, <1>3, <2>1, <3>1, SerialRead
  <2>3. CASE req[q].then # "idle"
    <3>1. PICK r : r = [req[q] EXCEPT !.pc = req[q].then, !.then = "idle"] OBVIOUS
    <3>2. req' = [req EXCEPT ![q] = r] /\ r.pc = "findActive"
        BY <1>2, <1>7, <2>3, <3>1 DEF Forget, TypeOK, Request
    <3>3. StillTrue(r) BY <3>2 DEF StillTrue
    <3> QED BY <1>1, <2>1, <3>2, <3>3, SerialRead
  <2> QED BY <2>2, <2>3
<1> QED BY <1>4, <1>5, <1>6, <1>7
\* The writes of the request under way.
LEMMA SerialWrites ==
  ASSUME SerialInv, OneByOne, OneByOne', StudyInv', NEW q \in Requests,
         CloseStale(q) \/ Stop(q) \/ Update(q) \/ InsertManual(q)
  PROVE  SerialInv'
<1>1. UNCHANGED <<now, heatmap>>
    BY DEF CloseStale, Stop, Update, InsertManual
<1>2. TypeOK /\ StillTrue(req[q]) /\ req[q] \in Request /\ now \in Nat
    BY DEF SerialInv, StudyInv, TypeOK
<1>3. req[q].start \in Nat /\ req[q].end \in Nat BY <1>2 DEF Request
<1> DEFINE i == req[q].id
<1>4. CASE CloseStale(q)
  <2> DEFINE seen == req[q].seen
             new == [session[i] EXCEPT !.end = EndWhenLost(seen), !.closedBy = "contactLost"]
  <2>1. /\ i \in Active /\ seen.start = session[i].start /\ seen.heart = session[i].heart
        /\ seen \in StudySession
      BY <1>2, <1>4 DEF CloseStale, StillTrue, TypeOK
  <2>2. /\ i \in Rows /\ session[i] \in StudySession /\ session[i].start \in Nat
        /\ session[i].heart \in Nat /\ session[i].heart <= now
        /\ session[i].start <= session[i].heart
      BY <1>2, <2>1, RowNumbers, ActiveType DEF SerialInv, RowsApart, Active
  <2>3. LastSeen(seen) = session[i].heart
      BY <2>1, <2>2, StudyAssumption DEF LastSeen
  <2>4. EndWhenLost(seen) \in Nat /\ Sound(now, session[i].start, EndWhenLost(seen))
      BY <1>2, <2>1, <2>2, <2>3 DEF EndWhenLost, ClampToMaxSession, Earliest, Sound
  <2>5. /\ new \in StudySession /\ new.start = session[i].start
        /\ new.end = EndWhenLost(seen)
      BY <2>2, <2>4 DEF StudySession, NatOrNone
  <2>6. Overwrite(q, new) /\ req[q].pc = "closeStale" BY <1>4 DEF CloseStale
  <2> HIDE DEF new, seen, i
  <2>7. session' = [session EXCEPT ![i] = new] => RowsApart'
      BY <1>1, <2>1, <2>4, <2>5, SessionEnds DEF SerialInv
  <2> QED BY <1>1, <2>2, <2>6, <2>7, SerialOverwrite DEF Pc, i
<1>5. CASE Stop(q)
  <2> DEFINE new == [session[i] EXCEPT !.end = req[q].end, !.closedBy = "user"]
  <2>1. i \in Active /\ Sound(now, session[i].start, req[q].end)
      BY <1>2, <1>5 DEF Stop, StillTrue
  <2>2. i \in Rows /\ session[i] \in StudySession
      BY <1>2, <2>1, ActiveType DEF Active
  <2>3. /\ new \in StudySession /\ new.start = session[i].start /\ new.end = req[q].end
      BY <1>3, <2>2 DEF StudySession, NatOrNone
  <2>4. Overwrite(q, new) /\ req[q].pc = "stop" BY <1>5 DEF Stop
  <2> HIDE DEF new, i
  <2>5. session' = [session EXCEPT ![i] = new] => RowsApart'
      BY <1>1, <1>3, <2>1, <2>3, SessionEnds DEF SerialInv
  <2> QED BY <1>1, <2>2, <2>4, <2>5, SerialOverwrite DEF Pc, i
<1>6. CASE Update(q)
  <2> DEFINE new == [session[i] EXCEPT !.start = req[q].start, !.end = req[q].end,
                                       !.closedBy = "user"]
  <2>1. /\ i \in Finished /\ Sound(now, req[q].start, req[q].end)
        /\ req[q].start < req[q].end /\ ~Clashes(req[q].start, req[q].end, i)
      BY <1>2, <1>6 DEF Update, StillTrue
  <2>2. i \in Rows /\ i \in Ids \ Active /\ session[i] \in StudySession
      BY <1>2, <2>1, ActiveType DEF Active, Finished
  <2>3. new \in StudySession /\ new.start = req[q].start /\ new.end = req[q].end
      BY <1>3, <2>2 DEF StudySession, NatOrNone
  <2>4. Overwrite(q, new) /\ req[q].pc = "update" BY <1>6 DEF Update
  <2> HIDE DEF new, i
  <2>5. session' = [session EXCEPT ![i] = new] => RowsApart'
      BY <1>1, <1>3, <2>1, <2>2, <2>3, WindowWritten DEF SerialInv
  <2> QED BY <1>1, <2>2, <2>4, <2>5, SerialOverwrite DEF Pc, i
<1>7. CASE InsertManual(q)
  <2>1. PICK j \in NewIds : session' = [session EXCEPT ![j] =
          [start |-> req[q].start, end |-> req[q].end, heart |-> None,
           distractions |-> 0, plan |-> None, closedBy |-> "user"]]
      BY <1>7 DEF InsertManual
  <2> DEFINE new == [start |-> req[q].start, end |-> req[q].end, heart |-> None,
                     distractions |-> 0, plan |-> None, closedBy |-> "user"]
  <2>2. /\ new \in StudySession /\ new.start = req[q].start /\ new.end = req[q].end
      BY <1>3 DEF StudySession, NatOrNone
  <2>3. /\ Sound(now, req[q].start, req[q].end) /\ req[q].start < req[q].end
        /\ ~Clashes(req[q].start, req[q].end, None)
      BY <1>2, <1>7 DEF InsertManual, StillTrue
  <2>4. j \in Ids \ Active /\ Rows \ {j} = Rows /\ Rows \ {None} = Rows
      BY NoneAssumption DEF NewIds, Active, Rows
  <2>5. ~Clashes(req[q].start, req[q].end, j) BY <2>3, <2>4 DEF Clashes
  <2>6. PICK r : r = [req[q] EXCEPT !.pc = "forget"] OBVIOUS
  <2>7. /\ req' = [req EXCEPT ![q] = r] /\ r.pc = "forget"
        /\ req[q].pc # "forget" /\ req[q] # Idle
      BY <1>2, <1>7, <2>6 DEF InsertManual, Goto, TypeOK, Request, Idle
  <2> HIDE DEF new
  <2>8. session' = [session EXCEPT ![j] = new] BY <2>1 DEF new
  <2>9. RowsApart'
      BY <1>1, <1>3, <2>2, <2>3, <2>4, <2>5, <2>8, WindowWritten DEF SerialInv
  <2> QED BY <1>1, <2>7, <2>9, SerialWrite
<1> QED BY <1>4, <1>5, <1>6, <1>7

LEMMA SerialRows ==
  ASSUME SerialInv, OneByOne, OneByOne', StudyInv', NEW q \in Requests,
         Create(q) \/ Beat(q) \/ Remove(q)
  PROVE  SerialInv'
<1>1. UNCHANGED <<now, heatmap>> /\ req[q].pc # "forget"
    BY DEF Create, Beat, Remove
<1>2. TypeOK /\ StillTrue(req[q]) /\ now \in Nat BY DEF SerialInv, StudyInv, TypeOK
<1>3. Idle.pc = "idle" BY DEF Idle
<1>4. CASE Create(q)
  <2>1. PICK i \in NewIds, p \in {None} \cup {now + d : d \in 1 .. MaxPlanned} :
          session' = [session EXCEPT ![i] =
            [start |-> now, end |-> None, heart |-> now, distractions |-> 0,
             plan |-> p, closedBy |-> "nobody"]]
      BY <1>4 DEF Create
  <2> DEFINE new == [start |-> now, end |-> None, heart |-> now, distractions |-> 0,
                     plan |-> p, closedBy |-> "nobody"]
  <2>2. new \in StudySession /\ new.start = now /\ new.heart = now /\ new.end = None
      BY <1>2 DEF StudySession, NatOrNone
  <2>3. Active = {} /\ req[q] # Idle BY <1>2, <1>4 DEF Create, StillTrue, Idle
  <2> HIDE DEF new
  <2>4. session' = [session EXCEPT ![i] = new] BY <2>1 DEF new
  <2>5. RowsApart' /\ Grid' = Grid
      BY <1>1, <2>2, <2>3, <2>4, SessionStarts DEF SerialInv
  <2> QED BY <1>1, <1>3, <1>4, <2>3, <2>5, SerialWrite DEF Create, Finish
<1>5. CASE Beat(q)
  <2>1. req[q] # Idle /\ Finish(q) BY <1>5 DEF Beat, Idle
  <2>2. CASE req[q].id \in Active
    <3> DEFINE i == req[q].id
               new == [session[i] EXCEPT !.heart = now]
    <3>1. i \in Rows /\ session[i] \in StudySession /\ session[i].end = None
        BY <1>2, <2>2, ActiveType DEF Active
    <3>2. /\ new \in StudySession /\ new.start = session[i].start /\ new.end = None
          /\ new.heart = now
        BY <1>2, <3>1 DEF StudySession, NatOrNone
    <3>3. session' = [session EXCEPT ![i] = new]
        BY <1>5, <2>2 DEF Beat
    <3> HIDE DEF new, i
    <3>4. i \in Active BY <2>2 DEF i
    <3>5. RowsApart' /\ Grid' = Grid
        BY <1>1, <3>2, <3>3, <3>4, SessionGoesOn DEF SerialInv
    <3> QED BY <1>1, <1>3, <2>1, <3>5, SerialWrite DEF Finish
  <2>3. CASE req[q].id \notin Active
    <3>1. session' = session BY <1>5, <2>3 DEF Beat
    <3>2. StillTrue(Idle) BY DEF StillTrue, Idle
    <3> QED BY <1>1, <2>1, <3>1, <3>2, SerialQuiet DEF Finish
  <2> QED BY <2>2, <2>3
<1>6. CASE Remove(q)
  <2>1. PICK i \in Finished : session' = [session EXCEPT ![i] = None]
      BY <1>6 DEF Remove
  <2>2. RowsApart' BY <1>1, <2>1, SessionRemoved DEF SerialInv
  <2>3. PICK r : r = [Idle EXCEPT !.pc = "forget"] OBVIOUS
  <2>4. r # Idle /\ r.pc = "forget" BY <2>3 DEF Idle
  <2> QED BY <1>1, <1>6, <2>2, <2>3, <2>4, SerialWrite DEF Remove
<1> QED BY <1>4, <1>5, <1>6

\* The steps of nobody's request.
LEMMA SerialOthers ==
  ASSUME SerialInv, StudyInv', RecordDistraction \/ Tick \/ Restart \/ UNCHANGED vars
  PROVE  SerialInv'
<1>1. TypeOK /\ now \in Nat /\ req \in [Requests -> Request]
    BY DEF SerialInv, StudyInv, TypeOK
<1>2. CASE RecordDistraction
  <2>1. PICK i \in Active : session' = [session EXCEPT ![i].distractions = @ + 1]
                            /\ session[i].distractions < MaxDistractions
      BY <1>2 DEF RecordDistraction
  <2> DEFINE new == [session[i] EXCEPT !.distractions = @ + 1]
  <2>2. session[i] \in StudySession /\ i \in Ids /\ session[i].end = None
      BY <1>1, ActiveType DEF Active
  <2>3. /\ new \in StudySession /\ new.start = session[i].start /\ new.end = None
        /\ new.heart = session[i].heart
      BY <2>1, <2>2 DEF StudySession
  <2>4. session' = [session EXCEPT ![i] = new] BY <2>1
  <2> HIDE DEF new
  <2>5. UNCHANGED <<now, heatmap, req>> BY <1>2 DEF RecordDistraction
  <2>6. /\ RowsApart' /\ Grid' = Grid
        /\ Active' = Active /\ Finished' = Finished /\ Rows' = Rows
        /\ \A j \in Rows : session'[j].start = session[j].start
                           /\ session'[j].end = session[j].end
      BY <2>3, <2>4, <2>5, SessionGoesOn DEF SerialInv
  <2>7. \A j \in Active : session'[j].heart = session[j].heart
      BY <1>1, <2>2, <2>3, <2>4, OneRow DEF Active, Rows
  <2>8. HeatmapFresh' BY <2>5, <2>6 DEF SerialInv, HeatmapFresh
  <2>9. ASSUME NEW r, StillTrue(r) PROVE StillTrue(r)'
    <3>1. \A start, end, ignored : Clashes(start, end, ignored)' <=> Clashes(start, end, ignored)
        BY <2>6 DEF Clashes
    <3>2. \A j \in Active : j \in Rows BY DEF Active
    <3> QED BY <2>5, <2>6, <2>7, <2>9, <3>1, <3>2 DEF StillTrue
  <2>10. \A q \in Requests : StillTrue(req[q])'
      BY <2>5, <2>9 DEF SerialInv
  <2> QED BY <2>6, <2>8, <2>10 DEF SerialInv
<1>3. CASE Tick
  <2>1. UNCHANGED <<session, heatmap, req>> /\ now' = now + 1 BY <1>3 DEF Tick
  <2>2. Active' = Active /\ Finished' = Finished /\ Grid' = Grid
      BY <2>1 DEF Active, Finished, Rows, Grid
  <2>3. \A i \in Finished : Sound(now', session[i].start, session[i].end)
      BY <1>1, <2>1, RowNumbers DEF SerialInv, RowsApart, Sound
  <2>4. RowsApart' BY <2>1, <2>2, <2>3 DEF SerialInv, RowsApart
  <2>5. HeatmapFresh' BY <2>1, <2>2 DEF SerialInv, HeatmapFresh
  <2>6. ASSUME NEW q \in Requests PROVE StillTrue(req[q])'
    <3>1. \A start, end \in Nat : Sound(now, start, end) => Sound(now', start, end)
        BY <1>1, <2>1 DEF Sound
    <3>2. req[q].start \in Nat /\ req[q].end \in Nat /\ StillTrue(req[q])
        BY <1>1 DEF SerialInv, Request
    <3>3. \A i \in Active : session[i].start \in Nat BY RowNumbers DEF SerialInv
    <3>4. \A start, end, ignored : Clashes(start, end, ignored)' <=> Clashes(start, end, ignored)
        BY <2>1 DEF Clashes, Rows
    <3> QED BY <2>1, <2>2, <3>1, <3>2, <3>3, <3>4 DEF StillTrue
  <2> QED BY <2>4, <2>5, <2>6 DEF SerialInv
<1>4. CASE Restart
  <2>1. UNCHANGED <<now, session>> /\ heatmap' = None BY <1>4 DEF Restart
  <2>2. RowsApart'
      BY <2>1 DEF SerialInv, RowsApart, Active, Finished, Rows, Sound
  <2>3. HeatmapFresh' BY <2>1 DEF HeatmapFresh
  <2>4. \A q \in Requests : StillTrue(req[q])'
      BY <1>4 DEF Restart, StillTrue, Idle
  <2> QED BY <2>2, <2>3, <2>4 DEF SerialInv
<1>5. CASE UNCHANGED vars
  <2>1. UNCHANGED <<now, session, heatmap, req>> BY <1>5 DEF vars
  <2>2. RowsApart' /\ HeatmapFresh'
      BY <2>1 DEF SerialInv, RowsApart, HeatmapFresh, Active, Finished, Rows, Sound, Grid
  <2>3. \A q \in Requests : StillTrue(req[q])'
      BY <2>1 DEF SerialInv, StillTrue, Active, Finished, Rows, Sound, Clashes, Grid
  <2> QED BY <2>2, <2>3 DEF SerialInv
<1> QED BY <1>2, <1>3, <1>4, <1>5

LEMMA SerialNext == SerialInv /\ OneByOne /\ OneByOne' /\ [Next]_vars => SerialInv'
<1> SUFFICES ASSUME SerialInv, OneByOne, OneByOne', [Next]_vars PROVE SerialInv'
    OBVIOUS
<1>1. StudyInv' BY StudyNext DEF SerialInv
<1>2. ASSUME NEW q \in Requests, GetActive(q) PROVE SerialInv'
    BY <1>1, <1>2, SerialAutoClose DEF GetActive
<1> QED BY <1>1, <1>2, SerialBegins, SerialHeartbeat, SerialGoesOn, SerialWrites,
           SerialRows, SerialOthers DEF Next, Step

LEMMA SerialInvSound == SerialInv => NoOverlap /\ WindowsSound /\ HeatmapFresh
<1> SUFFICES ASSUME SerialInv PROVE NoOverlap /\ WindowsSound /\ HeatmapFresh
    OBVIOUS
<1>1. WindowsSound BY DEF SerialInv, RowsApart, WindowsSound, Sound
<1>2. ASSUME NEW i \in Rows, NEW j \in Rows, i # j
      PROVE  \/ End(i) - session[j].start <= FutureTolerance
             \/ End(j) - session[i].start <= FutureTolerance
  <2>1. CASE i \in Active /\ j \in Active BY <1>2, <2>1 DEF SerialInv, RowsApart
  <2>2. CASE i \in Active /\ j \in Finished
      BY <2>2 DEF SerialInv, RowsApart, End, Finished
  <2>3. CASE i \in Finished /\ j \in Active
      BY <2>3 DEF SerialInv, RowsApart, End, Finished
  <2>4. CASE i \in Finished /\ j \in Finished
      BY <1>2, <2>4 DEF SerialInv, RowsApart, End, Finished
  <2> QED BY <2>1, <2>2, <2>3, <2>4 DEF Active, Finished
<1> QED BY <1>1, <1>2 DEF SerialInv, NoOverlap

LEMMA CalmIsOneByOne == Spec => [](calm => OneByOne)
<1>1. Init => OneByOne BY DEF Init, OneByOne
<1>2. (calm => OneByOne) /\ [Next]_vars => (calm => OneByOne)'
  <2>1. CASE Next BY <2>1 DEF Next
  <2>2. CASE UNCHANGED vars BY <2>2 DEF vars, OneByOne
  <2> QED BY <2>1, <2>2
<1> QED BY <1>1, <1>2, PTL DEF Spec

LEMMA SerialAlways == Spec => [](calm => SerialInv)
<1>1. (calm => SerialInv) /\ (calm => OneByOne) /\ (calm => OneByOne)' /\ [Next]_vars
        => (calm => SerialInv)'
  <2>1. [Next]_vars => calm' = calm BY DEF Next, vars
  <2> QED BY <2>1, SerialNext
<1> QED BY <1>1, SerialInit, CalmIsOneByOne, PTL DEF Spec

\* Where requests follow one another, two sessions share no more time than the
\* tolerance granted to clocks (findActive, assertNoOverlap, AutoClose).
THEOREM NoMinuteTwice == Spec => []NoOverlapWhenCalm
<1>1. (calm => SerialInv) => NoOverlapWhenCalm BY SerialInvSound DEF NoOverlapWhenCalm
<1> QED BY <1>1, SerialAlways, PTL

\* Of the same behaviours: every finished session is an interval of the past of
\* at most MAX_SESSION_MS, whoever wrote its end, and the heatmap in memory is
\* the current one unless its deletion is next.
THEOREM SessionsAreSound == Spec => []SoundWhenCalm
<1>1. (calm => SerialInv) => SoundWhenCalm BY SerialInvSound DEF SoundWhenCalm
<1> QED BY <1>1, SerialAlways, PTL

-----------------------------------------------------------------------------
(***************************************************************************)
(* The tasks of a student.                                                 *)
(***************************************************************************)

HIDE StudyAssumption
USE TasksAssumption

(***************************************************************************)
(* The weight of a course, for any table of tasks: in units, one for each  *)
(* part of the weight of a task that does not repeat, and of a title some  *)
(* occurrence of which weighs as much.                                     *)
(***************************************************************************)
TaskTable == [TaskIds -> Task \cup {NoTask}]
InCourse(T, c, E) == {i \in TaskIds \ E : T[i] # NoTask /\ T[i].course = c}
LoadSingle(T, c, E) ==
  {x \in TaskIds \X (1 .. Full) :
     x[1] \in InCourse(T, c, E) /\ ~T[x[1]].repeats /\ x[2] <= T[x[1]].weight}
LoadSeries(T, c, E) ==
  {x \in Titles \X (1 .. Full) :
     \E i \in InCourse(T, c, E) : T[i].repeats /\ T[i].title = x[1] /\ x[2] <= T[i].weight}
LoadAll(T, c, E) == Cardinality(LoadSingle(T, c, E)) + Cardinality(LoadSeries(T, c, E))

\* Of the weights above the tolerance, which may pass 100% by it.
Most == Full + Epsilon
Weighs(w) == IF w > Epsilon THEN w ELSE 0

LEMMA TaskConstants ==
  /\ Full \in Nat /\ Epsilon \in Nat /\ LastDay \in Nat /\ Reviews \in Nat /\ MaxTasks \in Nat
  /\ Together \in BOOLEAN /\ Most \in Nat
BY DEF TasksAssumption, Most

LEMMA NoTaskNone == NoTask \notin Task
BY DEF NoTask, Task

LEMMA TaskFields ==
  ASSUME NEW t \in Task
  PROVE  /\ t.title \in Titles /\ t.course \in Courses /\ t.date \in 0 .. LastDay
         /\ t.weight \in 0 .. Full /\ t.weight \in Nat /\ t.weight <= Full
         /\ t.repeats \in BOOLEAN /\ t.done \in BOOLEAN
         /\ t.stamped \in BOOLEAN /\ t.auto \in BOOLEAN /\ t.reviews \in Nat
         /\ Weighs(t.weight) \in Nat
BY TaskConstants DEF Task, Weighs

LEMMA TableFields ==
  ASSUME NEW T \in TaskTable, NEW i \in TaskIds, T[i] # NoTask
  PROVE  /\ T[i] \in Task /\ T[i].title \in Titles /\ T[i].course \in Courses
         /\ T[i].weight \in Nat /\ T[i].weight <= Full /\ T[i].repeats \in BOOLEAN
<1>1. T[i] \in Task
  BY DEF TaskTable
<1> QED BY <1>1, TaskFields

LEMMA AllFinite ==
  ASSUME NEW T \in TaskTable, NEW c, NEW E
  PROVE  /\ IsFiniteSet(LoadSingle(T, c, E)) /\ IsFiniteSet(LoadSeries(T, c, E))
         /\ Cardinality(LoadSingle(T, c, E)) \in Nat /\ Cardinality(LoadSeries(T, c, E)) \in Nat
         /\ LoadAll(T, c, E) \in Nat
<1>1. IsFiniteSet(TaskIds \X (1 .. Full))
  <2>1. IsFiniteSet(TaskIds) /\ IsFiniteSet(1 .. Full)
    BY TaskConstants, FS_Interval DEF TaskIds
  <2> QED BY <2>1, FS_Product
<1>2. LoadSingle(T, c, E) \subseteq TaskIds \X (1 .. Full)
  BY DEF LoadSingle
<1>3. IsFiniteSet(LoadSingle(T, c, E))
  BY <1>1, <1>2, FS_Subset
<1>4. IsFiniteSet(LoadSeries(T, c, E))
  <2> DEFINE S == {x \in TaskIds \X (1 .. Full) :
                     x[1] \in InCourse(T, c, E) /\ T[x[1]].repeats /\ x[2] <= T[x[1]].weight}
             f == [x \in S |-> <<T[x[1]].title, x[2]>>]
  <2>1. IsFiniteSet(S)
    <3>1. S \subseteq TaskIds \X (1 .. Full)
      OBVIOUS
    <3> QED BY <1>1, <3>1, FS_Subset
  <2>2. ASSUME NEW x \in S  PROVE f[x] \in LoadSeries(T, c, E)
    <3>1. /\ x[1] \in TaskIds /\ x[2] \in 1 .. Full /\ x[1] \in InCourse(T, c, E)
          /\ T[x[1]].repeats /\ x[2] <= T[x[1]].weight /\ T[x[1]] # NoTask
      BY DEF InCourse
    <3>2. T[x[1]].title \in Titles
      BY <3>1, TableFields
    <3>3. f[x] = <<T[x[1]].title, x[2]>>
      OBVIOUS
    <3> HIDE DEF f, S
    <3> QED BY <3>1, <3>2, <3>3 DEF LoadSeries
  <2>3. ASSUME NEW y \in LoadSeries(T, c, E)  PROVE \E x \in S : f[x] = y
    <3>1. PICK i \in InCourse(T, c, E) : T[i].repeats /\ T[i].title = y[1] /\ y[2] <= T[i].weight
      BY DEF LoadSeries
    <3>2. y[2] \in 1 .. Full /\ i \in TaskIds /\ y = <<y[1], y[2]>>
      BY DEF LoadSeries, InCourse
    <3>3. <<i, y[2]>> \in S
      BY <3>1, <3>2
    <3>4. f[<<i, y[2]>>] = y
      BY <3>1, <3>2, <3>3
    <3> QED BY <3>3, <3>4
  <2>4. f \in Surjection(S, LoadSeries(T, c, E))
    <3>1. f \in [S -> LoadSeries(T, c, E)]
      BY <2>2
    <3> HIDE DEF f, S
    <3> QED BY <2>3, <3>1 DEF Surjection
  <2> HIDE DEF f, S
  <2> QED BY <2>1, <2>4, FS_Surjection
<1>5. Cardinality(LoadSingle(T, c, E)) \in Nat /\ Cardinality(LoadSeries(T, c, E)) \in Nat
  BY <1>3, <1>4, FS_CardinalityType
<1> QED BY <1>3, <1>4, <1>5 DEF LoadAll

\* Fewer units are less weight, and the same units the same.
LEMMA AllLess ==
  ASSUME NEW T \in TaskTable, NEW U \in TaskTable, NEW c, NEW E, NEW D,
         LoadSingle(U, c, E) \subseteq LoadSingle(T, c, D),
         LoadSeries(U, c, E) \subseteq LoadSeries(T, c, D)
  PROVE  LoadAll(U, c, E) <= LoadAll(T, c, D)
<1>1. /\ Cardinality(LoadSingle(U, c, E)) <= Cardinality(LoadSingle(T, c, D))
      /\ Cardinality(LoadSeries(U, c, E)) <= Cardinality(LoadSeries(T, c, D))
  BY AllFinite, FS_Subset
<1>2. /\ Cardinality(LoadSingle(U, c, E)) \in Nat /\ Cardinality(LoadSingle(T, c, D)) \in Nat
      /\ Cardinality(LoadSeries(U, c, E)) \in Nat /\ Cardinality(LoadSeries(T, c, D)) \in Nat
  BY AllFinite
<1> QED BY <1>1, <1>2 DEF LoadAll

\* So many units as a task weighs.
LEMMA AllOfOne ==
  ASSUME NEW x, NEW w \in Nat
  PROVE  IsFiniteSet({x} \X (1 .. w)) /\ Cardinality({x} \X (1 .. w)) = w
<1>1. IsFiniteSet({x}) /\ Cardinality({x}) = 1
  BY FS_Singleton
<1>2. IsFiniteSet(1 .. w) /\ Cardinality(1 .. w) = w
  <2>1. 1 \in Int /\ w \in Int
    OBVIOUS
  <2>2. IsFiniteSet(1 .. w) /\ Cardinality(1 .. w) = IF 1 > w THEN 0 ELSE w - 1 + 1
    BY <2>1, FS_Interval
  <2>3. (IF 1 > w THEN 0 ELSE w - 1 + 1) = w
    OBVIOUS
  <2> QED BY <2>2, <2>3
<1>3. /\ IsFiniteSet({x} \X (1 .. w))
      /\ Cardinality({x} \X (1 .. w)) = Cardinality({x}) * Cardinality(1 .. w)
  BY <1>1, <1>2, FS_Product
<1> QED BY <1>1, <1>2, <1>3

\* A task adds at most what it weighs, and that much if it does not repeat.
LEMMA AllPlus ==
  ASSUME NEW T \in TaskTable, NEW c, NEW E, NEW i \in TaskIds, i \notin E,
         T[i] # NoTask, T[i].course = c
  PROVE  /\ LoadAll(T, c, E) <= LoadAll(T, c, E \cup {i}) + T[i].weight
         /\ ~T[i].repeats => LoadAll(T, c, E) = LoadAll(T, c, E \cup {i}) + T[i].weight
<1> DEFINE D == E \cup {i}
           w == T[i].weight
<1>1. /\ w \in Nat /\ w <= Full /\ T[i].title \in Titles /\ T[i].repeats \in BOOLEAN
  BY TableFields
<1>2. /\ Cardinality(LoadSingle(T, c, E)) \in Nat /\ Cardinality(LoadSingle(T, c, D)) \in Nat
      /\ Cardinality(LoadSeries(T, c, E)) \in Nat /\ Cardinality(LoadSeries(T, c, D)) \in Nat
      /\ IsFiniteSet(LoadSingle(T, c, D)) /\ IsFiniteSet(LoadSeries(T, c, D))
  BY AllFinite
<1>3. InCourse(T, c, E) = InCourse(T, c, D) \cup {i} /\ i \notin InCourse(T, c, D)
  BY DEF InCourse
<1>4. CASE T[i].repeats
  <2>1. LoadSingle(T, c, E) = LoadSingle(T, c, D)
    BY <1>3, <1>4 DEF LoadSingle
  <2>2. PICK P : P = {T[i].title} \X (1 .. w)  OBVIOUS
  <2>3. LoadSeries(T, c, E) \subseteq LoadSeries(T, c, D) \cup P
    <3> SUFFICES ASSUME NEW x \in LoadSeries(T, c, E)  PROVE x \in LoadSeries(T, c, D) \/ x \in P
      OBVIOUS
    <3>0. x \in Titles \X (1 .. Full)
      BY DEF LoadSeries
    <3>1. PICK j \in InCourse(T, c, E) : T[j].repeats /\ T[j].title = x[1] /\ x[2] <= T[j].weight
      BY DEF LoadSeries
    <3>2. CASE j = i
      BY <1>1, <2>2, <3>0, <3>1, <3>2
    <3>3. CASE j # i
      BY <1>3, <3>0, <3>1, <3>3 DEF LoadSeries
    <3> QED BY <3>2, <3>3
  <2>4. IsFiniteSet(P) /\ Cardinality(P) = w
    BY <1>1, <2>2, AllOfOne
  <2> HIDE DEF D, w
  <2>5. PICK Q : Q = LoadSeries(T, c, D)  OBVIOUS
  <2>6. /\ IsFiniteSet(Q \cup P) /\ Cardinality(Q \cap P) \in Nat
        /\ Cardinality(Q \cup P) = Cardinality(Q) + Cardinality(P) - Cardinality(Q \cap P)
    <3>1. IsFiniteSet(Q \cap P)
      BY <1>2, <2>5, FS_Intersection
    <3> QED BY <1>2, <2>4, <2>5, <3>1, FS_Union, FS_CardinalityType
  <2>7. Cardinality(LoadSeries(T, c, E)) <= Cardinality(Q \cup P)
    BY <2>3, <2>5, <2>6, FS_Subset
  <2>8. Cardinality(LoadSeries(T, c, E)) <= Cardinality(LoadSeries(T, c, D)) + w
    BY <1>1, <1>2, <2>4, <2>5, <2>6, <2>7
  <2>9. LoadAll(T, c, E) <= LoadAll(T, c, D) + w
    BY <1>1, <1>2, <2>1, <2>8 DEF LoadAll
  <2> QED BY <1>4, <2>9 DEF D, w
<1>5. CASE ~T[i].repeats
  <2>1. LoadSeries(T, c, E) = LoadSeries(T, c, D)
    BY <1>3, <1>5 DEF LoadSeries
  <2>2. PICK P : P = {i} \X (1 .. w)  OBVIOUS
  <2>3. LoadSingle(T, c, E) = LoadSingle(T, c, D) \cup P
    <3>1. ASSUME NEW x \in LoadSingle(T, c, E)  PROVE x \in LoadSingle(T, c, D) \cup P
      <4>1. x \in TaskIds \X (1 .. Full) /\ x[1] \in InCourse(T, c, E) /\ ~T[x[1]].repeats
            /\ x[2] <= T[x[1]].weight
        BY DEF LoadSingle
      <4>2. CASE x[1] = i
        BY <1>1, <2>2, <4>1, <4>2
      <4>3. CASE x[1] # i
        BY <1>3, <4>1, <4>3 DEF LoadSingle
      <4> QED BY <4>2, <4>3
    <3>2. ASSUME NEW x \in P  PROVE x \in LoadSingle(T, c, E)
      <4>1. x = <<i, x[2]>> /\ x[2] \in 1 .. w
        BY <2>2
      <4>2. x[2] \in 1 .. Full /\ x[2] <= w
        BY <1>1, <4>1, TaskConstants
      <4>3. x \in TaskIds \X (1 .. Full) /\ x[1] = i
        BY <4>1, <4>2
      <4> QED BY <1>3, <1>5, <4>2, <4>3 DEF LoadSingle
    <3>3. ASSUME NEW x \in LoadSingle(T, c, D)  PROVE x \in LoadSingle(T, c, E)
      BY <1>3 DEF LoadSingle
    <3> QED BY <3>1, <3>2, <3>3
  <2>4. IsFiniteSet(P) /\ Cardinality(P) = w
    BY <1>1, <2>2, AllOfOne
  <2>5. LoadSingle(T, c, D) \cap P = {}
    BY <1>3, <2>2 DEF LoadSingle
  <2> HIDE DEF D, w
  <2>6. Cardinality(LoadSingle(T, c, E)) = Cardinality(LoadSingle(T, c, D)) + w
    <3>1. PICK Q : Q = LoadSingle(T, c, D)  OBVIOUS
    <3>2. Cardinality(Q \cup P) = Cardinality(Q) + Cardinality(P) - Cardinality(Q \cap P)
      BY <1>2, <2>4, <3>1, FS_Union
    <3>3. Cardinality(Q \cap P) = 0
      BY <2>5, <3>1, FS_EmptySet
    <3> QED BY <1>1, <1>2, <2>3, <2>4, <3>1, <3>2, <3>3
  <2>7. LoadAll(T, c, E) = LoadAll(T, c, D) + w
    BY <1>1, <1>2, <2>1, <2>6 DEF LoadAll
  <2>8. LoadAll(T, c, D) \in Nat
    BY AllFinite
  <2> QED BY <1>1, <2>7, <2>8 DEF D, w
<1> QED BY <1>1, <1>4, <1>5

\* A course that a task is not in, or does not count in, has the weight it has
\* whatever the task becomes.
LEMMA AllWithout ==
  ASSUME NEW T \in TaskTable, NEW U \in TaskTable, NEW c, NEW E, NEW i,
         \A j \in TaskIds : j # i => U[j] = T[j]
  PROVE  /\ LoadAll(U, c, E \cup {i}) = LoadAll(T, c, E \cup {i})
         /\ LoadAll(T, c, E \cup {i}) <= LoadAll(T, c, E)
<1>1. \A j : j \in InCourse(T, c, E \cup {i}) <=> j \in InCourse(U, c, E \cup {i})
  BY DEF InCourse
<1>2. \A j \in InCourse(T, c, E \cup {i}) : U[j] = T[j] /\ j \in InCourse(T, c, E)
  BY DEF InCourse
<1>3. LoadSingle(U, c, E \cup {i}) = LoadSingle(T, c, E \cup {i})
  BY <1>1, <1>2 DEF LoadSingle
<1>4. LoadSeries(U, c, E \cup {i}) = LoadSeries(T, c, E \cup {i})
  BY <1>1, <1>2 DEF LoadSeries
<1>5. /\ LoadSingle(T, c, E \cup {i}) \subseteq LoadSingle(T, c, E)
      /\ LoadSeries(T, c, E \cup {i}) \subseteq LoadSeries(T, c, E)
  BY <1>2 DEF LoadSingle, LoadSeries
<1>6. LoadAll(T, c, E \cup {i}) <= LoadAll(T, c, E)
  BY <1>5, AllLess
<1> QED BY <1>3, <1>4, <1>6 DEF LoadAll

LEMMA AllSkips ==
  ASSUME NEW U \in TaskTable, NEW c, NEW E, NEW i, U[i] = NoTask \/ U[i].course # c
  PROVE  LoadAll(U, c, E) = LoadAll(U, c, E \cup {i})
<1>1. InCourse(U, c, E) = InCourse(U, c, E \cup {i})
  BY DEF InCourse
<1>2. /\ LoadSingle(U, c, E) = LoadSingle(U, c, E \cup {i})
      /\ LoadSeries(U, c, E) = LoadSeries(U, c, E \cup {i})
  BY <1>1 DEF LoadSingle, LoadSeries
<1> QED BY <1>2 DEF LoadAll

\* A course gets at most what the task weighs now.
LEMMA AllGrown ==
  ASSUME NEW T \in TaskTable, NEW U \in TaskTable, NEW c, NEW E, NEW i \in TaskIds, i \notin E,
         \A j \in TaskIds : j # i => U[j] = T[j],
         U[i] # NoTask, U[i].course = c
  PROVE  LoadAll(U, c, E) <= LoadAll(T, c, E \cup {i}) + U[i].weight
<1>1. LoadAll(U, c, E) <= LoadAll(U, c, E \cup {i}) + U[i].weight
  BY AllPlus
<1>2. LoadAll(U, c, E \cup {i}) = LoadAll(T, c, E \cup {i})
  BY AllWithout
<1> QED BY <1>1, <1>2

\* What makes a course no heavier: that a task goes, or comes without weight; or
\* weighs no more than before, unless it leaves its series.
LEMMA AllKept ==
  ASSUME NEW T \in TaskTable, NEW U \in TaskTable, NEW c, NEW E, NEW i \in TaskIds, i \notin E,
         \A j \in TaskIds : j # i => U[j] = T[j],
         \/ U[i] = NoTask \/ U[i].course # c \/ U[i].weight = 0
         \/ /\ T[i] # NoTask /\ T[i].course = c /\ U[i].weight <= T[i].weight
            /\ ~T[i].repeats \/ (U[i].repeats /\ U[i].title = T[i].title)
  PROVE  LoadAll(U, c, E) <= LoadAll(T, c, E)
<1>1. /\ LoadAll(U, c, E \cup {i}) = LoadAll(T, c, E \cup {i})
      /\ LoadAll(T, c, E \cup {i}) <= LoadAll(T, c, E)
  BY AllWithout
<1>2. LoadAll(T, c, E) \in Nat /\ LoadAll(U, c, E) \in Nat /\ LoadAll(T, c, E \cup {i}) \in Nat
  BY AllFinite
<1>3. CASE U[i] = NoTask \/ U[i].course # c
  BY <1>1, <1>3, AllSkips
<1>4. CASE U[i] # NoTask /\ U[i].course = c /\ U[i].weight = 0
  <2>1. LoadAll(U, c, E) <= LoadAll(T, c, E \cup {i}) + 0
    BY <1>4, AllGrown
  <2> QED BY <1>1, <1>2, <2>1
<1>5. CASE /\ U[i] # NoTask /\ U[i].course = c
           /\ T[i] # NoTask /\ T[i].course = c /\ U[i].weight <= T[i].weight
           /\ ~T[i].repeats
  <2>1. LoadAll(U, c, E) <= LoadAll(T, c, E \cup {i}) + U[i].weight
    BY <1>5, AllGrown
  <2>2. LoadAll(T, c, E) = LoadAll(T, c, E \cup {i}) + T[i].weight
    BY <1>5, AllPlus
  <2>3. U[i].weight \in Nat /\ T[i].weight \in Nat
    BY <1>5, TableFields
  <2> QED BY <1>2, <1>5, <2>1, <2>2, <2>3
<1>6. CASE /\ U[i] # NoTask /\ U[i].course = c
           /\ T[i] # NoTask /\ T[i].course = c /\ U[i].weight <= T[i].weight
           /\ T[i].repeats /\ U[i].repeats /\ U[i].title = T[i].title
  <2>1. \A j : j \in InCourse(T, c, E) <=> j \in InCourse(U, c, E)
    BY <1>6 DEF InCourse
  <2>2. LoadSingle(U, c, E) \subseteq LoadSingle(T, c, E)
    BY <1>6, <2>1 DEF LoadSingle
  <2>3. ASSUME NEW x \in LoadSeries(U, c, E)  PROVE x \in LoadSeries(T, c, E)
    <3>1. PICK j \in InCourse(U, c, E) : U[j].repeats /\ U[j].title = x[1] /\ x[2] <= U[j].weight
      BY DEF LoadSeries
    <3>2. x \in Titles \X (1 .. Full) /\ x[2] \in Nat
      BY DEF LoadSeries
    <3>3. T[j].repeats /\ T[j].title = x[1] /\ x[2] <= T[j].weight
      <4>1. CASE j = i
        <5>1. U[i].weight \in Nat /\ T[i].weight \in Nat
          BY <1>6, TableFields
        <5> QED BY <1>6, <3>1, <3>2, <4>1, <5>1
      <4>2. CASE j # i
        BY <3>1, <4>2 DEF InCourse
      <4> QED BY <4>1, <4>2
    <3> QED BY <2>1, <3>2, <3>3 DEF LoadSeries
  <2> QED BY <2>2, <2>3, AllLess
<1> QED BY <1>3, <1>4, <1>5, <1>6

\* The next occurrence of a series weighs nothing beyond the one it follows.
LEMMA AllRepeated ==
  ASSUME NEW T \in TaskTable, NEW U \in TaskTable, NEW c, NEW E, NEW i \in TaskIds,
         \A k \in TaskIds : k # i => U[k] = T[k], T[i] = NoTask,
         NEW j \in TaskIds \ E, T[j] # NoTask, T[j].repeats, U[i].repeats,
         U[i].title = T[j].title, U[i].course = T[j].course, U[i].weight = T[j].weight
  PROVE  LoadAll(U, c, E) <= LoadAll(T, c, E)
<1>1. LoadSingle(U, c, E) \subseteq LoadSingle(T, c, E)
  BY DEF LoadSingle, InCourse
<1>2. ASSUME NEW x \in LoadSeries(U, c, E)  PROVE x \in LoadSeries(T, c, E)
  <2>1. PICK k \in InCourse(U, c, E) : U[k].repeats /\ U[k].title = x[1] /\ x[2] <= U[k].weight
    BY DEF LoadSeries
  <2>2. x \in Titles \X (1 .. Full)
    BY DEF LoadSeries
  <2>3. CASE k = i
    <3>1. j \in InCourse(T, c, E)
      BY <2>1, <2>3 DEF InCourse
    <3> QED BY <2>1, <2>2, <2>3, <3>1 DEF LoadSeries
  <2>4. CASE k # i
    <3>1. k \in InCourse(T, c, E) /\ U[k] = T[k]
      BY <2>1, <2>4 DEF InCourse
    <3> QED BY <2>1, <2>2, <3>1 DEF LoadSeries
  <2> QED BY <2>3, <2>4
<1> QED BY <1>1, <1>2, AllLess

\* What loadUsedWeight adds up is that.
LEMMA AllUnits ==
  ASSUME NEW T \in TaskTable, NEW c, NEW E, NEW S, S = InCourse(T, c, E)
  PROVE  /\ UNION {{i} \X (1 .. T[i].weight) : i \in {i \in S : ~T[i].repeats}}
              = LoadSingle(T, c, E)
         /\ UNION {{T[i].title} \X (1 .. T[i].weight) : i \in S \ {i \in S : ~T[i].repeats}}
              = LoadSeries(T, c, E)
<1>1. ASSUME NEW i \in S
      PROVE  i \in TaskIds /\ T[i].title \in Titles /\ T[i].weight \in Nat /\ T[i].weight <= Full
  <2>1. i \in TaskIds /\ T[i] # NoTask
    BY DEF InCourse
  <2> QED BY <2>1, TableFields
<1>2. ASSUME NEW w \in Nat, w <= Full  PROVE \A n \in 1 .. w : n \in 1 .. Full /\ n <= w
  BY <1>2, TaskConstants
<1>3. ASSUME NEW w \in Nat, NEW n \in 1 .. Full, n <= w  PROVE n \in 1 .. w
  BY <1>3, TaskConstants
<1>4. UNION {{i} \X (1 .. T[i].weight) : i \in {i \in S : ~T[i].repeats}} = LoadSingle(T, c, E)
  <2> DEFINE V == UNION {{i} \X (1 .. T[i].weight) : i \in {i \in S : ~T[i].repeats}}
  <2>1. ASSUME NEW x \in V  PROVE x \in LoadSingle(T, c, E)
    <3>1. PICK i \in S : ~T[i].repeats /\ x \in {i} \X (1 .. T[i].weight)
      OBVIOUS
    <3>2. x = <<i, x[2]>> /\ x[1] = i /\ x[2] \in 1 .. T[i].weight
      BY <3>1
    <3>3. x[2] \in 1 .. Full /\ x[2] <= T[i].weight
      BY <1>1, <1>2, <3>2
    <3>4. x \in TaskIds \X (1 .. Full)
      BY <1>1, <3>2, <3>3
    <3> QED BY <3>1, <3>2, <3>3, <3>4 DEF LoadSingle
  <2>2. ASSUME NEW x \in LoadSingle(T, c, E)  PROVE x \in V
    <3>1. /\ x \in TaskIds \X (1 .. Full) /\ x[1] \in S /\ ~T[x[1]].repeats
          /\ x[2] <= T[x[1]].weight
      BY DEF LoadSingle
    <3>2. x[2] \in 1 .. T[x[1]].weight
      BY <1>1, <1>3, <3>1
    <3>3. x \in {x[1]} \X (1 .. T[x[1]].weight)
      BY <3>1, <3>2
    <3> QED BY <3>1, <3>3
  <2> QED BY <2>1, <2>2
<1>5. UNION {{T[i].title} \X (1 .. T[i].weight) : i \in S \ {i \in S : ~T[i].repeats}}
        = LoadSeries(T, c, E)
  <2> DEFINE V == UNION {{T[i].title} \X (1 .. T[i].weight) : i \in S \ {i \in S : ~T[i].repeats}}
  <2>1. ASSUME NEW x \in V  PROVE x \in LoadSeries(T, c, E)
    <3>1. PICK i \in S : T[i].repeats /\ x \in {T[i].title} \X (1 .. T[i].weight)
      OBVIOUS
    <3>2. x[1] = T[i].title /\ x[2] \in 1 .. T[i].weight /\ x = <<x[1], x[2]>>
      BY <3>1
    <3>3. x[2] \in 1 .. Full /\ x[2] <= T[i].weight
      BY <1>1, <1>2, <3>2
    <3>4. x \in Titles \X (1 .. Full)
      BY <1>1, <3>2, <3>3
    <3> QED BY <3>1, <3>2, <3>3, <3>4 DEF LoadSeries
  <2>2. ASSUME NEW x \in LoadSeries(T, c, E)  PROVE x \in V
    <3>1. x \in Titles \X (1 .. Full)
      BY DEF LoadSeries
    <3>2. PICK i \in S : T[i].repeats /\ T[i].title = x[1] /\ x[2] <= T[i].weight
      BY DEF LoadSeries
    <3>3. x[2] \in 1 .. T[i].weight
      BY <1>1, <1>3, <3>1, <3>2
    <3>4. x \in {T[i].title} \X (1 .. T[i].weight)
      BY <3>1, <3>2, <3>3
    <3> QED BY <3>2, <3>4
  <2> QED BY <2>1, <2>2
<1> QED BY <1>4, <1>5

LEMMA UsedIsAll ==
  ASSUME task \in TaskTable, component \in [Courses -> Nat], NEW c \in Courses, NEW E
  PROVE  Used(c, E) = component[c] + LoadAll(task, c, E)
<1>1. PICK S : S = {i \in Live \ E : task[i].course = c}  OBVIOUS
<1>2. S = InCourse(task, c, E)
  BY <1>1 DEF InCourse, Live
<1>3. /\ UNION {{i} \X (1 .. task[i].weight) : i \in {i \in S : ~task[i].repeats}}
           = LoadSingle(task, c, E)
      /\ UNION {{task[i].title} \X (1 .. task[i].weight) : i \in S \ {i \in S : ~task[i].repeats}}
           = LoadSeries(task, c, E)
  BY <1>2, AllUnits
<1>4. Used(c, E) = component[c] + Cardinality(LoadSingle(task, c, E))
                     + Cardinality(LoadSeries(task, c, E))
  BY <1>1, <1>3 DEF Used, Units
<1>5. Cardinality(LoadSingle(task, c, E)) \in Nat /\ Cardinality(LoadSeries(task, c, E)) \in Nat
  BY AllFinite
<1> QED BY <1>4, <1>5 DEF LoadAll

\* A weight counts or does not.
LEMMA WeighsNat ==
  ASSUME NEW w \in Nat
  PROVE  /\ Weighs(w) \in Nat /\ Weighs(w) <= w /\ (w <= Epsilon => Weighs(w) = 0)
         /\ w > Epsilon => Weighs(w) = w
         /\ \A v \in Nat : v <= w => Weighs(v) <= Weighs(w)
BY TaskConstants DEF Weighs

(***************************************************************************)
(* The same of the weights above the tolerance: what the table weighs when *)
(* the others are struck out.                                              *)
(***************************************************************************)
Struck(T) ==
  [i \in TaskIds |-> IF T[i] = NoTask THEN NoTask ELSE [T[i] EXCEPT !.weight = Weighs(@)]]
Load(T, c, E) == LoadAll(Struck(T), c, E)

LEMMA StruckRow ==
  ASSUME NEW T \in TaskTable, NEW i \in TaskIds
  PROVE  /\ T[i] = NoTask <=> Struck(T)[i] = NoTask
         /\ T[i] # NoTask =>
              /\ T[i].weight \in 0 .. Full /\ Struck(T)[i].weight = Weighs(T[i].weight)
              /\ Struck(T)[i].course = T[i].course /\ Struck(T)[i].title = T[i].title
              /\ Struck(T)[i].repeats = T[i].repeats /\ Struck(T)[i] \in Task
<1>1. CASE T[i] = NoTask
  BY <1>1 DEF Struck
<1>2. CASE T[i] # NoTask
  <2>1. PICK t \in Task : t = T[i]
    BY <1>2, TableFields
  <2>2. Weighs(t.weight) \in 0 .. Full
    BY TaskFields, WeighsNat, TaskConstants
  <2>3. PICK w \in 0 .. Full : w = Weighs(t.weight)
    BY <2>2
  <2>4. Struck(T)[i] = [t EXCEPT !.weight = w]
    BY <1>2, <2>1, <2>3 DEF Struck
  <2>5. /\ [t EXCEPT !.weight = w] \in Task /\ [t EXCEPT !.weight = w].weight = w
        /\ [t EXCEPT !.weight = w].course = t.course /\ [t EXCEPT !.weight = w].title = t.title
        /\ [t EXCEPT !.weight = w].repeats = t.repeats
    BY DEF Task
  <2> QED BY <1>2, <2>1, <2>3, <2>4, <2>5, NoTaskNone, TaskFields
<1> QED BY <1>1, <1>2

LEMMA StruckTable ==
  ASSUME NEW T \in TaskTable
  PROVE  Struck(T) \in TaskTable
<1>1. \A i \in TaskIds : Struck(T)[i] \in Task \cup {NoTask}
  BY StruckRow
<1>2. Struck(T) = [i \in TaskIds |-> Struck(T)[i]]
  BY DEF Struck
<1> QED BY <1>1, <1>2 DEF TaskTable

LEMMA StruckElse ==
  ASSUME NEW T \in TaskTable, NEW U \in TaskTable, NEW i,
         \A j \in TaskIds : j # i => U[j] = T[j]
  PROVE  \A j \in TaskIds : j # i => Struck(U)[j] = Struck(T)[j]
BY DEF Struck

LEMMA LoadFinite ==
  ASSUME NEW T \in TaskTable, NEW c, NEW E
  PROVE  Load(T, c, E) \in Nat
BY StruckTable, AllFinite DEF Load

LEMMA LoadWithout ==
  ASSUME NEW T \in TaskTable, NEW c, NEW E, NEW i
  PROVE  Load(T, c, E \cup {i}) <= Load(T, c, E)
<1>1. Struck(T) \in TaskTable
  BY StruckTable
<1> QED BY <1>1, AllWithout DEF Load

LEMMA LoadGrown ==
  ASSUME NEW T \in TaskTable, NEW U \in TaskTable, NEW c, NEW E, NEW i \in TaskIds, i \notin E,
         \A j \in TaskIds : j # i => U[j] = T[j],
         U[i] # NoTask, U[i].course = c
  PROVE  Load(U, c, E) <= Load(T, c, E \cup {i}) + Weighs(U[i].weight)
<1>1. /\ Struck(T) \in TaskTable /\ Struck(U) \in TaskTable
      /\ \A j \in TaskIds : j # i => Struck(U)[j] = Struck(T)[j]
  BY StruckTable, StruckElse
<1>2. /\ Struck(U)[i] # NoTask /\ Struck(U)[i].course = c
      /\ Struck(U)[i].weight = Weighs(U[i].weight)
  BY StruckRow
<1>3. LoadAll(Struck(U), c, E) <= LoadAll(Struck(T), c, E \cup {i}) + Struck(U)[i].weight
  BY <1>1, <1>2, AllGrown
<1> QED BY <1>2, <1>3 DEF Load

LEMMA LoadKept ==
  ASSUME NEW T \in TaskTable, NEW U \in TaskTable, NEW c, NEW E, NEW i \in TaskIds, i \notin E,
         \A j \in TaskIds : j # i => U[j] = T[j],
         \/ U[i] = NoTask \/ U[i].course # c \/ U[i].weight = 0
         \/ /\ T[i] # NoTask /\ T[i].course = c /\ U[i].weight <= T[i].weight
            /\ ~T[i].repeats \/ (U[i].repeats /\ U[i].title = T[i].title)
  PROVE  Load(U, c, E) <= Load(T, c, E)
<1>1. /\ Struck(T) \in TaskTable /\ Struck(U) \in TaskTable
      /\ \A j \in TaskIds : j # i => Struck(U)[j] = Struck(T)[j]
  BY StruckTable, StruckElse
<1>2. /\ U[i] # NoTask /\ U[i].weight = 0 => Struck(U)[i].weight = 0
      /\ U[i] # NoTask /\ T[i] # NoTask /\ U[i].weight <= T[i].weight =>
           Struck(U)[i].weight <= Struck(T)[i].weight
  BY StruckRow, WeighsNat, TaskConstants
<1>3. \/ Struck(U)[i] = NoTask \/ Struck(U)[i].course # c \/ Struck(U)[i].weight = 0
      \/ /\ Struck(T)[i] # NoTask /\ Struck(T)[i].course = c
         /\ Struck(U)[i].weight <= Struck(T)[i].weight
         /\ \/ ~Struck(T)[i].repeats
            \/ Struck(U)[i].repeats /\ Struck(U)[i].title = Struck(T)[i].title
  BY <1>2, StruckRow
<1>4. LoadAll(Struck(U), c, E) <= LoadAll(Struck(T), c, E)
  BY <1>1, <1>3, AllKept
<1> QED BY <1>4 DEF Load

LEMMA LoadRepeated ==
  ASSUME NEW T \in TaskTable, NEW U \in TaskTable, NEW c, NEW E, NEW i \in TaskIds,
         \A k \in TaskIds : k # i => U[k] = T[k], T[i] = NoTask, U[i] # NoTask,
         NEW j \in TaskIds \ E, T[j] # NoTask, T[j].repeats, U[i].repeats,
         U[i].title = T[j].title, U[i].course = T[j].course, U[i].weight = T[j].weight
  PROVE  Load(U, c, E) <= Load(T, c, E)
<1>1. /\ Struck(T) \in TaskTable /\ Struck(U) \in TaskTable
      /\ \A k \in TaskIds : k # i => Struck(U)[k] = Struck(T)[k]
  BY StruckTable, StruckElse
<1>2. /\ Struck(T)[i] = NoTask /\ Struck(T)[j] # NoTask /\ Struck(T)[j].repeats
      /\ Struck(U)[i].repeats /\ Struck(U)[i].title = Struck(T)[j].title
      /\ Struck(U)[i].course = Struck(T)[j].course /\ Struck(U)[i].weight = Struck(T)[j].weight
  BY StruckRow
<1>3. LoadAll(Struck(U), c, E) <= LoadAll(Struck(T), c, E)
  BY <1>1, <1>2, AllRepeated
<1> QED BY <1>3 DEF Load

\* It is at most what loadUsedWeight adds up.
LEMMA UsedCoversLoad ==
  ASSUME task \in TaskTable, component \in [Courses -> Nat], NEW c \in Courses, NEW E
  PROVE  Used(c, E) \in Nat /\ component[c] + Load(task, c, E) <= Used(c, E)
<1>1. PICK U \in TaskTable : U = Struck(task)
  BY StruckTable
<1>2. ASSUME NEW i \in InCourse(U, c, E)
      PROVE  /\ i \in InCourse(task, c, E) /\ U[i].title = task[i].title
             /\ U[i].repeats = task[i].repeats
             /\ U[i].weight \in Nat /\ task[i].weight \in Nat /\ U[i].weight <= task[i].weight
  <2>1. i \in TaskIds /\ i \notin E /\ U[i] # NoTask /\ U[i].course = c
    BY DEF InCourse
  <2> QED BY <1>1, <2>1, StruckRow, WeighsNat, TaskConstants DEF InCourse
<1>3. ASSUME NEW n \in Nat, NEW a \in Nat, NEW b \in Nat, n <= a, a <= b  PROVE n <= b
  BY <1>3
<1>4. LoadSingle(U, c, E) \subseteq LoadSingle(task, c, E)
  <2> SUFFICES ASSUME NEW x \in LoadSingle(U, c, E)  PROVE x \in LoadSingle(task, c, E)
    OBVIOUS
  <2>1. /\ x \in TaskIds \X (1 .. Full) /\ x[1] \in InCourse(U, c, E) /\ ~U[x[1]].repeats
        /\ x[2] <= U[x[1]].weight /\ x[2] \in Nat
    BY DEF LoadSingle
  <2> QED BY <1>2, <1>3, <2>1 DEF LoadSingle
<1>5. LoadSeries(U, c, E) \subseteq LoadSeries(task, c, E)
  <2> SUFFICES ASSUME NEW x \in LoadSeries(U, c, E)  PROVE x \in LoadSeries(task, c, E)
    OBVIOUS
  <2>1. x \in Titles \X (1 .. Full) /\ x[2] \in Nat
    BY DEF LoadSeries
  <2>2. PICK i \in InCourse(U, c, E) : U[i].repeats /\ U[i].title = x[1] /\ x[2] <= U[i].weight
    BY DEF LoadSeries
  <2>3. /\ i \in InCourse(task, c, E) /\ task[i].repeats /\ task[i].title = x[1]
        /\ x[2] <= task[i].weight
    BY <1>2, <1>3, <2>1, <2>2
  <2> QED BY <2>1, <2>3 DEF LoadSeries
<1>6. LoadAll(U, c, E) <= LoadAll(task, c, E)
  BY <1>4, <1>5, AllLess
<1>7. LoadAll(U, c, E) \in Nat /\ LoadAll(task, c, E) \in Nat /\ component[c] \in Nat
  BY AllFinite
<1>8. Used(c, E) = component[c] + LoadAll(task, c, E)
  BY UsedIsAll
<1>9. Load(task, c, E) = LoadAll(U, c, E)
  BY <1>1 DEF Load
<1> QED BY <1>6, <1>7, <1>8, <1>9

LEMMA LoadOfSome ==
  ASSUME NEW T \in TaskTable, NEW c, NEW E
  PROVE  Load(T, c, E) <= Load(T, c, {})
<1>1. Struck(T) \in TaskTable
  BY StruckTable
<1>2. \A j : j \in InCourse(Struck(T), c, E) => j \in InCourse(Struck(T), c, {})
  BY DEF InCourse
<1>3. /\ LoadSingle(Struck(T), c, E) \subseteq LoadSingle(Struck(T), c, {})
      /\ LoadSeries(Struck(T), c, E) \subseteq LoadSeries(Struck(T), c, {})
  BY <1>2 DEF LoadSingle, LoadSeries
<1> QED BY <1>1, <1>3, AllLess DEF Load

LEMMA LoadNothing ==
  ASSUME NEW T \in TaskTable, NEW c, \A i \in TaskIds : T[i] = NoTask
  PROVE  Load(T, c, {}) = 0
<1>1. InCourse(Struck(T), c, {}) = {}
  BY StruckRow DEF InCourse
<1>2. LoadSingle(Struck(T), c, {}) = {} /\ LoadSeries(Struck(T), c, {}) = {}
  BY <1>1 DEF LoadSingle, LoadSeries
<1>3. Cardinality({}) = 0
  BY FS_EmptySet
<1> QED BY <1>2, <1>3 DEF Load, LoadAll

\* Whatever occurrence of each series is graded weighs no more.
LEMMA LoadBoundsGraded ==
  ASSUME task \in TaskTable, component \in [Courses -> Nat], NEW c \in Courses,
         component[c] + Load(task, c, {}) <= Most, NEW Q \in Graded(c)
  PROVE  Weight(c, Q \cap Weighty) <= Full + Epsilon
<1>0. PICK S : S = Q \cap Weighty  OBVIOUS
<1>a. PICK H \in TaskTable : H = Struck(task)
  BY StruckTable
<1> DEFINE G == UNION {{i} \X Units(i) : i \in S}
           A == {x \in G : ~task[x[1]].repeats}
           B == {x \in G : task[x[1]].repeats}
           f == [x \in B |-> <<task[x[1]].title, x[2]>>]
<1>1. ASSUME NEW i \in S
      PROVE  /\ i \in InCourse(H, c, {}) /\ i \in TaskIds /\ i \in Q /\ task[i].title \in Titles
             /\ task[i].repeats \in BOOLEAN /\ task[i].weight \in Nat /\ task[i].weight <= Full
             /\ H[i].title = task[i].title /\ H[i].repeats = task[i].repeats
             /\ H[i].weight = task[i].weight
  <2>1. /\ i \in TaskIds /\ task[i] # NoTask /\ task[i].course = c /\ i \in Q
        /\ task[i].weight > Epsilon
    BY <1>0 DEF Graded, Live, Weighty
  <2>2. /\ task[i].title \in Titles /\ task[i].repeats \in BOOLEAN
        /\ task[i].weight \in Nat /\ task[i].weight <= Full
    BY <2>1, TableFields
  <2>3. Weighs(task[i].weight) = task[i].weight
    BY <2>1, <2>2, WeighsNat
  <2> QED BY <1>a, <2>1, <2>2, <2>3, StruckRow DEF InCourse
<1>2. ASSUME NEW x \in G
      PROVE  x = <<x[1], x[2]>> /\ x[1] \in S /\ x[2] \in 1 .. Full /\ x[2] <= task[x[1]].weight
  <2>1. PICK i \in S : x \in {i} \X (1 .. task[i].weight)
    BY DEF Units
  <2>2. x = <<i, x[2]>> /\ x[1] = i /\ x[2] \in 1 .. task[i].weight
    BY <2>1
  <2>3. \A w \in Nat : \A n \in 1 .. w : w <= Full => n \in 1 .. Full /\ n <= w
    BY TaskConstants
  <2> QED BY <1>1, <2>2, <2>3
<1>3. A \subseteq LoadSingle(H, c, {})
  <2> SUFFICES ASSUME NEW x \in A  PROVE x \in LoadSingle(H, c, {})
    OBVIOUS
  <2>1. x \in G /\ ~task[x[1]].repeats
    OBVIOUS
  <2> HIDE DEF A, G
  <2> QED BY <1>1, <1>2, <2>1 DEF LoadSingle
<1>4. ASSUME NEW x \in B  PROVE f[x] = <<task[x[1]].title, x[2]>> /\ f[x] \in LoadSeries(H, c, {})
  <2>1. x \in G /\ task[x[1]].repeats /\ f[x] = <<task[x[1]].title, x[2]>>
    OBVIOUS
  <2> HIDE DEF B, G, f
  <2> QED BY <1>1, <1>2, <2>1 DEF LoadSeries
<1>5. ASSUME NEW x \in B, NEW y \in B, f[x] = f[y]  PROVE x = y
  <2>1. x \in G /\ y \in G /\ task[x[1]].repeats /\ task[y[1]].repeats
    OBVIOUS
  <2>2. task[x[1]].title = task[y[1]].title /\ x[2] = y[2]
    BY <1>4, <1>5
  <2>3. x[1] \in S /\ y[1] \in S /\ x = <<x[1], x[2]>> /\ y = <<y[1], y[2]>>
    BY <1>2, <2>1
  <2>4. x[1] = y[1]
    BY <1>1, <2>1, <2>2, <2>3 DEF Graded
  <2> QED BY <2>2, <2>3, <2>4
<1>6. f \in Injection(B, LoadSeries(H, c, {}))
  <2>1. f \in [B -> LoadSeries(H, c, {})]
    BY <1>4
  <2> HIDE DEF f, B
  <2> QED BY <1>5, <2>1 DEF Injection, IsInjective
<1>7. G = A \cup B
  <2> HIDE DEF G
  <2> QED OBVIOUS
<1> HIDE DEF f, A, B, G
<1>8. /\ IsFiniteSet(LoadSingle(H, c, {})) /\ IsFiniteSet(LoadSeries(H, c, {}))
      /\ Cardinality(LoadSingle(H, c, {})) \in Nat /\ Cardinality(LoadSeries(H, c, {})) \in Nat
  BY AllFinite
<1>9. IsFiniteSet(A) /\ Cardinality(A) <= Cardinality(LoadSingle(H, c, {}))
  BY <1>3, <1>8, FS_Subset
<1>10. IsFiniteSet(B) /\ Cardinality(B) <= Cardinality(LoadSeries(H, c, {}))
  BY <1>6, <1>8, FS_Injection
<1>11. /\ Cardinality(A) \in Nat /\ Cardinality(B) \in Nat /\ Cardinality(A \cap B) \in Nat
       /\ Cardinality(G) = Cardinality(A) + Cardinality(B) - Cardinality(A \cap B)
  <2>1. IsFiniteSet(A \cap B)
    BY <1>9, FS_Intersection
  <2>2. Cardinality(A) \in Nat /\ Cardinality(B) \in Nat /\ Cardinality(A \cap B) \in Nat
    BY <1>9, <1>10, <2>1, FS_CardinalityType
  <2>3. Cardinality(A \cup B) = Cardinality(A) + Cardinality(B) - Cardinality(A \cap B)
    BY <1>9, <1>10, FS_Union
  <2> QED BY <1>7, <2>2, <2>3
<1>12. Load(task, c, {}) = Cardinality(LoadSingle(H, c, {})) + Cardinality(LoadSeries(H, c, {}))
  BY <1>a DEF Load, LoadAll
<1>13. component[c] + Cardinality(G) <= Most
  BY <1>8, <1>9, <1>10, <1>11, <1>12, TaskConstants
<1> QED BY <1>0, <1>13 DEF G, Weight, Most

-----------------------------------------------------------------------------
(***************************************************************************)
(* The inductive invariant.  TaskTyped is what a request knows whatever    *)
(* overlaps; the rest is what holds of it when requests do not overlap, or *)
(* overlap for different tasks and without adding weight both: what it     *)
(* read of its task is so until it writes, and what it found room for has  *)
(* room.                                                                   *)
(***************************************************************************)
TaskNews ==
  Titles \cup Courses \cup Nat \cup BOOLEAN \cup {NoTask} \cup [course : Courses, weight : Nat]
TaskShape ==
  [op : {"none", "add", "component", "update", "confirm"},
   pc : {"idle", "insert", "weigh", "write", "next", "insertNext", "reviews", "insertReviews"},
   id : 0 .. MaxTasks, was : BOOLEAN,
   field : {"none", "title", "course", "date", "weight", "repeats", "done"},
   new : TaskNews, rows : SUBSET Task]
TaskKnows(q) ==
  /\ q.id \in 0 .. last
  /\ q.pc = "idle" => q = NoRequest
  /\ q.pc = "insert" =>
       /\ q.op = "add" /\ q.id = 0 /\ q.field = "none"
       /\ \A t \in q.rows : t.stamped = t.done /\ ~t.auto /\ t.reviews = 0
  /\ q.pc = "weigh" =>
       /\ q.op = "component" /\ q.id = 0 /\ q.field = "none"
       /\ q.new \in [course : Courses, weight : Nat]
  /\ q.pc = "write" => q.id # 0 /\ q.op \in {"update", "confirm"} /\ q.field # "none"
  /\ q.pc = "write" /\ q.field = "title" => q.new \in Titles
  /\ q.pc = "write" /\ q.field = "course" => q.new \in Courses
  /\ q.pc = "write" /\ q.field = "date" => q.new \in 0 .. LastDay
  /\ q.pc = "write" /\ q.field = "weight" => q.new \in 0 .. Full
  /\ q.pc = "write" /\ q.field \in {"repeats", "done"} => q.new \in BOOLEAN
  /\ q.pc = "write" /\ q.op = "confirm" => q.field = "done" /\ q.new = TRUE
  /\ q.pc \in {"next", "insertNext", "reviews", "insertReviews"} =>
       q.id # 0 /\ q.op = "update" /\ q.field = "none"
  /\ q.pc \in {"next", "insertNext"} => \E t \in Task : q.rows = {t}
  /\ q.pc = "insertNext" => q.new \in 0 .. LastDay /\ \A t \in q.rows : t.repeats
TaskTyped ==
  /\ TaskTypes /\ going \in [TaskRequests -> TaskShape]
  /\ \A r \in TaskRequests : TaskKnows(going[r])
  /\ \A i \in Live : i <= last /\ (task[i].auto => task[i].repeats)

TaskAlone == serial \/ ~Together
TaskApart ==
  TaskAlone =>
    \A r, s \in TaskRequests : r # s =>
      /\ going[r].id = 0 \/ going[r].id # going[s].id
      /\ ~Adds(going[r]) \/ ~Adds(going[s])
      /\ serial => going[r] = NoRequest \/ going[s] = NoRequest
TaskRows == TaskAlone =>
  \A i \in Live : task[i].stamped = task[i].done /\ task[i].reviews <= Reviews

\* There is room for what is to be written.
TaskRoom(q) ==
  /\ q.pc = "insert" => \E x, y \in q.rows :
       /\ q.rows = {x, y} /\ x.course = y.course
       /\ ~split[x.course] =>
            component[x.course] + Load(task, x.course, {}) + Weighs(x.weight)
              + (IF x = y THEN 0 ELSE Weighs(y.weight)) <= Most
  /\ q.pc = "weigh" =>
       (~split[q.new.course] => q.new.weight + Load(task, q.new.course, {}) <= Most)
  /\ q.pc = "write" /\ q.field = "weight" => LET c == task[q.id].course IN
       ~split[c] => \/ q.new <= task[q.id].weight
                    \/ component[c] + Load(task, c, {q.id}) + Weighs(q.new) <= Most
  /\ q.pc = "write" /\ q.field = "course" =>
       (~split[q.new] =>
          component[q.new] + Load(task, q.new, {q.id}) + Weighs(task[q.id].weight) <= Most)
TaskMeans(q) ==
  /\ q.id # 0 => task[q.id] # NoTask
  /\ q.pc = "write" /\ q.field = "done" => q.was = task[q.id].done
  /\ q.pc \in {"next", "insertNext"} => q.rows = {task[q.id]}
  /\ q.pc = "insertReviews" => task[q.id].reviews = 0
  /\ q.pc = "insertNext" /\ serial => ~HasNext(task[q.id], q.new)
  /\ TaskRoom(q)
TaskMeaning == TaskAlone => \A r \in TaskRequests : TaskMeans(going[r])
TaskBudget ==
  TaskAlone => \A c \in Courses : ~split[c] => component[c] + Load(task, c, {}) <= Most
\* Completing spawns each occurrence of a series once.
TaskSpawnedOnce ==
  serial => \A i, j \in Live : i # j /\ task[i].auto /\ task[j].auto =>
    \/ task[i].title # task[j].title \/ task[i].course # task[j].course
    \/ task[i].date # task[j].date
TasksInv ==
  TaskTyped /\ TaskApart /\ TaskRows /\ TaskMeaning /\ TaskBudget /\ TaskSpawnedOnce

\* What one step does when no task but i changes: i stays sound, and no course
\* becomes heavier, except by what left its series, whether or not tasks count
\* that are not in D.
TaskStays(i) ==
  /\ \A j \in TaskIds : j # i => task'[j] = task[j]
  /\ i \in TaskIds => \/ task'[i] = NoTask
                      \/ /\ i <= last' /\ (task'[i].auto => task'[i].repeats)
                         /\ TaskAlone => /\ task'[i].stamped = task'[i].done
                                         /\ task'[i].reviews <= Reviews
TaskLighter(D) ==
  \A c \in Courses, E \in SUBSET TaskIds : ~split'[c] /\ E \cap D = {} =>
    ~split[c] /\ Load(task', c, E) <= Load(task, c, E)
TaskNewOnce(i) ==
  serial /\ i \in TaskIds =>
    \/ task'[i] = NoTask \/ ~task'[i].auto
    \/ /\ task[i] # NoTask /\ task[i].auto /\ task'[i].title = task[i].title
       /\ task'[i].course = task[i].course /\ task'[i].date = task[i].date
    \/ \A j \in Live : j = i \/ ~task[j].auto \/ task[j].title # task'[i].title
                       \/ task[j].course # task'[i].course \/ task[j].date # task'[i].date

LEMMA NoTaskRequest ==
  /\ NoRequest \in TaskShape /\ NoRequest.id = 0 /\ NoRequest.pc = "idle" /\ ~Adds(NoRequest)
  /\ NoRequest.op = "none" /\ NoRequest.field = "none" /\ NoRequest.rows = {}
  /\ TaskTypes => TaskKnows(NoRequest)
  /\ TaskMeans(NoRequest)
<1>1. /\ NoRequest.id = 0 /\ NoRequest.pc = "idle" /\ NoRequest.op = "none"
      /\ NoRequest.field = "none" /\ NoRequest.rows = {}
  BY DEF NoRequest
<1>2. NoRequest \in TaskShape
  BY TaskConstants DEF NoRequest, TaskShape, TaskNews
<1>3. TaskTypes => TaskKnows(NoRequest)
  BY <1>1, TaskConstants DEF TaskKnows, TaskTypes
<1>4. TaskMeans(NoRequest)
  BY <1>1 DEF TaskMeans, TaskRoom
<1> QED BY <1>1, <1>2, <1>3, <1>4 DEF Adds

\* What another request relies on when task i changes.
LEMMA TaskUndisturbed ==
  ASSUME TasksInv, TaskTypes', NEW i, TaskStays(i), serial' = serial, NEW q \in TaskShape,
         TaskKnows(q), TaskMeans(q), NEW D \in SUBSET TaskIds, i \in TaskIds => i \in D,
         q.id \notin D, serial => q = NoRequest,
         Adds(q) => component' = component /\ TaskLighter(D)
  PROVE  TaskMeans(q)'
<1>0. /\ task \in TaskTable /\ task' \in TaskTable /\ component \in [Courses -> Nat]
      /\ last \in 0 .. MaxTasks
  BY DEF TasksInv, TaskTyped, TaskTypes, TaskTable
<1>1. q.id # 0 => q.id \in TaskIds /\ q.id # i /\ task'[q.id] = task[q.id] /\ task[q.id] # NoTask
  <2>1. q.id # 0 => q.id \in TaskIds
    BY <1>0, TaskConstants DEF TaskKnows, TaskIds
  <2> QED BY <2>1 DEF TaskStays, TaskMeans
<1>2. CASE q = NoRequest
  <2>1. q.id = 0 /\ q.pc = "idle"
    BY <1>2, NoTaskRequest
  <2> QED BY <2>1 DEF TaskMeans, TaskRoom
<1>3. CASE ~serial
  <2>1. ASSUME q.pc = "insert"
        PROVE  \E x, y \in q.rows :
                 /\ q.rows = {x, y} /\ x.course = y.course
                 /\ ~split'[x.course] =>
                      component'[x.course] + Load(task', x.course, {}) + Weighs(x.weight)
                                          + (IF x = y THEN 0 ELSE Weighs(y.weight)) <= Most
    <3>1. PICK x \in q.rows, y \in q.rows :
             /\ q.rows = {x, y} /\ x.course = y.course
             /\ ~split[x.course] =>
                  component[x.course] + Load(task, x.course, {}) + Weighs(x.weight)
                                      + (IF x = y THEN 0 ELSE Weighs(y.weight)) <= Most
      BY <2>1 DEF TaskMeans, TaskRoom
    <3>2. Adds(q) /\ x \in Task /\ y \in Task
      BY <2>1 DEF TaskKnows, Adds, TaskShape
    <3>3. PICK c \in Courses : c = x.course
      BY <3>2, TaskFields
    <3>4. PICK w \in Nat : w = Weighs(x.weight)
      BY <3>2, TaskFields
    <3>5. PICK v \in Nat : v = IF x = y THEN 0 ELSE Weighs(y.weight)
      BY <3>2, TaskFields
    <3>6. ~split'[c] => ~split[c] /\ Load(task', c, {}) <= Load(task, c, {})
      BY <3>2 DEF TaskLighter
    <3>7. Load(task', c, {}) \in Nat /\ Load(task, c, {}) \in Nat /\ component[c] \in Nat
      BY <1>0, LoadFinite
    <3>8. ~split'[c] => component[c] + Load(task', c, {}) + w + v <= Most
      BY <3>1, <3>3, <3>4, <3>5, <3>6, <3>7, TaskConstants
    <3> QED BY <3>1, <3>2, <3>3, <3>4, <3>5, <3>8
  <2>2. ASSUME q.pc = "weigh", ~split'[q.new.course]
        PROVE  q.new.weight + Load(task', q.new.course, {}) <= Most
    <3>1. Adds(q) /\ q.new \in [course : Courses, weight : Nat]
      BY <2>2 DEF TaskKnows, Adds
    <3>2. PICK c \in Courses : c = q.new.course
      BY <3>1
    <3>3. PICK w \in Nat : w = q.new.weight
      BY <3>1
    <3>4. ~split'[c] => ~split[c] /\ Load(task', c, {}) <= Load(task, c, {})
      BY <3>1 DEF TaskLighter
    <3>5. Load(task', c, {}) \in Nat /\ Load(task, c, {}) \in Nat
      BY <1>0, LoadFinite
    <3>6. w + Load(task, c, {}) <= Most
      BY <2>2, <3>2, <3>3, <3>4 DEF TaskMeans, TaskRoom
    <3>7. w + Load(task', c, {}) <= Most
      BY <2>2, <3>2, <3>4, <3>5, <3>6, TaskConstants
    <3> QED BY <3>2, <3>3, <3>7
  <2>3. ASSUME q.pc = "write", q.field = "weight", ~split'[task'[q.id].course]
        PROVE  \/ q.new <= task'[q.id].weight
               \/ component'[task'[q.id].course] + Load(task', task'[q.id].course, {q.id})
                    + Weighs(q.new) <= Most
    <3>1. Adds(q) /\ q.id # 0 /\ q.new \in 0 .. Full
      BY <2>3 DEF TaskKnows, Adds
    <3>2. PICK c \in Courses : c = task[q.id].course
      BY <1>0, <1>1, <3>1, TableFields
    <3>3. PICK w \in Nat : w = Weighs(q.new)
      BY <3>1, WeighsNat, TaskConstants
    <3>4. ~split[c] /\ Load(task', c, {q.id}) <= Load(task, c, {q.id})
      BY <1>1, <2>3, <3>1, <3>2 DEF TaskLighter
    <3>5. Load(task', c, {q.id}) \in Nat /\ Load(task, c, {q.id}) \in Nat /\ component[c] \in Nat
      BY <1>0, LoadFinite
    <3>6. q.new <= task[q.id].weight \/ component[c] + Load(task, c, {q.id}) + w <= Most
      BY <2>3, <3>2, <3>3, <3>4 DEF TaskMeans, TaskRoom
    <3>7. q.new <= task[q.id].weight \/ component[c] + Load(task', c, {q.id}) + w <= Most
      BY <3>4, <3>5, <3>6, TaskConstants
    <3> QED BY <1>1, <3>1, <3>2, <3>3, <3>7
  <2>4. ASSUME q.pc = "write", q.field = "course", ~split'[q.new]
        PROVE  component'[q.new] + Load(task', q.new, {q.id}) + Weighs(task'[q.id].weight) <= Most
    <3>1. Adds(q) /\ q.id # 0 /\ q.new \in Courses
      BY <2>4 DEF TaskKnows, Adds
    <3>2. PICK c \in Courses : c = q.new
      BY <3>1
    <3>3. PICK w \in Nat : w = Weighs(task[q.id].weight)
      BY <1>0, <1>1, <3>1, TableFields, WeighsNat
    <3>4. ~split[c] /\ Load(task', c, {q.id}) <= Load(task, c, {q.id})
      BY <1>1, <2>4, <3>1, <3>2 DEF TaskLighter
    <3>5. Load(task', c, {q.id}) \in Nat /\ Load(task, c, {q.id}) \in Nat /\ component[c] \in Nat
      BY <1>0, LoadFinite
    <3>6. component[c] + Load(task, c, {q.id}) + w <= Most
      BY <2>4, <3>2, <3>3, <3>4 DEF TaskMeans, TaskRoom
    <3>7. component[c] + Load(task', c, {q.id}) + w <= Most
      BY <3>4, <3>5, <3>6, TaskConstants
    <3> QED BY <1>1, <3>1, <3>2, <3>3, <3>7
  <2>5. TaskRoom(q)'
    BY <2>1, <2>2, <2>3, <2>4 DEF TaskRoom
  <2>6. /\ q.id # 0 => task'[q.id] # NoTask
        /\ q.pc = "write" /\ q.field = "done" => q.was = task'[q.id].done
        /\ q.pc \in {"next", "insertNext"} => q.rows = {task'[q.id]}
        /\ q.pc = "insertReviews" => task'[q.id].reviews = 0
    BY <1>1 DEF TaskKnows, TaskMeans
  <2> QED BY <1>3, <2>5, <2>6 DEF TaskMeans
<1> QED BY <1>2, <1>3

\* What a step leaves of the tables, and of what is known of the requests it does
\* not concern.
LEMMA TaskRowsStay ==
  ASSUME TasksInv, TaskTypes', NEW i, TaskStays(i), TaskNewOnce(i), serial' = serial,
         last <= last'
  PROVE  /\ (\A j \in Live : j <= last /\ (task[j].auto => task[j].repeats))'
         /\ TaskRows' /\ TaskSpawnedOnce'
         /\ \A q \in TaskShape : TaskKnows(q) => TaskKnows(q)'
<1>0. /\ last \in 0 .. MaxTasks /\ last' \in 0 .. MaxTasks /\ last \in Nat /\ last' \in Nat
  BY TaskConstants DEF TasksInv, TaskTyped, TaskTypes
<1>1. ASSUME NEW j \in Live'
      PROVE  /\ j \in TaskIds /\ j <= last' /\ (task'[j].auto => task'[j].repeats)
             /\ TaskAlone => task'[j].stamped = task'[j].done /\ task'[j].reviews <= Reviews
             /\ j # i => j \in Live /\ task'[j] = task[j]
  <2>1. j \in TaskIds /\ task'[j] # NoTask
    BY DEF Live
  <2>2. CASE j = i
    BY <2>1, <2>2 DEF TaskStays
  <2>3. CASE j # i
    <3>1. task'[j] = task[j] /\ j \in Live
      BY <2>1, <2>3 DEF TaskStays, Live
    <3>2. /\ j <= last /\ (task[j].auto => task[j].repeats)
          /\ TaskAlone => task[j].stamped = task[j].done /\ task[j].reviews <= Reviews
      BY <3>1 DEF TasksInv, TaskTyped, TaskRows
    <3>3. j \in Nat
      BY <2>1, TaskConstants DEF TaskIds
    <3> QED BY <1>0, <2>1, <2>3, <3>1, <3>2, <3>3
  <2> QED BY <2>2, <2>3
<1>2. TaskRows'
  BY <1>1 DEF TaskRows, TaskAlone
<1>3. TaskSpawnedOnce'
  <2> SUFFICES ASSUME serial, NEW k \in Live', NEW j \in Live', k # j,
                      task'[k].auto, task'[j].auto
               PROVE  \/ task'[k].title # task'[j].title \/ task'[k].course # task'[j].course
                      \/ task'[k].date # task'[j].date
    BY DEF TaskSpawnedOnce
  <2>1. CASE k # i /\ j # i
    BY <1>1, <2>1 DEF TasksInv, TaskSpawnedOnce
  <2>2. ASSUME NEW l \in Live', l # i, task'[l].auto, i \in TaskIds,
               task'[i] # NoTask, task'[i].auto
        PROVE  \/ task'[l].title # task'[i].title \/ task'[l].course # task'[i].course
               \/ task'[l].date # task'[i].date
    <3>1. l \in Live /\ task'[l] = task[l] /\ task[l].auto
      BY <1>1, <2>2
    <3>2. CASE /\ task[i] # NoTask /\ task[i].auto /\ task'[i].title = task[i].title
               /\ task'[i].course = task[i].course /\ task'[i].date = task[i].date
      <4>1. i \in Live
        BY <2>2, <3>2 DEF Live
      <4> QED BY <2>2, <3>1, <3>2, <4>1 DEF TasksInv, TaskSpawnedOnce
    <3>3. CASE \A m \in Live : m = i \/ ~task[m].auto \/ task[m].title # task'[i].title
                       \/ task[m].course # task'[i].course \/ task[m].date # task'[i].date
      BY <2>2, <3>1, <3>3
    <3> QED BY <2>2, <3>2, <3>3 DEF TaskNewOnce
  <2>3. CASE k = i
    BY <2>2, <2>3 DEF Live
  <2>4. CASE j = i
    BY <2>2, <2>4 DEF Live
  <2> QED BY <2>1, <2>3, <2>4
<1>4. ASSUME NEW q \in TaskShape, TaskKnows(q)  PROVE TaskKnows(q)'
  <2>1. q.id \in 0 .. last'
    BY <1>0, <1>4 DEF TaskKnows
  <2> QED BY <1>4, <2>1 DEF TaskKnows
<1> QED BY <1>1, <1>2, <1>3, <1>4

LEMMA TaskMeansAs ==
  ASSUME NEW s, NEW p, going'[s] = p, TaskMeans(p)'
  PROVE  TaskMeans(going[s])'
BY DEF TaskMeans, TaskRoom

\* A request that starts, goes on or ends; the others stay as they are.
LEMMA TaskGoesOn ==
  ASSUME TasksInv, NEW r \in TaskRequests, NEW q \in TaskShape, TaskKnows(q)',
         going' = [going EXCEPT ![r] = q], serial' = serial, TaskTypes', last <= last',
         NEW i, TaskStays(i), TaskNewOnce(i), NEW D \in SUBSET TaskIds, i \in TaskIds => i \in D,
         serial => \A s \in TaskRequests : s # r => going[s] = NoRequest,
         TaskAlone =>
           /\ \A s \in TaskRequests : s # r => going[s].id \notin D
           /\ \/ q.id = 0 \/ q.id = going[r].id
              \/ \A s \in TaskRequests : s # r => going[s].id # q.id
           /\ Adds(q) => Adds(going[r]) \/ \A s \in TaskRequests : s # r => ~Adds(going[s])
           /\ TaskMeans(q)'
           /\ Adds(going[r]) => TaskBudget'
           /\ ~Adds(going[r]) => component' = component /\ TaskLighter(D)
  PROVE  TasksInv'
<1>0. /\ going \in [TaskRequests -> TaskShape] /\ \A s \in TaskRequests : TaskKnows(going[s])
      /\ \A s \in TaskRequests : going'[s] = IF s = r THEN q ELSE going[s]
      /\ going' \in [TaskRequests -> TaskShape]
      /\ component \in [Courses -> Nat] /\ task \in TaskTable /\ task' \in TaskTable
  BY DEF TasksInv, TaskTyped, TaskTypes, TaskTable
<1>1. /\ (\A j \in Live : j <= last /\ (task[j].auto => task[j].repeats))'
      /\ TaskRows' /\ TaskSpawnedOnce'
      /\ \A p \in TaskShape : TaskKnows(p) => TaskKnows(p)'
  BY TaskRowsStay
<1>2. TaskTyped'
  <2>1. ASSUME NEW s \in TaskRequests  PROVE TaskKnows(going[s])'
    <3>1. CASE s = r
      <4>1. going'[s] = q
        BY <1>0, <3>1
      <4> QED BY <4>1 DEF TaskKnows
    <3>2. CASE s # r
      <4>1. PICK p \in TaskShape : p = going[s]
        BY <1>0
      <4>2. going'[s] = p /\ TaskKnows(p)
        BY <1>0, <3>2, <4>1
      <4>3. TaskKnows(p)'
        BY <1>1, <4>2
      <4> QED BY <4>2, <4>3 DEF TaskKnows
    <3> QED BY <3>1, <3>2
  <2> QED BY <1>0, <1>1, <2>1 DEF TaskTyped
<1>3. TaskApart'
  <2> SUFFICES ASSUME TaskAlone, NEW s \in TaskRequests, NEW t \in TaskRequests, s # t
               PROVE  /\ going'[s].id = 0 \/ going'[s].id # going'[t].id
                      /\ ~Adds(going[s])' \/ ~Adds(going[t])'
                      /\ serial => going'[s] = NoRequest \/ going'[t] = NoRequest
    BY DEF TaskApart, TaskAlone
  <2>1. ASSUME NEW u \in TaskRequests, NEW p \in TaskShape, going'[u] = p
        PROVE  Adds(going[u])' = Adds(p)
    BY <2>1 DEF Adds
  <2>2. CASE s # r /\ t # r
    <3>1. going'[s] = going[s] /\ going'[t] = going[t]
      BY <1>0, <2>2
    <3> QED BY <3>1 DEF TasksInv, TaskApart, Adds
  <2>3. ASSUME NEW u \in TaskRequests, u # r
        PROVE  /\ q.id = 0 \/ going[u].id = 0 \/ q.id # going[u].id
               /\ ~Adds(q) \/ ~Adds(going[u])
               /\ serial => going[u] = NoRequest
    BY <2>3 DEF TasksInv, TaskApart
  <2>4. CASE s = r
    <3>1. going'[s] = q /\ going'[t] = going[t] /\ t # r
      BY <1>0, <2>4
    <3> QED BY <2>3, <3>1 DEF Adds
  <2>5. CASE t = r
    <3>1. going'[t] = q /\ going'[s] = going[s] /\ s # r
      BY <1>0, <2>5
    <3> QED BY <2>3, <3>1 DEF Adds
  <2> QED BY <2>2, <2>4, <2>5
<1>4. TaskMeaning'
  <2> SUFFICES ASSUME TaskAlone, NEW s \in TaskRequests  PROVE TaskMeans(going[s])'
    BY DEF TaskMeaning, TaskAlone
  <2>1. CASE s = r
    <3>1. going'[s] = q /\ TaskMeans(q)'
      BY <1>0, <2>1
    <3> QED BY <3>1, TaskMeansAs
  <2>2. CASE s # r
    <3>1. PICK p \in TaskShape : p = going[s]
      BY <1>0
    <3>2. going'[s] = p
      BY <1>0, <2>2, <3>1
    <3>3. TaskKnows(p)
      BY <1>0, <3>1
    <3>4. TaskMeans(p)
      BY <3>1 DEF TasksInv, TaskMeaning
    <3>5. Adds(p) => component' = component /\ TaskLighter(D)
      <4>1. Adds(p) => ~Adds(going[r])
        BY <2>2, <3>1 DEF TasksInv, TaskApart
      <4> QED BY <4>1
    <3>6. serial => p = NoRequest
      BY <2>2, <3>1
    <3>7. p.id \notin D
      BY <2>2, <3>1
    <3>8. TaskMeans(p)'
      BY <3>3, <3>4, <3>5, <3>6, <3>7, TaskUndisturbed
    <3> QED BY <3>2, <3>8, TaskMeansAs
  <2> QED BY <2>1, <2>2
<1>5. TaskBudget'
  <2> SUFFICES ASSUME TaskAlone, ~Adds(going[r]), NEW c \in Courses, ~split'[c]
               PROVE  component'[c] + Load(task', c, {}) <= Most
    BY DEF TaskBudget, TaskAlone
  <2>1. component' = component /\ ~split[c] /\ Load(task', c, {}) <= Load(task, c, {})
    BY DEF TaskLighter
  <2>2. component[c] + Load(task, c, {}) <= Most
    BY <2>1 DEF TasksInv, TaskBudget
  <2>3. Load(task', c, {}) \in Nat /\ Load(task, c, {}) \in Nat /\ component[c] \in Nat
    BY <1>0, LoadFinite
  <2> QED BY <2>1, <2>2, <2>3, TaskConstants
<1> QED BY <1>1, <1>2, <1>3, <1>4, <1>5 DEF TasksInv

\* A statement that no request makes.
LEMMA TaskBetween ==
  ASSUME TasksInv, UNCHANGED <<going, today, serial>>, TaskTypes', last <= last',
         NEW i, TaskStays(i), TaskNewOnce(i), NEW D \in SUBSET TaskIds, i \in TaskIds => i \in D,
         serial => AllIdle,
         TaskAlone =>
           /\ \A s \in TaskRequests : going[s].id \notin D
           /\ TaskLighter(D)
           /\ \/ component' = component
              \/ AllIdle /\ \A c \in Courses : component'[c] <= component[c]
  PROVE  TasksInv'
<1>0. /\ going \in [TaskRequests -> TaskShape] /\ \A s \in TaskRequests : TaskKnows(going[s])
      /\ component \in [Courses -> Nat] /\ component' \in [Courses -> Nat]
      /\ task \in TaskTable /\ task' \in TaskTable
  BY DEF TasksInv, TaskTyped, TaskTypes, TaskTable
<1>1. /\ (\A j \in Live : j <= last /\ (task[j].auto => task[j].repeats))'
      /\ TaskRows' /\ TaskSpawnedOnce'
      /\ \A p \in TaskShape : TaskKnows(p) => TaskKnows(p)'
  BY TaskRowsStay
<1>2. TaskTyped'
  <2>1. ASSUME NEW s \in TaskRequests  PROVE TaskKnows(going[s])'
    <3>1. PICK p \in TaskShape : p = going[s]
      BY <1>0
    <3>2. TaskKnows(p)'
      BY <1>0, <1>1, <3>1
    <3>3. going'[s] = p
      BY <3>1
    <3> QED BY <3>2, <3>3 DEF TaskKnows
  <2> QED BY <1>0, <1>1, <2>1 DEF TaskTyped
<1>3. TaskApart'
  BY DEF TasksInv, TaskApart, TaskAlone, Adds
<1>4. TaskMeaning'
  <2> SUFFICES ASSUME TaskAlone, NEW s \in TaskRequests  PROVE TaskMeans(going[s])'
    BY DEF TaskMeaning, TaskAlone
  <2>1. PICK p \in TaskShape : p = going[s]
    BY <1>0
  <2>2. going'[s] = p /\ TaskKnows(p) /\ TaskMeans(p)
    BY <1>0, <2>1 DEF TasksInv, TaskMeaning
  <2>3. AllIdle => p = NoRequest /\ ~Adds(p)
    BY <2>1, NoTaskRequest DEF AllIdle
  <2>4. p.id \notin D
    BY <2>1
  <2>5. TaskMeans(p)'
    BY <2>2, <2>3, <2>4, TaskUndisturbed
  <2> QED BY <2>2, <2>5, TaskMeansAs
<1>5. TaskBudget'
  <2> SUFFICES ASSUME TaskAlone, NEW c \in Courses, ~split'[c]
               PROVE  component'[c] + Load(task', c, {}) <= Most
    BY DEF TaskBudget, TaskAlone
  <2>1. component'[c] <= component[c] /\ ~split[c] /\ Load(task', c, {}) <= Load(task, c, {})
    BY <1>0 DEF TaskLighter
  <2>2. component[c] + Load(task, c, {}) <= Most
    BY <2>1 DEF TasksInv, TaskBudget
  <2>3. /\ Load(task', c, {}) \in Nat /\ Load(task, c, {}) \in Nat /\ component[c] \in Nat
        /\ component'[c] \in Nat
    BY <1>0, LoadFinite
  <2> QED BY <2>1, <2>2, <2>3, TaskConstants
<1> QED BY <1>1, <1>2, <1>3, <1>4, <1>5 DEF TasksInv

LEMMA TaskFacts ==
  ASSUME TasksInv
  PROVE  /\ task \in TaskTable /\ last \in 0 .. MaxTasks /\ last \in Nat
         /\ component \in [Courses -> Nat] /\ split \in [Courses -> BOOLEAN] /\ serial \in BOOLEAN
         /\ going \in [TaskRequests -> TaskShape]
         /\ \A i \in Live : i \in TaskIds /\ i \in 1 .. last /\ task[i] \in Task
         /\ \A i \in Live : task[i].auto => task[i].repeats
<1>1. /\ task \in TaskTable /\ last \in 0 .. MaxTasks /\ last \in Nat
      /\ component \in [Courses -> Nat] /\ split \in [Courses -> BOOLEAN] /\ serial \in BOOLEAN
      /\ going \in [TaskRequests -> TaskShape]
  BY TaskConstants DEF TasksInv, TaskTyped, TaskTypes, TaskTable
<1>2. ASSUME NEW i \in Live
      PROVE  /\ i \in TaskIds /\ i \in 1 .. last /\ task[i] \in Task
             /\ task[i].auto => task[i].repeats
  <2>1. i \in TaskIds /\ task[i] # NoTask
    BY DEF Live
  <2>2. i <= last /\ (task[i].auto => task[i].repeats)
    BY DEF TasksInv, TaskTyped
  <2>3. i \in Nat /\ 1 <= i
    BY <2>1, TaskConstants DEF TaskIds
  <2> QED BY <1>1, <2>1, <2>2, <2>3, TableFields
<1> QED BY <1>1, <1>2

LEMMA TaskRuns ==
  ASSUME TasksInv, NEW r \in TaskRequests
  PROVE  /\ going[r] \in TaskShape /\ TaskKnows(going[r])
         /\ going[r].id # 0 => going[r].id \in TaskIds
         /\ going[r].pc # "idle" /\ serial => \A s \in TaskRequests : s # r => going[s] = NoRequest
         /\ TaskAlone =>
              /\ TaskMeans(going[r])
              /\ going[r].id # 0 => \A s \in TaskRequests : s # r => going[s].id # going[r].id
              /\ Adds(going[r]) => \A s \in TaskRequests : s # r => ~Adds(going[s])
<1>1. going[r] \in TaskShape /\ TaskKnows(going[r])
  BY DEF TasksInv, TaskTyped
<1>2. going[r].id # 0 => going[r].id \in TaskIds
  BY <1>1, TaskFacts, TaskConstants DEF TaskKnows, TaskIds
<1>3. going[r].pc # "idle" => going[r] # NoRequest
  BY NoTaskRequest
<1>4. going[r].pc # "idle" /\ serial => \A s \in TaskRequests : s # r => going[s] = NoRequest
  BY <1>3 DEF TasksInv, TaskApart, TaskAlone
<1>5. TaskAlone =>
        /\ TaskMeans(going[r])
        /\ going[r].id # 0 => \A s \in TaskRequests : s # r => going[s].id # going[r].id
        /\ Adds(going[r]) => \A s \in TaskRequests : s # r => ~Adds(going[s])
  BY DEF TasksInv, TaskApart, TaskMeaning
<1> QED BY <1>1, <1>2, <1>4, <1>5

\* Nothing but the request changes.
LEMMA TaskReadsOn ==
  ASSUME TasksInv, NEW r \in TaskRequests, NEW q \in TaskShape, TaskKnows(q),
         going' = [going EXCEPT ![r] = q],
         UNCHANGED <<task, last, component, split, today, serial>>,
         serial => \A s \in TaskRequests : s # r => going[s] = NoRequest,
         TaskAlone =>
           /\ \/ q.id = 0 \/ q.id = going[r].id
              \/ \A s \in TaskRequests : s # r => going[s].id # q.id
           /\ Adds(q) => Adds(going[r]) \/ \A s \in TaskRequests : s # r => ~Adds(going[s])
           /\ TaskMeans(q)
  PROVE  TasksInv'
<1>1. PICK i : i = MaxTasks + 1  OBVIOUS
<1>2. i \notin TaskIds
  BY <1>1, TaskConstants DEF TaskIds
<1>3. TaskStays(i) /\ TaskNewOnce(i)
  BY <1>2 DEF TaskStays, TaskNewOnce
<1>4. TaskLighter({})
  <2>1. ASSUME NEW c \in Courses, NEW E \in SUBSET TaskIds
        PROVE  Load(task', c, E) <= Load(task, c, E)
    <3>1. Load(task, c, E) \in Nat
      BY TaskFacts, LoadFinite
    <3>2. \A n \in Nat : n <= n
      OBVIOUS
    <3> QED BY <3>1, <3>2
  <2> QED BY <2>1 DEF TaskLighter
<1>5. TaskTypes' /\ last <= last'
  <2>1. last \in Nat
    BY TaskFacts
  <2> QED BY <2>1 DEF TasksInv, TaskTyped, TaskTypes
<1>6. TaskBudget'
  BY DEF TasksInv, TaskBudget, TaskAlone
<1>7. TaskKnows(q)'
  BY DEF TaskKnows
<1>8. TaskAlone => TaskMeans(q)'
  BY DEF TaskMeans, TaskRoom, HasNext, Live
<1>9. PICK D \in SUBSET TaskIds : D = {}
  OBVIOUS
<1>10. TaskLighter(D)
  BY <1>4, <1>9
<1>11. \A s \in TaskRequests : going[s].id \notin D
  BY <1>9
<1> QED BY <1>2, <1>3, <1>5, <1>6, <1>7, <1>8, <1>10, <1>11, TaskGoesOn

LEMMA TaskStarts ==
  ASSUME TasksInv, NEW r \in TaskRequests, NEW q \in TaskShape, TaskKnows(q),
         MayStart(r), Start(r, q), UNCHANGED <<task, last, component, split, today, serial>>,
         TaskAlone => TaskMeans(q)
  PROVE  TasksInv'
<1>1. going[r] = NoRequest /\ (serial => \A s \in TaskRequests : going[s] = NoRequest)
  BY DEF MayStart, AllIdle
<1>2. ASSUME TaskAlone, NEW s \in TaskRequests
      PROVE  /\ q.id = 0 \/ going[s].id # q.id
             /\ Adds(q) => ~Adds(going[s])
  <2>1. CASE going[s] = NoRequest
    BY <2>1, NoTaskRequest
  <2>2. CASE going[s] # NoRequest
    <3>1. Apart(q, going[s])
      BY <1>1, <1>2, <2>2 DEF Start, TaskAlone
    <3> QED BY <3>1 DEF Apart
  <2> QED BY <2>1, <2>2
<1> QED BY <1>1, <1>2, TaskReadsOn DEF Start

\* A request that ends.
LEMMA TaskEnds ==
  ASSUME TasksInv, NEW r \in TaskRequests, EndRequest(r), going[r].pc # "idle",
         UNCHANGED <<task, last, component, split, today, serial>>
  PROVE  TasksInv'
<1>1. going' = [going EXCEPT ![r] = NoRequest]
  BY DEF EndRequest
<1>2. TaskKnows(NoRequest)
  BY NoTaskRequest DEF TasksInv, TaskTyped
<1>3. serial => \A s \in TaskRequests : s # r => going[s] = NoRequest
  BY TaskRuns
<1> QED BY <1>1, <1>2, <1>3, NoTaskRequest, TaskReadsOn

\* What a request finds of the weight of a course.
LEMMA TaskFits ==
  ASSUME TasksInv, TaskAlone, NEW c \in Courses, NEW E \in SUBSET TaskIds, NEW w \in Nat,
         w <= Epsilon \/ w <= Left(c, E) + Epsilon, ~split[c]
  PROVE  component[c] + Load(task, c, E) + Weighs(w) <= Most
<1>1. /\ task \in TaskTable /\ component \in [Courses -> Nat]
  BY TaskFacts
<1>2. /\ Load(task, c, E) \in Nat /\ Load(task, c, {}) \in Nat /\ component[c] \in Nat
      /\ Load(task, c, E) <= Load(task, c, {})
  BY <1>1, LoadFinite, LoadOfSome
<1>3. Used(c, E) \in Nat /\ component[c] + Load(task, c, E) <= Used(c, E)
  BY <1>1, UsedCoversLoad
<1>4. CASE w <= Epsilon
  <2>1. component[c] + Load(task, c, {}) <= Most
    BY DEF TasksInv, TaskBudget
  <2>2. Weighs(w) = 0
    BY <1>4, WeighsNat
  <2> QED BY <1>2, <2>1, <2>2, TaskConstants
<1>5. CASE w <= Left(c, E) + Epsilon
  <2>1. w <= Full - Used(c, E) + Epsilon
    BY <1>5 DEF Left
  <2>2. Weighs(w) \in Nat /\ Weighs(w) <= w
    BY WeighsNat
  <2>3. component[c] + Load(task, c, E) + Weighs(w) <= Full + Epsilon
    BY <1>2, <1>3, <2>1, <2>2, TaskConstants
  <2> QED BY <2>3 DEF Most
<1> QED BY <1>4, <1>5

LEMMA TaskNew ==
  ASSUME NEW t \in Titles, NEW c \in Courses, NEW d \in 0 .. LastDay, NEW w \in 0 .. Full,
         NEW repeats \in BOOLEAN, NEW done \in BOOLEAN, NEW n, n = New(t, c, d, w, repeats, done)
  PROVE  /\ n \in Task /\ n.title = t /\ n.course = c /\ n.date = d /\ n.weight = w
         /\ n.repeats = repeats /\ n.done = done /\ n.stamped = done /\ ~n.auto /\ n.reviews = 0
         /\ w \in Nat /\ Weighs(w) \in Nat
BY TaskConstants DEF New, Task, Weighs

LEMMA TaskAdds ==
  ASSUME TasksInv, NEW r \in TaskRequests, CreateTask(r) \/ Import(r) \/ WeighComponent(r)
  PROVE  TasksInv'
<1>0. /\ last \in Nat /\ component \in [Courses -> Nat] /\ task \in TaskTable
      /\ split \in [Courses -> BOOLEAN]
  BY TaskFacts
<1>a. /\ 0 \in 0 .. last /\ 0 \in 0 .. MaxTasks /\ NoTask \in TaskNews
  BY <1>0, TaskConstants DEF TaskNews
<1>b. NoRequest \in TaskShape /\ NoRequest.id = 0 /\ NoRequest.field = "none"
  BY NoTaskRequest
<1>1. ASSUME NEW c \in Courses, NEW w \in 0 .. Full, Fits(c, {}, w),
             NEW t \in Titles, NEW d \in 0 .. LastDay, NEW b \in BOOLEAN, NEW done \in BOOLEAN,
             MayStart(r), UNCHANGED <<task, last, component, split, today, serial>>,
             Start(r, [NoRequest EXCEPT !.op = "add", !.pc = "insert",
                                        !.rows = {New(t, c, d, w, b, done)}])
      PROVE  TasksInv'
  <2>1. PICK n : n = New(t, c, d, w, b, done)  OBVIOUS
  <2>2. /\ n \in Task /\ n.course = c /\ n.weight = w /\ n.stamped = n.done /\ ~n.auto
        /\ n.reviews = 0 /\ w \in Nat /\ Weighs(w) \in Nat
    BY <2>1, TaskNew
  <2>3. PICK q : q = [NoRequest EXCEPT !.op = "add", !.pc = "insert", !.rows = {n}]  OBVIOUS
  <2>4. /\ q \in TaskShape /\ q.op = "add" /\ q.pc = "insert" /\ q.rows = {n} /\ q.id = 0
        /\ q.field = "none"
    BY <1>b, <2>2, <2>3 DEF TaskShape
  <2>5. TaskKnows(q)
    BY <1>a, <2>2, <2>4 DEF TaskKnows
  <2>6. ASSUME TaskAlone  PROVE TaskMeans(q)
    <3>1. PICK l \in Nat : l = component[c] + Load(task, c, {})
      BY <1>0, LoadFinite
    <3>2. ~split[c] => l + Weighs(w) <= Most
      BY <1>1, <2>2, <2>6, <3>1, TaskFits DEF Fits
    <3>3. ~split[n.course] => component[n.course] + Load(task, n.course, {}) + Weighs(n.weight)
                                + (IF n = n THEN 0 ELSE Weighs(n.weight)) <= Most
      <4>1. l + Weighs(w) + 0 = l + Weighs(w)
        BY <2>2, <3>1
      <4> QED BY <2>2, <3>1, <3>2, <4>1
    <3>4. TaskRoom(q)
      BY <2>4, <3>3 DEF TaskRoom
    <3> QED BY <2>4, <3>4 DEF TaskMeans
  <2>7. Start(r, q)
    BY <1>1, <2>1, <2>3
  <2> QED BY <1>1, <2>4, <2>5, <2>6, <2>7, TaskStarts
<1>2. CASE CreateTask(r)
  BY <1>1, <1>2 DEF CreateTask
<1>3. ASSUME NEW t \in Titles, NEW s \in Titles, NEW c \in Courses, NEW v \in 0 .. Full,
             NEW w \in 0 .. Full,
             <<t, v>> # <<s, w>>, v = 0 \/ v <= Left(c, {}) + Epsilon,
             w = 0 \/ w <= Left(c, {}) - v + Epsilon,
             MayStart(r), UNCHANGED <<task, last, component, split, today, serial>>,
             Start(r, [NoRequest EXCEPT !.op = "add", !.pc = "insert",
                         !.rows = {New(t, c, 0, v, FALSE, FALSE), New(s, c, 0, w, FALSE, FALSE)}])
      PROVE  TasksInv'
  <2>0. 0 \in 0 .. LastDay /\ FALSE \in BOOLEAN
    BY TaskConstants
  <2>1. PICK x, y : x = New(t, c, 0, v, FALSE, FALSE) /\ y = New(s, c, 0, w, FALSE, FALSE)
    OBVIOUS
  <2>a. PICK d \in 0 .. LastDay, f \in BOOLEAN : d = 0 /\ f = FALSE
    BY <2>0
  <2>b. x = New(t, c, d, v, f, f) /\ y = New(s, c, d, w, f, f)
    BY <2>1, <2>a
  <2>2. /\ x \in Task /\ x.course = c /\ x.weight = v /\ x.stamped = x.done /\ ~x.auto
        /\ x.reviews = 0 /\ v \in Nat /\ Weighs(v) \in Nat /\ x.title = t
    BY <2>b, TaskNew
  <2>3. /\ y \in Task /\ y.course = c /\ y.weight = w /\ y.stamped = y.done /\ ~y.auto
        /\ y.reviews = 0 /\ w \in Nat /\ Weighs(w) \in Nat /\ y.title = s
    BY <2>b, TaskNew
  <2>4. x # y
    BY <1>3, <2>2, <2>3
  <2>5. PICK q : q = [NoRequest EXCEPT !.op = "add", !.pc = "insert", !.rows = {x, y}]  OBVIOUS
  <2>6. /\ q \in TaskShape /\ q.op = "add" /\ q.pc = "insert" /\ q.rows = {x, y} /\ q.id = 0
        /\ q.field = "none"
    BY <1>b, <2>2, <2>3, <2>5 DEF TaskShape
  <2>7. TaskKnows(q)
    BY <1>a, <2>2, <2>3, <2>6 DEF TaskKnows
  <2>8. ASSUME TaskAlone  PROVE TaskMeans(q)
    <3>1. PICK l \in Nat : l = component[c] + Load(task, c, {})
      BY <1>0, LoadFinite
    <3>2. ~split[c] => l + (Weighs(v) + Weighs(w)) <= Most
      <4> SUFFICES ASSUME ~split[c]  PROVE l + (Weighs(v) + Weighs(w)) <= Most
        OBVIOUS
      <4>0. {} \in SUBSET TaskIds /\ v <= v /\ Epsilon \in Nat /\ Used(c, {}) \in Nat
        BY <1>0, <2>2, UsedCoversLoad, TaskConstants
      <4>1. CASE w <= Epsilon
        <5>1. v <= Epsilon \/ v <= Left(c, {}) + Epsilon
          BY <1>3, <4>0
        <5>2. l + Weighs(v) <= Most
          BY <2>2, <2>8, <3>1, <4>0, <5>1, TaskFits
        <5>3. Weighs(w) = 0
          BY <2>3, <4>1, WeighsNat
        <5> QED BY <2>2, <3>1, <5>2, <5>3
      <4>2. CASE ~(w <= Epsilon) /\ v <= Epsilon
        <5>1. w <= Left(c, {}) + Epsilon
          BY <1>3, <2>2, <2>3, <4>0, <4>2, TaskConstants DEF Left
        <5>2. l + Weighs(w) <= Most
          BY <2>3, <2>8, <3>1, <4>0, <5>1, TaskFits
        <5>3. Weighs(v) = 0
          BY <2>2, <4>2, WeighsNat
        <5> QED BY <2>3, <3>1, <5>2, <5>3
      <4>3. CASE ~(w <= Epsilon) /\ ~(v <= Epsilon)
        <5>1. v + w \in Nat /\ v + w <= Left(c, {}) + Epsilon
          BY <1>3, <2>2, <2>3, <4>0, <4>3, TaskConstants DEF Left
        <5>2. l + Weighs(v + w) <= Most
          BY <2>8, <3>1, <4>0, <5>1, TaskFits
        <5>3. Weighs(v) = v /\ Weighs(w) = w /\ Weighs(v + w) = v + w
          BY <2>2, <2>3, <4>3, TaskConstants DEF Weighs
        <5> QED BY <5>2, <5>3
      <4> QED BY <4>1, <4>2, <4>3
    <3>3. ~split[x.course] => component[x.course] + Load(task, x.course, {}) + Weighs(x.weight)
                                + (IF x = y THEN 0 ELSE Weighs(y.weight)) <= Most
      <4>1. l + Weighs(v) + Weighs(w) = l + (Weighs(v) + Weighs(w))
        BY <2>2, <2>3, <3>1
      <4> QED BY <2>2, <2>3, <2>4, <3>1, <3>2, <4>1
    <3>4. TaskRoom(q)
      <4>1. q.rows = {x, y} /\ x.course = y.course /\ x \in q.rows /\ y \in q.rows
        BY <2>2, <2>3, <2>6
      <4> QED BY <2>6, <3>3, <4>1 DEF TaskRoom
    <3> QED BY <2>6, <3>4 DEF TaskMeans
  <2>9. Start(r, q)
    BY <1>3, <2>1, <2>5
  <2> QED BY <1>3, <2>6, <2>7, <2>8, <2>9, TaskStarts
<1>4. CASE Import(r)
  BY <1>3, <1>4 DEF Import
<1>5. CASE WeighComponent(r)
  <2>1. PICK c \in Courses, w \in 1 .. Full :
          /\ w <= Left(c, {}) + Epsilon
          /\ Start(r, [NoRequest EXCEPT !.op = "component", !.pc = "weigh",
                         !.new = [course |-> c, weight |-> component[c] + w]])
    BY <1>5 DEF WeighComponent
  <2>2. MayStart(r) /\ UNCHANGED <<task, last, component, split, today, serial>>
    BY <1>5 DEF WeighComponent
  <2>3. PICK v \in Nat : v = component[c] + w
    BY <1>0, TaskConstants
  <2>4. PICK m : m = [course |-> c, weight |-> v]  OBVIOUS
  <2>5. m \in [course : Courses, weight : Nat] /\ m.course = c /\ m.weight = v
    BY <2>4
  <2>6. m \in TaskNews
    BY <2>5 DEF TaskNews
  <2>7. PICK q : q = [NoRequest EXCEPT !.op = "component", !.pc = "weigh", !.new = m]  OBVIOUS
  <2>8. /\ q \in TaskShape /\ q.op = "component" /\ q.pc = "weigh" /\ q.new = m /\ q.id = 0
        /\ q.field = "none"
    BY <1>b, <2>6, <2>7 DEF TaskShape
  <2>9. TaskKnows(q)
    BY <1>a, <2>5, <2>8 DEF TaskKnows
  <2>10. TaskRoom(q)
    <3>1. Used(c, {}) \in Nat /\ component[c] + Load(task, c, {}) <= Used(c, {})
      BY <1>0, UsedCoversLoad
    <3>2. Load(task, c, {}) \in Nat /\ component[c] \in Nat
      BY <1>0, LoadFinite
    <3>3. v + Load(task, c, {}) <= Most
      BY <2>1, <2>3, <3>1, <3>2, TaskConstants DEF Left, Most
    <3> QED BY <2>5, <2>8, <3>3 DEF TaskRoom
  <2>11. TaskMeans(q)
    BY <2>8, <2>10 DEF TaskMeans
  <2>12. Start(r, q)
    BY <2>1, <2>3, <2>4, <2>7
  <2> QED BY <2>2, <2>8, <2>9, <2>11, <2>12, TaskStarts
<1> QED BY <1>2, <1>4, <1>5

LEMMA TaskUpdates ==
  ASSUME TasksInv, NEW r \in TaskRequests, UpdateTask(r) \/ ConfirmOverdue(r)
  PROVE  TasksInv'
<1>0. /\ last \in Nat /\ component \in [Courses -> Nat] /\ task \in TaskTable
      /\ split \in [Courses -> BOOLEAN] /\ last \in 0 .. MaxTasks
  BY TaskFacts
<1>b. NoRequest \in TaskShape /\ NoRequest.id = 0 /\ NoRequest.rows = {}
  BY NoTaskRequest
<1>1. MayStart(r) /\ UNCHANGED <<task, last, component, split, today, serial>>
  BY DEF UpdateTask, ConfirmOverdue
<1>2. ASSUME NEW i \in Live
      PROVE  /\ i \in TaskIds /\ i # 0 /\ i \in 0 .. last /\ i \in 0 .. MaxTasks
             /\ task[i] \in Task /\ task[i] # NoTask
  <2>1. i \in TaskIds /\ i \in 1 .. last /\ task[i] \in Task
    BY TaskFacts
  <2> QED BY <1>0, <2>1, TaskConstants DEF TaskIds, Live
<1>3. ASSUME NEW i \in Live, NEW n \in TaskNews, NEW op \in {"update", "confirm"},
             NEW field \in {"title", "course", "date", "weight", "repeats", "done"},
             NEW q, q = [NoRequest EXCEPT !.op = op, !.pc = "write", !.id = i,
                           !.was = task[i].done, !.field = field, !.new = n],
             field = "title" => n \in Titles, field = "course" => n \in Courses,
             field = "date" => n \in 0 .. LastDay, field = "weight" => n \in 0 .. Full,
             field \in {"repeats", "done"} => n \in BOOLEAN,
             op = "confirm" => field = "done" /\ n = TRUE,
             op = "update" => EditFits(q),
             Start(r, q)
      PROVE  TasksInv'
  <2>1. PICK b \in BOOLEAN : b = task[i].done
    BY <1>2, TaskFields
  <2>2. /\ q \in TaskShape /\ q.op = op /\ q.pc = "write" /\ q.id = i /\ q.was = task[i].done
        /\ q.field = field /\ q.new = n
    BY <1>b, <1>2, <1>3, <2>1 DEF TaskShape
  <2>3. TaskKnows(q)
    BY <1>2, <1>3, <2>2 DEF TaskKnows
  <2>4. ASSUME TaskAlone  PROVE TaskMeans(q)
    <3>1. ASSUME field = "weight", ~split[task[i].course]
          PROVE  \/ n <= task[i].weight
                 \/ component[task[i].course] + Load(task, task[i].course, {i}) + Weighs(n) <= Most
      <4>1. n \in Nat /\ task[i].course \in Courses
        BY <1>2, <1>3, <3>1, TaskFields, TaskConstants
      <4>2. op = "update"
        BY <1>3, <3>1
      <4>3. n <= task[i].weight \/ Fits(task[i].course, {i}, n)
        BY <1>3, <2>2, <3>1, <4>2 DEF EditFits
      <4> QED BY <1>2, <2>4, <3>1, <4>1, <4>3, TaskFits DEF Fits
    <3>2. ASSUME field = "course", ~split[n]
          PROVE  component[n] + Load(task, n, {i}) + Weighs(task[i].weight) <= Most
      <4>1. n \in Courses /\ task[i].weight \in Nat
        BY <1>2, <1>3, <3>2, TaskFields
      <4>2. op = "update"
        BY <1>3, <3>2
      <4>3. Fits(n, {i}, task[i].weight)
        BY <1>3, <2>2, <3>2, <4>2 DEF EditFits
      <4> QED BY <1>2, <2>4, <3>2, <4>1, <4>3, TaskFits DEF Fits
    <3>3. TaskRoom(q)
      BY <2>2, <3>1, <3>2 DEF TaskRoom
    <3> QED BY <1>2, <2>2, <3>3 DEF TaskMeans
  <2> QED BY <1>1, <1>3, <2>2, <2>3, <2>4, TaskStarts
<1>4. CASE UpdateTask(r)
  <2>0. PICK i \in Live : \E q \in Edits(i) : EditFits(q) /\ Start(r, q)
    BY <1>4 DEF UpdateTask
  <2>1. PICK q \in Edits(i) : EditFits(q) /\ Start(r, q)
    BY <2>0
  <2>2. PICK t \in Task : t = task[i]
    BY <1>2
  <2>3. \E n \in TaskNews, field \in {"title", "course", "date", "weight", "repeats", "done"} :
          /\ q = [NoRequest EXCEPT !.op = "update", !.pc = "write", !.id = i,
                           !.was = task[i].done, !.field = field, !.new = n]
          /\ field = "title" => n \in Titles
          /\ field = "course" => n \in Courses
          /\ field = "date" => n \in 0 .. LastDay
          /\ field = "weight" => n \in 0 .. Full
          /\ field \in {"repeats", "done"} => n \in BOOLEAN
    <3> DEFINE To(field, n) == [NoRequest EXCEPT !.op = "update", !.pc = "write", !.id = i,
                                  !.was = task[i].done, !.field = field, !.new = n]
    <3>1. \/ \E n \in Titles : q = To("title", n)
          \/ \E n \in Courses : q = To("course", n)
          \/ \E n \in 0 .. LastDay : q = To("date", n)
          \/ \E n \in 0 .. Full : q = To("weight", n)
          \/ q = To("repeats", ~task[i].repeats)
          \/ \E n \in BOOLEAN : q = To("done", n)
      BY DEF Edits
    <3>2. /\ \A n \in Titles : n \in TaskNews
          /\ \A n \in Courses : n \in TaskNews
          /\ \A n \in 0 .. LastDay : n \in TaskNews
          /\ \A n \in 0 .. Full : n \in TaskNews
          /\ \A n \in BOOLEAN : n \in TaskNews
      BY TaskConstants DEF TaskNews
    <3>3. PICK b \in BOOLEAN : b = ~task[i].repeats
      OBVIOUS
    <3>4. CASE \E n \in Titles : q = To("title", n)
      BY <3>2, <3>4
    <3>5. CASE \E n \in Courses : q = To("course", n)
      BY <3>2, <3>5
    <3>6. CASE \E n \in 0 .. LastDay : q = To("date", n)
      BY <3>2, <3>6
    <3>7. CASE \E n \in 0 .. Full : q = To("weight", n)
      BY <3>2, <3>7
    <3>8. CASE q = To("repeats", ~task[i].repeats)
      BY <3>2, <3>3, <3>8
    <3>9. CASE \E n \in BOOLEAN : q = To("done", n)
      <4>1. TRUE \in TaskNews /\ FALSE \in TaskNews
        BY DEF TaskNews
      <4>2. q = To("done", TRUE) \/ q = To("done", FALSE)
        BY <3>9
      <4>3. CASE q = To("done", TRUE)
        BY <4>1, <4>3
      <4>4. CASE q = To("done", FALSE)
        BY <4>1, <4>4
      <4> QED BY <4>2, <4>3, <4>4
    <3> QED BY <3>1, <3>4, <3>5, <3>6, <3>7, <3>8, <3>9
  <2>4. PICK n \in TaskNews, field \in {"title", "course", "date", "weight", "repeats", "done"} :
          /\ q = [NoRequest EXCEPT !.op = "update", !.pc = "write", !.id = i,
                           !.was = task[i].done, !.field = field, !.new = n]
          /\ field = "title" => n \in Titles
          /\ field = "course" => n \in Courses
          /\ field = "date" => n \in 0 .. LastDay
          /\ field = "weight" => n \in 0 .. Full
          /\ field \in {"repeats", "done"} => n \in BOOLEAN
    BY <2>3
  <2>5. PICK op \in {"update", "confirm"} : op = "update"
    OBVIOUS
  <2>6. q = [NoRequest EXCEPT !.op = op, !.pc = "write", !.id = i,
                           !.was = task[i].done, !.field = field, !.new = n]
    BY <2>4, <2>5
  <2>7. op # "confirm"
    BY <2>5
  <2> QED BY <1>3, <2>1, <2>4, <2>6, <2>7
<1>5. CASE ConfirmOverdue(r)
  <2>1. PICK i \in Live : Start(r, [NoRequest EXCEPT !.op = "confirm", !.pc = "write", !.id = i,
                                      !.was = task[i].done, !.field = "done", !.new = TRUE])
    BY <1>5 DEF ConfirmOverdue
  <2>2. TRUE \in TaskNews
    BY DEF TaskNews
  <2> QED BY <1>3, <2>1, <2>2
<1> QED BY <1>4, <1>5

\* The row that is inserted next.
LEMMA TaskNextRow ==
  ASSUME TasksInv, last < MaxTasks, NEW row \in Task, task' = [task EXCEPT ![last + 1] = row],
         last' = last + 1, UNCHANGED <<component, split, today, serial>>
  PROVE  /\ last + 1 \in TaskIds /\ task[last + 1] = NoTask /\ last + 1 \notin Live
         /\ task' \in TaskTable /\ TaskTypes' /\ last <= last'
         /\ task'[last + 1] = row /\ \A j \in TaskIds : j # last + 1 => task'[j] = task[j]
         /\ \A s \in TaskRequests : going[s].id # last + 1
<1>0. task \in TaskTable /\ last \in Nat /\ last \in 0 .. MaxTasks
  BY TaskFacts
<1>1. last + 1 \in TaskIds /\ last + 1 \in 0 .. MaxTasks /\ last <= last + 1
  BY <1>0, TaskConstants DEF TaskIds
<1>2. last + 1 \notin Live
  BY <1>0, TaskFacts
<1>3. task[last + 1] = NoTask
  BY <1>1, <1>2 DEF Live
<1>4. task' \in TaskTable
  BY <1>0 DEF TaskTable
<1>5. task'[last + 1] = row /\ \A j \in TaskIds : j # last + 1 => task'[j] = task[j]
  BY <1>0, <1>1 DEF TaskTable
<1>6. TaskTypes'
  BY <1>1, <1>4 DEF TaskTypes, TasksInv, TaskTyped, TaskTable
<1>7. ASSUME NEW s \in TaskRequests  PROVE going[s].id # last + 1
  <2>1. going[s].id \in 0 .. last
    BY TaskRuns DEF TaskKnows
  <2> QED BY <1>0, <2>1
<1> QED BY <1>1, <1>2, <1>3, <1>4, <1>5, <1>6, <1>7

LEMMA TaskInserts ==
  ASSUME TasksInv, NEW r \in TaskRequests, Insert(r)
  PROVE  TasksInv'
<1>0. /\ last \in Nat /\ component \in [Courses -> Nat] /\ task \in TaskTable
      /\ split \in [Courses -> BOOLEAN] /\ last \in 0 .. MaxTasks
  BY TaskFacts
<1>1. PICK p \in TaskShape : p = going[r]
  BY TaskRuns
<1>a. /\ p.pc = "insert" /\ TaskKnows(p) /\ p.op = "add" /\ p.id = 0 /\ p.field = "none" /\ Adds(p)
      /\ \A t \in p.rows : t \in Task /\ t.stamped = t.done /\ ~t.auto /\ t.reviews = 0
      /\ serial => \A s \in TaskRequests : s # r => going[s] = NoRequest
      /\ TaskAlone => TaskMeans(p)
  <2>1. p.pc = "insert" /\ TaskKnows(p)
    BY <1>1, TaskRuns DEF Insert, At
  <2>2. p.op = "add" /\ p.id = 0 /\ p.field = "none"
        /\ \A t \in p.rows : t \in Task /\ t.stamped = t.done /\ ~t.auto /\ t.reviews = 0
    BY <2>1 DEF TaskKnows, TaskShape
  <2>3. serial => \A s \in TaskRequests : s # r => going[s] = NoRequest
    BY <1>1, <2>1, TaskRuns
  <2>4. TaskAlone => TaskMeans(p)
    BY <1>1, TaskRuns
  <2> QED BY <2>1, <2>2, <2>3, <2>4 DEF Adds
<1>2. PICK row \in p.rows :
        /\ \/ last < MaxTasks /\ task' = [task EXCEPT ![last + 1] = row] /\ last' = last + 1
           \/ UNCHANGED <<task, last>>
        /\ going' = [going EXCEPT ![r] = IF p.rows \ {row} = {} THEN NoRequest
                                         ELSE [going[r] EXCEPT !.rows = p.rows \ {row}]]
  <2>1. PICK row \in p.rows :
          LET rest == p.rows \ {row} IN
          /\ \/ last < MaxTasks /\ task' = [task EXCEPT ![last + 1] = row] /\ last' = last + 1
             \/ UNCHANGED <<task, last>>
          /\ going' = [going EXCEPT ![r] = IF rest = {} THEN NoRequest
                                                 ELSE [@ EXCEPT !.rows = rest]]
    BY <1>1 DEF Insert
  <2>2. going \in [TaskRequests -> TaskShape]
    BY TaskFacts
  <2> QED BY <2>1, <2>2
<1>b. UNCHANGED <<component, split, today, serial>> /\ row \in Task
  BY <1>a DEF Insert
<1>3. PICK q : q = IF p.rows \ {row} = {} THEN NoRequest ELSE [p EXCEPT !.rows = p.rows \ {row}]
  OBVIOUS
<1>4. going' = [going EXCEPT ![r] = q]
  BY <1>1, <1>2, <1>3
<1>5. \/ q = NoRequest
      \/ /\ q.op = "add" /\ q.pc = "insert" /\ q.id = 0 /\ q.field = "none"
         /\ q.rows = p.rows \ {row} /\ q.rows # {} /\ q \in TaskShape
  BY <1>a, <1>3 DEF TaskShape
<1>6. q \in TaskShape /\ q.id = 0
  BY <1>5, NoTaskRequest
<1>7. TaskKnows(q)
  <2>1. CASE q = NoRequest
    BY <2>1, NoTaskRequest DEF TasksInv, TaskTyped
  <2>2. CASE q # NoRequest
    <3>1. 0 \in 0 .. last
      BY <1>0
    <3> QED BY <1>5, <1>a, <2>2, <3>1 DEF TaskKnows
  <2> QED BY <2>1, <2>2
\* What is left for the rest of the rows.
<1>8. ASSUME TaskAlone
      PROVE  \E v \in Nat :
               /\ ~split[row.course] =>
                    component[row.course] + Load(task, row.course, {})
                      + Weighs(row.weight) + v <= Most
               /\ \/ q = NoRequest
                  \/ \E z \in Task : q.rows = {z} /\ Weighs(z.weight) = v /\ z.course = row.course
  <2>1. PICK x \in p.rows, y \in p.rows :
       /\ p.rows = {x, y} /\ x.course = y.course
       /\ ~split[x.course] => component[x.course] + Load(task, x.course, {}) + Weighs(x.weight)
                                + (IF x = y THEN 0 ELSE Weighs(y.weight)) <= Most
    BY <1>8, <1>a DEF TaskMeans, TaskRoom
  <2>2. PICK c \in Courses : c = x.course
    BY <1>a, TaskFields
  <2>3. PICK l \in Nat : l = component[c] + Load(task, c, {})
    BY <1>0, LoadFinite
  <2>4. Weighs(x.weight) \in Nat /\ Weighs(y.weight) \in Nat /\ x \in Task /\ y \in Task
    BY <1>a, TaskFields
  <2>5. CASE x = y
    <3>1. q = NoRequest /\ row = x
      BY <1>5, <2>1, <2>5
    <3>2. ~split[c] => l + Weighs(x.weight) + 0 <= Most
      BY <2>1, <2>2, <2>3, <2>5
    <3> QED BY <2>2, <2>3, <3>1, <3>2
  <2>6. CASE x # y
    <3>1. ~split[c] => l + Weighs(x.weight) + Weighs(y.weight) <= Most
      BY <2>1, <2>2, <2>3, <2>6
    <3>2. ~split[c] => l + Weighs(y.weight) + Weighs(x.weight) <= Most
      BY <2>3, <2>4, <3>1
    <3>3. CASE row = x
      <4>1. q = NoRequest \/ q.rows = {y}
        BY <1>5, <2>1, <2>6, <3>3
      <4> QED BY <2>1, <2>2, <2>3, <2>4, <3>1, <3>3, <4>1
    <3>4. CASE row = y
      <4>1. q = NoRequest \/ q.rows = {x}
        BY <1>5, <2>1, <2>6, <3>4
      <4> QED BY <2>1, <2>2, <2>3, <2>4, <3>2, <3>4, <4>1
    <3> QED BY <2>1, <3>3, <3>4
  <2> QED BY <2>5, <2>6
\* A request that has one row left has room for it.
<1>9. ASSUME NEW z \in Task, q.rows = {z}, q # NoRequest, NEW T, NEW comp, NEW sp,
             ~sp[z.course] => comp[z.course] + Load(T, z.course, {}) + Weighs(z.weight) <= Most,
             comp[z.course] + Load(T, z.course, {}) \in Nat
      PROVE  \E x, y \in q.rows :
               /\ q.rows = {x, y} /\ x.course = y.course
               /\ ~sp[x.course] => comp[x.course] + Load(T, x.course, {}) + Weighs(x.weight)
                                     + (IF x = y THEN 0 ELSE Weighs(y.weight)) <= Most
  <2>1. PICK l \in Nat : l = comp[z.course] + Load(T, z.course, {})
    BY <1>9
  <2>2. Weighs(z.weight) \in Nat
    BY TaskFields
  <2>3. l + Weighs(z.weight) + 0 = l + Weighs(z.weight)
    BY <2>1, <2>2
  <2>4. ~sp[z.course] => comp[z.course] + Load(T, z.course, {}) + Weighs(z.weight)
                           + (IF z = z THEN 0 ELSE Weighs(z.weight)) <= Most
    BY <1>9, <2>1, <2>3
  <2> QED BY <1>9, <2>4
<1>10. CASE UNCHANGED <<task, last>>
  <2>1. ASSUME TaskAlone  PROVE TaskMeans(q)
    <3>1. CASE q = NoRequest
      BY <3>1, NoTaskRequest
    <3>2. CASE q # NoRequest
      <4>1. PICK v \in Nat, z \in Task :
              /\ ~split[row.course] =>
                   component[row.course] + Load(task, row.course, {})
                     + Weighs(row.weight) + v <= Most
              /\ q.rows = {z} /\ Weighs(z.weight) = v /\ z.course = row.course
        BY <1>8, <2>1, <3>2
      <4>2. PICK c \in Courses : c = row.course
        BY <1>b, TaskFields
      <4>3. PICK l \in Nat : l = component[c] + Load(task, c, {})
        BY <1>0, LoadFinite
      <4>4. Weighs(row.weight) \in Nat
        BY <1>b, TaskFields
      <4>5. ~split[c] => l + v <= Most
        BY <4>1, <4>2, <4>3, <4>4, TaskConstants
      <4>6. \E x, y \in q.rows :
              /\ q.rows = {x, y} /\ x.course = y.course
              /\ ~split[x.course] =>
                   component[x.course] + Load(task, x.course, {}) + Weighs(x.weight)
                                       + (IF x = y THEN 0 ELSE Weighs(y.weight)) <= Most
        BY <1>9, <3>2, <4>1, <4>2, <4>3, <4>5
      <4> QED BY <1>5, <3>2, <4>6 DEF TaskMeans, TaskRoom
    <3> QED BY <3>1, <3>2
  <2> QED BY <1>1, <1>4, <1>6, <1>7, <1>10, <1>a, <1>b, <2>1, TaskReadsOn
<1>11. CASE last < MaxTasks /\ task' = [task EXCEPT ![last + 1] = row] /\ last' = last + 1
  <2>1. PICK i : i = last + 1  OBVIOUS
  <2>2. /\ i \in TaskIds /\ task[i] = NoTask /\ i \notin Live
        /\ task' \in TaskTable /\ TaskTypes' /\ last <= last' /\ last' = i
        /\ task'[i] = row /\ \A j \in TaskIds : j # i => task'[j] = task[j]
        /\ \A s \in TaskRequests : going[s].id # i
    BY <1>11, <1>b, <2>1, TaskNextRow
  <2>3. TaskStays(i) /\ TaskNewOnce(i)
    <3>1. i <= last' /\ ~row.auto /\ row.stamped = row.done /\ row.reviews <= Reviews
      BY <1>a, <2>1, <2>2, <1>0, TaskConstants
    <3> QED BY <2>2, <3>1 DEF TaskStays, TaskNewOnce
  <2>4. PICK c \in Courses, w \in Nat : c = row.course /\ w = Weighs(row.weight)
    BY <1>b, TaskFields
  <2>5. /\ Load(task', c, {}) \in Nat /\ Load(task, c, {}) \in Nat /\ component[c] \in Nat
        /\ Load(task', c, {}) <= Load(task, c, {}) + w
    <3>1. /\ Load(task', c, {}) \in Nat /\ Load(task, c, {}) \in Nat /\ component[c] \in Nat
          /\ Load(task, c, {} \cup {i}) \in Nat
      BY <1>0, <2>2, LoadFinite
    <3>2. Load(task', c, {}) <= Load(task, c, {} \cup {i}) + w
      BY <1>0, <1>b, <2>2, <2>4, NoTaskNone, LoadGrown
    <3>3. Load(task, c, {} \cup {i}) <= Load(task, c, {})
      BY <1>0, LoadWithout
    <3> QED BY <2>4, <3>1, <3>2, <3>3
  <2>6. ASSUME TaskAlone  PROVE TaskMeans(q)'
    <3>1. CASE q = NoRequest
      <4>1. q.id = 0 /\ q.pc = "idle"
        BY <3>1, NoTaskRequest
      <4> QED BY <4>1 DEF TaskMeans, TaskRoom
    <3>2. CASE q # NoRequest
      <4>1. PICK v \in Nat, z \in Task :
              /\ ~split[row.course] =>
                   component[row.course] + Load(task, row.course, {})
                     + Weighs(row.weight) + v <= Most
              /\ q.rows = {z} /\ Weighs(z.weight) = v /\ z.course = row.course
        BY <1>8, <2>6, <3>2
      <4>2. ~split[c] => component[c] + Load(task, c, {}) + w + v <= Most
        BY <2>4, <4>1
      <4>3. ~split[c] => component[c] + Load(task', c, {}) + v <= Most
        BY <2>4, <2>5, <4>2, TaskConstants
      <4>4. component[c] + Load(task', c, {}) \in Nat
        BY <2>5
      <4>5. \E x, y \in q.rows :
              /\ q.rows = {x, y} /\ x.course = y.course
              /\ ~split[x.course] =>
                   component[x.course] + Load(task', x.course, {}) + Weighs(x.weight)
                                       + (IF x = y THEN 0 ELSE Weighs(y.weight)) <= Most
        BY <1>9, <2>4, <3>2, <4>1, <4>3, <4>4
      <4> QED BY <1>5, <1>b, <3>2, <4>5 DEF TaskMeans, TaskRoom
    <3> QED BY <3>1, <3>2
  <2>7. TaskBudget'
    <3> SUFFICES ASSUME TaskAlone, NEW d \in Courses, ~split[d]
                 PROVE  component[d] + Load(task', d, {}) <= Most
      BY <1>b DEF TaskBudget, TaskAlone
    <3>1. CASE d = c
      <4>1. PICK v \in Nat : ~split[row.course] =>
               component[row.course] + Load(task, row.course, {}) + Weighs(row.weight) + v <= Most
        BY <1>8
      <4>2. component[c] + Load(task, c, {}) + w + v <= Most
        BY <2>4, <3>1, <4>1
      <4> QED BY <2>4, <2>5, <3>1, <4>1, <4>2, TaskConstants
    <3>2. CASE d # c
      <4>1. Load(task', d, {}) <= Load(task, d, {})
        BY <1>0, <2>2, <2>4, <3>2, LoadKept
      <4>2. component[d] + Load(task, d, {}) <= Most
        BY DEF TasksInv, TaskBudget
      <4>3. Load(task', d, {}) \in Nat /\ Load(task, d, {}) \in Nat /\ component[d] \in Nat
        BY <1>0, <2>2, LoadFinite
      <4> QED BY <4>1, <4>2, <4>3, TaskConstants
    <3> QED BY <3>1, <3>2
  <2>8. TaskKnows(q)'
    <3>1. q.id \in 0 .. last'
      BY <1>0, <1>6, <2>2, <2>1
    <3> QED BY <1>7, <3>1 DEF TaskKnows
  <2>9. PICK D \in SUBSET TaskIds : D = {i}
    BY <2>2
  <2> QED BY <1>1, <1>4, <1>6, <1>a, <1>b, <2>2, <2>3, <2>6, <2>7, <2>8, <2>9, TaskGoesOn
<1> QED BY <1>2, <1>10, <1>11

\* No course becomes heavier that would not have to.
LEMMA TaskLightens ==
  ASSUME TasksInv, TaskTypes', NEW i \in TaskIds,
         \A j \in TaskIds : j # i => task'[j] = task[j],
         \A c \in Courses : ~split'[c] =>
           /\ ~split[c]
           /\ \/ task'[i] = NoTask \/ task'[i].course # c \/ task'[i].weight = 0
              \/ /\ task[i] # NoTask /\ task[i].course = c /\ task'[i].weight <= task[i].weight
                 /\ ~task[i].repeats \/ (task'[i].repeats /\ task'[i].title = task[i].title)
  PROVE  TaskLighter({i})
<1>1. task \in TaskTable /\ task' \in TaskTable
  BY TaskFacts DEF TaskTypes, TaskTable
<1>2. ASSUME NEW c \in Courses, NEW E \in SUBSET TaskIds, ~split'[c], E \cap {i} = {}
      PROVE  ~split[c] /\ Load(task', c, E) <= Load(task, c, E)
  <2>1. i \notin E
    BY <1>2
  <2>2. /\ ~split[c]
        /\ \/ task'[i] = NoTask \/ task'[i].course # c \/ task'[i].weight = 0
           \/ /\ task[i] # NoTask /\ task[i].course = c /\ task'[i].weight <= task[i].weight
              /\ ~task[i].repeats \/ (task'[i].repeats /\ task'[i].title = task[i].title)
    BY <1>2
  <2> QED BY <1>1, <2>1, <2>2, LoadKept
<1> QED BY <1>2 DEF TaskLighter

\* What a task that a statement may change is to the requests under way.
LEMMA TaskFree ==
  ASSUME TasksInv, NEW i \in TaskIds, Free(i)
  PROVE  /\ serial => AllIdle
         /\ TaskAlone => \A s \in TaskRequests : going[s].id # i
<1>1. serial => AllIdle
  BY DEF Free
<1>2. ASSUME AllIdle, NEW s \in TaskRequests  PROVE going[s].id # i
  <2>1. going[s].id = 0
    BY <1>2, NoTaskRequest DEF AllIdle
  <2>2. i # 0
    BY TaskConstants DEF TaskIds
  <2> QED BY <2>1, <2>2
<1> QED BY <1>1, <1>2 DEF Free, TaskAlone

\* A statement that leaves of a task, if it stays, what its occurrences have in
\* common.
LEMMA TaskChanges ==
  ASSUME TasksInv, NEW i \in Live, Free(i),
         UNCHANGED <<last, component, split, going, today, serial>>,
         NEW row \in Task \cup {NoTask}, task' = [task EXCEPT ![i] = row],
         \/ row = NoTask
         \/ /\ row.title = task[i].title /\ row.course = task[i].course
            /\ row.weight = task[i].weight /\ row.repeats = task[i].repeats
            /\ row.auto => task[i].auto /\ row.date = task[i].date
            /\ TaskAlone => row.stamped = row.done /\ row.reviews <= Reviews
  PROVE  TasksInv'
<1>0. /\ i \in TaskIds /\ task[i] # NoTask /\ task[i] \in Task /\ task \in TaskTable /\ last \in Nat
      /\ i \in 1 .. last /\ (task[i].auto => task[i].repeats)
  BY TaskFacts DEF Live
<1>1. task'[i] = row /\ \A j \in TaskIds : j # i => task'[j] = task[j]
  BY <1>0 DEF TaskTable
<1>2. TaskTypes' /\ last <= last'
  BY <1>0 DEF TaskTypes, TasksInv, TaskTyped
<1>3. TaskStays(i)
  <2>1. i <= last'
    BY <1>0
  <2> QED BY <1>0, <1>1, <2>1 DEF TaskStays
<1>4. TaskNewOnce(i)
  BY <1>0, <1>1 DEF TaskNewOnce
<1>5. TaskLighter({i})
  <2>1. task[i].weight <= task[i].weight
    BY <1>0, TaskFields
  <2>2. ASSUME NEW c \in Courses, ~split'[c]
        PROVE  /\ ~split[c]
               /\ \/ task'[i] = NoTask \/ task'[i].course # c \/ task'[i].weight = 0
                  \/ /\ task[i] # NoTask /\ task[i].course = c /\ task'[i].weight <= task[i].weight
                     /\ ~task[i].repeats \/ (task'[i].repeats /\ task'[i].title = task[i].title)
    BY <1>0, <1>1, <2>1, <2>2
  <2> QED BY <1>0, <1>1, <1>2, <2>2, TaskLightens
<1>6. /\ serial => AllIdle
      /\ TaskAlone => \A s \in TaskRequests : going[s].id # i
  BY <1>0, TaskFree
<1>7. PICK D \in SUBSET TaskIds : D = {i}
  BY <1>0
<1>8. TaskLighter(D) /\ (TaskAlone => \A s \in TaskRequests : going[s].id \notin D)
  BY <1>5, <1>6, <1>7
<1> QED BY <1>2, <1>3, <1>4, <1>6, <1>7, <1>8, TaskBetween

LEMMA TaskStatements ==
  ASSUME TasksInv, NEW i \in Live,
         \/ \E done \in BOOLEAN : BulkStatus(i, done)
         \/ \E d \in 0 .. LastDay : BulkReschedule(i, d)
         \/ RemoveTask(i) \/ RemoveReview(i)
  PROVE  TasksInv'
<1>0. /\ i \in TaskIds /\ task[i] \in Task /\ task[i] # NoTask
      /\ TaskAlone => task[i].stamped = task[i].done /\ task[i].reviews <= Reviews
  BY TaskFacts DEF TasksInv, TaskRows, Live
<1>1. PICK t \in Task : t = task[i]
  BY <1>0
<1>2. CASE \E done \in BOOLEAN : BulkStatus(i, done)
  <2>1. PICK done \in BOOLEAN : BulkStatus(i, done)
    BY <1>2
  <2>2. PICK row : row = [t EXCEPT !.done = done, !.stamped = done]
    OBVIOUS
  <2>3. /\ row \in Task /\ row.title = t.title /\ row.course = t.course /\ row.weight = t.weight
        /\ row.repeats = t.repeats /\ row.auto = t.auto /\ row.date = t.date
        /\ row.stamped = done /\ row.done = done /\ row.reviews = t.reviews
    BY <2>2 DEF Task
  <2>4. task' = [task EXCEPT ![i] = row]
    BY <1>1, <2>1, <2>2 DEF BulkStatus
  <2>5. Free(i) /\ UNCHANGED <<last, component, split, going, today, serial>>
    BY <2>1 DEF BulkStatus
  <2> QED BY <1>0, <1>1, <2>3, <2>4, <2>5, TaskChanges
<1>3. CASE \E d \in 0 .. LastDay : BulkReschedule(i, d)
  <2>1. PICK d \in 0 .. LastDay : BulkReschedule(i, d)
    BY <1>3
  <2>2. PICK row : row = [t EXCEPT !.date = d, !.auto = FALSE]
    OBVIOUS
  <2>3. /\ row \in Task /\ row.title = t.title /\ row.course = t.course /\ row.weight = t.weight
        /\ row.repeats = t.repeats /\ ~row.auto
        /\ row.stamped = t.stamped /\ row.done = t.done /\ row.reviews = t.reviews
    BY <2>2 DEF Task
  <2>4. task' = [task EXCEPT ![i] = row]
    BY <1>1, <2>1, <2>2 DEF BulkReschedule
  <2>5. Free(i) /\ UNCHANGED <<last, component, split, going, today, serial>>
    BY <2>1 DEF BulkReschedule
  <2> QED BY <1>0, <1>1, <2>3, <2>4, <2>5, TaskChanges
<1>4. CASE RemoveTask(i)
  BY <1>4, TaskChanges DEF RemoveTask
<1>5. CASE RemoveReview(i)
  <2>1. PICK n \in Nat : n = t.reviews - 1 /\ n <= t.reviews
    <3>1. t.reviews \in Nat /\ t.reviews > 0
      BY <1>1, <1>5, TaskFields DEF RemoveReview
    <3>2. t.reviews - 1 \in Nat /\ t.reviews - 1 <= t.reviews
      BY <3>1
    <3> QED BY <3>2
  <2>2. PICK row : row = [t EXCEPT !.reviews = n]
    OBVIOUS
  <2>3. /\ row \in Task /\ row.title = t.title /\ row.course = t.course /\ row.weight = t.weight
        /\ row.repeats = t.repeats /\ row.auto = t.auto /\ row.date = t.date
        /\ row.stamped = t.stamped /\ row.done = t.done /\ row.reviews = n
    BY <2>2 DEF Task
  <2>4. task' = [task EXCEPT ![i] = row]
    BY <1>1, <1>5, <2>1, <2>2 DEF RemoveReview
  <2>5. Free(i) /\ UNCHANGED <<last, component, split, going, today, serial>>
    BY <1>5 DEF RemoveReview
  <2>6. TaskAlone => row.stamped = row.done /\ row.reviews <= Reviews
    <3>1. t.reviews \in Nat
      BY TaskFields
    <3>2. TaskAlone => t.stamped = t.done /\ t.reviews <= Reviews
      BY <1>0, <1>1
    <3> QED BY <2>1, <2>3, <3>1, <3>2, TaskConstants
  <2> QED BY <1>0, <1>1, <2>3, <2>4, <2>5, <2>6, TaskChanges
<1> QED BY <1>2, <1>3, <1>4, <1>5

\* A task made of a step of a checklist, which has no weight.
LEMMA TaskFromSubtask ==
  ASSUME TasksInv, NEW k \in Live, NEW t \in Titles, NEW done \in BOOLEAN, FromSubtask(k, t, done)
  PROVE  TasksInv'
<1>0. /\ last \in Nat /\ task \in TaskTable /\ task[k] \in Task /\ k \in TaskIds
  BY TaskFacts
<1>1. last < MaxTasks
  <2>1. {r \in TaskRequests : going[r].pc \in {"next", "insertNext"}} \subseteq TaskRequests
    OBVIOUS
  <2>2. IsFiniteSet({r \in TaskRequests : going[r].pc \in {"next", "insertNext"}})
    BY <2>1, FS_Subset DEF TasksAssumption
  <2>3. Cardinality({r \in TaskRequests : going[r].pc \in {"next", "insertNext"}}) \in Nat
    BY <2>2, FS_CardinalityType
  <2>4. Pending < MaxTasks
    BY DEF FromSubtask
  <2> QED BY <1>0, <2>3, <2>4, TaskConstants DEF Pending
<1>2. PICK c \in Courses, d \in 0 .. LastDay, w \in 0 .. Full :
        c = task[k].course /\ d = task[k].date /\ w = 0
  BY <1>0, TaskFields, TaskConstants
<1>f. PICK f \in BOOLEAN : f = FALSE
  OBVIOUS
<1>3. PICK row : row = New(t, c, d, w, f, done)
  OBVIOUS
<1>4. /\ row \in Task /\ row.weight = 0 /\ row.stamped = row.done /\ ~row.auto /\ row.reviews = 0
  BY <1>2, <1>3, TaskNew
<1>5. /\ task' = [task EXCEPT ![last + 1] = row] /\ last' = last + 1
      /\ UNCHANGED <<component, split, going, today, serial>> /\ Free(k)
  BY <1>2, <1>3, <1>f DEF FromSubtask
<1>6. PICK i : i = last + 1
  OBVIOUS
<1>7. /\ i \in TaskIds /\ task[i] = NoTask /\ i \notin Live
      /\ task' \in TaskTable /\ TaskTypes' /\ last <= last' /\ last' = i
      /\ task'[i] = row /\ \A j \in TaskIds : j # i => task'[j] = task[j]
      /\ \A s \in TaskRequests : going[s].id # i
  BY <1>1, <1>4, <1>5, <1>6, TaskNextRow
<1>8. TaskStays(i) /\ TaskNewOnce(i)
  <2>1. i <= last' /\ row.reviews <= Reviews
    BY <1>0, <1>4, <1>6, <1>7, TaskConstants
  <2> QED BY <1>4, <1>7, <2>1 DEF TaskStays, TaskNewOnce
<1>9. TaskLighter({i})
  BY <1>4, <1>5, <1>7, TaskLightens
<1>10. PICK D \in SUBSET TaskIds : D = {i}
  BY <1>7
<1>11. TaskLighter(D) /\ \A s \in TaskRequests : going[s].id \notin D
  BY <1>7, <1>9, <1>10
<1>12. serial => AllIdle
  BY <1>0, <1>5, TaskFree
<1> QED BY <1>5, <1>7, <1>8, <1>10, <1>11, <1>12, TaskBetween

\* The tables of tasks stay.
LEMMA TaskTableStays ==
  ASSUME TasksInv, UNCHANGED <<task, last, split, today, serial>>, component' \in [Courses -> Nat],
         NEW i, i = MaxTasks + 1
  PROVE  /\ i \notin TaskIds /\ TaskStays(i) /\ TaskNewOnce(i) /\ TaskLighter({})
         /\ TaskTypes' /\ last <= last'
<1>1. i \notin TaskIds
  BY TaskConstants DEF TaskIds
<1>2. TaskStays(i) /\ TaskNewOnce(i)
  BY <1>1 DEF TaskStays, TaskNewOnce
<1>3. TaskLighter({})
  <2>1. ASSUME NEW c \in Courses, NEW E \in SUBSET TaskIds
        PROVE  Load(task', c, E) <= Load(task, c, E)
    <3>1. Load(task, c, E) \in Nat
      BY TaskFacts, LoadFinite
    <3>2. \A n \in Nat : n <= n
      OBVIOUS
    <3> QED BY <3>1, <3>2
  <2> QED BY <2>1 DEF TaskLighter
<1>4. TaskTypes' /\ last <= last'
  <2>1. last \in Nat
    BY TaskFacts
  <2> QED BY <2>1 DEF TasksInv, TaskTyped, TaskTypes
<1> QED BY <1>1, <1>2, <1>3, <1>4

LEMMA TaskComponents ==
  ASSUME TasksInv,
         \/ \E r \in TaskRequests : SaveComponent(r)
         \/ \E c \in Courses : DropComponent(c)
  PROVE  TasksInv'
<1>0. /\ component \in [Courses -> Nat] /\ task \in TaskTable /\ last \in Nat
  BY TaskFacts
<1>1. PICK i : i = MaxTasks + 1
  OBVIOUS
<1>2. PICK D \in SUBSET TaskIds : D = {}
  OBVIOUS
<1>3. \A s \in TaskRequests : going[s].id \notin D
  BY <1>2
<1>4. ASSUME NEW r \in TaskRequests, SaveComponent(r)  PROVE TasksInv'
  <2>1. PICK p \in TaskShape : p = going[r]
    BY TaskRuns
  <2>2. p.pc = "weigh" /\ TaskKnows(p)
    BY <1>4, <2>1, TaskRuns DEF SaveComponent, At
  <2>3. Adds(p) /\ p.new \in [course : Courses, weight : Nat]
    BY <2>2 DEF TaskKnows, Adds
  <2>4. PICK c \in Courses, w \in Nat : c = p.new.course /\ w = p.new.weight
    BY <2>3
  <2>5. component' = [component EXCEPT ![c] = w] /\ UNCHANGED <<task, last, split, today, serial>>
    BY <1>4, <2>1, <2>4 DEF SaveComponent
  <2>6. component' \in [Courses -> Nat]
    BY <1>0, <2>5
  <2>7. /\ i \notin TaskIds /\ TaskStays(i) /\ TaskNewOnce(i) /\ TaskTypes' /\ last <= last'
    BY <1>1, <2>5, <2>6, TaskTableStays
  <2>8. TaskBudget'
    <3> SUFFICES ASSUME TaskAlone, NEW e \in Courses, ~split[e]
                 PROVE  component'[e] + Load(task, e, {}) <= Most
      BY <2>5 DEF TaskBudget, TaskAlone
    <3>1. CASE e = c
      <4>1. TaskMeans(p)
        BY <2>1, TaskRuns
      <4>2. w + Load(task, c, {}) <= Most
        BY <2>2, <2>4, <3>1, <4>1 DEF TaskMeans, TaskRoom
      <4> QED BY <1>0, <2>5, <3>1, <4>2
    <3>2. CASE e # c
      <4>1. component'[e] = component[e]
        BY <1>0, <2>5, <3>2
      <4> QED BY <4>1 DEF TasksInv, TaskBudget
    <3> QED BY <3>1, <3>2
  <2>9. going' = [going EXCEPT ![r] = NoRequest] /\ serial' = serial
    BY <1>4 DEF SaveComponent, EndRequest
  <2>10. Adds(going[r]) /\ (serial => \A s \in TaskRequests : s # r => going[s] = NoRequest)
    BY <2>1, <2>2, <2>3, TaskRuns
  <2>11. PICK q \in TaskShape : q = NoRequest
    BY NoTaskRequest
  <2>12. q.id = 0 /\ ~Adds(q) /\ TaskKnows(q)' /\ TaskMeans(q)'
    <3>1. q.id = 0 /\ ~Adds(q) /\ q.pc = "idle"
      BY <2>11, NoTaskRequest
    <3>2. 0 \in 0 .. last'
      BY <1>0, <2>5
    <3>3. TaskKnows(q)'
      BY <2>11, <3>1, <3>2 DEF TaskKnows
    <3> QED BY <3>1, <3>3 DEF TaskMeans, TaskRoom
  <2> QED BY <1>2, <1>3, <2>7, <2>8, <2>9, <2>10, <2>11, <2>12,
         TaskGoesOn
<1>5. ASSUME NEW c \in Courses, DropComponent(c)  PROVE TasksInv'
  <2>1. /\ AllIdle /\ component' = [component EXCEPT ![c] = 0]
        /\ UNCHANGED <<task, last, split, going, today, serial>>
    BY <1>5 DEF DropComponent
  <2>2. component' \in [Courses -> Nat] /\ \A e \in Courses : component'[e] <= component[e]
    BY <1>0, <2>1
  <2>3. /\ i \notin TaskIds /\ TaskStays(i) /\ TaskNewOnce(i) /\ TaskTypes' /\ last <= last'
        /\ TaskLighter(D)
    BY <1>1, <1>2, <2>1, <2>2, TaskTableStays
  <2> QED BY <1>2, <1>3, <2>1, <2>2, <2>3, TaskBetween
<1> QED BY <1>4, <1>5

\* What an edit writes.
LEMMA TaskWritten ==
  ASSUME NEW p \in TaskShape, TaskKnows(p), p.pc = "write", NEW t \in Task,
         NEW n, n = Written(p, t)
  PROVE  /\ n \in Task /\ n.reviews = t.reviews
         /\ n.title = IF p.field = "title" THEN p.new ELSE t.title
         /\ n.course = IF p.field = "course" THEN p.new ELSE t.course
         /\ n.weight = IF p.field = "weight" THEN p.new ELSE t.weight
         /\ n.done = IF p.field = "done" THEN p.new ELSE t.done
         /\ n.repeats = IF p.field = "repeats" THEN p.new ELSE t.repeats
         /\ n.stamped = Stamped(p, t)
         /\ n.auto => /\ t.auto /\ n.title = t.title /\ n.course = t.course /\ n.date = t.date
                      /\ n.repeats = t.repeats
<1>1. /\ p.field = "title" => p.new \in Titles
      /\ p.field = "course" => p.new \in Courses
      /\ p.field = "date" => p.new \in 0 .. LastDay
      /\ p.field = "weight" => p.new \in 0 .. Full
      /\ p.field \in {"repeats", "done"} => p.new \in BOOLEAN
  BY DEF TaskKnows
<1>2. /\ (IF p.field = "title" THEN p.new ELSE t.title) \in Titles
      /\ (IF p.field = "course" THEN p.new ELSE t.course) \in Courses
      /\ (IF p.field = "date" THEN p.new ELSE t.date) \in 0 .. LastDay
      /\ (IF p.field = "weight" THEN p.new ELSE t.weight) \in 0 .. Full
      /\ (IF p.field = "repeats" THEN p.new ELSE t.repeats) \in BOOLEAN
      /\ (IF p.field = "done" THEN p.new ELSE t.done) \in BOOLEAN
  BY <1>1, TaskFields
<1>3. Stamped(p, t) \in BOOLEAN
  <2>1. CASE p.field # "done"
    BY <2>1, TaskFields DEF Stamped
  <2>2. CASE p.field = "done"
    <3>1. CASE p.op = "confirm"
      BY <2>2, <3>1 DEF Stamped
    <3>2. CASE p.op # "confirm" /\ p.was = p.new
      BY <2>2, <3>2, TaskFields DEF Stamped
    <3>3. CASE p.op # "confirm" /\ p.was # p.new
      BY <1>1, <2>2, <3>3 DEF Stamped
    <3> QED BY <3>1, <3>2, <3>3
  <2> QED BY <2>1, <2>2
<1>4. (t.auto /\ p.field \in {"weight", "done"}) \in BOOLEAN
  OBVIOUS
<1>5. PICK title \in Titles, course \in Courses, date \in 0 .. LastDay, weight \in 0 .. Full :
        /\ title = (IF p.field = "title" THEN p.new ELSE t.title)
        /\ course = (IF p.field = "course" THEN p.new ELSE t.course)
        /\ date = (IF p.field = "date" THEN p.new ELSE t.date)
        /\ weight = (IF p.field = "weight" THEN p.new ELSE t.weight)
  BY <1>2
<1>6. PICK repeats \in BOOLEAN : repeats = (IF p.field = "repeats" THEN p.new ELSE t.repeats)
  BY <1>2
<1>7. PICK done \in BOOLEAN : done = (IF p.field = "done" THEN p.new ELSE t.done)
  BY <1>2
<1>8. PICK stamped \in BOOLEAN : stamped = Stamped(p, t)
  BY <1>3
<1>9. PICK auto \in BOOLEAN : auto = (t.auto /\ p.field \in {"weight", "done"})
  BY <1>4
<1>10. n = [t EXCEPT !.title = title, !.course = course, !.date = date, !.weight = weight,
                     !.repeats = repeats, !.done = done, !.auto = auto, !.stamped = stamped]
  BY <1>5, <1>6, <1>7, <1>8, <1>9 DEF Written, Task
<1>11. /\ n \in Task /\ n.reviews = t.reviews /\ n.title = title /\ n.course = course
       /\ n.date = date /\ n.weight = weight /\ n.repeats = repeats /\ n.done = done
       /\ n.stamped = stamped /\ n.auto = auto
  <2>1. t.reviews \in Nat
    BY TaskFields
  <2>2. n = [title |-> title, course |-> course, date |-> date, weight |-> weight,
             repeats |-> repeats, done |-> done, stamped |-> stamped, auto |-> auto,
             reviews |-> t.reviews]
    BY <1>10 DEF Task
  <2>3. n \in Task
    BY <2>1, <2>2 DEF Task
  <2> QED BY <2>2, <2>3
<1>12. auto => t.auto /\ p.field \in {"weight", "done"}
  BY <1>9
<1>13. n.auto => /\ t.auto /\ n.title = t.title /\ n.course = t.course /\ n.date = t.date
                 /\ n.repeats = t.repeats
  BY <1>5, <1>6, <1>11, <1>12
<1> QED BY <1>5, <1>6, <1>7, <1>8, <1>11, <1>13

LEMMA TaskWrites ==
  ASSUME TasksInv, NEW r \in TaskRequests, Write(r)
  PROVE  TasksInv'
<1>0. /\ last \in Nat /\ component \in [Courses -> Nat] /\ task \in TaskTable
      /\ split \in [Courses -> BOOLEAN] /\ last \in 0 .. MaxTasks
  BY TaskFacts
<1>1. PICK p \in TaskShape : p = going[r]
  BY TaskRuns
<1>2. PICK i : i = p.id
  OBVIOUS
<1>3. /\ p.pc = "write" /\ TaskKnows(p) /\ i \in TaskIds /\ i # 0 /\ i \in 0 .. last
      /\ p.op \in {"update", "confirm"} /\ UNCHANGED <<last, component, today, serial>>
  BY <1>1, <1>2, TaskRuns DEF TaskKnows, Write, At
<1>4. /\ serial => \A s \in TaskRequests : s # r => going[s] = NoRequest
      /\ TaskAlone => TaskMeans(p) /\ \A s \in TaskRequests : s # r => going[s].id # i
  BY <1>1, <1>2, <1>3, TaskRuns
<1>5. CASE task[i] = NoTask
  <2>1. EndRequest(r) /\ UNCHANGED <<task, last, component, split, today, serial>>
    BY <1>1, <1>2, <1>3, <1>5 DEF Write
  <2>2. going[r].pc # "idle"
    BY <1>1, <1>3
  <2> QED BY <2>1, <2>2, TaskEnds
<1>6. CASE task[i] # NoTask
  <2>1. PICK t \in Task : t = task[i]
    BY <1>0, <1>3, <1>6, TableFields
  <2>2. PICK n : n = Written(p, t)
    OBVIOUS
  <2>3. /\ n \in Task /\ n.reviews = t.reviews
        /\ n.title = IF p.field = "title" THEN p.new ELSE t.title
        /\ n.course = IF p.field = "course" THEN p.new ELSE t.course
        /\ n.weight = IF p.field = "weight" THEN p.new ELSE t.weight
        /\ n.done = IF p.field = "done" THEN p.new ELSE t.done
        /\ n.repeats = IF p.field = "repeats" THEN p.new ELSE t.repeats
        /\ n.stamped = Stamped(p, t)
        /\ n.auto => /\ t.auto /\ n.title = t.title /\ n.course = t.course /\ n.date = t.date
                     /\ n.repeats = t.repeats
    BY <1>3, <2>2, TaskWritten
  <2>4. /\ task' = [task EXCEPT ![i] = n]
        /\ split' = [split EXCEPT ![n.course] = split[n.course] \/ Leaves(t, n)]
        /\ IF p.field = "done" /\ p.new /\ ~p.was
           THEN going' = [going EXCEPT ![r] = [NoRequest EXCEPT !.op = "update", !.pc = "next",
                                                 !.id = i, !.rows = {n}]]
           ELSE EndRequest(r)
    <3>1. LET new == Written(going[r], task[going[r].id]) IN
          /\ task' = [task EXCEPT ![going[r].id] = new]
          /\ split' = [split EXCEPT ![new.course] = @ \/ Leaves(task[going[r].id], new)]
          /\ IF going[r].field = "done" /\ going[r].new /\ ~going[r].was
             THEN going' = [going EXCEPT ![r] = [NoRequest EXCEPT !.op = "update", !.pc = "next",
                                                   !.id = going[r].id, !.rows = {new}]]
             ELSE EndRequest(r)
      BY <1>1, <1>2, <1>6 DEF Write
    <3>2. going[r] = p /\ going[r].id = i /\ task[i] = t /\ Written(p, t) = n
      BY <1>1, <1>2, <2>1, <2>2
    <3>3. /\ task' = [task EXCEPT ![i] = n]
          /\ split' = [split EXCEPT ![n.course] = @ \/ Leaves(t, n)]
      BY <3>1, <3>2
    <3>4. n.course \in Courses
      BY <2>3, TaskFields
    <3> QED BY <1>0, <3>1, <3>2, <3>3, <3>4
  <2>5. PICK q : q = IF p.field = "done" /\ p.new /\ ~p.was
                     THEN [NoRequest EXCEPT !.op = "update", !.pc = "next", !.id = i, !.rows = {n}]
                     ELSE NoRequest
    OBVIOUS
  <2>6. going' = [going EXCEPT ![r] = q]
    BY <2>4, <2>5 DEF EndRequest
  <2>7. \/ q = NoRequest
        \/ /\ q.op = "update" /\ q.pc = "next" /\ q.id = i /\ q.rows = {n} /\ q.field = "none"
           /\ q \in TaskShape
    <3>1. /\ NoRequest \in TaskShape /\ NoRequest.field = "none" /\ i \in 0 .. MaxTasks
      BY <1>0, <1>3, NoTaskRequest
    <3> QED BY <2>3, <2>5, <3>1 DEF TaskShape
  <2>8. q \in TaskShape /\ ~Adds(q) /\ (q.id = 0 \/ q.id = p.id)
    BY <1>2, <2>7, NoTaskRequest DEF Adds
  <2>9. TaskKnows(q)'
    <3>1. CASE q = NoRequest
      <4>1. q.id = 0 /\ q.pc = "idle" /\ 0 \in 0 .. last'
        BY <1>0, <1>3, <3>1, NoTaskRequest
      <4> QED BY <3>1, <4>1 DEF TaskKnows
    <3>2. CASE q # NoRequest
      BY <1>3, <2>3, <2>7, <3>2 DEF TaskKnows
    <3> QED BY <3>1, <3>2
  <2>10. /\ task' \in TaskTable /\ task'[i] = n /\ n # NoTask
         /\ \A j \in TaskIds : j # i => task'[j] = task[j]
    <3>1. n # NoTask
      BY <2>3, NoTaskNone
    <3> QED BY <1>0, <1>3, <2>3, <2>4, <3>1 DEF TaskTable
  <2>11. TaskMeans(q)'
    <3>1. CASE q = NoRequest
      <4>1. q.id = 0 /\ q.pc = "idle"
        BY <3>1, NoTaskRequest
      <4> QED BY <4>1 DEF TaskMeans, TaskRoom
    <3>2. CASE q # NoRequest
      BY <2>7, <2>10, <3>2 DEF TaskMeans, TaskRoom
    <3> QED BY <3>1, <3>2
  <2>12. /\ split' \in [Courses -> BOOLEAN]
         /\ \A c \in Courses : ~split'[c] => ~split[c] /\ (c = n.course => ~Leaves(t, n))
    <3>1. PICK b \in BOOLEAN : b = (split[n.course] \/ Leaves(t, n))
      OBVIOUS
    <3>2. split' = [split EXCEPT ![n.course] = b]
      BY <2>4, <3>1
    <3> QED BY <1>0, <3>1, <3>2
  <2>13. TaskTypes' /\ last <= last'
    BY <1>0, <1>3, <2>10, <2>12 DEF TaskTypes, TasksInv, TaskTyped, TaskTable
  <2>14. TaskStays(i)
    <3>1. i \in Live /\ (t.auto => t.repeats)
          /\ (TaskAlone => t.stamped = t.done /\ t.reviews <= Reviews)
      BY <1>3, <1>6, <2>1 DEF Live, TasksInv, TaskTyped, TaskRows
    <3>2. i <= last'
      BY <1>0, <1>3
    <3>3. n.auto => n.repeats
      BY <2>3, <3>1
    <3>4. ASSUME TaskAlone  PROVE n.stamped = n.done
      <4>1. CASE p.field # "done"
        BY <2>3, <3>1, <3>4, <4>1 DEF Stamped
      <4>2. CASE p.field = "done"
        <5>1. p.was = t.done
          BY <1>2, <1>3, <1>4, <2>1, <3>4, <4>2 DEF TaskMeans
        <5>2. CASE p.op = "confirm"
          <6>1. p.new = TRUE
            BY <1>3, <5>2 DEF TaskKnows
          <6> QED BY <2>3, <4>2, <5>2, <6>1 DEF Stamped
        <5>3. CASE p.op # "confirm"
          BY <2>3, <3>1, <3>4, <4>2, <5>1, <5>3 DEF Stamped
        <5> QED BY <5>2, <5>3
      <4> QED BY <4>1, <4>2
    <3> QED BY <2>3, <2>10, <3>1, <3>2, <3>3, <3>4 DEF TaskStays
  <2>15. TaskNewOnce(i)
    BY <1>6, <2>1, <2>3, <2>10 DEF TaskNewOnce
  <2>16. ASSUME ~Adds(p)  PROVE TaskLighter({i})
    <3>1. n.weight = t.weight /\ n.course = t.course /\ t.weight <= t.weight
      BY <2>3, <2>16, TaskFields DEF Adds
    <3>2. ASSUME NEW c \in Courses, ~split'[c]
          PROVE  /\ ~split[c]
                 /\ \/ n = NoTask \/ n.course # c \/ n.weight = 0
                    \/ /\ task[i] # NoTask /\ t.course = c /\ n.weight <= t.weight
                       /\ ~t.repeats \/ (n.repeats /\ n.title = t.title)
      BY <1>6, <2>12, <3>1, <3>2 DEF Leaves
    <3> QED BY <1>3, <2>1, <2>10, <2>13, <3>2, TaskLightens
  <2>17. ASSUME TaskAlone, Adds(p)  PROVE TaskBudget'
    <3> SUFFICES ASSUME NEW c \in Courses, ~split'[c]
                 PROVE  component[c] + Load(task', c, {}) <= Most
      BY <1>3 DEF TaskBudget, TaskAlone
    <3>0. /\ Load(task', c, {}) \in Nat /\ Load(task, c, {}) \in Nat /\ component[c] \in Nat
          /\ Load(task, c, {i}) \in Nat
      BY <1>0, <2>10, LoadFinite
    <3>1. ~split[c] /\ component[c] + Load(task, c, {}) <= Most
      BY <2>12, <2>17 DEF TasksInv, TaskBudget
    <3>2. p.field \in {"weight", "course"} /\ TaskRoom(p)
      BY <1>3, <1>4, <2>17 DEF Adds, TaskMeans
    <3>3. ASSUME n.course = c, component[c] + Load(task, c, {i}) + Weighs(n.weight) <= Most
          PROVE  component[c] + Load(task', c, {}) <= Most
      <4>1. PICK E : E = {}
        OBVIOUS
      <4>2. Load(task', c, E) <= Load(task, c, E \cup {i}) + Weighs(task'[i].weight)
        BY <1>0, <1>3, <2>10, <3>3, <4>1, LoadGrown
      <4>3. E \cup {i} = {i}
        BY <4>1
      <4>4. PICK w \in Nat : w = Weighs(n.weight)
        BY <2>3, TaskFields, WeighsNat
      <4>5. Load(task', c, {}) <= Load(task, c, {i}) + w
        BY <2>10, <4>1, <4>2, <4>3, <4>4
      <4> QED BY <3>0, <3>3, <4>4, <4>5, TaskConstants
    <3>4. ASSUME \/ n.course # c
                 \/ /\ t.course = c /\ n.weight <= t.weight
                    /\ n.repeats = t.repeats /\ n.title = t.title
          PROVE  component[c] + Load(task', c, {}) <= Most
      <4>1. \/ task'[i] = NoTask \/ task'[i].course # c \/ task'[i].weight = 0
            \/ /\ task[i] # NoTask /\ task[i].course = c /\ task'[i].weight <= task[i].weight
               /\ ~task[i].repeats \/ (task'[i].repeats /\ task'[i].title = task[i].title)
        BY <1>6, <2>1, <2>10, <3>4
      <4>2. Load(task', c, {}) <= Load(task, c, {})
        BY <1>0, <1>3, <2>10, <4>1, LoadKept
      <4> QED BY <3>0, <3>1, <4>2, TaskConstants
    <3>5. PICK w \in Nat : w = n.weight
      BY <2>3, TaskFields
    <3>6. CASE p.field = "weight"
      <4>1. n.course = t.course /\ w = p.new /\ n.repeats = t.repeats /\ n.title = t.title
        BY <2>3, <3>5, <3>6
      <4>2. CASE n.course = c
        <5>1. task[p.id].course = c
          BY <1>2, <2>1, <4>1, <4>2
        <5>2. w <= t.weight \/ component[c] + Load(task, c, {i}) + Weighs(w) <= Most
          BY <1>2, <1>3, <2>1, <3>1, <3>2, <3>6, <4>1, <5>1 DEF TaskRoom
        <5> QED BY <3>3, <3>4, <3>5, <4>1, <4>2, <5>2
      <4> QED BY <3>4, <4>2
    <3>7. CASE p.field = "course"
      <4>1. n.course = p.new /\ w = t.weight
        BY <2>3, <3>5, <3>7
      <4>2. CASE n.course = c
        <5>1. component[c] + Load(task, c, {i}) + Weighs(w) <= Most
          BY <1>2, <1>3, <2>1, <3>1, <3>2, <3>7, <4>1, <4>2 DEF TaskRoom
        <5> QED BY <3>3, <3>5, <4>2, <5>1
      <4> QED BY <3>4, <4>2
    <3> QED BY <3>2, <3>6, <3>7
  <2>18. PICK D \in SUBSET TaskIds : D = {i}
    BY <1>3
  <2>19. TaskAlone =>
           /\ \A s \in TaskRequests : s # r => going[s].id \notin D
           /\ q.id = 0 \/ q.id = going[r].id
           /\ Adds(going[r]) => TaskBudget'
           /\ ~Adds(going[r]) => component' = component /\ TaskLighter(D)
    BY <1>1, <1>3, <1>4, <2>8, <2>16, <2>17, <2>18
  <2> QED BY <1>3, <1>4, <2>6, <2>8, <2>9, <2>11, <2>13, <2>14, <2>15, <2>18, <2>19, TaskGoesOn
<1> QED BY <1>5, <1>6

\* What completing a task creates.
LEMMA TaskLooks ==
  ASSUME TasksInv, NEW r \in TaskRequests, LookForNext(r) \/ CountReviews(r) \/ FollowUpsFail(r)
  PROVE  TasksInv'
<1>0. UNCHANGED <<task, last, component, split, today, serial>>
  BY DEF LookForNext, CountReviews, FollowUpsFail
<1>1. PICK p \in TaskShape : p = going[r]
  BY TaskRuns
<1>2. /\ TaskKnows(p) /\ p.pc \in {"next", "reviews", "insertNext", "insertReviews"}
      /\ going[r].pc # "idle" /\ p.id # 0 /\ p.op = "update" /\ p.field = "none"
      /\ serial => \A s \in TaskRequests : s # r => going[s] = NoRequest
      /\ TaskAlone => TaskMeans(p)
  <2>1. p.pc \in {"next", "reviews", "insertNext", "insertReviews"} /\ p.pc # "idle"
    BY <1>1 DEF LookForNext, CountReviews, FollowUpsFail, At
  <2> QED BY <1>1, <2>1, TaskRuns DEF TaskKnows
\* The request goes on to pc; it adds no weight.
<1>3. ASSUME NEW q \in TaskShape, q.op = p.op, q.field = p.field, q.id = p.id, TaskKnows(q),
             TaskAlone => TaskMeans(q), going' = [going EXCEPT ![r] = q]
      PROVE  TasksInv'
  <2>1. ~Adds(q)
    BY <1>2, <1>3 DEF Adds
  <2> QED BY <1>0, <1>1, <1>2, <1>3, <2>1, TaskReadsOn
<1>4. CASE LookForNext(r)
  <2>1. PICK t \in p.rows : LET d == NextDate(t.date) IN
          IF t.repeats /\ d <= LastDay /\ ~HasNext(t, d)
          THEN GoInsert(r, d) ELSE ToReviews(r)
    BY <1>1, <1>4 DEF LookForNext
  <2>2. PICK d : /\ d = NextDate(t.date)
                 /\ IF t.repeats /\ d <= LastDay /\ ~HasNext(t, d)
                    THEN GoInsert(r, d) ELSE ToReviews(r)
    BY <2>1
  <2>3. p.pc = "next" /\ t \in Task /\ p.rows = {t}
    BY <1>1, <1>2, <1>4, <2>1 DEF LookForNext, At, TaskKnows
  <2>4. going \in [TaskRequests -> TaskShape]
    BY TaskFacts
  <2>5. CASE t.repeats /\ d <= LastDay /\ ~HasNext(t, d)
    <3>1. d \in 0 .. LastDay
      <4>1. t.date \in 0 .. LastDay
        BY <2>3, TaskFields
      <4>2. today \in 0 .. LastDay
        BY DEF TasksInv, TaskTyped, TaskTypes
      <4> QED BY <2>2, <2>5, <4>1, <4>2, TaskConstants DEF NextDate
    <3>2. PICK q : q = [p EXCEPT !.pc = "insertNext", !.new = d]
      OBVIOUS
    <3>3. /\ q \in TaskShape /\ q.op = p.op /\ q.field = p.field /\ q.id = p.id
          /\ q.pc = "insertNext" /\ q.rows = {t} /\ q.new = d
      <4>1. d \in TaskNews
        BY <3>1, TaskConstants DEF TaskNews
      <4> QED BY <2>3, <3>2, <4>1 DEF TaskShape
    <3>4. TaskKnows(q)
      BY <1>2, <2>3, <2>5, <3>1, <3>3 DEF TaskKnows
    <3>5. TaskAlone => TaskMeans(q)
      <4>1. TaskAlone => task[p.id] # NoTask /\ t = task[p.id]
        BY <1>2, <2>3 DEF TaskMeans
      <4> QED BY <2>5, <3>3, <4>1 DEF TaskMeans, TaskRoom
    <3>6. going' = [going EXCEPT ![r] = q]
      BY <1>1, <2>2, <2>4, <2>5, <3>2 DEF GoInsert
    <3> QED BY <1>3, <3>3, <3>4, <3>5, <3>6
  <2>6. CASE ~(t.repeats /\ d <= LastDay /\ ~HasNext(t, d))
    <3>1. PICK q : q = [p EXCEPT !.pc = "reviews", !.new = NoTask, !.rows = {}]
      OBVIOUS
    <3>2. /\ q \in TaskShape /\ q.op = p.op /\ q.field = p.field /\ q.id = p.id
          /\ q.pc = "reviews"
      <4>1. NoTask \in TaskNews
        BY DEF TaskNews
      <4> QED BY <3>1, <4>1 DEF TaskShape
    <3>3. TaskKnows(q)
      BY <1>2, <3>2 DEF TaskKnows
    <3>4. TaskAlone => TaskMeans(q)
      BY <1>2, <3>2 DEF TaskMeans, TaskRoom
    <3>5. going' = [going EXCEPT ![r] = q]
      BY <1>1, <2>2, <2>4, <2>6, <3>1 DEF ToReviews
    <3> QED BY <1>3, <3>2, <3>3, <3>4, <3>5
  <2> QED BY <2>5, <2>6
<1>5. CASE CountReviews(r)
  <2>1. /\ p.pc = "reviews"
        /\ IF task[p.id] # NoTask /\ task[p.id].reviews > 0
           THEN EndRequest(r) ELSE Go(r, "insertReviews")
    BY <1>1, <1>5 DEF CountReviews, At
  <2>2. CASE task[p.id] # NoTask /\ task[p.id].reviews > 0
    BY <1>0, <1>2, <2>1, <2>2, TaskEnds
  <2>3. CASE ~(task[p.id] # NoTask /\ task[p.id].reviews > 0)
    <3>1. PICK q : q = [p EXCEPT !.pc = "insertReviews"]
      OBVIOUS
    <3>2. /\ q \in TaskShape /\ q.op = p.op /\ q.field = p.field /\ q.id = p.id
          /\ q.pc = "insertReviews"
      BY <3>1 DEF TaskShape
    <3>3. TaskKnows(q)
      BY <1>2, <3>2 DEF TaskKnows
    <3>4. ASSUME TaskAlone  PROVE TaskMeans(q)
      <4>1. task[p.id] # NoTask
        BY <1>2, <3>4 DEF TaskMeans
      <4>2. p.id \in TaskIds /\ task \in TaskTable
        BY <1>1, <1>2, TaskRuns, TaskFacts
      <4>3. task[p.id].reviews \in Nat
        BY <4>1, <4>2, TableFields, TaskFields
      <4>4. task[p.id].reviews = 0
        BY <2>3, <4>1, <4>3
      <4> QED BY <3>2, <4>1, <4>4 DEF TaskMeans, TaskRoom
    <3>5. going \in [TaskRequests -> TaskShape]
      BY TaskFacts
    <3>6. going' = [going EXCEPT ![r] = q]
      BY <1>1, <2>1, <2>3, <3>1, <3>5 DEF Go
    <3> QED BY <1>3, <3>2, <3>3, <3>4, <3>6
  <2> QED BY <2>2, <2>3
<1>6. CASE FollowUpsFail(r)
  BY <1>0, <1>2, <1>6, TaskEnds DEF FollowUpsFail
<1> QED BY <1>4, <1>5, <1>6

\* The next occurrence weighs nothing beyond the one that was completed, and is
\* the only one on its day.
LEMMA TaskSpawns ==
  ASSUME TasksInv, NEW r \in TaskRequests, InsertNext(r)
  PROVE  TasksInv'
<1>0. /\ last \in Nat /\ component \in [Courses -> Nat] /\ task \in TaskTable
      /\ going \in [TaskRequests -> TaskShape] /\ last < MaxTasks
      /\ UNCHANGED <<component, split, today, serial>>
  BY TaskFacts DEF InsertNext
<1>1. PICK p \in TaskShape : p = going[r]
  BY TaskRuns
<1>2. PICK j : j = p.id
  OBVIOUS
<1>3. /\ TaskKnows(p) /\ p.pc = "insertNext" /\ j \in TaskIds /\ j # 0 /\ j \in 0 .. last
      /\ p.op = "update" /\ p.field = "none"
      /\ serial => \A s \in TaskRequests : s # r => going[s] = NoRequest
      /\ TaskAlone => TaskMeans(p) /\ \A s \in TaskRequests : s # r => going[s].id # j
  <2>1. p.pc = "insertNext"
    BY <1>1 DEF InsertNext, At
  <2>2. TaskKnows(p) /\ j # 0 /\ j \in 0 .. last /\ p.op = "update" /\ p.field = "none"
    BY <1>1, <1>2, <2>1, TaskRuns DEF TaskKnows
  <2> QED BY <1>1, <1>2, <2>1, <2>2, TaskRuns
<1>4. PICK t \in p.rows :
        /\ task' = [task EXCEPT ![last + 1] =
             [New(t.title, t.course, p.new, t.weight, TRUE, FALSE) EXCEPT !.auto = TRUE]]
        /\ last' = last + 1
  BY <1>1 DEF InsertNext
<1>5. t \in Task /\ p.rows = {t} /\ t.repeats /\ p.new \in 0 .. LastDay
  BY <1>3 DEF TaskKnows
<1>6. PICK row : row = [New(t.title, t.course, p.new, t.weight, TRUE, FALSE) EXCEPT !.auto = TRUE]
  OBVIOUS
<1>7. /\ row \in Task /\ row.title = t.title /\ row.course = t.course /\ row.weight = t.weight
      /\ row.date = p.new /\ row.repeats /\ row.auto /\ row.stamped = row.done
      /\ row.reviews = 0
  <2>1. PICK yes \in BOOLEAN, no \in BOOLEAN : yes = TRUE /\ no = FALSE
    OBVIOUS
  <2>2. PICK n : n = New(t.title, t.course, p.new, t.weight, yes, no)
    OBVIOUS
  <2>3. t.title \in Titles /\ t.course \in Courses /\ t.weight \in 0 .. Full
    BY <1>5, TaskFields
  <2>4. PICK title \in Titles, course \in Courses, date \in 0 .. LastDay, weight \in 0 .. Full :
          title = t.title /\ course = t.course /\ date = p.new /\ weight = t.weight
    BY <1>5, <2>3
  <2>5. n = New(title, course, date, weight, yes, no)
    BY <2>2, <2>4
  <2>6. /\ n \in Task /\ n.title = title /\ n.course = course /\ n.date = date /\ n.weight = weight
        /\ n.repeats = yes /\ n.done = no /\ n.stamped = no /\ n.reviews = 0
    BY <2>5, TaskNew
  <2>7. row = [n EXCEPT !.auto = TRUE]
    BY <1>6, <2>1, <2>2
  <2> QED BY <2>1, <2>4, <2>6, <2>7 DEF Task
<1>8. PICK q : q = [p EXCEPT !.pc = "reviews", !.new = NoTask, !.rows = {}]
  OBVIOUS
<1>9. /\ q \in TaskShape /\ q.op = p.op /\ q.field = p.field /\ q.id = j /\ q.pc = "reviews"
  <2>1. NoTask \in TaskNews
    BY DEF TaskNews
  <2> QED BY <1>2, <1>8, <2>1 DEF TaskShape
<1>10. going' = [going EXCEPT ![r] = q]
  BY <1>0, <1>1, <1>8 DEF InsertNext, ToReviews
<1>11. PICK i : i = last + 1
  OBVIOUS
<1>12. /\ i \in TaskIds /\ task[i] = NoTask /\ i \notin Live
       /\ task' \in TaskTable /\ TaskTypes' /\ last <= last' /\ last' = i
       /\ task'[i] = row /\ \A k \in TaskIds : k # i => task'[k] = task[k]
       /\ \A s \in TaskRequests : going[s].id # i
  BY <1>0, <1>4, <1>6, <1>7, <1>11, TaskNextRow
<1>13. i # j
  BY <1>0, <1>3, <1>11
<1>14. TaskStays(i)
  <2>1. i <= last' /\ row.reviews <= Reviews
    BY <1>0, <1>7, <1>11, <1>12, TaskConstants
  <2> QED BY <1>7, <1>12, <2>1 DEF TaskStays
<1>15. TaskAlone => task[j] = t /\ t # NoTask
  <2>1. t # NoTask
    BY <1>5, NoTaskNone
  <2> QED BY <1>2, <1>3, <1>5, <2>1 DEF TaskMeans
<1>16. TaskNewOnce(i)
  <2> SUFFICES ASSUME serial, NEW k \in Live, task[k].auto, task[k].title = row.title,
                      task[k].course = row.course, task[k].date = row.date
               PROVE  FALSE
    BY <1>12 DEF TaskNewOnce
  <2>1. task[k].repeats
    BY TaskFacts
  <2>2. HasNext(t, p.new)
    BY <1>7, <2>1 DEF HasNext
  <2>3. ~HasNext(task[j], p.new) /\ task[j] = t
    BY <1>2, <1>3, <1>15 DEF TaskMeans, TaskAlone
  <2> QED BY <2>2, <2>3
<1>17. PICK D \in SUBSET TaskIds : D = {i, j}
  BY <1>3, <1>12
<1>18. ASSUME TaskAlone  PROVE TaskLighter(D)
  <2>1. ASSUME NEW c \in Courses, NEW E \in SUBSET TaskIds, E \cap D = {}
        PROVE  Load(task', c, E) <= Load(task, c, E)
    <3>1. j \in TaskIds \ E
      BY <1>3, <1>17, <2>1
    <3>2. /\ task[j] # NoTask /\ task[j].repeats /\ task'[i].repeats
          /\ task'[i].title = task[j].title /\ task'[i].course = task[j].course
          /\ task'[i].weight = task[j].weight
      BY <1>5, <1>7, <1>12, <1>15, <1>18
    <3>3. task'[i] # NoTask
      BY <1>7, <1>12, NoTaskNone
    <3> QED BY <1>0, <1>12, <3>1, <3>2, <3>3, LoadRepeated
  <2> QED BY <1>0, <2>1 DEF TaskLighter
<1>19. TaskKnows(q)'
  <2>1. q.id \in 0 .. last'
    BY <1>0, <1>3, <1>9, <1>12, <1>11
  <2> QED BY <1>3, <1>9, <2>1 DEF TaskKnows
<1>20. ASSUME TaskAlone  PROVE TaskMeans(q)'
  <2>1. task'[j] # NoTask
    BY <1>3, <1>12, <1>13, <1>15, <1>20
  <2> QED BY <1>9, <2>1 DEF TaskMeans, TaskRoom
<1>21. ~Adds(q) /\ ~Adds(going[r])
  BY <1>1, <1>3, <1>9 DEF Adds
<1>22. TaskAlone =>
         /\ \A s \in TaskRequests : s # r => going[s].id \notin D
         /\ q.id = 0 \/ q.id = going[r].id
         /\ ~Adds(going[r]) => component' = component /\ TaskLighter(D)
  BY <1>0, <1>1, <1>2, <1>3, <1>9, <1>12, <1>17, <1>18
<1> QED BY <1>0, <1>3, <1>9, <1>10, <1>12, <1>14, <1>16, <1>17, <1>19, <1>20, <1>21, <1>22,
           TaskGoesOn

LEMMA TaskReviews ==
  ASSUME TasksInv, NEW r \in TaskRequests, InsertReviews(r)
  PROVE  TasksInv'
<1>0. /\ last \in Nat /\ component \in [Courses -> Nat] /\ task \in TaskTable
      /\ UNCHANGED <<last, component, split, today, serial>>
  BY TaskFacts DEF InsertReviews
<1>1. PICK p \in TaskShape : p = going[r]
  BY TaskRuns
<1>2. PICK i : i = p.id
  OBVIOUS
<1>3. /\ p.pc = "insertReviews" /\ i \in TaskIds /\ i \in 0 .. last
      /\ p.op = "update" /\ p.field = "none"
      /\ serial => \A s \in TaskRequests : s # r => going[s] = NoRequest
      /\ TaskAlone => TaskMeans(p) /\ \A s \in TaskRequests : s # r => going[s].id # i
  <2>1. p.pc = "insertReviews"
    BY <1>1 DEF InsertReviews, At
  <2>2. i # 0 /\ i \in 0 .. last /\ p.op = "update" /\ p.field = "none"
    BY <1>1, <1>2, <2>1, TaskRuns DEF TaskKnows
  <2> QED BY <1>1, <1>2, <2>1, <2>2, TaskRuns
<1>4. /\ EndRequest(r)
      /\ task' = IF task[i] = NoTask THEN task ELSE [task EXCEPT ![i].reviews = @ + Reviews]
  BY <1>1, <1>2 DEF InsertReviews
<1>5. CASE task[i] = NoTask
  <2>1. going[r].pc # "idle"
    BY <1>1, <1>3
  <2> QED BY <1>0, <1>4, <1>5, <2>1, TaskEnds
<1>6. CASE task[i] # NoTask
  <2>1. PICK t \in Task : t = task[i]
    BY <1>0, <1>3, <1>6, TableFields
  <2>2. PICK n \in Nat : n = t.reviews + Reviews
    BY <2>1, TaskFields, TaskConstants
  <2>3. PICK row : row = [t EXCEPT !.reviews = n]
    OBVIOUS
  <2>4. /\ row \in Task /\ row.title = t.title /\ row.course = t.course /\ row.weight = t.weight
        /\ row.repeats = t.repeats /\ row.auto = t.auto /\ row.date = t.date
        /\ row.stamped = t.stamped /\ row.done = t.done /\ row.reviews = n
    BY <2>3 DEF Task
  <2>5. task' = [task EXCEPT ![i] = row]
    BY <1>4, <1>6, <2>1, <2>2, <2>3
  <2>6. /\ task'[i] = row /\ \A j \in TaskIds : j # i => task'[j] = task[j]
    BY <1>0, <1>3, <2>5 DEF TaskTable
  <2>7. TaskTypes' /\ last <= last'
    <3>1. row \in Task \cup {NoTask}
      BY <2>4
    <3>2. task' \in TaskTable
      BY <1>0, <2>5, <3>1 DEF TaskTable
    <3>3. last <= last'
      BY <1>0
    <3> QED BY <1>0, <3>2, <3>3 DEF TaskTypes, TasksInv, TaskTyped, TaskTable
  <2>8. TaskStays(i)
    <3>1. /\ t.auto => t.repeats
          /\ TaskAlone => t.stamped = t.done
      BY <1>3, <1>6, <2>1 DEF Live, TasksInv, TaskTyped, TaskRows
    <3>2. TaskAlone => n <= Reviews
      <4>1. TaskAlone => t.reviews = 0
        BY <1>2, <1>3, <2>1 DEF TaskMeans
      <4> QED BY <2>2, <4>1, TaskConstants
    <3>3. i <= last'
      BY <1>0, <1>3
    <3> QED BY <2>4, <2>6, <3>1, <3>2, <3>3 DEF TaskStays
  <2>9. TaskNewOnce(i)
    BY <1>6, <2>1, <2>4, <2>6 DEF TaskNewOnce
  <2>10. TaskLighter({i})
    <3>1. t.weight <= t.weight
      BY TaskFields
    <3>2. ASSUME NEW c \in Courses, ~split'[c]
          PROVE  /\ ~split[c]
                 /\ \/ row = NoTask \/ row.course # c \/ row.weight = 0
                    \/ /\ task[i] # NoTask /\ t.course = c /\ row.weight <= t.weight
                       /\ ~t.repeats \/ (row.repeats /\ row.title = t.title)
      BY <1>0, <1>6, <2>4, <3>1, <3>2
    <3> QED BY <1>3, <2>1, <2>6, <2>7, <3>2, TaskLightens
  <2>11. PICK q \in TaskShape : q = NoRequest
    BY NoTaskRequest
  <2>12. q.id = 0 /\ ~Adds(q) /\ TaskKnows(q)' /\ TaskMeans(q)'
    <3>1. q.id = 0 /\ ~Adds(q) /\ q.pc = "idle"
      BY <2>11, NoTaskRequest
    <3>2. 0 \in 0 .. last'
      BY <1>0
    <3>3. TaskKnows(q)'
      BY <2>11, <3>1, <3>2 DEF TaskKnows
    <3> QED BY <3>1, <3>3 DEF TaskMeans, TaskRoom
  <2>13. going' = [going EXCEPT ![r] = q] /\ ~Adds(going[r])
    BY <1>1, <1>3, <1>4, <2>11 DEF EndRequest, Adds
  <2>14. PICK D \in SUBSET TaskIds : D = {i}
    BY <1>3
  <2>15. TaskLighter(D) /\ (TaskAlone => \A s \in TaskRequests : s # r => going[s].id \notin D)
    BY <1>3, <2>10, <2>14
  <2> QED BY <1>0, <1>3, <2>7, <2>8, <2>9, <2>12, <2>13, <2>14, <2>15, TaskGoesOn
<1> QED BY <1>5, <1>6

LEMMA TasksInvInit ==
  ASSUME TasksInit  PROVE TasksInv
<1>1. /\ task = [i \in TaskIds |-> NoTask] /\ last = 0 /\ Live = {}
      /\ component = [c \in Courses |-> 0] /\ split = [c \in Courses |-> FALSE]
      /\ \A r \in TaskRequests : going[r] = NoRequest
      /\ going = [r \in TaskRequests |-> NoRequest] /\ serial \in BOOLEAN /\ today = 0
  BY DEF TasksInit, Live
<1>2. TaskTypes
  BY <1>1, TaskConstants DEF TaskTypes
<1>3. TaskTyped
  BY <1>1, <1>2, NoTaskRequest DEF TaskTyped
<1>4. TaskApart
  BY <1>1, NoTaskRequest DEF TaskApart
<1>5. TaskMeaning
  <2>1. ASSUME NEW r \in TaskRequests  PROVE TaskMeans(going[r])
    <3>1. going[r].id = 0 /\ going[r].pc = "idle"
      BY <1>1, NoTaskRequest
    <3> QED BY <3>1 DEF TaskMeans, TaskRoom
  <2> QED BY <2>1 DEF TaskMeaning
<1>6. TaskBudget
  <2> SUFFICES ASSUME NEW c \in Courses  PROVE component[c] + Load(task, c, {}) <= Most
    BY DEF TaskBudget
  <2>1. component[c] = 0 /\ task \in TaskTable /\ \A i \in TaskIds : task[i] = NoTask
    BY <1>1 DEF TaskTable
  <2>2. Load(task, c, {}) = 0
    BY <2>1, LoadNothing
  <2> QED BY <2>1, <2>2, TaskConstants
<1> QED BY <1>1, <1>3, <1>4, <1>5, <1>6 DEF TasksInv, TaskRows, TaskSpawnedOnce

LEMMA TasksInvStep ==
  ASSUME TasksInv, [TasksNext]_tasks  PROVE TasksInv'
<1>1. ASSUME NEW r \in TaskRequests,
             \/ CreateTask(r) \/ Import(r) \/ Insert(r) \/ WeighComponent(r) \/ SaveComponent(r)
             \/ UpdateTask(r) \/ ConfirmOverdue(r) \/ Write(r)
             \/ LookForNext(r) \/ InsertNext(r) \/ CountReviews(r) \/ InsertReviews(r)
             \/ FollowUpsFail(r)
      PROVE  TasksInv'
  BY <1>1, TaskAdds, TaskInserts, TaskComponents, TaskUpdates, TaskWrites, TaskLooks, TaskSpawns,
     TaskReviews
<1>2. ASSUME NEW i \in Live,
             \/ \E t \in Titles, done \in BOOLEAN : FromSubtask(i, t, done)
             \/ \E done \in BOOLEAN : BulkStatus(i, done)
             \/ \E d \in 0 .. LastDay : BulkReschedule(i, d)
             \/ RemoveTask(i) \/ RemoveReview(i)
      PROVE  TasksInv'
  BY <1>2, TaskFromSubtask, TaskStatements
<1>3. CASE \E c \in Courses : DropComponent(c)
  BY <1>3, TaskComponents
<1>4. CASE NextDay \/ UNCHANGED tasks
  <2>1. UNCHANGED <<task, last, component, split, going, serial>> /\ today' \in 0 .. LastDay
    <3>1. today \in 0 .. LastDay
      BY DEF TasksInv, TaskTyped, TaskTypes
    <3>2. CASE NextDay
      BY <3>1, <3>2, TaskConstants DEF NextDay
    <3>3. CASE UNCHANGED tasks
      BY <3>1, <3>3 DEF tasks
    <3> QED BY <1>4, <3>2, <3>3
  <2>2. TaskTyped'
    BY <2>1 DEF TasksInv, TaskTyped, TaskTypes, TaskKnows, Live
  <2>3. TaskApart' /\ TaskRows' /\ TaskSpawnedOnce'
    BY <2>1 DEF TasksInv, TaskApart, TaskRows, TaskSpawnedOnce, TaskAlone, Adds, Live
  <2>4. TaskMeaning'
    BY <2>1 DEF TasksInv, TaskMeaning, TaskMeans, TaskRoom, TaskAlone, HasNext, Live
  <2>5. TaskBudget'
    BY <2>1 DEF TasksInv, TaskBudget, TaskAlone
  <2> QED BY <2>2, <2>3, <2>4, <2>5 DEF TasksInv
<1> QED BY <1>1, <1>2, <1>3, <1>4 DEF TasksNext

\* The inductive invariant of the tasks of a student.
THEOREM TasksAlways == TasksSpec => []TasksInv
BY TasksInvInit, TasksInvStep, PTL DEF TasksSpec

\* The rows of the tasks keep their shape, and ids are given in order, whatever
\* overlaps.
THEOREM TasksTyped == TasksSpec => []TaskTypes
<1>1. TasksInv => TaskTypes
  BY DEF TasksInv, TaskTyped
<1> QED BY <1>1, TasksAlways, PTL

\* completedAt is set on the completed tasks and on no others, by whichever of
\* create, importTasks, createFromSubtask, update, confirmOverdue and
\* bulkUpdateStatus they got their state, when no two requests overlap that are for
\* one task or both add weight (TaskAlone).
THEOREM StampedAlways == TasksSpec => [](TaskAlone => StampedWhenDone)
<1>1. TasksInv => (TaskAlone => StampedWhenDone)
  BY DEF TasksInv, TaskRows, StampedWhenDone
<1> QED BY <1>1, TasksAlways, PTL

\* Under the same condition, completing a task again spawns neither its reviews
\* again nor, when requests do not overlap at all, an occurrence of its series for a
\* day that has one already (spawnFollowUps).
THEOREM FollowUpsOnceAlways == TasksSpec => [](TaskAlone => FollowUpsOnce)
<1>1. TasksInv => (TaskAlone => FollowUpsOnce)
  BY DEF TasksInv, TaskRows, TaskSpawnedOnce, FollowUpsOnce
<1> QED BY <1>1, TasksAlways, PTL

\* The tasks above the tolerance and the grade components of a course weigh at
\* most 100% and the tolerance in all, whichever occurrence of each series is
\* graded, if no occurrence left its series and no two requests overlap that are for
\* one task or both add weight (assertWeightFits, importTasks).
THEOREM WeightFitsAlways == TasksSpec => [](TaskAlone => WeightFits)
<1>1. ASSUME TasksInv, TaskAlone  PROVE WeightFits
  <2>1. ASSUME NEW c \in Courses, ~split[c], NEW S \in Graded(c)
        PROVE  Weight(c, S \cap Weighty) <= Full + Epsilon
    <3>1. task \in TaskTable /\ component \in [Courses -> Nat]
      BY <1>1, TaskFacts
    <3>2. component[c] + Load(task, c, {}) <= Most
      BY <1>1, <2>1 DEF TasksInv, TaskBudget
    <3> QED BY <2>1, <3>1, <3>2, LoadBoundsGraded
  <2> QED BY <2>1 DEF WeightFits
<1>2. TasksInv => (TaskAlone => WeightFits)
  BY <1>1
<1> QED BY <1>2, TasksAlways, PTL
=============================================================================
