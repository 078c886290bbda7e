---------------------------- MODULE StudySessions ----------------------------
(***************************************************************************)
(* Focus sessions of ONE user (StudySessionsService; every query filters   *)
(* by userId, so users do not meet).  The table has no constraint that     *)
(* keeps sessions apart: the service reads, decides and writes in separate *)
(* statements, and requests of several tabs interleave at every await.     *)
(* A step is one statement with the synchronous code after it, except that *)
(* the deletion of the cached heatmap is a step of its own.  What a tab    *)
(* knows (the focus block it planned) is in `plan`, read by the requests   *)
(* it sends and by the properties, never by the server.                    *)
(***************************************************************************)
EXTENDS Integers, FiniteSets

CONSTANTS
  Ids,              \* ids of rows of StudySession
  Requests,         \* requests in flight
  None,
  Stale,            \* STALE_SESSION_THRESHOLD_MS
  MaxPlanned,       \* MAX_PLANNED_FOCUS_MS
  MaxSession,       \* MAX_SESSION_MS
  MaxBackdate,      \* MAX_BACKDATE_DAYS
  FutureTolerance,  \* FUTURE_TOLERANCE_MS
  HeatmapTtl,       \* HEATMAP_CACHE_TTL_MS
  MaxDistractions,  \* MAX_DISTRACTIONS_PER_SESSION
  MaxTime           \* bound of the exploration

ASSUME StudyAssumption ==
  /\ {Stale, MaxPlanned, MaxSession, HeatmapTtl} \subseteq Nat \ {0}
  /\ {MaxBackdate, FutureTolerance, MaxDistractions, MaxTime} \subseteq Nat
  /\ None \notin Nat

VARIABLES
  calm,             \* whether one request follows the other, in this behaviour
  now,
  session,          \* [Ids -> StudySession or None]
  heatmap,          \* heatmapCache: None or what was computed and when
  req               \* requests in flight

vars == <<calm, now, session, heatmap, req>>

NatOrNone == Nat \cup {None}

\* closedBy tells who wrote `endedAt` last; the properties read it, and plan.
StudySession ==
  [start : Nat, end : NatOrNone, heart : NatOrNone, distractions : 0 .. MaxDistractions,
   plan : NatOrNone, closedBy : {"nobody", "user", "contactLost"}]

ASSUME NoneAssumption == None \notin Ids \cup StudySession

Window == Ids \X Nat \X Nat
Pc == {"idle", "closeStale", "forget", "findActive", "create", "insert",
       "checkOverlap", "update", "stop", "beat", "cacheHeatmap"}
Request == [pc : Pc, id : Ids \cup {None}, start : Nat, end : Nat,
            seen : StudySession \cup {None}, grid : SUBSET Window,
            then : {"idle", "findActive"}]
Idle == [pc |-> "idle", id |-> None, start |-> 0, end |-> 0, seen |-> None,
         grid |-> {}, then |-> "idle"]

TypeOK ==
  /\ now \in Nat
  /\ session \in [Ids -> StudySession \cup {None}]
  /\ heatmap \in [at : Nat, grid : SUBSET Window] \cup {None}
  /\ req \in [Requests -> Request]
  /\ \A q \in Requests : req[q].pc = "closeStale" => req[q].seen \in StudySession
  /\ \A q \in Requests :
       req[q].pc \in {"closeStale", "beat", "stop", "checkOverlap", "update"}
         => req[q].id \in Ids

Init ==
  /\ calm \in BOOLEAN
  /\ now = 0
  /\ session = [i \in Ids |-> None]
  /\ heatmap = None
  /\ req = [q \in Requests |-> Idle]

-----------------------------------------------------------------------------
(* What the statements see.                                                *)

Rows == {i \in Ids : session[i] # None}
Active == {i \in Rows : session[i].end = None}
Finished == {i \in Rows : session[i].end # None}
NewIds == {i \in Ids \ Rows : \A q \in Requests : req[q].id # i}  \* never reused
Grid == {<<i, session[i].start, session[i].end>> : i \in Finished}

Earliest(a, b) == IF a <= b THEN a ELSE b

ClampToMaxSession(start, end) == Earliest(end, start + MaxSession)

\* The block a heartbeat announces: ignored before the start, never beyond
\* the longest one that can be planned.
ClampPlannedEnd(start, plan) ==
  IF plan = None \/ plan <= start THEN None
  ELSE Earliest(plan, start + MaxPlanned)

ValidWindowOfAnyLength(start, end) ==                       \* a mutant
  end > start /\ end <= now + FutureTolerance /\ start >= now - MaxBackdate
ValidWindow(start, end) ==
  /\ end > start
  /\ end <= now + FutureTolerance
  /\ end - start <= MaxSession
  /\ start >= now - MaxBackdate

LastSeen(s) == IF s.heart = None THEN s.start ELSE s.heart

IsStale(s, plannedEnd) ==
  /\ now - LastSeen(s) >= Stale
  /\ plannedEnd # None => now - plannedEnd >= Stale

ClashesWithFinished(start, end, ignored) ==                 \* a mutant
  \E i \in Finished \ {ignored} :
    session[i].start < end /\ session[i].end > start
Clashes(start, end, ignored) ==
  \E i \in Rows \ {ignored} :
    session[i].start < end /\ (session[i].end = None \/ session[i].end > start)

Goto(q, pc) == req' = [req EXCEPT ![q] = [@ EXCEPT !.pc = pc]]
Finish(q) == req' = [req EXCEPT ![q] = Idle]

\* The row that an `update` addresses by id alone may be gone: it throws.
Overwrite(q, new) ==
  IF session[req[q].id] = None
  THEN /\ Finish(q)
       /\ UNCHANGED session
  ELSE /\ session' = [session EXCEPT ![req[q].id] = new]
       /\ Goto(q, "forget")

\* heatmapCache.delete, once the statement before it returned.
Forget(q) ==
  /\ req[q].pc = "forget"
  /\ heatmap' = None
  /\ req' = [req EXCEPT ![q] =
               IF req[q].then = "idle" THEN Idle
               ELSE [@ EXCEPT !.pc = req[q].then, !.then = "idle"]]
  /\ UNCHANGED <<now, session>>

-----------------------------------------------------------------------------
(* start, getActive and heartbeat, which close a forgotten session.        *)

\* autoCloseIfStale: findFirst takes any of the active sessions.  `then` is
\* what the caller does next; getActive ends with a read, so it is over.
AutoClose(q, then) ==
  /\ req[q].pc = "idle"
  /\ \E i \in Active :
       /\ IsStale(session[i], None)
       /\ req' = [req EXCEPT ![q] = [Idle EXCEPT !.pc = "closeStale", !.id = i,
                                     !.seen = session[i], !.then = then]]
  /\ UNCHANGED <<now, session, heatmap>>

BeginStart(q) ==
  \/ AutoClose(q, "findActive")
  \/ /\ req[q].pc = "idle"
     /\ Active = {} \/ \E i \in Active : ~IsStale(session[i], None)
     /\ req' = [req EXCEPT ![q] = [Idle EXCEPT !.pc = "findActive"]]
     /\ UNCHANGED <<now, session, heatmap>>

GetActive(q) == AutoClose(q, "idle")

EndWhenNoticed(s) == now                                    \* a mutant
EndWhenLost(s) == ClampToMaxSession(s.start, LastSeen(s))

\* closeStale: an update by id, with the end computed from what was read.
CloseStale(q) ==
  LET seen == req[q].seen IN
  /\ req[q].pc = "closeStale"
  /\ Overwrite(q, [session[req[q].id] EXCEPT !.end = EndWhenLost(seen),
                                             !.closedBy = "contactLost"])
  /\ UNCHANGED <<now, heatmap>>

FindNothing(q) ==                                           \* a mutant
  /\ req[q].pc = "findActive"
  /\ Goto(q, "create")
  /\ UNCHANGED <<now, session, heatmap>>
FindActive(q) ==
  /\ req[q].pc = "findActive"
  /\ IF Active = {} THEN Goto(q, "create") ELSE Finish(q)   \* 409
  /\ UNCHANGED <<now, session, heatmap>>

\* The row starts with a first heartbeat; the tab may have planned a block.
Create(q) ==
  /\ req[q].pc = "create"
  /\ \E i \in NewIds, p \in {None} \cup {now + d : d \in 1 .. MaxPlanned} :
       session' = [session EXCEPT ![i] =
         [start |-> now, end |-> None, heart |-> now, distractions |-> 0,
          plan |-> p, closedBy |-> "nobody"]]
  /\ Finish(q)
  /\ UNCHANGED <<now, heatmap>>

\* A tab that knows the planned block says so; another device cannot.
BeginHeartbeat(q) ==
  /\ req[q].pc = "idle"
  /\ \E i \in Active : \E p \in {None, session[i].plan} :
       req' = [req EXCEPT ![q] =
         IF IsStale(session[i], ClampPlannedEnd(session[i].start, p))
         THEN [Idle EXCEPT !.pc = "closeStale", !.id = i, !.seen = session[i]]
         ELSE [Idle EXCEPT !.pc = "beat", !.id = i]]
  /\ UNCHANGED <<now, session, heatmap>>

BeatAnyway(q) ==                                            \* a mutant
  LET i == req[q].id IN
  /\ req[q].pc = "beat"
  /\ session' = IF i \in Rows THEN [session EXCEPT ![i].heart = now] ELSE session
  /\ Finish(q)
  /\ UNCHANGED <<now, heatmap>>
Beat(q) ==
  LET i == req[q].id IN
  /\ req[q].pc = "beat"
  /\ session' = IF i \in Active THEN [session EXCEPT ![i].heart = now] ELSE session
  /\ Finish(q)
  /\ UNCHANGED <<now, heatmap>>

RecordDistractionAtLimit ==                                 \* a mutant
  /\ \E i \in Active :
       /\ session[i].distractions <= MaxDistractions
       /\ session' = [session EXCEPT ![i].distractions = @ + 1]
  /\ UNCHANGED <<now, heatmap, req>>
\* One atomic conditional increment; the read that follows changes nothing.
RecordDistraction ==
  /\ \E i \in Active :
       /\ session[i].distractions < MaxDistractions
       /\ session' = [session EXCEPT ![i].distractions = @ + 1]
  /\ UNCHANGED <<now, heatmap, req>>

-----------------------------------------------------------------------------
(* stop, createManual, update, remove.                                     *)

BeginStop(q) ==
  /\ req[q].pc = "idle"
  /\ \E i \in Active, said \in 0 .. now + FutureTolerance :
       LET end == ClampToMaxSession(session[i].start, said) IN
       /\ ValidWindow(session[i].start, end)
       /\ req' = [req EXCEPT ![q] = [Idle EXCEPT !.pc = "stop", !.id = i,
                                                 !.end = end]]
  /\ UNCHANGED <<now, session, heatmap>>

Stop(q) ==
  /\ req[q].pc = "stop"
  /\ Overwrite(q, [session[req[q].id] EXCEPT !.end = req[q].end,
                                             !.closedBy = "user"])
  /\ UNCHANGED <<now, heatmap>>

BeginManual(q) ==
  /\ req[q].pc = "idle"
  /\ \E start, end \in 0 .. now + FutureTolerance :
       /\ ValidWindow(start, end)
       /\ ~Clashes(start, end, None)
       /\ req' = [req EXCEPT ![q] = [Idle EXCEPT !.pc = "insert",
                                       !.start = start, !.end = end]]
  /\ UNCHANGED <<now, session, heatmap>>

InsertManual(q) ==
  /\ req[q].pc = "insert"
  /\ \E i \in NewIds :
       session' = [session EXCEPT ![i] =
         [start |-> req[q].start, end |-> req[q].end, heart |-> None,
          distractions |-> 0, plan |-> None, closedBy |-> "user"]]
  /\ Goto(q, "forget")
  /\ UNCHANGED <<now, heatmap>>

BeginUpdate(q) ==
  /\ req[q].pc = "idle"
  /\ \E i \in Finished, start, end \in 0 .. now + FutureTolerance :
       /\ ValidWindow(start, end)
       /\ req' = [req EXCEPT ![q] = [Idle EXCEPT !.pc = "checkOverlap", !.id = i,
                                       !.start = start, !.end = end]]
  /\ UNCHANGED <<now, session, heatmap>>

CheckOverlap(q) ==
  /\ req[q].pc = "checkOverlap"
  /\ IF Clashes(req[q].start, req[q].end, req[q].id)
     THEN Finish(q) ELSE Goto(q, "update")
  /\ UNCHANGED <<now, session, heatmap>>

Update(q) ==
  /\ req[q].pc = "update"
  /\ Overwrite(q, [session[req[q].id] EXCEPT !.start = req[q].start,
                                             !.end = req[q].end,
                                             !.closedBy = "user"])
  /\ UNCHANGED <<now, heatmap>>

Remove(q) ==
  /\ req[q].pc = "idle"
  /\ \E i \in Finished : session' = [session EXCEPT ![i] = None]
  /\ req' = [req EXCEPT ![q] = [Idle EXCEPT !.pc = "forget"]]
  /\ UNCHANGED <<now, heatmap>>

-----------------------------------------------------------------------------
(* getHeatmap: a miss reads the finished sessions and caches the grid.     *)

Expired == heatmap # None => now - heatmap.at >= HeatmapTtl

BeginHeatmap(q) ==
  /\ req[q].pc = "idle"
  /\ Expired
  /\ req' = [req EXCEPT ![q] = [Idle EXCEPT !.pc = "cacheHeatmap", !.grid = Grid]]
  /\ UNCHANGED <<now, session, heatmap>>

CacheHeatmap(q) ==
  /\ req[q].pc = "cacheHeatmap"
  /\ heatmap' = [at |-> now, grid |-> req[q].grid]
  /\ Finish(q)
  /\ UNCHANGED <<now, session>>

-----------------------------------------------------------------------------

Tick ==
  /\ now < MaxTime
  /\ now' = now + 1
  /\ UNCHANGED <<session, heatmap, req>>

Restart ==
  /\ heatmap' = None
  /\ req' = [q \in Requests |-> Idle]
  /\ UNCHANGED <<now, session>>

Step ==
  \/ \E q \in Requests :
       \/ BeginStart(q) \/ GetActive(q) \/ BeginHeartbeat(q) \/ BeginStop(q)
       \/ BeginManual(q) \/ BeginUpdate(q) \/ Remove(q) \/ BeginHeatmap(q)
       \/ CloseStale(q) \/ FindActive(q) \/ Create(q) \/ Beat(q) \/ Stop(q)
       \/ InsertManual(q) \/ CheckOverlap(q) \/ Update(q) \/ CacheHeatmap(q)
       \/ Forget(q)
  \/ RecordDistraction \/ Tick \/ Restart

\* Requests that follow one another, as those of one tab do: at most one of
\* them is under way.
OneByOne == \A p, q \in Requests : req[p] # Idle /\ req[q] # Idle => p = q

Next == Step /\ UNCHANGED calm /\ (calm => OneByOne')
Spec == Init /\ [][Next]_vars

-----------------------------------------------------------------------------
(* Properties.                                                             *)

\* "So uma sessao ativa de cada vez por utilizador".
OneActive == Cardinality(Active) <= 1

\* Two sessions share no more time than the tolerance granted to clocks:
\* the totals, the heatmap and the predictions count no minute twice.
End(i) == IF session[i].end = None THEN now ELSE session[i].end
NoOverlap ==
  \A i, j \in Rows : i # j =>
    \/ End(i) - session[j].start <= FutureTolerance
    \/ End(j) - session[i].start <= FutureTolerance

\* Whatever wrote it (stop, edit, manual entry, lost contact), a finished
\* session is an interval of the past, of at most MaxSession.
WindowsSound ==
  \A i \in Finished :
    /\ session[i].start <= session[i].end
    /\ session[i].end <= now + FutureTolerance
    /\ session[i].end - session[i].start <= MaxSession

\* "para a proxima visita a pagina Focus ja refletir a sessao que acabou de
\* terminar": a cached grid is the current one, once deletions are done.
HeatmapFresh ==
  heatmap # None => \/ heatmap.grid = Grid
                    \/ \E q \in Requests : req[q].pc = "forget"

\* What holds of requests that follow one another (of others: section 6 of the
\* README).
NoOverlapWhenCalm == calm => NoOverlap
SoundWhenCalm == calm => WindowsSound /\ HeatmapFresh

\* No request brings a closed session back to life or counts it as alive:
\* its heartbeat and its distractions are final.
ClosedStaysClosed ==
  [][\A i \in Finished :
       session'[i] # None => /\ session'[i].end # None
                             /\ session'[i].heart = session[i].heart
                             /\ session'[i].distractions = session[i].distractions]_vars

\* A session closed for lack of contact is credited with no more time than
\* it was known to run, also when a heartbeat or a stop raced the closing.
NoGhostHours ==
  \A i \in Rows : session[i].closedBy = "contactLost" =>
    session[i].end <= LastSeen(session[i])

\* "nunca toca numa sessao ... nem reanima uma ja fechada": no request that
\* only means "still here" changes the end of a session already stopped.
EndIsTheUsers ==
  [][\A i \in Finished :
       session'[i] # None /\ session[i].closedBy = "user"
         => session'[i].closedBy = "user"]_vars

\* "a session the user is still timing must not be closed at the moment the
\* phone locked": lost contact closes nothing inside its planned block.
PlannedBlockSurvives ==
  [][\A i \in Active :
       session'[i] # None /\ session'[i].closedBy = "contactLost"
         => IsStale(session[i], ClampPlannedEnd(session[i].start, session[i].plan))]_vars
=============================================================================
