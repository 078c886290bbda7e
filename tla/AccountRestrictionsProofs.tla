---------------------- MODULE AccountRestrictionsProofs ----------------------
(***************************************************************************)
(* What holds of suspensions, bans and appeals for every number of users   *)
(* and handlers and every length of the cooldown.  The cache theorem rests *)
(* on a fact about the handlers under way: when the requests about an      *)
(* account do not overlap, the one that has still to write the cache is    *)
(* the only one, and what it will write is what the row says already.      *)
(* The theorem about the pace of appeals rests on what a handler has       *)
(* checked on its way to the insertion, for the row of its account.        *)
(***************************************************************************)
EXTENDS AccountRestrictions, FiniteSetTheorems, TLAPS

USE RestrictionsAssumption

\* What a handler carries while it runs, at time t and with these appeals.
Sound(q, t, filed) ==
  /\ q.kind \in Kinds
  /\ q.appeal \in 0 .. Len(filed)
  /\ q.at <= t
  /\ q.kind = "suspend" => q.until # NoEnd
  /\ q.kind = "resolve" => /\ q.appeal \in DOMAIN filed
                           /\ q.user = filed[q.appeal].user
HandlersSound == \A r \in Requests : reqs[r] # None => Sound(reqs[r], now, appeals)

\* One handler of an account at a time; the one about to write the cache
\* writes what the row says.
OneAtATime ==
  calm => \A r, s \in Requests :
    reqs[r] # None /\ reqs[s] # None /\ reqs[r].user = reqs[s].user => r = s
EffectAgrees ==
  calm => \A r \in Requests :
    At(r, "effect") => InfoOf(reqs[r]) = RestrictionIn(row, reqs[r].user)
CacheFollows ==
  calm => \A u \in Users :
    cache[u] = RestrictionIn(row, u) \/ \E r \in Requests : At(r, "effect") /\ reqs[r].user = u

\* and the login about to lift a suspension lifts the one in the row.
LoginSound(q, rows) ==
  q.kind = "login" => /\ q.pc = "check" => q.seen = rows[q.user]
                      /\ q.pc = "write" => Expired(rows[q.user], q.at)
LoginsCurrent == calm => \A r \in Requests : reqs[r] # None => LoginSound(reqs[r], row)

RestrictionsInv ==
  /\ TypeOK /\ HandlersSound /\ OneAtATime /\ EffectAgrees /\ CacheFollows
  /\ LoginsCurrent

-----------------------------------------------------------------------------
(* Types.                                                                  *)

LEMMA TypeFacts ==
  ASSUME TypeOK
  PROVE  /\ now \in Time /\ row \in [Users -> Row] /\ appeals \in Seq(Appeal)
         /\ cache \in [Users -> BlockInfo \cup {None}]
         /\ reqs \in [Requests -> Request \cup {None}]
         /\ \A r \in Requests : reqs[r] # None => reqs[r] \in Request
  BY DEF TypeOK

LEMMA TypeFromParts ==
  ASSUME TypeOK, calm' = calm, now' \in Time, row' \in [Users -> Row], appeals' \in Seq(Appeal),
         cache' \in [Users -> BlockInfo \cup {None}], reqs' \in [Requests -> Request \cup {None}],
         HandlersSound'
  PROVE  TypeOK'
  BY DEF TypeOK, HandlersSound, Sound

LEMMA TimeType == Time \subseteq Nat /\ Time \subseteq Ends /\ NoEnd \in Ends /\ NoEnd \notin Time
  BY DEF Time, Ends, NoEnd

LEMMA ActiveType == ASSUME NEW t \in Time PROVE Active(t) \in Row
  BY DEF Active, Row, Statuses, Ends, Timed

LEMMA RestrictionType ==
  ASSUME NEW x \in Row, x.status # "ACTIVE"
  PROVE  [status |-> x.status, until |-> x.until] \in BlockInfo
<1>1. x.status \in {"SUSPENDED", "BANNED"} /\ x.until \in Ends /\ Timed(x) BY DEF Row, Statuses
<1>2. Timed([status |-> x.status, until |-> x.until]) BY <1>1 DEF Timed
<1> QED BY <1>1, <1>2 DEF BlockInfo

LEMMA TargetType ==
  ASSUME NEW q \in Request, q.kind = "suspend" => q.until # NoEnd
  PROVE  Target(q) \in Row
<1>1. q.at \in Time /\ q.until \in Ends BY DEF Request
<1>2. CASE q.kind = "suspend"
  <2>1. Target(q) = [status |-> "SUSPENDED", until |-> q.until, since |-> q.at] BY <1>2 DEF Target
  <2> QED BY <1>1, <1>2, <2>1 DEF Row, Timed, Statuses
<1>3. CASE q.kind = "ban"
  <2>1. Target(q) = [status |-> "BANNED", until |-> NoEnd, since |-> q.at] BY <1>3 DEF Target
  <2> QED BY <1>1, <2>1, TimeType DEF Row, Timed, Statuses
<1>4. CASE q.kind \notin {"suspend", "ban"}
  <2>1. Target(q) = Active(q.at) BY <1>4 DEF Target
  <2> QED BY <1>1, <2>1, ActiveType
<1> QED BY <1>2, <1>3, <1>4

LEMMA InfoType ==
  ASSUME NEW q \in Request, q.kind = "suspend" => q.until # NoEnd
  PROVE  InfoOf(q) \in BlockInfo \cup {None}
<1>1. CASE q.kind \in {"suspend", "ban"}
  <2>1. Target(q) \in Row /\ Target(q).status # "ACTIVE" BY <1>1, TargetType DEF Target
  <2> QED BY <1>1, <2>1, RestrictionType DEF InfoOf
<1>2. CASE q.kind \notin {"suspend", "ban"} BY <1>2 DEF InfoOf
<1> QED BY <1>1, <1>2

LEMMA StepType ==
  ASSUME NEW q \in Request, NEW pc \in Pcs
  PROVE  [q EXCEPT !.pc = pc] \in Request
  BY DEF Request

LEMMA StepAtType ==
  ASSUME NEW q \in Request, NEW pc \in Pcs, NEW t \in Time
  PROVE  [q EXCEPT !.pc = pc, !.at = t] \in Request
  BY DEF Request

\* The cache that a start of the server loads.
LEMMA LoadedType ==
  ASSUME row \in [Users -> Row], NEW u \in Users
  PROVE  RestrictionIn(row, u) \in BlockInfo \cup {None}
<1>1. row[u] \in Row OBVIOUS
<1> QED BY <1>1, RestrictionType DEF RestrictionIn

-----------------------------------------------------------------------------
(* The steps.                                                              *)

\* Appeals are only added to, and keep their users.
Extended(filed, more) ==
  /\ Len(filed) <= Len(more)
  /\ \A i \in DOMAIN filed : i \in DOMAIN more /\ more[i].user = filed[i].user

LEMMA SoundStays ==
  ASSUME NEW filed \in Seq(Appeal), NEW more \in Seq(Appeal), Extended(filed, more),
         NEW t \in Time, NEW later \in Time, t <= later,
         NEW q \in Request, Sound(q, t, filed)
  PROVE  Sound(q, later, more)
<1>0. q.at \in Time BY DEF Request
<1>1. q.at \in Int BY <1>0 DEF Time
<1>2. t \in Int /\ later \in Int BY TimeType
<1>3. q.at <= later BY <1>1, <1>2 DEF Sound
<1>4. q.appeal \in 0 .. Len(more) BY DEF Sound, Extended
<1> QED BY <1>3, <1>4 DEF Sound, Extended

\* A handler whose next write is not that of the cache left the cache current.
LEMMA CacheWas ==
  ASSUME RestrictionsInv, NEW r \in Requests, reqs[r] # None, reqs[r].pc # "effect",
         calm
  PROVE  cache[reqs[r].user] = RestrictionIn(row, reqs[r].user)
<1>1. reqs[r].user \in Users BY TypeFacts DEF RestrictionsInv, Request
<1>2. SUFFICES ASSUME NEW s \in Requests, At(s, "effect"), reqs[s].user = reqs[r].user
               PROVE  FALSE
    BY <1>1 DEF RestrictionsInv, CacheFollows
<1>3. s = r BY <1>2 DEF RestrictionsInv, OneAtATime, At
<1> QED BY <1>2, <1>3 DEF At

\* What q, the handler of u after the step, leaves to the invariant.
LeavesCurrent(q, u) ==
  calm => /\ q # None => LoginSound(q, row')
          /\ \/ cache'[u] = RestrictionIn(row', u)
             \/ q # None /\ q.pc = "effect"

\* One handler goes on or ends, and touches its own account only.
LEMMA HandlerStep ==
  ASSUME RestrictionsInv, NEW r \in Requests, reqs[r] # None,
         NEW q, q = None \/ /\ q \in Request /\ Sound(q, now', appeals')
                            /\ q.user = reqs[r].user,
         reqs' = [reqs EXCEPT ![r] = q],
         calm' = calm, now' = now, appeals' \in Seq(Appeal), Extended(appeals, appeals'),
         row' \in [Users -> Row], cache' \in [Users -> BlockInfo \cup {None}],
         \A u \in Users \ {reqs[r].user} : row'[u] = row[u] /\ cache'[u] = cache[u],
         q # None /\ q.pc = "effect" => InfoOf(q) = RestrictionIn(row', reqs[r].user),
         LeavesCurrent(q, reqs[r].user)
  PROVE  RestrictionsInv'
<1>1. /\ now \in Time /\ appeals \in Seq(Appeal) /\ reqs \in [Requests -> Request \cup {None}]
      /\ \A s \in Requests : reqs[s] # None => reqs[s] \in Request
    BY TypeFacts DEF RestrictionsInv
<1>2. reqs'[r] = q /\ \A s \in Requests : s # r => reqs'[s] = reqs[s] BY <1>1
<1>3. reqs' \in [Requests -> Request \cup {None}] BY <1>1
<1>4. reqs[r].user \in Users BY <1>1 DEF Request
<1>5. HandlersSound'
  <2>1. now <= now' BY <1>1, TimeType
  <2> SUFFICES ASSUME NEW s \in Requests, reqs'[s] # None
               PROVE  Sound(reqs'[s], now', appeals')
      BY DEF HandlersSound
  <2>2. CASE s = r BY <1>2, <2>2
  <2>3. CASE s # r
    <3>1. reqs[s] # None /\ reqs'[s] = reqs[s] BY <1>2, <2>3
    <3>2. reqs[s] \in Request /\ Sound(reqs[s], now, appeals)
        BY <3>1, <1>1 DEF RestrictionsInv, HandlersSound
    <3> QED BY <3>1, <3>2, <1>1, <2>1, SoundStays
  <2> QED BY <2>2, <2>3
<1>6. TypeOK' BY <1>1, <1>3, <1>5, TypeFromParts DEF RestrictionsInv
<1>7. \A s \in Requests : reqs'[s] # None => reqs[s] # None /\ reqs'[s].user = reqs[s].user
    BY <1>2
<1>8. OneAtATime' BY <1>7 DEF RestrictionsInv, OneAtATime
<1>9. EffectAgrees'
  <2> SUFFICES ASSUME calm, NEW s \in Requests, reqs'[s] # None, reqs'[s].pc = "effect"
               PROVE  InfoOf(reqs'[s]) = RestrictionIn(row', reqs'[s].user)
      BY DEF EffectAgrees, At
  <2>1. CASE s = r BY <1>2, <2>1
  <2>2. CASE s # r
    <3>1. reqs'[s] = reqs[s] /\ reqs[s] # None BY <1>2, <2>2
    <3>2. reqs[s].user # reqs[r].user BY <2>2, <3>1 DEF RestrictionsInv, OneAtATime
    <3>3. reqs[s].user \in Users BY <3>1, <1>1 DEF Request
    <3>4. row'[reqs[s].user] = row[reqs[s].user] BY <3>2, <3>3
    <3>5. InfoOf(reqs[s]) = RestrictionIn(row, reqs[s].user)
        BY <3>1 DEF RestrictionsInv, EffectAgrees, At
    <3> QED BY <3>1, <3>4, <3>5 DEF RestrictionIn
  <2> QED BY <2>1, <2>2
<1>10. CacheFollows'
  <2> SUFFICES ASSUME calm, NEW u \in Users
               PROVE  \/ cache'[u] = RestrictionIn(row', u)
                      \/ \E s \in Requests : At(s, "effect")' /\ reqs'[s].user = u
      BY DEF CacheFollows
  <2>1. CASE u = reqs[r].user BY <2>1, <1>2 DEF At, LeavesCurrent
  <2>2. CASE u # reqs[r].user
    <3>1. cache'[u] = cache[u] /\ row'[u] = row[u] BY <2>2
    <3>2. CASE cache[u] = RestrictionIn(row, u) BY <3>1, <3>2 DEF RestrictionIn
    <3>3. CASE \E s \in Requests : At(s, "effect") /\ reqs[s].user = u
      <4>1. PICK s \in Requests : At(s, "effect") /\ reqs[s].user = u BY <3>3
      <4>2. s # r BY <4>1, <2>2
      <4>3. reqs'[s] = reqs[s] BY <4>2, <1>2
      <4> QED BY <4>1, <4>3 DEF At
    <3> QED BY <3>2, <3>3 DEF RestrictionsInv, CacheFollows
  <2> QED BY <2>1, <2>2
<1>11. LoginsCurrent'
  <2> SUFFICES ASSUME calm, NEW s \in Requests, reqs'[s] # None
               PROVE  LoginSound(reqs'[s], row')
      BY DEF LoginsCurrent
  <2>1. CASE s = r BY <1>2, <2>1 DEF LeavesCurrent
  <2>2. CASE s # r
    <3>1. reqs'[s] = reqs[s] /\ reqs[s] # None BY <1>2, <2>2
    <3>2. reqs[s].user # reqs[r].user BY <2>2, <3>1 DEF RestrictionsInv, OneAtATime
    <3>3. reqs[s].user \in Users BY <3>1, <1>1 DEF Request
    <3>4. row'[reqs[s].user] = row[reqs[s].user] BY <3>2, <3>3
    <3>5. LoginSound(reqs[s], row) BY <3>1 DEF RestrictionsInv, LoginsCurrent
    <3> QED BY <3>1, <3>4, <3>5 DEF LoginSound
  <2> QED BY <2>1, <2>2
<1> QED BY <1>5, <1>6, <1>8, <1>9, <1>10, <1>11 DEF RestrictionsInv

\* A handler begins, of an account without one unless they may overlap.
LEMMA BeginStep ==
  ASSUME RestrictionsInv, NEW r \in Requests, NEW u \in Users,
         NEW kind \in AllKinds, NEW pc \in Pcs \ {"effect"}, NEW until \in Ends,
         NEW i \in 0 .. Len(appeals), NEW approve \in BOOLEAN,
         Begin(r, kind, u, pc, until, i, approve),
         kind = "suspend" => until # NoEnd, kind = "login" => pc = "check",
         kind = "resolve" => i \in DOMAIN appeals /\ u = appeals[i].user
  PROVE  RestrictionsInv'
<1> DEFINE q == [kind |-> kind, user |-> u, pc |-> pc, at |-> now, until |-> until,
                 seen |-> row[u], appeal |-> i, approve |-> approve]
<1>1. /\ now \in Time /\ appeals \in Seq(Appeal) /\ reqs \in [Requests -> Request \cup {None}]
      /\ row \in [Users -> Row] /\ cache \in [Users -> BlockInfo \cup {None}]
      /\ \A s \in Requests : reqs[s] # None => reqs[s] \in Request
    BY TypeFacts DEF RestrictionsInv
<1>2. /\ reqs' = [reqs EXCEPT ![r] = q] /\ reqs[r] = None /\ kind \in Kinds
      /\ calm => ~Busy(u)
      /\ calm' = calm /\ now' = now /\ row' = row /\ cache' = cache /\ appeals' = appeals
    BY DEF Begin
<1>3. q \in Request
  <2>1. i \in Nat BY <1>1
  <2>2. row[u] \in Row BY <1>1
  <2> QED BY <1>1, <2>1, <2>2 DEF Request
<1>4. Sound(q, now, appeals)
  <2>1. now <= now BY <1>1, TimeType
  <2> QED BY <1>2, <2>1 DEF Sound
<1>5. q.user = u /\ q.pc # "effect" /\ LoginSound(q, row) BY DEF LoginSound
<1> HIDE DEF q
<1>6. reqs'[r] = q /\ \A s \in Requests : s # r => reqs'[s] = reqs[s] BY <1>1, <1>2
<1>7. reqs' \in [Requests -> Request \cup {None}] BY <1>1, <1>2, <1>3
<1>8. HandlersSound'
  <2> SUFFICES ASSUME NEW s \in Requests, reqs'[s] # None
               PROVE  Sound(reqs'[s], now, appeals)
      BY <1>2 DEF HandlersSound
  <2> QED BY <1>4, <1>6 DEF RestrictionsInv, HandlersSound
<1>9. TypeOK' BY <1>1, <1>2, <1>7, <1>8, TypeFromParts DEF RestrictionsInv
<1>10. OneAtATime'
  <2> SUFFICES ASSUME calm, NEW s \in Requests, NEW t \in Requests,
                      reqs'[s] # None, reqs'[t] # None, reqs'[s].user = reqs'[t].user
               PROVE  s = t
      BY <1>2 DEF OneAtATime
  <2>1. \A p \in Requests : p # r /\ reqs'[p] # None => reqs'[p].user # u
      BY <1>2, <1>6 DEF Busy
  <2>2. CASE s = r \/ t = r BY <2>1, <2>2, <1>5, <1>6
  <2>3. CASE s # r /\ t # r BY <2>3, <1>6 DEF RestrictionsInv, OneAtATime
  <2> QED BY <2>2, <2>3
<1>11. \A s \in Requests : At(s, "effect")' => s # r /\ At(s, "effect") /\ reqs'[s] = reqs[s]
    BY <1>5, <1>6 DEF At
<1>12. EffectAgrees' BY <1>2, <1>11 DEF RestrictionsInv, EffectAgrees
<1>13. \A s \in Requests : At(s, "effect") => At(s, "effect")' /\ reqs'[s] = reqs[s]
    BY <1>2, <1>6 DEF At
<1>14. CacheFollows' BY <1>2, <1>13 DEF RestrictionsInv, CacheFollows
<1>15. LoginsCurrent'
  <2> SUFFICES ASSUME calm, NEW s \in Requests, reqs'[s] # None
               PROVE  LoginSound(reqs'[s], row)
      BY <1>2 DEF LoginsCurrent
  <2> QED BY <1>5, <1>6 DEF RestrictionsInv, LoginsCurrent
<1> QED BY <1>8, <1>9, <1>10, <1>12, <1>14, <1>15 DEF RestrictionsInv

\* A step of handler r that leaves the row and the cache alone.
LEMMA QuietStep ==
  ASSUME RestrictionsInv, NEW r \in Requests, reqs[r] # None, reqs[r].pc # "effect",
         NEW q, q = None \/ /\ q \in Request /\ Sound(q, now', appeals')
                            /\ q.user = reqs[r].user /\ q.pc # "effect"
                            /\ calm => LoginSound(q, row),
         reqs' = [reqs EXCEPT ![r] = q],
         calm' = calm, now' = now, row' = row, cache' = cache,
         appeals' \in Seq(Appeal), Extended(appeals, appeals')
  PROVE  RestrictionsInv'
<1>1. row \in [Users -> Row] /\ cache \in [Users -> BlockInfo \cup {None}]
    BY TypeFacts DEF RestrictionsInv
<1>2. calm => cache'[reqs[r].user] = RestrictionIn(row', reqs[r].user)
    BY CacheWas
<1>3. LeavesCurrent(q, reqs[r].user) BY <1>2 DEF LeavesCurrent
<1> QED BY <1>1, <1>3, HandlerStep

LEMMA SameAppeals ==
  ASSUME RestrictionsInv, appeals' = appeals
  PROVE  appeals' \in Seq(Appeal) /\ Extended(appeals, appeals')
  BY TypeFacts DEF RestrictionsInv, Extended

LEMMA HandlerFacts ==
  ASSUME RestrictionsInv, NEW r \in Requests, reqs[r] # None
  PROVE  /\ reqs[r] \in Request /\ Sound(reqs[r], now, appeals)
         /\ reqs[r].user \in Users
  BY TypeFacts DEF RestrictionsInv, HandlersSound, Request

\* A handler ends, or goes on to another query.
LEMMA DoneQuietly ==
  ASSUME RestrictionsInv, NEW r \in Requests, reqs[r] # None, reqs[r].pc # "effect",
         Done(r), UNCHANGED <<calm, now, row, cache, appeals>>
  PROVE  RestrictionsInv'
  BY SameAppeals, QuietStep DEF Done

LEMMA GoesOn ==
  ASSUME RestrictionsInv, NEW r \in Requests, reqs[r] # None, reqs[r].pc # "effect",
         NEW pc \in {"quota", "insert"}, Step(r, pc), UNCHANGED <<calm, now, row, cache, appeals>>
  PROVE  RestrictionsInv'
<1> DEFINE q == [reqs[r] EXCEPT !.pc = pc]
<1>1. reqs[r] \in Request /\ Sound(reqs[r], now, appeals) BY HandlerFacts
<1>0. pc \in Pcs /\ pc \notin {"effect", "check", "write"} BY DEF Pcs
<1>2. q \in Request /\ q.user = reqs[r].user /\ q.pc = pc BY <1>0, <1>1, StepType DEF Request
<1>3. q.kind = reqs[r].kind /\ q.at = reqs[r].at /\ q.until = reqs[r].until /\ q.appeal = reqs[r].appeal
    BY <1>1 DEF Request
<1>4. Sound(q, now, appeals) BY <1>1, <1>2, <1>3 DEF Sound
<1>5. reqs' = [reqs EXCEPT ![r] = q] BY DEF Step
<1> HIDE DEF q
<1>6. LoginSound(q, row) BY <1>0, <1>2 DEF LoginSound
<1> QED BY <1>0, <1>2, <1>4, <1>5, <1>6, SameAppeals, QuietStep

\* A handler writes the row of its account, and goes on to the cache with
\* what it wrote there.
LEMMA CommitStep ==
  ASSUME RestrictionsInv, NEW r \in Requests, At(r, "write"), NEW x \in Row,
         row' = [row EXCEPT ![reqs[r].user] = x], Committed(r),
         InfoOf(reqs[r]) = IF x.status = "ACTIVE" THEN None
                           ELSE [status |-> x.status, until |-> x.until],
         calm' = calm, now' = now, cache' = cache, appeals' \in Seq(Appeal), Extended(appeals, appeals')
  PROVE  RestrictionsInv'
<1> DEFINE q == [reqs[r] EXCEPT !.pc = "effect"]
<1>0. reqs[r] # None /\ reqs[r].pc = "write" BY DEF At
<1>1. reqs[r] \in Request /\ Sound(reqs[r], now, appeals) /\ reqs[r].user \in Users
    BY <1>0, HandlerFacts
<1>2. /\ row \in [Users -> Row] /\ cache \in [Users -> BlockInfo \cup {None}]
      /\ appeals \in Seq(Appeal) /\ now \in Time
    BY TypeFacts DEF RestrictionsInv
<1>3. row' \in [Users -> Row] /\ row'[reqs[r].user] = x
      /\ \A u \in Users \ {reqs[r].user} : row'[u] = row[u] /\ cache'[u] = cache[u]
    BY <1>1, <1>2
<1>4. RestrictionIn(row', reqs[r].user) = InfoOf(reqs[r]) BY <1>3 DEF RestrictionIn
<1>5. CASE Step(r, "effect")
  <2>1. q \in Request /\ q.user = reqs[r].user /\ q.pc = "effect"
      BY <1>1, StepType DEF Request, Pcs
  <2>2. /\ q.kind = reqs[r].kind /\ q.at = reqs[r].at /\ q.until = reqs[r].until
        /\ q.appeal = reqs[r].appeal
      BY <1>1 DEF Request
  <2>3. Sound(q, now, appeals) BY <1>1, <2>1, <2>2 DEF Sound
  <2>4. now <= now BY <1>2, TimeType
  <2>5. Sound(q, now', appeals') BY <1>2, <2>1, <2>3, <2>4, SoundStays
  <2>6. InfoOf(q) = InfoOf(reqs[r])
    <3>1. Target(q).status = Target(reqs[r]).status /\ Target(q).until = Target(reqs[r]).until
        BY <2>2 DEF Target, Active
    <3> QED BY <2>2, <3>1 DEF InfoOf
  <2>7. reqs' = [reqs EXCEPT ![r] = q] BY <1>5 DEF Step
  <2>8. q # None BY <2>1
  <2> HIDE DEF q
  <2>9. LeavesCurrent(q, reqs[r].user) BY <2>1, <2>8 DEF LoginSound, LeavesCurrent
  <2> QED BY <1>0, <1>2, <1>3, <1>4, <2>1, <2>5, <2>6, <2>7, <2>8, <2>9, HandlerStep
<1>6. CASE ~calm /\ Done(r)
  <2>1. reqs' = [reqs EXCEPT ![r] = None] BY <1>6 DEF Done
  <2>2. LeavesCurrent(None, reqs[r].user) BY <1>6 DEF LeavesCurrent
  <2> QED BY <1>0, <1>2, <1>3, <2>1, <2>2, HandlerStep
<1> QED BY <1>5, <1>6 DEF Committed

-----------------------------------------------------------------------------
(* The inductive invariant.                                                *)

LEMMA InitRestrictions == Init => RestrictionsInv
<1> SUFFICES ASSUME Init PROVE RestrictionsInv OBVIOUS
<1>1. 0 \in Time BY DEF Time
<1>2. Active(0) \in Row BY <1>1, ActiveType
<1>3. TypeOK BY <1>1, <1>2 DEF Init, TypeOK
<1>4. \A u \in Users : RestrictionIn(row, u) = None BY DEF Init, RestrictionIn, Active
<1>5. CacheFollows BY <1>4 DEF Init, CacheFollows
<1>6. HandlersSound /\ OneAtATime /\ EffectAgrees /\ LoginsCurrent
    BY DEF Init, HandlersSound, OneAtATime, EffectAgrees, LoginsCurrent, At
<1> QED BY <1>3, <1>5, <1>6 DEF RestrictionsInv

\* The requests that begin.
LEMMA BeginsKeep ==
  ASSUME RestrictionsInv, NEW r \in Requests, NEW u \in Users,
         \/ SuspendUser(r, u) \/ BanUser(r, u) \/ ReactivateUser(r, u)
         \/ Visit(r, u) \/ Login(r, u) \/ FileAppeal(r, u)
  PROVE  RestrictionsInv'
<1>1. appeals \in Seq(Appeal) /\ 0 \in 0 .. Len(appeals) BY TypeFacts DEF RestrictionsInv
<1>2. {"write", "check", "pending"} \subseteq Pcs \ {"effect"} BY DEF Pcs
<1>3. NoEnd \in Ends /\ FALSE \in BOOLEAN BY TimeType
<1>4. {"suspend", "ban", "reactivate", "expire", "login", "appeal"} \subseteq AllKinds BY DEF AllKinds
<1>5. CASE SuspendUser(r, u)
  <2>1. PICK until \in Time : Begin(r, "suspend", u, "write", until, 0, FALSE)
      BY <1>5 DEF SuspendUser
  <2>2. until \in Ends /\ until # NoEnd BY TimeType
  <2> QED BY <1>1, <1>2, <1>4, <2>1, <2>2, BeginStep
<1>6. CASE BanUser(r, u) BY <1>1, <1>2, <1>3, <1>4, <1>6, BeginStep DEF BanUser
<1>7. CASE ReactivateUser(r, u) BY <1>1, <1>2, <1>3, <1>4, <1>7, BeginStep DEF ReactivateUser
<1>8. CASE Visit(r, u) BY <1>1, <1>2, <1>3, <1>4, <1>8, BeginStep DEF Visit
<1>9. CASE Login(r, u) BY <1>1, <1>2, <1>3, <1>4, <1>9, BeginStep DEF Login
<1>10. CASE FileAppeal(r, u) BY <1>1, <1>2, <1>3, <1>4, <1>10, BeginStep DEF FileAppeal
<1> QED BY <1>5, <1>6, <1>7, <1>8, <1>9, <1>10

LEMMA BeginResolveKeeps ==
  ASSUME RestrictionsInv, NEW r \in Requests, NEW i \in DOMAIN appeals, BeginResolve(r, i)
  PROVE  RestrictionsInv'
<1>1. appeals \in Seq(Appeal) BY TypeFacts DEF RestrictionsInv
<1>2. appeals[i] \in Appeal /\ i \in 0 .. Len(appeals) BY <1>1
<1>3. appeals[i].user \in Users BY <1>2 DEF Appeal
<1>4. PICK approve \in BOOLEAN :
         Begin(r, "resolve", appeals[i].user, "write", NoEnd, i, approve)
    BY DEF BeginResolve
<1>5. "write" \in Pcs \ {"effect"} /\ "resolve" \in AllKinds /\ NoEnd \in Ends
    BY TimeType DEF Pcs, AllKinds
<1> QED BY <1>2, <1>3, <1>4, <1>5, BeginStep

LEMMA AssertKeeps ==
  ASSUME RestrictionsInv, NEW r \in Requests, AssertAccountIsUsable(r)
  PROVE  RestrictionsInv'
<1>1. /\ reqs[r] # None /\ reqs[r].pc = "check"
      /\ calm' = calm /\ now' = now /\ row' = row /\ cache' = cache /\ appeals' = appeals
    BY DEF AssertAccountIsUsable, At
<1>2. reqs[r] \in Request /\ Sound(reqs[r], now, appeals) BY <1>1, HandlerFacts
<1>3. CASE Expired(reqs[r].seen, now)
  <2> DEFINE q == [reqs[r] EXCEPT !.pc = "write", !.at = now]
  <2>1. now \in Time /\ now <= now
    <3>1. now \in Time BY TypeFacts DEF RestrictionsInv
    <3> QED BY <3>1 DEF Time
  <2>2. q \in Request BY <1>2, <2>1, StepAtType DEF Pcs
  <2>3. /\ q.user = reqs[r].user /\ q.pc = "write" /\ q.at = now /\ q.kind = reqs[r].kind
        /\ q.until = reqs[r].until /\ q.appeal = reqs[r].appeal
      BY <1>2 DEF Request
  <2>4. Sound(q, now, appeals) BY <1>2, <2>1, <2>3 DEF Sound
  <2>5. reqs' = [reqs EXCEPT ![r] = q] BY <1>3 DEF AssertAccountIsUsable
  <2> HIDE DEF q
  <2>6. calm => LoginSound(q, row)
    <3>1. calm => LoginSound(reqs[r], row) BY <1>1 DEF RestrictionsInv, LoginsCurrent
    <3> QED BY <1>1, <1>3, <2>3, <3>1 DEF LoginSound
  <2> QED BY <1>1, <2>2, <2>3, <2>4, <2>5, <2>6, SameAppeals, QuietStep
<1>4. CASE ~Expired(reqs[r].seen, now)
    BY <1>1, <1>4, DoneQuietly DEF AssertAccountIsUsable
<1> QED BY <1>3, <1>4

LEMMA WriteStatusKeeps ==
  ASSUME RestrictionsInv, NEW r \in Requests, WriteStatus(r)
  PROVE  RestrictionsInv'
<1>1. reqs[r] # None BY DEF WriteStatus, At
<1>2. reqs[r] \in Request /\ Sound(reqs[r], now, appeals) BY <1>1, HandlerFacts
<1>3. Target(reqs[r]) \in Row BY <1>2, TargetType DEF Sound
<1>4. InfoOf(reqs[r]) = IF Target(reqs[r]).status = "ACTIVE" THEN None
                        ELSE [status |-> Target(reqs[r]).status, until |-> Target(reqs[r]).until]
  <2>1. reqs[r].kind \in {"suspend", "ban"} <=> Target(reqs[r]).status # "ACTIVE"
      BY DEF Target, Active
  <2> QED BY <2>1 DEF InfoOf
<1> QED BY <1>3, <1>4, SameAppeals, CommitStep DEF WriteStatus

\* A kind that clears the cache writes an active row.
LEMMA ActiveCommit ==
  ASSUME RestrictionsInv, NEW r \in Requests, At(r, "write"),
         reqs[r].kind \notin {"suspend", "ban"}, NEW t \in Time,
         row' = [row EXCEPT ![reqs[r].user] = Active(t)], Committed(r),
         calm' = calm, now' = now, cache' = cache, appeals' \in Seq(Appeal), Extended(appeals, appeals')
  PROVE  RestrictionsInv'
<1>1. Active(t) \in Row BY ActiveType
<1>2. InfoOf(reqs[r]) = IF Active(t).status = "ACTIVE" THEN None
                        ELSE [status |-> Active(t).status, until |-> Active(t).until]
    BY DEF InfoOf, Active
<1> QED BY <1>1, <1>2, CommitStep

LEMMA ReactivateKeeps ==
  ASSUME RestrictionsInv, NEW r \in Requests, ReactivateIfExpired(r)
  PROVE  RestrictionsInv'
<1>1. At(r, "write") /\ reqs[r] # None /\ reqs[r].pc = "write" /\ reqs[r].kind = "expire"
    BY DEF ReactivateIfExpired, At
<1>2. calm' = calm /\ now' = now /\ cache' = cache /\ appeals' = appeals BY DEF ReactivateIfExpired
<1>3. CASE Expired(row[reqs[r].user], reqs[r].at)
  <2>1. reqs[r].at \in Time BY <1>1, HandlerFacts DEF Request
  <2> QED BY <1>1, <1>2, <1>3, <2>1, SameAppeals, ActiveCommit DEF ReactivateIfExpired
<1>4. CASE ~Expired(row[reqs[r].user], reqs[r].at)
    BY <1>1, <1>2, <1>4, DoneQuietly DEF ReactivateIfExpired
<1> QED BY <1>3, <1>4

LEMMA UpdateCacheKeeps ==
  ASSUME RestrictionsInv, NEW r \in Requests, UpdateCache(r)
  PROVE  RestrictionsInv'
<1>1. At(r, "effect") /\ reqs[r] # None BY DEF UpdateCache, At
<1>2. reqs[r] \in Request /\ Sound(reqs[r], now, appeals) /\ reqs[r].user \in Users
    BY <1>1, HandlerFacts
<1>3. row \in [Users -> Row] /\ cache \in [Users -> BlockInfo \cup {None}]
    BY TypeFacts DEF RestrictionsInv
<1>4. InfoOf(reqs[r]) \in BlockInfo \cup {None} BY <1>2, InfoType DEF Sound
<1>5. /\ cache' = [cache EXCEPT ![reqs[r].user] = InfoOf(reqs[r])]
      /\ reqs' = [reqs EXCEPT ![r] = None]
      /\ calm' = calm /\ now' = now /\ row' = row /\ appeals' = appeals
    BY DEF UpdateCache, Done
<1>6. cache' \in [Users -> BlockInfo \cup {None}] BY <1>3, <1>4, <1>5
<1>7. calm => cache'[reqs[r].user] = RestrictionIn(row', reqs[r].user)
    BY <1>1, <1>2, <1>3, <1>5 DEF RestrictionsInv, EffectAgrees
<1>8. \A u \in Users \ {reqs[r].user} : cache'[u] = cache[u] BY <1>3, <1>5
<1>9. appeals' \in Seq(Appeal) /\ Extended(appeals, appeals') BY <1>5, SameAppeals
<1>10. /\ row' \in [Users -> Row]
       /\ \A u \in Users \ {reqs[r].user} : row'[u] = row[u] /\ cache'[u] = cache[u]
    BY <1>3, <1>5, <1>8
<1>11. LeavesCurrent(None, reqs[r].user) BY <1>7 DEF LeavesCurrent
<1> QED BY <1>1, <1>5, <1>6, <1>9, <1>10, <1>11, HandlerStep

LEMMA ChecksKeep ==
  ASSUME RestrictionsInv, NEW r \in Requests, CheckPending(r) \/ CheckAvailability(r)
  PROVE  RestrictionsInv'
<1>1. /\ reqs[r] # None /\ reqs[r].pc # "effect"
      /\ calm' = calm /\ now' = now /\ row' = row /\ cache' = cache /\ appeals' = appeals
    BY DEF CheckPending, CheckAvailability, At
<1>2. Done(r) \/ Step(r, "quota") \/ Step(r, "insert")
    BY DEF CheckPending, CheckAvailability
<1> QED BY <1>1, <1>2, DoneQuietly, GoesOn

LEMMA CreateAppealKeeps ==
  ASSUME RestrictionsInv, NEW r \in Requests, CreateAppeal(r)
  PROVE  RestrictionsInv'
<1> DEFINE a == [user |-> reqs[r].user, at |-> now, resolvedAt |-> NoEnd, approved |-> FALSE]
<1>1. reqs[r] # None /\ reqs[r].pc # "effect" BY DEF CreateAppeal, At
<1>2. reqs[r].user \in Users BY <1>1, HandlerFacts
<1>3. now \in Time /\ appeals \in Seq(Appeal) BY TypeFacts DEF RestrictionsInv
<1>4. a \in Appeal BY <1>2, <1>3, TimeType DEF Appeal
<1>5. appeals' = Append(appeals, a) BY DEF CreateAppeal
<1> HIDE DEF a
<1>6. appeals' \in Seq(Appeal) BY <1>3, <1>4, <1>5
<1>7. Extended(appeals, appeals') BY <1>3, <1>4, <1>5 DEF Extended
<1> QED BY <1>1, <1>6, <1>7, QuietStep DEF CreateAppeal, Done

LEMMA DecidedType ==
  ASSUME RestrictionsInv, NEW r \in Requests, reqs[r] # None, reqs[r].kind = "resolve"
  PROVE  Decided(reqs[r]) \in Seq(Appeal) /\ Extended(appeals, Decided(reqs[r]))
<1> DEFINE i == reqs[r].appeal
           a == [appeals[i] EXCEPT !.resolvedAt = now, !.approved = reqs[r].approve]
<1>1. reqs[r] \in Request /\ Sound(reqs[r], now, appeals) BY HandlerFacts
<1>2. i \in DOMAIN appeals BY <1>1 DEF Sound
<1>3. now \in Time /\ appeals \in Seq(Appeal) BY TypeFacts DEF RestrictionsInv
<1>4. appeals[i] \in Appeal /\ reqs[r].approve \in BOOLEAN BY <1>1, <1>2, <1>3 DEF Request
<1>5. a \in Appeal /\ a.user = appeals[i].user BY <1>3, <1>4, TimeType DEF Appeal
<1>6. Decided(reqs[r]) = [appeals EXCEPT ![i] = a] BY <1>2, <1>3 DEF Decided
<1> HIDE DEF a, i
<1>7. [appeals EXCEPT ![i] = a] \in Seq(Appeal) BY <1>2, <1>3, <1>5
<1>8. Extended(appeals, [appeals EXCEPT ![i] = a]) BY <1>2, <1>3, <1>5 DEF Extended
<1> QED BY <1>6, <1>7, <1>8

LEMMA ResolveKeeps ==
  ASSUME RestrictionsInv, NEW r \in Requests, Resolve(r)
  PROVE  RestrictionsInv'
<1>1. At(r, "write") /\ reqs[r] # None /\ reqs[r].pc = "write" /\ reqs[r].kind = "resolve"
    BY DEF Resolve, At
<1>2. calm' = calm /\ now' = now /\ cache' = cache BY DEF Resolve
<1>3. now \in Time BY TypeFacts DEF RestrictionsInv
<1>4. CASE ~Pending(appeals[reqs[r].appeal]) BY <1>1, <1>2, <1>4, DoneQuietly DEF Resolve
<1>5. CASE Pending(appeals[reqs[r].appeal])
  <2>1. appeals' = Decided(reqs[r]) BY <1>5 DEF Resolve
  <2>2. appeals' \in Seq(Appeal) /\ Extended(appeals, appeals') BY <1>1, <2>1, DecidedType
  <2>3. CASE reqs[r].approve
    <3>1. row' = [row EXCEPT ![reqs[r].user] = Active(now)] /\ Committed(r)
        BY <1>5, <2>3 DEF Resolve
    <3> QED BY <1>1, <1>2, <1>3, <2>2, <3>1, ActiveCommit
  <2>4. CASE ~reqs[r].approve
    <3>1. row' = row /\ reqs' = [reqs EXCEPT ![r] = None] BY <1>5, <2>4 DEF Resolve, Done
    <3> QED BY <1>1, <1>2, <2>2, <3>1, QuietStep
  <2> QED BY <2>3, <2>4
<1> QED BY <1>4, <1>5

LEMMA QueryFailsKeeps ==
  ASSUME RestrictionsInv, NEW r \in Requests, QueryFails(r)
  PROVE  RestrictionsInv'
  BY DoneQuietly DEF QueryFails

LEMMA RestartKeeps ==
  ASSUME RestrictionsInv, Restart
  PROVE  RestrictionsInv'
<1>1. /\ now \in Time /\ row \in [Users -> Row] /\ appeals \in Seq(Appeal)
    BY TypeFacts DEF RestrictionsInv
<1>2. /\ reqs' = [r \in Requests |-> None] /\ cache' = [u \in Users |-> RestrictionIn(row, u)]
      /\ calm' = calm /\ now' = now /\ row' = row /\ appeals' = appeals
    BY DEF Restart
<1>3. cache' \in [Users -> BlockInfo \cup {None}] BY <1>1, <1>2, LoadedType
<1>4. HandlersSound' /\ OneAtATime' /\ EffectAgrees' /\ LoginsCurrent'
    BY <1>2 DEF HandlersSound, OneAtATime, EffectAgrees, LoginsCurrent, At
<1>5. TypeOK' BY <1>1, <1>2, <1>3, <1>4, TypeFromParts DEF RestrictionsInv
<1>6. \A u \in Users : cache'[u] = RestrictionIn(row', u) BY <1>2
<1>7. CacheFollows' BY <1>6 DEF CacheFollows
<1> QED BY <1>4, <1>5, <1>7 DEF RestrictionsInv

LEMMA TickKeeps ==
  ASSUME RestrictionsInv, Tick
  PROVE  RestrictionsInv'
<1>1. /\ now \in Time /\ appeals \in Seq(Appeal)
      /\ \A r \in Requests : reqs[r] # None => reqs[r] \in Request
    BY TypeFacts DEF RestrictionsInv
<1>2. /\ calm' = calm /\ now' \in Time /\ now <= now'
      /\ row' = row /\ cache' = cache /\ appeals' = appeals /\ reqs' = reqs
    BY <1>1 DEF Tick, Time
<1>3. HandlersSound'
  <2>1. Extended(appeals, appeals) BY <1>1 DEF Extended
  <2> QED BY <1>1, <1>2, <2>1, SoundStays DEF RestrictionsInv, HandlersSound
<1>4. TypeOK' BY <1>2, <1>3, TypeFacts, TypeFromParts DEF RestrictionsInv
<1>5. OneAtATime' /\ EffectAgrees' /\ CacheFollows' /\ LoginsCurrent'
    BY <1>2 DEF RestrictionsInv, OneAtATime, EffectAgrees, CacheFollows, LoginsCurrent, At
<1> QED BY <1>3, <1>4, <1>5 DEF RestrictionsInv

LEMMA NextRestrictions == RestrictionsInv /\ [Next]_vars => RestrictionsInv'
<1> SUFFICES ASSUME RestrictionsInv, [Next]_vars PROVE RestrictionsInv' OBVIOUS
<1>1. CASE UNCHANGED vars
    BY <1>1 DEF vars, RestrictionsInv, TypeOK, HandlersSound, OneAtATime, EffectAgrees,
                CacheFollows, LoginsCurrent, At
<1>2. CASE \E r \in Requests, u \in Users :
             SuspendUser(r, u) \/ BanUser(r, u) \/ ReactivateUser(r, u)
               \/ Visit(r, u) \/ Login(r, u) \/ FileAppeal(r, u)
    BY <1>2, BeginsKeep
<1>3. CASE \E r \in Requests :
             \/ AssertAccountIsUsable(r) \/ WriteStatus(r) \/ ReactivateIfExpired(r)
             \/ UpdateCache(r) \/ CheckPending(r) \/ CheckAvailability(r)
             \/ CreateAppeal(r) \/ Resolve(r) \/ QueryFails(r)
    BY <1>3, AssertKeeps, WriteStatusKeeps, ReactivateKeeps, UpdateCacheKeeps, ChecksKeep,
       CreateAppealKeeps, ResolveKeeps, QueryFailsKeeps
<1>4. CASE \E r \in Requests : \E i \in DOMAIN appeals : BeginResolve(r, i)
    BY <1>4, BeginResolveKeeps
<1>5. CASE Restart BY <1>5, RestartKeeps
<1>6. CASE Tick BY <1>6, TickKeeps
<1> QED BY <1>1, <1>2, <1>3, <1>4, <1>5, <1>6 DEF Next

LEMMA RestrictionsAlways == Spec => []RestrictionsInv
  BY InitRestrictions, NextRestrictions, PTL DEF Spec

-----------------------------------------------------------------------------
(* The theorems.                                                           *)

\* Every reachable state is well typed: in particular suspensions, and they
\* alone, have an end, in the rows and in the cache.
THEOREM RestrictionsTypeCorrect == Spec => []TypeOK
<1>1. RestrictionsInv => TypeOK BY DEF RestrictionsInv
<1> QED BY <1>1, RestrictionsAlways, PTL

\* When the requests about an account do not overlap and no answer of the
\* database is lost, the cache that guards every request agrees with the
\* database whenever no handler of the account is under way, through failing
\* queries and restarts at any point.
THEOREM CacheFollowsTheRow == Spec => []CacheCurrent
<1>1. RestrictionsInv => CacheCurrent
  <2> SUFFICES ASSUME RestrictionsInv, calm, NEW u \in Users, ~Busy(u)
               PROVE  cache[u] = RestrictionIn(row, u)
      BY DEF CacheCurrent
  <2> QED BY DEF RestrictionsInv, CacheFollows, Busy, At
<1> QED BY <1>1, RestrictionsAlways, PTL

\* Nothing lifts a restriction before its end but an administrator and a login
\* that overlaps a decision, however the handlers interleave.
THEOREM LiftingIsLawful == Spec => LiftedLawfully
<1> DEFINE Lawfully(u) == \/ Expired(row[u], now)
                          \/ LiftedBy(u, {"reactivate", "resolve"})
                          \/ GuardLifts(u)
           Lawful == \A u \in Users : row[u].status # "ACTIVE" /\ row'[u].status = "ACTIVE"
                       => Lawfully(u)
<1>1. RestrictionsInv /\ [Next]_vars => Lawful
  <2> SUFFICES ASSUME RestrictionsInv, [Next]_vars, NEW u \in Users,
                      row[u].status # "ACTIVE", row'[u].status = "ACTIVE"
               PROVE  Lawfully(u)
      OBVIOUS
  <2>1. row \in [Users -> Row] BY TypeFacts DEF RestrictionsInv
  <2>2. PICK r \in Requests : WriteStatus(r) \/ ReactivateIfExpired(r) \/ Resolve(r)
    <3>1. row' # row OBVIOUS
    <3> QED BY <3>1 DEF Next, vars, SuspendUser, BanUser, ReactivateUser, Visit, Login, FileAppeal,
               Begin, AssertAccountIsUsable, UpdateCache, CheckPending, CheckAvailability,
               CreateAppeal, QueryFails, BeginResolve, Restart, Tick
  <2>3. reqs[r] # None /\ reqs[r].pc = "write"
      BY <2>2 DEF WriteStatus, ReactivateIfExpired, Resolve, At
  <2>4. /\ reqs[r] \in Request /\ Sound(reqs[r], now, appeals)
        /\ reqs \in [Requests -> Request \cup {None}]
      BY <2>3, HandlerFacts, TypeFacts DEF RestrictionsInv
  <2>5. Committed(r) => reqs'[r] # reqs[r]
    <3>1. CASE Step(r, "effect")
      <4>1. reqs'[r] = [reqs[r] EXCEPT !.pc = "effect"] BY <2>4, <3>1 DEF Step
      <4>2. reqs'[r].pc = "effect" BY <2>4, <4>1 DEF Request
      <4> QED BY <2>3, <4>2
    <3>2. CASE Done(r) BY <2>3, <2>4, <3>2 DEF Done
    <3> QED BY <3>1, <3>2 DEF Committed
  <2>6. Expired(row[u], reqs[r].at) => Expired(row[u], now)
    <3>1. reqs[r].at <= now /\ reqs[r].at \in Time /\ now \in Time /\ row[u].until \in Ends
        BY <2>1, <2>4, TypeFacts DEF RestrictionsInv, Sound, Request, Row
    <3> QED BY <3>1 DEF Expired, Time, Ends, NoEnd
  <2>7. CASE WriteStatus(r)
    <3>1. row' = [row EXCEPT ![reqs[r].user] = Target(reqs[r])] /\ Committed(r)
        BY <2>7 DEF WriteStatus
    <3>2. reqs[r].user = u BY <2>1, <3>1
    <3>3. Target(reqs[r]).status = "ACTIVE" BY <2>1, <3>1, <3>2
    <3>4. reqs[r].kind \notin {"suspend", "ban"} BY <3>3 DEF Target
    <3>5. CASE reqs[r].kind = "reactivate" BY <2>3, <2>5, <3>1, <3>2, <3>5 DEF LiftedBy, At
    <3>6. CASE reqs[r].kind = "login" /\ ~calm
        BY <2>3, <2>5, <3>1, <3>2, <3>6 DEF GuardLifts, LiftedBy, At
    <3>7. CASE reqs[r].kind = "login" /\ calm
        BY <2>3, <2>6, <3>2, <3>7 DEF RestrictionsInv, LoginsCurrent, LoginSound
    <3> QED BY <2>7, <3>4, <3>5, <3>6, <3>7 DEF WriteStatus
  <2>8. CASE ReactivateIfExpired(r)
    <3>1. Expired(row[reqs[r].user], reqs[r].at) BY <2>8 DEF ReactivateIfExpired
    <3>2. row' = [row EXCEPT ![reqs[r].user] = Active(reqs[r].at)]
        BY <2>8, <3>1 DEF ReactivateIfExpired
    <3>3. reqs[r].user = u BY <2>1, <3>2
    <3> QED BY <2>6, <3>1, <3>3
  <2>9. CASE Resolve(r)
    <3>1. row' = [row EXCEPT ![reqs[r].user] = Active(now)] /\ Committed(r)
        BY <2>9 DEF Resolve
    <3>2. reqs[r].user = u BY <2>1, <3>1
    <3> QED BY <2>3, <2>5, <2>9, <3>1, <3>2 DEF LiftedBy, At, Resolve
  <2> QED BY <2>2, <2>7, <2>8, <2>9
<1> QED BY <1>1, RestrictionsAlways, PTL DEF Spec, LiftedLawfully

\* An appeal is decided once whatever decisions about it overlap, and no
\* approval is stored without the reactivation of its account.
THEOREM DecisionsAreFinal == Spec => DecisionsStand
<1> DEFINE Stand == \A i \in DOMAIN appeals :
             /\ ~Pending(appeals[i]) => appeals'[i] = appeals[i]
             /\ appeals'[i].approved /\ ~appeals[i].approved
                  => row'[appeals[i].user].status = "ACTIVE"
<1>1. RestrictionsInv /\ [Next]_vars => Stand
  <2> SUFFICES ASSUME RestrictionsInv, [Next]_vars PROVE Stand OBVIOUS
  <2>1. /\ row \in [Users -> Row] /\ appeals \in Seq(Appeal)
        /\ reqs \in [Requests -> Request \cup {None}]
      BY TypeFacts DEF RestrictionsInv
  <2>2. CASE appeals' = appeals BY <2>2
  <2>3. CASE appeals' # appeals
    <3>1. PICK r \in Requests : CreateAppeal(r) \/ Resolve(r)
        BY <2>3 DEF Next, vars, SuspendUser, BanUser, ReactivateUser, Visit, Login, FileAppeal,
               Begin, AssertAccountIsUsable, WriteStatus, ReactivateIfExpired, UpdateCache,
               CheckPending, CheckAvailability, QueryFails, BeginResolve, Restart, Tick
    <3>2. CASE CreateAppeal(r)
      <4>1. \A i \in DOMAIN appeals : appeals'[i] = appeals[i] BY <2>1, <3>2 DEF CreateAppeal
      <4> QED BY <4>1
    <3>3. CASE Resolve(r)
      <4> DEFINE q == reqs[r]
      <4>1. /\ q # None /\ q.pc = "write" /\ q.kind = "resolve"
            /\ Pending(appeals[q.appeal]) /\ appeals' = Decided(q)
          BY <2>3, <3>3 DEF Resolve, At
      <4>2. q \in Request /\ Sound(q, now, appeals) /\ q.user \in Users
          BY <4>1, HandlerFacts
      <4>3. q.appeal \in DOMAIN appeals /\ q.user = appeals[q.appeal].user BY <4>1, <4>2 DEF Sound
      <4>4. \A i \in DOMAIN appeals : i # q.appeal => appeals'[i] = appeals[i]
          BY <2>1, <4>1 DEF Decided
      <4>5. appeals'[q.appeal].approved => q.approve
        <5>1. appeals[q.appeal] \in Appeal BY <2>1, <4>3
        <5>2. appeals'[q.appeal] = [appeals[q.appeal] EXCEPT !.resolvedAt = now, !.approved = q.approve]
            BY <2>1, <4>1, <4>3 DEF Decided
        <5> QED BY <5>1, <5>2 DEF Appeal
      <4>6. q.approve => row' = [row EXCEPT ![q.user] = Active(now)] BY <3>3, <4>1 DEF Resolve
      <4>7. q.approve => row'[q.user].status = "ACTIVE" BY <2>1, <4>2, <4>6 DEF Active
      <4> HIDE DEF q
      <4> QED BY <4>1, <4>3, <4>4, <4>5, <4>7
    <3> QED BY <3>1, <3>2, <3>3
  <2> QED BY <2>2, <2>3
<1> QED BY <1>1, RestrictionsAlways, PTL DEF Spec, DecisionsStand
-----------------------------------------------------------------------------
(* The pace of the appeals of an account, for rows x of account u: what a  *)
(* handler on its way to the insertion has checked still holds when it     *)
(* inserts, and a new restriction begins with at most two appeals.         *)

Of(u, filed) == {i \in DOMAIN filed : filed[i].user = u}
FiledSince(u, since, filed) == {i \in Of(u, filed) : filed[i].at >= since}
Top(S, n) == n \in S /\ \A i \in S : i <= n
AllAnswered(u, filed) == \A i \in Of(u, filed) : ~Pending(filed[i])

AppealsPast(filed, t) ==
  \A i \in DOMAIN filed : /\ filed[i].at <= t
                          /\ ~Pending(filed[i]) => filed[i].at <= filed[i].resolvedAt
RowPast(x, t) == x.since <= t /\ (x.status # "ACTIVE" => TwiceCooldown(x) > 0)

\* The second of three appeals was answered, and the third waited for it.
ThirdWaited(S, x, filed) ==
  \E m, n \in S : /\ Top(S, n) /\ Top(S \ {n}, m) /\ ~Pending(filed[m])
                  /\ CooldownOver(filed[m], x, filed[n].at)
UserPaced(u, x, filed) ==
  LET S == FiledSince(u, x.since, filed) IN
  /\ \A i, j \in Of(u, filed) : Pending(filed[i]) /\ Pending(filed[j]) => i = j
  /\ Cardinality(S) <= 3
  /\ Cardinality(S) = 3 => x.status # "ACTIVE" /\ ThirdWaited(S, x, filed)

MayInsert(S, x, filed, t) ==
  /\ Cardinality(S) < 3
  /\ Cardinality(S) = 2 => \E m \in S : Top(S, m) /\ CooldownOver(filed[m], x, t)
HandlerPaced(q, x, filed, t) ==
  /\ q.kind = "suspend" => q.pc \in {"write", "effect"} /\ q.at < q.until
  /\ q.pc # "effect" => /\ x.since <= q.at
                        /\ \A i \in Of(q.user, filed) : filed[i].at <= q.at
  /\ q.pc \in {"pending", "quota", "insert"} => q.seen = x /\ x.status # "ACTIVE"
  /\ q.pc \in {"quota", "insert"} => AllAnswered(q.user, filed)
  /\ q.pc = "insert" => MayInsert(FiledSince(q.user, x.since, filed), x, filed, t)

PacedInv ==
  calm => /\ AppealsPast(appeals, now)
          /\ \A u \in Users : RowPast(row[u], now) /\ UserPaced(u, row[u], appeals)
          /\ \A r \in Requests : reqs[r] # None =>
               HandlerPaced(reqs[r], row[reqs[r].user], appeals, now)
LEMMA EndsType == Time \subseteq Nat /\ Ends \subseteq Int
  BY DEF Time, Ends, NoEnd

LEMMA FiledType ==
  ASSUME NEW u, NEW since, NEW filed \in Seq(Appeal)
  PROVE  LET S == FiledSince(u, since, filed) IN
         /\ S \subseteq Nat /\ IsFiniteSet(S) /\ Cardinality(S) \in Nat
         /\ \A i \in S : /\ filed[i].at \in Nat /\ filed[i].at >= since
                         /\ filed[i].resolvedAt \in Int
                         /\ i \in DOMAIN filed /\ filed[i].user = u
<1> DEFINE S == FiledSince(u, since, filed)
<1>1. IsFiniteSet(1 .. Len(filed)) BY FS_Interval
<1>2. S \in SUBSET (1 .. Len(filed)) BY DEF FiledSince, Of
<1>3. IsFiniteSet(S) /\ Cardinality(S) \in Nat BY <1>1, <1>2, FS_Subset, FS_CardinalityType
<1>4. ASSUME NEW i \in S
      PROVE  /\ filed[i].at \in Nat /\ filed[i].at >= since /\ filed[i].resolvedAt \in Int
             /\ i \in DOMAIN filed /\ filed[i].user = u
  <2>1. filed[i] \in Appeal BY <1>2, <1>4
  <2>2. filed[i].at \in Time /\ filed[i].resolvedAt \in Ends BY <2>1 DEF Appeal
  <2>3. filed[i].at \in Nat /\ filed[i].resolvedAt \in Int
      BY <2>2, EndsType
  <2> QED BY <1>4, <2>3 DEF FiledSince, Of
<1> QED BY <1>2, <1>3, <1>4

LEMMA TopIsMax ==
  ASSUME NEW S \in SUBSET Nat, NEW n, Top(S, n)
  PROVE  Max(S) = n
<1>1. \A x \in S : (\A y \in S : x >= y) => x = n BY DEF Top
<1>2. n \in S /\ \A y \in S : n >= y BY DEF Top
<1> QED BY <1>1, <1>2 DEF Max

LEMMA TopOfTwo ==
  ASSUME NEW S \in SUBSET Nat, IsFiniteSet(S), Cardinality(S) = 2
  PROVE  \E m \in S : Top(S, m)
<1>0. S # {} BY FS_EmptySet
<1>1. PICK a \in S : TRUE BY <1>0
<1>2. IsFiniteSet(S \ {a}) /\ Cardinality(S \ {a}) = 1
  <2>1. /\ IsFiniteSet(S \ {a})
        /\ Cardinality(S \ {a}) = IF a \in S THEN Cardinality(S) - 1 ELSE Cardinality(S)
      BY FS_RemoveElement
  <2> QED BY <1>1, <2>1
<1>3. PICK b : S \ {a} = {b} BY <1>2, FS_Singleton
<1>4. S = {a, b} BY <1>1, <1>3
<1>7. a \in Nat /\ b \in Nat BY <1>4
<1>5. CASE a <= b BY <1>4, <1>5, <1>7 DEF Top
<1>6. CASE b <= a BY <1>4, <1>6, <1>7 DEF Top
<1> QED BY <1>5, <1>6, <1>7

\* What the appeals of the others do is nothing to an account.
LEMMA SamePaced ==
  ASSUME NEW u, NEW x, NEW filed, NEW more, NEW t \in Time, NEW later \in Time, t <= later,
         x.since \in Int, filed \in Seq(Appeal), TwiceCooldown(x) \in Int,
         Of(u, more) = Of(u, filed), \A i \in Of(u, filed) : more[i] = filed[i]
  PROVE  /\ UserPaced(u, x, filed) => UserPaced(u, x, more)
         /\ \A q : q.user = u /\ HandlerPaced(q, x, filed, t) => HandlerPaced(q, x, more, later)
<1>1. FiledSince(u, x.since, more) = FiledSince(u, x.since, filed) BY DEF FiledSince
<1>2. FiledSince(u, x.since, filed) \subseteq Of(u, filed) BY DEF FiledSince
<1>3. ThirdWaited(FiledSince(u, x.since, filed), x, filed)
        => ThirdWaited(FiledSince(u, x.since, filed), x, more)
    BY <1>2 DEF ThirdWaited
<1>4. MayInsert(FiledSince(u, x.since, filed), x, filed, t)
        => MayInsert(FiledSince(u, x.since, filed), x, more, later)
  <2> DEFINE S == FiledSince(u, x.since, filed)
  <2>1. ASSUME NEW m \in S, CooldownOver(filed[m], x, t) PROVE CooldownOver(more[m], x, later)
    <3>1. more[m] = filed[m] /\ filed[m].resolvedAt \in Int BY <1>2, FiledType
    <3>2. t \in Int /\ later \in Int BY TimeType
    <3> QED BY <2>1, <3>1, <3>2 DEF CooldownOver
  <2> HIDE DEF S
  <2> QED BY <2>1 DEF MayInsert, S
<1>5. AllAnswered(u, filed) => AllAnswered(u, more) BY DEF AllAnswered
<1> QED BY <1>1, <1>3, <1>4, <1>5 DEF UserPaced, HandlerPaced

LEMMA RowFacts ==
  ASSUME NEW x \in Row
  PROVE  x.since \in Nat /\ TwiceCooldown(x) \in Int
<1>1. x.since \in Time /\ x.until \in Ends BY DEF Row
<1>2. x.since \in Nat /\ x.until \in Int BY <1>1, EndsType
<1> QED BY <1>2 DEF TwiceCooldown

\* A row written by a handler that began at s, or that writes it at s, starts
\* a restriction under which fewer than three appeals count already.
LEMMA NewRowPaced ==
  ASSUME NEW u, NEW x \in Row, NEW y, NEW s \in Nat, NEW t, NEW filed \in Seq(Appeal),
         UserPaced(u, x, filed), RowPast(x, t), AppealsPast(filed, t),
         x.since <= s, \A i \in Of(u, filed) : filed[i].at <= s, y.since = s
  PROVE  UserPaced(u, y, filed)
<1> DEFINE S == FiledSince(u, x.since, filed)
           T == FiledSince(u, s, filed)
<1>1. x.since \in Nat /\ TwiceCooldown(x) \in Int BY RowFacts
<1>2. \A i \in Of(u, filed) : filed[i].at \in Nat
  <2>1. \A i \in Of(u, filed) : filed[i] \in Appeal BY DEF Of
  <2> QED BY <2>1, TimeType DEF Appeal
<1>3. /\ IsFiniteSet(S) /\ Cardinality(S) \in Nat /\ Cardinality(T) \in Nat
      /\ \A i \in S : /\ filed[i].at \in Nat /\ filed[i].resolvedAt \in Int
                      /\ i \in DOMAIN filed
    BY FiledType
<1>4. T \in SUBSET S BY <1>1, <1>2 DEF FiledSince
<1>5. Cardinality(T) <= Cardinality(S) /\ (Cardinality(S) = Cardinality(T) => S = T)
    BY <1>3, <1>4, FS_Subset
<1>6. Cardinality(S) <= 3 BY DEF UserPaced
<1>7. Cardinality(T) # 3
  <2> SUFFICES ASSUME Cardinality(T) = 3 PROVE FALSE OBVIOUS
  <2>1. Cardinality(S) = 3 /\ S = T BY <1>3, <1>5, <1>6
  <2>2. x.status # "ACTIVE" /\ ThirdWaited(S, x, filed) BY <2>1 DEF UserPaced
  <2>3. PICK m, n \in S : ~Pending(filed[m]) /\ CooldownOver(filed[m], x, filed[n].at)
      BY <2>2 DEF ThirdWaited
  <2>4. \A i \in T : filed[i].at = s BY <1>2 DEF FiledSince
  <2>5. filed[m].at = s /\ filed[n].at = s BY <2>1, <2>4
  <2>6. filed[m].resolvedAt >= s BY <1>3, <2>3, <2>5 DEF AppealsPast
  <2>7. TwiceCooldown(x) > 0 BY <2>2 DEF RowPast
  <2>8. 2 * s >= 2 * filed[m].resolvedAt + TwiceCooldown(x) BY <2>3, <2>5 DEF CooldownOver
  <2>9. filed[m].resolvedAt \in Int BY <1>3
  <2> QED BY <1>1, <2>6, <2>7, <2>8, <2>9
<1>8. Cardinality(T) <= 3 BY <1>3, <1>5, <1>6
<1> QED BY <1>7, <1>8 DEF UserPaced
\* One handler goes on or ends, and touches its own account only.
LEMMA PacedStep ==
  ASSUME RestrictionsInv, PacedInv, calm, NEW r \in Requests, reqs[r] # None,
         NEW q, q = None \/ q.user = reqs[r].user,
         reqs' = [reqs EXCEPT ![r] = q], calm' = calm, now' = now,
         \A v \in Users \ {reqs[r].user} :
           /\ row'[v] = row[v] /\ Of(v, appeals') = Of(v, appeals)
           /\ \A i \in Of(v, appeals) : appeals'[i] = appeals[i],
         AppealsPast(appeals', now), RowPast(row'[reqs[r].user], now),
         UserPaced(reqs[r].user, row'[reqs[r].user], appeals'),
         q # None => HandlerPaced(q, row'[reqs[r].user], appeals', now)
  PROVE  PacedInv'
<1> DEFINE u == reqs[r].user
<1>1. /\ now \in Time /\ appeals \in Seq(Appeal) /\ reqs \in [Requests -> Request \cup {None}]
      /\ row \in [Users -> Row]
      /\ \A s \in Requests : reqs[s] # None => reqs[s] \in Request
    BY TypeFacts DEF RestrictionsInv
<1>2. /\ \A v \in Users : RowPast(row[v], now) /\ UserPaced(v, row[v], appeals)
      /\ \A s \in Requests : reqs[s] # None =>
           HandlerPaced(reqs[s], row[reqs[s].user], appeals, now)
    BY DEF PacedInv
<1>3. ASSUME NEW v \in Users \ {u}
      PROVE  /\ row'[v] = row[v] /\ UserPaced(v, row[v], appeals')
             /\ \A p : p.user = v /\ HandlerPaced(p, row[v], appeals, now)
                         => HandlerPaced(p, row[v], appeals', now)
  <2>1. row[v].since \in Int /\ TwiceCooldown(row[v]) \in Int BY <1>1, RowFacts
  <2>2. now <= now BY <1>1, TimeType
  <2> QED BY <1>1, <1>2, <2>1, <2>2, SamePaced
<1>4. ASSUME NEW v \in Users PROVE RowPast(row'[v], now) /\ UserPaced(v, row'[v], appeals')
    BY <1>2, <1>3
<1>5. ASSUME NEW s \in Requests, reqs'[s] # None
      PROVE  HandlerPaced(reqs'[s], row'[reqs'[s].user], appeals', now)
  <2>1. CASE s = r BY <1>1, <1>5, <2>1
  <2>2. CASE s # r
    <3>1. reqs'[s] = reqs[s] /\ reqs[s] # None BY <1>1, <1>5, <2>2
    <3>2. reqs[s].user \in Users /\ reqs[s].user # u
        BY <1>1, <2>2, <3>1 DEF RestrictionsInv, OneAtATime, Request
    <3> QED BY <1>2, <1>3, <3>1, <3>2
  <2> QED BY <2>1, <2>2
<1> QED BY <1>4, <1>5 DEF PacedInv

LEMMA PacedFacts ==
  ASSUME RestrictionsInv, PacedInv, calm, NEW r \in Requests, reqs[r] # None
  PROVE  /\ reqs[r].user \in Users /\ reqs[r] \in Request /\ row[reqs[r].user] \in Row
         /\ AppealsPast(appeals, now) /\ RowPast(row[reqs[r].user], now)
         /\ UserPaced(reqs[r].user, row[reqs[r].user], appeals)
         /\ HandlerPaced(reqs[r], row[reqs[r].user], appeals, now)
         /\ reqs[r].at <= now /\ reqs[r].at \in Nat
<1>1. row \in [Users -> Row] BY TypeFacts DEF RestrictionsInv
<1>2. reqs[r].at \in Nat BY HandlerFacts, TimeType DEF Request
<1> QED BY <1>1, <1>2, HandlerFacts DEF PacedInv, Sound

LEMMA QuietPaced ==
  ASSUME RestrictionsInv, PacedInv, calm, NEW r \in Requests, reqs[r] # None,
         NEW q, q = None \/ q.user = reqs[r].user,
         reqs' = [reqs EXCEPT ![r] = q], UNCHANGED <<calm, now, row, appeals>>,
         q # None => HandlerPaced(q, row[reqs[r].user], appeals, now)
  PROVE  PacedInv'
  BY PacedFacts, PacedStep

LEMMA DonePaced ==
  ASSUME RestrictionsInv, PacedInv, calm, NEW r \in Requests, reqs[r] # None, Done(r),
         UNCHANGED <<calm, now, row, appeals>>
  PROVE  PacedInv'
  BY QuietPaced DEF Done

\* A handler begins, of an account without one.
LEMMA BeginPaced ==
  ASSUME RestrictionsInv, PacedInv, calm, NEW r \in Requests, NEW u \in Users,
         NEW kind, NEW pc \in {"write", "check", "pending"}, NEW until, NEW i, NEW approve,
         Begin(r, kind, u, pc, until, i, approve),
         kind = "suspend" => pc = "write" /\ now < until,
         pc = "pending" => row[u].status # "ACTIVE"
  PROVE  PacedInv'
<1> DEFINE q == [kind |-> kind, user |-> u, pc |-> pc, at |-> now, until |-> until,
                 seen |-> row[u], appeal |-> i, approve |-> approve]
<1>1. reqs \in [Requests -> Request \cup {None}] BY TypeFacts DEF RestrictionsInv
<1>2. /\ reqs' = [reqs EXCEPT ![r] = q]
      /\ calm' = calm /\ now' = now /\ row' = row /\ appeals' = appeals
    BY DEF Begin
<1>3. HandlerPaced(q, row[u], appeals, now)
    BY DEF HandlerPaced, PacedInv, RowPast, AppealsPast, Of
<1>4. q.user = u OBVIOUS
<1> HIDE DEF q
<1>5. reqs'[r] = q /\ \A s \in Requests : s # r => reqs'[s] = reqs[s] BY <1>1, <1>2
<1>6. \A s \in Requests : reqs'[s] # None =>
        HandlerPaced(reqs'[s], row[reqs'[s].user], appeals, now)
    BY <1>3, <1>4, <1>5 DEF PacedInv
<1> QED BY <1>2, <1>6 DEF PacedInv

LEMMA BeginsPaced ==
  ASSUME RestrictionsInv, PacedInv, calm, NEW r \in Requests, NEW u \in Users,
         \/ SuspendUser(r, u) \/ BanUser(r, u) \/ ReactivateUser(r, u)
         \/ Visit(r, u) \/ Login(r, u) \/ FileAppeal(r, u)
  PROVE  PacedInv'
<1>1. CASE SuspendUser(r, u)
  <2>1. PICK until \in Time : until > now /\ Begin(r, "suspend", u, "write", until, 0, FALSE)
      BY <1>1 DEF SuspendUser
  <2>2. now \in Nat /\ until \in Nat BY TypeFacts, TimeType DEF RestrictionsInv
  <2>3. now < until BY <2>1, <2>2
  <2> QED BY <2>1, <2>3, BeginPaced
<1>2. CASE BanUser(r, u) BY <1>2, BeginPaced DEF BanUser
<1>3. CASE ReactivateUser(r, u) BY <1>3, BeginPaced DEF ReactivateUser
<1>4. CASE Visit(r, u) BY <1>4, BeginPaced DEF Visit
<1>5. CASE Login(r, u) BY <1>5, BeginPaced DEF Login
<1>6. CASE FileAppeal(r, u) BY <1>6, BeginPaced DEF FileAppeal
<1> QED BY <1>1, <1>2, <1>3, <1>4, <1>5, <1>6

LEMMA BeginResolvePaced ==
  ASSUME RestrictionsInv, PacedInv, calm, NEW r \in Requests, NEW i \in DOMAIN appeals,
         BeginResolve(r, i)
  PROVE  PacedInv'
<1>1. appeals[i] \in Appeal BY TypeFacts DEF RestrictionsInv
<1>2. appeals[i].user \in Users BY <1>1 DEF Appeal
<1>3. PICK approve \in BOOLEAN :
        Begin(r, "resolve", appeals[i].user, "write", NoEnd, i, approve)
    BY DEF BeginResolve
<1>4. PICK u \in Users : u = appeals[i].user BY <1>2
<1>5. Begin(r, "resolve", u, "write", NoEnd, i, approve) BY <1>3, <1>4
<1> QED BY <1>5, BeginPaced

LEMMA AssertPaced ==
  ASSUME RestrictionsInv, PacedInv, calm, NEW r \in Requests, AssertAccountIsUsable(r)
  PROVE  PacedInv'
<1>1. /\ reqs[r] # None /\ reqs[r].pc = "check"
      /\ UNCHANGED <<calm, now, row, appeals>>
    BY DEF AssertAccountIsUsable, At
<1>2. CASE Expired(reqs[r].seen, now)
  <2> DEFINE q == [reqs[r] EXCEPT !.pc = "write", !.at = now]
  <2>0. reqs[r] \in Request BY <1>1, PacedFacts
  <2>1. q.user = reqs[r].user /\ q.pc = "write" /\ q.at = now /\ q.kind = reqs[r].kind
      BY <2>0 DEF Request
  <2>2. reqs' = [reqs EXCEPT ![r] = q] BY <1>2 DEF AssertAccountIsUsable
  <2> HIDE DEF q
  <2>3. HandlerPaced(q, row[reqs[r].user], appeals, now)
      BY <1>1, <2>1, PacedFacts DEF HandlerPaced, RowPast, AppealsPast, Of
  <2> QED BY <1>1, <2>1, <2>2, <2>3, QuietPaced
<1>3. CASE ~Expired(reqs[r].seen, now)
    BY <1>1, <1>3, DonePaced DEF AssertAccountIsUsable
<1> QED BY <1>2, <1>3
\* A handler writes the row of its account as of s; the appeals keep their
\* instants.
LEMMA CommitPaced ==
  ASSUME RestrictionsInv, PacedInv, calm, NEW r \in Requests, At(r, "write"),
         NEW y \in Row, NEW s \in Nat, y.since = s, reqs[r].at <= s, s <= now,
         y.status # "ACTIVE" => TwiceCooldown(y) > 0,
         row' = [row EXCEPT ![reqs[r].user] = y], Committed(r),
         UNCHANGED <<calm, now, appeals>>
  PROVE  PacedInv'
<1> DEFINE q == [reqs[r] EXCEPT !.pc = "effect"]
           u == reqs[r].user
<1>1. reqs[r] # None /\ reqs[r].pc = "write" BY DEF At
<1>2. /\ u \in Users /\ reqs[r] \in Request /\ row[u] \in Row
      /\ AppealsPast(appeals, now) /\ RowPast(row[u], now) /\ UserPaced(u, row[u], appeals)
      /\ HandlerPaced(reqs[r], row[u], appeals, now) /\ reqs[r].at \in Nat
    BY <1>1, PacedFacts
<1>3. /\ row \in [Users -> Row] /\ appeals \in Seq(Appeal)
    BY TypeFacts DEF RestrictionsInv
<1>4. q.user = u /\ q.pc = "effect" /\ q.kind = reqs[r].kind /\ q.at = reqs[r].at
      /\ q.until = reqs[r].until
    BY <1>2 DEF Request
<1>5. reqs' = [reqs EXCEPT ![r] = q] BY DEF Committed, Step
<1>6. row'[u] = y /\ \A v \in Users \ {u} : row'[v] = row[v] BY <1>2, <1>3
<1>7. row[u].since \in Nat /\ row[u].since <= reqs[r].at BY <1>1, <1>2, RowFacts DEF HandlerPaced
<1>8. ASSUME NEW i \in Of(u, appeals) PROVE appeals[i].at <= s
  <2>1. appeals[i].at <= reqs[r].at BY <1>1, <1>2, <1>8 DEF HandlerPaced
  <2>2. appeals[i].at \in Nat
    <3>1. appeals[i] \in Appeal BY <1>3, <1>8 DEF Of
    <3> QED BY <3>1, TimeType DEF Appeal
  <2> QED BY <1>2, <2>1, <2>2
<1>9. row[u].since <= s BY <1>2, <1>7
<1>10. UserPaced(u, y, appeals) BY <1>2, <1>3, <1>8, <1>9, NewRowPaced
<1>11. RowPast(y, now) BY DEF RowPast
<1>12. HandlerPaced(q, y, appeals, now) BY <1>1, <1>2, <1>4 DEF HandlerPaced
<1> HIDE DEF q, u
<1>13. /\ UserPaced(u, row'[u], appeals') /\ RowPast(row'[u], now)
       /\ HandlerPaced(q, row'[u], appeals', now) /\ AppealsPast(appeals', now)
    BY <1>2, <1>6, <1>10, <1>11, <1>12
<1> QED BY <1>1, <1>4, <1>5, <1>6, <1>13, PacedStep DEF u

LEMMA ActiveFacts ==
  ASSUME NEW t
  PROVE  Active(t).since = t /\ Active(t).status = "ACTIVE"
  BY DEF Active

LEMMA WriteStatusPaced ==
  ASSUME RestrictionsInv, PacedInv, calm, NEW r \in Requests, WriteStatus(r)
  PROVE  PacedInv'
<1> DEFINE y == Target(reqs[r])
<1>1. reqs[r] # None /\ At(r, "write") BY DEF WriteStatus, At
<1>2. /\ reqs[r] \in Request /\ reqs[r].at \in Nat /\ reqs[r].at <= now
      /\ HandlerPaced(reqs[r], row[reqs[r].user], appeals, now)
    BY <1>1, PacedFacts
<1>3. reqs[r].kind \in AllKinds /\ Sound(reqs[r], now, appeals) BY <1>1, <1>2, HandlerFacts DEF Request
<1>4. y \in Row BY <1>2, <1>3, TargetType DEF Sound
<1>5. y.since = reqs[r].at BY DEF Target, Active
<1>6. y.status # "ACTIVE" => TwiceCooldown(y) > 0
  <2>1. CASE reqs[r].kind = "suspend"
    <3>1. y.status = "SUSPENDED" /\ y.until = reqs[r].until BY <2>1 DEF Target
    <3>2. reqs[r].at < reqs[r].until BY <1>2, <2>1 DEF HandlerPaced
    <3>3. reqs[r].until \in Int BY <1>2, EndsType DEF Request
    <3> QED BY <1>2, <1>5, <3>1, <3>2, <3>3 DEF TwiceCooldown
  <2>2. CASE reqs[r].kind = "ban" BY <2>2 DEF Target, TwiceCooldown
  <2>3. CASE reqs[r].kind \notin {"suspend", "ban"} BY <2>3 DEF Target, Active
  <2> QED BY <2>1, <2>2, <2>3
<1>7. row' = [row EXCEPT ![reqs[r].user] = y] /\ Committed(r) /\ UNCHANGED <<calm, now, appeals>>
    BY DEF WriteStatus
<1>8. reqs[r].at <= reqs[r].at BY <1>2
<1> HIDE DEF y
<1> QED BY <1>1, <1>2, <1>4, <1>5, <1>6, <1>7, <1>8, CommitPaced

LEMMA ReactivatePaced ==
  ASSUME RestrictionsInv, PacedInv, calm, NEW r \in Requests, ReactivateIfExpired(r)
  PROVE  PacedInv'
<1>1. reqs[r] # None /\ At(r, "write") /\ UNCHANGED <<calm, now, appeals>>
    BY DEF ReactivateIfExpired, At
<1>2. reqs[r].at \in Nat /\ reqs[r].at <= now /\ reqs[r] \in Request BY <1>1, PacedFacts
<1>3. CASE Expired(row[reqs[r].user], reqs[r].at)
  <2>1. Active(reqs[r].at) \in Row BY <1>2, ActiveType DEF Request
  <2>2. row' = [row EXCEPT ![reqs[r].user] = Active(reqs[r].at)] /\ Committed(r)
      BY <1>3 DEF ReactivateIfExpired
  <2>3. reqs[r].at <= reqs[r].at BY <1>2
  <2> QED BY <1>1, <1>2, <2>1, <2>2, <2>3, ActiveFacts, CommitPaced
<1>4. CASE ~Expired(row[reqs[r].user], reqs[r].at)
    BY <1>1, <1>4, DonePaced DEF ReactivateIfExpired
<1> QED BY <1>3, <1>4

LEMMA CheckPendingPaced ==
  ASSUME RestrictionsInv, PacedInv, calm, NEW r \in Requests, CheckPending(r)
  PROVE  PacedInv'
<1> DEFINE q == [reqs[r] EXCEPT !.pc = "quota"]
           u == reqs[r].user
<1>1. reqs[r] # None /\ reqs[r].pc = "pending" /\ UNCHANGED <<calm, now, row, appeals>>
    BY DEF CheckPending, At
<1>2. reqs[r] \in Request /\ HandlerPaced(reqs[r], row[u], appeals, now)
    BY <1>1, PacedFacts
<1>3. CASE \E i \in DOMAIN appeals : appeals[i].user = u /\ Pending(appeals[i])
    BY <1>1, <1>3, DonePaced DEF CheckPending
<1>4. CASE ~\E i \in DOMAIN appeals : appeals[i].user = u /\ Pending(appeals[i])
  <2>1. q.user = u /\ q.pc = "quota" /\ q.kind = reqs[r].kind /\ q.at = reqs[r].at
        /\ q.seen = reqs[r].seen
      BY <1>2 DEF Request
  <2>2. reqs' = [reqs EXCEPT ![r] = q] BY <1>4 DEF CheckPending, Step
  <2>3. AllAnswered(u, appeals) BY <1>4 DEF AllAnswered, Of
  <2>4. HandlerPaced(q, row[u], appeals, now) BY <1>1, <1>2, <2>1, <2>3 DEF HandlerPaced
  <2> HIDE DEF q
  <2> QED BY <1>1, <2>1, <2>2, <2>4, QuietPaced
<1> QED BY <1>3, <1>4

LEMMA CheckAvailabilityPaced ==
  ASSUME RestrictionsInv, PacedInv, calm, NEW r \in Requests, CheckAvailability(r)
  PROVE  PacedInv'
<1> DEFINE q == [reqs[r] EXCEPT !.pc = "insert"]
           u == reqs[r].user
           S == FiledSince(u, row[u].since, appeals)
<1>1. reqs[r] # None /\ reqs[r].pc = "quota" /\ UNCHANGED <<calm, now, row, appeals>>
    BY DEF CheckAvailability, At
<1>2. reqs[r] \in Request /\ HandlerPaced(reqs[r], row[u], appeals, now)
    BY <1>1, PacedFacts
<1>3. CASE ~Available(u, reqs[r].seen) BY <1>1, <1>3, DonePaced DEF CheckAvailability
<1>4. CASE Available(u, reqs[r].seen)
  <2>1. q.user = u /\ q.pc = "insert" /\ q.kind = reqs[r].kind /\ q.at = reqs[r].at
        /\ q.seen = reqs[r].seen
      BY <1>2 DEF Request
  <2>2. reqs' = [reqs EXCEPT ![r] = q] BY <1>4 DEF CheckAvailability, Step
  <2>3. S = AppealsSince(u, row[u].since) BY DEF FiledSince, Of, AppealsSince
  <2>4. reqs[r].seen = row[u] /\ AllAnswered(u, appeals) BY <1>1, <1>2 DEF HandlerPaced
  <2>5. /\ Cardinality(S) < MAX_APPEALS_PER_RESTRICTION
        /\ Cardinality(S) = 2 /\ ~Pending(appeals[Max(S)])
             => CooldownOver(appeals[Max(S)], row[u], now)
      BY <1>4, <2>3, <2>4 DEF Available
  <2>6. S \in SUBSET Nat /\ IsFiniteSet(S) /\ S \subseteq Of(u, appeals)
    <3>1. appeals \in Seq(Appeal) BY TypeFacts DEF RestrictionsInv
    <3>2. S \in SUBSET Nat /\ IsFiniteSet(S) BY <3>1, FiledType
    <3> QED BY <3>2 DEF FiledSince
  <2> HIDE DEF S
  <2>7. ASSUME Cardinality(S) = 2
        PROVE  \E m \in S : Top(S, m) /\ CooldownOver(appeals[m], row[u], now)
    <3>1. PICK m \in S : Top(S, m) BY <2>6, <2>7, TopOfTwo
    <3>2. Max(S) = m BY <2>6, <3>1, TopIsMax
    <3>3. ~Pending(appeals[m]) BY <2>4, <2>6 DEF AllAnswered
    <3> QED BY <2>5, <2>7, <3>1, <3>2, <3>3
  <2>8. MayInsert(S, row[u], appeals, now)
      BY <2>5, <2>7 DEF MayInsert, MAX_APPEALS_PER_RESTRICTION
  <2>9. HandlerPaced(q, row[u], appeals, now)
      BY <1>1, <1>2, <2>1, <2>4, <2>8 DEF HandlerPaced, S
  <2> HIDE DEF q
  <2> QED BY <1>1, <2>1, <2>2, <2>9, QuietPaced
<1> QED BY <1>3, <1>4
\* The appeal inserted is the latest of its account and the only pending one.
LEMMA CreateAppealPaced ==
  ASSUME RestrictionsInv, PacedInv, calm, NEW r \in Requests, CreateAppeal(r)
  PROVE  PacedInv'
<1> DEFINE u == reqs[r].user
           a == [user |-> u, at |-> now, resolvedAt |-> NoEnd, approved |-> FALSE]
           k == Len(appeals) + 1
           S == FiledSince(u, row[u].since, appeals)
           T == FiledSince(u, row[u].since, Append(appeals, a))
<1>1. /\ reqs[r] # None /\ reqs[r].pc = "insert" /\ UNCHANGED <<calm, now, row>>
      /\ appeals' = Append(appeals, a) /\ reqs' = [reqs EXCEPT ![r] = None]
    BY DEF CreateAppeal, At, Done
<1>2. /\ u \in Users /\ row[u] \in Row /\ AppealsPast(appeals, now) /\ RowPast(row[u], now)
      /\ UserPaced(u, row[u], appeals) /\ HandlerPaced(reqs[r], row[u], appeals, now)
    BY <1>1, PacedFacts
<1>3. appeals \in Seq(Appeal) /\ now \in Time /\ now \in Nat
    BY TypeFacts, TimeType DEF RestrictionsInv
<1>4. a \in Appeal BY <1>2, <1>3, TimeType DEF Appeal
<1>5. a.user = u /\ a.at = now /\ Pending(a) BY DEF Pending
<1>6. MayInsert(S, row[u], appeals, now) /\ AllAnswered(u, appeals) /\ row[u].status # "ACTIVE"
    BY <1>1, <1>2 DEF HandlerPaced
<1> HIDE DEF a
<1>7. /\ Append(appeals, a) \in Seq(Appeal) /\ DOMAIN Append(appeals, a) = DOMAIN appeals \cup {k}
      /\ k \notin DOMAIN appeals /\ k \in Nat /\ Append(appeals, a)[k] = a
      /\ \A i \in DOMAIN appeals : Append(appeals, a)[i] = appeals[i] /\ i < k
    BY <1>3, <1>4
<1>8. /\ \A v : v # u => Of(v, Append(appeals, a)) = Of(v, appeals)
      /\ Of(u, Append(appeals, a)) = Of(u, appeals) \cup {k}
    BY <1>5, <1>7 DEF Of
<1>9. row[u].since <= now BY <1>2 DEF RowPast
<1>10. T = S \cup {k} /\ k \notin S /\ S \subseteq Of(u, appeals)
  <2>1. \A i \in Of(u, appeals) : i \in DOMAIN appeals BY DEF Of
  <2>2. now >= row[u].since BY <1>2, <1>3, <1>9, RowFacts
  <2> QED BY <1>5, <1>7, <1>8, <2>1, <2>2 DEF FiledSince
<1>11. /\ S \in SUBSET Nat /\ IsFiniteSet(S) /\ Cardinality(S) \in Nat
    BY <1>3, FiledType
<1>12. Cardinality(T) = Cardinality(S) + 1 BY <1>10, <1>11, FS_AddElement
<1>13. Cardinality(T) <= 3 BY <1>6, <1>11, <1>12 DEF MayInsert
<1>14. ASSUME Cardinality(T) = 3 PROVE ThirdWaited(T, row[u], Append(appeals, a))
  <2>1. Cardinality(S) = 2 BY <1>11, <1>12, <1>14
  <2>2. PICK m \in S : Top(S, m) /\ CooldownOver(appeals[m], row[u], now)
      BY <1>6, <2>1 DEF MayInsert
  <2>3. m \in DOMAIN appeals /\ m \in Of(u, appeals) BY <1>10 DEF Of
  <2>4. ~Pending(appeals[m]) BY <1>6, <2>3 DEF AllAnswered
  <2>5. Append(appeals, a)[m] = appeals[m] BY <1>7, <2>3
  <2>6. T \ {k} = S BY <1>10
  <2>7. Top(T, k)
    <3>1. \A i \in S : i <= k
      <4>1. \A i \in S : i \in DOMAIN appeals BY <1>10 DEF Of
      <4> QED BY <1>7, <1>11, <4>1
    <3> QED BY <1>7, <1>10, <3>1 DEF Top
  <2>8. CooldownOver(Append(appeals, a)[m], row[u], Append(appeals, a)[k].at)
      BY <1>5, <1>7, <2>2, <2>5
  <2> HIDE DEF T, S, k
  <2> QED BY <1>10, <2>2, <2>4, <2>5, <2>6, <2>7, <2>8 DEF ThirdWaited
<1>15. \A i, j \in Of(u, Append(appeals, a)) :
         Pending(Append(appeals, a)[i]) /\ Pending(Append(appeals, a)[j]) => i = j
  <2>1. \A i \in Of(u, appeals) : ~Pending(Append(appeals, a)[i])
    <3>1. \A i \in Of(u, appeals) : i \in DOMAIN appeals BY DEF Of
    <3> QED BY <1>6, <1>7, <3>1 DEF AllAnswered
  <2> QED BY <1>8, <2>1
<1>16. UserPaced(u, row[u], Append(appeals, a))
    BY <1>6, <1>13, <1>14, <1>15 DEF UserPaced
<1>17. AppealsPast(Append(appeals, a), now)
  <2>1. now <= now BY <1>3
  <2> QED BY <1>2, <1>5, <1>7, <2>1 DEF AppealsPast
<1>18. \A v \in Users \ {u} :
         /\ row'[v] = row[v] /\ Of(v, appeals') = Of(v, appeals)
         /\ \A i \in Of(v, appeals) : appeals'[i] = appeals[i]
    BY <1>1, <1>7, <1>8 DEF Of
<1> HIDE DEF u, k, S, T
<1>19. /\ UserPaced(u, row'[u], appeals') /\ RowPast(row'[u], now) /\ AppealsPast(appeals', now)
    BY <1>1, <1>2, <1>16, <1>17
<1> QED BY <1>1, <1>18, <1>19, PacedStep DEF u

\* A decision answers a pending appeal of the account, and moves none in time.
LEMMA DecidedPaced ==
  ASSUME RestrictionsInv, PacedInv, calm, NEW r \in Requests, At(r, "write"),
         reqs[r].kind = "resolve", Pending(appeals[reqs[r].appeal])
  PROVE  LET more == Decided(reqs[r])
             u == reqs[r].user
         IN  /\ \A v : Of(v, more) = Of(v, appeals)
             /\ \A v \in Users \ {u} : \A i \in Of(v, appeals) : more[i] = appeals[i]
             /\ \A i \in Of(u, appeals) : more[i].at = appeals[i].at
             /\ AppealsPast(more, now) /\ UserPaced(u, row[u], more)
             /\ \A q : q.user = u /\ q.pc \in {"write", "effect"}
                         /\ HandlerPaced(q, row[u], appeals, now)
                         => HandlerPaced(q, row[u], more, now)
<1> DEFINE more == Decided(reqs[r])
           u == reqs[r].user
           d == reqs[r].appeal
<1>1. reqs[r] # None /\ reqs[r].pc = "write" BY DEF At
<1>2. /\ u \in Users /\ row[u] \in Row /\ AppealsPast(appeals, now)
      /\ UserPaced(u, row[u], appeals) /\ reqs[r] \in Request
    BY <1>1, PacedFacts
<1>3. appeals \in Seq(Appeal) /\ now \in Nat
    BY TypeFacts, TimeType DEF RestrictionsInv
<1>4. d \in DOMAIN appeals /\ appeals[d].user = u BY <1>1, HandlerFacts DEF Sound
<1>5. DOMAIN more = DOMAIN appeals /\ \A i \in DOMAIN appeals : i # d => more[i] = appeals[i]
    BY <1>3 DEF Decided
<1>6. /\ more[d].user = u /\ more[d].at = appeals[d].at
      /\ more[d].resolvedAt = now /\ ~Pending(more[d])
  <2>1. appeals[d] \in Appeal BY <1>3, <1>4
  <2>2. more[d] = [appeals[d] EXCEPT !.resolvedAt = now, !.approved = reqs[r].approve]
      BY <1>3, <1>4 DEF Decided
  <2>3. more[d].user = u /\ more[d].at = appeals[d].at /\ more[d].resolvedAt = now
      BY <1>4, <2>1, <2>2 DEF Appeal
  <2> QED BY <1>3, <2>3 DEF Pending, NoEnd
<1> HIDE DEF more, d
<1>7. \A i \in DOMAIN appeals :
        more[i].user = appeals[i].user /\ more[i].at = appeals[i].at
    BY <1>4, <1>5, <1>6
<1>8. \A v : Of(v, more) = Of(v, appeals) BY <1>5, <1>7 DEF Of
<1>9. \A v \in Users \ {u} : \A i \in Of(v, appeals) : more[i] = appeals[i]
    BY <1>4, <1>5 DEF Of
<1>10. \A i \in Of(u, appeals) : more[i].at = appeals[i].at BY <1>7 DEF Of
<1>11. AppealsPast(more, now) BY <1>2, <1>4, <1>5, <1>6 DEF AppealsPast
<1>12. FiledSince(u, row[u].since, more) = FiledSince(u, row[u].since, appeals)
    BY <1>8, <1>10 DEF FiledSince
<1>13. UserPaced(u, row[u], more)
  <2> DEFINE S == FiledSince(u, row[u].since, appeals)
  <2>1. \A i \in S : i \in DOMAIN appeals BY DEF FiledSince, Of
  <2>2. ASSUME ThirdWaited(S, row[u], appeals) PROVE ThirdWaited(S, row[u], more)
    <3>1. PICK m, n \in S : /\ Top(S, n) /\ Top(S \ {n}, m) /\ ~Pending(appeals[m])
                            /\ CooldownOver(appeals[m], row[u], appeals[n].at)
        BY <2>2 DEF ThirdWaited
    <3>2. m # d /\ m \in DOMAIN appeals /\ n \in DOMAIN appeals BY <2>1, <3>1 DEF d
    <3>3. more[m] = appeals[m] /\ more[n].at = appeals[n].at BY <1>5, <1>7, <3>2
    <3> HIDE DEF S
    <3> QED BY <3>1, <3>3 DEF ThirdWaited
  <2>3. \A i \in Of(u, more) : Pending(more[i]) => i \in Of(u, appeals) /\ Pending(appeals[i])
    <3>1. \A i \in Of(u, appeals) : i \in DOMAIN appeals BY DEF Of
    <3> QED BY <1>5, <1>6, <1>8, <3>1
  <2> QED BY <1>2, <1>12, <2>2, <2>3 DEF UserPaced
<1>14. ASSUME NEW q, q.user = u, q.pc \in {"write", "effect"},
              HandlerPaced(q, row[u], appeals, now)
       PROVE  HandlerPaced(q, row[u], more, now)
    BY <1>8, <1>10, <1>14 DEF HandlerPaced
<1> QED BY <1>8, <1>9, <1>10, <1>11, <1>13, <1>14 DEF more

LEMMA ResolvePaced ==
  ASSUME RestrictionsInv, PacedInv, calm, NEW r \in Requests, Resolve(r)
  PROVE  PacedInv'
<1> DEFINE u == reqs[r].user
           q == [reqs[r] EXCEPT !.pc = "effect"]
           more == Decided(reqs[r])
<1>1. /\ At(r, "write") /\ reqs[r] # None /\ reqs[r].pc = "write"
      /\ reqs[r].kind = "resolve" /\ UNCHANGED <<calm, now>>
    BY DEF Resolve, At
<1>2. CASE ~Pending(appeals[reqs[r].appeal]) BY <1>1, <1>2, DonePaced DEF Resolve
<1>3. CASE Pending(appeals[reqs[r].appeal])
  <2>1. appeals' = more BY <1>3 DEF Resolve
  <2>2. /\ \A v : Of(v, more) = Of(v, appeals)
        /\ \A v \in Users \ {u} : \A i \in Of(v, appeals) : more[i] = appeals[i]
        /\ \A i \in Of(u, appeals) : more[i].at = appeals[i].at
        /\ AppealsPast(more, now) /\ UserPaced(u, row[u], more)
        /\ \A p : p.user = u /\ p.pc \in {"write", "effect"}
                    /\ HandlerPaced(p, row[u], appeals, now)
                    => HandlerPaced(p, row[u], more, now)
      BY <1>1, <1>3, DecidedPaced
  <2>3. /\ u \in Users /\ reqs[r] \in Request /\ row[u] \in Row /\ RowPast(row[u], now)
        /\ HandlerPaced(reqs[r], row[u], appeals, now) /\ reqs[r].at <= now /\ reqs[r].at \in Nat
        /\ AppealsPast(appeals, now)
      BY <1>1, PacedFacts
  <2>4. row \in [Users -> Row] /\ now \in Nat /\ now \in Time
      BY TypeFacts, TimeType DEF RestrictionsInv
  <2>5. more \in Seq(Appeal) BY <1>1, DecidedType
  <2>6. CASE reqs[r].approve
    <3>1. row' = [row EXCEPT ![u] = Active(now)] /\ reqs' = [reqs EXCEPT ![r] = q]
        BY <1>1, <1>3, <2>6 DEF Resolve, Committed, Step
    <3>2. q.user = u /\ q.pc = "effect" /\ q.kind = "resolve" BY <1>1, <2>3 DEF Request
    <3>3. row'[u] = Active(now) /\ \A v \in Users \ {u} : row'[v] = row[v] BY <2>3, <2>4, <3>1
    <3>4. row[u].since <= now BY <2>3 DEF RowPast
    <3>5. \A i \in Of(u, more) : more[i].at <= now
        BY <2>2 DEF AppealsPast, Of
    <3>6. UserPaced(u, Active(now), more)
        BY <2>2, <2>3, <2>4, <2>5, <3>4, <3>5, ActiveFacts, NewRowPaced
    <3>7. RowPast(Active(now), now) BY <2>4, ActiveFacts DEF RowPast
    <3>8. HandlerPaced(q, Active(now), more, now) BY <3>2 DEF HandlerPaced
    <3> HIDE DEF q, u, more
    <3>9. /\ UserPaced(u, row'[u], appeals') /\ RowPast(row'[u], now)
          /\ AppealsPast(appeals', now) /\ HandlerPaced(q, row'[u], appeals', now)
        BY <2>1, <2>2, <3>3, <3>6, <3>7, <3>8
    <3> QED BY <1>1, <2>1, <2>2, <3>1, <3>2, <3>3, <3>9, PacedStep DEF u
  <2>7. CASE ~reqs[r].approve
    <3>1. row' = row /\ reqs' = [reqs EXCEPT ![r] = None] BY <1>3, <2>7 DEF Resolve, Done
    <3> HIDE DEF q, u, more
    <3>2. /\ UserPaced(u, row'[u], appeals') /\ RowPast(row'[u], now)
          /\ AppealsPast(appeals', now)
        BY <2>1, <2>2, <2>3, <3>1
    <3> QED BY <1>1, <2>1, <2>2, <3>1, <3>2, PacedStep DEF u
  <2> QED BY <2>6, <2>7
<1> QED BY <1>2, <1>3
LEMMA InitPaced == Init => PacedInv
<1> SUFFICES ASSUME Init PROVE PacedInv OBVIOUS
<1>1. appeals = <<>> /\ now = 0 /\ row = [u \in Users |-> Active(0)]
      /\ reqs = [r \in Requests |-> None]
    BY DEF Init
<1>2. \A u \in Users : RowPast(row[u], now) BY <1>1, ActiveFacts DEF RowPast
<1>3. ASSUME NEW u \in Users PROVE UserPaced(u, row[u], appeals)
  <2>1. Of(u, appeals) = {} /\ FiledSince(u, row[u].since, appeals) = {}
      BY <1>1 DEF Of, FiledSince
  <2> QED BY <2>1, FS_EmptySet DEF UserPaced
<1>4. AppealsPast(appeals, now) BY <1>1 DEF AppealsPast
<1> QED BY <1>1, <1>2, <1>3, <1>4 DEF PacedInv

LEMMA TickPaced ==
  ASSUME RestrictionsInv, PacedInv, calm, Tick
  PROVE  PacedInv'
<1>1. /\ now \in Time /\ appeals \in Seq(Appeal) /\ row \in [Users -> Row]
      /\ \A r \in Requests : reqs[r] # None => reqs[r] \in Request
    BY TypeFacts DEF RestrictionsInv
<1>2. /\ now' = now + 1 /\ calm' = calm /\ row' = row /\ appeals' = appeals /\ reqs' = reqs
      /\ now' \in Time /\ now <= now' /\ now \in Nat
    BY <1>1 DEF Tick, Time
<1>3. AppealsPast(appeals, now')
  <2>1. \A i \in DOMAIN appeals : appeals[i].at \in Nat
    <3>1. \A i \in DOMAIN appeals : appeals[i] \in Appeal BY <1>1
    <3> QED BY <3>1, TimeType DEF Appeal
  <2> QED BY <1>2, <2>1 DEF PacedInv, AppealsPast
<1>4. ASSUME NEW u \in Users PROVE RowPast(row[u], now')
  <2>1. row[u].since \in Nat BY <1>1, RowFacts
  <2> QED BY <1>2, <2>1 DEF PacedInv, RowPast
<1>5. ASSUME NEW r \in Requests, reqs[r] # None
      PROVE  HandlerPaced(reqs[r], row[reqs[r].user], appeals, now')
  <2>1. reqs[r].user \in Users BY <1>1, <1>5 DEF Request
  <2>2. /\ row[reqs[r].user].since \in Int /\ TwiceCooldown(row[reqs[r].user]) \in Int
      BY <1>1, <2>1, RowFacts
  <2>3. HandlerPaced(reqs[r], row[reqs[r].user], appeals, now) BY <1>5 DEF PacedInv
  <2> QED BY <1>1, <1>2, <2>2, <2>3, SamePaced
<1> QED BY <1>2, <1>3, <1>4, <1>5 DEF PacedInv

LEMMA NextPaced == RestrictionsInv /\ PacedInv /\ [Next]_vars => PacedInv'
<1> SUFFICES ASSUME RestrictionsInv, PacedInv, [Next]_vars PROVE PacedInv' OBVIOUS
<1>0. calm' = calm
    BY DEF Next, vars, SuspendUser, BanUser, ReactivateUser, Visit, Login, FileAppeal, Begin,
           AssertAccountIsUsable, WriteStatus, ReactivateIfExpired, UpdateCache, CheckPending,
           CheckAvailability, CreateAppeal, Resolve, QueryFails, BeginResolve, Restart, Tick
<1>1. CASE ~calm BY <1>0, <1>1 DEF PacedInv
<1>2. CASE calm
  <2>1. CASE UNCHANGED vars BY <2>1 DEF vars, PacedInv
  <2>2. CASE \E r \in Requests, u \in Users :
               SuspendUser(r, u) \/ BanUser(r, u) \/ ReactivateUser(r, u)
                 \/ Visit(r, u) \/ Login(r, u) \/ FileAppeal(r, u)
      BY <1>2, <2>2, BeginsPaced
  <2>3. ASSUME NEW r \in Requests, UpdateCache(r) \/ QueryFails(r) PROVE PacedInv'
    <3>1. reqs[r] # None /\ Done(r) /\ UNCHANGED <<calm, now, row, appeals>>
        BY <2>3 DEF UpdateCache, QueryFails, At
    <3> QED BY <1>2, <3>1, DonePaced
  <2>4. CASE \E r \in Requests :
               \/ AssertAccountIsUsable(r) \/ WriteStatus(r) \/ ReactivateIfExpired(r)
               \/ UpdateCache(r) \/ CheckPending(r) \/ CheckAvailability(r)
               \/ CreateAppeal(r) \/ Resolve(r) \/ QueryFails(r)
      BY <1>2, <2>3, <2>4, AssertPaced, WriteStatusPaced, ReactivatePaced, CheckPendingPaced,
         CheckAvailabilityPaced, CreateAppealPaced, ResolvePaced
  <2>5. CASE \E r \in Requests : \E i \in DOMAIN appeals : BeginResolve(r, i)
      BY <1>2, <2>5, BeginResolvePaced
  <2>6. CASE Restart BY <2>6 DEF Restart, PacedInv
  <2>7. CASE Tick BY <1>2, <2>7, TickPaced
  <2> QED BY <2>1, <2>2, <2>4, <2>5, <2>6, <2>7 DEF Next
<1> QED BY <1>1, <1>2

\* AppealsService.create: while the requests of an account do not overlap, a
\* restriction has at most three appeals, one at a time, and the third waited
\* for the cooldown after the answer to the second, whatever restriction
\* follows another and whenever the appeals of the one are counted again under
\* the other.
THEOREM AppealsWaitTheirTurn == Spec => []AppealsPaced
<1>1. RestrictionsInv /\ PacedInv => AppealsPaced
  <2> SUFFICES ASSUME RestrictionsInv, PacedInv, calm PROVE AppealsPaced
      BY DEF AppealsPaced
  <2>1. /\ appeals \in Seq(Appeal)
        /\ \A u \in Users : UserPaced(u, row[u], appeals)
      BY TypeFacts DEF RestrictionsInv, PacedInv
  <2>2. OnlyPending
    <3> SUFFICES ASSUME NEW i \in DOMAIN appeals, NEW j \in DOMAIN appeals,
                        appeals[i].user = appeals[j].user,
                        Pending(appeals[i]), Pending(appeals[j])
                 PROVE  i = j
        BY DEF OnlyPending
    <3>1. appeals[i] \in Appeal BY <2>1
    <3>2. appeals[i].user \in Users BY <3>1 DEF Appeal
    <3>3. i \in Of(appeals[i].user, appeals) /\ j \in Of(appeals[i].user, appeals) BY DEF Of
    <3> QED BY <2>1, <3>2, <3>3 DEF UserPaced
  <2>3. ASSUME NEW u \in Users
        PROVE  LET filed == AppealsSince(u, row[u].since) IN
               /\ Cardinality(filed) <= MAX_APPEALS_PER_RESTRICTION
               /\ Cardinality(filed) = 3
                    => CooldownOver(appeals[Max(filed \ {Max(filed)})], row[u],
                                    appeals[Max(filed)].at)
    <3> DEFINE S == FiledSince(u, row[u].since, appeals)
    <3>1. AppealsSince(u, row[u].since) = S BY DEF FiledSince, Of, AppealsSince
    <3>2. S \in SUBSET Nat BY <2>1, FiledType
    <3>3. /\ Cardinality(S) <= 3
          /\ Cardinality(S) = 3 => ThirdWaited(S, row[u], appeals)
        BY <2>1 DEF UserPaced
    <3> HIDE DEF S
    <3>4. ASSUME Cardinality(S) = 3
          PROVE  CooldownOver(appeals[Max(S \ {Max(S)})], row[u], appeals[Max(S)].at)
      <4>1. PICK m, n \in S : /\ Top(S, n) /\ Top(S \ {n}, m)
                              /\ CooldownOver(appeals[m], row[u], appeals[n].at)
          BY <3>3, <3>4 DEF ThirdWaited
      <4>2. Max(S) = n BY <3>2, <4>1, TopIsMax
      <4>3. S \ {n} \in SUBSET Nat BY <3>2
      <4>4. Max(S \ {n}) = m BY <4>1, <4>3, TopIsMax
      <4> QED BY <4>1, <4>2, <4>4
    <3> QED BY <3>1, <3>3, <3>4 DEF MAX_APPEALS_PER_RESTRICTION
  <2> QED BY <2>2, <2>3 DEF AppealsPaced
<1> QED BY <1>1, InitPaced, NextPaced, RestrictionsAlways, PTL DEF Spec
=============================================================================
