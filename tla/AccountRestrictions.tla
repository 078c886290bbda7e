------------------------- MODULE AccountRestrictions -------------------------
(***************************************************************************)
(* Suspensions and bans: the status of an account in the database, the     *)
(* cache of restricted accounts that every authenticated request is        *)
(* checked against (account-status.service.ts), the handlers that change   *)
(* both (users.service.ts), the two places that lift a suspension that ran *)
(* out (account-status.service.ts, account-guard.service.ts), and the      *)
(* appeals (appeals.service.ts).  A handler writes the row in one step and *)
(* the cache in a later one; handlers interleave at every await.           *)
(***************************************************************************)
EXTENDS Integers, Sequences, FiniteSets, FiniteSetsExt

CONSTANTS
  Users, Requests, None,
  Kinds,         \* the requests this instance receives
  BanCooldown,   \* BAN_APPEAL_COOLDOWN_MS
  MaxTime,       \* bounds of the instance: time,
  MaxFiled,      \* the appeals ever filed in a calm behaviour,
  MaxRacing      \* and in one that is not

AllKinds == {"suspend", "ban", "reactivate", "expire", "login", "appeal", "resolve"}
MAX_APPEALS_PER_RESTRICTION == 3

VARIABLES
  calm,      \* this behaviour's requests about one account do not overlap in
             \* time, and no answer to a committed write is lost
  now,
  row,       \* of each user: [status, until, since]: suspendedUntil, statusUpdatedAt
  cache,     \* of each user: None, or [status, until] (AccountStatusService.cache)
  appeals,   \* the appeals in the order they were filed
  reqs       \* the handlers under way

vars == <<calm, now, row, cache, appeals, reqs>>

Time == 0 .. MaxTime
NoEnd == -1
Ends == Time \cup {NoEnd}
Statuses == {"ACTIVE", "SUSPENDED", "BANNED"}
\* Suspensions, and they alone, have an end.
Timed(info) == info.until # NoEnd <=> info.status = "SUSPENDED"
Row == {x \in [status : Statuses, until : Ends, since : Time] : Timed(x)}
BlockInfo == {x \in [status : {"SUSPENDED", "BANNED"}, until : Ends] : Timed(x)}
Appeal == [user : Users, at : Time, resolvedAt : Ends, approved : BOOLEAN]
Pcs == {"check", "write", "effect", "pending", "quota", "insert"}
Request == [kind : AllKinds, user : Users, pc : Pcs, at : Time, until : Ends,
            seen : Row, appeal : Nat, approve : BOOLEAN]

ASSUME RestrictionsAssumption ==
  /\ Kinds \subseteq AllKinds
  /\ BanCooldown \in Nat \ {0} /\ MaxTime \in Nat
  /\ MaxFiled \in Nat /\ MaxRacing \in Nat
  /\ None \notin Request

Active(at) == [status |-> "ACTIVE", until |-> NoEnd, since |-> at]
Pending(a) == a.resolvedAt = NoEnd
Expired(info, t) == info.status = "SUSPENDED" /\ info.until <= t

TypeOK ==
  /\ calm \in BOOLEAN
  /\ now \in Time
  /\ row \in [Users -> Row]
  /\ cache \in [Users -> BlockInfo \cup {None}]
  /\ appeals \in Seq(Appeal)
  /\ reqs \in [Requests -> Request \cup {None}]
  /\ \A r \in Requests : reqs[r] # None => /\ reqs[r].kind \in Kinds
                                           /\ reqs[r].appeal \in 0 .. Len(appeals)

Init ==
  /\ calm \in BOOLEAN
  /\ now = 0
  /\ row = [u \in Users |-> Active(0)]
  /\ cache = [u \in Users |-> None]
  /\ appeals = <<>>
  /\ reqs = [r \in Requests |-> None]

-----------------------------------------------------------------------------
Busy(u) == \E r \in Requests : reqs[r] # None /\ reqs[r].user = u
At(r, pc) == reqs[r] # None /\ reqs[r].pc = pc

\* A handler begins: its fields are those given, at this time.
Begin(r, kind, u, pc, until, appeal, approve) ==
  /\ kind \in Kinds
  /\ reqs[r] = None
  /\ calm => ~Busy(u)
  /\ reqs' = [reqs EXCEPT ![r] =
       [kind |-> kind, user |-> u, pc |-> pc, at |-> now, until |-> until,
        seen |-> row[u], appeal |-> appeal, approve |-> approve]]
  /\ UNCHANGED <<calm, now, row, cache, appeals>>

Step(r, pc) == reqs' = [reqs EXCEPT ![r].pc = pc]
Done(r) == reqs' = [reqs EXCEPT ![r] = None]

-----------------------------------------------------------------------------
(* The administrator.                                                      *)

SuspendUser(r, u) ==
  \E until \in Time : until > now /\ Begin(r, "suspend", u, "write", until, 0, FALSE)
BanUser(r, u) == Begin(r, "ban", u, "write", NoEnd, 0, FALSE)
ReactivateUser(r, u) == Begin(r, "reactivate", u, "write", NoEnd, 0, FALSE)

(* The account.                                                            *)

\* isBlocked, of every authenticated request: a suspension whose end passed
\* lets the request in and is lifted in the background.
IsBlocked(u) == cache[u] # None /\ ~Expired(cache[u], now)
Visit(r, u) ==
  /\ cache[u] # None /\ Expired(cache[u], now)
  /\ Begin(r, "expire", u, "write", NoEnd, 0, FALSE)

\* A login reads the row, and checks it some awaits later.
Login(r, u) ==
  /\ row[u].status = "SUSPENDED"
  /\ Begin(r, "login", u, "check", NoEnd, 0, FALSE)
AssertAccountIsUsable(r) ==
  /\ At(r, "check")
  /\ IF Expired(reqs[r].seen, now)
     THEN reqs' = [reqs EXCEPT ![r].pc = "write", ![r].at = now]
     ELSE Done(r)
  /\ UNCHANGED <<calm, now, row, cache, appeals>>

-----------------------------------------------------------------------------
(* The write of the row, and after it that of the cache.                   *)

TargetKeepingEnd(q) ==                                          \* a mutant
  CASE q.kind = "suspend" -> [status |-> "SUSPENDED", until |-> q.until, since |-> q.at]
    [] q.kind = "ban" -> [status |-> "BANNED", until |-> q.seen.until, since |-> q.at]
    [] OTHER -> Active(q.at)
Target(q) ==
  CASE q.kind = "suspend" -> [status |-> "SUSPENDED", until |-> q.until, since |-> q.at]
    [] q.kind = "ban" -> [status |-> "BANNED", until |-> NoEnd, since |-> q.at]
    [] OTHER -> Active(q.at)

\* The handler goes on to the cache, unless the answer to its write is lost.
Committed(r) == Step(r, "effect") \/ (~calm /\ Done(r))

\* update of { id }, whatever the row says by now.
WriteStatus(r) ==
  /\ At(r, "write") /\ reqs[r].kind \in {"suspend", "ban", "reactivate", "login"}
  /\ row' = [row EXCEPT ![reqs[r].user] = Target(reqs[r])]
  /\ Committed(r)
  /\ UNCHANGED <<calm, now, cache, appeals>>

\* updateMany of { id, SUSPENDED, suspendedUntil <= at }.
ExpireAnyRestriction(r) ==                                      \* a mutant
  /\ At(r, "write") /\ reqs[r].kind = "expire"
  /\ row' = [row EXCEPT ![reqs[r].user] = Active(reqs[r].at)]
  /\ Committed(r)
  /\ UNCHANGED <<calm, now, cache, appeals>>
ReactivateIfExpired(r) ==
  /\ At(r, "write") /\ reqs[r].kind = "expire"
  /\ IF Expired(row[reqs[r].user], reqs[r].at)
     THEN /\ row' = [row EXCEPT ![reqs[r].user] = Active(reqs[r].at)]
          /\ Committed(r)
     ELSE Done(r) /\ UNCHANGED row
  /\ UNCHANGED <<calm, now, cache, appeals>>

\* markBlocked, clearBlocked, cache.delete.
InfoOf(q) ==
  IF q.kind \in {"suspend", "ban"}
  THEN [status |-> Target(q).status, until |-> Target(q).until] ELSE None
UpdateCache(r) ==
  /\ At(r, "effect")
  /\ cache' = [cache EXCEPT ![reqs[r].user] = InfoOf(reqs[r])]
  /\ Done(r)
  /\ UNCHANGED <<calm, now, row, appeals>>

-----------------------------------------------------------------------------
(* Appeals.                                                                *)

\* create reads the account,
FileAppeal(r, u) ==
  /\ row[u].status # "ACTIVE"
  /\ Begin(r, "appeal", u, "pending", NoEnd, 0, FALSE)

\* then looks for a pending appeal,
CheckNothing(r) ==                                              \* a mutant
  /\ At(r, "pending")
  /\ Step(r, "quota")
  /\ UNCHANGED <<calm, now, row, cache, appeals>>
CheckPending(r) ==
  /\ At(r, "pending")
  /\ IF \E i \in DOMAIN appeals : appeals[i].user = reqs[r].user /\ Pending(appeals[i])
     THEN Done(r) ELSE Step(r, "quota")
  /\ UNCHANGED <<calm, now, row, cache, appeals>>

\* then counts those of this restriction (getAppealAvailability),
AppealsSince(u, since) == {i \in DOMAIN appeals : appeals[i].user = u /\ appeals[i].at >= since}
\* twice the cooldown between the second and the third: half a suspension.
TwiceCooldown(account) ==
  IF account.status = "BANNED" THEN 2 * BanCooldown ELSE account.until - account.since
CooldownOver(second, account, t) == 2 * t >= 2 * second.resolvedAt + TwiceCooldown(account)

AvailableWithoutWaiting(u, account) ==                          \* a mutant
  Cardinality(AppealsSince(u, account.since)) < MAX_APPEALS_PER_RESTRICTION
Available(u, account) ==
  LET used == AppealsSince(u, account.since) IN
  /\ Cardinality(used) < MAX_APPEALS_PER_RESTRICTION
  /\ Cardinality(used) = 2 /\ ~Pending(appeals[Max(used)])
       => CooldownOver(appeals[Max(used)], account, now)
CheckAvailability(r) ==
  /\ At(r, "quota")
  /\ IF Available(reqs[r].user, reqs[r].seen) THEN Step(r, "insert") ELSE Done(r)
  /\ UNCHANGED <<calm, now, row, cache, appeals>>

\* and inserts.
CreateAppeal(r) ==
  /\ At(r, "insert")
  /\ Len(appeals) < IF calm THEN MaxFiled ELSE MaxRacing
  /\ appeals' = Append(appeals, [user |-> reqs[r].user, at |-> now,
                                 resolvedAt |-> NoEnd, approved |-> FALSE])
  /\ Done(r)
  /\ UNCHANGED <<calm, now, row, cache>>

\* resolve: the decision and, if approved, the reactivation, in a transaction
\* of which a second one for the same appeal finds nothing to update.
BeginResolve(r, i) ==
  \E approve \in BOOLEAN :
    Begin(r, "resolve", appeals[i].user, "write", NoEnd, i, approve)
Decided(q) ==
  [appeals EXCEPT ![q.appeal].resolvedAt = now, ![q.appeal].approved = q.approve]
ResolveAgain(r) ==                                              \* a mutant
  /\ At(r, "write") /\ reqs[r].kind = "resolve"
  /\ appeals' = Decided(reqs[r])
  /\ IF reqs[r].approve
     THEN row' = [row EXCEPT ![reqs[r].user] = Active(now)] /\ Committed(r)
     ELSE UNCHANGED row /\ Done(r)
  /\ UNCHANGED <<calm, now, cache>>
Resolve(r) ==
  /\ At(r, "write") /\ reqs[r].kind = "resolve"
  /\ IF ~Pending(appeals[reqs[r].appeal])
     THEN Done(r) /\ UNCHANGED <<row, appeals>>
     ELSE /\ appeals' = Decided(reqs[r])
          /\ IF reqs[r].approve
             THEN row' = [row EXCEPT ![reqs[r].user] = Active(now)] /\ Committed(r)
             ELSE UNCHANGED row /\ Done(r)
  /\ UNCHANGED <<calm, now, cache>>

-----------------------------------------------------------------------------
(* The rest of the world.                                                  *)

\* A query fails and changes nothing.
QueryFails(r) ==
  /\ reqs[r] # None /\ reqs[r].pc \notin {"check", "effect"}
  /\ Done(r)
  /\ UNCHANGED <<calm, now, row, cache, appeals>>

\* The server stops at any point and starts: onModuleInit loads the cache
\* before the first request is served.
RestrictionIn(rows, u) ==
  IF rows[u].status = "ACTIVE" THEN None ELSE [status |-> rows[u].status, until |-> rows[u].until]
RestartEmpty ==                                                 \* a mutant
  /\ reqs' = [r \in Requests |-> None]
  /\ cache' = [u \in Users |-> None]
  /\ UNCHANGED <<calm, now, row, appeals>>
Restart ==
  /\ reqs' = [r \in Requests |-> None]
  /\ cache' = [u \in Users |-> RestrictionIn(row, u)]
  /\ UNCHANGED <<calm, now, row, appeals>>

Tick ==
  /\ now < MaxTime
  /\ now' = now + 1
  /\ UNCHANGED <<calm, row, cache, appeals, reqs>>

Next ==
  \/ \E r \in Requests, u \in Users :
       SuspendUser(r, u) \/ BanUser(r, u) \/ ReactivateUser(r, u)
         \/ Visit(r, u) \/ Login(r, u) \/ FileAppeal(r, u)
  \/ \E r \in Requests :
       \/ AssertAccountIsUsable(r) \/ WriteStatus(r) \/ ReactivateIfExpired(r) \/ UpdateCache(r)
       \/ CheckPending(r) \/ CheckAvailability(r) \/ CreateAppeal(r)
       \/ Resolve(r) \/ QueryFails(r)
  \/ \E r \in Requests : \E i \in DOMAIN appeals : BeginResolve(r, i)
  \/ Restart \/ Tick

Spec == Init /\ [][Next]_vars

-----------------------------------------------------------------------------
(* Properties.                                                             *)

\* While requests about an account do not overlap, the cache decides what the
\* row says once no handler of the account is under way: a restricted account
\* is not let in, nor a free one kept out, although the two are written apart,
\* queries fail and the server may stop in between.
CacheCurrent ==
  calm => \A u \in Users : ~Busy(u) => cache[u] = RestrictionIn(row, u)

\* "O efeito imediato do ban": a banned account has no access once the
\* handlers are through, whatever ran beside the ban.
BannedStaysOut ==
  \A u \in Users : row[u].status = "BANNED" /\ ~Busy(u) => IsBlocked(u)

\* A restriction ends when its time is over, when an administrator ends it, or
\* (GuardLifts) when a login that overlaps a decision acts on the row it read
\* before: nothing else lifts it, whatever else overlaps or is lost.
LiftedBy(u, kinds) ==
  \E r \in Requests : /\ At(r, "write") /\ reqs[r].user = u
                      /\ reqs[r].kind \in kinds
                      /\ reqs'[r] # reqs[r]
GuardLifts(u) == ~calm /\ LiftedBy(u, {"login"})
LiftedLawfully ==
  [][\A u \in Users : row[u].status # "ACTIVE" /\ row'[u].status = "ACTIVE"
       => \/ Expired(row[u], now)
          \/ LiftedBy(u, {"reactivate", "resolve"})
          \/ GuardLifts(u)]_vars

\* "nunca reativar por engano uma conta que um admin, entretanto, tenha voltado
\* a mudar de estado": the same without the exception.
BanStands ==
  [][\A u \in Users : row[u].status # "ACTIVE" /\ row'[u].status = "ACTIVE"
       => Expired(row[u], now) \/ LiftedBy(u, {"reactivate", "resolve"})]_vars

\* An appeal is decided once, whoever else decides it, and an approval and the
\* reactivation come together.
DecisionsStand ==
  [][\A i \in DOMAIN appeals :
       /\ ~Pending(appeals[i]) => appeals'[i] = appeals[i]
       /\ appeals'[i].approved /\ ~appeals[i].approved
            => row'[appeals[i].user].status = "ACTIVE"]_vars

\* "You already have a pending appeal": a user waits for one answer at a time.
OnlyPending ==
  \A i, j \in DOMAIN appeals :
    appeals[i].user = appeals[j].user /\ Pending(appeals[i]) /\ Pending(appeals[j]) => i = j

\* A restriction has at most three appeals, one at a time and the third only
\* after the cooldown, if the requests of the user do not overlap.
AppealsPaced ==
  calm =>
    /\ OnlyPending
    /\ \A u \in Users :
         LET filed == AppealsSince(u, row[u].since) IN
         row[u].status # "ACTIVE" =>
           /\ Cardinality(filed) <= MAX_APPEALS_PER_RESTRICTION
           /\ Cardinality(filed) = 3
                => CooldownOver(appeals[Max(filed \ {Max(filed)})], row[u],
                                appeals[Max(filed)].at)
=============================================================================
