# Productivity_Maxing: a verification project

Productivity_Maxing is a study planner: a NestJS backend over PostgreSQL
(`backend`), a React web application (`frontend`) and a Windows agent in Go that
blocks distracting sites (`agent`). This directory holds TLA+ models of the parts
whose correctness depends on order, concurrency, failure or time, the TLC
configurations that check them on small instances, and TLAPS proofs of what
matters most for every value of the constants. Paths below are those of the
repository.

Contents: [the system](#1-the-system) · [the modules](#2-the-modules-and-the-code) ·
[the runs](#3-the-runs) · [fairness](#4-fairness) · [the proofs](#5-the-proofs) ·
[counterexamples](#6-where-code-and-text-disagree) ·
[limits](#7-what-is-not-modelled) · [plan](#8-plan).

## 1. The system

One backend process runs; a request handler is interrupted at every `await`, and
other handlers run in between. PostgreSQL works at Read Committed: every statement
sees what was committed before it, and a writer that finds a row locked waits, then
tests its `WHERE` again. The process also keeps state in memory (caches, the memory
of token rotations) that a restart loses. Browser tabs and the agent send requests
concurrently, repeat them, and lose answers.

| Part | State | Operations | What makes it correct |
| --- | --- | --- | --- |
| Device sessions (`user-sessions.service.ts`, `session-token.service.ts`) | table `UserSession`, `User.tokenVersion`, the Map of last rotations | login, refresh (a transaction with a compare-and-swap), revoke one, revoke all others, global switch, cron cleanup | one chain of refresh tokens per device; a revoked session stays revoked; a global switch ends every session of an earlier version; no deadlock |
| Session caches (`session-state.service.ts`, `jwt.strategy.ts`) | two Maps with a TTL | lookup and fill, invalidation | a request is let in on stale words no later than the TTL |
| Account restrictions (`account-status`, `account-guard`, `users`, `appeals`) | status of the row, cache of restricted accounts, appeals | suspend, ban, reactivate, expiry in the background and at login, file and decide appeals | the cache follows the row; a restriction is lifted only lawfully; appeals are limited and decided once |
| Study sessions (`study-sessions.service.ts`) | table `StudySession`, heatmap cache | start, heartbeat, distraction, stop, manual entry, edit, delete, automatic close, heatmap | one active session; no minute counted twice; no hours nobody studied |
| Windows agent (`agent`) | the hosts file, the last decision, the key | poll, decide, edit the hosts file, signal, tray exit | the block follows the account; other programs' lines survive; nothing stays blocked after a deliberate exit |
| Pads (`pads.service.ts`, `useVersionedDoc.ts`) | table `Pad`; the state machine of each tab | optimistic save, lock, expiry, deletion; edit, poll, conflict, leave | nobody's text is overwritten unseen; nothing unsaved counts as saved |
| Refresh client (`api/client.ts`, `AuthContext.tsx`) | shared cookies; per tab the account shown, the CSRF token, the refresh under way; the queue of the Web Lock | login, start, call, refresh on 401, new CSRF token on 403, logout, reload | tabs never make the server take their own refresh for a reuse; a tab writes into the account it shows |
| Two-factor (`two-factor.service.ts`) | secret, last TOTP step, recovery codes; the Map of failures | setup, confirm, check a code, turn off | a code is accepted once; wrong codes are limited; what is on was confirmed |
| Class groups (`turmas/*.service.ts`) | members and roles, invitations, shared content, files in storage | create, join, invite, leave, remove, hand over, delete, share, close an account | one delegado per class; nothing that people published who are gone, no file that lost its row |
| Tasks (`tasks.service.ts`, `weight-budget.ts`) | table `Task`, weights of grade components | create, import, update, complete by six handlers, follow-ups, bulk changes | date of completion goes with the state; nothing is followed up twice; 100 per cent per course, but for a tolerance |
| Task packs (`task-pack-sync.service.ts`) | items, imported tasks, pending proposals | publish, import, replace, accept, refuse | everybody who follows a pack as it was gets what is published, once |
| Friends (`social.service.ts`, `friend-links.service.ts`) | tables `Friendship` and `UserBlock` | ask by code, classmate, e-mail or link; accept, remove, block | nobody is a friend without wanting it; one row between two people; a block leaves none |
| Shared notes (`notebook/*.service.ts`, `share-role.util.ts`) | a link per note, a row per guest, proposals, leave to read | share, invite, ask, decide, edit, propose, read | access ends with what it rests on; a proposal is applied once, if approved |
| API keys, OAuth, e-mail verification | keys, links, tokens | create, verify, link | - |
| Calendar, push, reminders | external ids, sent marks | upsert at an external service, send once | no duplicates under failure |
| Finance, study plan, predictions, grades | rows of one user | CRUD and computations | idempotent creation; sums and weights |
| Everything else | - | single statements, rendering, I/O | - |

Interactions: a login asks AccountRestrictions before UserSessions inserts a row; the
guard of every request reads the session caches and the cache of restricted accounts;
the cron of `reminders.service.ts` calls the cleanup of sessions and the expiry of
pads; the agent reads tasks and the focus state, that is the study sessions, through
an API key. The hard behaviours are those of PROJECT.json `hazards`: each is tied to
the line where it bites and to the properties that watch it.

## 2. The modules and the code

A step of a model is one database statement, one message or one synchronous stretch of
code, with everything the code does in it. Control is kept in full; texts, labels,
logging and formats are not.

| Module | Models | Notes |
| --- | --- | --- |
| `SessionState` | the two caches of `session-state.service.ts` | pure operators over cache contents and time |
| `RotationMemory` | the Map of rotations of `user-sessions.service.ts` | `rotationOrder` is the insertion order of the JavaScript Map; eviction, undo and the grace rule are operators |
| `UserSessions` | device sessions, composed with the two above | one action per statement; row locks of transactions in `rowLock`/`userLock`; `last`, `cutAt`, `endOf`, `signedOut` are history that no guard reads |
| `RefreshChain` | what the class comment of `UserSessionsService` promises, without transactions, memory or requests | abstract specification; `UserSessions!ImplementsChain` is the refinement |
| `StudySessions` | `study-sessions.service.ts`, one user | checks and writes are separate steps; the plan of a tab is in the row only for the properties; `calm`, chosen once per behaviour: one request follows the other |
| `AccountRestrictions` | `account-status`, `account-guard`, `users`, `appeals` | `calm` is chosen once per behaviour: in a calm one the requests about one account do not overlap and no acknowledgement of a commit is lost |
| `HostsFile` | `blocker/hosts.go`: how the file is cut and spliced | a file is a sequence of classified lines |
| `BlockingAgent` | `main.go`, `rules.go`, `tray_windows.go`, the API client, composed with `HostsFile` | the account is the environment (`server`); ticks, exit, crashes and foreign edits interleave |
| `Pads` | `pads.service.ts` and the hook that edits a pad | `life`, `blind` and the text of a snapshot are ghost data that no guard of the code reads |
| `RefreshClient` | `api/client.ts`, `userService.ts`, `AuthContext.tsx` and the CSRF guard, for the tabs of one browser | the backend is `RefreshChain`: the same abstract specification that `UserSessions` implements, so what is shown of the tabs holds with that server |
| `TwoFactor` | `two-factor.service.ts`, `totp.util.ts`, one account | time in TOTP steps; a code is its secret and step, or its set and number; `calm` as in `StudySessions` |
| `Turmas` | one class: the six services of `turmas/`, and `deleteAccount` where it touches classes | `serial`, chosen once per behaviour, is the `calm` of this module and of `Tasks`, and `going` their request slots (names of their own, as their proofs share a module with those of another component); any request may break off before any statement (`BreakOff`); `aborted` remembers an account deletion that broke off after it released its classes, `listed` the files that ever had a row |
| `TaskPacks` | one item of a pack, the owner's task, the tasks of colleagues | two fields with two values are enough for one to be changed and the other not; `own` says that a task differs by its user's own doing, `taken` that it differed already when it was linked (`linkLegacyItems` compares title and date only, and runs again when the source was deleted: `sourceTaskId` is then null) |
| `Tasks` | tasks and grade components of one student | weights and days in a few steps, `Epsilon` is `WEIGHT_EPSILON` in those of weights; `today` goes on by `NextDay`; the follow-ups are the awaits after the update; `split` remembers the courses in which an occurrence left its series |
| `Friendships` | `social.service.ts`, `friend-links.service.ts` | one row per direction; `agreed` is history; `calm` as in `StudySessions` |
| `NotebookSharing` | ONE note, its owner and guests: the services of `notebook/` that share it, composed with `Friendships` | a row that is deleted makes the requests that hold its id miss it (`Gone`); `written`, `met`, and `asker` and `willing` of a row are history |
| `MC*` | instances: model values, sets too long for a `.cfg`, symmetry, and a variable (`about`) that chooses once per behaviour which disturbances it has | |
| `*Proofs` | theorems and lemmas | three modules hold those of two components that share no variable, one after the other: `SharingProofs` also `Turmas`, `PadsProofs` also `TaskPacks`, `StudySessionsProofs` also `Tasks` |

Correspondence of state: a request slot (`rot[r]`, `kill[k]`, `login[l]`, `guard[g]`,
`req[q]`, `reqs[r]`, `going[r]`, `save[e][s]`) is a handler that is under way, with a program counter
and the local variables it still needs; an idle slot is no request. A slot may be used
again for ever, so a run has any number of requests, as many at a time as it has slots.
What is external (row locks, COMMIT, rollback, the operating system killing the agent,
other editors of the hosts file) is marked so in PROJECT.json `map`.

Time is a clock that ticks at will up to a bound; durations are the constants named after
those of the code. One unit stands for whatever makes the comparisons of the code come out
both ways: a window of 1 is met at distance 0 and 1 and missed at 2.

Operators marked `\* a mutant` are wrong variants of the operator that follows them. The
specification does not use them; PROJECT.json `mutants` names the property that each breaks.

## 3. The runs

Run one with `tlc -workers 2 -config X.cfg MODULE`.

| Run | Module, cfg | Shows | Bounds |
| --- | --- | --- | --- |
| `rotation` | MCUserSessions, Rotation | Committed rotations are lawful (`RotationsLawful`): the current token, or once the one before it within the window; a revoked row is final (`RevokedStaysRevoked`); all of it implements the chain of tokens (`ImplementsChain`); no request is let in later than the TTL of the caches after its device or version ended (`StalenessBounded`) | 1 session, 2 refreshes, 1 revocation, 1 login, 3 tokens, clock to 2, window 1, TTL 2; rollbacks, cleanup, restarts. In other behaviours 2 guards with a revocation or a switch, cache TTL 1, evicting cache of 1 |
| `switch` | MCUserSessions, Switch | A refresh never renews a session of a version that ended before it began (`KillSwitchCuts`); the memory keeps its limit and order (`MemoryWithinLimit`); every refresh and switch ends (`RequestsAnswered`) | 2 sessions, 1 refresh, switches from 2 devices of which one commits, 1 login, room for 1 remembered rotation, lost outcomes of COMMIT |
| `study` | MCStudySessions, Study | Requests one after the other: `NoOverlapWhenCalm`, `SoundWhenCalm`; overlapping ones: `NoGhostHours`, `ClosedStaysClosed` | 2 rows, clock to 3, session of at most 2, tolerance 1; 1 row, 2 requests, clock to 2 where they overlap |
| `agent` | MCBlockingAgent, Agent | Under signals, tray exits, crashes and failing writes: `OneBlock`, `CleanExit`, `OthersKept`, `FailClosedKeeps`; once the account settles: `OpensInTheEnd`, `BlockedWhileDue` | 1 configuration and 1 foreign line with faults; 3 configurations without |
| `account` | MCAccountRestrictions, Account | Calm behaviours: `CacheCurrent`, `AppealsPaced`; all behaviours: `LiftedLawfully` | 1 user, 2 requests, clock to 2, 4 appeals (1 when not calm) |
| `pads` | MCPads, Pads | `NothingOverwrittenUnseen`, `LockHolds`, `SavedIsStored`; `FollowsThePad` | 2 tabs, 1 account that locks, 1 tab that polls, 1 that leaves, 2 texts, 3 versions, 2 lives of the pad |
| `client` | MCRefreshClient, RefreshClient | `SessionKept`, `WritesAreOwn`, `NobodyWaitsInVain`, `OnlyEndedSignedOut` | 2 tabs, 2 accounts one after the other, 2 refreshes, 1 lost answer or refresh of a closed tab, 1 tick; of the second account only 1 refresh, which a call needs |
| `codes` | MCTwoFactor, TwoFactor | Requests one after the other: `CodesSoundWhenCalm`; any: `GuessesBounded` | 2 requests, 2 secrets, 2 recovery codes, lock after 2 failures for 2 steps, clock to 3; 1 secret and 2 accepted codes where they overlap |
| `turmas` | MCTurmas, Turmas | Requests one after the other: `OneDelegate`, `NothingLeftBehind`; with overlapping ones: `ChargeRestored` | 3 people of whom a given one founds the class, 2 requests that may break off before any statement, 3 joins, 1 invite and 1 shared thing at a time, 1 file, accounts closed by members |
| `packs` | MCTaskPacks, TaskPacks | `OnePending`; requests one after the other: `InSync` | 1 colleague, 2 fields of 2 values, 3 publications, 3 proposals, 3 edits (2 where requests overlap, and there a deleted source is not made again), failing steps |
| `tasks` | MCTasks, Tasks | `StampedWhenDone`, `FollowUpsOnce`, `WeightFits` | one request after another: 3 tasks of one series in days 0 to 2, without weight, that is completed, reopened and moved; overlapping requests for different tasks: 2 tasks on one day with their follow-ups, 2 titles, 2 courses, weights of 0, 1 (the tolerance) and 2 (100 per cent), grade components, 1 review, the combinations that `OneDay` names; steps fail |
| `sharing` | MCNotebookSharing, Sharing | Any requests: `CutAtOnce`, and of `SharingSound` that friends agreed; requests one after the other: the rest of `SharingSound` (one row between two people, none beside a block, proposals applied exactly if approved) | owner and 1 guest, limits 1, 2 requests to become friends, 2 requests about the note of which 1 changes something when they meet, 2 texts, 2 proposals |

A question that two disturbances could spoil is asked of each alone where both together
are beyond TLC: the variable of the MC module picks one per behaviour, and the definition
`MixedNext` (or `BoundedNext`) names what it bounds. The type invariants are proved (section 5) and no run spends
time on them.

Why the bounds are enough. The rules of rotation compare a token with the current and the
previous one: the third token gives an older one, and the clock passes the window. Two
refreshes already give every order of the two reads, the compare-and-swap, the memory, the
commit and the undo; a third only waits for the same row lock. Refreshes of different
sessions meet in the Map alone, which `switch` fills beyond its limit. Users meet in nothing
that is modelled of sessions, appeals or study sessions: every query filters by user, so one
user is enough, except for the eviction of the user cache, which is an action that may drop
any entry. A race in study sessions needs two requests; the bounds let a session become
stale, exceed its maximum and be edited afterwards. An appeal limit of three with a cooldown
before the third needs four attempts. Three versions and two texts let a save be overtaken,
retried and overtaken again; for any number of lives and texts the safety properties of pads
are proved. Of tabs, two give the reader and the writer of every cookie, and the queue of the
lock its second place; the second account logs in where the first left its calls under way. A
class with three members has a delegado, one who takes over and one who watches; a fourth adds
another of the last kind. A proposal is computed from one item and one task, whoever else has
imported it; two fields give changes that meet and changes that do not. Two tasks compete for
the weight of a course, or of the course that one of them moves to, or are an occurrence and
the next; two next occurrences can only be there beside the task whose completion made them, so
the series has three, and three days for a task completed again on a later one. Which file
is stored matters to nobody but its row, so one is enough.

Deadlock is checked only in the runs whose environment never stops (`account`, `agent`):
in the others the clock, the tokens, the rows or the texts of the bounded instance run out,
which is no behaviour of the system. That the handlers of sessions do not wait for each
other is `RequestsAnswered`; that the tabs do not wait for the lock in vain is
`NobodyWaitsInVain`, a state property, and `CallsEnd`, by hand: `RefreshClient.cfg` with
`SPECIFICATION FairSpec`, `Sessions <- OneSession`, `MaxLost = 0`, `PROPERTIES CallsEnd` and no
symmetry passes in some minutes. The bounds of `client` are in MCRefreshClient (`BoundedNext`);
the module itself, which the theorems are about, has only those of lost answers and of time.

## 4. Fairness

* `UserSessions!FairSpec`: strong fairness of the next step of every refresh and of every
  switch, weak fairness of what follows a revocation. The event loop runs every handler, and
  PostgreSQL serves a row lock in the order of its queue, so a transaction that finds the
  lock free again and again obtains it. Nothing makes a client send a request.
* `BlockingAgent!FairSpec`: weak fairness of the poll loop and of the way out. The ticker
  fires for ever, and each request of a tick has a timeout. Strong fairness of a write that
  succeeds: every tick tries again, and a program that has the hosts file open lets go of it.
  The liveness properties assume in their premise that from some time on the agent runs
  elevated, and the account is reachable and does not change.
* `Pads!FairSpec`: a visible tab polls (`setInterval` every three seconds; a hidden one does
  not), and strong fairness of the server's answer and of its arrival: requests may be lost,
  not all of them for ever. Nothing makes a user type, send or leave.
* `Turmas!FairSpec`: requests under way go on, and members open the class again and again
  (strong fairness of `Get`, which is where the code repairs a class without delegado), and
  the two statements of a look that repair it do not fail each time (strong fairness of
  `CountDelegates` and `Promote`: any request may break off): the property says that
  looking is enough, not that anybody looks.
* `MCRefreshClient!FairSpec` (by hand): the server answers and the browser grants the lock to the
  head of its queue; weak fairness is enough, as Web Locks are granted in order.

## 5. The proofs

`tlapm M.tla` checks a module. There are no assumptions but the named `ASSUME`s on constants
(sets of the right kind, natural numbers, `None` not a request, ...), which TLC evaluates in
every run.

* `UserSessionsProofs`. `TypeCorrect`: `TypeOK` is inductive because a busy slot refers only
  to rows and users that exist. `KillSwitchHolds` needs `SessionInv`: a lock holds an image of
  its row that keeps the row's version and user (`LockedRows`); a session id that no login
  used has no row (`UnusedSessions`); the version in a transaction is that of whoever holds the
  user's lock (`BumpsOwned`); and a refresh that read its row remembers a version at least the
  one that was committed when it began (`FloorsKept`), which the test of `ReadUser` enforces
  and no later step can lower. The invariant alone says nothing of the row that is swapped:
  the compare-and-swap is what ties the two. `RevocationIsFinal` is the action property,
  from the locks: the only writer of a revoked row is the cron that deletes it.
  `MemoryIsBounded` (`MemoryInv`): the insertion order of the Map is a total order of exactly the
  keys that are remembered, and a finite nonempty order has a first key, so that eviction always
  finds the oldest and makes room; also where a session that is remembered already is written again and
  an undo restores its place, for which the rotations of the run `switch` are too few. `StalenessHolds` (`StaleInv`): the end of a version and the
  revocation of a row are written once (`CutIsFinal`), and what an entry of a cache says, or a
  request in flight has read, was true when its lookup BEGAN, from where the life of the entry
  counts; a fill that overtakes an invalidation is an old truth that ends as early as one that
  does not.

  `RotationsAreLawful` is hard because what a rotation is granted on is a Map in
  memory that other transactions write before they commit, undo after they failed, and lose. The
  invariant says who holds which row (the transaction whose image the lock has); that the tokens
  of a row and of the rotations under way are at most those minted, and that what a rotation
  will write is minted last and is in no row; that the entry of the memory
  tells of the last committed rotation (`OfLast`), or has as previous token the one that is
  still current, so that it tolerates nothing that the current token does not already allow; and that
  the entry an undo puts back was true when it was taken out and still is. Steps are either `Calm`
  (rows and history stay) or `Telling` (a commit, which must find the memory telling of it).
  `ChainImplemented` maps every step to one of `RefreshChain` or to a stutter by the same invariant:
  only a commit rotates, only a commit or the deletion of a row ends a session. Both assume
  `~CommitsMayBeLost`: where a COMMIT is applied and reported as an error, the undo of
  `user-sessions.service.ts` restores an entry that is no longer true, and the statement is false
  (SessionRaces, section 6).
* `StudySessionsProofs`. `GhostHoursNeverCredited` needs `StudyInv`: heartbeats lie in the past
  and only grow, so the heartbeat in the row that a request read is never newer than the one in
  the table (`HeartsGrow`), and an active row has never been closed (`RunningUnclosed`).
  `ClosedForGood` follows from the guards on `endedAt` in each update.
  `NoMinuteTwice` and `SessionsAreSound` are about the behaviours in which no two requests overlap
  (`calm`), the only ones in which they are true (StudyRaces, section 6). `SerialInv`: what
  the one request under way has read is still so (`StillTrue`: the session to be closed or stopped
  is active, none is active where one is to be created, a window that passed `validate` lies in the
  past and overlaps nothing), and a running session is apart from the finished ones in a way that
  survives whatever end it gets, since no end lies before its start (`RowsApart`).
* `StudySessionsProofs`, second part: `Tasks`, for any number of tasks, courses and requests.
  `StampedAlways`, `FollowUpsOnceAlways` and `WeightFitsAlways` are about the behaviours in which no
  two requests overlap that are for one task or both add weight (`TaskAlone`: `serial`, or a
  system with `Together = FALSE`); TasksRaces, section 6, has the others. `TasksInv`: what a request
  knows of itself whatever overlaps (`TaskTyped`); requests are for different tasks, and one of them at
  most adds weight (`TaskApart`); what a request read of its task is so until it writes, and
  what it found room for has room (`TaskMeaning`, `TaskRoom`). A course counts a series
  once, at its heaviest occurrence, so a change of one task is no sum of the old weight and
  the new: `LoadAll` is the cardinality of sets of pairs of a task or title and a unit of
  weight (`UsedIsAll`: it is what `weight-budget.ts` computes), to which a change adds pairs or from
  which it takes them (`AllPlus`, `AllKept`, `AllGrown`, `AllRepeated`). A weight within the
  tolerance is accepted even where nothing is left, so the budget that is kept is that of the others:
  `Load` is `LoadAll` of the table with those weights struck out (`Struck`), never more than
  what is computed (`UsedCoversLoad`), and `TaskBudget` bounds it by `Full + Epsilon`, which a
  comparison with the tolerance gives exactly (`TaskFits`). `LoadBoundsGraded` says by an injection
  that then no choice of one occurrence per series weighs more, which is what a student is graded on.
  `TaskSpawnedOnce` says that two occurrences made by completing differ in title, course or date,
  whatever day it is; it needs requests one after another, since two occurrences of one series are
  different tasks and make the same next one.
* `AccountRestrictionsProofs`. `CacheFollowsTheRow` needs that in a calm behaviour the handler
  with the cache still to write is the only one of its account (`OneAtATime`), that what it will
  write agrees with the row (`EffectAgrees`), and that the cache is current when there is none
  (`CacheFollows`); `LoginsCurrent` says that the row a login read is still the row.
  `LiftingIsLawful` and `DecisionsAreFinal` hold of every behaviour. `AppealsWaitTheirTurn`
  (`PacedInv`): what the handler of an appeal found (none pending, fewer than three, the cooldown
  over) is so until it inserts, and the appeals of a restriction keep their distances when an
  administrator decides one or another restriction starts and counts some of them again. It
  needs `BanCooldown` positive: with 0 a third appeal is filed in the same instant as the answer to
  the second.
* `PadsProofs`. `PadsInv` says that every snapshot under way (base of a tab, conflict, base and
  answer of a save, answer to a poll) was true of its version in its life of the pad
  (`Truthful`): never newer than the row, and of the same text if of the same version. It stays
  true because a version is only incremented and a new life has a number of its own
  (`TruthStays`). `NoBlindReplacement` is that fact at the `WHERE` of `updateFrom`;
  `LocksHold` and `SavedMeansStored` use the types only.
* `PadsProofs`, second part: `TaskPacks`, for any number of colleagues, fields and values.
  `OnePendingAlways` holds of all overlaps but that of two publications (`Lone`; TaskPacksRaces, section
  6, has that one). `Publishing`: what the publication read of the proposals
  is all there can be when it writes, as others only take proposals away, so that it replaces the one
  that waits. `InSyncProved` is about requests one after another (`InStep`): what the request
  under way has read is so; every task that was a copy of the item when it was linked and is unedited
  becomes the item when its proposal is accepted, or is the item if none waits (`Follows`).
  `linkLegacyItems` links other tasks too, by title and date and as they are: those are `taken`,
  and nothing is promised of them (`TakenInSync`, section 6). A publication that merges the new
  change into the waiting one keeps this since a field put back to its old value leaves the
  proposal (`DiffOverride`, `ProposedSound`); an acceptance that breaks off between the two writes
  keeps it because applying the same changes again changes nothing.
* `TwoFactorProofs`. `GuessesLimited` needs `GuessInv`: the wrong codes that the count in memory no
  longer covers lie a whole lock before the end of the present one, so that the first of any
  MaxFailed + 1 is old enough. Requests that overlap are no exception, because
  `registerFailure` reads and writes the Map without an `await`. `CodesAreSound` is about the
  behaviours in which requests do not overlap (TwoFactorRaces, section 6, has the others). `CodeInv`:
  the accepted codes of the app belong to secrets that were generated and, those of the present
  secret, to steps not after the one stored; no accepted recovery code is left in the row; and what
  the one request under way has read is still so.
* `SharingProofs`. `FriendsBothAgreed`: the one who asked has agreed while a row is there, and both
  have once it is accepted (`RowAgreed`), also for a request that read the row and is about to
  write it (`Past`). `CutForEverybody`: what a request has seen is in `met`, the roles that were
  in force at some moment since it began; the row that it holds is there or was then
  (`RowIsThere`). `NotebookLeavesFriends` shows that the composition is one: every step of
  `NotebookSharing` is a step of `Friendships` or leaves it alone, so its theorems carry over.
  `SharingIsSound`, where one request follows the other (`calm`; SharingRaces, section 6, has the
  others): between the reads and the write of a request to become friends nothing is blocked, and
  there is no row or the one it holds, which waits (`AskStill`); no two proposals have the same
  text, a text under way is in no proposal and not in the note (`Fresh`), and a proposal that was
  read is still the one that waits (`OfferStill`).
* `SharingProofs`, second part: `Turmas`, for any number of people and requests. `OneDelegateAlways`
  and `NothingLeftBehindAlways` are about requests that follow one another (`Serial`; section 6 has the
  others). The state between two statements of the request under way is described by where it is:
  who runs the class (`Run`: exactly one, or after the succession for a deleted account
  exactly one other), what it found of roles and members (`Charged`: the member that `remove` deletes
  is no delegado, the one that is promoted is still a member of the role it had), and what is
  shared and stored (`Kept`: each file in the storage that ever had a row has its content; each owned
  content has its member). What is true of idle states is not so of the others: between the promotion and
  the deletion of the user `deleteAccount` leaves a class with two delegados. A file that was
  uploaded and never got its row is no part of it (`NoStrayFiles`, section 6).
  `Run` has the exception `aborted`: a deletion of an account that breaks off after it released the
  classes leaves two for good (end of section 6).
* `BlockingAgentProofs`, over files of any length. The first half is about `HostsFile`: the lines the
  scanner keeps are numbered by how many were kept before them (`Ranks`, `LinesFacts`), so cutting
  the block out of a `Whole` file leaves the lines of the others (`RemovedFacts`), and putting one
  in leaves them around it (`AppliedFacts`); a file is whole if it has no marker and no name, or one
  start marker, names, and one end marker. `AgentInv`: the hosts file, and what the poll loop and
  `OnExit` have read and will write back, are whole, and while nobody else edits they have the same
  lines of others (`Files`), so that the two may overwrite each other in any order
  (`OneBlockOnly`, `OthersLinesKept`); once the poll loop has returned it writes no more, and a
  cleaned file stays clean (`Quiet`: `CleansUpOnExit`); the last genuine decision is what the
  tasks said last, and a kept one repeats it (`Heard`: `FailClosedHolds`). `OthersLinesKept`
  assumes `~EditsRace`, without which it is false (AgentRaces). That the agent never fails on
  the file (`Panics`) is a consequence: whole files have an end marker for their start marker.
* `RefreshClientProofs`, over any number of tabs and logins. `NobodyIsForgotten`: the queue of the
  lock holds exactly the tabs with a refresh, once each (`LockInv`), and what a tab waits for is
  under way (`WaitInv`). `OnlyTheEndedSignOut`: an access token that a refresh brought stays good
  until what waited for it has been repeated (`RenewedInv`), and a session that is over stays
  over. `TabsWriteTheirOwn`: the cookies that go round in answers are of the newest login, whose CSRF
  token only a tab has that shows its account (`OwnInv`, `OwnTabInv`); so a tab left behind
  by a login has the wrong CSRF token. `RefreshesAreNoReuse`: one refresh at most is away, that of
  the tab with the lock, sent with the cookies the browser still has (`FlightInv`); the
  browser's token is the current one, or after a lost answer the one just replaced in exchange for
  itself (`Good`), which the server grants once more. The hypotheses of the last two are what the
  browser must provide: without `~Crossing` the browser holds cookies of two accounts; without
  Web Locks, with a late refresh of a closed tab, or with two lost answers the server sees a reuse
  (RefreshRaces, section 6). All four theorems are about `Spec`, with none of the bounds of TLC but
  that on lost answers.

The assumptions are, besides types: `None` is not a row, a request, a session, an access, a number
or a session id (`NoneAssumption`, `NoRowAssumption`, `NoAccessAssumption`), logins are numbered from
1 (`Sessions \subseteq Nat \ {0}`; 0 stands for no cookie), the cooldown between appeals is
positive, a configuration of the agent has finitely many domains, `Nothing` is no row of a pack
(`NothingAssumption`), and the colleagues of a pack and the slots for requests about tasks are finitely
many (so that proposals, and the tasks made by then, can be counted).

Every safety property and every action property that a run checks is stated by a theorem, with the
exceptions in its hypothesis that are named above. Model-checked only: what is about liveness
(`RequestsAnswered`, `OpensInTheEnd`, `BlockedWhileDue`, `FollowsThePad`, `ChargeRestored`), since
fairness and ENABLED are out of the prover's reach.

## 6. Where code and text disagree

Each has a configuration to be run by hand (where it is that of a run, with the property in the place of
those it has), and a shortest behaviour that TLC prints. (Where a configuration lists several properties
TLC stops at the first; leave one in to see the others.) Each is a statement of the repository that the
code does not keep when requests overlap, steps fail, answers are lost or processes end, or, where the
row says so, one request after another.

| cfg (module) | Property | What happens |
| --- | --- | --- |
| AccountRaces (MCAccountRestrictions) | `BanStands` | A login reads a suspension that ran out, the account is banned, the login reactivates it by id alone (`account-guard.service.ts:33`). |
| | `BannedStaysOut` | The COMMIT of a ban is applied and reported as an error, or row and cache of a ban and of an expiry are written in opposite orders: the account is banned and let in. |
| | `OnlyPending` | Two submissions at once both pass the check and both insert. |
| SessionRaces (UserSessions) | `KeptDeviceSurvives` | A refresh of the device that a global switch keeps reads session and user in two SELECTs around the switch and revokes it (`session-token.service.ts:81` says it sees everything before or everything after). |
| | `RotationsLawful` | The COMMIT of a rotation is applied and reported as an error: the undo restores an older entry, and a token two rotations old is renewed. |
| | `RevokedRefusedAtOnce` | A cache fill that overlaps the revocation stores the old answer after the invalidation: the device is let in until the TTL ends. |
| StudyRaces (StudySessions) | `OneActive`, `NoOverlap` | Two tabs start, or enter sessions, at once: check and insert are separate statements. |
| | `HeatmapFresh` | A grid computed before a change is stored after the cache was cleared. |
| | `EndIsTheUsers` | An automatic close overwrites the end of a session stopped meanwhile. |
| | `PlannedBlockSurvives` | `GET /active` closes as lost a session inside its planned block. |
| AgentRaces (MCBlockingAgent) | `CleanExitAlways` | Exit in the tray cleans the file while a tick is about to write it: it stays blocked. |
| | `OthersKept` | A line added by another program between the read and the rename is lost. |
| | `FailClosedSurvivesRestart` | failMode CLOSED keeps a decision that lives in memory: after a restart without the API the block is lifted. |
| PadsRaces (Pads) | `NothingOverwrittenBlindly` | The view answered to a save is read after it (`pads.service.ts:222`): it may carry the version of a later save by another tab, of which the hook takes the version only; its next save overwrites that text unseen, without a conflict. |
| | `NothingLeftUnsent` | What is typed while a save is under way is not sent when the tab is left: `flushOnLeave` (`useVersionedDoc.ts:145`) acts on 'dirty' and 'error', not on 'saving'. |
| Turmas (MCTurmas) with `SPECIFICATION TurmasSpec`, `Racing = {"transfer", "join", "share", "kick"}` and the property alone | `NeverTwo` | A delegado hands over in two tabs at once: each transaction promotes its member, and the class has two (`turmas.service.ts:313`). |
| | `NoOwnerGone` | A pack or course is shared while its owner is removed: it stays in the class. |
| Turmas (MCTurmas) | `NoStrayFiles` | One request at a time: an upload ends between the file and its row (`turma-files.service.ts:96`, `:106`), and the class is deleted. `removeAllFor` (`:135`) reads the rows, so that the file stays, although `:134` is there so that the storage is cleared too. |
| TaskPacksRaces (MCTaskPacks) | `OnePending` | Two publications at once each leave a proposal ("No maximo um PENDING por task"). |
| | `InSyncAlways` | An import that read the pack before a publication links its task after it: the change never reaches it. A publication that puts a value back while the earlier proposal is being accepted is lost. |
| | `TakenInSync` | One request at a time: an import ends between the task that it creates and its link, the task is completed, the owner publishes a change, and the next import links the task as it is, as one of the new version. `linkLegacyItems` (`task-pack-sync.service.ts:304`) links such a task by title and date, once more after the source was deleted. Either way the colleague never receives the change ("cada colega que o importou recebe um pedido", `:126`). |
| | `HistoryAlwaysKept` | A task completed between the read and the deletion of a replacing import is deleted. |
| TasksRaces (MCTasks) | `StampedWhenDone` | Two updates of one task at once: each compares its state with the one it read, so a task is reopened and keeps its date of completion, or is completed without one (`tasks.service.ts:531`). |
| | `FollowUpsOnce` | Two completions of one task at once both find no follow-up and create it. |
| | `WeightFits` | Two requests add weight at once: each finds room. |
| Tasks (MCTasks) | `NextOnce` | One request at a time: a task is completed, reopened, and completed again on a later day. The next occurrence is then another day than that of the first time, so the look for a duplicate (`tasks.service.ts:697`, "Concluir -> reabrir -> concluir outra vez nao pode duplicar a proxima") does not find the open one, and the series has two. |
| | `NeverOverFull` | One request at a time: a weight of at most `WEIGHT_EPSILON` is accepted at a full course, any number of times (`weight-budget.ts:85`); so the sum exceeds 100 per cent (`:6`, "nunca pode passar disto"). An occurrence that is renamed, or loses its recurrence, leaves its series and counts on its own: the same. |
| RefreshRaces (MCRefreshClient) | `WritesAreOwn` | An answer with cookies crosses the login of another tab (`Crossing`): the browser then holds cookies of two accounts, against `client.ts:33`. |
| | `SessionKept` | With `HasLocks = FALSE`, or `LateStrays = TRUE` (the refresh of a closed tab arrives after the next one), the server takes a tab's own refresh for a reuse. |
| TwoFactorRaces (TwoFactor) | `SpentOnce` | Two requests at once accept one code: the last step is written by id alone, and the recovery codes that are left are computed from the row read before (`two-factor.service.ts:216`, "sem reutilização", "gasta-se"). |
| | `EnabledIsProven` | A setup begun twice stores its second secret after the first was confirmed. |
| SharingRaces (MCNotebookSharing) | `OneTie` | Two people ask each other at once: two rows ("o service impede a direcao inversa duplicada"); removing one leaves them friends by the other, if both were accepted. |
| | `BlockCuts` | A request passes the check for blocks before a block commits and inserts its row after: a row beside a block, which can be accepted. |
| | `OffersKept` | Two decisions about one proposal at once, or a replacement between read and decision: the text of a rejected proposal is in the note, or an approved one is not the last that was proposed. |
| SharingAlone (MCNotebookSharing) | `AskedIsTheOwners` | A guest who declined an invitation asks by the link: the upsert keeps `invitedByOwner`, so the request waits for the guest, and the owner who decides gets a 409 (`notebook.service.ts:709`, `:795`). |
| | `WantedAccess` | The owner approves an invitation that was declined (`decideAccessRequest` refuses only pending ones), though nobody "recebe acesso sem querer" (`notebook-invite.service.ts:38`). |
| | `FriendsWithinLimit` | `SocialService.accept` checks no limit, though the link has it "como num pedido aceite" (`friend-links.service.ts:99`). |
| | `PeopleWithinLimit` | Only `invite` counts the people of a note; `requestAccess` does not ("convites + pedidos", `notebook-invite.service.ts:12`). |

Not in a model of their own, but met on the way: `deleteAccount` that fails after
`releaseTurmasOfDeletedUser` has promoted a successor leaves two delegados, although
`auth.service.ts:146` says that nothing irreversible has happened (`Turmas` marks it `aborted`);
`bulkUpdateStatus` to COMPLETED creates no follow-ups, so a series ends there; `confirmOverdue`
stamps a completed task again.

## 7. What is not modelled

Component by component in PROJECT.json `components`, with the reason. In short: services that
run single statements over the rows of one user; rendering; calls to mail, storage, Supabase
and Google; the processes that the agent kills (it keeps no state between two polls). Left out
of modelled parts: labels of devices, listings, statistics, the wording of errors, and the
tests of the input by the DTOs, of which only the results reach the models; the checklist and the
attachments of tasks; notices, deadlines and notes of a class; catalogue and ratings of packs; the
fall-back of `ensureFreshSession` to `GET /auth/me`, the upgrade of sessions from before refresh
tokens, and the answers 503 and ACCOUNT_BLOCKED; the challenge token of the second step of a login;
friend codes and signatures of links; the contents and the deletion of notes, and the courses that a
leave to read is limited to. Several backend
instances are not modelled, as the deployment runs one.

## 8. Plan

Done: the modules of section 2, and the theorems of section 5.

Next, in this order:

1. `Reminders` (at most one notification per reminder under failed delivery), and the banned
   addresses.
2. Operators for the pure algorithms (streak, rules of approval) against reference definitions.
