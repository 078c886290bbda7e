-------------------------------- MODULE Turmas --------------------------------
(***************************************************************************)
(* One class group: who is in it, who runs it (its delegado), who is asked *)
(* in, and what its members share there (turmas.service.ts,                *)
(* turma-invites.service.ts, turma-packs, turma-linked-areas,              *)
(* turma-files.service.ts, turma-account-cleanup.util.ts).  A step is one  *)
(* statement or transaction of a request; checks that follow one another   *)
(* and only refuse are one step.  A request that is refused changes        *)
(* nothing and is left out; one that is under way may end before any of    *)
(* its statements.                                                         *)
(***************************************************************************)
EXTENDS Integers, FiniteSets

CONSTANTS
  Users, TurmaRequests, Nobody,
  Paths,          \* of files in the storage, made up anew for each upload (a bound)
  MaxMembers,     \* MAX_MEMBERS_PER_TURMA
  Racing,         \* the operations whose requests may overlap (a bound)
  MaxJoins,       \* bounds: rows of members ever created,
  MaxContent      \* and things shared at a time

Operations == {"join", "accept", "invite", "leave", "delete", "kick", "transfer", "get",
               "share", "close"}
ASSUME TurmasAssumption ==
  /\ Nobody \notin Users \cup Paths /\ Racing \subseteq Operations
  /\ {MaxMembers, MaxJoins, MaxContent} \subseteq Nat

\* Published subjects and packs are taken back when their owner goes; files
\* (and notes, announcements, deadlines) stay with the class.
Kinds == {"owned", "file"}
Content == [kind : Kinds, by : Users, path : Paths \cup {Nobody}]
TurmaRequest ==
  [op : Operations \cup {"none"},
   pc : {"idle", "enter", "dropInvite", "putInvite", "others", "storage", "delete", "remove",
         "handover", "count", "promote", "upload", "put", "successor", "erase"},
   user : Users \cup {Nobody}, target : Users \cup {Nobody}, led : BOOLEAN, seen : Nat,
   kind : Kinds, path : Paths \cup {Nobody}]

VARIABLES
  state,        \* of the row of the class
  row,          \* of each member the number of its row, by joinedAt; 0: no member
  joins,        \* rows created
  delegates,    \* the members whose role is DELEGADO
  invites,      \* those with a pending invite
  content,      \* the rows of what is shared
  stored,       \* the files in the storage,
  listed,       \* and those that ever had a row
  accounts,     \* the users that exist
  aborted,      \* a delegado was replaced and the account not deleted after all
  going,        \* the requests under way
  serial        \* in this behaviour requests do not overlap

turmas == <<state, row, joins, delegates, invites, content, stored, listed, accounts, aborted,
            going, serial>>
files == <<stored, listed>>
shared == <<invites, content, files>>

NoRequest == [op |-> "none", pc |-> "idle", user |-> Nobody, target |-> Nobody, led |-> FALSE,
              seen |-> 0, kind |-> "owned", path |-> Nobody]
Members == {u \in Users : row[u] > 0}
AllIdle == \A r \in TurmaRequests : going[r] = NoRequest
MayJoin == joins + Cardinality({r \in TurmaRequests : going[r].pc = "enter"}) < MaxJoins
\* orderBy: joinedAt asc
Oldest(S) == {u \in S : \A v \in S : row[u] <= row[v]}

TypeOK ==
  /\ state \in {"none", "there", "deleted"}
  /\ row \in [Users -> Nat] /\ joins \in Nat
  /\ delegates \subseteq Members /\ invites \subseteq Users
  /\ content \subseteq Content /\ stored \subseteq Paths /\ listed \subseteq Paths
  /\ accounts \subseteq Users /\ aborted \in BOOLEAN /\ serial \in BOOLEAN
  /\ going \in [TurmaRequests -> TurmaRequest]

TurmasInit ==
  /\ state = "none" /\ row = [u \in Users |-> 0] /\ joins = 0 /\ delegates = {}
  /\ invites = {} /\ content = {} /\ stored = {} /\ listed = {}
  /\ accounts = Users /\ aborted = FALSE
  /\ going = [r \in TurmaRequests |-> NoRequest]
  /\ serial \in BOOLEAN

-----------------------------------------------------------------------------
Free == serial => AllIdle           \* a request of one statement may come in between

\* A request passes its first checks.
Start(r, u, op, q) ==
  /\ going[r] = NoRequest /\ u \in accounts
  /\ IF serial THEN AllIdle ELSE op \in Racing
  /\ going' = [going EXCEPT ![r] = [q EXCEPT !.op = op, !.user = u]]
  /\ UNCHANGED <<state, row, joins, delegates, shared, accounts, aborted, serial>>
Stands(r, pc) == going[r].pc = pc
Go(r, pc) == going' = [going EXCEPT ![r].pc = pc] /\ UNCHANGED serial
End(r) == going' = [going EXCEPT ![r] = NoRequest] /\ UNCHANGED serial
To(pc) == [NoRequest EXCEPT !.pc = pc]

\* create: the class and its first member, in one statement.
Create(u) ==
  /\ Free /\ state = "none" /\ u \in accounts /\ joins < MaxJoins
  /\ state' = "there" /\ joins' = joins + 1
  /\ row' = [row EXCEPT ![u] = joins + 1] /\ delegates' = {u}
  /\ UNCHANGED <<shared, accounts, aborted, going, serial>>

\* join by code, or accept of an invite, up to the insert of addMember: who is
\* in already only loses the invite.
Join(r, u) ==
  /\ state = "there" /\ u \notin Members /\ Cardinality(Members) < MaxMembers
  /\ MayJoin /\ Start(r, u, "join", To("enter"))
AcceptInvite(r, u) ==
  /\ state = "there" /\ u \in invites
  /\ u \in Members \/ (Cardinality(Members) < MaxMembers /\ MayJoin)
  /\ Start(r, u, "accept", To(IF u \in Members THEN "dropInvite" ELSE "enter"))
EnterTurma(r) ==
  LET u == going[r].user IN
  /\ Stands(r, "enter")
  /\ IF state = "there" /\ u \in accounts /\ u \notin Members
     THEN /\ joins' = joins + 1
          /\ row' = [row EXCEPT ![u] = joins + 1]
     ELSE UNCHANGED <<joins, row>>                \* no class, or a second insert
  /\ IF going[r].op = "accept" /\ state = "there" THEN Go(r, "dropInvite") ELSE End(r)
  /\ UNCHANGED <<state, delegates, shared, accounts, aborted>>
DropInvite(r) ==
  /\ Stands(r, "dropInvite") /\ End(r)
  /\ invites' = invites \ {going[r].user}
  /\ UNCHANGED <<state, row, joins, delegates, content, files, accounts, aborted>>

Invite(r, u, t) ==
  /\ u \in Members /\ t \in accounts \ (Members \cup invites \cup {u})
  /\ Start(r, u, "invite", [To("putInvite") EXCEPT !.target = t])
PutInvite(r) ==
  /\ Stands(r, "putInvite") /\ End(r)
  /\ invites' = IF state = "there" /\ going[r].target \in accounts
                THEN invites \cup {going[r].target} ELSE invites
  /\ UNCHANGED <<state, row, joins, delegates, content, files, accounts, aborted>>
Decline(u) ==
  /\ Free /\ u \in invites
  /\ invites' = invites \ {u}
  /\ UNCHANGED <<state, row, joins, delegates, content, files, accounts, aborted, going, serial>>

\* leave: the role is read first, the others are counted later.
Leave(r, u) ==
  /\ u \in Members
  /\ Start(r, u, "leave", [To("others") EXCEPT !.led = u \in delegates])
CountOthers(r) ==
  /\ Stands(r, "others")
  /\ IF Members \subseteq {going[r].user} THEN Go(r, "storage")
     ELSE IF going[r].led THEN End(r)               \* "Make another member the delegado"
     ELSE /\ going' = [going EXCEPT ![r].pc = "remove", ![r].target = going[r].user]
          /\ UNCHANGED serial
  /\ UNCHANGED <<state, row, joins, delegates, shared, accounts, aborted>>
Kick(r, u, t) ==
  /\ u \in delegates /\ t \in Users \ {u}
  /\ Start(r, u, "kick", [To("remove") EXCEPT !.target = t])

\* removeMembership
RemoveRowOnly(r) ==                                             \* a mutant
  /\ Stands(r, "remove") /\ End(r)
  /\ row' = [row EXCEPT ![going[r].target] = 0]
  /\ delegates' = delegates \ {going[r].target}
  /\ UNCHANGED <<state, joins, invites, content, files, accounts, aborted>>
RemoveMember(r) ==
  LET t == going[r].target IN
  /\ Stands(r, "remove") /\ End(r)
  /\ row' = [row EXCEPT ![t] = 0] /\ delegates' = delegates \ {t}
  /\ content' = {c \in content : c.kind = "file" \/ c.by # t}
  /\ UNCHANGED <<state, joins, invites, files, accounts, aborted>>

\* remove, and deleteTurma: the files go first, then the row, and with it
\* everything that hangs on it.
Delete(r, u) ==
  /\ u \in delegates
  /\ Start(r, u, "delete", To("storage"))
ClearNothing(r) ==                                              \* a mutant
  /\ Stands(r, "storage") /\ Go(r, "delete")
  /\ UNCHANGED <<state, row, joins, delegates, shared, accounts, aborted>>
ClearStorage(r) ==
  /\ Stands(r, "storage") /\ Go(r, "delete")
  /\ stored' = stored \ {c.path : c \in content}
  /\ UNCHANGED <<state, row, joins, delegates, invites, content, listed, accounts, aborted>>
DeleteClass(r) ==
  /\ Stands(r, "delete")
  /\ state' = "deleted" /\ row' = [u \in Users |-> 0] /\ delegates' = {}
  /\ invites' = {} /\ content' = {}
  /\ IF going[r].op = "close" THEN Go(r, "erase") ELSE End(r)
  /\ UNCHANGED <<joins, files, accounts, aborted>>

\* transferDelegado: both roles in one transaction, the target by the id of
\* its row; it ends with a get.
Transfer(r, u, t) ==
  /\ u \in delegates /\ t \in Members \ {u}
  /\ Start(r, u, "transfer", [To("handover") EXCEPT !.target = t, !.seen = row[t]])
HandoverKept(r) ==                                              \* a mutant
  LET u == going[r].user  t == going[r].target IN
  /\ Stands(r, "handover")
  /\ IF row[t] = going[r].seen /\ u \in Members
     THEN delegates' = delegates \cup {t} /\ Go(r, "count")
     ELSE UNCHANGED delegates /\ End(r)
  /\ UNCHANGED <<state, row, joins, shared, accounts, aborted>>
Handover(r) ==
  LET u == going[r].user  t == going[r].target IN
  /\ Stands(r, "handover")
  /\ IF row[t] = going[r].seen /\ u \in Members
     THEN delegates' = (delegates \cup {t}) \ {u} /\ Go(r, "count")
     ELSE UNCHANGED delegates /\ End(r)
  /\ UNCHANGED <<state, row, joins, shared, accounts, aborted>>

\* get, and ensureDelegado in it.
Get(r, u) ==
  /\ u \in Members
  /\ Start(r, u, "get", To("count"))
CountNothing(r) ==                                              \* a mutant
  /\ Stands(r, "count") /\ End(r)
  /\ UNCHANGED <<state, row, joins, delegates, shared, accounts, aborted>>
CountDelegates(r) ==
  /\ Stands(r, "count")
  /\ IF delegates = {} /\ Members # {}
     THEN \E t \in Oldest(Members) :
            /\ going' = [going EXCEPT ![r].pc = "promote", ![r].target = t, ![r].seen = row[t]]
            /\ UNCHANGED serial
     ELSE End(r)
  /\ UNCHANGED <<state, row, joins, delegates, shared, accounts, aborted>>
Promote(r) ==
  LET t == going[r].target  found == row[t] = going[r].seen IN
  /\ Stands(r, "promote")
  /\ delegates' = IF found THEN delegates \cup {t} ELSE delegates
  /\ IF going[r].op = "close" /\ found THEN Go(r, "erase") ELSE End(r)
  /\ UNCHANGED <<state, row, joins, shared, accounts, aborted>>

\* share of a pack, link of a subject, upload of a file; and taking it back,
\* by its owner or the delegado.
Share(r, u, k) ==
  /\ u \in Members /\ Cardinality(content) < MaxContent
  /\ Start(r, u, "share", [To(IF k = "file" THEN "upload" ELSE "put") EXCEPT !.kind = k])
Upload(r) ==
  /\ Stands(r, "upload")
  /\ \E path \in Paths \ (stored \cup listed) :
       /\ stored' = stored \cup {path}
       /\ going' = [going EXCEPT ![r].pc = "put", ![r].path = path]
  /\ UNCHANGED <<state, row, joins, delegates, invites, content, listed, accounts, aborted,
                 serial>>
PutContent(r) ==
  LET u == going[r].user  path == going[r].path IN
  /\ Stands(r, "put") /\ End(r)
  /\ IF state = "there" /\ u \in accounts
     THEN /\ content' = content \cup {[kind |-> going[r].kind, by |-> u, path |-> path]}
          /\ listed' = listed \cup ({path} \ {Nobody})
     ELSE UNCHANGED <<content, listed>>
  /\ UNCHANGED <<state, row, joins, delegates, invites, stored, accounts, aborted>>
\* A file goes from the storage first, and may keep its row.
Unshare(u, c) ==
  /\ Free /\ u \in Members /\ c \in content /\ (u \in delegates \/ c.by = u)
  /\ stored' = stored \ {c.path}
  /\ content' = content \ {c} \/ (c.kind = "file" /\ UNCHANGED content)
  /\ UNCHANGED <<state, row, joins, delegates, invites, listed, accounts, aborted, going, serial>>

\* deleteAccount: releaseTurmasOfDeletedUser, and later the user with all rows
\* that hang on it.
Close(r, u) ==
  /\ Start(r, u, "close", [To(IF u \in Members THEN "successor" ELSE "erase")
                             EXCEPT !.led = u \in delegates])
Successor(r) ==
  LET others == Members \ {going[r].user} IN
  /\ Stands(r, "successor")
  /\ IF others = {} THEN Go(r, "storage")
     ELSE IF ~going[r].led THEN Go(r, "erase")
     ELSE \E t \in Oldest(others) :
            /\ going' = [going EXCEPT ![r].pc = "promote", ![r].target = t, ![r].seen = row[t]]
            /\ UNCHANGED serial
  /\ UNCHANGED <<state, row, joins, delegates, shared, accounts, aborted>>
SuccessorUnasked(r) ==                                          \* a mutant
  /\ Stands(r, "successor")
  /\ IF Members \subseteq {going[r].user} THEN Go(r, "storage") ELSE Go(r, "erase")
  /\ UNCHANGED <<state, row, joins, delegates, shared, accounts, aborted>>
Erase(r) ==
  LET u == going[r].user IN
  /\ Stands(r, "erase") /\ End(r)
  /\ accounts' = accounts \ {u} /\ row' = [row EXCEPT ![u] = 0]
  /\ delegates' = delegates \ {u} /\ invites' = invites \ {u}
  /\ content' = {c \in content : c.kind = "file" \/ c.by # u}
  /\ UNCHANGED <<state, joins, files, aborted>>

\* A statement fails, of the database or of the storage, or the process stops.
BreakOff(r) ==
  /\ ~Stands(r, "idle") /\ End(r)
  /\ aborted' = (aborted \/ (going[r].op = "close" /\ going[r].pc = "erase" /\ going[r].led))
  /\ UNCHANGED <<state, row, joins, delegates, shared, accounts>>

-----------------------------------------------------------------------------
Continue(r) ==
  \/ EnterTurma(r) \/ DropInvite(r) \/ PutInvite(r) \/ CountOthers(r) \/ RemoveMember(r)
  \/ ClearStorage(r) \/ DeleteClass(r) \/ Handover(r) \/ CountDelegates(r) \/ Promote(r)
  \/ Upload(r) \/ PutContent(r) \/ Successor(r) \/ Erase(r)
Ask(r, u) ==
  \/ Join(r, u) \/ AcceptInvite(r, u) \/ Leave(r, u) \/ Delete(r, u) \/ Get(r, u) \/ Close(r, u)
  \/ \E t \in Users : Invite(r, u, t) \/ Kick(r, u, t) \/ Transfer(r, u, t)
  \/ \E k \in Kinds : Share(r, u, k)
TurmasNext ==
  \/ \E u \in Users : Create(u) \/ Decline(u) \/ \E c \in content : Unshare(u, c)
  \/ \E r \in TurmaRequests : Continue(r) \/ BreakOff(r) \/ \E u \in Users : Ask(r, u)

TurmasSpec == TurmasInit /\ [][TurmasNext]_turmas

\* Requests go on, members open their class now and then, and its statements do
\* not fail each time.
TurmasFairness ==
  /\ \A r \in TurmaRequests : WF_turmas(Continue(r))
  /\ \A u \in Users : SF_turmas(\E r \in TurmaRequests : Get(r, u))
  /\ SF_turmas(\E r \in TurmaRequests : CountDelegates(r))
  /\ SF_turmas(\E r \in TurmaRequests : Promote(r))
TurmasFairSpec == TurmasSpec /\ TurmasFairness

-----------------------------------------------------------------------------
(* Properties.                                                             *)

\* Requests one after another leave a class with exactly one delegado
\* (transferDelegado, the refusal in leave, the succession of a deleted
\* account), unless the deletion of an account broke off.
OneDelegate ==
  serial /\ ~aborted /\ AllIdle /\ Members # {} => \E d \in Users : delegates = {d}

\* "Sair ou ser removido tira tambem as cadeiras que essa pessoa publicou", and
\* the files that a class ever showed and that are stored still have their row,
\* so that a deleted class leaves none of them "para sempre no storage": also
\* through the deletion of accounts and wherever requests break off, as long as
\* they do not overlap.
NothingLeftBehind ==
  serial /\ AllIdle =>
    /\ \A c \in content : c.kind = "owned" => c.by \in Members
    /\ stored \cap listed \subseteq {c.path : c \in content}

\* "Para a turma nunca ficar sem quem a gira": however requests overlap, a class
\* that lost its delegado has one again when its members open it.
ChargeRestored == Members # {} ~> (delegates # {} \/ Members = {})

\* What the overlaps break: OneDelegate and NothingLeftBehind without serial.
NeverTwo == ~serial => Cardinality(delegates) <= 1
NoOwnerGone == \A c \in content : c.kind = "owned" => c.by \in Members
\* What an upload breaks that ends between the file and its row, one request
\* after another.
NoStrayFiles == serial /\ AllIdle /\ state = "deleted" => stored = {}
=============================================================================
