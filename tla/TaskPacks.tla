------------------------------- MODULE TaskPacks -------------------------------
(***************************************************************************)
(* An item of a task pack, the task of its owner that it was made from,    *)
(* and the tasks that colleagues imported from it (task-packs.service.ts,  *)
(* task-pack-sync.service.ts).  The owner publishes what changed in the    *)
(* source; each colleague gets a proposal and accepts or refuses it.       *)
(* Items do not meet, so one is enough.  A step is one statement or        *)
(* transaction of a request, with the checks before it.                    *)
(***************************************************************************)
EXTENDS Integers, FiniteSets

CONSTANTS
  Users,          \* the colleagues
  Requests, Nothing,
  Fields,         \* what is the same for everybody: title, date, weight, ...
  Values,
  Title, Exact,   \* of the fields: by which tasks are looked for, and with the date
  Twice,          \* the operations of which two may be under way at once
  MaxPublished, MaxUpdates, MaxEdits   \* bounds

Operations == {"publish", "import", "accept", "reject"}
ASSUME TaskPacksAssumption ==
  /\ Nothing \notin Users \cup Values /\ Twice \subseteq Operations
  /\ Title \in Exact /\ Exact \subseteq Fields
  /\ {MaxPublished, MaxUpdates, MaxEdits} \subseteq Nat /\ IsFiniteSet(Users)

Shared == [Fields -> Values]
Changes == [Fields -> Values \cup {Nothing}]          \* Nothing: not changed
NoChanges == [f \in Fields |-> Nothing]
Item == [fields : Shared, version : Nat, linked : BOOLEAN]   \* linked: to the source
\* A colleague's task; own: it differs from the item by its user's own doing;
\* taken: it differed already when it was linked.
Task == [fields : Shared, linked : BOOLEAN, done : BOOLEAN, own : BOOLEAN, taken : BOOLEAN]
Update == [id : Nat, user : Users, changes : Changes]     \* PENDING rows only
ASSUME NothingAssumption == Nothing \notin Shared /\ Nothing \notin Item /\ Nothing \notin Task

VARIABLES
  source,       \* the owner's task, or Nothing once deleted
  item,         \* or Nothing once removed
  task,         \* the task of each colleague, or Nothing
  pending,      \* the proposals not yet decided
  made,         \* proposals ever made
  edits,        \* edits ever made by hand
  req,          \* the requests under way
  calm          \* in this behaviour requests do not overlap

packs == <<source, item, task, pending, made, edits, req, calm>>

Idle == [op |-> "none", pc |-> "idle", user |-> Nothing, item |-> Nothing, source |-> Nothing,
         tasks |-> [u \in Users |-> Nothing], seen |-> {}, update |-> Nothing]
AllIdle == \A r \in Requests : req[r] = Idle
Free == calm => AllIdle

\* diffShared; { ...a, ...b }
Diff(prev, next) == [f \in Fields |-> IF prev[f] = next[f] THEN Nothing ELSE next[f]]
Override(a, b) == [f \in Fields |-> IF b[f] = Nothing THEN a[f] ELSE b[f]]
Of(u, updates) == {p \in updates : p.user = u}

PackTypes ==
  /\ source \in Shared \cup {Nothing}
  /\ item \in Item \cup {Nothing}
  /\ task \in [Users -> Task \cup {Nothing}]
  /\ pending \subseteq Update /\ {made, edits} \subseteq Nat
  /\ calm \in BOOLEAN

\* create: the item is a copy of the task; a pack of before there was
\* publishing does not know its source, nor its tasks theirs.
PacksInit ==
  /\ source \in Shared
  /\ \E known \in BOOLEAN :
       /\ item = [fields |-> source, version |-> 1, linked |-> known]
       /\ task \in [Users -> {Nothing} \cup
                     (IF known THEN {} ELSE {[fields |-> source, linked |-> FALSE,
                                              done |-> FALSE, own |-> FALSE, taken |-> FALSE]})]
  /\ pending = {} /\ made = 0 /\ edits = 0
  /\ req = [r \in Requests |-> Idle]
  /\ calm \in BOOLEAN

-----------------------------------------------------------------------------
Start(r, op, q) ==
  /\ req[r] = Idle
  /\ IF calm THEN AllIdle
     ELSE op \in Twice \/ \A s \in Requests : req[s].op # op
  /\ req' = [req EXCEPT ![r] = [q EXCEPT !.op = op]]
At(r, pc) == req[r].pc = pc
Go(r, q) == req' = [req EXCEPT ![r] = q]
End(r) == Go(r, Idle)

\* By hand: the owner edits or deletes the source (the item stays, unlinked),
\* makes another task, or removes the pack and with it what hangs on it; a
\* colleague edits, completes or deletes the task, decided on or not.
EditSource ==
  /\ Free /\ edits < MaxEdits
  /\ source' \in Shared \ {source} /\ edits' = edits + 1
  /\ UNCHANGED <<item, task, pending, made, req, calm>>
DeleteSource ==
  /\ Free /\ source # Nothing
  /\ source' = Nothing
  /\ item' = IF item = Nothing THEN Nothing ELSE [item EXCEPT !.linked = FALSE]
  /\ UNCHANGED <<task, pending, made, edits, req, calm>>
RemovePack ==
  /\ Free /\ item # Nothing
  /\ item' = Nothing /\ pending' = {}
  /\ task' = [u \in Users |-> IF task[u] = Nothing THEN Nothing
                                                    ELSE [task[u] EXCEPT !.linked = FALSE]]
  /\ UNCHANGED <<source, made, edits, req, calm>>
EditTask(u) ==
  /\ Free /\ task[u] # Nothing /\ edits < MaxEdits
  /\ \E v \in Shared \ {task[u].fields} :
       task' = [task EXCEPT ![u].fields = v, ![u].own = TRUE]
  /\ edits' = edits + 1
  /\ UNCHANGED <<source, item, pending, made, req, calm>>
CompleteTask(u) ==
  /\ Free /\ task[u] # Nothing /\ ~task[u].done
  /\ task' = [task EXCEPT ![u].done = TRUE]
  /\ UNCHANGED <<source, item, pending, made, edits, req, calm>>
DeleteTask(u) ==
  /\ Free /\ task[u] # Nothing
  /\ task' = [task EXCEPT ![u] = Nothing] /\ pending' = pending \ Of(u, pending)
  /\ UNCHANGED <<source, item, made, edits, req, calm>>

\* publish.  linkLegacyItems first: an item without source is given the
\* owner's task of its title, and tasks of others that have its title and date
\* are taken for imported ones, whatever else they differ in.
Publish(r) ==
  /\ item # Nothing
  /\ Start(r, "publish", [Idle EXCEPT !.pc = IF item.linked THEN "read" ELSE "legacy",
                                      !.item = item])
  /\ UNCHANGED <<source, item, task, pending, made, edits, calm>>
LinkLegacy(r) ==
  LET seen == req[r].item.fields
      Same(u) == /\ task[u] # Nothing /\ ~task[u].linked
                 /\ \A f \in Exact : task[u].fields[f] = seen[f] IN
  /\ At(r, "legacy")
  /\ IF item = Nothing THEN End(r) /\ UNCHANGED <<item, task>>
     ELSE /\ Go(r, [req[r] EXCEPT !.pc = "read"])
          /\ item' = [item EXCEPT !.linked = source # Nothing /\ source[Title] = seen[Title]]
          /\ task' = [u \in Users |-> IF Same(u)
                        THEN [task[u] EXCEPT !.linked = TRUE,
                                             !.taken = task[u].fields # item.fields]
                        ELSE task[u]]
  /\ UNCHANGED <<source, pending, made, edits, calm>>
ReadPack(r) ==
  /\ At(r, "read")
  /\ IF item # Nothing /\ source # Nothing /\ item.linked /\ source # item.fields
     THEN Go(r, [req[r] EXCEPT !.pc = "tasks", !.item = item, !.source = source])
     ELSE End(r)
  /\ UNCHANGED <<source, item, task, pending, made, edits, calm>>
ReadTasks(r) ==
  /\ At(r, "tasks")
  /\ Go(r, [req[r] EXCEPT !.pc = "write", !.seen = pending,
              !.tasks = [u \in Users |-> IF task[u] # Nothing /\ task[u].linked
                                         THEN task[u] ELSE Nothing]])
  /\ UNCHANGED <<source, item, task, pending, made, edits, calm>>

\* What is proposed to u: what was proposed and not answered, overridden by
\* what changed now, as far as it differs from the task.
ProposedAnew(q, u) ==                                           \* a mutant
  LET proposed == Diff(q.item.fields, q.source) IN
  Diff(q.tasks[u].fields, Override(q.tasks[u].fields, proposed))
Proposed(q, u) ==
  LET itemChanges == Diff(q.item.fields, q.source)
      proposed == [f \in Fields |->
        IF itemChanges[f] # Nothing THEN itemChanges[f]
        ELSE LET old == {p \in Of(u, q.seen) : p.changes[f] # Nothing} IN
             IF old = {} THEN Nothing ELSE (CHOOSE p \in old : TRUE).changes[f]] IN
  Diff(q.tasks[u].fields, Override(q.tasks[u].fields, proposed))

\* The writes are one transaction: it fails if the item, or the task of a new
\* proposal, is gone.
KeepsAll(q) == pending                                          \* a mutant
Keeps(q) == {p \in pending : Of(p.user, q.seen) = {}}
WriteItem(r) ==
  LET q == req[r]
      asked == {u \in Users : q.tasks[u] # Nothing /\ Proposed(q, u) # NoChanges} IN
  /\ At(r, "write") /\ End(r)
  /\ item # Nothing => item.version < MaxPublished
  /\ made + Cardinality(asked) <= MaxUpdates
  /\ IF item # Nothing /\ \A u \in asked : task[u] # Nothing
     THEN /\ item' = [item EXCEPT !.fields = q.source, !.version = q.item.version + 1]
          /\ \E number \in [asked -> made + 1 .. made + Cardinality(asked)] :
               /\ \A u, v \in asked : u # v => number[u] # number[v]
               /\ pending' = Keeps(q) \cup
                    {[id |-> number[u], user |-> u, changes |-> Proposed(q, u)] : u \in asked}
          /\ made' = made + Cardinality(asked)
     ELSE UNCHANGED <<item, pending, made>>
  /\ UNCHANGED <<source, task, edits, calm>>

\* import.  In the mode that replaces, tasks in the way are deleted, except
\* what is history (graded or completed), which is linked as it is if it has
\* the title of the item.
Import(r, u, replace) ==
  /\ item # Nothing
  /\ task[u] = Nothing \/ replace
  /\ Start(r, "import", [Idle EXCEPT !.user = u, !.item = item,
       !.pc = CASE task[u] # Nothing /\ ~task[u].done -> "clear"
                [] task[u] # Nothing /\ task[u].fields[Title] = item.fields[Title] -> "link"
                [] OTHER -> "create"])
  /\ UNCHANGED <<source, item, task, pending, made, edits, calm>>
Clear(r) ==
  LET u == req[r].user IN
  /\ At(r, "clear") /\ Go(r, [req[r] EXCEPT !.pc = "create"])
  /\ task' = [task EXCEPT ![u] = Nothing] /\ pending' = pending \ Of(u, pending)
  /\ UNCHANGED <<source, item, made, edits, calm>>
CreateTask(r) ==
  LET u == req[r].user IN
  /\ At(r, "create")
  /\ \/ /\ task[u] = Nothing                          \* a bound: one task each
        /\ task' = [task EXCEPT ![u] = [fields |-> req[r].item.fields, linked |-> FALSE,
                                        done |-> FALSE, own |-> FALSE, taken |-> FALSE]]
        /\ Go(r, [req[r] EXCEPT !.pc = "link"])
     \/ End(r) /\ UNCHANGED task                   \* over 100%, or an area not one's own
  /\ UNCHANGED <<source, item, pending, made, edits, calm>>
LinkTask(r) ==
  LET u == req[r].user IN
  /\ At(r, "link") /\ End(r)
  /\ task' = IF task[u] # Nothing /\ item # Nothing
             THEN [task EXCEPT ![u].linked = TRUE,
                     ![u].taken = IF task[u].linked THEN @
                                  ELSE task[u].fields # req[r].item.fields] ELSE task
  /\ UNCHANGED <<source, item, pending, made, edits, calm>>

\* accept: the task first (it may be refused: over 100%), the mark later, for
\* which the proposal must still be there; reject: the mark only.
Accept(r, p) ==
  /\ Start(r, "accept", [Idle EXCEPT !.pc = "apply", !.user = p.user, !.update = p])
  /\ UNCHANGED <<source, item, task, pending, made, edits, calm>>
Reject(r, p) ==
  /\ Start(r, "reject", [Idle EXCEPT !.pc = "mark", !.user = p.user, !.update = p])
  /\ UNCHANGED <<source, item, task, pending, made, edits, calm>>
\* What a task becomes.  TasksService.update moves another field along (the
\* day of submission, to be no later than a new date), unless the task becomes
\* what the owner published, which went through the same update.
Accepted(fields, changes) ==
  LET new == Override(fields, changes) IN
  {new} \cup IF item # Nothing /\ new = item.fields THEN {}
             ELSE {v \in Shared : \A f \in Fields : v[f] # new[f] => f # Title /\ changes[f] = Nothing}
Apply(r) ==
  LET q == req[r] IN
  /\ At(r, "apply")
  /\ \/ /\ task[q.user] # Nothing
        /\ \E v \in Accepted(task[q.user].fields, q.update.changes) :
             task' = [task EXCEPT ![q.user].fields = v]
        /\ Go(r, [q EXCEPT !.pc = "mark"])
     \/ End(r) /\ UNCHANGED task
  /\ UNCHANGED <<source, item, pending, made, edits, calm>>
Mark(r) ==
  LET q == req[r] IN
  /\ At(r, "mark") /\ End(r)
  /\ pending' = pending \ {q.update}
  /\ task' = IF q.op = "reject" /\ task[q.user] # Nothing
             THEN [task EXCEPT ![q.user].own = TRUE] ELSE task
  /\ UNCHANGED <<source, item, made, edits, calm>>
\* The connection or the database fails between the two steps of an import or
\* of an acceptance.
BreakOff(r) ==
  /\ At(r, "link") \/ At(r, "mark")
  /\ req[r].op \in {"import", "accept"}
  /\ End(r)
  /\ UNCHANGED <<source, item, task, pending, made, edits, calm>>

-----------------------------------------------------------------------------
PacksNext ==
  \/ EditSource \/ DeleteSource \/ RemovePack
  \/ \E u \in Users : EditTask(u) \/ CompleteTask(u) \/ DeleteTask(u)
  \/ \E r \in Requests :
       \/ Publish(r) \/ LinkLegacy(r) \/ ReadPack(r) \/ ReadTasks(r) \/ WriteItem(r)
       \/ \E u \in Users, replace \in BOOLEAN : Import(r, u, replace)
       \/ Clear(r) \/ CreateTask(r) \/ LinkTask(r)
       \/ \E p \in pending : Accept(r, p) \/ Reject(r, p)
       \/ Apply(r) \/ Mark(r) \/ BreakOff(r)

PacksSpec == PacksInit /\ [][PacksNext]_packs

-----------------------------------------------------------------------------
(* Properties.                                                             *)

\* "No maximo um PENDING por task: uma alteracao nova junta-se a que ainda nao
\* foi respondida": in whatever order proposals are answered, tasks edited,
\* deleted and imported meanwhile, as long as the owner does not publish twice
\* at once.
OnePending == \A u \in Users : Cardinality(Of(u, pending)) <= 1

\* Publishing reaches everybody: a task that follows the pack, was a copy of the
\* item when it began to, and whose user neither edited it nor refused a change,
\* is what the owner published once the proposals that wait are accepted.  Also
\* when accepting broke off half way, and after the owner deleted the source.
Reached(u) ==
  LET waiting == Of(u, pending) IN
  item.fields = IF waiting = {} THEN task[u].fields
                ELSE Override(task[u].fields, (CHOOSE p \in waiting : TRUE).changes)
InSync ==
  calm /\ AllIdle /\ item # Nothing =>
    \A u \in Users : task[u] # Nothing /\ task[u].linked /\ ~task[u].own /\ ~task[u].taken =>
      Reached(u)

\* What overlaps break: InSync without calm; OnePending with two publications;
\* "Tasks com nota ou concluidas sao historia e ficam" of an import.
InSyncAlways ==
  AllIdle /\ item # Nothing =>
    \A u \in Users : task[u] # Nothing /\ task[u].linked /\ ~task[u].own /\ ~task[u].taken
                     /\ Of(u, pending) = {} => item.fields = task[u].fields
\* The same, one request after another, of every task that its user left alone.
TakenInSync ==
  calm /\ AllIdle /\ item # Nothing =>
    \A u \in Users : task[u] # Nothing /\ task[u].linked /\ ~task[u].own => Reached(u)
HistoryAlwaysKept ==
  [][\A r \in Requests : Clear(r) => LET t == task[req[r].user] IN t = Nothing \/ ~t.done]_packs
=============================================================================
