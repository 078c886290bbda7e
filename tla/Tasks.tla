--------------------------------- MODULE Tasks ---------------------------------
(***************************************************************************)
(* The tasks of one student: created, imported, edited, completed (one by  *)
(* one, in bulk, or in answer to the question about overdue ones), with    *)
(* what completing creates (the next occurrence of a series, reviews), and *)
(* the weights of tasks and grade components, which share the 100% of a    *)
(* course (tasks.service.ts, grade-components/weight-budget.ts).  A step   *)
(* is one statement, with the checks before it.                            *)
(***************************************************************************)
EXTENDS Integers, FiniteSets

CONSTANTS
  TaskRequests,
  Titles, Courses,   \* a course: an area in a period
  Full, Epsilon,     \* 100%, and the tolerance, in the steps in which weights are given
  LastDay,           \* bound: until when time and series go on
  Reviews,           \* SPACED_REVIEW_OFFSETS_DAYS: how many reviews
  Together,          \* whether requests for one task, or that both add weight, overlap
  MaxTasks           \* bound: tasks ever created

ASSUME TasksAssumption ==
  /\ {Full, Epsilon, LastDay, Reviews, MaxTasks} \subseteq Nat
  /\ Together \in BOOLEAN /\ IsFiniteSet(TaskRequests)

\* auto: created on completing another, and not edited since in what tells
\* occurrences apart; stamped: completedAt is set.
Task == [title : Titles, course : Courses, date : 0 .. LastDay, weight : 0 .. Full,
         repeats : BOOLEAN, done : BOOLEAN, stamped : BOOLEAN, auto : BOOLEAN, reviews : Nat]
NoTask == [none |-> TRUE]
TaskIds == 1 .. MaxTasks

VARIABLES
  task,        \* the rows
  last,        \* the last id given
  component,   \* of each course the sum of its grade components
  split,       \* of each course: whether an occurrence left its series
  going,       \* the requests under way
  today,
  serial       \* in this behaviour requests do not overlap

tasks == <<task, last, component, split, going, today, serial>>

\* was: whether the task was completed when it was read; new: the value to be
\* written, or the day of the next occurrence; rows: to be inserted, or the task
\* as it was completed.
NoRequest == [op |-> "none", pc |-> "idle", id |-> 0, was |-> FALSE, field |-> "none",
              new |-> NoTask, rows |-> {}]
AllIdle == \A r \in TaskRequests : going[r] = NoRequest
Live == {i \in TaskIds : task[i] # NoTask}
Pending == last + Cardinality({r \in TaskRequests : going[r].pc \in {"next", "insertNext"}})

TaskTypes ==
  /\ task \in [TaskIds -> Task \cup {NoTask}] /\ last \in 0 .. MaxTasks
  /\ component \in [Courses -> Nat] /\ split \in [Courses -> BOOLEAN]
  /\ today \in 0 .. LastDay /\ serial \in BOOLEAN

TasksInit ==
  /\ task = [i \in TaskIds |-> NoTask] /\ last = 0
  /\ component = [c \in Courses |-> 0] /\ split = [c \in Courses |-> FALSE]
  /\ going = [r \in TaskRequests |-> NoRequest]
  /\ today = 0 /\ serial \in BOOLEAN

-----------------------------------------------------------------------------
(* The budget of a course.                                                 *)

Units(i) == 1 .. task[i].weight
UsedTasks(c, except) ==                                         \* a mutant
  component[c] + Cardinality(UNION {{i} \X Units(i) :
    i \in {j \in Live \ except : task[j].course = c /\ ~task[j].repeats}})
\* loadUsedWeight: the occurrences of a series count once, with the most any
\* of them weighs.
Used(c, except) ==
  LET S == {i \in Live \ except : task[i].course = c}
      Single == {i \in S : ~task[i].repeats} IN
  component[c] + Cardinality(UNION {{i} \X Units(i) : i \in Single})
               + Cardinality(UNION {{task[i].title} \X Units(i) : i \in S \ Single})
\* assertWeightFits: what is at most the tolerance fits a course that is full.
Left(c, except) == Full - Used(c, except)
Fits(c, except, weight) ==
  \/ weight <= Epsilon
  \/ weight <= Left(c, except) + Epsilon

-----------------------------------------------------------------------------
\* A request of one statement may come in between.
Free(i) == IF serial THEN AllIdle ELSE Together \/ \A r \in TaskRequests : going[r].id # i
MayStart(r) == going[r] = NoRequest /\ (serial => AllIdle)
\* Two requests may overlap if neither is for the task of the other and not
\* both add weight.
Adds(q) == q.op \in {"add", "component"} \/ q.field \in {"weight", "course"}
Apart(q, p) == (q.id = 0 \/ q.id # p.id) /\ ~(Adds(q) /\ Adds(p))
Start(r, q) ==
  /\ Together \/ \A s \in TaskRequests : going[s] = NoRequest \/ Apart(q, going[s])
  /\ going' = [going EXCEPT ![r] = q]
At(r, pc) == going[r].pc = pc
Go(r, pc) == going' = [going EXCEPT ![r].pc = pc]
ToReviews(r) == going' = [going EXCEPT ![r].pc = "reviews", ![r].new = NoTask, ![r].rows = {}]
EndRequest(r) == going' = [going EXCEPT ![r] = NoRequest]

NewUnstamped(t, c, d, w, repeats, done) ==                      \* a mutant
  [title |-> t, course |-> c, date |-> d, weight |-> w, repeats |-> repeats, done |-> done,
   stamped |-> FALSE, auto |-> FALSE, reviews |-> 0]
New(t, c, d, w, repeats, done) ==
  [title |-> t, course |-> c, date |-> d, weight |-> w, repeats |-> repeats, done |-> done,
   stamped |-> done, auto |-> FALSE, reviews |-> 0]

\* create; importTasks: the rows that fit, each taking off what is left for
\* the next, are inserted in any order.
CreateTask(r) ==
  /\ MayStart(r) /\ Pending < MaxTasks
  /\ \E c \in Courses, w \in 0 .. Full :
    /\ Fits(c, {}, w)
    /\ \E t \in Titles, d \in 0 .. LastDay, b, done \in BOOLEAN :
       Start(r, [NoRequest EXCEPT !.op = "add", !.pc = "insert",
                                  !.rows = {New(t, c, d, w, b, done)}])
    /\ UNCHANGED <<task, last, component, split, today, serial>>
Import(r) ==
  /\ MayStart(r) /\ Pending + 1 < MaxTasks
  /\ \E t, s \in Titles, c \in Courses, v, w \in 0 .. Full :
    /\ <<t, v>> # <<s, w>>
    /\ v = 0 \/ v <= Left(c, {}) + Epsilon
    /\ w = 0 \/ w <= Left(c, {}) - v + Epsilon
    /\ Start(r, [NoRequest EXCEPT !.op = "add", !.pc = "insert",
                   !.rows = {New(t, c, 0, v, FALSE, FALSE), New(s, c, 0, w, FALSE, FALSE)}])
    /\ UNCHANGED <<task, last, component, split, today, serial>>
Insert(r) ==
  /\ At(r, "insert")
  /\ \E row \in going[r].rows :
       LET rest == going[r].rows \ {row} IN
       /\ \/ last < MaxTasks /\ task' = [task EXCEPT ![last + 1] = row] /\ last' = last + 1
          \/ UNCHANGED <<task, last>>              \* the insert fails
       /\ going' = [going EXCEPT ![r] = IF rest = {} THEN NoRequest ELSE [@ EXCEPT !.rows = rest]]
  /\ UNCHANGED <<component, split, today, serial>>

\* A grade component, which weighs more than the tolerance, is created, or
\* weighs more than before; it weighs less, or is deleted, unchecked.
WeighComponent(r) ==
  /\ MayStart(r)
  /\ \E c \in Courses, w \in 1 .. Full :
    /\ component[c] + w > Epsilon /\ w <= Left(c, {}) + Epsilon
    /\ Start(r, [NoRequest EXCEPT !.op = "component", !.pc = "weigh",
                             !.new = [course |-> c, weight |-> component[c] + w]])
    /\ UNCHANGED <<task, last, component, split, today, serial>>
SaveComponent(r) ==
  /\ At(r, "weigh") /\ EndRequest(r)
  /\ component' = [component EXCEPT ![going[r].new.course] = going[r].new.weight]
  /\ UNCHANGED <<task, last, split, today, serial>>
DropComponent(c) ==
  /\ component[c] > 0 /\ AllIdle
  /\ component' = [component EXCEPT ![c] = 0]
  /\ UNCHANGED <<task, last, split, going, today, serial>>

\* createFromSubtask: without weight; a step that was done makes a task that is.
FromSubtask(i, t, done) ==
  /\ i \in Live /\ Free(i) /\ Pending < MaxTasks
  /\ task' = [task EXCEPT ![last + 1] = New(t, task[i].course, task[i].date, 0, FALSE, done)]
  /\ last' = last + 1
  /\ UNCHANGED <<component, split, going, today, serial>>

-----------------------------------------------------------------------------
(* update (one field at a time), and confirmOverdue.                       *)

Edits(i) ==
  LET old == task[i]
      To(field, new) == [NoRequest EXCEPT !.op = "update", !.pc = "write", !.id = i,
                           !.was = old.done, !.field = field, !.new = new] IN
  {To("title", t) : t \in Titles \ {old.title}} \cup {To("course", c) : c \in Courses \ {old.course}}
  \cup {To("date", d) : d \in (0 .. LastDay) \ {old.date}}
  \cup {To("weight", w) : w \in (0 .. Full) \ {old.weight}}
  \cup {To("repeats", ~old.repeats)} \cup {To("done", b) : b \in BOOLEAN}

\* The weight is looked at when it grows and when it moves.
EditFits(q) ==
  LET t == task[q.id] IN
  CASE q.field = "weight" -> q.new <= t.weight \/ Fits(t.course, {q.id}, q.new)
    [] q.field = "course" -> Fits(q.new, {q.id}, t.weight)
    [] OTHER -> TRUE
UpdateTask(r) ==
  /\ MayStart(r)
  /\ \E i \in Live : \E q \in Edits(i) :
    /\ EditFits(q) /\ Start(r, q)
    /\ UNCHANGED <<task, last, component, split, today, serial>>
ConfirmOverdue(r) ==
  /\ MayStart(r)
  /\ \E i \in Live :
    /\ Start(r, [NoRequest EXCEPT !.op = "confirm", !.pc = "write", !.id = i,
                   !.was = task[i].done, !.field = "done", !.new = TRUE])
    /\ UNCHANGED <<task, last, component, split, today, serial>>

\* completedAt is touched when the state turned to or from COMPLETED; the
\* answer to the question sets it anyway.
Stamped(q, now) ==
  IF q.field # "done" THEN now.stamped
  ELSE IF q.op = "confirm" THEN TRUE
  ELSE IF q.was = q.new THEN now.stamped ELSE q.new
Written(q, now) ==
  [now EXCEPT
     !.title = IF q.field = "title" THEN q.new ELSE @,
     !.course = IF q.field = "course" THEN q.new ELSE @,
     !.date = IF q.field = "date" THEN q.new ELSE @,
     !.weight = IF q.field = "weight" THEN q.new ELSE @,
     !.repeats = IF q.field = "repeats" THEN q.new ELSE @,
     !.done = IF q.field = "done" THEN q.new ELSE @,
     !.auto = @ /\ q.field \in {"weight", "done"},
     !.stamped = Stamped(q, now)]
Leaves(before, after) ==
  before.repeats /\ (~after.repeats \/ after.title # before.title)
Write(r) ==
  LET q == going[r]  i == q.id IN
  /\ At(r, "write")
  /\ IF task[i] = NoTask THEN EndRequest(r) /\ UNCHANGED <<task, split>>
     ELSE LET now == Written(q, task[i]) IN
          /\ task' = [task EXCEPT ![i] = now]
          /\ split' = [split EXCEPT ![now.course] = @ \/ Leaves(task[i], now)]
          /\ IF q.field = "done" /\ q.new /\ ~q.was
             THEN going' = [going EXCEPT ![r] = [NoRequest EXCEPT !.op = "update", !.pc = "next",
                                                   !.id = i, !.rows = {now}]]
             ELSE EndRequest(r)
  /\ UNCHANGED <<last, component, today, serial>>

\* spawnFollowUps: what fails here is logged and the request goes on; so do a
\* task that has no reviews and a student who asked for none.
NextDate(d) == IF d < today THEN today ELSE d + 1
HasNext(t, d) == \E i \in Live : /\ task[i].title = t.title /\ task[i].course = t.course
                                 /\ task[i].date = d /\ task[i].repeats
GoInsert(r, d) == going' = [going EXCEPT ![r].pc = "insertNext", ![r].new = d]
LookForNoNext(r) ==                                             \* a mutant
  /\ At(r, "next")
  /\ \E t \in going[r].rows : LET next == NextDate(t.date) IN
     IF t.repeats /\ next <= LastDay THEN GoInsert(r, next) ELSE ToReviews(r)
  /\ UNCHANGED <<task, last, component, split, today, serial>>
LookForNext(r) ==
  /\ At(r, "next")
  /\ \E t \in going[r].rows : LET next == NextDate(t.date) IN
     IF t.repeats /\ next <= LastDay /\ ~HasNext(t, next)
     THEN GoInsert(r, next) ELSE ToReviews(r)
  /\ UNCHANGED <<task, last, component, split, today, serial>>
InsertNext(r) ==
  /\ At(r, "insertNext") /\ ToReviews(r)
  /\ last < MaxTasks /\ last' = last + 1
  /\ \E t \in going[r].rows : task' = [task EXCEPT ![last + 1] =
                [New(t.title, t.course, going[r].new, t.weight, TRUE, FALSE)
                   EXCEPT !.auto = TRUE]]
  /\ UNCHANGED <<component, split, today, serial>>
CountNoReviews(r) ==                                            \* a mutant
  /\ At(r, "reviews") /\ Go(r, "insertReviews")
  /\ UNCHANGED <<task, last, component, split, today, serial>>
CountReviews(r) ==
  LET t == task[going[r].id] IN
  /\ At(r, "reviews")
  /\ IF t # NoTask /\ t.reviews > 0 THEN EndRequest(r) ELSE Go(r, "insertReviews")
  /\ UNCHANGED <<task, last, component, split, today, serial>>
InsertReviews(r) ==
  LET i == going[r].id IN
  /\ At(r, "insertReviews") /\ EndRequest(r)
  /\ task' = IF task[i] = NoTask THEN task ELSE [task EXCEPT ![i].reviews = @ + Reviews]
  /\ UNCHANGED <<last, component, split, today, serial>>
FollowUpsFail(r) ==
  /\ going[r].pc \in {"next", "insertNext", "reviews", "insertReviews"} /\ EndRequest(r)
  /\ UNCHANGED <<task, last, component, split, today, serial>>

-----------------------------------------------------------------------------
(* Statements of their own: bulkUpdateStatus (completing so creates        *)
(* nothing), bulkReschedule, remove, and the removal of a review.          *)

BulkStatus(i, done) ==
  /\ i \in Live /\ Free(i) /\ task[i].done # done
  /\ task' = [task EXCEPT ![i].done = done, ![i].stamped = done]
  /\ UNCHANGED <<last, component, split, going, today, serial>>
BulkReschedule(i, d) ==
  /\ i \in Live /\ Free(i) /\ ~task[i].done /\ d # task[i].date
  /\ task' = [task EXCEPT ![i].date = d, ![i].auto = FALSE]
  /\ UNCHANGED <<last, component, split, going, today, serial>>
RemoveTask(i) ==
  /\ i \in Live /\ Free(i)
  /\ task' = [task EXCEPT ![i] = NoTask]
  /\ UNCHANGED <<last, component, split, going, today, serial>>
RemoveReview(i) ==
  /\ i \in Live /\ Free(i) /\ task[i].reviews > 0
  /\ task' = [task EXCEPT ![i].reviews = @ - 1]
  /\ UNCHANGED <<last, component, split, going, today, serial>>

\* The night.
NextDay ==
  /\ today < LastDay /\ today' = today + 1
  /\ UNCHANGED <<task, last, component, split, going, serial>>

TasksNext ==
  \/ \E r \in TaskRequests :
       \/ CreateTask(r) \/ Import(r) \/ Insert(r) \/ WeighComponent(r) \/ SaveComponent(r)
       \/ UpdateTask(r) \/ ConfirmOverdue(r) \/ Write(r)
       \/ LookForNext(r) \/ InsertNext(r) \/ CountReviews(r) \/ InsertReviews(r)
       \/ FollowUpsFail(r)
  \/ \E i \in Live :
       \/ \E t \in Titles, done \in BOOLEAN : FromSubtask(i, t, done)
       \/ \E done \in BOOLEAN : BulkStatus(i, done)
       \/ \E d \in 0 .. LastDay : BulkReschedule(i, d)
       \/ RemoveTask(i) \/ RemoveReview(i)
  \/ \E c \in Courses : DropComponent(c)
  \/ NextDay

TasksSpec == TasksInit /\ [][TasksNext]_tasks

-----------------------------------------------------------------------------
(* Properties.                                                             *)

\* completedAt, which the streak is counted from, is set on the completed tasks
\* and on no others, by whichever of the ways they were completed or reopened.
StampedWhenDone == \A i \in Live : task[i].stamped = task[i].done

\* "Concluir -> reabrir -> concluir outra vez nao pode duplicar a proxima", nor
\* the reviews: no two occurrences that completing created are for one day.
FollowUpsOnce ==
  /\ \A i \in Live : task[i].reviews <= Reviews
  /\ serial => \A i, j \in Live : i # j /\ task[i].auto /\ task[j].auto =>
       \/ <<task[i].title, task[i].course, task[i].date>> #
            <<task[j].title, task[j].course, task[j].date>>

\* The same whatever the day: no occurrence is created beyond another that was
\* created so, comes after the completed task too, and is not done.
NextOnce ==
  [][\A r \in TaskRequests : InsertNext(r) =>
       \A t \in going[r].rows, i \in Live :
         /\ task[i].auto /\ <<task[i].title, task[i].course>> = <<t.title, t.course>>
         /\ t.date < task[i].date /\ task[i].date < going[r].new
         => task[i].done]_tasks

\* "A soma dos pesos nunca pode passar disto", but for the tolerance: whatever
\* occurrence of each series is graded.
Graded(c) == {S \in SUBSET {i \in Live : task[i].course = c} :
               \A i, j \in S : i # j /\ task[i].repeats /\ task[j].repeats =>
                                 task[i].title # task[j].title}
Weight(c, S) == component[c] + Cardinality(UNION {{i} \X Units(i) : i \in S})
Weighty == {i \in Live : task[i].weight > Epsilon}
\* It is so of the components and the tasks that weigh more than the tolerance,
\* in each course in which no occurrence left its series.
WeightFits ==
  \A c \in Courses : ~split[c] =>
    \A S \in Graded(c) : Weight(c, S \cap Weighty) <= Full + Epsilon

\* The same without the exceptions.
NeverOverFull == \A c \in Courses : \A S \in Graded(c) : Weight(c, S) <= Full + Epsilon
=============================================================================
