-------------------------------- MODULE MCTasks --------------------------------
(* Instances of Tasks for TLC.                                             *)
EXTENDS Tasks, TLC

\* Bounds, on the rows, on what is to be inserted and on the fields that are edited.
Rows == {task[i] : i \in Live} \cup UNION {going[r].rows : r \in TaskRequests}
OneTitle == Cardinality({t.title : t \in Rows}) <= 1
OneCourse ==
  Cardinality({t.course : t \in Rows} \cup {c \in Courses : component[c] > 0}) <= 1
NoComponent == \A c \in Courses : component[c] = 0
NoWeight == NoComponent /\ \A t \in Rows : t.weight = 0
Only(fields) == \A r \in TaskRequests : going[r].field \in fields \cup {"none"}
\* Where requests do not overlap, one series goes on from day to day.
Series ==
  /\ Only({"date", "done"}) /\ NoWeight /\ OneTitle /\ OneCourse
  /\ \A t \in Rows : t.repeats /\ t.reviews = 0
\* Where they overlap, there is one day and a task less: all without weight, or all
\* with, without reviews, and in one course, where only series are completed, or
\* with one title and nothing completed.
OneDay ==
  /\ today = 0 /\ Pending < MaxTasks /\ \A t \in Rows : t.date = 0 \/ t.auto
  /\ \/ Only({"done", "repeats"}) /\ NoWeight /\ OneTitle /\ OneCourse
     \/ /\ \A t \in Rows : t.weight > 0 /\ t.reviews = 0
        /\ \/ Only({"title", "done", "weight", "repeats"}) /\ OneCourse
              /\ \A t \in Rows : t.done => t.repeats
           \/ Only({"course", "weight", "repeats"}) /\ OneTitle /\ \A t \in Rows : ~t.done

BoundedNext == TasksNext /\ (IF serial THEN Series ELSE OneDay)'
BoundedSpec == TasksInit /\ [][BoundedNext]_tasks
Symmetry == Permutations(TaskRequests) \cup Permutations(Titles) \cup Permutations(Courses)
=============================================================================
