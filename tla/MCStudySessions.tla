-------------------------- MODULE MCStudySessions --------------------------
(* Instances of StudySessions for TLC.                                     *)
EXTENDS StudySessions, TLC

Symmetry == Permutations(Ids) \cup Permutations(Requests)

Used == Rows \cup ({req[q].id : q \in Requests} \ {None})

\* Bound: two sessions of requests that follow each other, or one of requests
\* that meet.
BoundedNext ==
  /\ Next
  /\ ~calm => Cardinality(Used') <= 1 /\ now' <= 2
BoundedSpec == Init /\ [][BoundedNext]_vars
=============================================================================
