------------------------------ MODULE MCTaskPacks ------------------------------
(* Instances of TaskPacks for TLC.  Values are only compared, and what is    *)
(* chosen of the proposals of somebody is the only one there is.             *)
EXTENDS TaskPacks, TLC

CONSTANTS OverlapEdits   \* the edits by hand where requests overlap: a bound

Symmetry == Permutations(Requests) \cup Permutations(Users) \cup Permutations(Values)

\* Where requests overlap there are fewer edits, and a source that was deleted
\* is not made again.
BoundedNext ==
  /\ PacksNext
  /\ ~calm => edits' <= OverlapEdits /\ (source = Nothing => source' = Nothing)
BoundedSpec == PacksInit /\ [][BoundedNext]_packs
=============================================================================
