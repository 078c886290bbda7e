-------------------------------- MODULE MCPads --------------------------------
(* An instance of Pads for TLC.                                            *)
EXTENDS Pads, TLC

VARIABLE about        \* what happens in this behaviour besides saving and polling

Symmetry == Permutations(Editors)

NobodyLocks == \A a \in Accounts : locking[a] = "idle"
NobodyLeaves == \A e \in Editors : save[e]["left"] = NoSave
Versions(n) == pad = None \/ pad.version <= n

\* Bounds: a tab is left only where one text is typed, and the pad is locked only
\* in its first life; both only up to its second version.
MixedInit == Init /\ about \in {"nothing", "locking", "leaving"}
MixedNext ==
  /\ Next /\ UNCHANGED about
  /\ about # "locking" => NobodyLocks'
  /\ about # "leaving" => NobodyLeaves'
  /\ about = "locking" => lives' <= 1 /\ Versions(2)'
  /\ about = "leaving" => typed' <= 1 /\ Versions(2)'
MixedSpec == MixedInit /\ [][MixedNext]_<<vars, about>> /\ Fairness
=============================================================================
