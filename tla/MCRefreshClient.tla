---------------------------- MODULE MCRefreshClient ----------------------------
(* Instances of RefreshClient for TLC.                                     *)
EXTENDS RefreshClient, TLC

CONSTANTS MaxRotations

OneSession == {1}
TwoSessions == 1 .. 2
\* Two accounts sign in, one after the other.
TwoAccounts == <<"a", "b">>

\* Bounds: no new reason to refresh after MaxRotations refreshes, of all sessions;
\* only the first login of the browser is disturbed otherwise, or refreshed
\* unasked; and a session that another device ends has lost no answer.
Rotations == UNION {{s} \X (2 .. chain[s].current) : s \in Sessions}
Alone == \A s \in Sessions : s > 1 => chain[s] = Server!Fresh
Room == Cardinality(Rotations) < IF Alone THEN MaxRotations ELSE 1
\* Without a step of one of the tabs.
Elsewhere == UNCHANGED <<valid, jar, tab, flight, stray>>
BoundedNext ==
  /\ Next
  /\ \A s \in Sessions : s > 1 /\ chain'[s] # chain[s] /\ chain[s] = Server!Fresh =>
       lost = 0 /\ now = 0 /\ Rotations = {}
  /\ lost' # lost => Alone
  /\ chain' # chain /\ Elsewhere => Alone /\ lost = 0 /\ now = 0
  /\ now' # now => Alone /\ Live(jar.s) /\ jar.n > 1
  /\ ~(valid \subseteq valid') => Room
  /\ \A t \in Tabs : flight[t].pc = "idle" /\ flight'[t].pc # "idle" /\ UNCHANGED <<call, ask>> =>
       Room /\ Alone
BoundedSpec == Init /\ [][BoundedNext]_vars
FairSpec == BoundedSpec /\ Fairness
Symmetry == Permutations(Tabs)
=============================================================================
