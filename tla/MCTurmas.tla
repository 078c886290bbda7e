------------------------------- MODULE MCTurmas -------------------------------
(* Instances of Turmas for TLC.                                            *)
EXTENDS Turmas

CONSTANTS Founder

\* People are interchangeable: that one of them founds the class leaves out only
\* behaviours that are others with names exchanged.  (SYMMETRY would not be sound
\* with ChargeRestored.)
Named == joins = 0 /\ joins' = 1 => row'[Founder] = 1
\* Bounds: one invite waits at a time, and who closes an account is in the class.
Bounded ==
  /\ Cardinality(invites') <= 1
  /\ \A r \in TurmaRequests : going'[r].op = "close" /\ going[r].op # "close" => going'[r].pc # "erase"
BoundedSpec == TurmasInit /\ [][TurmasNext /\ Named /\ Bounded]_turmas /\ TurmasFairness
=============================================================================
