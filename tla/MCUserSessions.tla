--------------------------- MODULE MCUserSessions ---------------------------
(* An instance of UserSessions for TLC: ids are model values, and the ids  *)
(* of one kind are interchangeable.                                        *)
EXTENDS UserSessions, TLC

VARIABLE about        \* what happens in this behaviour: see MixedNext

Symmetry ==
  Permutations(Refreshers) \cup Permutations(Killers) \cup Permutations(Guards)

\* Bounds: refreshes race while no request is authenticated and nobody signs out
\* everywhere; requests are authenticated, up to time 1, while nobody refreshes,
\* and one device is revoked or all are signed out.
Refreshing ==
  \E r \in Refreshers : BeginRotate(r) \/ RotateStep(r) \/ AbortRotation(r)
Revoking == \E v \in Revokers : RevokeOne(v) \/ AfterRevoke(v)
SigningOut ==
  \E k \in Killers :
    BumpInTransaction(k) \/ BumpTokenVersion(k) \/ KillStep(k) \/ AbortKill(k)
Using ==
  \/ \E g \in Guards : BeginGuard(g) \/ GuardStep(g)
  \/ now = 0 /\ Tick
LoggingIn == \E l \in Logins : BeginLogin(l) \/ InsertSession(l) \/ AnswerLogin(l)

MixedInit == Init /\ about \in {"rotation", "revocation", "signOut"}
MixedNext ==
  /\ UNCHANGED about
  /\ CASE about = "rotation" -> \/ LoggingIn \/ Refreshing \/ Revoking \/ Restart
                                \/ DeleteStaleUserSessions \/ Tick
       [] about = "revocation" -> LoggingIn \/ Revoking \/ Using
       [] about = "signOut" -> LoggingIn \/ SigningOut \/ Using
       [] about = "ending" -> Next
MixedSpec == MixedInit /\ [][MixedNext]_<<vars, about>>

EndingInit == Init /\ about = "ending"
FairEnding == EndingInit /\ [][MixedNext]_<<vars, about>> /\ Fairness
=============================================================================
