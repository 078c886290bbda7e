----------------------------- MODULE MCTwoFactor -----------------------------
(* An instance of TwoFactor for TLC.                                       *)
EXTENDS TwoFactor, TLC

Symmetry == Permutations(Requests)

\* Bound: where requests meet it is set up once, and two codes are accepted.
BoundedNext ==
  /\ Next
  /\ ~calm => secrets' <= 1 /\ sets' <= 1 /\ Cardinality(accepted') <= 2 /\ now' <= 2
BoundedSpec == Init /\ [][BoundedNext]_vars
=============================================================================
