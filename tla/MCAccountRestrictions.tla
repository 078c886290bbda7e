------------------------ MODULE MCAccountRestrictions ------------------------
(* Instances of AccountRestrictions for TLC.                               *)
EXTENDS AccountRestrictions, TLC

Symmetry == Permutations(Requests)
BansMeetReads == {"suspend", "ban", "expire", "login", "appeal"}
=============================================================================
