------------------------------ MODULE MCSignUp -------------------------------
(* SignUp for TLC: people of one team, or each of a team of their own.     *)
EXTENDS SignUp, TLC

CONSTANTS t1, t2, ann, bob

OneTeam == [p \in People |-> t1]
OwnTeams == [p \in People |-> IF p = ann THEN t1 ELSE t2]

Symmetry == Permutations(Requests)
=============================================================================
