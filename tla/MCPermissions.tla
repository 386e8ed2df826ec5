---------------------------- MODULE MCPermissions ---------------------------
(* Permissions for TLC: two teams' groups a and b, and the group that the  *)
(* table's scope asks for.                                                 *)
EXTENDS Permissions, TLC

CONSTANTS a, b, scoped

MCGroups == {a, b, scoped, root}
MCScope == [p \in Perms |-> scoped]

(* Two requests: every kind of session, and slots that can be merged. *)
PairSessions == {{a, scoped}, {b, scoped}, {a}, {root}}
PairAssignable ==
  [read   |-> {<<a, b>>},
   write  |-> {<<a, Nothing>>, <<a, b>>, <<b, Nothing>>},
   delete |-> {<<a, b>>}]

(* Three requests: one holds an object while the row is replaced. *)
TrioSessions == {{a, scoped}, {b, scoped}}
TrioAssignable ==
  [read   |-> {<<a, b>>},
   write  |-> {<<a, Nothing>>, <<b, Nothing>>},
   delete |-> {<<a, b>>}]

Symmetry == Permutations(Requests)
=============================================================================
