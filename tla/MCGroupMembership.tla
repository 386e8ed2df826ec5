-------------------------- MODULE MCGroupMembership ---------------------------
(* GroupMembership for TLC: two groups, each of which may be a member of   *)
(* the first, and a third that requests name before it exists.             *)
EXTENDS GroupMembership, TLC

CONSTANTS ann, band, crew, i1, i2, i3, i4

MCTables ==
  [name : {[i \in Ids |-> IF i = i1 THEN ann ELSE IF i = i2 THEN band ELSE Unused]},
   member : SUBSET [parent : {i1}, member : {i1, i2}]]

A(op, n, list, named) == [op |-> op, name |-> n, list |-> list, named |-> named]

MCAsks ==
  {A("post", ann, "members", {band}), A("post", band, "member_of", {ann}),
   A("post", ann, "members", {crew}),
   A("delete", ann, "members", {band}), A("delete", band, "member_of", {ann}),
   A("delete", ann, "members", {ann}),
   A("put", ann, "members", {ann, crew}), A("put", band, "member_of", {band}),
   A("create", crew, "members", {crew}), A("update", band, "members", {crew}),
   A("drop", band, "members", {})}

Symmetry == Permutations(Requests) \cup Permutations({i3, i4})
=============================================================================
