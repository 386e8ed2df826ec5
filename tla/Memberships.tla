----------------------------- MODULE Memberships ------------------------------
(***************************************************************************)
(* What the membership lists of groups promise, without rows, requests in  *)
(* flight and refusals: groups and memberships between them.  A step       *)
(* changes one list of one group, or makes a group, or drops a group with  *)
(* all its memberships.                                                    *)
(***************************************************************************)
EXTENDS FiniteSets

CONSTANT Ids       (* every group there may come to be                     *)

VARIABLES
  group,           (* the groups there are                                 *)
  member           (* their memberships                                    *)

Edge == [parent : Ids, member : Ids]

Init ==
  /\ group \in SUBSET Ids
  /\ member \in SUBSET [parent : group, member : group]

(* The memberships in which t has one part become others, with new groups. *)
ChangeList(t, part, new) ==
  /\ group' = group \cup new
  /\ \A e \in Edge : e[part] # t => (e \in member' <=> e \in member)
  /\ \A n \in new : \E e \in member' : n \in {e.parent, e.member}

Create(n) ==
  /\ group' = group \cup {n}
  /\ UNCHANGED member

Drop(t) ==
  /\ group' = group \ {t}
  /\ member' = {e \in member : t \notin {e.parent, e.member}}

Next ==
  /\ member' \subseteq [parent : group', member : group']
  /\ \/ \E t \in group, part \in {"parent", "member"}, new \in SUBSET (Ids \ group) :
          ChangeList(t, part, new)
     \/ \E n \in Ids \ group : Create(n)
     \/ \E t \in group : Drop(t)

Spec == Init /\ [][Next]_<<group, member>>
=============================================================================
