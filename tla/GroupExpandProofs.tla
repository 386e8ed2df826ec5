-------------------------- MODULE GroupExpandProofs ---------------------------
(***************************************************************************)
(* Proofs about GroupExpand, for every set of groups, every table of       *)
(* memberships and every max_depth: what is returned, with and without a   *)
(* max_depth, and after how many rounds.                                   *)
(***************************************************************************)
EXTENDS GroupExpand, FiniteSetTheorems, WellFoundedInduction, TLAPS

(* What is on the path of a row has a row of its own. *)
PathsFound == \A row \in members : OnPath(row.path) \subseteq Ids(members)

(* Every closed set has all the groups found: none is made up. *)
Sound == \A S \in SUBSET Groups : Closed(S) => Ids(members) \subseteq S

(* The rows of earlier rounds have nothing left to find. *)
Explored ==
  \A row \in members \ working : \A e \in group_to_group :
    e.member = row.id => e.parent \in Ids(members)

(* The strengthening of ExpandsExactly that every step preserves. *)
IInv ==
  /\ TypeOK
  /\ working \subseteq members
  /\ PathsFound
  /\ Sound
  /\ max_depth = Unlimited => self \in Ids(members) /\ Explored
  /\ returned => working = {} /\ answer = Ids(members)

(* What a round finds: a parent of a row's group, on the row's path grown  *)
(* by it.                                                                  *)
LEMMA ParentRow ==
  ASSUME TypeOK, NEW rows \in SUBSET Found, NEW new \in Parents(rows)
  PROVE  \E row \in rows, e \in group_to_group :
           /\ e.member = row.id
           /\ e.parent \notin OnPath(row.path)
           /\ new = [id |-> e.parent, path |-> Append(row.path, e.parent)]
  BY DEF Parents

(* A round finds a parent that is not on the path. *)
LEMMA RowOfParent ==
  ASSUME NEW rows, NEW row \in rows, NEW e \in group_to_group,
         e.member = row.id, e.parent \notin OnPath(row.path),
         MayGrow(row.path)
  PROVE  e.parent \in Ids(Parents(rows))
<1> DEFINE new == [id |-> e.parent, path |-> Append(row.path, e.parent)]
<1>1. new \in {[id |-> f.parent, path |-> Append(row.path, f.parent)] :
                 f \in {f \in group_to_group :
                           /\ f.member = row.id
                           /\ f.parent \notin OnPath(row.path)
                           /\ MayGrow(row.path)}}
  OBVIOUS
<1>2. new \in Parents(rows)
  BY <1>1, Zenon DEF Parents
<1>3. new.id = e.parent
  OBVIOUS
<1> QED
  BY <1>2, <1>3, Zenon DEF Ids

(* Rows of a round are rows. *)
LEMMA ParentsType ==
  ASSUME TypeOK, NEW rows \in SUBSET Found
  PROVE  Parents(rows) \in SUBSET Found
<1>1. SUFFICES ASSUME NEW new \in Parents(rows) PROVE new \in Found
  OBVIOUS
<1>2. PICK row \in rows, e \in group_to_group :
        new = [id |-> e.parent, path |-> Append(row.path, e.parent)]
  BY ParentRow
<1>3. row.path \in Seq(Groups) /\ e.parent \in Groups
  BY DEF TypeOK, Found, Edge
<1> QED
  BY <1>2, <1>3 DEF Found

(* The groups on a grown path. *)
LEMMA OnGrownPath ==
  ASSUME NEW path \in Seq(Groups), NEW g \in Groups
  PROVE  OnPath(Append(path, g)) = OnPath(path) \cup {g}
  BY DEF OnPath

LEMMA InitType == Init => TypeOK
<1> SUFFICES ASSUME Init PROVE TypeOK
  OBVIOUS
<1>1. Base(self, max_depth) \in SUBSET Found
  BY DEF Init, Base, Found
<1> QED
  BY <1>1, GraphsAssumption DEF Init, TypeOK

LEMMA NextType == TypeOK /\ [Next]_vars => TypeOK'
<1> SUFFICES ASSUME TypeOK, [Next]_vars PROVE TypeOK'
  OBVIOUS
<1>1. CASE Round
  BY <1>1, ParentsType DEF Round, TypeOK
<1>2. CASE Return
  <2>1. Ids(members) \in SUBSET Groups
    BY DEF TypeOK, Ids, Found
  <2> QED
    BY <1>2, <2>1 DEF Return, TypeOK
<1>3. CASE UNCHANGED vars
  BY <1>3 DEF vars, TypeOK
<1> QED
  BY <1>1, <1>2, <1>3 DEF Next, Finished

(* The variables keep their types. *)
THEOREM TypeCorrect == Spec => []TypeOK
  BY InitType, NextType, PTL DEF Spec

LEMMA InitInv == Init => IInv
<1> SUFFICES ASSUME Init PROVE IInv
  OBVIOUS
<1>1. TypeOK
  BY InitType
<1>2. members = Base(self, max_depth) /\ working = members /\ ~returned
  BY DEF Init
<1>3. PathsFound
  BY <1>2 DEF PathsFound, Base, OnPath, Ids
<1>4. Sound
  BY <1>2 DEF Sound, Closed, Base, Ids
<1>5. max_depth = Unlimited => self \in Ids(members) /\ Explored
  BY <1>2 DEF Base, Ids, Explored
<1> QED
  BY <1>1, <1>2, <1>3, <1>4, <1>5 DEF IInv

LEMMA NextInv == IInv /\ [Next]_vars => IInv'
<1> SUFFICES ASSUME IInv, [Next]_vars PROVE IInv'
  OBVIOUS
<1> USE DEF IInv
<1>t. TypeOK'
  BY NextType
<1>1. CASE Round
  <2>1. /\ working' = Parents(working)
        /\ members' = members \cup Parents(working)
        /\ UNCHANGED <<group_to_group, self, max_depth, answer, returned>>
    BY <1>1 DEF Round
  <2>2. Ids(members') = Ids(members) \cup Ids(Parents(working))
    BY <2>1 DEF Ids
  <2>3. working \in SUBSET Found /\ working \subseteq members
    BY DEF TypeOK
  <2>4. PathsFound'
    <3>1. SUFFICES ASSUME NEW new \in Parents(working)
                   PROVE  OnPath(new.path) \subseteq Ids(members')
      BY <2>1, <2>2 DEF PathsFound
    <3>2. PICK row \in working, e \in group_to_group :
            new = [id |-> e.parent, path |-> Append(row.path, e.parent)]
      BY <2>3, ParentRow
    <3>3. row.path \in Seq(Groups) /\ e.parent \in Groups
      BY <2>3 DEF TypeOK, Found, Edge
    <3>4. OnPath(new.path) = OnPath(row.path) \cup {e.parent}
      BY <3>2, <3>3, OnGrownPath
    <3>5. OnPath(row.path) \subseteq Ids(members)
      BY <2>3 DEF PathsFound
    <3>6. e.parent \in Ids(Parents(working))
      BY <3>1, <3>2 DEF Ids
    <3> QED
      BY <2>2, <3>4, <3>5, <3>6
  <2>5. Sound'
    <3>1. SUFFICES ASSUME NEW S \in SUBSET Groups, Closed(S),
                          NEW new \in Parents(working)
                   PROVE  new.id \in S
      BY <2>1, <2>2 DEF Sound, Closed, Ids
    <3>2. PICK row \in working, e \in group_to_group :
            e.member = row.id /\ new.id = e.parent
      BY <2>3, ParentRow
    <3>3. row.id \in S
      BY <2>3, <3>1 DEF Sound, Ids
    <3> QED
      BY <3>1, <3>2, <3>3 DEF Closed
  <2>6. ASSUME max_depth = Unlimited
        PROVE  (self \in Ids(members) /\ Explored)'
    <3>1. SUFFICES ASSUME NEW row \in members, NEW e \in group_to_group,
                          e.member = row.id
                   PROVE  e.parent \in Ids(members')
      BY <2>1, <2>2, <2>6 DEF Explored
    <3>2. CASE row \notin working
      BY <2>2, <2>6, <3>1, <3>2 DEF Explored
    <3>3. CASE row \in working /\ e.parent \in OnPath(row.path)
      BY <2>2, <3>3 DEF PathsFound
    <3>4. CASE row \in working /\ e.parent \notin OnPath(row.path)
      <4>1. MayGrow(row.path)
        BY <2>6 DEF MayGrow
      <4> QED
        BY <2>2, <3>1, <3>4, <4>1, RowOfParent
    <3> QED
      BY <3>2, <3>3, <3>4
  <2>7. ~returned'
    BY <1>1, <2>1 DEF Round
  <2> QED
    BY <1>t, <2>1, <2>4, <2>5, <2>6, <2>7
<1>2. CASE Return
  BY <1>t, <1>2 DEF Return, PathsFound, Sound, Closed, Explored
<1>3. CASE UNCHANGED vars
  BY <1>t, <1>3 DEF vars, PathsFound, Sound, Closed, Explored
<1> QED
  BY <1>1, <1>2, <1>3 DEF Next, Finished

LEMMA ImpliesExact == IInv => ExpandsExactly
<1> SUFFICES ASSUME IInv, returned, max_depth = Unlimited
             PROVE  /\ Closed(answer)
                    /\ \A S \in SUBSET Groups : Closed(S) => answer \subseteq S
  BY DEF ExpandsExactly
<1>1. answer = Ids(members) /\ working = {}
  BY DEF IInv
<1>2. Closed(answer)
  <2>1. SUFFICES ASSUME NEW e \in group_to_group, e.member \in answer
                 PROVE  e.parent \in answer
    BY <1>1 DEF IInv, Closed
  <2>2. PICK row \in members : e.member = row.id
    BY <1>1, <2>1 DEF Ids
  <2> QED
    BY <1>1, <2>2 DEF IInv, Explored
<1> QED
  BY <1>1, <1>2 DEF IInv, Sound

(* Without a max_depth, expand answers exactly the groups that the group   *)
(* is a member of at any remove: a log-in misses none and adds none,       *)
(* however the memberships are knotted.                                    *)
THEOREM ExpandIsExact == Spec => []ExpandsExactly
<1>1. Spec => []IInv
  BY InitInv, NextInv, PTL DEF Spec
<1> QED
  BY <1>1, ImpliesExact, PTL

(* Each row's path, grown by a round, is still a path without repetition. *)
LEMMA NextPaths == TypeOK /\ PathsAreReal /\ working \subseteq members
                     /\ [Next]_vars => PathsAreReal'
<1> SUFFICES ASSUME TypeOK, PathsAreReal, working \subseteq members,
                    [Next]_vars
             PROVE  PathsAreReal'
  OBVIOUS
<1>1. CASE Round
  <2>1. SUFFICES ASSUME NEW new \in Parents(working)
                 PROVE
          /\ new.path # <<>>
          /\ new.path[1] = self
          /\ new.path[Len(new.path)] = new.id
          /\ \A i \in 1..(Len(new.path) - 1) :
               [member |-> new.path[i], parent |-> new.path[i + 1]]
                 \in group_to_group
          /\ \A i, j \in 1..Len(new.path) : new.path[i] = new.path[j] => i = j
    BY <1>1 DEF Round, PathsAreReal
  <2>2. working \in SUBSET Found
    BY DEF TypeOK
  <2>3. PICK row \in working, e \in group_to_group :
          /\ e.member = row.id
          /\ e.parent \notin OnPath(row.path)
          /\ new = [id |-> e.parent, path |-> Append(row.path, e.parent)]
    BY <2>2, ParentRow
  <2>4. row.path \in Seq(Groups) /\ e.parent \in Groups
    BY <2>2 DEF TypeOK, Found, Edge
  <2> DEFINE n == Len(row.path)
  <2>5. /\ n \in Nat \ {0}
        /\ row.path[1] = self
        /\ row.path[n] = e.member
        /\ \A i \in 1..(n - 1) :
             [member |-> row.path[i], parent |-> row.path[i + 1]]
               \in group_to_group
        /\ \A i, j \in 1..n : row.path[i] = row.path[j] => i = j
    BY <2>3, <2>4 DEF PathsAreReal
  <2>6. /\ Len(new.path) = n + 1
        /\ new.path[n + 1] = e.parent
        /\ \A i \in 1..n : new.path[i] = row.path[i]
    BY <2>3, <2>4
  <2>7. [member |-> e.member, parent |-> e.parent] \in group_to_group
    BY DEF TypeOK, Edge
  <2>8. \A i \in 1..n : row.path[i] # e.parent
    BY <2>3 DEF OnPath
  <2>9. \A i \in 1..n :
          [member |-> new.path[i], parent |-> new.path[i + 1]]
            \in group_to_group
    <3>1. SUFFICES ASSUME NEW i \in 1..n
                   PROVE  [member |-> new.path[i], parent |-> new.path[i + 1]]
                            \in group_to_group
      OBVIOUS
    <3>2. CASE i = n
      BY <2>5, <2>6, <2>7, <3>2
    <3>3. CASE i # n
      <4>1. i \in 1..(n - 1) /\ i + 1 \in 1..n
        BY <2>5, <3>3
      <4> QED
        BY <2>5, <2>6, <4>1
    <3> QED
      BY <3>2, <3>3
  <2>10. new.id = e.parent /\ new.path # <<>>
    BY <2>3, <2>4
  <2>11. new.path[1] = self /\ new.path[Len(new.path)] = new.id
    BY <2>5, <2>6, <2>10
  <2>12. \A i, j \in 1..(n + 1) : new.path[i] = new.path[j] => i = j
    <3>1. SUFFICES ASSUME NEW i \in 1..(n + 1), NEW j \in 1..(n + 1),
                          new.path[i] = new.path[j], i # j
                   PROVE  FALSE
      OBVIOUS
    <3>2. CASE i \in 1..n /\ j \in 1..n
      BY <2>5, <2>6, <3>1, <3>2
    <3>3. CASE i = n + 1 /\ j \in 1..n
      BY <2>6, <2>8, <3>1, <3>3
    <3>4. CASE i \in 1..n /\ j = n + 1
      BY <2>6, <2>8, <3>1, <3>4
    <3> QED
      BY <2>5, <3>1, <3>2, <3>3, <3>4
  <2>13. Len(new.path) = n + 1 /\ Len(new.path) - 1 = n
    BY <2>5, <2>6
  <2> HIDE DEF n
  <2>14. \A i \in 1..(Len(new.path) - 1) :
           [member |-> new.path[i], parent |-> new.path[i + 1]]
             \in group_to_group
    BY <2>9, <2>13
  <2>15. \A i, j \in 1..Len(new.path) : new.path[i] = new.path[j] => i = j
    BY <2>12, <2>13
  <2> QED
    BY <2>10, <2>11, <2>14, <2>15
<1>2. CASE Return
  BY <1>2 DEF Return, PathsAreReal
<1>3. CASE UNCHANGED vars
  BY <1>3 DEF vars, PathsAreReal
<1> QED
  BY <1>1, <1>2, <1>3 DEF Next, Finished

(* Every group found is reached by a chain of memberships that passes no   *)
(* group twice; so the paths are bounded, which is what ends the recursion.*)
THEOREM PathsCorrect == Spec => []PathsAreReal
<1>1. Init => PathsAreReal
  <2> SUFFICES ASSUME Init, NEW row \in members
               PROVE  /\ row.path # <<>> /\ row.path[1] = self
                      /\ row.path[Len(row.path)] = row.id
                      /\ \A i \in 1..Len(row.path)-1 :
                           [member |-> row.path[i], parent |-> row.path[i + 1]]
                             \in group_to_group
                      /\ \A i, j \in 1..Len(row.path) :
                           row.path[i] = row.path[j] => i = j
    BY DEF PathsAreReal
  <2>1. row = [id |-> self, path |-> <<self>>]
    BY DEF Init, Base
  <2>2. row.id = self /\ row.path = <<self>> /\ Len(row.path) = 1
    BY <2>1
  <2>3. row.path # <<>> /\ row.path[1] = self
    BY <2>2
  <2> QED
    BY <2>2, <2>3
<1>2. IInv /\ PathsAreReal /\ [Next]_vars => (IInv /\ PathsAreReal)'
  BY NextInv, NextPaths DEF IInv
<1> QED
  BY <1>1, <1>2, InitInv, PTL DEF Spec

-----------------------------------------------------------------------------
(* What max_depth gives.                                                   *)

(* A set that has 0 and, with every natural, the next has them all. *)
LEMMA Naturally ==
  ASSUME NEW S, 0 \in S, \A n \in Nat : n \in S => n + 1 \in S
  PROVE  \A n \in Nat : n \in S
<1> DEFINE T == Nat \ S
           R == OpToRel(<, Nat)
<1> SUFFICES ASSUME T # {} PROVE FALSE
  OBVIOUS
<1>1. IsWellFoundedOn(R, Nat)
  BY NatLessThanWellFounded
<1> HIDE DEF R
<1>2. PICK x \in T : \A y \in T : ~ (<<y, x>> \in R)
  BY <1>1, WFMin
<1>3. \A y \in T : ~ (y < x)
  BY <1>2 DEF R, OpToRel
<1>4. x \in Nat /\ x # 0
  OBVIOUS
<1>5. x - 1 \in Nat /\ x - 1 < x /\ (x - 1) + 1 = x
  BY <1>4
<1>6. x - 1 \in S
  BY <1>3, <1>5
<1> QED
  BY <1>5, <1>6

(* The groups that one more membership leads to. *)
Further(W) == W \cup {e.parent : e \in {f \in group_to_group : f.member \in W}}

(* n memberships, or fewer, that lead from self to g. *)
Leads(p, n, g) ==
  /\ p \in [0..n -> Groups] /\ p[0] = self /\ p[n] = g
  /\ \A k \in 0..(n - 1) :
       p[k + 1] = p[k] \/ [member |-> p[k], parent |-> p[k + 1]] \in group_to_group

Reached(n) == {g \in Groups : \E p : Leads(p, n, g)}

LEMMA ReachedStep ==
  ASSUME TypeOK
  PROVE  /\ Reached(0) = {self}
         /\ \A n \in Nat : Reached(n + 1) = Further(Reached(n))
<1>1. self \in Groups /\ \A e \in group_to_group : e \in Edge
  BY DEF TypeOK
<1>2. Reached(0) = {self}
  <2> DEFINE p == [k \in 0..0 |-> self]
  <2>1. Leads(p, 0, self)
    BY <1>1 DEF Leads
  <2>2. \A g, q : Leads(q, 0, g) => g = self
    BY DEF Leads
  <2> HIDE DEF p
  <2> QED
    BY <1>1, <2>1, <2>2 DEF Reached
<1>3. ASSUME NEW n \in Nat PROVE Reached(n + 1) \subseteq Further(Reached(n))
  <2> SUFFICES ASSUME NEW g \in Groups, NEW p, Leads(p, n + 1, g)
               PROVE  g \in Further(Reached(n))
    BY DEF Reached
  <2> DEFINE q == [k \in 0..n |-> p[k]]
  <2>1. /\ p \in [0..(n + 1) -> Groups] /\ p[0] = self /\ p[n + 1] = g
        /\ \A k \in 0..n : p[k + 1] = p[k]
             \/ [member |-> p[k], parent |-> p[k + 1]] \in group_to_group
    BY DEF Leads
  <2>2. Leads(q, n, p[n]) /\ p[n] \in Groups
    BY <2>1 DEF Leads
  <2> HIDE DEF q
  <2>3. p[n] \in Reached(n)
    BY <2>2 DEF Reached
  <2>4. CASE g = p[n]
    BY <2>3, <2>4 DEF Further
  <2>5. CASE g # p[n]
    <3> DEFINE e == [member |-> p[n], parent |-> g]
    <3>1. e \in group_to_group
      BY <2>1, <2>5
    <3>2. e.member = p[n] /\ e.parent = g
      OBVIOUS
    <3> HIDE DEF e
    <3> QED
      BY <2>3, <3>1, <3>2 DEF Further
  <2> QED
    BY <2>4, <2>5
<1>4. ASSUME NEW n \in Nat, NEW m \in Reached(n), NEW g \in Groups,
             g = m \/ [member |-> m, parent |-> g] \in group_to_group
      PROVE  g \in Reached(n + 1)
  <2>1. PICK p : Leads(p, n, m)
    BY DEF Reached
  <2> DEFINE q == [k \in 0..(n + 1) |-> IF k <= n THEN p[k] ELSE g]
  <2>2. /\ p \in [0..n -> Groups] /\ p[0] = self /\ p[n] = m
        /\ \A k \in 0..(n - 1) : p[k + 1] = p[k]
             \/ [member |-> p[k], parent |-> p[k + 1]] \in group_to_group
    BY <2>1 DEF Leads
  <2>3. /\ q \in [0..(n + 1) -> Groups] /\ q[0] = self /\ q[n + 1] = g
    BY <2>2
  <2>4. /\ \A k \in 0..n : q[k] = p[k]
        /\ q[n + 1] = g
    OBVIOUS
  <2> HIDE DEF q
  <2>5. ASSUME NEW k \in 0..n
        PROVE  q[k + 1] = q[k]
                 \/ [member |-> q[k], parent |-> q[k + 1]] \in group_to_group
    <3>1. CASE k = n
      BY <1>4, <2>2, <2>4, <3>1
    <3>2. CASE k # n
      <4>1. k \in 0..(n - 1) /\ k + 1 \in 0..n
        BY <3>2
      <4> QED
        BY <2>2, <2>4, <4>1
    <3> QED
      BY <3>1, <3>2
  <2>6. Leads(q, n + 1, g)
    BY <2>3, <2>5 DEF Leads
  <2> QED
    BY <2>6 DEF Reached
<1>5. ASSUME NEW n \in Nat PROVE Further(Reached(n)) \subseteq Reached(n + 1)
  <2> SUFFICES ASSUME NEW g \in Further(Reached(n)) PROVE g \in Reached(n + 1)
    OBVIOUS
  <2>1. CASE g \in Reached(n)
    BY <1>4, <2>1 DEF Reached
  <2>2. CASE g \notin Reached(n)
    <3>1. PICK e \in group_to_group : e.member \in Reached(n) /\ e.parent = g
      BY <2>2 DEF Further
    <3>2. e = [member |-> e.member, parent |-> g] /\ g \in Groups
      BY <1>1, <3>1 DEF Edge
    <3> QED
      BY <1>4, <3>1, <3>2
  <2> QED
    BY <2>1, <2>2
<1> QED
  BY <1>2, <1>3, <1>5

(* The recursive definition of Within has the values it is meant to have. *)
LEMMA WithinStep ==
  ASSUME TypeOK
  PROVE  /\ Within[0] = {self}
         /\ \A n \in Nat : Within[n + 1] = Further(Within[n])
<1> DEFINE Unfolded(up) ==
             [n \in Nat |-> IF n = 0 THEN {self} ELSE Further(up[n - 1])]
           reached == [n \in Nat |-> Reached(n)]
<1>1. reached = Unfolded(reached)
  <2> SUFFICES ASSUME NEW n \in Nat
               PROVE  Reached(n) = IF n = 0 THEN {self} ELSE Further(reached[n - 1])
    OBVIOUS
  <2>1. CASE n = 0
    BY <2>1, ReachedStep
  <2>2. CASE n # 0
    <3>1. n - 1 \in Nat /\ (n - 1) + 1 = n
      BY <2>2
    <3>2. Reached((n - 1) + 1) = Further(Reached(n - 1))
      BY <3>1, ReachedStep
    <3>3. reached[n - 1] = Reached(n - 1)
      BY <3>1
    <3> QED
      BY <2>2, <3>1, <3>2, <3>3
  <2> QED
    BY <2>1, <2>2
<1>2. Within = CHOOSE up : up = Unfolded(up)
  BY DEF Within, Further
<1> HIDE DEF reached
<1>3. Within = Unfolded(Within)
  BY <1>1, <1>2
<1>4. \A n \in Nat : Within[n] = IF n = 0 THEN {self} ELSE Further(Within[n - 1])
  BY <1>3
<1> QED
  <2>1. ASSUME NEW n \in Nat PROVE Within[n + 1] = Further(Within[n])
    <3>1. n + 1 \in Nat /\ n + 1 # 0 /\ (n + 1) - 1 = n
      OBVIOUS
    <3> QED
      BY <1>4, <3>1
  <2> QED
    BY <1>4, <2>1

LEMMA WithinGrows ==
  ASSUME TypeOK, NEW m \in Nat, NEW n \in Nat, m <= n
  PROVE  Within[m] \subseteq Within[n]
<1> DEFINE S == {k \in Nat : Within[m] \subseteq Within[m + k]}
<1>1. 0 \in S
  OBVIOUS
<1>2. ASSUME NEW k \in Nat, k \in S PROVE k + 1 \in S
  <2>1. m + k \in Nat /\ (m + k) + 1 = m + (k + 1) /\ k + 1 \in Nat
    OBVIOUS
  <2>2. Within[(m + k) + 1] = Further(Within[m + k])
    BY <2>1, WithinStep
  <2> QED
    BY <1>2, <2>1, <2>2 DEF Further
<1> HIDE DEF S
<1>3. n - m \in S
  <2>1. n - m \in Nat
    OBVIOUS
  <2> QED
    BY <1>1, <1>2, <2>1, Naturally
<1>4. m + (n - m) = n
  OBVIOUS
<1> QED
  BY <1>3, <1>4 DEF S

(* Group g was found on a path of at most n groups. *)
Has(g, n) == \E row \in members : row.id = g /\ Len(row.path) <= n

(* No row is farther away than max_depth allows. *)
InDepth ==
  max_depth # Unlimited =>
    \A row \in members :
      Len(row.path) \in 1..max_depth /\ row.id \in Within[Len(row.path) - 1]

(* The start of a path was found before the path. *)
Prefixes == \A row \in members : \A i \in 1..Len(row.path) : Has(row.path[i], i)

(* What a row of an earlier round could grow by has been found. *)
Grown ==
  \A row \in members \ working : \A e \in group_to_group :
    e.member = row.id /\ MayGrow(row.path) => Has(e.parent, Len(row.path) + 1)

Deep ==
  /\ InDepth /\ Prefixes /\ Grown
  /\ max_depth # 0 => Has(self, 1)

LEMMA InitDeep == Init => Deep
<1> SUFFICES ASSUME Init PROVE Deep
  OBVIOUS
<1>1. TypeOK
  BY InitType
<1>2. members = Base(self, max_depth) /\ working = members
  BY DEF Init
<1>3. max_depth = Unlimited \/ max_depth \in Nat
  BY <1>1, DepthsAssumption DEF TypeOK
<1>4. \A row \in members : /\ row.id = self /\ row.path = <<self>>
                           /\ max_depth = Unlimited \/ max_depth > 0
  BY <1>2 DEF Base
<1>5. \A row \in members : Len(row.path) = 1 /\ row.path[1] = self
  BY <1>4
<1>6. InDepth
  <2> SUFFICES ASSUME max_depth # Unlimited, NEW row \in members
               PROVE  1 \in 1..max_depth /\ self \in Within[1 - 1]
    BY <1>4, <1>5 DEF InDepth
  <2>1. max_depth \in Nat /\ max_depth > 0
    BY <1>3, <1>4
  <2> QED
    BY <1>1, <2>1, WithinStep
<1>7. Prefixes
  <2> SUFFICES ASSUME NEW row \in members, NEW i \in 1..1 PROVE Has(self, i)
    BY <1>5 DEF Prefixes
  <2>1. row.id = self /\ Len(row.path) = 1
    BY <1>4, <1>5
  <2>2. Len(row.path) <= i
    BY <2>1
  <2> QED
    BY <2>1, <2>2 DEF Has
<1>8. Grown
  BY <1>2 DEF Grown
<1>9. max_depth # 0 => Has(self, 1)
  <2> SUFFICES ASSUME max_depth # 0 PROVE Has(self, 1)
    OBVIOUS
  <2> DEFINE first == [id |-> self, path |-> <<self>>]
  <2>1. first \in members
    BY <1>2, <1>3 DEF Base
  <2>2. first.id = self /\ Len(first.path) <= 1
    BY <1>5, <2>1
  <2> HIDE DEF first
  <2> QED
    BY <2>1, <2>2 DEF Has
<1> QED
  BY <1>6, <1>7, <1>8, <1>9 DEF Deep

LEMMA RoundDeep ==
  ASSUME IInv, Deep, Round
  PROVE  Deep'
<1>1. /\ working' = Parents(working)
      /\ members' = members \cup Parents(working)
      /\ UNCHANGED <<group_to_group, self, max_depth, answer, returned>>
  BY DEF Round
<1>2. /\ TypeOK /\ working \in SUBSET Found /\ working \subseteq members
      /\ members \in SUBSET Found /\ Parents(working) \in SUBSET Found
  BY ParentsType DEF IInv, TypeOK
<1>3. /\ \A row \in members : Len(row.path) \in Nat
      /\ \A row \in members' : Len(row.path) \in Nat
  BY <1>1, <1>2 DEF Found
<1>4. ASSUME NEW g, NEW n, Has(g, n) PROVE Has(g, n)'
  BY <1>1, <1>4 DEF Has
<1>5. Within' = Within
  BY <1>1 DEF Within
<1>6. ASSUME NEW new \in Parents(working)
      PROVE  \E row \in working, e \in group_to_group :
               /\ e.member = row.id /\ MayGrow(row.path)
               /\ new.id = e.parent
               /\ Len(new.path) = Len(row.path) + 1
               /\ new.path[Len(row.path) + 1] = e.parent
               /\ \A i \in 1..Len(row.path) : new.path[i] = row.path[i]
  <2>1. PICK row \in working, e \in group_to_group :
          /\ e.member = row.id /\ MayGrow(row.path)
          /\ new = [id |-> e.parent, path |-> Append(row.path, e.parent)]
    BY DEF Parents
  <2>2. row.path \in Seq(Groups) /\ e.parent \in Groups
    BY <1>2 DEF TypeOK, Found, Edge
  <2>3. /\ new.id = e.parent /\ Len(new.path) = Len(row.path) + 1
        /\ new.path[Len(row.path) + 1] = e.parent
        /\ \A i \in 1..Len(row.path) : new.path[i] = row.path[i]
    BY <2>1, <2>2
  <2> QED
    BY <2>1, <2>3
<1>7. InDepth'
  <2> SUFFICES ASSUME max_depth # Unlimited, NEW new \in members'
               PROVE  /\ Len(new.path) \in 1..max_depth
                      /\ new.id \in Within[Len(new.path) - 1]
    BY <1>1, <1>5 DEF InDepth
  <2>1. CASE new \in members
    BY <2>1 DEF Deep, InDepth
  <2>2. CASE new \in Parents(working)
    <3>1. PICK row \in working, e \in group_to_group :
            /\ e.member = row.id /\ MayGrow(row.path)
            /\ new.id = e.parent /\ Len(new.path) = Len(row.path) + 1
      BY <1>6, <2>2
    <3> DEFINE n == Len(row.path)
    <3>2. n \in 1..max_depth /\ e.member \in Within[n - 1]
      BY <1>2, <3>1 DEF Deep, InDepth
    <3>3. max_depth \in Nat /\ n \in Nat /\ n < max_depth
      BY <1>2, <1>3, <3>1, DepthsAssumption DEF TypeOK, MayGrow
    <3> HIDE DEF n
    <3>4. n - 1 \in Nat /\ (n - 1) + 1 = n
      BY <3>2, <3>3
    <3>5. Within[n] = Further(Within[n - 1])
      BY <1>2, <3>4, WithinStep
    <3>6. e.parent \in Within[n]
      BY <3>2, <3>5 DEF Further
    <3>7. Len(new.path) = n + 1 /\ (n + 1) - 1 = n /\ n + 1 \in 1..max_depth
      BY <3>1, <3>3 DEF n
    <3> QED
      BY <3>1, <3>6, <3>7
  <2> QED
    BY <1>1, <2>1, <2>2
<1>8. Prefixes'
  <2> SUFFICES ASSUME NEW new \in members', NEW i \in 1..Len(new.path)
               PROVE  \E row \in members' : row.id = new.path[i] /\ Len(row.path) <= i
    BY DEF Prefixes, Has
  <2>1. CASE new \in members
    BY <1>1, <2>1 DEF Deep, Prefixes, Has
  <2>2. CASE new \in Parents(working)
    <3>1. PICK row \in working, e \in group_to_group :
            /\ new.id = e.parent /\ Len(new.path) = Len(row.path) + 1
            /\ new.path[Len(row.path) + 1] = e.parent
            /\ \A k \in 1..Len(row.path) : new.path[k] = row.path[k]
      BY <1>6, <2>2
    <3>2. Len(row.path) \in Nat
      BY <1>2, <1>3
    <3>3. CASE i = Len(row.path) + 1
      BY <3>1, <3>2, <3>3
    <3>4. CASE i # Len(row.path) + 1
      <4>1. i \in 1..Len(row.path)
        BY <3>1, <3>2, <3>4
      <4>2. Has(row.path[i], i)
        BY <1>2, <4>1 DEF Deep, Prefixes
      <4> QED
        BY <1>1, <3>1, <4>1, <4>2 DEF Has
    <3> QED
      BY <3>3, <3>4
  <2> QED
    BY <1>1, <2>1, <2>2
<1>9. Grown'
  <2> SUFFICES ASSUME NEW row \in members, NEW e \in group_to_group,
                      e.member = row.id, MayGrow(row.path)
               PROVE  \E r \in members' :
                        r.id = e.parent /\ Len(r.path) <= Len(row.path) + 1
    BY <1>1 DEF Grown, Has, MayGrow
  <2>1. CASE row \notin working
    BY <1>1, <2>1 DEF Deep, Grown, Has
  <2>2. CASE row \in working /\ e.parent \in OnPath(row.path)
    <3>1. PICK i \in 1..Len(row.path) : row.path[i] = e.parent
      BY <2>2 DEF OnPath
    <3>2. PICK r \in members : r.id = e.parent /\ Len(r.path) <= i
      BY <3>1 DEF Deep, Prefixes, Has
    <3>3. Len(r.path) <= Len(row.path) + 1
      BY <1>3, <3>1, <3>2
    <3> QED
      BY <1>1, <3>2, <3>3
  <2>3. CASE row \in working /\ e.parent \notin OnPath(row.path)
    <3> DEFINE new == [id |-> e.parent, path |-> Append(row.path, e.parent)]
    <3>1. new \in {[id |-> f.parent, path |-> Append(row.path, f.parent)] :
                     f \in {f \in group_to_group :
                              /\ f.member = row.id
                              /\ f.parent \notin OnPath(row.path)
                              /\ MayGrow(row.path)}}
      BY <2>3
    <3>2. new \in Parents(working)
      BY <2>3, <3>1, Zenon DEF Parents
    <3>3. row.path \in Seq(Groups) /\ e.parent \in Groups
      BY <1>2 DEF TypeOK, Found, Edge
    <3>4. new.id = e.parent /\ Len(new.path) = Len(row.path) + 1
      BY <3>3
    <3> HIDE DEF new
    <3> QED
      BY <1>1, <1>3, <3>2, <3>4
  <2> QED
    BY <2>1, <2>2, <2>3
<1>10. (max_depth # 0 => Has(self, 1))'
  BY <1>1 DEF Deep, Has
<1> QED
  BY <1>7, <1>8, <1>9, <1>10 DEF Deep

LEMMA NextDeep == IInv /\ Deep /\ [Next]_vars => Deep'
<1> SUFFICES ASSUME IInv, Deep, [Next]_vars PROVE Deep'
  OBVIOUS
<1>1. CASE UNCHANGED <<group_to_group, self, max_depth, working, members>>
  BY <1>1 DEF Deep, InDepth, Prefixes, Grown, Has, MayGrow, Within
<1> QED
  BY <1>1, RoundDeep DEF Next, Return, Finished, vars

(* The shortest way to a group is found whole. *)
LEMMA AllFound ==
  ASSUME IInv, Deep, working = {}, max_depth \in Nat, max_depth # 0,
         NEW n \in Nat, n < max_depth, NEW g \in Within[n]
  PROVE  Has(g, n + 1)
<1> DEFINE S == {k \in Nat : k < max_depth => \A h \in Within[k] : Has(h, k + 1)}
<1>1. TypeOK
  BY DEF IInv
<1>2. 0 \in S
  BY <1>1, WithinStep DEF Deep
<1>3. ASSUME NEW k \in Nat, k \in S PROVE k + 1 \in S
  <2> SUFFICES ASSUME k + 1 < max_depth, NEW h \in Within[k + 1]
               PROVE  Has(h, (k + 1) + 1)
    OBVIOUS
  <2>0. \A m \in Within[k] : Has(m, k + 1)
    BY <1>3
  <2> HIDE DEF S
  <2>1. Within[k + 1] = Further(Within[k])
    BY <1>1, WithinStep
  <2>2. \A row \in members : Len(row.path) \in Nat
    BY <1>1 DEF TypeOK, Found
  <2>3. CASE h \in Within[k]
    BY <2>0, <2>2, <2>3 DEF Has
  <2>4. CASE h \notin Within[k]
    <3>1. PICK e \in group_to_group : e.member \in Within[k] /\ h = e.parent
      BY <2>1, <2>4 DEF Further
    <3>2. PICK row \in members : row.id = e.member /\ Len(row.path) <= k + 1
      BY <2>0, <3>1 DEF Has
    <3>3. MayGrow(row.path)
      BY <2>2, <3>2 DEF MayGrow
    <3>4. PICK r \in members : r.id = h /\ Len(r.path) <= Len(row.path) + 1
      BY <3>1, <3>2, <3>3 DEF Deep, Grown, Has
    <3>5. Len(r.path) <= (k + 1) + 1
      BY <2>2, <3>2, <3>4
    <3> QED
      BY <3>4, <3>5 DEF Has
  <2> QED
    BY <2>3, <2>4
<1> HIDE DEF S
<1>4. n \in S
  BY <1>2, <1>3, Naturally
<1> QED
  BY <1>4 DEF S

LEMMA ImpliesDepth == IInv /\ Deep => ExpandsToDepth
<1> SUFFICES ASSUME IInv, Deep, returned, max_depth # Unlimited
             PROVE  answer = IF max_depth = 0 THEN {} ELSE Within[max_depth - 1]
  BY DEF ExpandsToDepth
<1>1. TypeOK /\ working = {} /\ answer = Ids(members)
  BY DEF IInv
<1>2. max_depth \in Nat
  BY <1>1, DepthsAssumption DEF TypeOK
<1>3. \A row \in members :
        Len(row.path) \in 1..max_depth /\ row.id \in Within[Len(row.path) - 1]
  BY DEF Deep, InDepth
<1>4. CASE max_depth = 0
  <2>1. members = {}
    BY <1>3, <1>4
  <2> QED
    BY <1>1, <1>4, <2>1 DEF Ids
<1>5. CASE max_depth # 0
  <2> DEFINE n == max_depth - 1
  <2>1. n \in Nat /\ n < max_depth
    BY <1>2, <1>5
  <2>2. ASSUME NEW row \in members PROVE row.id \in Within[n]
    <3>1. Len(row.path) - 1 \in Nat /\ Len(row.path) - 1 <= n
      BY <1>2, <1>3
    <3> HIDE DEF n
    <3>2. Within[Len(row.path) - 1] \subseteq Within[n]
      BY <1>1, <2>1, <3>1, WithinGrows
    <3> QED
      BY <1>3, <3>2
  <2>3. \A g \in Within[n] : Has(g, n + 1)
    BY <1>1, <1>2, <1>5, <2>1, AllFound
  <2> HIDE DEF n
  <2>4. Ids(members) = Within[n]
    BY <2>2, <2>3 DEF Ids, Has
  <2> QED
    BY <1>1, <1>5, <2>4 DEF n
<1> QED
  BY <1>4, <1>5

(* With a max_depth of n, expand answers the groups at most n - 1          *)
(* memberships away and no other: a path that is cut, at a cycle or at     *)
(* max_depth, never hides a shorter way.                                   *)
THEOREM ExpandIsToDepth == Spec => []ExpandsToDepth
<1>1. IInv /\ Deep /\ [Next]_vars => (IInv /\ Deep)'
  BY NextInv, NextDeep
<1> QED
  BY <1>1, ImpliesDepth, InitInv, InitDeep, PTL DEF Spec
-----------------------------------------------------------------------------
(* How many rounds there are.                                              *)

(* A round works on the longest paths. *)
Longest ==
  /\ working \subseteq members
  /\ \A row \in working : \A old \in members : Len(old.path) <= Len(row.path)

LEMMA RoundLonger ==
  ASSUME TypeOK, Longest, Round
  PROVE  /\ Longest'
         /\ \A row \in working' : \A old \in members : Len(old.path) < Len(row.path)
<1>1. working' = Parents(working) /\ members' = members \cup Parents(working)
  BY DEF Round
<1>2. working \in SUBSET Found /\ working \subseteq members
  BY DEF TypeOK, Longest
<1>3. \A row \in members : Len(row.path) \in Nat
  BY DEF TypeOK, Found
<1>4. ASSUME NEW new \in Parents(working)
      PROVE  \E row \in working : Len(new.path) = Len(row.path) + 1
  <2>1. PICK row \in working, e \in group_to_group :
          new = [id |-> e.parent, path |-> Append(row.path, e.parent)]
    BY <1>2, ParentRow
  <2>2. row.path \in Seq(Groups) /\ e.parent \in Groups
    BY <1>2 DEF TypeOK, Found, Edge
  <2> QED
    BY <2>1, <2>2
<1>5. ASSUME NEW new \in Parents(working), NEW old \in members
      PROVE  Len(old.path) < Len(new.path)
  <2>1. PICK row \in working : Len(new.path) = Len(row.path) + 1
    BY <1>4
  <2>2. Len(old.path) <= Len(row.path)
    BY DEF Longest
  <2> QED
    BY <1>2, <1>3, <2>1, <2>2
<1>6. ASSUME NEW new \in Parents(working), NEW other \in Parents(working)
      PROVE  Len(other.path) <= Len(new.path)
  <2>1. PICK row \in working : Len(other.path) = Len(row.path) + 1
    BY <1>4
  <2>2. PICK from \in working : Len(new.path) = Len(from.path) + 1
    BY <1>4
  <2>3. Len(row.path) <= Len(from.path)
    BY <1>2 DEF Longest
  <2> QED
    BY <1>2, <1>3, <2>1, <2>2, <2>3
<1>7. ASSUME NEW new \in Parents(working)
      PROVE  Len(new.path) \in Nat
  BY <1>2, <1>3, <1>4
<1>8. Longest'
  <2> SUFFICES ASSUME NEW row \in Parents(working), NEW old \in members'
               PROVE  Len(old.path) <= Len(row.path)
    BY <1>1 DEF Longest
  <2>1. CASE old \in members
    BY <1>3, <1>5, <1>7, <2>1
  <2>2. CASE old \in Parents(working)
    BY <1>6, <2>2
  <2> QED
    BY <1>1, <2>1, <2>2
<1> QED
  BY <1>1, <1>5, <1>8

LEMMA NextLongest == TypeOK /\ Longest /\ [Next]_vars => Longest'
<1> SUFFICES ASSUME TypeOK, Longest, [Next]_vars PROVE Longest'
  OBVIOUS
<1>1. CASE Round
  BY <1>1, RoundLonger
<1>2. CASE Return \/ UNCHANGED vars
  BY <1>2 DEF Return, vars, Longest
<1> QED
  BY <1>1, <1>2 DEF Next, Finished

LEMMA InitLongest == Init => Longest
<1> SUFFICES ASSUME Init PROVE Longest
  OBVIOUS
<1>1. working = members /\ \A row \in members : row.path = <<self>>
  BY DEF Init, Base
<1>2. \A row \in members : Len(row.path) = 1
  BY <1>1
<1> QED
  BY <1>1, <1>2 DEF Longest

LEMMA PathsAreShort ==
  ASSUME IsFiniteSet(Groups), TypeOK, PathsAreReal, NEW row \in members
  PROVE  Len(row.path) <= Cardinality(Groups)
<1> DEFINE n == Len(row.path)
<1>1. row.path \in Seq(Groups) /\ n \in Nat
  BY DEF TypeOK, Found
<1>2. row.path \in [1..n -> Groups]
  BY <1>1
<1>3. \A i, j \in 1..n : row.path[i] = row.path[j] => i = j
  BY DEF PathsAreReal
<1> HIDE DEF n
<1>4. row.path \in Injection(1..n, Groups)
  BY <1>2, <1>3 DEF Injection, IsInjective
<1>5. Cardinality(1..n) <= Cardinality(Groups)
  BY <1>4, FS_Injection
<1>6. Cardinality(1..n) = n
  BY <1>1, FS_Interval
<1> QED
  BY <1>5, <1>6 DEF n

(* Each round finds longer paths than all before it, and no path is longer *)
(* than there are groups: the recursion is over after as many rounds,      *)
(* whatever cycles the memberships form.                                   *)
THEOREM RoundsAreFew ==
  ASSUME IsFiniteSet(Groups)
  PROVE  Spec =>
           /\ [](\A row \in members : Len(row.path) <= Cardinality(Groups))
           /\ [][\A row \in members' \ members : \A old \in members :
                   Len(old.path) < Len(row.path)]_vars
<1> DEFINE Short == \A row \in members : Len(row.path) <= Cardinality(Groups)
           Longer == \A row \in members' \ members : \A old \in members :
                       Len(old.path) < Len(row.path)
<1>1. TypeOK /\ PathsAreReal => Short
  BY PathsAreShort
<1>2. TypeOK /\ Longest /\ [Next]_vars => [Longer]_vars
  <2> SUFFICES ASSUME TypeOK, Longest, [Next]_vars PROVE Longer
    OBVIOUS
  <2>1. CASE Round
    <3>1. members' = members \cup working'
      BY <2>1 DEF Round
    <3> QED
      BY <2>1, <3>1, RoundLonger
  <2>2. CASE Return \/ UNCHANGED vars
    BY <2>2 DEF Return, vars
  <2> QED
    BY <2>1, <2>2 DEF Next, Finished
<1>3. Spec => []Longest
  <2>1. (TypeOK /\ Longest) /\ [Next]_vars => (TypeOK /\ Longest)'
    BY NextType, NextLongest
  <2> QED
    BY <2>1, InitType, InitLongest, PTL DEF Spec
<1> HIDE DEF Short, Longer
<1>4. Spec => []Short /\ [][Longer]_vars
  BY <1>1, <1>2, <1>3, TypeCorrect, PathsCorrect, PTL DEF Spec
<1> QED
  BY <1>4 DEF Short, Longer
=============================================================================
