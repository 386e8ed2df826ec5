----------------------------- MODULE GroupExpand ------------------------------
(***************************************************************************)
(* Group.expand of apis/auth models/group.py: the groups a group is a      *)
(* member of, at any remove, found by one recursive query that walks up    *)
(* group_to_group.  A log-in turns a profile's groups into the groups of   *)
(* its session with it.                                                    *)
(*                                                                         *)
(* PostgreSQL evaluates WITH RECURSIVE in rounds: each round joins the     *)
(* rows that the last one found with group_to_group.  A row carries the    *)
(* path to its group, which it may not extend with a group already on it   *)
(* (memberships may form cycles), nor beyond max_depth groups.             *)
(*                                                                         *)
(* The rows are a set: two equal rows of the UNION ALL differ in nothing   *)
(* the query looks at, and the Query returns each Group once.              *)
(***************************************************************************)
EXTENDS Naturals, Sequences, FiniteSets

CONSTANTS
  Groups,      (* the ids of the groups                                    *)
  Graphs,      (* the contents group_to_group may have                     *)
  Depths,      (* the values of max_depth                                  *)
  Unlimited    (* max_depth = None                                         *)

Edge == [member : Groups, parent : Groups]

ASSUME GraphsAssumption == Graphs \subseteq SUBSET Edge
ASSUME DepthsAssumption ==
  /\ Depths \subseteq Nat \cup {Unlimited}
  /\ Unlimited \notin Nat

(* A row of the common table expression `members`. *)
Found == [id : Groups, path : Seq(Groups)]

VARIABLES
  group_to_group,   (* the table, as the one statement sees it             *)
  self,             (* the group that is expanded                          *)
  max_depth,        (* the parameter                                       *)
  working,          (* the rows of the last round                          *)
  members,          (* all rows found                                      *)
  answer,           (* the ids of the groups returned                      *)
  returned          (* the query has returned                              *)

vars ==
  <<group_to_group, self, max_depth, working, members, answer, returned>>

-----------------------------------------------------------------------------
OnPath(path) == {path[i] : i \in 1..Len(path)}

Ids(rows) == {row.id : row \in rows}

(* max_depth_clause of the recursive part. *)
MayGrow(path) == max_depth = Unlimited \/ Len(path) < max_depth

(* The non-recursive part: the group itself, unless max_depth is 0. *)
Base(g, depth) ==
  IF depth = Unlimited \/ depth > 0 THEN {[id |-> g, path |-> <<g>>]} ELSE {}

(* Faults: mistaken variants of the definition that follows them, for the  *)
(* exercises of the README.                                                *)

(* Fault: down instead of up. *)
ParentsDownwards(rows) ==
  UNION {{[id |-> e.member, path |-> Append(row.path, e.member)] :
            e \in {f \in group_to_group : /\ f.parent = row.id
                                          /\ f.member \notin OnPath(row.path)
                                          /\ MayGrow(row.path)}} :
           row \in rows}

(* Fault: <= for <. *)
ParentsOneTooDeep(rows) ==
  UNION {{[id |-> e.parent, path |-> Append(row.path, e.parent)] :
            e \in {f \in group_to_group :
                     /\ f.member = row.id
                     /\ f.parent \notin OnPath(row.path)
                     /\ max_depth = Unlimited \/ Len(row.path) <= max_depth}} :
           row \in rows}

(* The recursive part, on the rows of the last round. *)
Parents(rows) ==
  UNION {{[id |-> e.parent, path |-> Append(row.path, e.parent)] :
            e \in {f \in group_to_group : /\ f.member = row.id
                                          /\ f.parent \notin OnPath(row.path)
                                          /\ MayGrow(row.path)}} :
           row \in rows}

Init ==
  /\ group_to_group \in Graphs
  /\ self \in Groups
  /\ max_depth \in Depths
  /\ working = Base(self, max_depth)
  /\ members = working
  /\ answer = {}
  /\ returned = FALSE

(* Fault: each round joins all the rows found, not those of the last one. *)
RoundOnAllRows ==
  /\ working # {}
  /\ working' = Parents(members)
  /\ members' = members \cup working'
  /\ UNCHANGED <<group_to_group, self, max_depth, answer, returned>>

(* One round of the recursion. *)
Round ==
  /\ working # {}
  /\ working' = Parents(working)
  /\ members' = members \cup working'
  /\ UNCHANGED <<group_to_group, self, max_depth, answer, returned>>

(* Fault: the rows themselves are returned. *)
ReturnRows ==
  /\ working = {}
  /\ ~returned
  /\ answer' = members
  /\ returned' = TRUE
  /\ UNCHANGED <<group_to_group, self, max_depth, working, members>>

(* The rounds are over: Group joined with the rows. *)
Return ==
  /\ working = {}
  /\ ~returned
  /\ answer' = Ids(members)
  /\ returned' = TRUE
  /\ UNCHANGED <<group_to_group, self, max_depth, working, members>>

Finished == returned /\ UNCHANGED vars

Next == Round \/ Return \/ Finished

Spec == Init /\ [][Next]_vars

(* The database carries the statement through. *)
FairSpec == Spec /\ WF_vars(Round \/ Return)

-----------------------------------------------------------------------------
TypeOK ==
  /\ group_to_group \in SUBSET Edge
  /\ self \in Groups
  /\ max_depth \in Depths
  /\ working \in SUBSET Found
  /\ members \in SUBSET Found
  /\ answer \in SUBSET Groups
  /\ returned \in BOOLEAN

(* Contains the group and, with every group, those it is a member of. *)
Closed(S) ==
  /\ self \in S
  /\ \A e \in group_to_group : e.member \in S => e.parent \in S

(* Without a max_depth the answer is the least set that contains the group *)
(* and every group that a group in it is a member of: no membership is     *)
(* missed because a path was cut at a cycle, and none is made up.          *)
ExpandsExactly ==
  returned /\ max_depth = Unlimited =>
    /\ Closed(answer)
    /\ \A S \in SUBSET Groups : Closed(S) => answer \subseteq S

(* Within[n]: the groups at most n memberships away. *)
Within ==
  LET up[n \in Nat] ==
        IF n = 0 THEN {self}
        ELSE up[n - 1] \cup {e.parent : e \in {f \in group_to_group :
                                                 f.member \in up[n - 1]}}
  IN  up

(* With a max_depth of n the answer is the groups at most n - 1            *)
(* memberships away, by the shortest way and whatever longer ways there    *)
(* are; 0 gives none at all, not even the group itself.                    *)
ExpandsToDepth ==
  returned /\ max_depth # Unlimited =>
    answer = IF max_depth = 0 THEN {} ELSE Within[max_depth - 1]

(* Every row is accounted for: its path leads from the group to the row's  *)
(* group by memberships, without passing a group twice.                    *)
PathsAreReal ==
  \A row \in members :
    /\ row.path # <<>>
    /\ row.path[1] = self
    /\ row.path[Len(row.path)] = row.id
    /\ \A i \in 1..(Len(row.path) - 1) :
         [member |-> row.path[i], parent |-> row.path[i + 1]]
           \in group_to_group
    /\ \A i, j \in 1..Len(row.path) : row.path[i] = row.path[j] => i = j

(* The recursion ends, whatever cycles the memberships form. *)
Answers == <>returned
=============================================================================
