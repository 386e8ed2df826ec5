--------------------------- MODULE GroupMembership ----------------------------
(***************************************************************************)
(* The groups of apis/auth and their lists members and member_of, which    *)
(* are two views of one table, group_to_group, that has no unique          *)
(* constraint.  Requests run concurrently at READ COMMITTED: a handler     *)
(* finds groups by name, loads a list, works out what to add and what to   *)
(* remove, and the flush before its commit inserts and deletes these rows. *)
(*                                                                         *)
(* A transaction that is rolled back has no effect, so that flush and      *)
(* commit are one step, Save.  Who may do what is Permissions' subject:    *)
(* here every request may read and write every group.  Of a group's other  *)
(* columns, and of what the other tables have of it, there is only that    *)
(* they may be in the way of a change: MayConflict.                        *)
(***************************************************************************)
EXTENDS Naturals, FiniteSets, FiniteSetsExt

CONSTANTS
  Ids,             (* the rows table group may come to have: a bound       *)
  Names,           (* their names                                          *)
  Requests,        (* the requests, each for one thing: a bound            *)
  Asks,            (* what they ask for                                    *)
  Tables,          (* the tables they may start from                       *)
  Unused, Gone     (* instead of a name: no row yet, and a deleted row     *)

Ops == {"post", "delete", "put", "create", "update", "drop"}
Lists == {"members", "member_of"}

(* The target's name, its list, and the names of the groups in the body;   *)
(* for "update" the target's new name.                                     *)
Ask == [op : Ops, name : Names, list : Lists, named : SUBSET Names]

ASSUME AsksAssumption ==
  /\ IsFiniteSet(Ids)
  /\ Asks \subseteq Ask
  /\ \A a \in Asks : a.op \in {"post", "delete", "create", "update"} =>
       \E n \in Names : a.named = {n}
  /\ \A a \in Asks : a.op = "drop" => a.named = {}
ASSUME NoNameAssumption == Unused \notin Names /\ Gone \notin Names

Edge == [parent : Ids, member : Ids]

(* Names are unique, and memberships are between groups that exist. *)
ASSUME TablesAssumption ==
  \A s \in Tables :
    /\ s.name \in [Ids -> Names \cup {Unused}]
    /\ \A i, j \in Ids : s.name[i] = s.name[j] /\ i # j => s.name[i] = Unused
    /\ s.member \subseteq Edge
    /\ \A e \in s.member : s.name[e.parent] # Unused /\ s.name[e.member] # Unused

VARIABLES
  name,            (* name[i]: the name of row i, unique                   *)
  rows,            (* rows[e]: how many rows group_to_group has for e      *)
  req,             (* req[r]: request r                                    *)
  touched          (* history: touched[r], the memberships and groups that *)
                   (* others changed while r was at work                   *)

vars == <<name, rows, req, touched>>

Codes == {200, 201, 204, 301, 400, 404, 500}

NoRequest == [at |-> "idle"]
Request ==
  {NoRequest}
  \cup [at : {"found"}, ask : Asks, target : Ids, found : SUBSET Ids,
        fresh : SUBSET Names]
  \cup [at : {"loaded"}, ask : Asks, target : Ids, add : SUBSET Edge,
        del : SUBSET Edge, fresh : SUBSET Names]
  \cup [at : {"done"}, ask : Asks, target : Ids, answer : Codes]
  \cup [at : {"done"}, ask : Asks, answer : Codes]

Present == {i \in Ids : name[i] \in Names}
Member(e) == rows[e] > 0

Init ==
  /\ \E s \in Tables :
       /\ name = s.name
       /\ rows = [e \in Edge |-> IF e \in s.member THEN 1 ELSE 0]
  /\ req = [r \in Requests |-> NoRequest]
  /\ touched = [r \in Requests |-> {}]

-----------------------------------------------------------------------------
(* The part the owner of a list has in its memberships, and the other's.   *)
Part(list) == IF list = "members" THEN "parent" ELSE "member"
Other(list) == IF list = "members" THEN "member" ELSE "parent"

Link(list, t, i) ==
  IF list = "members" THEN [parent |-> t, member |-> i]
                      ELSE [parent |-> i, member |-> t]

(* A list as it is loaded: a group is in it once, however many rows say so. *)
Loaded(list, t) == {e \in Edge : e[Part(list)] = t /\ Member(e)}

(* PostMember, DeleteMember, PutMembers and DropGroup: what a handler adds *)
(* to the list it has loaded and what it removes, each a set of            *)
(* memberships.  t is the target, found are the groups it found by name.   *)

(* Fault: a member that is there already is appended once more. *)
PostMemberAgain(a, t, found) ==
  [add |-> {Link(a.list, t, i) : i \in found}, del |-> {}]

PostMember(a, t, found) ==
  [add |-> {Link(a.list, t, i) : i \in found} \ Loaded(a.list, t), del |-> {}]

(* Fault: the named group is removed without a look at the list. *)
DeleteMemberUnseen(a, t) ==
  [add |-> {}, del |-> {Link(a.list, t, i) : i \in {j \in Present : name[j] \in a.named}}]

(* The first of the two filters compares the target's own name: it empties *)
(* the list if the request names the target.                               *)
DeleteMember(a, t) ==
  [add |-> {},
   del |-> {e \in Loaded(a.list, t) :
              a.name \in a.named \/ name[e[Other(a.list)]] \in a.named}]

(* Fault: what is not in the body stays. *)
PutMembersAppending(a, t, found) ==
  [add |-> {Link(a.list, t, i) : i \in found} \ Loaded(a.list, t), del |-> {}]

PutMembers(a, t, found) ==
  LET wanted == {Link(a.list, t, i) : i \in found}
  IN  [add |-> wanted \ Loaded(a.list, t), del |-> Loaded(a.list, t) \ wanted]

(* The unit of work removes a deleted group from both of its lists. *)
DropGroup(t) ==
  [add |-> {}, del |-> Loaded("members", t) \cup Loaded("member_of", t)]

NoChange == [add |-> {}, del |-> {}]

Changes(a, t, found) ==
  CASE a.op = "post" -> PostMember(a, t, found)
    [] a.op = "delete" -> DeleteMember(a, t)
    [] a.op = "put" -> PutMembers(a, t, found)
    [] a.op = "drop" -> DropGroup(t)
    [] OTHER -> NoChange

-----------------------------------------------------------------------------
(* Fault: .first() instead of first_or_abort. *)
FindWithoutAbort(r, a) ==
  /\ req[r] = NoRequest
  /\ a.op # "create"
  /\ LET t == CHOOSE t \in Ids \cup {Unused} :
                IF \E i \in Present : name[i] = a.name
                  THEN t \in Present /\ name[t] = a.name ELSE t = Unused
     IN  req' = [req EXCEPT ![r] =
           [at |-> "found", ask |-> a, target |-> t, found |-> {}, fresh |-> {}]]
  /\ UNCHANGED <<name, rows, touched>>

(* first_or_abort for the target, and the query for the named groups.  The *)
(* names that no row has are those of new groups, or a group's new name.   *)
Find(r, a) ==
  LET target == {i \in Present : name[i] = a.name}
      found == {i \in Present : a.op \in {"post", "put"} /\ name[i] \in a.named}
  IN  /\ req[r] = NoRequest
      /\ a.op # "create"
      /\ \/ /\ target = {}
            /\ req' = [req EXCEPT ![r] = [at |-> "done", ask |-> a, answer |-> 404]]
         \/ \E t \in target :
              req' = [req EXCEPT ![r] =
                [at |-> "found", ask |-> a, target |-> t, found |-> found,
                 fresh |-> IF a.op = "update" THEN a.named \ {a.name}
                           ELSE IF a.op = "delete" THEN {}
                           ELSE a.named \ {name[i] : i \in found}]]
      /\ UNCHANGED <<name, rows, touched>>

(* The lazy load of the list, and the assignment to it. *)
Load(r) ==
  /\ req[r].at = "found"
  /\ req[r].ask.op = "delete" => name[req[r].target] = req[r].ask.name
  /\ LET c == Changes(req[r].ask, req[r].target, req[r].found)
     IN  req' = [req EXCEPT ![r] =
           [at |-> "loaded", ask |-> req[r].ask, target |-> req[r].target,
            add |-> c.add, del |-> c.del, fresh |-> req[r].fresh]]
  /\ UNCHANGED <<name, rows, touched>>

Done(r, code) ==
  req' = [req EXCEPT ![r] = [at |-> "done", ask |-> req[r].ask,
                             target |-> req[r].target, answer |-> code]]

(* generic_update finds the target by its name: PUT has not done so before  *)
(* and DELETE does so again, after its load, so that a renamed or a dropped *)
(* target is lost.  Another group of that name by then is left out.         *)
FindNoMore(r) ==
  /\ req[r].at \in {"found", "loaded"} /\ req[r].ask.op \in {"delete", "put"}
  /\ name[req[r].target] # req[r].ask.name
  /\ Done(r, 404)
  /\ UNCHANGED <<name, rows, touched>>

-----------------------------------------------------------------------------
(* The flush and the commit.                                               *)

NameTaken(n) == \E i \in Present : name[i] = n

(* DELETE .. WHERE parent AND member, for all of a list at once: the unit  *)
(* of work expects to delete as many rows as there are memberships.        *)
DeletesMatch(E) == MapThenSumSet(LAMBDA e : rows[e], E) = Cardinality(E)

(* The statements of a request: one for each list it removes from. *)
DeletedTogether(q) ==
  IF q.ask.op = "drop"
    THEN {{e \in q.del : e.parent = q.target}, {e \in q.del : e.parent # q.target}}
    ELSE {q.del}

(* What the unit of work refuses, and what PostgreSQL does. *)
Stale(q) ==
  \/ q.target \notin Present /\ q.ask.op # "drop"
  \/ \E E \in DeletedTogether(q) : ~ DeletesMatch(E)

Conflict(q) ==
  \/ \E n \in q.fresh : NameTaken(n)
  \/ \E e \in q.add : ~ ({e.parent, e.member} \subseteq Present)
  \/ /\ q.ask.op = "drop"
     /\ \E e \in Edge \ q.del : Member(e) /\ q.target \in {e.parent, e.member}

(* What else may be in the way: the unique pair of scope_name and           *)
(* scope_permission, or the width of a column, of a group that is new or    *)
(* updated, and the profiles, licences, apps and installations that point   *)
(* at a group that is dropped.                                              *)
MayConflict(q) == q.fresh # {} \/ q.ask.op \in {"update", "drop"}

(* Only generic_insert and generic_update turn an IntegrityError into 400. *)
Refusal(q) ==
  IF ~ Stale(q) /\ q.ask.op \in {"put", "update", "delete"} THEN 400 ELSE 500

Success(q) ==
  CASE q.ask.op = "post" /\ q.fresh # {} -> 201
    [] q.ask.op = "update" /\ q.fresh # {} -> 301
    [] q.ask.op = "drop" -> 204
    [] OTHER -> 200

Touch(r) ==
  touched' = [q \in Requests |->
    IF q # r /\ req[q].at \in {"found", "loaded"}
      THEN touched[q] \cup {e \in Edge : rows'[e] # rows[e]}
                      \cup {i \in Ids : name'[i] # name[i]}
      ELSE touched[q]]

(* Fault: the rows of the association table are left. *)
WrittenRowsLeavingOld(q, new) ==
  [e \in Edge |->
     IF e \in q.add \cup {Link(q.ask.list, q.target, i) : i \in new}
       THEN rows[e] + 1 ELSE rows[e]]

(* Fault: the new groups are added, but not to the list. *)
WrittenRowsWithoutNew(q, new) ==
  [e \in Edge |-> IF e \in q.add THEN rows[e] + 1
                  ELSE IF e \in q.del THEN 0 ELSE rows[e]]

WrittenRows(q, new) ==
  [e \in Edge |->
     IF e \in q.add \cup {Link(q.ask.list, q.target, i) : i \in new}
       THEN rows[e] + 1
     ELSE IF e \in q.del THEN 0 ELSE rows[e]]

Refuse(r) ==
  /\ req[r].at = "loaded"
  /\ \/ (Stale(req[r]) \/ Conflict(req[r])) /\ Done(r, Refusal(req[r]))
     \/ MayConflict(req[r]) /\ \E code \in {Refusal(req[r]), 500} : Done(r, code)
  /\ UNCHANGED <<name, rows, touched>>

(* post, delete and put, with a row for each new group. *)
SaveList(r) ==
  LET q == req[r] IN
  /\ q.at = "loaded" /\ q.ask.op \in {"post", "delete", "put"}
  /\ ~ Stale(q) /\ ~ Conflict(q)
  /\ \E row \in [q.fresh -> {i \in Ids : name[i] = Unused}] :
       LET new == {row[n] : n \in q.fresh} IN
       /\ Cardinality(new) = Cardinality(q.fresh)
       /\ name' = [i \in Ids |-> IF i \in new
                                  THEN CHOOSE n \in q.fresh : row[n] = i
                                  ELSE name[i]]
       /\ rows' = WrittenRows(q, new)
  /\ Done(r, Success(q))
  /\ Touch(r)

SaveUpdate(r) ==
  LET q == req[r] IN
  /\ q.at = "loaded" /\ q.ask.op = "update"
  /\ ~ Stale(q) /\ ~ Conflict(q)
  /\ name' = [name EXCEPT ![q.target] = IF q.fresh = {} THEN @
                                        ELSE CHOOSE n \in q.fresh : TRUE]
  /\ Done(r, Success(q))
  /\ UNCHANGED rows
  /\ Touch(r)

SaveDrop(r) ==
  LET q == req[r] IN
  /\ q.at = "loaded" /\ q.ask.op = "drop"
  /\ ~ Stale(q) /\ ~ Conflict(q)
  /\ name' = [name EXCEPT ![q.target] = Gone]
  /\ rows' = WrittenRows(q, {})
  /\ Done(r, Success(q))
  /\ Touch(r)

(* Groups.post: a group without memberships.  Its name or its pair may be   *)
(* taken, or no column hold them.                                           *)
Create(r, a) ==
  /\ req[r] = NoRequest /\ a.op = "create"
  /\ \E n \in a.named :
       \/ /\ \E code \in {400, 500} :
               req' = [req EXCEPT ![r] = [at |-> "done", ask |-> a, answer |-> code]]
          /\ UNCHANGED name
       \/ /\ ~ NameTaken(n)
          /\ req' = [req EXCEPT ![r] = [at |-> "done", ask |-> a, answer |-> 201]]
          /\ \E i \in Ids : name[i] = Unused /\ name' = [name EXCEPT ![i] = n]
  /\ UNCHANGED rows
  /\ Touch(r)

Next ==
  \/ \E r \in Requests, a \in Asks : Find(r, a) \/ Create(r, a)
  \/ \E r \in Requests :
       Load(r) \/ FindNoMore(r) \/ Refuse(r) \/ SaveList(r) \/ SaveUpdate(r) \/ SaveDrop(r)

Spec == Init /\ [][Next]_vars

-----------------------------------------------------------------------------
(* Properties.                                                             *)

(* The variables have their types. *)
TypeOK ==
  /\ name \in [Ids -> Names \cup {Unused, Gone}]
  /\ rows \in [Edge -> Nat]
  /\ req \in [Requests -> Request]
  /\ touched \in [Requests -> SUBSET (Edge \cup Ids)]

(* The unique names and the foreign keys: no two groups share a name, and  *)
(* every membership is between groups that exist, although groups are      *)
(* found by name in one statement and written by id in another.            *)
NamesAndKeysHold ==
  /\ \A i, j \in Present : name[i] = name[j] => i = j
  /\ \A e \in Edge : Member(e) => {e.parent, e.member} \subseteq Present

(* What the docs of the handlers say a request makes of membership e of    *)
(* its target's list.                                                      *)
Documented(a, e) ==
  LET named == name'[e[Other(a.list)]] \in a.named IN
  CASE a.op = "post" -> Member(e) \/ named
    [] a.op = "delete" -> Member(e) /\ ~ named
    [] a.op = "put" -> named
    [] OTHER -> Member(e)

(* A request that is answered with success has made of every membership    *)
(* what its documentation says, be it in the target's list or not, but for *)
(* those that another request changed while it was at work, and for a      *)
(* DELETE that names the target.                                           *)
AnsweredAsAsked ==
  [][\A r \in Requests :
       LET q == req[r] IN
       /\ q.at = "loaded" /\ req'[r].at = "done" /\ req'[r].answer < 400
       /\ ~ (q.ask.op = "delete" /\ q.ask.name \in q.ask.named)
       => \A e \in Edge :
            \/ {e, e.parent, e.member} \cap touched[r] # {}
            \/ q.ask.op = "drop" /\ q.target \in {e.parent, e.member} /\ ~ Member(e)'
            \/ Member(e)' <=> IF e[Part(q.ask.list)] = q.target
                                THEN Documented(q.ask, e) ELSE Member(e)]_vars

(* A membership has two rows only if two requests added it at once. *)
DuplicatesNeedARace ==
  \A e \in Edge : rows[e] > 1 =>
    \E r \in Requests : req[r].at = "done" /\ e \in touched[r]

(* A POST, DELETE or PUT on a list that makes no new group, and whose       *)
(* memberships and groups nobody changes while it is at work, is refused    *)
(* once it has found its target only because it removes a membership that   *)
(* has two rows, which can be neither removed nor replaced.                 *)
RefusedForDuplicates ==
  [][\A r \in Requests :
       LET q == req[r] IN
       /\ q.at \in {"found", "loaded"} /\ req'[r].at = "done" /\ req'[r].answer >= 400
       /\ q.ask.op \in {"post", "delete", "put"} /\ q.fresh = {} /\ touched[r] = {}
       => q.at = "loaded" /\ \E e \in q.del : rows[e] > 1]_vars

(* The table, the requests and their refusals implement Memberships: each  *)
(* step that shows changes one list of one group, makes one group, or      *)
(* drops one with all its memberships.                                     *)
Promise == INSTANCE Memberships
  WITH group <- Present, member <- {e \in Edge : Member(e)}

ListsChangeOneByOne == Promise!Spec
=============================================================================
