------------------------ MODULE GroupMembershipProofs -------------------------
(***************************************************************************)
(* Proofs about GroupMembership, for any number of groups, requests and    *)
(* tables to start from: the constraints hold, a request does what it is   *)
(* asked or is refused for a reason, and the lists implement Memberships.  *)
(***************************************************************************)
EXTENDS GroupMembership, FiniteSetTheorems, WellFoundedInduction, TLAPS

(* What a request is about to add and to remove is of its target's list,   *)
(* or of the target it drops, and what it adds was not there or was added  *)
(* by another request in the meantime.                                     *)
OfItsList(q) ==
  IF q.ask.op = "drop"
    THEN q.add = {} /\ \A e \in q.del : q.target \in {e.parent, e.member}
    ELSE \A e \in q.add \cup q.del : e[Part(q.ask.list)] = q.target

Placed == \A r \in Requests : req[r].at = "loaded" => OfItsList(req[r])

Raced ==
  \A r \in Requests : req[r].at = "loaded" =>
    \A e \in req[r].add : rows[e] > 0 => e \in touched[r]

IInv == TypeOK /\ NamesAndKeysHold /\ Placed /\ Raced /\ DuplicatesNeedARace

-----------------------------------------------------------------------------
(* What a handler makes of a list is about memberships of that list.       *)
LEMMA LinkIsEdge ==
  ASSUME NEW list \in Lists, NEW t \in Ids, NEW i \in Ids
  PROVE  /\ Link(list, t, i) \in Edge
         /\ Link(list, t, i)[Part(list)] = t
         /\ {Link(list, t, i).parent, Link(list, t, i).member} = {t, i}
BY DEF Link, Edge, Part

LEMMA LinksAreEdges ==
  ASSUME NEW list \in Lists, NEW t \in Ids, NEW S \in SUBSET Ids
  PROVE  \A i \in S : /\ Link(list, t, i) \in Edge
                      /\ Link(list, t, i)[Part(list)] = t
                      /\ {Link(list, t, i).parent, Link(list, t, i).member} = {t, i}
BY LinkIsEdge

LEMMA PartsOfEdge ==
  ASSUME NEW e \in Edge
  PROVE  e.parent \in Ids /\ e.member \in Ids
BY DEF Edge

LEMMA ChangesAreOfTheList ==
  ASSUME NEW a \in Asks, NEW t \in Ids, NEW found \in SUBSET Ids
  PROVE  LET c == Changes(a, t, found)
         IN  /\ c.add \subseteq Edge /\ c.del \subseteq Edge
             /\ \A e \in c.add : ~ Member(e)
             /\ IF a.op = "drop"
                  THEN c.add = {} /\ \A e \in c.del : t \in {e.parent, e.member}
                  ELSE \A e \in c.add \cup c.del : e[Part(a.list)] = t
<1>1. a.list \in Lists
  BY AsksAssumption DEF Ask
<1> DEFINE links == {Link(a.list, t, i) : i \in found}
<1>2. links \subseteq Edge /\ \A e \in links : e[Part(a.list)] = t
  BY <1>1, LinkIsEdge
<1>3. \A e \in links \ Loaded(a.list, t) : ~ Member(e)
  BY <1>2 DEF Loaded
<1>4. Loaded(a.list, t) \subseteq Edge /\ \A e \in Loaded(a.list, t) : e[Part(a.list)] = t
  BY DEF Loaded
<1> HIDE DEF links
<1>5. CASE a.op = "post"
  <2>1. Changes(a, t, found) = [add |-> links \ Loaded(a.list, t), del |-> {}]
    BY <1>5 DEF Changes, PostMember, links
  <2> QED
    BY <1>2, <1>3, <1>5, <2>1
<1>6. CASE a.op = "delete"
  <2>1. PICK S \in SUBSET Loaded(a.list, t) : Changes(a, t, found) = [add |-> {}, del |-> S]
    BY <1>6 DEF Changes, DeleteMember
  <2> QED
    BY <1>4, <1>6, <2>1
<1>7. CASE a.op = "put"
  <2>1. Changes(a, t, found) = [add |-> links \ Loaded(a.list, t),
                                del |-> Loaded(a.list, t) \ links]
    BY <1>7 DEF Changes, PutMembers, links
  <2> QED
    BY <1>2, <1>3, <1>4, <1>7, <2>1
<1>8. CASE a.op = "drop"
  <2>1. Changes(a, t, found) =
          [add |-> {}, del |-> Loaded("members", t) \cup Loaded("member_of", t)]
    BY <1>8 DEF Changes, DropGroup
  <2>2. \A e \in Loaded("members", t) \cup Loaded("member_of", t) :
          e \in Edge /\ t \in {e.parent, e.member}
    BY DEF Loaded, Part, Edge
  <2> QED
    BY <1>8, <2>1, <2>2
<1>9. CASE a.op \notin {"post", "delete", "put", "drop"}
  <2>1. Changes(a, t, found) = [add |-> {}, del |-> {}]
    BY <1>9 DEF Changes, NoChange
  <2> QED
    BY <1>9, <2>1
<1> QED
  BY <1>5, <1>6, <1>7, <1>8, <1>9

-----------------------------------------------------------------------------
(* The types.                                                              *)

Found == [at : {"found"}, ask : Asks, target : Ids, found : SUBSET Ids,
          fresh : SUBSET Names]
LoadedRequest == [at : {"loaded"}, ask : Asks, target : Ids, add : SUBSET Edge,
                  del : SUBSET Edge, fresh : SUBSET Names]

LEMMA RequestAt ==
  ASSUME NEW q \in Request
  PROVE  /\ q.at = "found" => q \in Found
         /\ q.at = "loaded" => q \in LoadedRequest
BY DEF Request, Found, LoadedRequest, NoRequest

LEMMA CodesAre ==
  ASSUME NEW q \in LoadedRequest
  PROVE  Refusal(q) \in Codes /\ Success(q) \in Codes
BY DEF Refusal, Success, Codes

LEMMA DoneType ==
  ASSUME TypeOK, NEW r \in Requests, req[r].at = "loaded", NEW code \in Codes, Done(r, code)
  PROVE  /\ req' \in [Requests -> Request]
         /\ req'[r].at = "done" /\ \A q \in Requests : q # r => req'[q] = req[q]
<1>1. req[r] \in LoadedRequest
  BY RequestAt DEF TypeOK
<1>2. [at |-> "done", ask |-> req[r].ask, target |-> req[r].target,
       answer |-> code] \in Request
  BY <1>1 DEF Request, LoadedRequest
<1> QED
  BY <1>2 DEF TypeOK, Done

LEMMA TouchType ==
  ASSUME touched \in [Requests -> SUBSET (Edge \cup Ids)], NEW r \in Requests, Touch(r)
  PROVE  /\ touched' \in [Requests -> SUBSET (Edge \cup Ids)]
         /\ touched'[r] = touched[r]
         /\ \A q \in Requests : touched[q] \subseteq touched'[q]
         /\ \A q \in Requests : q # r /\ req[q].at = "loaded" =>
              \A e \in Edge : rows'[e] # rows[e] => e \in touched'[q]
BY DEF Touch

LEMMA WrittenRowsType ==
  ASSUME rows \in [Edge -> Nat], NEW q, NEW new
  PROVE  /\ WrittenRows(q, new) \in [Edge -> Nat]
         /\ \A e \in Edge :
              LET plus == q.add \cup {Link(q.ask.list, q.target, i) : i \in new} IN
              /\ e \in plus => WrittenRows(q, new)[e] = rows[e] + 1
              /\ e \notin plus /\ e \in q.del => WrittenRows(q, new)[e] = 0
              /\ e \notin plus /\ e \notin q.del => WrittenRows(q, new)[e] = rows[e]
BY DEF WrittenRows

-----------------------------------------------------------------------------
(* The initial state.                                                      *)
LEMMA InitInv == Init => IInv
<1> SUFFICES ASSUME Init PROVE IInv
  OBVIOUS
<1>1. PICK s \in Tables : /\ name = s.name
                          /\ rows = [e \in Edge |-> IF e \in s.member THEN 1 ELSE 0]
  BY DEF Init
<1>2. /\ s.name \in [Ids -> Names \cup {Unused}]
      /\ \A i, j \in Ids : s.name[i] = s.name[j] /\ i # j => s.name[i] = Unused
      /\ \A e \in s.member : s.name[e.parent] # Unused /\ s.name[e.member] # Unused
  BY TablesAssumption
<1>3. req = [r \in Requests |-> NoRequest] /\ touched = [r \in Requests |-> {}]
  BY DEF Init
<1>4. TypeOK
  <2>1. NoRequest \in Request
    BY DEF Request
  <2>2. rows \in [Edge -> Nat]
    BY <1>1
  <2> QED
    BY <1>1, <1>2, <1>3, <2>1, <2>2 DEF TypeOK
<1>5. \A i \in Ids : i \in Present <=> name[i] # Unused
  BY <1>1, <1>2, NoNameAssumption DEF Present
<1>6. NamesAndKeysHold
  <2>1. \A i, j \in Present : name[i] = name[j] => i = j
    BY <1>1, <1>2, <1>5 DEF Present
  <2>2. ASSUME NEW e \in Edge, Member(e)
        PROVE  {e.parent, e.member} \subseteq Present
    <3>1. e \in s.member
      BY <1>1, <2>2 DEF Member
    <3> QED
      BY <1>1, <1>2, <1>5, <3>1, PartsOfEdge
  <2> QED
    BY <2>1, <2>2 DEF NamesAndKeysHold
<1>7. Placed /\ Raced
  BY <1>3 DEF Placed, Raced, NoRequest
<1>8. DuplicatesNeedARace
  BY <1>1 DEF DuplicatesNeedARace
<1> QED
  BY <1>4, <1>6, <1>7, <1>8 DEF IInv

-----------------------------------------------------------------------------
(* The steps of a request that leave the tables alone.                     *)

(* A step that changes neither table leaves what is said of them. *)
LEMMA QuietStep ==
  ASSUME IInv, NEW r \in Requests, NEW q \in Request, q.at = "loaded" => OfItsList(q),
         q.at = "loaded" => \A e \in q.add : rows[e] > 0 => e \in touched[r],
         q.at = "done" \/ req[r].at # "done",
         req' = [req EXCEPT ![r] = q], UNCHANGED <<name, rows, touched>>
  PROVE  IInv'
<1>1. TypeOK'
  BY DEF IInv, TypeOK
<1>2. NamesAndKeysHold'
  BY DEF IInv, NamesAndKeysHold, Present, Member
<1>3. \A p \in Requests : req'[p] = IF p = r THEN q ELSE req[p]
  BY DEF IInv, TypeOK
<1>4. Placed'
  BY <1>3 DEF IInv, Placed, OfItsList
<1>5. Raced'
  BY <1>3 DEF IInv, Raced
<1>6. DuplicatesNeedARace'
  BY <1>3 DEF IInv, DuplicatesNeedARace
<1> QED
  BY <1>1, <1>2, <1>4, <1>5, <1>6 DEF IInv

LEMMA FindInv ==
  ASSUME IInv, NEW r \in Requests, NEW a \in Asks, Find(r, a)
  PROVE  IInv'
<1> DEFINE target == {i \in Present : name[i] = a.name}
           found == {i \in Present : a.op \in {"post", "put"} /\ name[i] \in a.named}
<1>1. a.named \subseteq Names
  BY AsksAssumption DEF Ask
<1>2. req[r].at = "idle" /\ target \subseteq Ids /\ found \subseteq Ids
  BY DEF Find, NoRequest, Present
<1>3. CASE req' = [req EXCEPT ![r] = [at |-> "done", ask |-> a, answer |-> 404]]
  <2>1. [at |-> "done", ask |-> a, answer |-> 404] \in Request
    BY DEF Request, Codes
  <2> QED
    BY <1>2, <1>3, <2>1, QuietStep DEF Find
<1>4. ASSUME NEW t \in target, NEW fresh \in SUBSET Names,
             req' = [req EXCEPT ![r] = [at |-> "found", ask |-> a, target |-> t,
                                        found |-> found, fresh |-> fresh]]
      PROVE  IInv'
  <2>1. [at |-> "found", ask |-> a, target |-> t, found |-> found, fresh |-> fresh]
          \in Request
    BY <1>2 DEF Request
  <2> QED
    BY <1>2, <1>4, <2>1, QuietStep DEF Find
<1>5. (IF a.op = "update" THEN a.named \ {a.name} ELSE IF a.op = "delete" THEN {}
       ELSE a.named \ {name[i] : i \in found}) \in SUBSET Names
  BY <1>1
<1> QED
  BY <1>3, <1>4, <1>5 DEF Find

LEMMA LoadInv ==
  ASSUME IInv, NEW r \in Requests, Load(r)
  PROVE  IInv'
<1>1. req[r] \in Found
  BY RequestAt DEF IInv, TypeOK, Load
<1> DEFINE a == req[r].ask
           t == req[r].target
           c == Changes(a, t, req[r].found)
           q == [at |-> "loaded", ask |-> a, target |-> t, add |-> c.add,
                 del |-> c.del, fresh |-> req[r].fresh]
<1>2. a \in Asks /\ t \in Ids /\ req[r].found \in SUBSET Ids /\ req[r].fresh \in SUBSET Names
  BY <1>1 DEF Found
<1>3. /\ c.add \subseteq Edge /\ c.del \subseteq Edge
      /\ \A e \in c.add : ~ Member(e)
      /\ IF a.op = "drop"
           THEN c.add = {} /\ \A e \in c.del : t \in {e.parent, e.member}
           ELSE \A e \in c.add \cup c.del : e[Part(a.list)] = t
  BY <1>2, ChangesAreOfTheList
<1> HIDE DEF c
<1>4. q \in Request
  BY <1>2, <1>3 DEF Request
<1>5. OfItsList(q) /\ \A e \in q.add : ~ (rows[e] > 0)
  BY <1>3 DEF OfItsList, Member
<1>6. req' = [req EXCEPT ![r] = q] /\ UNCHANGED <<name, rows, touched>>
  BY DEF Load, c
<1> HIDE DEF q
<1> QED
  BY <1>4, <1>5, <1>6, QuietStep DEF Load

LEMMA RefuseInv ==
  ASSUME IInv, NEW r \in Requests, Refuse(r) \/ FindNoMore(r)
  PROVE  IInv'
<1>1. req[r] \in Found \cup LoadedRequest
  BY RequestAt DEF IInv, TypeOK, Refuse, FindNoMore
<1>2. PICK code \in Codes : Done(r, code)
  <2>1. Refusal(req[r]) \in Codes /\ 404 \in Codes /\ 500 \in Codes
    BY DEF Refusal, Codes
  <2>2. \/ Done(r, 404) \/ Done(r, Refusal(req[r]))
        \/ \E code \in {Refusal(req[r]), 500} : Done(r, code)
    BY DEF Refuse, FindNoMore
  <2> QED
    BY <2>1, <2>2
<1> DEFINE q == [at |-> "done", ask |-> req[r].ask, target |-> req[r].target,
                 answer |-> code]
<1>3. q \in Request
  BY <1>1 DEF Request, Found, LoadedRequest
<1> QED
  BY <1>2, <1>3, QuietStep DEF Refuse, FindNoMore, Done

-----------------------------------------------------------------------------
(* The steps that write.                                                   *)

(* How a request ends. *)
LEMMA Ended ==
  ASSUME NEW r \in Requests,
         \/ FindNoMore(r) \/ Refuse(r) \/ SaveList(r) \/ SaveUpdate(r) \/ SaveDrop(r)
         \/ \E a \in Asks : Create(r, a)
  PROVE  /\ \E d : d.at = "done" /\ req' = [req EXCEPT ![r] = d]
         /\ Touch(r) \/ UNCHANGED <<name, rows, touched>>
<1>1. ASSUME NEW code, Done(r, code)
      PROVE  \E d : d.at = "done" /\ req' = [req EXCEPT ![r] = d]
  <2> DEFINE d == [at |-> "done", ask |-> req[r].ask, target |-> req[r].target,
                   answer |-> code]
  <2>1. d.at = "done" /\ req' = [req EXCEPT ![r] = d]
    BY <1>1 DEF Done
  <2> HIDE DEF d
  <2> QED
    BY <2>1
<1>2. ASSUME NEW a \in Asks, Create(r, a)
      PROVE  /\ \E d : d.at = "done" /\ req' = [req EXCEPT ![r] = d]
             /\ Touch(r)
  <2>1. PICK code : req' = [req EXCEPT ![r] = [at |-> "done", ask |-> a, answer |-> code]]
    BY <1>2 DEF Create
  <2> DEFINE d == [at |-> "done", ask |-> a, answer |-> code]
  <2>2. d.at = "done" /\ req' = [req EXCEPT ![r] = d]
    BY <2>1
  <2> HIDE DEF d
  <2> QED
    BY <1>2, <2>2 DEF Create
<1>3. CASE FindNoMore(r) \/ Refuse(r)
  <2>1. \E code : Done(r, code)
    BY <1>3 DEF FindNoMore, Refuse
  <2> QED
    BY <1>1, <1>3, <2>1 DEF FindNoMore, Refuse
<1>4. CASE SaveList(r) \/ SaveUpdate(r) \/ SaveDrop(r)
  BY <1>1, <1>4 DEF SaveList, SaveUpdate, SaveDrop
<1> QED
  BY <1>2, <1>3, <1>4

(* What is left to show of a step that commits. *)
LEMMA WriteStep ==
  ASSUME IInv, NEW r \in Requests, NEW q \in Request, q.at = "done", req[r].at # "done",
         req' = [req EXCEPT ![r] = q], Touch(r),
         name' \in [Ids -> Names \cup {Unused, Gone}], rows' \in [Edge -> Nat],
         NamesAndKeysHold',
         \A e \in Edge : rows'[e] > 1 => rows[e] > 1 \/ e \in touched[r]
  PROVE  IInv'
<1>1. /\ touched' \in [Requests -> SUBSET (Edge \cup Ids)]
      /\ touched'[r] = touched[r]
      /\ \A p \in Requests : touched[p] \subseteq touched'[p]
      /\ \A p \in Requests : p # r /\ req[p].at = "loaded" =>
           \A e \in Edge : rows'[e] # rows[e] => e \in touched'[p]
  BY TouchType DEF IInv, TypeOK
<1>2. \A p \in Requests : req'[p] = IF p = r THEN q ELSE req[p]
  BY DEF IInv, TypeOK
<1>3. TypeOK'
  <2>1. req' \in [Requests -> Request]
    BY DEF IInv, TypeOK
  <2> QED
    BY <1>1, <2>1 DEF TypeOK
<1>4. Placed'
  BY <1>2 DEF IInv, Placed, OfItsList
<1>5. Raced'
  <2> SUFFICES ASSUME NEW p \in Requests, req'[p].at = "loaded", NEW e \in req'[p].add,
                      rows'[e] > 0
               PROVE  e \in touched'[p]
    BY DEF Raced
  <2>1. p # r /\ req'[p] = req[p]
    BY <1>2
  <2>2. e \in Edge
    BY <2>1, RequestAt DEF IInv, TypeOK, LoadedRequest
  <2>3. CASE rows'[e] = rows[e]
    BY <1>1, <2>1, <2>3 DEF IInv, Raced
  <2>4. CASE rows'[e] # rows[e]
    BY <1>1, <2>1, <2>2, <2>4
  <2> QED
    BY <2>3, <2>4
<1>6. DuplicatesNeedARace'
  <2> SUFFICES ASSUME NEW e \in Edge, rows'[e] > 1
               PROVE  \E p \in Requests : req'[p].at = "done" /\ e \in touched'[p]
    BY DEF DuplicatesNeedARace
  <2>1. CASE e \in touched[r]
    BY <1>1, <1>2, <2>1
  <2>2. CASE rows[e] > 1
    <3>1. PICK p \in Requests : req[p].at = "done" /\ e \in touched[p]
      BY <2>2 DEF IInv, DuplicatesNeedARace
    <3> QED
      BY <1>1, <1>2, <3>1
  <2> QED
    BY <2>1, <2>2
<1> QED
  BY <1>3, <1>4, <1>5, <1>6 DEF IInv

LEMMA DoneRequest ==
  ASSUME IInv, NEW r \in Requests, req[r].at = "loaded", Done(r, Success(req[r]))
  PROVE  \E q \in Request : q.at = "done" /\ req' = [req EXCEPT ![r] = q]
<1>1. req[r] \in LoadedRequest
  BY RequestAt DEF IInv, TypeOK
<1> DEFINE q == [at |-> "done", ask |-> req[r].ask, target |-> req[r].target,
                 answer |-> Success(req[r])]
<1>2. q \in Request
  BY <1>1, CodesAre DEF Request, LoadedRequest
<1> QED
  BY <1>2 DEF Done

(* The tables after a list is written: new groups get names nobody has,    *)
(* and each membership that is there is between groups that are.           *)
LEMMA SavedList ==
  ASSUME IInv, NEW r \in Requests, SaveList(r)
  PROVE  /\ name' \in [Ids -> Names \cup {Unused, Gone}]
         /\ rows' \in [Edge -> Nat]
         /\ NamesAndKeysHold'
         /\ \A e \in Edge : rows'[e] > 1 => rows[e] > 1 \/ e \in touched[r]
         /\ req[r].target \in Present
         /\ \E new \in SUBSET (Ids \ Present) :
              /\ Present' = Present \cup new
              /\ \A e \in Edge : e[Part(req[r].ask.list)] # req[r].target =>
                                   rows'[e] = rows[e]
              /\ \A i \in new : \E e \in Edge : rows'[e] > 0 /\ i \in {e.parent, e.member}
<1> DEFINE q == req[r]
           t == q.target
           list == q.ask.list
<1>1. q \in LoadedRequest /\ q.ask.op # "drop"
  BY RequestAt DEF IInv, TypeOK, SaveList
<1>2. /\ t \in Ids /\ list \in Lists /\ q.add \subseteq Edge /\ q.del \subseteq Edge
      /\ q.fresh \subseteq Names
  BY <1>1, AsksAssumption DEF LoadedRequest, Ask
<1>3. /\ t \in Present
      /\ \A n \in q.fresh : ~ NameTaken(n)
      /\ \A e \in q.add : {e.parent, e.member} \subseteq Present
  BY <1>1 DEF SaveList, Stale, Conflict
<1>4. \A e \in q.add \cup q.del : e[Part(list)] = t
  BY <1>1 DEF IInv, Placed, OfItsList, SaveList
<1>5. PICK row \in [q.fresh -> {i \in Ids : name[i] = Unused}] :
        LET new == {row[n] : n \in q.fresh} IN
        /\ name' = [i \in Ids |-> IF i \in new
                                    THEN CHOOSE n \in q.fresh : row[n] = i
                                    ELSE name[i]]
        /\ rows' = WrittenRows(q, new)
  BY DEF SaveList
<1> DEFINE new == {row[n] : n \in q.fresh}
           links == {Link(list, t, i) : i \in new}
<1>6. \A i \in new : i \in Ids /\ name[i] = Unused /\ i \notin Present
  BY <1>5, NoNameAssumption DEF Present
<1>7. \A i \in new : name'[i] \in q.fresh /\ row[name'[i]] = i
  <2> SUFFICES ASSUME NEW i \in new PROVE name'[i] \in q.fresh /\ row[name'[i]] = i
    OBVIOUS
  <2>1. \E n \in q.fresh : row[n] = i
    OBVIOUS
  <2>2. name'[i] = CHOOSE n \in q.fresh : row[n] = i
    BY <1>5, <1>6
  <2> QED
    BY <2>1, <2>2
<1>8. \A i \in Ids \ new : name'[i] = name[i]
  BY <1>5
<1>9. \A i \in new : /\ Link(list, t, i) \in Edge
                     /\ Link(list, t, i)[Part(list)] = t
                     /\ {Link(list, t, i).parent, Link(list, t, i).member} = {t, i}
  <2>1. new \in SUBSET Ids
    BY <1>6
  <2>2. t \in Ids /\ list \in Lists
    BY <1>2
  <2> HIDE DEF new, t, list, q, links
  <2> QED
    BY <2>1, <2>2, LinksAreEdges
<1>10. /\ rows' \in [Edge -> Nat]
       /\ \A e \in Edge :
            /\ e \in q.add \cup links => rows'[e] = rows[e] + 1
            /\ e \notin q.add \cup links /\ e \in q.del => rows'[e] = 0
            /\ e \notin q.add \cup links /\ e \notin q.del => rows'[e] = rows[e]
  <2>1. rows' = WrittenRows(q, new) /\ rows \in [Edge -> Nat]
    BY <1>5 DEF IInv, TypeOK
  <2> HIDE DEF q, new
  <2> QED
    BY <2>1 DEF WrittenRows
<1>11. name' \in [Ids -> Names \cup {Unused, Gone}]
  <2>1. \A i \in Ids : name'[i] \in Names \cup {Unused, Gone}
    BY <1>2, <1>7, <1>8 DEF IInv, TypeOK
  <2>2. \E f : name' = [i \in Ids |-> f[i]]
    <3>1. name' = [i \in Ids |-> name'[i]]
      BY <1>5
    <3> QED
      BY <3>1
  <2> QED
    BY <2>1, <2>2
<1> HIDE DEF new
<1>12. Present' = Present \cup new
  BY <1>2, <1>6, <1>7, <1>8, NoNameAssumption DEF Present
<1>13. NamesAndKeysHold'
  <2>1. ASSUME NEW i \in Present', NEW j \in Present', name'[i] = name'[j]
        PROVE  i = j
    <3>1. CASE i \in new /\ j \in new
      BY <1>7, <2>1, <3>1
    <3>2. CASE i \in new /\ j \notin new
      BY <1>3, <1>7, <1>8, <1>12, <2>1, <3>2 DEF NameTaken, Present
    <3>3. CASE i \notin new /\ j \in new
      BY <1>3, <1>7, <1>8, <1>12, <2>1, <3>3 DEF NameTaken, Present
    <3>4. CASE i \notin new /\ j \notin new
      BY <1>8, <1>12, <2>1, <3>4 DEF IInv, NamesAndKeysHold, Present
    <3> QED
      BY <3>1, <3>2, <3>3, <3>4
  <2>2. ASSUME NEW e \in Edge, rows'[e] > 0
        PROVE  {e.parent, e.member} \subseteq Present'
    <3>1. CASE e \in q.add
      BY <1>3, <1>12, <3>1
    <3>2. CASE e \in links
      <4>1. PICK i \in new : e = Link(list, t, i)
        BY <3>2
      <4>2. {e.parent, e.member} = {t, i}
        BY <1>9, <4>1
      <4> QED
        BY <1>3, <1>12, <4>2
    <3>3. CASE e \notin q.add \cup links
      <4>1. rows[e] > 0
        BY <1>10, <2>2, <3>3
      <4> QED
        BY <1>12, <4>1 DEF IInv, NamesAndKeysHold, Member
    <3> QED
      BY <3>1, <3>2, <3>3
  <2> QED
    BY <2>1, <2>2 DEF NamesAndKeysHold, Member
<1>14. ASSUME NEW e \in Edge, rows'[e] > 1
       PROVE  rows[e] > 1 \/ e \in touched[r]
  <2>1. rows[e] \in Nat
    BY DEF IInv, TypeOK
  <2>2. CASE e \in q.add
    <3>1. rows[e] > 0
      BY <1>10, <1>14, <2>1, <2>2
    <3> QED
      BY <2>2, <3>1 DEF IInv, Raced, SaveList
  <2>3. CASE e \in links
    <3>1. PICK i \in new : e = Link(list, t, i)
      BY <2>3
    <3>2. i \in {e.parent, e.member} /\ i \notin Present
      BY <1>6, <1>9, <3>1
    <3>3. ~ (rows[e] > 0)
      BY <3>2 DEF IInv, NamesAndKeysHold, Member
    <3>4. rows'[e] = rows[e] + 1
      BY <1>10, <2>3
    <3> QED
      BY <1>14, <2>1, <3>3, <3>4
  <2>4. CASE e \notin q.add \cup links
    BY <1>10, <1>14, <2>4
  <2> QED
    BY <2>2, <2>3, <2>4
<1>15. ASSUME NEW e \in Edge, e[Part(list)] # t
       PROVE  rows'[e] = rows[e]
  <2>1. e \notin links
    BY <1>9, <1>15
  <2> QED
    BY <1>4, <1>10, <1>15, <2>1
<1>16. ASSUME NEW i \in new
       PROVE  \E e \in Edge : rows'[e] > 0 /\ i \in {e.parent, e.member}
  <2>1. Link(list, t, i) \in Edge /\ i \in {Link(list, t, i).parent, Link(list, t, i).member}
    BY <1>9
  <2>2. rows'[Link(list, t, i)] = rows[Link(list, t, i)] + 1 /\ rows[Link(list, t, i)] \in Nat
    BY <1>10, <2>1 DEF IInv, TypeOK
  <2> QED
    BY <2>1, <2>2
<1>17. new \subseteq Ids \ Present
  BY <1>6
<1> QED
  BY <1>3, <1>10, <1>11, <1>12, <1>13, <1>14, <1>15, <1>16, <1>17

LEMMA SavedUpdate ==
  ASSUME IInv, NEW r \in Requests, SaveUpdate(r)
  PROVE  /\ name' \in [Ids -> Names \cup {Unused, Gone}]
         /\ rows' = rows
         /\ NamesAndKeysHold'
         /\ Present' = Present
<1> DEFINE q == req[r]
           t == q.target
           new == CHOOSE n \in q.fresh : TRUE
<1>1. q \in LoadedRequest
  BY RequestAt DEF IInv, TypeOK, SaveUpdate
<1>2. t \in Present /\ \A n \in q.fresh : n \in Names /\ ~ NameTaken(n)
  BY <1>1 DEF SaveUpdate, Stale, Conflict, LoadedRequest
<1>3. name' = [name EXCEPT ![t] = IF q.fresh = {} THEN name[t] ELSE new] /\ rows' = rows
  BY DEF SaveUpdate
<1>4. q.fresh # {} => new \in q.fresh
  OBVIOUS
<1> HIDE DEF new
<1>5. CASE q.fresh = {}
  <2>1. name' = name
    BY <1>3, <1>5 DEF IInv, TypeOK
  <2> QED
    BY <1>3, <2>1 DEF IInv, TypeOK, NamesAndKeysHold, Present, Member
<1>6. CASE q.fresh # {}
  <2>1. new \in Names /\ ~ NameTaken(new)
    BY <1>2, <1>4, <1>6
  <2>2. name' \in [Ids -> Names \cup {Unused, Gone}]
    BY <1>3, <1>6, <2>1 DEF IInv, TypeOK
  <2>3. \A i \in Ids : name'[i] = IF i = t THEN new ELSE name[i]
    BY <1>2, <1>3, <1>6 DEF IInv, TypeOK
  <2>4. Present' = Present
    BY <1>2, <2>1, <2>3 DEF Present
  <2>5. \A i, j \in Present' : name'[i] = name'[j] => i = j
    BY <2>1, <2>3, <2>4 DEF IInv, NamesAndKeysHold, NameTaken, Present
  <2> QED
    BY <1>3, <2>2, <2>4, <2>5 DEF IInv, NamesAndKeysHold, Member
<1> QED
  BY <1>5, <1>6

LEMMA SavedDrop ==
  ASSUME IInv, NEW r \in Requests, SaveDrop(r)
  PROVE  /\ name' \in [Ids -> Names \cup {Unused, Gone}]
         /\ rows' \in [Edge -> Nat]
         /\ NamesAndKeysHold'
         /\ \A e \in Edge : rows'[e] > 1 => rows[e] > 1
         /\ req[r].target \in Ids
         /\ Present' = Present \ {req[r].target}
         /\ \A e \in Edge :
              rows'[e] > 0 <=> rows[e] > 0 /\ req[r].target \notin {e.parent, e.member}
<1> DEFINE q == req[r]
           t == q.target
<1>1. q \in LoadedRequest /\ q.ask.op = "drop" /\ q.at = "loaded"
  BY RequestAt DEF IInv, TypeOK, SaveDrop
<1>2. t \in Ids /\ q.add = {} /\ \A e \in q.del : t \in {e.parent, e.member}
  BY <1>1 DEF LoadedRequest, IInv, Placed, OfItsList
<1>3. \A e \in Edge \ q.del : Member(e) => t \notin {e.parent, e.member}
  BY <1>1 DEF SaveDrop, Conflict
<1>4. name' = [name EXCEPT ![t] = Gone] /\ rows' = WrittenRows(q, {})
  BY DEF SaveDrop
<1>5. /\ rows' \in [Edge -> Nat]
      /\ \A e \in Edge : rows'[e] = IF e \in q.del THEN 0 ELSE rows[e]
  <2>1. rows \in [Edge -> Nat] /\ q.add = {}
    BY <1>2 DEF IInv, TypeOK
  <2> HIDE DEF q
  <2> QED
    BY <1>4, <2>1 DEF WrittenRows
<1>6. name' \in [Ids -> Names \cup {Unused, Gone}]
  BY <1>4 DEF IInv, TypeOK
<1>7. \A i \in Ids : name'[i] = IF i = t THEN Gone ELSE name[i]
  BY <1>2, <1>4 DEF IInv, TypeOK
<1>8. Present' = Present \ {t}
  BY <1>7, NoNameAssumption DEF Present
<1>9. \A e \in Edge : rows[e] \in Nat
  BY DEF IInv, TypeOK
<1>10. ASSUME NEW e \in Edge
       PROVE  rows'[e] > 0 <=> rows[e] > 0 /\ t \notin {e.parent, e.member}
  BY <1>2, <1>3, <1>5, <1>9 DEF Member
<1>11. NamesAndKeysHold'
  <2>1. \A i, j \in Present' : name'[i] = name'[j] => i = j
    BY <1>7, <1>8 DEF IInv, NamesAndKeysHold, Present
  <2>2. \A e \in Edge : rows'[e] > 0 => {e.parent, e.member} \subseteq Present'
    BY <1>8, <1>10 DEF IInv, NamesAndKeysHold, Member
  <2> QED
    BY <2>1, <2>2 DEF NamesAndKeysHold, Member
<1>12. \A e \in Edge : rows'[e] > 1 => rows[e] > 1
  BY <1>5, <1>9
<1> QED
  BY <1>2, <1>5, <1>6, <1>8, <1>10, <1>11, <1>12

LEMMA Created ==
  ASSUME IInv, NEW r \in Requests, NEW a \in Asks, Create(r, a)
  PROVE  /\ name' \in [Ids -> Names \cup {Unused, Gone}]
         /\ rows' = rows
         /\ NamesAndKeysHold'
         /\ \/ Present' = Present
            \/ \E i \in Ids \ Present : Present' = Present \cup {i}
         /\ \E q \in Request : q.at = "done" /\ req' = [req EXCEPT ![r] = q]
<1>1. rows' = rows
  BY DEF Create
<1>2. ASSUME UNCHANGED name, NEW code \in {400, 500},
             req' = [req EXCEPT ![r] = [at |-> "done", ask |-> a, answer |-> code]]
      PROVE  /\ name' \in [Ids -> Names \cup {Unused, Gone}]
             /\ NamesAndKeysHold' /\ Present' = Present
             /\ \E q \in Request : q.at = "done" /\ req' = [req EXCEPT ![r] = q]
  <2> DEFINE q == [at |-> "done", ask |-> a, answer |-> code]
  <2>1. q \in Request /\ q.at = "done"
    BY DEF Request, Codes
  <2>2. /\ name' \in [Ids -> Names \cup {Unused, Gone}]
        /\ NamesAndKeysHold' /\ Present' = Present
    BY <1>1, <1>2 DEF IInv, TypeOK, NamesAndKeysHold, Present, Member
  <2>3. req' = [req EXCEPT ![r] = q]
    BY <1>2
  <2> HIDE DEF q
  <2> QED
    BY <2>1, <2>2, <2>3
<1>3. ASSUME NEW n \in a.named, ~ NameTaken(n), NEW i \in Ids, name[i] = Unused,
             name' = [name EXCEPT ![i] = n],
             req' = [req EXCEPT ![r] = [at |-> "done", ask |-> a, answer |-> 201]]
      PROVE  /\ name' \in [Ids -> Names \cup {Unused, Gone}]
             /\ NamesAndKeysHold'
             /\ \E k \in Ids \ Present : Present' = Present \cup {k}
             /\ \E q \in Request : q.at = "done" /\ req' = [req EXCEPT ![r] = q]
  <2>1. n \in Names /\ i \notin Present
    BY <1>3, AsksAssumption, NoNameAssumption DEF Ask, Present
  <2>2. name' \in [Ids -> Names \cup {Unused, Gone}]
    BY <1>3, <2>1 DEF IInv, TypeOK
  <2>3. \A j \in Ids : name'[j] = IF j = i THEN n ELSE name[j]
    BY <1>3 DEF IInv, TypeOK
  <2>4. Present' = Present \cup {i}
    BY <2>1, <2>3 DEF Present
  <2>5. \A j, k \in Present' : name'[j] = name'[k] => j = k
    BY <1>3, <2>1, <2>3, <2>4 DEF IInv, NamesAndKeysHold, NameTaken, Present
  <2>6. [at |-> "done", ask |-> a, answer |-> 201] \in Request
    BY DEF Request, Codes
  <2>7. NamesAndKeysHold'
    BY <1>1, <2>4, <2>5 DEF IInv, NamesAndKeysHold, Member
  <2> QED
    BY <1>3, <2>1, <2>2, <2>4, <2>6, <2>7
<1> QED
  BY <1>1, <1>2, <1>3 DEF Create

LEMMA NextInv == IInv /\ [Next]_vars => IInv'
<1> SUFFICES ASSUME IInv, [Next]_vars PROVE IInv'
  OBVIOUS
<1>1. ASSUME NEW r \in Requests, NEW a \in Asks, Find(r, a) PROVE IInv'
  BY <1>1, FindInv
<1>2. ASSUME NEW r \in Requests, NEW a \in Asks, Create(r, a) PROVE IInv'
  <2>1. PICK q \in Request : q.at = "done" /\ req' = [req EXCEPT ![r] = q]
    BY <1>2, Created
  <2>2. req[r].at # "done" /\ Touch(r)
    BY <1>2 DEF Create, NoRequest
  <2>3. name' \in [Ids -> Names \cup {Unused, Gone}] /\ rows' = rows /\ NamesAndKeysHold'
    BY <1>2, Created
  <2> QED
    BY <2>1, <2>2, <2>3, WriteStep DEF IInv, TypeOK
<1>3. ASSUME NEW r \in Requests, Load(r) PROVE IInv'
  BY <1>3, LoadInv
<1>4. ASSUME NEW r \in Requests, Refuse(r) \/ FindNoMore(r) PROVE IInv'
  BY <1>4, RefuseInv
<1>5. ASSUME NEW r \in Requests, SaveList(r) PROVE IInv'
  <2>1. req[r].at = "loaded" /\ Done(r, Success(req[r])) /\ Touch(r)
    BY <1>5 DEF SaveList
  <2>2. PICK q \in Request : q.at = "done" /\ req' = [req EXCEPT ![r] = q]
    BY <2>1, DoneRequest
  <2> QED
    BY <1>5, <2>1, <2>2, SavedList, WriteStep
<1>6. ASSUME NEW r \in Requests, SaveUpdate(r) PROVE IInv'
  <2>1. req[r].at = "loaded" /\ Done(r, Success(req[r])) /\ Touch(r)
    BY <1>6 DEF SaveUpdate
  <2>2. PICK q \in Request : q.at = "done" /\ req' = [req EXCEPT ![r] = q]
    BY <2>1, DoneRequest
  <2>3. name' \in [Ids -> Names \cup {Unused, Gone}] /\ rows' = rows /\ NamesAndKeysHold'
    BY <1>6, SavedUpdate
  <2> QED
    BY <2>1, <2>2, <2>3, WriteStep DEF IInv, TypeOK
<1>7. ASSUME NEW r \in Requests, SaveDrop(r) PROVE IInv'
  <2>1. req[r].at = "loaded" /\ Done(r, Success(req[r])) /\ Touch(r)
    BY <1>7 DEF SaveDrop
  <2>2. PICK q \in Request : q.at = "done" /\ req' = [req EXCEPT ![r] = q]
    BY <2>1, DoneRequest
  <2> QED
    BY <1>7, <2>1, <2>2, SavedDrop, WriteStep
<1>8. CASE UNCHANGED vars
  BY <1>8 DEF vars, IInv, TypeOK, NamesAndKeysHold, Placed, OfItsList, Raced,
              DuplicatesNeedARace, Present, Member
<1> QED
  BY <1>1, <1>2, <1>3, <1>4, <1>5, <1>6, <1>7, <1>8 DEF Next

THEOREM Invariance == Spec => []IInv
BY InitInv, NextInv, PTL DEF Spec

(* The variables keep their types, for any groups, requests and tables. *)
THEOREM TypeCorrect == Spec => []TypeOK
<1>1. IInv => TypeOK
  BY DEF IInv
<1> QED
  BY <1>1, Invariance, PTL

(* Names stay unique and memberships between groups that exist, however    *)
(* many requests find groups by name and write them by id.                 *)
THEOREM KeysHold == Spec => []NamesAndKeysHold
<1>1. IInv => NamesAndKeysHold
  BY DEF IInv
<1> QED
  BY <1>1, Invariance, PTL

(* A membership has two rows only if two requests added it at once. *)
THEOREM DuplicatesRace == Spec => []DuplicatesNeedARace
<1>1. IInv => DuplicatesNeedARace
  BY DEF IInv
<1> QED
  BY <1>1, Invariance, PTL

-----------------------------------------------------------------------------
(* The refinement.                                                         *)

LEMMA KeysAsPromised ==
  NamesAndKeysHold => {e \in Edge : Member(e)} \subseteq [parent : Present, member : Present]
<1> SUFFICES ASSUME NamesAndKeysHold, NEW e \in Edge, Member(e)
             PROVE  e \in [parent : Present, member : Present]
  OBVIOUS
<1>1. e.parent \in Present /\ e.member \in Present
  BY DEF NamesAndKeysHold
<1> QED
  BY <1>1 DEF Edge

(* Every step of a request is a step of one list, or of one group, or      *)
(* shows nothing.                                                          *)
LEMMA StepAsPromised ==
  IInv /\ IInv' /\ [Next]_vars => [Promise!Next]_<<Present, {e \in Edge : Member(e)}>>
<1> DEFINE member == {e \in Edge : Member(e)}
<1> SUFFICES ASSUME IInv, IInv', [Next]_vars
             PROVE  [Promise!Next]_<<Present, member>>
  OBVIOUS
<1>1. member' \subseteq [parent : Present', member : Present']
  BY KeysAsPromised DEF IInv, NamesAndKeysHold, Member, Edge, Present
<1>2. ASSUME UNCHANGED <<name, rows>> PROVE UNCHANGED <<Present, member>>
  BY <1>2 DEF Present, Member
<1>3. ASSUME NEW r \in Requests, NEW a \in Asks, Find(r, a)
      PROVE  UNCHANGED <<name, rows>>
  BY <1>3 DEF Find
<1>4. ASSUME NEW r \in Requests, Load(r) \/ FindNoMore(r) \/ Refuse(r)
      PROVE  UNCHANGED <<name, rows>>
  BY <1>4 DEF Load, FindNoMore, Refuse
<1>5. ASSUME NEW r \in Requests, NEW a \in Asks, Create(r, a)
      PROVE  [Promise!Next]_<<Present, member>>
  <2>1. member' = member
    BY <1>5, Created DEF Member
  <2>2. CASE Present' = Present
    BY <2>1, <2>2
  <2>3. ASSUME NEW i \in Ids \ Present, Present' = Present \cup {i}
        PROVE  Promise!Next
    <3>1. Promise!Create(i)
      BY <2>1, <2>3 DEF Promise!Create
    <3> QED
      BY <1>1, <3>1 DEF Promise!Next
  <2> QED
    BY <1>5, <2>2, <2>3, Created
<1>6. ASSUME NEW r \in Requests, SaveUpdate(r)
      PROVE  UNCHANGED <<Present, member>>
  BY <1>6, SavedUpdate DEF Member
<1>7. ASSUME NEW r \in Requests, SaveDrop(r)
      PROVE  [Promise!Next]_<<Present, member>>
  <2> DEFINE t == req[r].target
  <2>1. /\ Present' = Present \ {t}
        /\ \A e \in Edge : rows'[e] > 0 <=> rows[e] > 0 /\ t \notin {e.parent, e.member}
    BY <1>7, SavedDrop
  <2> HIDE DEF t
  <2>2. member' = {e \in member : t \notin {e.parent, e.member}}
    BY <2>1 DEF Member
  <2>3. CASE t \in Present
    <3>1. Promise!Drop(t)
      BY <2>1, <2>2 DEF Promise!Drop
    <3> QED
      BY <1>1, <2>3, <3>1 DEF Promise!Next
  <2>4. CASE t \notin Present
    <3>1. \A e \in member : t \notin {e.parent, e.member}
      BY <2>4 DEF IInv, NamesAndKeysHold
    <3> QED
      BY <2>1, <2>2, <2>4, <3>1
  <2> QED
    BY <2>3, <2>4
<1>8. ASSUME NEW r \in Requests, SaveList(r)
      PROVE  Promise!Next
  <2> DEFINE t == req[r].target
             part == Part(req[r].ask.list)
  <2>1. part \in {"parent", "member"}
    BY DEF Part
  <2>2. PICK new \in SUBSET (Ids \ Present) :
          /\ Present' = Present \cup new
          /\ \A e \in Edge : e[part] # t => rows'[e] = rows[e]
          /\ \A i \in new : \E e \in Edge : rows'[e] > 0 /\ i \in {e.parent, e.member}
    BY <1>8, SavedList
  <2>3. t \in Present
    BY <1>8, SavedList
  <2> HIDE DEF t, part
  <2>4. Promise!ChangeList(t, part, new)
    BY <2>2 DEF Promise!ChangeList, Promise!Edge, Edge, Member
  <2> QED
    BY <1>1, <2>1, <2>3, <2>4 DEF Promise!Next
<1>9. CASE UNCHANGED vars
  BY <1>9 DEF vars, Present, Member
<1> HIDE DEF member
<1> QED
  BY <1>2, <1>3, <1>4, <1>5, <1>6, <1>7, <1>8, <1>9 DEF Next

LEMMA InitAsPromised == Init => Promise!Init
<1> SUFFICES ASSUME Init PROVE Promise!Init
  OBVIOUS
<1>1. NamesAndKeysHold
  BY InitInv DEF IInv
<1>2. Present \in SUBSET Ids
  BY DEF Present
<1> QED
  BY <1>1, <1>2, KeysAsPromised DEF Promise!Init

(* The table and its requests implement Memberships. *)
THEOREM MembershipsImplemented == Spec => ListsChangeOneByOne
<1>1. IInv /\ IInv' /\ [Next]_vars => [Promise!Next]_<<Present, {e \in Edge : Member(e)}>>
  BY StepAsPromised
<1> QED
  BY <1>1, InitAsPromised, Invariance, PTL DEF Spec, ListsChangeOneByOne, Promise!Spec

-----------------------------------------------------------------------------
(* What a request is about to write is what it was asked for, but for what *)
(* others have touched.                                                    *)
Ends(e) == {e, e.parent, e.member}
Mine(q, e) == e[Part(q.ask.list)] = q.target
Named(q, e) == name[e[Other(q.ask.list)]] \in q.ask.named

FoundAsNamed(q, T) ==
  /\ q.fresh \subseteq q.ask.named /\ (q.ask.op = "delete" => q.fresh = {})
  /\ q.ask.op \in {"post", "put"} =>
       \A i \in Ids \ T : i \in q.found <=> name[i] \in q.ask.named

LoadedAsNamed(q, T) ==
  /\ q.fresh \subseteq q.ask.named /\ (q.ask.op = "delete" => q.fresh = {})
  /\ \A e \in Edge : Ends(e) \cap T = {} =>
       /\ q.ask.op \in {"post", "put"} =>
            (e \in q.add <=> Mine(q, e) /\ Named(q, e) /\ ~ Member(e))
       /\ q.ask.op = "post" => e \notin q.del
       /\ q.ask.op = "put" =>
            (e \in q.del <=> Mine(q, e) /\ Member(e) /\ ~ Named(q, e))
       /\ q.ask.op = "delete" /\ q.ask.name \notin q.ask.named =>
            e \notin q.add /\ (e \in q.del <=> Mine(q, e) /\ Member(e) /\ Named(q, e))

AsNamed ==
  \A r \in Requests :
    /\ req[r].at = "found" => FoundAsNamed(req[r], touched[r])
    /\ req[r].at = "loaded" => LoadedAsNamed(req[r], touched[r])

LEMMA EndsOfEdge ==
  ASSUME NEW e \in Edge, NEW list \in Lists
  PROVE  /\ e[Part(list)] \in Ids /\ e[Other(list)] \in Ids
         /\ {e[Part(list)], e[Other(list)]} = {e.parent, e.member}
BY DEF Edge, Lists, Part, Other

LEMMA LinksOf ==
  ASSUME NEW list \in Lists, NEW t \in Ids, NEW S \in SUBSET Ids, NEW e \in Edge
  PROVE  e \in {Link(list, t, i) : i \in S} <=> e[Part(list)] = t /\ e[Other(list)] \in S
<1>1. CASE list = "members"
  <2>1. \A i \in S : Link(list, t, i) = [parent |-> t, member |-> i]
    BY <1>1 DEF Link
  <2>2. e = [parent |-> e.parent, member |-> e.member]
    BY DEF Edge
  <2> QED
    BY <1>1, <2>1, <2>2 DEF Part, Other
<1>2. CASE list # "members"
  <2>1. \A i \in S : Link(list, t, i) = [parent |-> i, member |-> t]
    BY <1>2 DEF Link
  <2>2. e = [parent |-> e.parent, member |-> e.member]
    BY DEF Edge
  <2> QED
    BY <1>2, <2>1, <2>2 DEF Part, Other
<1> QED
  BY <1>1, <1>2

LEMMA LoadAsNamed ==
  ASSUME IInv, AsNamed, NEW r \in Requests, Load(r)
  PROVE  LoadedAsNamed(req'[r], touched[r]) /\ req'[r].at = "loaded"
<1>1. req[r] \in Found /\ FoundAsNamed(req[r], touched[r])
  BY RequestAt DEF IInv, TypeOK, Load, AsNamed
<1> DEFINE a == req[r].ask
           t == req[r].target
           found == req[r].found
           c == Changes(a, t, found)
           links == {Link(a.list, t, i) : i \in found}
           q == req'[r]
<1>2. a \in Asks /\ t \in Ids /\ found \in SUBSET Ids /\ a.list \in Lists
  BY <1>1, AsksAssumption DEF Found, Ask
<1>3. /\ q.at = "loaded" /\ q.ask = a /\ q.target = t /\ q.add = c.add /\ q.del = c.del
      /\ q.fresh = req[r].fresh
  BY DEF Load, IInv, TypeOK
<1>4. ASSUME NEW e \in Edge, Ends(e) \cap touched[r] = {}
      PROVE  /\ a.op \in {"post", "put"} =>
                  (e \in c.add <=> Mine(q, e) /\ Named(q, e) /\ ~ Member(e))
             /\ a.op = "post" => e \notin c.del
             /\ a.op = "put" =>
                  (e \in c.del <=> Mine(q, e) /\ Member(e) /\ ~ Named(q, e))
             /\ a.op = "delete" /\ a.name \notin a.named =>
                  e \notin c.add /\ (e \in c.del <=> Mine(q, e) /\ Member(e) /\ Named(q, e))
  <2>1. e \in Loaded(a.list, t) <=> Mine(q, e) /\ Member(e)
    BY <1>3 DEF Loaded, Mine
  <2>2. Named(q, e) <=> name[e[Other(a.list)]] \in a.named
    BY <1>3 DEF Named
  <2>3. Mine(q, e) <=> e[Part(a.list)] = t
    BY <1>3 DEF Mine
  <2>4. a.op \in {"post", "put"} => (e \in links <=> Mine(q, e) /\ Named(q, e))
    <3>1. e \in links <=> e[Part(a.list)] = t /\ e[Other(a.list)] \in found
      <4> HIDE DEF a, t, found
      <4> QED
        BY <1>2, LinksOf
    <3>2. e[Other(a.list)] \in Ids /\ e[Other(a.list)] \notin touched[r]
      BY <1>2, <1>4, EndsOfEdge DEF Ends
    <3>3. a.op \in {"post", "put"} =>
            (e[Other(a.list)] \in found <=> name[e[Other(a.list)]] \in a.named)
      BY <1>1, <3>2 DEF FoundAsNamed
    <3> QED
      BY <2>2, <2>3, <3>1, <3>3
  <2> HIDE DEF links
  <2>5. CASE a.op = "post"
    <3>1. c = [add |-> links \ Loaded(a.list, t), del |-> {}]
      BY <2>5 DEF Changes, PostMember, links
    <3> HIDE DEF c
    <3> QED
      BY <2>1, <2>4, <2>5, <3>1
  <2>6. CASE a.op = "put"
    <3>1. c = [add |-> links \ Loaded(a.list, t), del |-> Loaded(a.list, t) \ links]
      BY <2>6 DEF Changes, PutMembers, links
    <3> HIDE DEF c
    <3> QED
      BY <2>1, <2>4, <2>6, <3>1
  <2>7. CASE a.op = "delete" /\ a.name \notin a.named
    <3>1. /\ c.add = {}
          /\ c.del = {f \in Loaded(a.list, t) :
                        a.name \in a.named \/ name[f[Other(a.list)]] \in a.named}
      BY <2>7 DEF Changes, DeleteMember
    <3> HIDE DEF c
    <3> QED
      BY <2>1, <2>2, <2>7, <3>1
  <2>8. CASE a.op \notin {"post", "put"} /\ ~ (a.op = "delete" /\ a.name \notin a.named)
    BY <2>8
  <2> QED
    BY <2>5, <2>6, <2>7, <2>8
<1> HIDE DEF q, c
<1>5. q.fresh \subseteq q.ask.named /\ (q.ask.op = "delete" => q.fresh = {})
  BY <1>1, <1>3 DEF FoundAsNamed
<1> QED
  BY <1>3, <1>4, <1>5 DEF LoadedAsNamed, q

LEMMA FindAsNamed ==
  ASSUME IInv, NEW r \in Requests, NEW a \in Asks, Find(r, a), req'[r].at = "found"
  PROVE  FoundAsNamed(req'[r], touched[r])
<1> DEFINE found == {i \in Present : a.op \in {"post", "put"} /\ name[i] \in a.named}
           fresh == IF a.op = "update" THEN a.named \ {a.name}
                    ELSE IF a.op = "delete" THEN {}
                    ELSE a.named \ {name[i] : i \in found}
<1>1. a.named \subseteq Names
  BY AsksAssumption DEF Ask
<1>2. PICK t : req' = [req EXCEPT ![r] = [at |-> "found", ask |-> a, target |-> t,
                                          found |-> found, fresh |-> fresh]]
  <2>1. ~ (req' = [req EXCEPT ![r] = [at |-> "done", ask |-> a, answer |-> 404]])
    BY DEF IInv, TypeOK
  <2> QED
    BY <2>1 DEF Find
<1>3. req'[r].ask = a /\ req'[r].found = found /\ req'[r].fresh = fresh
  BY <1>2 DEF IInv, TypeOK
<1>4. fresh \subseteq a.named /\ (a.op = "delete" => fresh = {})
  OBVIOUS
<1>5. a.op \in {"post", "put"} => \A i \in Ids : i \in found <=> name[i] \in a.named
  BY <1>1 DEF Present
<1> HIDE DEF found, fresh
<1> QED
  BY <1>3, <1>4, <1>5 DEF FoundAsNamed

(* A step of r, as the requests of others see it. *)
Told(r) ==
  \A p \in Requests \ {r} :
    /\ req'[p] = req[p]
    /\ touched[p] \subseteq touched'[p]
    /\ req[p].at \in {"found", "loaded"} =>
         /\ \A i \in Ids : i \notin touched'[p] => name'[i] = name[i]
         /\ \A e \in Edge : e \notin touched'[p] => rows'[e] = rows[e]

LEMMA AsNamedStep ==
  ASSUME IInv, AsNamed, NEW r \in Requests, Told(r),
         req'[r].at = "found" => FoundAsNamed(req[r], touched[r])' ,
         req'[r].at = "loaded" => LoadedAsNamed(req[r], touched[r])'
  PROVE  AsNamed'
<1>1. ASSUME NEW p \in Requests, p # r, req[p].at = "found"
      PROVE  FoundAsNamed(req[p], touched[p])'
  BY <1>1 DEF AsNamed, Told, FoundAsNamed
<1>2. ASSUME NEW p \in Requests, p # r, req[p].at = "loaded"
      PROVE  LoadedAsNamed(req[p], touched[p])'
  <2>1. /\ req'[p] = req[p] /\ touched[p] \subseteq touched'[p]
        /\ LoadedAsNamed(req[p], touched[p])
        /\ \A i \in Ids : i \notin touched'[p] => name'[i] = name[i]
        /\ \A e \in Edge : e \notin touched'[p] => rows'[e] = rows[e]
    BY <1>2 DEF AsNamed, Told
  <2>2. req[p].ask.list \in Lists
    BY <1>2, RequestAt, AsksAssumption DEF IInv, TypeOK, LoadedRequest, Ask
  <2>3. ASSUME NEW e \in Edge, Ends(e) \cap touched'[p] = {}
        PROVE  /\ Ends(e) \cap touched[p] = {} /\ (Member(e)' <=> Member(e))
               /\ (Named(req[p], e)' <=> Named(req[p], e))
               /\ (Mine(req[p], e)' <=> Mine(req[p], e))
    <3>1. e[Other(req[p].ask.list)] \in Ids /\ e[Other(req[p].ask.list)] \notin touched'[p]
      BY <2>2, <2>3, EndsOfEdge DEF Ends
    <3> QED
      BY <2>1, <2>3, <3>1 DEF Member, Named, Mine, Ends
  <2> QED
    BY <2>1, <2>3 DEF LoadedAsNamed
<1> QED
  BY <1>1, <1>2 DEF AsNamed, Told

LEMMA NextAsNamed == IInv /\ AsNamed /\ [Next]_vars => AsNamed'
<1> SUFFICES ASSUME IInv, AsNamed, [Next]_vars PROVE AsNamed'
  OBVIOUS
<1>1. ASSUME NEW r \in Requests, NEW a \in Asks, Find(r, a)
      PROVE  AsNamed'
  <2>1. Told(r) /\ UNCHANGED <<name, rows, touched>>
    BY <1>1 DEF Find, Told, IInv, TypeOK
  <2>2. req'[r].at # "loaded"
    BY <1>1 DEF Find, IInv, TypeOK
  <2>3. req'[r].at = "found" => FoundAsNamed(req[r], touched[r])'
    BY <1>1, <2>1, FindAsNamed DEF FoundAsNamed
  <2> QED
    BY <2>1, <2>2, <2>3, AsNamedStep
<1>2. ASSUME NEW r \in Requests, Load(r)
      PROVE  AsNamed'
  <2>1. Told(r) /\ UNCHANGED <<name, rows, touched>>
    BY <1>2 DEF Load, Told, IInv, TypeOK
  <2>2. LoadedAsNamed(req[r], touched[r])' /\ req'[r].at = "loaded"
    BY <1>2, <2>1, LoadAsNamed DEF LoadedAsNamed, Mine, Named, Member
  <2> QED
    BY <2>1, <2>2, AsNamedStep
<1>3. ASSUME NEW r \in Requests, NEW d, d.at = "done", req' = [req EXCEPT ![r] = d],
             Touch(r) \/ UNCHANGED <<name, rows, touched>>
      PROVE  AsNamed'
  <2>1. Told(r)
    BY <1>3 DEF Told, Touch, IInv, TypeOK
  <2>2. req'[r].at = "done"
    BY <1>3 DEF IInv, TypeOK
  <2> QED
    BY <2>1, <2>2, AsNamedStep
<1>4. ASSUME NEW r \in Requests, NEW a \in Asks, Create(r, a)
      PROVE  AsNamed'
  BY <1>3, <1>4, Ended
<1>5. ASSUME NEW r \in Requests,
             FindNoMore(r) \/ Refuse(r) \/ SaveList(r) \/ SaveUpdate(r) \/ SaveDrop(r)
      PROVE  AsNamed'
  BY <1>3, <1>5, Ended
<1>6. CASE UNCHANGED vars
  BY <1>6 DEF vars, AsNamed, FoundAsNamed, LoadedAsNamed, Mine, Named, Member
<1> QED
  BY <1>1, <1>2, <1>4, <1>5, <1>6 DEF Next

LEMMA InitAsNamed == Init => AsNamed
BY DEF Init, AsNamed, NoRequest

LEMMA AlwaysAsNamed == Spec => [](IInv /\ AsNamed)
<1>1. (IInv /\ AsNamed) /\ [Next]_vars => (IInv /\ AsNamed)'
  BY NextInv, NextAsNamed
<1> QED
  BY <1>1, InitInv, InitAsNamed, PTL DEF Spec

(* The membership e after a list is written. *)
LEMMA ListWritten ==
  ASSUME IInv, NEW r \in Requests, SaveList(r)
  PROVE  \E new \in SUBSET Ids :
           /\ \A i \in new : name'[i] \in req[r].fresh /\ i \notin Present
           /\ \A i \in Ids \ new : name'[i] = name[i]
           /\ \A e \in Edge :
                LET q == req[r]
                    added == e \in q.add \/ (Mine(q, e) /\ e[Other(q.ask.list)] \in new)
                IN  /\ added => Member(e)'
                    /\ ~ added /\ e \in q.del => ~ Member(e)'
                    /\ ~ added /\ e \notin q.del => (Member(e)' <=> Member(e))
<1> DEFINE q == req[r]
           t == q.target
           list == q.ask.list
<1>1. q \in LoadedRequest
  BY RequestAt DEF IInv, TypeOK, SaveList
<1>2. t \in Ids /\ list \in Lists
  BY <1>1, AsksAssumption DEF LoadedRequest, Ask
<1>3. PICK row \in [q.fresh -> {i \in Ids : name[i] = Unused}] :
        LET new == {row[n] : n \in q.fresh} IN
        /\ name' = [i \in Ids |-> IF i \in new
                                    THEN CHOOSE n \in q.fresh : row[n] = i
                                    ELSE name[i]]
        /\ rows' = WrittenRows(q, new)
  BY DEF SaveList
<1> DEFINE new == {row[n] : n \in q.fresh}
<1>4. \A i \in new : i \in Ids /\ name[i] = Unused /\ i \notin Present
  BY <1>3, NoNameAssumption DEF Present
<1>5. \A i \in new : name'[i] \in q.fresh
  <2> SUFFICES ASSUME NEW i \in new PROVE name'[i] \in q.fresh
    OBVIOUS
  <2>1. \E n \in q.fresh : row[n] = i
    OBVIOUS
  <2>2. name'[i] = CHOOSE n \in q.fresh : row[n] = i
    BY <1>3, <1>4
  <2> QED
    BY <2>1, <2>2
<1>6. \A i \in Ids \ new : name'[i] = name[i]
  BY <1>3
<1>7. rows' = WrittenRows(q, new) /\ rows \in [Edge -> Nat] /\ new \in SUBSET Ids
  BY <1>3, <1>4 DEF IInv, TypeOK
<1>8. ASSUME NEW e \in Edge
      PROVE  LET added == e \in q.add \/ (Mine(q, e) /\ e[Other(list)] \in new)
             IN  /\ added => Member(e)'
                 /\ ~ added /\ e \in q.del => ~ Member(e)'
                 /\ ~ added /\ e \notin q.del => (Member(e)' <=> Member(e))
  <2> DEFINE links == {Link(list, t, i) : i \in new}
  <2>1. e \in links <=> e[Part(list)] = t /\ e[Other(list)] \in new
    <3> HIDE DEF new, t, list, q
    <3> QED
      BY <1>2, <1>7, LinksOf
  <2>2. /\ e \in q.add \cup links => rows'[e] = rows[e] + 1
        /\ e \notin q.add \cup links /\ e \in q.del => rows'[e] = 0
        /\ e \notin q.add \cup links /\ e \notin q.del => rows'[e] = rows[e]
    <3> HIDE DEF q, new
    <3> QED
      BY <1>7 DEF WrittenRows
  <2> HIDE DEF new, links
  <2>3. rows[e] \in Nat
    BY <1>7
  <2> QED
    BY <2>1, <2>2, <2>3 DEF Member, Mine
<1> HIDE DEF new
<1> QED
  BY <1>4, <1>5, <1>6, <1>7, <1>8

(* A request that has found its target is answered by a step of its own. *)
LEMMA AnswerStep ==
  ASSUME [Next]_vars, IInv, NEW r \in Requests, req[r].at \in {"found", "loaded"},
         req'[r].at = "done"
  PROVE  FindNoMore(r) \/ Refuse(r) \/ SaveList(r) \/ SaveUpdate(r) \/ SaveDrop(r)
<1>1. req'[r] # req[r] /\ req[r] # NoRequest
  <2>1. req[r].at # req'[r].at
    OBVIOUS
  <2> QED
    BY <2>1 DEF NoRequest
<1>2. ASSUME NEW p \in Requests, NEW a \in Asks, Find(p, a) \/ Create(p, a)
      PROVE  FALSE
  <2>1. req[p] = NoRequest /\ \E d : req' = [req EXCEPT ![p] = d]
    BY <1>2 DEF Find, Create
  <2> QED
    BY <1>1, <2>1
<1>3. ASSUME NEW p \in Requests, p # r,
             \/ Load(p) \/ FindNoMore(p) \/ Refuse(p)
             \/ SaveList(p) \/ SaveUpdate(p) \/ SaveDrop(p)
      PROVE  FALSE
  <2>1. \E d : req' = [req EXCEPT ![p] = d]
    BY <1>3 DEF Load, FindNoMore, Refuse, SaveList, SaveUpdate, SaveDrop, Done
  <2> QED
    BY <1>1, <1>3, <2>1
<1>4. ~ Load(r)
  BY DEF Load, IInv, TypeOK
<1>5. ~ UNCHANGED vars
  BY <1>1 DEF vars
<1> QED
  BY <1>2, <1>3, <1>4, <1>5 DEF Next

LEMMA OwnStep ==
  ASSUME IInv, [Next]_vars, NEW r \in Requests,
         req[r].at = "loaded", req'[r].at = "done", req'[r].answer < 400
  PROVE  SaveList(r) \/ SaveUpdate(r) \/ SaveDrop(r)
<1>1. ~ (Refuse(r) \/ FindNoMore(r))
  <2> SUFFICES ASSUME Refuse(r) \/ FindNoMore(r) PROVE FALSE
    OBVIOUS
  <2>1. Refusal(req[r]) = 400 \/ Refusal(req[r]) = 500
    BY DEF Refusal
  <2>2. PICK code \in {400, 404, 500} : Done(r, code)
    BY <2>1 DEF Refuse, FindNoMore
  <2>3. req'[r].answer = code
    BY <2>2 DEF Done, IInv, TypeOK
  <2> QED
    BY <2>3
<1> QED
  BY <1>1, AnswerStep

(* A request that is answered with success has made of every membership    *)
(* what its documentation says.                                            *)
THEOREM AnsweredTruly == Spec => AnsweredAsAsked
<1> DEFINE Truly(r, e) ==
      LET q == req[r] IN
      \/ {e, e.parent, e.member} \cap touched[r] # {}
      \/ q.ask.op = "drop" /\ q.target \in {e.parent, e.member} /\ ~ Member(e)'
      \/ Member(e)' <=> IF e[Part(q.ask.list)] = q.target
                          THEN Documented(q.ask, e) ELSE Member(e)
    Answered(r) ==
      LET q == req[r] IN
      /\ q.at = "loaded" /\ req'[r].at = "done" /\ req'[r].answer < 400
      /\ ~ (q.ask.op = "delete" /\ q.ask.name \in q.ask.named)
<1>1. ASSUME IInv, AsNamed, [Next]_vars, NEW r \in Requests, Answered(r), NEW e \in Edge
      PROVE  Truly(r, e)
  <2> DEFINE q == req[r]
             part == e[Part(q.ask.list)]
             other == e[Other(q.ask.list)]
  <2>1. SaveList(r) \/ SaveUpdate(r) \/ SaveDrop(r)
    BY <1>1, OwnStep
  <2>2. q \in LoadedRequest /\ q.at = "loaded" /\ LoadedAsNamed(q, touched[r]) /\ OfItsList(q)
    BY <1>1, RequestAt DEF IInv, TypeOK, AsNamed, Placed
  <2>3. CASE SaveUpdate(r)
    <3>1. Member(e)' <=> Member(e)
      BY <1>1, <2>3, SavedUpdate DEF Member
    <3>2. q.ask.op = "update"
      BY <2>3 DEF SaveUpdate
    <3> QED
      BY <3>1, <3>2 DEF Documented
  <2>4. CASE SaveDrop(r)
    <3>1. Member(e)' <=> Member(e) /\ q.target \notin {e.parent, e.member}
      BY <1>1, <2>4, SavedDrop DEF Member
    <3>2. q.ask.op = "drop"
      BY <2>4 DEF SaveDrop
    <3> QED
      BY <3>1, <3>2 DEF Documented
  <2>5. CASE SaveList(r) /\ Ends(e) \cap touched[r] = {}
    <3>1. q.ask.op \in {"post", "delete", "put"}
      BY <2>5 DEF SaveList
    <3>2. PICK new \in SUBSET Ids :
            /\ \A i \in new : name'[i] \in q.fresh /\ i \notin Present
            /\ \A i \in Ids \ new : name'[i] = name[i]
            /\ LET added == e \in q.add \/ (Mine(q, e) /\ other \in new)
               IN  /\ added => Member(e)'
                   /\ ~ added /\ e \in q.del => ~ Member(e)'
                   /\ ~ added /\ e \notin q.del => (Member(e)' <=> Member(e))
      BY <1>1, <2>5, ListWritten
    <3>3. other \in Ids
      BY <2>2, AsksAssumption, EndsOfEdge DEF LoadedRequest, Ask
    <3>4. q.fresh \subseteq q.ask.named /\ (q.ask.op = "delete" => q.fresh = {})
      BY <2>2 DEF LoadedAsNamed
    <3>5. CASE ~ Mine(q, e)
      <4>1. e \notin q.add \cup q.del
        BY <2>2, <3>1, <3>5 DEF OfItsList, Mine
      <4> QED
        BY <3>2, <3>5, <4>1 DEF Mine
    <3>6. CASE Mine(q, e) /\ other \in new
      <4>1. name'[other] \in q.ask.named /\ q.ask.op # "delete"
        BY <3>2, <3>4, <3>6
      <4>2. Member(e)'
        BY <3>2, <3>6
      <4>3. Documented(q.ask, e)
        BY <3>1, <4>1 DEF Documented
      <4> QED
        BY <3>6, <4>2, <4>3 DEF Mine
    <3>7. CASE Mine(q, e) /\ other \notin new
      <4>1. name'[other] \in q.ask.named <=> Named(q, e)
        BY <3>2, <3>3, <3>7 DEF Named
      <4>2. /\ q.ask.op \in {"post", "put"} => (e \in q.add <=> Named(q, e) /\ ~ Member(e))
            /\ q.ask.op = "post" => e \notin q.del
            /\ q.ask.op = "put" => (e \in q.del <=> Member(e) /\ ~ Named(q, e))
            /\ q.ask.op = "delete" =>
                 e \notin q.add /\ (e \in q.del <=> Member(e) /\ Named(q, e))
        BY <1>1, <2>2, <2>5, <3>7 DEF LoadedAsNamed
      <4>3. /\ e \in q.add => Member(e)'
            /\ e \notin q.add /\ e \in q.del => ~ Member(e)'
            /\ e \notin q.add /\ e \notin q.del => (Member(e)' <=> Member(e))
        BY <3>2, <3>7
      <4>4. Member(e)' <=> Documented(q.ask, e)
        BY <3>1, <4>1, <4>2, <4>3 DEF Documented
      <4> QED
        BY <3>7, <4>4 DEF Mine
    <3> QED
      BY <3>5, <3>6, <3>7
  <2> QED
    BY <2>1, <2>3, <2>4, <2>5 DEF Ends
<1>2. IInv /\ AsNamed /\ [Next]_vars =>
        \A r \in Requests : Answered(r) => \A e \in Edge : Truly(r, e)
  BY <1>1
<1> QED
  BY <1>2, AlwaysAsNamed, PTL DEF Spec, AnsweredAsAsked
-----------------------------------------------------------------------------
(* A request that nobody got in the way of is refused for duplicates only. *)

LEMMA EdgesFinite == IsFiniteSet(Edge)
<1> DEFINE ends == [e \in Edge |-> <<e.parent, e.member>>]
<1>1. IsFiniteSet(Ids \X Ids)
  BY AsksAssumption, FS_Product
<1>2. ends \in Injection(Edge, Ids \X Ids)
  <2>1. ends \in [Edge -> Ids \X Ids]
    BY PartsOfEdge
  <2>2. ASSUME NEW d \in Edge, NEW e \in Edge, ends[d] = ends[e]
        PROVE  d = e
    <3>1. d.parent = e.parent /\ d.member = e.member
      BY <2>2
    <3> QED
      BY <3>1 DEF Edge
  <2> HIDE DEF ends
  <2> QED
    BY <2>1, <2>2 DEF Injection, IsInjective
<1> QED
  BY <1>1, <1>2, FS_Injection

(* A set that has 0 and, with every natural, the next has them all. *)
LEMMA Naturally ==
  ASSUME NEW S, 0 \in S, \A n \in Nat : n \in S => n + 1 \in S
  PROVE  \A n \in Nat : n \in S
<1> DEFINE T == Nat \ S
           R == OpToRel(<, Nat)
<1> SUFFICES ASSUME T # {} PROVE FALSE
  OBVIOUS
<1>1. IsWellFoundedOn(R, Nat)
  BY NatLessThanWellFounded
<1> HIDE DEF R
<1>2. PICK x \in T : \A y \in T : ~ (<<y, x>> \in R)
  BY <1>1, WFMin
<1>3. \A y \in T : ~ (y < x)
  BY <1>2 DEF R, OpToRel
<1>4. x \in Nat /\ x # 0
  OBVIOUS
<1>5. x - 1 \in Nat /\ x - 1 < x /\ (x - 1) + 1 = x
  BY <1>4
<1> QED
  BY <1>3, <1>5

(* One row each: as many rows as memberships. *)
LEMMA SumOfOnes ==
  ASSUME NEW E, IsFiniteSet(E), \A e \in E : rows[e] = 1
  PROVE  DeletesMatch(E)
<1> DEFINE iter[s \in SUBSET E] ==
             IF s = {} THEN 0
             ELSE LET x == CHOOSE x \in s : TRUE IN rows[x] + iter[s \ {x}]
           Step(f, s) == IF s = {} THEN 0
                         ELSE rows[CHOOSE x \in s : TRUE] + f[s \ {CHOOSE x \in s : TRUE}]
           card == [s \in SUBSET E |-> Cardinality(s)]
<1>1. ASSUME NEW s \in SUBSET E, s # {}
      PROVE  LET x == CHOOSE x \in s : TRUE
             IN  /\ rows[x] = 1 /\ s \ {x} \in SUBSET E
                 /\ Cardinality(s \ {x}) \in Nat
                 /\ Cardinality(s) = 1 + Cardinality(s \ {x})
  <2> DEFINE x == CHOOSE x \in s : TRUE
  <2>1. x \in s
    BY <1>1
  <2> HIDE DEF x
  <2>2. IsFiniteSet(s)
    BY FS_Subset
  <2>3. Cardinality(s) \in Nat /\ Cardinality(s \ {x}) \in Nat
    BY <2>2, FS_RemoveElement, FS_CardinalityType
  <2>4. Cardinality(s \ {x}) = Cardinality(s) - 1
    BY <2>1, <2>2, FS_RemoveElement
  <2>5. rows[x] = 1 /\ s \ {x} \in SUBSET E
    BY <2>1
  <2>6. Cardinality(s) = 1 + Cardinality(s \ {x})
    BY <2>3, <2>4
  <2> QED
    BY <2>3, <2>5, <2>6 DEF x
<1>2. card = [s \in SUBSET E |-> Step(card, s)]
  <2> SUFFICES ASSUME NEW s \in SUBSET E PROVE Cardinality(s) = Step(card, s)
    OBVIOUS
  <2>1. CASE s = {}
    BY <2>1, FS_EmptySet
  <2>2. CASE s # {}
    <3> DEFINE x == CHOOSE x \in s : TRUE
    <3>1. rows[x] = 1 /\ s \ {x} \in SUBSET E /\ Cardinality(s) = 1 + Cardinality(s \ {x})
      BY <1>1, <2>2
    <3>2. Step(card, s) = rows[x] + card[s \ {x}]
      BY <2>2
    <3> HIDE DEF x, Step
    <3>3. card[s \ {x}] = Cardinality(s \ {x})
      BY <3>1
    <3> QED
      BY <3>1, <3>2, <3>3
  <2> QED
    BY <2>1, <2>2
<1>3. iter = [s \in SUBSET E |-> Step(iter, s)]
  <2>1. iter = CHOOSE f : f = [s \in SUBSET E |-> Step(f, s)]
    OBVIOUS
  <2> HIDE DEF iter, Step, card
  <2> QED
    BY <1>2, <2>1
<1>4. DeletesMatch(E) <=> iter[E] = Cardinality(E)
  BY DEF DeletesMatch, MapThenSumSet, MapThenFoldSet
<1> DEFINE N == {n \in Nat : \A s \in SUBSET E : Cardinality(s) = n => iter[s] = n}
<1>5. 0 \in N
  <2> SUFFICES ASSUME NEW s \in SUBSET E, Cardinality(s) = 0 PROVE iter[s] = 0
    OBVIOUS
  <2>1. s = {}
    BY FS_Subset, FS_EmptySet
  <2> HIDE DEF iter
  <2> QED
    BY <1>3, <2>1
<1>6. ASSUME NEW n \in Nat, n \in N
      PROVE  n + 1 \in N
  <2> SUFFICES ASSUME NEW s \in SUBSET E, Cardinality(s) = n + 1 PROVE iter[s] = n + 1
    <3> HIDE DEF iter, Step, card
    <3>1. n + 1 \in Nat
      OBVIOUS
    <3> QED
      BY <3>1
  <2>1. s # {}
    BY FS_EmptySet
  <2> DEFINE x == CHOOSE x \in s : TRUE
  <2>2. rows[x] = 1 /\ s \ {x} \in SUBSET E /\ Cardinality(s \ {x}) = n
    <3>1. /\ rows[x] = 1 /\ s \ {x} \in SUBSET E /\ Cardinality(s \ {x}) \in Nat
          /\ Cardinality(s) = 1 + Cardinality(s \ {x})
      BY <1>1, <2>1
    <3> HIDE DEF x
    <3> QED
      BY <3>1
  <2>3. iter[s] = rows[x] + iter[s \ {x}]
    <3> HIDE DEF iter, x
    <3>1. iter[s] = Step(iter, s)
      BY <1>3
    <3> QED
      BY <2>1, <3>1 DEF x
  <2> HIDE DEF x, iter
  <2>4. iter[s \ {x}] = n
    BY <1>6, <2>2
  <2> QED
    BY <2>2, <2>3, <2>4
<1> HIDE DEF N
<1>7. Cardinality(E) \in N
  BY <1>5, <1>6, FS_CardinalityType, Naturally
<1>8. iter[E] = Cardinality(E)
  <2> HIDE DEF iter
  <2> QED
    BY <1>7 DEF N
<1> QED
  BY <1>4, <1>8

(* What a request works with is there, its target by the name it was found *)
(* by, as long as nobody has touched anything.                             *)

FoundIntact(q) ==
  /\ q.target \in Present /\ q.found \subseteq Present
  /\ name[q.target] = q.ask.name

LoadedIntact(q) ==
  /\ q.target \in Present
  /\ name[q.target] = q.ask.name
  /\ \A e \in q.add : {e.parent, e.member} \subseteq Present
  /\ \A e \in q.del : Member(e)

Intact ==
  \A r \in Requests : touched[r] = {} =>
    /\ req[r].at = "found" => FoundIntact(req[r])
    /\ req[r].at = "loaded" => LoadedIntact(req[r])

LEMMA FindIntact ==
  ASSUME IInv, NEW r \in Requests, NEW a \in Asks, Find(r, a), req'[r].at = "found"
  PROVE  FoundIntact(req'[r])
<1> DEFINE found == {i \in Present : a.op \in {"post", "put"} /\ name[i] \in a.named}
           fresh == IF a.op = "update" THEN a.named \ {a.name}
                    ELSE IF a.op = "delete" THEN {}
                    ELSE a.named \ {name[i] : i \in found}
<1>1. PICK t \in {i \in Present : name[i] = a.name} :
        req' = [req EXCEPT ![r] = [at |-> "found", ask |-> a, target |-> t,
                                   found |-> found, fresh |-> fresh]]
  <2>1. ~ (req' = [req EXCEPT ![r] = [at |-> "done", ask |-> a, answer |-> 404]])
    BY DEF IInv, TypeOK
  <2> QED
    BY <2>1 DEF Find
<1>2. /\ req'[r].ask = a /\ req'[r].target = t
      /\ req'[r].found = found /\ req'[r].fresh = fresh
  BY <1>1 DEF IInv, TypeOK
<1>3. found \subseteq Present /\ t \in Present /\ name[t] = a.name
  OBVIOUS
<1> HIDE DEF found, fresh
<1> QED
  BY <1>2, <1>3 DEF FoundIntact

LEMMA ChangesIntact ==
  ASSUME NEW a \in Asks, NEW t \in Present, NEW found \in SUBSET Present
  PROVE  LET c == Changes(a, t, found)
         IN  /\ \A e \in c.add : {e.parent, e.member} \subseteq Present
             /\ \A e \in c.del : Member(e)
<1>1. a.list \in Lists /\ t \in Ids /\ found \in SUBSET Ids
  BY AsksAssumption DEF Ask, Present
<1> DEFINE links == {Link(a.list, t, i) : i \in found}
<1>2. \A e \in links : {e.parent, e.member} \subseteq Present
  <2> SUFFICES ASSUME NEW i \in found
               PROVE  /\ Link(a.list, t, i).parent \in Present
                      /\ Link(a.list, t, i).member \in Present
    OBVIOUS
  <2>1. CASE a.list = "members"
    BY <2>1 DEF Link
  <2>2. CASE a.list # "members"
    BY <2>2 DEF Link
  <2> QED
    BY <2>1, <2>2
<1>3. \A list : \A e \in Loaded(list, t) : Member(e)
  BY DEF Loaded
<1> HIDE DEF links
<1> DEFINE c == Changes(a, t, found)
<1>4. CASE a.op = "post"
  <2>1. c = [add |-> links \ Loaded(a.list, t), del |-> {}]
    BY <1>4 DEF Changes, PostMember, links
  <2> HIDE DEF c
  <2> QED
    BY <1>2, <1>4, <2>1 DEF c
<1>5. CASE a.op = "put"
  <2>1. c = [add |-> links \ Loaded(a.list, t), del |-> Loaded(a.list, t) \ links]
    BY <1>5 DEF Changes, PutMembers, links
  <2> HIDE DEF c
  <2> QED
    BY <1>2, <1>3, <1>5, <2>1 DEF c
<1>6. CASE a.op = "delete"
  <2>1. c.add = {} /\ c.del \subseteq Loaded(a.list, t)
    BY <1>6 DEF Changes, DeleteMember
  <2> HIDE DEF c
  <2> QED
    BY <1>3, <1>6, <2>1 DEF c
<1>7. CASE a.op = "drop"
  <2>1. c.add = {} /\ c.del = Loaded("members", t) \cup Loaded("member_of", t)
    BY <1>7 DEF Changes, DropGroup
  <2> HIDE DEF c
  <2> QED
    BY <1>3, <2>1 DEF c
<1>8. CASE a.op \notin {"post", "put", "delete", "drop"}
  BY <1>8 DEF Changes, NoChange
<1> QED
  BY <1>4, <1>5, <1>6, <1>7, <1>8

LEMMA LoadIntact ==
  ASSUME IInv, Intact, NEW r \in Requests, Load(r), touched[r] = {}
  PROVE  LoadedIntact(req'[r])
<1>1. req[r] \in Found /\ FoundIntact(req[r])
  BY RequestAt DEF IInv, TypeOK, Load, Intact
<1> DEFINE c == Changes(req[r].ask, req[r].target, req[r].found)
<1>2. /\ req'[r].ask = req[r].ask /\ req'[r].target = req[r].target
      /\ req'[r].add = c.add /\ req'[r].del = c.del /\ req'[r].fresh = req[r].fresh
  BY DEF Load, IInv, TypeOK
<1>3. /\ req[r].ask \in Asks /\ req[r].target \in Present
      /\ req[r].found \in SUBSET Present
  BY <1>1 DEF Found, FoundIntact
<1>4. /\ \A e \in c.add : {e.parent, e.member} \subseteq Present
      /\ \A e \in c.del : Member(e)
  BY <1>3, ChangesIntact
<1> HIDE DEF c
<1> QED
  BY <1>1, <1>2, <1>4 DEF LoadedIntact, FoundIntact

LEMMA IntactStep ==
  ASSUME IInv, Intact, NEW r \in Requests, Told(r),
         req'[r].at = "found" /\ touched'[r] = {} => FoundIntact(req[r])' ,
         req'[r].at = "loaded" /\ touched'[r] = {} => LoadedIntact(req[r])'
  PROVE  Intact'
<1> SUFFICES ASSUME NEW p \in Requests, p # r, touched'[p] = {},
                    req'[p].at \in {"found", "loaded"}
             PROVE  /\ req'[p].at = "found" => FoundIntact(req[p])'
                    /\ req'[p].at = "loaded" => LoadedIntact(req[p])'
  BY DEF Intact
<1>1. /\ req'[p] = req[p] /\ touched[p] = {}
      /\ \A i \in Ids : name'[i] = name[i]
      /\ \A e \in Edge : rows'[e] = rows[e]
  BY DEF Told
<1>2. Present' = Present
  BY <1>1 DEF Present
<1>3. req[p].at \in {"found", "loaded"} => req[p].target \in Ids
  BY RequestAt DEF IInv, TypeOK, Found, LoadedRequest
<1>4. CASE req[p].at = "found"
  BY <1>1, <1>2, <1>3, <1>4 DEF Intact, FoundIntact
<1>5. CASE req[p].at = "loaded"
  <2>1. req[p].del \subseteq Edge
    BY <1>5, RequestAt DEF IInv, TypeOK, LoadedRequest
  <2>2. \A e \in Edge : Member(e)' <=> Member(e)
    BY <1>1 DEF Member
  <2> QED
    BY <1>1, <1>2, <1>3, <1>5, <2>1, <2>2 DEF Intact, LoadedIntact
<1> QED
  BY <1>1, <1>4, <1>5

LEMMA NextIntact == IInv /\ Intact /\ [Next]_vars => Intact'
<1> SUFFICES ASSUME IInv, Intact, [Next]_vars PROVE Intact'
  OBVIOUS
<1>1. ASSUME NEW r \in Requests, NEW a \in Asks, Find(r, a)
      PROVE  Intact'
  <2>1. Told(r) /\ UNCHANGED <<name, rows, touched>>
    BY <1>1 DEF Find, Told, IInv, TypeOK
  <2>2. req'[r].at # "loaded"
    BY <1>1 DEF Find, IInv, TypeOK
  <2>3. req'[r].at = "found" => FoundIntact(req[r])'
    BY <1>1, <2>1, FindIntact DEF FoundIntact, Present
  <2> QED
    BY <2>1, <2>2, <2>3, IntactStep
<1>2. ASSUME NEW r \in Requests, Load(r)
      PROVE  Intact'
  <2>1. Told(r) /\ UNCHANGED <<name, rows, touched>>
    BY <1>2 DEF Load, Told, IInv, TypeOK
  <2>2. touched'[r] = {} => LoadedIntact(req[r])'
    BY <1>2, <2>1, LoadIntact DEF LoadedIntact, Present, Member
  <2>3. req'[r].at = "loaded"
    BY <1>2 DEF Load, IInv, TypeOK
  <2> QED
    BY <2>1, <2>2, <2>3, IntactStep
<1>3. ASSUME NEW r \in Requests, NEW d, d.at = "done", req' = [req EXCEPT ![r] = d],
             Touch(r) \/ UNCHANGED <<name, rows, touched>>
      PROVE  Intact'
  <2>1. Told(r)
    BY <1>3 DEF Told, Touch, IInv, TypeOK
  <2>2. req'[r].at = "done"
    BY <1>3 DEF IInv, TypeOK
  <2> QED
    BY <2>1, <2>2, IntactStep
<1>4. ASSUME NEW r \in Requests, NEW a \in Asks, Create(r, a)
      PROVE  Intact'
  BY <1>3, <1>4, Ended
<1>5. ASSUME NEW r \in Requests,
             FindNoMore(r) \/ Refuse(r) \/ SaveList(r) \/ SaveUpdate(r) \/ SaveDrop(r)
      PROVE  Intact'
  BY <1>3, <1>5, Ended
<1>6. CASE UNCHANGED vars
  BY <1>6 DEF vars, Intact, FoundIntact, LoadedIntact, Present, Member
<1> QED
  BY <1>1, <1>2, <1>4, <1>5, <1>6 DEF Next

LEMMA InitIntact == Init => Intact
BY DEF Init, Intact, NoRequest

(* What can be in the way of an intact request. *)
LEMMA IntactRefused ==
  ASSUME IInv, NEW r \in Requests, Refuse(r), LoadedIntact(req[r]),
         req[r].ask.op \in {"post", "delete", "put"}, req[r].fresh = {}
  PROVE  \E e \in req[r].del : rows[e] > 1
<1> DEFINE q == req[r]
<1> SUFFICES ASSUME \A e \in q.del : ~ (rows[e] > 1) PROVE FALSE
  OBVIOUS
<1>1. q \in LoadedRequest
  BY RequestAt DEF IInv, TypeOK, Refuse
<1>2. ~ Conflict(q) /\ ~ MayConflict(q)
  BY <1>1 DEF Conflict, MayConflict, LoadedIntact
<1>3. PICK E \in DeletedTogether(q) : ~ DeletesMatch(E)
  BY <1>2 DEF Refuse, Stale, LoadedIntact
<1>4. E \subseteq q.del /\ q.del \subseteq Edge
  BY <1>1, <1>3 DEF DeletedTogether, LoadedRequest
<1>5. IsFiniteSet(E)
  BY <1>4, EdgesFinite, FS_Subset
<1>6. \A e \in E : rows[e] = 1
  <2> SUFFICES ASSUME NEW e \in E PROVE rows[e] = 1
    OBVIOUS
  <2>1. rows[e] \in Nat /\ rows[e] > 0 /\ ~ (rows[e] > 1)
    BY <1>4 DEF IInv, TypeOK, LoadedIntact, Member
  <2> QED
    BY <2>1
<1> QED
  BY <1>3, <1>5, <1>6, SumOfOnes

(* A POST, DELETE or PUT on a list that makes no new group and that nobody *)
(* gets in the way of, from its finding the target to its flush, is        *)
(* refused only because of a membership that has two rows.                 *)
THEOREM RefusalsExplained == Spec => RefusedForDuplicates
<1> DEFINE Refused(r) ==
      LET q == req[r] IN
      /\ q.at \in {"found", "loaded"} /\ req'[r].at = "done" /\ req'[r].answer >= 400
      /\ q.ask.op \in {"post", "delete", "put"} /\ q.fresh = {} /\ touched[r] = {}
    Explained(r) == req[r].at = "loaded" /\ \E e \in req[r].del : rows[e] > 1
<1>1. ASSUME IInv, Intact, [Next]_vars, NEW r \in Requests, Refused(r)
      PROVE  Explained(r)
  <2>1. ~ (SaveList(r) \/ SaveUpdate(r) \/ SaveDrop(r))
    <3> SUFFICES ASSUME SaveList(r) \/ SaveUpdate(r) \/ SaveDrop(r) PROVE FALSE
      OBVIOUS
    <3>1. req'[r].answer = Success(req[r])
      <4>1. Done(r, Success(req[r]))
        BY DEF SaveList, SaveUpdate, SaveDrop
      <4> QED
        BY <1>1, <4>1 DEF Done, IInv, TypeOK
    <3>2. Success(req[r]) \in {200, 201, 204, 301}
      BY DEF Success
    <3> QED
      BY <1>1, <3>1, <3>2
  <2>2. ~ FindNoMore(r)
    <3>1. name[req[r].target] = req[r].ask.name
      BY <1>1 DEF Intact, FoundIntact, LoadedIntact
    <3> QED
      BY <3>1 DEF FindNoMore
  <2>3. Refuse(r)
    BY <1>1, <2>1, <2>2, AnswerStep
  <2>4. req[r].at = "loaded" /\ LoadedIntact(req[r])
    BY <1>1, <2>3 DEF Intact, Refuse
  <2> QED
    BY <1>1, <2>3, <2>4, IntactRefused
<1>2. IInv /\ Intact /\ [Next]_vars => \A r \in Requests : Refused(r) => Explained(r)
  BY <1>1
<1>3. Spec => [](IInv /\ Intact)
  <2>1. (IInv /\ Intact) /\ [Next]_vars => (IInv /\ Intact)'
    BY NextInv, NextIntact
  <2> QED
    BY <2>1, InitInv, InitIntact, PTL DEF Spec
<1> QED
  BY <1>2, <1>3, PTL DEF Spec, RefusedForDuplicates
=============================================================================
