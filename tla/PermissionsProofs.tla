-------------------------- MODULE PermissionsProofs -------------------------
(***************************************************************************)
(* Proofs about Permissions, for any number of requests, rows, groups and  *)
(* slots: its type invariant; the writers of rows are confined to those    *)
(* the rows' own history names; deleted rows stay away; and a request that *)
(* was refused has left no trace.                                          *)
(***************************************************************************)
EXTENDS Permissions, TLAPS

-----------------------------------------------------------------------------
(* What the operators on permissions return. *)

LEMMA NamedType ==
  ASSUME NEW slots \in Slots
  PROVE  Named(slots) \in SUBSET Groups
BY DEF Named, Slots

LEMMA InitialPermsType ==
  ASSUME NEW cur \in [Perms -> Slots]
  PROVE  InitialPerms(cur) \in [Perms -> SUBSET Groups]
BY NamedType DEF InitialPerms

LEMMA AssignedType == Assigned \subseteq [Perms -> Slots]
<1> SUFFICES ASSUME NEW perms \in Assigned
             PROVE  perms \in [Perms -> Slots]
  OBVIOUS
<1>1. \A p \in Perms : Assignable[p] \subseteq Slots
  BY SlotsAssumption
<1>2. perms \in [Perms -> UNION {Slots}]
  BY <1>1 DEF Assigned, Perms
<1> QED
  BY <1>2

(* A row's version built from an earlier one by the changed columns. *)
LEMMA MergedType ==
  ASSUME TypeOK, NEW r \in Requests, obj[r] # Nothing, View(r) # Nothing
  PROVE  Merged(r) \in Row
<1> DEFINE perms == [p \in Perms |-> [i \in 1..MaxPermissions |->
                       IF obj[r].cur[p][i] # obj[r].orig[p][i]
                         THEN obj[r].cur[p][i] ELSE View(r).perms[p][i]]]
<1>1. obj[r] \in Object /\ View(r) \in Row
  BY DEF TypeOK, View
<1>2. perms \in [Perms -> Slots]
  BY <1>1 DEF Object, Row, Slots
<1>3. Named(View(r).perms["write"]) \in SUBSET Groups
  BY <1>1, NamedType DEF Row, Perms
<1> QED
  BY <1>1, <1>2, <1>3 DEF Merged, Row, Object

-----------------------------------------------------------------------------
(* Type correctness.                                                       *)

LEMMA ViewType ==
  ASSUME TypeOK, NEW r \in Requests, View(r) # Nothing
  PROVE  View(r) \in Row
<1>1. mine[r] \in Row \cup {Nothing} /\ db[target[r]] \in Row \cup {Nothing}
  BY DEF TypeOK
<1> QED
  BY <1>1 DEF View

LEMMA AnswerType ==
  ASSUME TypeOK, NEW r \in Requests,
         NEW what \in {"ok", "not found", "denied", "conflict", "error",
                       "lost"},
         Answer(r, what), UNCHANGED <<db, groups, target, edits>>
  PROVE  TypeOK'
BY DEF TypeOK, Answer

LEMMA SaveType ==
  ASSUME TypeOK, NEW r \in Requests, NEW version \in Row,
         obj[r] # Nothing,
         Save(r, version), UNCHANGED <<db, groups, target, edits>>
  PROVE  TypeOK'
<1> DEFINE saved == [state |-> "clean", id |-> obj[r].id,
                     cur |-> obj[r].cur, orig |-> obj[r].cur,
                     initial |-> InitialPerms(obj[r].cur)]
<1>1. obj[r] \in Object
  BY DEF TypeOK
<1>2. saved \in Object
  BY <1>1, InitialPermsType DEF Object
<1>3. obj' = [obj EXCEPT ![r] = saved]
  BY DEF Save
<1> HIDE DEF saved
<1>4. obj' \in [Requests -> Object \cup {Nothing}]
  BY <1>2, <1>3 DEF TypeOK
<1>5. mine' \in [Requests -> Row \cup {Nothing}]
  BY DEF TypeOK, Save
<1>6. holds' \in [Requests -> BOOLEAN]
  BY DEF TypeOK, Save
<1> QED
  BY <1>4, <1>5, <1>6 DEF TypeOK, Save

LEMMA BulkType ==
  ASSUME TypeOK, NEW r \in Requests, NEW action \in {"update", "delete"},
         NEW version, Bulk(r, action, version),
         View(r) # Nothing => version \in Row \cup {Nothing}
  PROVE  TypeOK'
<1>1. mine' \in [Requests -> Row \cup {Nothing}]
  BY DEF TypeOK, Bulk
<1>2. holds' \in [Requests -> BOOLEAN]
  BY DEF TypeOK, Bulk, Allows
<1>3. phase' \in [Requests -> {"start", "working", "saved", "answered"}]
  BY DEF TypeOK, Bulk
<1> QED
  BY <1>1, <1>2, <1>3 DEF TypeOK, Bulk

LEMMA TypeInit == Init => TypeOK
<1> SUFFICES ASSUME Init PROVE TypeOK
  OBVIOUS
<1>1. \A perms \in Assigned : SeedRow(perms) \in Row
  BY AssignedType DEF SeedRow, Row
<1>2. db \in [Rows -> Row \cup {Nothing}]
  BY <1>1 DEF Init
<1>3. groups \in [Requests -> SUBSET Groups]
  BY GroupsAssumption DEF Init
<1>4. edits \in [Requests -> 0..MaxEdits]
  BY EditsAssumption DEF Init
<1> QED
  BY <1>2, <1>3, <1>4 DEF Init, TypeOK

LEMMA TypeNext == TypeOK /\ [Next]_vars => TypeOK'
<1> SUFFICES ASSUME TypeOK, [Next]_vars PROVE TypeOK'
  OBVIOUS
<1>1. CASE UNCHANGED vars
  BY <1>1 DEF TypeOK, vars
<1>2. ASSUME NEW r \in Requests, Load(r) PROVE TypeOK'
  <2> DEFINE row == db[target[r]]
             loaded == [state |-> "clean", id |-> row.id, cur |-> row.perms,
                        orig |-> row.perms, initial |-> InitialPerms(row.perms)]
  <2>1. CASE row # Nothing /\ Selectable(groups[r], row)
    <3>1. row \in Row
      BY <2>1 DEF TypeOK
    <3>2. loaded \in Object
      BY <3>1, InitialPermsType DEF Row, Object
    <3>3. /\ obj' = [obj EXCEPT ![r] = loaded]
          /\ phase' = [phase EXCEPT ![r] = "working"]
          /\ UNCHANGED <<db, groups, target, holds, mine, edits, status>>
      BY <1>2, <2>1 DEF Load
    <3> HIDE DEF loaded, row
    <3>4. obj' \in [Requests -> Object \cup {Nothing}]
      BY <3>2, <3>3 DEF TypeOK
    <3> QED
      BY <3>3, <3>4 DEF TypeOK
  <2>2. CASE ~(row # Nothing /\ Selectable(groups[r], row))
    BY <1>2, <2>2, AnswerType DEF Load
  <2> QED
    BY <2>1, <2>2
<1>3. ASSUME NEW r \in Requests, Create(r) PROVE TypeOK'
  <2>1. PICK perms \in Assigned :
          obj' = [obj EXCEPT ![r] =
                   [state |-> "new", id |-> r, cur |-> perms, orig |-> perms,
                    initial |-> InitialPerms(perms)]]
    BY <1>3 DEF Create
  <2>2. perms \in [Perms -> Slots]
    BY AssignedType
  <2>3. obj' \in [Requests -> Object \cup {Nothing}]
    BY <2>1, <2>2, InitialPermsType DEF TypeOK, Object
  <2> QED
    BY <1>3, <2>3 DEF TypeOK, Create
<1>4. ASSUME NEW r \in Requests, Assign(r) PROVE TypeOK'
  <2>1. obj[r] \in Object
    BY <1>4 DEF TypeOK, Assign, Working
  <2>2. PICK p \in Perms : \E slots \in Assignable[p] \cup {obj[r].cur[p]} :
          obj' = [obj EXCEPT
                    ![r].cur[p] = slots,
                    ![r].state = IF @ = "new" THEN "new" ELSE "dirty"]
    BY <1>4 DEF Assign
  <2>6. PICK slots \in Assignable[p] \cup {obj[r].cur[p]} :
          obj' = [obj EXCEPT
                    ![r].cur[p] = slots,
                    ![r].state = IF @ = "new" THEN "new" ELSE "dirty"]
    BY <2>2
  <2>3. slots \in Slots
    BY <2>1, SlotsAssumption DEF Object
  <2>4. obj' \in [Requests -> Object \cup {Nothing}]
    BY <2>1, <2>6, <2>3 DEF TypeOK, Object
  <2>5. edits' \in [Requests -> 0..MaxEdits]
    <3>1. edits[r] \in 0..MaxEdits /\ edits[r] < MaxEdits
      BY <1>4 DEF TypeOK, Assign
    <3>2. edits[r] + 1 \in 0..MaxEdits
      BY <3>1, EditsAssumption
    <3>3. edits' = [edits EXCEPT ![r] = edits[r] + 1]
      BY <1>4 DEF Assign
    <3> QED
      BY <3>2, <3>3 DEF TypeOK
  <2> QED
    BY <1>4, <2>4, <2>5 DEF TypeOK, Assign
<1>5. ASSUME NEW r \in Requests, MarkDeleted(r) PROVE TypeOK'
  <2>1. obj[r] \in Object
    BY <1>5 DEF TypeOK, MarkDeleted, Working
  <2>2. obj' \in [Requests -> Object \cup {Nothing}]
    BY <1>5, <2>1 DEF TypeOK, MarkDeleted, Object
  <2> QED
    BY <1>5, <2>2 DEF TypeOK, MarkDeleted
<1>6. ASSUME NEW r \in Requests, FlushInsert(r) PROVE TypeOK'
  <2> DEFINE row == [perms |-> obj[r].cur, id |-> r, writer |-> r, ever |-> {}]
  <2>1. obj[r] \in Object /\ obj[r] # Nothing
    BY <1>6 DEF TypeOK, FlushInsert, Working
  <2>2. row \in Row
    BY <2>1 DEF Object, Row
  <2> HIDE DEF row
  <2>3. UNCHANGED <<db, groups, target, edits>>
    BY <1>6 DEF FlushInsert
  <2>4. \/ Answer(r, "denied")
        \/ Answer(r, "conflict")
        \/ Save(r, row)
    BY <1>6 DEF FlushInsert, row
  <2> QED
    BY <2>1, <2>2, <2>3, <2>4, AnswerType, SaveType
<1>7. ASSUME NEW r \in Requests, FlushUpdate(r) PROVE TypeOK'
  <2>1. UNCHANGED <<db, groups, target, edits>> /\ obj[r] # Nothing
    BY <1>7 DEF FlushUpdate, Working
  <2>2. \/ Answer(r, "denied")
        \/ Answer(r, "error")
        \/ View(r) # Nothing /\ Save(r, Merged(r))
    BY <1>7 DEF FlushUpdate, SameRow
  <2> QED
    BY <2>1, <2>2, AnswerType, SaveType, MergedType
<1>8. ASSUME NEW r \in Requests, FlushDelete(r) PROVE TypeOK'
  <2>1. CASE ~CheckDelete(r)
    BY <1>8, <2>1, AnswerType DEF FlushDelete
  <2>2. CASE CheckDelete(r)
    <3>1. holds[r] \in BOOLEAN /\ SameRow(r) \in BOOLEAN
      BY DEF TypeOK, SameRow
    <3>2. holds' = [holds EXCEPT ![r] = holds[r] \/ SameRow(r)]
      BY <1>8, <2>2 DEF FlushDelete
    <3>3. holds' \in [Requests -> BOOLEAN]
      BY <3>1, <3>2, Zenon DEF TypeOK
    <3> QED
      BY <1>8, <2>2, <3>3 DEF FlushDelete, TypeOK
  <2> QED
    BY <2>1, <2>2
<1>9. ASSUME NEW r \in Requests, BulkUpdate(r) PROVE TypeOK'
  <2>3. PICK p \in Perms : \E slots \in Assignable[p] :
          Bulk(r, "update",
               [perms |-> [View(r).perms EXCEPT ![p] = slots],
                id |-> View(r).id, writer |-> r,
                ever |-> View(r).ever \cup Named(View(r).perms["write"])])
    BY <1>9 DEF BulkUpdate
  <2>1. PICK slots \in Assignable[p] :
          Bulk(r, "update",
               [perms |-> [View(r).perms EXCEPT ![p] = slots],
                id |-> View(r).id, writer |-> r,
                ever |-> View(r).ever \cup Named(View(r).perms["write"])])
    BY <2>3
  <2>2. View(r) # Nothing =>
          [perms |-> [View(r).perms EXCEPT ![p] = slots],
           id |-> View(r).id, writer |-> r,
           ever |-> View(r).ever \cup Named(View(r).perms["write"])] \in Row
    <3> SUFFICES ASSUME View(r) # Nothing
                 PROVE  [perms |-> [View(r).perms EXCEPT ![p] = slots],
                         id |-> View(r).id, writer |-> r,
                         ever |-> View(r).ever
                                  \cup Named(View(r).perms["write"])] \in Row
      OBVIOUS
    <3>1. View(r) \in Row
      BY ViewType
    <3>2. slots \in Slots
      BY SlotsAssumption
    <3>3. Named(View(r).perms["write"]) \in SUBSET Groups
      BY <3>1, NamedType DEF Row, Perms
    <3> QED
      BY <3>1, <3>2, <3>3 DEF Row
  <2> QED
    BY <2>1, <2>2, BulkType
<1>10. ASSUME NEW r \in Requests, BulkDelete(r) PROVE TypeOK'
  BY <1>10, BulkType DEF BulkDelete
<1>11. ASSUME NEW r \in Requests, Commit(r) PROVE TypeOK'
  <2>1. db' \in [Rows -> Row \cup {Nothing}]
    BY <1>11 DEF TypeOK, Commit
  <2>2. /\ phase' \in [Requests -> {"start", "working", "saved", "answered"}]
        /\ holds' \in [Requests -> BOOLEAN]
        /\ mine' \in [Requests -> Row \cup {Nothing}]
    BY <1>11 DEF TypeOK, Commit
  <2> QED
    BY <1>11, <2>1, <2>2 DEF TypeOK, Commit
<1>12. ASSUME NEW r \in Requests, Respond(r) PROVE TypeOK'
  <2>1. UNCHANGED <<db, groups, target, edits>>
    BY <1>12 DEF Respond
  <2>2. Answer(r, "ok") \/ Answer(r, "error")
    BY <1>12 DEF Respond
  <2> QED
    BY <2>1, <2>2, AnswerType
<1>13. ASSUME NEW r \in Requests, Crash(r) PROVE TypeOK'
  BY <1>13, AnswerType DEF Crash
<1>14. CASE Finished
  BY <1>14 DEF Finished, TypeOK, vars
<1> QED
  BY <1>1, <1>2, <1>3, <1>4, <1>5, <1>6, <1>7, <1>8, <1>9, <1>10, <1>11,
     <1>12, <1>13, <1>14 DEF Next, Handle

(* Every variable keeps its type: what the table and the mapped objects    *)
(* hold are rows and objects, whatever requests, groups and slots there    *)
(* are.                                                                    *)
THEOREM TypeCorrect == Spec => []TypeOK
<1> QED
  BY TypeInit, TypeNext, PTL DEF Spec

-----------------------------------------------------------------------------
(***************************************************************************)
(* Confined is not inductive: a flush is checked against permissions that  *)
(* were read earlier.  What makes it true is that the write slots a        *)
(* request remembers are part of the lineage of the row, the groups any    *)
(* version of it up to now named, and that a lineage only grows while the  *)
(* row keeps its id.                                                       *)
(***************************************************************************)
Lineage(row) == row.ever \cup Named(row.perms["write"])

(* Only a working request holds a row, and only one request at a time. *)
LockInv ==
  /\ \A r \in Requests : holds[r] => phase[r] = "working"
  /\ \A r \in Requests : mine[r] # Nothing => holds[r]
  /\ \A r, u \in Requests :
       holds[r] /\ holds[u] /\ target[r] = target[u] => r = u

(* An object that is not new remembers the permissions it was loaded or    *)
(* saved with; a new one has its creator's id and nothing in the table.    *)
ObjectInv ==
  \A r \in Requests :
    /\ phase[r] = "start" => obj[r] = Nothing
    /\ obj[r] # Nothing =>
         IF obj[r].state = "new"
           THEN obj[r].id = r /\ ~holds[r] /\ phase[r] = "working"
           ELSE obj[r].initial = InitialPerms(obj[r].orig)

(* The request has not given its id to a row yet. *)
Fresh(v) ==
  phase[v] = "start" \/ (obj[v] # Nothing /\ obj[v].state = "new")

FreshInv ==
  \A v \in Requests : Fresh(v) =>
    /\ \A o \in Rows : db[o] # Nothing => db[o].id # v
    /\ \A u \in Requests : mine[u] # Nothing => mine[u].id # v
    /\ \A u \in Requests \ {v} : obj[u] # Nothing => obj[u].id # v

(* An uncommitted version continues the committed one. *)
HeldInv ==
  \A u \in Requests :
    holds[u] /\ mine[u] # Nothing /\ db[target[u]] # Nothing
      /\ mine[u].id = db[target[u]].id
      => Lineage(db[target[u]]) \subseteq Lineage(mine[u])

(* Whatever version of the object's row the request may come to see, the   *)
(* write slots it remembers are in that version's lineage.                 *)
Remembered(r, row) ==
  row # Nothing /\ row.id = obj[r].id
    => Named(obj[r].orig["write"]) \subseteq Lineage(row)

LineageInv ==
  \A r \in Requests : obj[r] # Nothing /\ obj[r].state # "new" =>
    /\ Remembered(r, View(r))
    /\ \A u \in Requests :
         ~holds[r] /\ holds[u] /\ target[u] = target[r]
           => Remembered(r, mine[u])

ConfinedRow(row) ==
  row # Nothing /\ row.writer \in Requests =>
    \/ row.writer = row.id
    \/ root \in groups[row.writer]
    \/ groups[row.writer] \cap row.ever # {}

ConfinedInv ==
  /\ \A o \in Rows : ConfinedRow(db[o])
  /\ \A r \in Requests : ConfinedRow(mine[r])

IInv ==
  TypeOK /\ LockInv /\ ObjectInv /\ FreshInv /\ HeldInv /\ LineageInv
  /\ ConfinedInv

-----------------------------------------------------------------------------
(* IInv holds at the start and every kind of step preserves it.            *)

LEMMA IInvInit == Init => IInv
<1> SUFFICES ASSUME Init PROVE IInv
  OBVIOUS
<1>1. \A o \in Rows : db[o] # Nothing =>
        db[o].id \notin Requests /\ db[o].writer \notin Requests
  BY IdsAssumption DEF Init, SeedRow
<1>2. LockInv /\ ObjectInv /\ HeldInv /\ LineageInv
  BY DEF Init, LockInv, ObjectInv, HeldInv, LineageInv
<1>3. FreshInv
  BY <1>1 DEF Init, FreshInv
<1>4. ConfinedInv
  BY <1>1 DEF Init, ConfinedInv, ConfinedRow
<1> QED
  BY TypeInit, <1>2, <1>3, <1>4 DEF IInv

(* A request that is answered gives up its row and its object. *)
LEMMA AnswerStep ==
  ASSUME IInv, NEW r \in Requests, NEW what, Answer(r, what),
         UNCHANGED <<db, groups, target, edits>>
  PROVE  /\ LockInv' /\ ObjectInv' /\ FreshInv'
         /\ HeldInv' /\ LineageInv' /\ ConfinedInv'
<1> USE DEF IInv, TypeOK
<1>1. /\ phase'[r] = "answered" /\ ~holds'[r] /\ mine'[r] = Nothing
      /\ obj'[r] = Nothing
  BY DEF Answer
<1>2. \A u \in Requests \ {r} : /\ phase'[u] = phase[u] /\ holds'[u] = holds[u]
                               /\ mine'[u] = mine[u] /\ obj'[u] = obj[u]
  BY DEF Answer
<1> HIDE DEF IInv, TypeOK
<1>3. LockInv'
  BY <1>1, <1>2 DEF IInv, LockInv
<1>4. ObjectInv'
  BY <1>1, <1>2 DEF IInv, ObjectInv
<1>5. FreshInv'
  BY <1>1, <1>2 DEF IInv, FreshInv, Fresh
<1>6. HeldInv'
  BY <1>1, <1>2 DEF IInv, HeldInv, Lineage
<1>7. LineageInv'
  <2> SUFFICES ASSUME NEW u \in Requests, obj'[u] # Nothing,
                      obj'[u].state # "new"
               PROVE  /\ Remembered(u, View(u))'
                      /\ \A v \in Requests :
                           ~holds'[u] /\ holds'[v] /\ target'[v] = target'[u]
                             => Remembered(u, mine[v])'
    BY DEF LineageInv
  <2>1. u # r /\ obj[u] # Nothing /\ obj[u].state # "new"
    BY <1>1, <1>2
  <2>2. View(u)' = View(u)
    BY <1>2, <2>1 DEF View
  <2> QED
    BY <1>1, <1>2, <2>1, <2>2 DEF IInv, LineageInv, Remembered, Lineage
<1>8. ConfinedInv'
  BY <1>1, <1>2 DEF IInv, ConfinedInv, ConfinedRow
<1> QED
  BY <1>3, <1>4, <1>5, <1>6, <1>7, <1>8

(* What a version must be, of the table and of the other requests, for a   *)
(* transaction to write it: it continues the row, or starts a new one.     *)
Continues(r, version) ==
  /\ ConfinedRow(version)
  /\ \A v \in Requests : Fresh(v) /\ v # r => version.id # v
  /\ LET row == db[target[r]]
     IN  row # Nothing /\ version.id = row.id
           => Lineage(row) \subseteq Lineage(version)
  /\ \A u \in Requests \ {r} :
       obj[u] # Nothing /\ obj[u].state # "new" /\ target[u] = target[r]
         => Remembered(u, version)

(* A version built on the one in view, of the same row, by somebody in the *)
(* lineage of that view, continues the row.                                *)
LEMMA GrowthContinues ==
  ASSUME IInv, NEW r \in Requests, RowFree(r), View(r) # Nothing,
         NEW version \in Row, version.id = View(r).id,
         Lineage(View(r)) \subseteq version.ever,
         ConfinedRow(version)
  PROVE  Continues(r, version)
<1> DEFINE row == db[target[r]]
<1>1. Lineage(View(r)) \subseteq Lineage(version)
  BY DEF Lineage
<1>2. View(r) = IF holds[r] THEN mine[r] ELSE row
  BY DEF View
<1>3. \A v \in Requests : Fresh(v) /\ v # r => version.id # v
  BY <1>2 DEF IInv, FreshInv, TypeOK
<1>4. row # Nothing /\ version.id = row.id => Lineage(row) \subseteq Lineage(version)
  BY <1>1, <1>2 DEF IInv, HeldInv
<1>5. ASSUME NEW u \in Requests \ {r}, obj[u] # Nothing,
             obj[u].state # "new", target[u] = target[r]
      PROVE  Remembered(u, version)
  <2>1. ~holds[u]
    BY <1>5 DEF RowFree
  <2>2. View(u) = row
    BY <1>5, <2>1 DEF View
  <2>3. Remembered(u, View(r))
    BY <1>2, <1>5, <2>1, <2>2 DEF IInv, LineageInv
  <2> QED
    BY <1>1, <2>3 DEF Remembered
<1> QED
  BY <1>3, <1>4, <1>5 DEF Continues

(* A flush that writes a version which continues the row. *)
LEMMA SaveStep ==
  ASSUME IInv, NEW r \in Requests, Working(r), RowFree(r),
         NEW version \in Row, Continues(r, version),
         version.id = obj[r].id,
         Named(obj[r].cur["write"]) \subseteq Lineage(version),
         Save(r, version), UNCHANGED <<db, groups, target, edits>>
  PROVE  /\ LockInv' /\ ObjectInv' /\ FreshInv'
         /\ HeldInv' /\ LineageInv' /\ ConfinedInv'
<1> DEFINE saved == [state |-> "clean", id |-> obj[r].id,
                     cur |-> obj[r].cur, orig |-> obj[r].cur,
                     initial |-> InitialPerms(obj[r].cur)]
<1>1. /\ phase' = phase /\ holds'[r] /\ mine'[r] = version /\ obj'[r] = saved
      /\ phase[r] = "working" /\ obj[r] # Nothing
  BY DEF IInv, TypeOK, Save, Working
<1>2. \A u \in Requests \ {r} : /\ holds'[u] = holds[u] /\ mine'[u] = mine[u]
                               /\ obj'[u] = obj[u]
  BY DEF IInv, TypeOK, Save
<1>3. /\ saved.state = "clean" /\ saved.id = obj[r].id
      /\ saved.orig = obj[r].cur /\ saved.initial = InitialPerms(obj[r].cur)
  OBVIOUS
<1>4. \A v \in Requests : Fresh(v)' => Fresh(v) /\ v # r
  BY <1>1, <1>2, <1>3 DEF Fresh
<1> HIDE DEF saved
<1>5. LockInv'
  BY <1>1, <1>2 DEF IInv, LockInv, RowFree, Save
<1>6. ObjectInv'
  BY <1>1, <1>2, <1>3 DEF IInv, ObjectInv
<1>7. FreshInv'
  <2> SUFFICES ASSUME NEW v \in Requests, Fresh(v)'
               PROVE  /\ \A o \in Rows : db'[o] # Nothing => db'[o].id # v
                      /\ \A u \in Requests : mine'[u] # Nothing => mine'[u].id # v
                      /\ \A u \in Requests \ {v} : obj'[u] # Nothing => obj'[u].id # v
    BY DEF FreshInv
  <2>1. Fresh(v) /\ v # r
    BY <1>4
  <2>2. version.id # v
    BY <2>1 DEF Continues
  <2> QED
    BY <1>1, <1>2, <1>3, <2>1, <2>2 DEF IInv, FreshInv
<1>8. HeldInv'
  <2> SUFFICES ASSUME NEW u \in Requests, holds'[u], mine'[u] # Nothing,
                      db'[target'[u]] # Nothing,
                      mine'[u].id = db'[target'[u]].id
               PROVE  Lineage(db'[target'[u]]) \subseteq Lineage(mine'[u])
    BY DEF HeldInv, Lineage
  <2>1. CASE u = r
    BY <1>1, <2>1 DEF Continues
  <2>2. CASE u # r
    BY <1>2, <2>2 DEF IInv, HeldInv
  <2> QED
    BY <2>1, <2>2
<1>9. LineageInv'
  <2> SUFFICES ASSUME NEW u \in Requests, obj'[u] # Nothing,
                      obj'[u].state # "new"
               PROVE  /\ Remembered(u, View(u))'
                      /\ \A v \in Requests :
                           ~holds'[u] /\ holds'[v] /\ target'[v] = target'[u]
                             => Remembered(u, mine[v])'
    BY DEF LineageInv
  <2>1. CASE u = r
    <3>1. View(r)' = version
      BY <1>1 DEF View
    <3>2. Remembered(r, View(r))'
      BY <1>1, <1>3, <3>1 DEF Remembered, Lineage
    <3> QED
      BY <1>1, <2>1, <3>2
  <2>2. CASE u # r
    <3>1. View(u)' = View(u) /\ obj'[u] = obj[u] /\ holds'[u] = holds[u]
      BY <1>2, <2>2 DEF View
    <3>2. Remembered(u, View(u))'
      BY <3>1 DEF IInv, LineageInv, Remembered, Lineage
    <3>3. ASSUME NEW v \in Requests, ~holds'[u], holds'[v],
                 target'[v] = target'[u]
          PROVE  Remembered(u, mine[v])'
      <4>1. CASE v = r
        <5>1. Remembered(u, version)
          BY <2>2, <3>1, <3>3, <4>1 DEF Continues
        <5> QED
          BY <1>1, <3>1, <4>1, <5>1 DEF Remembered, Lineage
      <4>2. CASE v # r
        BY <1>2, <3>1, <3>3, <4>2 DEF IInv, LineageInv, Remembered, Lineage
      <4> QED
        BY <4>1, <4>2
    <3> QED
      BY <3>2, <3>3
  <2> QED
    BY <2>1, <2>2
<1>10. ConfinedInv'
  <2>1. ConfinedRow(version)'
    BY DEF Continues, ConfinedRow
  <2> QED
    BY <1>1, <1>2, <2>1 DEF IInv, ConfinedInv, ConfinedRow
<1> QED
  BY <1>5, <1>6, <1>7, <1>8, <1>9, <1>10

(* A bulk statement writes a version that continues the row, or nothing.   *)
LEMMA BulkStep ==
  ASSUME IInv, NEW r \in Requests, NEW action \in {"update", "delete"},
         NEW version, Bulk(r, action, version),
         holds'[r] => version = Nothing
                      \/ (version \in Row /\ Continues(r, version))
  PROVE  /\ LockInv' /\ ObjectInv' /\ FreshInv'
         /\ HeldInv' /\ LineageInv' /\ ConfinedInv'
<1>1. /\ phase[r] = "start" /\ phase'[r] = "working" /\ obj[r] = Nothing
      /\ mine'[r] = (IF holds'[r] THEN version ELSE Nothing)
      /\ UNCHANGED <<db, groups, target, obj, edits>>
      /\ RowFree(r)
  BY DEF IInv, TypeOK, ObjectInv, Bulk
<1>2. \A u \in Requests \ {r} : /\ holds'[u] = holds[u] /\ mine'[u] = mine[u]
                               /\ phase'[u] = phase[u]
  BY DEF IInv, TypeOK, Bulk
<1>4. \A v \in Requests : Fresh(v)' => Fresh(v) /\ v # r
  BY <1>1, <1>2 DEF Fresh
<1>5. LockInv'
  BY <1>1, <1>2 DEF IInv, LockInv, RowFree
<1>6. ObjectInv'
  BY <1>1, <1>2 DEF IInv, ObjectInv
<1>7. FreshInv'
  <2> SUFFICES ASSUME NEW v \in Requests, Fresh(v)'
               PROVE  /\ \A o \in Rows : db'[o] # Nothing => db'[o].id # v
                      /\ \A u \in Requests : mine'[u] # Nothing => mine'[u].id # v
                      /\ \A u \in Requests \ {v} : obj'[u] # Nothing => obj'[u].id # v
    BY DEF FreshInv
  <2>1. Fresh(v) /\ v # r
    BY <1>4
  <2>2. mine'[r] # Nothing => mine'[r].id # v
    BY <1>1, <2>1 DEF Continues
  <2> QED
    BY <1>1, <1>2, <2>1, <2>2 DEF IInv, FreshInv
<1>8. HeldInv'
  <2> SUFFICES ASSUME NEW u \in Requests, holds'[u], mine'[u] # Nothing,
                      db'[target'[u]] # Nothing,
                      mine'[u].id = db'[target'[u]].id
               PROVE  Lineage(db'[target'[u]]) \subseteq Lineage(mine'[u])
    BY DEF HeldInv, Lineage
  <2>1. CASE u = r
    BY <1>1, <2>1 DEF Continues
  <2>2. CASE u # r
    BY <1>1, <1>2, <2>2 DEF IInv, HeldInv
  <2> QED
    BY <2>1, <2>2
<1>9. LineageInv'
  <2> SUFFICES ASSUME NEW u \in Requests, obj'[u] # Nothing,
                      obj'[u].state # "new"
               PROVE  /\ Remembered(u, View(u))'
                      /\ \A v \in Requests :
                           ~holds'[u] /\ holds'[v] /\ target'[v] = target'[u]
                             => Remembered(u, mine[v])'
    BY DEF LineageInv
  <2>1. u # r /\ obj'[u] = obj[u]
    BY <1>1
  <2>2. View(u)' = View(u) /\ holds'[u] = holds[u]
    BY <1>1, <1>2, <2>1 DEF View
  <2>3. Remembered(u, View(u))'
    BY <2>1, <2>2 DEF IInv, LineageInv, Remembered, Lineage
  <2>4. ASSUME NEW v \in Requests, ~holds'[u], holds'[v],
               target'[v] = target'[u]
        PROVE  Remembered(u, mine[v])'
    <3>1. CASE v = r
      <4>1. version = Nothing \/ Remembered(u, version)
        BY <1>1, <2>1, <2>4, <3>1 DEF Continues
      <4> QED
        BY <1>1, <2>1, <2>4, <3>1, <4>1 DEF Remembered, Lineage
    <3>2. CASE v # r
      BY <1>1, <1>2, <2>1, <2>2, <2>4, <3>2
         DEF IInv, LineageInv, Remembered, Lineage
    <3> QED
      BY <3>1, <3>2
  <2> QED
    BY <2>3, <2>4
<1>10. ConfinedInv'
  <2>1. ConfinedRow(mine[r])'
    BY <1>1 DEF Continues, ConfinedRow
  <2> QED
    BY <1>1, <1>2, <2>1 DEF IInv, ConfinedInv, ConfinedRow
<1> QED
  BY <1>5, <1>6, <1>7, <1>8, <1>9, <1>10

(* The request loads the row: it remembers what the table holds. *)
LEMMA LoadStep ==
  ASSUME IInv, NEW r \in Requests, Load(r)
  PROVE  /\ LockInv' /\ ObjectInv' /\ FreshInv'
         /\ HeldInv' /\ LineageInv' /\ ConfinedInv'
<1> DEFINE row == db[target[r]]
           loaded == [state |-> "clean", id |-> row.id, cur |-> row.perms,
                      orig |-> row.perms, initial |-> InitialPerms(row.perms)]
<1>1. CASE ~(row # Nothing /\ Selectable(groups[r], row))
  BY <1>1, AnswerStep DEF Load
<1>2. CASE row # Nothing /\ Selectable(groups[r], row)
  <2>1. /\ phase[r] = "start" /\ ~holds[r] /\ obj[r] = Nothing
        /\ phase'[r] = "working" /\ obj'[r] = loaded
        /\ UNCHANGED <<db, groups, target, holds, mine>>
    <3>1. /\ phase[r] = "start"
          /\ obj' = [obj EXCEPT ![r] = loaded]
          /\ phase' = [phase EXCEPT ![r] = "working"]
          /\ UNCHANGED <<db, groups, target, holds, mine>>
      BY <1>2 DEF Load
    <3> HIDE DEF loaded, row
    <3>2. obj'[r] = loaded /\ phase'[r] = "working"
      BY <3>1 DEF IInv, TypeOK
    <3>3. ~holds[r] /\ obj[r] = Nothing
      BY <3>1 DEF IInv, LockInv, ObjectInv
    <3> QED
      BY <3>1, <3>2, <3>3
  <2>2. \A u \in Requests \ {r} : phase'[u] = phase[u] /\ obj'[u] = obj[u]
    BY <1>2 DEF IInv, TypeOK, Load
  <2>3. /\ loaded.state = "clean" /\ loaded.id = row.id
        /\ loaded.orig = row.perms /\ loaded.initial = InitialPerms(row.perms)
    OBVIOUS
  <2>4. target[r] \in Rows
    BY DEF IInv, TypeOK
  <2> HIDE DEF loaded
  <2>5. LockInv'
    BY <2>1, <2>2 DEF IInv, LockInv
  <2>6. ObjectInv'
    BY <2>1, <2>2, <2>3 DEF IInv, ObjectInv
  <2>7. FreshInv'
    BY <1>2, <2>1, <2>2, <2>3, <2>4 DEF IInv, FreshInv, Fresh
  <2>8. HeldInv'
    BY <2>1 DEF IInv, HeldInv, Lineage
  <2>9. LineageInv'
    <3> SUFFICES ASSUME NEW u \in Requests, obj'[u] # Nothing,
                        obj'[u].state # "new"
                 PROVE  /\ Remembered(u, View(u))'
                        /\ \A v \in Requests :
                             ~holds'[u] /\ holds'[v] /\ target'[v] = target'[u]
                               => Remembered(u, mine[v])'
      BY DEF LineageInv
    <3>1. CASE u = r
      <4>1. View(r)' = row
        BY <2>1 DEF View
      <4>2. Named(row.perms["write"]) \subseteq Lineage(row)
        BY DEF Lineage
      <4>3. Remembered(r, View(r))'
        BY <2>1, <2>3, <4>1, <4>2 DEF Remembered, Lineage
      <4>4. ASSUME NEW v \in Requests, holds'[v], target'[v] = target'[r],
                   mine'[v] # Nothing, mine'[v].id = row.id
            PROVE  Named(row.perms["write"]) \subseteq Lineage(mine[v])
        BY <1>2, <2>1, <4>2, <4>4 DEF IInv, HeldInv
      <4> QED
        BY <2>1, <2>3, <3>1, <4>3, <4>4 DEF Remembered, Lineage
    <3>2. CASE u # r
      <4>1. View(u)' = View(u) /\ obj'[u] = obj[u]
        BY <2>1, <2>2, <3>2 DEF View
      <4> QED
        BY <2>1, <4>1 DEF IInv, LineageInv, Remembered, Lineage
    <3> QED
      BY <3>1, <3>2
  <2>10. ConfinedInv'
    BY <2>1 DEF IInv, ConfinedInv, ConfinedRow
  <2> QED
    BY <2>5, <2>6, <2>7, <2>8, <2>9, <2>10
<1> QED
  BY <1>1, <1>2

(* Steps that change only the object of r, and not what it remembers.      *)
LEMMA ObjectStep ==
  ASSUME IInv, NEW r \in Requests,
         UNCHANGED <<db, groups, target, holds, mine>>,
         obj' = [obj EXCEPT ![r] = obj'[r]],
         \A u \in Requests : phase'[u] = phase[u]
           \/ (u = r /\ phase[r] = "start" /\ phase'[r] = "working"),
         phase'[r] = "working",
         obj'[r] # Nothing =>
           IF obj'[r].state = "new"
             THEN obj'[r].id = r /\ Fresh(r) /\ ~holds[r]
             ELSE /\ obj[r] # Nothing /\ obj[r].state # "new"
                  /\ obj'[r].id = obj[r].id /\ obj'[r].orig = obj[r].orig
                  /\ obj'[r].initial = obj[r].initial
  PROVE  /\ LockInv' /\ ObjectInv' /\ FreshInv'
         /\ HeldInv' /\ LineageInv' /\ ConfinedInv'
<1>1. \A u \in Requests \ {r} : obj'[u] = obj[u] /\ phase'[u] = phase[u]
  BY DEF IInv, TypeOK
<1>2. LockInv'
  BY DEF IInv, LockInv
<1>3. ObjectInv'
  BY <1>1 DEF IInv, ObjectInv
<1>4. FreshInv'
  <2>1. \A v \in Requests : Fresh(v)' => Fresh(v)
    BY <1>1 DEF Fresh
  <2>2. ASSUME NEW v \in Requests, Fresh(v)', NEW u \in Requests \ {v},
               obj'[u] # Nothing
        PROVE  obj'[u].id # v
    BY <1>1, <2>1, <2>2 DEF IInv, FreshInv
  <2> QED
    BY <2>1, <2>2 DEF IInv, FreshInv
<1>5. HeldInv'
  BY DEF IInv, HeldInv, Lineage
<1>6. LineageInv'
  <2> SUFFICES ASSUME NEW u \in Requests, obj'[u] # Nothing,
                      obj'[u].state # "new"
               PROVE  /\ Remembered(u, View(u))'
                      /\ \A v \in Requests :
                           ~holds'[u] /\ holds'[v] /\ target'[v] = target'[u]
                             => Remembered(u, mine[v])'
    BY DEF LineageInv
  <2>1. /\ obj[u] # Nothing /\ obj[u].state # "new"
        /\ obj'[u].id = obj[u].id /\ obj'[u].orig = obj[u].orig
    BY <1>1
  <2>2. View(u)' = View(u)
    BY DEF View
  <2> QED
    BY <2>1, <2>2 DEF IInv, LineageInv, Remembered, Lineage
<1>7. ConfinedInv'
  BY DEF IInv, ConfinedInv, ConfinedRow
<1> QED
  BY <1>2, <1>3, <1>4, <1>5, <1>6, <1>7

(* A delete leaves no version and no object. *)
LEMMA FlushDeleteStep ==
  ASSUME IInv, NEW r \in Requests, FlushDelete(r)
  PROVE  /\ LockInv' /\ ObjectInv' /\ FreshInv'
         /\ HeldInv' /\ LineageInv' /\ ConfinedInv'
<1>1. CASE ~CheckDelete(r)
  BY <1>1, AnswerStep DEF FlushDelete
<1>2. CASE CheckDelete(r)
  <2>1. /\ phase' = phase /\ phase[r] = "working" /\ RowFree(r)
        /\ mine'[r] = Nothing /\ obj'[r] = Nothing
        /\ UNCHANGED <<db, groups, target>>
    BY <1>2 DEF IInv, TypeOK, FlushDelete, Working
  <2>2. \A u \in Requests \ {r} : /\ holds'[u] = holds[u]
                                 /\ mine'[u] = mine[u] /\ obj'[u] = obj[u]
    BY <1>2 DEF IInv, TypeOK, FlushDelete
  <2>3. LockInv'
    BY <2>1, <2>2 DEF IInv, LockInv, RowFree
  <2>4. ObjectInv'
    BY <2>1, <2>2 DEF IInv, ObjectInv
  <2>5. FreshInv'
    BY <2>1, <2>2 DEF IInv, FreshInv, Fresh
  <2>6. HeldInv'
    BY <2>1, <2>2 DEF IInv, HeldInv, Lineage
  <2>7. LineageInv'
    <3> SUFFICES ASSUME NEW u \in Requests, obj'[u] # Nothing,
                        obj'[u].state # "new"
                 PROVE  /\ Remembered(u, View(u))'
                        /\ \A v \in Requests :
                             ~holds'[u] /\ holds'[v] /\ target'[v] = target'[u]
                               => Remembered(u, mine[v])'
      BY DEF LineageInv
    <3>1. u # r /\ obj'[u] = obj[u] /\ holds'[u] = holds[u]
      BY <2>1, <2>2
    <3>2. View(u)' = View(u)
      BY <2>1, <2>2, <3>1 DEF View
    <3> QED
      BY <2>1, <2>2, <3>1, <3>2 DEF IInv, LineageInv, Remembered, Lineage
  <2>8. ConfinedInv'
    BY <2>1, <2>2 DEF IInv, ConfinedInv, ConfinedRow
  <2> QED
    BY <2>3, <2>4, <2>5, <2>6, <2>7, <2>8
<1> QED
  BY <1>1, <1>2

(* A commit puts the version r holds in the table: the requests that look  *)
(* at the row see it from now on.                                          *)
LEMMA CommitStep ==
  ASSUME IInv, NEW r \in Requests, Commit(r)
  PROVE  /\ LockInv' /\ ObjectInv' /\ FreshInv'
         /\ HeldInv' /\ LineageInv' /\ ConfinedInv'
<1>1. /\ phase[r] = "working" /\ phase'[r] = "saved"
      /\ ~holds'[r] /\ mine'[r] = Nothing
      /\ UNCHANGED <<groups, target, obj>>
      /\ obj[r] # Nothing => obj[r].state = "clean"
  BY DEF IInv, TypeOK, Commit
<1>2. \A u \in Requests \ {r} : /\ holds'[u] = holds[u] /\ mine'[u] = mine[u]
                               /\ phase'[u] = phase[u]
  BY DEF IInv, TypeOK, Commit
<1>3. db'[target[r]] = IF holds[r] THEN mine[r] ELSE db[target[r]]
  BY DEF IInv, TypeOK, Commit
<1>4. \A o \in Rows \ {target[r]} : db'[o] = db[o]
  BY DEF IInv, TypeOK, Commit
<1>5. LockInv'
  BY <1>1, <1>2 DEF IInv, LockInv
<1>6. ObjectInv'
  BY <1>1, <1>2 DEF IInv, ObjectInv
<1>7. FreshInv'
  BY <1>1, <1>2, <1>3, <1>4 DEF IInv, FreshInv, Fresh
<1>8. HeldInv'
  <2> SUFFICES ASSUME NEW u \in Requests, holds'[u], mine'[u] # Nothing,
                      db'[target'[u]] # Nothing,
                      mine'[u].id = db'[target'[u]].id
               PROVE  Lineage(db'[target'[u]]) \subseteq Lineage(mine'[u])
    BY DEF HeldInv, Lineage
  <2>1. u # r /\ holds[u] /\ mine'[u] = mine[u] /\ target[u] \in Rows
    BY <1>1, <1>2 DEF IInv, TypeOK
  <2>2. db'[target[u]] = db[target[u]]
    <3>1. CASE target[u] = target[r]
      BY <1>3, <2>1, <3>1 DEF IInv, LockInv
    <3>2. CASE target[u] # target[r]
      BY <1>4, <2>1, <3>2
    <3> QED
      BY <3>1, <3>2
  <2> QED
    BY <1>1, <2>1, <2>2 DEF IInv, HeldInv
<1>9. LineageInv'
  <2> SUFFICES ASSUME NEW u \in Requests, obj'[u] # Nothing,
                      obj'[u].state # "new"
               PROVE  /\ Remembered(u, View(u))'
                      /\ \A v \in Requests :
                           ~holds'[u] /\ holds'[v] /\ target'[v] = target'[u]
                             => Remembered(u, mine[v])'
    BY DEF LineageInv
  <2>1. obj[u] = obj'[u] /\ target[u] \in Rows
    BY <1>1 DEF IInv, TypeOK
  <2>2. Remembered(u, View(u))'
    <3>1. CASE u = r
      <4>1. View(u)' = View(u)
        BY <1>1, <1>3, <3>1 DEF View
      <4> QED
        BY <2>1, <4>1 DEF IInv, LineageInv, Remembered, Lineage
    <3>2. CASE u # r /\ target[u] # target[r]
      <4>1. View(u)' = View(u)
        BY <1>1, <1>2, <1>4, <2>1, <3>2 DEF View
      <4> QED
        BY <2>1, <4>1 DEF IInv, LineageInv, Remembered, Lineage
    <3>3. CASE u # r /\ target[u] = target[r]
      <4>1. View(u)' = View(u) \/ (holds[r] /\ ~holds[u] /\ View(u)' = mine[r])
        BY <1>1, <1>2, <1>3, <2>1, <3>3 DEF IInv, LockInv, View
      <4> QED
        BY <2>1, <3>3, <4>1 DEF IInv, LineageInv, Remembered, Lineage
    <3> QED
      BY <3>1, <3>2, <3>3
  <2>3. ASSUME NEW v \in Requests, ~holds'[u], holds'[v],
               target'[v] = target'[u]
        PROVE  Remembered(u, mine[v])'
    <3>1. v # r /\ holds[v] /\ mine'[v] = mine[v]
      BY <1>1, <1>2, <2>3
    <3>2. ~holds[u]
      BY <1>1, <1>2, <2>3, <3>1 DEF IInv, LockInv
    <3> QED
      BY <1>1, <2>1, <2>3, <3>1, <3>2 DEF IInv, LineageInv, Remembered, Lineage
  <2> QED
    BY <2>2, <2>3
<1>10. ConfinedInv'
  BY <1>1, <1>2, <1>3, <1>4 DEF IInv, ConfinedInv, ConfinedRow
<1> QED
  BY <1>5, <1>6, <1>7, <1>8, <1>9, <1>10

(* An insert that is allowed starts a row nobody has seen. *)
LEMMA FlushInsertStep ==
  ASSUME IInv, NEW r \in Requests, FlushInsert(r)
  PROVE  /\ LockInv' /\ ObjectInv' /\ FreshInv'
         /\ HeldInv' /\ LineageInv' /\ ConfinedInv'
<1> DEFINE row == [perms |-> obj[r].cur, id |-> r, writer |-> r, ever |-> {}]
<1>1. /\ Working(r) /\ obj[r] # Nothing /\ obj[r].state = "new"
      /\ UNCHANGED <<db, groups, target, edits>>
  BY DEF FlushInsert, Working
<1>2. \/ Answer(r, "denied")
      \/ Answer(r, "conflict")
      \/ RowFree(r) /\ View(r) = Nothing /\ Save(r, row)
  BY DEF FlushInsert
<1>3. ASSUME RowFree(r), View(r) = Nothing, Save(r, row)
      PROVE  /\ LockInv' /\ ObjectInv' /\ FreshInv'
             /\ HeldInv' /\ LineageInv' /\ ConfinedInv'
  <2>1. obj[r] \in Object /\ obj[r].id = r /\ ~holds[r] /\ Fresh(r)
    BY <1>1 DEF IInv, TypeOK, ObjectInv, Fresh
  <2>2. row \in Row
    BY <2>1 DEF Object, Row
  <2>3. row.id = r /\ row.writer = r /\ row.perms = obj[r].cur
    OBVIOUS
  <2> HIDE DEF row
  <2>4. db[target[r]] = Nothing
    BY <1>3, <2>1 DEF View
  <2>5. ASSUME NEW u \in Requests \ {r}, obj[u] # Nothing
        PROVE  Remembered(u, row)
    BY <2>1, <2>3, <2>5 DEF IInv, FreshInv, Remembered
  <2>6. Continues(r, row)
    BY <2>3, <2>4, <2>5 DEF Continues, ConfinedRow
  <2>7. Named(obj[r].cur["write"]) \subseteq Lineage(row)
    BY <2>3 DEF Lineage
  <2> QED
    BY <1>1, <1>3, <2>1, <2>2, <2>3, <2>6, <2>7, SaveStep
<1> QED
  BY <1>1, <1>2, <1>3, AnswerStep

(* What the object has in its write slots is in the lineage of the merged  *)
(* row: a slot the request changed is in the row, another was remembered.  *)
LEMMA MergedLineage ==
  ASSUME IInv, NEW r \in Requests, obj[r] # Nothing, obj[r].state # "new",
         SameRow(r)
  PROVE  Named(obj[r].cur["write"]) \subseteq Lineage(Merged(r))
<1> DEFINE cur == obj[r].cur["write"]
           orig == obj[r].orig["write"]
           merged == Merged(r).perms["write"]
<1>1. Named(orig) \subseteq Merged(r).ever
  BY DEF IInv, LineageInv, Remembered, SameRow, Lineage, Merged
<1>2. \A i \in 1..MaxPermissions : cur[i] # orig[i] => merged[i] = cur[i]
  BY DEF Merged, Perms
<1>3. \A i \in 1..MaxPermissions : cur[i] # Nothing =>
        cur[i] \in Named(orig) \cup Named(merged)
  BY <1>2 DEF Named
<1>4. Named(cur) \subseteq Named(orig) \cup Named(merged)
  BY <1>3 DEF Named
<1> QED
  BY <1>1, <1>4 DEF Lineage

(* An update that is allowed is made by somebody in the row's lineage.     *)
LEMMA FlushUpdateStep ==
  ASSUME IInv, NEW r \in Requests, FlushUpdate(r)
  PROVE  /\ LockInv' /\ ObjectInv' /\ FreshInv'
         /\ HeldInv' /\ LineageInv' /\ ConfinedInv'
<1>1. /\ Working(r) /\ obj[r] # Nothing /\ obj[r].state = "dirty"
      /\ UNCHANGED <<db, groups, target, edits>>
  BY DEF FlushUpdate, Working
<1>2. \/ Answer(r, "denied")
      \/ Answer(r, "error")
      \/ CheckUpdate(r) /\ RowFree(r) /\ SameRow(r) /\ Save(r, Merged(r))
  BY DEF FlushUpdate
<1>3. ASSUME CheckUpdate(r), RowFree(r), SameRow(r), Save(r, Merged(r))
      PROVE  /\ LockInv' /\ ObjectInv' /\ FreshInv'
             /\ HeldInv' /\ LineageInv' /\ ConfinedInv'
  <2>1. Merged(r) \in Row
    BY <1>1, <1>3, MergedType DEF IInv, SameRow
  <2>2. /\ Merged(r).id = obj[r].id /\ Merged(r).id = View(r).id
        /\ Merged(r).writer = r /\ Merged(r).ever = Lineage(View(r))
    BY <1>3 DEF Merged, SameRow, Lineage
  <2>3. Named(obj[r].orig["write"]) \subseteq Merged(r).ever
    BY <1>1, <1>3, <2>2 DEF IInv, LineageInv, Remembered, SameRow
  <2>4. obj[r].initial["write"] = Named(obj[r].orig["write"])
    BY <1>1 DEF IInv, ObjectInv, InitialPerms, Perms
  <2>5. root \in groups[r] \/ groups[r] \cap obj[r].initial["write"] # {}
    BY <1>3 DEF CheckUpdate, Allows
  <2>6. ConfinedRow(Merged(r))
    BY <2>2, <2>3, <2>4, <2>5 DEF ConfinedRow
  <2>7. Continues(r, Merged(r))
    BY <1>3, <2>1, <2>2, <2>6, GrowthContinues DEF SameRow
  <2>8. Named(obj[r].cur["write"]) \subseteq Lineage(Merged(r))
    BY <1>1, <1>3, MergedLineage
  <2> QED
    BY <1>1, <1>3, <2>1, <2>2, <2>7, <2>8, SaveStep
<1> QED
  BY <1>1, <1>2, <1>3, AnswerStep

LEMMA BulkUpdateStep ==
  ASSUME IInv, NEW r \in Requests, BulkUpdate(r)
  PROVE  /\ LockInv' /\ ObjectInv' /\ FreshInv'
         /\ HeldInv' /\ LineageInv' /\ ConfinedInv'
<1> DEFINE version(p, slots) ==
             [perms |-> [View(r).perms EXCEPT ![p] = slots],
              id |-> View(r).id, writer |-> r,
              ever |-> View(r).ever \cup Named(View(r).perms["write"])]
<1>1. PICK p \in Perms : \E slots \in Assignable[p] :
        Bulk(r, "update", version(p, slots))
  BY DEF BulkUpdate
<1>2. PICK slots \in Assignable[p] : Bulk(r, "update", version(p, slots))
  BY <1>1
<1> DEFINE row == version(p, slots)
<1>3. /\ row.id = View(r).id /\ row.writer = r /\ row.ever = Lineage(View(r))
      /\ row.perms = [View(r).perms EXCEPT ![p] = slots]
  BY DEF Lineage
<1>4. ASSUME holds'[r] PROVE row \in Row /\ Continues(r, row)
  <2>1. /\ View(r) # Nothing /\ RowFree(r)
        /\ Allows(groups[r], "update", Named(View(r).perms["write"]))
    BY <1>2, <1>4 DEF Bulk, IInv, TypeOK
  <2>2. View(r) \in Row /\ slots \in Slots
    BY <2>1, ViewType, SlotsAssumption DEF IInv
  <2>3. Named(View(r).perms["write"]) \in SUBSET Groups
    BY <2>2, NamedType DEF Row, Perms
  <2>4. row \in Row
    BY <2>2, <2>3 DEF Row
  <2> HIDE DEF row
  <2>5. root \in groups[r] \/ groups[r] \cap Named(View(r).perms["write"]) # {}
    BY <2>1 DEF Allows
  <2>6. ConfinedRow(row)
    BY <1>3, <2>5 DEF ConfinedRow, Lineage
  <2>7. Continues(r, row)
    BY <1>3, <2>1, <2>4, <2>6, GrowthContinues
  <2> QED
    BY <2>4, <2>7
<1> HIDE DEF version
<1> QED
  BY <1>2, <1>4, BulkStep

LEMMA IInvNext == IInv /\ [Next]_vars => IInv'
<1> SUFFICES ASSUME IInv, [Next]_vars PROVE IInv'
  OBVIOUS
<1> DEFINE Rest == /\ LockInv /\ ObjectInv /\ FreshInv
                   /\ HeldInv /\ LineageInv /\ ConfinedInv
<1>1. TypeOK'
  BY TypeNext DEF IInv
<1>2. CASE UNCHANGED vars
  <2>1. \A r \in Requests : View(r)' = View(r) /\ Fresh(r)' = Fresh(r)
    BY <1>2 DEF vars, View, Fresh
  <2> QED
    BY <1>1, <1>2, <2>1
       DEF IInv, vars, LockInv, ObjectInv, FreshInv, HeldInv, LineageInv,
           ConfinedInv, ConfinedRow, Remembered, Lineage
<1>3. ASSUME NEW r \in Requests, Load(r) PROVE Rest'
  BY <1>3, LoadStep
<1>4. ASSUME NEW r \in Requests, Create(r) PROVE Rest'
  <2>1. /\ phase[r] = "start" /\ phase'[r] = "working" /\ ~holds[r]
        /\ UNCHANGED <<db, groups, target, holds, mine>>
    BY <1>4 DEF IInv, TypeOK, LockInv, Create
  <2>2. PICK perms \in Assigned :
          obj' = [obj EXCEPT ![r] =
                   [state |-> "new", id |-> r, cur |-> perms, orig |-> perms,
                    initial |-> InitialPerms(perms)]]
    BY <1>4 DEF Create
  <2>3. obj'[r].state = "new" /\ obj'[r].id = r /\ obj' = [obj EXCEPT ![r] = obj'[r]]
    BY <2>2 DEF IInv, TypeOK
  <2>4. \A u \in Requests : phase'[u] = phase[u] \/ u = r
    BY <1>4 DEF IInv, TypeOK, Create
  <2> QED
    BY <2>1, <2>3, <2>4, ObjectStep DEF Fresh
<1>5. ASSUME NEW r \in Requests, Assign(r) PROVE Rest'
  <2>1. /\ phase' = phase /\ phase[r] = "working" /\ obj[r] # Nothing
        /\ UNCHANGED <<db, groups, target, holds, mine>>
    BY <1>5 DEF Assign, Working
  <2>2. PICK p \in Perms : \E slots \in Assignable[p] \cup {obj[r].cur[p]} :
          obj' = [obj EXCEPT
                    ![r].cur[p] = slots,
                    ![r].state = IF @ = "new" THEN "new" ELSE "dirty"]
    BY <1>5 DEF Assign
  <2>3. obj[r] \in Object
    BY <2>1 DEF IInv, TypeOK
  <2>4. /\ obj' = [obj EXCEPT ![r] = obj'[r]]
        /\ obj'[r].state = IF obj[r].state = "new" THEN "new" ELSE "dirty"
        /\ obj'[r].id = obj[r].id /\ obj'[r].orig = obj[r].orig
        /\ obj'[r].initial = obj[r].initial
    <3>1. PICK slots \in Assignable[p] \cup {obj[r].cur[p]} :
            obj' = [obj EXCEPT
                      ![r].cur[p] = slots,
                      ![r].state = IF @ = "new" THEN "new" ELSE "dirty"]
      BY <2>2
    <3> DEFINE edited == [obj[r] EXCEPT
                            !.cur = [@ EXCEPT ![p] = slots],
                            !.state = IF @ = "new" THEN "new" ELSE "dirty"]
    <3>2. obj' = [obj EXCEPT ![r] = edited]
      BY <2>3, <3>1 DEF IInv, TypeOK, Object
    <3>3. obj'[r] = edited
      BY <3>2 DEF IInv, TypeOK
    <3>4. /\ edited.id = obj[r].id /\ edited.orig = obj[r].orig
          /\ edited.initial = obj[r].initial
          /\ edited.state = IF obj[r].state = "new" THEN "new" ELSE "dirty"
      BY <2>3 DEF Object
    <3> QED
      BY <3>2, <3>3, <3>4
  <2>5. obj[r].state = "new" => obj[r].id = r /\ ~holds[r] /\ Fresh(r)
    BY <2>1 DEF IInv, ObjectInv, Fresh
  <2> QED
    BY <2>1, <2>4, <2>5, ObjectStep
<1>6. ASSUME NEW r \in Requests, MarkDeleted(r) PROVE Rest'
  <2>1. /\ phase' = phase /\ phase[r] = "working" /\ obj[r] # Nothing
        /\ obj[r].state = "clean"
        /\ obj' = [obj EXCEPT ![r].state = "deleted"]
        /\ UNCHANGED <<db, groups, target, holds, mine>>
    BY <1>6 DEF MarkDeleted, Working
  <2>2. obj[r] \in Object
    BY <2>1 DEF IInv, TypeOK
  <2>3. /\ obj' = [obj EXCEPT ![r] = obj'[r]]
        /\ obj'[r].state = "deleted"
        /\ obj'[r].id = obj[r].id /\ obj'[r].orig = obj[r].orig
        /\ obj'[r].initial = obj[r].initial
    BY <2>1, <2>2 DEF IInv, TypeOK, Object
  <2> QED
    BY <2>1, <2>3, ObjectStep
<1>7. ASSUME NEW r \in Requests, FlushInsert(r) PROVE Rest'
  BY <1>7, FlushInsertStep
<1>8. ASSUME NEW r \in Requests, FlushUpdate(r) PROVE Rest'
  BY <1>8, FlushUpdateStep
<1>9. ASSUME NEW r \in Requests, FlushDelete(r) PROVE Rest'
  BY <1>9, FlushDeleteStep
<1>10. ASSUME NEW r \in Requests, BulkUpdate(r) PROVE Rest'
  BY <1>10, BulkUpdateStep
<1>11. ASSUME NEW r \in Requests, BulkDelete(r) PROVE Rest'
  BY <1>11, BulkStep DEF BulkDelete
<1>12. ASSUME NEW r \in Requests, Commit(r) PROVE Rest'
  BY <1>12, CommitStep
<1>13. ASSUME NEW r \in Requests, Respond(r) PROVE Rest'
  <2>1. /\ Answer(r, "ok") \/ Answer(r, "error")
        /\ UNCHANGED <<db, groups, target, edits>>
    BY <1>13 DEF Respond
  <2> QED
    BY <2>1, AnswerStep
<1>14. ASSUME NEW r \in Requests, Crash(r) PROVE Rest'
  BY <1>14, AnswerStep DEF Crash
<1> QED
  BY <1>1, <1>2, <1>3, <1>4, <1>5, <1>6, <1>7, <1>8, <1>9, <1>10, <1>11,
     <1>12, <1>13, <1>14 DEF Next, Handle, Finished, IInv

(* The writer of the values of a row, committed or not, is its creator, or *)
(* root, or in a group that an earlier version of that row named in its    *)
(* write slots: for any number of requests, rows, groups and slots.        *)
THEOREM WritersConfined == Spec => []Confined
<1>1. IInv => Confined
  BY DEF IInv, ConfinedInv, ConfinedRow, Confined, Versions
<1> QED
  BY <1>1, IInvInit, IInvNext, PTL DEF Spec

-----------------------------------------------------------------------------
(***************************************************************************)
(* NoResurrection needs to know who can hold a version of a row that is    *)
(* not in the table: only the request that is creating it.  A request that *)
(* loaded a row before it was deleted finds nothing to update.             *)
(***************************************************************************)
BirthInv ==
  \A r \in Requests :
    mine[r] # Nothing /\ db[target[r]] = Nothing => mine[r].id = r

(* A version is dropped, started by its creator, or built on the one in    *)
(* view, and only a commit changes the table.                              *)
LEMMA VersionStep ==
  ASSUME IInv, NEW r \in Requests, Handle(r) \/ Crash(r)
  PROVE  /\ target' = target
         /\ \A u \in Requests \ {r} : mine'[u] = mine[u]
         /\ \/ Commit(r)
            \/ /\ db' = db
               /\ \/ mine'[r] = mine[r]
                  \/ mine'[r] = Nothing
                  \/ mine'[r].id = r
                  \/ View(r) # Nothing /\ mine'[r].id = View(r).id
<1> DEFINE Goal == /\ target' = target
                   /\ \A u \in Requests \ {r} : mine'[u] = mine[u]
                   /\ db' = db
                   /\ \/ mine'[r] = mine[r]
                      \/ mine'[r] = Nothing
                      \/ mine'[r].id = r
                      \/ View(r) # Nothing /\ mine'[r].id = View(r).id
<1>1. mine \in [Requests -> Row \cup {Nothing}]
  BY DEF IInv, TypeOK
<1>2. CASE Load(r) \/ Create(r) \/ Assign(r) \/ MarkDeleted(r)
  BY <1>1, <1>2 DEF Load, Create, Assign, MarkDeleted, Answer
<1>3. CASE FlushInsert(r)
  BY <1>1, <1>3 DEF FlushInsert, Answer, Save
<1>4. CASE FlushUpdate(r)
  <2>1. CASE \E what : Answer(r, what)
    BY <1>1, <1>4, <2>1 DEF FlushUpdate, Answer
  <2>2. CASE SameRow(r) /\ Save(r, Merged(r))
    <3>1. mine' = [mine EXCEPT ![r] = Merged(r)] /\ target' = target /\ db' = db
      BY <1>4, <2>2 DEF FlushUpdate, Save
    <3>2. View(r) # Nothing /\ Merged(r).id = View(r).id
      BY <2>2 DEF SameRow, Merged
    <3> QED
      BY <1>1, <3>1, <3>2
  <2> QED
    BY <1>4, <2>1, <2>2 DEF FlushUpdate
<1>5. CASE FlushDelete(r)
  BY <1>1, <1>5 DEF FlushDelete, Answer
<1>6. CASE BulkUpdate(r)
  <2>1. PICK version :
          /\ version.id = View(r).id
          /\ Bulk(r, "update", version)
    BY <1>6 DEF BulkUpdate
  <2>2. /\ \/ mine' = [mine EXCEPT ![r] = Nothing]
           \/ View(r) # Nothing /\ mine' = [mine EXCEPT ![r] = version]
        /\ target' = target /\ db' = db
    BY <2>1 DEF Bulk
  <2> QED
    BY <1>1, <2>1, <2>2
<1>7. CASE BulkDelete(r)
  BY <1>1, <1>7 DEF BulkDelete, Bulk
<1>8. CASE Commit(r)
  BY <1>1, <1>8 DEF Commit
<1>9. CASE Respond(r) \/ Crash(r)
  BY <1>1, <1>9 DEF Respond, Crash, Answer
<1> QED
  BY <1>2, <1>3, <1>4, <1>5, <1>6, <1>7, <1>8, <1>9 DEF Handle

(* What a commit does to the table and to the requests' versions. *)
LEMMA CommitTable ==
  ASSUME IInv, NEW r \in Requests, Commit(r)
  PROVE  /\ phase[r] = "working" /\ phase'[r] = "saved" /\ mine'[r] = Nothing
         /\ \A o \in Rows :
              \/ db'[o] = db[o]
              \/ o = target[r] /\ holds[r] /\ db'[o] = mine[r]
  BY DEF IInv, TypeOK, Commit

LEMMA BirthNext == IInv /\ BirthInv /\ [Next]_vars => BirthInv'
<1> SUFFICES ASSUME IInv, BirthInv, [Next]_vars PROVE BirthInv'
  OBVIOUS
<1>1. CASE UNCHANGED vars
  BY <1>1 DEF vars, BirthInv
<1>2. ASSUME NEW r \in Requests, Handle(r) \/ Crash(r),
             NEW u \in Requests, mine'[u] # Nothing, db'[target'[u]] = Nothing
      PROVE  mine'[u].id = u
  <2>1. target' = target /\ target[u] \in Rows
    BY <1>2, VersionStep DEF IInv, TypeOK
  <2>2. CASE Commit(r)
    <3>1. u # r /\ mine'[u] = mine[u]
      BY <1>2, <2>2, CommitTable, VersionStep
    <3>2. db'[target[u]] = db[target[u]]
      <4>1. holds[u]
        BY <1>2, <3>1 DEF IInv, LockInv
      <4> QED
        BY <2>1, <2>2, <3>1, <4>1, CommitTable DEF IInv, LockInv
    <3> QED
      BY <1>2, <2>1, <3>1, <3>2 DEF BirthInv
  <2>3. CASE ~Commit(r)
    <3>1. db' = db
      BY <1>2, <2>3, VersionStep
    <3>2. CASE u = r
      <4>1. View(r) # Nothing => View(r) = mine[r] /\ mine[r].id = r
        BY <1>2, <2>1, <3>1, <3>2 DEF View, BirthInv
      <4> QED
        BY <1>2, <2>1, <2>3, <3>1, <3>2, <4>1, VersionStep DEF BirthInv
    <3>3. CASE u # r
      BY <1>2, <2>1, <3>1, <3>3, VersionStep DEF BirthInv
    <3> QED
      BY <3>2, <3>3
  <2> QED
    BY <2>2, <2>3
<1>3. CASE Finished
  BY <1>1, <1>3 DEF Finished
<1> QED
  BY <1>1, <1>2, <1>3 DEF Next, BirthInv

(* A deleted row stays away, whoever still has it loaded: a row appears in *)
(* the table only by the commit of the request that created it.            *)
THEOREM DeletedStaysDeleted == Spec => NoResurrection
<1>1. Init => BirthInv
  BY DEF Init, BirthInv
<1>2. ASSUME IInv, BirthInv, [Next]_vars,
             NEW o \in Rows, db[o] = Nothing, db'[o] # Nothing
      PROVE  \E r \in Requests : /\ db'[o].id = r
                                 /\ phase[r] = "working" /\ phase'[r] = "saved"
  <2>1. PICK r \in Requests : Handle(r) \/ Crash(r)
    BY <1>2 DEF Next, Finished, vars
  <2>2. Commit(r)
    BY <1>2, <2>1, VersionStep
  <2>3. o = target[r] /\ db'[o] = mine[r]
    BY <1>2, <2>2, CommitTable
  <2>4. mine[r].id = r
    BY <1>2, <2>3 DEF BirthInv
  <2> QED
    BY <2>2, <2>3, <2>4, <1>2, CommitTable
<1>3. IInv /\ BirthInv /\ [Next]_vars =>
        [\A o \in Rows :
           db[o] = Nothing /\ db'[o] # Nothing =>
             \E r \in Requests : /\ db'[o].id = r
                                 /\ phase[r] = "working" /\ phase'[r] = "saved"]_vars
  BY <1>2
<1> QED
  BY <1>1, <1>3, IInvInit, IInvNext, BirthNext, PTL DEF Spec, NoResurrection

-----------------------------------------------------------------------------
(***************************************************************************)
(* RefusedLeavesNoTrace: what a request writes has its own name on it and  *)
(* reaches the table only as the request goes on to "saved", from where it *)
(* can no longer be refused.                                               *)
(***************************************************************************)
Refused == {"denied", "conflict", "not found"}

TraceInv ==
  /\ \A r \in Requests : status[r] # "none" => phase[r] = "answered"
  /\ \A r \in Requests : mine[r] # Nothing => mine[r].writer = r
  /\ \A r \in Requests : \A o \in Rows :
       db[o] # Nothing /\ db[o].writer = r =>
         phase[r] \in {"saved", "answered"} /\ status[r] \notin Refused

(* What a step of a request does to its phase, its status and its version. *)
LEMMA TraceStep ==
  ASSUME IInv, NEW r \in Requests, Handle(r) \/ Crash(r)
  PROVE  /\ \A u \in Requests \ {r} : /\ mine'[u] = mine[u]
                                      /\ phase'[u] = phase[u]
                                      /\ status'[u] = status[u]
         /\ mine'[r] = mine[r] \/ mine'[r] = Nothing \/ mine'[r].writer = r
         /\ status'[r] = status[r] \/ phase'[r] = "answered"
         /\ phase[r] # "answered"
         /\ phase[r] = "saved" =>
              phase'[r] = "answered" /\ status'[r] \notin Refused
<1> DEFINE Only == \A u \in Requests \ {r} : /\ mine'[u] = mine[u]
                                            /\ phase'[u] = phase[u]
                                            /\ status'[u] = status[u]
           Own == mine'[r] = mine[r] \/ mine'[r] = Nothing
                  \/ mine'[r].writer = r
           Told == status'[r] = status[r] \/ phase'[r] = "answered"
           Before == phase[r] \in {"start", "working"}
<1>1. /\ mine \in [Requests -> Row \cup {Nothing}]
      /\ phase \in [Requests -> {"start", "working", "saved", "answered"}]
      /\ status \in [Requests -> {"none", "ok", "not found", "denied",
                                  "conflict", "error", "lost"}]
  BY DEF IInv, TypeOK
<1>2. ASSUME NEW what, Answer(r, what)
      PROVE  Only /\ Own /\ Told
  BY <1>1, <1>2 DEF Answer
<1>3. ASSUME NEW version, version.writer = r, Save(r, version)
      PROVE  Only /\ Own /\ Told
  BY <1>1, <1>3 DEF Save
<1>4. CASE Load(r) \/ Create(r) \/ Assign(r) \/ MarkDeleted(r)
  <2>1. Only /\ Own /\ Told
    BY <1>1, <1>2, <1>4 DEF Load, Create, Assign, MarkDeleted
  <2>2. Before
    BY <1>4 DEF Load, Create, Assign, MarkDeleted, Working
  <2> QED
    BY <2>1, <2>2
<1>5. CASE FlushInsert(r)
  <2>1. Only /\ Own /\ Told
    BY <1>2, <1>3, <1>5 DEF FlushInsert
  <2> QED
    BY <1>5, <2>1 DEF FlushInsert, Working
<1>6. CASE FlushUpdate(r)
  <2>1. Merged(r).writer = r
    BY DEF Merged
  <2>2. Only /\ Own /\ Told
    BY <1>2, <1>3, <1>6, <2>1 DEF FlushUpdate
  <2> QED
    BY <1>6, <2>2 DEF FlushUpdate, Working
<1>7. CASE FlushDelete(r)
  <2>1. Only /\ Own /\ Told
    BY <1>1, <1>2, <1>7 DEF FlushDelete
  <2> QED
    BY <1>7, <2>1 DEF FlushDelete, Working
<1>8. CASE BulkUpdate(r) \/ BulkDelete(r)
  <2>1. PICK action, version :
          /\ version = Nothing \/ version.writer = r
          /\ Bulk(r, action, version)
    BY <1>8 DEF BulkUpdate, BulkDelete
  <2>2. Only /\ Own /\ Told
    BY <1>1, <2>1 DEF Bulk
  <2> QED
    BY <2>1, <2>2 DEF Bulk
<1>9. CASE Commit(r)
  BY <1>1, <1>9 DEF Commit
<1>10. CASE Respond(r) \/ Crash(r)
  <2>1. PICK what \in {"ok", "error", "lost"} : Answer(r, what)
    BY <1>10 DEF Respond, Crash
  <2>2. status'[r] \notin Refused /\ phase'[r] = "answered"
    BY <1>1, <2>1 DEF Answer, Refused
  <2>3. phase[r] # "answered"
    BY <1>10 DEF Respond, Crash
  <2> QED
    BY <1>2, <2>1, <2>2, <2>3
<1> QED
  BY <1>4, <1>5, <1>6, <1>7, <1>8, <1>9, <1>10 DEF Handle

LEMMA TraceNext == IInv /\ TraceInv /\ [Next]_vars => TraceInv'
<1> SUFFICES ASSUME IInv, TraceInv, [Next]_vars PROVE TraceInv'
  OBVIOUS
<1>1. CASE UNCHANGED vars
  BY <1>1 DEF vars, TraceInv
<1>2. ASSUME NEW r \in Requests, Handle(r) \/ Crash(r)
      PROVE  TraceInv'
  <2>1. \A u \in Requests : status'[u] # "none" => phase'[u] = "answered"
    BY <1>2, TraceStep DEF TraceInv
  <2>2. \A u \in Requests : mine'[u] # Nothing => mine'[u].writer = u
    BY <1>2, TraceStep DEF TraceInv
  <2>3. ASSUME NEW u \in Requests, NEW o \in Rows,
               db'[o] # Nothing, db'[o].writer = u
        PROVE  phase'[u] \in {"saved", "answered"} /\ status'[u] \notin Refused
    <3>1. CASE db'[o] = db[o]
      <4>1. phase[u] \in {"saved", "answered"} /\ status[u] \notin Refused
        BY <2>3, <3>1 DEF TraceInv
      <4> QED
        BY <1>2, <4>1, TraceStep
    <3>2. CASE db'[o] # db[o]
      <4>1. Commit(r)
        BY <1>2, <3>2, VersionStep
      <4>2. db'[o] = mine[r] /\ phase[r] = "working" /\ phase'[r] = "saved"
        BY <3>2, <4>1, CommitTable
      <4>3. u = r /\ status[r] = "none"
        BY <2>3, <4>2 DEF TraceInv
      <4>4. status'[r] = status[r]
        BY <4>1 DEF Commit
      <4> QED
        BY <4>2, <4>3, <4>4 DEF Refused
    <3> QED
      BY <3>1, <3>2
  <2> QED
    BY <2>1, <2>2, <2>3 DEF TraceInv
<1>3. CASE Finished
  BY <1>1, <1>3 DEF Finished
<1> QED
  BY <1>1, <1>2, <1>3 DEF Next

(* Whoever was refused, or found nothing, or met the unique url field has  *)
(* left nothing behind, in the table or in a transaction.                  *)
THEOREM RefusedIsTraceless == Spec => []RefusedLeavesNoTrace
<1>1. Init => TraceInv
  <2> SUFFICES ASSUME Init PROVE TraceInv
    OBVIOUS
  <2>1. \A o \in Rows : db[o] # Nothing => db[o].writer = Seed
    BY DEF Init, SeedRow
  <2> QED
    BY <2>1, IdsAssumption DEF Init, TraceInv
<1>2. IInv /\ TraceInv => RefusedLeavesNoTrace
  <2> SUFFICES ASSUME IInv, TraceInv, NEW r \in Requests, status[r] \in Refused,
                      NEW row \in Versions, row.writer = r
               PROVE  FALSE
    BY DEF RefusedLeavesNoTrace, Refused
  <2>1. row # Nothing
    BY DEF Versions
  <2>2. CASE \E o \in Rows : row = db[o]
    BY <2>1, <2>2 DEF TraceInv
  <2>3. CASE \E u \in Requests : row = mine[u]
    <3>1. mine[r] # Nothing
      BY <2>1, <2>3 DEF TraceInv
    <3>2. phase[r] = "working"
      BY <3>1 DEF IInv, LockInv
    <3>3. status[r] = "none"
      BY <3>2 DEF TraceInv
    <3> QED
      BY <3>3 DEF Refused
  <2> QED
    BY <2>2, <2>3 DEF Versions
<1> QED
  BY <1>1, <1>2, IInvInit, IInvNext, TraceNext, PTL DEF Spec
=============================================================================
