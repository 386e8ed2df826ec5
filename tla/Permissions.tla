---------------------------- MODULE Permissions -----------------------------
(***************************************************************************)
(* Group-based permissions on the rows of a table: PermissionedModel and   *)
(* PermissionedQuery of authorization/orm.py, driven by requests that work *)
(* on one row each through their own database session, as the generic      *)
(* handlers of flask/api.py do.                                            *)
(*                                                                         *)
(* A permission of a row ("read", "write" or "delete") is a few columns,   *)
(* its slots, each holding the name of a group or nothing.  A query only   *)
(* returns rows whose read slots name a group of the session.  An object   *)
(* remembers, as __initial_perms__, the permissions it had when it was     *)
(* loaded or last saved, and a flush is checked against those: not against *)
(* what the request has since assigned, and not against what other         *)
(* requests have since committed.                                          *)
(*                                                                         *)
(* The database is PostgreSQL at READ COMMITTED: an UPDATE, DELETE or      *)
(* conflicting INSERT waits for the transaction that holds the row, then   *)
(* works on the newest committed version; an UPDATE sets only the columns  *)
(* whose values the request changed.                                       *)
(***************************************************************************)
EXTENDS Naturals, FiniteSets

CONSTANTS
  Groups,          (* names of groups                                      *)
  root,            (* the group that has every permission                  *)
  Scope,           (* Scope[n]: the group for permission n on the table    *)
  MaxPermissions,  (* the number of slots of a permission                  *)
  Rows,            (* the values of the url field: unique in the table     *)
  Requests,        (* each request runs once and creates at most one row   *)
  Sessions,        (* the group sets that sessions have                    *)
  Assignable,      (* Assignable[n]: the slot values assigned to n         *)
  MaxEdits,        (* bound: assignments a request makes                   *)
  Seed,            (* the creator of the rows that exist at the start      *)
  Nothing          (* no group, no row, no object                          *)

Perms == {"read", "write", "delete"}
Slots == [1..MaxPermissions -> Groups \cup {Nothing}]

ASSUME GroupsAssumption ==
  /\ root \in Groups /\ Nothing \notin Groups
  /\ Scope \in [Perms -> Groups]
  /\ Sessions \subseteq SUBSET Groups
ASSUME SlotsAssumption ==
  MaxPermissions \in Nat /\ Assignable \in [Perms -> SUBSET Slots]
ASSUME IdsAssumption == Seed \notin Requests
ASSUME EditsAssumption == MaxEdits \in Nat

(* Definitions headed "Fault:" are mistaken variants of the one that       *)
(* follows them; nothing uses them but the exercises of the README, which  *)
(* show that the properties would notice the mistake.                      *)

(* Fault: an empty slot counts as a group. *)
NamedWithEmptySlots(slots) == {slots[i] : i \in 1..MaxPermissions}

(* Permission.__get__: the groups the slots name. *)
Named(slots) == {slots[i] : i \in 1..MaxPermissions} \ {Nothing}

(***************************************************************************)
(* A saved version of a row.  `id` is its primary key, named for the       *)
(* request that created it; `writer` stands for the data of the row: the   *)
(* request whose values they are.  `ever` is history: the groups that some *)
(* earlier version of this row named in its write slots.                   *)
(***************************************************************************)
Row == [perms : [Perms -> Slots], id : Requests \cup {Seed},
        writer : Requests \cup {Seed}, ever : SUBSET Groups]

(* The mapped object: its attributes, the column values it was loaded or   *)
(* last saved with, and its __initial_perms__.                             *)
Object == [state : {"new", "clean", "dirty", "deleted"},
           id : Requests \cup {Seed},
           cur : [Perms -> Slots], orig : [Perms -> Slots],
           initial : [Perms -> SUBSET Groups]]

VARIABLES
  db,       (* db[o]: the committed row with url field o, or Nothing       *)
  phase,    (* phase[r]: how far request r is                              *)
  groups,   (* groups[r]: the groups of its session                        *)
  target,   (* target[r]: the url field it works on                        *)
  obj,      (* obj[r]: its mapped object, or Nothing                       *)
  holds,    (* holds[r]: its transaction holds the row target[r]           *)
  mine,     (* mine[r]: the uncommitted version of that row, or Nothing    *)
  edits,    (* edits[r]: assignments it has made                           *)
  status    (* status[r]: what it was answered                             *)

vars == <<db, phase, groups, target, obj, holds, mine, edits, status>>

-----------------------------------------------------------------------------
(* The permission checks.                                                  *)

Actions == {"select", "insert", "update", "delete"}
ScopePerm == [a \in Actions |-> CASE a = "select" -> "read"
                                  [] a = "insert" -> "write"
                                  [] a = "update" -> "read"
                                  [] a = "delete" -> "delete"]

(* _type_level_checks, then the groups the object's own permission for the *)
(* action names; an insert has no object permission.                       *)
Allows(session, action, named) ==
  /\ session # {}
  /\ \/ root \in session
     \/ /\ Scope[ScopePerm[action]] \in session
        /\ action = "insert" \/ session \cap named # {}

(* permissions_criterion: the filter of a query looks at the columns. *)
Selectable(session, row) ==
  Allows(session, "select", Named(row.perms["read"]))

(* permissions_check: a flush looks at __initial_perms__. *)
CheckInsert(r) == Allows(groups[r], "insert", {})

(* Fault: the check looks at what the request has assigned. *)
CheckUpdateOfAssigned(r) ==
  Allows(groups[r], "update", Named(obj[r].cur["write"]))

CheckUpdate(r) == Allows(groups[r], "update", obj[r].initial["write"])
CheckDelete(r) == Allows(groups[r], "delete", obj[r].initial["delete"])

InitialPerms(cur) == [p \in Perms |-> Named(cur[p])]

-----------------------------------------------------------------------------
SeedRow(perms) == [perms |-> perms, id |-> Seed, writer |-> Seed, ever |-> {}]

(* The permissions a row can start with. *)
Assigned == [read : Assignable["read"], write : Assignable["write"],
             delete : Assignable["delete"]]

Init ==
  /\ db \in [Rows -> {Nothing} \cup {SeedRow(perms) : perms \in Assigned}]
  /\ phase = [r \in Requests |-> "start"]
  /\ groups \in [Requests -> Sessions]
  /\ target \in [Requests -> Rows]
  /\ obj = [r \in Requests |-> Nothing]
  /\ holds = [r \in Requests |-> FALSE]
  /\ mine = [r \in Requests |-> Nothing]
  /\ edits = [r \in Requests |-> 0]
  /\ status = [r \in Requests |-> "none"]

(* The row as request r's transaction sees it. *)
View(r) == IF holds[r] THEN mine[r] ELSE db[target[r]]

(* Fault: the transaction is left open. *)
AnswerWithoutRollback(r, what) ==
  /\ phase' = [phase EXCEPT ![r] = "answered"]
  /\ status' = [status EXCEPT ![r] = what]
  /\ obj' = [obj EXCEPT ![r] = Nothing]
  /\ UNCHANGED <<holds, mine>>

(* The request is answered and its transaction, if open, rolled back. *)
Answer(r, what) ==
  /\ phase' = [phase EXCEPT ![r] = "answered"]
  /\ status' = [status EXCEPT ![r] = what]
  /\ holds' = [holds EXCEPT ![r] = FALSE]
  /\ mine' = [mine EXCEPT ![r] = Nothing]
  /\ obj' = [obj EXCEPT ![r] = Nothing]

(* first_or_abort(query): the permission filter is part of the query. *)
Load(r) ==
  /\ phase[r] = "start"
  /\ LET row == db[target[r]]
     IN  IF row # Nothing /\ Selectable(groups[r], row)
           THEN /\ obj' = [obj EXCEPT ![r] =
                     [state |-> "clean", id |-> row.id, cur |-> row.perms,
                      orig |-> row.perms, initial |-> InitialPerms(row.perms)]]
                /\ phase' = [phase EXCEPT ![r] = "working"]
                /\ UNCHANGED <<holds, mine, status>>
           ELSE Answer(r, "not found")
  /\ UNCHANGED <<db, groups, target, edits>>

(* The constructor and db.session.add: permissions that are not passed are *)
(* the session's default_object_perms.                                     *)
Create(r) ==
  /\ phase[r] = "start"
  /\ \E perms \in Assigned :
       obj' = [obj EXCEPT ![r] =
                [state |-> "new", id |-> r, cur |-> perms, orig |-> perms,
                 initial |-> InitialPerms(perms)]]
  /\ phase' = [phase EXCEPT ![r] = "working"]
  /\ UNCHANGED <<db, groups, target, holds, mine, edits, status>>

Working(r) == phase[r] = "working" /\ obj[r] # Nothing

(* setattr on the object: of data, and of one permission or none. *)
Assign(r) ==
  /\ Working(r)
  /\ obj[r].state \in {"new", "clean", "dirty"}
  /\ edits[r] < MaxEdits
  /\ edits' = [edits EXCEPT ![r] = @ + 1]
  /\ \E p \in Perms : \E slots \in Assignable[p] \cup {obj[r].cur[p]} :
       obj' = [obj EXCEPT
                 ![r].cur[p] = slots,
                 ![r].state = IF @ = "new" THEN "new" ELSE "dirty"]
  /\ UNCHANGED <<db, phase, groups, target, holds, mine, status>>

(* db.session.delete *)
MarkDeleted(r) ==
  /\ Working(r)
  /\ obj[r].state = "clean"
  /\ obj' = [obj EXCEPT ![r].state = "deleted"]
  /\ UNCHANGED <<db, phase, groups, target, holds, mine, edits, status>>

(* The database lets r write the row. *)
RowFree(r) == \A u \in Requests \ {r} : ~(holds[u] /\ target[u] = target[r])

(* r's transaction writes `version`; after_save_handler renews the         *)
(* object's __initial_perms__.                                             *)
Save(r, version) ==
  /\ holds' = [holds EXCEPT ![r] = TRUE]
  /\ mine' = [mine EXCEPT ![r] = version]
  /\ obj' = [obj EXCEPT ![r] =
               [state |-> "clean", id |-> obj[r].id,
                cur |-> obj[r].cur, orig |-> obj[r].cur,
                initial |-> InitialPerms(obj[r].cur)]]
  /\ UNCHANGED <<phase, status>>

(* INSERT: insert_handler, then the unique url field. *)
FlushInsert(r) ==
  /\ Working(r)
  /\ obj[r].state = "new"
  /\ IF ~CheckInsert(r) THEN Answer(r, "denied")
     ELSE /\ RowFree(r)
          /\ IF View(r) # Nothing THEN Answer(r, "conflict")
             ELSE Save(r, [perms |-> obj[r].cur, id |-> r, writer |-> r,
                           ever |-> {}])
  /\ UNCHANGED <<db, groups, target, edits>>

(* The row still is the one the object was loaded from. *)
SameRow(r) == View(r) # Nothing /\ View(r).id = obj[r].id

(* The columns the request changed, over the newest version of the row. *)
Merged(r) ==
  [perms |-> [p \in Perms |-> [i \in 1..MaxPermissions |->
                IF obj[r].cur[p][i] # obj[r].orig[p][i]
                  THEN obj[r].cur[p][i] ELSE View(r).perms[p][i]]],
   id |-> obj[r].id,
   writer |-> r,
   ever |-> View(r).ever \cup Named(View(r).perms["write"])]

(* Fault: a row that is gone is written again. *)
FlushUpdateOrInsert(r) ==
  /\ Working(r)
  /\ obj[r].state = "dirty"
  /\ IF ~CheckUpdate(r) THEN Answer(r, "denied")
     ELSE /\ RowFree(r)
          /\ IF SameRow(r) THEN Save(r, Merged(r))
             ELSE Save(r, [perms |-> obj[r].cur, id |-> obj[r].id,
                           writer |-> r, ever |-> {}])
  /\ UNCHANGED <<db, groups, target, edits>>

(* Fault: the check comes after the statement, and nothing undoes it. *)
FlushUpdateCheckedLate(r) ==
  /\ Working(r)
  /\ obj[r].state = "dirty"
  /\ RowFree(r)
  /\ IF ~SameRow(r) THEN Answer(r, "error")
     ELSE IF CheckUpdate(r) THEN Save(r, Merged(r))
     ELSE /\ status' = [status EXCEPT ![r] = "denied"]
          /\ holds' = [holds EXCEPT ![r] = TRUE]
          /\ mine' = [mine EXCEPT ![r] = Merged(r)]
          /\ UNCHANGED <<phase, obj>>
  /\ UNCHANGED <<db, groups, target, edits>>

(* UPDATE: update_handler; no row matched is a StaleDataError. *)
FlushUpdate(r) ==
  /\ Working(r)
  /\ obj[r].state = "dirty"
  /\ IF ~CheckUpdate(r) THEN Answer(r, "denied")
     ELSE /\ RowFree(r)
          /\ IF SameRow(r) THEN Save(r, Merged(r)) ELSE Answer(r, "error")
  /\ UNCHANGED <<db, groups, target, edits>>

(* DELETE: delete_handler; no row matched is only a warning. *)
FlushDelete(r) ==
  /\ Working(r)
  /\ obj[r].state = "deleted"
  /\ IF ~CheckDelete(r) THEN Answer(r, "denied")
     ELSE /\ RowFree(r)
          /\ holds' = [holds EXCEPT ![r] = @ \/ SameRow(r)]
          /\ mine' = [mine EXCEPT ![r] = Nothing]
          /\ obj' = [obj EXCEPT ![r] = Nothing]
          /\ UNCHANGED <<phase, status>>
  /\ UNCHANGED <<db, groups, target, edits>>

(***************************************************************************)
(* PermissionedQuery.update and .delete, on the row with the url field:    *)
(* the statement itself carries the filter, so the database evaluates it   *)
(* on the newest version of the row; a row it excludes is not matched.     *)
(***************************************************************************)
Bulk(r, action, version) ==
  /\ phase[r] = "start"
  /\ RowFree(r)
  /\ LET row == View(r)
         perm == IF action = "update" THEN "write" ELSE "delete"
         matched == /\ row # Nothing
                    /\ Allows(groups[r], action, Named(row.perms[perm]))
     IN  /\ holds' = [holds EXCEPT ![r] = matched]
         /\ mine' = [mine EXCEPT ![r] = IF matched THEN version ELSE Nothing]
  /\ phase' = [phase EXCEPT ![r] = "working"]
  /\ UNCHANGED <<db, groups, target, obj, edits, status>>

BulkUpdate(r) ==
  \E p \in Perms : \E slots \in Assignable[p] :
    Bulk(r, "update",
         [perms |-> [View(r).perms EXCEPT ![p] = slots], id |-> View(r).id,
          writer |-> r,
          ever |-> View(r).ever \cup Named(View(r).perms["write"])])

BulkDelete(r) == Bulk(r, "delete", Nothing)

(* COMMIT, once everything is flushed; the object's attributes expire. *)
Commit(r) ==
  /\ phase[r] = "working"
  /\ obj[r] # Nothing => obj[r].state = "clean"
  /\ db' = IF holds[r] THEN [db EXCEPT ![target[r]] = mine[r]] ELSE db
  /\ holds' = [holds EXCEPT ![r] = FALSE]
  /\ mine' = [mine EXCEPT ![r] = Nothing]
  /\ phase' = [phase EXCEPT ![r] = "saved"]
  /\ UNCHANGED <<groups, target, obj, edits, status>>

(* After the commit the handler reads the url field of the object, which   *)
(* loads it again, through the same filter: 500 if nothing comes back.     *)
Respond(r) ==
  /\ phase[r] = "saved"
  /\ LET row == db[target[r]]
         found == /\ row # Nothing
                  /\ row.id = obj[r].id
                  /\ Selectable(groups[r], row)
     IN  Answer(r, IF obj[r] = Nothing \/ found THEN "ok" ELSE "error")
  /\ UNCHANGED <<db, groups, target, edits>>

(* The worker is killed, or any other exception ends the request. *)
Crash(r) ==
  /\ phase[r] # "answered"
  /\ Answer(r, "lost")
  /\ UNCHANGED <<db, groups, target, edits>>

Handle(r) ==
  \/ Load(r)
  \/ Create(r)
  \/ Assign(r)
  \/ MarkDeleted(r)
  \/ FlushInsert(r)
  \/ FlushUpdate(r)
  \/ FlushDelete(r)
  \/ BulkUpdate(r)
  \/ BulkDelete(r)
  \/ Commit(r)
  \/ Respond(r)

AllAnswered == \A r \in Requests : phase[r] = "answered"
Finished == AllAnswered /\ UNCHANGED vars

Next == (\E r \in Requests : Handle(r) \/ Crash(r)) \/ Finished

Spec == Init /\ [][Next]_vars

(* gunicorn runs every request it has accepted. *)
Fairness == \A r \in Requests : WF_vars(Handle(r))
FairSpec == Spec /\ Fairness

-----------------------------------------------------------------------------
TypeOK ==
  /\ db \in [Rows -> Row \cup {Nothing}]
  /\ phase \in [Requests -> {"start", "working", "saved", "answered"}]
  /\ groups \in [Requests -> SUBSET Groups]
  /\ target \in [Requests -> Rows]
  /\ obj \in [Requests -> Object \cup {Nothing}]
  /\ holds \in [Requests -> BOOLEAN]
  /\ mine \in [Requests -> Row \cup {Nothing}]
  /\ edits \in [Requests -> 0..MaxEdits]
  /\ status \in [Requests -> {"none", "ok", "not found", "denied",
                              "conflict", "error", "lost"}]

(* The saved versions of rows, committed or not. *)
Versions == ({db[o] : o \in Rows} \cup {mine[r] : r \in Requests}) \ {Nothing}

(* Whoever wrote the values a row has is its creator, or root, or is in a  *)
(* group that an earlier version of that very row named in its write       *)
(* slots.  A request cannot use a permission that only it assigned, nor    *)
(* one that was given to a row that has since been replaced; and this      *)
(* although the check uses what was read before other requests' commits.   *)
Confined ==
  \A row \in Versions :
    row.writer \in Requests =>
      \/ row.writer = row.id
      \/ root \in groups[row.writer]
      \/ groups[row.writer] \cap row.ever # {}

(* A row that was deleted never comes back, although requests that loaded  *)
(* it may still save it: where there was none, the next row is one that    *)
(* its creator commits at that step.                                       *)
NoResurrection ==
  [][\A o \in Rows :
       db[o] = Nothing /\ db'[o] # Nothing =>
         \E r \in Requests : /\ db'[o].id = r
                             /\ phase[r] = "working" /\ phase'[r] = "saved"]_vars

(* A request that was refused, or that found nothing, or hit the unique    *)
(* url field, has left no trace in any row.                                *)
RefusedLeavesNoTrace ==
  \A r \in Requests :
    status[r] \in {"denied", "conflict", "not found"} =>
      \A row \in Versions : row.writer # r

(* Requests wait for each other's rows, but every one is answered. *)
EveryRequestAnswered == \A r \in Requests : <>(phase[r] = "answered")
=============================================================================
