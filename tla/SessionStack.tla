---------------------------- MODULE SessionStack ----------------------------
(***************************************************************************)
(* The permission session of a request (flask.session) and the decorators  *)
(* that change it for the length of a block: do_as_root, sudo and          *)
(* do_with_groups of authorization/session.py.                             *)
(*                                                                         *)
(* A decorator saves a copy of the session it is entered with on its own   *)
(* list `original_sessions` and takes it back when it is left.  do_as_root *)
(* is one object for the whole process, and so is the sudo that decorates  *)
(* PushEventToApps.post: every request the process serves saves on the     *)
(* same two lists.  do_with_groups makes a new object for each call.       *)
(*                                                                         *)
(* A handler is the sequence of what it does to its session, in the order  *)
(* of its source; it may raise, abort or return at any step, which leaves  *)
(* the blocks that are open, innermost first.                              *)
(***************************************************************************)
EXTENDS Naturals, Sequences

CONSTANTS
  Threads,             (* the threads of one worker process                *)
  Profiles,            (* whom a session can belong to                     *)
  everybody, user, admin, push, root,    (* groups.py's base groups        *)
  licensed,            (* a group that a licence or an app gives a profile *)
  OneRequestAtATime    (* TRUE: gunicorn's sync worker; FALSE: flask run   *)

Groups == {everybody, user, admin, push, root, licensed}

Session == [profile : Profiles, groups : SUBSET Groups, save : BOOLEAN]

Shared == {"do_as_root", "sudo_push"}
Decorators == Shared \cup {"do_with_groups"}

(* The groups the block of a decorator adds to the session. *)
Added(d) == IF d = "do_with_groups" THEN {licensed} ELSE {root}

VARIABLES
  busy,       (* busy[t]: t is serving a request                           *)
  session,    (* session[t]: flask.session of the request t serves         *)
  own,        (* own[t]: the session the request has outside of any block: *)
              (* the cookie's, then the one its own handler installed      *)
  todo,       (* todo[t]: the steps its handler has left                   *)
  open,       (* open[t]: the blocks it is in, the innermost last          *)
  original    (* original[d]: the list `original_sessions` of decorator d  *)

vars == <<busy, session, own, todo, open, original>>

-----------------------------------------------------------------------------
(* The handlers: what each does to its session, in order.                  *)

Require(g) == [do |-> "require", arg |-> g]
Enter(d)   == [do |-> "enter", arg |-> d]
Leave      == [do |-> "leave", arg |-> "innermost"]
Install    == [do |-> "install", arg |-> "new_session"]

(* _session_from_profile, without and with an installed app. *)
SessionFromProfile(withApp) ==
  <<Enter("do_as_root"), Leave, Enter("do_with_groups")>>
  \o (IF withApp THEN <<Enter("do_as_root"), Leave>> ELSE <<>>)
  \o <<Leave>>

SudoPost(withApp) ==
  <<Require(admin), Enter("do_as_root"), Leave>>
  \o SessionFromProfile(withApp) \o <<Install>>

SessionForAppPost ==
  <<Require(user)>> \o SessionFromProfile(TRUE) \o <<Install>>

(* Session.put installs what the refresh token holds: an older log-in's.   *)
SessionPut == <<Require(everybody), Install>>

SignUpGet == <<Enter("do_as_root"), Leave>>

PushEventPost == <<Enter("sudo_push"), Leave>>

(* OAuthCallback.get: a log-in, and the sign-up that installs the Slack    *)
(* app and builds a second session inside the do_as_root block.            *)
OAuthCallbackGet(signUp) ==
  <<Require(everybody), Enter("do_as_root"), Leave>>
  \o SessionFromProfile(FALSE) \o <<Install>>
  \o (IF signUp
        THEN <<Enter("do_as_root")>> \o SessionFromProfile(TRUE)
             \o <<Leave, Install>>
        ELSE <<>>)

Handlers ==
  {SudoPost(a) : a \in BOOLEAN} \cup {OAuthCallbackGet(s) : s \in BOOLEAN}
  \cup {SessionForAppPost, SessionPut, SignUpGet, PushEventPost}

-----------------------------------------------------------------------------
(* The sessions a request arrives with: the cookies' or Session.empty().   *)
Arriving ==
  {s \in Session : /\ ~s.save
                   /\ everybody \in s.groups
                   /\ s.groups \in {{everybody}, {everybody, push},
                                    {everybody, user, admin}}}

(* Definitions headed "Fault:" are mistaken variants of the one that       *)
(* follows them; nothing uses them but the exercises of the README, which  *)
(* show that the properties would notice the mistake.                      *)

(* Fault: a session that is made without `save`. *)
NewSessionWithoutSave(p) ==
  [profile |-> p, groups |-> {everybody, user, licensed}]

(* What a log-in builds: Session.empty() with the profile's groups. *)
NewSession(p) == [profile |-> p, groups |-> {everybody, user, licensed},
                  save |-> TRUE]

Init ==
  /\ busy = [t \in Threads |-> FALSE]
  /\ session \in [Threads -> {s \in Arriving : s.groups = {everybody}}]
  /\ own = session
  /\ todo = [t \in Threads |-> <<>>]
  /\ open = [t \in Threads |-> <<>>]
  /\ original = [d \in Shared |-> <<>>]

(* JWTSessionInterface.open_session, then the handler is called. *)
Accept(t) ==
  /\ ~busy[t]
  /\ OneRequestAtATime => \A u \in Threads : ~busy[u]
  /\ \E s \in Arriving, h \in Handlers :
       /\ session' = [session EXCEPT ![t] = s]
       /\ own' = [own EXCEPT ![t] = s]
       /\ todo' = [todo EXCEPT ![t] = h]
  /\ busy' = [busy EXCEPT ![t] = TRUE]
  /\ UNCHANGED <<open, original>>

Step(t, what) == busy[t] /\ todo[t] # <<>> /\ Head(todo[t]).do = what

(* The exits that leave every open block of t. *)
Unwind(t) == [i \in 1..Len(open[t]) |-> Leave]

(* RequiresDecorator.__enter__ on a handler: PermissionDeniedError. *)
RequireGroup(t) ==
  /\ Step(t, "require")
  /\ todo' = [todo EXCEPT ![t] = IF Head(@).arg \in session[t].groups
                                   THEN Tail(@) ELSE Unwind(t)]
  /\ UNCHANGED <<busy, session, own, open, original>>

(* sudo asks for its group before it touches the session. *)
MayEnter(t, d) == d = "sudo_push" => push \in session[t].groups

(* Fault: the copy is taken after the session is overwritten. *)
EnterBlockCopyingLate(t) ==
  /\ Step(t, "enter")
  /\ LET d == Head(todo[t]).arg
         modified == [session[t] EXCEPT !.groups = @ \cup Added(d)]
     IN  /\ MayEnter(t, d)
         /\ original' = IF d \in Shared
                          THEN [original EXCEPT ![d] = Append(@, modified)]
                          ELSE original
         /\ open' = [open EXCEPT ![t] =
                       Append(@, [deco |-> d, before |-> session[t],
                                  depth |-> IF d \in Shared
                                              THEN Len(original[d]) + 1
                                              ELSE 1])]
         /\ session' = [session EXCEPT ![t] = modified]
  /\ todo' = [todo EXCEPT ![t] = Tail(@)]
  /\ UNCHANGED <<busy, own>>

(* SessionDecorator.__enter__: save a copy, then overwrite the session. *)
EnterBlock(t) ==
  /\ Step(t, "enter")
  /\ LET d == Head(todo[t]).arg
     IN  /\ MayEnter(t, d)
         /\ original' = IF d \in Shared
                          THEN [original EXCEPT ![d] = Append(@, session[t])]
                          ELSE original
         /\ open' = [open EXCEPT ![t] =
                       Append(@, [deco |-> d, before |-> session[t],
                                  depth |-> IF d \in Shared
                                              THEN Len(original[d]) + 1
                                              ELSE 1])]
         /\ session' = [session EXCEPT ![t].groups = @ \cup Added(d)]
  /\ todo' = [todo EXCEPT ![t] = Tail(@)]
  /\ UNCHANGED <<busy, own>>

(* Fault: sudo saves the session before it asks for its group. *)
RefuseBlockSavingFirst(t) ==
  /\ Step(t, "enter")
  /\ ~MayEnter(t, Head(todo[t]).arg)
  /\ original' = [original EXCEPT ![Head(todo[t]).arg] = Append(@, session[t])]
  /\ todo' = [todo EXCEPT ![t] = Unwind(t)]
  /\ UNCHANGED <<busy, session, own, open>>

(* sudo without its group: nothing saved, PermissionDeniedError. *)
RefuseBlock(t) ==
  /\ Step(t, "enter")
  /\ ~MayEnter(t, Head(todo[t]).arg)
  /\ todo' = [todo EXCEPT ![t] = Unwind(t)]
  /\ UNCHANGED <<busy, session, own, open, original>>

Innermost(t) == open[t][Len(open[t])]

(* Fault: a queue instead of a stack. *)
LeaveBlockOldestFirst(t) ==
  /\ Step(t, "leave")
  /\ open[t] # <<>>
  /\ LET b == Innermost(t)
         d == b.deco
     IN  IF d \in Shared
           THEN /\ session' = [session EXCEPT ![t] = Head(original[d])]
                /\ original' = [original EXCEPT ![d] = Tail(@)]
           ELSE /\ session' = [session EXCEPT ![t] = b.before]
                /\ UNCHANGED original
  /\ open' = [open EXCEPT ![t] = SubSeq(@, 1, Len(@) - 1)]
  /\ todo' = [todo EXCEPT ![t] = Tail(@)]
  /\ UNCHANGED <<busy, own>>

(* SessionDecorator.__exit__: overwrite with what the list pops.  The list *)
(* of do_with_groups is the block's own and holds only `before`.           *)
LeaveBlock(t) ==
  /\ Step(t, "leave")
  /\ open[t] # <<>>
  /\ LET b == Innermost(t)
         d == b.deco
     IN  IF d \in Shared
           THEN /\ session' = [session EXCEPT
                                 ![t] = original[d][Len(original[d])]]
                /\ original' = [original EXCEPT
                                  ![d] = SubSeq(@, 1, Len(@) - 1)]
           ELSE /\ session' = [session EXCEPT ![t] = b.before]
                /\ UNCHANGED original
  /\ open' = [open EXCEPT ![t] = SubSeq(@, 1, Len(@) - 1)]
  /\ todo' = [todo EXCEPT ![t] = Tail(@)]
  /\ UNCHANGED <<busy, own>>

(* flask.session.overwrite(new_session); flask.session.save = True *)
InstallSession(t) ==
  /\ Step(t, "install")
  /\ \E p \in Profiles :
       /\ session' = [session EXCEPT ![t] = NewSession(p)]
       /\ own' = [own EXCEPT ![t] = NewSession(p)]
  /\ todo' = [todo EXCEPT ![t] = Tail(@)]
  /\ UNCHANGED <<busy, open, original>>

(* An abort, an exception or a return from inside the handler. *)
Raise(t) ==
  /\ busy[t]
  /\ \E i \in 1..Len(todo[t]) : todo[t][i].do # "leave"
  /\ todo' = [todo EXCEPT ![t] = Unwind(t)]
  /\ UNCHANGED <<busy, session, own, open, original>>

(* JWTSessionInterface.save_session, and the request is over. *)
Respond(t) ==
  /\ busy[t]
  /\ todo[t] = <<>>
  /\ open[t] = <<>>
  /\ busy' = [busy EXCEPT ![t] = FALSE]
  /\ UNCHANGED <<session, own, todo, open, original>>

Next ==
  \E t \in Threads :
    \/ Accept(t)
    \/ RequireGroup(t)
    \/ EnterBlock(t)
    \/ RefuseBlock(t)
    \/ LeaveBlock(t)
    \/ InstallSession(t)
    \/ Raise(t)
    \/ Respond(t)

Spec == Init /\ [][Next]_vars

-----------------------------------------------------------------------------
Block == [deco : Decorators, before : Session, depth : Nat \ {0}]
Op == [do : {"require"}, arg : Groups] \cup [do : {"enter"}, arg : Decorators]
      \cup {Leave, Install}

TypeOK ==
  /\ busy \in [Threads -> BOOLEAN]
  /\ session \in [Threads -> Session]
  /\ own \in [Threads -> Session]
  /\ todo \in [Threads -> Seq(Op)]
  /\ open \in [Threads -> Seq(Block)]
  /\ original \in [Shared -> Seq(Session)]

(* At any moment a request's session is the one it has outside of any      *)
(* block, with the groups of the blocks it is in and no other: root and    *)
(* the groups of do_with_groups last exactly as long as their block,       *)
(* however it is left, and no request gets another request's session.      *)
EffectiveGroups ==
  \A t \in Threads : busy[t] =>
    session[t] = [own[t] EXCEPT !.groups =
      @ \cup UNION {Added(open[t][i].deco) : i \in 1..Len(open[t])}]

(* The lists of the shared decorators hold a session for each open block   *)
(* and nothing else: a process that is between requests has none left over *)
(* that a later request could take for its own.                            *)
ListsDrained ==
  (\A t \in Threads : ~busy[t]) => \A d \in Shared : original[d] = <<>>

(* A block gives back the very session it was entered with, `save` and     *)
(* profile included, even when the same decorator was entered again inside *)
(* of it (_session_from_profile inside OAuthCallback's block).             *)
LeavingRestores ==
  [][\A t \in Threads :
       Len(open'[t]) < Len(open[t]) =>
         session'[t] = Innermost(t).before]_vars
=============================================================================
