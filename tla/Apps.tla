-------------------------------- MODULE Apps ----------------------------------
(***************************************************************************)
(* The apps of apis/auth and their installations: publishing an app to a   *)
(* group, installing it with granted scopes and a config, and the updates  *)
(* of both.  Requests run concurrently at READ COMMITTED: a handler finds  *)
(* its rows and validates against them, Find, and its flush and commit,    *)
(* one step here, write the columns and the list entries it has changed.   *)
(*                                                                         *)
(* A schema of configs is the set of configs it accepts, all of them if it *)
(* is NULL; a config may be NULL, and no schema is asked about that.  A    *)
(* row stands for its name and slug: no request changes an app's name.     *)
(* Who may write what is Permissions' subject; here every request may.     *)
(***************************************************************************)
EXTENDS Naturals, Sequences, FiniteSets, FiniteSetsExt, Functions

CONSTANTS
  AppRows, Installations,   (* the rows there may come to be: bounds       *)
  Groups, Scopes, Configs,
  Requests,                 (* the requests, each for one thing: a bound   *)
  Asks,                     (* what they ask for                           *)
  Starts,                   (* the rows there may be at the start          *)
  Nothing                   (* NULL, null, and no row                      *)

Slots == {0, 1}             (* App.read.max_permissions = 2                *)

(* The rows of an association table have no unique constraint: a scope may *)
(* be there more than once.                                                *)
App == [read : [Slots -> Groups \cup {Nothing}],
        requested : [Scopes -> Nat], accepts : SUBSET Configs]
Installed == [app : AppRows, granted : [Scopes -> Nat],
              config : Configs \cup {Nothing}]

(* A field of a request: <<>> if it is left out. *)
Given(S) == {<<x>> : x \in S}
Maybe(S) == {<<>>} \cup Given(S)

Publishing == [op : {"publish", "unpublish"}, app : AppRows, group : Groups]
Updating == [op : {"put app"}, app : AppRows,
             scopes : Maybe(SUBSET Scopes), accepts : Maybe(SUBSET Configs)]
Posting == [op : {"post app"}, by : Groups,
            scopes : Given(SUBSET Scopes), accepts : Given(SUBSET Configs)]
Deleting == [op : {"delete app"}, app : AppRows]
Installing == [op : {"install"}, by : Groups, app : AppRows,
               scopes : Maybe(SUBSET Scopes),
               config : Maybe(Configs \cup {Nothing})]
Reinstalling == [op : {"put installed"}, by : Groups, id : Installations,
                 app : Maybe(AppRows), scopes : Maybe(SUBSET Scopes),
                 config : Maybe(Configs \cup {Nothing})]
Uninstalling == [op : {"uninstall"}, id : Installations]

ASSUME AsksAssumption ==
  \A a \in Asks : \/ a \in Publishing \/ a \in Updating \/ a \in Posting
                  \/ a \in Deleting \/ a \in Installing
                  \/ a \in Reinstalling \/ a \in Uninstalling
ASSUME StartsAssumption ==
  \A t \in Starts :
    /\ t.app \in [AppRows -> App \cup {Nothing}]
    /\ t.installed \in [Installations -> Installed \cup {Nothing}]
    /\ \A i \in Installations : t.installed[i] # Nothing =>
         LET a == t.app[t.installed[i].app] IN
         /\ a # Nothing
         /\ \A s \in Scopes : t.installed[i].granted[s] <= a.requested[s]
         /\ t.installed[i].config \in a.accepts \cup {Nothing}
ASSUME NothingAssumption ==
  /\ Nothing \notin Groups /\ Nothing \notin Configs
  /\ Nothing \notin App /\ Nothing \notin Installed

VARIABLES
  app,             (* app[x]: the row of app x                             *)
  installed,       (* installed[i]: the row of installation i              *)
  req,             (* req[r]: request r                                    *)
  touched,         (* history: touched[r], the rows others changed while   *)
                   (* r was at work                                        *)
  ever,            (* history: ever[x], what x has requested and accepted  *)
  was              (* history: was[i], the apps i has been of              *)

vars == <<app, installed, req, touched, ever, was>>

Rows == AppRows \cup Installations
Answers == {"ok", "no such", "refused", "failed"}    (* 2xx, 404, 400, 500 *)

NoRequest == [at |-> "idle"]
Request ==
  {NoRequest}
  \cup [at : {"found"}, ask : Asks, app : AppRows \cup {Nothing},
        seen : App \cup Installed \cup {Nothing}, want : SUBSET Scopes,
        read : Seq(Groups)]
  \cup [at : {"saved"}, ask : Asks, id : Installations]
  \cup [at : {"done"}, ask : Asks, answer : Answers]

Listed(rows) == {s \in Scopes : rows[s] > 0}
Exists(x) == app[x] # Nothing
Readers(a) ==
  LET of(k) == IF a.read[k] = Nothing THEN <<>> ELSE <<a.read[k]>>
  IN  of(0) \o of(1)
Never == [requested |-> {}, accepted |-> {}]
ReadableBy(x, g) == Exists(x) /\ g \in Range(app[x].read)

Init ==
  /\ \E t \in Starts : app = t.app /\ installed = t.installed
  /\ req = [r \in Requests |-> NoRequest]
  /\ touched = [r \in Requests |-> {}]
  /\ ever = [x \in AppRows |->
       IF Exists(x) THEN [requested |-> Listed(app[x].requested),
                          accepted |-> app[x].accepts] ELSE Never]
  /\ was = [i \in Installations |->
       IF installed[i] = Nothing THEN {} ELSE {installed[i].app}]

-----------------------------------------------------------------------------
(* Finding and validating.                                                 *)

Answer(r, a, answer) ==
  /\ req' = [req EXCEPT ![r] = [at |-> "done", ask |-> a, answer |-> answer]]
  /\ UNCHANGED <<app, installed, touched, ever, was>>

Found(r, a, x, seen, want, read) ==
  /\ req' = [req EXCEPT ![r] = [at |-> "found", ask |-> a, app |-> x,
                                seen |-> seen, want |-> want, read |-> read]]
  /\ UNCHANGED <<app, installed, touched, ever, was>>

Begin(r, a, ops) == req[r] = NoRequest /\ a.op \in ops

(* Permission.__set__: 500 if there are more values than slots. *)
Fits(tuple) == Len(tuple) <= Cardinality(Slots)
SlotsOf(tuple) ==
  [k \in Slots |-> IF k < Len(tuple) THEN tuple[k + 1] ELSE Nothing]

(* tuple(set(app.read) - set([group.name])), in any order. *)
Without(a, g) ==
  LET rest == Range(Readers(a)) \ {g}
  IN  {t \in [1..Cardinality(rest) -> rest] : Range(t) = rest}

FindPublish(r, a) ==
  /\ Begin(r, a, {"publish"})
  /\ IF ~ Exists(a.app) THEN Answer(r, a, "no such")
     ELSE LET read == Readers(app[a.app]) \o <<a.group>>
          IN  IF Fits(read) THEN Found(r, a, a.app, app[a.app], {}, read)
                            ELSE Answer(r, a, "failed")

FindUnpublish(r, a) ==
  /\ Begin(r, a, {"unpublish"})
  /\ IF ~ Exists(a.app) THEN Answer(r, a, "no such")
     ELSE \E read \in Without(app[a.app], a.group) :
            IF SlotsOf(read) = app[a.app].read THEN Answer(r, a, "ok")
            ELSE Found(r, a, a.app, app[a.app], {}, read)

(* PUT, PATCH and DELETE of an app. *)
FindApp(r, a) ==
  /\ Begin(r, a, {"put app", "delete app"})
  /\ IF ~ Exists(a.app) THEN Answer(r, a, "no such")
     ELSE LET old == Listed(app[a.app].requested)
          IN  Found(r, a, a.app, app[a.app],
                    IF a.op = "delete app" THEN {}
                    ELSE IF a.scopes = <<>> THEN old ELSE a.scopes[1],
                    Readers(app[a.app]))

(* A config is named that is not null. *)
NamesConfig(a) == a.config \notin {<<>>, <<Nothing>>}

(* Fault: a config is validated only along with scopes. *)
ValidWithScopes(a, x) ==
  a.scopes # <<>> => /\ a.scopes[1] \subseteq Listed(app[x].requested)
                     /\ NamesConfig(a) => a.config[1] \in app[x].accepts

(* InstalledApp.validate, for an installation of x: what a request leaves   *)
(* out, and a config of null, is not looked at.                            *)
Valid(a, x) ==
  /\ a.scopes # <<>> => a.scopes[1] \subseteq Listed(app[x].requested)
  /\ NamesConfig(a) => a.config[1] \in app[x].accepts

Granted(a, old) == IF a.scopes = <<>> THEN old ELSE a.scopes[1]

(* Fault: the app is looked up without the session's filter. *)
FindToInstallUnfiltered(r, a) ==
  /\ Begin(r, a, {"install"})
  /\ Exists(a.app) /\ Valid(a, a.app)
  /\ Found(r, a, a.app, Nothing, Granted(a, {}), <<>>)

(* InstalledApps.post, which answers 409 to an unknown app, and InstallApp. *)
FindToInstall(r, a) ==
  /\ Begin(r, a, {"install"})
  /\ IF ~ ReadableBy(a.app, a.by) THEN Answer(r, a, "no such")
     ELSE IF ~ Valid(a, a.app) THEN Answer(r, a, "refused")
     ELSE Found(r, a, a.app, Nothing, Granted(a, {}), <<>>)

(* Fault: an update is validated against the app the installation is of,   *)
(* not against the one the request names.                                  *)
FindInstalledOfOld(r, a) ==
  /\ Begin(r, a, {"put installed"})
  /\ installed[a.id] # Nothing
  /\ LET old == Listed(installed[a.id].granted)
         x == IF a.app = <<>> THEN installed[a.id].app ELSE a.app[1]
     IN  /\ ReadableBy(x, a.by) /\ Valid(a, installed[a.id].app)
         /\ Found(r, a, x, installed[a.id], Granted(a, old), <<>>)

(* An update of an installation that has nothing to be validated. *)
NamesNothing(a) == /\ a.op = "put installed" /\ a.app = <<>>
                   /\ a.scopes = <<>> /\ ~ NamesConfig(a)

(* PUT and PATCH of an installation.  An app that the requester may not    *)
(* read is no such app if the request names it; else it is loaded as None, *)
(* a failure once something is to be validated against it, and None again  *)
(* in its place is no change.                                              *)
FindInstalled(r, a) ==
  /\ Begin(r, a, {"put installed"})
  /\ IF installed[a.id] = Nothing THEN Answer(r, a, "no such")
     ELSE LET old == Listed(installed[a.id].granted)
              x == IF a.app = <<>> THEN installed[a.id].app ELSE a.app[1]
          IN  IF ~ ReadableBy(x, a.by) /\ ~ NamesNothing(a)
                THEN Answer(r, a, IF a.app # <<>> THEN "no such" ELSE "failed")
              ELSE IF ~ Valid(a, x) THEN Answer(r, a, "refused")
              ELSE Found(r, a, x, installed[a.id], Granted(a, old), <<>>)

FindToUninstall(r, a) ==
  /\ Begin(r, a, {"uninstall"})
  /\ IF installed[a.id] = Nothing THEN Answer(r, a, "no such")
     ELSE Found(r, a, Nothing, installed[a.id], {}, <<>>)

-----------------------------------------------------------------------------
(* The flush and the commit.                                               *)

(* A column is in the UPDATE if the request has changed what it loaded. *)
Column(row, seen, new) == IF new = seen THEN row ELSE new

WrittenSlots(row, seen, tuple) ==
  [k \in Slots |-> Column(row[k], seen[k], SlotsOf(tuple)[k])]

WrittenList(rows, seen, want) ==
  [s \in Scopes |-> IF s \in want \ Listed(seen) THEN rows[s] + 1
                    ELSE IF s \in Listed(seen) \ want THEN 0 ELSE rows[s]]

(* The unit of work expects to delete as many rows as scopes. *)
DeletesMatch(rows, seen, want) ==
  LET gone == Listed(seen) \ want
  IN  MapThenSumSet(LAMBDA s : rows[s], gone) = Cardinality(gone)

(* A row can be deleted with its list, twice if the list is empty: that a  *)
(* DELETE finds no row is only a warning.                                  *)
Deletable(there, rows, seen) ==
  IF there THEN rows = seen /\ \A s \in Scopes : seen[s] <= 1
           ELSE Listed(seen) = {}

(* Fault: no foreign key from installations to apps. *)
ClearWithoutKey(q) ==
  CASE q.ask.op \in {"publish", "unpublish"} -> Exists(q.app)
    [] q.ask.op = "delete app" ->
         Deletable(Exists(q.app), app[q.app].requested, q.seen.requested)
    [] q.ask.op = "put app" ->
         /\ Exists(q.app)
         /\ DeletesMatch(app[q.app].requested, q.seen.requested, q.want)
    [] q.ask.op = "put installed" -> installed[q.ask.id] # Nothing
    [] q.ask.op = "uninstall" ->
         Deletable(installed[q.ask.id] # Nothing,
                   installed[q.ask.id].granted, q.seen.granted)
    [] OTHER -> TRUE

(* What the unit of work and the foreign keys demand: the row and the app  *)
(* are there, and no list and no installation has come in between.         *)
Clear(q) ==
  CASE q.ask.op \in {"publish", "unpublish", "install"} -> Exists(q.app)
    [] q.ask.op = "put app" ->
         /\ Exists(q.app)
         /\ DeletesMatch(app[q.app].requested, q.seen.requested, q.want)
    [] q.ask.op = "delete app" ->
         /\ Deletable(Exists(q.app), app[q.app].requested, q.seen.requested)
         /\ \A i \in Installations :
              installed[i] # Nothing => installed[i].app # q.app
    [] q.ask.op = "put installed" ->
         /\ installed[q.ask.id] # Nothing
         /\ q.app # q.seen.app => Exists(q.app)
         /\ DeletesMatch(installed[q.ask.id].granted, q.seen.granted, q.want)
    [] q.ask.op = "uninstall" ->
         Deletable(installed[q.ask.id] # Nothing,
                   installed[q.ask.id].granted, q.seen.granted)

(* generic_insert and generic_update turn an IntegrityError into 400. *)
Refusals(q) ==
  CASE q.ask.op = "install" -> {"refused"}
    [] q.ask.op \in {"put app", "put installed"} -> {"refused", "failed"}
    [] OTHER -> {"failed"}

Saving(r, ops) == req[r].at = "found" /\ req[r].ask.op \in ops /\ Clear(req[r])

Refuse(r) ==
  /\ req[r].at = "found" /\ ~ Clear(req[r])
  /\ \E answer \in Refusals(req[r]) : Answer(r, req[r].ask, answer)

Touch(r, row) ==
  touched' = [q \in Requests |-> IF q # r /\ req[q].at \in {"found", "saved"}
                                   THEN touched[q] \cup {row} ELSE touched[q]]

Done(r, answer) ==
  req' = [req EXCEPT ![r] = [at |-> "done", ask |-> req[r].ask, answer |-> answer]]

NewAccepts(q) ==
  IF q.ask.op # "put app" \/ q.ask.accepts = <<>> THEN q.seen.accepts
  ELSE q.ask.accepts[1]

(* Fault: the columns that a request leaves alone are written, too. *)
WrittenAppWhole(q, row) ==
  [row EXCEPT
     !.read = IF q.ask.op = "put app" THEN q.seen.read ELSE SlotsOf(q.read),
     !.requested = IF q.ask.op = "put app"
                     THEN WrittenList(@, q.seen.requested, q.want) ELSE @,
     !.accepts = NewAccepts(q)]

WrittenApp(q, row) ==
  [row EXCEPT
     !.read = IF q.ask.op = "put app" THEN @ ELSE WrittenSlots(@, q.seen.read, q.read),
     !.requested = IF q.ask.op = "put app"
                     THEN WrittenList(@, q.seen.requested, q.want) ELSE @,
     !.accepts = Column(@, q.seen.accepts, NewAccepts(q))]

(* The commit, and for a PUT the answer: that reads the app again, which   *)
(* somebody may have dropped or hidden by then.                            *)
SaveApp(r) ==
  LET q == req[r] IN
  /\ Saving(r, {"publish", "unpublish", "put app"})
  /\ LET new == WrittenApp(q, app[q.app])
     IN  /\ app' = [app EXCEPT ![q.app] = new]
         /\ ever' = [ever EXCEPT
              ![q.app].requested = @ \cup Listed(new.requested),
              ![q.app].accepted = @ \cup new.accepts]
  /\ \E answer \in {"ok"} \cup IF q.ask.op = "put app" THEN {"failed"} ELSE {} :
       Done(r, answer)
  /\ Touch(r, q.app)
  /\ UNCHANGED <<installed, was>>

(* Its requested scopes go with it; installations of it are in the way. *)
DropApp(r) ==
  /\ Saving(r, {"delete app"})
  /\ app' = [app EXCEPT ![req[r].app] = Nothing]
  /\ Done(r, "ok") /\ Touch(r, req[r].app)
  /\ UNCHANGED <<installed, ever, was>>

ConfigOf(a) == IF a.config = <<>> THEN Nothing ELSE a.config[1]

(* generic_insert.  A scope that is granted may no longer be requested. *)
SaveInstall(r) ==
  LET q == req[r] IN
  /\ Saving(r, {"install"})
  /\ \E i \in Installations :
       /\ was[i] = {}
       /\ installed' = [installed EXCEPT ![i] =
            [app |-> q.app, config |-> ConfigOf(q.ask),
             granted |-> [s \in Scopes |-> IF s \in q.want THEN 1 ELSE 0]]]
       /\ was' = [was EXCEPT ![i] = {q.app}]
       /\ req' = [req EXCEPT ![r] = [at |-> "saved", ask |-> q.ask, id |-> i]]
       /\ Touch(r, i)
  /\ UNCHANGED <<app, ever>>

SaveInstalled(r) ==
  LET q == req[r]
      i == q.ask.id
      to == Column(installed[i].app, q.seen.app, q.app) IN
  /\ Saving(r, {"put installed"})
  /\ installed' = [installed EXCEPT
       ![i].app = to,
       ![i].granted = WrittenList(@, q.seen.granted, q.want),
       ![i].config = IF q.ask.config = <<>> THEN @
                     ELSE Column(@, q.seen.config, q.ask.config[1])]
  /\ was' = [was EXCEPT ![i] = @ \cup {to}]
  /\ req' = [req EXCEPT ![r] = [at |-> "saved", ask |-> q.ask, id |-> i]]
  /\ Touch(r, i)
  /\ UNCHANGED <<app, ever>>

Uninstall(r) ==
  /\ Saving(r, {"uninstall"})
  /\ installed' = [installed EXCEPT ![req[r].ask.id] = Nothing]
  /\ Done(r, "ok") /\ Touch(r, req[r].ask.id)
  /\ UNCHANGED <<app, ever, was>>

(* emit_app_install_event, for a new one, and the answer read the          *)
(* installation and its app again, through the session's filter.           *)
Announce(r) ==
  /\ req[r].at = "saved"
  /\ LET row == installed[req[r].id]
     IN  Answer(r, req[r].ask,
                IF row # Nothing /\ ReadableBy(row.app, req[r].ask.by)
                  THEN "ok" ELSE "failed")

(* Apps.post: the app is its maker's to read; its name may be taken, and   *)
(* the answer reads it again after the commit.                             *)
PostApp(r, a) ==
  /\ Begin(r, a, {"post app"})
  /\ \/ Answer(r, a, "refused")
     \/ \E x \in AppRows :
          /\ ~ Exists(x) /\ ever[x] = Never
          /\ app' = [app EXCEPT ![x] =
               [read |-> SlotsOf(<<a.by>>), accepts |-> a.accepts[1],
                requested |-> [s \in Scopes |-> IF s \in a.scopes[1] THEN 1 ELSE 0]]]
          /\ ever' = [ever EXCEPT ![x] = [requested |-> a.scopes[1],
                                          accepted |-> a.accepts[1]]]
          /\ \E answer \in {"ok", "failed"} :
               req' = [req EXCEPT ![r] = [at |-> "done", ask |-> a, answer |-> answer]]
          /\ UNCHANGED <<installed, touched, was>>

Next ==
  \/ \E r \in Requests, a \in Asks :
       \/ FindPublish(r, a) \/ FindUnpublish(r, a) \/ FindApp(r, a)
       \/ FindToInstall(r, a) \/ FindInstalled(r, a) \/ FindToUninstall(r, a)
       \/ PostApp(r, a)
  \/ \E r \in Requests :
       \/ SaveApp(r) \/ DropApp(r) \/ SaveInstall(r) \/ SaveInstalled(r)
       \/ Uninstall(r) \/ Refuse(r) \/ Announce(r)

Spec == Init /\ [][Next]_vars

-----------------------------------------------------------------------------
(* Properties.                                                             *)

(* The variables have their types, and an installation is of an app. *)
TypeOK ==
  /\ app \in [AppRows -> App \cup {Nothing}]
  /\ installed \in [Installations -> Installed \cup {Nothing}]
  /\ req \in [Requests -> Request]
  /\ touched \in [Requests -> SUBSET Rows]
  /\ ever \in [AppRows -> [requested : SUBSET Scopes, accepted : SUBSET Configs]]
  /\ was \in [Installations -> SUBSET AppRows]
  /\ \A i \in Installations : installed[i] # Nothing => Exists(installed[i].app)

(* Whatever was published, changed and switched in the meantime, every     *)
(* scope that an installation has was once requested by an app that it is  *)
(* or has been of, and such an app once accepted its config, unless it has *)
(* none: a config of null is never validated.                              *)
GrantedWereRequestedOnce ==
  \A i \in Installations : installed[i] # Nothing =>
    /\ \A s \in Listed(installed[i].granted) :
         \E x \in was[i] : s \in ever[x].requested
    /\ installed[i].config # Nothing =>
         \E x \in was[i] : installed[i].config \in ever[x].accepted

(* An app that is published or unpublished with success while no other     *)
(* request gets in the way has the readers it had, with or without that    *)
(* group; the update of an app never changes its readers.                  *)
PublishedAsAnswered ==
  [][\A r \in Requests :
       LET q == req[r] IN
       q.at = "found" /\ req'[r].at = "done" /\ req'[r].answer = "ok" =>
         CASE q.ask.op = "publish" /\ q.app \notin touched[r] ->
                Range(Readers(app'[q.app])) = Range(Readers(app[q.app])) \cup {q.ask.group}
           [] q.ask.op = "unpublish" /\ q.app \notin touched[r] ->
                Range(Readers(app'[q.app])) = Range(Readers(app[q.app])) \ {q.ask.group}
           [] q.ask.op = "put app" -> app'[q.app].read = app[q.app].read
           [] OTHER -> TRUE]_vars

(* An installation that is made or updated while no other request changes  *)
(* it or its app has only scopes that its app requests and a config that   *)
(* it accepts, as far as the request names them and other than by null.    *)
ValidWhenAnswered ==
  [][\A r \in Requests, i \in Installations :
       LET q == req[r]
           new == installed'[i] IN
       /\ q.at = "found" /\ installed'[i] # installed[i] /\ req'[r] # q
       /\ q.ask.op \in {"install", "put installed"}
       /\ {i, new.app} \cap touched[r] = {}
       => /\ q.ask.scopes # <<>> =>
               /\ Listed(new.granted) = q.ask.scopes[1]
               /\ Listed(new.granted) \subseteq Listed(app[new.app].requested)
          /\ NamesConfig(q.ask) =>
               /\ new.config = q.ask.config[1]
               /\ new.config \in app[new.app].accepts]_vars

(* An installation is committed before it is announced and answered: it    *)
(* stays silent, and its request fails, only if another request has        *)
(* changed it or its app since it was asked for.  Not so for an update     *)
(* that names nothing: that gets past an app its requester may not read.   *)
SavedIsAnnounced ==
  [][\A r \in Requests :
       LET q == req[r] IN
       /\ q.at = "saved" /\ ~ NamesNothing(q.ask)
       /\ req'[r].at = "done" /\ req'[r].answer = "failed"
       => q.id \in touched[r] \/ installed[q.id].app \in touched[r]]_vars
=============================================================================
