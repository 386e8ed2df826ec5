------------------------------ MODULE EventPush -------------------------------
(***************************************************************************)
(* The push of events: an app is installed in apis/auth, which posts an    *)
(* event to apis/event, which has apis/auth push it to the handlers of the *)
(* apps that listen, which post events in turn.  All of it is HTTP calls   *)
(* that wait for their answers, each served by one of a service's gunicorn *)
(* workers, which serves nothing else until it has answered.               *)
(*                                                                         *)
(* A call is named by its path: <<r>> is a client's request to install r,  *)
(* and c \o <<k>> the call k that c makes.  The arbiter kills a worker     *)
(* that has been at a call for too long, and starts another: nginx answers *)
(* the caller with an error page, and the calls that the dead worker has   *)
(* made go on without it.  A caller cannot tell an answer that is "failed" *)
(* because of what a call was told from one that is "broken", by a trouble *)
(* of its own.                                                             *)
(***************************************************************************)
EXTENDS Naturals, Sequences, SequencesExt, FiniteSets

CONSTANTS
  Installs,        (* the installations that clients ask for: a bound      *)
  Settings         (* the workers there may be, the apps to install, the   *)
                   (* Slack apps that are installed at the start, and the  *)
                   (* troubles, of which no more are broken by: a bound    *)

Services == {"auth", "event", "slack"}

ASSUME SettingsAssumption ==
  /\ IsFiniteSet(Installs)
  /\ Settings \subseteq [pool : [Services -> Nat \ {0}],
                        slug : [Installs -> {"slack", "calendar", "other"}],
                        there : SUBSET Installs,
                        troubles : Nat]

(* An installation is not named as a kind of call is. *)
ASSUME NamesAssumption ==
  Installs \cap {"event", "refresh", "push", "read"} = {}

VARIABLES
  pool,            (* pool[s]: the workers of service s                    *)
  slug,            (* slug[r]: the app that r installs                     *)
  troubles,        (* how many calls may break: a bound                    *)
  calls,           (* calls[c]: the state of call c                        *)
  listening,       (* the committed installations of the Slack app         *)
  events           (* the calls whose event is committed                   *)

vars == <<pool, slug, troubles, calls, listening, events>>

(* What call c is, by the last name of its path. *)
Kind(c) ==
  IF Len(c) = 1 THEN "install" ELSE IF Last(c) \in Installs THEN "handle" ELSE Last(c)

Service(c) ==
  CASE Kind(c) = "event" -> "event"
    [] Kind(c) = "handle" -> "slack"
    [] OTHER -> "auth"

Steps == {"queued", "committed", "refreshing", "emitting", "pushing",
          "telling", "reading", "done"}
Call == [at : Steps, left : SUBSET Installs,
         answer : {"none", "ok", "failed", "broken"}]
NewCall == [at |-> "queued", left |-> {}, answer |-> "none"]

At(c, step) == c \in DOMAIN calls /\ calls[c].at = step
Busy(c) == calls[c].at \notin {"queued", "done"}
(* Fault: a worker whose caller is gone is taken for free. *)
FreeWorkerOfLost(s) ==
  Cardinality({c \in DOMAIN calls :
    /\ Service(c) = s /\ Busy(c)
    /\ Len(c) > 1 => calls[Front(c)].at # "done"}) < pool[s]

FreeWorker(s) ==
  Cardinality({c \in DOMAIN calls : Service(c) = s /\ Busy(c)}) < pool[s]

Init ==
  /\ \E s \in Settings :
       pool = s.pool /\ slug = s.slug /\ troubles = s.troubles /\ listening = s.there
  /\ calls = <<>>
  /\ events = {}

-----------------------------------------------------------------------------
Request(r) ==
  /\ <<r>> \notin DOMAIN calls /\ r \notin listening
  /\ calls' = [c \in DOMAIN calls \cup {<<r>>} |->
                 IF c = <<r>> THEN NewCall ELSE calls[c]]
  /\ UNCHANGED <<pool, slug, troubles, listening, events>>

(* A free worker accepts c, and takes it to its first commit or call. *)
Accepted(c, kind) ==
  /\ At(c, "queued") /\ Kind(c) = kind
  /\ FreeWorker(Service(c))

(* c goes on to a step, which may call k and wait for its answer. *)
Goto(c, step) == calls' = [calls EXCEPT ![c].at = step]

Do(c, step, k) ==
  calls' = [d \in DOMAIN calls \cup {Append(c, k)} |->
    IF d = Append(c, k) THEN NewCall
    ELSE IF d = c THEN [calls[c] EXCEPT !.at = step, !.left = @ \ {k}]
    ELSE calls[d]]

Finish(c, answer) ==
  calls' = [calls EXCEPT ![c].at = "done", ![c].answer = answer]

(* The answer to a call of c; what is not "ok" is raised as a ClientError. *)
Answered(c, step, k) == At(c, step) /\ At(Append(c, k), "done")
AnsweredOk(c, step, k) ==
  Answered(c, step, k) /\ calls[Append(c, k)].answer = "ok"
Raises(c, step, k) ==
  Answered(c, step, k) /\ calls[Append(c, k)].answer # "ok"

MayBreak ==
  Cardinality({c \in DOMAIN calls : calls[c].answer = "broken"}) < troubles

-----------------------------------------------------------------------------
(* InstalledApps.post and InstallApp.post: the insert, and after its commit *)
(* DOMEventRegistry.emit, which keeps every exception to itself.            *)

InstallCommits(c) ==
  /\ Accepted(c, "install")
  /\ Goto(c, "committed")
  /\ listening' = IF slug[c[1]] = "slack" THEN listening \cup {c[1]} ELSE listening
  /\ UNCHANGED <<pool, slug, troubles, events>>

InstallEmits(c) ==
  /\ At(c, "committed") /\ Kind(c) = "install"
  /\ Do(c, "emitting", "event")
  /\ UNCHANGED <<pool, slug, troubles, listening, events>>

(* Fault: what emit raises is not caught. *)
InstallAnswersAsEmit(c) ==
  /\ Kind(c) = "install" /\ Answered(c, "emitting", "event")
  /\ Finish(c, IF calls[Append(c, "event")].answer = "ok" THEN "ok" ELSE "failed")
  /\ UNCHANGED <<pool, slug, troubles, listening, events>>

InstallAnswers(c) ==
  /\ Kind(c) = "install" /\ Answered(c, "emitting", "event")
  /\ Finish(c, "ok")
  /\ UNCHANGED <<pool, slug, troubles, listening, events>>

-----------------------------------------------------------------------------
(* Events.post: the insert, and after its commit, with every exception     *)
(* caught, a new access token and the push.                                *)

EventCommits(c) ==
  /\ Accepted(c, "event")
  /\ Goto(c, "committed")
  /\ events' = events \cup {c}
  /\ UNCHANGED <<pool, slug, troubles, listening>>

EventRefreshes(c) ==
  /\ At(c, "committed") /\ Kind(c) = "event"
  /\ Do(c, "refreshing", "refresh")
  /\ UNCHANGED <<pool, slug, troubles, listening, events>>

EventPushes(c) ==
  /\ Kind(c) = "event" /\ AnsweredOk(c, "refreshing", "refresh")
  /\ Do(c, "pushing", "push")
  /\ UNCHANGED <<pool, slug, troubles, listening, events>>

EventAnswers(c) ==
  /\ Kind(c) = "event"
  /\ Raises(c, "refreshing", "refresh") \/ Answered(c, "pushing", "push")
  /\ Finish(c, "ok")
  /\ UNCHANGED <<pool, slug, troubles, listening, events>>

(* generic_insert and the dump of the answer, for both: the row is refused, *)
(* or cannot be read again after its commit, or cannot be dumped.           *)
InsertBreaks(c) ==
  /\ MayBreak
  /\ \/ \E kind \in {"install", "event"} : Accepted(c, kind)
     \/ At(c, "committed")
     \/ Kind(c) = "install" /\ Answered(c, "emitting", "event")
     \/ Kind(c) = "event" /\ Raises(c, "refreshing", "refresh")
     \/ Kind(c) = "event" /\ Answered(c, "pushing", "push")
  /\ Finish(c, "broken")
  /\ UNCHANGED <<pool, slug, troubles, listening, events>>

-----------------------------------------------------------------------------
(* PushEventToApps.post: the installed apps that listen, one after another. *)
(* Slack listens to app-installed, which InstalledApps.post emits.          *)

(* Fault: the filter on App.listens_for is missing. *)
ListenersOfAll(c) == listening

Listeners(c) == IF Len(c) = 3 THEN listening ELSE {}

PushQueries(c) ==
  /\ Accepted(c, "push")
  /\ calls' = [calls EXCEPT ![c].at = "telling", ![c].left = Listeners(c)]
  /\ UNCHANGED <<pool, slug, troubles, listening, events>>

(* Told a, and may go on to the next: a ClientError is only noted. *)
ToldLast(c) ==
  \A a \in Installs : Append(c, a) \in DOMAIN calls => At(Append(c, a), "done")
SomeFailed(c) ==
  \E a \in Installs : Append(c, a) \in DOMAIN calls /\ calls[Append(c, a)].answer # "ok"

PushTells(c) ==
  /\ At(c, "telling") /\ ToldLast(c)
  /\ \E a \in calls[c].left : Do(c, "telling", a)
  /\ UNCHANGED <<pool, slug, troubles, listening, events>>

(* Fault: the first error ends the loop. *)
PushAnswersAtOnce(c) ==
  /\ At(c, "telling") /\ ToldLast(c)
  /\ calls[c].left = {} \/ SomeFailed(c)
  /\ Finish(c, IF SomeFailed(c) THEN "failed" ELSE "ok")
  /\ UNCHANGED <<pool, slug, troubles, listening, events>>

PushAnswers(c) ==
  /\ At(c, "telling") /\ ToldLast(c) /\ calls[c].left = {}
  /\ Finish(c, IF SomeFailed(c) THEN "failed" ELSE "ok")
  /\ UNCHANGED <<pool, slug, troubles, listening, events>>

-----------------------------------------------------------------------------
(* HandleDOMEvent.post of the Slack app and its AppInstallHandler, which   *)
(* has a method for each slug it knows.  The config may lack what the bot  *)
(* needs, and Slack may refuse what it is sent.                            *)

Installing(c) == slug[c[1]]

HandlerFails(c) ==
  /\ \/ Accepted(c, "handle")
     \/ Kind(c) = "handle" /\ Raises(c, "refreshing", "refresh")
     \/ Kind(c) = "handle" /\ Answered(c, "reading", "read")
  /\ Finish(c, "failed")
  /\ UNCHANGED <<pool, slug, troubles, listening, events>>

(* DOM.from_installed_app, for the client of emit and of calendar. *)
HandlerRefreshes(c) ==
  /\ Accepted(c, "handle") /\ Installing(c) \in {"slack", "calendar"}
  /\ Do(c, "refreshing", "refresh")
  /\ UNCHANGED <<pool, slug, troubles, listening, events>>

HandlerEmits(c) ==
  /\ Kind(c) = "handle" /\ Installing(c) = "slack"
  /\ AnsweredOk(c, "refreshing", "refresh")
  /\ Do(c, "emitting", "event")
  /\ UNCHANGED <<pool, slug, troubles, listening, events>>

HandlerReads(c) ==
  /\ Kind(c) = "handle" /\ Installing(c) = "calendar"
  /\ AnsweredOk(c, "refreshing", "refresh")
  /\ Do(c, "reading", "read")
  /\ UNCHANGED <<pool, slug, troubles, listening, events>>

HandlerAnswers(c) ==
  /\ \/ Accepted(c, "handle") /\ Installing(c) = "other"
     \/ Kind(c) = "handle" /\ Answered(c, "emitting", "event")
     \/ Kind(c) = "handle" /\ AnsweredOk(c, "reading", "read")
  /\ Finish(c, "ok")
  /\ UNCHANGED <<pool, slug, troubles, listening, events>>

(* Session.put, which issues an access token if the refresh token is still *)
(* good, and InstalledApp.get.                                             *)
LeafAnswers(c) ==
  /\ \/ Accepted(c, "refresh") /\ \E answer \in {"ok", "failed"} : Finish(c, answer)
     \/ Accepted(c, "read") /\ Finish(c, "ok")
  /\ UNCHANGED <<pool, slug, troubles, listening, events>>

-----------------------------------------------------------------------------
(* Fault: no worker takes the place of the one that is killed. *)
KillForGood(c) ==
  /\ MayBreak
  /\ Busy(c) \/ \E kind \in {"install", "event", "push", "handle"} : Accepted(c, kind)
  /\ Finish(c, "broken")
  /\ pool' = [pool EXCEPT ![Service(c)] = @ - 1]
  /\ UNCHANGED <<slug, troubles, listening, events>>

(* At any time from its acceptance on; what the kill of a refresh or a read *)
(* would tell is told by an answer of theirs, or of the handler's.  gunicorn *)
(* aborts a worker by an exception, and Events.post, once it is in its try  *)
(* block, returns the event from the finally clause all the same; a crash   *)
(* ends it there, too.                                                      *)
Kill(c) ==
  /\ MayBreak
  /\ Busy(c) \/ \E kind \in {"install", "event", "push", "handle"} : Accepted(c, kind)
  /\ \/ Finish(c, "broken")
     \/ /\ Kind(c) = "event" /\ calls[c].at \in {"refreshing", "pushing"}
        /\ Finish(c, "ok")
  /\ UNCHANGED <<pool, slug, troubles, listening, events>>

Work(c) ==
  \/ InstallCommits(c) \/ InstallEmits(c) \/ InstallAnswers(c)
  \/ EventCommits(c) \/ EventRefreshes(c) \/ EventPushes(c) \/ EventAnswers(c)
  \/ InsertBreaks(c)
  \/ PushQueries(c) \/ PushTells(c) \/ PushAnswers(c)
  \/ HandlerFails(c) \/ HandlerRefreshes(c) \/ HandlerEmits(c) \/ HandlerReads(c)
  \/ HandlerAnswers(c) \/ LeafAnswers(c)

Serve == \E c \in DOMAIN calls : Work(c) \/ Kill(c)

Next == (\E r \in Installs : Request(r)) \/ Serve

(* The services do not rest while there is something to do; in particular  *)
(* a worker that waits for ever is killed, by the arbiter's timeout.       *)
Spec == Init /\ [][Next]_vars /\ WF_vars(Serve)

-----------------------------------------------------------------------------
(* Properties.                                                             *)

(* The variables have their types, no service has more calls at work than  *)
(* workers, and a call that waits has made the call it waits for.          *)
TypeOK ==
  /\ pool \in [Services -> Nat]
  /\ slug \in [Installs -> {"slack", "calendar", "other"}]
  /\ troubles \in Nat
  /\ \A c \in DOMAIN calls :
       /\ calls[c] \in Call
       /\ IF Len(c) = 1 THEN c[1] \in Installs ELSE Front(c) \in DOMAIN calls
  /\ listening \subseteq Installs
  /\ events \subseteq DOMAIN calls
  /\ \A s \in Services :
       Cardinality({c \in DOMAIN calls : Service(c) = s /\ Busy(c)}) <= pool[s]

(* Whatever fails behind them, at any depth, the request to install and    *)
(* the posted event do not fail for it: an answer that is no success means *)
(* that their own worker was killed or that their own insert, its row's    *)
(* reading or its dump failed.  And a success is no mere silence about a   *)
(* failure: what it is answered for is committed.                          *)
FailuresStayBehind ==
  \A c \in DOMAIN calls :
    Kind(c) \in {"install", "event"} /\ calls[c].at = "done" =>
      /\ calls[c].answer \in {"ok", "broken"}
      /\ calls[c].answer = "ok" /\ Kind(c) = "event" => c \in events
      /\ calls[c].answer = "ok" /\ Kind(c) = "install" /\ slug[c[1]] = "slack"
           => c[1] \in listening

(* A set of calls that all wait, for one another or for a worker. *)
Waiting(c) ==
  \/ calls[c].at = "queued" /\ ~ FreeWorker(Service(c))
  \/ \E k \in {"event", "refresh", "push", "read"} \cup Installs :
       Append(c, k) \in DOMAIN calls /\ calls[Append(c, k)].at # "done"

Live == {c \in DOMAIN calls : calls[c].at # "done"}
Stuck == Live # {} /\ \A c \in Live : calls[c].at # "done" => Waiting(c)

(* A chain of calls holds two workers of apis/auth and one of apis/event   *)
(* while it waits for another one of them: with more workers than all the  *)
(* chains hold, the services never wait for each other, also with the      *)
(* calls that killed workers leave behind.  With fewer, they do.           *)
Enough ==
  LET chains == Cardinality({c \in DOMAIN calls : Len(c) = 1})
  IN  pool["auth"] > 2 * chains /\ pool["event"] > chains
EnoughWorkersNeverStuck == Enough => ~ Stuck

(* Every call is answered in the end, however few workers there are: the   *)
(* kills resolve what is stuck.                                            *)
EveryCallEnds == []<>(Live = {})

(* The pushes implement Delivery, kills and failing handlers included.     *)
PushOf(e) == Append(e, "push")
Events == {<<r, "event">> : r \in Installs}
            \cup {<<r, "event", "push", a, "event">> : r, a \in Installs}

Status(e) ==
  IF e \notin events THEN "none"
  ELSE IF PushOf(e) \notin DOMAIN calls
    THEN IF calls[e].at = "done" THEN "abandoned" ELSE "committed"
  ELSE IF At(PushOf(e), "done")
    THEN IF calls[PushOf(e)].answer = "broken" THEN "abandoned" ELSE "delivered"
  ELSE IF At(PushOf(e), "telling") THEN "pushing" ELSE "committed"

Promise == INSTANCE Delivery
  WITH Apps <- Installs,
       Heard <- {<<r, "event">> : r \in Installs},
       status <- [e \in Events |-> Status(e)],
       left <- [e \in Events |-> IF PushOf(e) \in DOMAIN calls
                                   THEN calls[PushOf(e)].left ELSE {}]

DeliveredAsPromised == Promise!Spec
=============================================================================
