------------------------------- MODULE SignUp --------------------------------
(***************************************************************************)
(* Signing up with an invitation and logging in: OAuthCallback.get of      *)
(* apis/auth resources/authenticate.py, and what people do with the links  *)
(* it answers.                                                             *)
(*                                                                         *)
(* A callback finds or creates a profile, its team's Slack bot and the     *)
(* profile's installation of the Slack app, in one database transaction    *)
(* that it commits at the end; then it announces the installation.  The    *)
(* token it sends is set long before the commit, and is sent with errors   *)
(* as well.  Callbacks run concurrently and fail anywhere.                 *)
(*                                                                         *)
(* Unique in the database are the email of a profile and the team of a     *)
(* bot: an INSERT waits for an open transaction that has inserted the same *)
(* value, and fails if it was committed.  Nothing makes the installation   *)
(* of an app unique.                                                       *)
(*                                                                         *)
(* Left out: installed_app_id, which changes the session only, and what    *)
(* the session contains (SessionStack).                                    *)
(***************************************************************************)
EXTENDS Naturals, FiniteSets

CONSTANTS
  People,         (* by email                                              *)
  Teams, Team,    (* Team[p]: p's team in Slack                            *)
  Registered,     (* those who may have a profile from the start           *)
  Requests,       (* the callbacks that can be under way at a time         *)
  Doors,          (* the services people come from: "slack", "google"      *)
  MaxFailures     (* a bound on failures of services and workers           *)

ASSUME PeopleAssumption == Registered \subseteq People /\ Team \in [People -> Teams]
ASSUME RequestsAssumption == IsFiniteSet(Requests)
ASSUME DoorsAssumption == Doors \subseteq {"slack", "google"}
ASSUME FailuresAssumption == MaxFailures \in Nat

(***************************************************************************)
(* A callback.  `service` is "slack" or "google" with the scopes that      *)
(* identify a person, or "slack bot": Slack with the scopes of the bot,    *)
(* whose access token it then carries.                                     *)
(***************************************************************************)
Tables == {"profile", "bot", "installed_app"}
Request ==
  [at : {"idle", "find profile", "create profile", "find bot", "create bot",
         "identified", "find app", "open channel", "commit", "announce"},
   who : People,
   service : {"slack", "google", "slack bot"},
   invite : BOOLEAN,
   known : BOOLEAN,         (* profile is not None                         *)
   bot : BOOLEAN,           (* bot is not None                             *)
   wrote : SUBSET Tables,   (* the rows its transaction has inserted       *)
   session : {"none", "profile", "app"},   (* flask.session, if to be saved *)
   outcome : {"none", "ok", "redirect", "refused", "error", "lost"}]

VARIABLES
  profile,     (* profile[p]: p's profile is in the table                  *)
  bot,         (* bot[t]: t's bot is                                       *)
  installed,   (* installed[p]: installations of the Slack app for p       *)
  announced,   (* announced[p]: the app-installed events posted for p      *)
  token,       (* token[p]: what the cookies of p's browser hold           *)
  granting,    (* granting[p]: p was sent to Slack to grant the bot        *)
  req,         (* req[r]: callback r                                       *)
  failures     (* how many there were                                      *)

tables == <<profile, bot, installed>>
vars == <<profile, bot, installed, announced, token, granting, req, failures>>

NoRequest(p) ==
  [at |-> "idle", who |-> p, service |-> "slack", invite |-> FALSE,
   known |-> FALSE, bot |-> FALSE, wrote |-> {}, session |-> "none",
   outcome |-> "none"]

Init ==
  /\ profile \in [People -> BOOLEAN]
  /\ \A p \in People : profile[p] => p \in Registered
  /\ bot = [t \in Teams |-> FALSE]
  /\ installed = [p \in People |-> 0]
  /\ announced = [p \in People |-> 0]
  /\ token = [p \in People |-> "none"]
  /\ granting = [p \in People |-> FALSE]
  /\ req \in [Requests -> {NoRequest(p) : p \in People}]
  /\ failures = 0

-----------------------------------------------------------------------------
(* What people do: come to the callback, by way of the service.            *)

Arrive(r, p, service, invite) ==
  /\ req[r].at = "idle"
  /\ req' = [req EXCEPT ![r] = [NoRequest(p) EXCEPT !.at = "find profile",
                                                    !.service = service,
                                                    !.invite = invite]]
  /\ UNCHANGED <<tables, announced, token, failures>>

(* OAuth.get without an invitation *)
LogIn(p) ==
  \E r \in Requests, service \in Doors :
    Arrive(r, p, service, FALSE) /\ UNCHANGED granting

(* SignUpByInvite.get, or OAuth.get with an invitation. *)
SignUpWithInvite(p) ==
  \E r \in Requests, service \in Doors :
    Arrive(r, p, service, TRUE) /\ UNCHANGED granting

(* Back from Slack, the bot's scopes granted; the state has the invite. *)
ReturnFromSlack(p) ==
  \E r \in Requests :
    /\ granting[p]
    /\ granting' = [granting EXCEPT ![p] = FALSE]
    /\ Arrive(r, p, "slack bot", TRUE)

-----------------------------------------------------------------------------
(* OAuthCallback.get.                                                      *)

At(r, place) == req[r].at = place
GoTo(r, place) == req' = [req EXCEPT ![r].at = place]

Ended(r, outcome) ==
  [NoRequest(req[r].who) EXCEPT !.invite = req[r].invite, !.outcome = outcome]

(* The answer; a transaction that is open is rolled back.  save_session    *)
(* sends the session if it is to be saved, whatever the status.            *)
Answer(r, outcome) ==
  /\ req' = [req EXCEPT ![r] = Ended(r, outcome)]
  /\ token' = [token EXCEPT ![req[r].who] =
                 IF req[r].session = "none" THEN @ ELSE req[r].session]

MayFail == failures < MaxFailures /\ failures' = failures + 1

(* Profile.query.filter(Profile.email == email) *)
FindProfile(r) ==
  /\ At(r, "find profile")
  /\ LET known == profile[req[r].who]
     IN  req' = [req EXCEPT
                   ![r].known = known,
                   ![r].at = IF ~known /\ req[r].invite
                               THEN "create profile" ELSE "find bot"]
  /\ UNCHANGED <<tables, announced, token, granting, failures>>

(* No other open transaction has inserted the same unique value. *)
EmailFree(r) ==
  \A u \in Requests \ {r} :
    ~("profile" \in req[u].wrote /\ req[u].who = req[r].who)
TeamFree(r) ==
  \A u \in Requests \ {r} :
    ~("bot" \in req[u].wrote /\ Team[req[u].who] = Team[req[r].who])

(* Definitions headed "Fault:" are mistaken variants of the one that       *)
(* follows them, for the exercises of the README.                          *)

(* Fault: the profile is committed at once. *)
CreateProfileCommitting(r) ==
  /\ At(r, "create profile")
  /\ EmailFree(r)
  /\ IF profile[req[r].who]
       THEN Answer(r, "error") /\ UNCHANGED profile
       ELSE /\ profile' = [profile EXCEPT ![req[r].who] = TRUE]
            /\ req' = [req EXCEPT ![r].known = TRUE, ![r].at = "find bot"]
            /\ UNCHANGED token
  /\ UNCHANGED <<bot, installed, announced, granting, failures>>

(* Profile.create_profile, and its flush: 500 if the email is taken. *)
CreateProfile(r) ==
  /\ At(r, "create profile")
  /\ EmailFree(r)
  /\ IF profile[req[r].who] THEN Answer(r, "error")
     ELSE /\ req' = [req EXCEPT ![r].known = TRUE, ![r].at = "find bot",
                                ![r].wrote = @ \cup {"profile"}]
          /\ UNCHANGED token
  /\ UNCHANGED <<tables, announced, granting, failures>>

(* bot_from_token: only Slack has bots; one can be made with its token. *)
FindBot(r) ==
  /\ At(r, "find bot")
  /\ LET found == req[r].service # "google" /\ bot[Team[req[r].who]]
     IN  req' = [req EXCEPT
                   ![r].bot = found,
                   ![r].at = IF ~found /\ req[r].service = "slack bot"
                               THEN "create bot" ELSE "identified"]
  /\ UNCHANGED <<tables, announced, token, granting, failures>>

(* The SlackBot and its flush: 500 if the team has got one meanwhile. *)
CreateBot(r) ==
  /\ At(r, "create bot")
  /\ TeamFree(r)
  /\ IF bot[Team[req[r].who]] THEN Answer(r, "error")
     ELSE /\ req' = [req EXCEPT ![r].bot = TRUE, ![r].at = "identified",
                                ![r].wrote = @ \cup {"bot"}]
          /\ UNCHANGED token
  /\ UNCHANGED <<tables, announced, granting, failures>>

(* Fault: the link does not come back with the invitation. *)
RedirectForgettingInvite(r) ==
  /\ At(r, "identified")
  /\ req[r].invite /\ ~req[r].bot
  /\ Answer(r, "redirect")
  /\ UNCHANGED <<tables, announced, granting, failures>>

(* Invited, and no bot: once more to Slack, for the scopes of one. *)
Redirect(r) ==
  /\ At(r, "identified")
  /\ req[r].invite /\ ~req[r].bot
  /\ granting' = [granting EXCEPT ![req[r].who] = TRUE]
  /\ Answer(r, "redirect")
  /\ UNCHANGED <<tables, announced, failures>>

(* No profile for the email: 401. *)
Refuse(r) ==
  /\ At(r, "identified")
  /\ ~req[r].invite /\ ~req[r].known
  /\ Answer(r, "refused")
  /\ UNCHANGED <<tables, announced, granting, failures>>

(* Fault: the session is the service's, not the profile's. *)
StartSessionOfService(r) ==
  /\ At(r, "identified")
  /\ req[r].known
  /\ req[r].invite => req[r].bot
  /\ req' = [req EXCEPT ![r].session = req[r].service,
                        ![r].at = IF req[r].invite THEN "find app" ELSE "commit"]
  /\ UNCHANGED <<tables, announced, token, granting, failures>>

(* _session_from_profile, overwrite and save. *)
StartSession(r) ==
  /\ At(r, "identified")
  /\ req[r].known
  /\ req[r].invite => req[r].bot
  /\ req' = [req EXCEPT ![r].session = "profile",
                        ![r].at = IF req[r].invite THEN "find app" ELSE "commit"]
  /\ UNCHANGED <<tables, announced, token, granting, failures>>

(* InstalledApp.query.filter(InstalledApp.app == slack_app).first() *)
FindApp(r) ==
  /\ At(r, "find app")
  /\ GoTo(r, IF installed[req[r].who] > 0 THEN "commit" ELSE "open channel")
  /\ UNCHANGED <<tables, announced, token, granting, failures>>

(* Fault: the session of the app is set before the commit. *)
OpenChannelSettingSession(r) ==
  /\ At(r, "open channel")
  /\ IF req[r].service # "slack bot"
       THEN Answer(r, "error") /\ UNCHANGED failures
       ELSE \/ /\ req' = [req EXCEPT ![r].wrote = @ \cup {"installed_app"},
                                     ![r].session = "app",
                                     ![r].at = "commit"]
               /\ UNCHANGED <<token, failures>>
            \/ MayFail /\ Answer(r, "error")
  /\ UNCHANGED <<tables, announced, granting>>

(* Fault: the event is posted before the commit. *)
OpenChannelAnnouncing(r) ==
  /\ At(r, "open channel")
  /\ req[r].service = "slack bot"
  /\ req' = [req EXCEPT ![r].wrote = @ \cup {"installed_app"},
                        ![r].at = "commit"]
  /\ announced' = [announced EXCEPT ![req[r].who] = @ + 1]
  /\ UNCHANGED <<tables, granting, token, failures>>

(* im.open with the bot's token from Slack's answer, a KeyError if that    *)
(* has none, then install_for_group; 409 if Slack does not open a channel. *)
OpenChannel(r) ==
  /\ At(r, "open channel")
  /\ IF req[r].service # "slack bot"
       THEN Answer(r, "error") /\ UNCHANGED failures
       ELSE \/ /\ req' = [req EXCEPT ![r].wrote = @ \cup {"installed_app"},
                                     ![r].at = "commit"]
               /\ UNCHANGED <<token, failures>>
            \/ MayFail /\ Answer(r, "error")
  /\ UNCHANGED <<tables, announced, granting>>

(* The tables when r's transaction is committed. *)
Written(r) ==
  LET p == req[r].who
      wrote == req[r].wrote
  IN  /\ profile' = [profile EXCEPT ![p] = @ \/ "profile" \in wrote]
      /\ bot' = [bot EXCEPT ![Team[p]] = @ \/ "bot" \in wrote]
      /\ installed' = [installed EXCEPT
                         ![p] = @ + IF "installed_app" \in wrote THEN 1 ELSE 0]

(* Fault: a commit that fails goes unnoticed. *)
CommitQuietly(r) ==
  /\ At(r, "commit")
  /\ Answer(r, "ok")
  /\ \/ Written(r) /\ UNCHANGED failures
     \/ MayFail /\ UNCHANGED tables
  /\ UNCHANGED <<announced, granting>>

(* db.session.commit(), and, with a new installation, its session. *)
Commit(r) ==
  /\ At(r, "commit")
  /\ Written(r)
  /\ IF "installed_app" \in req[r].wrote
       THEN /\ req' = [req EXCEPT ![r].wrote = {}, ![r].session = "app",
                                  ![r].at = "announce"]
            /\ UNCHANGED token
       ELSE Answer(r, "ok")
  /\ UNCHANGED <<announced, granting, failures>>

(* emit_app_install_event: an error of it is only printed. *)
Announce(r) ==
  /\ At(r, "announce")
  /\ \/ /\ announced' = [announced EXCEPT ![req[r].who] = @ + 1]
        /\ UNCHANGED failures
     \/ MayFail /\ UNCHANGED announced
  /\ Answer(r, "ok")
  /\ UNCHANGED <<tables, granting>>

(* Any other exception, the person's refusal or an unverified email among  *)
(* them, or a read that fails after the commit: 400 or 500.                *)
Error(r) ==
  /\ ~At(r, "idle")
  /\ MayFail
  /\ Answer(r, "error")
  /\ UNCHANGED <<tables, announced, granting>>

(* The worker is killed: no answer. *)
Die(r) ==
  /\ ~At(r, "idle")
  /\ MayFail
  /\ req' = [req EXCEPT ![r] = Ended(r, "lost")]
  /\ UNCHANGED <<tables, announced, token, granting>>

Handle(r) ==
  \/ FindProfile(r)
  \/ CreateProfile(r)
  \/ FindBot(r)
  \/ CreateBot(r)
  \/ Redirect(r)
  \/ Refuse(r)
  \/ StartSession(r)
  \/ FindApp(r)
  \/ OpenChannel(r)
  \/ Commit(r)
  \/ Announce(r)

Next ==
  \/ \E p \in People : LogIn(p) \/ SignUpWithInvite(p) \/ ReturnFromSlack(p)
  \/ \E r \in Requests : Handle(r) \/ Error(r) \/ Die(r)

Spec == Init /\ [][Next]_vars

(***************************************************************************)
(* A worker goes on with the request it has (its steps do not depend on    *)
(* another one's but for a unique value, which is set free when that one   *)
(* ends).  People do not give up: they follow a link to Slack and try      *)
(* their invitation again and again while they have no profile.            *)
(***************************************************************************)
TryAgain(p) == ~profile[p] /\ ~granting[p] /\ SignUpWithInvite(p)

Fairness ==
  /\ \A r \in Requests : WF_vars(Handle(r))
  /\ \A p \in People : SF_vars(TryAgain(p)) /\ SF_vars(ReturnFromSlack(p))
FairSpec == Spec /\ Fairness

-----------------------------------------------------------------------------
TypeOK ==
  /\ profile \in [People -> BOOLEAN]
  /\ bot \in [Teams -> BOOLEAN]
  /\ installed \in [People -> Nat]
  /\ announced \in [People -> Nat]
  /\ token \in [People -> {"none", "profile", "app"}]
  /\ granting \in [People -> BOOLEAN]
  /\ req \in [Requests -> Request]
  /\ failures \in 0..MaxFailures

(* Whoever had to sign up has all that a sign-up makes, and once: profile, *)
(* the team's bot and one installation of the Slack app, however often,    *)
(* with whom at the same time and with what failures it was tried.         *)
SignedUpWhole ==
  \A p \in People \ Registered :
    profile[p] => installed[p] = 1 /\ bot[Team[p]]

(* No half of a sign-up is left where there is no profile. *)
NothingWithoutProfile ==
  \A p \in People : ~profile[p] => installed[p] = 0

(* What a callback answered is so: the profile is there, and so is the     *)
(* installation if there was an invitation.                                *)
OkMeansDone ==
  \A r \in Requests :
    req[r].outcome = "ok" =>
      /\ profile[req[r].who]
      /\ req[r].invite => installed[req[r].who] > 0

(* A token with the groups of an installed app, which outlives the         *)
(* request, never names an installation that was rolled back.              *)
AppTokensAreReal ==
  \A p \in People : token[p] = "app" => installed[p] > 0

(* No installation is announced that is not there, nor any one twice. *)
AnnouncedIsInstalled == \A p \in People : announced[p] <= installed[p]

(* Whoever has an invitation and keeps trying is signed up in the end. *)
InvitedSignUp == \A p \in People : <>profile[p]
=============================================================================
