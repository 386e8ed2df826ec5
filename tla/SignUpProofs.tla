----------------------------- MODULE SignUpProofs ------------------------------
(***************************************************************************)
(* Proofs about SignUp, for any number of people, teams and callbacks at a *)
(* time and any number of failures: a sign-up is whole or nothing, what is *)
(* answered and put in tokens is so, and only what is installed is         *)
(* announced.                                                              *)
(***************************************************************************)
EXTENDS SignUp, FiniteSetTheorems, TLAPS

-----------------------------------------------------------------------------
(* The inductive invariant.                                                *)

(* What callback q knows and has written agrees with the tables and with   *)
(* where it is.  Whoever is to get a first installation of the app, and    *)
(* cannot have had a profile, is given the profile in the same             *)
(* transaction.                                                            *)
Sound(q) ==
  /\ q.at \in {"idle", "find profile", "create profile"} => q.wrote = {} /\ ~q.known
  /\ q.at \in {"idle", "find profile", "create profile"} => q.session = "none"
  /\ q.at = "create profile" => q.invite
  /\ q.at \in {"find app", "open channel"} => q.invite /\ q.bot /\ q.known
  /\ q.known => profile[q.who] \/ "profile" \in q.wrote
  /\ q.bot => bot[Team[q.who]] \/ "bot" \in q.wrote
  /\ "profile" \in q.wrote => q.invite /\ ~profile[q.who]
  /\ "installed_app" \in q.wrote => q.at = "commit"
  /\ q.at = "commit" =>
       /\ q.known
       /\ q.invite => /\ q.bot
                      /\ installed[q.who] > 0 \/ "installed_app" \in q.wrote
       /\ "installed_app" \in q.wrote => q.invite
  /\ q.at = "open channel" \/ "installed_app" \in q.wrote =>
       q.who \in Registered \/ "profile" \in q.wrote
  /\ q.at = "announce" => installed[q.who] > 0 /\ profile[q.who]
  /\ q.session = "app" => q.at = "announce"
  /\ q.outcome = "ok" => /\ profile[q.who]
                         /\ q.invite => installed[q.who] > 0

AllSound == \A r \in Requests : Sound(req[r])

(* No two transactions have inserted the same email. *)
EmailsApart ==
  \A r, u \in Requests :
    /\ r # u
    /\ "profile" \in req[r].wrote
    /\ "profile" \in req[u].wrote
    => req[r].who # req[u].who

IInv ==
  /\ TypeOK
  /\ AllSound
  /\ EmailsApart
  /\ SignedUpWhole
  /\ NothingWithoutProfile
  /\ AppTokensAreReal

-----------------------------------------------------------------------------
(* Initially the tables hold the profiles of those registered.             *)
LEMMA InitInv == Init => IInv
<1> SUFFICES ASSUME Init PROVE IInv
  OBVIOUS
<1>1. \A p \in People : NoRequest(p) \in Request
  BY DEF NoRequest, Request, Tables
<1>2. TypeOK
  BY <1>1, FailuresAssumption DEF Init, TypeOK
<1>3. \A p \in People : Sound(NoRequest(p))
  BY DEF Sound, NoRequest
<1>4. AllSound /\ EmailsApart
  <2>1. \A r \in Requests : Sound(req[r]) /\ req[r].wrote = {}
    BY <1>3 DEF Init, NoRequest
  <2> QED
    BY <2>1 DEF AllSound, EmailsApart
<1>5. SignedUpWhole /\ NothingWithoutProfile /\ AppTokensAreReal
  BY DEF Init, SignedUpWhole, NothingWithoutProfile, AppTokensAreReal
<1> QED
  BY <1>2, <1>4, <1>5 DEF IInv

(* A step that changes one callback and no table keeps the invariant, if   *)
(* the callback's new state is sound and it inserts no email twice.        *)
LEMMA LocalStep ==
  ASSUME IInv, NEW r \in Requests, NEW q \in Request,
         req' = [req EXCEPT ![r] = q], UNCHANGED tables,
         Sound(q),
         "profile" \in q.wrote =>
           \/ "profile" \in req[r].wrote /\ q.who = req[r].who
           \/ \A u \in Requests \ {r} :
                ~("profile" \in req[u].wrote /\ req[u].who = q.who),
         announced' \in [People -> Nat],
         granting' \in [People -> BOOLEAN],
         failures' \in 0..MaxFailures,
         \/ token' = token
         \/ /\ token' = [token EXCEPT ![req[r].who] =
                           IF req[r].session = "none" THEN @ ELSE req[r].session]
  PROVE  IInv'
<1>0. TypeOK /\ profile' = profile /\ bot' = bot /\ installed' = installed
  BY DEF IInv, tables
<1>1. TypeOK'
  <2>0. /\ req[r].who \in People
        /\ req[r].session \in {"none", "profile", "app"}
    BY <1>0 DEF TypeOK, Request
  <2>1. token' \in [People -> {"none", "profile", "app"}]
    BY <1>0, <2>0 DEF TypeOK
  <2>2. req' \in [Requests -> Request]
    BY DEF IInv, TypeOK
  <2> QED
    BY <1>0, <2>1, <2>2 DEF TypeOK
<1>2. AllSound'
  <2>1. SUFFICES ASSUME NEW u \in Requests PROVE Sound(req[u])'
    BY DEF AllSound
  <2>2. req'[u] = req[u] \/ req'[u] = q
    BY DEF IInv, TypeOK
  <2>3. Sound(req[u])
    BY DEF IInv, AllSound
  <2>4. CASE req'[u] = req[u]
    BY <1>0, <2>3, <2>4 DEF Sound
  <2>5. CASE req'[u] = q
    BY <1>0, <2>5 DEF Sound
  <2> QED
    BY <2>2, <2>4, <2>5
<1>3. EmailsApart'
  BY DEF IInv, EmailsApart, TypeOK
<1>4. (SignedUpWhole /\ NothingWithoutProfile)'
  BY DEF IInv, SignedUpWhole, NothingWithoutProfile, tables
<1>5. AppTokensAreReal'
  <2>1. req[r].session = "app" => installed[req[r].who] > 0
    BY DEF IInv, AllSound, Sound
  <2>2. SUFFICES ASSUME NEW p \in People, token'[p] = "app" PROVE installed[p] > 0
    BY <1>0 DEF AppTokensAreReal
  <2>3. token \in [People -> {"none", "profile", "app"}]
    BY <1>0 DEF TypeOK
  <2>4. CASE token'[p] = token[p]
    BY <2>2, <2>4 DEF IInv, AppTokensAreReal
  <2>5. CASE p = req[r].who /\ req[r].session = "app"
    BY <2>1, <2>5
  <2> QED
    BY <2>2, <2>3, <2>4, <2>5
<1> QED
  BY <1>1, <1>2, <1>3, <1>4, <1>5 DEF IInv

(* The end of a callback, answered or not. *)
LEMMA EndStep ==
  ASSUME IInv, NEW r \in Requests,
         NEW outcome \in {"ok", "redirect", "refused", "error", "lost"},
         \/ Answer(r, outcome)
         \/ req' = [req EXCEPT ![r] = Ended(r, outcome)] /\ UNCHANGED token,
         UNCHANGED tables,
         outcome = "ok" => /\ profile[req[r].who]
                           /\ req[r].invite => installed[req[r].who] > 0,
         announced' \in [People -> Nat],
         granting' \in [People -> BOOLEAN],
         failures' \in 0..MaxFailures
  PROVE  IInv'
<1>1. req[r] \in Request
  BY DEF IInv, TypeOK
<1>2. Ended(r, outcome) \in Request
  BY <1>1 DEF Ended, NoRequest, Request, Tables
<1>3. Sound(Ended(r, outcome)) /\ Ended(r, outcome).wrote = {}
  BY DEF Sound, Ended, NoRequest
<1>4. req' = [req EXCEPT ![r] = Ended(r, outcome)]
  BY DEF Answer
<1>5. \/ token' = token
      \/ token' = [token EXCEPT ![req[r].who] =
                     IF req[r].session = "none" THEN @ ELSE req[r].session]
  BY DEF Answer
<1> QED
  BY <1>2, <1>3, <1>4, <1>5, LocalStep

-----------------------------------------------------------------------------
(* The steps.                                                              *)

(* What a callback does between its arrival and its commit. *)
LEMMA HandleStep ==
  ASSUME IInv, NEW r \in Requests, Handle(r) \/ Error(r) \/ Die(r),
         ~Commit(r)
  PROVE  IInv'
<1>1. /\ TypeOK
      /\ req[r] \in Request
      /\ Sound(req[r])
  BY DEF IInv, TypeOK, AllSound
<1>2. /\ announced \in [People -> Nat]
      /\ granting \in [People -> BOOLEAN]
      /\ failures \in 0..MaxFailures
      /\ MaxFailures \in Nat
      /\ req[r].who \in People
  BY <1>1, FailuresAssumption DEF TypeOK, Request
<1>3. MayFail => failures' \in 0..MaxFailures
  BY <1>2 DEF MayFail
<1>4. CASE FindProfile(r)
  <2> DEFINE known == profile[req[r].who]
             q == [req[r] EXCEPT !.known = known,
                                 !.at = IF ~known /\ req[r].invite
                                          THEN "create profile" ELSE "find bot"]
  <2>1. req' = [req EXCEPT ![r] = q]
    BY <1>1, <1>4 DEF FindProfile, TypeOK
  <2>2. known \in BOOLEAN
    BY <1>1, <1>2 DEF TypeOK
  <2>3. q \in Request /\ q.wrote = req[r].wrote /\ q.who = req[r].who
    BY <1>1, <2>2 DEF Request
  <2>4. Sound(q)
    BY <1>1, <1>4, <2>2 DEF Sound, FindProfile, At, Request
  <2> HIDE DEF q
  <2> QED
    BY <1>2, <1>4, <2>1, <2>3, <2>4, LocalStep DEF FindProfile
<1>5. CASE CreateProfile(r)
  <2>1. CASE profile[req[r].who]
    <3>1. Answer(r, "error")
      BY <1>5, <2>1 DEF CreateProfile
    <3> QED
      BY <1>2, <1>5, <3>1, EndStep DEF CreateProfile
  <2>2. CASE ~profile[req[r].who]
    <3> DEFINE q == [req[r] EXCEPT !.known = TRUE, !.at = "find bot",
                                   !.wrote = @ \cup {"profile"}]
    <3>1. req' = [req EXCEPT ![r] = q] /\ UNCHANGED token
      BY <1>1, <1>5, <2>2 DEF CreateProfile, TypeOK
    <3>2. q \in Request /\ q.who = req[r].who
      BY <1>1 DEF Request, Tables
    <3>3. Sound(q)
      BY <1>1, <1>5, <2>2 DEF Sound, CreateProfile, At, Request, Tables
    <3>4. \A u \in Requests \ {r} :
            ~("profile" \in req[u].wrote /\ req[u].who = q.who)
      BY <1>5, <3>2 DEF CreateProfile, EmailFree
    <3> HIDE DEF q
    <3> QED
      BY <1>2, <1>5, <3>1, <3>2, <3>3, <3>4, LocalStep DEF CreateProfile
  <2> QED
    BY <2>1, <2>2
<1>6. CASE FindBot(r)
  <2> DEFINE found == req[r].service # "google" /\ bot[Team[req[r].who]]
             q == [req[r] EXCEPT !.bot = found,
                                 !.at = IF ~found /\ req[r].service = "slack bot"
                                          THEN "create bot" ELSE "identified"]
  <2>1. req' = [req EXCEPT ![r] = q]
    BY <1>1, <1>6 DEF FindBot, TypeOK
  <2>2. found \in BOOLEAN
    BY <1>1, <1>2, PeopleAssumption DEF TypeOK
  <2>3. q \in Request /\ q.wrote = req[r].wrote /\ q.who = req[r].who
    BY <1>1, <2>2 DEF Request
  <2>4. Sound(q)
    BY <1>1, <1>6, <2>2 DEF Sound, FindBot, At, Request
  <2> HIDE DEF q
  <2> QED
    BY <1>2, <1>6, <2>1, <2>3, <2>4, LocalStep DEF FindBot
<1>7. CASE CreateBot(r)
  <2>1. CASE bot[Team[req[r].who]]
    <3>1. Answer(r, "error")
      BY <1>7, <2>1 DEF CreateBot
    <3> QED
      BY <1>2, <1>7, <3>1, EndStep DEF CreateBot
  <2>2. CASE ~bot[Team[req[r].who]]
    <3> DEFINE q == [req[r] EXCEPT !.bot = TRUE, !.at = "identified",
                                   !.wrote = @ \cup {"bot"}]
    <3>1. req' = [req EXCEPT ![r] = q] /\ UNCHANGED token
      BY <1>1, <1>7, <2>2 DEF CreateBot, TypeOK
    <3>2. /\ q \in Request /\ q.who = req[r].who
          /\ "profile" \in q.wrote => "profile" \in req[r].wrote
      BY <1>1 DEF Request, Tables
    <3>3. Sound(q)
      BY <1>1, <1>7 DEF Sound, CreateBot, At, Request, Tables
    <3> HIDE DEF q
    <3> QED
      BY <1>2, <1>7, <3>1, <3>2, <3>3, LocalStep DEF CreateBot
  <2> QED
    BY <2>1, <2>2
<1>8. CASE Redirect(r)
  <2>1. granting' \in [People -> BOOLEAN]
    BY <1>2, <1>8 DEF Redirect
  <2> QED
    BY <1>2, <1>8, <2>1, EndStep DEF Redirect
<1>9. CASE Refuse(r)
  BY <1>2, <1>9, EndStep DEF Refuse
<1>10. CASE StartSession(r)
  <2> DEFINE q == [req[r] EXCEPT !.session = "profile",
                     !.at = IF req[r].invite THEN "find app" ELSE "commit"]
  <2>1. req' = [req EXCEPT ![r] = q]
    BY <1>1, <1>10 DEF StartSession, TypeOK
  <2>2. q \in Request /\ q.wrote = req[r].wrote /\ q.who = req[r].who
    BY <1>1 DEF Request
  <2>3. Sound(q)
    BY <1>1, <1>10 DEF Sound, StartSession, At, Request
  <2> HIDE DEF q
  <2> QED
    BY <1>2, <1>10, <2>1, <2>2, <2>3, LocalStep DEF StartSession
<1>11. CASE FindApp(r)
  <2> DEFINE q == [req[r] EXCEPT !.at =
                     IF installed[req[r].who] > 0 THEN "commit" ELSE "open channel"]
  <2>1. req' = [req EXCEPT ![r] = q]
    BY <1>1, <1>11 DEF FindApp, GoTo, TypeOK
  <2>2. q \in Request /\ q.wrote = req[r].wrote /\ q.who = req[r].who
    BY <1>1 DEF Request
  <2>3. ASSUME req[r].who \notin Registered, ~(installed[req[r].who] > 0)
        PROVE  ~profile[req[r].who]
    <3>1. installed[req[r].who] # 1
      BY <2>3
    <3> QED
      BY <1>2, <2>3, <3>1 DEF IInv, SignedUpWhole
  <2>4. req[r].at = "find app"
    BY <1>11 DEF FindApp, At
  <2>5. Sound(q)
    BY <1>1, <2>3, <2>4 DEF Sound, Request
  <2> HIDE DEF q
  <2> QED
    BY <1>2, <1>11, <2>1, <2>2, <2>5, LocalStep DEF FindApp
<1>12. CASE OpenChannel(r)
  <2>1. CASE Answer(r, "error")
    BY <1>2, <1>3, <1>12, <2>1, EndStep DEF OpenChannel
  <2>2. CASE ~Answer(r, "error")
    <3> DEFINE q == [req[r] EXCEPT !.wrote = @ \cup {"installed_app"},
                                   !.at = "commit"]
    <3>1. req' = [req EXCEPT ![r] = q] /\ UNCHANGED <<token, failures>>
      BY <1>1, <1>12, <2>2 DEF OpenChannel, TypeOK
    <3>2. /\ q \in Request /\ q.who = req[r].who
          /\ "profile" \in q.wrote => "profile" \in req[r].wrote
      BY <1>1 DEF Request, Tables
    <3>3. Sound(q)
      BY <1>1, <1>12 DEF Sound, OpenChannel, At, Request, Tables
    <3> HIDE DEF q
    <3> QED
      BY <1>2, <1>12, <3>1, <3>2, <3>3, LocalStep DEF OpenChannel
  <2> QED
    BY <2>1, <2>2
<1>13. CASE Announce(r)
  <2>1. announced' \in [People -> Nat]
    BY <1>2, <1>13 DEF Announce
  <2>2. failures' \in 0..MaxFailures
    BY <1>2, <1>3, <1>13 DEF Announce
  <2>3. installed[req[r].who] > 0 /\ profile[req[r].who]
    BY <1>1, <1>13 DEF Announce, At, Sound
  <2> QED
    BY <1>2, <1>13, <2>1, <2>2, <2>3, EndStep DEF Announce
<1>14. CASE Error(r)
  BY <1>2, <1>3, <1>14, EndStep DEF Error
<1>15. CASE Die(r)
  BY <1>2, <1>3, <1>15, EndStep DEF Die
<1> QED
  BY <1>4, <1>5, <1>6, <1>7, <1>8, <1>9, <1>10, <1>11, <1>12, <1>13, <1>14,
     <1>15 DEF Handle

(* A callback arrives. *)
LEMMA ArriveStep ==
  ASSUME IInv, NEW r \in Requests, NEW p \in People,
         NEW service \in {"slack", "google", "slack bot"}, NEW invite \in BOOLEAN,
         Arrive(r, p, service, invite),
         granting' \in [People -> BOOLEAN]
  PROVE  IInv'
<1> DEFINE q == [NoRequest(p) EXCEPT !.at = "find profile", !.service = service,
                                     !.invite = invite]
<1>1. q \in Request /\ q.wrote = {} /\ Sound(q)
  BY DEF NoRequest, Request, Sound
<1>2. /\ req' = [req EXCEPT ![r] = q]
      /\ UNCHANGED <<tables, announced, token, failures>>
  BY DEF Arrive
<1>3. announced \in [People -> Nat] /\ failures \in 0..MaxFailures
  BY DEF IInv, TypeOK
<1> HIDE DEF q
<1> QED
  BY <1>1, <1>2, <1>3, LocalStep
(* A commit: the rows the callback has written appear together. *)
LEMMA CommitStep ==
  ASSUME IInv, NEW r \in Requests, Commit(r)
  PROVE  IInv'
<1> DEFINE p == req[r].who
           wrote == req[r].wrote
           withApp == "installed_app" \in wrote
           q == IF withApp
                  THEN [req[r] EXCEPT !.wrote = {}, !.session = "app",
                                      !.at = "announce"]
                  ELSE Ended(r, "ok")
<1>1. /\ TypeOK
      /\ req[r] \in Request
      /\ Sound(req[r])
      /\ req[r].at = "commit"
      /\ p \in People /\ Team[p] \in Teams
  BY PeopleAssumption DEF IInv, TypeOK, AllSound, Commit, At, Request
<1>2. /\ profile' = [profile EXCEPT ![p] = @ \/ "profile" \in wrote]
      /\ bot' = [bot EXCEPT ![Team[p]] = @ \/ "bot" \in wrote]
      /\ installed' = [installed EXCEPT ![p] = @ + IF withApp THEN 1 ELSE 0]
  BY DEF Commit, Written
<1>3. /\ profile' \in [People -> BOOLEAN] /\ profile'[p]
      /\ bot' \in [Teams -> BOOLEAN]
      /\ installed' \in [People -> Nat]
  <2>1. profile[p] \/ "profile" \in wrote
    BY <1>1 DEF Sound
  <2>2. profile' = [profile EXCEPT ![p] = TRUE]
    BY <1>2, <2>1
  <2>3. profile \in [People -> BOOLEAN] /\ bot \in [Teams -> BOOLEAN]
    BY <1>1 DEF TypeOK
  <2>4. (bot[Team[p]] \/ "bot" \in wrote) \in BOOLEAN
    OBVIOUS
  <2>5. bot' \in [Teams -> BOOLEAN]
    BY <1>2, <2>3, <2>4
  <2>6. installed' \in [People -> Nat]
    BY <1>1, <1>2 DEF TypeOK
  <2> QED
    BY <1>1, <2>2, <2>3, <2>5, <2>6
<1>4. \A x \in People : /\ profile[x] => profile'[x]
                        /\ x # p => profile'[x] = profile[x]
                        /\ x # p => installed'[x] = installed[x]
                        /\ installed'[x] >= installed[x]
                        /\ bot[Team[x]] => bot'[Team[x]]
  BY <1>1, <1>2, PeopleAssumption DEF TypeOK
<1>5. req' = [req EXCEPT ![r] = q]
  BY <1>1 DEF Commit, Answer, TypeOK
<1>6. q \in Request /\ q.who = p /\ q.wrote = {}
  BY <1>1 DEF Request, Ended, NoRequest
<1>7. installed'[p] = installed[p] + IF withApp THEN 1 ELSE 0
  BY <1>1, <1>2 DEF TypeOK
<1>8. req[r].invite => installed'[p] > 0
  <2>1. installed[p] \in Nat
    BY <1>1 DEF TypeOK
  <2>2. req[r].invite => installed[p] > 0 \/ withApp
    BY <1>1 DEF Sound
  <2>3. installed[p] > 0 \/ withApp => installed'[p] > 0
    BY <1>7, <2>1
  <2> QED
    BY <2>2, <2>3
<1>9. Sound(req[r])'
  <2>0. req'[r] = q
    BY <1>1, <1>5 DEF TypeOK
  <2>1. CASE withApp
    <3>1. /\ q.at = "announce" /\ q.wrote = {} /\ q.known = req[r].known
          /\ q.bot = req[r].bot /\ q.outcome = req[r].outcome
          /\ q.session = "app" /\ q.invite = req[r].invite
      BY <1>1, <2>1 DEF Request
    <3>2. req[r].invite
      BY <1>1, <2>1 DEF Sound
    <3>3. q.bot => bot'[Team[p]]
      BY <1>1, <1>2, <3>1 DEF Sound, TypeOK
    <3>4. installed'[p] > 0
      BY <1>8, <3>2
    <3> HIDE DEF q
    <3> QED
      BY <1>3, <1>6, <2>0, <3>1, <3>3, <3>4 DEF Sound
  <2>2. CASE ~withApp
    <3>1. /\ q.at = "idle" /\ q.wrote = {} /\ q.known = FALSE
          /\ q.bot = FALSE /\ q.outcome = "ok"
          /\ q.session = "none" /\ q.invite = req[r].invite
      BY <1>1, <2>2 DEF Ended, NoRequest
    <3> HIDE DEF q
    <3> QED
      BY <1>3, <1>6, <1>8, <2>0, <3>1 DEF Sound
  <2> QED
    BY <2>1, <2>2
<1> HIDE DEF q
<1>10. AllSound'
  <2>1. SUFFICES ASSUME NEW u \in Requests, u # r PROVE Sound(req[u])'
    BY <1>1, <1>5, <1>9 DEF AllSound, TypeOK
  <2>2. req'[u] = req[u]
    BY <1>1, <1>5, <2>1 DEF TypeOK
  <2>3. Sound(req[u]) /\ req[u].who \in People
    BY <1>1 DEF IInv, AllSound, TypeOK, Request
  <2>4. installed[req[u].who] > 0 => installed'[req[u].who] > 0
    BY <1>1, <1>3, <1>4, <2>3 DEF TypeOK
  <2>5. "profile" \in req[u].wrote => ~profile'[req[u].who]
    <3>1. "profile" \in req[u].wrote /\ req[u].who = p => "profile" \notin wrote
      BY <2>1 DEF IInv, EmailsApart
    <3>2. "profile" \in req[u].wrote => ~profile[req[u].who]
      BY <2>3 DEF Sound
    <3> QED
      BY <1>1, <1>2, <1>4, <2>3, <3>1, <3>2 DEF TypeOK
  <2> QED
    BY <1>4, <2>2, <2>3, <2>4, <2>5 DEF Sound
<1>11. EmailsApart'
  BY <1>1, <1>5, <1>6 DEF IInv, EmailsApart, TypeOK
<1>12. SignedUpWhole'
  <2>1. SUFFICES ASSUME NEW x \in People \ Registered, profile'[x]
                 PROVE  installed'[x] = 1 /\ bot'[Team[x]]
    BY DEF SignedUpWhole
  <2>2. CASE x # p
    BY <1>4, <2>1, <2>2 DEF IInv, SignedUpWhole
  <2>3. CASE x = p /\ "profile" \in wrote
    <3>1. /\ installed[p] = 0
          /\ withApp
          /\ bot[Team[p]] \/ "bot" \in wrote
      BY <1>1, <2>3 DEF IInv, NothingWithoutProfile, Sound
    <3>2. installed'[p] = 1
      BY <1>7, <3>1
    <3>3. bot'[Team[p]]
      BY <1>1, <1>2, <3>1 DEF TypeOK
    <3> QED
      BY <2>3, <3>2, <3>3
  <2>4. CASE x = p /\ "profile" \notin wrote
    <3>1. profile[p] /\ ~withApp
      BY <1>1, <2>1, <2>4 DEF Sound
    <3>2. installed[p] = 1 /\ bot[Team[p]]
      BY <2>1, <2>4, <3>1 DEF IInv, SignedUpWhole
    <3> QED
      BY <1>4, <1>7, <2>4, <3>1, <3>2
  <2> QED
    BY <2>2, <2>3, <2>4
<1>13. NothingWithoutProfile'
  BY <1>3, <1>4 DEF IInv, NothingWithoutProfile
<1>14. token' \in [People -> {"none", "profile", "app"}] /\ AppTokensAreReal'
  <2>1. /\ req[r].session \in {"none", "profile"}
    BY <1>1 DEF Sound, Request
  <2>2. \/ token' = token
        \/ token' = [token EXCEPT ![p] = IF req[r].session = "none"
                                           THEN @ ELSE req[r].session]
    BY DEF Commit, Answer
  <2>3. token' \in [People -> {"none", "profile", "app"}]
    BY <1>1, <2>1, <2>2 DEF TypeOK
  <2>4. \A x \in People : token'[x] = "app" => token[x] = "app"
    BY <1>1, <2>1, <2>2 DEF TypeOK
  <2>5. \A x \in People : installed[x] > 0 => installed'[x] > 0
    BY <1>1, <1>3, <1>4 DEF TypeOK
  <2> QED
    BY <2>3, <2>4, <2>5 DEF IInv, AppTokensAreReal
<1>15. TypeOK'
  BY <1>1, <1>3, <1>5, <1>6, <1>14 DEF TypeOK, Commit
<1> QED
  BY <1>10, <1>11, <1>12, <1>13, <1>14, <1>15 DEF IInv

-----------------------------------------------------------------------------
(* The theorems.                                                           *)

LEMMA Invariance == Spec => []IInv
<1>1. Init => IInv
  BY InitInv
<1>2. IInv /\ [Next]_vars => IInv'
  <2> SUFFICES ASSUME IInv, [Next]_vars PROVE IInv'
    OBVIOUS
  <2>1. ASSUME NEW p \in People, LogIn(p) \/ SignUpWithInvite(p) PROVE IInv'
    <3>1. PICK r \in Requests, service \in Doors, invite \in BOOLEAN :
            Arrive(r, p, service, invite) /\ UNCHANGED granting
      BY <2>1 DEF LogIn, SignUpWithInvite
    <3>2. service \in {"slack", "google", "slack bot"}
      BY DoorsAssumption
    <3>3. granting' \in [People -> BOOLEAN]
      BY <3>1 DEF IInv, TypeOK
    <3> QED
      BY <3>1, <3>2, <3>3, ArriveStep
  <2>2. ASSUME NEW p \in People, ReturnFromSlack(p) PROVE IInv'
    <3>1. PICK r \in Requests : /\ granting' = [granting EXCEPT ![p] = FALSE]
                                /\ Arrive(r, p, "slack bot", TRUE)
      BY <2>2 DEF ReturnFromSlack
    <3>2. granting' \in [People -> BOOLEAN]
      BY <3>1 DEF IInv, TypeOK
    <3> QED
      BY <3>1, <3>2, ArriveStep
  <2>3. ASSUME NEW r \in Requests, Handle(r) \/ Error(r) \/ Die(r) PROVE IInv'
    <3>1. CASE Commit(r)
      BY <3>1, CommitStep
    <3>2. CASE ~Commit(r)
      BY <2>3, <3>2, HandleStep
    <3> QED
      BY <3>1, <3>2
  <2>4. CASE UNCHANGED vars
    BY <2>4 DEF vars, tables, IInv, TypeOK, AllSound, Sound, EmailsApart,
                SignedUpWhole, NothingWithoutProfile, AppTokensAreReal
  <2> QED
    BY <2>1, <2>2, <2>3, <2>4 DEF Next
<1> QED
  BY <1>1, <1>2, PTL DEF Spec

(* All variables keep their types: what the steps of OAuthCallback.get     *)
(* read is always there.                                                   *)
THEOREM TypeCorrect == Spec => []TypeOK
<1>1. IInv => TypeOK
  BY DEF IInv
<1> QED
  BY <1>1, Invariance, PTL

(* Sign-ups are whole or nothing: the unique email and the one commit at   *)
(* the end see to it that nobody gets a profile without the app, nor the   *)
(* app twice, whatever callbacks run at the same time and fail.            *)
THEOREM SignUpIsWhole == Spec => [](SignedUpWhole /\ NothingWithoutProfile)
<1>1. IInv => SignedUpWhole /\ NothingWithoutProfile
  BY DEF IInv
<1> QED
  BY <1>1, Invariance, PTL

(* The callback does not answer with a success that its transaction does   *)
(* not bear out.                                                           *)
THEOREM AnswersAreTrue == Spec => []OkMeansDone
<1>1. IInv => OkMeansDone
  BY DEF IInv, AllSound, Sound, OkMeansDone
<1> QED
  BY <1>1, Invariance, PTL

(* The session of an installed app is only sent once it is committed. *)
THEOREM AppTokensHaveApps == Spec => []AppTokensAreReal
<1>1. IInv => AppTokensAreReal
  BY DEF IInv
<1> QED
  BY <1>1, Invariance, PTL

-----------------------------------------------------------------------------
(* What is announced.                                                      *)

(* The callbacks that have committed an installation for p and have still  *)
(* to announce it.                                                         *)
Announcing(p) == {r \in Requests : req[r].at = "announce" /\ req[r].who = p}

(* There is an installation for each event that was or will be posted. *)
Counted ==
  \A p \in People : announced[p] + Cardinality(Announcing(p)) <= installed[p]

LEMMA AnnouncingIsFinite ==
  ASSUME NEW p
  PROVE  /\ IsFiniteSet(Announcing(p)) /\ Cardinality(Announcing(p)) \in Nat
         /\ IsFiniteSet(Announcing(p)') /\ Cardinality(Announcing(p)') \in Nat
<1>1. Announcing(p) \subseteq Requests /\ Announcing(p)' \subseteq Requests
  BY DEF Announcing
<1> QED
  BY <1>1, RequestsAssumption, FS_Subset, FS_CardinalityType

(* A callback that does not come to announce leaves no more to announce.   *)
LEMMA NoMoreToAnnounce ==
  ASSUME IInv, Counted, NEW r \in Requests, req'[r].at # "announce",
         \A u \in Requests \ {r} : req'[u] = req[u],
         UNCHANGED <<announced, installed>>
  PROVE  Counted'
<1> SUFFICES ASSUME NEW p \in People
             PROVE  announced[p] + Cardinality(Announcing(p)') <= installed[p]
  BY DEF Counted
<1>1. Announcing(p)' \subseteq Announcing(p)
  BY DEF Announcing, IInv, TypeOK
<1>2. Cardinality(Announcing(p)') <= Cardinality(Announcing(p))
  BY <1>1, AnnouncingIsFinite, FS_Subset
<1>3. announced[p] \in Nat /\ installed[p] \in Nat
  BY DEF IInv, TypeOK
<1> QED
  BY <1>2, <1>3, AnnouncingIsFinite DEF Counted

LEMMA CommitCounted ==
  ASSUME IInv, Counted, NEW r \in Requests, Commit(r)
  PROVE  Counted'
<1>1. req[r] \in Request /\ req \in [Requests -> Request] /\ req[r].at = "commit"
      /\ announced' = announced
  BY DEF IInv, TypeOK, Commit, At
<1>2. CASE "installed_app" \in req[r].wrote
  <2> DEFINE q == [req[r] EXCEPT !.wrote = {}, !.session = "app", !.at = "announce"]
             p == req[r].who
  <2>1. req' = [req EXCEPT ![r] = q] /\ q.at = "announce" /\ q.who = p /\ p \in People
    BY <1>1, <1>2 DEF Commit, Request
  <2>2. installed' = [installed EXCEPT ![p] = @ + 1]
    BY <1>2 DEF Commit, Written
  <2> HIDE DEF q, p
  <2> SUFFICES ASSUME NEW x \in People
               PROVE  announced[x] + Cardinality(Announcing(x)') <= installed'[x]
    BY <1>1 DEF Counted
  <2>3. announced[x] \in Nat /\ installed[x] \in Nat
        /\ announced[x] + Cardinality(Announcing(x)) <= installed[x]
    BY DEF IInv, TypeOK, Counted
  <2>4. CASE x = p
    <3>1. Announcing(x)' = Announcing(x) \cup {r} /\ r \notin Announcing(x)
      BY <1>1, <2>1, <2>4 DEF Announcing
    <3>2. Cardinality(Announcing(x)') = Cardinality(Announcing(x)) + 1
      BY <3>1, AnnouncingIsFinite, FS_AddElement
    <3>3. installed'[x] = installed[x] + 1
      BY <2>2, <2>4 DEF IInv, TypeOK
    <3> QED
      BY <2>3, <3>2, <3>3, AnnouncingIsFinite
  <2>5. CASE x # p
    <3>1. Announcing(x)' = Announcing(x)
      BY <1>1, <2>1, <2>5 DEF Announcing
    <3>2. installed'[x] = installed[x]
      BY <2>2, <2>5 DEF IInv, TypeOK
    <3> QED
      BY <2>3, <3>1, <3>2
  <2> QED
    BY <2>4, <2>5
<1>3. CASE "installed_app" \notin req[r].wrote
  <2>1. req' = [req EXCEPT ![r] = Ended(r, "ok")]
    BY <1>1, <1>3 DEF Commit, Answer
  <2>2. Ended(r, "ok").at # "announce"
    BY DEF Ended, NoRequest
  <2>3. installed' = installed
    <3>1. installed' = [installed EXCEPT ![req[r].who] = @ + 0]
      BY <1>3 DEF Commit, Written
    <3>2. installed \in [People -> Nat] /\ req[r].who \in People
      BY <1>1 DEF IInv, TypeOK, Request
    <3>3. installed[req[r].who] + 0 = installed[req[r].who]
      BY <3>2
    <3> QED
      BY <3>1, <3>2, <3>3
  <2>4. /\ req'[r].at # "announce"
        /\ \A u \in Requests \ {r} : req'[u] = req[u]
    BY <1>1, <2>1, <2>2
  <2> QED
    BY <1>1, <2>3, <2>4, NoMoreToAnnounce
<1> QED
  BY <1>2, <1>3

LEMMA AnnounceCounted ==
  ASSUME IInv, Counted, NEW r \in Requests, Announce(r)
  PROVE  Counted'
<1> DEFINE p == req[r].who
<1>0. req[r] \in Request /\ req \in [Requests -> Request]
  BY DEF IInv, TypeOK
<1>1. /\ req[r] \in Request /\ req \in [Requests -> Request] /\ req[r].at = "announce"
      /\ installed' = installed /\ p \in People
  BY <1>0 DEF Announce, At, Request, tables
<1>2. req' = [req EXCEPT ![r] = Ended(r, "ok")] /\ Ended(r, "ok").at # "announce"
  BY DEF Announce, Answer, Ended, NoRequest
<1>3. CASE announced' = announced
  <2>1. /\ req'[r].at # "announce"
        /\ \A u \in Requests \ {r} : req'[u] = req[u]
    BY <1>1, <1>2
  <2> QED
    BY <1>1, <1>3, <2>1, NoMoreToAnnounce
<1>4. CASE announced' = [announced EXCEPT ![p] = @ + 1]
  <2> HIDE DEF p
  <2> SUFFICES ASSUME NEW x \in People
               PROVE  announced'[x] + Cardinality(Announcing(x)') <= installed[x]
    BY <1>1 DEF Counted
  <2>1. announced[x] \in Nat /\ installed[x] \in Nat
        /\ announced[x] + Cardinality(Announcing(x)) <= installed[x]
    BY DEF IInv, TypeOK, Counted
  <2>2. CASE x = p
    <3>1. Announcing(x)' = Announcing(x) \ {r} /\ r \in Announcing(x)
      BY <1>1, <1>2, <2>2 DEF Announcing, p
    <3>2. Cardinality(Announcing(x)') = Cardinality(Announcing(x)) - 1
      BY <3>1, AnnouncingIsFinite, FS_RemoveElement
    <3>3. announced'[x] = announced[x] + 1
      BY <1>4, <2>2 DEF IInv, TypeOK
    <3> QED
      BY <2>1, <3>2, <3>3, AnnouncingIsFinite
  <2>3. CASE x # p
    <3>1. Announcing(x)' = Announcing(x)
      BY <1>1, <1>2, <2>3 DEF Announcing, p
    <3>2. announced'[x] = announced[x]
      BY <1>4, <2>3 DEF IInv, TypeOK
    <3> QED
      BY <2>1, <3>1, <3>2
  <2> QED
    BY <2>2, <2>3
<1> QED
  BY <1>3, <1>4 DEF Announce

(* All else announces nothing and installs nothing. *)
LEMMA OtherCounted ==
  ASSUME IInv, Counted, NEW r \in Requests,
         Handle(r) \/ Error(r) \/ Die(r), ~ Commit(r), ~ Announce(r)
  PROVE  Counted'
<1>1. UNCHANGED <<announced, installed>>
  BY DEF Handle, FindProfile, CreateProfile, FindBot, CreateBot, Redirect, Refuse,
     StartSession, FindApp, OpenChannel, Error, Die, tables
<1>2. req[r] \in Request
  BY DEF IInv, TypeOK
<1>3. \A outcome : Ended(r, outcome).at = "idle"
  BY DEF Ended, NoRequest
<1>4. req \in [Requests -> Request]
  BY DEF IInv, TypeOK
<1>5. /\ req'[r].at # "announce"
      /\ \A u \in Requests \ {r} : req'[u] = req[u]
  <2>0. ASSUME NEW q, q.at # "announce", req' = [req EXCEPT ![r] = q]
        PROVE  /\ req'[r].at # "announce"
               /\ \A u \in Requests \ {r} : req'[u] = req[u]
    BY <1>4, <2>0
  <2>1. CASE FindProfile(r)
    <3> DEFINE known == profile[req[r].who]
               q == [req[r] EXCEPT !.known = known,
                                   !.at = IF ~known /\ req[r].invite
                                            THEN "create profile" ELSE "find bot"]
    <3>1. req' = [req EXCEPT ![r] = q]
      BY <1>4, <2>1 DEF FindProfile
    <3>2. q.at # "announce"
      BY <1>2 DEF Request
    <3> HIDE DEF q
    <3> QED
      BY <2>0, <3>1, <3>2
  <2>2. CASE FindBot(r)
    <3> DEFINE found == req[r].service # "google" /\ bot[Team[req[r].who]]
               q == [req[r] EXCEPT !.bot = found,
                                   !.at = IF ~found /\ req[r].service = "slack bot"
                                            THEN "create bot" ELSE "identified"]
    <3>1. req' = [req EXCEPT ![r] = q]
      BY <1>4, <2>2 DEF FindBot
    <3>2. q.at # "announce"
      BY <1>2 DEF Request
    <3> HIDE DEF q
    <3> QED
      BY <2>0, <3>1, <3>2
  <2>3. CASE StartSession(r)
    <3> DEFINE q == [req[r] EXCEPT !.session = "profile",
                                   !.at = IF req[r].invite THEN "find app" ELSE "commit"]
    <3>1. req' = [req EXCEPT ![r] = q]
      BY <1>4, <2>3 DEF StartSession
    <3>2. q.at # "announce"
      BY <1>2 DEF Request
    <3> HIDE DEF q
    <3> QED
      BY <2>0, <3>1, <3>2
  <2>8. CASE FindApp(r)
    <3> DEFINE there == installed[req[r].who] > 0
               q == [req[r] EXCEPT !.at = IF there THEN "commit" ELSE "open channel"]
    <3>1. req' = [req EXCEPT ![r] = q]
      BY <1>4, <2>8 DEF FindApp, GoTo
    <3> HIDE DEF there
    <3>2. q.at # "announce"
      BY <1>2 DEF Request
    <3> HIDE DEF q
    <3> QED
      BY <2>0, <3>1, <3>2
  <2>5. CASE CreateProfile(r) /\ ~ Answer(r, "error")
    <3> DEFINE q == [req[r] EXCEPT !.known = TRUE, !.at = "find bot",
                                   !.wrote = @ \cup {"profile"}]
    <3>1. req' = [req EXCEPT ![r] = q]
      BY <1>4, <2>5 DEF CreateProfile
    <3>2. q.at # "announce"
      BY <1>2 DEF Request
    <3> HIDE DEF q
    <3> QED
      BY <2>0, <3>1, <3>2
  <2>6. CASE CreateBot(r) /\ ~ Answer(r, "error")
    <3> DEFINE q == [req[r] EXCEPT !.bot = TRUE, !.at = "identified",
                                   !.wrote = @ \cup {"bot"}]
    <3>1. req' = [req EXCEPT ![r] = q]
      BY <1>4, <2>6 DEF CreateBot
    <3>2. q.at # "announce"
      BY <1>2 DEF Request
    <3> HIDE DEF q
    <3> QED
      BY <2>0, <3>1, <3>2
  <2>7. CASE OpenChannel(r) /\ ~ Answer(r, "error")
    <3> DEFINE q == [req[r] EXCEPT !.wrote = @ \cup {"installed_app"}, !.at = "commit"]
    <3>1. req' = [req EXCEPT ![r] = q]
      BY <1>4, <2>7 DEF OpenChannel
    <3>2. q.at # "announce"
      BY <1>2 DEF Request
    <3> HIDE DEF q
    <3> QED
      BY <2>0, <3>1, <3>2
  <2>4. CASE Answer(r, "error") \/ Redirect(r) \/ Refuse(r) \/ Error(r) \/ Die(r)
    BY <1>3, <1>4, <2>4 DEF Redirect, Refuse, Error, Die, Answer
  <2> QED
    BY <2>1, <2>2, <2>3, <2>4, <2>5, <2>6, <2>7, <2>8 DEF Handle
<1> QED
  BY <1>1, <1>5, NoMoreToAnnounce

LEMMA CountedInv == IInv /\ Counted /\ [Next]_vars => Counted'
<1> SUFFICES ASSUME IInv, Counted, [Next]_vars PROVE Counted'
  OBVIOUS
<1>1. ASSUME NEW r \in Requests, NEW p, NEW service, NEW invite, Arrive(r, p, service, invite)
      PROVE  Counted'
  <2> DEFINE q == [NoRequest(p) EXCEPT !.at = "find profile", !.service = service,
                                       !.invite = invite]
  <2>1. q.at # "announce" /\ req' = [req EXCEPT ![r] = q]
    BY <1>1 DEF Arrive, NoRequest
  <2>2. UNCHANGED <<announced, installed>>
    BY <1>1 DEF Arrive, tables
  <2> HIDE DEF q
  <2>3. /\ req'[r].at # "announce"
        /\ \A u \in Requests \ {r} : req'[u] = req[u]
    BY <2>1 DEF IInv, TypeOK
  <2> QED
    BY <2>2, <2>3, NoMoreToAnnounce
<1>2. ASSUME NEW p \in People, LogIn(p) \/ SignUpWithInvite(p) \/ ReturnFromSlack(p)
      PROVE  Counted'
  BY <1>1, <1>2 DEF LogIn, SignUpWithInvite, ReturnFromSlack
<1>3. ASSUME NEW r \in Requests, Handle(r) \/ Error(r) \/ Die(r)
      PROVE  Counted'
  BY <1>3, CommitCounted, AnnounceCounted, OtherCounted
<1>4. CASE UNCHANGED vars
  BY <1>4 DEF vars, tables, Counted, Announcing
<1> QED
  BY <1>2, <1>3, <1>4 DEF Next

(* Each app-installed event has an installation of its own in the table:   *)
(* emit_app_install_event runs after the commit, once for each, and what   *)
(* is rolled back or killed before is never announced.                     *)
THEOREM AnnouncedAfterCommit == Spec => []AnnouncedIsInstalled
<1>1. Init => Counted
  <2> SUFFICES ASSUME Init, NEW p \in People
               PROVE  announced[p] + Cardinality(Announcing(p)) <= installed[p]
    BY DEF Counted
  <2>1. Announcing(p) = {}
    BY DEF Init, Announcing, NoRequest
  <2> QED
    BY <2>1, FS_EmptySet DEF Init
<1>2. IInv /\ Counted => AnnouncedIsInstalled
  <2> SUFFICES ASSUME IInv, Counted, NEW p \in People PROVE announced[p] <= installed[p]
    BY DEF AnnouncedIsInstalled
  <2>1. announced[p] \in Nat /\ installed[p] \in Nat
    BY DEF IInv, TypeOK
  <2> QED
    BY <2>1, AnnouncingIsFinite DEF Counted
<1> QED
  BY <1>1, <1>2, CountedInv, Invariance, PTL DEF Spec
=============================================================================
