----------------------------- MODULE AppsProofs -------------------------------
(***************************************************************************)
(* Proofs about Apps, for any number of apps, installations and requests.  *)
(***************************************************************************)
EXTENDS Apps, FiniteSetTheorems, SequenceTheorems, TLAPS

(* What an app requests and accepts is part of what it ever did. *)
Covered ==
  \A x \in AppRows : Exists(x) =>
    /\ Listed(app[x].requested) \subseteq ever[x].requested
    /\ app[x].accepts \subseteq ever[x].accepted

OfWas == \A i \in Installations : installed[i] # Nothing => installed[i].app \in was[i]

(* What a request has found, against the histories ev and w: its rows are  *)
(* of its kind, and what it is about to grant was requested by then.       *)
Fit(q, ev, w) ==
  /\ q.ask.op \in {"publish", "unpublish", "put app", "delete app"} =>
       q.app \in AppRows /\ q.seen \in App
  /\ q.ask.op = "install" =>
       /\ q.app \in AppRows
       /\ NamesConfig(q.ask) => q.ask.config[1] \in ev[q.app].accepted
       /\ q.want \subseteq ev[q.app].requested
  /\ q.ask.op = "put installed" =>
       /\ q.app \in AppRows /\ q.seen \in Installed
       /\ q.seen.app \in w[q.ask.id]
       /\ NamesConfig(q.ask) => q.ask.config[1] \in ev[q.app].accepted
       /\ \A s \in q.want : \/ s \in ev[q.app].requested
                            \/ \E x \in w[q.ask.id] : s \in ev[x].requested
  /\ q.ask.op = "uninstall" => q.seen \in Installed

RequestsFit == \A r \in Requests : req[r].at = "found" => Fit(req[r], ever, was)

IInv == TypeOK /\ Covered /\ OfWas /\ GrantedWereRequestedOnce /\ RequestsFit

-----------------------------------------------------------------------------
(* What requests ask for.                                                  *)
LEMMA AskIs ==
  ASSUME NEW a \in Asks
  PROVE  /\ a.op \in {"publish", "unpublish"} => a \in Publishing
         /\ a.op = "put app" => a \in Updating
         /\ a.op = "post app" => a \in Posting
         /\ a.op = "delete app" => a \in Deleting
         /\ a.op = "install" => a \in Installing
         /\ a.op = "put installed" => a \in Reinstalling
         /\ a.op = "uninstall" => a \in Uninstalling
         /\ a.op \in {"publish", "unpublish", "put app", "post app", "delete app",
                      "install", "put installed", "uninstall"}
<1>1. \/ a \in Publishing \/ a \in Updating \/ a \in Posting \/ a \in Deleting
      \/ a \in Installing \/ a \in Reinstalling \/ a \in Uninstalling
  BY AsksAssumption
<1>2. CASE a \in Publishing
  BY <1>2 DEF Publishing
<1>3. CASE a \in Updating
  BY <1>3 DEF Updating
<1>4. CASE a \in Posting
  BY <1>4 DEF Posting
<1>5. CASE a \in Deleting
  BY <1>5 DEF Deleting
<1>6. CASE a \in Installing
  BY <1>6 DEF Installing
<1>7. CASE a \in Reinstalling
  BY <1>7 DEF Reinstalling
<1>8. CASE a \in Uninstalling
  BY <1>8 DEF Uninstalling
<1> QED
  BY <1>1, <1>2, <1>3, <1>4, <1>5, <1>6, <1>7, <1>8

LEMMA GivenIs ==
  ASSUME NEW S, NEW f \in Maybe(S)
  PROVE  (f # <<>> => f \in Given(S)) /\ (f \in Given(S) => f[1] \in S)
BY DEF Maybe, Given

LEMMA GivenValue ==
  ASSUME NEW S, NEW f \in Given(S)
  PROVE  f[1] \in S /\ f # <<>>
BY DEF Given

LEMMA FoundIs ==
  ASSUME NEW q \in Request, q.at = "found"
  PROVE  /\ q.ask \in Asks /\ q.app \in AppRows \cup {Nothing}
         /\ q.seen \in App \cup Installed \cup {Nothing}
         /\ q.want \in SUBSET Scopes /\ q.read \in Seq(Groups)
BY DEF Request, NoRequest

LEMMA SavedIs ==
  ASSUME NEW q \in Request, q.at = "saved"
  PROVE  q.ask \in Asks /\ q.id \in Installations
BY DEF Request, NoRequest

LEMMA ReadersType ==
  ASSUME NEW a \in App
  PROVE  Readers(a) \in Seq(Groups)
<1>1. /\ a.read[0] # Nothing => <<a.read[0]>> \in Seq(Groups)
      /\ a.read[1] # Nothing => <<a.read[1]>> \in Seq(Groups)
  BY DEF App, Slots
<1> QED
  BY <1>1 DEF Readers

LEMMA WithoutType ==
  ASSUME NEW a \in App, NEW g \in Groups, NEW t \in Without(a, g)
  PROVE  t \in Seq(Groups)
<1> DEFINE rest == Range(Readers(a)) \ {g}
<1>1. Range(Readers(a)) \subseteq {a.read[0], a.read[1]}
  BY DEF Range, Readers
<1>2. IsFiniteSet({a.read[0], a.read[1]})
  <2>1. IsFiniteSet({a.read[1]})
    BY FS_Singleton
  <2>2. IsFiniteSet({a.read[1]} \cup {a.read[0]})
    BY <2>1, FS_AddElement
  <2>3. {a.read[1]} \cup {a.read[0]} = {a.read[0], a.read[1]}
    OBVIOUS
  <2> QED
    BY <2>2, <2>3
<1>3. IsFiniteSet(rest)
  BY <1>1, <1>2, FS_Subset
<1>4. Cardinality(rest) \in Nat
  BY <1>3, FS_CardinalityType
<1>5. rest \subseteq Groups
  BY ReadersType DEF Range
<1>6. t \in [1..Cardinality(rest) -> rest]
  BY DEF Without
<1> HIDE DEF rest
<1> QED
  BY <1>4, <1>5, <1>6

-----------------------------------------------------------------------------
(* The initial state, and what is left to show of a step.                  *)
LEMMA InitInv == Init => IInv
<1> SUFFICES ASSUME Init PROVE IInv
  OBVIOUS
<1>1. PICK t \in Starts : app = t.app /\ installed = t.installed
  BY DEF Init
<1>2. /\ t.app \in [AppRows -> App \cup {Nothing}]
      /\ t.installed \in [Installations -> Installed \cup {Nothing}]
      /\ \A i \in Installations : t.installed[i] # Nothing =>
           /\ t.app[t.installed[i].app] # Nothing
           /\ \A s \in Scopes : t.installed[i].granted[s]
                                  <= t.app[t.installed[i].app].requested[s]
           /\ t.installed[i].config
                \in t.app[t.installed[i].app].accepts \cup {Nothing}
  BY StartsAssumption
<1>3. /\ req = [r \in Requests |-> NoRequest]
      /\ touched = [r \in Requests |-> {}]
      /\ ever = [x \in AppRows |->
           IF Exists(x) THEN [requested |-> Listed(app[x].requested),
                              accepted |-> app[x].accepts] ELSE Never]
      /\ was = [i \in Installations |->
           IF installed[i] = Nothing THEN {} ELSE {installed[i].app}]
  BY DEF Init
<1>4. \A i \in Installations : installed[i] # Nothing =>
        installed[i] \in Installed /\ installed[i].app \in AppRows /\ Exists(installed[i].app)
  BY <1>1, <1>2 DEF Exists, Installed
<1>5. \A x \in AppRows : Exists(x) => app[x] \in App
  BY <1>1, <1>2 DEF Exists
<1>6. TypeOK
  <2>1. ever \in [AppRows -> [requested : SUBSET Scopes, accepted : SUBSET Configs]]
    BY <1>3, <1>5 DEF Listed, Never, App
  <2>2. was \in [Installations -> SUBSET AppRows]
    BY <1>3, <1>4
  <2>3. req \in [Requests -> Request] /\ touched \in [Requests -> SUBSET Rows]
    BY <1>3 DEF Request
  <2> QED
    BY <1>1, <1>2, <1>4, <2>1, <2>2, <2>3 DEF TypeOK
<1>7. Covered
  BY <1>3 DEF Covered
<1>8. OfWas
  BY <1>3 DEF OfWas
<1>9. GrantedWereRequestedOnce
  <2> SUFFICES ASSUME NEW i \in Installations, installed[i] # Nothing
               PROVE  /\ \A s \in Listed(installed[i].granted) :
                           \E x \in was[i] : s \in ever[x].requested
                      /\ installed[i].config # Nothing =>
                           \E x \in was[i] : installed[i].config \in ever[x].accepted
    BY DEF GrantedWereRequestedOnce
  <2> DEFINE x == installed[i].app
  <2>1. x \in was[i] /\ x \in AppRows /\ Exists(x) /\ app[x] \in App
    BY <1>3, <1>4, <1>5
  <2>2. ever[x].requested = Listed(app[x].requested) /\ ever[x].accepted = app[x].accepts
    BY <1>3, <2>1
  <2>3. installed[i].config # Nothing => installed[i].config \in ever[x].accepted
    BY <1>1, <1>2, <2>2
  <2>4. ASSUME NEW s \in Listed(installed[i].granted)
        PROVE  s \in ever[x].requested
    <3>1. s \in Scopes /\ installed[i].granted[s] > 0 /\ installed[i].granted[s] \in Nat
      BY <1>4 DEF Listed, Installed
    <3>2. installed[i].granted[s] <= app[x].requested[s] /\ app[x].requested[s] \in Nat
      BY <1>1, <1>2, <2>1, <3>1 DEF App
    <3> QED
      BY <2>2, <3>1, <3>2 DEF Listed
  <2> QED
    BY <2>1, <2>3, <2>4
<1>10. RequestsFit
  BY <1>3 DEF RequestsFit, NoRequest
<1> QED
  BY <1>6, <1>7, <1>8, <1>9, <1>10 DEF IInv

(* The histories only grow. *)
Later(ev, ev2, w, w2) ==
  /\ \A x \in AppRows : /\ ev[x].requested \subseteq ev2[x].requested
                        /\ ev[x].accepted \subseteq ev2[x].accepted
  /\ \A i \in Installations : w[i] \subseteq w2[i]

LEMMA FitLater ==
  ASSUME NEW q \in Request, q.at = "found", NEW ev, NEW ev2, NEW w, NEW w2,
         w \in [Installations -> SUBSET AppRows],
         Fit(q, ev, w), Later(ev, ev2, w, w2)
  PROVE  Fit(q, ev2, w2)
<1>1. q.ask.op = "put installed" => q.ask.id \in Installations
  BY FoundIs, AskIs DEF Reinstalling
<1>2. \A i \in Installations : w[i] \subseteq AppRows
  OBVIOUS
<1>3. q.ask.op = "put installed" => w[q.ask.id] \subseteq w2[q.ask.id] /\ w[q.ask.id] \subseteq AppRows
  BY <1>1, <1>2 DEF Later
<1>4. q.ask.op = "put installed" =>
        /\ q.seen.app \in w2[q.ask.id]
        /\ NamesConfig(q.ask) => q.ask.config[1] \in ev2[q.app].accepted
        /\ \A s \in q.want : \/ s \in ev2[q.app].requested
                             \/ \E x \in w2[q.ask.id] : s \in ev2[x].requested
  BY <1>3 DEF Fit, Later
<1>5. q.ask.op = "install" =>
        /\ NamesConfig(q.ask) => q.ask.config[1] \in ev2[q.app].accepted
        /\ q.want \subseteq ev2[q.app].requested
  BY DEF Fit, Later
<1> QED
  BY <1>4, <1>5 DEF Fit

(* A step of r that leaves the rows alone. *)
LEMMA QuietStep ==
  ASSUME IInv, NEW r \in Requests, NEW q \in Request,
         q.at = "found" => Fit(q, ever, was),
         req' = [req EXCEPT ![r] = q],
         UNCHANGED <<app, installed, touched, ever, was>>
  PROVE  IInv'
<1>1. TypeOK'
  <2>1. req' \in [Requests -> Request]
    BY DEF IInv, TypeOK
  <2> QED
    BY <2>1 DEF IInv, TypeOK, Exists
<1>2. Covered' /\ OfWas' /\ GrantedWereRequestedOnce'
  BY DEF IInv, Covered, OfWas, GrantedWereRequestedOnce, Exists, Listed
<1>3. RequestsFit'
  <2>1. \A p \in Requests : req'[p] = IF p = r THEN q ELSE req[p]
    BY DEF IInv, TypeOK
  <2> QED
    BY <2>1 DEF IInv, RequestsFit
<1> QED
  BY <1>1, <1>2, <1>3 DEF IInv

(* A step of r that writes rows. *)
LEMMA WriteStep ==
  ASSUME IInv, NEW r \in Requests, NEW q \in Request, q.at # "found",
         req' = [req EXCEPT ![r] = q],
         app' \in [AppRows -> App \cup {Nothing}],
         installed' \in [Installations -> Installed \cup {Nothing}],
         touched' \in [Requests -> SUBSET Rows],
         ever' \in [AppRows -> [requested : SUBSET Scopes, accepted : SUBSET Configs]],
         was' \in [Installations -> SUBSET AppRows],
         \A i \in Installations : installed'[i] # Nothing => app'[installed'[i].app] # Nothing,
         Covered', OfWas', GrantedWereRequestedOnce', Later(ever, ever', was, was')
  PROVE  IInv'
<1>1. TypeOK'
  <2>1. req' \in [Requests -> Request]
    BY DEF IInv, TypeOK
  <2> QED
    BY <2>1 DEF TypeOK, Exists
<1>2. RequestsFit'
  <2> SUFFICES ASSUME NEW p \in Requests, req'[p].at = "found"
               PROVE  Fit(req'[p], ever', was')
    BY DEF RequestsFit, Fit
  <2>1. p # r /\ req'[p] = req[p]
    BY DEF IInv, TypeOK
  <2>2. Fit(req[p], ever, was) /\ req[p] \in Request /\ was \in [Installations -> SUBSET AppRows]
    BY <2>1 DEF IInv, RequestsFit, TypeOK
  <2> QED
    BY <2>1, <2>2, FitLater
<1> QED
  BY <1>1, <1>2 DEF IInv

-----------------------------------------------------------------------------
(* Finding and validating.                                                 *)
LEMMA AnswerInv ==
  ASSUME IInv, NEW r \in Requests, NEW a \in Asks, NEW answer \in Answers,
         Answer(r, a, answer)
  PROVE  IInv'
<1>1. [at |-> "done", ask |-> a, answer |-> answer] \in Request
  BY DEF Request
<1> QED
  BY <1>1, QuietStep DEF Answer

LEMMA FoundInv ==
  ASSUME IInv, NEW r \in Requests, NEW a \in Asks, NEW x \in AppRows \cup {Nothing},
         NEW seen \in App \cup Installed \cup {Nothing}, NEW want \in SUBSET Scopes,
         NEW read \in Seq(Groups), Found(r, a, x, seen, want, read),
         Fit([at |-> "found", ask |-> a, app |-> x, seen |-> seen, want |-> want,
              read |-> read], ever, was)
  PROVE  IInv'
<1> DEFINE q == [at |-> "found", ask |-> a, app |-> x, seen |-> seen, want |-> want,
                 read |-> read]
<1>1. q \in Request
  BY DEF Request
<1>2. req' = [req EXCEPT ![r] = q] /\ UNCHANGED <<app, installed, touched, ever, was>>
  BY DEF Found
<1> HIDE DEF q
<1> QED
  BY <1>1, <1>2, QuietStep DEF q

LEMMA AnswersAre ==
  "ok" \in Answers /\ "no such" \in Answers /\ "refused" \in Answers /\ "failed" \in Answers
BY DEF Answers

LEMMA FindPublishInv ==
  ASSUME IInv, NEW r \in Requests, NEW a \in Asks, FindPublish(r, a)
  PROVE  IInv'
<1>1. a \in Publishing /\ a.op = "publish"
  BY AskIs DEF FindPublish, Begin
<1>2. a.app \in AppRows /\ a.group \in Groups
  BY <1>1 DEF Publishing
<1>3. CASE \E answer \in Answers : Answer(r, a, answer)
  BY <1>3, AnswerInv
<1>4. CASE /\ Exists(a.app)
           /\ Found(r, a, a.app, app[a.app], {}, Readers(app[a.app]) \o <<a.group>>)
  <2>1. app[a.app] \in App
    BY <1>2, <1>4 DEF IInv, TypeOK, Exists
  <2>2. Readers(app[a.app]) \o <<a.group>> \in Seq(Groups)
    <3>1. Readers(app[a.app]) \in Seq(Groups) /\ <<a.group>> \in Seq(Groups)
      BY <1>2, <2>1, ReadersType
    <3> QED
      BY <3>1
  <2>3. Fit([at |-> "found", ask |-> a, app |-> a.app, seen |-> app[a.app], want |-> {},
             read |-> Readers(app[a.app]) \o <<a.group>>], ever, was)
    BY <1>1, <1>2, <2>1 DEF Fit
  <2> QED
    BY <1>2, <1>4, <2>1, <2>2, <2>3, FoundInv
<1> QED
  BY <1>3, <1>4, AnswersAre DEF FindPublish

LEMMA FindUnpublishInv ==
  ASSUME IInv, NEW r \in Requests, NEW a \in Asks, FindUnpublish(r, a)
  PROVE  IInv'
<1>1. a \in Publishing /\ a.op = "unpublish"
  BY AskIs DEF FindUnpublish, Begin
<1>2. a.app \in AppRows /\ a.group \in Groups
  BY <1>1 DEF Publishing
<1>3. CASE \E answer \in Answers : Answer(r, a, answer)
  BY <1>3, AnswerInv
<1>4. ASSUME Exists(a.app), NEW read \in Without(app[a.app], a.group),
             Found(r, a, a.app, app[a.app], {}, read)
      PROVE  IInv'
  <2>1. app[a.app] \in App
    BY <1>2, <1>4 DEF IInv, TypeOK, Exists
  <2>2. read \in Seq(Groups)
    BY <1>2, <2>1, WithoutType
  <2>3. Fit([at |-> "found", ask |-> a, app |-> a.app, seen |-> app[a.app], want |-> {},
             read |-> read], ever, was)
    BY <1>1, <1>2, <2>1 DEF Fit
  <2> QED
    BY <1>2, <1>4, <2>1, <2>2, <2>3, FoundInv
<1> QED
  BY <1>3, <1>4, AnswersAre DEF FindUnpublish

LEMMA FindAppInv ==
  ASSUME IInv, NEW r \in Requests, NEW a \in Asks, FindApp(r, a)
  PROVE  IInv'
<1>1. a.op \in {"put app", "delete app"} /\ a.app \in AppRows
      /\ (a.op = "put app" => a.scopes \in Maybe(SUBSET Scopes))
  BY AskIs DEF FindApp, Begin, Updating, Deleting
<1>2. CASE Answer(r, a, "no such")
  BY <1>2, AnswerInv, AnswersAre
<1> DEFINE old == Listed(app[a.app].requested)
           want == IF a.op = "delete app" THEN {}
                   ELSE IF a.scopes = <<>> THEN old ELSE a.scopes[1]
<1>3. CASE /\ Exists(a.app)
           /\ Found(r, a, a.app, app[a.app], want, Readers(app[a.app]))
  <2>1. app[a.app] \in App
    BY <1>1, <1>3 DEF IInv, TypeOK, Exists
  <2>2. Readers(app[a.app]) \in Seq(Groups)
    BY <2>1, ReadersType
  <2>3. want \in SUBSET Scopes
    BY <1>1, GivenIs DEF Listed
  <2> HIDE DEF want
  <2>4. Fit([at |-> "found", ask |-> a, app |-> a.app, seen |-> app[a.app], want |-> want,
             read |-> Readers(app[a.app])], ever, was)
    BY <1>1, <2>1 DEF Fit
  <2> QED
    BY <1>1, <1>3, <2>1, <2>2, <2>3, <2>4, FoundInv
<1> QED
  BY <1>2, <1>3 DEF FindApp

LEMMA ReadableIs ==
  ASSUME IInv, NEW x, NEW g, ReadableBy(x, g), x \in AppRows
  PROVE  /\ app[x] \in App
         /\ Listed(app[x].requested) \subseteq ever[x].requested
         /\ app[x].accepts \subseteq ever[x].accepted
BY DEF IInv, TypeOK, ReadableBy, Exists, Covered

LEMMA FindToInstallInv ==
  ASSUME IInv, NEW r \in Requests, NEW a \in Asks, FindToInstall(r, a)
  PROVE  IInv'
<1>1. a \in Installing /\ a.op = "install"
  BY AskIs DEF FindToInstall, Begin
<1>2. a.app \in AppRows /\ a.scopes \in Maybe(SUBSET Scopes)
  BY <1>1 DEF Installing
<1>3. CASE \E answer \in Answers : Answer(r, a, answer)
  BY <1>3, AnswerInv
<1>4. CASE /\ ReadableBy(a.app, a.by) /\ Valid(a, a.app)
           /\ Found(r, a, a.app, Nothing, Granted(a, {}), <<>>)
  <2>1. /\ Listed(app[a.app].requested) \subseteq ever[a.app].requested
        /\ app[a.app].accepts \subseteq ever[a.app].accepted
    BY <1>2, <1>4, ReadableIs
  <2>2. Granted(a, {}) \in SUBSET Scopes /\ Granted(a, {}) \subseteq ever[a.app].requested
    BY <1>2, <1>4, <2>1, GivenIs DEF Granted, Valid
  <2>3. NamesConfig(a) => a.config[1] \in ever[a.app].accepted
    BY <1>4, <2>1 DEF Valid
  <2>4. Fit([at |-> "found", ask |-> a, app |-> a.app, seen |-> Nothing,
             want |-> Granted(a, {}), read |-> <<>>], ever, was)
    BY <1>1, <1>2, <2>2, <2>3 DEF Fit
  <2>5. <<>> \in Seq(Groups)
    OBVIOUS
  <2> QED
    BY <1>2, <1>4, <2>2, <2>4, <2>5, FoundInv
<1> QED
  BY <1>3, <1>4, AnswersAre DEF FindToInstall

LEMMA FindInstalledInv ==
  ASSUME IInv, NEW r \in Requests, NEW a \in Asks, FindInstalled(r, a)
  PROVE  IInv'
<1>1. a \in Reinstalling /\ a.op = "put installed"
  BY AskIs DEF FindInstalled, Begin
<1>2. /\ a.id \in Installations /\ a.app \in Maybe(AppRows)
      /\ a.scopes \in Maybe(SUBSET Scopes)
  BY <1>1 DEF Reinstalling
<1> DEFINE old == Listed(installed[a.id].granted)
           x == IF a.app = <<>> THEN installed[a.id].app ELSE a.app[1]
<1>3. CASE \E answer \in Answers : Answer(r, a, answer)
  BY <1>3, AnswerInv
<1>4. CASE /\ installed[a.id] # Nothing
           /\ ReadableBy(x, a.by) \/ NamesNothing(a)
           /\ Valid(a, x) /\ Found(r, a, x, installed[a.id], Granted(a, old), <<>>)
  <2>1. installed[a.id] \in Installed
    BY <1>2, <1>4 DEF IInv, TypeOK
  <2>2. x \in AppRows
    BY <1>2, <2>1, GivenIs DEF Installed
  <2> HIDE DEF x
  <2>3. ~ NamesNothing(a) => /\ Listed(app[x].requested) \subseteq ever[x].requested
                   /\ app[x].accepts \subseteq ever[x].accepted
    BY <1>4, <2>2, ReadableIs
  <2>4. Granted(a, old) \in SUBSET Scopes
    BY <1>2, GivenIs DEF Granted, Listed
  <2>5. \A s \in Granted(a, old) : \/ s \in ever[x].requested
                                   \/ \E y \in was[a.id] : s \in ever[y].requested
    <3>1. CASE a.scopes = <<>>
      BY <1>2, <1>4, <3>1 DEF Granted, IInv, GrantedWereRequestedOnce
    <3>2. CASE a.scopes # <<>>
      BY <1>4, <2>3, <3>2 DEF Granted, Valid, NamesNothing
    <3> QED
      BY <3>1, <3>2
  <2>6. NamesConfig(a) => a.config[1] \in ever[x].accepted
    BY <1>4, <2>3 DEF Valid, NamesNothing
  <2>7. installed[a.id].app \in was[a.id]
    BY <1>2, <1>4 DEF IInv, OfWas
  <2> DEFINE want == Granted(a, old)
  <2> HIDE DEF want
  <2>8. Fit([at |-> "found", ask |-> a, app |-> x, seen |-> installed[a.id],
             want |-> want, read |-> <<>>], ever, was)
    <3>1. \A s \in want : \/ s \in ever[x].requested
                          \/ \E y \in was[a.id] : s \in ever[y].requested
      BY <2>5 DEF want
    <3> QED
      BY <1>1, <2>1, <2>2, <2>6, <2>7, <3>1 DEF Fit
  <2>9. <<>> \in Seq(Groups)
    OBVIOUS
  <2> QED
    BY <1>4, <2>1, <2>2, <2>4, <2>8, <2>9, FoundInv DEF want
<1> QED
  BY <1>3, <1>4, AnswersAre DEF FindInstalled

LEMMA FindToUninstallInv ==
  ASSUME IInv, NEW r \in Requests, NEW a \in Asks, FindToUninstall(r, a)
  PROVE  IInv'
<1>1. a.op = "uninstall" /\ a.id \in Installations
  BY AskIs DEF FindToUninstall, Begin, Uninstalling
<1>2. CASE Answer(r, a, "no such")
  BY <1>2, AnswerInv, AnswersAre
<1>3. CASE /\ installed[a.id] # Nothing
           /\ Found(r, a, Nothing, installed[a.id], {}, <<>>)
  <2>1. installed[a.id] \in Installed
    BY <1>1, <1>3 DEF IInv, TypeOK
  <2>2. Fit([at |-> "found", ask |-> a, app |-> Nothing, seen |-> installed[a.id],
             want |-> {}, read |-> <<>>], ever, was)
    BY <1>1, <2>1 DEF Fit
  <2>3. <<>> \in Seq(Groups)
    OBVIOUS
  <2> QED
    BY <1>3, <2>1, <2>2, <2>3, FoundInv
<1> QED
  BY <1>2, <1>3 DEF FindToUninstall

-----------------------------------------------------------------------------
(* What the flush writes.                                                  *)
LEMMA TouchType ==
  ASSUME touched \in [Requests -> SUBSET Rows], NEW r, NEW row \in Rows, Touch(r, row)
  PROVE  touched' \in [Requests -> SUBSET Rows]
BY DEF Touch

LEMMA WrittenListIs ==
  ASSUME NEW rows \in [Scopes -> Nat], NEW seen \in [Scopes -> Nat],
         NEW want \in SUBSET Scopes
  PROVE  /\ WrittenList(rows, seen, want) \in [Scopes -> Nat]
         /\ Listed(WrittenList(rows, seen, want)) \subseteq Listed(rows) \cup want
BY DEF WrittenList, Listed

LEMMA WrittenSlotsType ==
  ASSUME NEW row \in [Slots -> Groups \cup {Nothing}],
         NEW seen \in [Slots -> Groups \cup {Nothing}], NEW tuple \in Seq(Groups)
  PROVE  WrittenSlots(row, seen, tuple) \in [Slots -> Groups \cup {Nothing}]
<1>1. \A k \in Slots : SlotsOf(tuple)[k] \in Groups \cup {Nothing}
  BY DEF SlotsOf, Slots
<1>2. \A k \in Slots :
        Column(row[k], seen[k], SlotsOf(tuple)[k]) \in Groups \cup {Nothing}
  BY <1>1 DEF Column
<1> QED
  BY <1>2 DEF WrittenSlots

LEMMA WrittenAppType ==
  ASSUME NEW q \in Request, q.at = "found", q.ask.op \in {"publish", "unpublish", "put app"},
         q.seen \in App, NEW row \in App
  PROVE  WrittenApp(q, row) \in App
<1>1. q.want \in SUBSET Scopes /\ q.read \in Seq(Groups)
  BY FoundIs
<1>2. /\ row.read \in [Slots -> Groups \cup {Nothing}]
      /\ row.requested \in [Scopes -> Nat] /\ row.accepts \in SUBSET Configs
      /\ q.seen.read \in [Slots -> Groups \cup {Nothing}]
      /\ q.seen.requested \in [Scopes -> Nat] /\ q.seen.accepts \in SUBSET Configs
  BY DEF App
<1>3. NewAccepts(q) \in SUBSET Configs
  <2>1. CASE q.ask.op # "put app" \/ q.ask.accepts = <<>>
    BY <1>2, <2>1 DEF NewAccepts
  <2>2. CASE q.ask.op = "put app" /\ q.ask.accepts # <<>>
    <3>1. q.ask.accepts \in Maybe(SUBSET Configs)
      BY <2>2, FoundIs, AskIs DEF Updating
    <3> QED
      BY <2>2, <3>1, GivenIs DEF NewAccepts
  <2> QED
    BY <2>1, <2>2
<1> DEFINE read == IF q.ask.op = "put app" THEN row.read
                   ELSE WrittenSlots(row.read, q.seen.read, q.read)
           requested == IF q.ask.op = "put app"
                          THEN WrittenList(row.requested, q.seen.requested, q.want)
                          ELSE row.requested
           accepts == Column(row.accepts, q.seen.accepts, NewAccepts(q))
<1>4. read \in [Slots -> Groups \cup {Nothing}]
  BY <1>1, <1>2, WrittenSlotsType
<1>5. requested \in [Scopes -> Nat]
  BY <1>1, <1>2, WrittenListIs
<1>6. accepts \in SUBSET Configs
  BY <1>2, <1>3 DEF Column
<1>7. WrittenApp(q, row) = [row EXCEPT !.read = read, !.requested = requested,
                                       !.accepts = accepts]
  BY DEF WrittenApp
<1> HIDE DEF read, requested, accepts
<1> QED
  BY <1>4, <1>5, <1>6, <1>7 DEF App

LEMMA DoneIs ==
  ASSUME NEW r \in Requests, req[r] \in Request, req[r].at = "found",
         NEW answer \in Answers, Done(r, answer)
  PROVE  \E q \in Request : q.at # "found" /\ req' = [req EXCEPT ![r] = q]
<1> DEFINE q == [at |-> "done", ask |-> req[r].ask, answer |-> answer]
<1>1. q \in Request
  BY FoundIs DEF Request
<1> QED
  BY <1>1 DEF Done

-----------------------------------------------------------------------------
(* The steps that write.                                                   *)
LEMMA SaveAppInv ==
  ASSUME IInv, NEW r \in Requests, SaveApp(r)
  PROVE  IInv'
<1> DEFINE q == req[r]
           x == q.app
           new == WrittenApp(q, app[x])
<1>1. /\ q \in Request /\ q.at = "found" /\ Fit(q, ever, was)
      /\ q.ask.op \in {"publish", "unpublish", "put app"}
  BY DEF IInv, TypeOK, RequestsFit, SaveApp, Saving
<1>2. x \in AppRows /\ q.seen \in App
  BY <1>1 DEF Fit
<1>3. app[x] \in App
  BY <1>1, <1>2 DEF SaveApp, Saving, Clear, Exists, IInv, TypeOK
<1>4. new \in App
  BY <1>1, <1>2, <1>3, WrittenAppType
<1>5. /\ app' = [app EXCEPT ![x] = new]
      /\ ever' = [ever EXCEPT ![x].requested = @ \cup Listed(new.requested),
                              ![x].accepted = @ \cup new.accepts]
      /\ installed' = installed /\ was' = was
      /\ (\E answer \in Answers : Done(r, answer)) /\ Touch(r, x)
  BY AnswersAre DEF SaveApp
<1> HIDE DEF new, x
<1>6. PICK d \in Request : d.at # "found" /\ req' = [req EXCEPT ![r] = d]
  BY <1>1, <1>5, DoneIs
<1>7. touched' \in [Requests -> SUBSET Rows]
  BY <1>2, <1>5, TouchType DEF IInv, TypeOK, Rows
<1>8. app' \in [AppRows -> App \cup {Nothing}] /\ new # Nothing
  BY <1>4, <1>5, NothingAssumption DEF IInv, TypeOK
<1>9. \A y \in AppRows : app'[y] = IF y = x THEN new ELSE app[y]
  BY <1>5 DEF IInv, TypeOK
<1>10. /\ ever' \in [AppRows -> [requested : SUBSET Scopes, accepted : SUBSET Configs]]
       /\ \A y \in AppRows :
            /\ ever'[y].requested = IF y = x THEN ever[y].requested \cup Listed(new.requested)
                                    ELSE ever[y].requested
            /\ ever'[y].accepted = IF y = x THEN ever[y].accepted \cup new.accepts
                                   ELSE ever[y].accepted
  <2>1. ever \in [AppRows -> [requested : SUBSET Scopes, accepted : SUBSET Configs]]
    BY DEF IInv, TypeOK
  <2>2. Listed(new.requested) \in SUBSET Scopes /\ new.accepts \in SUBSET Configs
    BY <1>4 DEF Listed, App
  <2> QED
    BY <1>2, <1>5, <2>1, <2>2
<1>11. Later(ever, ever', was, was')
  BY <1>5, <1>10 DEF Later
<1>12. Covered'
  BY <1>9, <1>10 DEF IInv, Covered, Exists, Listed
<1>13. OfWas'
  BY <1>5 DEF IInv, OfWas
<1>14. GrantedWereRequestedOnce'
  <2>1. \A i \in Installations : was[i] \subseteq AppRows
    BY DEF IInv, TypeOK
  <2> QED
    BY <1>5, <1>11, <2>1 DEF IInv, GrantedWereRequestedOnce, Later, Listed
<1>15. \A i \in Installations : installed'[i] # Nothing =>
         app'[installed'[i].app] # Nothing
  BY <1>5, <1>8, <1>9 DEF IInv, TypeOK, Exists, Installed
<1>16. /\ installed' \in [Installations -> Installed \cup {Nothing}]
       /\ was' \in [Installations -> SUBSET AppRows]
  BY <1>5 DEF IInv, TypeOK
<1> QED
  BY <1>6, <1>7, <1>8, <1>10, <1>11, <1>12, <1>13, <1>14, <1>15, <1>16, WriteStep

LEMMA DropAppInv ==
  ASSUME IInv, NEW r \in Requests, DropApp(r)
  PROVE  IInv'
<1> DEFINE q == req[r]
           x == q.app
<1>1. q \in Request /\ q.at = "found" /\ Fit(q, ever, was) /\ q.ask.op = "delete app"
  BY DEF IInv, TypeOK, RequestsFit, DropApp, Saving
<1>2. x \in AppRows
  BY <1>1 DEF Fit
<1>3. \A i \in Installations : installed[i] # Nothing => installed[i].app # x
  BY <1>1 DEF DropApp, Saving, Clear
<1>4. /\ app' = [app EXCEPT ![x] = Nothing]
      /\ installed' = installed /\ ever' = ever /\ was' = was
      /\ Done(r, "ok") /\ Touch(r, x)
  BY DEF DropApp
<1> HIDE DEF x
<1>5. PICK d \in Request : d.at # "found" /\ req' = [req EXCEPT ![r] = d]
  BY <1>1, <1>4, DoneIs, AnswersAre
<1>6. touched' \in [Requests -> SUBSET Rows]
  BY <1>2, <1>4, TouchType DEF IInv, TypeOK, Rows
<1>7. /\ app' \in [AppRows -> App \cup {Nothing}]
      /\ \A y \in AppRows : app'[y] = IF y = x THEN Nothing ELSE app[y]
  BY <1>4 DEF IInv, TypeOK
<1>8. Later(ever, ever', was, was')
  BY <1>4 DEF Later
<1>9. Covered' /\ OfWas' /\ GrantedWereRequestedOnce'
  BY <1>4, <1>7 DEF IInv, Covered, Exists, OfWas, GrantedWereRequestedOnce, Listed
<1>10. \A i \in Installations : installed'[i] # Nothing =>
         app'[installed'[i].app] # Nothing
  BY <1>3, <1>4, <1>7 DEF IInv, TypeOK, Exists, Installed
<1>11. /\ installed' \in [Installations -> Installed \cup {Nothing}]
       /\ was' \in [Installations -> SUBSET AppRows]
       /\ ever' \in [AppRows -> [requested : SUBSET Scopes, accepted : SUBSET Configs]]
  BY <1>4 DEF IInv, TypeOK
<1> QED
  BY <1>5, <1>6, <1>7, <1>8, <1>9, <1>10, <1>11, WriteStep

(* A step that writes one installation, i. *)
LEMMA InstalledStep ==
  ASSUME IInv, NEW r \in Requests, NEW d \in Request, d.at # "found",
         req' = [req EXCEPT ![r] = d],
         NEW i \in Installations, NEW row \in Installed \cup {Nothing},
         NEW apps \in SUBSET AppRows, was[i] \subseteq apps,
         installed' = [installed EXCEPT ![i] = row], was' = [was EXCEPT ![i] = apps],
         Touch(r, i), UNCHANGED <<app, ever>>,
         row # Nothing =>
           /\ row.app \in apps /\ Exists(row.app)
           /\ \A s \in Listed(row.granted) : \E x \in apps : s \in ever[x].requested
           /\ row.config # Nothing => \E x \in apps : row.config \in ever[x].accepted
  PROVE  IInv'
<1>1. touched' \in [Requests -> SUBSET Rows]
  BY TouchType DEF IInv, TypeOK, Rows
<1>2. /\ installed' \in [Installations -> Installed \cup {Nothing}]
      /\ \A j \in Installations : installed'[j] = IF j = i THEN row ELSE installed[j]
  BY DEF IInv, TypeOK
<1>3. /\ was' \in [Installations -> SUBSET AppRows]
      /\ \A j \in Installations : was'[j] = IF j = i THEN apps ELSE was[j]
  BY DEF IInv, TypeOK
<1>4. Later(ever, ever', was, was')
  BY <1>3 DEF Later
<1>5. Covered'
  BY DEF IInv, Covered, Exists
<1>6. OfWas'
  BY <1>2, <1>3 DEF IInv, OfWas
<1>7. GrantedWereRequestedOnce'
  BY <1>2, <1>3 DEF IInv, GrantedWereRequestedOnce, Listed
<1>8. \A j \in Installations : installed'[j] # Nothing => app'[installed'[j].app] # Nothing
  BY <1>2 DEF IInv, TypeOK, Exists
<1>9. /\ app' \in [AppRows -> App \cup {Nothing}]
      /\ ever' \in [AppRows -> [requested : SUBSET Scopes, accepted : SUBSET Configs]]
  BY DEF IInv, TypeOK
<1> QED
  BY <1>1, <1>2, <1>3, <1>4, <1>5, <1>6, <1>7, <1>8, <1>9, WriteStep

LEMMA UninstallInv ==
  ASSUME IInv, NEW r \in Requests, Uninstall(r)
  PROVE  IInv'
<1>1. req[r] \in Request /\ req[r].at = "found" /\ req[r].ask.op = "uninstall"
  BY DEF IInv, TypeOK, Uninstall, Saving
<1> DEFINE i == req[r].ask.id
<1>2. i \in Installations
  BY <1>1, FoundIs, AskIs DEF Uninstalling
<1>3. PICK d \in Request : d.at # "found" /\ req' = [req EXCEPT ![r] = d]
  BY <1>1, DoneIs, AnswersAre DEF Uninstall
<1>4. /\ installed' = [installed EXCEPT ![i] = Nothing]
      /\ UNCHANGED <<app, ever, was>> /\ Touch(r, i)
  BY DEF Uninstall
<1> HIDE DEF i
<1>5. was' = [was EXCEPT ![i] = was[i]] /\ was[i] \in SUBSET AppRows
  BY <1>2, <1>4 DEF IInv, TypeOK
<1> QED
  BY <1>2, <1>3, <1>4, <1>5, InstalledStep

LEMMA ConfigIs ==
  ASSUME NEW a, a.config \in Maybe(Configs \cup {Nothing})
  PROVE  /\ ConfigOf(a) \in Configs \cup {Nothing}
         /\ ConfigOf(a) # Nothing => NamesConfig(a) /\ ConfigOf(a) = a.config[1]
         /\ NamesConfig(a) => ConfigOf(a) = a.config[1]
BY DEF ConfigOf, NamesConfig, Maybe, Given

LEMMA SaveInstallInv ==
  ASSUME IInv, NEW r \in Requests, SaveInstall(r)
  PROVE  IInv'
<1> DEFINE q == req[r]
           granted == [s \in Scopes |-> IF s \in q.want THEN 1 ELSE 0]
           config == ConfigOf(q.ask)
           row == [app |-> q.app, config |-> config, granted |-> granted]
<1>1. /\ q \in Request /\ q.at = "found" /\ Fit(q, ever, was) /\ q.ask.op = "install"
      /\ Exists(q.app)
  BY DEF IInv, TypeOK, RequestsFit, SaveInstall, Saving, Clear
<1>2. /\ q.app \in AppRows
      /\ NamesConfig(q.ask) => q.ask.config[1] \in ever[q.app].accepted
      /\ q.want \subseteq ever[q.app].requested
  BY <1>1 DEF Fit
<1>3. q.ask \in Asks /\ q.ask.config \in Maybe(Configs \cup {Nothing})
  BY <1>1, FoundIs, AskIs DEF Installing
<1>4. PICK i \in Installations :
        /\ was[i] = {}
        /\ installed' = [installed EXCEPT ![i] = row]
        /\ was' = [was EXCEPT ![i] = {q.app}]
        /\ req' = [req EXCEPT ![r] = [at |-> "saved", ask |-> q.ask, id |-> i]]
        /\ Touch(r, i)
  BY DEF SaveInstall
<1>5. UNCHANGED <<app, ever>>
  BY DEF SaveInstall
<1>6. [at |-> "saved", ask |-> q.ask, id |-> i] \in Request
  BY <1>3 DEF Request
<1>7. granted \in [Scopes -> Nat] /\ Listed(granted) \subseteq q.want
  BY DEF Listed
<1>8. /\ config \in Configs \cup {Nothing}
      /\ config # Nothing => config \in ever[q.app].accepted
  BY <1>2, <1>3, ConfigIs
<1> HIDE DEF granted, config
<1>9. row \in Installed
  BY <1>2, <1>8, <1>7 DEF Installed
<1> DEFINE d == [at |-> "saved", ask |-> q.ask, id |-> i]
           apps == {q.app}
<1>10. row # Nothing =>
         /\ row.app \in apps /\ Exists(row.app)
         /\ \A s \in Listed(row.granted) : \E x \in apps : s \in ever[x].requested
         /\ row.config # Nothing => \E x \in apps : row.config \in ever[x].accepted
  BY <1>1, <1>2, <1>7, <1>8
<1>11. d \in Request /\ d.at # "found" /\ req' = [req EXCEPT ![r] = d]
  BY <1>4, <1>6
<1>12. /\ apps \in SUBSET AppRows /\ was[i] \subseteq apps
       /\ installed' = [installed EXCEPT ![i] = row] /\ was' = [was EXCEPT ![i] = apps]
       /\ Touch(r, i)
  BY <1>2, <1>4
<1> HIDE DEF row, d, apps
<1> QED
  BY <1>5, <1>9, <1>10, <1>11, <1>12, InstalledStep

LEMMA SaveInstalledInv ==
  ASSUME IInv, NEW r \in Requests, SaveInstalled(r)
  PROVE  IInv'
<1> DEFINE q == req[r]
           i == q.ask.id
           old == installed[i]
           to == Column(old.app, q.seen.app, q.app)
           granted == WrittenList(old.granted, q.seen.granted, q.want)
           config == IF q.ask.config = <<>> THEN old.config
                     ELSE Column(old.config, q.seen.config, q.ask.config[1])
           row == [old EXCEPT !.app = to, !.granted = granted, !.config = config]
           apps == was[i] \cup {to}
<1>1. /\ q \in Request /\ q.at = "found" /\ Fit(q, ever, was)
      /\ q.ask.op = "put installed"
      /\ old # Nothing /\ (q.app # q.seen.app => Exists(q.app))
  BY DEF IInv, TypeOK, RequestsFit, SaveInstalled, Saving, Clear
<1>2. /\ q.app \in AppRows /\ q.seen \in Installed /\ q.seen.app \in was[i]
      /\ NamesConfig(q.ask) => q.ask.config[1] \in ever[q.app].accepted
      /\ \A s \in q.want : \/ s \in ever[q.app].requested
                           \/ \E x \in was[i] : s \in ever[x].requested
  BY <1>1 DEF Fit
<1>3. /\ i \in Installations /\ q.want \in SUBSET Scopes
      /\ q.ask \in Asks /\ q.ask.config \in Maybe(Configs \cup {Nothing})
  BY <1>1, FoundIs, AskIs DEF Reinstalling
<1>4. /\ old \in Installed /\ Exists(old.app) /\ old.app \in was[i]
      /\ \A s \in Listed(old.granted) : \E x \in was[i] : s \in ever[x].requested
      /\ old.config # Nothing => \E x \in was[i] : old.config \in ever[x].accepted
      /\ was[i] \subseteq AppRows
  BY <1>1, <1>3 DEF IInv, TypeOK, OfWas, GrantedWereRequestedOnce
<1>5. /\ old.app \in AppRows /\ old.granted \in [Scopes -> Nat]
      /\ old.config \in Configs \cup {Nothing}
      /\ q.seen.granted \in [Scopes -> Nat]
  BY <1>2, <1>4 DEF Installed
<1>6. /\ installed' = [installed EXCEPT ![i].app = to, ![i].granted = granted,
                                        ![i].config = config]
      /\ was' = [was EXCEPT ![i] = apps]
      /\ req' = [req EXCEPT ![r] = [at |-> "saved", ask |-> q.ask, id |-> i]]
      /\ Touch(r, i) /\ UNCHANGED <<app, ever>>
  BY DEF SaveInstalled
<1> DEFINE d == [at |-> "saved", ask |-> q.ask, id |-> i]
<1>7. d \in Request /\ d.at # "found" /\ req' = [req EXCEPT ![r] = d]
  BY <1>3, <1>6 DEF Request
<1>8. to \in AppRows /\ Exists(to) /\ q.app \in apps
  BY <1>1, <1>2, <1>4, <1>5 DEF Column
<1>9. granted \in [Scopes -> Nat] /\ Listed(granted) \subseteq Listed(old.granted) \cup q.want
  BY <1>3, <1>5, WrittenListIs
<1>10. /\ config \in Configs \cup {Nothing}
       /\ config # Nothing => \E x \in apps : config \in ever[x].accepted
  <2>1. CASE config = old.config
    BY <1>4, <1>5, <2>1
  <2>2. CASE q.ask.config # <<>> /\ config = q.ask.config[1]
    <3>1. config = ConfigOf(q.ask)
      BY <2>2 DEF ConfigOf
    <3> QED
      BY <1>2, <1>3, <1>8, <3>1, ConfigIs
  <2> QED
    BY <2>1, <2>2 DEF Column
<1>11. \A s \in Listed(granted) : \E x \in apps : s \in ever[x].requested
  BY <1>2, <1>4, <1>8, <1>9
<1> HIDE DEF granted, config, to
<1>12. /\ row \in Installed /\ row.app = to /\ row.granted = granted /\ row.config = config
  BY <1>4, <1>8, <1>9, <1>10 DEF Installed
<1>13. installed' = [installed EXCEPT ![i] = row]
  BY <1>3, <1>6 DEF IInv, TypeOK
<1>14. apps \in SUBSET AppRows /\ was[i] \subseteq apps /\ to \in apps
  BY <1>4, <1>8
<1> HIDE DEF row, apps, d, i
<1> QED
  BY <1>3, <1>6, <1>7, <1>8, <1>10, <1>11, <1>12, <1>13, <1>14, InstalledStep

LEMMA PostAppInv ==
  ASSUME IInv, NEW r \in Requests, NEW a \in Asks, PostApp(r, a)
  PROVE  IInv'
<1>1. a \in Posting
  BY AskIs DEF PostApp, Begin
<1>2. a.by \in Groups /\ a.scopes[1] \in SUBSET Scopes /\ a.accepts[1] \in SUBSET Configs
  BY <1>1, GivenValue DEF Posting
<1>3. CASE Answer(r, a, "refused")
  BY <1>3, AnswerInv, AnswersAre
<1> DEFINE requested == [s \in Scopes |-> IF s \in a.scopes[1] THEN 1 ELSE 0]
           new == [read |-> SlotsOf(<<a.by>>), accepts |-> a.accepts[1],
                   requested |-> requested]
           history == [requested |-> a.scopes[1], accepted |-> a.accepts[1]]
           d(answer) == [at |-> "done", ask |-> a, answer |-> answer]
<1>4. ASSUME NEW x \in AppRows, ~ Exists(x), ever[x] = Never,
             app' = [app EXCEPT ![x] = new], ever' = [ever EXCEPT ![x] = history],
             NEW answer \in Answers, req' = [req EXCEPT ![r] = d(answer)],
             UNCHANGED <<installed, touched, was>>
      PROVE  IInv'
  <2>1. d(answer) \in Request /\ d(answer).at # "found"
    BY DEF Request
  <2>2. new \in App
    <3>1. requested \in [Scopes -> Nat]
      OBVIOUS
    <3>2. SlotsOf(<<a.by>>) \in [Slots -> Groups \cup {Nothing}]
      BY <1>2 DEF SlotsOf, Slots
    <3> HIDE DEF requested
    <3> QED
      BY <1>2, <3>1, <3>2 DEF App
  <2>3. Listed(new.requested) \subseteq history.requested /\ new.accepts = history.accepted
    BY DEF Listed
  <2>4. history \in [requested : SUBSET Scopes, accepted : SUBSET Configs]
    BY <1>2
  <2> HIDE DEF d, new, history
  <2>5. /\ app' \in [AppRows -> App \cup {Nothing}]
        /\ new # Nothing
        /\ \A y \in AppRows : app'[y] = IF y = x THEN new ELSE app[y]
    BY <1>4, <2>2, NothingAssumption DEF IInv, TypeOK
  <2>6. /\ ever' \in [AppRows -> [requested : SUBSET Scopes, accepted : SUBSET Configs]]
        /\ \A y \in AppRows : ever'[y] = IF y = x THEN history ELSE ever[y]
    BY <1>4, <2>4 DEF IInv, TypeOK
  <2>7. Later(ever, ever', was, was')
    BY <1>4, <2>6 DEF Later, Never
  <2>8. Covered'
    BY <2>3, <2>5, <2>6 DEF IInv, Covered, Exists, Listed
  <2>9. OfWas'
    BY <1>4 DEF IInv, OfWas
  <2>10. GrantedWereRequestedOnce'
    <3>1. \A i \in Installations : was[i] \subseteq AppRows
      BY DEF IInv, TypeOK
    <3> QED
      BY <1>4, <2>7, <3>1 DEF IInv, GrantedWereRequestedOnce, Later, Listed
  <2>11. \A i \in Installations : installed'[i] # Nothing => app'[installed'[i].app] # Nothing
    BY <1>4, <2>5 DEF IInv, TypeOK, Exists, Installed
  <2>12. /\ installed' \in [Installations -> Installed \cup {Nothing}]
         /\ touched' \in [Requests -> SUBSET Rows]
         /\ was' \in [Installations -> SUBSET AppRows]
    BY <1>4 DEF IInv, TypeOK
  <2> QED
    BY <1>4, <2>1, <2>5, <2>6, <2>7, <2>8, <2>9, <2>10, <2>11, <2>12, WriteStep
<1> QED
  BY <1>3, <1>4, AnswersAre DEF PostApp

LEMMA RefuseInv ==
  ASSUME IInv, NEW r \in Requests, Refuse(r)
  PROVE  IInv'
<1>1. req[r].ask \in Asks
  BY FoundIs DEF IInv, TypeOK, Refuse
<1>2. Refusals(req[r]) \subseteq Answers
  BY AnswersAre DEF Refusals
<1> QED
  BY <1>1, <1>2, AnswerInv DEF Refuse

LEMMA AnnounceInv ==
  ASSUME IInv, NEW r \in Requests, Announce(r)
  PROVE  IInv'
<1>1. req[r].ask \in Asks
  BY SavedIs DEF IInv, TypeOK, Announce
<1> QED
  BY <1>1, AnswerInv, AnswersAre DEF Announce

LEMMA NextInv == IInv /\ [Next]_vars => IInv'
<1> SUFFICES ASSUME IInv, [Next]_vars PROVE IInv'
  OBVIOUS
<1>1. ASSUME NEW r \in Requests, NEW a \in Asks,
             \/ FindPublish(r, a) \/ FindUnpublish(r, a) \/ FindApp(r, a)
             \/ FindToInstall(r, a) \/ FindInstalled(r, a) \/ FindToUninstall(r, a)
             \/ PostApp(r, a)
      PROVE  IInv'
  BY <1>1, FindPublishInv, FindUnpublishInv, FindAppInv, FindToInstallInv,
     FindInstalledInv, FindToUninstallInv, PostAppInv
<1>2. ASSUME NEW r \in Requests,
             \/ SaveApp(r) \/ DropApp(r) \/ SaveInstall(r) \/ SaveInstalled(r)
             \/ Uninstall(r) \/ Refuse(r) \/ Announce(r)
      PROVE  IInv'
  BY <1>2, SaveAppInv, DropAppInv, SaveInstallInv, SaveInstalledInv, UninstallInv,
     RefuseInv, AnnounceInv
<1>3. CASE UNCHANGED vars
  BY <1>3 DEF vars, IInv, TypeOK, Covered, OfWas, GrantedWereRequestedOnce, RequestsFit,
              Exists, Listed
<1> QED
  BY <1>1, <1>2, <1>3 DEF Next

THEOREM Invariance == Spec => []IInv
BY InitInv, NextInv, PTL DEF Spec

(* The variables keep their types, and no installation outlives its app. *)
THEOREM TypeCorrect == Spec => []TypeOK
<1>1. IInv => TypeOK
  BY DEF IInv
<1> QED
  BY <1>1, Invariance, PTL

(* Every scope of an installation was once requested, and its config       *)
(* accepted unless it has none, by an app that it is or has been of.       *)
THEOREM GrantsAreRequested == Spec => []GrantedWereRequestedOnce
<1>1. IInv => GrantedWereRequestedOnce
  BY DEF IInv
<1> QED
  BY <1>1, Invariance, PTL

-----------------------------------------------------------------------------
(* What a request has found is still so, as long as no other request has   *)
(* touched it.                                                             *)

(* Known never changes; Current and Announced are against the rows of now. *)
Known(q) ==
  /\ q.ask.op = "publish" => q.read = Readers(q.seen) \o <<q.ask.group>> /\ Fits(q.read)
  /\ q.ask.op = "unpublish" => q.read \in Without(q.seen, q.ask.group)
  /\ q.ask.op = "install" => q.app = q.ask.app
  /\ q.ask.op \in {"install", "put installed"} /\ q.ask.scopes # <<>> =>
       q.want = q.ask.scopes[1]

Current(q, T, a, n) ==
  /\ q.ask.op \in {"publish", "unpublish"} /\ q.app \notin T => a[q.app] = q.seen
  /\ q.ask.op \in {"install", "put installed"} /\ q.app \notin T =>
       /\ a[q.app] # Nothing
       /\ q.ask.scopes # <<>> => q.ask.scopes[1] \subseteq Listed(a[q.app].requested)
       /\ NamesConfig(q.ask) => q.ask.config[1] \in a[q.app].accepts
       /\ ~ NamesNothing(q.ask) => q.ask.by \in Range(a[q.app].read)
  /\ q.ask.op = "put installed" /\ q.ask.id \notin T => n[q.ask.id] = q.seen

Announced(q, T, a, n) ==
  ~ NamesNothing(q.ask) /\ q.id \notin T =>
    /\ q.id \in Installations /\ n[q.id] # Nothing /\ n[q.id].app \in AppRows
    /\ n[q.id].app \notin T =>
         /\ a[n[q.id].app] # Nothing
         /\ q.ask.by \in Range(a[n[q.id].app].read)

RequestsCurrent ==
  \A r \in Requests :
    /\ req[r].at = "found" => /\ Known(req[r])
                              /\ Current(req[r], touched[r], app, installed)
    /\ req[r].at = "saved" => Announced(req[r], touched[r], app, installed)

CInv == IInv /\ RequestsCurrent

(* A step of r, as the requests of others see it: what it changes is new,  *)
(* or they are told.                                                       *)
Told(r) ==
  /\ \A p \in Requests : touched[p] \subseteq touched'[p]
  /\ \A p \in Requests, x \in AppRows :
       p # r /\ req[p].at \in {"found", "saved"} /\ x \notin touched'[p] /\ app[x] # Nothing
         => app'[x] = app[x]
  /\ \A p \in Requests, i \in Installations :
       p # r /\ req[p].at \in {"found", "saved"} /\ i \notin touched'[p]
         => installed'[i] = installed[i]

LEMMA CurrentKept ==
  ASSUME IInv, RequestsCurrent, NEW r \in Requests, NEW p \in Requests, p # r,
         req'[p] = req[p], Told(r)
  PROVE  /\ req'[p].at = "found" => /\ Known(req'[p])
                                    /\ Current(req'[p], touched'[p], app', installed')
         /\ req'[p].at = "saved" => Announced(req'[p], touched'[p], app', installed')
<1> DEFINE q == req[p]
<1>1. touched[p] \subseteq touched'[p]
  BY DEF Told
<1>2. CASE q.at = "found"
  <2>1. Known(q) /\ Current(q, touched[p], app, installed) /\ Fit(q, ever, was) /\ q \in Request
    BY <1>2 DEF RequestsCurrent, IInv, RequestsFit, TypeOK
  <2>2. \A x \in AppRows : x \notin touched'[p] /\ app[x] # Nothing => app'[x] = app[x]
    BY <1>2 DEF Told
  <2>3. q.ask.op \in {"publish", "unpublish"} /\ q.app \notin touched'[p] =>
          app'[q.app] = q.seen
    BY <1>1, <2>1, <2>2, NothingAssumption DEF Current, Fit
  <2>4. q.ask.op \in {"install", "put installed"} /\ q.app \notin touched'[p] =>
          app[q.app] # Nothing /\ app'[q.app] = app[q.app] /\ q.app \notin touched[p]
    BY <1>1, <2>1, <2>2 DEF Current, Fit
  <2>5. q.ask.op = "put installed" /\ q.ask.id \notin touched'[p] =>
          installed'[q.ask.id] = q.seen
    <3>1. q.ask.op = "put installed" => q.ask.id \in Installations
      BY <1>2, <2>1, FoundIs, AskIs DEF Reinstalling
    <3>2. \A i \in Installations : i \notin touched'[p] => installed'[i] = installed[i]
      BY <1>2 DEF Told
    <3> QED
      BY <1>1, <2>1, <3>1, <3>2 DEF Current
  <2>6. Current(q, touched'[p], app', installed')
    BY <2>1, <2>3, <2>4, <2>5 DEF Current
  <2> QED
    BY <1>2, <2>1, <2>6
<1>3. CASE q.at = "saved"
  <2>1. Announced(q, touched[p], app, installed)
    BY <1>3 DEF RequestsCurrent
  <2>2. \A x \in AppRows : x \notin touched'[p] /\ app[x] # Nothing => app'[x] = app[x]
    BY <1>3 DEF Told
  <2>3. \A i \in Installations : i \notin touched'[p] => installed'[i] = installed[i]
    BY <1>3 DEF Told
  <2>4. Announced(q, touched'[p], app', installed')
    BY <1>1, <2>1, <2>2, <2>3 DEF Announced
  <2> QED
    BY <1>3, <2>1, <2>4
<1> QED
  BY <1>2, <1>3

(* What is left to show of a step of r. *)
LEMMA CurrentStep ==
  ASSUME CInv, NEW r \in Requests, NEW d \in Request, req' = [req EXCEPT ![r] = d], Told(r),
         d.at = "found" => Known(d) /\ Current(d, touched'[r], app', installed'),
         d.at = "saved" => Announced(d, touched'[r], app', installed')
  PROVE  RequestsCurrent'
<1>1. \A p \in Requests : req'[p] = IF p = r THEN d ELSE req[p]
  BY DEF CInv, IInv, TypeOK
<1>2. ASSUME NEW p \in Requests
      PROVE  /\ req'[p].at = "found" => /\ Known(req'[p])
                                        /\ Current(req'[p], touched'[p], app', installed')
             /\ req'[p].at = "saved" => Announced(req'[p], touched'[p], app', installed')
  <2>1. CASE p = r
    BY <1>1, <2>1
  <2>2. CASE p # r
    BY <1>1, <2>2, CurrentKept DEF CInv
  <2> QED
    BY <2>1, <2>2
<1> QED
  BY <1>2 DEF RequestsCurrent, Known, Current, Announced

LEMMA QuietIsTold ==
  ASSUME NEW r, UNCHANGED <<app, installed, touched>>
  PROVE  Told(r)
BY DEF Told

LEMMA TouchIsTold ==
  ASSUME NEW r \in Requests, NEW row, Touch(r, row),
         touched \in [Requests -> SUBSET Rows],
         \A x \in AppRows : app'[x] # app[x] => x = row,
         \A i \in Installations : installed'[i] # installed[i] => i = row
  PROVE  Told(r) /\ touched'[r] = touched[r]
BY DEF Told, Touch

LEMMA AnswerCurrent ==
  ASSUME CInv, NEW r \in Requests, NEW a \in Asks, NEW answer \in Answers,
         Answer(r, a, answer)
  PROVE  RequestsCurrent'
<1> DEFINE d == [at |-> "done", ask |-> a, answer |-> answer]
<1>1. d \in Request /\ d.at = "done"
  BY DEF Request
<1>2. req' = [req EXCEPT ![r] = d] /\ Told(r)
  BY QuietIsTold DEF Answer
<1> HIDE DEF d
<1> QED
  BY <1>1, <1>2, CurrentStep

LEMMA FoundCurrent ==
  ASSUME CInv, NEW r \in Requests, NEW a \in Asks, NEW x \in AppRows \cup {Nothing},
         NEW seen \in App \cup Installed \cup {Nothing}, NEW want \in SUBSET Scopes,
         NEW read \in Seq(Groups), Found(r, a, x, seen, want, read),
         Known([at |-> "found", ask |-> a, app |-> x, seen |-> seen, want |-> want,
                read |-> read]),
         Current([at |-> "found", ask |-> a, app |-> x, seen |-> seen, want |-> want,
                  read |-> read], touched[r], app, installed)
  PROVE  RequestsCurrent'
<1> DEFINE d == [at |-> "found", ask |-> a, app |-> x, seen |-> seen, want |-> want,
                 read |-> read]
<1>1. d \in Request /\ d.at = "found"
  BY DEF Request
<1>2. /\ req' = [req EXCEPT ![r] = d] /\ Told(r)
      /\ touched' = touched /\ app' = app /\ installed' = installed
  BY QuietIsTold DEF Found
<1>3. Known(d) /\ Current(d, touched'[r], app', installed')
  BY <1>2
<1> HIDE DEF d
<1> QED
  BY <1>1, <1>2, <1>3, CurrentStep

LEMMA FindCurrent ==
  ASSUME CInv, NEW r \in Requests, NEW a \in Asks,
         \/ FindPublish(r, a) \/ FindUnpublish(r, a) \/ FindApp(r, a) \/ FindToUninstall(r, a)
  PROVE  RequestsCurrent'
<1>1. CASE \E answer \in Answers : Answer(r, a, answer)
  BY <1>1, AnswerCurrent
<1>2. CASE FindPublish(r, a)
  <2>1. a.op = "publish" /\ a.app \in AppRows /\ a.group \in Groups
    BY <1>2, AskIs DEF FindPublish, Begin, Publishing
  <2> DEFINE read == Readers(app[a.app]) \o <<a.group>>
             d == [at |-> "found", ask |-> a, app |-> a.app, seen |-> app[a.app],
                   want |-> {}, read |-> read]
  <2>2. CASE Exists(a.app) /\ Fits(read) /\ Found(r, a, a.app, app[a.app], {}, read)
    <3>1. app[a.app] \in App
      BY <2>1, <2>2 DEF CInv, IInv, TypeOK, Exists
    <3>2. read \in Seq(Groups)
      <4>1. Readers(app[a.app]) \in Seq(Groups) /\ <<a.group>> \in Seq(Groups)
        BY <2>1, <3>1, ReadersType
      <4> QED
        BY <4>1
    <3>3. Known(d) /\ Current(d, touched[r], app, installed)
      BY <2>1, <2>2 DEF Known, Current
    <3> QED
      BY <2>1, <2>2, <3>1, <3>2, <3>3, FoundCurrent
  <2> QED
    BY <1>1, <1>2, <2>2, AnswersAre DEF FindPublish
<1>3. CASE FindUnpublish(r, a)
  <2>1. a.op = "unpublish" /\ a.app \in AppRows /\ a.group \in Groups
    BY <1>3, AskIs DEF FindUnpublish, Begin, Publishing
  <2>2. ASSUME Exists(a.app), NEW read \in Without(app[a.app], a.group),
               Found(r, a, a.app, app[a.app], {}, read)
        PROVE  RequestsCurrent'
    <3> DEFINE d == [at |-> "found", ask |-> a, app |-> a.app, seen |-> app[a.app],
                     want |-> {}, read |-> read]
    <3>1. app[a.app] \in App
      BY <2>1, <2>2 DEF CInv, IInv, TypeOK, Exists
    <3>2. read \in Seq(Groups)
      BY <2>1, <3>1, WithoutType
    <3>3. Known(d) /\ Current(d, touched[r], app, installed)
      BY <2>1 DEF Known, Current
    <3> QED
      BY <2>1, <2>2, <3>1, <3>2, <3>3, FoundCurrent
  <2> QED
    BY <1>1, <1>3, <2>2, AnswersAre DEF FindUnpublish
<1>4. CASE FindApp(r, a)
  <2>1. a.op \in {"put app", "delete app"} /\ a.app \in AppRows
        /\ (a.op = "put app" => a.scopes \in Maybe(SUBSET Scopes))
    BY <1>4, AskIs DEF FindApp, Begin, Updating, Deleting
  <2> DEFINE old == Listed(app[a.app].requested)
             want == IF a.op = "delete app" THEN {}
                     ELSE IF a.scopes = <<>> THEN old ELSE a.scopes[1]
             d == [at |-> "found", ask |-> a, app |-> a.app, seen |-> app[a.app],
                   want |-> want, read |-> Readers(app[a.app])]
  <2>2. CASE Exists(a.app) /\ Found(r, a, a.app, app[a.app], want, Readers(app[a.app]))
    <3>1. app[a.app] \in App
      BY <2>1, <2>2 DEF CInv, IInv, TypeOK, Exists
    <3>2. want \in SUBSET Scopes /\ Readers(app[a.app]) \in Seq(Groups)
      BY <2>1, <3>1, GivenIs, ReadersType DEF Listed
    <3> HIDE DEF want
    <3>3. Known(d) /\ Current(d, touched[r], app, installed)
      BY <2>1 DEF Known, Current
    <3> QED
      BY <2>1, <2>2, <3>1, <3>2, <3>3, FoundCurrent
  <2> QED
    BY <1>1, <1>4, <2>2, AnswersAre DEF FindApp
<1>5. CASE FindToUninstall(r, a)
  <2>1. a.op = "uninstall" /\ a.id \in Installations
    BY <1>5, AskIs DEF FindToUninstall, Begin, Uninstalling
  <2> DEFINE d == [at |-> "found", ask |-> a, app |-> Nothing, seen |-> installed[a.id],
                   want |-> {}, read |-> <<>>]
  <2>2. CASE installed[a.id] # Nothing /\ Found(r, a, Nothing, installed[a.id], {}, <<>>)
    <3>1. installed[a.id] \in Installed /\ <<>> \in Seq(Groups)
      BY <2>1, <2>2 DEF CInv, IInv, TypeOK
    <3>2. Known(d) /\ Current(d, touched[r], app, installed)
      BY <2>1 DEF Known, Current
    <3> QED
      BY <2>2, <3>1, <3>2, FoundCurrent
  <2> QED
    BY <1>1, <1>5, <2>2, AnswersAre DEF FindToUninstall
<1> QED
  BY <1>2, <1>3, <1>4, <1>5

LEMMA FindInstallCurrent ==
  ASSUME CInv, NEW r \in Requests, NEW a \in Asks,
         FindToInstall(r, a) \/ FindInstalled(r, a)
  PROVE  RequestsCurrent'
<1>1. CASE \E answer \in Answers : Answer(r, a, answer)
  BY <1>1, AnswerCurrent
<1>2. CASE FindToInstall(r, a)
  <2>1. /\ a.op = "install" /\ a.app \in AppRows
        /\ a.scopes \in Maybe(SUBSET Scopes)
    BY <1>2, AskIs DEF FindToInstall, Begin, Installing
  <2> DEFINE want == Granted(a, {})
             d == [at |-> "found", ask |-> a, app |-> a.app, seen |-> Nothing,
                   want |-> want, read |-> <<>>]
  <2>2. CASE /\ ReadableBy(a.app, a.by) /\ Valid(a, a.app)
             /\ Found(r, a, a.app, Nothing, want, <<>>)
    <3>1. want \in SUBSET Scopes /\ <<>> \in Seq(Groups)
      BY <2>1, GivenIs DEF Granted
    <3>2. a.scopes # <<>> => want = a.scopes[1]
      BY DEF Granted
    <3> HIDE DEF want
    <3>3. Known(d)
      BY <2>1, <3>2 DEF Known
    <3>4. Current(d, touched[r], app, installed)
      BY <2>1, <2>2 DEF Current, ReadableBy, Exists, Valid
    <3> QED
      BY <2>1, <2>2, <3>1, <3>3, <3>4, FoundCurrent
  <2> QED
    BY <1>1, <1>2, <2>2, AnswersAre DEF FindToInstall
<1>3. CASE FindInstalled(r, a)
  <2>1. /\ a.op = "put installed" /\ a.id \in Installations /\ a.app \in Maybe(AppRows)
        /\ a.scopes \in Maybe(SUBSET Scopes)
    BY <1>3, AskIs DEF FindInstalled, Begin, Reinstalling
  <2> DEFINE x == IF a.app = <<>> THEN installed[a.id].app ELSE a.app[1]
             want == Granted(a, Listed(installed[a.id].granted))
             d == [at |-> "found", ask |-> a, app |-> x, seen |-> installed[a.id],
                   want |-> want, read |-> <<>>]
  <2>2. CASE /\ installed[a.id] # Nothing
             /\ ReadableBy(x, a.by) \/ NamesNothing(a)
             /\ Valid(a, x) /\ Found(r, a, x, installed[a.id], want, <<>>)
    <3>1. installed[a.id] \in Installed
      BY <2>1, <2>2 DEF CInv, IInv, TypeOK
    <3>2. x \in AppRows
      BY <2>1, <3>1, GivenIs DEF Installed
    <3>3. want \in SUBSET Scopes
      <4>1. Listed(installed[a.id].granted) \in SUBSET Scopes
        BY DEF Listed
      <4>2. a.scopes # <<>> => a.scopes[1] \in SUBSET Scopes
        BY <2>1, GivenIs
      <4> QED
        BY <4>1, <4>2 DEF Granted
    <3>4. (a.scopes # <<>> => want = a.scopes[1]) /\ <<>> \in Seq(Groups)
      BY DEF Granted
    <3>5. app[x] # Nothing
      <4>1. CASE ReadableBy(x, a.by)
        BY <4>1 DEF ReadableBy, Exists
      <4>2. CASE NamesNothing(a)
        BY <2>1, <2>2, <4>2 DEF CInv, IInv, TypeOK, Exists, NamesNothing
      <4> QED
        BY <2>2, <4>1, <4>2
    <3> HIDE DEF want, x
    <3>6. Known(d)
      BY <2>1, <3>4 DEF Known
    <3>7. Current(d, touched[r], app, installed)
      <4>1. ~ NamesNothing(a) => a.by \in Range(app[x].read)
        BY <2>2 DEF ReadableBy
      <4> QED
        BY <2>1, <2>2, <3>5, <4>1 DEF Current, Valid
    <3> QED
      BY <2>2, <3>1, <3>2, <3>3, <3>4, <3>6, <3>7, FoundCurrent
  <2> QED
    BY <1>1, <1>3, <2>2, AnswersAre DEF FindInstalled
<1> QED
  BY <1>2, <1>3

LEMMA SaveCurrent ==
  ASSUME CInv, NEW r \in Requests, SaveApp(r) \/ DropApp(r) \/ Uninstall(r)
  PROVE  RequestsCurrent'
<1> DEFINE q == req[r]
           done(answer) == [at |-> "done", ask |-> q.ask, answer |-> answer]
<1>1. q \in Request /\ q.at = "found" /\ touched \in [Requests -> SUBSET Rows]
  BY DEF CInv, IInv, TypeOK, SaveApp, DropApp, Uninstall, Saving
<1>2. PICK answer \in Answers : req' = [req EXCEPT ![r] = done(answer)]
  BY AnswersAre DEF SaveApp, DropApp, Uninstall, Done
<1>3. done(answer) \in Request /\ done(answer).at = "done"
  BY <1>1, FoundIs DEF Request
<1>4. Told(r)
  <2>1. CASE SaveApp(r) \/ DropApp(r)
    <3>1. /\ Touch(r, q.app) /\ installed' = installed
          /\ \A x \in AppRows : app'[x] # app[x] => x = q.app
      BY <2>1 DEF SaveApp, DropApp, CInv, IInv, TypeOK
    <3> QED
      BY <1>1, <3>1, TouchIsTold
  <2>2. CASE Uninstall(r)
    <3>1. /\ Touch(r, q.ask.id) /\ app' = app
          /\ \A i \in Installations : installed'[i] # installed[i] => i = q.ask.id
      BY <2>2 DEF Uninstall, CInv, IInv, TypeOK
    <3> QED
      BY <1>1, <3>1, TouchIsTold
  <2> QED
    BY <2>1, <2>2
<1> HIDE DEF done
<1> QED
  BY <1>2, <1>3, <1>4, CurrentStep

LEMMA SaveInstalledCurrent ==
  ASSUME CInv, NEW r \in Requests, SaveInstalled(r)
  PROVE  RequestsCurrent'
<1> DEFINE q == req[r]
           i == q.ask.id
           d == [at |-> "saved", ask |-> q.ask, id |-> i]
<1>1. /\ q \in Request /\ q.at = "found" /\ q.ask.op = "put installed"
      /\ Current(q, touched[r], app, installed) /\ Fit(q, ever, was)
      /\ touched \in [Requests -> SUBSET Rows] /\ installed[i] # Nothing
  BY DEF CInv, IInv, TypeOK, SaveInstalled, Saving, Clear, RequestsCurrent, RequestsFit
<1>2. q.ask \in Asks /\ i \in Installations
  BY <1>1, FoundIs, AskIs DEF Reinstalling
<1>3. d \in Request /\ d.at = "saved" /\ d.id = i /\ d.ask = q.ask
  BY <1>2 DEF Request
<1>4. req' = [req EXCEPT ![r] = d] /\ Touch(r, i) /\ app' = app
  BY DEF SaveInstalled
<1>5. \A j \in Installations : installed'[j] # installed[j] => j = i
  BY DEF SaveInstalled, CInv, IInv, TypeOK
<1>6. Told(r) /\ touched'[r] = touched[r]
  BY <1>1, <1>4, <1>5, TouchIsTold
<1>7. installed[i] \in Installed
  BY <1>1, <1>2 DEF CInv, IInv, TypeOK
<1>8. installed'[i] \in Installed
  <2> DEFINE old == installed[i]
             to == Column(old.app, q.seen.app, q.app)
             granted == WrittenList(old.granted, q.seen.granted, q.want)
             config == IF q.ask.config = <<>> THEN old.config
                       ELSE Column(old.config, q.seen.config, q.ask.config[1])
  <2>1. q.app \in AppRows /\ q.seen \in Installed /\ q.want \in SUBSET Scopes
    BY <1>1, FoundIs DEF Fit
  <2>2. to \in AppRows
    BY <1>7, <2>1 DEF Column, Installed
  <2>3. granted \in [Scopes -> Nat]
    BY <1>7, <2>1, WrittenListIs DEF Installed
  <2>4. config \in Configs \cup {Nothing}
    <3>1. q.ask.config # <<>> => q.ask.config[1] \in Configs \cup {Nothing}
      BY <1>1, <1>2, AskIs, GivenIs DEF Reinstalling
    <3> QED
      BY <1>7, <3>1 DEF Column, Installed
  <2>5. installed'[i] = [old EXCEPT !.app = to, !.granted = granted, !.config = config]
    BY <1>2 DEF SaveInstalled, CInv, IInv, TypeOK
  <2> HIDE DEF to, granted, config
  <2> QED
    BY <1>7, <2>2, <2>3, <2>4, <2>5 DEF Installed
<1>9. i \notin touched[r] => installed'[i].app = q.app
  <2>1. installed'[i].app = Column(installed[i].app, q.seen.app, q.app)
    BY <1>2, <1>7 DEF SaveInstalled, CInv, IInv, TypeOK, Installed
  <2> QED
    BY <1>1, <2>1 DEF Current, Column
<1>10. ~ NamesNothing(q.ask) /\ q.app \notin touched[r] =>
         app[q.app] # Nothing /\ q.ask.by \in Range(app[q.app].read)
  BY <1>1 DEF Current
<1>11. Announced(d, touched'[r], app', installed')
  BY <1>2, <1>3, <1>4, <1>6, <1>8, <1>9, <1>10, NothingAssumption DEF Announced, Installed
<1> HIDE DEF d
<1> QED
  BY <1>3, <1>4, <1>6, <1>11, CurrentStep

LEMMA SaveInstallCurrent ==
  ASSUME CInv, NEW r \in Requests, SaveInstall(r)
  PROVE  RequestsCurrent'
<1> DEFINE q == req[r]
<1>1. /\ q \in Request /\ q.at = "found" /\ q.ask.op = "install"
      /\ Known(q) /\ Current(q, touched[r], app, installed) /\ Fit(q, ever, was)
      /\ touched \in [Requests -> SUBSET Rows]
  BY DEF CInv, IInv, TypeOK, SaveInstall, Saving, RequestsCurrent, RequestsFit
<1>2. q.app \in AppRows /\ q.app = q.ask.app /\ q.ask \in Asks
  BY <1>1, FoundIs DEF Fit, Known
<1>3. PICK i \in Installations :
        /\ installed' = [installed EXCEPT ![i] =
             [app |-> q.app, config |-> ConfigOf(q.ask),
              granted |-> [s \in Scopes |-> IF s \in q.want THEN 1 ELSE 0]]]
        /\ req' = [req EXCEPT ![r] = [at |-> "saved", ask |-> q.ask, id |-> i]]
        /\ Touch(r, i) /\ app' = app
  BY DEF SaveInstall
<1> DEFINE d == [at |-> "saved", ask |-> q.ask, id |-> i]
           row == [app |-> q.app, config |-> ConfigOf(q.ask),
                   granted |-> [s \in Scopes |-> IF s \in q.want THEN 1 ELSE 0]]
<1>4. d \in Request /\ d.at = "saved" /\ d.id = i /\ d.ask = q.ask
  BY <1>2 DEF Request
<1>5. installed'[i] = row /\ row.app = q.app /\ row # Nothing
  <2>1. row \in Installed
    <3>1. q.ask.config \in Maybe(Configs \cup {Nothing})
      BY <1>1, <1>2, AskIs DEF Installing
    <3>2. ConfigOf(q.ask) \in Configs \cup {Nothing}
      BY <3>1, ConfigIs
    <3>3. [s \in Scopes |-> IF s \in q.want THEN 1 ELSE 0] \in [Scopes -> Nat]
      OBVIOUS
    <3> QED
      BY <1>2, <3>2, <3>3 DEF Installed
  <2> QED
    BY <1>3, <2>1, NothingAssumption DEF CInv, IInv, TypeOK
<1>6. \A j \in Installations : installed'[j] # installed[j] => j = i
  BY <1>3 DEF CInv, IInv, TypeOK
<1>7. Told(r) /\ touched'[r] = touched[r]
  BY <1>1, <1>3, <1>6, TouchIsTold
<1>8. q.app \notin touched[r] => app[q.app] # Nothing /\ q.ask.by \in Range(app[q.app].read)
  BY <1>1 DEF Current, NamesNothing
<1> HIDE DEF row
<1>9. Announced(d, touched'[r], app', installed')
  BY <1>2, <1>3, <1>4, <1>5, <1>7, <1>8 DEF Announced
<1>10. req' = [req EXCEPT ![r] = d]
  BY <1>3
<1> HIDE DEF d
<1> QED
  BY <1>1, <1>2, <1>4, <1>7, <1>9, <1>10, CurrentStep

LEMMA PostAppCurrent ==
  ASSUME CInv, NEW r \in Requests, NEW a \in Asks, PostApp(r, a)
  PROVE  RequestsCurrent'
<1>1. CASE Answer(r, a, "refused")
  BY <1>1, AnswerCurrent, AnswersAre
<1>2. CASE ~ Answer(r, a, "refused")
  <2> DEFINE d(answer) == [at |-> "done", ask |-> a, answer |-> answer]
  <2>1. \A answer \in Answers : d(answer) \in Request /\ d(answer).at = "done"
    BY DEF Request
  <2>2. /\ \E answer \in Answers : req' = [req EXCEPT ![r] = d(answer)]
        /\ touched' = touched /\ installed' = installed
        /\ \A x \in AppRows : app[x] # Nothing => app'[x] = app[x]
    BY <1>2, AnswersAre DEF PostApp, Exists, CInv, IInv, TypeOK
  <2>3. Told(r)
    BY <2>2 DEF Told
  <2> HIDE DEF d
  <2> QED
    BY <2>1, <2>2, <2>3, CurrentStep
<1> QED
  BY <1>1, <1>2

LEMMA NextCurrent == CInv /\ [Next]_vars => RequestsCurrent'
<1> SUFFICES ASSUME CInv, [Next]_vars PROVE RequestsCurrent'
  OBVIOUS
<1>1. ASSUME NEW r \in Requests, NEW a \in Asks,
             \/ FindPublish(r, a) \/ FindUnpublish(r, a) \/ FindApp(r, a)
             \/ FindToInstall(r, a) \/ FindInstalled(r, a) \/ FindToUninstall(r, a)
             \/ PostApp(r, a)
      PROVE  RequestsCurrent'
  BY <1>1, FindCurrent, FindInstallCurrent, PostAppCurrent
<1>2. ASSUME NEW r \in Requests, Refuse(r)
      PROVE  RequestsCurrent'
  <2>1. req[r].ask \in Asks /\ Refusals(req[r]) \subseteq Answers
    BY <1>2, FoundIs, AnswersAre DEF CInv, IInv, TypeOK, Refuse, Refusals
  <2> QED
    BY <1>2, <2>1, AnswerCurrent DEF Refuse
<1>3. ASSUME NEW r \in Requests, Announce(r)
      PROVE  RequestsCurrent'
  <2>1. req[r].ask \in Asks
    BY <1>3, SavedIs DEF CInv, IInv, TypeOK, Announce
  <2> QED
    BY <1>3, <2>1, AnswerCurrent, AnswersAre DEF Announce
<1>4. ASSUME NEW r \in Requests,
             SaveApp(r) \/ DropApp(r) \/ SaveInstall(r) \/ SaveInstalled(r) \/ Uninstall(r)
      PROVE  RequestsCurrent'
  BY <1>4, SaveCurrent, SaveInstallCurrent, SaveInstalledCurrent
<1>5. CASE UNCHANGED vars
  BY <1>5 DEF vars, CInv, RequestsCurrent, Known, Current, Announced
<1> QED
  BY <1>1, <1>2, <1>3, <1>4, <1>5 DEF Next

LEMMA Currency == Spec => []CInv
<1>1. Init => CInv
  <2> SUFFICES ASSUME Init PROVE CInv
    OBVIOUS
  <2>1. \A r \in Requests : req[r].at = "idle"
    BY DEF Init, NoRequest
  <2> QED
    BY <2>1, InitInv DEF CInv, RequestsCurrent
<1>2. CInv /\ [Next]_vars => CInv'
  BY NextInv, NextCurrent DEF CInv
<1> QED
  BY <1>1, <1>2, PTL DEF Spec

-----------------------------------------------------------------------------
(* What a request does to the rows it has found.                           *)

(* A request that has begun goes on by steps of its own. *)
LEMMA OwnStep ==
  ASSUME [Next]_vars, NEW r \in Requests, req[r] # NoRequest, req'[r] # req[r]
  PROVE  \/ SaveApp(r) \/ DropApp(r) \/ SaveInstall(r) \/ SaveInstalled(r)
         \/ Uninstall(r) \/ Refuse(r) \/ Announce(r)
<1>1. ASSUME NEW p \in Requests, NEW a \in Asks,
             \/ FindPublish(p, a) \/ FindUnpublish(p, a) \/ FindApp(p, a)
             \/ FindToInstall(p, a) \/ FindInstalled(p, a) \/ FindToUninstall(p, a)
      PROVE  FALSE
  <2>1. req[p] = NoRequest
    BY <1>1 DEF FindPublish, FindUnpublish, FindApp, FindToInstall, FindInstalled,
                FindToUninstall, Begin
  <2>2. \E d : req' = [req EXCEPT ![p] = d]
    BY <1>1 DEF FindPublish, FindUnpublish, FindApp, FindToInstall, FindInstalled,
                FindToUninstall, Answer, Found
  <2> QED
    BY <2>1, <2>2
<1>2. ASSUME NEW p \in Requests, NEW a \in Asks, PostApp(p, a)
      PROVE  FALSE
  <2>1. req[p] = NoRequest /\ \E d : req' = [req EXCEPT ![p] = d]
    BY <1>2 DEF PostApp, Begin, Answer
  <2> QED
    BY <2>1
<1>3. ASSUME NEW p \in Requests, p # r,
             \/ SaveApp(p) \/ DropApp(p) \/ SaveInstall(p) \/ SaveInstalled(p)
             \/ Uninstall(p) \/ Refuse(p) \/ Announce(p)
      PROVE  FALSE
  <2>1. \E d : req' = [req EXCEPT ![p] = d]
    BY <1>3 DEF SaveApp, DropApp, SaveInstall, SaveInstalled, Uninstall, Refuse, Announce,
                Done, Answer
  <2> QED
    BY <1>3, <2>1
<1> QED
  BY <1>1, <1>2, <1>3 DEF Next, vars

(* An installation stays silent, and its request fails after the commit,   *)
(* only if another request has changed it or its app.                      *)
THEOREM InstallationsAnnounced == Spec => SavedIsAnnounced
<1>1. ASSUME CInv, [Next]_vars, NEW r \in Requests,
             req[r].at = "saved", ~ NamesNothing(req[r].ask),
             req'[r].at = "done", req'[r].answer = "failed"
      PROVE  \/ req[r].id \in touched[r]
             \/ installed[req[r].id].app \in touched[r]
  <2>1. Announce(r)
    <3>1. req[r] # NoRequest /\ req'[r] # req[r]
      BY <1>1 DEF NoRequest
    <3> QED
      BY <1>1, <3>1, OwnStep DEF SaveApp, DropApp, SaveInstall, SaveInstalled, Uninstall,
                                 Saving, Refuse
  <2> DEFINE row == installed[req[r].id]
  <2>2. ~ (row # Nothing /\ ReadableBy(row.app, req[r].ask.by))
    <3>1. \A answer : req' = [req EXCEPT ![r] = [at |-> "done", ask |-> req[r].ask,
                                                 answer |-> answer]]
                        => req'[r].answer = answer
      BY <1>1 DEF CInv, IInv, TypeOK
    <3> QED
      BY <1>1, <2>1, <3>1 DEF Announce, Answer
  <2>3. Announced(req[r], touched[r], app, installed)
    BY <1>1 DEF CInv, RequestsCurrent
  <2> QED
    BY <1>1, <2>2, <2>3 DEF Announced, ReadableBy, Exists
<1>2. CInv /\ [Next]_vars =>
        \A r \in Requests :
          /\ req[r].at = "saved" /\ ~ NamesNothing(req[r].ask)
          /\ req'[r].at = "done" /\ req'[r].answer = "failed"
          => req[r].id \in touched[r] \/ installed[req[r].id].app \in touched[r]
  BY <1>1
<1> QED
  BY <1>2, Currency, PTL DEF Spec, SavedIsAnnounced

LEMMA ListedWhole ==
  ASSUME NEW rows \in [Scopes -> Nat], NEW want \in SUBSET Scopes
  PROVE  Listed(WrittenList(rows, rows, want)) = want
BY DEF WrittenList, Listed

(* An installation has what its request named, and only what its app, if   *)
(* nobody has changed it, requests and accepts, but for a config of null.  *)
THEOREM InstallationsValid == Spec => ValidWhenAnswered
<1> DEFINE Step(r, i) ==
      LET q == req[r]
          new == installed'[i] IN
      /\ q.at = "found" /\ installed'[i] # installed[i] /\ req'[r] # q
      /\ q.ask.op \in {"install", "put installed"}
      /\ {i, new.app} \cap touched[r] = {}
      => /\ q.ask.scopes # <<>> =>
              /\ Listed(new.granted) = q.ask.scopes[1]
              /\ Listed(new.granted) \subseteq Listed(app[new.app].requested)
         /\ NamesConfig(q.ask) =>
              /\ new.config = q.ask.config[1]
              /\ new.config \in app[new.app].accepts
<1>1. ASSUME CInv, [Next]_vars, NEW r \in Requests, NEW i \in Installations,
             req[r].at = "found", installed'[i] # installed[i], req'[r] # req[r],
             req[r].ask.op \in {"install", "put installed"},
             {i, installed'[i].app} \cap touched[r] = {}
      PROVE  Step(r, i)
  <2> DEFINE q == req[r]
             new == installed'[i]
  <2>1. SaveInstall(r) \/ SaveInstalled(r)
    <3> HIDE DEF Step
    <3>0. req[r].at = "found"
      BY <1>1
    <3>1. req[r] # NoRequest
      BY <3>0 DEF NoRequest
    <3> QED
      BY <1>1, <3>1, OwnStep DEF SaveApp, DropApp, Uninstall, Saving, Refuse, Answer, Announce
  <2>2. /\ q \in Request /\ q.at = "found" /\ Known(q) /\ Fit(q, ever, was)
        /\ Current(q, touched[r], app, installed)
    BY <1>1 DEF CInv, IInv, TypeOK, RequestsCurrent, RequestsFit
  <2>3. /\ q.ask.scopes # <<>> => q.want = q.ask.scopes[1]
        /\ q.app \notin touched[r] =>
             /\ q.ask.scopes # <<>> => q.ask.scopes[1] \subseteq Listed(app[q.app].requested)
             /\ NamesConfig(q.ask) => q.ask.config[1] \in app[q.app].accepts
        /\ q.want \in SUBSET Scopes /\ i \notin touched[r] /\ new.app \notin touched[r]
    BY <1>1, <2>2, FoundIs DEF Known, Current
  <2>4. CASE SaveInstall(r)
    <3>1. new = [app |-> q.app, config |-> ConfigOf(q.ask),
                 granted |-> [s \in Scopes |-> IF s \in q.want THEN 1 ELSE 0]]
      BY <1>1, <2>4 DEF SaveInstall, CInv, IInv, TypeOK
    <3>2. /\ new.app = q.app /\ Listed(new.granted) = q.want
          /\ NamesConfig(q.ask) => new.config = q.ask.config[1]
      BY <2>3, <3>1 DEF Listed, ConfigOf, NamesConfig
    <3> HIDE DEF q, new
    <3>3. /\ q.ask.scopes # <<>> =>
               /\ Listed(new.granted) = q.ask.scopes[1]
               /\ Listed(new.granted) \subseteq Listed(app[new.app].requested)
          /\ NamesConfig(q.ask) =>
               /\ new.config = q.ask.config[1]
               /\ new.config \in app[new.app].accepts
      BY <2>3, <3>2
    <3> QED
      BY <3>3 DEF q, new
  <2>5. CASE SaveInstalled(r)
    <3> DEFINE old == installed[i]
    <3>1. q.ask.op = "put installed" /\ installed[q.ask.id] # Nothing
      BY <2>5 DEF SaveInstalled, Saving, Clear
    <3>2. i = q.ask.id
      BY <1>1, <2>5 DEF SaveInstalled, CInv, IInv, TypeOK
    <3>3. old = q.seen /\ old \in Installed
      BY <1>1, <2>2, <2>3, <3>1, <3>2 DEF Current, CInv, IInv, TypeOK
    <3>4. new = [old EXCEPT
            !.app = Column(old.app, q.seen.app, q.app),
            !.granted = WrittenList(old.granted, q.seen.granted, q.want),
            !.config = IF q.ask.config = <<>> THEN old.config
                       ELSE Column(old.config, q.seen.config, q.ask.config[1])]
      BY <1>1, <2>5, <3>2 DEF SaveInstalled, CInv, IInv, TypeOK
    <3>5. new.app = q.app
      BY <3>3, <3>4 DEF Column, Installed
    <3>6. new.granted = WrittenList(old.granted, old.granted, q.want)
      BY <3>3, <3>4 DEF Installed
    <3>7. Listed(new.granted) = q.want
      BY <2>3, <3>3, <3>6, ListedWhole DEF Installed
    <3>8. NamesConfig(q.ask) => new.config = q.ask.config[1]
      BY <3>3, <3>4 DEF Column, Installed, NamesConfig
    <3> HIDE DEF q, new
    <3>9. /\ q.ask.scopes # <<>> =>
               /\ Listed(new.granted) = q.ask.scopes[1]
               /\ Listed(new.granted) \subseteq Listed(app[new.app].requested)
          /\ NamesConfig(q.ask) =>
               /\ new.config = q.ask.config[1]
               /\ new.config \in app[new.app].accepts
      BY <2>3, <3>5, <3>7, <3>8
    <3> QED
      BY <3>9 DEF q, new
  <2> QED
    BY <2>1, <2>4, <2>5
<1>2. CInv /\ [Next]_vars => \A r \in Requests, i \in Installations : Step(r, i)
  BY <1>1
<1> QED
  BY <1>2, Currency, PTL DEF Spec, ValidWhenAnswered

LEMMA PairRange == \A x, y : Range(<<x>> \o <<y>>) = {x, y}
<1> SUFFICES ASSUME NEW x, NEW y PROVE Range(<<x>> \o <<y>>) = {x, y}
  OBVIOUS
<1> DEFINE s == <<x>> \o <<y>>
<1>1. /\ <<x>> \in Seq({x, y}) /\ <<y>> \in Seq({x, y})
      /\ Len(<<x>>) = 1 /\ Len(<<y>>) = 1
  OBVIOUS
<1>2. s \in Seq({x, y}) /\ Len(s) = 2 /\ s[1] = x /\ s[2] = y
  BY <1>1, ConcatProperties
<1> HIDE DEF s
<1>3. DOMAIN s = {1, 2}
  BY <1>2
<1>4. Range(s) = {x, y}
  BY <1>2, <1>3 DEF Range
<1> QED
  BY <1>4 DEF s

LEMMA ReadersRange ==
  ASSUME NEW a \in App
  PROVE  Range(Readers(a)) = {a.read[0], a.read[1]} \ {Nothing}
<1>1. CASE a.read[0] = Nothing /\ a.read[1] = Nothing
  <2>1. Readers(a) = <<>>
    BY <1>1 DEF Readers
  <2> QED
    BY <1>1, <2>1 DEF Range
<1>2. CASE a.read[0] # Nothing /\ a.read[1] = Nothing
  <2>1. Readers(a) = <<a.read[0]>>
    BY <1>2 DEF Readers
  <2> QED
    BY <1>2, <2>1 DEF Range
<1>3. CASE a.read[0] = Nothing /\ a.read[1] # Nothing
  <2>1. Readers(a) = <<a.read[1]>>
    BY <1>3 DEF Readers
  <2> QED
    BY <1>3, <2>1 DEF Range
<1>4. CASE a.read[0] # Nothing /\ a.read[1] # Nothing
  <2>1. Readers(a) = <<a.read[0]>> \o <<a.read[1]>>
    BY <1>4 DEF Readers
  <2> QED
    BY <1>4, <2>1, PairRange
<1> QED
  BY <1>1, <1>2, <1>3, <1>4

LEMMA AppendedRange ==
  ASSUME NEW s \in Seq(Groups), NEW g \in Groups
  PROVE  Range(s \o <<g>>) = Range(s) \cup {g}
<1> DEFINE t == s \o <<g>>
<1>1. <<g>> \in Seq(Groups) /\ Len(<<g>>) = 1 /\ Len(s) \in Nat
  OBVIOUS
<1>2. /\ t \in Seq(Groups) /\ Len(t) = Len(s) + 1 /\ t[Len(s) + 1] = g
      /\ \A k \in 1..Len(s) : t[k] = s[k]
  BY <1>1, ConcatProperties
<1> HIDE DEF t
<1>3. DOMAIN t = 1..(Len(s) + 1) /\ DOMAIN s = 1..Len(s)
  BY <1>2
<1>4. \A k \in DOMAIN t : k \in DOMAIN s \/ k = Len(s) + 1
  BY <1>1, <1>3
<1>5. Len(s) + 1 \in DOMAIN t /\ DOMAIN s \subseteq DOMAIN t
  BY <1>1, <1>3
<1>6. Range(t) = Range(s) \cup {g}
  BY <1>2, <1>3, <1>4, <1>5 DEF Range
<1> QED
  BY <1>6 DEF t

LEMMA TwoSlots == Cardinality(Slots) = 2
<1>1. IsFiniteSet({0}) /\ Cardinality({0}) = 1
  BY FS_Singleton
<1>2. Cardinality({0} \cup {1}) = 2 /\ {0} \cup {1} = Slots
  BY <1>1, FS_AddElement DEF Slots
<1> QED
  BY <1>1, <1>2

LEMMA SlotsRange ==
  ASSUME NEW t \in Seq(Groups), Len(t) <= 2
  PROVE  {SlotsOf(t)[0], SlotsOf(t)[1]} \ {Nothing} = Range(t)
<1>1. Nothing \notin Groups
  BY NothingAssumption
<1>2. CASE Len(t) = 0
  BY <1>2 DEF SlotsOf, Slots, Range
<1>3. CASE Len(t) = 1
  BY <1>1, <1>3 DEF SlotsOf, Slots, Range
<1>4. CASE Len(t) = 2
  <2>1. DOMAIN t = {1, 2} /\ t[1] \in Groups /\ t[2] \in Groups
    BY <1>4
  <2>2. SlotsOf(t)[0] = t[1] /\ SlotsOf(t)[1] = t[2]
    BY <1>4 DEF SlotsOf, Slots
  <2>3. Range(t) = {t[1], t[2]}
    BY <2>1 DEF Range
  <2> QED
    BY <1>1, <2>1, <2>2, <2>3
<1>5. Len(t) \in Nat /\ Len(t) <= 2
  OBVIOUS
<1>6. \A n \in Nat : n <= 2 => n = 0 \/ n = 1 \/ n = 2
  OBVIOUS
<1> QED
  BY <1>2, <1>3, <1>4, <1>5, <1>6, Zenon

LEMMA WithoutRange ==
  ASSUME NEW a \in App, NEW g \in Groups, NEW t \in Without(a, g)
  PROVE  /\ t \in Seq(Groups) /\ Len(t) <= 2
         /\ Range(t) = Range(Readers(a)) \ {g}
<1> DEFINE rest == Range(Readers(a)) \ {g}
           slots == {a.read[0], a.read[1]}
<1>1. rest \subseteq slots
  BY ReadersRange
<1>2. IsFiniteSet(slots) /\ Cardinality(slots) <= 2
  <2> DEFINE one == {a.read[0]}
  <2>1. IsFiniteSet(one) /\ Cardinality(one) = 1
    BY FS_Singleton
  <2>2. one \cup {a.read[1]} = slots
    OBVIOUS
  <2> HIDE DEF one, slots
  <2>3. /\ IsFiniteSet(one \cup {a.read[1]})
        /\ Cardinality(one \cup {a.read[1]}) =
             IF a.read[1] \in one THEN Cardinality(one) ELSE Cardinality(one) + 1
    BY <2>1, FS_AddElement, Zenon
  <2> QED
    BY <2>1, <2>2, <2>3
<1> HIDE DEF slots
<1>3. Cardinality(rest) \in Nat /\ Cardinality(slots) \in Nat
      /\ Cardinality(rest) <= Cardinality(slots)
  BY <1>1, <1>2, FS_Subset, FS_CardinalityType
<1>4. t \in [1..Cardinality(rest) -> rest] /\ Range(t) = rest
  BY DEF Without
<1> HIDE DEF rest
<1>5. Len(t) = Cardinality(rest)
  BY <1>3, <1>4
<1> QED
  BY <1>2, <1>3, <1>4, <1>5, WithoutType DEF rest

(* The readers of an app that nobody else changes are those its publishers *)
(* were told.                                                              *)
THEOREM AppsPublished == Spec => PublishedAsAnswered
<1> DEFINE Step(r) ==
      LET q == req[r] IN
      q.at = "found" /\ req'[r].at = "done" /\ req'[r].answer = "ok" =>
        CASE q.ask.op = "publish" /\ q.app \notin touched[r] ->
               Range(Readers(app'[q.app])) = Range(Readers(app[q.app])) \cup {q.ask.group}
          [] q.ask.op = "unpublish" /\ q.app \notin touched[r] ->
               Range(Readers(app'[q.app])) = Range(Readers(app[q.app])) \ {q.ask.group}
          [] q.ask.op = "put app" -> app'[q.app].read = app[q.app].read
          [] OTHER -> TRUE
<1>1. ASSUME CInv, [Next]_vars, NEW r \in Requests,
             req[r].at = "found", req'[r].at = "done", req'[r].answer = "ok"
      PROVE  Step(r)
  <2> DEFINE q == req[r]
             x == q.app
             new == WrittenApp(q, app[x])
  <2>1. CASE ~ SaveApp(r)
    <3>1. q.ask.op \notin {"publish", "unpublish", "put app"}
      <4>1. q # NoRequest /\ req'[r] # q
        <5> HIDE DEF Step
        <5>1. req[r].at = "found" /\ req'[r].at = "done"
          BY <1>1
        <5> QED
          BY <5>1 DEF NoRequest
      <4>2. ~ Refuse(r)
        <5>1. ASSUME NEW answer, Answer(r, q.ask, answer)
              PROVE  req'[r].answer = answer
          BY <1>1, <5>1 DEF Answer, CInv, IInv, TypeOK
        <5>2. "ok" \notin Refusals(q)
          BY DEF Refusals
        <5> QED
          BY <1>1, <5>1, <5>2 DEF Refuse
      <4> HIDE DEF q, Step
      <4> QED
        BY <1>1, <2>1, <4>1, <4>2, OwnStep DEF DropApp, SaveInstall, SaveInstalled,
                                              Uninstall, Announce, Saving, q
    <3> QED
      BY <3>1
  <2>2. CASE SaveApp(r)
    <3>1. /\ q \in Request /\ q.at = "found" /\ Known(q) /\ Fit(q, ever, was)
          /\ Current(q, touched[r], app, installed)
          /\ q.ask.op \in {"publish", "unpublish", "put app"} /\ app[x] # Nothing
      BY <1>1, <2>2 DEF CInv, IInv, TypeOK, RequestsCurrent, RequestsFit, SaveApp, Saving,
                        Clear, Exists
    <3>2. x \in AppRows /\ q.seen \in App
      BY <3>1 DEF Fit
    <3>3. app[x] \in App
      BY <1>1, <3>1, <3>2 DEF CInv, IInv, TypeOK
    <3>4. new \in App
      BY <3>1, <3>2, <3>3, WrittenAppType
    <3>5. app'[x] = new
      BY <1>1, <2>2, <3>2 DEF SaveApp, CInv, IInv, TypeOK
    <3>6. new.read = IF q.ask.op = "put app" THEN app[x].read
                     ELSE WrittenSlots(app[x].read, q.seen.read, q.read)
      BY <3>3 DEF WrittenApp, App
    <3> DEFINE T == touched[r]
    <3>7. ASSUME q.ask.op \in {"publish", "unpublish"}, x \notin T,
                 q.read \in Seq(Groups), Len(q.read) <= 2
          PROVE  Range(Readers(new)) = Range(q.read) /\ app[x] = q.seen
      <4>1. app[x] = q.seen
        BY <3>1, <3>7 DEF Current
      <4> DEFINE old == q.seen.read
      <4>2. new.read = WrittenSlots(old, old, q.read)
        BY <3>6, <3>7, <4>1
      <4> HIDE DEF old, new
      <4>3. \A k \in Slots : new.read[k] = SlotsOf(q.read)[k]
        BY <4>2 DEF WrittenSlots, Column
      <4>4. new.read[0] = SlotsOf(q.read)[0] /\ new.read[1] = SlotsOf(q.read)[1]
        BY <4>3 DEF Slots
      <4> HIDE DEF q
      <4> QED
        BY <3>4, <3>7, <4>1, <4>4, ReadersRange, SlotsRange
    <3>8. ASSUME q.ask.op = "publish", x \notin T
          PROVE  Range(Readers(new)) = Range(Readers(app[x])) \cup {q.ask.group}
      <4>1. /\ q.read = Readers(q.seen) \o <<q.ask.group>> /\ Len(q.read) <= 2
            /\ q.read \in Seq(Groups) /\ q.ask.group \in Groups
        BY <3>1, <3>8, FoundIs, AskIs, TwoSlots DEF Known, Fits, Publishing
      <4>2. Range(Readers(new)) = Range(q.read) /\ app[x] = q.seen
        BY <3>7, <3>8, <4>1
      <4>3. Readers(q.seen) \in Seq(Groups)
        BY <3>2, ReadersType
      <4>4. Range(q.read) = Range(Readers(q.seen)) \cup {q.ask.group}
        BY <4>1, <4>3, AppendedRange
      <4> QED
        BY <4>2, <4>4
    <3>9. ASSUME q.ask.op = "unpublish", x \notin T
          PROVE  Range(Readers(new)) = Range(Readers(app[x])) \ {q.ask.group}
      <4>1. q.read \in Without(q.seen, q.ask.group) /\ q.ask.group \in Groups
        BY <3>1, <3>9, FoundIs, AskIs DEF Known, Publishing
      <4>2. /\ q.read \in Seq(Groups) /\ Len(q.read) <= 2
            /\ Range(q.read) = Range(Readers(q.seen)) \ {q.ask.group}
        BY <3>2, <4>1, WithoutRange
      <4> QED
        BY <3>7, <3>9, <4>2
    <3>10. q.ask.op = "put app" => new.read = app[x].read
      BY <3>6
    <3> HIDE DEF new
    <3> QED
      BY <3>5, <3>8, <3>9, <3>10
  <2> QED
    BY <2>1, <2>2
<1>2. CInv /\ [Next]_vars => \A r \in Requests : Step(r)
  BY <1>1
<1> QED
  BY <1>2, Currency, PTL DEF Spec, PublishedAsAnswered
=============================================================================
