--------------------------- MODULE EventPushProofs ----------------------------
(***************************************************************************)
(* Proofs about EventPush, for any installations, any number of workers    *)
(* and any kills: the pools hold, failures stay behind, the pushes         *)
(* implement Delivery, and enough workers are never stuck.                 *)
(***************************************************************************)
EXTENDS EventPush, SequenceTheorems, FiniteSetTheorems, TLAPS

-----------------------------------------------------------------------------
(* The paths of the calls.                                                 *)

Names == Installs \cup {"event", "refresh", "push", "read"}

InstallPaths == {<<r>> : r \in Installs}
HandlePaths == {<<r, "event", "push", a>> : r, a \in Installs}
PushPaths == {PushOf(e) : e \in Events}
RefreshPaths == {Append(c, "refresh") : c \in Events \cup HandlePaths}
ReadPaths == {Append(c, "read") : c \in HandlePaths}

Paths == InstallPaths \cup Events \cup PushPaths \cup HandlePaths
           \cup RefreshPaths \cup ReadPaths

(* A call k is named by its caller's path and k. *)
LEMMA AppendFacts ==
  ASSUME NEW c \in Seq(Names), NEW k \in Names
  PROVE  /\ Append(c, k) \in Seq(Names)
         /\ Len(Append(c, k)) = Len(c) + 1
         /\ Front(Append(c, k)) = c
         /\ Last(Append(c, k)) = k
         /\ \A i \in 1 .. Len(c) : Append(c, k)[i] = c[i]
<1> DEFINE s == Append(c, k)
<1>1. /\ s \in Seq(Names) /\ Len(s) = Len(c) + 1
      /\ \A i \in 1 .. Len(c) : s[i] = c[i]
      /\ s[Len(c) + 1] = k
  BY AppendProperties
<1>2. Last(s) = k
  BY <1>1 DEF Last
<1>3. Front(s) = c
  <2>1. Front(s) = [i \in 1 .. Len(c) |-> s[i]]
    BY <1>1 DEF Front
  <2>2. c = [i \in 1 .. Len(c) |-> c[i]]
    OBVIOUS
  <2> QED
    BY <2>1, <2>2, <1>1
<1> QED
  BY <1>1, <1>2, <1>3

LEMMA AppendIs ==
  ASSUME NEW s \in Seq(Names), NEW k \in Names, NEW t \in Seq(Names),
         Len(t) = Len(s) + 1, t[Len(t)] = k, \A i \in 1 .. Len(s) : s[i] = t[i]
  PROVE  Append(s, k) = t
<1>1. Append(s, k) \in Seq(Names) /\ Len(Append(s, k)) = Len(t)
  OBVIOUS
<1>2. \A i \in 1 .. Len(t) : Append(s, k)[i] = t[i]
  OBVIOUS
<1> QED
  BY <1>1, <1>2, SeqEqual

(* The paths that are written out: the request to install r, the event it   *)
(* posts, the handling of that event by a, and the event posted there.      *)
Asked(r) == <<r>>
Posted(r) == <<r, "event">>
Handled(r, a) == <<r, "event", "push", a>>
Late(r, a) == <<r, "event", "push", a, "event">>

LEMMA WrittenPaths ==
  ASSUME NEW r \in Installs, NEW a \in Installs
  PROVE  /\ Asked(r) \in Seq(Names) /\ Posted(r) \in Seq(Names)
         /\ Handled(r, a) \in Seq(Names) /\ Late(r, a) \in Seq(Names)
         /\ Len(Asked(r)) = 1 /\ Len(Posted(r)) = 2
         /\ Len(Handled(r, a)) = 4 /\ Len(Late(r, a)) = 5
         /\ Asked(r)[1] = r /\ Posted(r)[1] = r
         /\ Handled(r, a)[1] = r /\ Late(r, a)[1] = r
         /\ Last(Posted(r)) = "event"
         /\ Last(Handled(r, a)) = a
         /\ Last(Late(r, a)) = "event"
  BY DEF Asked, Posted, Handled, Late, Names, Last

LEMMA WrittenCalls ==
  ASSUME NEW r \in Installs, NEW a \in Installs
  PROVE  /\ Append(Asked(r), "event") = Posted(r)
         /\ Append(PushOf(Posted(r)), a) = Handled(r, a)
         /\ Append(Handled(r, a), "event") = Late(r, a)
<1> DEFINE p == <<r, "event", "push">>
<1>1. Append(Asked(r), "event") = Posted(r)
  <2>1. /\ "event" \in Names /\ Posted(r)[Len(Posted(r))] = "event"
        /\ Asked(r) \in Seq(Names) /\ Posted(r) \in Seq(Names)
        /\ Len(Posted(r)) = Len(Asked(r)) + 1
        /\ \A i \in 1 .. Len(Asked(r)) : Asked(r)[i] = Posted(r)[i]
    BY DEF Asked, Posted, Names
  <2> QED
    BY <2>1, AppendIs
<1>2. Append(Posted(r), "push") = p
  <2>1. /\ "push" \in Names /\ p[Len(p)] = "push"
        /\ Posted(r) \in Seq(Names) /\ p \in Seq(Names)
        /\ Len(p) = Len(Posted(r)) + 1
        /\ \A i \in 1 .. Len(Posted(r)) : Posted(r)[i] = p[i]
    BY DEF Posted, Names
  <2> HIDE DEF p
  <2> QED
    BY <2>1, AppendIs
<1>3. Append(p, a) = Handled(r, a)
  <2>1. /\ a \in Names /\ Handled(r, a)[Len(Handled(r, a))] = a
        /\ p \in Seq(Names) /\ Handled(r, a) \in Seq(Names)
        /\ Len(Handled(r, a)) = Len(p) + 1
        /\ \A i \in 1 .. Len(p) : p[i] = Handled(r, a)[i]
    BY DEF Handled, Names
  <2> HIDE DEF p
  <2> QED
    BY <2>1, AppendIs
<1>4. Append(Handled(r, a), "event") = Late(r, a)
  <2>1. /\ "event" \in Names /\ Late(r, a)[Len(Late(r, a))] = "event"
        /\ Handled(r, a) \in Seq(Names) /\ Late(r, a) \in Seq(Names)
        /\ Len(Late(r, a)) = Len(Handled(r, a)) + 1
        /\ \A i \in 1 .. Len(Handled(r, a)) : Handled(r, a)[i] = Late(r, a)[i]
    BY DEF Handled, Late, Names
  <2> QED
    BY <2>1, AppendIs
<1> QED
  BY <1>1, <1>2, <1>3, <1>4 DEF PushOf

LEMMA Written ==
  /\ InstallPaths = {Asked(r) : r \in Installs}
  /\ HandlePaths = {Handled(r, a) : r, a \in Installs}
  /\ Events = {Posted(r) : r \in Installs} \cup {Late(r, a) : r, a \in Installs}
  BY DEF InstallPaths, HandlePaths, Events, Asked, Posted, Handled, Late

LEMMA PathType ==
  ASSUME NEW c \in Paths
  PROVE  /\ c \in Seq(Names) /\ Len(c) \in Nat \ {0}
         /\ c[1] \in Installs
<1>1. ASSUME NEW d \in InstallPaths \cup Events \cup HandlePaths
      PROVE  d \in Seq(Names) /\ Len(d) \in Nat \ {0} /\ d[1] \in Installs
  BY Written, WrittenPaths
<1>2. CASE c \in InstallPaths \cup Events \cup HandlePaths
  BY <1>1, <1>2
<1>3. ASSUME NEW d \in Events \cup HandlePaths, NEW k \in Names, c = Append(d, k)
      PROVE  c \in Seq(Names) /\ Len(c) \in Nat \ {0} /\ c[1] \in Installs
  BY <1>1, <1>3, AppendFacts
<1>4. CASE c \in PushPaths \cup RefreshPaths \cup ReadPaths
  BY <1>3, <1>4 DEF PushPaths, RefreshPaths, ReadPaths, PushOf, Names
<1> QED
  BY <1>2, <1>4 DEF Paths

LEMMA AppendApart ==
  ASSUME NEW c \in Paths, NEW d \in Paths, NEW k \in Names, NEW l \in Names,
         Append(c, k) = Append(d, l)
  PROVE  c = d /\ k = l
  BY PathType, AppendInjective

(* How long the paths of each kind of call are. *)
LEMMA PathLength ==
  /\ \A c \in InstallPaths : Len(c) = 1
  /\ \A c \in Events : Len(c) \in {2, 5} /\ Last(c) = "event"
  /\ \A c \in HandlePaths : Len(c) = 4 /\ Last(c) \in Installs
  BY Written, WrittenPaths

LEMMA KindOfCall ==
  ASSUME NEW c \in Paths, NEW k \in Names
  PROVE  Kind(Append(c, k)) = IF k \in Installs THEN "handle" ELSE k
  BY PathType, AppendFacts DEF Kind

LEMMA KindOfPath ==
  ASSUME NEW c \in Paths
  PROVE  /\ c \in InstallPaths <=> Kind(c) = "install"
         /\ c \in Events <=> Kind(c) = "event"
         /\ c \in PushPaths <=> Kind(c) = "push"
         /\ c \in HandlePaths <=> Kind(c) = "handle"
         /\ c \in RefreshPaths <=> Kind(c) = "refresh"
         /\ c \in ReadPaths <=> Kind(c) = "read"
<1>1. ASSUME c \in InstallPaths PROVE Kind(c) = "install"
  BY <1>1, PathLength DEF Kind
<1>2. ASSUME c \in Events PROVE Kind(c) = "event"
  BY <1>2, PathLength, NamesAssumption DEF Kind
<1>3. ASSUME c \in HandlePaths PROVE Kind(c) = "handle"
  BY <1>3, PathLength DEF Kind
<1>4. ASSUME c \in PushPaths PROVE Kind(c) = "push"
  <2>1. PICK d \in Events : c = Append(d, "push")
    BY <1>4 DEF PushPaths, PushOf
  <2>2. d \in Paths /\ "push" \in Names /\ "push" \notin Installs
    BY NamesAssumption DEF Paths, Names
  <2> QED
    BY <1>4, <2>1, <2>2, KindOfCall
<1>5. ASSUME c \in RefreshPaths PROVE Kind(c) = "refresh"
  <2>1. PICK d \in Events \cup HandlePaths : c = Append(d, "refresh")
    BY <1>5 DEF RefreshPaths
  <2>2. d \in Paths /\ "refresh" \in Names /\ "refresh" \notin Installs
    BY NamesAssumption DEF Paths, Names
  <2> QED
    BY <1>5, <2>1, <2>2, KindOfCall
<1>6. ASSUME c \in ReadPaths PROVE Kind(c) = "read"
  <2>1. PICK d \in HandlePaths : c = Append(d, "read")
    BY <1>6 DEF ReadPaths
  <2>2. d \in Paths /\ "read" \in Names /\ "read" \notin Installs
    BY NamesAssumption DEF Paths, Names
  <2> QED
    BY <1>6, <2>1, <2>2, KindOfCall
<1> QED
  BY <1>1, <1>2, <1>3, <1>4, <1>5, <1>6 DEF Paths

(* The calls that a call of each kind makes. *)
LEMMA CallPaths ==
  /\ \A c \in InstallPaths : Append(c, "event") \in Events
  /\ \A c \in Events : Append(c, "refresh") \in RefreshPaths
  /\ \A c \in Events : Append(c, "push") \in PushPaths
  /\ \A c \in HandlePaths : /\ Append(c, "event") \in Events
                            /\ Append(c, "refresh") \in RefreshPaths
                            /\ Append(c, "read") \in ReadPaths
  /\ \A c \in PushPaths, a \in Installs :
       Len(c) = 3 => Append(c, a) \in HandlePaths
<1>1. \A c \in InstallPaths : Append(c, "event") \in Events
  BY Written, WrittenCalls
<1>2. ASSUME NEW c \in HandlePaths PROVE Append(c, "event") \in Events
  <2>1. PICK r \in Installs, a \in Installs : c = Handled(r, a)
    BY Written
  <2>2. Append(c, "event") = Late(r, a)
    BY <2>1, WrittenCalls
  <2> QED
    BY <2>2, Written
<1>3. ASSUME NEW c \in PushPaths, NEW a \in Installs, Len(c) = 3
      PROVE  Append(c, a) \in HandlePaths
  <2>1. PICK e \in Events : c = Append(e, "push")
    BY DEF PushPaths, PushOf
  <2>2. Len(e) = 2
    BY <2>1, <1>3, PathType, AppendFacts, PathLength DEF Paths, Names
  <2>3. \A r, b \in Installs : Len(Late(r, b)) = 5
    BY WrittenPaths
  <2>4. PICK r \in Installs : e = Posted(r)
    <3>1. (\E r \in Installs : e = Posted(r)) \/ \E r, b \in Installs : e = Late(r, b)
      BY Written
    <3> QED
      BY <3>1, <2>2, <2>3
  <2>5. Append(c, a) = Handled(r, a)
    BY <2>1, <2>4, WrittenCalls DEF PushOf
  <2> QED
    BY <2>5, Written
<1> QED
  BY <1>1, <1>2, <1>3 DEF RefreshPaths, ReadPaths, PushPaths, PushOf

(* The push of an event is no event, and of no other event. *)
LEMMA PushPath ==
  ASSUME NEW e \in Events
  PROVE  /\ e \in Paths /\ Kind(e) = "event"
         /\ PushOf(e) \in PushPaths /\ PushOf(e) \in Paths
         /\ Kind(PushOf(e)) = "push" /\ PushOf(e) # e
         /\ \A f \in Events : PushOf(e) # f /\ (PushOf(e) = PushOf(f) => e = f)
<1>1. e \in Paths /\ PushOf(e) \in PushPaths /\ PushOf(e) \in Paths
  BY DEF Paths, PushPaths
<1>2. Kind(e) = "event" /\ Kind(PushOf(e)) = "push"
  BY <1>1, KindOfPath
<1>3. ASSUME NEW f \in Events
      PROVE  PushOf(e) # f /\ (PushOf(e) = PushOf(f) => e = f)
  <2>1. f \in Paths /\ Kind(f) = "event"
    BY KindOfPath DEF Paths
  <2> QED
    BY <1>1, <1>2, <2>1, AppendApart DEF PushOf, Names
<1> QED
  BY <1>1, <1>2, <1>3

-----------------------------------------------------------------------------
(* The inductive invariant.                                                *)

(* What a call of each kind may be at. *)
StepsOf(kind) ==
  CASE kind = "install" -> {"queued", "committed", "emitting", "done"}
    [] kind = "event" -> {"queued", "committed", "refreshing", "pushing", "done"}
    [] kind = "push" -> {"queued", "telling", "done"}
    [] kind = "handle" -> {"queued", "refreshing", "emitting", "reading", "done"}
    [] OTHER -> {"queued", "done"}

(* A call in state m may have made call k. *)
MayHaveMade(m, k) ==
  /\ m.at # "queued" /\ k \notin m.left
  /\ k = "event" => m.at \in {"emitting", "done"}
  /\ k = "refresh" => m.at # "committed"
  /\ k = "push" => m.at \in {"pushing", "done"}
  /\ k = "read" => m.at \in {"reading", "done"}

(* m is a state that call c may be in. *)
SoundState(c, m) ==
  /\ m \in Call
  /\ m.at \in StepsOf(Kind(c))
  /\ c \in PushPaths /\ Len(c) # 3 => m.left = {}

Constants ==
  /\ pool \in [Services -> Nat \ {0}]
  /\ slug \in [Installs -> {"slack", "calendar", "other"}]
  /\ listening \subseteq Installs
  /\ troubles \in Nat

(* The calls are a tree, and what each is at agrees with what it has made. *)
CallTree ==
  /\ calls \in [DOMAIN calls -> Call]
  /\ IsFiniteSet(DOMAIN calls)
  /\ DOMAIN calls \subseteq Paths
  /\ \A c \in DOMAIN calls :
       /\ SoundState(c, calls[c])
       /\ Len(c) > 1 => Front(c) \in DOMAIN calls
       /\ \A k \in Names : Append(c, k) \in DOMAIN calls => MayHaveMade(calls[c], k)

(* An event is committed while its call is at work, and if it is pushed. *)
Posting ==
  /\ \A e \in events : e \in DOMAIN calls /\ Kind(e) = "event" /\ calls[e].at # "queued"
  /\ \A e \in DOMAIN calls :
       /\ Kind(e) = "event"
       /\ calls[e].at \notin {"queued", "done"} \/ PushOf(e) \in DOMAIN calls
       => e \in events

BusyAt(s) == {c \in DOMAIN calls : Service(c) = s /\ Busy(c)}

PoolsHold == \A s \in Services : Cardinality(BusyAt(s)) <= pool[s]

IInv == Constants /\ CallTree /\ Posting /\ PoolsHold

-----------------------------------------------------------------------------
(* Every step of a service moves one call on, and may make one call.       *)

(* Only an event that is accepted is added, before it is worked on. *)
EventsGo(c, m) ==
  /\ \/ events' = events
     \/ Kind(c) = "event" /\ calls[c].at = "queued" /\ events' = events \cup {c}
  /\ Kind(c) = "event" /\ m.at # "done" => c \in events'

(* The state m that c goes to, which needs a worker. *)
GoesTo(c, m) ==
  /\ SoundState(c, m) /\ m.at # "queued"
  /\ Busy(c) \/ FreeWorker(Service(c)) \/ m.at = "done"
  /\ \A k \in Names : Append(c, k) \in DOMAIN calls => MayHaveMade(m, k)
  /\ EventsGo(c, m)

Moves(c, m) ==
  /\ GoesTo(c, m)
  /\ calls' = [calls EXCEPT ![c] = m]

Makes(c, m, k) ==
  /\ GoesTo(c, m)
  /\ k \in Names /\ Append(c, k) \in Paths \ DOMAIN calls
  /\ MayHaveMade(m, k) /\ m.at # "done"
  /\ calls' = [d \in DOMAIN calls \cup {Append(c, k)} |->
                 IF d = Append(c, k) THEN NewCall ELSE IF d = c THEN m ELSE calls[d]]

LEMMA MovesTree ==
  ASSUME CallTree, NEW c \in DOMAIN calls, NEW m, Moves(c, m)
  PROVE  CallTree'
<1>1. DOMAIN calls' = DOMAIN calls /\ calls' \in [DOMAIN calls -> Call]
  BY DEF CallTree, Moves, GoesTo, SoundState
<1>2. ASSUME NEW d \in DOMAIN calls
      PROVE  /\ SoundState(d, calls'[d])
             /\ \A k \in Names : Append(d, k) \in DOMAIN calls => MayHaveMade(calls'[d], k)
  BY DEF CallTree, Moves, GoesTo
<1> QED
  BY <1>1, <1>2 DEF CallTree

LEMMA NewIsSound ==
  ASSUME NEW c
  PROVE  SoundState(c, NewCall)
  BY DEF SoundState, NewCall, Call, Steps, StepsOf

LEMMA MakesTree ==
  ASSUME CallTree, NEW c \in DOMAIN calls, NEW m, NEW k, Makes(c, m, k)
  PROVE  CallTree'
<1> DEFINE n == Append(c, k)
<1>1. /\ DOMAIN calls' = DOMAIN calls \cup {n}
      /\ calls'[n] = NewCall /\ calls'[c] = m
      /\ \A d \in DOMAIN calls \ {c} : calls'[d] = calls[d]
      /\ n \notin DOMAIN calls /\ n \in Paths /\ k \in Names
      /\ c \in Paths
  BY DEF Makes, CallTree
<1>2. NewCall \in Call /\ m \in Call
  BY NewIsSound DEF SoundState, Makes, GoesTo
<1>3. calls' \in [DOMAIN calls' -> Call]
  BY <1>1, <1>2 DEF Makes, CallTree
<1>4. IsFiniteSet(DOMAIN calls')
  BY <1>1, FS_AddElement DEF CallTree
<1>5. Front(n) = c
  BY <1>1, PathType, AppendFacts
<1>6. ASSUME NEW d \in DOMAIN calls'
      PROVE  SoundState(d, calls'[d]) /\ (Len(d) > 1 => Front(d) \in DOMAIN calls')
  BY <1>1, <1>5, NewIsSound DEF CallTree, Makes, GoesTo
<1>7. ASSUME NEW d \in DOMAIN calls', NEW l \in Names, Append(d, l) \in DOMAIN calls'
      PROVE  MayHaveMade(calls'[d], l)
  <2>1. d \in Paths
    BY <1>1 DEF CallTree
  <2>2. CASE Append(d, l) = n
    BY <2>1, <2>2, <1>1, AppendApart DEF Makes
  <2>3. CASE Append(d, l) # n
    <3>1. Append(d, l) \in DOMAIN calls
      BY <2>3, <1>1, <1>7
    <3>2. Front(Append(d, l)) = d /\ Len(Append(d, l)) > 1
      BY <2>1, PathType, AppendFacts
    <3>3. d \in DOMAIN calls
      BY <3>1, <3>2 DEF CallTree
    <3> QED
      BY <3>1, <3>3, <1>1 DEF CallTree, Makes, GoesTo
  <2> QED
    BY <2>2, <2>3
<1> QED
  BY <1>1, <1>3, <1>4, <1>6, <1>7 DEF CallTree

(* Only c may become busy, for which there is a worker. *)
LEMMA WorkersHold ==
  ASSUME CallTree, PoolsHold, Constants, Constants',
         pool' = pool,
         NEW c \in DOMAIN calls, NEW m, GoesTo(c, m),
         IsFiniteSet(DOMAIN calls'),
         c \in DOMAIN calls', calls'[c] = m,
         \A d \in DOMAIN calls' \ {c} :
            IF d \in DOMAIN calls THEN calls'[d] = calls[d] ELSE calls'[d] = NewCall
  PROVE  PoolsHold'
<1> SUFFICES ASSUME NEW s \in Services
             PROVE  Cardinality(BusyAt(s)') <= pool[s]
  BY DEF PoolsHold
<1>1. IsFiniteSet(BusyAt(s)) /\ IsFiniteSet(BusyAt(s)')
  BY FS_Subset DEF BusyAt, CallTree
<1>2. Cardinality(BusyAt(s)) \in Nat /\ Cardinality(BusyAt(s)') \in Nat /\ pool[s] \in Nat
  BY <1>1, FS_CardinalityType DEF Constants
<1>3. BusyAt(s)' \subseteq BusyAt(s) \cup {c}
  BY DEF BusyAt, Busy, NewCall
<1>4. CASE c \in BusyAt(s) \/ c \notin BusyAt(s)'
  <2>1. BusyAt(s)' \subseteq BusyAt(s)
    BY <1>3, <1>4
  <2>2. Cardinality(BusyAt(s)') <= Cardinality(BusyAt(s))
    BY <1>1, <2>1, FS_Subset
  <2> QED
    BY <2>2, <1>2 DEF PoolsHold
<1>5. CASE c \notin BusyAt(s) /\ c \in BusyAt(s)'
  <2>1. Service(c) = s /\ ~ Busy(c) /\ m.at # "done"
    BY <1>5 DEF BusyAt, Busy
  <2>2. FreeWorker(s)
    BY <2>1 DEF GoesTo
  <2>3. Cardinality(BusyAt(s)) < pool[s]
    BY <2>2 DEF FreeWorker, BusyAt
  <2>4. /\ IsFiniteSet(BusyAt(s) \cup {c})
        /\ Cardinality(BusyAt(s) \cup {c}) = Cardinality(BusyAt(s)) + 1
    BY <1>1, <1>5, FS_AddElement
  <2>5. Cardinality(BusyAt(s)') <= Cardinality(BusyAt(s) \cup {c})
    BY <1>3, <2>4, FS_Subset
  <2> QED
    BY <2>3, <2>4, <2>5, <1>2
<1> QED
  BY <1>4, <1>5

LEMMA FinishMoves ==
  ASSUME CallTree, Posting, NEW c \in DOMAIN calls,
         NEW answer \in {"ok", "failed", "broken"}, Finish(c, answer),
         events' = events
  PROVE  \E m : Moves(c, m)
<1> DEFINE m == [calls[c] EXCEPT !.at = "done", !.answer = answer]
<1>1. calls[c] \in Call /\ calls' = [calls EXCEPT ![c] = m]
  BY DEF CallTree, Finish
<1>2. m \in Call /\ m.at = "done" /\ m.left = calls[c].left
  BY <1>1 DEF Call, Steps
<1>3. "done" \in StepsOf(Kind(c))
  BY DEF StepsOf
<1>4. SoundState(c, m)
  BY <1>2, <1>3 DEF SoundState, CallTree
<1>5. \A k \in Names : Append(c, k) \in DOMAIN calls => MayHaveMade(m, k)
  BY <1>2 DEF CallTree, MayHaveMade
<1>6. EventsGo(c, m)
  BY <1>2 DEF EventsGo
<1> HIDE DEF m
<1> QED
  BY <1>1, <1>2, <1>4, <1>5, <1>6 DEF Moves, GoesTo

(* Where c stands, and what it may call, by its kind. *)
LEMMA CallKinds ==
  ASSUME CallTree, NEW c \in DOMAIN calls
  PROVE  /\ c \in Paths /\ calls[c] \in Call
         /\ calls[c].at \in StepsOf(Kind(c))
         /\ Kind(c) = "install" => c \in InstallPaths
         /\ Kind(c) = "event" => c \in Events
         /\ Kind(c) = "push" => c \in PushPaths
         /\ Kind(c) = "handle" => c \in HandlePaths
         /\ calls[c].at = "telling" => Kind(c) = "push"
         /\ Kind(c) \in {"install", "event", "push", "handle", "refresh", "read"}
<1>1. c \in Paths /\ calls[c] \in Call /\ calls[c].at \in StepsOf(Kind(c))
  BY DEF CallTree, SoundState
<1>2. calls[c].at = "telling" => Kind(c) = "push"
  BY <1>1, KindOfPath DEF StepsOf
<1> QED
  BY <1>1, <1>2, KindOfPath DEF Paths

(* c goes to a step, having made no call. *)
LEMMA FirstStep ==
  ASSUME IInv, NEW c \in DOMAIN calls,
         NEW m \in Call, Accepted(c, Kind(c)),
         m.at \in StepsOf(Kind(c)) \ {"queued"},
         c \in PushPaths /\ Len(c) # 3 => m.left = {},
         EventsGo(c, m)
  PROVE  GoesTo(c, m) /\ \A k \in Names : Append(c, k) \notin DOMAIN calls
  BY DEF GoesTo, SoundState, Accepted, At, IInv, CallTree, MayHaveMade

(* c makes call k, and has made none that step rules out. *)
LEMMA DoMakes ==
  ASSUME IInv, NEW c \in DOMAIN calls, NEW step, NEW k \in Names, Do(c, step, k),
         step \in StepsOf(Kind(c)) \ {"queued", "done"},
         Append(c, k) \in Paths,
         calls[c].at # "queued" \/ FreeWorker(Service(c)),
         MayHaveMade([calls[c] EXCEPT !.at = step, !.left = @ \ {k}], k),
         ~ MayHaveMade(calls[c], k),
         \A l \in Names :
           MayHaveMade(calls[c], l) =>
             MayHaveMade([calls[c] EXCEPT !.at = step, !.left = @ \ {k}], l),
         calls[c].at # "done",
         events' = events, Kind(c) = "event" => calls[c].at # "queued"
  PROVE  \E m : Makes(c, m, k)
<1> DEFINE m == [calls[c] EXCEPT !.at = step, !.left = @ \ {k}]
<1>1. calls[c] \in Call /\ SoundState(c, calls[c])
  BY DEF IInv, CallTree
<1>2. step \in Steps
  BY DEF StepsOf, Steps
<1>3. m \in Call /\ m.at = step /\ m.left = calls[c].left \ {k}
  BY <1>1, <1>2 DEF Call
<1>4. SoundState(c, m)
  BY <1>1, <1>3 DEF SoundState
<1>5. EventsGo(c, m)
  BY DEF EventsGo, IInv, Posting
<1>6. Busy(c) \/ FreeWorker(Service(c))
  BY DEF Busy
<1>7. /\ \A l \in Names : Append(c, l) \in DOMAIN calls => MayHaveMade(m, l)
      /\ Append(c, k) \notin DOMAIN calls
  BY DEF IInv, CallTree
<1>8. calls' = [d \in DOMAIN calls \cup {Append(c, k)} |->
                  IF d = Append(c, k) THEN NewCall ELSE IF d = c THEN m ELSE calls[d]]
  BY DEF Do
<1>9. MayHaveMade(m, k)
  OBVIOUS
<1> HIDE DEF m
<1> QED
  BY <1>3, <1>4, <1>5, <1>6, <1>7, <1>8, <1>9 DEF Makes, GoesTo

Stepped(c) == (\E m : Moves(c, m)) \/ (\E m, k : Makes(c, m, k))

LEMMA InstallStep ==
  ASSUME IInv, NEW c \in DOMAIN calls,
         InstallCommits(c) \/ InstallEmits(c) \/ InstallAnswers(c)
  PROVE  Stepped(c) /\ UNCHANGED <<pool, slug, troubles>>
         /\ listening' \subseteq listening \cup {c[1]}
<1> USE CallKinds DEF IInv
<1>1. CASE InstallCommits(c)
  <2> DEFINE m == [calls[c] EXCEPT !.at = "committed"]
  <2>1. m \in Call /\ m.at = "committed" /\ Kind(c) = "install" /\ c \notin PushPaths
    BY <1>1, KindOfPath DEF InstallCommits, Accepted, Call, Steps
  <2>2. m.at \in StepsOf(Kind(c)) \ {"queued"} /\ Accepted(c, Kind(c)) /\ EventsGo(c, m)
    BY <2>1, <1>1 DEF StepsOf, InstallCommits, Accepted, EventsGo
  <2>3. calls' = [calls EXCEPT ![c] = m]
    BY <1>1 DEF InstallCommits, Goto
  <2> HIDE DEF m
  <2>4. Moves(c, m)
    BY <2>1, <2>2, <2>3, FirstStep DEF Moves
  <2> QED
    BY <2>4, <1>1 DEF Stepped, InstallCommits
<1>2. CASE InstallEmits(c)
  <2>1. /\ calls[c].at = "committed" /\ Kind(c) = "install" /\ Do(c, "emitting", "event")
        /\ "event" \in Names /\ events' = events
    BY <1>2 DEF InstallEmits, At, Names
  <2>2. "emitting" \in StepsOf(Kind(c)) \ {"queued", "done"} /\ Append(c, "event") \in Paths
    BY <2>1, CallPaths DEF StepsOf, Paths
  <2>3. \E m : Makes(c, m, "event")
    BY <2>1, <2>2, DoMakes DEF MayHaveMade, Call
  <2> QED
    BY <2>3, <1>2 DEF Stepped, InstallEmits
<1>3. CASE InstallAnswers(c)
  BY <1>3, FinishMoves DEF InstallAnswers, Stepped
<1> QED
  BY <1>1, <1>2, <1>3

LEMMA EventStep ==
  ASSUME IInv, NEW c \in DOMAIN calls,
         EventCommits(c) \/ EventRefreshes(c) \/ EventPushes(c) \/ EventAnswers(c)
  PROVE  Stepped(c)
<1> USE CallKinds DEF IInv
<1>1. CASE EventCommits(c)
  <2> DEFINE m == [calls[c] EXCEPT !.at = "committed"]
  <2>1. m \in Call /\ m.at = "committed" /\ Kind(c) = "event" /\ c \notin PushPaths
    BY <1>1, KindOfPath DEF EventCommits, Accepted, Call, Steps
  <2>2. m.at \in StepsOf(Kind(c)) \ {"queued"} /\ Accepted(c, Kind(c)) /\ EventsGo(c, m)
    BY <2>1, <1>1 DEF StepsOf, EventCommits, Accepted, At, EventsGo
  <2>3. calls' = [calls EXCEPT ![c] = m]
    BY <1>1 DEF EventCommits, Goto
  <2> HIDE DEF m
  <2>4. Moves(c, m)
    BY <2>1, <2>2, <2>3, FirstStep DEF Moves
  <2> QED
    BY <2>4 DEF Stepped
<1>2. CASE EventRefreshes(c)
  <2>1. /\ calls[c].at = "committed" /\ Kind(c) = "event" /\ Do(c, "refreshing", "refresh")
        /\ "refresh" \in Names /\ events' = events
    BY <1>2 DEF EventRefreshes, At, Names
  <2>2. "refreshing" \in StepsOf(Kind(c)) \ {"queued", "done"} /\ Append(c, "refresh") \in Paths
    BY <2>1, CallPaths DEF StepsOf, Paths
  <2>3. \E m : Makes(c, m, "refresh")
    BY <2>1, <2>2, DoMakes DEF MayHaveMade, Call
  <2> QED
    BY <2>3 DEF Stepped
<1>3. CASE EventPushes(c)
  <2>1. /\ calls[c].at = "refreshing" /\ Kind(c) = "event" /\ Do(c, "pushing", "push")
        /\ "push" \in Names /\ events' = events
    BY <1>3 DEF EventPushes, AnsweredOk, Answered, At, Names
  <2>2. "pushing" \in StepsOf(Kind(c)) \ {"queued", "done"} /\ Append(c, "push") \in Paths
    BY <2>1, CallPaths DEF StepsOf, Paths
  <2>3. \E m : Makes(c, m, "push")
    BY <2>1, <2>2, DoMakes DEF MayHaveMade, Call
  <2> QED
    BY <2>3 DEF Stepped
<1>4. CASE EventAnswers(c)
  <2>1. calls[c].at # "queued" /\ Finish(c, "ok") /\ events' = events
    BY <1>4 DEF EventAnswers, Raises, Answered, At
  <2> QED
    BY <2>1, FinishMoves DEF Stepped
<1> QED
  BY <1>1, <1>2, <1>3, <1>4

LEMMA PushStep ==
  ASSUME IInv, NEW c \in DOMAIN calls,
         PushQueries(c) \/ PushTells(c) \/ PushAnswers(c)
  PROVE  Stepped(c)
<1> USE CallKinds DEF IInv
<1>1. CASE PushQueries(c)
  <2> DEFINE m == [calls[c] EXCEPT !.at = "telling", !.left = Listeners(c)]
  <2>1. Listeners(c) \subseteq Installs
    BY DEF Listeners, Constants
  <2>2. /\ m \in Call /\ m.at = "telling" /\ Kind(c) = "push"
        /\ Len(c) # 3 => m.left = {}
    BY <1>1, <2>1 DEF PushQueries, Accepted, Call, Steps, Listeners
  <2>3. m.at \in StepsOf(Kind(c)) \ {"queued"} /\ Accepted(c, Kind(c)) /\ EventsGo(c, m)
    BY <2>2, <1>1 DEF StepsOf, PushQueries, Accepted, EventsGo
  <2>4. calls' = [calls EXCEPT ![c] = m]
    BY <1>1 DEF PushQueries
  <2> HIDE DEF m
  <2>5. Moves(c, m)
    BY <2>2, <2>3, <2>4, FirstStep DEF Moves
  <2> QED
    BY <2>5 DEF Stepped
<1>2. CASE PushTells(c)
  <2>1. PICK a \in calls[c].left : Do(c, "telling", a)
    BY <1>2 DEF PushTells
  <2>2. /\ calls[c].at = "telling" /\ Kind(c) = "push" /\ c \in PushPaths
        /\ a \in Installs /\ a \in Names /\ events' = events
    BY <1>2 DEF PushTells, At, Names, Call
  <2>3. Len(c) = 3
    BY <2>2 DEF CallTree, SoundState
  <2>4. "telling" \in StepsOf(Kind(c)) \ {"queued", "done"} /\ Append(c, a) \in Paths
    BY <2>2, <2>3, CallPaths DEF StepsOf, Paths
  <2>5. a \notin {"event", "refresh", "push", "read"}
    BY <2>2, NamesAssumption
  <2>6. \E m : Makes(c, m, a)
    BY <2>1, <2>2, <2>4, <2>5, DoMakes DEF MayHaveMade, Call
  <2> QED
    BY <2>6 DEF Stepped
<1>3. CASE PushAnswers(c)
  <2>1. Kind(c) = "push" /\ events' = events
        /\ Finish(c, IF SomeFailed(c) THEN "failed" ELSE "ok")
    BY <1>3 DEF PushAnswers, At
  <2> QED
    BY <2>1, FinishMoves DEF Stepped
<1> QED
  BY <1>1, <1>2, <1>3

LEMMA HandlerStep ==
  ASSUME IInv, NEW c \in DOMAIN calls,
         \/ HandlerFails(c) \/ HandlerRefreshes(c) \/ HandlerEmits(c) \/ HandlerReads(c)
         \/ HandlerAnswers(c)
  PROVE  Stepped(c)
<1> USE CallKinds DEF IInv
<1>1. CASE HandlerFails(c)
  <2>1. Kind(c) = "handle" /\ events' = events /\ Finish(c, "failed")
    BY <1>1 DEF HandlerFails, Accepted
  <2> QED
    BY <2>1, FinishMoves DEF Stepped
<1>2. CASE HandlerRefreshes(c)
  <2>1. /\ calls[c].at = "queued" /\ Kind(c) = "handle" /\ Do(c, "refreshing", "refresh")
        /\ "refresh" \in Names /\ events' = events /\ FreeWorker(Service(c))
    BY <1>2 DEF HandlerRefreshes, Accepted, At, Names
  <2>2. "refreshing" \in StepsOf(Kind(c)) \ {"queued", "done"} /\ Append(c, "refresh") \in Paths
    BY <2>1, CallPaths DEF StepsOf, Paths
  <2>3. "refresh" \notin Installs
    BY NamesAssumption
  <2>4. \E m : Makes(c, m, "refresh")
    BY <2>1, <2>2, <2>3, DoMakes DEF MayHaveMade, Call
  <2> QED
    BY <2>4 DEF Stepped
<1>3. CASE HandlerEmits(c)
  <2>1. /\ calls[c].at = "refreshing" /\ Kind(c) = "handle" /\ Do(c, "emitting", "event")
        /\ "event" \in Names /\ events' = events
    BY <1>3 DEF HandlerEmits, AnsweredOk, Answered, At, Names
  <2>2. "emitting" \in StepsOf(Kind(c)) \ {"queued", "done"} /\ Append(c, "event") \in Paths
    BY <2>1, CallPaths DEF StepsOf, Paths
  <2>3. \E m : Makes(c, m, "event")
    BY <2>1, <2>2, DoMakes DEF MayHaveMade, Call
  <2> QED
    BY <2>3 DEF Stepped
<1>4. CASE HandlerReads(c)
  <2>1. /\ calls[c].at = "refreshing" /\ Kind(c) = "handle" /\ Do(c, "reading", "read")
        /\ "read" \in Names /\ events' = events
    BY <1>4 DEF HandlerReads, AnsweredOk, Answered, At, Names
  <2>2. "reading" \in StepsOf(Kind(c)) \ {"queued", "done"} /\ Append(c, "read") \in Paths
    BY <2>1, CallPaths DEF StepsOf, Paths
  <2>3. \E m : Makes(c, m, "read")
    BY <2>1, <2>2, DoMakes DEF MayHaveMade, Call
  <2> QED
    BY <2>3 DEF Stepped
<1>5. CASE HandlerAnswers(c)
  <2>1. Kind(c) = "handle" /\ events' = events /\ Finish(c, "ok")
    BY <1>5 DEF HandlerAnswers, Accepted
  <2> QED
    BY <2>1, FinishMoves DEF Stepped
<1> QED
  BY <1>1, <1>2, <1>3, <1>4, <1>5

LEMMA OtherStep ==
  ASSUME IInv, NEW c \in DOMAIN calls, InsertBreaks(c) \/ LeafAnswers(c) \/ Kill(c)
  PROVE  Stepped(c)
<1> USE CallKinds DEF IInv
<1>1. CASE LeafAnswers(c)
  <2>1. PICK answer \in {"ok", "failed"} : Finish(c, answer)
    BY <1>1 DEF LeafAnswers
  <2>2. events' = events
    BY <1>1 DEF LeafAnswers
  <2> QED
    BY <2>1, <2>2, FinishMoves DEF Stepped
<1>2. CASE Kill(c)
  <2>1. PICK answer \in {"ok", "broken"} : Finish(c, answer)
    BY <1>2 DEF Kill
  <2> QED
    BY <1>2, <2>1, FinishMoves DEF Kill, Stepped
<1>3. CASE InsertBreaks(c)
  BY <1>3, FinishMoves DEF InsertBreaks, Stepped
<1> QED
  BY <1>1, <1>2, <1>3

(* Only an install changes the listeners; nothing changes the pools.       *)
LEMMA ServeStep ==
  ASSUME IInv, NEW c \in DOMAIN calls, Work(c) \/ Kill(c)
  PROVE  Stepped(c) /\ Constants'
<1>1. Stepped(c)
  BY InstallStep, EventStep, PushStep, HandlerStep, OtherStep DEF Work
<1>2. CASE InstallCommits(c)
  BY <1>1, <1>2, InstallStep, PathType DEF IInv, Constants, CallTree
<1>3. CASE ~ InstallCommits(c)
  <2>1. UNCHANGED <<pool, slug, troubles, listening>>
    BY <1>3 DEF Work, Kill, InstallEmits, InstallAnswers, EventCommits, EventRefreshes,
       EventPushes, EventAnswers, InsertBreaks, PushQueries, PushTells, PushAnswers, HandlerFails,
       HandlerRefreshes, HandlerEmits, HandlerReads, HandlerAnswers, LeafAnswers
  <2> QED
    BY <1>1, <2>1 DEF IInv, Constants
<1> QED
  BY <1>1, <1>2, <1>3

LEMMA PoolsKept ==
  ASSUME NEW c \in DOMAIN calls, Work(c) \/ Kill(c)
  PROVE  pool' = pool
  BY DEF Work, Kill, InstallCommits, InstallEmits, InstallAnswers, EventCommits,
     EventRefreshes, EventPushes, EventAnswers, InsertBreaks, PushQueries, PushTells,
     PushAnswers, HandlerFails, HandlerRefreshes, HandlerEmits, HandlerReads, HandlerAnswers, LeafAnswers

LEMMA ServeInv ==
  ASSUME IInv, NEW c \in DOMAIN calls, Work(c) \/ Kill(c)
  PROVE  IInv'
<1> USE DEF IInv
<1>1. Stepped(c) /\ Constants' /\ pool' = pool
  BY ServeStep, PoolsKept
<1>2. ASSUME NEW m, Moves(c, m) PROVE IInv'
  <2>1. /\ DOMAIN calls' = DOMAIN calls /\ calls'[c] = m /\ GoesTo(c, m)
        /\ \A d \in DOMAIN calls \ {c} : calls'[d] = calls[d]
    BY <1>2 DEF Moves, CallTree
  <2>2. CallTree'
    BY <1>2, MovesTree
  <2>3. PoolsHold'
    BY <1>1, <2>1, <2>2, WorkersHold DEF CallTree
  <2>4. Posting'
    <3>1. m.at # "queued"
      BY <2>1 DEF GoesTo
    <3> QED
      BY <2>1, <3>1 DEF Posting, GoesTo, EventsGo
  <2> QED
    BY <1>1, <2>2, <2>3, <2>4
<1>3. ASSUME NEW m, NEW k, Makes(c, m, k) PROVE IInv'
  <2>1. /\ DOMAIN calls' = DOMAIN calls \cup {Append(c, k)}
        /\ Append(c, k) \notin DOMAIN calls
        /\ calls'[c] = m /\ GoesTo(c, m) /\ calls'[Append(c, k)] = NewCall
        /\ \A d \in DOMAIN calls \ {c} : calls'[d] = calls[d]
    BY <1>3 DEF Makes, CallTree
  <2>2. CallTree'
    BY <1>3, MakesTree
  <2>3. PoolsHold'
    BY <1>1, <2>1, <2>2, WorkersHold DEF CallTree
  <2>4. NewCall.at = "queued" /\ m.at # "queued"
    BY <2>1 DEF NewCall, GoesTo
  <2>5. Posting'
    <3>1. \A e \in events' : e \in events \/ (e = c /\ Kind(c) = "event")
      BY <2>1 DEF GoesTo, EventsGo
    <3>2. \A e \in events' : e \in DOMAIN calls' /\ Kind(e) = "event" /\ calls'[e].at # "queued"
      BY <3>1, <2>1, <2>4 DEF Posting
    <3>3. ASSUME NEW e \in DOMAIN calls', Kind(e) = "event",
                 calls'[e].at \notin {"queued", "done"} \/ PushOf(e) \in DOMAIN calls'
          PROVE  e \in events'
      <4>1. events \subseteq events' /\ (Kind(c) = "event" /\ m.at # "done" => c \in events')
        BY <2>1 DEF GoesTo, EventsGo
      <4>2. CASE e = c
        BY <3>3, <4>1, <4>2, <1>3 DEF Makes
      <4>3. CASE e # c /\ calls'[e].at \notin {"queued", "done"}
        BY <3>3, <4>1, <4>3, <2>1, <2>4 DEF Posting
      <4>4. CASE e # c /\ PushOf(e) \in DOMAIN calls'
        <5>1. c \in Paths /\ k \in Names /\ e \in Paths /\ "push" \in Names
          BY <2>1, <2>2, <1>3 DEF Makes, CallTree, Names
        <5>2. PushOf(e) # Append(c, k)
          BY <5>1, <4>4, AppendApart DEF PushOf
        <5>3. PushOf(e) \in DOMAIN calls
          BY <5>2, <4>4, <2>1
        <5>4. Front(PushOf(e)) = e /\ Len(PushOf(e)) > 1
          BY <5>1, PathType, AppendFacts DEF PushOf
        <5>5. e \in DOMAIN calls
          BY <5>3, <5>4 DEF CallTree
        <5> QED
          BY <5>3, <5>5, <3>3, <4>1 DEF Posting
      <4> QED
        BY <3>3, <4>2, <4>3, <4>4
    <3> QED
      BY <3>2, <3>3 DEF Posting
  <2> QED
    BY <1>1, <2>2, <2>3, <2>5
<1> QED
  BY <1>1, <1>2, <1>3 DEF Stepped

LEMMA RequestInv ==
  ASSUME IInv, NEW r \in Installs, Request(r)
  PROVE  IInv'
<1> USE DEF IInv
<1>1. /\ <<r>> \notin DOMAIN calls
      /\ calls' = [c \in DOMAIN calls \cup {<<r>>} |->
                     IF c = <<r>> THEN NewCall ELSE calls[c]]
      /\ pool' = pool /\ slug' = slug /\ listening' = listening /\ events' = events
  BY DEF Request
<1>2. <<r>> \in InstallPaths
  BY DEF InstallPaths
<1> DEFINE n == <<r>>
<1> HIDE DEF n
<1>3. /\ DOMAIN calls' = DOMAIN calls \cup {n} /\ n \notin DOMAIN calls
      /\ calls'[n] = NewCall
      /\ \A d \in DOMAIN calls : calls'[d] = calls[d]
      /\ n \in InstallPaths /\ Len(n) = 1 /\ n \in Paths
  BY <1>1, <1>2, PathLength DEF n, Paths
<1>4. NewCall \in Call /\ SoundState(n, NewCall)
  BY NewIsSound DEF SoundState
<1>5. Constants'
  BY <1>1 DEF Constants, Request
<1>6. CallTree'
  <2>1. calls' \in [DOMAIN calls' -> Call]
    BY <1>1, <1>3, <1>4 DEF CallTree, n
  <2>2. IsFiniteSet(DOMAIN calls')
    BY <1>3, FS_AddElement DEF CallTree
  <2>3. ASSUME NEW d \in DOMAIN calls'
        PROVE  SoundState(d, calls'[d]) /\ (Len(d) > 1 => Front(d) \in DOMAIN calls')
    <3>1. CASE d = n
      BY <3>1, <1>3, <1>4
    <3>2. CASE d \in DOMAIN calls
      BY <3>2, <1>3 DEF CallTree
    <3> QED
      BY <3>1, <3>2, <1>3
  <2>4. ASSUME NEW d \in DOMAIN calls', NEW k \in Names, Append(d, k) \in DOMAIN calls'
        PROVE  MayHaveMade(calls'[d], k)
    <3>1. d \in Paths
      BY <1>3 DEF CallTree
    <3>2. Len(Append(d, k)) > 1 /\ Front(Append(d, k)) = d
      BY <3>1, PathType, AppendFacts
    <3>3. Append(d, k) \in DOMAIN calls
      BY <3>2, <2>4, <1>3
    <3>4. d \in DOMAIN calls
      BY <3>2, <3>3 DEF CallTree
    <3> QED
      BY <3>3, <3>4, <1>3 DEF CallTree
  <2> QED
    BY <1>3, <2>1, <2>2, <2>3, <2>4 DEF CallTree
<1>7. Posting'
  <2>1. \A e \in events : e \in DOMAIN calls' /\ calls'[e] = calls[e]
    BY <1>3 DEF Posting
  <2>2. ASSUME NEW e \in DOMAIN calls', Kind(e) = "event",
               calls'[e].at \notin {"queued", "done"} \/ PushOf(e) \in DOMAIN calls'
        PROVE  e \in events
    <3>1. e \in Paths /\ Kind(n) # "event"
      BY <1>3, <1>6, KindOfPath DEF CallTree
    <3>2. e \in DOMAIN calls /\ calls'[e] = calls[e]
      BY <3>1, <2>2, <1>3
    <3>3. Kind(PushOf(e)) = "push" /\ Kind(n) = "install"
      BY <3>1, <2>2, <1>3, KindOfPath, PushPath DEF Paths
    <3>4. PushOf(e) \in DOMAIN calls' => PushOf(e) \in DOMAIN calls
      BY <3>3, <1>3
    <3>5. calls[e].at \notin {"queued", "done"} \/ PushOf(e) \in DOMAIN calls
      BY <3>2, <3>4, <2>2
    <3> QED
      BY <3>2, <3>5, <2>2 DEF Posting
  <2> QED
    BY <1>1, <2>1, <2>2 DEF Posting
<1>8. PoolsHold'
  <2>1. \A s \in Services : BusyAt(s)' = BusyAt(s)
    BY <1>3 DEF BusyAt, Busy, NewCall
  <2> QED
    BY <1>1, <2>1 DEF PoolsHold
<1> QED
  BY <1>5, <1>6, <1>7, <1>8

LEMMA InitInv == Init => IInv
<1> SUFFICES ASSUME Init PROVE IInv
  OBVIOUS
<1>1. DOMAIN calls = {} /\ events = {}
  BY DEF Init
<1>2. Constants
  BY SettingsAssumption DEF Init, Constants
<1>3. calls \in [DOMAIN calls -> Call]
  BY <1>1 DEF Init
<1>4. CallTree
  BY <1>1, <1>3, FS_EmptySet DEF CallTree
<1>5. Posting
  BY <1>1 DEF Posting
<1>6. PoolsHold
  <2>1. \A s \in Services : BusyAt(s) = {}
    BY <1>1 DEF BusyAt
  <2> QED
    BY <1>2, <2>1, FS_EmptySet DEF PoolsHold, Constants
<1> QED
  BY <1>2, <1>4, <1>5, <1>6 DEF IInv

LEMMA NextInv == IInv /\ [Next]_vars => IInv'
<1> SUFFICES ASSUME IInv, [Next]_vars PROVE IInv'
  OBVIOUS
<1>1. CASE UNCHANGED vars
  BY <1>1 DEF vars, IInv, Constants, CallTree, Posting, PoolsHold, BusyAt, Busy
<1>2. CASE Next
  BY <1>2, RequestInv, ServeInv DEF Next, Serve
<1> QED
  BY <1>1, <1>2

LEMMA Invariance == Spec => []IInv
  BY InitInv, NextInv, PTL DEF Spec

-----------------------------------------------------------------------------
(* The variables have their types; no service has more calls at work than  *)
(* workers, however the calls are accepted, answered and killed; and a     *)
(* call's caller is a call.                                                *)
THEOREM TypeCorrect == Spec => []TypeOK
<1>1. IInv => TypeOK
  <2> SUFFICES ASSUME IInv PROVE TypeOK
    OBVIOUS
  <2>1. \A c \in DOMAIN calls :
          /\ calls[c] \in Call
          /\ IF Len(c) = 1 THEN c[1] \in Installs ELSE Front(c) \in DOMAIN calls
    <3> TAKE c \in DOMAIN calls
    <3>1. c \in Paths /\ calls[c] \in Call /\ (Len(c) > 1 => Front(c) \in DOMAIN calls)
      BY DEF IInv, CallTree
    <3>2. c[1] \in Installs
      BY <3>1, PathType
    <3>3. Len(c) = 1 \/ Len(c) > 1
      <4> DEFINE n == Len(c)
      <4>1. n \in Nat \ {0}
        BY <3>1, PathType
      <4> HIDE DEF n
      <4>2. n = 1 \/ n > 1
        BY <4>1
      <4> QED
        BY <4>2 DEF n
    <3> QED
      BY <3>1, <3>2, <3>3
  <2>2. events \subseteq DOMAIN calls
    BY DEF IInv, Posting
  <2>3. \A s \in Services :
          Cardinality({c \in DOMAIN calls : Service(c) = s /\ Busy(c)}) <= pool[s]
    BY DEF IInv, PoolsHold, BusyAt
  <2> QED
    BY <2>1, <2>2, <2>3 DEF IInv, Constants, TypeOK
<1> QED
  BY <1>1, Invariance, PTL

-----------------------------------------------------------------------------
(* Failures stay behind.                                                   *)

LEMMA OthersStay ==
  ASSUME IInv, NEW c \in DOMAIN calls, Stepped(c), NEW d \in DOMAIN calls, d # c
  PROVE  d \in DOMAIN calls' /\ calls'[d] = calls[d]
  BY DEF IInv, CallTree, Stepped, Moves, Makes

LEMMA DoEffect ==
  ASSUME IInv, NEW c \in DOMAIN calls, NEW step, NEW k \in Names, Do(c, step, k)
  PROVE  calls'[c].at = step /\ calls'[c].left = calls[c].left \ {k}
<1>1. c # Append(c, k)
  BY PathType, AppendFacts DEF IInv, CallTree
<1>2. calls'[c] = [calls[c] EXCEPT !.at = step, !.left = @ \ {k}]
  BY <1>1 DEF Do
<1>3. calls[c] \in Call
  BY DEF IInv, CallTree
<1> QED
  BY <1>2, <1>3 DEF Call

LEMMA FinishEffect ==
  ASSUME IInv, NEW c \in DOMAIN calls, NEW answer, Finish(c, answer)
  PROVE  /\ calls'[c].at = "done" /\ calls'[c].answer = answer
         /\ calls'[c].left = calls[c].left
  BY DEF IInv, CallTree, Finish, Call

(* An install of the Slack app, once it has committed, listens. *)
Listening ==
  \A c \in DOMAIN calls :
    Kind(c) = "install" /\ calls[c].at \in {"committed", "emitting"} /\ slug[c[1]] = "slack"
      => c[1] \in listening

LEMMA OnlyTheLive ==
  ASSUME IInv, NEW c \in DOMAIN calls, Work(c) \/ Kill(c)
  PROVE  calls[c].at # "done" /\ slug' = slug
<1> USE DEF Accepted, Answered, AnsweredOk, Raises, At, Busy
<1>1. CASE InstallCommits(c) \/ InstallEmits(c) \/ InstallAnswers(c)
  BY <1>1 DEF InstallCommits, InstallEmits, InstallAnswers
<1>2. CASE EventCommits(c) \/ EventRefreshes(c) \/ EventPushes(c) \/ EventAnswers(c)
  BY <1>2 DEF EventCommits, EventRefreshes, EventPushes, EventAnswers
<1>3. CASE PushQueries(c) \/ PushTells(c) \/ PushAnswers(c) \/ LeafAnswers(c)
  BY <1>3 DEF PushQueries, PushTells, PushAnswers, LeafAnswers
<1>4. CASE \/ HandlerFails(c) \/ HandlerRefreshes(c) \/ HandlerEmits(c) \/ HandlerReads(c)
           \/ HandlerAnswers(c)
  BY <1>4 DEF HandlerFails, HandlerRefreshes, HandlerEmits, HandlerReads, HandlerAnswers
<1>5. CASE InsertBreaks(c) \/ Kill(c)
  BY <1>5 DEF InsertBreaks, Kill
<1> QED
  BY <1>1, <1>2, <1>3, <1>4, <1>5 DEF Work

(* What is committed stays so. *)
LEMMA CommittedStays ==
  ASSUME NEW c \in DOMAIN calls, Work(c) \/ Kill(c)
  PROVE  listening \subseteq listening' /\ events \subseteq events'
<1>1. CASE InstallCommits(c)
  BY <1>1 DEF InstallCommits
<1>2. CASE ~ InstallCommits(c)
  BY <1>2 DEF Work, Kill, InstallEmits, InstallAnswers, EventCommits, EventRefreshes,
     EventPushes, EventAnswers, InsertBreaks, PushQueries, PushTells, PushAnswers,
     HandlerFails, HandlerRefreshes, HandlerEmits, HandlerReads, HandlerAnswers, LeafAnswers
<1> QED
  BY <1>1, <1>2

(* How a call that is committed or answered came to be so. *)
LEMMA InstallGoes ==
  ASSUME IInv, NEW c \in DOMAIN calls, Work(c) \/ Kill(c), Kind(c) = "install"
  PROVE  /\ calls'[c].at \in {"committed", "emitting"} =>
              calls[c].at = "committed" \/ InstallCommits(c)
         /\ calls'[c].at = "done" =>
              \/ calls'[c].answer = "broken"
              \/ calls'[c].answer = "ok" /\ calls[c].at = "emitting"
<1>1. {"event", "refresh", "push"} \subseteq Names
  BY DEF Names
<1>2. CASE InstallCommits(c)
  BY <1>2 DEF InstallCommits, Goto, IInv, CallTree, Call
<1>3. CASE InstallEmits(c)
  BY <1>1, <1>3, DoEffect DEF InstallEmits, At
<1>4. CASE InstallAnswers(c)
  BY <1>4, FinishEffect DEF InstallAnswers, Answered, At
<1>5. CASE InsertBreaks(c) \/ Kill(c)
  BY <1>5, FinishEffect DEF InsertBreaks, Kill
<1> QED
  BY <1>2, <1>3, <1>4, <1>5, CallKinds DEF IInv, Work, EventCommits, EventRefreshes,
     EventPushes, EventAnswers, PushQueries, PushTells, PushAnswers, HandlerFails,
     HandlerRefreshes, HandlerEmits, HandlerReads, HandlerAnswers, LeafAnswers, Accepted, At

LEMMA EventGoes ==
  ASSUME IInv, NEW c \in DOMAIN calls, Work(c) \/ Kill(c), Kind(c) = "event",
         calls'[c].at = "done"
  PROVE  \/ calls'[c].answer = "broken"
         \/ calls'[c].answer = "ok" /\ calls[c].at \in {"refreshing", "pushing"}
<1>1. {"event", "refresh", "push"} \subseteq Names
  BY DEF Names
<1>2. CASE EventCommits(c)
  BY <1>2 DEF EventCommits, Goto, IInv, CallTree, Call
<1>3. CASE EventRefreshes(c) \/ EventPushes(c)
  BY <1>1, <1>3, DoEffect DEF EventRefreshes, EventPushes
<1>4. CASE EventAnswers(c)
  BY <1>4, FinishEffect DEF EventAnswers, Raises, Answered, At
<1>5. CASE InsertBreaks(c) \/ Kill(c)
  BY <1>5, FinishEffect DEF InsertBreaks, Kill
<1> QED
  BY <1>2, <1>3, <1>4, <1>5, CallKinds DEF IInv, Work, InstallCommits, InstallEmits,
     InstallAnswers, PushQueries, PushTells, PushAnswers, HandlerFails,
     HandlerRefreshes, HandlerEmits, HandlerReads, HandlerAnswers, LeafAnswers, Accepted, At

LEMMA AnswersKept ==
  IInv /\ Listening /\ FailuresStayBehind /\ [Next]_vars
    => Listening' /\ FailuresStayBehind'
<1> SUFFICES ASSUME IInv, Listening, FailuresStayBehind, [Next]_vars
             PROVE  Listening' /\ FailuresStayBehind'
  OBVIOUS
<1>1. CASE UNCHANGED vars
  BY <1>1 DEF vars, Listening, FailuresStayBehind
<1>2. ASSUME NEW r \in Installs, Request(r)
      PROVE  Listening' /\ FailuresStayBehind'
  <2>1. /\ \A c \in DOMAIN calls' :
              calls'[c].at = "queued" \/ (c \in DOMAIN calls /\ calls'[c] = calls[c])
        /\ slug' = slug /\ listening' = listening /\ events' = events
    BY <1>2 DEF Request, NewCall
  <2> QED
    BY <2>1 DEF Listening, FailuresStayBehind
<1>3. ASSUME NEW d \in DOMAIN calls, Work(d) \/ Kill(d)
      PROVE  Listening' /\ FailuresStayBehind'
  <2>1. /\ \A c \in DOMAIN calls' \ {d} :
              calls'[c].at = "queued" \/ (c \in DOMAIN calls /\ calls'[c] = calls[c])
        /\ d \in DOMAIN calls'
    <3>1. Stepped(d) /\ d \in DOMAIN calls'
      BY <1>3, ServeStep DEF Stepped, Moves, Makes, IInv, CallTree
    <3>2. ASSUME NEW c \in DOMAIN calls, c # d
          PROVE  calls'[c] = calls[c]
      BY <3>1, <3>2, OthersStay
    <3>3. ASSUME NEW c \in DOMAIN calls' \ DOMAIN calls
          PROVE  calls'[c].at = "queued"
      <4>1. calls'[c] = NewCall
        BY <3>1, <3>3 DEF Stepped, Moves, Makes, IInv, CallTree
      <4> QED
        BY <4>1 DEF NewCall
    <3> QED
      BY <3>1, <3>2, <3>3
  <2>2. slug' = slug /\ listening \subseteq listening' /\ events \subseteq events'
    BY <1>3, OnlyTheLive, CommittedStays
  <2>3. CASE Kind(d) = "install"
    <3>1. InstallCommits(d) /\ slug[d[1]] = "slack" => d[1] \in listening'
      BY DEF InstallCommits
    <3>2. /\ calls'[d].at \in {"committed", "emitting"} =>
               calls[d].at = "committed" \/ InstallCommits(d)
          /\ calls'[d].at = "done" =>
               \/ calls'[d].answer = "broken"
               \/ calls'[d].answer = "ok" /\ calls[d].at = "emitting"
      BY <1>3, <2>3, InstallGoes
    <3>3. Listening'
      BY <2>1, <2>2, <3>1, <3>2 DEF Listening
    <3>4. FailuresStayBehind'
      BY <2>1, <2>2, <2>3, <3>2 DEF FailuresStayBehind, Listening
    <3> QED
      BY <3>3, <3>4
  <2>4. CASE Kind(d) = "event"
    <3>1. calls'[d].at = "done" =>
            \/ calls'[d].answer = "broken"
            \/ calls'[d].answer = "ok" /\ calls[d].at \in {"refreshing", "pushing"}
      BY <1>3, <2>4, EventGoes
    <3>2. calls[d].at \in {"refreshing", "pushing"} => d \in events
      BY <2>4 DEF IInv, Posting
    <3> QED
      BY <2>1, <2>2, <2>4, <3>1, <3>2 DEF Listening, FailuresStayBehind
  <2>5. CASE Kind(d) \notin {"install", "event"}
    BY <2>1, <2>2, <2>5 DEF Listening, FailuresStayBehind
  <2> QED
    BY <2>3, <2>4, <2>5
<1> QED
  BY <1>1, <1>2, <1>3 DEF Next, Serve

(* An install and a posted event do not fail for what fails in the calls   *)
(* they make, at any depth: emit and Events.post keep it to themselves.    *)
(* Their answer is no success only if their own worker was killed, or      *)
(* their own row was refused or could not be read or dumped, and a success *)
(* is committed.                                                           *)
THEOREM FailuresContained == Spec => []FailuresStayBehind
<1>1. Init => Listening /\ FailuresStayBehind
  BY DEF Init, Listening, FailuresStayBehind
<1> QED
  BY <1>1, AnswersKept, Invariance, PTL DEF Spec

-----------------------------------------------------------------------------
(* The pushes implement Delivery: the status of each event, and whom its   *)
(* push has still to tell.                                                 *)

LeftOf(e) == IF PushOf(e) \in DOMAIN calls THEN calls[PushOf(e)].left ELSE {}

SameFor(e) == Status(e)' = Status(e) /\ LeftOf(e)' = LeftOf(e)

(* An event whose push is asked for is committed. *)
LEMMA PushedIsCommitted ==
  ASSUME IInv, NEW e \in Events, PushOf(e) \in DOMAIN calls
  PROVE  e \in DOMAIN calls /\ e \in events /\ calls[e].at \in {"pushing", "done"}
<1>1. "push" \in Names
  BY DEF Names
<1>2. e \in DOMAIN calls
  <2>1. Front(PushOf(e)) = e /\ Len(PushOf(e)) > 1
    BY <1>1, PushPath, PathType, AppendFacts DEF PushOf
  <2> QED
    BY <2>1 DEF IInv, CallTree
<1>3. MayHaveMade(calls[e], "push")
  BY <1>1, <1>2 DEF IInv, CallTree, PushOf
<1> QED
  BY <1>2, <1>3, PushPath DEF MayHaveMade, IInv, Posting

(* A step of c is no matter to the events that c is not of. *)
LEMMA OtherEvents ==
  ASSUME IInv, NEW c \in DOMAIN calls, Stepped(c),
         NEW e \in Events, c # e, c # PushOf(e)
  PROVE  SameFor(e)
<1>1. /\ events' = events \/ events' = events \cup {c}
      /\ \A d \in DOMAIN calls : d \in DOMAIN calls' /\ (d # c => calls'[d] = calls[d])
      /\ \A d \in DOMAIN calls' \ DOMAIN calls :
           \E k \in Names : d = Append(c, k)
  BY OthersStay DEF Stepped, Moves, Makes, GoesTo, EventsGo, IInv, CallTree
<1>2. e \in events' <=> e \in events
  BY <1>1
<1>3. PushOf(e) \in DOMAIN calls' <=> PushOf(e) \in DOMAIN calls
  <2>1. \A k \in Names : Append(c, k) = PushOf(e) => c = e
    BY PushPath, AppendApart DEF PushOf, Names, IInv, CallTree
  <2> QED
    BY <1>1, <2>1
<1>4. PushOf(e) \in DOMAIN calls => calls'[PushOf(e)] = calls[PushOf(e)]
  BY <1>1
<1>5. e \in events => calls'[e] = calls[e]
  BY <1>1 DEF IInv, Posting
<1> QED
  BY <1>2, <1>3, <1>4, <1>5 DEF SameFor, Status, LeftOf, At

Statuses == [e \in Events |-> Status(e)]
LeftToTell == [e \in Events |-> LeftOf(e)]

(* How the status of one event may go on, and that of the others stay. *)
GoesOn(e) ==
  \/ Status(e) = "none" /\ Status(e)' = "committed" /\ LeftOf(e)' = LeftOf(e)
  \/ /\ Status(e) = "committed" /\ Status(e)' = "pushing"
     /\ LeftOf(e)' = IF e \in {<<r, "event">> : r \in Installs} THEN listening ELSE {}
  \/ /\ Status(e) = "pushing" /\ Status(e)' = "pushing"
     /\ \E a \in LeftOf(e) : a \in Installs /\ LeftOf(e)' = LeftOf(e) \ {a}
  \/ /\ Status(e) = "pushing" /\ Status(e)' = "delivered"
     /\ LeftOf(e) = {} /\ LeftOf(e)' = LeftOf(e)
  \/ /\ Status(e) \in {"committed", "pushing"} /\ Status(e)' = "abandoned"
     /\ LeftOf(e)' = LeftOf(e)

LEMMA EventStatus ==
  ASSUME IInv, NEW c \in DOMAIN calls, c \in Events,
         EventCommits(c) \/ EventRefreshes(c) \/ EventPushes(c) \/ EventAnswers(c)
           \/ InsertBreaks(c) \/ Kill(c)
  PROVE  SameFor(c) \/ GoesOn(c)
<1> DEFINE p == PushOf(c)
<1>1. /\ Kind(c) = "event" /\ p # c /\ c \in Paths /\ calls[c] \in Call
      /\ "push" \in Names /\ "refresh" \in Names
  BY PushPath DEF IInv, CallTree, Names
<1>2. p \in DOMAIN calls => calls[c].at \in {"pushing", "done"} /\ c \in events
  BY PushedIsCommitted
<1>3. /\ calls[c].at = "queued" => c \notin events /\ p \notin DOMAIN calls
      /\ calls[c].at \notin {"queued", "done"} => c \in events
  BY <1>1, <1>2 DEF IInv, Posting
<1>4. CASE EventCommits(c)
  <2>1. /\ calls[c].at = "queued" /\ events' = events \cup {c}
        /\ DOMAIN calls' = DOMAIN calls /\ calls'[c].at = "committed"
    BY <1>1, <1>4 DEF EventCommits, Accepted, At, Goto, IInv, CallTree, Call
  <2>2. Status(c) = "none" /\ Status(c)' = "committed" /\ LeftOf(c)' = LeftOf(c)
    BY <1>2, <1>3, <2>1 DEF Status, LeftOf
  <2> QED
    BY <2>2 DEF GoesOn
<1>5. CASE EventRefreshes(c)
  <2>1. calls[c].at = "committed" /\ Do(c, "refreshing", "refresh") /\ events' = events
    BY <1>5 DEF EventRefreshes, At
  <2>2. Append(c, "refresh") # p
    BY <1>1, AppendApart DEF PushOf
  <2>3. p \notin DOMAIN calls /\ p \notin DOMAIN calls'
    BY <1>2, <2>1, <2>2 DEF Do
  <2>4. calls'[c].at = "refreshing"
    BY <1>1, <2>1, DoEffect
  <2> QED
    BY <2>1, <2>3, <2>4 DEF SameFor, Status, LeftOf
<1>6. CASE EventPushes(c)
  <2>1. calls[c].at = "refreshing" /\ Do(c, "pushing", "push") /\ events' = events
    BY <1>6 DEF EventPushes, AnsweredOk, Answered, At
  <2>2. p \notin DOMAIN calls /\ p \in DOMAIN calls' /\ calls'[p] = NewCall
    BY <1>2, <2>1 DEF Do, PushOf
  <2> QED
    BY <1>3, <2>1, <2>2 DEF SameFor, Status, LeftOf, NewCall, At
<1>7. CASE EventAnswers(c) \/ InsertBreaks(c) \/ Kill(c)
  <2>1. calls[c].at # "done" /\ events' = events /\ \E answer : Finish(c, answer)
    BY <1>7, OnlyTheLive DEF Work, EventAnswers, InsertBreaks, Kill
  <2>2. /\ DOMAIN calls' = DOMAIN calls /\ calls'[c].at = "done"
        /\ \A d \in DOMAIN calls : d # c => calls'[d] = calls[d]
    BY <2>1, FinishEffect DEF Finish, IInv, CallTree
  <2>3. CASE p \in DOMAIN calls
    BY <1>1, <1>3, <2>1, <2>2, <2>3 DEF SameFor, Status, LeftOf, At
  <2>4. CASE calls[c].at = "queued"
    BY <1>3, <2>1, <2>2, <2>4 DEF SameFor, Status, LeftOf
  <2>5. CASE p \notin DOMAIN calls /\ calls[c].at # "queued"
    <3>1. /\ Status(c) = "committed" /\ Status(c)' = "abandoned"
          /\ LeftOf(c)' = LeftOf(c)
      BY <1>3, <2>1, <2>2, <2>5 DEF Status, LeftOf
    <3> QED
      BY <3>1 DEF GoesOn
  <2> QED
    BY <2>3, <2>4, <2>5
<1> QED
  BY <1>4, <1>5, <1>6, <1>7

LEMMA PushLength ==
  ASSUME NEW e \in Events
  PROVE  Len(PushOf(e)) = 3 <=> e \in {<<r, "event">> : r \in Installs}
<1>1. e \in Paths /\ "push" \in Names
  BY PushPath DEF Names
<1>2. Len(PushOf(e)) = Len(e) + 1 /\ Len(e) \in {2, 5}
  BY <1>1, PathType, AppendFacts, PathLength DEF PushOf
<1>3. (\E r \in Installs : e = Posted(r)) \/ \E r, b \in Installs : e = Late(r, b)
  BY Written
<1>4. \A r, b \in Installs : Len(Posted(r)) = 2 /\ Len(Late(r, b)) = 5
  BY WrittenPaths
<1>5. e \in {<<r, "event">> : r \in Installs} <=> \E r \in Installs : e = Posted(r)
  BY DEF Posted
<1>6. Len(e) = 2 <=> \E r \in Installs : e = Posted(r)
  BY <1>3, <1>4
<1>7. Len(PushOf(e)) = 3 <=> Len(e) = 2
  <2> DEFINE n == Len(e)
             m == Len(PushOf(e))
  <2>1. m = n + 1 /\ n \in {2, 5}
    BY <1>2
  <2> HIDE DEF n, m
  <2>2. m = 3 <=> n = 2
    BY <2>1
  <2> QED
    BY <2>2 DEF n, m
<1> QED
  BY <1>5, <1>6, <1>7

LEMMA PushStatus ==
  ASSUME IInv, NEW e \in Events, PushOf(e) \in DOMAIN calls,
         PushQueries(PushOf(e)) \/ PushTells(PushOf(e)) \/ PushAnswers(PushOf(e))
           \/ Kill(PushOf(e))
  PROVE  GoesOn(e)
<1> DEFINE p == PushOf(e)
<1>1. /\ Kind(p) = "push" /\ p # e /\ p \in Paths /\ calls[p] \in Call
      /\ calls[p].at \in {"queued", "telling", "done"}
  BY PushPath, CallKinds DEF IInv, StepsOf
<1>2. e \in DOMAIN calls /\ e \in events
  BY PushedIsCommitted
<1>3. CASE PushQueries(p)
  <2>1. /\ calls[p].at = "queued" /\ events' = events /\ DOMAIN calls' = DOMAIN calls
        /\ calls'[p].at = "telling" /\ calls'[p].left = Listeners(p)
    BY <1>1, <1>3 DEF PushQueries, Accepted, At, IInv, CallTree, Call
  <2>2. Status(e) = "committed" /\ Status(e)' = "pushing"
    BY <1>2, <2>1 DEF Status, At
  <2>3. LeftOf(e)' = IF e \in {<<r, "event">> : r \in Installs} THEN listening ELSE {}
    BY <2>1, PushLength DEF LeftOf, Listeners
  <2> QED
    BY <2>2, <2>3 DEF GoesOn
<1>4. CASE PushTells(p)
  <2>1. PICK a \in calls[p].left : Do(p, "telling", a)
    BY <1>4 DEF PushTells
  <2>2. a \in Installs /\ a \in Names /\ calls[p].at = "telling" /\ events' = events
    BY <1>1, <1>4 DEF PushTells, At, Call, Names
  <2>a. calls'[p].at = "telling" /\ calls'[p].left = calls[p].left \ {a}
    BY <2>1, <2>2, DoEffect
  <2>3. p \in DOMAIN calls' /\ calls'[p].at = "telling" /\ calls'[p].left = calls[p].left \ {a}
    BY <2>1, <2>a DEF Do
  <2>4. Status(e) = "pushing" /\ Status(e)' = "pushing"
    BY <1>2, <2>2, <2>3 DEF Status, At
  <2>5. a \in LeftOf(e) /\ LeftOf(e)' = LeftOf(e) \ {a}
    BY <2>3 DEF LeftOf
  <2> QED
    BY <2>2, <2>4, <2>5 DEF GoesOn
<1>5. CASE PushAnswers(p)
  <2>1. /\ calls[p].at = "telling" /\ calls[p].left = {} /\ events' = events
        /\ \E answer \in {"ok", "failed"} : Finish(p, answer)
    BY <1>5 DEF PushAnswers, At
  <2>2. /\ p \in DOMAIN calls' /\ calls'[p].at = "done" /\ calls'[p].left = calls[p].left
        /\ calls'[p].answer # "broken"
    BY <2>1, FinishEffect DEF Finish
  <2>3. Status(e) = "pushing" /\ Status(e)' = "delivered"
    BY <1>2, <2>1, <2>2 DEF Status, At
  <2>4. LeftOf(e) = {} /\ LeftOf(e)' = LeftOf(e)
    BY <2>1, <2>2 DEF LeftOf
  <2> QED
    BY <2>3, <2>4 DEF GoesOn
<1>6. CASE Kill(p)
  <2>1. /\ calls[p].at \in {"queued", "telling"} /\ events' = events /\ Finish(p, "broken")
    BY <1>1, <1>6, OnlyTheLive DEF Kill
  <2>2. /\ p \in DOMAIN calls' /\ calls'[p].at = "done" /\ calls'[p].left = calls[p].left
        /\ calls'[p].answer = "broken"
    BY <2>1, FinishEffect DEF Finish
  <2>3. Status(e) \in {"committed", "pushing"} /\ Status(e)' = "abandoned"
    BY <1>2, <2>1, <2>2 DEF Status, At
  <2>4. LeftOf(e)' = LeftOf(e)
    BY <2>2 DEF LeftOf
  <2> QED
    BY <2>3, <2>4 DEF GoesOn
<1> QED
  BY <1>3, <1>4, <1>5, <1>6

(* One event goes on and the others stay: a step of Delivery.              *)
LEMMA OneGoesOn ==
  ASSUME NEW e \in Events, GoesOn(e), listening' = listening,
         \A f \in Events \ {e} : SameFor(f)
  PROVE  Promise!Next
<1> DEFINE S == Statuses
           L == LeftToTell
<1>1. \A f \in Events : S[f] = Status(f) /\ L[f] = LeftOf(f)
  BY DEF Statuses, LeftToTell
<1>2. S' = [S EXCEPT ![e] = Status(e)'] /\ L' = [L EXCEPT ![e] = LeftOf(e)']
  BY DEF SameFor, Statuses, LeftToTell
<1>3. LeftOf(e)' = LeftOf(e) => L' = L
  BY DEF SameFor, LeftToTell
<1>4. Status(e)' = Status(e) => S' = S
  BY DEF SameFor, Statuses
<1>5. CASE Status(e) = "none" /\ Status(e)' = "committed" /\ LeftOf(e)' = LeftOf(e)
  <2>1. Promise!Commit(e)
    BY <1>1, <1>2, <1>3, <1>5 DEF Promise!Commit, Promise!Move, Statuses, LeftToTell, LeftOf
  <2> QED
    BY <2>1 DEF Promise!Next
<1>6. CASE /\ Status(e) = "committed" /\ Status(e)' = "pushing"
           /\ LeftOf(e)' = IF e \in {<<r, "event">> : r \in Installs} THEN listening ELSE {}
  <2>1. Promise!Push(e)
    BY <1>1, <1>2, <1>6 DEF Promise!Push, Promise!Move, Statuses, LeftToTell, LeftOf
  <2> QED
    BY <2>1 DEF Promise!Next
<1>7. ASSUME Status(e) = "pushing", Status(e)' = "pushing",
             NEW a \in LeftOf(e), a \in Installs, LeftOf(e)' = LeftOf(e) \ {a}
      PROVE  Promise!Next
  <2>1. Promise!Tell(e, a)
    BY <1>1, <1>2, <1>4, <1>7 DEF Promise!Tell, Statuses, LeftToTell, LeftOf
  <2> QED
    BY <1>7, <2>1 DEF Promise!Next
<1>8. CASE /\ Status(e) = "pushing" /\ Status(e)' = "delivered"
           /\ LeftOf(e) = {} /\ LeftOf(e)' = LeftOf(e)
  <2>1. Promise!Deliver(e)
    BY <1>1, <1>2, <1>3, <1>8 DEF Promise!Deliver, Promise!Move, Statuses, LeftToTell, LeftOf
  <2> QED
    BY <2>1 DEF Promise!Next
<1>9. CASE /\ Status(e) \in {"committed", "pushing"} /\ Status(e)' = "abandoned"
           /\ LeftOf(e)' = LeftOf(e)
  <2>1. Promise!Abandon(e)
    BY <1>1, <1>2, <1>3, <1>9 DEF Promise!Abandon, Promise!Move, Statuses, LeftToTell, LeftOf
  <2> QED
    BY <2>1 DEF Promise!Next
<1> QED
  BY <1>5, <1>6, <1>7, <1>8, <1>9 DEF GoesOn

LEMMA NoneGoesOn ==
  ASSUME \A f \in Events : SameFor(f)
  PROVE  /\ listening' = listening => UNCHANGED Promise!vars
         /\ \A a \in Installs : listening' = listening \cup {a} => Promise!Next
<1>1. Statuses' = Statuses /\ LeftToTell' = LeftToTell
  BY DEF SameFor, Statuses, LeftToTell
<1>2. listening' = listening => UNCHANGED Promise!vars
  BY <1>1 DEF Promise!vars, Statuses, LeftToTell, LeftOf
<1>3. ASSUME NEW a \in Installs, listening' = listening \cup {a} PROVE Promise!Next
  <2>1. Promise!Listen(a)
    BY <1>1, <1>3 DEF Promise!Listen, Statuses, LeftToTell, LeftOf
  <2> QED
    BY <2>1 DEF Promise!Next
<1> QED
  BY <1>2, <1>3

LEMMA InitAsPromised == Init => Promise!Init
<1> SUFFICES ASSUME Init PROVE Promise!Init
  OBVIOUS
<1>1. listening \in SUBSET Installs
  BY SettingsAssumption DEF Init
<1>2. \A e \in Events : Status(e) = "none" /\ LeftOf(e) = {}
  BY DEF Init, Status, LeftOf
<1> QED
  BY <1>1, <1>2 DEF Promise!Init, LeftOf

LEMMA NextAsPromised == IInv /\ [Next]_vars => [Promise!Next]_(Promise!vars)
<1> SUFFICES ASSUME IInv, [Next]_vars PROVE [Promise!Next]_(Promise!vars)
  OBVIOUS
<1>1. CASE UNCHANGED vars
  <2>1. \A e \in Events : SameFor(e)
    BY <1>1 DEF SameFor, Status, LeftOf, At, vars
  <2> QED
    BY <1>1, <2>1, NoneGoesOn DEF vars
<1>2. ASSUME NEW r \in Installs, Request(r)
      PROVE  [Promise!Next]_(Promise!vars)
  <2> DEFINE n == <<r>>
  <2>1. n \in InstallPaths
    BY DEF InstallPaths
  <2>2. /\ events' = events /\ DOMAIN calls' = DOMAIN calls \cup {n}
        /\ \A d \in DOMAIN calls : calls'[d] = calls[d]
        /\ listening' = listening
    BY <1>2 DEF Request
  <2> HIDE DEF n
  <2>3. \A e \in Events : PushOf(e) # n
    BY <2>1, PushPath, KindOfPath
  <2>4. \A e \in Events : SameFor(e)
    BY <2>2, <2>3 DEF SameFor, Status, LeftOf, At, IInv, Posting
  <2> QED
    BY <2>2, <2>4, NoneGoesOn
<1>3. ASSUME NEW c \in DOMAIN calls, Work(c) \/ Kill(c)
      PROVE  [Promise!Next]_(Promise!vars)
  <2>1. Stepped(c) /\ c \in Paths
    BY <1>3, ServeStep DEF IInv, CallTree
  <2>2. ~ InstallCommits(c) => listening' = listening
    BY <1>3 DEF Work, Kill, InstallEmits, InstallAnswers, EventCommits, EventRefreshes,
       EventPushes, EventAnswers, InsertBreaks, PushQueries, PushTells, PushAnswers, HandlerFails,
       HandlerRefreshes, HandlerEmits, HandlerReads, HandlerAnswers, LeafAnswers
  <2>3. CASE c \in Events
    <3>1. \A f \in Events \ {c} : SameFor(f)
      BY <2>1, <2>3, PushPath, OtherEvents
    <3>2. Kind(c) = "event"
      BY <2>3, PushPath
    <3>3. \/ EventCommits(c) \/ EventRefreshes(c) \/ EventPushes(c) \/ EventAnswers(c)
          \/ InsertBreaks(c) \/ Kill(c)
      BY <1>3, <3>2, CallKinds DEF IInv, Work, InstallCommits, InstallEmits, InstallAnswers,
         PushQueries, PushTells, PushAnswers, HandlerFails, HandlerRefreshes, HandlerEmits,
         HandlerReads, HandlerAnswers, LeafAnswers, Accepted, At
    <3>4. listening' = listening
      BY <2>2, <3>2 DEF InstallCommits, Accepted
    <3>5. SameFor(c) \/ GoesOn(c)
      BY <2>3, <3>3, EventStatus
    <3> QED
      BY <2>3, <3>1, <3>4, <3>5, OneGoesOn, NoneGoesOn
  <2>4. ASSUME NEW e \in Events, c = PushOf(e)
        PROVE  [Promise!Next]_(Promise!vars)
    <3>1. \A f \in Events \ {e} : SameFor(f)
      BY <2>1, <2>4, PushPath, OtherEvents
    <3>2. Kind(c) = "push"
      BY <2>4, PushPath
    <3>a. ~ InsertBreaks(c)
      BY <3>2, CallKinds DEF IInv, StepsOf, InsertBreaks, Accepted, At
    <3>3. PushQueries(c) \/ PushTells(c) \/ PushAnswers(c) \/ Kill(c)
      BY <1>3, <3>a, <3>2, CallKinds DEF IInv, StepsOf, At, Work, InstallCommits, InstallEmits, InstallAnswers,
         EventCommits, EventRefreshes, EventPushes, EventAnswers, HandlerFails,
         HandlerRefreshes, HandlerEmits, HandlerReads, HandlerAnswers, LeafAnswers, Accepted
    <3>4. listening' = listening
      BY <2>2, <3>2 DEF InstallCommits, Accepted
    <3>5. GoesOn(e)
      BY <2>4, <3>3, PushStatus
    <3> QED
      BY <3>1, <3>4, <3>5, OneGoesOn
  <2>5. CASE c \notin Events /\ c \notin PushPaths
    <3>1. \A f \in Events : SameFor(f)
      BY <2>1, <2>5, PushPath, OtherEvents
    <3>2. CASE InstallCommits(c)
      <4>1. listening' = listening \/ listening' = listening \cup {c[1]}
        BY <3>2 DEF InstallCommits
      <4> QED
        BY <2>1, <3>1, <4>1, PathType, NoneGoesOn
    <3> QED
      BY <2>2, <3>1, <3>2, NoneGoesOn
  <2> QED
    BY <2>3, <2>4, <2>5 DEF PushPaths
<1> QED
  BY <1>1, <1>2, <1>3 DEF Next, Serve

(* Whatever is killed or fails, an event is pushed once at most and after  *)
(* its commit, and the push tells the apps that listened when it queried,  *)
(* each once at most, all of them if it is delivered: Events.post,         *)
(* PushEventToApps.post and their workers implement Delivery.              *)
THEOREM PushesAsPromised == Spec => DeliveredAsPromised
  BY InitAsPromised, NextAsPromised, Invariance, PTL
     DEF Spec, DeliveredAsPromised, Promise!Spec

-----------------------------------------------------------------------------
(* With enough workers the services never wait for each other.             *)

(* Who makes a call of each kind. *)
LEMMA CallerPaths ==
  ASSUME NEW c \in Paths, NEW k \in Names, Append(c, k) \in Paths
  PROVE  /\ k \in Installs => c \in PushPaths /\ Len(c) = 3
         /\ k = "event" => c \in InstallPaths \cup HandlePaths
         /\ k = "push" => c \in Events
         /\ k = "refresh" => c \in Events \cup HandlePaths
         /\ k = "read" => c \in HandlePaths
<1> DEFINE d == Append(c, k)
<1>1. Kind(d) = IF k \in Installs THEN "handle" ELSE k
  BY KindOfCall
<1>2. ASSUME k \in Installs PROVE c \in PushPaths /\ Len(c) = 3
  <2>1. PICK r \in Installs, a \in Installs : d = Handled(r, a)
    <3>1. d \in HandlePaths
      BY <1>1, <1>2, KindOfPath
    <3> QED
      BY <3>1, Written
  <2>2. Posted(r) \in Events /\ Posted(r) \in {<<q, "event">> : q \in Installs}
    BY Written DEF Posted
  <2>3. PushOf(Posted(r)) \in PushPaths /\ PushOf(Posted(r)) \in Paths
    BY <2>2, PushPath
  <2>4. d = Append(PushOf(Posted(r)), a) /\ a \in Names
    BY <2>1, WrittenCalls DEF Names
  <2>5. c = PushOf(Posted(r))
    BY <2>3, <2>4, AppendApart
  <2> QED
    BY <2>2, <2>3, <2>5, PushLength
<1>3. ASSUME k = "event" PROVE c \in InstallPaths \cup HandlePaths
  <2>1. d \in Events
    BY <1>1, <1>3, KindOfPath, NamesAssumption
  <2>2. (\E r \in Installs : d = Posted(r)) \/ \E r, a \in Installs : d = Late(r, a)
    BY <2>1, Written
  <2>3. ASSUME NEW r \in Installs, d = Posted(r) PROVE c \in InstallPaths
    <3>1. Asked(r) \in InstallPaths /\ Asked(r) \in Paths
      BY Written DEF Paths
    <3>2. d = Append(Asked(r), "event")
      BY <2>3, WrittenCalls
    <3> QED
      BY <1>3, <3>1, <3>2, AppendApart
  <2>4. ASSUME NEW r \in Installs, NEW a \in Installs, d = Late(r, a) PROVE c \in HandlePaths
    <3>1. Handled(r, a) \in HandlePaths /\ Handled(r, a) \in Paths
      BY Written DEF Paths
    <3>2. d = Append(Handled(r, a), "event")
      BY <2>4, WrittenCalls
    <3> QED
      BY <1>3, <3>1, <3>2, AppendApart
  <2> QED
    BY <2>2, <2>3, <2>4
<1>4. ASSUME k = "push" PROVE c \in Events
  BY <1>1, <1>4, KindOfPath, NamesAssumption, AppendApart DEF PushPaths, PushOf, Paths
<1>5. ASSUME k = "refresh" PROVE c \in Events \cup HandlePaths
  BY <1>1, <1>5, KindOfPath, NamesAssumption, AppendApart DEF RefreshPaths, Paths
<1>6. ASSUME k = "read" PROVE c \in HandlePaths
  BY <1>1, <1>6, KindOfPath, NamesAssumption, AppendApart DEF ReadPaths, Paths
<1> QED
  BY <1>2, <1>3, <1>4, <1>5, <1>6

(* What a call waits for. *)
LEMMA WaitsFor ==
  ASSUME IInv, NEW c \in Live, Waiting(c)
  PROVE  \/ calls[c].at = "queued" /\ ~ FreeWorker(Service(c))
         \/ /\ calls[c].at # "queued"
            /\ \E k \in Names : Append(c, k) \in Live /\ Append(c, k) \in Paths
<1>1. c \in DOMAIN calls /\ c \in Paths
  BY DEF Live, IInv, CallTree
<1>2. \A k \in Names : Append(c, k) \in DOMAIN calls => calls[c].at # "queued"
  BY <1>1 DEF IInv, CallTree, MayHaveMade
<1> QED
  BY <1>1, <1>2 DEF Waiting, Live, Names, IInv, CallTree

Chains == {c \in DOMAIN calls : Len(c) = 1}

(* The calls of a chain that hold a worker. *)
EventOf(c) == Append(c, "event")

LEMMA ImageSize ==
  ASSUME NEW S, IsFiniteSet(S), NEW f, f = [c \in S |-> f[c]]
  PROVE  LET T == {f[c] : c \in S}
         IN  /\ IsFiniteSet(T) /\ Cardinality(T) \in Nat
             /\ Cardinality(T) <= Cardinality(S)
<1> DEFINE T == {f[c] : c \in S}
<1>1. f \in Surjection(S, T)
  BY DEF Surjection
<1>2. IsFiniteSet(T) /\ Cardinality(T) <= Cardinality(S)
  BY <1>1, FS_Surjection
<1> QED
  BY <1>2, FS_CardinalityType

LEMMA ChainSizes ==
  ASSUME IInv
  PROVE  LET E == {EventOf(c) : c \in Chains}
             P == {PushOf(EventOf(c)) : c \in Chains}
         IN  /\ IsFiniteSet(E) /\ Cardinality(E) <= Cardinality(Chains)
             /\ IsFiniteSet(Chains \cup P)
             /\ Cardinality(Chains \cup P) <= 2 * Cardinality(Chains)
             /\ Cardinality(Chains) \in Nat
             /\ Cardinality(E) \in Nat /\ Cardinality(Chains \cup P) \in Nat
<1> DEFINE E == {EventOf(c) : c \in Chains}
           P == {PushOf(EventOf(c)) : c \in Chains}
           e == [c \in Chains |-> EventOf(c)]
           p == [c \in Chains |-> PushOf(EventOf(c))]
<1>1. IsFiniteSet(Chains) /\ Cardinality(Chains) \in Nat
  BY FS_Subset, FS_CardinalityType DEF Chains, IInv, CallTree
<1>2. E = {e[c] : c \in Chains} /\ P = {p[c] : c \in Chains}
  OBVIOUS
<1>3. e = [c \in Chains |-> e[c]] /\ p = [c \in Chains |-> p[c]]
  OBVIOUS
<1> HIDE DEF e, p
<1>4. IsFiniteSet(E) /\ Cardinality(E) \in Nat /\ Cardinality(E) <= Cardinality(Chains)
  BY <1>1, <1>2, <1>3, ImageSize
<1>5. IsFiniteSet(P) /\ Cardinality(P) \in Nat /\ Cardinality(P) <= Cardinality(Chains)
  BY <1>1, <1>2, <1>3, ImageSize
<1> HIDE DEF E, P
<1>6. /\ IsFiniteSet(Chains \cup P)
      /\ Cardinality(Chains \cup P)
           = Cardinality(Chains) + Cardinality(P) - Cardinality(Chains \cap P)
  BY <1>1, <1>5, FS_Union
<1>7. Cardinality(Chains \cap P) \in Nat /\ Cardinality(Chains \cup P) \in Nat
  BY <1>1, <1>6, FS_Intersection, FS_CardinalityType
<1>8. Cardinality(Chains \cup P) <= 2 * Cardinality(Chains)
  BY <1>1, <1>5, <1>6, <1>7
<1> QED
  BY <1>1, <1>4, <1>6, <1>7, <1>8 DEF E, P

(* An event or push of a first event belongs to a chain. *)
LEMMA ChainOf ==
  ASSUME IInv
  PROVE  /\ \A c \in DOMAIN calls \cap InstallPaths : c \in Chains
         /\ \A r \in Installs :
              Posted(r) \in DOMAIN calls => \E c \in Chains : Posted(r) = EventOf(c)
         /\ \A r \in Installs :
              PushOf(Posted(r)) \in DOMAIN calls =>
                \E c \in Chains : PushOf(Posted(r)) = PushOf(EventOf(c))
<1>1. \A c \in DOMAIN calls \cap InstallPaths : c \in Chains
  BY PathLength DEF Chains
<1>2. ASSUME NEW r \in Installs, Posted(r) \in DOMAIN calls
      PROVE  \E c \in Chains : Posted(r) = EventOf(c)
  <2>1. Posted(r) = Append(Asked(r), "event") /\ Asked(r) \in InstallPaths
    BY Written, WrittenCalls
  <2>2. Front(Posted(r)) = Asked(r) /\ Len(Posted(r)) > 1
    <3>1. Asked(r) \in Seq(Names) /\ "event" \in Names
      BY WrittenPaths DEF Names
    <3>2. Front(Posted(r)) = Asked(r)
      BY <2>1, <3>1, AppendFacts
    <3>3. Len(Posted(r)) = 2
      BY WrittenPaths
    <3> QED
      BY <3>2, <3>3
  <2>3. Asked(r) \in DOMAIN calls
    BY <1>2, <2>2 DEF IInv, CallTree
  <2> QED
    BY <1>1, <2>1, <2>3 DEF EventOf
<1>3. ASSUME NEW r \in Installs, PushOf(Posted(r)) \in DOMAIN calls
      PROVE  \E c \in Chains : PushOf(Posted(r)) = PushOf(EventOf(c))
  <2>1. Posted(r) \in Events
    BY Written
  <2> QED
    BY <1>2, <1>3, <2>1, PushedIsCommitted
<1> QED
  BY <1>1, <1>2, <1>3

(* Which calls hold a worker when all wait: of apis/auth two in a chain,   *)
(* of apis/event one, of the Slack app none.                               *)
LEMMA NoneStuck ==
  ASSUME IInv, Enough, Stuck
  PROVE  FALSE
<1> USE CallKinds DEF Live
<1> DEFINE E == {EventOf(c) : c \in Chains}
           P == {PushOf(EventOf(c)) : c \in Chains}
<1>1. /\ pool["auth"] \in Nat /\ pool["event"] \in Nat /\ pool["slack"] \in Nat \ {0}
      /\ pool["auth"] > 2 * Cardinality(Chains)
      /\ pool["event"] > Cardinality(Chains)
  BY DEF IInv, Constants, Services, Enough, Chains
<1>2. \A c \in Live :
        \/ calls[c].at = "queued" /\ ~ FreeWorker(Service(c))
        \/ /\ calls[c].at # "queued"
           /\ \E k \in Names : Append(c, k) \in Live /\ Append(c, k) \in Paths
  BY WaitsFor DEF Stuck
<1>3. \A c \in Live : c \in DOMAIN calls /\ c \in Paths
  BY DEF IInv, CallTree
<1>4. \A c \in PushPaths \cap DOMAIN calls :
        Len(c) = 3 => \E d \in Chains : c = PushOf(EventOf(d))
  <2> TAKE c \in PushPaths \cap DOMAIN calls
  <2> HAVE Len(c) = 3
  <2>1. PICK e \in Events : c = PushOf(e)
    BY DEF PushPaths
  <2>2. PICK r \in Installs : e = Posted(r)
    BY <2>1, PushLength DEF Posted
  <2> QED
    BY <2>1, <2>2, ChainOf
(* The push of a handler's event has nobody to tell, and waits for nobody. *)
<1>5. \A c \in Live \cap PushPaths : calls[c].at # "queued" => Len(c) = 3
  <2> TAKE c \in Live \cap PushPaths
  <2> HAVE calls[c].at # "queued"
  <2>1. PICK k \in Names : Append(c, k) \in Paths
    BY <1>2
  <2>2. c \in Paths /\ Kind(c) = "push"
    BY <1>3, KindOfPath
  <2>3. c \notin InstallPaths /\ c \notin Events /\ c \notin HandlePaths
    BY <2>2, KindOfPath
  <2> QED
    BY <2>1, <2>2, <2>3, CallerPaths DEF Names
<1>6. BusyAt("auth") \subseteq Chains \cup P
  <2> SUFFICES ASSUME NEW c \in BusyAt("auth") PROVE c \in Chains \cup P
    OBVIOUS
  <2>1. /\ c \in DOMAIN calls /\ calls[c].at \in StepsOf(Kind(c)) \ {"queued", "done"}
        /\ Service(c) = "auth" /\ c \in Live
    BY DEF BusyAt, Busy, IInv
  <2>2. Kind(c) \in {"install", "push"}
    BY <2>1 DEF Service, StepsOf, IInv
  <2>3. CASE Kind(c) = "install"
    BY <2>1, <2>3, ChainOf DEF IInv
  <2>4. CASE Kind(c) = "push"
    BY <2>1, <2>4, <1>4, <1>5 DEF IInv
  <2> QED
    BY <2>2, <2>3, <2>4
<1>7. FreeWorker("auth")
  <2>1. IsFiniteSet(Chains \cup P) /\ Cardinality(Chains \cup P) <= 2 * Cardinality(Chains)
        /\ Cardinality(Chains) \in Nat /\ Cardinality(Chains \cup P) \in Nat
    BY ChainSizes
  <2>2. /\ Cardinality(BusyAt("auth")) <= Cardinality(Chains \cup P)
        /\ Cardinality(BusyAt("auth")) \in Nat
    BY <1>6, <2>1, FS_Subset, FS_CardinalityType
  <2>3. Cardinality(BusyAt("auth")) < pool["auth"]
    BY <1>1, <2>1, <2>2
  <2> QED
    BY <2>3 DEF FreeWorker, BusyAt
<1>8. \A c \in Live : Service(c) = "auth" => calls[c].at # "queued"
  BY <1>2, <1>7
<1>9. \A c \in Live : Kind(c) \notin {"refresh", "read"}
  BY <1>3, <1>8 DEF Service, StepsOf, IInv
<1>10. \A c \in Live \cap PushPaths : Len(c) = 3
  <2> TAKE c \in Live \cap PushPaths
  <2>1. Kind(c) = "push"
    BY <1>3, KindOfPath
  <2> QED
    BY <1>5, <1>8, <2>1 DEF Service
(* So the event that a handler posts is at nothing that it could wait for. *)
<1>11. \A c \in Live \cap Events :
         calls[c].at # "queued" =>
           /\ c \in E
           /\ \E k \in Names : Append(c, k) \in Live \cap PushPaths
  <2> TAKE c \in Live \cap Events
  <2> HAVE calls[c].at # "queued"
  <2>1. PICK k \in Names : Append(c, k) \in Live /\ Append(c, k) \in Paths
    BY <1>2
  <2>2. c \in Paths /\ Kind(c) = "event"
    BY <1>3, KindOfPath
  <2>3. c \notin InstallPaths /\ c \notin PushPaths /\ c \notin HandlePaths
    BY <2>2, KindOfPath
  <2>4. k \in {"push", "refresh"}
    BY <2>1, <2>2, <2>3, CallerPaths DEF Names
  <2>5. Kind(Append(c, k)) = k
    BY <2>2, <2>4, KindOfCall, NamesAssumption
  <2>6. k = "push"
    BY <1>9, <2>1, <2>4, <2>5
  <2>7. Append(c, k) = PushOf(c) /\ Append(c, k) \in PushPaths
    BY <2>6, PushPath DEF PushOf
  <2>8. Len(PushOf(c)) = 3
    BY <1>10, <2>1, <2>7
  <2>9. PICK r \in Installs : c = Posted(r)
    BY <2>8, PushLength DEF Posted
  <2>10. c \in E
    BY <2>9, ChainOf
  <2> QED
    BY <2>1, <2>7, <2>10
<1>12. FreeWorker("event")
  <2>1. IsFiniteSet(E) /\ Cardinality(E) <= Cardinality(Chains)
        /\ Cardinality(Chains) \in Nat /\ Cardinality(E) \in Nat
    BY ChainSizes
  <2>2. BusyAt("event") \subseteq E
    <3> SUFFICES ASSUME NEW c \in BusyAt("event") PROVE c \in E
      OBVIOUS
    <3>1. /\ c \in DOMAIN calls /\ calls[c].at \notin {"queued", "done"}
          /\ Service(c) = "event" /\ c \in Live
      BY DEF BusyAt, Busy
    <3>2. Kind(c) = "event"
      BY <3>1 DEF Service, IInv
    <3> QED
      BY <1>11, <3>1, <3>2 DEF IInv
  <2> HIDE DEF E
  <2>3. /\ Cardinality(BusyAt("event")) <= Cardinality(E)
        /\ Cardinality(BusyAt("event")) \in Nat
    BY <2>1, <2>2, FS_Subset, FS_CardinalityType
  <2>4. Cardinality(BusyAt("event")) < pool["event"]
    BY <1>1, <2>1, <2>3
  <2> QED
    BY <2>4 DEF FreeWorker, BusyAt
<1>13. \A c \in Live \cap Events : c \in E /\ \E k \in Names : Append(c, k) \in Live \cap PushPaths
  <2> TAKE c \in Live \cap Events
  <2>1. Kind(c) = "event"
    BY <1>3, KindOfPath
  <2>2. calls[c].at # "queued"
    BY <1>2, <1>12, <2>1 DEF Service
  <2> QED
    BY <1>11, <2>2
<1>14. \A c \in Live \cap HandlePaths : calls[c].at = "queued"
  <2> SUFFICES ASSUME NEW c \in Live \cap HandlePaths, calls[c].at # "queued"
               PROVE  FALSE
    OBVIOUS
  <2>1. PICK k \in Names : Append(c, k) \in Live /\ Append(c, k) \in Paths
    BY <1>2
  <2>2. c \in Paths /\ Kind(c) = "handle"
    BY <1>3, KindOfPath
  <2>3. c \notin InstallPaths /\ c \notin PushPaths /\ c \notin Events
    BY <2>2, KindOfPath
  <2>4. k \in {"event", "refresh", "read"}
    BY <2>1, <2>2, <2>3, CallerPaths DEF Names
  <2>5. Kind(Append(c, k)) = k
    BY <2>2, <2>4, KindOfCall, NamesAssumption
  <2>6. k = "event"
    BY <1>9, <2>1, <2>4, <2>5
  <2>7. Append(c, k) \in E
    BY <1>13, <2>1, <2>5, <2>6, KindOfPath
  <2>8. PICK d \in Chains : Append(c, k) = EventOf(d)
    BY <2>7
  <2>9. d \in Paths /\ Len(d) = 1 /\ "event" \in Names
    BY DEF Chains, IInv, CallTree, Names
  <2>10. c = d
    BY <2>2, <2>8, <2>9, AppendApart DEF EventOf
  <2> QED
    BY <2>9, <2>10, PathLength
<1>15. Live \cap HandlePaths = {}
  <2> SUFFICES ASSUME NEW c \in Live \cap HandlePaths PROVE FALSE
    OBVIOUS
  <2>1. BusyAt("slack") = {}
    <3> SUFFICES ASSUME NEW d \in BusyAt("slack") PROVE FALSE
      OBVIOUS
    <3>1. d \in Live /\ Service(d) = "slack" /\ calls[d].at # "queued"
      BY DEF BusyAt, Busy
    <3>2. Kind(d) = "handle"
      BY <3>1 DEF Service, IInv
    <3> QED
      BY <1>14, <3>1, <3>2 DEF IInv
  <2>2. FreeWorker("slack")
    <3>1. Cardinality(BusyAt("slack")) < pool["slack"]
      BY <1>1, <2>1, FS_EmptySet
    <3> QED
      BY <3>1 DEF FreeWorker, BusyAt
  <2>3. Kind(c) = "handle"
    BY <1>3, KindOfPath
  <2>4. Service(c) = "slack"
    BY <2>3 DEF Service
  <2> QED
    BY <1>2, <1>14, <2>2, <2>4
(* Then nobody is left to wait for, from the handlers up to the clients.   *)
<1>16. Live \cap PushPaths = {}
  <2> SUFFICES ASSUME NEW c \in Live \cap PushPaths PROVE FALSE
    OBVIOUS
  <2>1. c \in Paths /\ Kind(c) = "push"
    BY <1>3, KindOfPath
  <2>2. c \notin InstallPaths /\ c \notin HandlePaths /\ c \notin Events
    BY <2>1, KindOfPath
  <2>3. calls[c].at # "queued"
    BY <1>8, <2>1 DEF Service
  <2>4. PICK k \in Names : Append(c, k) \in Live /\ Append(c, k) \in Paths
    BY <1>2, <2>3
  <2>5. k \in Installs
    BY <2>1, <2>2, <2>4, CallerPaths DEF Names
  <2>6. Append(c, k) \in HandlePaths
    BY <2>1, <2>4, <2>5, KindOfCall, KindOfPath
  <2> QED
    BY <1>15, <2>4, <2>6
<1>17. Live \cap Events = {}
  BY <1>13, <1>16
<1>18. Live \cap InstallPaths = {}
  <2> SUFFICES ASSUME NEW c \in Live \cap InstallPaths PROVE FALSE
    OBVIOUS
  <2>1. c \in Paths /\ Kind(c) = "install"
    BY <1>3, KindOfPath
  <2>2. c \notin PushPaths /\ c \notin HandlePaths /\ c \notin Events
    BY <2>1, KindOfPath
  <2>3. calls[c].at # "queued"
    BY <1>8, <2>1 DEF Service
  <2>4. PICK k \in Names : Append(c, k) \in Live /\ Append(c, k) \in Paths
    BY <1>2, <2>3
  <2>5. k = "event"
    BY <2>1, <2>2, <2>4, CallerPaths DEF Names
  <2>6. Append(c, k) \in Events
    BY <2>5, CallPaths
  <2> QED
    BY <1>17, <2>4, <2>6
<1>19. Live = {}
  BY <1>3, <1>9, <1>15, <1>16, <1>17, <1>18, KindOfPath DEF Paths
<1> QED
  BY <1>19 DEF Stuck

(* With more workers of apis/auth than two for each install at work, and   *)
(* more of apis/event than one, there is never a set of calls that all     *)
(* wait for each other or for a worker, also with the calls that killed    *)
(* workers have left behind.                                               *)
THEOREM EnoughWorkers == Spec => []EnoughWorkersNeverStuck
<1>1. IInv => EnoughWorkersNeverStuck
  BY NoneStuck DEF EnoughWorkersNeverStuck
<1> QED
  BY <1>1, Invariance, PTL
=============================================================================
