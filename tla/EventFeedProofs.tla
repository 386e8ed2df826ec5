--------------------------- MODULE EventFeedProofs ----------------------------
(***************************************************************************)
(* Proofs about EventFeed, for any number of events, clients and filters   *)
(* and any page size: a poller only misses events that were committed      *)
(* behind its back, and none if inserts do not overlap; a walk backwards   *)
(* misses nothing; and no page repeats an event.                           *)
(***************************************************************************)
EXTENDS EventFeed, FiniteSetTheorems, WellFoundedInduction, TLAPS

-----------------------------------------------------------------------------
(* Least and greatest.                                                     *)

(* A set of naturals that is not empty has a least element. *)
LEMMA LeastNat ==
  ASSUME NEW T \in SUBSET Nat, T # {}
  PROVE  \E x \in T : \A y \in T : x <= y
<1> DEFINE R == OpToRel(<, Nat)
<1>1. IsWellFoundedOn(R, Nat)
  BY NatLessThanWellFounded
<1> HIDE DEF R
<1>2. PICK x \in T : \A y \in T : ~ (<<y, x>> \in R)
  BY <1>1, WFMin
<1>3. \A y \in T : y < x => <<y, x>> \in R
  BY DEF R, OpToRel
<1>4. ASSUME NEW y \in T PROVE x <= y
  <2>1. y \in Nat /\ x \in Nat /\ ~ (y < x)
    BY <1>2, <1>3
  <2> QED
    BY <2>1
<1> QED
  BY <1>4

(* Of events that there are, one has the highest cursor, if the sequence   *)
(* bounds them: its distance from the sequence's number is least.          *)
LEMMA NewestIsIn ==
  ASSUME NEW S \in SUBSET Events, S # {},
         event_cursor_seq \in Nat, cursor \in [Events -> Nat],
         \A e \in S : cursor[e] <= event_cursor_seq
  PROVE  Newest(S) \in S /\ \A e \in S : cursor[e] <= cursor[Newest(S)]
<1> DEFINE T == {event_cursor_seq - cursor[e] : e \in S}
<1>1. T \in SUBSET Nat /\ T # {}
  OBVIOUS
<1>2. PICK n \in T : \A m \in T : n <= m
  BY <1>1, LeastNat
<1>3. PICK top \in S : n = event_cursor_seq - cursor[top]
  OBVIOUS
<1>4. ASSUME NEW e \in S PROVE cursor[top] >= cursor[e]
  <2>1. event_cursor_seq - cursor[top] <= event_cursor_seq - cursor[e]
    BY <1>2, <1>3
  <2>2. cursor[top] \in Nat /\ cursor[e] \in Nat
    OBVIOUS
  <2> QED
    BY <2>1, <2>2
<1>5. \E e \in S : \A f \in S : cursor[e] >= cursor[f]
  BY <1>4
<1>6. Newest(S) \in S /\ \A f \in S : cursor[Newest(S)] >= cursor[f]
  BY <1>5 DEF Newest
<1>7. ASSUME NEW e \in S PROVE cursor[e] <= cursor[Newest(S)]
  <2>1. cursor[Newest(S)] >= cursor[e] /\ Newest(S) \in Events /\ e \in Events
    BY <1>6
  <2> QED
    BY <2>1
<1> QED
  BY <1>6, <1>7

(* The oldest of a set, likewise. *)
LEMMA OldestIsIn ==
  ASSUME NEW S \in SUBSET Events, S # {}, cursor \in [Events -> Nat]
  PROVE  Oldest(S) \in S /\ \A e \in S : cursor[Oldest(S)] <= cursor[e]
<1> DEFINE T == {cursor[e] : e \in S}
<1>1. T \in SUBSET Nat /\ T # {}
  OBVIOUS
<1>2. PICK n \in T : \A m \in T : n <= m
  BY <1>1, LeastNat
<1>3. \E e \in S : \A f \in S : cursor[e] <= cursor[f]
  BY <1>2
<1> QED
  BY <1>3 DEF Oldest

(* A limit from the other end keeps, with an event, all that come after it. *)
LEMMA LastIsFinal ==
  ASSUME NEW S \in SUBSET Events, NEW n \in Nat, cursor \in [Events -> Nat],
         NEW e \in S, NEW f \in Last(S, n), cursor[f] <= cursor[e]
  PROVE  e \in Last(S, n)
<1> DEFINE Above(x) == {g \in S : cursor[g] > cursor[x]}
<1>1. f \in S /\ Cardinality(Above(f)) < n
  BY DEF Last
<1>2. IsFiniteSet(Above(f))
  BY FS_Subset, EventsAssumption
<1>3. Above(e) \in SUBSET Above(f)
  <2>1. SUFFICES ASSUME NEW g \in S, cursor[g] > cursor[e]
                 PROVE  cursor[g] > cursor[f]
    OBVIOUS
  <2>2. cursor[g] \in Nat /\ cursor[e] \in Nat /\ cursor[f] \in Nat
    BY <1>1
  <2> QED
    BY <2>1, <2>2
<1> HIDE DEF Above
<1>4. /\ Cardinality(Above(e)) <= Cardinality(Above(f))
      /\ IsFiniteSet(Above(e))
  BY <1>2, <1>3, FS_Subset
<1>5. Cardinality(Above(e)) \in Nat /\ Cardinality(Above(f)) \in Nat
  BY <1>2, <1>4, FS_CardinalityType
<1>6. Cardinality(Above(e)) < n
  BY <1>1, <1>4, <1>5
<1> QED
  BY <1>6 DEF Last, Above

(* A limit keeps, with an event, all that come before it. *)
LEMMA FirstIsInitial ==
  ASSUME NEW S \in SUBSET Events, NEW n \in Nat, cursor \in [Events -> Nat],
         NEW e \in S, NEW f \in First(S, n), cursor[e] <= cursor[f]
  PROVE  e \in First(S, n)
<1> DEFINE Below(x) == {g \in S : cursor[g] < cursor[x]}
<1>1. f \in S /\ Cardinality(Below(f)) < n
  BY DEF First
<1>2. IsFiniteSet(Below(f))
  BY FS_Subset, EventsAssumption
<1>3. Below(e) \in SUBSET Below(f)
  <2>1. SUFFICES ASSUME NEW g \in S, cursor[g] < cursor[e]
                 PROVE  cursor[g] < cursor[f]
    OBVIOUS
  <2>2. cursor[g] \in Nat /\ cursor[e] \in Nat /\ cursor[f] \in Nat
    BY <1>1
  <2> QED
    BY <2>1, <2>2
<1> HIDE DEF Below
<1>4. /\ Cardinality(Below(e)) <= Cardinality(Below(f))
      /\ IsFiniteSet(Below(e))
  BY <1>2, <1>3, FS_Subset
<1>5. Cardinality(Below(e)) \in Nat /\ Cardinality(Below(f)) \in Nat
  BY <1>2, <1>4, FS_CardinalityType
<1>6. Cardinality(Below(e)) < n
  BY <1>1, <1>4, <1>5
<1> QED
  BY <1>6 DEF First, Below

-----------------------------------------------------------------------------
(* The inductive invariant.                                                *)

(* Cursors are numbers that the sequence has given out, each to one event. *)
Numbered ==
  /\ \A e \in Events : cursor[e] <= event_cursor_seq
  /\ \A e \in Events : state[e] # "new" => cursor[e] > 0
  /\ \A e, f \in Events :
       state[e] # "new" /\ cursor[e] = cursor[f] => e = f

(* Pollers follow since_id; what they name, or show, has been committed.   *)
Placed ==
  \A p \in Pollers :
    /\ link[p].max = Nobody
    /\ link[p].since # Nobody => state[link[p].since] \in {"committed", "deleted"}

IInv == TypeOK /\ Numbered /\ Placed /\ OnlyLateMissed

(* A limit that leaves something out leaves just so many: they are the     *)
(* ones after the newest that is left out, and from the oldest that is kept. *)
LEMMA LastIsFull ==
  ASSUME TypeOK, Numbered, NEW S \in SUBSET {e \in Events : state[e] # "new"},
         NEW n \in Nat, Last(S, n) # S
  PROVE  Cardinality(Last(S, n)) = n
<1> DEFINE kept == Last(S, n)
           left == S \ kept
           Above(x) == {g \in S : cursor[g] > cursor[x]}
<1>1. cursor \in [Events -> Nat] /\ event_cursor_seq \in Nat
  BY DEF TypeOK
<1>2. /\ S \in SUBSET Events /\ IsFiniteSet(S)
      /\ kept \in SUBSET S /\ IsFiniteSet(kept) /\ Cardinality(kept) \in Nat
  <2>1. S \in SUBSET Events /\ kept \in SUBSET S
    BY DEF Last
  <2> QED
    BY <2>1, EventsAssumption, FS_Subset, FS_CardinalityType
<1>3. \A x : /\ IsFiniteSet(Above(x))
             /\ Cardinality(Above(x)) \in Nat
  BY <1>2, FS_Subset, FS_CardinalityType
<1>4. \A e \in S : e \in kept <=> Cardinality(Above(e)) < n
  BY DEF Last
<1> HIDE DEF kept
<1>5. n <= Cardinality(kept)
  <2> DEFINE x == Newest(left)
  <2>1. x \in left /\ \A e \in left : cursor[e] <= cursor[x]
    BY <1>1, <1>2, NewestIsIn DEF Numbered, kept
  <2> HIDE DEF x
  <2>2. Above(x) \in SUBSET kept
    <3> SUFFICES ASSUME NEW e \in S, cursor[e] > cursor[x], e \notin kept PROVE FALSE
      OBVIOUS
    <3>1. cursor[e] <= cursor[x] /\ cursor[e] \in Nat /\ cursor[x] \in Nat
      BY <1>1, <1>2, <2>1
    <3> QED
      BY <3>1
  <2>3. ~ (Cardinality(Above(x)) < n)
    BY <1>4, <2>1
  <2>4. Cardinality(Above(x)) <= Cardinality(kept)
    BY <1>2, <2>2, FS_Subset
  <2> HIDE DEF Above
  <2> QED
    BY <1>2, <1>3, <2>3, <2>4
<1>6. Cardinality(kept) <= n
  <2>1. CASE kept = {}
    BY <2>1, FS_EmptySet
  <2>2. CASE kept # {}
    <3> DEFINE y == Oldest(kept)
    <3>1. y \in kept /\ \A e \in kept : cursor[y] <= cursor[e]
      BY <1>1, <1>2, <2>2, OldestIsIn
    <3> HIDE DEF y
    <3>2. kept \in SUBSET (Above(y) \cup {y})
      <4> SUFFICES ASSUME NEW e \in kept, e # y PROVE cursor[e] > cursor[y]
        BY <1>2
      <4>1. e \in S /\ y \in S /\ cursor[e] \in Nat /\ cursor[y] \in Nat
        BY <1>1, <1>2, <3>1
      <4>2. cursor[e] # cursor[y] /\ cursor[y] <= cursor[e]
        BY <3>1, <4>1 DEF Numbered
      <4> QED
        BY <4>1, <4>2
    <3>3. Cardinality(Above(y)) < n
      BY <1>2, <1>4, <3>1
    <3>4. y \notin Above(y)
      <4>1. cursor[y] \in Nat
        BY <1>1, <1>2, <3>1
      <4> QED
        BY <4>1
    <3> HIDE DEF Above
    <3>5. /\ IsFiniteSet(Above(y) \cup {y})
          /\ Cardinality(Above(y) \cup {y}) = Cardinality(Above(y)) + 1
      BY <1>3, <3>4, FS_AddElement
    <3>6. Cardinality(kept) <= Cardinality(Above(y) \cup {y})
      BY <3>2, <3>5, FS_Subset
    <3> QED
      BY <1>2, <1>3, <3>3, <3>5, <3>6
  <2> QED
    BY <2>1, <2>2
<1>7. Cardinality(kept) = n
  BY <1>2, <1>5, <1>6
<1> QED
  BY <1>7 DEF kept

(* An answer is a page, and to a poller its "next" is a place further on.  *)
LEMMA AnswerType ==
  ASSUME TypeOK, Numbered, NEW c \in Clients, NEW l \in Link
  PROVE  /\ Answer(c, l) \in Page
         /\ Answer(c, l).collection \in SUBSET Visible(c)
<1>1. Visible(c) \in SUBSET Events
  BY ClientsAssumption DEF Visible
<1>2. Objs(c, l) \in SUBSET Visible(c)
  BY DEF Objs, First, Last, Rows
<1>3. ASSUME More(c, l) PROVE Oldest(Objs(c, l)) \in Events
  <2>1. Objs(c, l) # {}
    BY <1>3, FS_EmptySet, PageAssumption DEF More
  <2> QED
    BY <1>1, <1>2, <2>1, OldestIsIn DEF TypeOK
<1> DEFINE since == IF More(c, l) THEN Oldest(Objs(c, l)) ELSE l.since
           shown == IF More(c, l)
                      THEN Objs(c, l) \ {Oldest(Objs(c, l))} ELSE Objs(c, l)
<1>4. since \in Events \cup {Nobody} /\ l.max \in Events \cup {Nobody}
  BY <1>3 DEF Link
<1>5. shown \in SUBSET Visible(c)
  BY <1>2
<1>6. ASSUME shown # {} PROVE Newest(shown) \in Events
  BY <1>1, <1>5, <1>6, NewestIsIn DEF TypeOK, Numbered
<1>7. Answer(c, l) =
        [collection |-> shown,
         self |-> [since |-> since, max |-> l.max],
         next |-> [since |-> IF shown # {} THEN Newest(shown) ELSE since,
                   max |-> Nobody],
         prev |-> [since |-> Nobody, max |-> since]]
  BY DEF Answer
<1> HIDE DEF since, shown
<1> DEFINE newest == IF shown # {} THEN Newest(shown) ELSE since
<1>8. newest \in Events \cup {Nobody}
  BY <1>4, <1>6
<1> HIDE DEF newest
<1>9. Answer(c, l) =
        [collection |-> shown,
         self |-> [since |-> since, max |-> l.max],
         next |-> [since |-> newest, max |-> Nobody],
         prev |-> [since |-> Nobody, max |-> since]]
  BY <1>7 DEF newest
<1> QED
  BY <1>1, <1>4, <1>5, <1>8, <1>9 DEF Page, Link

LEMMA InitInv == Init => IInv
<1> SUFFICES ASSUME Init PROVE IInv
  OBVIOUS
<1>1. NoPage \in Page /\ NoParameters \in Link
  BY DEF NoPage, Page, NoParameters, Link
<1>2. TypeOK
  BY <1>1 DEF Init, TypeOK
<1>3. Numbered
  BY DEF Init, Numbered
<1>4. Placed
  BY ClientsAssumption DEF Init, Placed, NoParameters, Clients
<1>5. OnlyLateMissed
  BY ClientsAssumption DEF Init, OnlyLateMissed, Visible, Clients
<1> QED
  BY <1>2, <1>3, <1>4, <1>5 DEF IInv

(* The event that a poller's link names is one. *)
LEMMA PlaceIsEvent ==
  ASSUME TypeOK, NEW p \in Pollers, link[p].since # Nobody
  PROVE  link[p].since \in Events
<1>1. link[p] \in Link
  BY DEF TypeOK, Clients
<1> QED
  BY <1>1 DEF Link

LEMMA FlushInv ==
  ASSUME IInv, NEW e \in Events, Flush(e)
  PROVE  IInv'
<1> USE DEF IInv
<1>1. /\ state[e] = "new"
      /\ event_cursor_seq' = event_cursor_seq + 1
      /\ cursor' = [cursor EXCEPT ![e] = event_cursor_seq + 1]
      /\ state' = [state EXCEPT ![e] = "flushed"]
      /\ UNCHANGED <<link, page, seen, refused, late, due>>
  BY DEF Flush, clients
<1>3. event_cursor_seq \in Nat /\ cursor \in [Events -> Nat]
  BY DEF TypeOK
<1>2. TypeOK'
  <2>1. event_cursor_seq' \in Nat /\ cursor' \in [Events -> Nat]
    BY <1>1, <1>3
  <2> QED
    BY <1>1, <2>1 DEF TypeOK
<1>4. state \in [Events -> {"new", "flushed", "committed", "rolled back",
                            "deleted"}]
  BY DEF TypeOK
<1>5. Numbered'
  <2>1. \A f \in Events : cursor'[f] <= event_cursor_seq'
    BY <1>1, <1>3 DEF Numbered
  <2>2. ASSUME NEW f \in Events, state'[f] # "new" PROVE cursor'[f] > 0
    <3>1. CASE f = e
      BY <1>1, <1>3, <3>1
    <3>2. CASE f # e
      BY <1>1, <1>3, <1>4, <2>2, <3>2 DEF Numbered
    <3> QED
      BY <3>1, <3>2
  <2>3. ASSUME NEW f \in Events, NEW g \in Events,
               state'[f] # "new", cursor'[f] = cursor'[g]
        PROVE  f = g
    <3>1. CASE f = e \/ g = e
      BY <1>1, <1>3, <2>3, <3>1 DEF Numbered
    <3>2. CASE f # e /\ g # e
      BY <1>1, <1>3, <1>4, <2>3, <3>2 DEF Numbered
    <3> QED
      BY <3>1, <3>2
  <2> QED
    BY <2>1, <2>2, <2>3 DEF Numbered
<1>6. ASSUME NEW p \in Pollers, link[p].since # Nobody
      PROVE  link[p].since # e /\ link[p].since \in Events
  <2>1. state[link[p].since] \in {"committed", "deleted"}
    BY <1>6 DEF Placed
  <2> QED
    BY <1>1, <1>6, <2>1, PlaceIsEvent
<1>7. Placed'
  BY <1>1, <1>4, <1>6 DEF Placed
<1>8. \A p \in Pollers : Place(p)' = Place(p)
  BY <1>1, <1>3, <1>6 DEF Place
<1>9. OnlyLateMissed'
  <2>1. SUFFICES ASSUME NEW p \in Pollers, NEW f \in Visible(p)',
                        cursor'[f] <= Place(p)'
                 PROVE  f \in seen[p] \/ p \in late[f]
    BY <1>1 DEF OnlyLateMissed
  <2>2. f \in Events
    BY ClientsAssumption DEF Visible, Clients
  <2>3. f # e /\ f \in Visible(p)
    BY <1>1, <1>4, <2>2 DEF Visible
  <2>4. cursor[f] <= Place(p)
    BY <1>1, <1>3, <1>8, <2>1, <2>2, <2>3
  <2> QED
    BY <2>3, <2>4 DEF OnlyLateMissed
<1> QED
  BY <1>2, <1>5, <1>7, <1>9

LEMMA CommitInv ==
  ASSUME IInv, NEW e \in Events, Commit(e)
  PROVE  IInv'
<1> USE DEF IInv
<1>1. /\ state[e] = "flushed"
      /\ state' = [state EXCEPT ![e] = "committed"]
      /\ late' = [late EXCEPT ![e] = {p \in Pollers : cursor[e] <= Place(p)}]
      /\ UNCHANGED <<event_cursor_seq, cursor, link, page, seen, refused, due>>
  BY DEF Commit, clients
<1>2. TypeOK'
  BY <1>1 DEF TypeOK
<1>3. state \in [Events -> {"new", "flushed", "committed", "rolled back",
                            "deleted"}]
  BY DEF TypeOK
<1>4. Numbered'
  BY <1>1, <1>3 DEF Numbered
<1>5. Placed'
  BY <1>1, <1>3, PlaceIsEvent DEF Placed
<1>6. OnlyLateMissed'
  <2>1. SUFFICES ASSUME NEW p \in Pollers, NEW f \in Visible(p)',
                        cursor[f] <= Place(p)
                 PROVE  f \in seen[p] \/ p \in late'[f]
    BY <1>1 DEF OnlyLateMissed, Place
  <2>2. f \in Events /\ late \in [Events -> SUBSET Pollers]
    BY ClientsAssumption DEF Visible, Clients, TypeOK
  <2>3. CASE f = e
    BY <1>1, <2>1, <2>2, <2>3
  <2>4. CASE f # e
    <3>1. f \in Visible(p)
      BY <1>1, <1>3, <2>2, <2>4 DEF Visible
    <3> QED
      BY <1>1, <2>1, <2>2, <2>4, <3>1 DEF OnlyLateMissed
  <2> QED
    BY <2>3, <2>4
<1> QED
  BY <1>2, <1>4, <1>5, <1>6

(* An event is taken away: an insert is rolled back, or it is deleted. *)
LEMMA RemoveInv ==
  ASSUME IInv, NEW e \in Events, RollBack(e) \/ Delete(e)
  PROVE  IInv'
<1> USE DEF IInv
<1>1. /\ \/ state[e] = "flushed" /\ state' = [state EXCEPT ![e] = "rolled back"]
         \/ state[e] = "committed" /\ state' = [state EXCEPT ![e] = "deleted"]
      /\ UNCHANGED <<event_cursor_seq, cursor, link, page, seen, refused, late,
                     due>>
  BY DEF RollBack, Delete, clients
<1>2. TypeOK'
  BY <1>1 DEF TypeOK
<1>3. state \in [Events -> {"new", "flushed", "committed", "rolled back",
                            "deleted"}]
  BY DEF TypeOK
<1>4. Numbered'
  BY <1>1, <1>3 DEF Numbered
<1>5. Placed'
  BY <1>1, <1>3, PlaceIsEvent DEF Placed
<1>6. OnlyLateMissed'
  <2>1. ASSUME NEW p \in Pollers PROVE Visible(p)' \subseteq Visible(p)
    BY <1>1, <1>3, ClientsAssumption DEF Visible, Clients
  <2> QED
    BY <1>1, <2>1 DEF OnlyLateMissed, Place
<1> QED
  BY <1>2, <1>4, <1>5, <1>6

(* A poller that is answered a page has, with it, all up to its new place. *)
LEMMA PollFindsAll ==
  ASSUME IInv, NEW p \in Pollers, NEW e \in Visible(p),
         LET next == Answer(p, link[p]).next
         IN  cursor[e] <= IF next.since = Nobody THEN 0 ELSE cursor[next.since],
         cursor[e] > Place(p)
  PROVE  e \in Answer(p, link[p]).collection
<1> DEFINE l == link[p]
           rows == Rows(p, l)
           shown == First(rows, ResultsPerPage)
<1>1. l \in Link /\ l.max = Nobody /\ p \in Clients
  BY DEF IInv, Placed, TypeOK, Clients
<1>2. Answer(p, l).collection = shown
      /\ Answer(p, l).next.since = IF shown # {} THEN Newest(shown) ELSE l.since
  BY <1>1 DEF Answer, Objs, More, Backwards
<1>3. e \in Events /\ cursor \in [Events -> Nat] /\ event_cursor_seq \in Nat
  BY <1>1, ClientsAssumption DEF Visible, IInv, TypeOK
<1>4. e \in rows
  BY <1>1 DEF Rows, Place
<1>5. rows \in SUBSET Events /\ shown \in SUBSET rows
  BY <1>1, ClientsAssumption DEF Rows, Visible, First
<1> HIDE DEF rows
<1>6. shown # {}
  <2>1. SUFFICES ASSUME shown = {} PROVE FALSE
    OBVIOUS
  <2>2. cursor[e] <= Place(p)
    BY <1>2, <2>1 DEF Place
  <2>3. Place(p) \in Nat
    BY <1>1, <1>3 DEF Place, Link
  <2> QED
    BY <1>3, <2>2, <2>3
<1>7. Newest(shown) \in shown
  BY <1>3, <1>5, <1>6, NewestIsIn DEF IInv, Numbered
<1>8. Newest(shown) # Nobody
  BY <1>5, <1>7, EventsAssumption
<1>9. cursor[e] <= cursor[Newest(shown)]
  BY <1>2, <1>6, <1>8
<1>10. e \in shown
  BY <1>3, <1>4, <1>5, <1>7, <1>9, FirstIsInitial, PageAssumption
<1> QED
  BY <1>2, <1>10

(* What a request changes, and that nothing but what is found is kept. *)
LEMMA GetType ==
  ASSUME IInv, NEW c \in Clients, NEW rel \in {"next", "prev"}, Get(c, rel)
  PROVE  /\ TypeOK'
         /\ UNCHANGED <<event_cursor_seq, cursor, state, late, due>>
         /\ \A d \in Clients : d # c => link'[d] = link[d] /\ seen'[d] = seen[d]
<1>1. link[c] \in Link
  BY DEF IInv, TypeOK
<1>2. Answer(c, link[c]) \in Page
  BY <1>1, AnswerType DEF IInv
<1>3. /\ Answer(c, link[c])[rel] \in Link
      /\ Answer(c, link[c]).collection \in SUBSET Events
  BY <1>2 DEF Page
<1>4. UNCHANGED <<event_cursor_seq, cursor, state, late, due>>
  BY DEF Get, feed
<1>5. CASE Found(c, link[c])
  <2>1. /\ refused' = [refused EXCEPT ![c] = FALSE]
        /\ page' = [page EXCEPT ![c] = Answer(c, link[c])]
        /\ seen' = [seen EXCEPT ![c] = @ \cup Answer(c, link[c]).collection]
        /\ link' = [link EXCEPT ![c] = Answer(c, link[c])[rel]]
    BY <1>5 DEF Get
  <2> QED
    BY <1>2, <1>3, <1>4, <2>1 DEF IInv, TypeOK
<1>6. CASE ~Found(c, link[c])
  <2>1. /\ refused' = [refused EXCEPT ![c] = TRUE]
        /\ UNCHANGED <<page, seen, link>>
    BY <1>6 DEF Get
  <2> QED
    BY <1>4, <2>1 DEF IInv, TypeOK
<1> QED
  BY <1>5, <1>6

LEMMA PollInv ==
  ASSUME IInv, NEW p \in Pollers, Poll(p)
  PROVE  IInv'
<1> USE DEF IInv
<1>1. p \in Clients /\ Get(p, "next")
  BY DEF Clients, Poll
<1>2. /\ TypeOK'
      /\ UNCHANGED <<event_cursor_seq, cursor, state, late, due>>
      /\ \A d \in Clients : d # p => link'[d] = link[d] /\ seen'[d] = seen[d]
  BY <1>1, GetType
<1>3. Numbered'
  BY <1>2 DEF Numbered
<1>4. CASE ~Found(p, link[p])
  <2>1. UNCHANGED <<link, seen>>
    BY <1>1, <1>4 DEF Get
  <2> QED
    BY <1>2, <1>3, <2>1 DEF Placed, OnlyLateMissed, Visible, Place
<1>5. CASE Found(p, link[p])
  <2> DEFINE answer == Answer(p, link[p])
  <2>1. seen'[p] = seen[p] \cup answer.collection /\ link'[p] = answer.next
    BY <1>1, <1>5 DEF Get, TypeOK
  <2>2. link[p] \in Link /\ link[p].max = Nobody
    BY <1>1 DEF TypeOK, Placed
  <2>3. answer \in Page /\ answer.collection \in SUBSET Visible(p)
    BY <1>1, <2>2, AnswerType
  <2>4. answer.next.max = Nobody
        /\ answer.next.since = IF answer.collection # {}
                                 THEN Newest(answer.collection)
                                 ELSE link[p].since
    BY <2>2 DEF Answer, More, Backwards
  <2> HIDE DEF answer
  <2>5. ASSUME answer.collection # {}
        PROVE  state[Newest(answer.collection)] = "committed"
    <3>1. answer.collection \in SUBSET Events
      BY <1>1, <2>3, ClientsAssumption DEF Visible
    <3>2. Newest(answer.collection) \in answer.collection
      BY <2>5, <3>1, NewestIsIn DEF TypeOK, Numbered
    <3> QED
      BY <2>3, <3>2 DEF Visible
  <2>6. Placed'
    <3>1. SUFFICES ASSUME NEW q \in Pollers
                   PROVE  /\ link'[q].max = Nobody
                          /\ link'[q].since # Nobody =>
                               state[link'[q].since] \in {"committed", "deleted"}
      BY <1>2 DEF Placed
    <3>2. CASE q = p
      BY <2>1, <2>4, <2>5, <3>2 DEF Placed
    <3>3. CASE q # p
      BY <1>2, <3>3 DEF Placed, Clients
    <3> QED
      BY <3>2, <3>3
  <2>7. OnlyLateMissed'
    <3>1. SUFFICES ASSUME NEW q \in Pollers, NEW e \in Visible(q),
                          cursor[e] <= Place(q)'
                   PROVE  e \in seen'[q] \/ q \in late[e]
      BY <1>2 DEF OnlyLateMissed, Visible
    <3>2. CASE q # p
      <4>1. Place(q)' = Place(q) /\ seen'[q] = seen[q]
        BY <1>2, <3>2 DEF Place, Clients
      <4> QED
        BY <3>1, <4>1 DEF OnlyLateMissed
    <3>3. CASE q = p /\ cursor[e] <= Place(p)
      BY <2>1, <3>1, <3>3 DEF OnlyLateMissed
    <3>4. CASE q = p /\ ~ (cursor[e] <= Place(p))
      <4>1. cursor[e] <= IF answer.next.since = Nobody THEN 0
                         ELSE cursor[answer.next.since]
        BY <1>2, <2>1, <3>1, <3>4 DEF Place
      <4>2. cursor[e] \in Nat /\ Place(p) \in Nat
        BY <1>1, <2>2, <3>4, ClientsAssumption
           DEF TypeOK, Place, Link, Visible
      <4>3. cursor[e] > Place(p)
        BY <3>4, <4>2
      <4>4. e \in answer.collection
        BY <3>4, <4>1, <4>3, PollFindsAll DEF answer
      <4> QED
        BY <2>1, <3>4, <4>4
    <3> QED
      BY <3>2, <3>3, <3>4
  <2> QED
    BY <1>2, <1>3, <2>6, <2>7
<1> QED
  BY <1>4, <1>5

(* A walker changes nothing that pollers have. *)
LEMMA WalkerInv ==
  ASSUME IInv, NEW w \in Walkers, SetOut(w) \/ Walk(w)
  PROVE  IInv'
<1> USE DEF IInv
<1>1. w \in Clients /\ w \notin Pollers
  BY ClientsAssumption DEF Clients
<1>2. /\ TypeOK'
      /\ UNCHANGED <<event_cursor_seq, cursor, state, late>>
      /\ \A d \in Clients : d # w => link'[d] = link[d] /\ seen'[d] = seen[d]
  <2>1. CASE SetOut(w)
    <3>1. PICK e \in Visible(w) :
            /\ link' = [link EXCEPT ![w] = [since |-> Nobody, max |-> e]]
            /\ due' = [due EXCEPT ![w] =
                         {f \in Visible(w) : cursor[f] <= cursor[e]}]
      BY <2>1 DEF SetOut
    <3>2. UNCHANGED <<event_cursor_seq, cursor, state, page, seen, refused, late>>
      BY <2>1 DEF SetOut, feed
    <3>3. Visible(w) \in SUBSET Events
      BY <1>1, ClientsAssumption DEF Visible
    <3>4. [since |-> Nobody, max |-> e] \in Link
      BY <3>3 DEF Link
    <3> QED
      BY <3>1, <3>2, <3>3, <3>4 DEF TypeOK
  <2>2. CASE Walk(w)
    BY <1>1, <2>2, GetType DEF Walk
  <2> QED
    BY <2>1, <2>2
<1>3. \A p \in Pollers : link'[p] = link[p] /\ seen'[p] = seen[p]
  BY <1>1, <1>2 DEF Clients
<1> QED
  BY <1>2, <1>3 DEF Numbered, Placed, OnlyLateMissed, Visible, Place

LEMMA NextInv == IInv /\ [Next]_vars => IInv'
<1> SUFFICES ASSUME IInv, [Next]_vars PROVE IInv'
  OBVIOUS
<1>1. ASSUME NEW e \in Events, Flush(e) PROVE IInv'
  BY <1>1, FlushInv
<1>2. ASSUME NEW e \in Events, Commit(e) PROVE IInv'
  BY <1>2, CommitInv
<1>3. ASSUME NEW e \in Events, RollBack(e) \/ Delete(e) PROVE IInv'
  BY <1>3, RemoveInv
<1>4. ASSUME NEW p \in Pollers, Poll(p) PROVE IInv'
  BY <1>4, PollInv
<1>5. ASSUME NEW w \in Walkers, SetOut(w) \/ Walk(w) PROVE IInv'
  BY <1>5, WalkerInv
<1>6. CASE UNCHANGED vars
  BY <1>6 DEF vars, IInv, TypeOK, Numbered, Placed, OnlyLateMissed, Visible,
              Place
<1> QED
  BY <1>1, <1>2, <1>3, <1>4, <1>5, <1>6 DEF Next

(* The variables keep their types. *)
THEOREM FeedType == Spec => []TypeOK
<1>1. IInv => TypeOK
  BY DEF IInv
<1> QED
  BY <1>1, InitInv, NextInv, PTL DEF Spec

(* A poller that follows the "next" links misses no event but those that   *)
(* are committed when it is past their cursor.                             *)
THEOREM OnlyLateAreMissed == Spec => []OnlyLateMissed
<1>1. IInv => OnlyLateMissed
  BY DEF IInv
<1> QED
  BY <1>1, InitInv, NextInv, PTL DEF Spec

-----------------------------------------------------------------------------
(* What clients have read.                                                 *)

(* An event that has been committed keeps its cursor for good. *)
Settled(e) == state[e] \in {"committed", "deleted"}

(* What a poller has got is at or before its place. *)
Behind ==
  \A p \in Pollers : \A e \in seen[p] : Settled(e) /\ cursor[e] <= Place(p)

(* What a walker has got comes after the event that it goes on from. *)
Walking ==
  \A w \in Walkers :
    /\ link[w].since = Nobody
    /\ page[w] = NoPage => seen[w] = {}
    /\ \A e \in seen[w] : Settled(e)
    /\ link[w].max # Nobody =>
         /\ Settled(link[w].max)
         /\ \A e \in seen[w] : cursor[link[w].max] < cursor[e]

(* What it has yet to get, of what it set out to, does not. *)
Owed ==
  \A w \in Walkers : \A e \in due[w] :
    /\ e \in Matching[w] /\ Settled(e)
    /\ \/ e \in seen[w] \/ state[e] = "deleted"
       \/ link[w].max # Nobody /\ cursor[e] <= cursor[link[w].max]

Read == Behind /\ Walking /\ Owed

LEMMA InitRead == Init => Read
<1> SUFFICES ASSUME Init PROVE Read
  OBVIOUS
<1>1. /\ \A c \in Clients : link[c] = NoParameters /\ seen[c] = {}
      /\ \A w \in Walkers : due[w] = {}
  BY DEF Init
<1>2. Pollers \subseteq Clients /\ Walkers \subseteq Clients
  BY DEF Clients
<1> QED
  BY <1>1, <1>2 DEF Read, Behind, Walking, Owed, NoParameters

(* Writers change neither what clients have nor what they have read. *)
LEMMA WriteRead ==
  ASSUME IInv, Read, NEW e \in Events,
         Flush(e) \/ Commit(e) \/ RollBack(e) \/ Delete(e)
  PROVE  Read'
<1>1. UNCHANGED <<link, page, seen, due>>
  BY DEF Flush, Commit, RollBack, Delete, clients
<1>2. /\ state \in [Events -> {"new", "flushed", "committed", "rolled back",
                               "deleted"}]
      /\ cursor \in [Events -> Nat]
      /\ \A c \in Clients : link[c] \in Link /\ seen[c] \in SUBSET Events
      /\ \A w \in Walkers : due[w] \in SUBSET Events
  BY DEF IInv, TypeOK
<1>3. ASSUME NEW f \in Events, Settled(f)
      PROVE  /\ Settled(f)' /\ cursor'[f] = cursor[f]
             /\ state[f] = "deleted" => state'[f] = "deleted"
  <2>1. CASE Flush(e)
    BY <1>2, <1>3, <2>1 DEF Flush, Settled
  <2>2. CASE Commit(e)
    BY <1>2, <1>3, <2>2 DEF Commit, Settled
  <2>3. CASE RollBack(e) \/ Delete(e)
    BY <1>2, <1>3, <2>3 DEF RollBack, Delete, Settled
  <2> QED
    BY <2>1, <2>2, <2>3
<1>4. Pollers \subseteq Clients /\ Walkers \subseteq Clients
  BY DEF Clients
<1>5. Behind'
  <2> SUFFICES ASSUME NEW p \in Pollers, NEW f \in seen[p]
               PROVE  Settled(f)' /\ cursor'[f] <= Place(p)'
    BY <1>1 DEF Behind
  <2>1. f \in Events /\ Settled(f) /\ cursor[f] <= Place(p)
    BY <1>2, <1>4 DEF Read, Behind
  <2>2. Place(p)' = Place(p)
    <3>1. CASE link[p].since = Nobody
      BY <1>1, <3>1 DEF Place
    <3>2. CASE link[p].since # Nobody
      <4>1. link[p].since \in Events /\ Settled(link[p].since)
        BY <3>2, PlaceIsEvent DEF IInv, Placed, Settled
      <4> QED
        BY <1>1, <1>3, <4>1 DEF Place
    <3> QED
      BY <3>1, <3>2
  <2> QED
    BY <1>3, <2>1, <2>2
<1>6. Walking'
  <2> SUFFICES ASSUME NEW w \in Walkers
               PROVE  /\ link[w].since = Nobody
                      /\ page[w] = NoPage => seen[w] = {}
                      /\ \A f \in seen[w] : Settled(f)'
                      /\ link[w].max # Nobody =>
                           /\ state'[link[w].max] \in {"committed", "deleted"}
                           /\ \A f \in seen[w] : cursor'[link[w].max] < cursor'[f]
    BY <1>1 DEF Walking, Settled
  <2>1. /\ link[w].since = Nobody
        /\ page[w] = NoPage => seen[w] = {}
        /\ \A f \in seen[w] : f \in Events /\ Settled(f)
        /\ link[w].max # Nobody =>
             /\ link[w].max \in Events /\ Settled(link[w].max)
             /\ \A f \in seen[w] : cursor[link[w].max] < cursor[f]
    BY <1>2, <1>4 DEF Read, Walking, Link
  <2>2. \A f \in seen[w] : Settled(f)' /\ cursor'[f] = cursor[f]
    BY <1>3, <2>1
  <2>3. ASSUME link[w].max # Nobody
        PROVE  /\ state'[link[w].max] \in {"committed", "deleted"}
               /\ cursor'[link[w].max] = cursor[link[w].max]
    BY <1>1, <1>3, <2>1, <2>3 DEF Settled
  <2>4. ASSUME link[w].max # Nobody
        PROVE  \A f \in seen[w] : cursor'[link[w].max] < cursor'[f]
    BY <2>1, <2>2, <2>3, <2>4
  <2> QED
    BY <2>1, <2>2, <2>3, <2>4 DEF Settled
<1>7. Owed'
  <2> SUFFICES ASSUME NEW w \in Walkers, NEW f \in due[w]
               PROVE  /\ f \in Matching[w] /\ Settled(f)'
                      /\ \/ f \in seen[w] \/ state'[f] = "deleted"
                         \/ /\ link[w].max # Nobody
                            /\ cursor'[f] <= cursor'[link[w].max]
    BY <1>1 DEF Owed
  <2>1. /\ f \in Events /\ f \in Matching[w] /\ Settled(f)
        /\ \/ f \in seen[w] \/ state[f] = "deleted"
           \/ link[w].max # Nobody /\ cursor[f] <= cursor[link[w].max]
    BY <1>2 DEF Read, Owed
  <2>2. link[w].max # Nobody => link[w].max \in Events /\ Settled(link[w].max)
    BY <1>2, <1>4 DEF Read, Walking, Link
  <2> QED
    BY <1>3, <2>1, <2>2
<1> QED
  BY <1>5, <1>6, <1>7 DEF Read

(* A poller's page is what comes after its place. *)
LEMMA PollPage ==
  ASSUME IInv, NEW p \in Pollers
  PROVE  /\ \A e \in Answer(p, link[p]).collection :
              e \in Events /\ e \in Visible(p) /\ Place(p) < cursor[e]
         /\ Answer(p, link[p]).next.since =
              IF Answer(p, link[p]).collection # {}
                THEN Newest(Answer(p, link[p]).collection)
                ELSE link[p].since
<1> DEFINE l == link[p]
           shown == First(Rows(p, l), ResultsPerPage)
<1>1. l \in Link /\ l.max = Nobody /\ p \in Clients
  BY DEF IInv, Placed, TypeOK, Clients
<1>2. /\ Answer(p, l).collection = shown
      /\ Answer(p, l).next.since = IF shown # {} THEN Newest(shown) ELSE l.since
  BY <1>1 DEF Answer, Objs, More, Backwards
<1>3. ASSUME NEW e \in shown
      PROVE  e \in Events /\ e \in Visible(p) /\ Place(p) < cursor[e]
  <2>1. e \in Rows(p, l)
    BY DEF First
  <2>2. e \in Visible(p) /\ (l.since # Nobody => cursor[e] > cursor[l.since])
    BY <2>1 DEF Rows
  <2>3. e \in Events /\ state[e] # "new" /\ cursor \in [Events -> Nat]
    BY <1>1, <2>2, ClientsAssumption DEF Visible, IInv, TypeOK
  <2>4. CASE l.since = Nobody
    BY <2>2, <2>3, <2>4 DEF Place, IInv, Numbered
  <2>5. CASE l.since # Nobody
    <3>1. l.since \in Events
      BY <1>1, <2>5 DEF Link
    <3>2. cursor[e] \in Nat /\ cursor[l.since] \in Nat
      BY <2>3, <3>1
    <3> QED
      BY <2>2, <2>3, <2>5, <3>2 DEF Place
  <2> QED
    BY <2>4, <2>5
<1> HIDE DEF shown
<1> QED
  BY <1>2, <1>3

(* A walker's page ends with the event that it went on from; what is left  *)
(* of what there was up to that one is up to the event it goes on from.    *)
LEMMA WalkPage ==
  ASSUME IInv, Read, NEW w \in Walkers, link[w].max # Nobody
  PROVE  LET l == link[w]
             shown == Answer(w, l).collection
             prev == Answer(w, l).prev
         IN  /\ prev.since = Nobody /\ Answer(w, l).self.max = l.max
             /\ \A e \in shown : e \in Visible(w) /\ cursor[e] <= cursor[l.max]
             /\ prev.max # Nobody =>
                  /\ prev.max \in Visible(w) /\ cursor[prev.max] <= cursor[l.max]
                  /\ \A e \in shown : cursor[prev.max] < cursor[e]
             /\ \A e \in Visible(w) :
                  cursor[e] <= cursor[l.max] =>
                    \/ e \in shown
                    \/ prev.max # Nobody /\ cursor[e] <= cursor[prev.max]
<1> DEFINE l == link[w]
           rows == Rows(w, l)
           objs == Last(rows, ResultsPerPage + 1)
           old == Oldest(objs)
           more == Cardinality(objs) = ResultsPerPage + 1
           shown == IF more THEN objs \ {old} ELSE objs
           max == IF more THEN old ELSE Nobody
<1>1. l \in Link /\ l.since = Nobody /\ l.max \in Events /\ w \in Clients
  <2>1. w \in Clients
    BY DEF Clients
  <2> QED
    BY <2>1 DEF IInv, TypeOK, Read, Walking, Link
<1>2. /\ Answer(w, l).collection = shown
      /\ Answer(w, l).self.max = l.max
      /\ Answer(w, l).prev.since = Nobody /\ Answer(w, l).prev.max = max
  BY <1>1 DEF Answer, Objs, More, Backwards
<1>3. /\ cursor \in [Events -> Nat] /\ Visible(w) \in SUBSET Events
      /\ \A e \in Visible(w) : state[e] = "committed"
  BY <1>1, ClientsAssumption DEF IInv, TypeOK, Visible
<1>4. \A e : e \in rows <=> e \in Visible(w) /\ cursor[e] <= cursor[l.max]
  BY <1>1 DEF Rows
<1> HIDE DEF rows
<1>5. rows \in SUBSET {e \in Events : state[e] # "new"} /\ rows \in SUBSET Events
  BY <1>3, <1>4
<1>6. objs \in SUBSET rows
  BY DEF Last
<1>7. CASE more
  <2>0. shown = objs \ {old} /\ max = old
    BY <1>7
  <2>1. objs # {}
    BY <1>7, FS_EmptySet, PageAssumption
  <2>2. old \in objs /\ \A e \in objs : cursor[old] <= cursor[e]
    BY <1>3, <1>5, <1>6, <2>1, OldestIsIn
  <2>3. old \in Events /\ old # Nobody /\ old \in rows
    BY <1>5, <1>6, <2>2, EventsAssumption
  <2>4. ASSUME NEW e \in shown PROVE e \in rows /\ cursor[old] < cursor[e]
    <3>1. e \in objs /\ e # old
      BY <2>0
    <3> HIDE DEF old, shown, objs
    <3>2. e \in rows /\ e \in Events /\ state[old] # "new" /\ cursor[old] <= cursor[e]
      BY <1>5, <1>6, <2>2, <2>3, <3>1
    <3>3. cursor[e] # cursor[old]
      BY <2>3, <3>1, <3>2 DEF IInv, Numbered
    <3>4. cursor[e] \in Nat /\ cursor[old] \in Nat
      BY <1>3, <2>3, <3>2
    <3> QED
      BY <3>2, <3>3, <3>4
  <2>5. ASSUME NEW e \in rows PROVE e \in shown \/ cursor[e] <= cursor[old]
    <3>1. CASE cursor[old] <= cursor[e]
      <4>1. e \in objs
        BY <1>3, <1>5, <2>2, <3>1, LastIsFinal, PageAssumption
      <4>2. CASE e = old
        BY <3>1, <4>2
      <4> QED
        BY <2>0, <4>1, <4>2
    <3>2. CASE ~ (cursor[old] <= cursor[e])
      <4>1. cursor[e] \in Nat /\ cursor[old] \in Nat
        BY <1>3, <1>5, <2>3
      <4> HIDE DEF old
      <4> QED
        BY <3>2, <4>1
    <3> QED
      BY <3>1, <3>2
  <2> HIDE DEF old, shown, max, objs
  <2> QED
    BY <1>2, <1>4, <2>0, <2>3, <2>4, <2>5
<1>8. CASE ~ more
  <2>1. objs = rows
    BY <1>5, <1>8, LastIsFull, PageAssumption DEF IInv
  <2>2. shown = rows /\ max = Nobody
    BY <1>8, <2>1
  <2> HIDE DEF shown, max
  <2> QED
    BY <1>2, <1>4, <2>2
<1> QED
  BY <1>7, <1>8

(* A request changes nothing that the other clients have. *)
LEMMA GetRead ==
  ASSUME IInv, Read, NEW c \in Clients, NEW rel \in {"next", "prev"}, Get(c, rel)
  PROVE  /\ UNCHANGED <<cursor, state, due>>
         /\ \A d \in Clients : d # c => /\ link'[d] = link[d] /\ seen'[d] = seen[d]
                                       /\ page'[d] = page[d]
         /\ \/ UNCHANGED <<link, seen, page>>
            \/ /\ seen'[c] = seen[c] \cup Answer(c, link[c]).collection
               /\ link'[c] = Answer(c, link[c])[rel]
               /\ page'[c] = Answer(c, link[c])
               /\ Found(c, link[c])
<1>1. /\ UNCHANGED <<cursor, state, due>>
      /\ \A d \in Clients : d # c => link'[d] = link[d] /\ seen'[d] = seen[d]
  BY GetType
<1>2. page \in [Clients -> Page] /\ link \in [Clients -> Link]
      /\ seen \in [Clients -> SUBSET Events]
  BY DEF IInv, TypeOK
<1>3. CASE ~ Found(c, link[c])
  BY <1>1, <1>3 DEF Get
<1>4. CASE Found(c, link[c])
  <2>1. /\ page' = [page EXCEPT ![c] = Answer(c, link[c])]
        /\ seen' = [seen EXCEPT ![c] = @ \cup Answer(c, link[c]).collection]
        /\ link' = [link EXCEPT ![c] = Answer(c, link[c])[rel]]
    BY <1>4 DEF Get
  <2> QED
    BY <1>1, <1>2, <1>4, <2>1
<1> QED
  BY <1>3, <1>4

LEMMA PollRead ==
  ASSUME IInv, Read, NEW p \in Pollers, Poll(p)
  PROVE  /\ Read'
         /\ page'[p] # page[p] => page'[p].collection \cap seen[p] = {}
<1> DEFINE answer == Answer(p, link[p])
           shown == answer.collection
<1>1. p \in Clients /\ Pollers \subseteq Clients /\ Walkers \subseteq Clients
      /\ p \notin Walkers
  BY ClientsAssumption DEF Clients
<1>2. /\ UNCHANGED <<cursor, state, due>>
      /\ \A d \in Clients : d # p => /\ link'[d] = link[d] /\ seen'[d] = seen[d]
                                    /\ page'[d] = page[d]
      /\ \/ UNCHANGED <<link, seen, page>>
         \/ /\ seen'[p] = seen[p] \cup answer.collection
            /\ link'[p] = answer.next
            /\ page'[p] = answer
  BY <1>1, GetRead DEF Poll
<1>3. /\ \A e \in shown : e \in Events /\ e \in Visible(p) /\ Place(p) < cursor[e]
      /\ answer.next.since = IF shown # {} THEN Newest(shown) ELSE link[p].since
  BY PollPage
<1>4. /\ seen[p] \in SUBSET Events /\ cursor \in [Events -> Nat]
      /\ event_cursor_seq \in Nat
      /\ \A e \in Events : cursor[e] <= event_cursor_seq
  BY <1>1 DEF IInv, TypeOK, Numbered
<1>5. Place(p) \in Nat
  BY <1>4, PlaceIsEvent DEF Place, IInv
<1>6. \A e \in seen[p] : Settled(e) /\ cursor[e] <= Place(p)
  BY DEF Read, Behind
<1> HIDE DEF answer
<1>7. shown \cap seen[p] = {}
  <2> SUFFICES ASSUME NEW e \in shown, e \in seen[p] PROVE FALSE
    OBVIOUS
  <2>1. cursor[e] \in Nat /\ Place(p) < cursor[e] /\ cursor[e] <= Place(p)
    BY <1>3, <1>4, <1>6
  <2> QED
    BY <1>5, <2>1
<1>8. Behind'
  <2> SUFFICES ASSUME NEW q \in Pollers, NEW e \in seen'[q]
               PROVE  Settled(e)' /\ cursor[e] <= Place(q)'
    BY <1>2 DEF Behind
  <2>1. CASE q # p \/ UNCHANGED <<link, seen, page>>
    <3>1. link'[q] = link[q] /\ seen'[q] = seen[q]
      BY <1>1, <1>2, <2>1
    <3> QED
      BY <1>2, <3>1 DEF Read, Behind, Settled, Place
  <2>2. CASE q = p /\ ~ UNCHANGED <<link, seen, page>>
    <3>1. seen'[p] = seen[p] \cup shown /\ link'[p] = answer.next
      BY <1>2, <2>2
    <3>2. CASE shown = {}
      <4>1. e \in seen[p] /\ Place(p)' = Place(p)
        BY <1>2, <1>3, <2>2, <3>1, <3>2 DEF Place
      <4> QED
        BY <1>2, <1>6, <2>2, <4>1 DEF Settled
    <3>3. CASE shown # {}
      <4> DEFINE top == Newest(shown)
      <4>1. shown \in SUBSET Events
        BY <1>3
      <4>2. top \in shown /\ \A f \in shown : cursor[f] <= cursor[top]
        BY <1>4, <3>3, <4>1, NewestIsIn
      <4>3. top \in Events /\ top # Nobody /\ Place(p)' = cursor[top]
        BY <1>2, <1>3, <3>1, <3>3, <4>1, <4>2, EventsAssumption DEF Place
      <4> HIDE DEF top
      <4>4. CASE e \in shown
        BY <1>2, <1>3, <2>2, <4>2, <4>3, <4>4 DEF Visible, Settled
      <4>5. CASE e \in seen[p]
        <5>1. Settled(e) /\ cursor[e] <= Place(p) /\ Place(p) < cursor[top]
              /\ cursor[e] \in Nat /\ cursor[top] \in Nat
          BY <1>3, <1>4, <1>6, <4>2, <4>3, <4>5
        <5>2. cursor[e] <= cursor[top]
          BY <1>5, <5>1
        <5> QED
          BY <1>2, <2>2, <4>3, <5>1, <5>2 DEF Settled
      <4> QED
        BY <2>2, <3>1, <4>4, <4>5
    <3> QED
      BY <3>2, <3>3
  <2> QED
    BY <2>1, <2>2
<1>9. \A w \in Walkers : link'[w] = link[w] /\ seen'[w] = seen[w] /\ page'[w] = page[w]
  BY <1>1, <1>2
<1>10. Walking' /\ Owed'
  BY <1>2, <1>9 DEF Read, Walking, Owed, Settled
<1> QED
  BY <1>2, <1>7, <1>8, <1>10 DEF Read

LEMMA SetOutRead ==
  ASSUME IInv, Read, NEW w \in Walkers, SetOut(w)
  PROVE  Read'
<1>1. PICK e \in Visible(w) :
        /\ link' = [link EXCEPT ![w] = [since |-> Nobody, max |-> e]]
        /\ due' = [due EXCEPT ![w] = {f \in Visible(w) : cursor[f] <= cursor[e]}]
  BY DEF SetOut
<1>2. UNCHANGED <<cursor, state, seen, page>> /\ page[w] = NoPage
  BY DEF SetOut, feed
<1>3. /\ w \in Clients /\ w \notin Pollers /\ Pollers \subseteq Clients
      /\ Walkers \subseteq Clients
      /\ link \in [Clients -> Link] /\ due \in [Walkers -> SUBSET Events]
  BY ClientsAssumption DEF Clients, IInv, TypeOK
<1>4. seen[w] = {}
  BY <1>2 DEF Read, Walking
<1>5. /\ \A f \in Visible(w) : f \in Matching[w] /\ state[f] = "committed"
      /\ e \in Events /\ e # Nobody
  BY <1>3, ClientsAssumption, EventsAssumption DEF Visible
<1>6. \A p \in Pollers : link'[p] = link[p]
  BY <1>1, <1>3
<1>7. Behind'
  BY <1>2, <1>6 DEF Read, Behind, Place, Settled
<1>8. \A v \in Walkers : v # w => link'[v] = link[v] /\ due'[v] = due[v]
  BY <1>1, <1>3
<1>9. /\ link'[w].since = Nobody /\ link'[w].max = e
      /\ due'[w] = {f \in Visible(w) : cursor[f] <= cursor[e]}
  BY <1>1, <1>3
<1>10. Walking'
  <2> SUFFICES ASSUME NEW v \in Walkers
               PROVE  /\ link'[v].since = Nobody
                      /\ page[v] = NoPage => seen[v] = {}
                      /\ \A f \in seen[v] : Settled(f)
                      /\ link'[v].max # Nobody =>
                           /\ state[link'[v].max] \in {"committed", "deleted"}
                           /\ \A f \in seen[v] : cursor[link'[v].max] < cursor[f]
    BY <1>2 DEF Walking, Settled
  <2>1. CASE v = w
    BY <1>4, <1>5, <1>9, <2>1
  <2>2. CASE v # w
    BY <1>8, <2>2 DEF Read, Walking, Settled
  <2> QED
    BY <2>1, <2>2
<1>11. Owed'
  <2> SUFFICES ASSUME NEW v \in Walkers, NEW f \in due'[v]
               PROVE  /\ f \in Matching[v] /\ Settled(f)
                      /\ \/ f \in seen[v] \/ state[f] = "deleted"
                         \/ /\ link'[v].max # Nobody
                            /\ cursor[f] <= cursor[link'[v].max]
    BY <1>2 DEF Owed, Settled
  <2>1. CASE v = w
    BY <1>5, <1>9, <2>1 DEF Settled
  <2>2. CASE v # w
    BY <1>8, <2>2 DEF Read, Owed
  <2> QED
    BY <2>1, <2>2
<1> QED
  BY <1>7, <1>10, <1>11 DEF Read

LEMMA WalkRead ==
  ASSUME IInv, Read, NEW w \in Walkers, Walk(w)
  PROVE  /\ Read'
         /\ page'[w] # page[w] => page'[w].collection \cap seen[w] = {}
<1> DEFINE answer == Answer(w, link[w])
           shown == answer.collection
           here == link[w].max
           prev == answer.prev
<1>1. /\ w \in Clients /\ w \notin Pollers /\ Pollers \subseteq Clients
      /\ Walkers \subseteq Clients
  BY ClientsAssumption DEF Clients
<1>2. /\ UNCHANGED <<cursor, state, due>>
      /\ \A d \in Clients : d # w => /\ link'[d] = link[d] /\ seen'[d] = seen[d]
                                    /\ page'[d] = page[d]
      /\ \/ UNCHANGED <<link, seen, page>>
         \/ /\ seen'[w] = seen[w] \cup shown
            /\ link'[w] = prev
            /\ page'[w] = answer
  BY <1>1, GetRead DEF Walk
<1>3. here # Nobody
  BY DEF Walk
<1>4. /\ prev.since = Nobody /\ answer.self.max = here
      /\ \A e \in shown : e \in Visible(w) /\ cursor[e] <= cursor[here]
      /\ prev.max # Nobody =>
           /\ prev.max \in Visible(w) /\ cursor[prev.max] <= cursor[here]
           /\ \A e \in shown : cursor[prev.max] < cursor[e]
      /\ \A e \in Visible(w) :
           cursor[e] <= cursor[here] =>
             e \in shown \/ (prev.max # Nobody /\ cursor[e] <= cursor[prev.max])
  BY <1>3, WalkPage
<1>5. /\ \A e \in seen[w] : e \in Events /\ Settled(e) /\ cursor[here] < cursor[e]
      /\ here \in Events
  BY <1>1, <1>3 DEF Read, Walking, IInv, TypeOK, Link
<1>6. /\ cursor \in [Events -> Nat] /\ Visible(w) \in SUBSET Events
      /\ \A e \in Visible(w) : Settled(e)
      /\ \A e \in Events : e \in Matching[w] /\ Settled(e) /\ state[e] # "deleted"
                           => e \in Visible(w)
  BY <1>1, ClientsAssumption DEF IInv, TypeOK, Visible, Settled
<1>7. answer # NoPage
  BY <1>3, <1>4 DEF NoPage, NoParameters
<1> HIDE DEF answer, here, prev
<1>8. \A e \in Events : cursor[e] \in Nat
  BY <1>6
<1>9. shown \cap seen[w] = {}
  <2> SUFFICES ASSUME NEW e \in shown, e \in seen[w] PROVE FALSE
    OBVIOUS
  <2>1. cursor[e] \in Nat /\ cursor[here] \in Nat
        /\ cursor[e] <= cursor[here] /\ cursor[here] < cursor[e]
    BY <1>4, <1>5, <1>8
  <2> QED
    BY <2>1
<1>10. \A p \in Pollers : link'[p] = link[p] /\ seen'[p] = seen[p]
  BY <1>1, <1>2
<1>11. Behind'
  BY <1>2, <1>10 DEF Read, Behind, Place, Settled
<1>12. CASE UNCHANGED <<link, seen, page>>
  BY <1>2, <1>11, <1>12 DEF Read, Walking, Owed, Settled
<1>13. CASE /\ seen'[w] = seen[w] \cup shown
            /\ link'[w] = prev
            /\ page'[w] = answer
  <2>1. Walking'
    <3> SUFFICES ASSUME NEW v \in Walkers
                 PROVE  /\ link'[v].since = Nobody
                        /\ page'[v] = NoPage => seen'[v] = {}
                        /\ \A f \in seen'[v] : Settled(f)
                        /\ link'[v].max # Nobody =>
                             /\ state[link'[v].max] \in {"committed", "deleted"}
                             /\ \A f \in seen'[v] : cursor[link'[v].max] < cursor[f]
      BY <1>2 DEF Walking, Settled
    <3>1. CASE v # w
      BY <1>1, <1>2, <3>1 DEF Read, Walking, Settled
    <3>2. CASE v = w
      <4>1. \A f \in seen'[w] : Settled(f)
        BY <1>4, <1>5, <1>6, <1>13
      <4>2. ASSUME prev.max # Nobody, NEW f \in seen[w]
            PROVE  cursor[prev.max] < cursor[f]
        <5>1. /\ cursor[prev.max] <= cursor[here] /\ cursor[here] < cursor[f]
              /\ cursor[prev.max] \in Nat /\ cursor[here] \in Nat /\ cursor[f] \in Nat
          BY <1>4, <1>5, <1>6, <1>8, <4>2
        <5> QED
          BY <5>1
      <4>3. ASSUME prev.max # Nobody
            PROVE  /\ state[prev.max] \in {"committed", "deleted"}
                   /\ \A f \in seen'[w] : cursor[prev.max] < cursor[f]
        BY <1>4, <1>6, <1>13, <4>2, <4>3 DEF Settled
      <4> QED
        BY <1>4, <1>7, <1>13, <3>2, <4>1, <4>3
    <3> QED
      BY <3>1, <3>2
  <2>2. Owed'
    <3> SUFFICES ASSUME NEW v \in Walkers, NEW f \in due[v]
                 PROVE  /\ f \in Matching[v] /\ Settled(f)
                        /\ \/ f \in seen'[v] \/ state[f] = "deleted"
                           \/ /\ link'[v].max # Nobody
                              /\ cursor[f] <= cursor[link'[v].max]
      BY <1>2 DEF Owed, Settled
    <3>1. CASE v # w
      BY <1>1, <1>2, <3>1 DEF Read, Owed
    <3>2. CASE v = w
      <4>1. /\ f \in Events /\ f \in Matching[w] /\ Settled(f)
            /\ \/ f \in seen[w] \/ state[f] = "deleted" \/ cursor[f] <= cursor[here]
        BY <3>2 DEF Read, Owed, here, IInv, TypeOK
      <4> QED
        BY <1>4, <1>6, <1>13, <3>2, <4>1
    <3> QED
      BY <3>1, <3>2
  <2> QED
    BY <1>9, <1>11, <1>13, <2>1, <2>2 DEF Read
<1> QED
  BY <1>2, <1>9, <1>12, <1>13

LEMMA NextRead == IInv /\ Read /\ [Next]_vars => Read'
<1> SUFFICES ASSUME IInv, Read, [Next]_vars PROVE Read'
  OBVIOUS
<1>1. CASE UNCHANGED vars
  BY <1>1 DEF vars, Read, Behind, Walking, Owed, Settled, Place
<1> QED
  BY <1>1, WriteRead, PollRead, SetOutRead, WalkRead DEF Next

(* A walker that has come to the start has read all that it set out to,    *)
(* but what was deleted before: the page that ends a walk shows all rows.  *)
THEOREM WalksAreComplete == Spec => []WalkComplete
<1>1. IInv /\ Read => WalkComplete
  BY DEF Read, Owed, WalkComplete
<1> QED
  BY <1>1, InitInv, InitRead, NextInv, NextRead, PTL DEF Spec

(* No page has an event that its reader has had before: the event that a   *)
(* link names is not returned again, and no two events share a cursor.     *)
THEOREM PagesAreDisjoint == Spec => PagesDisjoint
<1>1. ASSUME IInv, Read, [Next]_vars, NEW c \in Clients, page'[c] # page[c]
      PROVE  page'[c].collection \cap seen[c] = {}
  <2>1. ASSUME NEW e \in Events, Flush(e) \/ Commit(e) \/ RollBack(e) \/ Delete(e)
        PROVE  FALSE
    BY <1>1, <2>1 DEF Flush, Commit, RollBack, Delete, clients
  <2>2. ASSUME NEW p \in Pollers, Poll(p)
        PROVE  page'[c].collection \cap seen[c] = {}
    <3>1. c = p
      BY <1>1, <2>2, GetRead DEF Poll, Clients
    <3> QED
      BY <1>1, <2>2, <3>1, PollRead
  <2>3. ASSUME NEW w \in Walkers, SetOut(w) PROVE FALSE
    BY <1>1, <2>3 DEF SetOut
  <2>4. ASSUME NEW w \in Walkers, Walk(w)
        PROVE  page'[c].collection \cap seen[c] = {}
    <3>1. c = w
      BY <1>1, <2>4, GetRead DEF Walk, Clients
    <3> QED
      BY <1>1, <2>4, <3>1, WalkRead
  <2>5. CASE UNCHANGED vars
    BY <1>1, <2>5 DEF vars
  <2> QED
    BY <1>1, <2>1, <2>2, <2>3, <2>4, <2>5 DEF Next
<1>2. IInv /\ Read /\ [Next]_vars =>
        [\A c \in Clients :
           page'[c] # page[c] => page'[c].collection \cap seen[c] = {}]_vars
  BY <1>1
<1> QED
  BY <1>2, InitInv, InitRead, NextInv, NextRead, PTL DEF Spec, PagesDisjoint

-----------------------------------------------------------------------------
(* Inserts that do not overlap.                                            *)

(* The insert under way has the newest cursor, and none came late. *)
Serial ==
  /\ \A e \in Events : state[e] = "flushed" => cursor[e] = event_cursor_seq
  /\ \A e \in Events : late[e] = {}

(* No poller can be past the newest cursor before it is committed. *)
LEMMA CommitInOrder ==
  ASSUME IInv, Serial, NEW e \in Events, state[e] = "flushed",
         NEW p \in Pollers
  PROVE  ~ (cursor[e] <= Place(p))
<1>1. cursor \in [Events -> Nat] /\ event_cursor_seq \in Nat
  BY DEF IInv, TypeOK
<1>2. CASE link[p].since = Nobody
  BY <1>1, <1>2 DEF IInv, Numbered, Place
<1>3. CASE link[p].since # Nobody
  <2> DEFINE f == link[p].since
  <2>1. f \in Events /\ state[f] \in {"committed", "deleted"}
    BY <1>3, PlaceIsEvent DEF IInv, Placed
  <2> HIDE DEF f
  <2>2. cursor[f] # cursor[e]
    BY <2>1 DEF IInv, Numbered
  <2>3. cursor[f] <= cursor[e]
    BY <2>1 DEF IInv, Numbered, Serial
  <2>4. Place(p) = cursor[f]
    BY <1>3 DEF Place, f
  <2>5. cursor[e] \in Nat /\ cursor[f] \in Nat
    BY <1>1, <2>1
  <2> QED
    BY <2>2, <2>3, <2>4, <2>5
<1> QED
  BY <1>2, <1>3

LEMMA NextSerial ==
  ASSUME OneWriterAtATime, IInv, Serial, [Next]_vars
  PROVE  Serial'
<1>1. /\ cursor \in [Events -> Nat] /\ event_cursor_seq \in Nat
      /\ state \in [Events -> {"new", "flushed", "committed", "rolled back",
                               "deleted"}]
      /\ late \in [Events -> SUBSET Pollers]
  BY DEF IInv, TypeOK
<1>2. ASSUME NEW e \in Events, Flush(e) PROVE Serial'
  <2>1. /\ \A f \in Events : state[f] # "flushed"
        /\ event_cursor_seq' = event_cursor_seq + 1
        /\ cursor' = [cursor EXCEPT ![e] = event_cursor_seq + 1]
        /\ state' = [state EXCEPT ![e] = "flushed"]
        /\ late' = late
    BY <1>2 DEF Flush
  <2> QED
    BY <1>1, <2>1 DEF Serial
<1>3. ASSUME NEW e \in Events, Commit(e) PROVE Serial'
  <2>1. /\ state[e] = "flushed"
        /\ state' = [state EXCEPT ![e] = "committed"]
        /\ late' = [late EXCEPT ![e] = {p \in Pollers : cursor[e] <= Place(p)}]
        /\ UNCHANGED <<event_cursor_seq, cursor>>
    BY <1>3 DEF Commit
  <2>2. {p \in Pollers : cursor[e] <= Place(p)} = {}
    BY <2>1, CommitInOrder
  <2>3. \A f \in Events : late'[f] = {}
    BY <1>1, <2>1, <2>2 DEF Serial
  <2>4. \A f \in Events : state'[f] = "flushed" => cursor[f] = event_cursor_seq
    BY <1>1, <2>1 DEF Serial
  <2> QED
    BY <2>1, <2>3, <2>4 DEF Serial
<1>4. ASSUME NEW e \in Events, RollBack(e) \/ Delete(e) PROVE Serial'
  BY <1>1, <1>4 DEF RollBack, Delete, Serial
<1>5. ASSUME NEW p \in Pollers, Poll(p) PROVE Serial'
  BY <1>5 DEF Poll, Get, feed, Serial
<1>6. ASSUME NEW w \in Walkers, SetOut(w) \/ Walk(w) PROVE Serial'
  BY <1>6 DEF SetOut, Walk, Get, feed, Serial
<1>7. CASE UNCHANGED vars
  BY <1>7 DEF vars, Serial
<1> QED
  BY <1>2, <1>3, <1>4, <1>5, <1>6, <1>7 DEF Next

(* If inserts do not overlap, a poller that follows the "next" links gets  *)
(* all events since any event, as the documentation of since_id has it.    *)
THEOREM SerialMissesNothing ==
  ASSUME OneWriterAtATime
  PROVE  Spec => []NothingMissed
<1>1. Init => Serial
  BY DEF Init, Serial
<1>2. IInv /\ Serial /\ [Next]_vars => (IInv /\ Serial)'
  BY NextInv, NextSerial
<1>3. IInv /\ Serial => NothingMissed
  <2> SUFFICES ASSUME IInv, Serial, NEW p \in Pollers, NEW e \in Visible(p),
                      cursor[e] <= Place(p)
               PROVE  e \in seen[p]
    BY DEF NothingMissed
  <2>1. e \in Events
    BY ClientsAssumption DEF Visible, Clients
  <2> QED
    BY <2>1 DEF IInv, OnlyLateMissed, Serial
<1> QED
  BY <1>1, <1>2, <1>3, InitInv, PTL DEF Spec
=============================================================================
