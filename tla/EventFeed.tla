------------------------------ MODULE EventFeed -------------------------------
(***************************************************************************)
(* The feed of apis/event: Events.post gives an event its cursor from a    *)
(* sequence, Events.get pages through the events by cursor, and clients    *)
(* follow the links of the pages: pollers "next", for what has happened    *)
(* since, and walkers "prev", back to what happened before.                *)
(*                                                                         *)
(* The sequence is not part of the transaction: an insert takes the next   *)
(* number when it is flushed and others see the event when it is           *)
(* committed, so events need not appear in the order of their cursors, and *)
(* an insert that is rolled back leaves a gap.                             *)
(*                                                                         *)
(* A page is a set of events: they are listed by cursor, which no two      *)
(* share.  What a client reads is what its filter matches and what its     *)
(* groups may read (PermissionedQuery), here Matching[c].                  *)
(***************************************************************************)
EXTENDS Naturals, FiniteSets

CONSTANTS
  Events,            (* the events there may come to be: a bound           *)
  Pollers, Walkers,  (* the clients                                        *)
  Matching,          (* Matching[c]: the events that client c may get      *)
  ResultsPerPage,
  OneWriterAtATime,  (* TRUE: inserts do not overlap                       *)
  Nobody             (* no event                                           *)

Clients == Pollers \cup Walkers

ASSUME EventsAssumption == IsFiniteSet(Events) /\ Nobody \notin Events
ASSUME ClientsAssumption ==
  Pollers \cap Walkers = {} /\ Matching \in [Clients -> SUBSET Events]
ASSUME PageAssumption == ResultsPerPage \in Nat \ {0}

(* The query of a link: since_id and max_id. *)
Link == [since : Events \cup {Nobody}, max : Events \cup {Nobody}]
Page == [collection : SUBSET Events, self : Link, next : Link, prev : Link]

NoParameters == [since |-> Nobody, max |-> Nobody]
NoPage == [collection |-> {}, self |-> NoParameters,
           next |-> NoParameters, prev |-> NoParameters]

VARIABLES
  event_cursor_seq,  (* the last number taken                              *)
  cursor,            (* cursor[e]: its number, or 0                        *)
  state,             (* state[e]: "new", "flushed", "committed", ...       *)
  link,              (* link[c]: the link c follows next                   *)
  page,              (* page[c]: the last page it got                      *)
  seen,              (* seen[c]: the events it has got                     *)
  refused,           (* refused[c]: its last request was answered 409      *)
  late,              (* history: late[e], the pollers that were already    *)
                     (* past the cursor of e when it was committed         *)
  due                (* history: due[w], what walker w set out to read     *)

feed == <<event_cursor_seq, cursor, state>>
clients == <<link, page, seen, refused>>
vars == <<event_cursor_seq, cursor, state, link, page, seen, refused, late, due>>

Init ==
  /\ event_cursor_seq = 0
  /\ cursor = [e \in Events |-> 0]
  /\ state = [e \in Events |-> "new"]
  /\ link = [c \in Clients |-> NoParameters]
  /\ page = [c \in Clients |-> NoPage]
  /\ seen = [c \in Clients |-> {}]
  /\ refused = [c \in Clients |-> FALSE]
  /\ late = [e \in Events |-> {}]
  /\ due = [w \in Walkers |-> {}]

-----------------------------------------------------------------------------
(* Writing.                                                                *)

(* Events.post, generic_insert: the flush of the new Event. *)
Flush(e) ==
  /\ state[e] = "new"
  /\ OneWriterAtATime => \A f \in Events : state[f] # "flushed"
  /\ event_cursor_seq' = event_cursor_seq + 1
  /\ cursor' = [cursor EXCEPT ![e] = event_cursor_seq + 1]
  /\ state' = [state EXCEPT ![e] = "flushed"]
  /\ UNCHANGED <<clients, late, due>>

(* The poller's place in the feed: it asks for what comes after. *)
Place(p) == IF link[p].since = Nobody THEN 0 ELSE cursor[link[p].since]

(* generic_insert: db.session.commit() *)
Commit(e) ==
  /\ state[e] = "flushed"
  /\ state' = [state EXCEPT ![e] = "committed"]
  /\ late' = [late EXCEPT ![e] = {p \in Pollers : cursor[e] <= Place(p)}]
  /\ UNCHANGED <<event_cursor_seq, cursor, clients, due>>

(* The request fails before its commit, or the worker dies. *)
RollBack(e) ==
  /\ state[e] = "flushed"
  /\ state' = [state EXCEPT ![e] = "rolled back"]
  /\ UNCHANGED <<event_cursor_seq, cursor, clients, late, due>>

(* Event.delete *)
Delete(e) ==
  /\ state[e] = "committed"
  /\ state' = [state EXCEPT ![e] = "deleted"]
  /\ UNCHANGED <<event_cursor_seq, cursor, clients, late, due>>

-----------------------------------------------------------------------------
(* Reading: Events.get.                                                    *)

Visible(c) == {e \in Matching[c] : state[e] = "committed"}

(* ORDER BY cursor LIMIT n, ascending and descending. *)
First(S, n) ==
  {e \in S : Cardinality({f \in S : cursor[f] < cursor[e]}) < n}
Last(S, n) ==
  {e \in S : Cardinality({f \in S : cursor[f] > cursor[e]}) < n}

Oldest(S) == CHOOSE e \in S : \A f \in S : cursor[e] <= cursor[f]
Newest(S) == CHOOSE e \in S : \A f \in S : cursor[e] >= cursor[f]

(* Definitions headed "Fault:" are mistaken variants of the one that       *)
(* follows them, for the exercises of the README.                          *)

(* Fault: the event that since_id names is returned again. *)
RowsFromSince(c, l) ==
  {e \in Visible(c) :
     /\ l.since # Nobody => cursor[e] >= cursor[l.since]
     /\ l.since = Nobody /\ l.max # Nobody => cursor[e] <= cursor[l.max]}

(* Fault: the event that max_id names is left out. *)
RowsBeforeMax(c, l) ==
  {e \in Visible(c) :
     /\ l.since # Nobody => cursor[e] > cursor[l.since]
     /\ l.since = Nobody /\ l.max # Nobody => cursor[e] < cursor[l.max]}

(* The query of a request for link l, before its limit. *)
Rows(c, l) ==
  {e \in Visible(c) :
     /\ l.since # Nobody => cursor[e] > cursor[l.since]
     /\ l.since = Nobody /\ l.max # Nobody => cursor[e] <= cursor[l.max]}

Backwards(l) == l.since = Nobody /\ l.max # Nobody

(* Fault: the newest come first whichever way the page goes. *)
ObjsNewestFirst(c, l) ==
  IF Backwards(l) THEN Last(Rows(c, l), ResultsPerPage + 1)
  ELSE Last(Rows(c, l), ResultsPerPage)

(* What the limit leaves: for a page backwards, one more than it shows. *)
Objs(c, l) ==
  IF Backwards(l) THEN Last(Rows(c, l), ResultsPerPage + 1)
  ELSE First(Rows(c, l), ResultsPerPage)

More(c, l) ==
  Backwards(l) /\ Cardinality(Objs(c, l)) = ResultsPerPage + 1

(* Fault: the links name cursors, not events. *)
AnswerWithCursors(c, l) ==
  LET objs == Objs(c, l)
      since == IF More(c, l) THEN Oldest(objs) ELSE l.since
      shown == IF More(c, l) THEN objs \ {Oldest(objs)} ELSE objs
  IN  [collection |-> shown,
       self |-> [since |-> since, max |-> l.max],
       next |-> [since |-> IF shown # {} THEN cursor[Newest(shown)] ELSE since,
                 max |-> Nobody],
       prev |-> [since |-> Nobody, max |-> since]]

(* Fault: "next" goes on from where this page began. *)
AnswerNotAdvancing(c, l) ==
  LET objs == Objs(c, l)
      since == IF More(c, l) THEN Oldest(objs) ELSE l.since
      shown == IF More(c, l) THEN objs \ {Oldest(objs)} ELSE objs
  IN  [collection |-> shown,
       self |-> [since |-> since, max |-> l.max],
       next |-> [since |-> since, max |-> Nobody],
       prev |-> [since |-> Nobody, max |-> since]]

(* The dict that is rendered: collection and links. *)
Answer(c, l) ==
  LET objs == Objs(c, l)
      since == IF More(c, l) THEN Oldest(objs) ELSE l.since
      shown == IF More(c, l) THEN objs \ {Oldest(objs)} ELSE objs
  IN  [collection |-> shown,
       self |-> [since |-> since, max |-> l.max],
       next |-> [since |-> IF shown # {} THEN Newest(shown) ELSE since,
                 max |-> Nobody],
       prev |-> [since |-> Nobody, max |-> since]]

(* first_or_abort(..., 409): the event the link names has to be there. *)
Found(c, l) == \A e \in {l.since, l.max} \ {Nobody} : e \in Visible(c)

(* Client c's request for its link, and what it does with the answer: it   *)
(* keeps the events and goes on with one of the page's links, its rel.     *)
Get(c, rel) ==
  /\ refused' = [refused EXCEPT ![c] = ~Found(c, link[c])]
  /\ IF Found(c, link[c])
       THEN LET answer == Answer(c, link[c])
            IN  /\ page' = [page EXCEPT ![c] = answer]
                /\ seen' = [seen EXCEPT ![c] = @ \cup answer.collection]
                /\ link' = [link EXCEPT ![c] = answer[rel]]
       ELSE UNCHANGED <<page, seen, link>>
  /\ UNCHANGED <<feed, late, due>>

Poll(p) == Get(p, "next")

(* A walker takes an event it knows of for its max_id. *)
SetOut(w) ==
  /\ link[w] = NoParameters /\ page[w] = NoPage
  /\ \E e \in Visible(w) :
       /\ link' = [link EXCEPT ![w] = [since |-> Nobody, max |-> e]]
       /\ due' = [due EXCEPT ![w] =
                    {f \in Visible(w) : cursor[f] <= cursor[e]}]
  /\ UNCHANGED <<feed, page, seen, refused, late>>

Walk(w) == link[w].max # Nobody /\ Get(w, "prev")

Next ==
  \/ \E e \in Events : Flush(e) \/ Commit(e) \/ RollBack(e) \/ Delete(e)
  \/ \E p \in Pollers : Poll(p)
  \/ \E w \in Walkers : SetOut(w) \/ Walk(w)

Spec == Init /\ [][Next]_vars

(* An insert that is flushed is committed or rolled back; pollers poll.    *)
Fairness ==
  /\ \A e \in Events : WF_vars(Commit(e) \/ RollBack(e))
  /\ \A p \in Pollers : WF_vars(Poll(p))
FairSpec == Spec /\ Fairness

-----------------------------------------------------------------------------
TypeOK ==
  /\ event_cursor_seq \in Nat
  /\ cursor \in [Events -> Nat]
  /\ state \in [Events -> {"new", "flushed", "committed", "rolled back",
                           "deleted"}]
  /\ link \in [Clients -> Link]
  /\ page \in [Clients -> Page]
  /\ seen \in [Clients -> SUBSET Events]
  /\ refused \in [Clients -> BOOLEAN]
  /\ late \in [Events -> SUBSET Pollers]
  /\ due \in [Walkers -> SUBSET Events]

(* No page repeats an event: what a client reads next, forwards or         *)
(* backwards, it has not read before, whatever is written in between.      *)
PagesDisjoint ==
  [][\A c \in Clients :
       page'[c] # page[c] => page'[c].collection \cap seen[c] = {}]_vars

(* A poller has got every event up to its place in the feed, but for those *)
(* that were committed when it was already past them: a limit, a gap in    *)
(* the cursors or a filter makes it miss nothing.                          *)
OnlyLateMissed ==
  \A p \in Pollers : \A e \in Visible(p) :
    cursor[e] <= Place(p) => e \in seen[p] \/ p \in late[e]

(* A poller has got every event up to its place in the feed: since_id is   *)
(* "get all events since this event".                                      *)
NothingMissed ==
  \A p \in Pollers : \A e \in Visible(p) :
    cursor[e] <= Place(p) => e \in seen[p]

(* A walker that has come to the start has got all that it set out to      *)
(* read, except for what was deleted before it came there.                 *)
WalkComplete ==
  \A w \in Walkers :
    link[w].max = Nobody =>
      \A e \in due[w] : e \in seen[w] \/ state[e] = "deleted"

(* Every event that is committed reaches every poller it matches, unless   *)
(* it is deleted, was committed late, or the poller is told, by a 409,     *)
(* that it lost its place.                                                 *)
EventsArrive ==
  \A p \in Pollers : \A e \in Matching[p] :
    state[e] = "committed" ~>
      \/ e \in seen[p] \/ state[e] = "deleted"
      \/ p \in late[e] \/ refused[p]
=============================================================================
