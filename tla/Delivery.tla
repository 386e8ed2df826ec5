------------------------------ MODULE Delivery --------------------------------
(***************************************************************************)
(* What the push of events promises: an event is pushed once at most, and  *)
(* only after its commit; the push tells each app that listens when it     *)
(* starts, each once at most; it has told them all when it is over, unless *)
(* it is abandoned.                                                        *)
(***************************************************************************)
CONSTANTS
  Events, Apps,
  Heard            (* the events of a type that the apps listen for        *)

VARIABLES
  listening,       (* the apps that listen                                 *)
  status,          (* status[e]: how far the push of e has come            *)
  left             (* left[e]: the apps it has still to tell               *)

vars == <<listening, status, left>>

Init ==
  /\ listening \in SUBSET Apps
  /\ status = [e \in Events |-> "none"]
  /\ left = [e \in Events |-> {}]

Listen(a) ==
  /\ listening' = listening \cup {a}
  /\ UNCHANGED <<status, left>>

Move(e, from, to) ==
  /\ status[e] = from
  /\ status' = [status EXCEPT ![e] = to]

Commit(e) == Move(e, "none", "committed") /\ UNCHANGED <<listening, left>>

Push(e) ==
  /\ Move(e, "committed", "pushing")
  /\ left' = [left EXCEPT ![e] = IF e \in Heard THEN listening ELSE {}]
  /\ UNCHANGED listening

Tell(e, a) ==
  /\ status[e] = "pushing" /\ a \in left[e]
  /\ left' = [left EXCEPT ![e] = @ \ {a}]
  /\ UNCHANGED <<listening, status>>

Deliver(e) ==
  /\ left[e] = {}
  /\ Move(e, "pushing", "delivered")
  /\ UNCHANGED <<listening, left>>

Abandon(e) ==
  /\ \/ Move(e, "committed", "abandoned")
     \/ Move(e, "pushing", "abandoned")
  /\ UNCHANGED <<listening, left>>

Next ==
  \/ \E a \in Apps : Listen(a)
  \/ \E e \in Events : \/ Commit(e) \/ Push(e) \/ Deliver(e) \/ Abandon(e)
                       \/ \E a \in Apps : Tell(e, a)

Spec == Init /\ [][Next]_vars
=============================================================================
