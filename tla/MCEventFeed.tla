----------------------------- MODULE MCEventFeed ------------------------------
(* EventFeed for TLC: pages of two, and clients that may get every event.  *)
(* To a client an event that it may not get is one that is never there,    *)
(* as one that was rolled back is.                                         *)
EXTENDS EventFeed

MCMatching == [c \in Clients |-> Events]
=============================================================================
