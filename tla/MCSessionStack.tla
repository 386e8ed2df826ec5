--------------------------- MODULE MCSessionStack ---------------------------
(* SessionStack for TLC: a worker process with two threads, and two        *)
(* profiles, so that one request's session can be told from another's.     *)
EXTENDS SessionStack
=============================================================================
