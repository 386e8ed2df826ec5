----------------------------- MODULE MCEventPush ------------------------------
(* EventPush for TLC: the Slack app and another app are installed, with    *)
(* enough workers and one trouble, and with too few and any number; or a   *)
(* second Slack app, with enough workers and two troubles.                 *)
EXTENDS EventPush, TLC

CONSTANTS r1, r2

Setting(auth, event, second, there, most) ==
  [pool |-> [s \in Services |-> IF s = "auth" THEN auth
                               ELSE IF s = "event" THEN event ELSE 1],
   slug |-> [r \in Installs |-> IF r = r1 THEN "slack" ELSE second],
   there |-> there,
   troubles |-> most]

(* More calls than one request makes. *)
Plenty == 20

MCSettings ==
  {Setting(5, 3, "calendar", {}, 1), Setting(1, 1, "other", {}, Plenty),
   Setting(3, 2, "slack", {r2}, 2)}
=============================================================================
