----------------------------- MODULE Supervision ----------------------------
(***************************************************************************)
(* What the monitor promises of the service: a worker that has failed is   *)
(* replaced, until the service is stopped; then it never comes back.  It   *)
(* cannot come up on a configuration that is not accepted.                 *)
(***************************************************************************)
VARIABLES
  service,       \* "down", "up" or "stopped"
  broken         \* the file on disk is one that is not accepted

vars == <<service, broken>>

Init == service = "down" /\ broken \in BOOLEAN

Start == service = "down" /\ ~broken /\ service' = "up" /\ UNCHANGED broken
Fail  == service = "up" /\ service' = "down" /\ UNCHANGED broken
Stop  == service \in {"down", "up"} /\ service' = "stopped" /\ UNCHANGED broken
Edit  == broken' = ~broken /\ UNCHANGED service

Next == Start \/ Fail \/ Stop \/ Edit

Spec == Init /\ [][Next]_vars

(* A service does not stay down: it comes up, or is stopped.               *)
FairSpec == Spec /\ WF_vars(service = "down" /\ ~broken /\ (Start \/ Stop))
=============================================================================
