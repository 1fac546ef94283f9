---------------------------- MODULE StickyRouting ---------------------------
(***************************************************************************)
(* What mysqlda promises about routing, seen by its clients: the first     *)
(* answer for a key fixes its target, and every later answer is the same.  *)
(* route[k] is the set of targets key k has ever been sent to.             *)
(***************************************************************************)
CONSTANTS Keys, Targets

VARIABLE route

Init == route = [k \in Keys |-> {}]

Answer(k, t) ==
  /\ route[k] \subseteq {t}
  /\ route' = [route EXCEPT ![k] = {t}]

Next == \E k \in Keys, t \in Targets : Answer(k, t)

Spec == Init /\ [][Next]_route

(* No key has two targets.                                                 *)
AtMostOneTarget == \A k \in Keys : \A s, t \in route[k] : s = t
=============================================================================
