---------------------------- MODULE MCRangeSearch ---------------------------
(***************************************************************************)
(* Every weight table of at most four groups with weights up to four.      *)
(***************************************************************************)
EXTENDS RangeSearch

CONSTANTS MaxGroups, MaxWeight

SmallWeights == UNION {[1..n -> 1..MaxWeight] : n \in 1..MaxGroups}
=============================================================================
