----------------------------- MODULE RangeSearch ----------------------------
(***************************************************************************)
(* QueryForwardSerialRangeTreeNode: the walk down the serial-range tree.   *)
(*                                                                         *)
(* In-order, the nodes of the tree are the groups 1..n; the subtree still  *)
(* to be searched is a run lo..hi of them, and its root may be any of them:*)
(* choosing it freely at every step covers every shape the red-black tree  *)
(* can take.                                                               *)
(***************************************************************************)
EXTENDS SerialRanges

CONSTANTS Weights    \* the weight tables to search: non-empty sequences

ASSUME WeightsAssumption ==
  \A w \in Weights : w \in Seq(Nat \ {0}) /\ w # <<>>

NULL == 0

VARIABLES
  power, begin, total,   \* the weight table
  serial,                \* the serial number looked for: a hash modulo total
  lo, hi,                \* the subtree p_node stands for; empty when lo > hi
  answer,                \* the group returned, or NULL
  returned               \* whether the function has returned

table == <<power, begin, total, serial>>
vars  == <<table, lo, hi, answer, returned>>

Init ==
  /\ power \in Weights
  /\ begin = BeginsOf(power) /\ total = TotalOf(power)
  /\ serial \in 0..total - 1
  /\ lo = 1 /\ hi = Len(power)
  /\ answer = NULL /\ returned = FALSE

(* Mutants: the number equal to a begin is looked for on the left; a right *)
(* child is skipped; the node is visited again; the begin is not tested.   *)
GoLeftAtBegin(r) ==
  /\ serial <= begin[r]
  /\ hi' = r - 1 /\ UNCHANGED <<lo, answer, returned>>

GoRightTwice(r) ==
  /\ ~Below(begin, r, serial) /\ Above(begin, power, r, serial)
  /\ lo' = r + 2 /\ UNCHANGED <<hi, answer, returned>>

GoRightNowhere(r) ==
  /\ ~Below(begin, r, serial) /\ Above(begin, power, r, serial)
  /\ UNCHANGED <<lo, hi, answer, returned>>

ReturnBelowEnd(r) ==
  /\ ~Above(begin, power, r, serial)
  /\ answer' = r /\ returned' = TRUE /\ UNCHANGED <<lo, hi>>

(* One turn of the loop at a root r of the subtree.                        *)
GoLeft(r) ==
  /\ Below(begin, r, serial)
  /\ hi' = r - 1 /\ UNCHANGED <<lo, answer, returned>>

GoRight(r) ==
  /\ ~Below(begin, r, serial) /\ Above(begin, power, r, serial)
  /\ lo' = r + 1 /\ UNCHANGED <<hi, answer, returned>>

ReturnNode(r) ==
  /\ ~Below(begin, r, serial) /\ ~Above(begin, power, r, serial)
  /\ answer' = r /\ returned' = TRUE /\ UNCHANGED <<lo, hi>>

Visit ==
  /\ ~returned
  /\ \E r \in lo..hi : GoLeft(r) \/ GoRight(r) \/ ReturnNode(r)
  /\ UNCHANGED table

(* p_node has become NULL.                                                 *)
ReturnNull ==
  /\ ~returned /\ lo > hi
  /\ answer' = NULL /\ returned' = TRUE
  /\ UNCHANGED <<table, lo, hi>>

Next == Visit \/ ReturnNull

Spec == Init /\ [][Next]_vars
FairSpec == Spec /\ WF_vars(Next)
-----------------------------------------------------------------------------
TypeOK ==
  /\ power \in Weights
  /\ begin = BeginsOf(power) /\ total = TotalOf(power)
  /\ serial \in 0..total - 1
  /\ lo \in 1..Len(power) + 1 /\ hi \in 0..Len(power)
  /\ answer \in 0..Len(power)
  /\ returned \in BOOLEAN

(* The int accumulator held the sum: what ForwardRules shows of the tables *)
(* of the worker.                                                          *)
Sound == Tiles(begin, power, total) /\ total < LongMod

(* The walk discards only nodes that cannot hold the number: the group that*)
(* holds it stays in the subtree (rbtree_ins.c:29-32).                     *)
HolderInSubtree ==
  Sound => \A k \in Holders(begin, power, serial) : ~returned => k \in lo..hi

(* On a sound table the walk returns the group that holds the serial number*)
(* and never NULL, whatever the shape of the tree (rbtree_ins.c:20-38,     *)
(* app.c:378-380).                                                         *)
FindsHolder == Sound /\ returned => answer \in Holders(begin, power, serial)

(* The walk ends whatever the table, one whose begins wrapped around and   *)
(* lost their order included: the worker has no other thread to fall back  *)
(* on.  What it returns then may be NULL.                                  *)
Returns == <>returned
=============================================================================
