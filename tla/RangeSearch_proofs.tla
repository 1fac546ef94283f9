------------------------- MODULE RangeSearch_proofs -------------------------
(***************************************************************************)
(* The walk of QueryForwardSerialRangeTreeNode returns the one group that  *)
(* holds a serial number, for weight tables of any size and trees of any   *)
(* shape.                                                                  *)
(***************************************************************************)
EXTENDS RangeSearch, SerialRanges_proofs

(* Every variable keeps its type.                                          *)
THEOREM TypeCorrect == Spec => []TypeOK
PROOF
<1>1. Init => TypeOK
  <2> SUFFICES ASSUME Init PROVE TypeOK OBVIOUS
  <2>1. power \in Weights /\ Len(power) \in Nat BY WeightsAssumption DEF Init
  <2>2. lo \in 1..Len(power) + 1 /\ hi \in 0..Len(power) /\ answer \in 0..Len(power)
    BY <2>1 DEF Init, NULL
  <2> QED BY <2>1, <2>2 DEF Init, TypeOK
<1>2. TypeOK /\ [Next]_vars => TypeOK'
  <2> SUFFICES ASSUME TypeOK, [Next]_vars PROVE TypeOK' OBVIOUS
  <2>1. Len(power) \in Nat BY WeightsAssumption DEF TypeOK
  <2>2. CASE Visit
    <3>1. PICK r \in lo..hi : GoLeft(r) \/ GoRight(r) \/ ReturnNode(r)
      BY <2>2 DEF Visit
    <3>2. r \in 1..Len(power) BY <2>1 DEF TypeOK
    <3>3. UNCHANGED <<power, begin, total, serial>> BY <2>2 DEF Visit, table
    <3>4. CASE GoLeft(r) BY <2>1, <3>2, <3>3, <3>4 DEF GoLeft, TypeOK
    <3>5. CASE GoRight(r) BY <2>1, <3>2, <3>3, <3>5 DEF GoRight, TypeOK
    <3>6. CASE ReturnNode(r) BY <2>1, <3>2, <3>3, <3>6 DEF ReturnNode, TypeOK
    <3> QED BY <3>1, <3>4, <3>5, <3>6
  <2>3. CASE ReturnNull BY <2>1, <2>3 DEF ReturnNull, table, TypeOK, NULL
  <2>4. CASE UNCHANGED vars BY <2>4 DEF vars, table, TypeOK
  <2> QED BY <2>2, <2>3, <2>4 DEF Next
<1> QED BY <1>1, <1>2, PTL DEF Spec
-----------------------------------------------------------------------------
(* What the tests of a turn say of the ranges.                             *)
LEMMA TableFacts ==
  ASSUME Sound, TypeOK
  PROVE  /\ power \in Seq(Nat) /\ begin \in Seq(Nat) /\ total \in Nat
         /\ Tiles(begin, power, total) /\ total < LongMod
         /\ Len(begin) = Len(power) /\ Len(power) \in Nat
         /\ serial \in 0..total - 1
PROOF
<1>1. power \in Seq(Nat) BY WeightsAssumption DEF TypeOK
<1>2. /\ begin \in Seq(Nat) /\ total \in Nat /\ Len(begin) = Len(power)
  BY <1>1, RebuiltType DEF TypeOK
<1> QED BY <1>1, <1>2 DEF TypeOK, Sound

(* The unsigned tests at a node mean what they say in the integers.        *)
LEMMA TestsMean ==
  ASSUME Sound, TypeOK, NEW k \in 1..Len(power)
  PROVE  /\ Below(begin, k, serial) <=> serial < begin[k]
         /\ Above(begin, power, k, serial) <=> serial >= begin[k] + power[k]
PROOF
<1>1. begin[k] + power[k] \in Nat /\ begin[k] + power[k] <= total
  BY TableFacts, TilesBounded
<1>2. begin[k] + power[k] < LongMod BY <1>1, TableFacts, WidthAssumption
<1> QED BY <1>1, <1>2, ULongSmall DEF Below, Above

(* A group before or after the root cannot hold the number once the test   *)
(* of the root has sent the walk the other way.                            *)
LEMMA WalkKeepsHolder ==
  ASSUME Sound, TypeOK, NEW r \in 1..Len(power), NEW k \in 1..Len(power),
         k \in Holders(begin, power, serial)
  PROVE  /\ Below(begin, r, serial) => k < r
         /\ Above(begin, power, r, serial) => k > r
PROOF
<1> DEFINE bk == begin[k]  pk == power[k]  br == begin[r]  pr == power[r]
<1>1. bk \in Nat /\ pk \in Nat /\ br \in Nat /\ pr \in Nat /\ serial \in Nat
  <2>1. /\ power \in Seq(Nat) /\ begin \in Seq(Nat) /\ Len(begin) = Len(power)
        /\ serial \in Nat
    BY TableFacts
  <2>2. begin[k] \in Nat /\ begin[r] \in Nat BY <2>1
  <2>3. power[k] \in Nat /\ power[r] \in Nat BY <2>1
  <2> QED BY <2>1, <2>2, <2>3
<1>2. bk <= serial /\ serial < bk + pk BY <1>1, TestsMean DEF Holders
<1>3. k < r => bk + pk <= br BY TableFacts, TilesOrdered
<1>4. r < k => br + pr <= bk BY TableFacts, TilesOrdered
<1>5. Below(begin, r, serial) => serial < br BY TestsMean
<1>6. Above(begin, power, r, serial) => serial >= br + pr BY TestsMean
<1>7. k = r => bk = br /\ pk = pr OBVIOUS
<1> HIDE DEF bk, pk, br, pr
<1> QED BY <1>1, <1>2, <1>3, <1>4, <1>5, <1>6, <1>7

SearchInv == HolderInSubtree /\ FindsHolder

(* The walk leaves the table alone.                                        *)
LEMMA TableKept ==
  ASSUME [Next]_vars
  PROVE  UNCHANGED table /\ Sound' = Sound
PROOF
<1>1. UNCHANGED table BY DEF Next, Visit, ReturnNull, vars
<1> QED BY <1>1 DEF table, Sound, Tiles

(* Every turn of the walk on a sound table keeps the holder in the subtree.*)
LEMMA SearchStep ==
  ASSUME TypeOK, SearchInv, [Next]_vars, Sound
  PROVE  SearchInv'
PROOF
<1>0. \A k \in Holders(begin, power, serial) : k \in 1..Len(power)
  BY TableFacts DEF Holders
<1>1. CASE Visit
  <2>1. PICK r \in lo..hi : GoLeft(r) \/ GoRight(r) \/ ReturnNode(r)
    BY <1>1 DEF Visit
  <2>2. r \in 1..Len(power) BY TableFacts DEF TypeOK
  <2>3. UNCHANGED <<power, begin, total, serial>> /\ ~returned
    BY <1>1 DEF Visit, table
  <2>4. \A k \in Holders(begin, power, serial) : k \in lo..hi
    BY <2>3 DEF SearchInv, HolderInSubtree
  <2>5. lo \in Int /\ hi \in Int /\ r \in Int BY <2>2 DEF TypeOK
  <2>6. CASE GoLeft(r)
    <3>1. /\ Below(begin, r, serial) /\ hi' = r - 1 /\ UNCHANGED <<lo, answer, returned>>
      BY <2>6 DEF GoLeft
    <3>2. ASSUME NEW k \in Holders(begin, power, serial) PROVE k \in lo..r - 1
      <4>1. k < r /\ k \in Nat BY <1>0, <2>2, <3>1, WalkKeepsHolder
      <4>2. k \in lo..hi BY <2>4
      <4> QED BY <4>1, <4>2, <2>5
    <3> QED BY <2>3, <3>1, <3>2 DEF SearchInv, HolderInSubtree, FindsHolder
  <2>7. CASE GoRight(r)
    <3>1. /\ Above(begin, power, r, serial) /\ lo' = r + 1 /\ UNCHANGED <<hi, answer, returned>>
      BY <2>7 DEF GoRight
    <3>2. ASSUME NEW k \in Holders(begin, power, serial) PROVE k \in r + 1..hi
      <4>1. k > r /\ k \in Nat BY <1>0, <2>2, <3>1, WalkKeepsHolder
      <4>2. k \in lo..hi BY <2>4
      <4> QED BY <4>1, <4>2, <2>5
    <3> QED BY <2>3, <3>1, <3>2 DEF SearchInv, HolderInSubtree, FindsHolder
  <2>8. CASE ReturnNode(r)
    <3>1. r \in Holders(begin, power, serial)
      BY <2>2, <2>8, TableFacts DEF ReturnNode, Holders
    <3> QED BY <2>3, <2>8, <3>1
            DEF ReturnNode, SearchInv, HolderInSubtree, FindsHolder
  <2> QED BY <2>1, <2>6, <2>7, <2>8
<1>2. CASE ReturnNull
  <2>1. \E k \in 1..Len(power) : Holders(begin, power, serial) = {k}
    <3>1. /\ power \in Seq(Nat) /\ begin \in Seq(Nat) /\ total \in Nat
          /\ Tiles(begin, power, total) /\ total < LongMod
          /\ serial \in 0..total - 1
      BY TableFacts
    <3> QED BY <3>1, OneHolderOfTiles
  <2>2. PICK k \in Holders(begin, power, serial) : TRUE BY <2>1
  <2>3. k \in lo..hi /\ lo > hi
    BY <1>2 DEF ReturnNull, SearchInv, HolderInSubtree
  <2> QED BY <2>3 DEF TypeOK
<1>3. CASE UNCHANGED vars
  BY <1>3 DEF vars, table, SearchInv, HolderInSubtree, FindsHolder
<1> QED BY <1>1, <1>2, <1>3 DEF Next

(* On every sound table the walk discards only nodes that cannot hold the  *)
(* number, and returns the group that holds it, never NULL (rbtree_ins.c:  *)
(* 20-38).                                                                 *)
THEOREM TheSearchFinds == Spec => [](HolderInSubtree /\ FindsHolder)
PROOF
<1>1. Init /\ TypeOK => SearchInv
  <2> SUFFICES ASSUME Init, TypeOK, Sound PROVE SearchInv
    BY DEF SearchInv, HolderInSubtree, FindsHolder
  <2>1. \A k \in Holders(begin, power, serial) : k \in 1..Len(power)
    BY TableFacts DEF Holders
  <2> QED BY <2>1 DEF Init, SearchInv, HolderInSubtree, FindsHolder
<1>2. TypeOK /\ SearchInv /\ [Next]_vars => SearchInv'
  <2> SUFFICES ASSUME TypeOK, SearchInv, [Next]_vars PROVE SearchInv' OBVIOUS
  <2>1. CASE Sound BY <2>1, SearchStep
  <2>2. CASE ~Sound
    BY <2>2, TableKept DEF SearchInv, HolderInSubtree, FindsHolder
  <2> QED BY <2>1, <2>2
<1>3. SearchInv <=> HolderInSubtree /\ FindsHolder BY DEF SearchInv
<1> QED BY <1>1, <1>2, <1>3, TypeCorrect, PTL DEF Spec

(* The first half on its own: the groups that may hold the number are never*)
(* among the nodes the walk has left behind, whichever nodes the tree puts *)
(* at the roots of its subtrees.                                           *)
THEOREM TheHolderStays == Spec => []HolderInSubtree
PROOF
<1>1. HolderInSubtree /\ FindsHolder => HolderInSubtree OBVIOUS
<1> QED BY <1>1, TheSearchFinds, PTL
=============================================================================
