---------------------------- MODULE SerialRanges ----------------------------
(***************************************************************************)
(* The weight table of mysqlda.  Every MySQL group ("forward instance")    *)
(* owns the serial numbers begin .. begin+power-1; a new library hashes to *)
(* a serial number and goes to the group that owns it.  Groups are numbered*)
(* 1..n in the order of the serial-range tree, so that a power table or a  *)
(* begin table is a sequence.                                              *)
(*                                                                         *)
(* The accumulator of the loop is a C int while powers and totals are      *)
(* unsigned long (config.c:55, mysqlda_in.h): IntHalf stands for 2^31 and  *)
(* LongMod for 2^64, so that TLC can use a small width.                    *)
(***************************************************************************)
EXTENDS Integers, Sequences

CONSTANTS IntHalf, LongMod

ASSUME WidthAssumption ==
  /\ IntHalf \in Nat \ {0}
  /\ LongMod \in Nat
  /\ LongMod >= 2 * IntHalf

(* Conversion to int and to unsigned long. *)
ToInt(x) == ((x + IntHalf) % (2 * IntHalf)) - IntHalf
ToULong(x) == x % LongMod

(* Mutants: the chosen group gains weight too; a range holds its end; a   *)
(* begin is taken after the power was added.                               *)
IncreasedPowerOfAll(power, this) == [k \in 1..Len(power) |-> power[k] + 1]
AboveEnd(begin, power, k, h) == h > ToULong(begin[k] + power[k])

(* Every group but "this" gains one unit of weight. *)
IncreasedPower(power, this) ==
  [k \in 1..Len(power) |-> IF k = this THEN power[k] ELSE power[k] + 1]

(* serial_range_begin of the loop after k groups. *)
RunningSum(power) ==
  LET sum[k \in 0..Len(power)] ==
        IF k = 0 THEN 0 ELSE ToInt(sum[k - 1] + power[k])
  IN  sum

BeginsAfter(power) == [k \in 1..Len(power) |-> ToULong(RunningSum(power)[k])]

BeginsOf(power) == [k \in 1..Len(power) |-> ToULong(RunningSum(power)[k - 1])]
TotalOf(power)  == ToULong(RunningSum(power)[Len(power)])

(* The test QueryForwardSerialRangeTreeNode makes at a node. *)
Below(begin, k, h)        == h < begin[k]
Above(begin, power, k, h) == h >= ToULong(begin[k] + power[k])

(* The groups whose range holds serial number h: the query returns one of  *)
(* them, or NULL.  RangeSearch shows the tree walk finds the group of a    *)
(* table that tiles whatever the shape of the tree.                        *)
Holders(begin, power, h) ==
  {k \in 1..Len(begin) : ~Below(begin, k, h) /\ ~Above(begin, power, k, h)}

(* LinkForwardSerialRangeTreeNode: the numbers of groups a range that      *)
(* begins at b may be put behind.  The nodes before and after the new leaf *)
(* are on the path down to it; the link fails at a begin equal to b.       *)
LinkPlaces(begin, b) ==
  {n \in 0..Len(begin) :
     (n > 0 => begin[n] < b) /\ (n < Len(begin) => b < begin[n + 1])}

(* The ranges are non-empty and tile 0 .. total-1 without gap or overlap.  *)
Tiles(begin, power, total) ==
  /\ Len(begin) = Len(power)
  /\ Len(power) > 0
  /\ begin[1] = 0
  /\ \A k \in 1..Len(power) - 1 : begin[k + 1] = begin[k] + power[k]
  /\ total = begin[Len(power)] + power[Len(power)]
  /\ \A k \in 1..Len(power) : power[k] >= 1
=============================================================================
