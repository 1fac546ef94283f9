------------------------ MODULE SerialRanges_proofs -------------------------
(***************************************************************************)
(* Facts about the weight table, for tables of any length and weights of   *)
(* any size, as long as the int accumulator of config.c:55 does not        *)
(* overflow.                                                               *)
(*                                                                         *)
(* Induction is done with SetInduction, a first-order form of the usual    *)
(* principle: a set of naturals that holds 0 and is closed under successor *)
(* is the set of all of them.                                              *)
(***************************************************************************)
EXTENDS SerialRanges, WellFoundedInduction, TLAPS

(* A set of naturals that holds 0 and every successor holds all of them.   *)
(* It is the principle behind every fact about the loops of config.c and   *)
(* rbtree_ins.c below.                                                     *)
LEMMA SetInduction ==
  ASSUME NEW S, S \subseteq Nat, 0 \in S, \A n \in S : n + 1 \in S
  PROVE  S = Nat
PROOF
<1> SUFFICES ASSUME Nat \ S # {} PROVE FALSE OBVIOUS
<1> DEFINE T == Nat \ S
<1>1. PICK x \in T : \A y \in T : ~ (<<y, x>> \in OpToRel(<, Nat))
  BY WFMin, NatLessThanWellFounded
<1>2. x \in Nat /\ x # 0 /\ x - 1 \in Nat /\ x - 1 < x OBVIOUS
<1>3. ASSUME x - 1 \in T PROVE FALSE
  <2>1. <<x - 1, x>> \in OpToRel(<, Nat) BY <1>2, Zenon DEF OpToRel
  <2> QED BY <2>1, <1>3, <1>1, Zenon
<1>4. x - 1 + 1 = x BY <1>2
<1> QED BY <1>2, <1>3, <1>4

(* Conversions of small values change nothing.                             *)
LEMMA ModSmall ==
  ASSUME NEW x \in Nat, NEW m \in Nat, x < m
  PROVE  x % m = x
OBVIOUS

(* A number that fits in an unsigned long is not changed by it.            *)
LEMMA ULongSmall ==
  ASSUME NEW x \in Nat, x < LongMod
  PROVE  ToULong(x) = x
BY ModSmall, WidthAssumption DEF ToULong

(* A number that fits in an int is not changed by it.                      *)
LEMMA IntSmall ==
  ASSUME NEW x \in Nat, x < IntHalf
  PROVE  ToInt(x) = x
PROOF
<1>1. /\ x + IntHalf \in Nat /\ 2 * IntHalf \in Nat
      /\ x + IntHalf < 2 * IntHalf
  BY WidthAssumption
<1>2. (x + IntHalf) % (2 * IntHalf) = x + IntHalf BY <1>1, ModSmall
<1> QED BY <1>2, WidthAssumption DEF ToInt

(* An int is an integer,                                                   *)
LEMMA IntType ==
  ASSUME NEW x \in Int
  PROVE  ToInt(x) \in Int
BY WidthAssumption DEF ToInt

(* and an unsigned long a natural number.                                  *)
LEMMA ULongType ==
  ASSUME NEW x \in Int
  PROVE  ToULong(x) \in Nat
BY WidthAssumption DEF ToULong

(* The increment keeps a table of weights one.                             *)
LEMMA IncreasedPowerType ==
  ASSUME NEW power \in Seq(Nat), NEW this
  PROVE  /\ IncreasedPower(power, this) \in Seq(Nat)
         /\ Len(IncreasedPower(power, this)) = Len(power)
         /\ \A k \in 1..Len(power) :
              IncreasedPower(power, this)[k] =
                IF k = this THEN power[k] ELSE power[k] + 1
BY DEF IncreasedPower
-----------------------------------------------------------------------------
(* The recursive definition of RunningSum has a solution.                  *)
LEMMA RunningSumDef ==
  ASSUME NEW p \in Seq(Nat)
  PROVE  RunningSum(p) =
           [k \in 0..Len(p) |->
              IF k = 0 THEN 0 ELSE ToInt(RunningSum(p)[k - 1] + p[k])]
PROOF
<1> DEFINE D(f, n) ==
             f = [k \in 0..n |-> IF k = 0 THEN 0 ELSE ToInt(f[k - 1] + p[k])]
           S == {n \in Nat : \E f : D(f, n)}
<1>1. 0 \in S
  <2> DEFINE f == [k \in 0..0 |-> 0]
  <2>1. D(f, 0) OBVIOUS
  <2> QED BY <2>1
<1>2. ASSUME NEW n \in S PROVE n + 1 \in S
  <2>1. PICK f : D(f, n) OBVIOUS
  <2> DEFINE g == [k \in 0..(n + 1) |->
                     IF k = n + 1 THEN ToInt(f[n] + p[n + 1]) ELSE f[k]]
  <2>2. \A k \in 0..n : f[k] = IF k = 0 THEN 0 ELSE ToInt(f[k - 1] + p[k])
    BY <2>1
  <2>3. \A k \in 0..n + 1 : g[k] = IF k = 0 THEN 0 ELSE ToInt(g[k - 1] + p[k])
    <3> TAKE k \in 0..n + 1
    <3>1. CASE k = n + 1 BY <3>1
    <3>2. CASE k # n + 1
      <4>1. k \in 0..n /\ (k # 0 => k - 1 \in 0..n) BY <3>2
      <4>2. g[k] = f[k] /\ (k # 0 => g[k - 1] = f[k - 1]) BY <4>1
      <4> QED BY <4>1, <4>2, <2>2
    <3> QED BY <3>1, <3>2
  <2>4. D(g, n + 1) BY <2>3
  <2>5. n + 1 \in Nat OBVIOUS
  <2> HIDE DEF D, g
  <2> QED BY <2>4, <2>5
<1> HIDE DEF D
<1>3. Len(p) \in S
  <2>1. S \subseteq Nat OBVIOUS
  <2> HIDE DEF S
  <2>2. S = Nat BY <1>1, <1>2, <2>1, SetInduction
  <2> QED BY <2>2
<1>4. PICK f : D(f, Len(p)) BY <1>3
<1>5. RunningSum(p) = CHOOSE ff : D(ff, Len(p)) BY DEF RunningSum, D
<1>6. D(CHOOSE ff : D(ff, Len(p)), Len(p)) BY <1>4, Zenon
<1>7. D(RunningSum(p), Len(p)) BY <1>5, <1>6
<1> QED BY <1>7 DEF D

(* The accumulator, turn by turn of the loop.                              *)
LEMMA RunningSumStep ==
  ASSUME NEW p \in Seq(Nat)
  PROVE  /\ RunningSum(p)[0] = 0
         /\ \A k \in 0..Len(p) - 1 :
              RunningSum(p)[k + 1] = ToInt(RunningSum(p)[k] + p[k + 1])
PROOF
<1> DEFINE s == RunningSum(p)
<1>1. s = [k \in 0..Len(p) |-> IF k = 0 THEN 0 ELSE ToInt(s[k - 1] + p[k])]
  BY RunningSumDef
<1> HIDE DEF s
<1>2. \A k \in 0..Len(p) : s[k] = IF k = 0 THEN 0 ELSE ToInt(s[k - 1] + p[k])
  BY <1>1, Zenon
<1>3. s[0] = 0 BY <1>2
<1>4. ASSUME NEW k \in 0..Len(p) - 1 PROVE s[k + 1] = ToInt(s[k] + p[k + 1])
  <2>1. k + 1 \in 0..Len(p) /\ k + 1 # 0 /\ (k + 1) - 1 = k OBVIOUS
  <2>2. s[k + 1] = ToInt(s[(k + 1) - 1] + p[k + 1]) BY <2>1, <1>2
  <2> QED BY <2>1, <2>2
<1> QED BY <1>3, <1>4 DEF s

(* The accumulator is an integer at every turn.                            *)
LEMMA RunningSumType ==
  ASSUME NEW p \in Seq(Nat), NEW k \in 0..Len(p)
  PROVE  RunningSum(p)[k] \in Int
PROOF
<1> DEFINE S == {n \in Nat : n <= Len(p) => RunningSum(p)[n] \in Int}
<1>1. 0 \in S BY RunningSumStep
<1>2. ASSUME NEW n \in S PROVE n + 1 \in S
  <2> SUFFICES ASSUME n + 1 <= Len(p) PROVE RunningSum(p)[n + 1] \in Int
    OBVIOUS
  <2>1. n \in 0..Len(p) - 1 /\ n + 1 \in 1..Len(p) OBVIOUS
  <2>2. RunningSum(p)[n] \in Int /\ p[n + 1] \in Nat BY <2>1
  <2>3. RunningSum(p)[n] + p[n + 1] \in Int BY <2>2
  <2> QED BY <2>1, <2>3, RunningSumStep, IntType
<1>3. S = Nat
  <2>1. S \subseteq Nat OBVIOUS
  <2> HIDE DEF S
  <2> QED BY <1>1, <1>2, <2>1, SetInduction
<1> QED BY <1>3

(* What the loop of IncreaseForwardInstanceTreeNodePower stores has the    *)
(* types of the fields.                                                    *)
LEMMA RebuiltType ==
  ASSUME NEW p \in Seq(Nat)
  PROVE  /\ BeginsOf(p) \in Seq(Nat)
         /\ Len(BeginsOf(p)) = Len(p)
         /\ TotalOf(p) \in Nat
PROOF
<1>1. \A k \in 1..Len(p) : ToULong(RunningSum(p)[k - 1]) \in Nat
  <2> TAKE k \in 1..Len(p)
  <2>1. k - 1 \in 0..Len(p) OBVIOUS
  <2> QED BY <2>1, RunningSumType, ULongType
<1>2. TotalOf(p) \in Nat BY RunningSumType, ULongType DEF TotalOf
<1> QED BY <1>1, <1>2 DEF BeginsOf
-----------------------------------------------------------------------------
(* Ranges that tile are in order: one ends before a later one begins.      *)
LEMMA TilesOrdered ==
  ASSUME NEW b \in Seq(Nat), NEW p \in Seq(Nat), NEW t, Tiles(b, p, t),
         NEW i \in 1..Len(p), NEW j \in 1..Len(p), i < j
  PROVE  b[i] + p[i] <= b[j]
PROOF
<1> DEFINE S == {n \in Nat : i + 1 + n <= Len(p) => b[i] + p[i] <= b[i + 1 + n]}
<1>1. /\ Len(b) = Len(p)
      /\ \A k \in 1..Len(p) - 1 : b[k + 1] = b[k] + p[k]
  BY DEF Tiles
<1>1a. \A k \in 1..Len(p) : b[k] \in Nat /\ p[k] \in Nat BY <1>1
<1>2. 0 \in S
  <2> SUFFICES ASSUME i + 1 <= Len(p) PROVE b[i] + p[i] <= b[i + 1]
    OBVIOUS
  <2>1. i \in 1..Len(p) - 1 OBVIOUS
  <2>2. b[i] \in Nat /\ p[i] \in Nat BY <1>1
  <2> QED BY <2>1, <2>2, <1>1
<1>3. ASSUME NEW n \in S PROVE n + 1 \in S
  <2> SUFFICES ASSUME i + 1 + (n + 1) <= Len(p)
               PROVE  b[i] + p[i] <= b[i + 1 + (n + 1)]
    OBVIOUS
  <2> DEFINE k == i + 1 + n
  <2>0. n \in Nat /\ Len(p) \in Nat /\ (k <= Len(p) => b[i] + p[i] <= b[k])
    OBVIOUS
  <2>1. k \in 1..Len(p) - 1 /\ k + 1 = i + 1 + (n + 1) BY <2>0
  <2>2. b[i] + p[i] <= b[k] BY <2>0, <2>1
  <2>3. b[i] \in Nat /\ p[i] \in Nat /\ b[k] \in Nat /\ p[k] \in Nat
    BY <2>1, <1>1a
  <2>4. b[k + 1] = b[k] + p[k] BY <2>1, <1>1
  <2> DEFINE bi == b[i]  pi == p[i]  bk == b[k]  pk == p[k]
  <2>5. bi + pi <= bk + pk
    <3>1. bi + pi <= bk /\ bi \in Nat /\ pi \in Nat /\ bk \in Nat /\ pk \in Nat
      BY <2>2, <2>3
    <3> HIDE DEF bi, pi, bk, pk
    <3> QED BY <3>1
  <2> QED BY <2>1, <2>4, <2>5
<1>4. S = Nat
  <2>1. S \subseteq Nat OBVIOUS
  <2> HIDE DEF S
  <2> QED BY <1>2, <1>3, <2>1, SetInduction
<1>5. /\ j - i - 1 \in Nat /\ i + 1 + (j - i - 1) = j
      /\ i + 1 + (j - i - 1) <= Len(p)
  OBVIOUS
<1>6. j - i - 1 \in S BY <1>4, <1>5
<1> QED BY <1>5, <1>6

(* No range goes beyond the total.                                         *)
LEMMA TilesBounded ==
  ASSUME NEW b \in Seq(Nat), NEW p \in Seq(Nat), NEW t, Tiles(b, p, t),
         NEW i \in 1..Len(p)
  PROVE  b[i] + p[i] <= t
PROOF
<1> DEFINE n == Len(p)
<1>1. /\ n \in 1..Len(p) /\ Len(b) = n
      /\ t = b[n] + p[n]
  BY DEF Tiles
<1>2. b[i] \in Nat /\ p[i] \in Nat /\ b[n] \in Nat /\ p[n] \in Nat BY <1>1
<1>3. CASE i = n BY <1>1, <1>2, <1>3
<1>4. CASE i # n
  <2>1. i < n BY <1>1, <1>4
  <2>2. b[i] + p[i] <= b[n] BY <2>1, <1>1, TilesOrdered
  <2> QED BY <2>2, <1>1, <1>2
<1> QED BY <1>3, <1>4

(* Ranges that tile leave no serial number out.                            *)
LEMMA TilesCover ==
  ASSUME NEW b \in Seq(Nat), NEW p \in Seq(Nat), NEW t, Tiles(b, p, t),
         NEW h \in Nat, h < t
  PROVE  \E k \in 1..Len(p) : b[k] <= h /\ h < b[k] + p[k]
PROOF
<1> DEFINE Covered == \E k \in 1..Len(p) : b[k] <= h /\ h < b[k] + p[k]
           S == {n \in Nat : n + 1 <= Len(p) => (Covered \/ h >= b[n + 1] + p[n + 1])}
<1>1. /\ Len(b) = Len(p) /\ Len(p) \in Nat /\ Len(p) > 0
      /\ b[1] = 0
      /\ \A k \in 1..Len(p) - 1 : b[k + 1] = b[k] + p[k]
      /\ t = b[Len(p)] + p[Len(p)]
  BY DEF Tiles
<1>2. \A k \in 1..Len(p) : b[k] \in Nat /\ p[k] \in Nat BY <1>1
<1>3. 0 \in S
  <2>1. 1 \in 1..Len(p) BY <1>1
  <2>2. b[1] <= h /\ p[1] \in Nat BY <2>1, <1>1, <1>2
  <2>3. h < b[1] + p[1] => Covered BY <2>1, <2>2
  <2> QED BY <2>1, <2>2, <2>3, <1>1
<1>4. ASSUME NEW n \in S PROVE n + 1 \in S
  <2> DEFINE k == n + 2
  <2>0. /\ n \in Nat /\ (n + 1) + 1 = k /\ k - 1 = n + 1
        /\ k - 1 <= Len(p) => (Covered \/ h >= b[k - 1] + p[k - 1])
    OBVIOUS
  <2> SUFFICES ASSUME k <= Len(p), ~Covered
               PROVE  h >= b[k] + p[k]
    BY <2>0
  <2>1. k \in 1..Len(p) /\ k - 1 \in 1..Len(p) - 1 BY <2>0, <1>1
  <2>2. h >= b[k - 1] + p[k - 1] BY <2>0, <2>1
  <2>3. b[k] = b[k - 1] + p[k - 1]
    <3>1. b[(k - 1) + 1] = b[k - 1] + p[k - 1] BY <2>1, <1>1
    <3>2. (k - 1) + 1 = k OBVIOUS
    <3> QED BY <3>1, <3>2
  <2>4. ~(b[k] <= h /\ h < b[k] + p[k]) BY <2>1
  <2>5. b[k] \in Nat /\ p[k] \in Nat BY <2>1, <1>2
  <2> HIDE DEF k
  <2> QED BY <2>2, <2>3, <2>4, <2>5
<1>5. S = Nat
  <2>1. S \subseteq Nat OBVIOUS
  <2> HIDE DEF S
  <2> QED BY <1>3, <1>4, <2>1, SetInduction
<1>6. Len(p) - 1 \in Nat /\ (Len(p) - 1) + 1 = Len(p) BY <1>1
<1> HIDE DEF Covered
<1>7. Covered \/ h >= b[Len(p)] + p[Len(p)]
  <2>1. Len(p) - 1 \in S BY <1>5, <1>6
  <2> QED BY <2>1, <1>6
<1>8. ~(h >= b[Len(p)] + p[Len(p)]) BY <1>1, <1>2
<1> QED BY <1>7, <1>8 DEF Covered

(* The lookup of a remainder finds exactly one group                       *)
(* (rbtree_ins.c:20-38 called at app.c:380).                               *)
THEOREM OneHolderOfTiles ==
  ASSUME NEW b \in Seq(Nat), NEW p \in Seq(Nat), NEW t \in Nat, t < LongMod,
         Tiles(b, p, t),
         NEW h \in 0..t - 1
  PROVE  \E k \in 1..Len(p) : Holders(b, p, h) = {k}
PROOF
<1>1. Len(b) = Len(p) /\ Len(p) \in Nat BY DEF Tiles
<1>2. \A k \in 1..Len(p) : b[k] \in Nat /\ p[k] \in Nat BY <1>1
<1>3. \A k \in 1..Len(p) :
        (~Below(b, k, h) /\ ~Above(b, p, k, h)) <=> (b[k] <= h /\ h < b[k] + p[k])
  <2> TAKE k \in 1..Len(p)
  <2>1. b[k] + p[k] \in Nat /\ b[k] + p[k] <= t BY <1>2, TilesBounded
  <2>2. b[k] + p[k] < LongMod BY <2>1, WidthAssumption
  <2>3. ToULong(b[k] + p[k]) = b[k] + p[k] BY <2>1, <2>2, ULongSmall
  <2> QED BY <2>3, <1>2 DEF Below, Above
<1>4. PICK k \in 1..Len(p) : b[k] <= h /\ h < b[k] + p[k]
  <2>1. h \in Nat /\ h < t OBVIOUS
  <2> QED BY <2>1, TilesCover
<1>5. k \in Holders(b, p, h) BY <1>1, <1>3, <1>4 DEF Holders
<1>6. ASSUME NEW j \in Holders(b, p, h) PROVE j = k
  <2>1. j \in 1..Len(p) /\ b[j] <= h /\ h < b[j] + p[j]
    BY <1>1, <1>3 DEF Holders
  <2> DEFINE bj == b[j]  pj == p[j]  bk == b[k]  pk == p[k]
  <2>0. /\ bj \in Nat /\ pj \in Nat /\ bk \in Nat /\ pk \in Nat /\ h \in Nat
        /\ bj <= h /\ h < bj + pj /\ bk <= h /\ h < bk + pk
    BY <2>1, <1>2, <1>4
  <2>2. ~(j < k)
    <3> SUFFICES ASSUME j < k PROVE FALSE OBVIOUS
    <3>1. bj + pj <= bk BY <2>1, TilesOrdered
    <3> HIDE DEF bj, pj, bk, pk
    <3> QED BY <3>1, <2>0
  <2>3. ~(k < j)
    <3> SUFFICES ASSUME k < j PROVE FALSE OBVIOUS
    <3>1. bk + pk <= bj BY <2>1, TilesOrdered
    <3> HIDE DEF bj, pj, bk, pk
    <3> QED BY <3>1, <2>0
  <2> QED BY <2>1, <2>2, <2>3
<1>7. Holders(b, p, h) = {k} BY <1>5, <1>6
<1> QED BY <1>7
-----------------------------------------------------------------------------
(* The table of equal weights LoadConfig starts from tiles.                *)
LEMMA FirstTableTiles ==
  ASSUME NEW n \in Nat \ {0}
  PROVE  Tiles([k \in 1..n |-> k - 1], [k \in 1..n |-> 1], n)
BY DEF Tiles

(* So does the table ReloadConfig makes: a group of the weight of all the  *)
(* others goes to the end (config.c:497-498, 549).                         *)
LEMMA AppendedTiles ==
  ASSUME NEW b \in Seq(Nat), NEW p \in Seq(Nat), NEW t \in Nat, Tiles(b, p, t)
  PROVE  Tiles(Append(b, t), Append(p, t), t + t)
PROOF
<1> DEFINE n == Len(p)
           bb == Append(b, t)
           pp == Append(p, t)
<1>1. n \in Nat /\ n > 0 /\ Len(b) = n /\ b[1] = 0 BY DEF Tiles
<1>2. Len(bb) = n + 1 /\ Len(pp) = n + 1 BY <1>1
<1>3. \A k \in 1..n : bb[k] = b[k] /\ pp[k] = p[k] BY <1>1
<1>4. bb[n + 1] = t /\ pp[n + 1] = t BY <1>1
<1>5. \A k \in 1..n : b[k] \in Nat /\ p[k] \in Nat BY <1>1
<1>6. bb[1] = 0 BY <1>1, <1>3
<1>7. ASSUME NEW k \in 1..n PROVE bb[k + 1] = bb[k] + pp[k]
  <2>1. CASE k = n BY <2>1, <1>1, <1>3, <1>4 DEF Tiles
  <2>2. CASE k # n
    <3>1. k \in 1..n - 1 /\ k + 1 \in 1..n BY <2>2, <1>1
    <3>2. b[k + 1] = b[k] + p[k] BY <3>1 DEF Tiles
    <3> QED BY <3>1, <3>2, <1>3
  <2> QED BY <2>1, <2>2
<1>8. t >= 1
  <2>1. n \in 1..n BY <1>1
  <2>2. b[n] \in Nat /\ p[n] \in Nat /\ p[n] >= 1 /\ t = b[n] + p[n]
    BY <2>1, <1>5 DEF Tiles
  <2> QED BY <2>2
<1>9. \A k \in 1..n + 1 : pp[k] >= 1 BY <1>1, <1>3, <1>4, <1>8 DEF Tiles
<1> HIDE DEF bb, pp, n
<1>10. t + t = bb[Len(pp)] + pp[Len(pp)] BY <1>2, <1>4
<1>11. Len(bb) = Len(pp) /\ Len(pp) > 0 BY <1>1, <1>2
<1>12. \A k \in 1..Len(pp) - 1 : bb[k + 1] = bb[k] + pp[k] BY <1>1, <1>2, <1>7
<1>13. \A k \in 1..Len(pp) : pp[k] >= 1 BY <1>2, <1>9
<1>14. Tiles(bb, pp, t + t)
  BY <1>6, <1>10, <1>11, <1>12, <1>13, Zenon DEF Tiles
<1> QED BY <1>14 DEF bb, pp

(* What the loop of IncreaseForwardInstanceTreeNodePower has accumulated   *)
(* after n groups.                                                         *)
End(b, p, n) == IF n = 0 THEN 0 ELSE b[n] + p[n]
Shift(this, n) == IF n < this THEN n ELSE n - 1

(* The accumulator after n groups: where the n-th range ended before, and  *)
(* one more for every group passed but the chosen one.                     *)
LEMMA RunningSumValue ==
  ASSUME NEW b \in Seq(Nat), NEW p \in Seq(Nat), NEW t \in Nat,
         Tiles(b, p, t),
         NEW this \in 1..Len(p),
         t + Len(p) - 1 < IntHalf,
         NEW n \in 0..Len(p)
  PROVE  /\ RunningSum(IncreasedPower(p, this))[n] = End(b, p, n) + Shift(this, n)
         /\ End(b, p, n) \in 0..t
         /\ Shift(this, n) \in 0..Len(p) - 1
PROOF
<1> DEFINE q == IncreasedPower(p, this)
           r == RunningSum(q)
<1>1. /\ q \in Seq(Nat) /\ Len(q) = Len(p) /\ Len(p) \in Nat
      /\ \A k \in 1..Len(p) : q[k] = IF k = this THEN p[k] ELSE p[k] + 1
  BY IncreasedPowerType
<1>2. Len(b) = Len(p) BY DEF Tiles
<1>2a. /\ b[1] = 0
       /\ \A k \in 1..Len(p) - 1 : b[k + 1] = b[k] + p[k]
  BY DEF Tiles
<1>3. \A k \in 1..Len(p) : b[k] \in Nat /\ p[k] \in Nat BY <1>2
<1>4. \A k \in 0..Len(p) : End(b, p, k) \in 0..t
  <2> TAKE k \in 0..Len(p)
  <2>1. CASE k = 0 BY <2>1 DEF End
  <2>2. CASE k # 0
    <3>1. k \in 1..Len(p) BY <2>2
    <3>2. b[k] + p[k] <= t /\ b[k] + p[k] \in Nat BY <3>1, <1>3, TilesBounded
    <3> QED BY <2>2, <3>2 DEF End
  <2> QED BY <2>1, <2>2
<1>5. \A k \in 0..Len(p) : Shift(this, k) \in 0..Len(p) - 1
  BY <1>1 DEF Shift
<1>6. \A k \in 0..Len(p) - 1 :
        End(b, p, k + 1) + Shift(this, k + 1) = End(b, p, k) + Shift(this, k) + q[k + 1]
  <2> TAKE k \in 0..Len(p) - 1
  <2>1. k + 1 \in 1..Len(p) /\ k + 1 # 0 /\ k \in 0..Len(p) BY <1>1
  <2>2. End(b, p, k) = b[k + 1]
    <3>1. CASE k = 0 BY <3>1, <1>2a DEF End
    <3>2. CASE k # 0
      <4>1. k \in 1..Len(p) - 1 BY <3>2, <1>1
      <4> QED BY <4>1, <3>2, <1>2a DEF End
    <3> QED BY <3>1, <3>2
  <2>3. End(b, p, k + 1) = End(b, p, k) + p[k + 1] BY <2>1, <2>2 DEF End
  <2>4. Shift(this, k + 1) = Shift(this, k) + (IF k + 1 = this THEN 0 ELSE 1)
    BY <2>1 DEF Shift
  <2>5. q[k + 1] = p[k + 1] + (IF k + 1 = this THEN 0 ELSE 1)
    BY <2>1, <1>1, <1>3
  <2> DEFINE e == End(b, p, k)  s == Shift(this, k)  pk == p[k + 1]
             d == IF k + 1 = this THEN 0 ELSE 1
  <2>6. e \in Nat /\ s \in Nat /\ pk \in Nat /\ d \in Nat
    BY <2>1, <1>1, <1>3, <1>4, <1>5
  <2>7. (e + pk) + (s + d) = (e + s) + (pk + d)
    <3> HIDE DEF e, s, pk, d
    <3> QED BY <2>6
  <2> QED BY <2>3, <2>4, <2>5, <2>7
<1> DEFINE S == {m \in Nat : m <= Len(p) => r[m] = End(b, p, m) + Shift(this, m)}
<1>7. 0 \in S BY <1>1, RunningSumStep DEF End, Shift
<1>8. ASSUME NEW m \in S PROVE m + 1 \in S
  <2> SUFFICES ASSUME m + 1 <= Len(p)
               PROVE  r[m + 1] = End(b, p, m + 1) + Shift(this, m + 1)
    OBVIOUS
  <2>1. m \in 0..Len(p) - 1 /\ m \in 0..Len(p) /\ m + 1 \in 0..Len(p) BY <1>1
  <2>2. r[m + 1] = ToInt(r[m] + q[m + 1]) BY <2>1, <1>1, RunningSumStep
  <2>3. r[m] = End(b, p, m) + Shift(this, m) BY <2>1
  <2> DEFINE x == End(b, p, m + 1) + Shift(this, m + 1)
  <2>4. r[m] + q[m + 1] = x BY <2>1, <2>3, <1>6
  <2>5. x \in Nat /\ x < IntHalf
    <3> DEFINE e == End(b, p, m + 1)  s == Shift(this, m + 1)
    <3>1. e \in 0..t /\ s \in 0..Len(p) - 1 BY <2>1, <1>4, <1>5
    <3> HIDE DEF e, s
    <3>2. e + s \in Nat /\ e + s < IntHalf BY <3>1, <1>1, WidthAssumption
    <3> QED BY <3>2 DEF e, s
  <2>6. ToInt(x) = x BY <2>5, IntSmall
  <2> QED BY <2>2, <2>4, <2>6
<1>9. S = Nat
  <2>1. S \subseteq Nat OBVIOUS
  <2> HIDE DEF S
  <2> QED BY <1>7, <1>8, <2>1, SetInduction
<1>10. n \in Nat /\ n <= Len(p) BY <1>1
<1>11. r[n] = End(b, p, n) + Shift(this, n)
  <2>1. n \in S BY <1>9, <1>10, Zenon
  <2> QED BY <2>1, <1>10
<1> QED BY <1>11, <1>4, <1>5

(* Shifting the weights keeps the ranges tiling, and grows the total by one*)
(* for every group but the chosen one (config.c:52-73).                    *)
THEOREM IncreaseTiles ==
  ASSUME NEW b \in Seq(Nat), NEW p \in Seq(Nat), NEW t \in Nat,
         Tiles(b, p, t),
         NEW this \in 1..Len(p),
         t + Len(p) - 1 < IntHalf
  PROVE  LET q == IncreasedPower(p, this)
         IN  /\ Tiles(BeginsOf(q), q, TotalOf(q))
             /\ TotalOf(q) = t + Len(p) - 1
PROOF
<1> DEFINE q == IncreasedPower(p, this)
           bb == BeginsOf(q)
           n == Len(p)
           Sum(k) == End(b, p, k) + Shift(this, k)
<1>1. /\ q \in Seq(Nat) /\ Len(q) = n /\ n \in Nat
      /\ \A k \in 1..n : q[k] = IF k = this THEN p[k] ELSE p[k] + 1
  BY IncreasedPowerType
<1>2. /\ n > 0 /\ Len(b) = n /\ b[1] = 0 /\ t = b[n] + p[n]
      /\ \A k \in 1..n : p[k] >= 1
      /\ \A k \in 1..n - 1 : b[k + 1] = b[k] + p[k]
  BY <1>1 DEF Tiles
<1>2a. Len(b) = Len(p) BY DEF Tiles
<1>3. \A k \in 1..n : b[k] \in Nat /\ p[k] \in Nat BY <1>2a
<1>4. \A k \in 0..n :
        /\ End(b, p, k) \in 0..t /\ Shift(this, k) \in 0..n - 1
        /\ RunningSum(q)[k] = Sum(k)
  BY RunningSumValue
<1>5. \A k \in 0..n : Sum(k) \in Nat /\ Sum(k) < LongMod /\ RunningSum(q)[k] = Sum(k)
  <2> TAKE k \in 0..n
  <2> DEFINE e == End(b, p, k)  s == Shift(this, k)
  <2>1. e \in 0..t /\ s \in 0..n - 1 BY <1>4
  <2> HIDE DEF e, s
  <2>2. e + s \in Nat /\ e + s < LongMod BY <2>1, <1>1, WidthAssumption
  <2> QED BY <2>2, <1>4 DEF e, s
<1>6. \A k \in 0..n : ToULong(RunningSum(q)[k]) = Sum(k) BY <1>5, ULongSmall
<1>7. \A k \in 1..n : bb[k] = Sum(k - 1)
  <2> TAKE k \in 1..n
  <2>1. k - 1 \in 0..n BY <1>1
  <2>2. bb[k] = ToULong(RunningSum(q)[k - 1]) BY <1>1 DEF BeginsOf
  <2> QED BY <2>1, <2>2, <1>6
<1>8. Len(bb) = n BY <1>1, RebuiltType
<1>9. TotalOf(q) = t + n - 1
  <2>1. n \in 0..n /\ n # 0 /\ ~(n < this) BY <1>1, <1>2
  <2>2. TotalOf(q) = Sum(n) BY <2>1, <1>1, <1>6 DEF TotalOf
  <2>3. Sum(n) = t + (n - 1) BY <2>1, <1>2 DEF End, Shift
  <2> QED BY <2>2, <2>3, <1>1
<1>10. \A k \in 1..n : bb[k] + q[k] = Sum(k)
  <2> TAKE k \in 1..n
  <2>1. k - 1 \in 0..n /\ k - 1 \in Nat /\ k # 0 BY <1>1
  <2>2. End(b, p, k - 1) = b[k]
    <3>1. CASE k = 1 BY <3>1, <1>2 DEF End
    <3>2. CASE k # 1
      <4>1. k - 1 \in 1..n - 1 /\ k - 1 # 0 /\ (k - 1) + 1 = k BY <3>2, <1>1
      <4>2. b[(k - 1) + 1] = b[k - 1] + p[k - 1] BY <4>1, <1>2
      <4> QED BY <4>1, <4>2 DEF End
    <3> QED BY <3>1, <3>2
  <2> DEFINE d == IF k = this THEN 0 ELSE 1
             bk == b[k]  pk == p[k]  s == Shift(this, k - 1)
  <2>3. Shift(this, k) = s + d BY <2>1 DEF Shift
  <2>4. q[k] = pk + d BY <1>1, <1>3
  <2>5a. bk \in Nat /\ pk \in Nat /\ d \in Nat BY <1>3
  <2>5b. s \in 0..n - 1 BY <2>1, <1>4
  <2>5. bk \in Nat /\ pk \in Nat /\ s \in Nat /\ d \in Nat
    <3> HIDE DEF bk, pk, s, d
    <3> QED BY <2>5a, <2>5b, <1>1
  <2>6. (bk + s) + (pk + d) = (bk + pk) + (s + d)
    <3> HIDE DEF bk, pk, s, d
    <3> QED BY <2>5
  <2>7. bb[k] = bk + s BY <1>7, <2>2
  <2>8. End(b, p, k) = bk + pk BY <2>1 DEF End
  <2> QED BY <2>3, <2>4, <2>6, <2>7, <2>8
<1>11. \A k \in 1..n - 1 : bb[k + 1] = bb[k] + q[k]
  <2> TAKE k \in 1..n - 1
  <2>1. k \in 1..n /\ k + 1 \in 1..n /\ (k + 1) - 1 = k BY <1>1
  <2>2. bb[k + 1] = Sum((k + 1) - 1) BY <2>1, <1>7
  <2> QED BY <2>1, <2>2, <1>10
<1>12. TotalOf(q) = bb[n] + q[n]
  <2>1. n \in 1..n /\ n \in 0..n BY <1>1, <1>2
  <2>2. TotalOf(q) = Sum(n) BY <2>1, <1>1, <1>6 DEF TotalOf
  <2> QED BY <2>1, <2>2, <1>10
<1>13. bb[1] = 0
  <2>1. 1 \in 1..n /\ 0 \in 0..n /\ 0 < this BY <1>1, <1>2
  <2>2. Sum(0) = 0 BY <2>1 DEF End, Shift
  <2>3. bb[1] = Sum(1 - 1) BY <2>1, <1>7
  <2> QED BY <2>2, <2>3
<1>14. \A k \in 1..n : q[k] >= 1
  <2> TAKE k \in 1..n
  <2> DEFINE pk == p[k]
  <2>1. pk \in Nat /\ pk >= 1 /\ q[k] = IF k = this THEN pk ELSE pk + 1
    BY <1>1, <1>2, <1>3
  <2> HIDE DEF pk, q
  <2> QED BY <2>1
<1>15. Tiles(bb, q, TotalOf(q))
  <2> HIDE DEF bb, q, Sum
  <2> QED BY <1>1, <1>2, <1>8, <1>11, <1>12, <1>13, <1>14 DEF Tiles
<1> QED BY <1>9, <1>15
=============================================================================
