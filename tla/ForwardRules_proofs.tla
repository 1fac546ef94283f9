------------------------- MODULE ForwardRules_proofs ------------------------
(***************************************************************************)
(* Theorems about ForwardRules, for any number of groups, libraries and    *)
(* objects, any configurations, any hash and any number of deaths.         *)
(***************************************************************************)
EXTENDS ForwardRules, SerialRanges_proofs, SequenceTheorems, FiniteSetTheorems

(* A sequence without its last element.                                    *)
LEMMA FrontType ==
  ASSUME NEW S, NEW s \in Seq(S)
  PROVE  Front(s) \in Seq(S)
PROOF
<1>1. CASE s = <<>> BY <1>1, SubSeqEmpty DEF Front
<1>2. CASE s # <<>>
  <2>1. \A i \in 1..Len(s) - 1 : s[i] \in S OBVIOUS
  <2>2. Len(s) \in Nat OBVIOUS
  <2> QED BY <2>1, <2>2, SubSeqProperties DEF Front
<1> QED BY <1>1, <1>2

(* Appending a record to a save file, cut short or not, leaves a save file.*)
LEMMA AppendedType ==
  ASSUME NEW R, NEW f \in File(R), NEW r \in R
  PROVE  Appended(f, r) \in File(R)
PROOF
<1>1. f.records \in Seq(R) /\ f.tail \in Tails
      /\ f = [records |-> f.records, tail |-> f.tail]
  BY DEF File
<1>2. Append(f.records, r) \in Seq(R) BY <1>1
<1>3. Front(f.records) \in Seq(R) BY <1>1, FrontType
<1> QED BY <1>1, <1>2, <1>3 DEF Appended, File, Tails

(* A record cut short leaves a save file too.                              *)
LEMMA CutAppendsType ==
  ASSUME NEW R, NEW f \in File(R), NEW r \in R
  PROVE  CutAppends(f, r) \subseteq File(R)
PROOF
<1>1. f.records \in Seq(R) /\ f.tail \in Tails BY DEF File
<1>2. Append(f.records, r) \in Seq(R) BY <1>1
<1>3. Appended(f, r) \in File(R) BY AppendedType
<1>4. /\ [f EXCEPT !.tail = "torn"] \in File(R)
      /\ [records |-> Append(f.records, r), tail |-> "noeol"] \in File(R)
  BY <1>2 DEF File, Tails
<1>5. CASE f.tail = "clean" BY <1>4, <1>5 DEF CutAppends
<1>6. CASE f.tail \in {"noeol", "torn"} BY <1>3, <1>6 DEF CutAppends
<1>7. CASE f.tail = "garbled" BY <1>7 DEF CutAppends
<1> QED BY <1>1, <1>5, <1>6, <1>7 DEF Tails

(* Half a record leaves a save file as well.                               *)
LEMMA TornByType ==
  ASSUME NEW R, NEW f \in File(R)
  PROVE  TornBy(f) \in File(R)
PROOF
<1>1. f.records \in Seq(R) /\ f.tail \in Tails
      /\ f = [records |-> f.records, tail |-> f.tail]
  BY DEF File
<1>2. Front(f.records) \in Seq(R) BY <1>1, FrontType
<1> QED BY <1>1, <1>2 DEF TornBy, File, Tails

(* The places of two sequences put together.                               *)
LEMMA ConcatAt ==
  ASSUME NEW S, NEW s \in Seq(S), NEW t \in Seq(S)
  PROVE  /\ s \o t \in Seq(S) /\ Len(s \o t) = Len(s) + Len(t)
         /\ \A j \in 1..Len(s) + Len(t) :
              (s \o t)[j] = IF j <= Len(s) THEN s[j] ELSE t[j - Len(s)]
OBVIOUS

(* Putting an element into a sequence moves those behind it.               *)
LEMMA InsertProperties ==
  ASSUME NEW S, NEW s \in Seq(S), NEW i \in 1..Len(s) + 1, NEW e \in S
  PROVE  /\ InsertAt(s, i, e) \in Seq(S)
         /\ Len(InsertAt(s, i, e)) = Len(s) + 1
         /\ \A j \in 1..Len(s) + 1 :
              InsertAt(s, i, e)[j] =
                IF j < i THEN s[j] ELSE IF j = i THEN e ELSE s[j - 1]
PROOF
<1>1. Len(s) \in Nat /\ i \in Nat /\ 1 <= i /\ i <= Len(s) + 1 OBVIOUS
<1> DEFINE a == SubSeq(s, 1, i - 1)
           b == SubSeq(s, i, Len(s))
           c == a \o <<e>>
<1>2. a \in Seq(S) /\ Len(a) = i - 1 /\ \A j \in 1..i - 1 : a[j] = s[j]
  BY <1>1
<1>3. /\ b \in Seq(S) /\ Len(b) = Len(s) - i + 1
      /\ \A j \in 1..Len(s) - i + 1 : b[j] = s[i + j - 1]
  BY <1>1
<1>4. InsertAt(s, i, e) = c \o b BY DEF InsertAt
<1> HIDE DEF a, b
<1>5. /\ c \in Seq(S) /\ Len(c) = i
      /\ \A j \in 1..i : c[j] = IF j < i THEN s[j] ELSE e
  BY <1>1, <1>2
<1> HIDE DEF c
<1> DEFINE d == c \o b
<1>6. /\ d \in Seq(S) /\ Len(d) = Len(s) + 1
      /\ \A j \in 1..Len(s) + 1 : d[j] = IF j <= i THEN c[j] ELSE b[j - i]
  <2>1. /\ d \in Seq(S) /\ Len(d) = Len(c) + Len(b)
        /\ \A j \in 1..Len(c) + Len(b) : d[j] = IF j <= Len(c) THEN c[j] ELSE b[j - Len(c)]
    <3>1. c \in Seq(S) /\ b \in Seq(S) BY <1>3, <1>5
    <3> QED BY <3>1, ConcatAt
  <2> HIDE DEF d
  <2>2. Len(c) = i /\ Len(c) + Len(b) = Len(s) + 1 BY <1>1, <1>3, <1>5
  <2> QED BY <2>1, <2>2
<1> HIDE DEF d
<1>7. ASSUME NEW j \in 1..Len(s) + 1
      PROVE  d[j] = IF j < i THEN s[j] ELSE IF j = i THEN e ELSE s[j - 1]
  <2>1. CASE j <= i BY <1>1, <1>5, <1>6, <2>1
  <2>2. CASE j > i
    <3>1. j - i \in 1..Len(s) - i + 1 /\ i + (j - i) - 1 = j - 1 BY <1>1, <2>2
    <3>2. b[j - i] = s[j - 1] BY <1>3, <3>1
    <3> QED BY <1>1, <1>6, <2>2, <3>2
  <2> QED BY <1>1, <2>1, <2>2
<1>8. InsertAt(s, i, e) = d BY <1>4 DEF d
<1> QED BY <1>6, <1>7, <1>8

(* The same as a relation between the sequences after and before.          *)
Inserted(t, s, i, e) ==
  /\ Len(t) = Len(s) + 1
  /\ \A j \in 1..Len(s) + 1 :
       t[j] = IF j < i THEN s[j] ELSE IF j = i THEN e ELSE s[j - 1]

(* InsertAt inserts.                                                       *)
LEMMA InsertInserts ==
  ASSUME NEW S, NEW s \in Seq(S), NEW i \in 1..Len(s) + 1, NEW e \in S
  PROVE  InsertAt(s, i, e) \in Seq(S) /\ Inserted(InsertAt(s, i, e), s, i, e)
BY InsertProperties DEF Inserted

(* The places of such a sequence, with those behind n counted from there.  *)
LEMMA InsertedAt ==
  ASSUME NEW t, NEW s, NEW n \in Nat, NEW m \in Nat, n <= m, NEW e,
         Len(s) = m, Inserted(t, s, n + 1, e)
  PROVE  \A j \in 1..m + 1 :
           t[j] = IF j = n + 1 THEN e ELSE s[IF j <= n THEN j ELSE j - 1]
PROOF
<1> TAKE j \in 1..m + 1
<1>1. t[j] = IF j < n + 1 THEN s[j] ELSE IF j = n + 1 THEN e ELSE s[j - 1]
  BY DEF Inserted
<1>2. CASE j < n + 1 BY <1>1, <1>2
<1>3. CASE j = n + 1 BY <1>1, <1>3
<1>4. CASE j > n + 1 BY <1>1, <1>4
<1> QED BY <1>2, <1>3, <1>4

(* Put behind all the others it is appended.                               *)
LEMMA InsertLast ==
  ASSUME NEW S, NEW s \in Seq(S), NEW i, i = Len(s) + 1, NEW e \in S
  PROVE  InsertAt(s, i, e) = Append(s, e)
PROOF
<1> DEFINE q == InsertAt(s, i, e)
           p == Append(s, e)
<1>1. i \in 1..Len(s) + 1 OBVIOUS
<1>2. q \in Seq(S) /\ Inserted(q, s, i, e) BY <1>1, InsertInserts
<1>3. /\ p \in Seq(S) /\ Len(p) = Len(s) + 1
      /\ \A j \in 1..Len(s) + 1 : p[j] = IF j <= Len(s) THEN s[j] ELSE e
  OBVIOUS
<1> HIDE DEF q, p
<1>4. Len(q) = Len(p) /\ \A j \in 1..Len(s) + 1 : q[j] = p[j]
  BY <1>1, <1>2, <1>3 DEF Inserted
<1>5. q = p BY <1>2, <1>3, <1>4, SeqEqual
<1> QED BY <1>5 DEF q, p

(* It adds its element to those of the sequence, and no other.             *)
LEMMA InsertRange ==
  ASSUME NEW S, NEW s \in Seq(S), NEW i \in 1..Len(s) + 1, NEW e \in S
  PROVE  Range(InsertAt(s, i, e)) = Range(s) \cup {e}
PROOF
<1> DEFINE q == InsertAt(s, i, e)
<1>1. /\ q \in Seq(S) /\ Len(q) = Len(s) + 1
      /\ \A j \in 1..Len(s) + 1 :
           q[j] = IF j < i THEN s[j] ELSE IF j = i THEN e ELSE s[j - 1]
  BY InsertProperties
<1>1a. Len(s) \in Nat /\ i \in Nat /\ 1 <= i /\ i <= Len(s) + 1 OBVIOUS
<1> HIDE DEF q
<1>2. Range(q) = {q[j] : j \in 1..Len(s) + 1} /\ Range(s) = {s[j] : j \in 1..Len(s)}
  BY <1>1 DEF Range
<1>3. ASSUME NEW j \in 1..Len(s) + 1 PROVE q[j] \in Range(s) \cup {e}
  <2>1. j < i => j \in 1..Len(s) BY <1>1a
  <2>2. j > i => j - 1 \in 1..Len(s) BY <1>1a
  <2> QED BY <1>1, <1>1a, <1>2, <2>1, <2>2
<1>4. ASSUME NEW j \in 1..Len(s) PROVE s[j] \in Range(q)
  <2>1. CASE j < i
    <3>1. j \in 1..Len(s) + 1 BY <1>1a
    <3>2. q[j] = s[j] BY <1>1, <2>1, <3>1
    <3> QED BY <1>2, <3>1, <3>2
  <2>2. CASE j >= i
    <3>1. j + 1 \in 1..Len(s) + 1 /\ j + 1 > i /\ j + 1 - 1 = j BY <1>1a, <2>2
    <3>2. q[j + 1] = s[j] BY <1>1, <1>1a, <3>1
    <3> QED BY <1>2, <3>1, <3>2
  <2> QED BY <1>1a, <2>1, <2>2
<1>5. e \in Range(q) BY <1>1, <1>2
<1> QED BY <1>2, <1>3, <1>4, <1>5 DEF q
-----------------------------------------------------------------------------
(* A configuration is a non-empty sequence of groups.                      *)
LEMMA ConfsType ==
  ASSUME NEW c \in Confs
  PROVE  /\ c \in Seq(Instances)
         /\ Len(c) \in Nat \ {0}
         /\ DOMAIN c = 1..Len(c)
PROOF
<1>1. c \in Seq(Instances) /\ c # <<>> BY RulesAssumption
<1>2. Len(c) # 0 BY <1>1, EmptySeq
<1> QED BY <1>1, <1>2

(* The class files bind objects to libraries.                              *)
LEMMA BoundByType ==
  ASSUME TypeOK, NEW x \in Correlated
  PROVE  BoundBy(x) \subseteq Libraries
PROOF
<1> DEFINE R == csave[x[1]].records
<1>1. x[1] \in Classes BY DEF Correlated
<1>2. R \in Seq(ObjectRecord) BY <1>1 DEF TypeOK, File
<1> HIDE DEF R
<1>3. Range(R) \subseteq ObjectRecord BY <1>2, RangeOfSeq
<1>4. \A r \in Range(R) : r.library \in Libraries BY <1>3 DEF ObjectRecord
<1> QED BY <1>4 DEF BoundBy, R

(* The initial state is typed.                                             *)
LEMMA InitType == Init => TypeOK
PROOF
<1> SUFFICES ASSUME Init PROVE TypeOK OBVIOUS
<1>1. EmptyFile \in File(LibraryRecord) /\ EmptyFile \in File(ObjectRecord)
  BY DEF EmptyFile, File, Tails
<1>2. damaged \in BOOLEAN
  <2>1. damaged = FALSE BY DEF Init
  <2> QED BY <2>1
<1> QED BY <1>1, <1>2, RulesAssumption DEF Init, TypeOK, NoLibraries, NoObjects

(* Exit gives every variable of the memory a legal value.                  *)
LEMMA ExitType ==
  ASSUME TypeOK, Exit, UNCHANGED ghosts, conf' \in Confs,
         save' \in File(LibraryRecord), csave' \in [Classes -> File(ObjectRecord)],
         kills' \in 0..MaxKills
  PROVE  TypeOK'
PROOF
<1>1. damaged' \in BOOLEAN
  <2>1. damaged' = FALSE BY DEF Exit
  <2> QED BY <2>1
<1> QED BY <1>1 DEF TypeOK, Exit, ghosts, NoLibraries, NoObjects

(* The loop that shifts the weights keeps the table typed.                 *)
LEMMA IncreasePowerTypes ==
  ASSUME TypeOK, NEW k, IncreasePower(k)
  PROVE  /\ power' \in Seq(Nat) /\ begin' \in Seq(Nat) /\ total' \in Nat
         /\ Len(power') = Len(groups) /\ Len(begin') = Len(groups)
PROOF
<1>1. power \in Seq(Nat) /\ Len(power) = Len(groups) BY DEF TypeOK
<1> DEFINE q == IncreasedPower(power, k)
<1>2. q \in Seq(Nat) /\ Len(q) = Len(power) BY <1>1, IncreasedPowerType
<1> HIDE DEF q
<1>3. /\ BeginsOf(q) \in Seq(Nat) /\ Len(BeginsOf(q)) = Len(q)
      /\ TotalOf(q) \in Nat
  BY <1>2, RebuiltType
<1>4. power' = q /\ begin' = BeginsOf(q) /\ total' = TotalOf(q)
  BY DEF IncreasePower, q
<1> QED BY <1>1, <1>2, <1>3, <1>4

(* The type invariant, in groups of variables that change together.        *)
TableType ==
  /\ groups \in Seq(Instances)
  /\ power \in Seq(Nat) /\ begin \in Seq(Nat) /\ base \in Seq(Int)
  /\ Len(power) = Len(groups) /\ Len(begin) = Len(groups) /\ Len(base) = Len(groups)
  /\ total \in Nat

RulesType ==
  /\ library \in [Libraries -> Instances \cup {None}]
  /\ damaged \in BOOLEAN
  /\ bound \in [Correlated -> Libraries \cup {None}]

DiskType ==
  /\ conf \in Confs
  /\ save \in File(LibraryRecord)
  /\ csave \in [Classes -> File(ObjectRecord)]

GhostType ==
  /\ routed \in [Libraries -> SUBSET Instances]
  /\ acked \in [Correlated -> SUBSET Libraries]
  /\ served \in [Correlated -> SUBSET Libraries]

ControlType ==
  /\ phase \in {"down", "replay", "up", "reload"}
  /\ pos \in Nat
  /\ kills \in 0..MaxKills

(* The parts make up the type invariant,                                   *)
LEMMA TypeParts ==
  TypeOK <=> TableType /\ RulesType /\ DiskType /\ GhostType /\ ControlType
BY DEF TypeOK, TableType, RulesType, DiskType, GhostType, ControlType

(* and so they do in the next state.                                       *)
LEMMA TypePartsNext ==
  TypeOK' <=> TableType' /\ RulesType' /\ DiskType' /\ GhostType' /\ ControlType'
BY TypeParts DEF TypeOK, TableType, RulesType, DiskType, GhostType, ControlType
-----------------------------------------------------------------------------
(* Loading keeps the types (LoadConfig).                                   *)
LEMMA LoadType == TypeOK /\ Load => TypeOK'
PROOF
<1> SUFFICES ASSUME TypeOK, Load PROVE TypeOK' OBVIOUS
<1>0. TableType /\ RulesType /\ DiskType /\ GhostType /\ ControlType BY TypeParts
<1>1. CASE StartWorker
  <2>1. /\ conf \in Seq(Instances) /\ Len(conf) \in Nat \ {0}
        /\ DOMAIN conf = 1..Len(conf)
    BY <1>0, ConfsType DEF DiskType
  <2>2. TableType'
    BY <1>1, <2>1 DEF StartWorker, TableType
  <2>3. RulesType' /\ DiskType' /\ GhostType' /\ ControlType'
    BY <1>0, <1>1 DEF StartWorker, RulesType, DiskType, GhostType, ControlType,
                      disk, ghosts
  <2> QED BY <2>2, <2>3, TypePartsNext
<1>2. CASE ReplayRecord
  <2> DEFINE r == save.records[pos + 1]
  <2>1. r \in LibraryRecord
    <3>1. save.records \in Seq(LibraryRecord) BY <1>0 DEF DiskType, File
    <3>2. pos + 1 \in 1..Len(save.records)
      BY <1>0, <1>2, <3>1 DEF ReplayRecord, ControlType
    <3> QED BY <3>1, <3>2
  <2>2. r.library \in Libraries /\ r.instance \in Instances
    BY <2>1 DEF LibraryRecord
  <2>3. PICK k \in DOMAIN groups : IncreasePower(k) BY <1>2 DEF ReplayRecord
  <2>4. TableType'
    BY <1>0, <1>2, <2>3, IncreasePowerTypes DEF ReplayRecord, TableType
  <2>5. library' = [library EXCEPT ![r.library] = r.instance]
    BY <1>2 DEF ReplayRecord
  <2> HIDE DEF r
  <2>6. RulesType' BY <1>0, <1>2, <2>2, <2>5 DEF ReplayRecord, RulesType
  <2>7. DiskType' /\ GhostType' /\ ControlType'
    BY <1>0, <1>2 DEF ReplayRecord, DiskType, GhostType, ControlType, disk, ghosts
  <2> QED BY <2>4, <2>6, <2>7, TypePartsNext
<1>3. CASE FinishLoad
  <2>1. \A x \in Correlated :
          (IF BoundBy(x) = {} THEN None ELSE CHOOSE l \in BoundBy(x) : TRUE)
            \in Libraries \cup {None}
    BY BoundByType
  <2>2. RulesType' BY <1>0, <1>3, <2>1 DEF FinishLoad, RulesType
  <2>3. TableType' /\ DiskType' /\ GhostType' /\ ControlType'
    BY <1>0, <1>3 DEF FinishLoad, TableType, DiskType, GhostType, ControlType,
                      disk, ghosts
  <2> QED BY <2>2, <2>3, TypePartsNext
<1>4. CASE RejectRecord
  BY <1>0, <1>4, ExitType DEF RejectRecord, disk, DiskType, ControlType
<1>5. CASE RejectFiles
  BY <1>0, <1>5, ExitType DEF RejectFiles, disk, DiskType, ControlType
<1> QED BY <1>1, <1>2, <1>3, <1>4, <1>5 DEF Load

(* Reloading keeps the types (ReloadConfig).                               *)
LEMMA ReloadType == TypeOK /\ Reload => TypeOK'
PROOF
<1> SUFFICES ASSUME TypeOK, Reload PROVE TypeOK' OBVIOUS
<1>0. TableType /\ RulesType /\ DiskType /\ GhostType /\ ControlType BY TypeParts
<1>1. CASE BeginReload
  BY <1>1 DEF BeginReload, TypeOK, disk, ghosts
<1>2. CASE ReloadKnownGroup
  BY <1>2 DEF ReloadKnownGroup, TypeOK, disk, ghosts
<1>3. CASE ReloadNewGroup
  <2>1. conf[pos + 1] \in Instances
    <3>1. conf \in Seq(Instances) BY <1>0, ConfsType DEF DiskType
    <3>2. pos + 1 \in 1..Len(conf) BY <1>0, <1>3, <3>1 DEF ReloadNewGroup, ControlType
    <3> QED BY <3>1, <3>2
  <2>2. total - Cardinality(Assigned) \in Int
    <3>1. Assigned \subseteq Libraries BY DEF Assigned
    <3>2. IsFiniteSet(Assigned) BY <3>1, FS_Subset, RulesAssumption
    <3>3. Cardinality(Assigned) \in Nat BY <3>2, FS_CardinalityType
    <3> QED BY <3>3, <1>0 DEF TableType
  <2>3. total' \in Nat BY <1>0, <1>3, ULongType DEF ReloadNewGroup, TableType
  <2> DEFINE d == total - Cardinality(Assigned)  g == conf[pos + 1]
  <2>4. PICK n \in LinkPlaces(begin, total) :
          /\ groups' = InsertAt(groups, n + 1, g) /\ power' = InsertAt(power, n + 1, total)
          /\ begin' = InsertAt(begin, n + 1, total) /\ base' = InsertAt(base, n + 1, d)
    BY <1>3 DEF ReloadNewGroup
  <2>5. g \in Instances /\ d \in Int /\ total \in Nat BY <1>0, <2>1, <2>2 DEF TableType
  <2>6. n + 1 \in 1..Len(groups) + 1 BY <1>0 DEF LinkPlaces, TableType
  <2> HIDE DEF d, g
  <2>7. groups' \in Seq(Instances) /\ Len(groups') = Len(groups) + 1
    BY <1>0, <2>4, <2>5, <2>6, InsertProperties DEF TableType
  <2>8. power' \in Seq(Nat) /\ Len(power') = Len(groups) + 1
    BY <1>0, <2>4, <2>5, <2>6, InsertProperties DEF TableType
  <2>9. begin' \in Seq(Nat) /\ Len(begin') = Len(groups) + 1
    BY <1>0, <2>4, <2>5, <2>6, InsertProperties DEF TableType
  <2>10. base' \in Seq(Int) /\ Len(base') = Len(groups) + 1
    BY <1>0, <2>4, <2>5, <2>6, InsertProperties DEF TableType
  <2>11. TableType' BY <2>3, <2>7, <2>8, <2>9, <2>10 DEF TableType
  <2>12. RulesType' /\ DiskType' /\ GhostType' /\ ControlType'
    BY <1>0, <1>3 DEF ReloadNewGroup, RulesType, DiskType, GhostType, ControlType,
                      disk, ghosts
  <2> QED BY <2>11, <2>12, TypePartsNext
<1>4. CASE EndReload \/ ReloadFails
  BY <1>4 DEF EndReload, ReloadFails, TypeOK, disk, ghosts
<1> QED BY <1>1, <1>2, <1>3, <1>4 DEF Reload

(* A group found for a library, and what the record of it looks like.      *)
LEMMA FoundType ==
  ASSUME TypeOK, NEW l \in Libraries
  PROVE  Found(l) \ {None} \subseteq Instances
BY DEF Found, TypeOK

(* An index into the weight table names a group.                           *)
LEMMA GroupType ==
  ASSUME TypeOK, NEW k \in DOMAIN groups
  PROVE  groups[k] \in Instances
BY DEF TypeOK

(* Linking a library keeps the table and the library tree typed.           *)
LEMMA LinkType ==
  ASSUME TypeOK, NEW l \in Libraries, NEW k \in DOMAIN groups,
         LinkLibrary(l, k), UNCHANGED <<groups, base>>
  PROVE  /\ TableType'
         /\ library' \in [Libraries -> Instances \cup {None}]
PROOF
<1>1. IncreasePower(k) /\ library' = [library EXCEPT ![l] = groups[k]]
  BY DEF LinkLibrary
<1>2. groups[k] \in Instances BY GroupType
<1>3. TableType' BY <1>1, IncreasePowerTypes DEF TypeOK, TableType
<1>4. library' \in [Libraries -> Instances \cup {None}] BY <1>1, <1>2 DEF TypeOK
<1> QED BY <1>3, <1>4

(* Selecting a library keeps the types (SelectDatabaseLibrary).            *)
LEMMA SelectType ==
  ASSUME TypeOK, NEW l \in Libraries,
         \/ SelectKnown(l) \/ SelectNew(l) \/ SelectNewOpenFails(l)
         \/ SelectNewNull(l) \/ SelectByZero(l)
  PROVE  TypeOK'
PROOF
<1>0. TableType /\ RulesType /\ DiskType /\ GhostType /\ ControlType BY TypeParts
<1>1. CASE SelectKnown(l)
  <2>1. PICK i \in Found(l) \ {None} : routed' = [routed EXCEPT ![l] = @ \cup {i}]
    BY <1>1 DEF SelectKnown
  <2>2. i \in Instances BY FoundType
  <2>3. GhostType' BY <1>0, <1>1, <2>1, <2>2 DEF SelectKnown, GhostType
  <2>4. TableType' /\ RulesType' /\ DiskType' /\ ControlType'
    BY <1>0, <1>1 DEF SelectKnown, TableType, RulesType, DiskType, ControlType,
                      memory, disk
  <2> QED BY <2>3, <2>4, TypePartsNext
<1>2. CASE SelectNew(l)
  <2> DEFINE rec(k) == [library |-> l, instance |-> groups[k]]
  <2>1. PICK k \in DOMAIN groups :
          /\ LinkLibrary(l, k)
          /\ save' = Appended(save, rec(k))
          /\ routed' \in Bridges(l, groups[k])
    BY <1>2 DEF SelectNew
  <2>2. groups[k] \in Instances BY GroupType
  <2>3. rec(k) \in LibraryRecord BY <2>2 DEF LibraryRecord
  <2> HIDE DEF rec
  <2>4. save' \in File(LibraryRecord)
    BY <1>0, <2>1, <2>3, AppendedType DEF DiskType
  <2>5. TableType' /\ library' \in [Libraries -> Instances \cup {None}]
    BY <1>2, <2>1, LinkType DEF SelectNew
  <2>6. RulesType' /\ DiskType' /\ ControlType'
    BY <1>0, <1>2, <2>4, <2>5 DEF SelectNew, RulesType, DiskType, ControlType
  <2>7. GhostType' BY <1>0, <1>2, <2>1, <2>2 DEF SelectNew, GhostType, Bridges
  <2> QED BY <2>5, <2>6, <2>7, TypePartsNext
<1>3. CASE SelectNewOpenFails(l)
  <2>1. PICK k \in 0..Len(groups) : IncreasePower(k) BY <1>3 DEF SelectNewOpenFails
  <2>2. TableType'
    BY <1>0, <1>3, <2>1, IncreasePowerTypes DEF SelectNewOpenFails, TableType
  <2>3. RulesType' /\ DiskType' /\ GhostType' /\ ControlType'
    BY <1>0, <1>3
    DEF SelectNewOpenFails, RulesType, DiskType, GhostType, ControlType, disk, ghosts
  <2> QED BY <2>2, <2>3, TypePartsNext
<1>4. CASE SelectNewNull(l)
  <2>1. kills' \in 0..MaxKills
    BY <1>0, <1>4, RulesAssumption DEF SelectNewNull, ControlType
  <2>2. save' \in File(LibraryRecord) BY <1>0, <1>4, TornByType DEF SelectNewNull, DiskType
  <2> QED BY <1>0, <1>4, <2>1, <2>2, ExitType DEF SelectNewNull, DiskType
<1>5. CASE SelectByZero(l)
  <2>1. kills' \in 0..MaxKills
    BY <1>0, <1>5, RulesAssumption DEF SelectByZero, ControlType
  <2> QED BY <1>0, <1>5, <2>1, ExitType DEF SelectByZero, disk, DiskType
<1> QED BY <1>1, <1>2, <1>3, <1>4, <1>5

(* The requests about objects keep the types.                              *)
LEMMA CorrelType ==
  ASSUME TypeOK, NEW c \in Classes, NEW o \in Objects,
         \/ SelectByCorrel(c, o)
         \/ \E l \in Libraries :
              SetCorrel(c, o, l) \/ SetCorrelOpenFails(c, o, l) \/ SetCorrelAgain(c, o, l)
  PROVE  TypeOK'
PROOF
<1>0. TableType /\ RulesType /\ DiskType /\ GhostType /\ ControlType BY TypeParts
<1> DEFINE x == <<c, o>>
<1>1. x \in Correlated BY DEF Correlated
<1>2. CASE SelectByCorrel(c, o)
  <2> DEFINE l == bound[x]
  <2>1. l \in Libraries BY <1>0, <1>1, <1>2 DEF SelectByCorrel, RulesType
  <2>2. PICK i \in Found(l) \ {None} : routed' = [routed EXCEPT ![l] = @ \cup {i}]
    BY <1>2 DEF SelectByCorrel
  <2>3. i \in Instances BY <2>1, FoundType
  <2>4. served' = [served EXCEPT ![x] = @ \cup {l}] BY <1>2 DEF SelectByCorrel
  <2>5. acked' = acked BY <1>2 DEF SelectByCorrel
  <2> HIDE DEF l, x
  <2>6. GhostType' BY <1>0, <1>1, <2>1, <2>2, <2>3, <2>4, <2>5 DEF GhostType
  <2>7. TableType' /\ RulesType' /\ DiskType' /\ ControlType'
    BY <1>0, <1>2 DEF SelectByCorrel, TableType, RulesType, DiskType, ControlType,
                      memory, disk
  <2> QED BY <2>6, <2>7, TypePartsNext
<1>3. ASSUME NEW l \in Libraries, SetCorrel(c, o, l) PROVE TypeOK'
  <2> DEFINE r == [object |-> o, library |-> l]
  <2>1. r \in ObjectRecord BY DEF ObjectRecord
  <2>2. csave' = [csave EXCEPT ![c] = Appended(@, r)] BY <1>3 DEF SetCorrel
  <2>3. /\ bound' = [bound EXCEPT ![x] = l]
        /\ acked' = [acked EXCEPT ![x] = @ \cup {l}]
    BY <1>3 DEF SetCorrel, Ack
  <2> HIDE DEF r, x
  <2>4. Appended(csave[c], r) \in File(ObjectRecord)
    BY <1>0, <2>1, AppendedType DEF DiskType
  <2>5. csave' \in [Classes -> File(ObjectRecord)] BY <1>0, <2>2, <2>4 DEF DiskType
  <2>6. DiskType' BY <1>0, <1>3, <2>5 DEF SetCorrel, DiskType
  <2>7. RulesType' BY <1>0, <1>1, <1>3, <2>3 DEF SetCorrel, RulesType
  <2>8. GhostType' BY <1>0, <1>1, <1>3, <2>3 DEF SetCorrel, GhostType
  <2>9. TableType' /\ ControlType' BY <1>0, <1>3 DEF SetCorrel, TableType, ControlType
  <2> QED BY <2>6, <2>7, <2>8, <2>9, TypePartsNext
<1>4. ASSUME NEW l \in Libraries, SetCorrelOpenFails(c, o, l) \/ SetCorrelAgain(c, o, l)
      PROVE TypeOK'
  <2>1. acked' = [acked EXCEPT ![x] = @ \cup {l}]
    BY <1>4 DEF SetCorrelOpenFails, SetCorrelAgain, Ack
  <2>2. UNCHANGED <<phase, memory, disk, routed, served, kills>>
    BY <1>4 DEF SetCorrelOpenFails, SetCorrelAgain
  <2> HIDE DEF x
  <2>3. GhostType' BY <1>0, <1>1, <2>1, <2>2 DEF GhostType
  <2>4. TableType' /\ RulesType' /\ DiskType' /\ ControlType'
    BY <1>0, <2>2 DEF TableType, RulesType, DiskType, ControlType, memory, disk
  <2> QED BY <2>3, <2>4, TypePartsNext
<1> QED BY <1>2, <1>3, <1>4

(* The deaths of the worker keep the types.                                *)
LEMMA DeathType == TypeOK /\ Death => TypeOK'
PROOF
<1> SUFFICES ASSUME TypeOK, Death PROVE TypeOK' OBVIOUS
<1>0. TableType /\ RulesType /\ DiskType /\ GhostType /\ ControlType BY TypeParts
<1>1. kills < MaxKills /\ kills' = kills + 1 => kills' \in 0..MaxKills
  BY <1>0, RulesAssumption DEF ControlType
<1>2. CASE Kill
  BY <1>0, <1>1, <1>2, ExitType DEF Kill, disk, DiskType
<1>3. ASSUME NEW l \in Libraries, KillInSelect(l) PROVE TypeOK'
  <2> DEFINE rec(k) == [library |-> l, instance |-> groups[k]]
  <2>1. PICK k \in DOMAIN groups : save' \in CutAppends(save, rec(k))
    BY <1>3 DEF KillInSelect
  <2>2. rec(k) \in LibraryRecord BY GroupType DEF LibraryRecord
  <2> HIDE DEF rec
  <2>3. save' \in File(LibraryRecord)
    BY <1>0, <2>1, <2>2, CutAppendsType DEF DiskType
  <2> QED BY <1>0, <1>1, <1>3, <2>3, ExitType DEF KillInSelect, DiskType
<1>4. ASSUME NEW c \in Classes, NEW o \in Objects, NEW l \in Libraries,
             KillInSet(c, o, l)
      PROVE  TypeOK'
  <2> DEFINE r == [object |-> o, library |-> l]
  <2>1. PICK f \in CutAppends(csave[c], r) : csave' = [csave EXCEPT ![c] = f]
    BY <1>4 DEF KillInSet
  <2>2. r \in ObjectRecord BY DEF ObjectRecord
  <2> HIDE DEF r
  <2>3. f \in File(ObjectRecord) BY <1>0, <2>1, <2>2, CutAppendsType DEF DiskType
  <2>4. csave' \in [Classes -> File(ObjectRecord)] BY <1>0, <2>1, <2>3 DEF DiskType
  <2> QED BY <1>0, <1>1, <1>4, <2>4, ExitType DEF KillInSet, DiskType
<1> QED BY <1>2, <1>3, <1>4 DEF Death

(* Every step keeps the types.                                             *)
LEMMA NextType == TypeOK /\ [Next]_vars => TypeOK'
PROOF
<1> SUFFICES ASSUME TypeOK, [Next]_vars PROVE TypeOK' OBVIOUS
<1>1. CASE Load BY <1>1, LoadType
<1>2. CASE Reload BY <1>2, ReloadType
<1>3. CASE Request BY <1>3, SelectType, CorrelType DEF Request
<1>4. CASE Death BY <1>4, DeathType
<1>5. CASE EditConf BY <1>5 DEF EditConf, TypeOK, memory, ghosts
<1>6. CASE UNCHANGED vars BY <1>6 DEF vars, memory, disk, ghosts, TypeOK
<1> QED BY <1>1, <1>2, <1>3, <1>4, <1>5, <1>6 DEF Next

(* Every variable keeps its type, whatever the number of groups, libraries *)
(* and objects and whichever saves fail.                                   *)
THEOREM TypeCorrect == Spec => []TypeOK
PROOF
<1>1. Init => TypeOK BY InitType
<1>2. TypeOK /\ [Next]_vars => TypeOK' BY NextType
<1> QED BY <1>1, <1>2, PTL DEF Spec
-----------------------------------------------------------------------------
(* The int accumulator of config.c:55 is wide enough for every table.      *)
NoOverflow ==
  /\ MaxPower < IntHalf
  /\ \A c \in Confs : Len(c) < IntHalf

(* RangesTile is inductive once the total is known to fit the accumulator. *)
TableInv == phase # "down" => Tiles(begin, power, total) /\ total < IntHalf

(* Shifting the weights keeps the ranges a tiling.                         *)
LEMMA IncreaseKeepsTable ==
  ASSUME NoOverflow, TypeOK, TableInv, phase # "down", PowerFits,
         NEW k \in DOMAIN groups, IncreasePower(k)
  PROVE  TableInv'
PROOF
<1>1. /\ power \in Seq(Nat) /\ begin \in Seq(Nat) /\ total \in Nat
      /\ k \in 1..Len(power) /\ Len(groups) = Len(power) /\ Len(power) \in Nat
  BY DEF TypeOK
<1>2. Tiles(begin, power, total) /\ total < IntHalf BY DEF TableInv
<1>3. total + Len(power) - 1 <= MaxPower /\ MaxPower < IntHalf /\ MaxPower \in Nat
  BY <1>1, RulesAssumption DEF PowerFits, NoOverflow
<1>4. total + Len(power) - 1 < IntHalf
  BY <1>1, <1>3, WidthAssumption
<1> DEFINE q == IncreasedPower(power, k)
<1>5. /\ Tiles(BeginsOf(q), q, TotalOf(q))
      /\ TotalOf(q) = total + Len(power) - 1
  BY <1>1, <1>2, <1>4, IncreaseTiles
<1>6. power' = q /\ begin' = BeginsOf(q) /\ total' = TotalOf(q)
  BY DEF IncreasePower
<1> HIDE DEF q
<1> QED BY <1>4, <1>5, <1>6 DEF TableInv

(* A table that tiles gives every serial number to one group.              *)
LEMMA HoldersOfTable ==
  ASSUME TypeOK, TableInv, phase # "down", NEW h \in 0..total - 1
  PROVE  \E k \in DOMAIN groups : Holders(begin, power, h) = {k}
PROOF
<1>1. /\ power \in Seq(Nat) /\ begin \in Seq(Nat) /\ total \in Nat
      /\ DOMAIN groups = 1..Len(power)
  BY DEF TypeOK
<1>2. Tiles(begin, power, total) /\ total < IntHalf BY DEF TableInv
<1>3. total < LongMod BY <1>1, <1>2, WidthAssumption
<1>4. \E k \in 1..Len(power) : Holders(begin, power, h) = {k}
  BY <1>1, <1>2, <1>3, OneHolderOfTiles
<1> QED BY <1>1, <1>4

(* A new library goes to a group then: the query does not yield NULL.      *)
LEMMA NewLibraryGroup ==
  ASSUME TypeOK, TableInv, NEW l \in Libraries, NEW k, NewLibrary(l, k)
  PROVE  k \in DOMAIN groups
PROOF
<1>1. phase # "down" /\ total # 0 /\ total \in Nat /\ HashOf[l] \in Nat
  BY RulesAssumption DEF NewLibrary, TypeOK
<1> DEFINE h == HashOf[l] % total
<1>2. h \in 0..total - 1 BY <1>1
<1>3. k \in Queried(h) BY DEF NewLibrary
<1> HIDE DEF h
<1>4. PICK g \in DOMAIN groups : Holders(begin, power, h) = {g}
  BY <1>1, <1>2, HoldersOfTable
<1>5. Tiles(begin, power, total) BY <1>1 DEF TableInv
<1> QED BY <1>3, <1>4, <1>5 DEF Queried

(* A new group, which begins at the total, goes behind all the others.     *)
LEMMA LinkedLast ==
  ASSUME power \in Seq(Nat), begin \in Seq(Nat), total \in Nat,
         Tiles(begin, power, total), NEW n \in LinkPlaces(begin, total)
  PROVE  n = Len(begin)
PROOF
<1>1. n \in 0..Len(begin) /\ (n < Len(begin) => total < begin[n + 1])
  BY DEF LinkPlaces
<1>2. ASSUME n < Len(begin) PROVE FALSE
  <2>1. n + 1 \in 1..Len(power) BY <1>1, <1>2 DEF Tiles
  <2>2. begin[n + 1] + power[n + 1] <= total BY <2>1, TilesBounded
  <2>3. begin[n + 1] \in Nat /\ power[n + 1] \in Nat BY <2>1 DEF Tiles
  <2> QED BY <1>1, <1>2, <2>2, <2>3
<1> QED BY <1>1, <1>2

(* Every step keeps the ranges a tiling.                                   *)
LEMMA TableStep ==
  ASSUME NoOverflow, TypeOK, TableInv, [Next]_vars
  PROVE  TableInv'
PROOF
<1>1. CASE StartWorker
  <2>1. Len(conf) \in Nat \ {0} /\ DOMAIN conf = 1..Len(conf) /\ Len(conf) < IntHalf
    BY ConfsType DEF TypeOK, NoOverflow
  <2> QED BY <1>1, <2>1, FirstTableTiles DEF StartWorker, TableInv
<1>2. CASE ReplayRecord
  <2>1. PICK k \in DOMAIN groups : IncreasePower(k) BY <1>2 DEF ReplayRecord
  <2>2. PowerFits /\ phase # "down" BY <1>2 DEF ReplayRecord
  <2> QED BY <2>1, <2>2, IncreaseKeepsTable
<1>3. CASE FinishLoad BY <1>3 DEF FinishLoad, FilesRead, TableInv
<1>4. CASE RejectRecord \/ RejectFiles
  BY <1>4 DEF RejectRecord, RejectFiles, Exit, TableInv
<1>5. CASE BeginReload \/ ReloadKnownGroup \/ ReloadFails \/ EndReload
  BY <1>5 DEF BeginReload, ReloadKnownGroup, ReloadFails, EndReload, TableInv
<1>6. CASE ReloadNewGroup
  <2>1. Tiles(begin, power, total) /\ total < IntHalf
    BY <1>6 DEF ReloadNewGroup, TableInv
  <2>2. /\ power \in Seq(Nat) /\ begin \in Seq(Nat) /\ total \in Nat
    BY DEF TypeOK
  <2>3. Tiles(begin', power', total + total)
    <3>1. PICK n \in LinkPlaces(begin, total) :
            power' = InsertAt(power, n + 1, total) /\ begin' = InsertAt(begin, n + 1, total)
      BY <1>6 DEF ReloadNewGroup
    <3>2. n = Len(begin) /\ Len(begin) = Len(power)
      BY <2>1, <2>2, <3>1, LinkedLast DEF Tiles
    <3>3. power' = Append(power, total) /\ begin' = Append(begin, total)
      BY <2>2, <3>1, <3>2, InsertLast
    <3> QED BY <2>1, <2>2, <3>3, AppendedTiles
  <2>4. total + total \in Nat /\ total + total < IntHalf /\ total + total < LongMod
    <3>1. 2 * total <= MaxPower /\ MaxPower < IntHalf /\ MaxPower \in Nat
      BY <1>6, RulesAssumption DEF ReloadNewGroup, NoOverflow
    <3> QED BY <3>1, <2>2, WidthAssumption
  <2>5. total' = total + total BY <1>6, <2>4, ULongSmall DEF ReloadNewGroup
  <2> QED BY <1>6, <2>3, <2>4, <2>5 DEF ReloadNewGroup, TableInv
<1>7. ASSUME NEW l \in Libraries, SelectNew(l) \/ SelectNewOpenFails(l)
      PROVE  TableInv'
  <2>1. PICK k \in 0..Len(groups) : NewLibrary(l, k) /\ IncreasePower(k)
    <3>1. groups \in Seq(Instances) BY DEF TypeOK
    <3>2. DOMAIN groups \subseteq 0..Len(groups) BY <3>1
    <3> QED BY <1>7, <3>2 DEF SelectNew, SelectNewOpenFails, LinkLibrary
  <2>2. PowerFits /\ phase # "down" /\ IncreasePower(k)
    BY <2>1 DEF NewLibrary
  <2>3. k \in DOMAIN groups BY <2>1, NewLibraryGroup
  <2> QED BY <2>2, <2>3, IncreaseKeepsTable
<1>8. ASSUME NEW l \in Libraries, SelectNewNull(l) \/ SelectByZero(l) PROVE TableInv'
  BY <1>8 DEF SelectNewNull, SelectByZero, Exit, TableInv
<1>9. ASSUME NEW l \in Libraries, SelectKnown(l) PROVE TableInv'
  BY <1>9 DEF SelectKnown, memory, TableInv
<1>10. ASSUME NEW c \in Classes, NEW o \in Objects,
              \/ SelectByCorrel(c, o)
              \/ \E l \in Libraries :
                   \/ SetCorrel(c, o, l) \/ SetCorrelOpenFails(c, o, l)
                   \/ SetCorrelAgain(c, o, l)
       PROVE  TableInv'
  BY <1>10 DEF SelectByCorrel, SetCorrel, SetCorrelOpenFails, SetCorrelAgain,
               memory, TableInv
<1>11. CASE Death
  BY <1>11 DEF Death, Kill, KillInSelect, KillInSet, Exit, TableInv
<1>12. CASE EditConf BY <1>12 DEF EditConf, memory, TableInv
<1>13. CASE UNCHANGED vars BY <1>13 DEF vars, memory, TableInv
<1> QED BY <1>1, <1>2, <1>3, <1>4, <1>5, <1>6, <1>7, <1>8, <1>9, <1>10, <1>11,
           <1>12, <1>13 DEF Next, Load, Reload, Request

(* The ranges tile in every reachable state.                               *)
LEMMA TableInvariant ==
  ASSUME NoOverflow
  PROVE  Spec => []TableInv
PROOF
<1>1. Init => TableInv BY DEF Init, TableInv
<1>2. TypeOK /\ TableInv /\ [Next]_vars => TableInv' BY TableStep
<1> QED BY <1>1, <1>2, TypeCorrect, PTL DEF Spec

(* However many libraries are replayed and created and however many groups *)
(* reloads add, the ranges of the groups tile 0..total-1 (config.c:52-73,  *)
(* 497-549) while the int accumulator does not overflow.                   *)
THEOREM TheRangesTile ==
  ASSUME NoOverflow
  PROVE  Spec => []RangesTile
PROOF
<1>1. TableInv => RangesTile BY DEF TableInv, RangesTile
<1> QED BY <1>1, TableInvariant, PTL

(* Under the same condition every remainder of a hash belongs to exactly   *)
(* one group: the query at app.c:380 never returns the NULL whose name     *)
(* app.c:424 would write.                                                  *)
THEOREM TheOneHolder ==
  ASSUME NoOverflow
  PROVE  Spec => []OneHolder
PROOF
<1>1. TypeOK /\ TableInv => OneHolder BY HoldersOfTable DEF OneHolder
<1> QED BY <1>1, TypeCorrect, TableInvariant, PTL
-----------------------------------------------------------------------------
(* That a library sticks to its group rests on what ties the history to the*)
(* memory while the worker is up, to the file while it can be read, and the*)
(* memory to the file during and after a replay.                           *)
OwnersIn(R, l, n) == {R[k].instance : k \in {j \in 1..n : R[j].library = l}}
Owners(l, n) == OwnersIn(save.records, l, n)
Only(x) == IF x = None THEN {} ELSE {x}
Saved == Len(save.records)

Readable == save.tail # "garbled"
Replayed(n) == \A l \in Libraries : Owners(l, n) = Only(library[l])

StickInv ==
  /\ damaged = FALSE
  /\ phase = "down" => library = NoLibraries
  /\ phase = "replay" => pos <= Saved /\ Replayed(pos)
  /\ phase \in {"up", "reload"} =>
       /\ \A l \in Libraries : routed[l] \subseteq Only(library[l])
       /\ Readable => Replayed(Saved)
  /\ Readable => \A l \in Libraries : routed[l] \subseteq Owners(l, Saved)

(* One more record adds one owner to its library and none to the others.   *)
LEMMA OwnersStep ==
  ASSUME NEW R \in Seq(LibraryRecord), NEW l, NEW n \in 0..Len(R) - 1
  PROVE  OwnersIn(R, l, n + 1) =
           OwnersIn(R, l, n) \cup
             (IF R[n + 1].library = l THEN {R[n + 1].instance} ELSE {})
PROOF
<1>1. 1..n + 1 = (1..n) \cup {n + 1} OBVIOUS
<1> QED BY <1>1 DEF OwnersIn

(* Appending a record adds its owner and no other.                         *)
LEMMA OwnersAppend ==
  ASSUME NEW R \in Seq(LibraryRecord), NEW r \in LibraryRecord, NEW l
  PROVE  OwnersIn(Append(R, r), l, Len(Append(R, r))) =
           OwnersIn(R, l, Len(R)) \cup (IF r.library = l THEN {r.instance} ELSE {})
PROOF
<1> DEFINE Q == Append(R, r)
<1>1. /\ Q \in Seq(LibraryRecord) /\ Len(Q) = Len(R) + 1 /\ Len(R) \in Nat
      /\ Q[Len(R) + 1] = r /\ \A k \in 1..Len(R) : Q[k] = R[k]
  OBVIOUS
<1>2. OwnersIn(Q, l, Len(R)) = OwnersIn(R, l, Len(R)) BY <1>1 DEF OwnersIn
<1> DEFINE n == Len(R)
<1>3. n \in 0..Len(Q) - 1 BY <1>1
<1> HIDE DEF Q, n
<1>3a. Q \in Seq(LibraryRecord) BY <1>1
<1>4. OwnersIn(Q, l, n + 1) =
        OwnersIn(Q, l, n) \cup (IF Q[n + 1].library = l THEN {Q[n + 1].instance} ELSE {})
  BY <1>3a, <1>3, OwnersStep
<1> USE DEF n
<1>5. OwnersIn(Q, l, Len(Q)) =
        OwnersIn(R, l, Len(R)) \cup (IF r.library = l THEN {r.instance} ELSE {})
  BY <1>1, <1>2, <1>4
<1> QED BY <1>5 DEF Q

(* A file that can still be read after an append is the file before, whole *)
(* and with at most the new record.                                        *)
LEMMA ReadableAppend ==
  ASSUME NEW f, NEW r, f.tail \in Tails, Appended(f, r).tail # "garbled"
  PROVE  f.tail = "clean" /\ Appended(f, r).records = Append(f.records, r)
PROOF
<1>1. CASE f.tail = "clean"
  <2>1. Appended(f, r) = [f EXCEPT !.records = Append(f.records, r)]
    BY <1>1 DEF Appended
  <2> QED BY <1>1, <2>1
<1> QED BY <1>1 DEF Appended, Tails

(* The owners RoutedIsSaved speaks of are those of the whole file.         *)
LEMMA SavedOwnerIsOwners ==
  ASSUME TypeOK, NEW l
  PROVE  SavedOwner(l) = Owners(l, Saved)
PROOF
<1>1. save.records \in Seq(LibraryRecord) BY DEF TypeOK, File
<1> DEFINE R == save.records
<1>2. Range(R) = {R[k] : k \in 1..Len(R)} BY <1>1 DEF Range
<1> HIDE DEF R
<1>3. {r.instance : r \in {s \in Range(R) : s.library = l}} = OwnersIn(R, l, Len(R))
  BY <1>2 DEF OwnersIn
<1> QED BY <1>3 DEF R, SavedOwner, Owners, Saved

(* The variables StickInv speaks of.                                       *)
stickVars == <<phase, pos, library, damaged, save, routed>>

(* A step that touches none of its variables keeps StickInv.               *)
LEMMA StickUnchanged ==
  ASSUME StickInv, UNCHANGED stickVars
  PROVE  StickInv'
BY DEF StickInv, stickVars, Replayed, Owners, Saved, Readable

(* A death leaves nothing but the files, and the history.                  *)
LEMMA StickExit ==
  ASSUME StickInv, Exit, UNCHANGED <<save, routed>>
  PROVE  StickInv'
BY DEF StickInv, Exit, Replayed, Owners, Saved, Readable

(* Loading keeps StickInv and routes nothing.                              *)
LEMMA StickLoad ==
  ASSUME TypeOK, StickInv, Load
  PROVE  StickInv' /\ UNCHANGED routed
PROOF
<1>0. save.records \in Seq(LibraryRecord) /\ Saved \in Nat
  BY DEF TypeOK, File, Saved
<1>1. CASE StartWorker
  <2>1. \A l \in Libraries : library[l] = None
    BY <1>1 DEF StartWorker, StickInv, NoLibraries
  <2>2. \A l \in Libraries : Owners(l, 0) = {} BY <1>0 DEF Owners, OwnersIn
  <2>3. /\ phase' = "replay" /\ pos' = 0
        /\ UNCHANGED <<library, damaged, save, routed>>
    BY <1>1 DEF StartWorker, disk, ghosts
  <2>4. Replayed(pos)'
    BY <2>1, <2>2, <2>3 DEF Replayed, Only, Owners
  <2>5. damaged = FALSE /\ (Readable => \A l \in Libraries : routed[l] \subseteq Owners(l, Saved))
    BY DEF StickInv
  <2> QED BY <1>0, <2>3, <2>4, <2>5 DEF StickInv, Owners, Saved, Readable
<1>2. CASE ReplayRecord
  <2> DEFINE r == save.records[pos + 1]
  <2>1. /\ phase = "replay" /\ pos < Saved /\ library[r.library] = None
        /\ library' = [library EXCEPT ![r.library] = r.instance]
        /\ phase' = phase /\ pos' = pos + 1
        /\ UNCHANGED <<damaged, save, routed>>
    BY <1>2 DEF ReplayRecord, Replayable, Saved, disk, ghosts
  <2>2. pos \in Nat /\ pos \in 0..Saved - 1 BY <1>0, <2>1 DEF TypeOK
  <2>3. r.library \in Libraries /\ r.instance \in Instances /\ r.instance # None
    <3>1. pos + 1 \in 1..Len(save.records) BY <1>0, <2>2 DEF Saved
    <3>2. r \in LibraryRecord BY <1>0, <3>1
    <3> QED BY <3>2, RulesAssumption DEF LibraryRecord
  <2>4. ASSUME NEW l \in Libraries
        PROVE  Owners(l, pos + 1) = Only(library'[l])
    <3>1. Owners(l, pos) = Only(library[l]) BY <2>1 DEF StickInv, Replayed
    <3>2. Owners(l, pos + 1) =
            Owners(l, pos) \cup (IF r.library = l THEN {r.instance} ELSE {})
      BY <1>0, <2>2, OwnersStep DEF Owners, Saved
    <3>3. library'[l] = IF l = r.library THEN r.instance ELSE library[l]
      BY <2>1, <2>3 DEF TypeOK
    <3> HIDE DEF r
    <3> QED BY <2>1, <2>3, <3>1, <3>2, <3>3 DEF Only
  <2> HIDE DEF r
  <2>5. pos' <= Saved' /\ Replayed(pos)'
    BY <1>0, <2>1, <2>2, <2>4 DEF Replayed, Owners, Saved
  <2> QED BY <2>1, <2>5 DEF StickInv, Readable, Owners, Saved
<1>3. CASE FinishLoad
  <2>1. /\ phase = "replay" /\ pos = Saved /\ Readable /\ phase' = "up"
        /\ UNCHANGED <<library, damaged, save, routed>>
    BY <1>3 DEF FinishLoad, FilesRead, Saved, Readable, disk, ghosts
  <2>2. Replayed(Saved) BY <2>1 DEF StickInv
  <2>3. \A l \in Libraries : routed[l] \subseteq Only(library[l])
    BY <2>1, <2>2 DEF StickInv, Replayed
  <2> QED BY <2>1, <2>2, <2>3 DEF StickInv, Replayed, Owners, Saved, Readable
<1>4. CASE RejectRecord \/ RejectFiles
  BY <1>4, StickExit DEF RejectRecord, RejectFiles, disk, ghosts
<1> QED BY <1>1, <1>2, <1>3, <1>4 DEF Load, StartWorker, ReplayRecord, FinishLoad,
           RejectRecord, RejectFiles, ghosts

(* Reloading keeps StickInv and routes nothing.                            *)
LEMMA StickReload ==
  ASSUME StickInv, Reload
  PROVE  StickInv' /\ UNCHANGED routed
PROOF
<1>1. /\ UNCHANGED <<library, damaged, save, routed>>
      /\ phase \in {"up", "reload"} /\ phase' \in {"up", "reload"}
  BY DEF Reload, BeginReload, ReloadKnownGroup, ReloadNewGroup, ReloadFails, EndReload, disk, ghosts
<1> QED BY <1>1 DEF StickInv, Replayed, Owners, Saved, Readable

(* A library the tree knows goes to its owner: SelectKnown and             *)
(* SelectByCorrel.                                                         *)
LEMMA StickRoute ==
  ASSUME TypeOK, StickInv, phase = "up",
         NEW l \in Libraries, NEW i \in Found(l) \ {None},
         routed' = [routed EXCEPT ![l] = @ \cup {i}],
         UNCHANGED <<phase, pos, library, damaged, save>>
  PROVE  StickInv' /\ LibraryRouting!Answer(l, i)
PROOF
<1>1. i = library[l] /\ library[l] # None BY DEF StickInv, Found, Astray
<1>2. routed[l] \subseteq {i} BY <1>1 DEF StickInv, Only
<1>3. \A m \in Libraries : routed'[m] \subseteq Only(library[m])
  BY <1>1 DEF StickInv, Only, TypeOK
<1>4. Readable => \A m \in Libraries : routed'[m] \subseteq Owners(m, Saved)
  BY <1>3 DEF StickInv, Replayed
<1>5. StickInv' BY <1>3, <1>4 DEF StickInv, Replayed, Owners, Saved, Readable
<1>6. routed' = [routed EXCEPT ![l] = {i}] BY <1>2 DEF TypeOK
<1> QED BY <1>2, <1>5, <1>6 DEF LibraryRouting!Answer

(* A new library is routed to the group its record names.                  *)
LEMMA StickSelectNew ==
  ASSUME TypeOK, StickInv, NEW l \in Libraries, SelectNew(l)
  PROVE  StickInv' /\ [LibraryRouting!Next]_routed
PROOF
<1> DEFINE rec(k) == [library |-> l, instance |-> groups[k]]
<1>1. PICK k \in DOMAIN groups :
        /\ NewLibrary(l, k) /\ LinkLibrary(l, k)
        /\ save' = Appended(save, rec(k))
        /\ routed' \in Bridges(l, groups[k])
  BY DEF SelectNew
<1> DEFINE i == groups[k]
           r == rec(k)
<1>2. i \in Instances /\ i # None BY GroupType, RulesAssumption
<1>3. r \in LibraryRecord /\ r.library = l /\ r.instance = i
  BY <1>2 DEF LibraryRecord
<1>4. save' = Appended(save, r) /\ routed' \in Bridges(l, i)
  BY <1>1
<1> HIDE DEF i, r, rec
<1>5. phase = "up" /\ library[l] = None /\ library' = [library EXCEPT ![l] = i]
  BY <1>1 DEF NewLibrary, LinkLibrary, Found, Astray, StickInv, i
<1>6. UNCHANGED <<phase, pos, damaged>> BY DEF SelectNew
<1>7. routed[l] = {} BY <1>5 DEF StickInv, Only
<1>8. routed' = routed \/ routed' = [routed EXCEPT ![l] = {i}]
  BY <1>4, <1>7 DEF TypeOK, Bridges
<1>9. \A m \in Libraries :
        /\ library'[m] = IF m = l THEN i ELSE library[m]
        /\ routed'[m] \subseteq IF m = l THEN {i} ELSE routed[m]
  BY <1>5, <1>7, <1>8 DEF TypeOK
<1>10. \A m \in Libraries : routed'[m] \subseteq Only(library'[m])
  BY <1>2, <1>5, <1>9 DEF StickInv, Only
<1>11. ASSUME Readable' PROVE Replayed(Saved)'
  <2>1. save.records \in Seq(LibraryRecord) /\ save.tail \in Tails
    BY DEF TypeOK, File
  <2>2. Readable /\ save'.records = Append(save.records, r)
    BY <1>4, <1>11, <2>1, ReadableAppend DEF Readable
  <2>3. Replayed(Saved) BY <1>5, <2>2 DEF StickInv
  <2>4. ASSUME NEW m \in Libraries
        PROVE  OwnersIn(save'.records, m, Len(save'.records)) = Only(library'[m])
    <3>1. OwnersIn(save'.records, m, Len(save'.records)) =
            OwnersIn(save.records, m, Len(save.records))
              \cup (IF r.library = m THEN {r.instance} ELSE {})
      <4> DEFINE R == save.records
      <4>1. R \in Seq(LibraryRecord) /\ save'.records = Append(R, r) BY <2>1, <2>2
      <4>2. R \in Seq(LibraryRecord) /\ r \in LibraryRecord BY <1>3, <4>1
      <4>3. OwnersIn(Append(R, r), m, Len(Append(R, r))) =
              OwnersIn(R, m, Len(R)) \cup (IF r.library = m THEN {r.instance} ELSE {})
        BY <4>2, OwnersAppend
      <4> HIDE DEF R
      <4> QED BY <4>1, <4>3 DEF R
    <3>2. OwnersIn(save.records, m, Len(save.records)) = Only(library[m])
      BY <2>3 DEF Replayed, Owners, Saved
    <3> QED BY <3>1, <3>2, <1>2, <1>3, <1>5, <1>9 DEF Only
  <2> QED BY <2>4 DEF Replayed, Owners, Saved
<1>12. Readable' => \A m \in Libraries : routed'[m] \subseteq Owners(m, Saved)'
  BY <1>10, <1>11 DEF Replayed
<1>13. StickInv' BY <1>5, <1>6, <1>10, <1>11, <1>12 DEF StickInv
<1>14. routed' = routed \/ LibraryRouting!Answer(l, i)
  BY <1>7, <1>8 DEF LibraryRouting!Answer
<1> QED BY <1>2, <1>13, <1>14 DEF LibraryRouting!Next

(* A record cut short keeps StickInv.                                      *)
LEMMA StickKillInSelect ==
  ASSUME TypeOK, StickInv, NEW l \in Libraries, KillInSelect(l)
  PROVE  StickInv' /\ UNCHANGED routed
PROOF
<1> DEFINE rec(k) == [library |-> l, instance |-> groups[k]]
<1>1. PICK k \in DOMAIN groups : save' \in CutAppends(save, rec(k))
  BY DEF KillInSelect
<1> DEFINE r == rec(k)
<1>2. r \in LibraryRecord BY GroupType DEF LibraryRecord
<1> HIDE DEF rec
<1>3. save.records \in Seq(LibraryRecord) /\ save.tail \in Tails
  BY DEF TypeOK, File
<1>4. ASSUME Readable'
      PROVE  /\ Readable
             /\ \/ save'.records = save.records
                \/ save'.records = Append(save.records, r)
  <2>1. CASE save.tail = "clean"
    <3>1. save = [records |-> save.records, tail |-> save.tail] BY DEF TypeOK, File
    <3>2. \/ save' = save
          \/ save' = [save EXCEPT !.tail = "torn"]
          \/ save' = [records |-> Append(save.records, r), tail |-> "noeol"]
      BY <1>1, <2>1 DEF CutAppends
    <3>3. save'.records = save.records \/ save'.records = Append(save.records, r)
      BY <3>1, <3>2
    <3> QED BY <2>1, <3>3 DEF Readable
  <2>2. CASE save.tail \in {"noeol", "torn"}
    <3>1. save' = save \/ save' = Appended(save, r) BY <1>1, <2>2 DEF CutAppends
    <3>2. save' # Appended(save, r)
      <4>1. Appended(save, r).tail = "garbled" BY <1>3, <2>2, ReadableAppend
      <4> QED BY <1>4, <4>1 DEF Readable
    <3> QED BY <2>2, <3>1, <3>2 DEF Readable
  <2>3. CASE save.tail = "garbled" BY <1>1, <1>4, <2>3 DEF CutAppends, Readable
  <2> QED BY <1>3, <2>1, <2>2, <2>3 DEF Tails
<1>5. ASSUME Readable', NEW m \in Libraries
      PROVE  routed[m] \subseteq OwnersIn(save'.records, m, Len(save'.records))
  <2>1. routed[m] \subseteq OwnersIn(save.records, m, Len(save.records))
    BY <1>4, <1>5 DEF StickInv, Owners, Saved
  <2>2. OwnersIn(save.records, m, Len(save.records))
          \subseteq OwnersIn(save'.records, m, Len(save'.records))
    <3> DEFINE R == save.records  Q == save'.records
    <3>1. /\ R \in Seq(LibraryRecord) /\ r \in LibraryRecord
          /\ Q = R \/ Q = Append(R, r)
      BY <1>2, <1>3, <1>4, <1>5
    <3> HIDE DEF R, Q, r
    <3>2. CASE Q = R BY <3>2 DEF R, Q
    <3>3. CASE Q = Append(R, r)
      <4>1. R \in Seq(LibraryRecord) /\ r \in LibraryRecord BY <3>1
      <4>2. OwnersIn(Append(R, r), m, Len(Append(R, r))) =
              OwnersIn(R, m, Len(R)) \cup (IF r.library = m THEN {r.instance} ELSE {})
        BY <4>1, OwnersAppend
      <4>3. OwnersIn(R, m, Len(R)) \subseteq OwnersIn(Q, m, Len(Q)) BY <3>3, <4>2
      <4> QED BY <4>3 DEF R, Q
    <3> QED BY <3>1, <3>2, <3>3
  <2> QED BY <2>1, <2>2
<1>6. Exit /\ routed' = routed BY DEF KillInSelect, ghosts
<1> QED BY <1>5, <1>6 DEF StickInv, Exit, Owners, Saved

(* Half a record that a NULL group leaves behind hides none of those before*)
(* it, or makes the file unreadable.                                       *)
LEMMA StickNull ==
  ASSUME TypeOK, StickInv, NEW l \in Libraries, SelectNewNull(l)
  PROVE  StickInv' /\ UNCHANGED routed
PROOF
<1>1. save' = TornBy(save) /\ Exit /\ UNCHANGED routed BY DEF SelectNewNull, ghosts
<1>2. save = [records |-> save.records, tail |-> save.tail] /\ save.tail \in Tails
  BY DEF TypeOK, File
<1>3. ASSUME Readable' PROVE Readable /\ save'.records = save.records
  BY <1>1, <1>2, <1>3 DEF TornBy, Readable, Tails
<1>4. Readable' => \A m \in Libraries : routed[m] \subseteq OwnersIn(save'.records, m, Len(save'.records))
  BY <1>3 DEF StickInv, Owners, Saved
<1> QED BY <1>1, <1>4 DEF StickInv, Exit, Owners, Saved

(* Every request keeps StickInv and routes as before.                      *)
LEMMA StickRequest ==
  ASSUME "open" \notin Faults, TypeOK, StickInv, Request
  PROVE  StickInv' /\ [LibraryRouting!Next]_routed
PROOF
<1>1. ASSUME NEW l \in Libraries, SelectKnown(l)
      PROVE  StickInv' /\ [LibraryRouting!Next]_routed
  <2>1. PICK i \in Found(l) \ {None} : routed' = [routed EXCEPT ![l] = @ \cup {i}]
    BY <1>1 DEF SelectKnown
  <2>2. phase = "up" /\ UNCHANGED <<phase, pos, library, damaged, save>>
    BY <1>1 DEF SelectKnown, memory, disk
  <2>3. StickInv' /\ LibraryRouting!Answer(l, i) BY <2>1, <2>2, StickRoute
  <2>4. i \in Instances BY FoundType
  <2> QED BY <2>3, <2>4 DEF LibraryRouting!Next
<1>2. ASSUME NEW l \in Libraries, SelectNew(l)
      PROVE  StickInv' /\ [LibraryRouting!Next]_routed
  BY <1>2, StickSelectNew
<1>3. ASSUME NEW l \in Libraries, SelectNewOpenFails(l) PROVE FALSE
  BY <1>3 DEF SelectNewOpenFails
<1>4. ASSUME NEW l \in Libraries, SelectNewNull(l)
      PROVE  StickInv' /\ [LibraryRouting!Next]_routed
  BY <1>4, StickNull
<1>4a. ASSUME NEW l \in Libraries, SelectByZero(l)
      PROVE  StickInv' /\ [LibraryRouting!Next]_routed
  BY <1>4a, StickExit DEF SelectByZero, disk, ghosts
<1>5. ASSUME NEW c \in Classes, NEW o \in Objects, SelectByCorrel(c, o)
      PROVE  StickInv' /\ [LibraryRouting!Next]_routed
  <2> DEFINE l == bound[<<c, o>>]
  <2>1. l \in Libraries
    BY <1>5 DEF SelectByCorrel, TypeOK, Correlated
  <2>2. PICK i \in Found(l) \ {None} : routed' = [routed EXCEPT ![l] = @ \cup {i}]
    BY <1>5 DEF SelectByCorrel
  <2>3. phase = "up" /\ UNCHANGED <<phase, pos, library, damaged, save>>
    BY <1>5 DEF SelectByCorrel, memory, disk
  <2> HIDE DEF l
  <2>4. StickInv' /\ LibraryRouting!Answer(l, i) BY <2>1, <2>2, <2>3, StickRoute
  <2>5. i \in Instances BY <2>1, FoundType
  <2> QED BY <2>1, <2>4, <2>5 DEF LibraryRouting!Next
<1>6. ASSUME NEW c \in Classes, NEW o \in Objects, NEW l \in Libraries,
             SetCorrel(c, o, l) \/ SetCorrelOpenFails(c, o, l) \/ SetCorrelAgain(c, o, l)
      PROVE  StickInv' /\ [LibraryRouting!Next]_routed
  <2>1. UNCHANGED stickVars
    BY <1>6 DEF SetCorrel, SetCorrelOpenFails, SetCorrelAgain, stickVars, memory, disk
  <2> QED BY <2>1, StickUnchanged DEF stickVars
<1> QED BY <1>1, <1>2, <1>3, <1>4, <1>4a, <1>5, <1>6 DEF Request

(* Every step keeps StickInv and is a step of StickyRouting.               *)
LEMMA StickStep ==
  ASSUME "open" \notin Faults, TypeOK, StickInv, [Next]_vars
  PROVE  StickInv' /\ [LibraryRouting!Next]_routed
PROOF
<1>1. CASE Load BY <1>1, StickLoad
<1>2. CASE Reload BY <1>2, StickReload
<1>3. CASE Request BY <1>3, StickRequest
<1>4. CASE Death
  <2>1. CASE Kill BY <2>1, StickExit DEF Kill, disk, ghosts
  <2>2. ASSUME NEW l \in Libraries, KillInSelect(l)
        PROVE  StickInv' /\ UNCHANGED routed
    BY <2>2, StickKillInSelect
  <2>3. ASSUME NEW c \in Classes, NEW o \in Objects, NEW l \in Libraries,
               KillInSet(c, o, l)
        PROVE  StickInv' /\ UNCHANGED routed
    BY <2>3, StickExit DEF KillInSet, ghosts
  <2> QED BY <1>4, <2>1, <2>2, <2>3 DEF Death, Kill, ghosts
<1>5. CASE EditConf
  <2>1. UNCHANGED stickVars BY <1>5 DEF EditConf, stickVars, memory, ghosts
  <2> QED BY <2>1, StickUnchanged DEF stickVars
<1>6. CASE UNCHANGED vars
  <2>1. UNCHANGED stickVars BY <1>6 DEF vars, stickVars, memory, disk, ghosts
  <2> QED BY <2>1, StickUnchanged DEF stickVars
<1> QED BY <1>1, <1>2, <1>3, <1>4, <1>5, <1>6 DEF Next

(* The initial state satisfies both.                                       *)
LEMMA StickInit == Init => StickInv /\ LibraryRouting!Init
BY DEF Init, StickInv, NoLibraries, LibraryRouting!Init

(* StickInv holds in every reachable state.                                *)
LEMMA StickInvariant ==
  ASSUME "open" \notin Faults
  PROVE  Spec => []StickInv
PROOF
<1>1. TypeOK /\ StickInv /\ [Next]_vars => StickInv' BY StickStep
<1> QED BY <1>1, StickInit, TypeCorrect, PTL DEF Spec

(* As long as the save file can be opened, a library goes to one group for *)
(* good: ForwardRules implements StickyRouting over worker deaths at any   *)
(* write, restarts, replays and on-line reloads, and whether or not the    *)
(* accumulator overflows (app.c:376-427, config.c:213-257).                *)
THEOREM TheLibrariesStick ==
  ASSUME "open" \notin Faults
  PROVE  Spec => LibrariesStick
PROOF
<1>1. TypeOK /\ StickInv /\ [Next]_vars => [LibraryRouting!Next]_routed BY StickStep
<1>2. Init => LibraryRouting!Init BY StickInit
<1> QED BY <1>1, <1>2, StickInvariant, TypeCorrect, PTL
        DEF Spec, LibrariesStick, LibraryRouting!Spec

(* In a table that tiles no query yields NULL.                             *)
LEMMA NoNullGroup ==
  ASSUME TypeOK, TableInv, NEW l \in Libraries
  PROVE  ~SelectNewNull(l)
PROOF
<1>1. groups \in Seq(Instances) BY DEF TypeOK
<1>2. 0 \notin DOMAIN groups BY <1>1
<1> QED BY <1>2, NewLibraryGroup DEF SelectNewNull

(* Without faults of the files, and with a table that tiles, the save file *)
(* always ends in a newline.                                               *)
CleanInv == save.tail = "clean"

(* Without faults no step leaves a torn file.                              *)
LEMMA CleanStep ==
  ASSUME NoOverflow, Faults = {}, TypeOK, TableInv, CleanInv, [Next]_vars
  PROVE  CleanInv'
PROOF
<1>1. ASSUME NEW l \in Libraries, SelectNew(l) PROVE CleanInv'
  <2> DEFINE rec(k) == [library |-> l, instance |-> groups[k]]
  <2>1. PICK k \in DOMAIN groups : save' = Appended(save, rec(k))
    BY <1>1 DEF SelectNew
  <2>2. save = [records |-> save.records, tail |-> save.tail] BY DEF TypeOK, File
  <2> HIDE DEF rec
  <2>3. save' = [save EXCEPT !.records = Append(@, rec(k))]
    BY <2>1 DEF CleanInv, Appended
  <2> QED BY <2>2, <2>3 DEF CleanInv
<1>2. ASSUME NEW l \in Libraries, KillInSelect(l) \/ SelectNewNull(l) PROVE FALSE
  BY <1>2, NoNullGroup DEF KillInSelect
<1>3. CASE UNCHANGED save BY <1>3 DEF CleanInv
<1>4. CASE Load
  BY <1>3, <1>4 DEF Load, StartWorker, ReplayRecord, FinishLoad, RejectRecord,
                    RejectFiles, disk
<1>5. CASE Reload
  BY <1>3, <1>5 DEF Reload, BeginReload, ReloadKnownGroup, ReloadNewGroup, ReloadFails, EndReload, disk
<1>6. CASE Request
  BY <1>1, <1>2, <1>3, <1>6, ZenonT(60)
     DEF Request, SelectKnown, SelectNewOpenFails, SelectByZero,
         SelectByCorrel, SetCorrel, SetCorrelOpenFails, SetCorrelAgain, disk
<1>7. CASE Death BY <1>2, <1>3, <1>7 DEF Death, Kill, KillInSet, disk
<1>8. CASE EditConf \/ UNCHANGED vars BY <1>3, <1>8 DEF EditConf, vars, disk
<1> QED BY <1>4, <1>5, <1>6, <1>7, <1>8 DEF Next

(* As long as no save fails, no kill lands inside one and the accumulator  *)
(* does not overflow, every group a client was bridged to is in the save   *)
(* file, for any sequence of requests, reloads, deaths and restarts        *)
(* (app.c:408-427).                                                        *)
THEOREM TheRoutedAreSaved ==
  ASSUME NoOverflow, Faults = {}
  PROVE  Spec => []RoutedIsSaved
PROOF
<1>1. Init => CleanInv BY DEF Init, CleanInv, EmptyFile
<1>2. TypeOK /\ TableInv /\ CleanInv /\ [Next]_vars => CleanInv' BY CleanStep
<1>3. TypeOK /\ StickInv /\ CleanInv => RoutedIsSaved
  BY SavedOwnerIsOwners DEF StickInv, CleanInv, Readable, RoutedIsSaved
<1>4. "open" \notin Faults OBVIOUS
<1>5. Spec => []StickInv BY <1>4, StickInvariant
<1> QED BY <1>1, <1>2, <1>3, <1>5, TypeCorrect, TableInvariant, PTL DEF Spec
-----------------------------------------------------------------------------
(* The objects stick as the libraries do, file by file: the history is tied*)
(* to the object trees while the worker is up, and to the file of a class  *)
(* while that can be read.                                                 *)
BindsIn(R, o) == {r.library : r \in {s \in Range(R) : s.object = o}}
ClassReadable(c) == csave[c].tail # "garbled"

ObjectsUp ==
  \A x \in Correlated :
    /\ served[x] \subseteq Only(bound[x])
    /\ ClassReadable(x[1]) => BoundBy(x) = Only(bound[x])

ObjectsInv ==
  /\ phase \in {"up", "reload"} => ObjectsUp
  /\ \A x \in Correlated : ClassReadable(x[1]) => served[x] \subseteq BoundBy(x)

(* What Append adds to the range of a sequence.                            *)
LEMMA RangeAppend ==
  ASSUME NEW S, NEW R \in Seq(S), NEW r
  PROVE  Range(Append(R, r)) = Range(R) \cup {r}
PROOF
<1>1. /\ DOMAIN R = 1..Len(R) /\ Len(R) \in Nat
      /\ DOMAIN Append(R, r) = 1..Len(R) + 1
      /\ Append(R, r)[Len(R) + 1] = r
      /\ \A k \in 1..Len(R) : Append(R, r)[k] = R[k]
  OBVIOUS
<1>2. 1..Len(R) + 1 = (1..Len(R)) \cup {Len(R) + 1} BY <1>1
<1> QED BY <1>1, <1>2 DEF Range

(* One more record binds its object to its library and no other.           *)
LEMMA BindsAppend ==
  ASSUME NEW S, NEW R \in Seq(S), NEW r, NEW o
  PROVE  BindsIn(Append(R, r), o) =
           BindsIn(R, o) \cup (IF r.object = o THEN {r.library} ELSE {})
BY RangeAppend DEF BindsIn

(* What a class file binds when a record is appended to it, if it can still*)
(* be read.                                                                *)
LEMMA BoundByAppend ==
  ASSUME TypeOK, NEW c \in Classes, NEW o \in Objects, NEW l \in Libraries,
         csave' = [csave EXCEPT ![c] = Appended(@, [object |-> o, library |-> l])],
         ClassReadable(c)'
  PROVE  /\ ClassReadable(c)
         /\ BoundBy(<<c, o>>)' = BoundBy(<<c, o>>) \cup {l}
         /\ \A p \in Objects \ {o} : BoundBy(<<c, p>>)' = BoundBy(<<c, p>>)
PROOF
<1> DEFINE r == [object |-> o, library |-> l]
           f == csave[c]
<1>1. f.records \in Seq(ObjectRecord) /\ f.tail \in Tails BY DEF TypeOK, File
<1>2. csave'[c] = Appended(f, r) BY DEF TypeOK
<1>3. r.object = o /\ r.library = l OBVIOUS
<1> HIDE DEF r, f
<1>4. f.tail = "clean" /\ csave'[c].records = Append(f.records, r)
  BY <1>1, <1>2, ReadableAppend DEF ClassReadable
<1>5. ASSUME NEW p \in Objects
      PROVE  BoundBy(<<c, p>>)' =
               BoundBy(<<c, p>>) \cup (IF r.object = p THEN {r.library} ELSE {})
  <2>1. BindsIn(Append(f.records, r), p) =
          BindsIn(f.records, p) \cup (IF r.object = p THEN {r.library} ELSE {})
    BY <1>1, BindsAppend
  <2> QED BY <1>4, <2>1 DEF BoundBy, BindsIn, f
<1>6. ClassReadable(c) BY <1>4 DEF ClassReadable, f
<1> QED BY <1>3, <1>5, <1>6

(* The files of the other classes bind what they did.                      *)
LEMMA OtherClasses ==
  ASSUME TypeOK, NEW c \in Classes, NEW f, csave' = [csave EXCEPT ![c] = f],
         NEW x \in Correlated, x[1] # c
  PROVE  (ClassReadable(x[1])' <=> ClassReadable(x[1])) /\ BoundBy(x)' = BoundBy(x)
PROOF
<1>1. x[1] \in Classes BY DEF Correlated
<1>2. csave'[x[1]] = csave[x[1]] BY <1>1 DEF TypeOK
<1> QED BY <1>2 DEF ClassReadable, BoundBy

(* A record cut short binds at most one library more, if the file can still*)
(* be read.                                                                *)
LEMMA BoundByCut ==
  ASSUME TypeOK, NEW c \in Classes, NEW o \in Objects, NEW l \in Libraries,
         NEW f \in CutAppends(csave[c], [object |-> o, library |-> l]),
         csave' = [csave EXCEPT ![c] = f], ClassReadable(c)'
  PROVE  /\ ClassReadable(c)
         /\ \A p \in Objects : BoundBy(<<c, p>>) \subseteq BoundBy(<<c, p>>)'
PROOF
<1> DEFINE r == [object |-> o, library |-> l]
           g == csave[c]
<1>1. g.records \in Seq(ObjectRecord) /\ g.tail \in Tails BY DEF TypeOK, File
<1>2. csave'[c] = f BY DEF TypeOK
<1> HIDE DEF r
<1>3. f.tail # "garbled" BY <1>2 DEF ClassReadable
<1>4. /\ g.tail # "garbled"
      /\ f.records = g.records \/ f.records = Append(g.records, r)
  <2>1. f \in CutAppends(g, r) BY DEF r
  <2>2. g = [records |-> g.records, tail |-> g.tail] BY DEF TypeOK, File
  <2> HIDE DEF g
  <2>3. CASE g.tail = "clean"
    <3>1. \/ f = g
          \/ f = [g EXCEPT !.tail = "torn"]
          \/ f = [records |-> Append(g.records, r), tail |-> "noeol"]
      BY <2>1, <2>3 DEF CutAppends
    <3> QED BY <2>2, <2>3, <3>1
  <2>4. CASE g.tail \in {"noeol", "torn"}
    <3>1. f = g \/ f = Appended(g, r) BY <2>1, <2>4 DEF CutAppends
    <3>2. f # Appended(g, r) BY <1>1, <1>3, <2>4, ReadableAppend
    <3> QED BY <2>4, <3>1, <3>2
  <2>5. CASE g.tail = "garbled" BY <1>3, <2>1, <2>5 DEF CutAppends
  <2> QED BY <1>1, <2>3, <2>4, <2>5 DEF Tails
<1>5. ASSUME NEW p \in Objects PROVE BoundBy(<<c, p>>) \subseteq BoundBy(<<c, p>>)'
  <2>1. BindsIn(Append(g.records, r), p) =
          BindsIn(g.records, p) \cup (IF r.object = p THEN {r.library} ELSE {})
    BY <1>1, BindsAppend
  <2>2. BindsIn(g.records, p) \subseteq BindsIn(f.records, p) BY <1>4, <2>1
  <2> QED BY <1>2, <2>2 DEF BoundBy, BindsIn
<1> QED BY <1>4, <1>5 DEF ClassReadable

(* A step that touches none of its variables keeps ObjectsInv.             *)
LEMMA ObjectsUnchanged ==
  ASSUME ObjectsInv, UNCHANGED <<bound, csave, served>>,
         phase' \in {"up", "reload"} => phase \in {"up", "reload"}
  PROVE  ObjectsInv'
BY DEF ObjectsInv, ObjectsUp, ClassReadable, BoundBy

(* Between two requests an object is bound to the only library its class   *)
(* file names for it: loading refuses a file that names an object twice.   *)
LEMMA ObjectsLoaded ==
  ASSUME TypeOK, ObjectsInv, FinishLoad
  PROVE  ObjectsInv'
PROOF
<1>1. /\ UNCHANGED <<csave, served>>
      /\ \A c \in Classes : ClassLoads(c)
      /\ bound' = [x \in Correlated |->
                     IF BoundBy(x) = {} THEN None ELSE CHOOSE l \in BoundBy(x) : TRUE]
  BY DEF FinishLoad, disk, ghosts
<1>2. ASSUME NEW x \in Correlated PROVE BoundBy(x) = Only(bound'[x])
  <2>1. CASE BoundBy(x) = {} BY <1>1, <2>1 DEF Only
  <2>2. CASE BoundBy(x) # {}
    <3> DEFINE c == x[1]
               R == csave[c].records
    <3>1. c \in Classes BY DEF Correlated
    <3>2. \A j, k \in DOMAIN R : R[j].object = R[k].object => j = k
      BY <1>1, <3>1 DEF ClassLoads
    <3>3. BoundBy(x) = {r.library : r \in {s \in Range(R) : s.object = x[2]}}
      BY DEF BoundBy
    <3> HIDE DEF R, c
    <3>4. PICK l \in BoundBy(x) : TRUE BY <2>2
    <3>5. ASSUME NEW m \in BoundBy(x) PROVE m = l
      <4>1. PICK i \in DOMAIN R : R[i].object = x[2] /\ R[i].library = l
        BY <3>3, <3>4 DEF Range
      <4>2. PICK j \in DOMAIN R : R[j].object = x[2] /\ R[j].library = m
        BY <3>3, <3>5 DEF Range
      <4> QED BY <3>2, <4>1, <4>2
    <3>6. BoundBy(x) = {l} BY <3>4, <3>5
    <3>7. l # None BY <3>4, BoundByType, RulesAssumption
    <3>8. bound'[x] = l BY <1>1, <3>6
    <3> QED BY <3>6, <3>7, <3>8 DEF Only
  <2> QED BY <2>1, <2>2
<1>3. \A x \in Correlated :
        /\ BoundBy(x)' = BoundBy(x)
        /\ ClassReadable(x[1])' /\ ClassReadable(x[1])
  BY <1>1 DEF BoundBy, ClassReadable, ClassLoads, Correlated
<1> QED BY <1>1, <1>2, <1>3 DEF ObjectsInv, ObjectsUp

(* An object that is bound for the first time goes to the library its new  *)
(* record names.                                                           *)
LEMMA ObjectsSet ==
  ASSUME TypeOK, ObjectsInv, NEW c \in Classes, NEW o \in Objects,
         NEW l \in Libraries, SetCorrel(c, o, l)
  PROVE  ObjectsInv'
PROOF
<1>1. /\ phase = "up" /\ bound[<<c, o>>] = None
      /\ csave' = [csave EXCEPT ![c] = Appended(@, [object |-> o, library |-> l])]
      /\ bound' = [bound EXCEPT ![<<c, o>>] = l]
      /\ served' = served
  BY DEF SetCorrel
<1>2. ObjectsUp BY <1>1 DEF ObjectsInv
<1> DEFINE y == <<c, o>>
<1>3. y \in Correlated /\ served[y] = {} /\ l # None
  BY <1>1, <1>2, RulesAssumption DEF ObjectsUp, Correlated, Only
<1>4. ASSUME ClassReadable(c)'
      PROVE  /\ ClassReadable(c)
             /\ BoundBy(<<c, o>>)' = BoundBy(<<c, o>>) \cup {l}
             /\ \A p \in Objects \ {o} : BoundBy(<<c, p>>)' = BoundBy(<<c, p>>)
  <2>1. csave' = [csave EXCEPT ![c] = Appended(@, [object |-> o, library |-> l])]
    BY <1>1
  <2> QED BY ONLY TypeOK, <1>4, <2>1, BoundByAppend
<1>5. ASSUME NEW x \in Correlated
      PROVE  /\ served'[x] \subseteq Only(bound'[x])
             /\ ClassReadable(x[1])' => BoundBy(x)' = Only(bound'[x])
  <2>1. CASE x = y
    <3>1. bound'[x] = l /\ served'[x] = {} BY <1>1, <1>3, <2>1 DEF TypeOK
    <3>2. ASSUME ClassReadable(c)' PROVE BoundBy(y)' = {l}
      <4>1. ClassReadable(c) /\ BoundBy(y)' = BoundBy(y) \cup {l}
        BY <1>4, <3>2
      <4>2. BoundBy(y) = {} BY <1>1, <1>2, <1>3, <4>1 DEF ObjectsUp, Only
      <4> QED BY <4>1, <4>2
    <3> QED BY <1>3, <2>1, <3>1, <3>2 DEF Only
  <2>2. CASE x # y
    <3>1. bound'[x] = bound[x] /\ served'[x] = served[x] BY <1>1, <2>2 DEF TypeOK
    <3>2. ASSUME ClassReadable(x[1])'
          PROVE  ClassReadable(x[1]) /\ BoundBy(x)' = BoundBy(x)
      <4>1. CASE x[1] # c BY <1>1, <3>2, <4>1, OtherClasses
      <4>2. CASE x[1] = c
        <5>1. PICK p \in Objects \ {o} : x = <<c, p>> BY <2>2, <4>2 DEF Correlated
        <5> QED BY <1>4, <3>2, <4>2, <5>1
      <4> QED BY <4>1, <4>2
    <3> QED BY <1>2, <3>1, <3>2 DEF ObjectsUp
  <2> QED BY <2>1, <2>2
<1> QED BY <1>5 DEF ObjectsInv, ObjectsUp

(* A death leaves the class files and the history, and at most one record  *)
(* cut short.                                                              *)
LEMMA ObjectsDeath ==
  ASSUME TypeOK, ObjectsInv, NEW c \in Classes, NEW o \in Objects,
         NEW l \in Libraries, KillInSet(c, o, l)
  PROVE  ObjectsInv'
PROOF
<1>1. PICK f \in CutAppends(csave[c], [object |-> o, library |-> l]) :
        csave' = [csave EXCEPT ![c] = f]
  BY DEF KillInSet
<1>2. phase' = "down" /\ served' = served BY DEF KillInSet, Exit, ghosts
<1>3. ASSUME NEW x \in Correlated, ClassReadable(x[1])'
      PROVE  served'[x] \subseteq BoundBy(x)'
  <2>1. ClassReadable(x[1]) /\ BoundBy(x) \subseteq BoundBy(x)'
    <3>1. CASE x[1] # c BY <1>1, <1>3, <3>1, OtherClasses
    <3>2. CASE x[1] = c
      <4>1. PICK p \in Objects : x = <<c, p>> BY <3>2 DEF Correlated
      <4>2. ClassReadable(c)' BY <1>3, <3>2
      <4>3. /\ ClassReadable(c)
            /\ BoundBy(<<c, p>>) \subseteq BoundBy(<<c, p>>)'
        BY <1>1, <4>2, BoundByCut
      <4> QED BY <3>2, <4>1, <4>3
    <3> QED BY <3>1, <3>2
  <2> QED BY <1>2, <2>1 DEF ObjectsInv
<1> QED BY <1>2, <1>3 DEF ObjectsInv

(* A selection by a bound object is served from the library it is bound to,*)
(* as the ones before were.                                                *)
LEMMA ObjectsServe ==
  ASSUME TypeOK, ObjectsInv, NEW c \in Classes, NEW o \in Objects, SelectByCorrel(c, o)
  PROVE  ObjectsInv' /\ ObjectRouting!Next
PROOF
<1> DEFINE y == <<c, o>>
           l == bound[y]
<1>1. /\ phase = "up" /\ phase' = "up" /\ l # None
      /\ served' = [served EXCEPT ![y] = @ \cup {l}]
      /\ UNCHANGED <<bound, csave>>
  BY DEF SelectByCorrel, memory, disk
<1>2. y \in Correlated /\ l \in Libraries BY <1>1 DEF TypeOK, Correlated
<1>3. ObjectsUp BY <1>1 DEF ObjectsInv
<1>4. served[y] \subseteq {l} BY <1>1, <1>2, <1>3 DEF ObjectsUp, Only
<1> HIDE DEF y, l
<1>5. served' = [served EXCEPT ![y] = {l}] BY <1>1, <1>2, <1>4 DEF TypeOK
<1>6. ObjectRouting!Answer(y, l) BY <1>4, <1>5 DEF ObjectRouting!Answer
<1>7. \A x \in Correlated : served'[x] \subseteq Only(bound[x])
  BY <1>1, <1>2, <1>3, <1>5 DEF ObjectsUp, Only, TypeOK, l
<1>8. \A x \in Correlated :
        BoundBy(x)' = BoundBy(x) /\ (ClassReadable(x[1])' <=> ClassReadable(x[1]))
  BY <1>1 DEF BoundBy, ClassReadable
<1>9. ObjectsInv' BY <1>1, <1>3, <1>7, <1>8 DEF ObjectsInv, ObjectsUp
<1> QED BY <1>2, <1>6, <1>9 DEF ObjectRouting!Next

(* Every step keeps ObjectsInv and is a step of StickyRouting.             *)
LEMMA ObjectsStep ==
  ASSUME TypeOK, ObjectsInv, [Next]_vars
  PROVE  ObjectsInv' /\ [ObjectRouting!Next]_served
PROOF
<1>1. CASE FinishLoad
  BY <1>1, ObjectsLoaded DEF FinishLoad, ghosts
<1>2. CASE StartWorker \/ ReplayRecord \/ RejectRecord \/ RejectFiles
  <2>1. UNCHANGED <<csave, served>> /\ phase' \in {"down", "replay"}
    BY <1>2 DEF StartWorker, ReplayRecord, RejectRecord, RejectFiles, Exit, disk, ghosts
  <2> QED BY <2>1 DEF ObjectsInv, ClassReadable, BoundBy
<1>3. CASE Reload
  <2>1. /\ UNCHANGED <<bound, csave, served>>
        /\ phase \in {"up", "reload"}
    BY <1>3 DEF Reload, BeginReload, ReloadKnownGroup, ReloadNewGroup, ReloadFails, EndReload,
                disk, ghosts
  <2> QED BY <2>1, ObjectsUnchanged
<1>4. ASSUME NEW l \in Libraries,
             \/ SelectKnown(l) \/ SelectNew(l) \/ SelectNewOpenFails(l)
             \/ SelectNewNull(l) \/ SelectByZero(l) \/ KillInSelect(l)
      PROVE  ObjectsInv' /\ UNCHANGED served
  <2>1. CASE SelectKnown(l) \/ SelectNew(l) \/ SelectNewOpenFails(l)
    <3>1. UNCHANGED <<phase, bound, csave, served>>
      BY <2>1 DEF SelectKnown, SelectNew, SelectNewOpenFails, memory, disk, ghosts
    <3> QED BY <3>1, ObjectsUnchanged
  <2>2. CASE SelectNewNull(l) \/ SelectByZero(l) \/ KillInSelect(l)
    <3>1. UNCHANGED <<csave, served>> /\ phase' = "down"
      BY <2>2 DEF SelectNewNull, SelectByZero, KillInSelect, Exit, disk, ghosts
    <3> QED BY <3>1 DEF ObjectsInv, ClassReadable, BoundBy
  <2> QED BY <1>4, <2>1, <2>2
<1>5. ASSUME NEW c \in Classes, NEW o \in Objects, SelectByCorrel(c, o)
      PROVE  ObjectsInv' /\ [ObjectRouting!Next]_served
  BY <1>5, ObjectsServe
<1>6. ASSUME NEW c \in Classes, NEW o \in Objects, NEW l \in Libraries,
             \/ SetCorrel(c, o, l) \/ SetCorrelOpenFails(c, o, l)
             \/ SetCorrelAgain(c, o, l) \/ KillInSet(c, o, l)
      PROVE  ObjectsInv' /\ UNCHANGED served
  <2>1. CASE SetCorrel(c, o, l) BY <2>1, ObjectsSet DEF SetCorrel
  <2>2. CASE SetCorrelOpenFails(c, o, l) \/ SetCorrelAgain(c, o, l)
    <3>1. UNCHANGED <<phase, bound, csave, served>>
      BY <2>2 DEF SetCorrelOpenFails, SetCorrelAgain, memory, disk
    <3> QED BY <3>1, ObjectsUnchanged
  <2>3. CASE KillInSet(c, o, l) BY <2>3, ObjectsDeath DEF KillInSet, ghosts
  <2> QED BY <1>6, <2>1, <2>2, <2>3
<1>7. CASE Kill
  <2>1. UNCHANGED <<csave, served>> /\ phase' = "down"
    BY <1>7 DEF Kill, Exit, disk, ghosts
  <2> QED BY <2>1 DEF ObjectsInv, ClassReadable, BoundBy
<1>8. CASE EditConf \/ UNCHANGED vars
  <2>1. UNCHANGED <<phase, bound, csave, served>>
    BY <1>8 DEF EditConf, vars, memory, disk, ghosts
  <2> QED BY <2>1, ObjectsUnchanged
<1>9. CASE Load BY <1>1, <1>2, <1>9 DEF Load
<1>10. CASE Request BY <1>4, <1>5, <1>6, <1>10 DEF Request
<1>11. CASE Death BY <1>4, <1>6, <1>7, <1>11 DEF Death, Kill, ghosts
<1> QED BY <1>3, <1>8, <1>9, <1>10, <1>11 DEF Next

(* The initial state satisfies both.                                       *)
LEMMA ObjectsInit == Init => ObjectsInv /\ ObjectRouting!Init
BY DEF Init, ObjectsInv, ObjectRouting!Init

(* ObjectsInv holds in every reachable state.                              *)
LEMMA ObjectsInvariant == Spec => []ObjectsInv
PROOF
<1>1. TypeOK /\ ObjectsInv /\ [Next]_vars => ObjectsInv' BY ObjectsStep
<1> QED BY <1>1, ObjectsInit, TypeCorrect, PTL DEF Spec

(* Whatever fails - an open of a save file, a kill between two writes - a  *)
(* correlated object is served from one library for good: ForwardRules     *)
(* implements StickyRouting for objects too, over worker deaths, replays   *)
(* and reloads (app.c:186-287, 490-504; config.c:306-345).                 *)
THEOREM TheObjectsStick == Spec => ObjectsStick
PROOF
<1>1. TypeOK /\ ObjectsInv /\ [Next]_vars => [ObjectRouting!Next]_served
  BY ObjectsStep
<1>2. Init => ObjectRouting!Init BY ObjectsInit
<1> QED BY <1>1, <1>2, ObjectsInvariant, TypeCorrect, PTL
        DEF Spec, ObjectsStick, ObjectRouting!Spec
-----------------------------------------------------------------------------
(* Without faults the files can always be loaded again.  FilesLoad becomes *)
(* inductive with what no step may leave behind: a tail that is not clean, *)
(* and a group in memory that the configuration does not name.             *)
FilesInv ==
  /\ FilesLoad
  /\ save.tail = "clean"
  /\ \A c \in Classes : csave[c].tail = "clean"
  /\ Range(groups) \subseteq Range(conf)

(* A record appended to a clean file is one record more.                   *)
LEMMA CleanAppend ==
  ASSUME NEW R, NEW f \in File(R), NEW r, f.tail = "clean"
  PROVE  /\ Appended(f, r).records = Append(f.records, r)
         /\ Appended(f, r).tail = "clean"
PROOF
<1>1. f = [records |-> f.records, tail |-> f.tail] BY DEF File
<1>2. Appended(f, r) = [f EXCEPT !.records = Append(@, r)] BY DEF Appended
<1> QED BY <1>1, <1>2

(* A step that leaves the files alone keeps them loadable as long as the   *)
(* configuration names every group in memory.                              *)
LEMMA FilesUnchanged ==
  ASSUME FilesInv, UNCHANGED <<save, csave>>,
         Range(conf) \subseteq Range(conf'), Range(groups') \subseteq Range(conf')
  PROVE  FilesInv'
BY DEF FilesInv, FilesLoad, SavedOwner

(* So does the end of the process.                                         *)
LEMMA FilesExit ==
  ASSUME FilesInv, Exit, UNCHANGED disk
  PROVE  FilesInv'
PROOF
<1>1. Range(groups') = {} BY DEF Exit, Range
<1> QED BY <1>1, FilesUnchanged DEF disk

(* A new library is in no record yet, and the group it gets is configured. *)
LEMMA FilesSelectNew ==
  ASSUME TypeOK, StickInv, FilesInv, NEW l \in Libraries, SelectNew(l)
  PROVE  FilesInv'
PROOF
<1> DEFINE rec(k) == [library |-> l, instance |-> groups[k]]
<1>1. PICK g \in DOMAIN groups :
        /\ NewLibrary(l, g) /\ save' = Appended(save, rec(g))
  BY DEF SelectNew
<1> DEFINE r == rec(g)
           R == save.records
<1>2. r.library = l /\ r.instance \in Range(groups) BY DEF Range
<1>3. save' = Appended(save, r) BY <1>1
<1> HIDE DEF r, rec
<1>4. R \in Seq(LibraryRecord) BY DEF TypeOK, File
<1>5. save'.records = Append(R, r) /\ save'.tail = "clean"
  BY <1>3, CleanAppend DEF FilesInv, TypeOK
<1>6. UNCHANGED <<groups, conf, csave>> BY DEF SelectNew
<1>7. \A s \in Range(R) : s.library # l
  <2>1. library[l] = None /\ phase = "up"
    BY <1>1 DEF NewLibrary, Found, Astray, StickInv
  <2>2. Owners(l, Saved) = {}
    BY <2>1 DEF StickInv, FilesInv, Readable, Replayed, Only
  <2>3. SavedOwner(l) = {} BY <2>2, SavedOwnerIsOwners
  <2> QED BY <2>3 DEF SavedOwner
<1> HIDE DEF R
<1>8. Range(save'.records) = Range(R) \cup {r} BY <1>4, <1>5, RangeAppend
<1>9. \A j, k \in DOMAIN save'.records :
        save'.records[j].library = save'.records[k].library => j = k
  <2> DEFINE Q == Append(R, r)
  <2>1. /\ DOMAIN R = 1..Len(R) /\ Len(R) \in Nat
        /\ DOMAIN Q = 1..Len(R) + 1
        /\ Q[Len(R) + 1] = r /\ \A j \in 1..Len(R) : Q[j] = R[j]
    BY <1>4
  <2>2. \A j \in 1..Len(R) : R[j].library # l BY <1>7, <2>1 DEF Range
  <2>3. \A j, k \in 1..Len(R) : R[j].library = R[k].library => j = k
    BY <2>1 DEF FilesInv, FilesLoad, R
  <2> HIDE DEF Q
  <2>4. \A j, k \in DOMAIN Q : Q[j].library = Q[k].library => j = k
    BY <1>2, <2>1, <2>2, <2>3
  <2> QED BY <1>5, <2>4 DEF Q
<1>10. \A s \in Range(save'.records) : s.instance \in Range(conf')
  BY <1>2, <1>6, <1>8 DEF FilesInv, FilesLoad, R
<1>11. \A m : SavedOwner(m) \subseteq SavedOwner(m)'
  BY <1>8 DEF SavedOwner, R
<1>12. ASSUME NEW d \in Classes
       PROVE  /\ csave'[d].tail = "clean"
              /\ \A j, k \in DOMAIN csave'[d].records :
                   csave'[d].records[j].object = csave'[d].records[k].object => j = k
              /\ \A s \in Range(csave'[d].records) : SavedOwner(s.library)' # {}
  <2>1. csave' = csave BY <1>6
  <2>2. \A s \in Range(csave[d].records) : SavedOwner(s.library) # {}
    BY DEF FilesInv, FilesLoad
  <2>3. \A s \in Range(csave[d].records) : SavedOwner(s.library)' # {}
    BY <1>11, <2>2
  <2> QED BY <2>1, <2>3 DEF FilesInv, FilesLoad
<1> QED BY <1>5, <1>6, <1>9, <1>10, <1>12 DEF FilesInv, FilesLoad

(* An object that is not bound is in no record of its class, and it is only*)
(* bound to a library that is in the library file.                         *)
LEMMA FilesSet ==
  ASSUME TypeOK, StickInv, ObjectsInv, FilesInv,
         NEW c \in Classes, NEW o \in Objects, NEW l \in Libraries, SetCorrel(c, o, l)
  PROVE  FilesInv'
PROOF
<1> DEFINE r == [object |-> o, library |-> l]
           R == csave[c].records
<1>1. /\ phase = "up" /\ bound[<<c, o>>] = None /\ Found(l) # {None}
      /\ csave' = [csave EXCEPT ![c] = Appended(@, r)]
      /\ UNCHANGED <<groups, conf, save>>
  BY DEF SetCorrel
<1>2. r.object = o /\ r.library = l OBVIOUS
<1> HIDE DEF r
<1>3. csave[c] \in File(ObjectRecord) /\ csave[c].tail = "clean"
  BY DEF TypeOK, FilesInv
<1>4. R \in Seq(ObjectRecord) BY <1>3 DEF File
<1>5. /\ csave'[c].records = Append(R, r) /\ csave'[c].tail = "clean"
      /\ \A d \in Classes \ {c} : csave'[d] = csave[d]
  BY <1>1, <1>3, CleanAppend DEF TypeOK
<1>6. \A s \in Range(R) : s.object # o
  <2>1. BoundBy(<<c, o>>) = {}
    BY <1>1, <1>3 DEF ObjectsInv, ObjectsUp, ClassReadable, Only, Correlated
  <2> QED BY <2>1 DEF BoundBy
<1>7. SavedOwner(l) # {}
  <2>1. library[l] # None BY <1>1 DEF Found, Astray, StickInv
  <2>2. Owners(l, Saved) # {}
    BY <1>1, <2>1 DEF StickInv, FilesInv, Readable, Replayed, Only
  <2> QED BY <2>2, SavedOwnerIsOwners
<1> HIDE DEF R
<1>8. Range(csave'[c].records) = Range(R) \cup {r} BY <1>4, <1>5, RangeAppend
<1>9. \A j, k \in DOMAIN csave'[c].records :
        csave'[c].records[j].object = csave'[c].records[k].object => j = k
  <2> DEFINE Q == Append(R, r)
  <2>1. /\ DOMAIN R = 1..Len(R) /\ Len(R) \in Nat
        /\ DOMAIN Q = 1..Len(R) + 1
        /\ Q[Len(R) + 1] = r /\ \A j \in 1..Len(R) : Q[j] = R[j]
    BY <1>4
  <2>2. \A j \in 1..Len(R) : R[j].object # o BY <1>6, <2>1 DEF Range
  <2>3. \A j, k \in 1..Len(R) : R[j].object = R[k].object => j = k
    BY <2>1 DEF FilesInv, FilesLoad, R
  <2> HIDE DEF Q
  <2>4. \A j, k \in DOMAIN Q : Q[j].object = Q[k].object => j = k
    BY <1>2, <2>1, <2>2, <2>3
  <2> QED BY <1>5, <2>4 DEF Q
<1>10. \A m : SavedOwner(m)' = SavedOwner(m) BY <1>1 DEF SavedOwner
<1>11. \A s \in Range(csave'[c].records) : SavedOwner(s.library) # {}
  BY <1>2, <1>7, <1>8 DEF FilesInv, FilesLoad, R
<1>12. ASSUME NEW d \in Classes
       PROVE  /\ csave'[d].tail = "clean"
              /\ \A j, k \in DOMAIN csave'[d].records :
                   csave'[d].records[j].object = csave'[d].records[k].object => j = k
              /\ \A s \in Range(csave'[d].records) : SavedOwner(s.library) # {}
  <2>1. CASE d = c BY <1>5, <1>9, <1>11, <2>1
  <2>2. CASE d # c BY <1>5, <2>2 DEF FilesInv, FilesLoad
  <2> QED BY <2>1, <2>2
<1> QED BY <1>1, <1>10, <1>12 DEF FilesInv, FilesLoad

(* Every step keeps FilesInv as long as no write and no open fails and no  *)
(* query yields NULL.                                                      *)
LEMMA FilesStep ==
  ASSUME Faults = {}, TypeOK, TableInv, StickInv, ObjectsInv, FilesInv, [Next]_vars
  PROVE  FilesInv'
PROOF
<1>1. CASE UNCHANGED <<groups, disk>> BY <1>1, FilesUnchanged DEF disk, FilesInv
<1>2. CASE StartWorker
  <2>1. groups' = conf /\ UNCHANGED disk BY <1>2 DEF StartWorker
  <2> QED BY <2>1, FilesUnchanged DEF disk
<1>3. CASE ReplayRecord \/ FinishLoad BY <1>1, <1>3 DEF ReplayRecord, FinishLoad
<1>4. CASE RejectRecord \/ RejectFiles
  BY <1>4, FilesExit DEF RejectRecord, RejectFiles
<1>5. CASE BeginReload \/ ReloadKnownGroup \/ ReloadFails \/ EndReload
  BY <1>1, <1>5 DEF BeginReload, ReloadKnownGroup, ReloadFails, EndReload
<1>6. CASE ReloadNewGroup
  <2>1. PICK n \in LinkPlaces(begin, total) :
          groups' = InsertAt(groups, n + 1, conf[pos + 1])
    BY <1>6 DEF ReloadNewGroup
  <2>1a. UNCHANGED disk /\ pos < Len(conf) BY <1>6 DEF ReloadNewGroup
  <2>2. conf[pos + 1] \in Range(conf)
    <3>1. pos \in Nat /\ conf \in Confs BY DEF TypeOK
    <3>2. pos + 1 \in DOMAIN conf BY <2>1a, <3>1, ConfsType
    <3> QED BY <3>2 DEF Range
  <2>3. Range(groups') = Range(groups) \cup {conf[pos + 1]}
    <3>1. /\ groups \in Seq(Instances) /\ n + 1 \in 1..Len(groups) + 1
          /\ conf \in Seq(Instances)
      BY ConfsType DEF TypeOK, LinkPlaces
    <3>2. conf[pos + 1] \in Instances
      BY <2>2, <3>1, RangeOfSeq
    <3> QED BY <2>1, <3>1, <3>2, InsertRange
  <2> QED BY <2>1a, <2>2, <2>3, FilesUnchanged DEF disk, FilesInv
<1>7. ASSUME NEW l \in Libraries,
             \/ SelectKnown(l) \/ SelectNew(l) \/ SelectNewOpenFails(l)
             \/ SelectNewNull(l) \/ SelectByZero(l) \/ KillInSelect(l)
      PROVE  FilesInv'
  <2>1. CASE SelectKnown(l) BY <1>1, <2>1 DEF SelectKnown, memory
  <2>2. CASE SelectNew(l) BY <2>2, FilesSelectNew
  <2>3. CASE SelectNewOpenFails(l) \/ KillInSelect(l)
    BY <2>3 DEF SelectNewOpenFails, KillInSelect
  <2>4. CASE SelectByZero(l) BY <2>4, FilesExit DEF SelectByZero
  <2> QED BY <1>7, <2>1, <2>2, <2>3, <2>4, NoNullGroup
<1>8. ASSUME NEW c \in Classes, NEW o \in Objects, SelectByCorrel(c, o)
      PROVE  FilesInv'
  BY <1>1, <1>8 DEF SelectByCorrel, memory
<1>9. ASSUME NEW c \in Classes, NEW o \in Objects, NEW l \in Libraries,
             \/ SetCorrel(c, o, l) \/ SetCorrelOpenFails(c, o, l)
             \/ SetCorrelAgain(c, o, l) \/ KillInSet(c, o, l)
      PROVE  FilesInv'
  <2>1. CASE SetCorrel(c, o, l) BY <2>1, FilesSet
  <2>2. CASE SetCorrelAgain(c, o, l) BY <1>1, <2>2 DEF SetCorrelAgain, memory
  <2>3. CASE SetCorrelOpenFails(c, o, l) \/ KillInSet(c, o, l)
    BY <2>3 DEF SetCorrelOpenFails, KillInSet
  <2> QED BY <1>9, <2>1, <2>2, <2>3
<1>10. CASE Kill BY <1>10, FilesExit DEF Kill
<1>11. CASE EditConf
  <2>1. /\ UNCHANGED <<groups, save, csave>>
        /\ Range(conf) \subseteq Range(conf')
    BY <1>11 DEF EditConf, memory
  <2> QED BY <2>1, FilesUnchanged DEF FilesInv
<1>12. CASE UNCHANGED vars BY <1>1, <1>12 DEF vars, memory
<1> QED BY <1>2, <1>3, <1>4, <1>5, <1>6, <1>7, <1>8, <1>9, <1>10, <1>11, <1>12
        DEF Next, Load, Reload, Request, Death

(* The first files are empty.                                              *)
LEMMA FilesInit == Init => FilesInv
PROOF
<1> SUFFICES ASSUME Init PROVE FilesInv OBVIOUS
<1>1. /\ save.records = <<>> /\ save.tail = "clean" /\ groups = <<>>
      /\ \A c \in Classes : csave[c].records = <<>> /\ csave[c].tail = "clean"
  BY DEF Init, EmptyFile
<1>2. Range(<<>>) = {} BY DEF Range
<1> QED BY <1>1, <1>2 DEF FilesInv, FilesLoad

(* FilesInv holds in every reachable state.                                *)
LEMMA FilesInvariant ==
  ASSUME NoOverflow, Faults = {}
  PROVE  Spec => []FilesInv
PROOF
<1>1. "open" \notin Faults OBVIOUS
<1>2. Spec => []StickInv BY <1>1, StickInvariant
<1>3. TypeOK /\ TableInv /\ StickInv /\ ObjectsInv /\ FilesInv /\ [Next]_vars
        => FilesInv'
  BY FilesStep
<1> QED BY <1>2, <1>3, FilesInit, TypeCorrect, TableInvariant, ObjectsInvariant, PTL
        DEF Spec

(* As long as no save fails, no kill lands inside one and the accumulator  *)
(* does not overflow, whatever the worker has written the next one can     *)
(* load: no library or object twice, no group the configuration does not   *)
(* name, no object of a library that is not saved, across all files        *)
(* (config.c:217-254, 306-345).                                            *)
THEOREM TheFilesLoad ==
  ASSUME NoOverflow, Faults = {}
  PROVE  Spec => []FilesLoad
PROOF
<1>1. FilesInv => FilesLoad BY DEF FilesInv
<1> QED BY <1>1, FilesInvariant, PTL

(* Under the same conditions the rules in memory are those of the files     *)
(* between any two requests, so that a death of the worker loses none      *)
(* (app.c:395-427, 583-622).                                               *)
THEOREM TheMemoryIsOnDisk ==
  ASSUME NoOverflow, Faults = {}
  PROVE  Spec => []MemoryIsOnDisk
PROOF
<1>1. ASSUME TypeOK, StickInv, ObjectsInv, FilesInv PROVE MemoryIsOnDisk
  <2> SUFFICES ASSUME phase \in {"up", "reload"}
               PROVE  /\ \A l \in Libraries : SavedOwner(l) = Only(library[l])
                      /\ \A x \in Correlated : BoundBy(x) = Only(bound[x])
    BY DEF MemoryIsOnDisk, Only
  <2>1. \A l \in Libraries : SavedOwner(l) = Only(library[l])
    BY <1>1, SavedOwnerIsOwners DEF StickInv, FilesInv, Readable, Replayed
  <2>2. \A x \in Correlated : BoundBy(x) = Only(bound[x])
    BY <1>1 DEF ObjectsInv, ObjectsUp, FilesInv, ClassReadable, Correlated
  <2> QED BY <2>1, <2>2
<1>2. "open" \notin Faults OBVIOUS
<1>3. Spec => []StickInv BY <1>2, StickInvariant
<1> QED BY <1>1, <1>3, TypeCorrect, ObjectsInvariant, FilesInvariant, PTL
-----------------------------------------------------------------------------
(* The weights.  WeightsCountOthers is inductive together with what makes  *)
(* the count come out: no group is in the table twice, every library that  *)
(* is assigned is assigned to a group of the table, and a worker that is   *)
(* down has no table.  StickInv adds that no library is replayed or created*)
(* twice.                                                                  *)
Elsewhere(i) == {l \in Assigned : library[l] # i}

WeightInv ==
  /\ \A k \in DOMAIN groups : power[k] = base[k] + Cardinality(Elsewhere(groups[k]))
  /\ IsInjective(groups)
  /\ \A l \in Assigned : library[l] \in Range(groups)
  /\ phase = "down" => groups = <<>>

(* There are finitely many libraries.                                      *)
LEMMA ElsewhereFinite ==
  /\ IsFiniteSet(Assigned)
  /\ \A i : IsFiniteSet(Elsewhere(i))
BY RulesAssumption, FS_Subset DEF Assigned, Elsewhere

(* A library that gets its group is elsewhere for every other group: each  *)
(* of those gains one unit of weight, and its count of the others goes up  *)
(* by one.                                                                 *)
LEMMA LinkWeighs ==
  ASSUME TypeOK, WeightInv, phase # "down",
         NEW l \in Libraries, library[l] = None, NEW k \in DOMAIN groups,
         library' = [library EXCEPT ![l] = groups[k]], IncreasePower(k),
         UNCHANGED <<phase, groups, base>>
  PROVE  WeightInv'
PROOF
<1> DEFINE i == groups[k]
<1>1. i \in Instances /\ i # None BY GroupType, RulesAssumption
<1>2. \A m \in Libraries : library'[m] = IF m = l THEN i ELSE library[m]
  BY DEF TypeOK
<1>3. Assigned' = Assigned \cup {l} /\ l \notin Assigned
  BY <1>1, <1>2 DEF Assigned
<1>4. i \in Range(groups) BY DEF Range
<1>5. \A m \in Assigned' : library'[m] \in Range(groups)
  BY <1>2, <1>3, <1>4 DEF WeightInv, Assigned
<1>6. ASSUME NEW j \in DOMAIN groups
      PROVE  power'[j] = base[j] + Cardinality(Elsewhere(groups[j])')
  <2>1. /\ power \in Seq(Nat) /\ Len(power) = Len(groups) /\ base \in Seq(Int)
        /\ Len(base) = Len(groups) /\ DOMAIN groups = 1..Len(groups)
    BY DEF TypeOK
  <2>2. power'[j] = IF j = k THEN power[j] ELSE power[j] + 1
    <3>1. power' = IncreasedPower(power, k) BY DEF IncreasePower
    <3> QED BY <2>1, <3>1, IncreasedPowerType
  <2>3. power[j] = base[j] + Cardinality(Elsewhere(groups[j])) BY DEF WeightInv
  <2>4. CASE j = k
    <3>1. Elsewhere(groups[j])' = Elsewhere(groups[j])
      BY <1>2, <1>3, <2>4 DEF Elsewhere, Assigned
    <3> QED BY <2>2, <2>3, <2>4, <3>1
  <2>5. CASE j # k
    <3>1. groups[j] # i BY <2>5 DEF WeightInv, IsInjective
    <3>2. /\ Elsewhere(groups[j])' = Elsewhere(groups[j]) \cup {l}
          /\ l \notin Elsewhere(groups[j])
      BY <1>2, <1>3, <3>1 DEF Elsewhere, Assigned
    <3> DEFINE E == Elsewhere(groups[j])
    <3> HIDE DEF E
    <3>3. IsFiniteSet(E) BY ElsewhereFinite DEF E
    <3>4. Cardinality(E) \in Nat BY <3>3, FS_CardinalityType
    <3>5. Cardinality(E \cup {l}) = Cardinality(E) + 1
      BY <3>2, <3>3, FS_AddElement DEF E
    <3>6. base[j] \in Int /\ power[j] \in Int BY <2>1
    <3>7. power[j] = base[j] + Cardinality(E) /\ power'[j] = power[j] + 1
      BY <2>2, <2>3, <2>5 DEF E
    <3>8. power'[j] = base[j] + Cardinality(E \cup {l}) BY <3>4, <3>5, <3>6, <3>7
    <3> QED BY <3>2, <3>8 DEF E
  <2> QED BY <2>4, <2>5
<1>7. \A j \in DOMAIN groups' :
        power'[j] = base'[j] + Cardinality(Elsewhere(groups[j])')
  BY <1>6
<1> QED BY <1>5, <1>7 DEF WeightInv

(* A new group starts with the weight of all the others, and all libraries *)
(* there are count as others to it.                                        *)
LEMMA ReloadWeighs ==
  ASSUME TypeOK, WeightInv, ReloadNewGroup
  PROVE  WeightInv'
PROOF
<1> DEFINE g == conf[pos + 1]
           d == total - Cardinality(Assigned)
<1>1. /\ phase' = phase /\ phase = "reload" /\ library' = library
      /\ g \notin Range(groups)
  BY DEF ReloadNewGroup
<1>2. PICK n \in LinkPlaces(begin, total) :
        /\ groups' = InsertAt(groups, n + 1, g) /\ power' = InsertAt(power, n + 1, total)
        /\ base' = InsertAt(base, n + 1, d)
  BY DEF ReloadNewGroup
<1>3. g \in Instances
  <2>1. pos < Len(conf) /\ pos \in Nat /\ conf \in Seq(Instances)
    BY ConfsType DEF ReloadNewGroup, TypeOK
  <2> QED BY <2>1
<1>4. Cardinality(Assigned) \in Nat /\ d \in Int
  BY ElsewhereFinite, FS_CardinalityType DEF TypeOK
<1>4a. d + Cardinality(Assigned) = total BY <1>4 DEF TypeOK
<1> HIDE DEF g, d
<1> DEFINE m == Len(groups)
<1>5. /\ groups \in Seq(Instances) /\ power \in Seq(Nat) /\ base \in Seq(Int)
      /\ Len(groups) = m /\ Len(power) = m /\ Len(base) = m
      /\ m \in Nat /\ total \in Nat /\ DOMAIN groups = 1..m
  BY DEF TypeOK
<1>6. n \in 0..m /\ n + 1 \in 1..m + 1 BY DEF LinkPlaces, TypeOK
<1> HIDE DEF m
(* The number the group at place j had before, if it is not the new one.   *)
<1> DEFINE old(j) == IF j <= n THEN j ELSE j - 1
<1>7. \A j \in 1..m + 1 : j # n + 1 => old(j) \in 1..m BY <1>5, <1>6
<1>7a. \A j, k \in 1..m + 1 : j # n + 1 /\ k # n + 1 /\ old(j) = old(k) => j = k
  BY <1>5, <1>6
<1>5a. m \in Nat /\ Len(groups) = m /\ Len(power) = m /\ Len(base) = m BY <1>5
<1>7c. n \in Nat /\ n <= m BY <1>5, <1>6
<1>8. /\ DOMAIN groups' = 1..m + 1
      /\ \A j \in 1..m + 1 : groups'[j] = IF j = n + 1 THEN g ELSE groups[old(j)]
  <2>1. groups' \in Seq(Instances) /\ Inserted(groups', groups, n + 1, g)
    BY <1>2, <1>3, <1>5, <1>6, InsertInserts
  <2>2. DOMAIN groups' = 1..m + 1 BY <1>5, <2>1 DEF Inserted
  <2>3. \A j \in 1..m + 1 : groups'[j] = IF j = n + 1 THEN g ELSE groups[old(j)]
    <3>1. Inserted(groups', groups, n + 1, g) BY <2>1
    <3> QED BY <1>5a, <1>7c, <3>1, InsertedAt
  <2> QED BY <2>2, <2>3
<1>9. \A j \in 1..m + 1 : power'[j] = IF j = n + 1 THEN total ELSE power[old(j)]
  <2>1. Inserted(power', power, n + 1, total)
    BY <1>2, <1>5, <1>6, InsertInserts
  <2> QED BY <1>5a, <1>7c, <2>1, InsertedAt
<1>10. \A j \in 1..m + 1 : base'[j] = IF j = n + 1 THEN d ELSE base[old(j)]
  <2>1. Inserted(base', base, n + 1, d)
    BY <1>2, <1>4, <1>5, <1>6, InsertInserts
  <2> QED BY <1>5a, <1>7c, <2>1, InsertedAt
<1>11. Range(groups') = Range(groups) \cup {g}
  <2>1. groups \in Seq(Instances) /\ n + 1 \in 1..Len(groups) + 1 BY <1>5, <1>6
  <2>2. Range(InsertAt(groups, n + 1, g)) = Range(groups) \cup {g}
    BY <1>3, <2>1, InsertRange
  <2> QED BY <1>2, <2>2
<1> HIDE DEF old
<1>12. Assigned' = Assigned BY <1>1 DEF Assigned
<1>13. Elsewhere(g) = Assigned BY <1>1 DEF Elsewhere, WeightInv
<1>14. IsInjective(groups')
  <2>1. \A k \in 1..m : groups[k] # g BY <1>1, <1>5 DEF Range
  <2>2. \A j, k \in 1..m : groups[j] = groups[k] => j = k
    BY <1>5 DEF WeightInv, IsInjective
  <2>3. ASSUME NEW j \in 1..m + 1, NEW k \in 1..m + 1, groups'[j] = groups'[k]
        PROVE  j = k
    <3>1. CASE j = n + 1 /\ k = n + 1 BY <3>1
    <3>2. CASE j # n + 1 /\ k = n + 1 BY <1>7, <1>8, <2>1, <2>3, <3>2
    <3>3. CASE j = n + 1 /\ k # n + 1 BY <1>7, <1>8, <2>1, <2>3, <3>3
    <3>4. CASE j # n + 1 /\ k # n + 1 BY <1>7, <1>7a, <1>8, <2>2, <2>3, <3>4
    <3> QED BY <3>1, <3>2, <3>3, <3>4
  <2> QED BY <1>8, <2>3 DEF IsInjective
<1>15. ASSUME NEW k \in 1..m + 1
       PROVE  power'[k] = base'[k] + Cardinality(Elsewhere(groups'[k]))
  <2>1. CASE k = n + 1
    <3>1. power'[k] = total /\ base'[k] = d /\ groups'[k] = g
      BY <1>8, <1>9, <1>10, <2>1
    <3> QED BY <1>4a, <1>13, <3>1
  <2>2. CASE k # n + 1
    <3>1. /\ power'[k] = power[old(k)] /\ base'[k] = base[old(k)]
          /\ groups'[k] = groups[old(k)] /\ old(k) \in DOMAIN groups
      BY <1>5, <1>7, <1>8, <1>9, <1>10, <2>2
    <3>2. power[old(k)] = base[old(k)] + Cardinality(Elsewhere(groups[old(k)]))
      BY <3>1 DEF WeightInv
    <3> QED BY <3>1, <3>2
  <2> QED BY <2>1, <2>2
<1>16. \A l \in Assigned : library'[l] \in Range(groups')
  BY <1>1, <1>11 DEF WeightInv
<1>17. \A k \in DOMAIN groups' :
         power'[k] = base'[k] + Cardinality(Elsewhere(groups[k])')
  <2> SUFFICES ASSUME NEW k \in DOMAIN groups'
               PROVE  power'[k] = base'[k] + Cardinality(Elsewhere(groups[k])')
    OBVIOUS
  <2>1. Elsewhere(groups[k])' = Elsewhere(groups'[k]) BY <1>1 DEF Elsewhere, Assigned
  <2> QED BY <1>8, <1>15, <2>1
<1> QED BY <1>1, <1>12, <1>14, <1>16, <1>17 DEF WeightInv

(* A step that leaves the table and the library tree alone keeps the count.*)
LEMMA WeightUnchanged ==
  ASSUME WeightInv, UNCHANGED <<groups, power, base, library>>,
         phase' = "down" => phase = "down"
  PROVE  WeightInv'
BY DEF WeightInv, Elsewhere, Assigned

(* There is nothing to count when the process has ended.                   *)
LEMMA WeightExit ==
  ASSUME Exit
  PROVE  WeightInv'
PROOF
<1>1. groups' = <<>> /\ library' = NoLibraries BY DEF Exit
<1>2. DOMAIN groups' = {} BY <1>1
<1>3. Assigned' = {} BY <1>1 DEF Assigned, NoLibraries
<1> QED BY <1>1, <1>2, <1>3 DEF WeightInv, IsInjective

(* A new worker gives every group of the configuration one unit of weight. *)
LEMMA WeightStart ==
  ASSUME TypeOK, StickInv, StartWorker
  PROVE  WeightInv'
PROOF
<1>1. /\ groups' = conf /\ power' = [k \in DOMAIN conf |-> 1]
      /\ base' = [k \in DOMAIN conf |-> 1]
      /\ library' = library /\ phase = "down" /\ phase' = "replay"
  BY DEF StartWorker
<1>2. Assigned' = {} BY <1>1 DEF Assigned, NoLibraries, StickInv
<1>3. \A i : Elsewhere(i)' = {} BY <1>2 DEF Elsewhere
<1>4. IsInjective(conf) BY RulesAssumption DEF TypeOK
<1>5. Cardinality({}) = 0 BY FS_EmptySet
<1>6. \A k \in DOMAIN groups' : power'[k] = base'[k] + Cardinality(Elsewhere(groups[k])')
  <2> SUFFICES ASSUME NEW k \in DOMAIN conf
               PROVE  1 = 1 + Cardinality(Elsewhere(groups[k])')
    BY <1>1
  <2>1. Elsewhere(groups[k])' = {} BY <1>2 DEF Elsewhere
  <2> QED BY <1>5, <2>1
<1> QED BY <1>1, <1>2, <1>4, <1>6 DEF WeightInv

(* Every step keeps the count, as long as every open of the save file      *)
(* succeeds.                                                               *)
LEMMA WeightStep ==
  ASSUME "open" \notin Faults, TypeOK, StickInv, WeightInv, [Next]_vars
  PROVE  WeightInv'
PROOF
<1>1. CASE StartWorker BY <1>1, WeightStart
<1>2. CASE ReplayRecord
  <2> DEFINE r == save.records[pos + 1]
  <2>1. /\ phase = "replay" /\ pos < Len(save.records) /\ library[r.library] = None
        /\ library' = [library EXCEPT ![r.library] = r.instance]
        /\ UNCHANGED <<phase, groups, base>>
    BY <1>2 DEF ReplayRecord, Replayable
  <2>2. PICK k \in DOMAIN groups : groups[k] = r.instance /\ IncreasePower(k)
    BY <1>2 DEF ReplayRecord
  <2>3. r.library \in Libraries
    <3>1. save.records \in Seq(LibraryRecord) /\ pos \in Nat BY DEF TypeOK, File
    <3>2. pos + 1 \in 1..Len(save.records) BY <2>1, <3>1
    <3>3. r \in LibraryRecord BY <3>1, <3>2
    <3> QED BY <3>3 DEF LibraryRecord
  <2> DEFINE l == r.library
  <2>4. library[l] = None /\ library' = [library EXCEPT ![l] = groups[k]] /\ l \in Libraries
    BY <2>1, <2>2, <2>3
  <2> HIDE DEF l, r
  <2> QED BY <2>1, <2>2, <2>4, LinkWeighs
<1>3. CASE RejectRecord \/ RejectFiles
  BY <1>3, WeightExit DEF RejectRecord, RejectFiles
<1>4. CASE FinishLoad BY <1>4, WeightUnchanged DEF FinishLoad
<1>5. CASE BeginReload \/ ReloadKnownGroup \/ ReloadFails \/ EndReload
  BY <1>5, WeightUnchanged DEF BeginReload, ReloadKnownGroup, ReloadFails, EndReload
<1>6. CASE ReloadNewGroup BY <1>6, ReloadWeighs
<1>7. ASSUME NEW l \in Libraries,
             \/ SelectKnown(l) \/ SelectNew(l) \/ SelectNewOpenFails(l)
             \/ SelectNewNull(l) \/ SelectByZero(l) \/ KillInSelect(l)
      PROVE  WeightInv'
  <2>1. CASE SelectKnown(l) BY <2>1, WeightUnchanged DEF SelectKnown, memory
  <2>2. CASE SelectNew(l)
    <3>1. PICK k \in DOMAIN groups : NewLibrary(l, k) /\ LinkLibrary(l, k)
      BY <2>2 DEF SelectNew
    <3>2. phase = "up" /\ library[l] = None
      BY <3>1 DEF NewLibrary, Found, Astray, StickInv
    <3>3. UNCHANGED <<phase, groups, base>> BY <2>2 DEF SelectNew
    <3>4. library' = [library EXCEPT ![l] = groups[k]] /\ IncreasePower(k)
      BY <3>1 DEF LinkLibrary
    <3> QED BY <3>2, <3>3, <3>4, LinkWeighs
  <2>3. CASE SelectNewOpenFails(l) BY <2>3 DEF SelectNewOpenFails
  <2>4. CASE SelectNewNull(l) \/ SelectByZero(l) \/ KillInSelect(l)
    BY <2>4, WeightExit DEF SelectNewNull, SelectByZero, KillInSelect
  <2> QED BY <1>7, <2>1, <2>2, <2>3, <2>4
<1>8. ASSUME NEW c \in Classes, NEW o \in Objects, SelectByCorrel(c, o)
      PROVE  WeightInv'
  BY <1>8, WeightUnchanged DEF SelectByCorrel, memory
<1>9. ASSUME NEW c \in Classes, NEW o \in Objects, NEW l \in Libraries,
             \/ SetCorrel(c, o, l) \/ SetCorrelOpenFails(c, o, l)
             \/ SetCorrelAgain(c, o, l) \/ KillInSet(c, o, l)
      PROVE  WeightInv'
  <2>1. CASE SetCorrel(c, o, l) \/ SetCorrelOpenFails(c, o, l) \/ SetCorrelAgain(c, o, l)
    BY <2>1, WeightUnchanged
       DEF SetCorrel, SetCorrelOpenFails, SetCorrelAgain, memory
  <2>2. CASE KillInSet(c, o, l) BY <2>2, WeightExit DEF KillInSet
  <2> QED BY <1>9, <2>1, <2>2
<1>10. CASE Kill BY <1>10, WeightExit DEF Kill
<1>11. CASE EditConf \/ UNCHANGED vars
  BY <1>11, WeightUnchanged DEF EditConf, vars, memory
<1> QED BY <1>1, <1>2, <1>3, <1>4, <1>5, <1>6, <1>7, <1>8, <1>9, <1>10, <1>11
        DEF Next, Load, Reload, Request, Death

(* As long as the save file can be opened, the weight of a group is its    *)
(* starting weight and one for every library that went elsewhere: a replay *)
(* in any order rebuilds the weights the deaths of the worker lost, kills  *)
(* inside a save included (config.c:51-75, 217-254, 497-549).              *)
THEOREM TheWeightsCount ==
  ASSUME "open" \notin Faults
  PROVE  Spec => []WeightsCountOthers
PROOF
<1>1. Init => WeightInv
  <2> SUFFICES ASSUME Init PROVE WeightInv OBVIOUS
  <2>1. groups = <<>> /\ library = NoLibraries BY DEF Init
  <2>2. DOMAIN groups = {} /\ Assigned = {} BY <2>1 DEF Assigned, NoLibraries
  <2> QED BY <2>1, <2>2 DEF WeightInv, IsInjective
<1>2. TypeOK /\ StickInv /\ WeightInv /\ [Next]_vars => WeightInv' BY WeightStep
<1>3. WeightInv => WeightsCountOthers BY DEF WeightInv, WeightsCountOthers, Elsewhere
<1> QED BY <1>1, <1>2, <1>3, TypeCorrect, StickInvariant, PTL DEF Spec
=============================================================================
