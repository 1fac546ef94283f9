--------------------------- MODULE Sessions_proofs ---------------------------
(***************************************************************************)
(* The types of Sessions, and that reloads keep the servers of every       *)
(* connection.                                                             *)
(*                                                                         *)
(* The inductive invariant is Base: besides the types, where connections   *)
(* point to.  It is needed since the handlers follow these pointers: the   *)
(* pool a connection is appended to is that of ITS server, the client a    *)
(* server session works for is its owner, and an event of the batch is of a*)
(* connection that was not freed since.  Every handler has a lemma of its  *)
(* own; what the nested updates of the records leave is said once, in the  *)
(* ...Effect lemmas.                                                       *)
(***************************************************************************)
EXTENDS Sessions, FiniteSetTheorems, SequenceTheorems, WellFoundedInduction, TLAPS

(* A set of naturals that is not empty has a least member.                 *)
LEMMA Least ==
  ASSUME NEW T, T \subseteq Nat, T # {}
  PROVE  \E x \in T : \A y \in T : x <= y
PROOF
<1>1. PICK x \in T : \A y \in T : ~ (<<y, x>> \in OpToRel(<, Nat))
  BY WFMin, NatLessThanWellFounded
<1>2. ASSUME NEW y \in T PROVE x <= y
  <2>1. y < x => <<y, x>> \in OpToRel(<, Nat)
    <3>1. x \in Nat /\ y \in Nat OBVIOUS
    <3> QED BY <3>1, Zenon DEF OpToRel
  <2>2. ~ (<<y, x>> \in OpToRel(<, Nat)) BY <1>1
  <2>3. ~ (y < x) BY <2>1, <2>2, Zenon
  <2>4. x \in Nat /\ y \in Nat OBVIOUS
  <2> HIDE <1>1
  <2> QED BY <2>3, <2>4
<1> QED BY <1>2

(* The places of a sequence that a set of them holds can be counted: there *)
(* is a first one, a second one, and so on to the last.                    *)
LEMMA Counted ==
  ASSUME NEW n \in Nat, NEW P, P \subseteq 1..n
  PROVE  /\ IsFiniteSet(P) /\ Cardinality(P) \in Nat
         /\ \A k \in 1..Cardinality(P) : \E p \in P : Cardinality({m \in P : m <= p}) = k
PROOF
<1> DEFINE Upto(x) == {m \in P : m <= x}
<1>0. \A m \in P : m \in Nat /\ m <= n /\ 1 <= m
  OBVIOUS
<1>1. IsFiniteSet(P)
  <2>1. IsFiniteSet(1..n) BY FS_Interval
  <2> QED BY <2>1, FS_Subset
<1>2. ASSUME NEW x PROVE IsFiniteSet(Upto(x)) /\ Cardinality(Upto(x)) \in Nat
  BY <1>1, FS_Subset, FS_CardinalityType
<1>3. ASSUME NEW k \in 1..Cardinality(P)
      PROVE  \E p \in P : Cardinality(Upto(p)) = k
  <2> DEFINE T == {y \in 0..n : Cardinality(Upto(y)) >= k}
  <2>0. Cardinality(P) \in Nat /\ k \in Nat /\ k >= 1 /\ k <= Cardinality(P)
    BY <1>1, FS_CardinalityType
  <2>1. T # {} /\ T \subseteq Nat
    <3>1. Upto(n) = P BY <1>0
    <3>2. n \in 0..n OBVIOUS
    <3>3. Cardinality(Upto(n)) >= k BY <3>1, <2>0
    <3>4. n \in T BY <3>2, <3>3
    <3>5. \A y \in 0..n : y \in Nat OBVIOUS
    <3>6. T \subseteq Nat BY <3>5
    <3> QED BY <3>4, <3>6, Zenon
  <2>2. PICK x \in T : \A y \in T : x <= y
    <3> HIDE DEF T
    <3> QED BY <2>1, Least
  <2>3. x \in 0..n /\ x \in Nat /\ Cardinality(Upto(x)) >= k OBVIOUS
  <2>4. x # 0
    <3>1. Upto(0) = {}
      <4>1. \A m \in P : ~ (m <= 0) BY <1>0
      <4> QED BY <4>1
    <3>2. Cardinality(Upto(0)) = 0 BY <3>1, FS_EmptySet
    <3> HIDE DEF Upto
    <3> QED BY <3>2, <2>3, <2>0
  <2>5. x - 1 \in 0..n /\ x - 1 \notin T
    <3>1. x - 1 \in 0..n /\ ~ (x <= x - 1) BY <2>3, <2>4
    <3> QED BY <3>1, <2>2
  <2>6. ~ (Cardinality(Upto(x - 1)) >= k) BY <2>5
  <2>7. \A m \in P : m <= x <=> m <= x - 1 \/ m = x BY <1>0, <2>3
  <2>8. x \in P
    <3>1. x \notin P => Upto(x) = Upto(x - 1) BY <2>7
    <3> HIDE DEF Upto
    <3> QED BY <3>1, <2>3, <2>6
  <2>9. Upto(x) = Upto(x - 1) \cup {x} /\ x \notin Upto(x - 1)
    <3>1. ~ (x <= x - 1) BY <2>3
    <3> QED BY <2>7, <2>8, <3>1
  <2>10. Cardinality(Upto(x)) = Cardinality(Upto(x - 1)) + 1
    <3> HIDE DEF Upto
    <3> QED BY <2>9, <1>2, FS_AddElement
  <2>11. Cardinality(Upto(x - 1)) \in Nat BY <1>2
  <2> HIDE DEF Upto
  <2>12. Cardinality(Upto(x)) = k BY <2>3, <2>6, <2>10, <2>11, <2>0
  <2> QED BY <2>8, <2>12
<1> QED BY <1>1, <1>3, FS_CardinalityType

-----------------------------------------------------------------------------
(* A server is in the lists of one group only.                             *)
LEMMA OneGroup ==
  ASSUME NEW l \in ServerLists, NEW i \in Instances, NEW v \in Listed(l[i])
  PROVE  InstanceOf(v) = i /\ v \in Servers
PROOF
<1>1. l[i] \in Seq(Servers) BY SessionsAssumption
<1>2. v \in Servers BY <1>1, ElementOfSeq DEF Listed
<1>3. \A j \in Instances : (\E m \in ServerLists : v \in Listed(m[j])) => j = i
  BY SessionsAssumption
<1>4. \E j \in Instances : \E m \in ServerLists : v \in Listed(m[j]) OBVIOUS
<1> QED BY <1>2, <1>3, <1>4 DEF InstanceOf

(* Reading the file again keeps the servers of a group, in their places,   *)
(* and adds only those of the file (config.c:429-484).                     *)
LEMMA MergedKeeps ==
  ASSUME NEW i \in Instances, NEW l \in ServerLists, list \in [Instances -> Seq(Servers)]
  PROVE  /\ Merged(i, l) \in Seq(Servers)
         /\ Listed(list[i]) \subseteq Listed(Merged(i, l))
         /\ Listed(Merged(i, l)) \subseteq Listed(list[i]) \cup Listed(l[i])
PROOF
<1> DEFINE P == Added(i, l)
           q == [k \in 1..Cardinality(P) |-> l[i][CHOOSE n \in P : Cardinality({m \in P : m <= n}) = k]]
<1>1. l[i] \in Seq(Servers) /\ list[i] \in Seq(Servers) BY SessionsAssumption
<1>2. P \subseteq 1..Len(l[i]) /\ Len(l[i]) \in Nat
  BY <1>1, LenProperties DEF Added
<1>3. /\ Cardinality(P) \in Nat
      /\ \A k \in 1..Cardinality(P) : \E p \in P : Cardinality({m \in P : m <= p}) = k
  <2> HIDE DEF P
  <2> QED BY <1>2, Counted
<1>4. \A k \in 1..Cardinality(P) : q[k] \in Listed(l[i])
  <2> SUFFICES ASSUME NEW k \in 1..Cardinality(P) PROVE q[k] \in Listed(l[i]) OBVIOUS
  <2> DEFINE p == CHOOSE n \in P : Cardinality({m \in P : m <= n}) = k
  <2>1. p \in P BY <1>3
  <2>2. p \in DOMAIN l[i] BY <2>1 DEF Added
  <2>3. q[k] = l[i][p] OBVIOUS
  <2> QED BY <2>2, <2>3 DEF Listed
<1>5. Listed(l[i]) \subseteq Servers BY <1>1, ElementOfSeq DEF Listed
<1>6. q \in Seq(Servers) /\ Len(q) = Cardinality(P)
  <2>1. q \in [1..Cardinality(P) -> Servers] BY <1>4, <1>5
  <2> HIDE DEF q
  <2> QED BY <1>3, <2>1, IsASeq, LenProperties
<1>7. \A k \in DOMAIN q : q[k] \in Listed(l[i])
  <2>1. DOMAIN q = 1..Cardinality(P) OBVIOUS
  <2> QED BY <1>4, <2>1
<1>8. Merged(i, l) = list[i] \o q BY DEF Merged
<1> HIDE DEF q, P
<1>9. /\ list[i] \o q \in Seq(Servers) /\ Len(list[i] \o q) = Len(list[i]) + Len(q)
      /\ \A k \in 1..(Len(list[i]) + Len(q)) :
           (list[i] \o q)[k] = IF k <= Len(list[i]) THEN list[i][k] ELSE q[k - Len(list[i])]
  BY <1>1, <1>6, ConcatProperties
<1>10. /\ DOMAIN list[i] = 1..Len(list[i]) /\ DOMAIN q = 1..Len(q) /\ Len(list[i]) \in Nat /\ Len(q) \in Nat
       /\ DOMAIN (list[i] \o q) = 1..(Len(list[i]) + Len(q))
  BY <1>1, <1>6, <1>9, LenProperties
<1>11. Listed(list[i]) \subseteq Listed(list[i] \o q)
  <2> SUFFICES ASSUME NEW k \in DOMAIN list[i] PROVE list[i][k] \in Listed(list[i] \o q) BY DEF Listed
  <2>1. k \in 1..(Len(list[i]) + Len(q)) /\ k <= Len(list[i]) BY <1>10
  <2>2. (list[i] \o q)[k] = list[i][k] BY <2>1, <1>9
  <2> QED BY <2>1, <2>2, <1>10 DEF Listed
<1>12. Listed(list[i] \o q) \subseteq Listed(list[i]) \cup Listed(l[i])
  <2> SUFFICES ASSUME NEW k \in 1..(Len(list[i]) + Len(q))
               PROVE  (list[i] \o q)[k] \in Listed(list[i]) \cup Listed(l[i])
    BY <1>10 DEF Listed
  <2>1. CASE k <= Len(list[i])
    <3>1. k \in DOMAIN list[i] BY <2>1, <1>10
    <3> QED BY <3>1, <2>1, <1>9 DEF Listed
  <2>2. CASE ~ (k <= Len(list[i]))
    <3>1. k - Len(list[i]) \in DOMAIN q BY <2>2, <1>10
    <3> QED BY <3>1, <2>2, <1>9, <1>7
  <2> QED BY <2>1, <2>2
<1> QED BY <1>8, <1>9, <1>11, <1>12

-----------------------------------------------------------------------------
(* A connection that is not free has a client and a server; one that is    *)
(* free is not polled.                                                     *)
Shape ==
  \A s \in Sessions :
    /\ session[s].list = "free" => session[s].poll = "none"
    /\ session[s].list # "free" => session[s].owner \in Clients /\ session[s].server \in Servers

(* The pools of the servers hold connections to them.                      *)
PoolShape ==
  \A v \in Servers : \A k \in DOMAIN pool[v] :
    session[pool[v][k]].list # "free" /\ session[pool[v][k]].server = v

(* No connection is freed while a batch has an event of it.                *)
BatchShape == \A e \in batch : e.who \in Sessions => session[e.who].list # "free"

(* With the worker everything ends.                                        *)
DeadShape ==
  worker = "dead" =>
    /\ client = [c \in Clients |-> FreeClient]
    /\ session = [s \in Sessions |-> FreeSession]
    /\ pool = [v \in Servers |-> <<>>]
    /\ batch = {}

ListShape == \A i \in Instances : \A v \in Listed(list[i]) : InstanceOf(v) = i

Base == TypeOK /\ Shape /\ PoolShape /\ BatchShape /\ DeadShape /\ ListShape /\ InList

(* Constants of the model are of their types.                              *)
LEMMA Fresh ==
  /\ FreeClient \in ClientRecords /\ NewClient \in ClientRecords
  /\ FreeSession \in SessionRecords
  /\ \A c \in Clients, v \in Servers : NewSession(c, v) \in SessionRecords
  /\ Own \in Messages
  /\ Quit \in Messages
  /\ \A c \in Clients : Query(c) \in Messages
PROOF
<1>1. Own \in Messages /\ Quit \in Messages /\ \A c \in Clients : Query(c) \in Messages
  BY DEF Own, Query, Quit, Messages, Kinds
<1>2. FreeClient \in ClientRecords
  BY DEF FreeClient, ClientRecords, Statuses, Polls
<1>3. NewClient \in ClientRecords
  <2>1. <<Own>> \in Seq(Messages) BY <1>1
  <2> QED BY <1>2, <2>1 DEF NewClient, ClientRecords, Statuses, Polls
<1>4. FreeSession \in SessionRecords
  BY DEF FreeSession, SessionRecords, Polls
<1>5. ASSUME NEW c \in Clients, NEW v \in Servers PROVE NewSession(c, v) \in SessionRecords
  BY <1>4 DEF NewSession, SessionRecords, Polls
<1> QED BY <1>1, <1>2, <1>3, <1>4, <1>5

LEMMA ForgottenType ==
  ASSUME NEW c \in Clients, NEW ses \in [Sessions -> SessionRecords]
  PROVE  /\ Forgotten(c, ses) \in [Sessions -> SessionRecords]
         /\ \A s \in Sessions :
              /\ Forgotten(c, ses)[s].list = ses[s].list
              /\ Forgotten(c, ses)[s].server = ses[s].server
              /\ Forgotten(c, ses)[s].owner = ses[s].owner
              /\ Forgotten(c, ses)[s].poll = ses[s].poll
              /\ Forgotten(c, ses)[s].link = ses[s].link
PROOF
<1> DEFINE Anon(m) == IF m.of = c THEN [m EXCEPT !.of = None] ELSE m
           All(q)  == [k \in DOMAIN q |-> Anon(q[k])]
<1>1. ASSUME NEW q \in Seq(Messages) PROVE All(q) \in Seq(Messages)
  <2>1. \A m \in Messages : Anon(m) \in Messages BY DEF Messages
  <2>2. All(q) \in [1..Len(q) -> Messages]
    <3>1. DOMAIN q = 1..Len(q) /\ \A k \in DOMAIN q : q[k] \in Messages BY ElementOfSeq, LenProperties
    <3> HIDE DEF Anon
    <3> QED BY <2>1, <3>1
  <2> QED BY <2>2, LenProperties, IsASeq
<1> DEFINE Due == [of : Clients \cup {None}, left : 1..Parts]
<1>2. ASSUME NEW q \in Seq(Due) PROVE All(q) \in Seq(Due)
  <2>1. \A m \in Due : Anon(m) \in Due OBVIOUS
  <2>2. All(q) \in [1..Len(q) -> Due]
    <3>1. DOMAIN q = 1..Len(q) /\ \A k \in DOMAIN q : q[k] \in Due
      <4> HIDE DEF Due
      <4> QED BY ElementOfSeq, LenProperties
    <3> HIDE DEF Anon, Due
    <3> QED BY <2>1, <3>1
  <2> HIDE DEF All, Due
  <2> QED BY <2>2, LenProperties, IsASeq
<1>3. Forgotten(c, ses) = [s \in Sessions |-> [ses[s] EXCEPT !.due = All(@), !.answers = All(@)]]
  BY Zenon DEF Forgotten
<1> HIDE DEF All
<1>4. ASSUME NEW s \in Sessions
      PROVE  /\ [ses[s] EXCEPT !.due = All(@), !.answers = All(@)] \in SessionRecords
             /\ Forgotten(c, ses)[s].list = ses[s].list
             /\ Forgotten(c, ses)[s].server = ses[s].server
             /\ Forgotten(c, ses)[s].owner = ses[s].owner
             /\ Forgotten(c, ses)[s].poll = ses[s].poll
             /\ Forgotten(c, ses)[s].link = ses[s].link
  <2>1. /\ ses[s].due \in Seq(Due) /\ ses[s].answers \in Seq(Messages)
        /\ ses[s] \in SessionRecords
    BY DEF SessionRecords
  <2>2. All(ses[s].due) \in Seq(Due) /\ All(ses[s].answers) \in Seq(Messages)
    BY <2>1, <1>1, <1>2
  <2> DEFINE r == [ses[s] EXCEPT !.due = All(@), !.answers = All(@)]
  <2>3. /\ r \in SessionRecords
        /\ r.list = ses[s].list /\ r.server = ses[s].server /\ r.owner = ses[s].owner
        /\ r.poll = ses[s].poll /\ r.link = ses[s].link
    BY <2>1, <2>2 DEF SessionRecords
  <2>4. Forgotten(c, ses)[s] = r BY <1>3
  <2> QED BY <2>3, <2>4
<1> QED BY <1>3, <1>4

(* Once everything was read no COM_QUIT is left.                           *)
LEMMA AllReadIs ==
  ASSUME client \in [Clients -> ClientRecords], NEW c \in Clients
  PROVE  /\ AllRead(client[c].gone) \in {"no", "fin", "rst"}
         /\ AllRead(client[c].gone) = "no" <=> client[c].gone = "no"
         /\ client[c].gone # "quit" => AllRead(client[c].gone) = client[c].gone
BY DEF AllRead, ClientRecords

(* What is read of a client is its request, unless it has quit; then a     *)
(* COM_QUIT comes last.                                                    *)
LEMMA ReadIs ==
  ASSUME NEW c \in Clients
  PROVE  /\ Read(c) \in Seq(Messages)
         /\ client[c].wire # <<>> /\ client[c].gone # "quit" => Read(c) = <<Query(c)>>
         /\ client[c].gone = "quit" => Len(Read(c)) >= 1 /\ Read(c)[Len(Read(c))] = Quit
         /\ \A k \in DOMAIN Read(c) : ~Read(c)[k].last
PROOF
<1> DEFINE x == Query(c)
           y == Quit
<1>0. x \in Messages /\ y \in Messages /\ ~x.last /\ ~y.last
  BY Fresh DEF Query, Quit
<1>1. Read(c) = (IF client[c].wire # <<>> THEN <<x>> ELSE <<>>) \o (IF client[c].gone = "quit" THEN <<y>> ELSE <<>>)
  BY DEF Read
<1> HIDE DEF x, y
<1>2. CASE client[c].wire # <<>> /\ client[c].gone = "quit"
  <2>1. Read(c) = <<x>> \o <<y>> BY <1>1, <1>2
  <2>2. <<x>> \in Seq(Messages) /\ <<y>> \in Seq(Messages) /\ Len(<<x>>) = 1 /\ Len(<<y>>) = 1
        /\ <<x>>[1] = x /\ <<y>>[1] = y
    BY <1>0
  <2>3. /\ Read(c) \in Seq(Messages) /\ Len(Read(c)) = 2
        /\ Read(c)[1] = x /\ Read(c)[2] = y
    <3> DEFINE u == <<x>>
               w == <<y>>
    <3>1. /\ u \o w \in Seq(Messages) /\ Len(u \o w) = Len(u) + Len(w)
          /\ \A k \in 1..(Len(u) + Len(w)) : (u \o w)[k] = IF k <= Len(u) THEN u[k] ELSE w[k - Len(u)]
      <4>1. u \in Seq(Messages) /\ w \in Seq(Messages) BY <2>2
      <4> HIDE DEF u, w
      <4> QED BY <4>1, ConcatProperties
    <3>2. Read(c) = u \o w /\ Len(u) = 1 /\ Len(w) = 1 /\ u[1] = x /\ w[1] = y BY <2>1, <2>2
    <3> HIDE DEF u, w
    <3> QED BY <3>1, <3>2
  <2>4. DOMAIN Read(c) = 1..2 BY <2>3, LenProperties
  <2> QED BY <1>0, <1>2, <2>3, <2>4 DEF y
<1>3. CASE client[c].wire # <<>> /\ client[c].gone # "quit"
  <2>1. Read(c) = <<x>> BY <1>0, <1>1, <1>3
  <2> QED BY <1>0, <1>3, <2>1 DEF x, y
<1>4. CASE client[c].wire = <<>> /\ client[c].gone = "quit"
  <2>1. Read(c) = <<y>> BY <1>0, <1>1, <1>4
  <2> QED BY <1>0, <1>4, <2>1 DEF x, y
<1>5. CASE client[c].wire = <<>> /\ client[c].gone # "quit"
  <2>1. Read(c) = <<>> BY <1>0, <1>1, <1>5
  <2> QED BY <1>0, <1>5, <2>1 DEF x, y
<1> QED BY <1>2, <1>3, <1>4, <1>5

(* The answer to a command changes one client.                             *)
LEMMA RepliedEffect ==
  ASSUME client \in [Clients -> ClientRecords], NEW c \in Clients, NEW s \in Sessions \cup {None},
         NEW status \in Statuses, NEW chosen \in Instances \cup {None}
  PROVE  /\ Replied(c, s, status, chosen) \in [Clients -> ClientRecords]
         /\ \A d \in Clients \ {c} : Replied(c, s, status, chosen)[d] = client[d]
         /\ Replied(c, s, status, chosen)[c].buffer = <<Own>>
         /\ Replied(c, s, status, chosen)[c].poll = "out"
         /\ Replied(c, s, status, chosen)[c].wire = <<>>
         /\ Replied(c, s, status, chosen)[c].pair = s
         /\ Replied(c, s, status, chosen)[c].status = status
         /\ Replied(c, s, status, chosen)[c].chosen = chosen
         /\ Replied(c, s, status, chosen)[c].gone = AllRead(client[c].gone)
         /\ Replied(c, s, status, chosen)[c].turn = client[c].turn
PROOF
<1> DEFINE b == <<Own>>
           w == <<>>
           g == AllRead(client[c].gone)
           r == [client[c] EXCEPT !.buffer = b, !.poll = "out", !.wire = w,
                                  !.pair = s, !.status = status, !.chosen = chosen,
                                  !.gone = g]
<1>0. "out" \in Polls BY DEF Polls
<1>1. b \in Seq(Messages) /\ w \in Seq(Command) BY Fresh
<1>2. Replied(c, s, status, chosen) = [client EXCEPT ![c] = r] BY DEF Replied
<1> HIDE DEF b, w
<1>3. client[c] \in ClientRecords /\ g \in {"no", "fin", "rst", "quit"}
  BY AllReadIs DEF ClientRecords
<1> HIDE DEF g
<1>4. r \in ClientRecords
  BY <1>0, <1>1, <1>3 DEF ClientRecords
<1>5. /\ r.buffer = b /\ r.poll = "out" /\ r.wire = w
      /\ r.pair = s /\ r.status = status /\ r.chosen = chosen
      /\ r.gone = g /\ r.turn = client[c].turn
  BY <1>3 DEF ClientRecords
<1> HIDE DEF r
<1> QED BY <1>2, <1>4, <1>5 DEF b, w, g

LEMMA SelectedOkEffect ==
  ASSUME client \in [Clients -> ClientRecords], NEW c \in Clients, NEW s \in Sessions \cup {None},
         NEW i \in Instances
  PROVE  LET st == IF client[c].status = "select" THEN "selected" ELSE client[c].status
         IN  SelectedOk(c, i, s) = Replied(c, s, st, i) /\ st \in Statuses
PROOF
<1>1. client[c].status \in Statuses BY DEF ClientRecords
<1> QED BY <1>1, Zenon DEF SelectedOk, Statuses

LEMMA SelectFailedEffect ==
  ASSUME client \in [Clients -> ClientRecords], NEW c \in Clients, NEW s \in Sessions \cup {None}
  PROVE  /\ SelectFailed(c, s) = Replied(c, s, client[c].status, client[c].chosen)
         /\ client[c].status \in Statuses /\ client[c].chosen \in Instances \cup {None}
BY DEF SelectFailed, ClientRecords

(* Everything in the buffer of a client was sent.                          *)
LEMMA DeliveredEffect ==
  ASSUME client \in [Clients -> ClientRecords], NEW c \in Clients, NEW status \in Statuses
  PROVE  /\ Delivered(c, status) \in [Clients -> ClientRecords]
         /\ \A d \in Clients \ {c} : Delivered(c, status)[d] = client[d]
         /\ Delivered(c, status)[c].buffer = <<>>
         /\ Delivered(c, status)[c].poll = "in"
         /\ Delivered(c, status)[c].wire = client[c].wire
         /\ Delivered(c, status)[c].pair = client[c].pair
         /\ Delivered(c, status)[c].status = status
         /\ Delivered(c, status)[c].chosen = client[c].chosen
         /\ Delivered(c, status)[c].gone = client[c].gone
         /\ Delivered(c, status)[c].turn =
              IF \E k \in DOMAIN client[c].buffer : client[c].buffer[k].last THEN "send" ELSE client[c].turn
PROOF
<1> DEFINE t == IF \E k \in DOMAIN client[c].buffer : client[c].buffer[k].last THEN "send" ELSE client[c].turn
<1>1. Delivered(c, status) =
        [client EXCEPT ![c].status = status, ![c].buffer = <<>>, ![c].poll = "in", ![c].turn = t]
  BY Zenon DEF Delivered
<1>2. t \in {"send", "wait"} BY DEF ClientRecords
<1> HIDE DEF t
<1>3. <<>> \in Seq(Messages) OBVIOUS
<1> DEFINE r == [client[c] EXCEPT !.status = status, !.buffer = <<>>, !.poll = "in", !.turn = t]
<1>4. Delivered(c, status) = [client EXCEPT ![c] = r] BY <1>1
<1>5. /\ r \in ClientRecords
      /\ r.buffer = <<>> /\ r.poll = "in" /\ r.status = status /\ r.turn = t
      /\ r.wire = client[c].wire /\ r.pair = client[c].pair /\ r.chosen = client[c].chosen
      /\ r.gone = client[c].gone
  BY ZenonT(60), <1>2, <1>3 DEF ClientRecords, Polls
<1> HIDE DEF r
<1> QED BY <1>4, <1>5 DEF t

(* Leaving the epoll set and the working list.                             *)
LEMMA ReleasedEffect ==
  ASSUME NEW ses \in [Sessions -> SessionRecords], NEW s \in Sessions
  PROVE  /\ InPool(s, Unpolled(s, ses)) \in [Sessions -> SessionRecords]
         /\ \A r \in Sessions \ {s} : InPool(s, Unpolled(s, ses))[r] = ses[r]
         /\ InPool(s, Unpolled(s, ses))[s].list = "pool"
         /\ InPool(s, Unpolled(s, ses))[s].poll = "none"
         /\ InPool(s, Unpolled(s, ses))[s].server = ses[s].server
         /\ InPool(s, Unpolled(s, ses))[s].owner = ses[s].owner
         /\ InPool(s, Unpolled(s, ses))[s].due = ses[s].due
         /\ InPool(s, Unpolled(s, ses))[s].answers = ses[s].answers
         /\ InPool(s, Unpolled(s, ses))[s].link = ses[s].link
BY ZenonT(60) DEF InPool, Unpolled, SessionRecords, Polls

(* One connection leaves the epoll set, another one its working list.      *)
LEMMA MovedEffect ==
  ASSUME NEW ses \in [Sessions -> SessionRecords], NEW s \in Sessions, NEW q \in Sessions
  PROVE  /\ InPool(q, Unpolled(s, ses)) \in [Sessions -> SessionRecords]
         /\ \A r \in Sessions :
              /\ r = q => InPool(q, Unpolled(s, ses))[r].list = "pool"
              /\ r # q => InPool(q, Unpolled(s, ses))[r].list = ses[r].list
              /\ r = s => InPool(q, Unpolled(s, ses))[r].poll = "none"
              /\ r # s => InPool(q, Unpolled(s, ses))[r].poll = ses[r].poll
              /\ InPool(q, Unpolled(s, ses))[r].server = ses[r].server
              /\ InPool(q, Unpolled(s, ses))[r].owner = ses[r].owner
              /\ InPool(q, Unpolled(s, ses))[r].due = ses[r].due
              /\ InPool(q, Unpolled(s, ses))[r].answers = ses[r].answers
              /\ InPool(q, Unpolled(s, ses))[r].link = ses[r].link
PROOF
<1>1. Unpolled(s, ses) \in [Sessions -> SessionRecords] BY DEF Unpolled, SessionRecords, Polls
<1>2. \A r \in Sessions :
        /\ Unpolled(s, ses)[r].list = ses[r].list
        /\ r = s => Unpolled(s, ses)[r].poll = "none"
        /\ r # s => Unpolled(s, ses)[r].poll = ses[r].poll
        /\ Unpolled(s, ses)[r].server = ses[r].server
        /\ Unpolled(s, ses)[r].owner = ses[r].owner
        /\ Unpolled(s, ses)[r].due = ses[r].due
        /\ Unpolled(s, ses)[r].answers = ses[r].answers
        /\ Unpolled(s, ses)[r].link = ses[r].link
  BY DEF Unpolled, SessionRecords
<1> DEFINE m == Unpolled(s, ses)
<1> HIDE DEF m
<1>3. InPool(q, m) \in [Sessions -> SessionRecords] BY ZenonT(60), <1>1 DEF InPool, SessionRecords, m
<1>4. \A r \in Sessions :
        /\ r = q => InPool(q, m)[r].list = "pool"
        /\ r # q => InPool(q, m)[r].list = m[r].list
        /\ InPool(q, m)[r].poll = m[r].poll
        /\ InPool(q, m)[r].server = m[r].server
        /\ InPool(q, m)[r].owner = m[r].owner
        /\ InPool(q, m)[r].due = m[r].due
        /\ InPool(q, m)[r].answers = m[r].answers
        /\ InPool(q, m)[r].link = m[r].link
  BY <1>1 DEF InPool, SessionRecords, m
<1> QED BY <1>2, <1>3, <1>4 DEF m

(* Taking a connection out of the pool.                                    *)
LEMMA TakenEffect ==
  ASSUME NEW ses \in [Sessions -> SessionRecords], NEW s \in Sessions
  PROVE  /\ Polled(s, [ses EXCEPT ![s].list = "work"]) \in [Sessions -> SessionRecords]
         /\ [ses EXCEPT ![s].list = "work"] \in [Sessions -> SessionRecords]
         /\ \A r \in Sessions \ {s} : Polled(s, [ses EXCEPT ![s].list = "work"])[r] = ses[r]
         /\ Polled(s, [ses EXCEPT ![s].list = "work"])[s].list = "work"
         /\ Polled(s, [ses EXCEPT ![s].list = "work"])[s].poll = "in"
         /\ Polled(s, [ses EXCEPT ![s].list = "work"])[s].server = ses[s].server
         /\ Polled(s, [ses EXCEPT ![s].list = "work"])[s].owner = ses[s].owner
         /\ Polled(s, [ses EXCEPT ![s].list = "work"])[s].due = ses[s].due
         /\ Polled(s, [ses EXCEPT ![s].list = "work"])[s].answers = ses[s].answers
         /\ Polled(s, [ses EXCEPT ![s].list = "work"])[s].link = ses[s].link
BY ZenonT(60) DEF Polled, SessionRecords, Polls

(* Polling a connection for something else.                                *)
LEMMA PollEffect ==
  ASSUME NEW ses \in [Sessions -> SessionRecords], NEW s \in Sessions, NEW how \in Polls
  PROVE  LET f == [ses EXCEPT ![s].poll = how] IN
         /\ f \in [Sessions -> SessionRecords]
         /\ \A r \in Sessions \ {s} : f[r] = ses[r]
         /\ f[s].poll = how
         /\ \A r \in Sessions :
              /\ f[r].list = ses[r].list
              /\ f[r].server = ses[r].server
              /\ f[r].owner = ses[r].owner
              /\ f[r].due = ses[r].due
              /\ f[r].answers = ses[r].answers
              /\ f[r].link = ses[r].link
BY DEF SessionRecords

(* What a client has sent goes into its buffer.                            *)
LEMMA RequestEffect ==
  ASSUME client \in [Clients -> ClientRecords], NEW c \in Clients
  PROVE  LET f == [client EXCEPT ![c].poll = "err", ![c].wire = <<>>,
                                 ![c].buffer = @ \o Read(c), ![c].gone = AllRead(@)] IN
         /\ f \in [Clients -> ClientRecords]
         /\ \A d \in Clients \ {c} : f[d] = client[d]
         /\ f[c].poll = "err" /\ f[c].wire = <<>> /\ f[c].buffer = client[c].buffer \o Read(c)
         /\ f[c].status = client[c].status /\ f[c].pair = client[c].pair
         /\ f[c].turn = client[c].turn /\ f[c].gone = AllRead(client[c].gone) /\ f[c].chosen = client[c].chosen
PROOF
<1> DEFINE f == [client EXCEPT ![c].poll = "err", ![c].wire = <<>>,
                               ![c].buffer = @ \o Read(c), ![c].gone = AllRead(@)]
           w == <<>>
           b == client[c].buffer \o Read(c)
           g == AllRead(client[c].gone)
           r == [client[c] EXCEPT !.poll = "err", !.wire = w, !.buffer = b, !.gone = g]
<1>1. client[c] \in ClientRecords /\ client[c].buffer \in Seq(Messages)
      /\ g \in {"no", "fin", "rst", "quit"}
  BY AllReadIs DEF ClientRecords
<1>2. b \in Seq(Messages) BY <1>1, ReadIs, ConcatProperties
<1>3. f = [client EXCEPT ![c] = r] OBVIOUS
<1>4. "err" \in Polls /\ w \in Seq(Command) BY DEF Polls
<1> HIDE DEF b, w, g
<1>5. r \in ClientRecords BY <1>1, <1>2, <1>4 DEF ClientRecords
<1>6. /\ r.poll = "err" /\ r.wire = w /\ r.buffer = b
      /\ r.status = client[c].status /\ r.pair = client[c].pair
      /\ r.turn = client[c].turn /\ r.gone = g /\ r.chosen = client[c].chosen
  BY <1>1 DEF ClientRecords
<1> HIDE DEF r
<1>7. /\ f \in [Clients -> ClientRecords]
      /\ \A d \in Clients \ {c} : f[d] = client[d]
      /\ f[c] = r
  BY <1>3, <1>5
<1> HIDE DEF f
<1>8. /\ f \in [Clients -> ClientRecords]
      /\ \A d \in Clients \ {c} : f[d] = client[d]
      /\ f[c].poll = "err" /\ f[c].wire = w /\ f[c].buffer = b
      /\ f[c].status = client[c].status /\ f[c].pair = client[c].pair
      /\ f[c].turn = client[c].turn /\ f[c].gone = g /\ f[c].chosen = client[c].chosen
  BY <1>6, <1>7
<1> QED BY <1>8 DEF f, w, b, g

(* What a server has sent goes into the buffer of a client,                *)
LEMMA AnswerEffect ==
  ASSUME client \in [Clients -> ClientRecords], NEW c \in Clients, NEW a \in Seq(Messages)
  PROVE  LET f == [client EXCEPT ![c].buffer = @ \o a, ![c].poll = "out"] IN
         /\ f \in [Clients -> ClientRecords]
         /\ \A d \in Clients \ {c} : f[d] = client[d]
         /\ f[c].poll = "out" /\ f[c].buffer = client[c].buffer \o a
         /\ f[c].status = client[c].status /\ f[c].pair = client[c].pair /\ f[c].wire = client[c].wire
         /\ f[c].turn = client[c].turn /\ f[c].gone = client[c].gone /\ f[c].chosen = client[c].chosen
PROOF
<1> DEFINE f == [client EXCEPT ![c].buffer = @ \o a, ![c].poll = "out"]
           b == client[c].buffer \o a
           r == [client[c] EXCEPT !.buffer = b, !.poll = "out"]
<1>1. client[c] \in ClientRecords /\ client[c].buffer \in Seq(Messages)
  BY DEF ClientRecords
<1>2. b \in Seq(Messages) BY <1>1, ConcatProperties
<1>3. f = [client EXCEPT ![c] = r] OBVIOUS
<1>4. "out" \in Polls BY DEF Polls
<1> HIDE DEF b
<1>5. r \in ClientRecords BY <1>1, <1>2, <1>4 DEF ClientRecords
<1>6. /\ r.poll = "out" /\ r.buffer = b
      /\ r.status = client[c].status /\ r.pair = client[c].pair /\ r.wire = client[c].wire
      /\ r.turn = client[c].turn /\ r.gone = client[c].gone /\ r.chosen = client[c].chosen
  BY <1>1 DEF ClientRecords
<1> HIDE DEF r
<1>7. /\ f \in [Clients -> ClientRecords]
      /\ \A d \in Clients \ {c} : f[d] = client[d]
      /\ f[c] = r
  BY <1>3, <1>5
<1> HIDE DEF f
<1>8. /\ f \in [Clients -> ClientRecords]
      /\ \A d \in Clients \ {c} : f[d] = client[d]
      /\ f[c].poll = "out" /\ f[c].buffer = b
      /\ f[c].status = client[c].status /\ f[c].pair = client[c].pair /\ f[c].wire = client[c].wire
      /\ f[c].turn = client[c].turn /\ f[c].gone = client[c].gone /\ f[c].chosen = client[c].chosen
  BY <1>6, <1>7
<1> QED BY <1>8 DEF f, b

(* and is no longer unread.                                                *)
LEMMA TakenUpEffect ==
  ASSUME session \in [Sessions -> SessionRecords], NEW s \in Sessions
  PROVE  LET f == [session EXCEPT ![s].answers = <<>>, ![s].poll = "err"] IN
         /\ f \in [Sessions -> SessionRecords]
         /\ \A r \in Sessions \ {s} : f[r] = session[r]
         /\ f[s].poll = "err" /\ f[s].answers = <<>>
         /\ f[s].list = session[s].list /\ f[s].server = session[s].server
         /\ f[s].owner = session[s].owner /\ f[s].due = session[s].due /\ f[s].link = session[s].link
PROOF
<1> DEFINE f == [session EXCEPT ![s].answers = <<>>, ![s].poll = "err"]
           w == <<>>
           n == [session[s] EXCEPT !.answers = w, !.poll = "err"]
<1>1. session[s] \in SessionRecords OBVIOUS
<1>2. w \in Seq(Messages) /\ "err" \in Polls BY DEF Polls
<1>3. f = [session EXCEPT ![s] = n] OBVIOUS
<1> HIDE DEF w
<1>4. n \in SessionRecords BY <1>1, <1>2 DEF SessionRecords
<1>5. /\ n.poll = "err" /\ n.answers = w
      /\ n.list = session[s].list /\ n.server = session[s].server
      /\ n.owner = session[s].owner /\ n.due = session[s].due /\ n.link = session[s].link
  BY <1>1 DEF SessionRecords
<1> HIDE DEF n
<1>6. f \in [Sessions -> SessionRecords] /\ f[s] = n /\ \A r \in Sessions \ {s} : f[r] = session[r]
  BY <1>3, <1>4
<1> QED BY <1>5, <1>6 DEF w

(* A server is sent a request it makes sense of,                           *)
LEMMA HeardEffect ==
  ASSUME session \in [Sessions -> SessionRecords], NEW s \in Sessions, NEW o \in Clients \cup {None}
  PROVE  LET f == [session EXCEPT ![s].poll = "in", ![s].due = Append(@, [of |-> o, left |-> Parts])] IN
         /\ f \in [Sessions -> SessionRecords]
         /\ \A r \in Sessions \ {s} : f[r] = session[r]
         /\ f[s].poll = "in" /\ f[s].due = Append(session[s].due, [of |-> o, left |-> Parts])
         /\ f[s].list = session[s].list /\ f[s].server = session[s].server
         /\ f[s].owner = session[s].owner /\ f[s].answers = session[s].answers /\ f[s].link = session[s].link
PROOF
<1> DEFINE f == [session EXCEPT ![s].poll = "in", ![s].due = Append(@, [of |-> o, left |-> Parts])]
           Due == [of : Clients \cup {None}, left : 1..Parts]
           q == Append(session[s].due, [of |-> o, left |-> Parts])
           n == [session[s] EXCEPT !.poll = "in", !.due = q]
<1>1. session[s] \in SessionRecords /\ session[s].due \in Seq(Due) BY DEF SessionRecords
<1>2. [of |-> o, left |-> Parts] \in Due BY SessionsAssumption
<1>3. q \in Seq(Due)
  <2> HIDE DEF Due
  <2> QED BY <1>1, <1>2, AppendProperties
<1>4. "in" \in Polls BY DEF Polls
<1>5. f = [session EXCEPT ![s] = n] OBVIOUS
<1> HIDE DEF q
<1>6. n \in SessionRecords BY <1>1, <1>3, <1>4 DEF SessionRecords
<1>7. /\ n.poll = "in" /\ n.due = q
      /\ n.list = session[s].list /\ n.server = session[s].server
      /\ n.owner = session[s].owner /\ n.answers = session[s].answers /\ n.link = session[s].link
  BY <1>1 DEF SessionRecords
<1> HIDE DEF n
<1>8. f \in [Sessions -> SessionRecords] /\ f[s] = n /\ \A r \in Sessions \ {s} : f[r] = session[r]
  BY <1>5, <1>6
<1> QED BY <1>7, <1>8 DEF q

(* or something else, and hangs up.                                        *)
LEMMA UnheardEffect ==
  ASSUME session \in [Sessions -> SessionRecords], NEW s \in Sessions
  PROVE  LET f == [session EXCEPT ![s].poll = "in", ![s].link = "rst",
                                  ![s].due = <<>>, ![s].answers = <<>>] IN
         /\ f \in [Sessions -> SessionRecords]
         /\ \A r \in Sessions \ {s} : f[r] = session[r]
         /\ f[s].poll = "in" /\ f[s].due = <<>> /\ f[s].answers = <<>> /\ f[s].link = "rst"
         /\ f[s].list = session[s].list /\ f[s].server = session[s].server
         /\ f[s].owner = session[s].owner
PROOF
<1> DEFINE f == [session EXCEPT ![s].poll = "in", ![s].link = "rst", ![s].due = <<>>, ![s].answers = <<>>]
           w == <<>>
           n == [session[s] EXCEPT !.poll = "in", !.link = "rst", !.due = w, !.answers = w]
<1>1. session[s] \in SessionRecords OBVIOUS
<1>2. w \in Seq(Messages) /\ w \in Seq([of : Clients \cup {None}, left : 1..Parts]) /\ "in" \in Polls
  BY DEF Polls
<1>3. f = [session EXCEPT ![s] = n] OBVIOUS
<1> HIDE DEF w
<1>4. n \in SessionRecords BY <1>1, <1>2 DEF SessionRecords
<1>5. /\ n.poll = "in" /\ n.due = w /\ n.answers = w /\ n.link = "rst"
      /\ n.list = session[s].list /\ n.server = session[s].server
      /\ n.owner = session[s].owner
  BY <1>1 DEF SessionRecords
<1> HIDE DEF n
<1>6. f \in [Sessions -> SessionRecords] /\ f[s] = n /\ \A r \in Sessions \ {s} : f[r] = session[r]
  BY <1>3, <1>4
<1> QED BY <1>5, <1>6 DEF w

LEMMA AppendedEffect ==
  ASSUME NEW p \in [Servers -> Seq(Sessions)], NEW s \in Sessions, session[s].server \in Servers
  PROVE  /\ Appended(s, p) \in [Servers -> Seq(Sessions)]
         /\ \A v \in Servers \ {session[s].server} : Appended(s, p)[v] = p[v]
         /\ Appended(s, p)[session[s].server] = Append(p[session[s].server], s)
BY DEF Appended

(* Closing a client or moving a connection opens and frees none.           *)
SameConnections(a, b) ==
  \A r \in Sessions :
    /\ b[r].list = "free" <=> a[r].list = "free"
    /\ b[r].list = "free" => b[r].poll = "none"
    /\ b[r].server = a[r].server /\ b[r].owner = a[r].owner

-----------------------------------------------------------------------------
(* A step that opens and frees no connection, and puts into the pools only *)
(* connections of their servers.                                           *)
LEMMA KeepBase ==
  ASSUME Base, DeadShape', list' = list,
         client' \in [Clients -> ClientRecords],
         session' \in [Sessions -> SessionRecords],
         SameConnections(session, session'),
         pool' \in [Servers -> Seq(Sessions)],
         \A v \in Servers : \A k \in DOMAIN pool'[v] :
           session[pool'[v][k]].list # "free" /\ session[pool'[v][k]].server = v,
         batch' \subseteq batch, backlog' \in 0..Cardinality(Clients), up' \subseteq Servers,
         worker' \in {"up", "dead"}, strayed' \subseteq {"pair", "answer", "end"}
  PROVE  Base'
PROOF
<1>1. TypeOK' BY DEF Base, TypeOK
<1>2. Shape' BY DEF Base, Shape, SameConnections
<1>3. PoolShape'
  <2> SUFFICES ASSUME NEW v \in Servers, NEW k \in DOMAIN pool'[v]
               PROVE  session'[pool'[v][k]].list # "free" /\ session'[pool'[v][k]].server = v
    BY DEF PoolShape
  <2>1. pool'[v][k] \in Sessions BY ElementOfSeq
  <2> QED BY <2>1 DEF SameConnections
<1>4. BatchShape' BY DEF Base, BatchShape, SameConnections
<1>5. ListShape' BY DEF Base, ListShape, Listed
<1>6. InList'
  <2> SUFFICES ASSUME NEW s \in Sessions, session'[s].list # "free"
               PROVE  session'[s].server \in Listed(list'[InstanceOf(session'[s].server)])
    BY DEF InList, Listed
  <2>1. session[s].server \in Listed(list[InstanceOf(session[s].server)])
    BY DEF Base, InList, SameConnections
  <2> QED BY <2>1 DEF SameConnections
<1> QED BY <1>1, <1>2, <1>3, <1>4, <1>5, <1>6 DEF Base

(* The end of the worker.                                                  *)
LEMMA DiesBase ==
  ASSUME Base, Dies, up' = up
  PROVE  Base'
PROOF
<1> USE DEF Base, Dies
<1>0. client' \in [Clients -> ClientRecords] /\ session' \in [Sessions -> SessionRecords]
  BY Fresh
<1>1. 0 \in 0..Cardinality(Clients)
  BY SessionsAssumption, FS_CardinalityType
<1>2. TypeOK' BY <1>0, <1>1 DEF TypeOK
<1>3. \A s \in Sessions : session'[s].list = "free" /\ session'[s].poll = "none"
  BY DEF FreeSession
<1>4. Shape' BY <1>3 DEF Shape
<1>5. PoolShape' BY DEF PoolShape
<1>6. BatchShape' BY DEF BatchShape
<1>7. DeadShape' BY DEF DeadShape
<1>8. ListShape' BY DEF ListShape, Listed
<1>9. InList' BY <1>3 DEF InList
<1> QED BY <1>2, <1>4, <1>5, <1>6, <1>7, <1>8, <1>9

(* What a handler leaves alone.                                            *)
LEMMA DoneBase ==
  ASSUME Base, worker = "up", NEW e, Done(e), up' = up
  PROVE  /\ batch' \subseteq batch /\ backlog' \in 0..Cardinality(Clients) /\ up' \subseteq Servers
         /\ worker' \in {"up", "dead"} /\ worker' = "up" /\ DeadShape' /\ list' = list
BY DEF Done, Base, TypeOK, DeadShape

(* A handler that changes no more than one client.                         *)
LEMMA ClientBase ==
  ASSUME Base, worker = "up", NEW e, Done(e), up' = up,
         client' \in [Clients -> ClientRecords],
         UNCHANGED <<session, pool, strayed>>
  PROVE  Base'
PROOF
<1>1. /\ session' \in [Sessions -> SessionRecords] /\ pool' \in [Servers -> Seq(Sessions)]
      /\ strayed' \subseteq {"pair", "answer", "end"}
  BY DEF Base, TypeOK
<1>2. SameConnections(session, session')
  BY DEF Base, Shape, SameConnections
<1>3. \A v \in Servers : \A k \in DOMAIN pool'[v] :
        session[pool'[v][k]].list # "free" /\ session[pool'[v][k]].server = v
  BY DEF Base, PoolShape
<1> QED BY <1>1, <1>2, <1>3, DoneBase, KeepBase

(* The pool of a server after one of its connections was appended.         *)
LEMMA AppendedBase ==
  ASSUME Base, NEW s \in Sessions, session[s].list # "free"
  PROVE  /\ Appended(s, pool) \in [Servers -> Seq(Sessions)]
         /\ \A v \in Servers : \A k \in DOMAIN Appended(s, pool)[v] :
              /\ session[Appended(s, pool)[v][k]].list # "free"
              /\ session[Appended(s, pool)[v][k]].server = v
PROOF
<1>1. session[s].server \in Servers /\ pool \in [Servers -> Seq(Sessions)]
  BY DEF Base, Shape, TypeOK
<1> DEFINE w == session[s].server
           q == Appended(s, pool)
<1>2. /\ q \in [Servers -> Seq(Sessions)]
      /\ \A v \in Servers \ {w} : q[v] = pool[v]
      /\ q[w] = Append(pool[w], s)
  BY <1>1, AppendedEffect
<1> HIDE DEF q
<1>3. \A k \in DOMAIN q[w] : q[w][k] = s \/ (k \in DOMAIN pool[w] /\ q[w][k] = pool[w][k])
  BY <1>1, <1>2, AppendProperties
<1>4. ASSUME NEW v \in Servers, NEW k \in DOMAIN q[v]
      PROVE  session[q[v][k]].list # "free" /\ session[q[v][k]].server = v
  <2>1. CASE q[v][k] = s /\ v = w BY <2>1
  <2>2. CASE k \in DOMAIN pool[v] /\ q[v][k] = pool[v][k] BY <2>2 DEF Base, PoolShape
  <2>3. v # w => q[v] = pool[v] BY <1>2
  <2> QED BY <2>1, <2>2, <2>3, <1>3
<1> QED BY <1>2, <1>4 DEF q

LEMMA ForgottenSame ==
  ASSUME NEW c \in Clients, NEW ses \in [Sessions -> SessionRecords], SameConnections(session, ses)
  PROVE  Forgotten(c, ses) \in [Sessions -> SessionRecords] /\ SameConnections(session, Forgotten(c, ses))
PROOF
<1> DEFINE f == Forgotten(c, ses)
<1>1. /\ f \in [Sessions -> SessionRecords]
      /\ \A s \in Sessions : /\ f[s].list = ses[s].list /\ f[s].server = ses[s].server
                             /\ f[s].owner = ses[s].owner /\ f[s].poll = ses[s].poll
  BY ForgottenType
<1> HIDE DEF f
<1>2. SameConnections(session, f) BY <1>1 DEF SameConnections
<1> QED BY <1>1, <1>2 DEF f

LEMMA PollSame ==
  ASSUME session \in [Sessions -> SessionRecords], Shape,
         NEW s \in Sessions, session[s].list # "free", NEW how \in Polls
  PROVE  /\ [session EXCEPT ![s].poll = how] \in [Sessions -> SessionRecords]
         /\ SameConnections(session, [session EXCEPT ![s].poll = how])
PROOF
<1> DEFINE f == [session EXCEPT ![s].poll = how]
<1>1. /\ f \in [Sessions -> SessionRecords]
      /\ \A r \in Sessions \ {s} : f[r] = session[r]
      /\ \A r \in Sessions : /\ f[r].list = session[r].list
                             /\ f[r].server = session[r].server /\ f[r].owner = session[r].owner
  BY PollEffect
<1> HIDE DEF f
<1>2. SameConnections(session, f) BY <1>1 DEF SameConnections, Shape
<1> QED BY <1>1, <1>2 DEF f

LEMMA MovedSame ==
  ASSUME session \in [Sessions -> SessionRecords], SameConnections(session, session),
         NEW s \in Sessions, NEW q \in Sessions, session[q].list # "free"
  PROVE  /\ InPool(q, Unpolled(s, session)) \in [Sessions -> SessionRecords]
         /\ SameConnections(session, InPool(q, Unpolled(s, session)))
PROOF
<1> DEFINE f == InPool(q, Unpolled(s, session))
<1>1. /\ f \in [Sessions -> SessionRecords]
      /\ \A r \in Sessions : /\ r = q => f[r].list = "pool"
                             /\ r # q => f[r].list = session[r].list
                             /\ r = s => f[r].poll = "none"
                             /\ r # s => f[r].poll = session[r].poll
                             /\ f[r].server = session[r].server /\ f[r].owner = session[r].owner
  BY MovedEffect
<1> HIDE DEF f
<1>2. SameConnections(session, f)
  <2> SUFFICES ASSUME NEW r \in Sessions
               PROVE  /\ f[r].list = "free" <=> session[r].list = "free"
                      /\ f[r].list = "free" => f[r].poll = "none"
                      /\ f[r].server = session[r].server /\ f[r].owner = session[r].owner
    BY DEF SameConnections
  <2>1. session[r].list = "free" => session[r].poll = "none" BY DEF SameConnections
  <2>2. f[r].list = "free" <=> session[r].list = "free" BY <1>1
  <2>3. f[r].list = "free" => f[r].poll = "none" BY <1>1, <2>1, <2>2
  <2> QED BY <1>1, <2>2, <2>3
<1> QED BY <1>1, <1>2 DEF f

(* OnClosingAcceptedSocket                                                 *)
LEMMA CloseClientBase ==
  ASSUME Base, worker = "up", NEW c \in Clients, NEW e, CloseClient(c, e), up' = up
  PROVE  Base'
PROOF
<1> DEFINE s == client[c].pair
<1>0. /\ client \in [Clients -> ClientRecords] /\ session \in [Sessions -> SessionRecords]
      /\ pool \in [Servers -> Seq(Sessions)] /\ strayed \subseteq {"pair", "answer", "end"}
      /\ s \in Sessions \cup {None}
      /\ SameConnections(session, session)
  BY DEF Base, TypeOK, ClientRecords, Shape, SameConnections
<1>1. [client EXCEPT ![c] = FreeClient] \in [Clients -> ClientRecords]
  BY <1>0, Fresh
<1>2. CASE /\ s = None
           /\ client' = [client EXCEPT ![c] = FreeClient]
           /\ session' = Forgotten(c, session)
           /\ Done(e) /\ UNCHANGED <<pool, strayed>>
  <2>1. /\ session' \in [Sessions -> SessionRecords]
        /\ SameConnections(session, session')
    BY <1>0, <1>2, ForgottenSame
  <2>2. \A v \in Servers : \A k \in DOMAIN pool'[v] :
          session[pool'[v][k]].list # "free" /\ session[pool'[v][k]].server = v
    BY <1>2 DEF Base, PoolShape
  <2> QED BY <1>0, <1>1, <1>2, <2>1, <2>2, DoneBase, KeepBase
<1>3. CASE /\ s # None /\ session[s].poll # "none"
           /\ client' = [client EXCEPT ![c] = FreeClient]
           /\ session' = Forgotten(c, InPool(s, Unpolled(s, session)))
           /\ pool' = Appended(s, pool)
           /\ Done(e) /\ UNCHANGED strayed
  <2>0. s \in Sessions /\ session[s].list # "free" BY <1>0, <1>3 DEF Base, Shape
  <2> DEFINE ses == InPool(s, Unpolled(s, session))
  <2>1. /\ ses \in [Sessions -> SessionRecords]
        /\ SameConnections(session, ses)
    BY <1>0, <2>0, MovedSame
  <2> HIDE DEF ses
  <2>2. /\ session' \in [Sessions -> SessionRecords]
        /\ SameConnections(session, session')
    BY <1>3, <2>1, ForgottenSame DEF ses
  <2>3. /\ pool' \in [Servers -> Seq(Sessions)]
        /\ \A v \in Servers : \A k \in DOMAIN pool'[v] :
             session[pool'[v][k]].list # "free" /\ session[pool'[v][k]].server = v
    BY <1>3, <2>0, AppendedBase
  <2> QED BY <1>0, <1>1, <1>3, <2>2, <2>3, DoneBase, KeepBase
<1>4. CASE /\ s # None /\ session[s].list # "free" /\ session[s].poll = "none"
           /\ client' = [client EXCEPT ![c] = [FreeClient EXCEPT !.status = "leaked"]]
           /\ Done(e) /\ UNCHANGED <<session, pool, strayed>>
  <2>1. [FreeClient EXCEPT !.status = "leaked"] \in ClientRecords
    BY Fresh DEF ClientRecords, Statuses
  <2>2. client' \in [Clients -> ClientRecords] BY <1>0, <1>4, <2>1
  <2> QED BY <1>4, <2>2, ClientBase
<1>5. CASE Dies BY <1>5, DiesBase
<1> QED BY <1>2, <1>3, <1>4, <1>5 DEF CloseClient

(* Whatever handler works for a client that is not its own is recorded.    *)
LEMMA ActsType ==
  ASSUME NEW s, Acts(s), strayed \subseteq {"pair", "answer", "end"}
  PROVE  strayed' \subseteq {"pair", "answer", "end"} /\ strayed \subseteq strayed'
BY DEF Acts

(* OnClosingForwardSocket                                                  *)
LEMMA CloseSessionBase ==
  ASSUME Base, worker = "up", NEW s \in Sessions, NEW e, CloseSession(s, e), up' = up,
         session[s].list # "free"
  PROVE  Base'
PROOF
<1> DEFINE c == session[s].owner
           q == client[c].pair
<1>0. /\ client \in [Clients -> ClientRecords] /\ session \in [Sessions -> SessionRecords]
      /\ pool \in [Servers -> Seq(Sessions)] /\ strayed \subseteq {"pair", "answer", "end"}
      /\ c \in Clients
      /\ SameConnections(session, session)
  BY DEF Base, TypeOK, Shape, SameConnections
<1>1. [client EXCEPT ![c] = FreeClient] \in [Clients -> ClientRecords] /\ q \in Sessions \cup {None}
  BY <1>0, Fresh DEF ClientRecords
<1> HIDE DEF c, q
<1>2. CASE /\ session[s].poll = "none"
           /\ client' = [client EXCEPT ![c] = FreeClient]
           /\ session' = Forgotten(c, session)
           /\ Done(e) /\ Acts(s) /\ UNCHANGED pool
  <2>1. /\ session' \in [Sessions -> SessionRecords]
        /\ SameConnections(session, session')
    BY <1>0, <1>2, ForgottenSame
  <2>2. \A v \in Servers : \A k \in DOMAIN pool'[v] :
          session[pool'[v][k]].list # "free" /\ session[pool'[v][k]].server = v
    BY <1>2 DEF Base, PoolShape
  <2> QED BY <1>0, <1>1, <1>2, <2>1, <2>2, DoneBase, KeepBase, ActsType
<1>3. CASE /\ session[s].poll # "none"
           /\ q # None /\ session[q].list # "free"
           /\ client' = [client EXCEPT ![c] = FreeClient]
           /\ session' = Forgotten(c, InPool(q, Unpolled(s, session)))
           /\ pool' = Appended(q, pool)
           /\ Done(e) /\ Acts(s)
  <2>0. q \in Sessions BY <1>1, <1>3
  <2> DEFINE ses == InPool(q, Unpolled(s, session))
  <2>1. /\ ses \in [Sessions -> SessionRecords]
        /\ SameConnections(session, ses)
    BY <1>0, <1>3, <2>0, MovedSame
  <2> HIDE DEF ses
  <2>2. /\ session' \in [Sessions -> SessionRecords]
        /\ SameConnections(session, session')
    BY <1>0, <1>3, <2>1, ForgottenSame DEF ses
  <2>3. /\ pool' \in [Servers -> Seq(Sessions)]
        /\ \A v \in Servers : \A k \in DOMAIN pool'[v] :
             session[pool'[v][k]].list # "free" /\ session[pool'[v][k]].server = v
    BY <1>3, <2>0, AppendedBase
  <2> QED BY <1>0, <1>1, <1>3, <2>2, <2>3, DoneBase, KeepBase, ActsType
<1>4. CASE Dies BY <1>4, DiesBase
<1> QED BY <1>2, <1>3, <1>4 DEF CloseSession, c, q

-----------------------------------------------------------------------------
(* SelectMysqlServer takes the first connection of a pool.                 *)
LEMMA TakePooledBase ==
  ASSUME Base, worker = "up", NEW e, Done(e), up' = up,
         NEW c \in Clients, NEW i \in Instances, NEW v \in Servers,
         NEW ses \in [Sessions -> SessionRecords], SameConnections(session, ses),
         NEW p \in [Servers -> Seq(Sessions)],
         \A w \in Servers : \A k \in DOMAIN p[w] :
           session[p[w][k]].list # "free" /\ session[p[w][k]].server = w,
         TakePooled(c, i, v, ses, p)
  PROVE  Base'
PROOF
<1> DEFINE s == Head(p[v])
<1>0. /\ client \in [Clients -> ClientRecords] /\ session \in [Sessions -> SessionRecords]
      /\ strayed \subseteq {"pair", "answer", "end"}
      /\ client[c].pair \in Sessions \cup {None}
  BY DEF Base, TypeOK, ClientRecords
<1>1. p[v] # <<>> /\ pool' = [p EXCEPT ![v] = Tail(@)]
  BY DEF TakePooled
<1>2. /\ s \in Sessions /\ Tail(p[v]) \in Seq(Sessions)
      /\ \A k \in DOMAIN Tail(p[v]) : k + 1 \in DOMAIN p[v] /\ Tail(p[v])[k] = p[v][k + 1]
      /\ 1 \in DOMAIN p[v] /\ s = p[v][1]
  BY <1>1, HeadTailProperties, LenProperties
<1>3. session[s].list # "free" BY <1>2
<1>4. /\ pool' \in [Servers -> Seq(Sessions)]
      /\ \A w \in Servers : \A k \in DOMAIN pool'[w] :
           session[pool'[w][k]].list # "free" /\ session[pool'[w][k]].server = w
  <2>1. \A w \in Servers \ {v} : pool'[w] = p[w] BY <1>1
  <2>2. pool'[v] = Tail(p[v]) BY <1>1
  <2>3. pool' \in [Servers -> Seq(Sessions)] BY <1>1, <1>2
  <2>4. ASSUME NEW w \in Servers, NEW k \in DOMAIN pool'[w]
        PROVE  session[pool'[w][k]].list # "free" /\ session[pool'[w][k]].server = w
    <3>1. CASE w = v BY <3>1, <2>2, <1>2
    <3>2. CASE w # v BY <3>2, <2>1
    <3> QED BY <3>1, <3>2
  <2> QED BY <2>3, <2>4
<1>20. s \in Sessions BY <1>2
<1> HIDE DEF s
<1>5. CASE /\ ses[s].poll = "none"
           /\ session' = Polled(s, [ses EXCEPT ![s].list = "work"])
           /\ client' = SelectedOk(c, i, s)
           /\ strayed' = strayed \cup (IF ses[s].owner # c THEN {"pair"} ELSE {})
                                \cup (IF Unread(ses[s]) > 0 THEN {"answer"} ELSE {})
  <2>1. client' \in [Clients -> ClientRecords]
    BY <1>0, <1>2, <1>5, SelectedOkEffect, RepliedEffect
  <2>2. session' \in [Sessions -> SessionRecords] /\ SameConnections(session, session')
    <3> DEFINE f == Polled(s, [ses EXCEPT ![s].list = "work"])
    <3>1. /\ f \in [Sessions -> SessionRecords]
          /\ \A r \in Sessions \ {s} : f[r] = ses[r]
          /\ f[s].list = "work" /\ f[s].server = ses[s].server /\ f[s].owner = ses[s].owner
      BY ZenonT(60), <1>20, TakenEffect
    <3> HIDE DEF f
    <3>2. SameConnections(session, f) BY <3>1, <1>2, <1>3 DEF SameConnections
    <3> QED BY <3>1, <3>2, <1>5 DEF f
  <2>3. strayed' \subseteq {"pair", "answer", "end"} BY <1>0, <1>5
  <2> QED BY <2>1, <2>2, <2>3, <1>4, DoneBase, KeepBase
<1>6. CASE /\ session' = [ses EXCEPT ![s].list = "work"]
           /\ client' = SelectFailed(c, client[c].pair)
           /\ UNCHANGED strayed
  <2>1. client' \in [Clients -> ClientRecords]
    <3>1. /\ client' = Replied(c, client[c].pair, client[c].status, client[c].chosen)
          /\ client[c].status \in Statuses /\ client[c].chosen \in Instances \cup {None}
      BY <1>0, <1>6, SelectFailedEffect
    <3> QED BY <1>0, <3>1, RepliedEffect
  <2>2. session' \in [Sessions -> SessionRecords] /\ SameConnections(session, session')
    <3> DEFINE f == [ses EXCEPT ![s].list = "work"]
    <3>0. ses[s] \in SessionRecords BY <1>20
    <3> DEFINE r0 == [ses[s] EXCEPT !.list = "work"]
    <3>1. r0 \in SessionRecords /\ r0.list = "work" /\ r0.server = ses[s].server /\ r0.owner = ses[s].owner
      BY <3>0 DEF SessionRecords
    <3>3. f = [ses EXCEPT ![s] = r0] BY <1>20
    <3> HIDE DEF r0
    <3>4. /\ f \in [Sessions -> SessionRecords]
          /\ \A r \in Sessions \ {s} : f[r] = ses[r]
          /\ f[s].list = "work" /\ f[s].server = ses[s].server /\ f[s].owner = ses[s].owner
      BY <3>1, <3>3, <1>20
    <3> HIDE DEF f
    <3>2. SameConnections(session, f) BY <3>4, <1>2, <1>3 DEF SameConnections
    <3> QED BY <3>4, <3>2, <1>6 DEF f
  <2> QED BY <1>0, <1>6, <2>1, <2>2, <1>4, DoneBase, KeepBase
<1> QED BY <1>5, <1>6 DEF TakePooled, s

(* or connects to a server of the list of the group,                       *)
LEMMA ConnectBase ==
  ASSUME Base, worker = "up", NEW e, Done(e), up' = up,
         NEW c \in Clients, NEW i \in Instances, NEW v \in Listed(list[i]),
         NEW ses \in [Sessions -> SessionRecords], SameConnections(session, ses),
         NEW p \in [Servers -> Seq(Sessions)],
         \A w \in Servers : \A k \in DOMAIN p[w] :
           session[p[w][k]].list # "free" /\ session[p[w][k]].server = w,
         Connect(c, i, v, ses, p)
  PROVE  Base'
PROOF
<1>0. /\ client \in [Clients -> ClientRecords] /\ session \in [Sessions -> SessionRecords]
      /\ strayed \subseteq {"pair", "answer", "end"} /\ list[i] \in Seq(Servers)
  BY DEF Base, TypeOK
<1>1. PICK s \in Sessions :
        /\ ses[s].list = "free"
        /\ session' = [ses EXCEPT ![s] = NewSession(c, v)]
        /\ client' = SelectedOk(c, i, s)
  BY DEF Connect
<1>2. pool' = p /\ strayed' = strayed BY DEF Connect
<1>3. v \in Servers /\ InstanceOf(v) = i
  <2>1. v \in Servers BY <1>0, ElementOfSeq DEF Listed
  <2> QED BY <2>1 DEF Base, ListShape
<1> DEFINE new == NewSession(c, v)
<1>4. new \in SessionRecords /\ new.list = "work" /\ new.server = v /\ new.owner = c
  BY <1>3, Fresh DEF NewSession, FreeSession
<1> HIDE DEF new
<1>5. /\ session' \in [Sessions -> SessionRecords] /\ session'[s] = new
      /\ \A r \in Sessions \ {s} : session'[r] = ses[r]
  BY <1>1, <1>4 DEF new
<1>6. session[s].list = "free" BY <1>1 DEF SameConnections
<1>7. client' \in [Clients -> ClientRecords]
  BY <1>0, <1>1, SelectedOkEffect, RepliedEffect
<1>8. TypeOK' BY <1>0, <1>2, <1>5, <1>7, DoneBase DEF Base, TypeOK
<1>9. Shape'
  <2> SUFFICES ASSUME NEW r \in Sessions
               PROVE  /\ session'[r].list = "free" => session'[r].poll = "none"
                      /\ session'[r].list # "free" => session'[r].owner \in Clients /\ session'[r].server \in Servers
    BY DEF Shape
  <2>1. CASE r = s BY <2>1, <1>3, <1>4, <1>5
  <2>2. CASE r # s BY <2>2, <1>5 DEF Base, Shape, SameConnections
  <2> QED BY <2>1, <2>2
<1>10. PoolShape'
  <2> SUFFICES ASSUME NEW w \in Servers, NEW k \in DOMAIN p[w]
               PROVE  session'[p[w][k]].list # "free" /\ session'[p[w][k]].server = w
    BY <1>2 DEF PoolShape
  <2>1. p[w][k] \in Sessions \ {s} BY <1>6, ElementOfSeq
  <2> QED BY <2>1, <1>5 DEF SameConnections
<1>11. BatchShape'
  <2> SUFFICES ASSUME NEW d \in batch, d.who \in Sessions PROVE session'[d.who].list # "free"
    BY DoneBase DEF BatchShape
  <2>1. session[d.who].list # "free" BY DEF Base, BatchShape
  <2> QED BY <2>1, <1>5, <1>6 DEF SameConnections
<1>12. DeadShape' BY DoneBase
<1>13. ListShape' BY DoneBase DEF Base, ListShape, Listed
<1>14. InList'
  <2> SUFFICES ASSUME NEW r \in Sessions, session'[r].list # "free"
               PROVE  session'[r].server \in Listed(list[InstanceOf(session'[r].server)])
    BY DoneBase DEF InList, Listed
  <2>1. CASE r = s BY <2>1, <1>3, <1>4, <1>5
  <2>2. CASE r # s
    <3>1. /\ session'[r] = ses[r] /\ session[r].list # "free"
          /\ ses[r].server = session[r].server
      BY <2>2, <1>5 DEF SameConnections
    <3> QED BY <3>1 DEF Base, InList
  <2> QED BY <2>1, <2>2
<1> QED BY <1>8, <1>9, <1>10, <1>11, <1>12, <1>13, <1>14 DEF Base

(* or does neither.                                                        *)
LEMMA SelectServerBase ==
  ASSUME Base, worker = "up", NEW e, Done(e), up' = up,
         NEW c \in Clients, NEW i \in Instances,
         NEW ses \in [Sessions -> SessionRecords], SameConnections(session, ses),
         NEW p \in [Servers -> Seq(Sessions)],
         \A w \in Servers : \A k \in DOMAIN p[w] :
           session[p[w][k]].list # "free" /\ session[p[w][k]].server = w,
         SelectMysqlServer(c, i, ses, p)
  PROVE  Base'
PROOF
<1>1. CASE \E k \in Reached(i, ses, p) :
             TakePooled(c, i, list[i][k], ses, p) \/ Connect(c, i, list[i][k], ses, p)
  <2>1. PICK k \in Reached(i, ses, p) :
          TakePooled(c, i, list[i][k], ses, p) \/ Connect(c, i, list[i][k], ses, p)
    BY <1>1
  <2>2. k \in DOMAIN list[i] /\ list[i][k] \in Listed(list[i]) BY DEF Reached, Listed
  <2>3. list[i][k] \in Servers
    <3>1. list[i] \in Seq(Servers) BY DEF Base, TypeOK
    <3> QED BY <2>2, <3>1, ElementOfSeq
  <2> QED BY <2>1, <2>2, <2>3, TakePooledBase, ConnectBase
<1>2. CASE SelectNone(c, i, ses, p)
  <2>1. /\ client \in [Clients -> ClientRecords] /\ strayed \subseteq {"pair", "answer", "end"}
    BY DEF Base, TypeOK
  <2>2. /\ session' = ses /\ pool' = p /\ client' = SelectedOk(c, i, None)
        /\ strayed' \subseteq {"pair", "answer", "end"}
    BY <1>2, <2>1 DEF SelectNone
  <2>3. client' \in [Clients -> ClientRecords]
    <3> DEFINE st == IF client[c].status = "select" THEN "selected" ELSE client[c].status
    <3>1. None \in Sessions \cup {None} OBVIOUS
    <3>2. SelectedOk(c, i, None) = Replied(c, None, st, i) /\ st \in Statuses
      BY <2>1, <3>1, SelectedOkEffect
    <3> HIDE DEF st
    <3>3. i \in Instances \cup {None} OBVIOUS
    <3>4. Replied(c, None, st, i) \in [Clients -> ClientRecords]
      BY <2>1, <3>1, <3>2, <3>3, RepliedEffect
    <3> QED BY <2>2, <3>2, <3>4
  <2> QED BY <2>2, <2>3, DoneBase, KeepBase
<1> QED BY <1>1, <1>2 DEF SelectMysqlServer

(* SelectDatabaseLibrary                                                   *)
LEMMA SelectLibraryBase ==
  ASSUME Base, worker = "up", NEW e, up' = up,
         NEW c \in Clients, NEW i \in Instances, SelectDatabaseLibrary(c, i, e)
  PROVE  Base'
PROOF
<1> DEFINE s == client[c].pair
<1>0. /\ client \in [Clients -> ClientRecords] /\ session \in [Sessions -> SessionRecords]
      /\ pool \in [Servers -> Seq(Sessions)] /\ strayed \subseteq {"pair", "answer", "end"}
      /\ s \in Sessions \cup {None}
      /\ SameConnections(session, session)
      /\ \A w \in Servers : \A k \in DOMAIN pool[w] :
           session[pool[w][k]].list # "free" /\ session[pool[w][k]].server = w
  BY DEF Base, TypeOK, ClientRecords, Shape, PoolShape, SameConnections
<1>1. CASE s = None /\ SelectMysqlServer(c, i, session, pool) /\ Done(e)
  BY <1>0, <1>1, SelectServerBase
<1>2. CASE client' = SelectedOk(c, i, s) /\ Done(e) /\ UNCHANGED <<session, pool, strayed>>
  <2> HIDE DEF s
  <2> DEFINE st == IF client[c].status = "select" THEN "selected" ELSE client[c].status
  <2>1. SelectedOk(c, i, s) = Replied(c, s, st, i) /\ st \in Statuses
    BY <1>0, SelectedOkEffect
  <2> HIDE DEF st
  <2>2. i \in Instances \cup {None} OBVIOUS
  <2>3. Replied(c, s, st, i) \in [Clients -> ClientRecords]
    BY <1>0, <2>1, <2>2, RepliedEffect
  <2>4. client' \in [Clients -> ClientRecords]
    BY <1>2, <2>1, <2>3
  <2> QED BY <1>2, <2>4, ClientBase
<1>3. CASE /\ s # None /\ session[s].list # "free"
           /\ SelectMysqlServer(c, i, InPool(s, Unpolled(s, session)), Appended(s, pool))
           /\ Done(e)
  <2>1. s \in Sessions BY <1>0, <1>3
  <2> HIDE DEF s
  <2> DEFINE ses == InPool(s, Unpolled(s, session))
             p == Appended(s, pool)
  <2>2. ses \in [Sessions -> SessionRecords] /\ SameConnections(session, ses)
    BY <1>0, <1>3, <2>1, MovedSame
  <2>3. /\ p \in [Servers -> Seq(Sessions)]
        /\ \A w \in Servers : \A k \in DOMAIN p[w] :
             session[p[w][k]].list # "free" /\ session[p[w][k]].server = w
    BY <1>3, <2>1, AppendedBase
  <2>4. SelectMysqlServer(c, i, ses, p) BY <1>3
  <2> HIDE DEF ses, p
  <2> QED BY <1>3, <2>2, <2>3, <2>4, SelectServerBase
<1>4. CASE /\ s # None /\ session[s].list # "free"
           /\ session' = InPool(s, session) /\ pool' = Appended(s, pool)
           /\ client' = SelectFailed(c, s)
           /\ UNCHANGED strayed
           /\ Done(e)
  <2>1. s \in Sessions BY <1>0, <1>4
  <2> HIDE DEF s
  <2>2. client' \in [Clients -> ClientRecords]
    <3>1. /\ client' = Replied(c, s, client[c].status, client[c].chosen)
          /\ client[c].status \in Statuses /\ client[c].chosen \in Instances \cup {None}
      BY <1>0, <1>4, SelectFailedEffect
    <3> QED BY <1>0, <3>1, RepliedEffect
  <2>3. session' \in [Sessions -> SessionRecords] /\ SameConnections(session, session')
    <3> DEFINE r0 == [session[s] EXCEPT !.list = "pool"]
    <3>0. session[s] \in SessionRecords BY <1>0, <2>1
    <3>1. r0 \in SessionRecords /\ r0.list = "pool" /\ r0.server = session[s].server /\ r0.owner = session[s].owner
      BY <3>0 DEF SessionRecords
    <3>2. session' = [session EXCEPT ![s] = r0] BY <1>4, <2>1, <1>0 DEF InPool
    <3> HIDE DEF r0
    <3>3. /\ session' \in [Sessions -> SessionRecords]
          /\ \A r \in Sessions \ {s} : session'[r] = session[r]
          /\ session'[s] = r0
      BY <3>1, <3>2, <2>1, <1>0
    <3> QED BY <3>1, <3>3, <1>4, <1>0 DEF SameConnections
  <2>4. /\ pool' \in [Servers -> Seq(Sessions)]
        /\ \A w \in Servers : \A k \in DOMAIN pool'[w] :
             session[pool'[w][k]].list # "free" /\ session[pool'[w][k]].server = w
    BY <1>4, <2>1, AppendedBase
  <2> QED BY <1>0, <1>4, <2>2, <2>3, <2>4, DoneBase, KeepBase
<1>5. CASE Dies BY <1>5, DiesBase
<1> QED BY <1>1, <1>2, <1>3, <1>4, <1>5 DEF SelectDatabaseLibrary

LEMMA WireType ==
  ASSUME Base, NEW c \in Clients, client[c].wire # <<>>
  PROVE  Head(client[c].wire) \in Command
PROOF
<1>1. client[c].wire \in Seq(Command) BY DEF Base, TypeOK, ClientRecords
<1> QED BY <1>1, HeadTailProperties

(* A group is understood.                                                  *)
LEMMA UnderstoodIs ==
  ASSUME Base, NEW c \in Clients, Commanded(c, "select")
  PROVE  Understood(c) \subseteq Instances
PROOF
<1>1. Head(client[c].wire) \in Command /\ Head(client[c].wire).do = "select"
  BY WireType DEF Commanded
<1>2. Head(client[c].wire).to \in Instances BY <1>1 DEF Command
<1> QED BY <1>2 DEF Understood

(* OnReceivingAcceptedSocket                                               *)
LEMMA ReceivingBase ==
  ASSUME Base, worker = "up", NEW e, up' = up, NEW c \in Clients, OnReceivingAccepted(c, e)
  PROVE  Base'
PROOF
<1>0. /\ client \in [Clients -> ClientRecords] /\ session \in [Sessions -> SessionRecords]
      /\ pool \in [Servers -> Seq(Sessions)] /\ strayed \subseteq {"pair", "answer", "end"}
      /\ client[c].pair \in Sessions \cup {None} /\ client[c].buffer \in Seq(Messages)
  BY DEF Base, TypeOK, ClientRecords
<1>1. CASE ReceiveEnd(c, e) BY <1>1, CloseClientBase DEF ReceiveEnd
<1>2. CASE ReceiveAuth(c, e)
  <2> DEFINE st == IF Head(client[c].wire).do = "auth" /\ client[c].buffer = <<>>
                   THEN "auth_ok" ELSE "auth_fail"
  <2>1. /\ client' = Replied(c, client[c].pair, st, None)
        /\ Done(e) /\ UNCHANGED <<session, pool, strayed>>
    BY <1>2 DEF ReceiveAuth
  <2>2. st \in Statuses BY DEF Statuses
  <2> HIDE DEF st
  <2>3. None \in Instances \cup {None} OBVIOUS
  <2>4. client' \in [Clients -> ClientRecords] BY <1>0, <2>1, <2>2, <2>3, RepliedEffect
  <2> QED BY <2>1, <2>4, ClientBase
<1>3. CASE ReceiveLocal(c, e)
  <2>1. /\ client' = SelectFailed(c, client[c].pair)
        /\ Done(e) /\ UNCHANGED <<session, pool, strayed>>
    BY <1>3 DEF ReceiveLocal
  <2>2. /\ client' = Replied(c, client[c].pair, client[c].status, client[c].chosen)
        /\ client[c].status \in Statuses /\ client[c].chosen \in Instances \cup {None}
    BY <1>0, <2>1, SelectFailedEffect
  <2>3. client' \in [Clients -> ClientRecords] BY <1>0, <2>2, RepliedEffect
  <2> QED BY <2>1, <2>3, ClientBase
<1>4. CASE ReceiveSelect(c, e)
  <2>1. PICK i \in Understood(c) : SelectDatabaseLibrary(c, i, e)
    BY <1>4 DEF ReceiveSelect
  <2>2. i \in Instances BY <1>4, UnderstoodIs DEF ReceiveSelect
  <2> QED BY <2>1, <2>2, SelectLibraryBase
<1>5. CASE ReceiveRequest(c, e)
  <2> DEFINE s == client[c].pair
  <2>1. CASE CloseClient(c, e) BY <2>1, CloseClientBase
  <2>2. CASE Dies BY <2>2, DiesBase
  <2>3. CASE /\ s # None /\ session[s].poll # "none"
             /\ client' = [client EXCEPT ![c].poll = "err", ![c].wire = <<>>,
                                         ![c].buffer = @ \o Read(c), ![c].gone = AllRead(@)]
             /\ session' = [session EXCEPT ![s].poll = "out"]
             /\ Done(e) /\ UNCHANGED <<pool, strayed>>
    <3>1. client' \in [Clients -> ClientRecords]
      BY <1>0, <2>3, RequestEffect
    <3>2. s \in Sessions /\ session[s].list # "free" BY <1>0, <2>3 DEF Base, Shape
    <3> HIDE DEF s
    <3>3. "out" \in Polls /\ session' = [session EXCEPT ![s].poll = "out"] BY <2>3 DEF Polls
    <3>4. session' \in [Sessions -> SessionRecords] /\ SameConnections(session, session')
      <4>1. Shape /\ session \in [Sessions -> SessionRecords] BY <1>0 DEF Base
      <4> QED BY <4>1, <3>2, <3>3, PollSame
    <3>5. \A w \in Servers : \A k \in DOMAIN pool'[w] :
            session[pool'[w][k]].list # "free" /\ session[pool'[w][k]].server = w
      BY <2>3 DEF Base, PoolShape
    <3> QED BY <1>0, <2>3, <3>1, <3>4, <3>5, DoneBase, KeepBase
  <2> QED BY <1>5, <2>1, <2>2, <2>3 DEF ReceiveRequest
<1> QED BY <1>1, <1>2, <1>3, <1>4, <1>5 DEF OnReceivingAccepted

(* OnAcceptingSocket                                                       *)
LEMMA AcceptingBase ==
  ASSUME Base, worker = "up", NEW e \in batch, up' = up, OnAccepting(e)
  PROVE  Base'
PROOF
<1>0. client \in [Clients -> ClientRecords] BY DEF Base, TypeOK
<1>1. PICK new \in SUBSET {c \in Clients : client[c].status = "free"} :
        client' = [c \in Clients |-> IF c \in new THEN NewClient ELSE client[c]]
  BY DEF OnAccepting
<1>2. client' \in [Clients -> ClientRecords] BY <1>0, <1>1, Fresh
<1>3. /\ batch' \subseteq batch /\ backlog' = 0 /\ worker' = "up" /\ list' = list
      /\ session' = session /\ pool' = pool /\ strayed' = strayed
  BY DEF OnAccepting
<1>4. 0 \in 0..Cardinality(Clients) BY SessionsAssumption, FS_CardinalityType
<1>5. SameConnections(session, session') BY <1>3 DEF Base, Shape, SameConnections
<1>6. \A w \in Servers : \A k \in DOMAIN pool'[w] :
        session[pool'[w][k]].list # "free" /\ session[pool'[w][k]].server = w
  BY <1>3 DEF Base, PoolShape
<1>7. /\ session' \in [Sessions -> SessionRecords] /\ pool' \in [Servers -> Seq(Sessions)]
      /\ up' \subseteq Servers /\ strayed' \subseteq {"pair", "answer", "end"}
  BY <1>3 DEF Base, TypeOK
<1>8. DeadShape' BY <1>3 DEF DeadShape
<1> QED BY <1>2, <1>3, <1>4, <1>5, <1>6, <1>7, <1>8, KeepBase

(* OnSendingAcceptedSocket                                                 *)
LEMMA SendingBase ==
  ASSUME Base, worker = "up", NEW e, up' = up, NEW c \in Clients, OnSendingAccepted(c, e)
  PROVE  Base'
PROOF
<1>0. /\ client \in [Clients -> ClientRecords] /\ session \in [Sessions -> SessionRecords]
      /\ pool \in [Servers -> Seq(Sessions)] /\ strayed \subseteq {"pair", "answer", "end"}
      /\ client[c].pair \in Sessions \cup {None} /\ client[c].status \in Statuses
  BY DEF Base, TypeOK, ClientRecords
<1>1. CASE SendFails(c, e) BY <1>1, CloseClientBase DEF SendFails
<1>2. CASE SendBeforeForward(c, e)
  <2>1. /\ client' = Delivered(c, AfterSending(client[c].status))
        /\ Done(e) /\ UNCHANGED <<session, pool, strayed>>
    BY <1>2 DEF SendBeforeForward
  <2>2. AfterSending(client[c].status) \in Statuses BY <1>0 DEF AfterSending, Statuses
  <2>3. client' \in [Clients -> ClientRecords] BY <1>0, <2>1, <2>2, DeliveredEffect
  <2> QED BY <2>1, <2>3, ClientBase
<1>3. CASE SendForward(c, e)
  <2> DEFINE s == client[c].pair
  <2>1. CASE Dies BY <2>1, DiesBase
  <2>2. CASE /\ s # None /\ session[s].poll # "none"
             /\ client' = Delivered(c, "forward")
             /\ session' = [session EXCEPT ![s].poll = "in"]
             /\ Done(e) /\ UNCHANGED <<pool, strayed>>
    <3>1. client' \in [Clients -> ClientRecords]
      <4>1. "forward" \in Statuses BY DEF Statuses
      <4> QED BY <1>0, <2>2, <4>1, DeliveredEffect
    <3>2. s \in Sessions /\ session[s].list # "free" BY <1>0, <2>2 DEF Base, Shape
    <3> HIDE DEF s
    <3>3. "in" \in Polls /\ session' = [session EXCEPT ![s].poll = "in"] BY <2>2 DEF Polls
    <3>4. session' \in [Sessions -> SessionRecords] /\ SameConnections(session, session')
      <4>1. Shape /\ session \in [Sessions -> SessionRecords] BY <1>0 DEF Base
      <4> QED BY <4>1, <3>2, <3>3, PollSame
    <3>5. \A w \in Servers : \A k \in DOMAIN pool'[w] :
            session[pool'[w][k]].list # "free" /\ session[pool'[w][k]].server = w
      BY <2>2 DEF Base, PoolShape
    <3> QED BY <1>0, <2>2, <3>1, <3>4, <3>5, DoneBase, KeepBase
  <2> QED BY <1>3, <2>1, <2>2 DEF SendForward
<1> QED BY <1>1, <1>2, <1>3 DEF OnSendingAccepted

(* OnReceivingForwardSocket                                                *)
LEMMA AnsweringBase ==
  ASSUME Base, worker = "up", NEW e \in batch, up' = up, NEW s \in Sessions, OnReceivingForward(s, e)
  PROVE  Base'
PROOF
<1>0. session[s].list # "free" /\ Owner(s) \in Clients
  BY DEF Base, BatchShape, Shape, OnReceivingForward, Owner
<1>1. CASE ReceiveAnswer(s, e)
  <2> DEFINE c == Owner(s)
             a == session[s].answers
  <2>1. /\ client \in [Clients -> ClientRecords] /\ session \in [Sessions -> SessionRecords]
        /\ a \in Seq(Messages) /\ strayed \subseteq {"pair", "answer", "end"}
        /\ pool \in [Servers -> Seq(Sessions)] /\ Shape
    BY DEF Base, TypeOK, SessionRecords
  <2>2. /\ client' = [client EXCEPT ![c].buffer = @ \o a, ![c].poll = "out"]
        /\ session' = [session EXCEPT ![s].answers = <<>>, ![s].poll = "err"]
        /\ Done(e) /\ Acts(s) /\ pool' = pool
    BY <1>1 DEF ReceiveAnswer
  <2>3. client' \in [Clients -> ClientRecords]
    <3> HIDE DEF a, c
    <3>1. c \in Clients BY <1>0 DEF c
    <3> QED BY <2>1, <2>2, <3>1, AnswerEffect
  <2>4. session' \in [Sessions -> SessionRecords] /\ SameConnections(session, session')
    <3>1. /\ session' \in [Sessions -> SessionRecords]
          /\ \A r \in Sessions \ {s} : session'[r] = session[r]
          /\ session'[s].list = session[s].list /\ session'[s].server = session[s].server
          /\ session'[s].owner = session[s].owner
      BY <2>1, <2>2, TakenUpEffect
    <3> QED BY <3>1, <2>1, <1>0 DEF SameConnections, Shape
  <2>5. \A w \in Servers : \A k \in DOMAIN pool'[w] :
          session[pool'[w][k]].list # "free" /\ session[pool'[w][k]].server = w
    BY <2>2 DEF Base, PoolShape
  <2> QED BY <2>1, <2>2, <2>3, <2>4, <2>5, ActsType, DoneBase, KeepBase
<1>2. CASE Dies BY <1>2, DiesBase
<1>3. CASE CloseSession(s, e) BY <1>0, <1>3, CloseSessionBase
<1> QED BY <1>1, <1>2, <1>3 DEF OnReceivingForward

(* OnSendingForwardSocket                                                  *)
LEMMA RequestingBase ==
  ASSUME Base, worker = "up", NEW e \in batch, up' = up, NEW s \in Sessions, OnSendingForward(s, e)
  PROVE  Base'
PROOF
<1>0. session[s].list # "free" /\ Owner(s) \in Clients
  BY DEF Base, BatchShape, Shape, OnSendingForward, Owner
<1>1. CASE SendRequest(s, e)
  <2> DEFINE c == Owner(s)
             q == client[c].buffer
             o == Head(q).of
  <2>1. /\ client \in [Clients -> ClientRecords] /\ session \in [Sessions -> SessionRecords]
        /\ strayed \subseteq {"pair", "answer", "end"}
        /\ pool \in [Servers -> Seq(Sessions)] /\ Shape
    BY DEF Base, TypeOK
  <2>2. /\ q # <<>>
        /\ client' = [client EXCEPT ![c].buffer = <<>>]
        /\ \/ session' = [session EXCEPT ![s].poll = "in",
                            ![s].due = Append(@, [of |-> o, left |-> Parts])]
           \/ session' = [session EXCEPT ![s].poll = "in", ![s].link = "rst",
                            ![s].due = <<>>, ![s].answers = <<>>]
        /\ Done(e) /\ Acts(s) /\ pool' = pool
    BY <1>1 DEF SendRequest
  <2>3. o \in Clients \cup {None}
    <3>1. q \in Seq(Messages) BY <1>0, <2>1 DEF ClientRecords
    <3>2. Head(q) \in Messages BY <2>2, <3>1, HeadTailProperties
    <3> QED BY <3>2 DEF Messages
  <2>4. client' \in [Clients -> ClientRecords]
    <3>1. c \in Clients BY <1>0
    <3> HIDE DEF c
    <3>2. client[c] \in ClientRecords /\ <<>> \in Seq(Messages) BY <2>1, <3>1
    <3>3. [client[c] EXCEPT !.buffer = <<>>] \in ClientRecords BY <3>2 DEF ClientRecords
    <3>4. client' = [client EXCEPT ![c] = [client[c] EXCEPT !.buffer = <<>>]] BY <2>2
    <3> QED BY <2>1, <3>3, <3>4
  <2> HIDE DEF o, q, c
  <2>5. session' \in [Sessions -> SessionRecords] /\ SameConnections(session, session')
    <3>1. /\ session' \in [Sessions -> SessionRecords]
          /\ \A r \in Sessions \ {s} : session'[r] = session[r]
          /\ session'[s].list = session[s].list /\ session'[s].server = session[s].server
          /\ session'[s].owner = session[s].owner
      <4>1. CASE session' = [session EXCEPT ![s].poll = "in",
                               ![s].due = Append(@, [of |-> o, left |-> Parts])]
        BY <4>1, <2>1, <2>3, HeardEffect
      <4>2. CASE session' = [session EXCEPT ![s].poll = "in", ![s].link = "rst",
                               ![s].due = <<>>, ![s].answers = <<>>]
        BY <4>2, <2>1, UnheardEffect
      <4> QED BY <2>2, <4>1, <4>2
    <3> QED BY <3>1, <2>1, <1>0 DEF SameConnections, Shape
  <2>6. \A w \in Servers : \A k \in DOMAIN pool'[w] :
          session[pool'[w][k]].list # "free" /\ session[pool'[w][k]].server = w
    BY <2>2 DEF Base, PoolShape
  <2> QED BY <2>1, <2>2, <2>4, <2>5, <2>6, ActsType, DoneBase, KeepBase
<1>2. CASE Dies BY <1>2, DiesBase
<1>3. CASE CloseSession(s, e) BY <1>0, <1>3, CloseSessionBase
<1> QED BY <1>1, <1>2, <1>3 DEF OnSendingForward

(* A handler that only failed                                              *)
LEMMA OutlivedBase ==
  ASSUME Base, worker = "up", NEW e, up' = up, Outlived(e)
  PROVE  Base'
PROOF
<1>1. client' = client /\ Done(e) /\ UNCHANGED <<session, pool, strayed>> BY DEF Outlived
<1>2. client' \in [Clients -> ClientRecords] BY <1>1 DEF Base, TypeOK
<1> QED BY <1>1, <1>2, ClientBase

(* Any handler                                                             *)
LEMMA HandleBase ==
  ASSUME Base, worker = "up", Handle, up' = up
  PROVE  Base'
PROOF
<1>1. PICK e \in batch :
        \/ OnAccepting(e)
        \/ \E c \in Clients :
             \/ OnReceivingAccepted(c, e) \/ OnSendingAccepted(c, e)
             \/ AcceptedError(c, e)       \/ AcceptedGone(c, e)
        \/ \E s \in Sessions :
             \/ OnReceivingForward(s, e)  \/ OnSendingForward(s, e)
             \/ ForwardError(s, e)        \/ ForwardGone(s, e)
  BY DEF Handle
<1>2. CASE OnAccepting(e) BY <1>2, AcceptingBase
<1>3. ASSUME NEW c \in Clients, OnReceivingAccepted(c, e) PROVE Base' BY <1>3, ReceivingBase
<1>4. ASSUME NEW c \in Clients, OnSendingAccepted(c, e) PROVE Base' BY <1>4, SendingBase
<1>5. ASSUME NEW c \in Clients, AcceptedError(c, e) PROVE Base'
  BY <1>5, CloseClientBase DEF AcceptedError
<1>6. ASSUME NEW c \in Clients, AcceptedGone(c, e) PROVE Base'
  BY <1>6, DiesBase, OutlivedBase DEF AcceptedGone
<1>7. ASSUME NEW s \in Sessions, OnReceivingForward(s, e) PROVE Base' BY <1>7, AnsweringBase
<1>8. ASSUME NEW s \in Sessions, OnSendingForward(s, e) PROVE Base' BY <1>8, RequestingBase
<1>9. ASSUME NEW s \in Sessions, ForwardError(s, e) PROVE Base'
  <2>1. session[s].list # "free" BY <1>9 DEF ForwardError, Base, BatchShape
  <2> QED BY <1>9, <2>1, CloseSessionBase DEF ForwardError
<1>10. ASSUME NEW s \in Sessions, ForwardGone(s, e) PROVE Base'
  BY <1>10, DiesBase, OutlivedBase DEF ForwardGone
<1> QED BY <1>1, <1>2, <1>3, <1>4, <1>5, <1>6, <1>7, <1>8, <1>9, <1>10

-----------------------------------------------------------------------------
(* What epoll_wait can return for a client                                 *)
LEMMA ReadyClientIs ==
  ASSUME NEW c, NEW e \in ReadyClient(c)
  PROVE  e = [who |-> c, what |-> e.what] /\ e.who = c /\ e.what = client[c].poll
         /\ e.what \in {"in", "out", "err"}
BY DEF ReadyClient

(* and for a connection.                                                   *)
LEMMA ReadySessionIs ==
  ASSUME NEW ses, NEW s, NEW e \in ReadySession(ses, s)
  PROVE  e = [who |-> s, what |-> e.what] /\ e.who = s /\ e.what = ses[s].poll
         /\ e.what \in {"in", "out", "err"}
BY DEF ReadySession

(* The batch that epoll_wait returns.                                      *)
Returned(ses) ==
  (UNION {ReadyClient(c) : c \in Clients}) \cup (UNION {ReadySession(ses, s) : s \in Sessions})
  \cup (IF backlog > 0 THEN {[who |-> Listen, what |-> "in"]} ELSE {})

LEMMA ReturnedIs ==
  ASSUME NEW ses, NEW e \in Returned(ses)
  PROVE  \/ \E c \in Clients : e \in ReadyClient(c)
         \/ \E s \in Sessions : e \in ReadySession(ses, s)
         \/ e = [who |-> Listen, what |-> "in"]
PROOF
<1> DEFINE A == UNION {ReadyClient(c) : c \in Clients}
           B == UNION {ReadySession(ses, s) : s \in Sessions}
           L == IF backlog > 0 THEN {[who |-> Listen, what |-> "in"]} ELSE {}
<1>1. Returned(ses) = A \cup B \cup L BY Zenon DEF Returned
<1>2. \A x \in L : x = [who |-> Listen, what |-> "in"] OBVIOUS
<1>3. \A x \in A : \E c \in Clients : x \in ReadyClient(c) OBVIOUS
<1>4. \A x \in B : \E s \in Sessions : x \in ReadySession(ses, s) OBVIOUS
<1> HIDE DEF A, B, L
<1> QED BY <1>1, <1>2, <1>3, <1>4

(* What is kept of a pool.                                                 *)
LEMMA KeptPart ==
  ASSUME NEW q \in Seq(Sessions), NEW n \in Nat, n <= Len(q)
  PROVE  LET r == SubSeq(q, Len(q) - n + 1, Len(q)) IN
         /\ r \in Seq(Sessions)
         /\ \A k \in DOMAIN r : /\ k \in Nat /\ Len(q) - n + k \in DOMAIN q /\ k >= 1
                                /\ r[k] = q[Len(q) - n + k]
PROOF
<1> DEFINE a == Len(q) - n + 1
           r == SubSeq(q, a, Len(q))
<1>1. Len(q) \in Nat /\ DOMAIN q = 1..Len(q) BY LenProperties
<1>2. a \in 1..(Len(q) + 1) BY <1>1
<1>3. \A k \in a..Len(q) : q[k] \in Sessions
  <2>1. \A k \in a..Len(q) : k \in 1..Len(q) BY <1>1, <1>2
  <2> QED BY <2>1, ElementOfSeq
<1>4. r = [k \in 1..(Len(q) - a + 1) |-> q[k + a - 1]] /\ Len(q) - a + 1 = n
  <2>1. Len(q) - a + 1 = n BY <1>1
  <2> HIDE DEF a
  <2>2. r = [k \in 1..(Len(q) - a + 1) |-> q[k + a - 1]]
    BY <1>1, <1>2, <2>1, SMT
  <2> QED BY <2>1, <2>2
<1>5. \A k \in 1..n : k + a - 1 \in a..Len(q) /\ k + a - 1 = Len(q) - n + k
  BY <1>1
<1>6. DOMAIN r = 1..n /\ \A k \in 1..n : r[k] = q[Len(q) - n + k] /\ r[k] \in Sessions
  BY <1>3, <1>4, <1>5
<1>7. r = [k \in 1..n |-> r[k]] BY <1>4
<1>8. r \in Seq(Sessions)
  <2> HIDE DEF r
  <2>1. r \in [1..n -> Sessions] BY <1>6, <1>7
  <2> QED BY <2>1, IsASeq
<1>9. \A k \in 1..n : Len(q) - n + k \in DOMAIN q BY <1>1
<1> HIDE DEF r, a
<1>10. /\ r \in Seq(Sessions)
       /\ \A k \in DOMAIN r : /\ k \in Nat /\ Len(q) - n + k \in DOMAIN q /\ k >= 1
                              /\ r[k] = q[Len(q) - n + k]
  BY <1>6, <1>8, <1>9
<1> QED BY <1>10 DEF r, a

(* What the end of a turn keeps of the pools.                              *)
KeptPools(keep) ==
  [v \in Servers |-> SubSeq(pool[v], Len(pool[v]) - keep[v] + 1, Len(pool[v]))]

(* It closes only connections that are in no pool any more: no connection  *)
(* is in two places of the pools.                                          *)
LEMMA KeptStay ==
  ASSUME Base, ~Tangled, NEW keep \in [Servers -> 0..Cardinality(Sessions)],
         \A v \in Servers : keep[v] \in Nat /\ keep[v] <= Len(pool[v])
  PROVE  LET p == KeptPools(keep) IN
         /\ p \in [Servers -> Seq(Sessions)]
         /\ \A v \in Servers : \A k \in DOMAIN p[v] :
              /\ session[p[v][k]].list = "pool" /\ session[p[v][k]].server = v
              /\ p[v][k] \notin Expired(keep)
              /\ k \in Nat /\ Len(pool[v]) - keep[v] + k \in DOMAIN pool[v]
              /\ p[v][k] = pool[v][Len(pool[v]) - keep[v] + k]
PROOF
<1> DEFINE p == KeptPools(keep)
<1>0. pool \in [Servers -> Seq(Sessions)] BY DEF Base, TypeOK
<1>1. ASSUME NEW v \in Servers
      PROVE  /\ p[v] \in Seq(Sessions)
             /\ \A k \in DOMAIN p[v] : /\ k \in Nat /\ Len(pool[v]) - keep[v] + k \in DOMAIN pool[v]
                                       /\ k >= 1
                                       /\ p[v][k] = pool[v][Len(pool[v]) - keep[v] + k]
  <2>1. pool[v] \in Seq(Sessions) /\ keep[v] \in Nat /\ keep[v] <= Len(pool[v]) BY <1>0
  <2>2. p[v] = SubSeq(pool[v], Len(pool[v]) - keep[v] + 1, Len(pool[v])) BY DEF KeptPools
  <2> DEFINE q == pool[v]
             n == keep[v]
             r == p[v]
  <2>3. q \in Seq(Sessions) /\ n \in Nat /\ n <= Len(q) /\ r = SubSeq(q, Len(q) - n + 1, Len(q))
    BY <2>1, <2>2
  <2> HIDE DEF p, q, n, r
  <2>4. /\ r \in Seq(Sessions)
        /\ \A k \in DOMAIN r : /\ k \in Nat /\ Len(q) - n + k \in DOMAIN q /\ k >= 1
                               /\ r[k] = q[Len(q) - n + k]
    BY <2>3, KeptPart
  <2> QED BY <2>4 DEF q, n, r
<1>6. p = [v \in Servers |-> p[v]] BY DEF KeptPools
<1> HIDE DEF p
<1>2. ASSUME NEW v \in Servers, NEW k \in DOMAIN p[v]
      PROVE  /\ session[p[v][k]].list = "pool" /\ session[p[v][k]].server = v
             /\ p[v][k] \notin Expired(keep)
  <2> DEFINE n == Len(pool[v]) - keep[v]
  <2>1. n + k \in DOMAIN pool[v] /\ p[v][k] = pool[v][n + k] /\ k >= 1 /\ k \in Nat BY <1>1
  <2>2. session[p[v][k]].list = "pool" BY <2>1 DEF Tangled
  <2>3. session[p[v][k]].server = v BY <2>1 DEF Base, PoolShape
  <2>4. p[v][k] \notin Expired(keep)
    <3> SUFFICES ASSUME NEW w \in Servers, NEW j \in 1..(Len(pool[w]) - keep[w]),
                        pool[w][j] = p[v][k]
                 PROVE  FALSE
      BY DEF Expired
    <3>1. Len(pool[w]) \in Nat /\ DOMAIN pool[w] = 1..Len(pool[w]) /\ keep[w] \in Nat
      BY <1>0, LenProperties
    <3>2. j \in DOMAIN pool[w] BY <3>1
    <3>3. w = v BY <3>2, <2>3 DEF Base, PoolShape
    <3>4. j # n + k BY <2>1, <3>1, <3>3
    <3> HIDE DEF n
    <3> QED BY <2>1, <3>2, <3>3, <3>4 DEF Tangled
  <2> QED BY <2>2, <2>3, <2>4
<1>3. p \in [Servers -> Seq(Sessions)] BY <1>1, <1>6
<1>4. ASSUME NEW v \in Servers, NEW k \in DOMAIN p[v]
      PROVE  /\ k \in Nat /\ Len(pool[v]) - keep[v] + k \in DOMAIN pool[v]
             /\ p[v][k] = pool[v][Len(pool[v]) - keep[v] + k]
  BY <1>1, Zenon
<1>5. ASSUME NEW v \in Servers, NEW k \in DOMAIN p[v]
      PROVE  /\ session[p[v][k]].list = "pool" /\ session[p[v][k]].server = v
             /\ p[v][k] \notin Expired(keep)
             /\ k \in Nat /\ Len(pool[v]) - keep[v] + k \in DOMAIN pool[v]
             /\ p[v][k] = pool[v][Len(pool[v]) - keep[v] + k]
  <2>1. /\ session[p[v][k]].list = "pool" /\ session[p[v][k]].server = v
        /\ p[v][k] \notin Expired(keep)
    BY <1>2
  <2>2. /\ k \in Nat /\ Len(pool[v]) - keep[v] + k \in DOMAIN pool[v]
        /\ p[v][k] = pool[v][Len(pool[v]) - keep[v] + k]
    BY <1>4
  <2> QED BY <2>1, <2>2
<1> QED BY <1>3, <1>5, Zenon DEF p

(* The end of a turn                                                       *)
LEMMA TurnBase ==
  ASSUME Base, Turn, up' = up
  PROVE  Base'
PROOF
<1>1. PICK keep \in [Servers -> 0..Cardinality(Sessions)] :
        /\ \A v \in Servers : keep[v] <= Len(pool[v])
        /\ pool' = [v \in Servers |-> SubSeq(pool[v], Len(pool[v]) - keep[v] + 1, Len(pool[v]))]
        /\ session' = [s \in Sessions |-> IF s \in Expired(keep) THEN FreeSession ELSE session[s]]
  BY DEF Turn
<1>2. /\ worker' = worker /\ worker = "up" /\ client' = client /\ list' = list
      /\ backlog' = backlog /\ strayed' = strayed /\ ~Tangled
  BY DEF Turn
<1>3. \A v \in Servers : keep[v] \in Nat /\ keep[v] <= Len(pool[v])
  <2>1. \A v \in Servers : keep[v] \in 0..Cardinality(Sessions) BY <1>1
  <2>2. \A x \in 0..Cardinality(Sessions) : x \in Nat OBVIOUS
  <2> QED BY <1>1, <2>1, <2>2
<1>4. /\ pool' \in [Servers -> Seq(Sessions)]
      /\ \A v \in Servers : \A k \in DOMAIN pool'[v] :
           /\ session[pool'[v][k]].list = "pool" /\ session[pool'[v][k]].server = v
           /\ pool'[v][k] \notin Expired(keep)
           /\ pool'[v][k] \in Sessions
  <2> DEFINE p == KeptPools(keep)
  <2>2. pool' = p BY <1>1, Zenon DEF KeptPools
  <2>3. /\ p \in [Servers -> Seq(Sessions)]
        /\ \A v \in Servers : \A k \in DOMAIN p[v] :
             /\ session[p[v][k]].list = "pool" /\ session[p[v][k]].server = v
             /\ p[v][k] \notin Expired(keep)
             /\ k \in Nat /\ Len(pool[v]) - keep[v] + k \in DOMAIN pool[v]
             /\ p[v][k] = pool[v][Len(pool[v]) - keep[v] + k]
    BY <1>2, <1>3, KeptStay
  <2> HIDE DEF p
  <2>4. \A v \in Servers : \A k \in DOMAIN p[v] : p[v][k] \in Sessions
    BY <2>3, ElementOfSeq, LenProperties
  <2> QED BY <2>2, <2>3, <2>4
<1>5. \A s \in Sessions : /\ s \in Expired(keep) => session'[s] = FreeSession
                          /\ s \notin Expired(keep) => session'[s] = session[s]
  BY <1>1
<1>6. session' \in [Sessions -> SessionRecords]
  <2>1. session \in [Sessions -> SessionRecords] BY DEF Base, TypeOK
  <2> QED BY <1>1, <2>1, Fresh
<1>7. FreeSession.list = "free" /\ FreeSession.poll = "none" BY DEF FreeSession
<1>8. Shape'
  <2> SUFFICES ASSUME NEW s \in Sessions
               PROVE  /\ session'[s].list = "free" => session'[s].poll = "none"
                      /\ session'[s].list # "free" =>
                           session'[s].owner \in Clients /\ session'[s].server \in Servers
    BY DEF Shape
  <2> QED BY <1>5, <1>7 DEF Base, Shape
<1>9. PoolShape'
  <2> SUFFICES ASSUME NEW v \in Servers, NEW k \in DOMAIN pool'[v]
               PROVE  session'[pool'[v][k]].list # "free" /\ session'[pool'[v][k]].server = v
    BY DEF PoolShape
  <2> QED BY <1>4, <1>5
<1>10. \A e \in batch' :
         \/ \E c \in Clients : e \in ReadyClient(c)
         \/ \E s \in Sessions : e \in ReadySession(session', s)
         \/ e = [who |-> Listen, what |-> "in"]
  <2>1. batch' = Returned(session') BY Zenon DEF Turn, Returned
  <2> QED BY <2>1, ReturnedIs
<1>11. batch' \subseteq [who : Clients \cup Sessions \cup {Listen}, what : {"in", "out", "err"}]
  <2> SUFFICES ASSUME NEW e \in batch'
               PROVE  e \in [who : Clients \cup Sessions \cup {Listen}, what : {"in", "out", "err"}]
    OBVIOUS
  <2>1. ASSUME NEW c \in Clients, e \in ReadyClient(c)
        PROVE  e \in [who : Clients \cup Sessions \cup {Listen}, what : {"in", "out", "err"}]
    BY <2>1, ReadyClientIs
  <2>2. ASSUME NEW s \in Sessions, e \in ReadySession(session', s)
        PROVE  e \in [who : Clients \cup Sessions \cup {Listen}, what : {"in", "out", "err"}]
    BY <2>2, ReadySessionIs
  <2> QED BY <1>10, <2>1, <2>2
<1>12. BatchShape'
  <2> SUFFICES ASSUME NEW e \in batch', e.who \in Sessions
               PROVE  session'[e.who].list # "free"
    BY DEF BatchShape
  <2>1. ASSUME NEW c \in Clients, e \in ReadyClient(c) PROVE FALSE
    BY <2>1, ReadyClientIs, SessionsAssumption
  <2>2. e # [who |-> Listen, what |-> "in"] BY SessionsAssumption
  <2>3. PICK s \in Sessions : e \in ReadySession(session', s) BY <1>10, <2>1, <2>2
  <2>4. e.who = s /\ session'[s].poll \in {"in", "out", "err"} BY <2>3, ReadySessionIs
  <2> QED BY <2>4, <1>8 DEF Shape
<1>13. InList'
  <2> SUFFICES ASSUME NEW s \in Sessions, session'[s].list # "free"
               PROVE  session'[s].server \in Listed(list'[InstanceOf(session'[s].server)])
    BY DEF InList
  <2>1. session'[s] = session[s] BY <1>5, <1>7
  <2>2. session[s].server \in Listed(list[InstanceOf(session[s].server)])
    BY <2>1 DEF Base, InList
  <2> QED BY <2>1, <2>2, <1>2
<1>14. ListShape' BY <1>2 DEF Base, ListShape, Listed
<1>15. DeadShape' BY <1>2 DEF DeadShape
<1>16. TypeOK'
  BY <1>2, <1>4, <1>6, <1>11 DEF Base, TypeOK
<1> QED BY <1>8, <1>9, <1>12, <1>13, <1>14, <1>15, <1>16 DEF Base

-----------------------------------------------------------------------------
(* Sequences of the file, read whole                                       *)
LEMMA ListsOfFile ==
  ASSUME NEW l \in ServerLists
  PROVE  /\ l \in [Instances -> Seq(Servers)]
         /\ \A i \in Instances : \A v \in Listed(l[i]) : InstanceOf(v) = i
BY SessionsAssumption, OneGroup

(* A new worker has no connection, and the lists of the file.              *)
LEMMA RestartBase ==
  ASSUME Base, Restart
  PROVE  Base'
PROOF
<1>1. /\ worker = "dead" /\ worker' = "up" /\ strayed' = {}
      /\ list' \in ServerLists
      /\ UNCHANGED <<client, session, pool, batch, backlog, up>>
  BY DEF Restart
<1>2. session = [s \in Sessions |-> FreeSession] BY <1>1 DEF Base, DeadShape
<1>3. \A s \in Sessions : session[s].list = "free" BY <1>2 DEF FreeSession
<1>4. /\ list' \in [Instances -> Seq(Servers)]
      /\ \A i \in Instances : \A v \in Listed(list'[i]) : InstanceOf(v) = i
  BY <1>1, ListsOfFile
<1>5. TypeOK' BY <1>1, <1>4 DEF Base, TypeOK
<1>6. Shape' BY <1>1 DEF Base, Shape
<1>7. PoolShape' BY <1>1 DEF Base, PoolShape
<1>8. BatchShape' BY <1>1 DEF Base, BatchShape
<1>9. DeadShape' BY <1>1 DEF DeadShape
<1>10. ListShape' BY <1>4 DEF ListShape, Listed
<1>11. InList' BY <1>1, <1>3 DEF InList
<1> QED BY <1>5, <1>6, <1>7, <1>8, <1>9, <1>10, <1>11 DEF Base

(* A reload keeps every server that a connection may point to.             *)
LEMMA ReloadBase ==
  ASSUME Base, ReloadConfig
  PROVE  Base'
PROOF
<1>1. PICK l \in ServerLists, read \in SUBSET Instances :
        list' = [i \in Instances |-> IF i \in read THEN Merged(i, l) ELSE list[i]]
  BY DEF ReloadConfig
<1>2. worker = "up" /\ UNCHANGED <<client, session, pool, batch, backlog, worker, strayed, up>>
  BY DEF ReloadConfig
<1>3. list \in [Instances -> Seq(Servers)] BY DEF Base, TypeOK
<1>4. ASSUME NEW i \in Instances
      PROVE  /\ list'[i] \in Seq(Servers)
             /\ Listed(list[i]) \subseteq Listed(list'[i])
             /\ \A v \in Listed(list'[i]) : InstanceOf(v) = i
  <2>1. \A v \in Listed(list[i]) : InstanceOf(v) = i BY DEF Base, ListShape
  <2>2. CASE i \in read
    <3>1. list'[i] = Merged(i, l) BY <1>1, <2>2
    <3>2. /\ Merged(i, l) \in Seq(Servers)
          /\ Listed(list[i]) \subseteq Listed(Merged(i, l))
          /\ Listed(Merged(i, l)) \subseteq Listed(list[i]) \cup Listed(l[i])
      BY <1>3, MergedKeeps
    <3>3. \A v \in Listed(l[i]) : InstanceOf(v) = i BY ListsOfFile
    <3> QED BY <2>1, <3>1, <3>2, <3>3
  <2>3. CASE i \notin read
    <3>1. list'[i] = list[i] BY <1>1, <2>3
    <3> QED BY <1>3, <2>1, <3>1
  <2> QED BY <2>2, <2>3
<1>5. TypeOK'
  <2>1. list' \in [Instances -> Seq(Servers)] BY <1>1, <1>4
  <2> QED BY <1>2, <2>1 DEF Base, TypeOK
<1>6. Shape' BY <1>2 DEF Base, Shape
<1>7. PoolShape' BY <1>2 DEF Base, PoolShape
<1>8. BatchShape' BY <1>2 DEF Base, BatchShape
<1>9. DeadShape' BY <1>2 DEF DeadShape
<1>10. ListShape' BY <1>4 DEF ListShape, Listed
<1>11. InList'
  <2> SUFFICES ASSUME NEW s \in Sessions, session[s].list # "free"
               PROVE  session[s].server \in Listed(list'[InstanceOf(session[s].server)])
    BY <1>2 DEF InList, Listed
  <2> DEFINE v == session[s].server
             i == InstanceOf(v)
  <2>1. v \in Listed(list[i]) BY DEF Base, InList
  <2>2. i \in Instances
    <3>1. v \in Servers BY DEF Base, Shape
    <3>2. \E j \in Instances : \E m \in ServerLists : v \in Listed(m[j])
      BY <3>1, SessionsAssumption
    <3> QED BY <3>2 DEF InstanceOf
  <2> HIDE DEF v, i
  <2>3. v \in Listed(list'[i]) BY <2>1, <2>2, <1>4
  <2> QED BY <2>3 DEF v, i
<1> QED BY <1>5, <1>6, <1>7, <1>8, <1>9, <1>10, <1>11 DEF Base

-----------------------------------------------------------------------------
(* Whoever does something is connected to a worker that runs.              *)
LEMMA OnlyUp ==
  ASSUME Base
  PROVE  /\ \A c \in Clients : client[c].turn = "send" \/ Live(c) => worker = "up"
         /\ \A s \in Sessions : session[s].due # <<>> \/ session[s].list # "free" => worker = "up"
PROOF
<1>1. worker # "up" => worker = "dead" BY DEF Base, TypeOK
<1>2. ASSUME worker = "dead", NEW c \in Clients
      PROVE  client[c].turn # "send" /\ ~Live(c)
  <2>1. client[c] = FreeClient BY <1>2 DEF Base, DeadShape
  <2> QED BY <2>1 DEF FreeClient, Live
<1>3. ASSUME worker = "dead", NEW s \in Sessions
      PROVE  session[s].due = <<>> /\ session[s].list = "free"
  <2>1. session[s] = FreeSession BY <1>3 DEF Base, DeadShape
  <2> QED BY <2>1 DEF FreeSession
<1> QED BY <1>1, <1>2, <1>3

(* What clients send is what the worker can make something of.             *)
LEMMA SentEffect ==
  ASSUME client \in [Clients -> ClientRecords], NEW c \in Clients, NEW m \in Command
  PROVE  LET f == [client EXCEPT ![c].wire = <<m>>, ![c].turn = "wait"] IN
         /\ f \in [Clients -> ClientRecords]
         /\ \A d \in Clients \ {c} : f[d] = client[d]
         /\ f[c].wire = <<m>> /\ f[c].turn = "wait"
         /\ f[c].status = client[c].status /\ f[c].pair = client[c].pair /\ f[c].poll = client[c].poll
         /\ f[c].buffer = client[c].buffer /\ f[c].gone = client[c].gone /\ f[c].chosen = client[c].chosen
PROOF
<1> DEFINE w == <<m>>
           r == [client[c] EXCEPT !.wire = w, !.turn = "wait"]
           f == [client EXCEPT ![c].wire = w, ![c].turn = "wait"]
<1>1. client[c] \in ClientRecords /\ w \in Seq(Command) OBVIOUS
<1>2. f = [client EXCEPT ![c] = r] OBVIOUS
<1> HIDE DEF w
<1>3. /\ r \in ClientRecords
      /\ r.wire = w /\ r.turn = "wait"
      /\ r.status = client[c].status /\ r.pair = client[c].pair /\ r.poll = client[c].poll
      /\ r.buffer = client[c].buffer /\ r.gone = client[c].gone /\ r.chosen = client[c].chosen
  BY <1>1 DEF ClientRecords
<1> HIDE DEF r
<1>4. f \in [Clients -> ClientRecords] /\ f[c] = r /\ \A d \in Clients \ {c} : f[d] = client[d]
  BY <1>2, <1>3
<1> HIDE DEF f
<1>5. /\ f \in [Clients -> ClientRecords]
      /\ \A d \in Clients \ {c} : f[d] = client[d]
      /\ f[c].wire = w /\ f[c].turn = "wait"
      /\ f[c].status = client[c].status /\ f[c].pair = client[c].pair /\ f[c].poll = client[c].poll
      /\ f[c].buffer = client[c].buffer /\ f[c].gone = client[c].gone /\ f[c].chosen = client[c].chosen
  BY <1>3, <1>4
<1> QED BY <1>5 DEF f, w

LEMMA SendableIs ==
  ASSUME NEW status, NEW m \in Sendable(status)
  PROVE  m \in Command /\ status \in {"auth", "select", "forward"}
PROOF
<1>1. CASE status = "auth"
  <2>1. m \in [do : {"auth", "bad_auth"}, to : {None}] BY <1>1 DEF Sendable
  <2> QED BY <2>1, <1>1 DEF Command
<1>2. CASE status \in {"select", "forward"} BY <1>2 DEF Sendable
<1>3. CASE status \notin {"auth", "select", "forward"} BY <1>3 DEF Sendable
<1> QED BY <1>1, <1>2, <1>3

(* An answer, or its next part                                             *)
LEMMA AnsweredEffect ==
  ASSUME session \in [Sessions -> SessionRecords], NEW s \in Sessions, ServerAnswers(s)
  PROVE  LET d == Head(session[s].due) IN
         /\ session' \in [Sessions -> SessionRecords]
         /\ \A r \in Sessions \ {s} : session'[r] = session[r]
         /\ session'[s].list = session[s].list /\ session'[s].server = session[s].server
         /\ session'[s].owner = session[s].owner /\ session'[s].poll = session[s].poll
         /\ session'[s].link = session[s].link
         /\ d \in [of : Clients \cup {None}, left : 1..Parts]
         /\ session'[s].answers = Append(session[s].answers, Answer(d.of, d.left = 1))
         /\ d.left = 1 => session'[s].due = Tail(session[s].due)
         /\ d.left # 1 => session'[s].due = <<[d EXCEPT !.left = @ - 1]>> \o Tail(session[s].due)
PROOF
<1> DEFINE Due == [of : Clients \cup {None}, left : 1..Parts]
           d == Head(session[s].due)
           a == Append(session[s].answers, Answer(d.of, d.left = 1))
           q == IF d.left = 1 THEN Tail(session[s].due)
                ELSE <<[d EXCEPT !.left = @ - 1]>> \o Tail(session[s].due)
           n == [session[s] EXCEPT !.answers = a, !.due = q]
<1>1. session[s] \in SessionRecords /\ session[s].due \in Seq(Due) /\ session[s].answers \in Seq(Messages)
  BY DEF SessionRecords
<1>2. session[s].due # <<>> BY DEF ServerAnswers
<1>3. d \in Due /\ Tail(session[s].due) \in Seq(Due)
  <2> HIDE DEF Due
  <2> QED BY <1>1, <1>2, HeadTailProperties
<1>4. session' = [session EXCEPT ![s] = n] BY DEF ServerAnswers
<1> DEFINE t == Tail(session[s].due)
<1> HIDE DEF d
<1>5. a \in Seq(Messages)
  <2>1. Answer(d.of, d.left = 1) \in Messages
    <3>1. (d.left = 1) \in BOOLEAN OBVIOUS
    <3>2. d.of \in Clients \cup {None} BY <1>3
    <3> QED BY <3>1, <3>2 DEF Answer, Messages, Kinds
  <2> QED BY <1>1, <2>1, AppendProperties
<1>6. q \in Seq(Due)
  <2>1. CASE d.left = 1 BY <2>1, <1>3
  <2>2. CASE d.left # 1
    <3> DEFINE f == [d EXCEPT !.left = @ - 1]
    <3>1. Parts \in Nat BY SessionsAssumption
    <3>2. f \in Due BY <2>2, <1>3, <3>1
    <3> HIDE DEF f, Due, t
    <3>3. <<f>> \in Seq(Due) /\ t \in Seq(Due) BY <3>2, <1>3 DEF t
    <3>4. <<f>> \o t \in Seq(Due) BY <3>3, ConcatProperties
    <3> QED BY <2>2, <3>4 DEF t, f
  <2> QED BY <2>1, <2>2
<1>7. /\ d.left = 1 => q = Tail(session[s].due)
      /\ d.left # 1 => q = <<[d EXCEPT !.left = @ - 1]>> \o Tail(session[s].due)
  OBVIOUS
<1> HIDE DEF a, q, t
<1>8. /\ n \in SessionRecords /\ n.answers = a /\ n.due = q
      /\ n.list = session[s].list /\ n.server = session[s].server
      /\ n.owner = session[s].owner /\ n.poll = session[s].poll /\ n.link = session[s].link
  BY <1>1, <1>5, <1>6 DEF SessionRecords
<1> HIDE DEF n
<1>9. /\ session' \in [Sessions -> SessionRecords] /\ session'[s] = n
      /\ \A r \in Sessions \ {s} : session'[r] = session[r]
  BY <1>4, <1>8
<1> QED BY <1>3, <1>7, <1>8, <1>9 DEF a, d

(* An idle connection that its server closes                               *)
LEMMA ClosedEffect ==
  ASSUME session \in [Sessions -> SessionRecords], NEW s \in Sessions, ServerCloses(s)
  PROVE  /\ session' \in [Sessions -> SessionRecords]
         /\ \A r \in Sessions \ {s} : session'[r] = session[r]
         /\ session'[s].list = session[s].list /\ session'[s].server = session[s].server
         /\ session'[s].owner = session[s].owner /\ session'[s].poll = session[s].poll
         /\ session'[s].answers = session[s].answers /\ session'[s].due = <<>>
PROOF
<1> DEFINE w == <<>>
           n == [session[s] EXCEPT !.link = "fin", !.due = w]
<1>1. session[s] \in SessionRecords /\ w \in Seq([of : Clients \cup {None}, left : 1..Parts])
  OBVIOUS
<1>2. session' = [session EXCEPT ![s] = n] BY DEF ServerCloses
<1> HIDE DEF w
<1>3. /\ n \in SessionRecords /\ n.answers = session[s].answers /\ n.due = w
      /\ n.list = session[s].list /\ n.server = session[s].server
      /\ n.owner = session[s].owner /\ n.poll = session[s].poll
  BY <1>1 DEF SessionRecords
<1> HIDE DEF n
<1> QED BY <1>2, <1>3 DEF w

(* The connections of a server that fails                                  *)
LEMMA DownEffect ==
  ASSUME session \in [Sessions -> SessionRecords], NEW v \in Servers
  PROVE  /\ Down(v, session) \in [Sessions -> SessionRecords]
         /\ \A r \in Sessions :
              /\ session[r].server # v => Down(v, session)[r] = session[r]
              /\ session[r].server = v =>
                   Down(v, session)[r].due = <<>> /\ Down(v, session)[r].answers = <<>>
              /\ Down(v, session)[r].list = session[r].list
              /\ Down(v, session)[r].server = session[r].server
              /\ Down(v, session)[r].owner = session[r].owner
              /\ Down(v, session)[r].poll = session[r].poll
PROOF
<1> DEFINE w == <<>>
           n(r) == [session[r] EXCEPT !.link = "rst", !.due = w, !.answers = w]
<1>0. w \in Seq([of : Clients \cup {None}, left : 1..Parts]) /\ w \in Seq(Messages) OBVIOUS
<1>1. Down(v, session) = [s \in Sessions |-> IF session[s].server = v THEN n(s) ELSE session[s]]
  BY Zenon DEF Down
<1> HIDE DEF w
<1>2. ASSUME NEW r \in Sessions
      PROVE  /\ n(r) \in SessionRecords /\ n(r).due = w /\ n(r).answers = w
             /\ n(r).list = session[r].list /\ n(r).server = session[r].server
             /\ n(r).owner = session[r].owner /\ n(r).poll = session[r].poll
  <2>1. session[r] \in SessionRecords OBVIOUS
  <2> QED BY <2>1, <1>0 DEF SessionRecords
<1> HIDE DEF n
<1> QED BY <1>1, <1>2 DEF w

(* Clients and servers open and free no connection of the worker.          *)
LEMMA EnvironmentBase ==
  ASSUME Base, Environment
  PROVE  Base'
PROOF
<1>0. /\ client \in [Clients -> ClientRecords] /\ session \in [Sessions -> SessionRecords]
      /\ pool \in [Servers -> Seq(Sessions)] /\ Shape
      /\ backlog \in 0..Cardinality(Clients) /\ up \subseteq Servers
      /\ worker \in {"up", "dead"} /\ strayed \subseteq {"pair", "answer", "end"}
      /\ SameConnections(session, session)
      /\ \A v \in Servers : \A k \in DOMAIN pool[v] :
           session[pool[v][k]].list # "free" /\ session[pool[v][k]].server = v
  BY DEF Base, TypeOK, Shape, PoolShape, SameConnections
<1>1. CASE ClientConnects
  <2>1. /\ worker = "up" /\ backlog' = backlog + 1
        /\ backlog < Cardinality({c \in Clients : client[c].status = "free"})
        /\ UNCHANGED <<client, session, pool, list, batch, worker, strayed, up>>
    BY <1>1 DEF ClientConnects
  <2> DEFINE F == {c \in Clients : client[c].status = "free"}
  <2>2. Cardinality(F) \in Nat /\ Cardinality(Clients) \in Nat /\ Cardinality(F) <= Cardinality(Clients)
    <3>1. F \subseteq Clients /\ IsFiniteSet(Clients) BY SessionsAssumption
    <3> HIDE DEF F
    <3> QED BY <3>1, FS_Subset, FS_CardinalityType
  <2>3. backlog' \in 0..Cardinality(Clients)
    <3>1. backlog < Cardinality(F) BY <2>1
    <3> HIDE DEF F
    <3> QED BY <1>0, <2>1, <2>2, <3>1
  <2>4. DeadShape' BY <2>1 DEF DeadShape
  <2> QED BY <1>0, <2>1, <2>3, <2>4, KeepBase
<1>2. ASSUME NEW c \in Clients, ClientSends(c) PROVE Base'
  <2>1. worker = "up" BY <1>2, OnlyUp DEF ClientSends
  <2>2. PICK m \in Sendable(client[c].status) :
          client' = [client EXCEPT ![c].wire = <<m>>, ![c].turn = "wait"]
    BY <1>2 DEF ClientSends
  <2>3. UNCHANGED <<session, pool, list, batch, backlog, worker, strayed, up>>
    BY <1>2 DEF ClientSends
  <2>4. m \in Command BY SendableIs
  <2>5. client' \in [Clients -> ClientRecords] BY <1>0, <2>2, <2>4, SentEffect
  <2>6. DeadShape' BY <2>1, <2>3 DEF DeadShape
  <2> QED BY <1>0, <2>3, <2>5, <2>6, KeepBase
<1>3. ASSUME NEW c \in Clients, ClientLeaves(c) PROVE Base'
  <2>1. worker = "up" BY <1>3, OnlyUp DEF ClientLeaves
  <2>2. PICK how \in {"fin", "rst", "quit"} :
          client' = [client EXCEPT ![c].gone = how,
                                   ![c].wire = IF how = "rst" THEN <<>> ELSE @]
    BY <1>3 DEF ClientLeaves
  <2>3. /\ UNCHANGED <<session, pool, list, batch, backlog, worker, up>>
        /\ strayed' \subseteq {"pair", "answer", "end"}
    BY <1>0, <1>3 DEF ClientLeaves, Ended
  <2>4. client' \in [Clients -> ClientRecords]
    <3> DEFINE w == IF how = "rst" THEN <<>> ELSE client[c].wire
    <3>1. client[c] \in ClientRecords BY <1>0
    <3>2. w \in Seq(Command) BY <3>1 DEF ClientRecords
    <3>3. client' = [client EXCEPT ![c] = [client[c] EXCEPT !.gone = how, !.wire = w]] BY <1>0, <2>2
    <3> HIDE DEF w
    <3>4. [client[c] EXCEPT !.gone = how, !.wire = w] \in ClientRecords
      BY <3>1, <3>2 DEF ClientRecords
    <3> QED BY <1>0, <3>3, <3>4
  <2>5. DeadShape' BY <2>1, <2>3 DEF DeadShape
  <2> QED BY <1>0, <2>3, <2>4, <2>5, KeepBase
<1>4. ASSUME NEW s \in Sessions, ServerAnswers(s) PROVE Base'
  <2>1. worker = "up" BY <1>4, OnlyUp DEF ServerAnswers
  <2>2. UNCHANGED <<client, pool, list, batch, backlog, worker, strayed, up>>
    BY <1>4 DEF ServerAnswers
  <2>3. /\ session' \in [Sessions -> SessionRecords]
        /\ \A r \in Sessions \ {s} : session'[r] = session[r]
        /\ session'[s].list = session[s].list /\ session'[s].server = session[s].server
        /\ session'[s].owner = session[s].owner /\ session'[s].poll = session[s].poll
    BY <1>0, <1>4, AnsweredEffect
  <2>4. SameConnections(session, session') BY <1>0, <2>3 DEF SameConnections, Shape
  <2>5. DeadShape' BY <2>1, <2>2 DEF DeadShape
  <2> QED BY <1>0, <2>2, <2>3, <2>4, <2>5, KeepBase
<1>5. ASSUME NEW s \in Sessions, ServerCloses(s) PROVE Base'
  <2>1. worker = "up" BY <1>5, OnlyUp DEF ServerCloses
  <2>2. /\ UNCHANGED <<client, pool, list, batch, backlog, worker, up>>
        /\ strayed' \subseteq {"pair", "answer", "end"}
    BY <1>0, <1>5 DEF ServerCloses, Ended
  <2>3. /\ session' \in [Sessions -> SessionRecords]
        /\ \A r \in Sessions \ {s} : session'[r] = session[r]
        /\ session'[s].list = session[s].list /\ session'[s].server = session[s].server
        /\ session'[s].owner = session[s].owner /\ session'[s].poll = session[s].poll
    BY <1>0, <1>5, ClosedEffect
  <2>4. SameConnections(session, session') BY <1>0, <2>3 DEF SameConnections, Shape
  <2>5. DeadShape' BY <2>1, <2>2 DEF DeadShape
  <2> QED BY <1>0, <2>2, <2>3, <2>4, <2>5, KeepBase
<1>6. ASSUME NEW v \in Servers, ServerFails(v) PROVE Base'
  <2>1. /\ UNCHANGED <<client, pool, list, batch, backlog, worker>>
        /\ strayed' \subseteq {"pair", "answer", "end"}
        /\ session' = Down(v, session) /\ up' \subseteq Servers
    BY <1>0, <1>6 DEF ServerFails, Ended
  <2>2. /\ session' \in [Sessions -> SessionRecords]
        /\ \A r \in Sessions :
             /\ session[r].server # v => session'[r] = session[r]
             /\ session'[r].list = session[r].list
             /\ session'[r].server = session[r].server
             /\ session'[r].owner = session[r].owner
             /\ session'[r].poll = session[r].poll
    BY <1>0, <2>1, DownEffect
  <2>3. SameConnections(session, session') BY <1>0, <2>2 DEF SameConnections, Shape
  <2>4. DeadShape'
    <3>1. CASE worker = "up" BY <2>1, <3>1 DEF DeadShape
    <3>2. CASE worker = "dead"
      <4>1. \A r \in Sessions : session[r] = FreeSession BY <3>2 DEF Base, DeadShape
      <4>2. FreeSession.server = None /\ v # None BY SessionsAssumption DEF FreeSession
      <4>3. \A r \in Sessions : session'[r] = session[r] BY <2>2, <4>1, <4>2
      <4>4. session' = session BY <1>0, <2>2, <4>3
      <4> QED BY <2>1, <4>4 DEF Base, DeadShape
    <3> QED BY <1>0, <3>1, <3>2
  <2> QED BY <1>0, <2>1, <2>2, <2>3, <2>4, KeepBase
<1>7. ASSUME NEW v \in Servers, ServerReturns(v) PROVE Base'
  <2>1. UNCHANGED <<client, session, pool, list, batch, backlog, worker, strayed>> /\ up' \subseteq Servers
    BY <1>0, <1>7 DEF ServerReturns, worker_vars
  <2>2. DeadShape' BY <2>1 DEF Base, DeadShape
  <2> QED BY <1>0, <2>1, <2>2, KeepBase
<1> QED BY <1>1, <1>2, <1>3, <1>4, <1>5, <1>6, <1>7 DEF Environment

LEMMA InitBase ==
  ASSUME Init
  PROVE  Base
PROOF
<1>1. /\ client = [c \in Clients |-> FreeClient]
      /\ session = [s \in Sessions |-> FreeSession]
      /\ pool = [v \in Servers |-> <<>>]
      /\ list \in ServerLists
      /\ batch = {} /\ backlog = 0
      /\ up = Servers
      /\ worker = "up" /\ strayed = {}
  BY DEF Init
<1>2. \A s \in Sessions : session[s].list = "free" /\ session[s].poll = "none"
  BY <1>1 DEF FreeSession
<1>3. \A v \in Servers : DOMAIN pool[v] = {} BY <1>1
<1>4. TypeOK
  <2>1. 0 \in 0..Cardinality(Clients) BY SessionsAssumption, FS_CardinalityType
  <2>2. list \in [Instances -> Seq(Servers)] BY <1>1, ListsOfFile
  <2>3. client \in [Clients -> ClientRecords] /\ session \in [Sessions -> SessionRecords]
    BY <1>1, Fresh
  <2>4. pool \in [Servers -> Seq(Sessions)] BY <1>1
  <2> QED BY <1>1, <2>1, <2>2, <2>3, <2>4 DEF TypeOK
<1>5. Shape BY <1>2 DEF Shape
<1>6. PoolShape BY <1>3 DEF PoolShape
<1>7. BatchShape BY <1>1 DEF BatchShape
<1>8. DeadShape BY <1>1 DEF DeadShape
<1>9. ListShape BY <1>1, ListsOfFile DEF ListShape
<1>10. InList BY <1>2 DEF InList
<1> QED BY <1>4, <1>5, <1>6, <1>7, <1>8, <1>9, <1>10 DEF Base

LEMMA BaseStep ==
  ASSUME Base, [Next]_vars
  PROVE  Base'
PROOF
<1>1. CASE Worker
  <2>1. worker = "up" /\ up' = up /\ (Handle \/ Turn) BY <1>1 DEF Worker
  <2> QED BY <2>1, HandleBase, TurnBase
<1>2. CASE Restart BY <1>2, RestartBase
<1>3. CASE ReloadConfig BY <1>3, ReloadBase
<1>4. CASE Environment BY <1>4, EnvironmentBase
<1>5. CASE UNCHANGED vars
  <2>1. UNCHANGED <<client, session, pool, list, batch, backlog, worker, strayed, up>>
    BY <1>5 DEF vars, worker_vars
  <2>2. /\ client \in [Clients -> ClientRecords] /\ session \in [Sessions -> SessionRecords]
        /\ pool \in [Servers -> Seq(Sessions)]
        /\ backlog \in 0..Cardinality(Clients) /\ up \subseteq Servers
        /\ worker \in {"up", "dead"} /\ strayed \subseteq {"pair", "answer", "end"}
        /\ SameConnections(session, session)
        /\ \A v \in Servers : \A k \in DOMAIN pool[v] :
             session[pool[v][k]].list # "free" /\ session[pool[v][k]].server = v
    BY DEF Base, TypeOK, Shape, PoolShape, SameConnections
  <2>3. DeadShape' BY <2>1 DEF Base, DeadShape
  <2> QED BY <2>1, <2>2, <2>3, KeepBase
<1> QED BY <1>1, <1>2, <1>3, <1>4, <1>5 DEF Next

THEOREM TheBase == Spec => []Base
PROOF
<1>1. Init => Base BY InitBase
<1>2. Base /\ [Next]_vars => Base' BY BaseStep
<1> QED BY <1>1, <1>2, PTL DEF Spec

(* Whatever sessions, connections, pools and lists come to, they are of    *)
(* the types of the code.                                                  *)
THEOREM TheTypes == Spec => []TypeOK
PROOF
<1>1. Base => TypeOK BY DEF Base
<1> QED BY <1>1, TheBase, PTL

(* No reload (config.c:429-484) leaves a connection behind whose server is *)
(* in no list any more.                                                    *)
THEOREM ServersStayListed == Spec => []InList
PROOF
<1>1. Base => InList BY DEF Base
<1> QED BY <1>1, TheBase, PTL

=============================================================================
