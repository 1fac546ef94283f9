--------------------------- MODULE Framing_proofs ---------------------------
(***************************************************************************)
(* What Framing shows of a bridge over a network that breaks none of the   *)
(* four assumptions of the code, for packets of any length and number: the *)
(* buffer is sent within what was received, and the bridge relays.         *)
(***************************************************************************)
EXTENDS Framing, TLAPS, SequenceTheorems

(* The bytes of one packet after the other, all of them complete.          *)
Packeted(q) ==
  \A k \in 1..Len(q) :
    /\ q[k].at \in 1..(Header + q[k].len)
    /\ k - q[k].at + Header + q[k].len <= Len(q)
    /\ q[k].at <= k
    /\ \A j \in 1..(Header + q[k].len) : q[k - q[k].at + j] = Cell(q[k], j)

(* The k-th byte ends a packet.                                            *)
AtEnd(q, k) == k = 0 \/ (k \in 1..Len(q) /\ q[k].at = Header + q[k].len)

(* A function on an interval from 1 is a sequence.                         *)
LEMMA IntervalIsSeq ==
  ASSUME NEW S, NEW n \in Nat, NEW f \in [1..n -> S]
  PROVE  f \in Seq(S) /\ Len(f) = n
PROOF OBVIOUS

LEMMA CellFields ==
  ASSUME NEW p, NEW k
  PROVE  Cell(p, k).of = p.of /\ Cell(p, k).no = p.no /\ Cell(p, k).len = p.len
         /\ Cell(p, k).one = p.one /\ Cell(p, k).at = k
PROOF BY DEF Cell

(* The bytes of a packet are a sequence of cells.                          *)
LEMMA BytesType ==
  ASSUME NEW p \in Packets
  PROVE  /\ Bytes(p) \in Seq(Cells) /\ Len(Bytes(p)) = Header + p.len
         /\ \A k \in 1..(Header + p.len) : Bytes(p)[k] = Cell(p, k)
PROOF
<1>1. p.len \in Nat /\ Header \in Nat /\ p.len <= MaxBody
  BY FramingAssumption DEF Packets, Header
<1>2. \A k \in 1..(Header + p.len) : Cell(p, k) \in Cells
  BY <1>1, FramingAssumption DEF Packets, Cells, Cell
<1>3. Bytes(p) \in [1..(Header + p.len) -> Cells] BY <1>2 DEF Bytes
<1> QED BY <1>1, <1>3, IntervalIsSeq DEF Bytes

(* A packet put behind others.                                             *)
LEMMA PacketedAppend ==
  ASSUME NEW q \in Seq(Cells), Packeted(q), NEW p \in Packets
  PROVE  /\ Packeted(q \o Bytes(p)) /\ q \o Bytes(p) \in Seq(Cells)
         /\ Len(q \o Bytes(p)) = Len(q) + Header + p.len
         /\ \A k \in 1..Len(q) : (q \o Bytes(p))[k] = q[k]
PROOF
<1> DEFINE r == q \o Bytes(p)
<1>1. p.len \in Nat /\ Header \in Nat /\ Len(q) \in Nat /\ p.len >= 1
  BY FramingAssumption DEF Packets, Header
<1>2. /\ r \in Seq(Cells) /\ Len(r) = Len(q) + Header + p.len
      /\ \A k \in 1..Len(r) : r[k] = IF k <= Len(q) THEN q[k] ELSE Bytes(p)[k - Len(q)]
  BY <1>1, BytesType, ConcatProperties
<1>3. \A k \in 1..Len(q) : r[k] = q[k] BY <1>1, <1>2
<1>4. \A j \in 1..(Header + p.len) : r[Len(q) + j] = Cell(p, j)
  BY <1>1, <1>2, BytesType
<1>5. ASSUME NEW k \in 1..Len(r)
      PROVE  /\ r[k].at \in 1..(Header + r[k].len)
             /\ k - r[k].at + Header + r[k].len <= Len(r)
             /\ r[k].at <= k
             /\ \A j \in 1..(Header + r[k].len) : r[k - r[k].at + j] = Cell(r[k], j)
  <2> HIDE DEF r
  <2>1. CASE k <= Len(q)
    <3>1. k \in 1..Len(q) /\ r[k] = q[k] BY <2>1, <1>1, <1>3
    <3>2. q[k] \in Cells BY <3>1
    <3>3. q[k].len \in Nat /\ q[k].at \in Nat BY <3>2, FramingAssumption DEF Cells, Header
    <3>4. /\ q[k].at \in 1..(Header + q[k].len)
          /\ k - q[k].at + Header + q[k].len <= Len(q) /\ q[k].at <= k
      BY <3>1 DEF Packeted
    <3>5. ASSUME NEW j \in 1..(Header + q[k].len)
          PROVE  r[k - q[k].at + j] = Cell(q[k], j)
      <4>1. q[k - q[k].at + j] = Cell(q[k], j) BY <3>1 DEF Packeted
      <4>2. k - q[k].at + j \in 1..Len(q)
        <5> DEFINE a == q[k].at
                   h == Header + q[k].len
        <5>1. a \in Nat /\ h \in Nat /\ k \in Nat BY <3>1, <3>3, <1>1
        <5>2. k - a + h <= Len(q) /\ a <= k /\ j \in 1..h
          <6>0. \A x \in Int, y, z \in Nat : x + y + z = x + (y + z) OBVIOUS
          <6>1. k - a + Header + q[k].len = k - a + h
            <7>1. k - a \in Int BY <5>1
            <7>2. Header \in Nat /\ q[k].len \in Nat BY <1>1, <3>3
            <7> HIDE DEF a
            <7> QED BY <6>0, <7>1, <7>2, Zenon
          <6> QED BY <6>1, <3>4
        <5> HIDE DEF a, h
        <5>3. k - a + j \in 1..Len(q) BY <5>1, <5>2, <1>1
        <5> QED BY <5>3 DEF a
      <4> QED BY <4>1, <4>2, <1>3
    <3>6. k - q[k].at + Header + q[k].len <= Len(r) BY <3>1, <3>3, <3>4, <1>1, <1>2
    <3> QED BY <3>1, <3>4, <3>5, <3>6
  <2>2. CASE k > Len(q)
    <3> DEFINE i == k - Len(q)
    <3>1. i \in 1..(Header + p.len) /\ r[k] = Cell(p, i) BY <2>2, <1>1, <1>2, <1>4
    <3>2. r[k].at = i /\ r[k].len = p.len BY <3>1, CellFields
    <3>3. \A j : Cell(r[k], j) = Cell(p, j) BY <3>1, CellFields DEF Cell
    <3>4. i \in Nat /\ k - i = Len(q)
      <4>1. k \in Nat BY <1>1, <1>2
      <4> QED BY <4>1, <2>2, <1>1
    <3>5. ASSUME NEW j \in 1..(Header + p.len) PROVE r[k - i + j] = Cell(r[k], j)
      BY <3>3, <3>4, <1>4
    <3>6. k - i + Header + p.len <= Len(r) /\ i <= k BY <3>1, <3>4, <1>1, <1>2
    <3> HIDE DEF i
    <3> QED BY <3>1, <3>2, <3>5, <3>6
  <2> QED BY <2>1, <2>2, <1>1, <1>2
<1> HIDE DEF r
<1>6. Packeted(r) BY <1>5 DEF Packeted
<1> QED BY <1>6, <1>2, <1>3 DEF r

(* Behind the end of a packet begins the next one.                         *)
LEMMA NextStarts ==
  ASSUME NEW q \in Seq(Cells), Packeted(q), NEW k \in Nat, k < Len(q), AtEnd(q, k)
  PROVE  q[k + 1].at = 1
PROOF
<1>0. Len(q) \in Nat /\ Header \in Nat BY DEF Header
<1> DEFINE c == q[k + 1]
<1>1. k + 1 \in 1..Len(q) BY <1>0
<1>2. c \in Cells BY <1>1
<1>3. c.len \in Nat /\ c.at \in 1..(Header + c.len) /\ c.at <= k + 1
  BY <1>1, <1>2, FramingAssumption DEF Packeted, Cells
<1>4. SUFFICES ASSUME c.at > 1 PROVE FALSE BY <1>3
<1>5. c.at - 1 \in 1..(Header + c.len) BY <1>3, <1>4, <1>0
<1>6. q[(k + 1) - c.at + (c.at - 1)] = Cell(c, c.at - 1) BY <1>1, <1>5 DEF Packeted
<1>7. q[k].at = c.at - 1 /\ q[k].len = c.len
  <2>1. (k + 1) - c.at + (c.at - 1) = k BY <1>3
  <2> QED BY <2>1, <1>6, CellFields
<1>8. k # 0 BY <1>3, <1>4
<1> QED BY <1>3, <1>7, <1>8, <1>0 DEF AtEnd

(* The packet that begins at s is there as a whole; it ends no later than  *)
(* any later byte that ends a packet.                                      *)
LEMMA HeadPacket ==
  ASSUME NEW q \in Seq(Cells), Packeted(q), NEW s \in 1..Len(q), q[s].at = 1
  PROVE  /\ s + Header + q[s].len - 1 <= Len(q)
         /\ \A j \in 1..(Header + q[s].len) : q[s + j - 1] = Cell(q[s], j)
         /\ \A e \in s..Len(q) : AtEnd(q, e) => s + Header + q[s].len - 1 <= e
         /\ AtEnd(q, s + Header + q[s].len - 1)
PROOF
<1>0. Len(q) \in Nat /\ Header \in Nat BY DEF Header
<1> DEFINE l == q[s].len
<1>1. q[s] \in Cells BY <1>0
<1>2. l \in Nat BY <1>1 DEF Cells
<1>3. s - 1 + Header + l <= Len(q) BY DEF Packeted
<1>4. \A j \in 1..(Header + l) : q[s - 1 + j] = Cell(q[s], j) BY DEF Packeted
<1>5. \A j \in 1..(Header + l) : q[s + j - 1] = Cell(q[s], j)
  <2>1. \A j \in 1..(Header + l) : s - 1 + j = s + j - 1 BY <1>0, <1>2
  <2> QED BY <1>4, <2>1
<1>6. ASSUME NEW e \in s..Len(q), AtEnd(q, e), s + Header + l - 1 > e PROVE FALSE
  <2>1. e - s + 1 \in 1..(Header + l) BY <1>0, <1>2, <1>6
  <2>2. q[e] = Cell(q[s], e - s + 1)
    <3>1. s + (e - s + 1) - 1 = e BY <1>0, <1>6
    <3> QED BY <2>1, <3>1, <1>5
  <2>3. q[e].at = e - s + 1 /\ q[e].len = l BY <2>2, CellFields
  <2> QED BY <2>1, <2>3, <1>0, <1>2, <1>6 DEF AtEnd
<1>7. AtEnd(q, s + Header + l - 1)
  <2>1. Header + l \in 1..(Header + l) BY <1>2 DEF Header
  <2>2. q[s + (Header + l) - 1] = Cell(q[s], Header + l) BY <2>1, <1>5
  <2>3. s + (Header + l) - 1 = s + Header + l - 1 BY <1>0, <1>2
  <2>4. s + Header + l - 1 \in 1..Len(q) BY <1>3, <1>0, <1>2 DEF Header
  <2> QED BY <2>2, <2>3, <2>4, CellFields DEF AtEnd
<1> QED BY <1>0, <1>2, <1>3, <1>5, <1>6, <1>7

(* All of the bytes end with the end of a packet.                          *)
LEMMA LastEnds ==
  ASSUME NEW q \in Seq(Cells), Packeted(q)
  PROVE  AtEnd(q, Len(q))
PROOF
<1>1. Len(q) \in Nat BY DEF Header
<1>2. CASE Len(q) = 0 BY <1>2 DEF AtEnd
<1>3. CASE Len(q) > 0
  <2>1. Len(q) \in 1..Len(q) /\ q[Len(q)] \in Cells BY <1>1, <1>3
  <2>2. q[Len(q)].len \in Nat /\ q[Len(q)].at \in Nat BY <2>1, FramingAssumption DEF Cells, Header
  <2> QED BY <2>1, <2>2, <1>1 DEF Packeted, AtEnd, Header
<1> QED BY <1>1, <1>2, <1>3
-----------------------------------------------------------------------------
(* The inductive invariant.  What the buffer holds are bytes of one side d,*)
(* from the byte behind the first Base(d) on.                              *)
Base(d) == Len(got[Other(d)]) - process

Prefix(d) ==
  /\ Len(got[Other(d)]) <= Len(said[d])
  /\ \A k \in 1..Len(got[Other(d)]) : said[d][k] = got[Other(d)][k]

Streams == \A d \in Sides : Packeted(said[d]) /\ Prefix(d)

(* All that d has sent has got to the other side.                          *)
AllGot(d) == Len(said[d]) = Len(got[Other(d)])

Turns ==
  /\ AllGot("client") \/ AllGot("server")
  /\ turn = "client" => AllGot("client")

Idle ==
  /\ fill = 0 /\ process = 0 /\ body = 0 /\ loop = "none"
  /\ poll["server"] = "in" /\ poll["client"] # "out"
  /\ \A d \in Sides : heard[d] = Len(got[Other(d)]) /\ AtEnd(said[d], Len(got[Other(d)]))

(* Bytes of d are in the buffer, which begins with a packet of length len. *)
Holds(d) ==
  /\ fill > 0
  /\ process <= Len(got[Other(d)])
  /\ heard[d] = Base(d) + fill /\ heard[d] <= Len(said[d])
  /\ \A k \in 1..fill : buffer[k] = said[d][Base(d) + k]
  /\ said[d][Base(d) + 1].at = 1
  /\ heard[Other(d)] = Len(got[d]) /\ AllGot(Other(d))

Partial(d) ==
  /\ process = 0 /\ loop = "none" /\ poll[d] = "in" /\ poll[Other(d)] # "out"
  /\ \/ body = 0 /\ fill < Header
     \/ body = said[d][Base(d) + 1].len /\ Header <= fill /\ fill < Header + body

Whole(d) ==
  /\ poll[d] = "err" /\ poll[Other(d)] = "out" /\ loop \in {"none", Other(d)}
  /\ body = said[d][Base(d) + 1].len /\ Header + body <= fill
  /\ process < Header + body
  /\ d = "client" \/ loop # "none" => process = 0
  /\ buffer[fill].at = Header + buffer[fill].len

Flow(d) == Holds(d) /\ (Partial(d) \/ Whole(d))

FramingInv ==
  /\ TypeOK /\ Streams /\ session # "lost"
  /\ session = "open" => Turns /\ (Idle \/ \E d \in Sides : Flow(d))

LEMMA SidesFacts ==
  /\ \A d \in Sides : Other(d) \in Sides /\ Other(Other(d)) = d /\ Other(d) # d
  /\ \A d, e \in Sides : e = d \/ e = Other(d)
  /\ Other("client") = "server" /\ Other("server") = "client"
  /\ "client" \in Sides /\ "server" \in Sides
PROOF BY DEF Sides, Other

LEMMA SizeFacts ==
  /\ MaxBody \in Nat /\ MaxBody >= 1
  /\ Header = 4 /\ Size \in Nat /\ Size = 6 + 2 * MaxBody
PROOF BY FramingAssumption DEF Header, Size

LEMMA CellExcept ==
  ASSUME NEW c \in Cells, NEW k
  PROVE  Cell(c, k) = [c EXCEPT !.at = k]
PROOF
<1>1. c = [of |-> c.of, no |-> c.no, len |-> c.len, one |-> c.one, at |-> c.at]
  BY DEF Cells
<1>2. [c EXCEPT !.at = k] = [of |-> c.of, no |-> c.no, len |-> c.len, one |-> c.one, at |-> k]
  BY <1>1
<1> QED BY <1>2 DEF Cell

(* The length read from the header of a packet is that of its body.        *)
LEMMA LengthRead ==
  ASSUME NEW q \in Seq(Cells), Packeted(q), NEW s \in 1..Len(q), q[s].at = 1,
         NEW b, \A k \in 1..3 : b[k] = q[s + k - 1]
  PROVE  Lengths(b) = {q[s].len}
PROOF
<1>1. q[s] \in Cells OBVIOUS
<1>2. q[s].len \in Nat /\ Header = 4
  <2>1. q[s].len \in 1..MaxBody BY <1>1 DEF Cells
  <2> QED BY <2>1, SizeFacts
<1>3. \A j \in 1..3 : q[s + j - 1] = Cell(q[s], j)
  <2>1. \A j \in 1..(Header + q[s].len) : q[s + j - 1] = Cell(q[s], j) BY HeadPacket
  <2>2. \A j \in 1..3 : j \in 1..(Header + q[s].len) BY <1>2
  <2> QED BY <2>1, <2>2
<1>4. b[1] = q[s]
  <2>1. s + 1 - 1 = s OBVIOUS
  <2> QED BY <2>1
<1>5. ASSUME NEW k \in 2..3 PROVE b[k] = [b[1] EXCEPT !.at = k]
  <2>1. b[k] = Cell(q[s], k) BY <1>3
  <2>2. Cell(q[s], k) = [q[s] EXCEPT !.at = k] BY <1>1, CellExcept
  <2> QED BY <2>1, <2>2, <1>4
<1> QED BY <1>4, <1>5 DEF Lengths

LEMMA InitInv == Init => FramingInv
PROOF
<1> SUFFICES ASSUME Init PROVE FramingInv OBVIOUS
<1>1. TypeOK
  <2>1. <<>> \in Seq(Cells) OBVIOUS
  <2>2. Stale \in Cells BY SizeFacts DEF Stale, Cells
  <2> QED BY <2>1, <2>2, SizeFacts DEF Init, TypeOK, Sides
<1>2. \A d \in Sides : said[d] = <<>> /\ got[d] = <<>> /\ heard[d] = 0 BY DEF Init
<1>3. Streams BY <1>2, SidesFacts DEF Streams, Packeted, Prefix
<1>4. Turns BY <1>2, SidesFacts DEF Turns, AllGot
<1>5. Idle BY <1>2, SidesFacts DEF Idle, Init, AtEnd
<1>6. session = "open" BY DEF Init
<1> QED BY <1>1, <1>3, <1>4, <1>5, <1>6 DEF FramingInv

(* What a handler finds that may receive from d.                           *)
LEMMA MayHear ==
  ASSUME FramingInv, session = "open", NEW d \in Sides, poll[d] = "in", loop = "none",
         Len(said[d]) > heard[d]
  PROVE  /\ process = 0 /\ poll[Other(d)] # "out"
         /\ heard[d] = Len(got[Other(d)]) + fill
         /\ \A k \in 1..fill : buffer[k] = said[d][Len(got[Other(d)]) + k]
         /\ said[d][Len(got[Other(d)]) + 1].at = 1
         /\ heard[Other(d)] = Len(got[d]) /\ AllGot(Other(d))
         /\ \/ body = 0 /\ fill < Header
            \/ body = said[d][Len(got[Other(d)]) + 1].len /\ Header <= fill /\ fill < Header + body
PROOF
<1>1. /\ said[d] \in Seq(Cells) /\ Len(said[d]) \in Nat /\ heard[d] \in Nat /\ fill \in Nat
      /\ \A e \in Sides : Len(got[e]) \in Nat /\ Len(said[e]) \in Nat
  BY SizeFacts DEF FramingInv, TypeOK
<1>2. Packeted(said[d]) BY DEF FramingInv, Streams
<1>3. CASE Idle
  <2>1. heard[d] = Len(got[Other(d)]) /\ AtEnd(said[d], Len(got[Other(d)])) BY <1>3 DEF Idle
  <2>2. said[d][Len(got[Other(d)]) + 1].at = 1 BY <1>1, <1>2, <2>1, SidesFacts, NextStarts
  <2>3. ~AllGot(d) BY <2>1, <1>1 DEF AllGot
  <2>4. AllGot(Other(d)) BY <2>3, SidesFacts DEF FramingInv, Turns
  <2>5. heard[Other(d)] = Len(got[d]) BY <1>3, SidesFacts DEF Idle
  <2>6. poll[Other(d)] # "out" BY <1>3, SidesFacts DEF Idle
  <2>7. heard[d] = Len(got[Other(d)]) + fill BY <1>3, <2>1, <1>1, SidesFacts DEF Idle
  <2> QED BY <1>3, <2>2, <2>4, <2>5, <2>6, <2>7, SizeFacts DEF Idle
<1>4. ASSUME NEW e \in Sides, Flow(e) PROVE e = d /\ Partial(d) /\ Holds(d)
  <2>1. CASE e = d
    <3>1. ~Whole(d) BY DEF Whole
    <3> QED BY <1>4, <2>1, <3>1 DEF Flow
  <2>2. CASE e = Other(d)
    <3>1. heard[Other(e)] = Len(got[e]) /\ AllGot(Other(e)) BY <1>4 DEF Flow, Holds
    <3>2. Other(e) = d BY <2>2, SidesFacts
    <3> QED BY <3>1, <3>2, <2>2, <1>1, SidesFacts DEF AllGot
  <2> QED BY <2>1, <2>2, SidesFacts
<1>5. CASE Partial(d) /\ Holds(d)
  <2>1. Base(d) = Len(got[Other(d)]) BY <1>1, <1>5, SidesFacts DEF Base, Partial
  <2> QED BY <2>1, <1>5 DEF Partial, Holds
<1> QED BY <1>3, <1>4, <1>5 DEF FramingInv

(* What it leaves.                                                         *)
LEMMA Heard ==
  ASSUME FramingInv, session = "open", Network = {}, NEW d \in Sides, poll[d] = "in", loop = "none",
         NEW n \in Nat, Received(d, n), Measured(n, Filled(d, n)), Unsplit(n, Filled(d, n))
  PROVE  /\ Filled(d, n) \in [1..Size -> Cells]
         /\ fill' \in 1..Size /\ process' = 0 /\ body' \in 0..MaxBody /\ heard' \in [Sides -> Nat]
         /\ fill' = fill + n
         /\ process = 0 /\ poll[Other(d)] # "out"
         /\ heard'[d] = Len(got[Other(d)]) + fill' /\ heard'[d] <= Len(said[d])
         /\ \A k \in 1..fill' : Filled(d, n)[k] = said[d][Len(got[Other(d)]) + k]
         /\ said[d][Len(got[Other(d)]) + 1].at = 1
         /\ heard'[Other(d)] = Len(got[d]) /\ AllGot(Other(d))
         /\ \/ body' = 0 /\ fill' < Header
            \/ body' = said[d][Len(got[Other(d)]) + 1].len /\ Header <= fill' /\ body' > 0
         /\ Complete => Filled(d, n)[fill'].at = Header + Filled(d, n)[fill'].len
PROOF
<1> DEFINE b == Filled(d, n)
           G == Len(got[Other(d)])
<1>1. /\ said[d] \in Seq(Cells) /\ Len(said[d]) \in Nat /\ heard[d] \in Nat /\ fill \in 0..Size
      /\ G \in Nat /\ buffer \in [1..Size -> Cells] /\ body \in 0..MaxBody
      /\ heard \in [Sides -> Nat] /\ Size \in Nat
  BY SizeFacts, SidesFacts DEF FramingInv, TypeOK
<1>2. Packeted(said[d]) BY DEF FramingInv, Streams
<1>3. /\ n \in 1..(Len(said[d]) - heard[d]) /\ n <= Size - fill
      /\ heard' = [heard EXCEPT ![d] = @ + n] /\ fill' = fill + n /\ process' = 0
  BY DEF Received
<1>4. Len(said[d]) > heard[d] BY <1>1, <1>3
<1>5. /\ process = 0 /\ poll[Other(d)] # "out"
      /\ heard[d] = G + fill
      /\ \A k \in 1..fill : buffer[k] = said[d][G + k]
      /\ said[d][G + 1].at = 1
      /\ heard[Other(d)] = Len(got[d]) /\ AllGot(Other(d))
      /\ \/ body = 0 /\ fill < Header
         \/ body = said[d][G + 1].len /\ Header <= fill /\ fill < Header + body
  BY <1>4, MayHear
<1>6. fill' \in 1..Size BY <1>1, <1>3
<1> HIDE DEF G
<1>7. heard'[d] = G + fill' /\ heard'[d] <= Len(said[d]) /\ heard'[Other(d)] = Len(got[d])
      /\ heard' \in [Sides -> Nat]
  <2>1. heard'[d] = heard[d] + n /\ heard'[Other(d)] = heard[Other(d)] /\ heard' \in [Sides -> Nat]
    BY <1>1, <1>3, SidesFacts
  <2>2. heard[d] + n = G + (fill + n) /\ heard[d] + n <= Len(said[d])
    <3>1. heard[d] = G + fill BY <1>5
    <3>2. n \in 1..(Len(said[d]) - heard[d]) BY <1>3
    <3>3. G \in Nat /\ heard[d] \in Nat /\ Len(said[d]) \in Nat /\ fill \in 0..Size /\ Size \in Nat BY <1>1
    <3> QED BY <3>1, <3>2, <3>3
  <2> QED BY <2>1, <2>2, <1>3, <1>5
<1>8. ASSUME NEW k \in 1..fill' PROVE b[k] = said[d][G + k]
  <2>1. k \in 1..Size BY <1>1, <1>6
  <2>2. CASE k <= fill BY <2>1, <2>2, <1>1, <1>5 DEF Filled
  <2>3. CASE k > fill
    <3>1. k \in (fill + 1)..(fill + n) BY <2>3, <1>1, <1>3
    <3>2. b[k] = said[d][heard[d] + k - fill] BY <2>1, <3>1 DEF Filled
    <3>3. heard[d] + k - fill = G + k BY <1>1, <1>5
    <3> QED BY <3>2, <3>3
  <2> QED BY <2>2, <2>3, <1>1
<1>9. ASSUME NEW k \in 1..fill' PROVE G + k \in 1..Len(said[d])
  <2>1. G + fill' <= Len(said[d]) BY <1>7
  <2> QED BY <2>1, <1>1, <1>6
<1>10. b \in [1..Size -> Cells]
  <2>1. ASSUME NEW k \in 1..Size PROVE b[k] \in Cells
    <3>1. CASE k \in (fill + 1)..(fill + n)
      <4>1. k \in 1..fill' BY <3>1, <1>1, <1>3
      <4>2. b[k] = said[d][G + k] /\ G + k \in 1..Len(said[d]) BY <4>1, <1>8, <1>9
      <4> QED BY <4>2, <1>1
    <3>2. CASE k \notin (fill + 1)..(fill + n) BY <3>2, <1>1 DEF Filled
    <3> QED BY <3>1, <3>2
  <2> QED BY <2>1 DEF Filled
<1>11. G + 1 \in 1..Len(said[d]) /\ said[d][G + 1] \in Cells BY <1>1, <1>6, <1>9
<1>12. said[d][G + 1].len \in 1..MaxBody BY <1>11 DEF Cells
<1> HIDE DEF b
<1>13. /\ \/ body' = 0 /\ fill' < Header
          \/ body' = said[d][G + 1].len /\ Header <= fill' /\ body' > 0
       /\ body' \in 0..MaxBody
  <2>1. CASE Measures(n)
    <3>1. fill' >= 4 /\ body = 0 BY <2>1, <1>3, SizeFacts DEF Measures
    <3>2. \A k \in 1..3 : b[k] = said[d][(G + 1) + k - 1]
      <4>1. \A k \in 1..3 : k \in 1..fill' /\ (G + 1) + k - 1 = G + k BY <3>1, <1>1, <1>6
      <4> QED BY <4>1, <1>8
    <3>3. Lengths(b) = {said[d][G + 1].len} BY <3>2, <1>1, <1>2, <1>5, <1>11, LengthRead
    <3>4. body' = said[d][G + 1].len BY <3>3, <2>1 DEF Measured, b
    <3> QED BY <3>1, <3>4, <1>12, SizeFacts
  <2>2. CASE ~Measures(n)
    <3>1. body' = body BY <2>2 DEF Measured
    <3>2. fill' < Header \/ body # 0 BY <2>2, <1>1, <1>3, SizeFacts DEF Measures
    <3> QED BY <3>1, <3>2, <1>1, <1>3, <1>5, <1>12, SizeFacts
  <2> QED BY <2>1, <2>2
<1>14. Complete => b[fill'].at = Header + b[fill'].len
  <2>1. fill + n < Header + body' \/ b[fill + n].at = Header + b[fill + n].len
    BY DEF Unsplit, b
  <2>2. fill' < Header + body' \/ b[fill'].at = Header + b[fill'].len BY <2>1, <1>3
  <2>3. ASSUME fill' < Header + body', Complete PROVE FALSE
    <3>1. fill' \in Nat /\ body' \in Nat BY <1>6, <1>13, SizeFacts
    <3>2. fill' >= Header + body' BY <2>3 DEF Complete
    <3>3. Header \in Nat BY SizeFacts
    <3>4. fill' < Header + body' BY <2>3
    <3>5. \A x, y, z \in Nat : x >= y + z => ~(x < y + z) OBVIOUS
    <3> QED BY <3>1, <3>2, <3>3, <3>4, <3>5
  <2> QED BY <2>2, <2>3
<1> QED BY <1>3, <1>5, <1>6, <1>7, <1>8, <1>10, <1>13, <1>14 DEF b, G

(* A bridge that has received is again in a state of the invariant.        *)
LEMMA AfterHeard ==
  ASSUME FramingInv, session = "open", Network = {}, NEW d \in Sides, poll[d] = "in", loop = "none",
         NEW n \in Nat, Received(d, n), Measured(n, Filled(d, n)), Unsplit(n, Filled(d, n)),
         UNCHANGED <<peers, got, session, loop>>,
         buffer' \in [1..Size -> Cells], \A k \in 1..fill' : buffer'[k] = Filled(d, n)[k],
         poll' \in [Sides -> {"in", "out", "err"}],
         Complete => poll'[d] = "err" /\ poll'[Other(d)] = "out",
         ~Complete => poll' = poll
  PROVE  FramingInv'
PROOF
<1> DEFINE G == Len(got[Other(d)])
<1>1. /\ fill' \in 1..Size /\ process' = 0 /\ body' \in 0..MaxBody /\ heard' \in [Sides -> Nat]
      /\ process = 0 /\ poll[Other(d)] # "out"
      /\ heard'[d] = G + fill' /\ heard'[d] <= Len(said[d])
      /\ \A k \in 1..fill' : Filled(d, n)[k] = said[d][G + k]
      /\ said[d][G + 1].at = 1
      /\ heard'[Other(d)] = Len(got[d]) /\ AllGot(Other(d))
      /\ \/ body' = 0 /\ fill' < Header
         \/ body' = said[d][G + 1].len /\ Header <= fill' /\ body' > 0
      /\ Complete => Filled(d, n)[fill'].at = Header + Filled(d, n)[fill'].len
  BY Heard
<1>2. said' = said /\ turn' = turn /\ got' = got /\ session' = "open" /\ loop' = "none"
  BY DEF peers
<1>3. TypeOK'
  <2>1. /\ said' \in [Sides -> Seq(Cells)] /\ got' \in [Sides -> Seq(Cells)]
        /\ turn' \in Sides \cup {"none"}
    BY <1>2 DEF FramingInv, TypeOK
  <2>2. fill' \in 0..Size /\ process' \in 0..Size /\ body' \in 0..MaxBody
    BY <1>1, SizeFacts
  <2> QED BY <1>1, <1>2, <2>1, <2>2 DEF TypeOK
<1>4. Streams' BY <1>2 DEF FramingInv, Streams, Packeted, Prefix
<1>5. Turns' BY <1>2 DEF FramingInv, Turns, AllGot
<1>6. G \in Nat /\ Size \in Nat /\ Header = 4
  BY SizeFacts, SidesFacts DEF FramingInv, TypeOK
<1>61. fill' \in Nat /\ body' \in Nat /\ Header \in Nat /\ Header + body' \in Nat /\ 0 < Header + body'
  <2>1. fill' \in 1..Size /\ body' \in 0..MaxBody BY <1>1
  <2>2. fill' \in Nat /\ body' \in Nat BY <2>1, SizeFacts
  <2>3. \A x \in Nat : 4 + x \in Nat /\ 0 < 4 + x OBVIOUS
  <2> QED BY <2>2, <2>3, SizeFacts
<1>62. \A x, y \in Nat : ~(x >= y) <=> x < y OBVIOUS
<1>7. Base(d)' = G
  <2>1. Base(d)' = G - 0 BY <1>1, <1>2 DEF Base
  <2> QED BY <2>1, <1>6
<1>8. Holds(d)'
  <2>1. fill' > 0 /\ process' <= G BY <1>1, <1>6
  <2>2. \A k \in 1..fill' : buffer'[k] = said[d][G + k] BY <1>1
  <2>3. AllGot(Other(d))' BY <1>1, <1>2 DEF AllGot
  <2> QED BY <1>1, <1>2, <1>7, <2>1, <2>2, <2>3 DEF Holds
<1>9. CASE Complete
  <2>1. body' = said[d][G + 1].len /\ Header + body' <= fill' /\ process' < Header + body'
    <3>1. body' > 0 /\ fill' >= Header + body' BY <1>9 DEF Complete
    <3>2. body' # 0 BY <3>1, <1>61
    <3> QED BY <3>1, <3>2, <1>61, <1>1
  <2>2. buffer'[fill'] = Filled(d, n)[fill']
    <3>1. fill' \in 1..Size BY <1>1
    <3>2. fill' \in 1..fill' BY <3>1, <1>6
    <3> QED BY <3>2
  <2>3. Whole(d)' BY <1>1, <1>2, <1>7, <1>9, <2>1, <2>2 DEF Whole
  <2> QED BY <1>2, <1>3, <1>4, <1>5, <1>8, <2>3 DEF FramingInv, Flow
<1>10. CASE ~Complete
  <2>1. \/ body' = 0 /\ fill' < Header
        \/ body' = said[d][G + 1].len /\ Header <= fill' /\ fill' < Header + body'
    <3>1. CASE body' > 0
      <4>1. ~(fill' >= Header + body') BY <3>1, <1>10 DEF Complete
      <4>2. fill' < Header + body' BY <4>1, <1>61, <1>62
      <4>3. body' # 0 BY <3>1, <1>61
      <4> QED BY <4>2, <4>3, <1>1
    <3>2. CASE ~(body' > 0)
      <4>1. body' = 0 BY <3>2, <1>61
      <4> QED BY <3>2, <4>1, <1>1
    <3> QED BY <3>1, <3>2
  <2>2. Partial(d)' BY <1>1, <1>2, <1>7, <1>10, <2>1 DEF Partial
  <2> QED BY <1>2, <1>3, <1>4, <1>5, <1>8, <2>2 DEF FramingInv, Flow
<1> QED BY <1>9, <1>10

LEMMA RequestKeeps ==
  ASSUME FramingInv, Network = {}, NEW n \in Nat, ReceiveRequest(n)
  PROVE  FramingInv'
PROOF
<1> DEFINE b == Filled("client", n)
<1>1. /\ session = "open" /\ loop = "none" /\ poll["client"] = "in"
      /\ Received("client", n) /\ Measured(n, b) /\ Unsplit(n, b)
      /\ UNCHANGED <<peers, got>>
  BY DEF ReceiveRequest, Handling
<1>2. /\ b \in [1..Size -> Cells]
      /\ fill' \in 1..Size /\ process' = 0 /\ body' \in 0..MaxBody /\ heard' \in [Sides -> Nat]
      /\ fill' = fill + n
  BY <1>1, SidesFacts, Heard
<1>3. fill + n + 1 \notin 1..fill' BY <1>2, SizeFacts
<1> HIDE DEF b
<1>4. CASE Quits(n, b) /\ Close /\ buffer' = b /\ UNCHANGED poll
  <2>1. said' = said /\ got' = got /\ turn' = turn /\ session' = "closed" /\ loop' = "none"
    BY <1>1, <1>4 DEF peers, Close
  <2>2. TypeOK' BY <1>2, <1>4, <2>1, SizeFacts DEF FramingInv, TypeOK
  <2>3. Streams' BY <2>1 DEF FramingInv, Streams, Packeted, Prefix
  <2> QED BY <2>1, <2>2, <2>3 DEF FramingInv
<1>5. CASE /\ Complete /\ buffer' = [b EXCEPT ![fill + n + 1] = Stale]
           /\ poll' = [client |-> "err", server |-> "out"] /\ UNCHANGED <<loop, session>>
  <2>1. Stale \in Cells BY SizeFacts DEF Stale, Cells
  <2>2. buffer' \in [1..Size -> Cells] BY <1>2, <1>5, <2>1
  <2>3. \A k \in 1..fill' : buffer'[k] = b[k] BY <1>2, <1>3, <1>5, SizeFacts
  <2>4. /\ poll' \in [Sides -> {"in", "out", "err"}]
        /\ poll'["client"] = "err" /\ poll'[Other("client")] = "out"
    BY <1>5, SidesFacts DEF Sides
  <2> QED BY <1>1, <1>5, <2>2, <2>3, <2>4, SidesFacts, AfterHeard DEF b
<1>6. CASE ~Complete /\ buffer' = b /\ UNCHANGED <<poll, loop, session>>
  <2>1. poll' \in [Sides -> {"in", "out", "err"}] BY <1>6 DEF FramingInv, TypeOK
  <2> QED BY <1>1, <1>2, <1>6, <2>1, SidesFacts, AfterHeard DEF b
<1> QED BY <1>4, <1>5, <1>6 DEF ReceiveRequest, b

LEMMA AnswerKeeps ==
  ASSUME FramingInv, Network = {}, NEW n \in Nat, ReceiveAnswer(n)
  PROVE  FramingInv'
PROOF
<1> DEFINE b == Filled("server", n)
<1>1. /\ session = "open" /\ loop = "none" /\ poll["server"] = "in"
      /\ Received("server", n) /\ Measured(n, b) /\ Unsplit(n, b)
      /\ buffer' = b
      /\ poll' = IF Complete THEN [client |-> "out", server |-> "err"] ELSE poll
      /\ UNCHANGED <<peers, got, loop, session>>
  BY DEF ReceiveAnswer, Handling
<1>2. b \in [1..Size -> Cells] BY <1>1, SidesFacts, Heard
<1>3. poll' \in [Sides -> {"in", "out", "err"}] BY <1>1 DEF FramingInv, TypeOK, Sides
<1>4. Complete => poll'["server"] = "err" /\ poll'[Other("server")] = "out"
  BY <1>1, SidesFacts
<1> HIDE DEF b
<1> QED BY <1>1, <1>2, <1>3, <1>4, SidesFacts, AfterHeard DEF b
-----------------------------------------------------------------------------
(* What a handler finds that may send to the other side of d.              *)
LEMMA MaySend ==
  ASSUME FramingInv, NEW d \in Sides, Sending(Other(d))
  PROVE  session = "open" /\ Holds(d) /\ Whole(d) /\ Turns
PROOF
<1>1. session = "open" /\ (poll[Other(d)] = "out" \/ loop = Other(d))
  BY DEF Sending, Handling
<1>2. ~Idle BY <1>1, SidesFacts DEF Idle, Sides
<1>3. PICK c \in Sides : Flow(c) BY <1>1, <1>2 DEF FramingInv
<1>4. ~Partial(c)
  <2>1. ASSUME Partial(c) PROVE FALSE
    <3>1. loop = "none" /\ poll[c] = "in" /\ poll[Other(c)] # "out" BY <2>1 DEF Partial
    <3>2. poll[Other(d)] # "out" BY <3>1, SidesFacts
    <3> QED BY <1>1, <3>1, <3>2 DEF Sides, Other
  <2> QED BY <2>1
<1>5. Holds(c) /\ Whole(c) BY <1>3, <1>4 DEF Flow
<1>6. c = d
  <2>1. poll[c] = "err" /\ loop \in {"none", Other(c)} BY <1>5 DEF Whole
  <2>2. c # Other(d) BY <1>1, <2>1, SidesFacts DEF Sides
  <2> QED BY <2>2, SidesFacts
<1> QED BY <1>1, <1>5, <1>6 DEF FramingInv

(* The sizes of what such a handler works on.                              *)
LEMMA SendSizes ==
  ASSUME FramingInv, NEW d \in Sides, Holds(d), Whole(d)
  PROVE  /\ Len(got[Other(d)]) \in Nat /\ Base(d) \in Nat /\ Base(d) + process = Len(got[Other(d)])
         /\ fill \in 1..Size /\ process \in Nat /\ body \in Nat /\ Header \in Nat
         /\ Header + body \in 1..fill /\ process < Header + body /\ Unsent = Header + body - process
         /\ Base(d) + fill = heard[d] /\ Base(d) + fill <= Len(said[d])
         /\ Len(said[d]) \in Nat /\ said[d] \in Seq(Cells) /\ Packeted(said[d])
         /\ Len(got[Other(d)]) < Len(said[d]) /\ ~AllGot(d)
PROOF
<1>1. /\ Len(got[Other(d)]) \in Nat /\ fill \in 0..Size /\ process \in 0..Size /\ body \in 0..MaxBody
      /\ Len(said[d]) \in Nat /\ said[d] \in Seq(Cells) /\ Packeted(said[d])
  <2>1. Other(d) \in Sides BY SidesFacts
  <2>2. /\ got[Other(d)] \in Seq(Cells) /\ said[d] \in Seq(Cells)
        /\ fill \in 0..Size /\ process \in 0..Size /\ body \in 0..MaxBody
    BY <2>1 DEF FramingInv, TypeOK
  <2>3. Len(got[Other(d)]) \in Nat /\ Len(said[d]) \in Nat BY <2>2
  <2> QED BY <2>2, <2>3 DEF FramingInv, Streams
<1>2. /\ fill > 0 /\ process <= Len(got[Other(d)])
      /\ heard[d] = Base(d) + fill /\ heard[d] <= Len(said[d])
  BY DEF Holds
<1>3. Header + body <= fill /\ process < Header + body BY DEF Whole
<1>4. Base(d) = Len(got[Other(d)]) - process BY DEF Base
<1> DEFINE G == Len(got[Other(d)])
           S == Len(said[d])
<1>5. AllGot(d) <=> S = G BY DEF AllGot
<1> HIDE DEF G, S
<1>6. G \in Nat /\ S \in Nat /\ Base(d) = G - process /\ process <= G
      /\ Base(d) + fill <= S
  BY <1>1, <1>2, <1>4 DEF G, S
<1>7. fill \in 1..Size /\ process \in Nat /\ body \in Nat BY <1>1, <1>2, SizeFacts
<1>8. /\ Base(d) \in Nat /\ Base(d) + process = G
      /\ Header + body \in 1..fill
      /\ G < S
  BY <1>3, <1>6, <1>7, SizeFacts
<1> QED BY <1>1, <1>2, <1>3, <1>5, <1>6, <1>7, <1>8, SizeFacts DEF Unsent, G, S

(* What is sent is what the other side has to get next.                    *)
LEMMA SentOn ==
  ASSUME FramingInv, NEW d \in Sides, Holds(d), Whole(d), Turns, NEW n \in Nat, Sent(Other(d), n),
         UNCHANGED peers
  PROVE  /\ got' \in [Sides -> Seq(Cells)]
         /\ Len(got'[Other(d)]) = Len(got[Other(d)]) + n /\ got'[d] = got[d]
         /\ Streams' /\ Turns'
PROOF
<1> DEFINE e == Other(d)
           G == Len(got[e])
           f == [k \in 1..n |-> buffer[process + k]]
<1>1. /\ G \in Nat /\ Base(d) \in Nat /\ Base(d) + process = G
      /\ fill \in 1..Size /\ process \in Nat /\ body \in Nat /\ Header \in Nat
      /\ Header + body \in 1..fill /\ process < Header + body /\ Unsent = Header + body - process
      /\ Base(d) + fill <= Len(said[d]) /\ Len(said[d]) \in Nat /\ ~AllGot(d)
  BY SendSizes
<1>2. said' = said /\ turn' = turn BY DEF peers
<1>3. /\ got \in [Sides -> Seq(Cells)] /\ buffer \in [1..Size -> Cells] /\ Size \in Nat
  BY SizeFacts DEF FramingInv, TypeOK
<1>4. n \in 1..Unsent /\ got' = [got EXCEPT ![e] = @ \o f] BY DEF Sent
<1>5. e \in Sides /\ d # e /\ Other(e) = d BY SidesFacts
<1>6. \A k \in 1..n : process + k \in 1..fill /\ process + k \in 1..Size
  <2>1. n <= Header + body - process BY <1>1, <1>4
  <2> QED BY <2>1, <1>1, <1>3
<1>7. f \in Seq(Cells) /\ Len(f) = n
  <2>1. \A k \in 1..n : buffer[process + k] \in Cells BY <1>3, <1>6
  <2>2. f \in [1..n -> Cells] BY <2>1
  <2> QED BY <2>2, IntervalIsSeq
<1>8. \A k \in 1..n : f[k] = said[d][G + k]
  <2>1. ASSUME NEW k \in 1..n PROVE f[k] = said[d][G + k]
    <3>1. buffer[process + k] = said[d][Base(d) + (process + k)] BY <1>6 DEF Holds
    <3>2. Base(d) + (process + k) = G + k BY <1>1
    <3> QED BY <3>1, <3>2
  <2> QED BY <2>1
<1> HIDE DEF f
<1>9. got[e] \in Seq(Cells) BY <1>3, <1>5
<1>10. /\ got[e] \o f \in Seq(Cells) /\ Len(got[e] \o f) = G + n
       /\ \A k \in 1..G : (got[e] \o f)[k] = got[e][k]
       /\ \A k \in 1..n : (got[e] \o f)[G + k] = f[k]
  <2> DEFINE q == got[e]
  <2>1. q \in Seq(Cells) /\ Len(q) = G BY <1>9
  <2> HIDE DEF q, G
  <2>2. /\ q \o f \in Seq(Cells) /\ Len(q \o f) = G + n
        /\ \A k \in 1..(G + n) : (q \o f)[k] = IF k <= G THEN q[k] ELSE f[k - G]
    BY <2>1, <1>7, ConcatProperties
  <2>3. \A k \in 1..G : k \in 1..(G + n) /\ k <= G BY <1>1
  <2>4. ASSUME NEW k \in 1..n PROVE (q \o f)[G + k] = f[k]
    <3>1. G + k \in 1..(G + n) /\ ~(G + k <= G) /\ (G + k) - G = k BY <1>1
    <3> QED BY <3>1, <2>2
  <2> QED BY <2>2, <2>3, <2>4 DEF q
<1>11. /\ got'[e] = got[e] \o f /\ got'[d] = got[d] /\ got' \in [Sides -> Seq(Cells)]
  BY <1>3, <1>4, <1>5, <1>10
<1> HIDE DEF G, e
<1>12. Prefix(d)'
  <2>1. Prefix(d) BY DEF FramingInv, Streams
  <2>2. G + n <= Len(said[d]) BY <1>1, <1>4
  <2>3. ASSUME NEW k \in 1..(G + n) PROVE said[d][k] = got'[e][k]
    <3>1. CASE k \in 1..G BY <3>1, <2>1, <1>10, <1>11 DEF Prefix, G, e
    <3>2. CASE k \notin 1..G
      <4>1. k - G \in 1..n /\ G + (k - G) = k BY <3>2, <1>1
      <4> QED BY <4>1, <1>8, <1>10, <1>11
    <3> QED BY <3>1, <3>2
  <2> QED BY <2>2, <2>3, <1>2, <1>10, <1>11 DEF Prefix, e
<1>13. Prefix(e)'
  <2>1. Prefix(e) BY <1>5 DEF FramingInv, Streams
  <2> QED BY <2>1, <1>2, <1>5, <1>11 DEF Prefix
<1>14. Streams'
  <2>1. \A c \in Sides : c = d \/ c = e BY SidesFacts DEF e
  <2>2. \A c \in Sides : Packeted(said[c]) BY DEF FramingInv, Streams
  <2>3. \A c \in Sides : Packeted(said'[c]) BY <2>2, <1>2
  <2>4. \A c \in Sides : Packeted(said[c])' BY <2>3 DEF Packeted
  <2> QED BY <2>1, <2>4, <1>12, <1>13 DEF Streams
<1>15. Turns'
  <2>1. AllGot(e) BY DEF Holds, e
  <2>2. AllGot(e)' BY <2>1, <1>2, <1>5, <1>11 DEF AllGot
  <2>3. turn = "client" => e = "client"
    <3>1. turn = "client" => AllGot("client") BY DEF Turns
    <3> QED BY <3>1, <1>1, SidesFacts DEF e
  <2> QED BY <2>2, <2>3, <1>2, <1>5, SidesFacts DEF Turns, Sides
<1> QED BY <1>10, <1>11, <1>14, <1>15 DEF e, G

(* A part of a packet is left to be sent, or bytes behind it: the state    *)
(* after that, from what becomes of the variables.                         *)
LEMMA FlowsOn ==
  ASSUME FramingInv, NEW d \in Sides, Holds(d), Whole(d), Turns, NEW n \in Nat, Sent(Other(d), n),
         session = "open", UNCHANGED <<peers, heard, poll, session>>,
         buffer' \in [1..Size -> Cells], fill' \in 1..Size, process' \in 0..Size, body' \in 0..MaxBody,
         loop' \in {"none", Other(d)},
         NEW B \in Nat, B + process' = Len(got[Other(d)]) + n, B + fill' = Base(d) + fill,
         \A k \in 1..fill' : buffer'[k] = said[d][B + k],
         said[d][B + 1].at = 1, body' = said[d][B + 1].len, Header + body' <= fill',
         process' < Header + body', (d = "client" \/ loop' # "none") => process' = 0
  PROVE  FramingInv'
PROOF
<1> DEFINE G == Len(got[Other(d)])
<1>1. /\ got' \in [Sides -> Seq(Cells)]
      /\ Len(got'[Other(d)]) = G + n /\ got'[d] = got[d]
      /\ Streams' /\ Turns'
  BY SentOn
<1>2. /\ G \in Nat /\ Base(d) \in Nat /\ fill \in 1..Size
      /\ Base(d) + fill = heard[d] /\ Base(d) + fill <= Len(said[d]) /\ Len(said[d]) \in Nat
      /\ said[d] \in Seq(Cells)
  BY SendSizes
<1>3. said' = said /\ turn' = turn /\ heard' = heard /\ poll' = poll /\ session' = "open"
  BY DEF peers
<1> HIDE DEF G
<1>4. Base(d)' = B
  <2>1. Base(d)' = (G + n) - process' BY <1>1 DEF Base
  <2>2. process' \in Nat BY SizeFacts
  <2>3. B + process' = G + n BY DEF G
  <2> QED BY <2>1, <2>2, <2>3
<1>5. Holds(d)'
  <2>1. fill' > 0 BY SizeFacts
  <2>2. process' \in Nat /\ B + process' = G + n BY SizeFacts DEF G
  <2>3. process' <= G + n BY <2>2
  <2>4. heard[d] = B + fill' /\ heard[d] <= Len(said[d]) BY <1>2
  <2>5. AllGot(Other(d))' BY <1>1, <1>3, SidesFacts DEF Holds, AllGot
  <2>6. heard[Other(d)] = Len(got[d]) BY DEF Holds
  <2> QED BY <2>1, <2>3, <2>4, <2>5, <2>6, <1>1, <1>3, <1>4 DEF Holds
<1>6. Whole(d)'
  <2>1. poll[d] = "err" /\ poll[Other(d)] = "out" BY DEF Whole
  <2>2. buffer'[fill'] = buffer[fill]
    <3>1. buffer[fill] = said[d][Base(d) + fill]
      <4>1. fill \in 1..Size BY <1>2
      <4>2. fill \in 1..fill BY <4>1, SizeFacts
      <4> QED BY <4>2 DEF Holds
    <3>2. fill' \in 1..fill' BY SizeFacts
    <3>3. buffer'[fill'] = said[d][B + fill'] BY <3>2
    <3> QED BY <3>1, <3>3
  <2>3. buffer'[fill'].at = Header + buffer'[fill'].len BY <2>2 DEF Whole
  <2> QED BY <2>1, <2>3, <1>3, <1>4 DEF Whole
<1>7. TypeOK'
  <2>1. /\ said' \in [Sides -> Seq(Cells)] /\ turn' \in Sides \cup {"none"} /\ heard' \in [Sides -> Nat]
        /\ poll' \in [Sides -> {"in", "out", "err"}]
    BY <1>3 DEF FramingInv, TypeOK
  <2>2. fill' \in 0..Size BY SizeFacts
  <2>3. loop' \in Sides \cup {"none"} BY SidesFacts
  <2> QED BY <2>1, <2>2, <2>3, <1>1, <1>3 DEF TypeOK
<1> QED BY <1>1, <1>3, <1>5, <1>6, <1>7 DEF FramingInv, Flow

(* A part of a packet was taken.                                           *)
LEMMA PartSent ==
  ASSUME FramingInv, session = "open", Holds("server"), Whole("server"), Turns,
         NEW n \in Nat, Sent("client", n),
         n < Unsent, process' = process + n, loop' = "none",
         UNCHANGED <<buffer, fill, body, poll, session, peers, heard>>
  PROVE  FramingInv'
PROOF
<1> DEFINE d == "server"
           B == Base(d)
<1>1. d \in Sides /\ Other(d) = "client" BY SidesFacts
<1>2. /\ B \in Nat /\ B + process = Len(got["client"]) /\ fill \in 1..Size /\ process \in Nat
      /\ body \in Nat /\ Header + body \in 1..fill /\ Unsent = Header + body - process
  BY <1>1, SendSizes
<1>3. Header \in Nat /\ Size \in Nat BY SizeFacts
<1>4. /\ buffer \in [1..Size -> Cells] /\ body \in 0..MaxBody BY DEF FramingInv, TypeOK
<1>5. /\ \A k \in 1..fill : buffer[k] = said[d][B + k] /\ said[d][B + 1].at = 1 BY DEF Holds
<1>6. body = said[d][B + 1].len /\ Header + body <= fill BY DEF Whole
<1> HIDE DEF B
<1>7. process + n \in 0..Size /\ process + n < Header + body BY <1>2, <1>3
<1> DEFINE G == Len(got["client"])
<1>8. B + (process + n) = G + n
  <2>1. B + process = G BY <1>2
  <2> HIDE DEF G
  <2> QED BY <2>1, <1>2
<1> HIDE DEF G
<1>9. B + fill = Base(d) + fill BY DEF B
<1>10. /\ buffer' = buffer /\ fill' = fill /\ body' = body OBVIOUS
<1>11. /\ buffer' \in [1..Size -> Cells] /\ fill' \in 1..Size /\ process' \in 0..Size /\ body' \in 0..MaxBody
       /\ B + process' = Len(got[Other(d)]) + n /\ B + fill' = Base(d) + fill
       /\ \A k \in 1..fill' : buffer'[k] = said[d][B + k]
       /\ body' = said[d][B + 1].len /\ Header + body' <= fill' /\ process' < Header + body'
  BY <1>1, <1>2, <1>4, <1>5, <1>6, <1>7, <1>8, <1>9, <1>10 DEF G
<1> QED BY <1>1, <1>2, <1>5, <1>11, FlowsOn

(* All that was received was taken.                                        *)
LEMMA AllSent ==
  ASSUME FramingInv, session = "open", NEW d \in Sides, Holds(d), Whole(d), Turns,
         NEW n \in Nat, Sent(Other(d), n),
         process + n = fill, Cleared, loop' = "none",
         poll' \in [Sides -> {"in", "out", "err"}], poll'["server"] = "in", poll'["client"] # "out",
         UNCHANGED <<session, peers, heard>>
  PROVE  FramingInv'
PROOF
<1> DEFINE G == Len(got[Other(d)])
           B == Base(d)
<1>1. /\ got' \in [Sides -> Seq(Cells)]
      /\ Len(got'[Other(d)]) = G + n /\ got'[d] = got[d]
      /\ Streams' /\ Turns'
  BY SentOn
<1>2. /\ G \in Nat /\ B \in Nat /\ B + process = G /\ fill \in 1..Size /\ process \in Nat
      /\ B + fill = heard[d] /\ B + fill <= Len(said[d]) /\ Len(said[d]) \in Nat
      /\ said[d] \in Seq(Cells)
  BY SendSizes
<1>3. said' = said /\ turn' = turn /\ heard' = heard /\ session' = "open"
  BY DEF peers
<1>4. fill' = 0 /\ process' = 0 /\ body' = 0 /\ buffer' = buffer BY DEF Cleared
<1> HIDE DEF G
<1>5. G + n = B + fill BY <1>2
<1>6. B + fill \in 1..Len(said[d]) BY <1>2, SizeFacts
<1>7. AtEnd(said[d], G + n)
  <2>1. buffer[fill] = said[d][B + fill] BY <1>2, SizeFacts DEF Holds
  <2>2. buffer[fill].at = Header + buffer[fill].len BY DEF Whole
  <2> QED BY <2>1, <2>2, <1>5, <1>6 DEF AtEnd
<1>8. AtEnd(said[Other(d)], Len(got[d]))
  <2>1. Len(said[Other(d)]) = Len(got[d]) BY SidesFacts DEF Holds, AllGot
  <2>2. said[Other(d)] \in Seq(Cells) /\ Packeted(said[Other(d)])
    BY SidesFacts DEF FramingInv, TypeOK, Streams
  <2> QED BY <2>1, <2>2, LastEnds
<1>9. heard[d] = G + n /\ heard[Other(d)] = Len(got[d]) BY <1>2, <1>5 DEF Holds
<1>10. Idle'
  <2>1. ASSUME NEW c \in Sides
        PROVE  heard'[c] = Len(got'[Other(c)]) /\ AtEnd(said[c], Len(got[Other(c)]))'
    <3>1. CASE c = d BY <3>1, <1>1, <1>3, <1>7, <1>9 DEF AtEnd
    <3>2. CASE c = Other(d) BY <3>2, <1>1, <1>3, <1>8, <1>9, SidesFacts DEF AtEnd
    <3> QED BY <3>1, <3>2, SidesFacts
  <2> QED BY <2>1, <1>4 DEF Idle
<1>11. TypeOK'
  <2>1. /\ said' \in [Sides -> Seq(Cells)] /\ turn' \in Sides \cup {"none"} /\ heard' \in [Sides -> Nat]
        /\ buffer' \in [1..Size -> Cells]
    BY <1>3, <1>4 DEF FramingInv, TypeOK
  <2>2. fill' \in 0..Size /\ process' \in 0..Size /\ body' \in 0..MaxBody BY <1>4, SizeFacts
  <2> QED BY <2>1, <2>2, <1>1, <1>3 DEF TypeOK
<1> QED BY <1>1, <1>3, <1>10, <1>11 DEF FramingInv

(* A packet was taken, and there are bytes of the next ones.               *)
LEMMA MoreToSend ==
  ASSUME FramingInv, session = "open", NEW d \in Sides, Holds(d), Whole(d), Turns,
         NEW n \in Nat, Sent(Other(d), n),
         n = Unsent, process + n # fill, Again(Other(d), process + n),
         UNCHANGED <<poll, peers, heard>>
  PROVE  FramingInv'
PROOF
<1> DEFINE B == Base(d)
           m == Header + body
           q == said[d]
<1>1. /\ B \in Nat /\ B + process = Len(got[Other(d)]) /\ fill \in 1..Size /\ process \in Nat
      /\ m \in 1..fill /\ Unsent = m - process /\ m \in Nat
      /\ B + fill <= Len(q) /\ Len(q) \in Nat /\ q \in Seq(Cells) /\ Packeted(q)
      /\ Len(got[Other(d)]) \in Nat
  <2>1. /\ B \in Nat /\ B + process = Len(got[Other(d)]) /\ fill \in 1..Size /\ process \in Nat
        /\ m \in 1..fill /\ Unsent = m - process
        /\ B + fill <= Len(q) /\ Len(q) \in Nat /\ q \in Seq(Cells) /\ Packeted(q)
        /\ Len(got[Other(d)]) \in Nat
    BY SendSizes
  <2>2. body \in Nat BY SendSizes
  <2>3. m \in Nat BY <2>2, SizeFacts
  <2> QED BY <2>1, <2>3, Zenon
<1>2. /\ \A k \in 1..fill : buffer[k] = q[B + k]
      /\ q[B + 1].at = 1
  BY DEF Holds
<1>3. m = Header + q[B + 1].len BY DEF Whole
<1>4. buffer[fill].at = Header + buffer[fill].len BY DEF Whole
<1>41. buffer \in [1..Size -> Cells] /\ Size \in Nat BY SizeFacts DEF FramingInv, TypeOK
<1> HIDE DEF B, m, q
<1>5. process + n = m BY <1>1
<1>6. m < fill BY <1>1, <1>5
<1>7. /\ buffer' = Shifted(m) /\ fill' = fill - m /\ process' = 0
      /\ body' \in Lengths(Shifted(m))
      /\ loop' = Other(d) /\ session' = session
  BY <1>5, <1>6 DEF Again
<1>8. fill - m \in 1..Size BY <1>1, <1>6, <1>41
<1>9. ASSUME NEW k \in 1..(fill - m) PROVE Shifted(m)[k] = q[(B + m) + k]
  <2>1. k \in 1..Size /\ k <= fill - m /\ k + m \in 1..fill /\ B + (k + m) = (B + m) + k
    BY <1>1, <1>8, <1>41
  <2> QED BY <2>1, <1>2 DEF Shifted
<1>10. Shifted(m) \in [1..Size -> Cells]
  <2>1. ASSUME NEW k \in 1..Size PROVE Shifted(m)[k] \in Cells
    <3>1. CASE k <= fill - m
      <4>1. k + m \in 1..Size BY <3>1, <1>1, <1>41
      <4> QED BY <3>1, <4>1, <1>41 DEF Shifted
    <3>2. CASE ~(k <= fill - m) BY <3>2, <1>41 DEF Shifted
    <3> QED BY <3>1, <3>2
  <2> QED BY <2>1 DEF Shifted
<1>11. B + 1 \in 1..Len(q) BY <1>1, <1>41
<1>12. AtEnd(q, B + m)
  <2>1. AtEnd(q, B + 1 + Header + q[B + 1].len - 1) BY <1>1, <1>2, <1>11, HeadPacket
  <2>2. q[B + 1].len \in Nat /\ Header \in Nat
    <3>1. q[B + 1] \in Cells BY <1>1, <1>11
    <3> QED BY <3>1, SizeFacts DEF Cells
  <2> DEFINE h == Header
             z == q[B + 1].len
  <2>4. h \in Nat /\ z \in Nat /\ m = h + z /\ B \in Nat BY <2>2, <1>1, <1>3
  <2>5. AtEnd(q, B + 1 + h + z - 1) BY <2>1
  <2> HIDE DEF h, z
  <2>6. B + 1 + h + z - 1 = B + m BY <2>4
  <2> QED BY <2>5, <2>6
<1>13. B + m \in Nat /\ B + m < Len(q) BY <1>1, <1>6
<1>14. q[(B + m) + 1].at = 1 BY <1>1, <1>12, <1>13, NextStarts
<1> DEFINE s == (B + m) + 1
           l == q[s].len
<1>15. s \in 1..Len(q) BY <1>1, <1>13
<1>16. l \in 1..MaxBody
  <2>1. q[s] \in Cells BY <1>1, <1>15
  <2> QED BY <2>1 DEF Cells
<1>17. Header + l <= fill - m
  <2>1. B + fill \in s..Len(q) BY <1>1, <1>6
  <2>2. AtEnd(q, B + fill)
    <3>1. fill \in 1..fill /\ B + fill \in 1..Len(q) BY <1>1, <1>41
    <3> QED BY <3>1, <1>2, <1>4 DEF AtEnd
  <2>3. s + Header + l - 1 <= B + fill
    <3> HIDE DEF s
    <3> QED BY <1>1, <1>14, <1>15, <2>1, <2>2, HeadPacket DEF s
  <2>4. Header \in Nat /\ l \in Nat BY <1>16, SizeFacts
  <2> HIDE DEF l
  <2> QED BY <2>3, <2>4, <1>1
<1>18. Lengths(Shifted(m)) = {l}
  <2>1. \A k \in 1..3 : k \in 1..(fill - m) /\ (B + m) + k = s + k - 1
    <3>1. 4 + l <= fill - m /\ l \in Nat BY <1>16, <1>17, SizeFacts
    <3>2. fill - m \in Nat BY <1>8, <1>41
    <3> HIDE DEF l
    <3>3. \A k \in 1..3 : k \in 1..(fill - m) BY <3>1, <3>2
    <3> QED BY <3>3, <1>13
  <2>2. \A k \in 1..3 : Shifted(m)[k] = q[s + k - 1] BY <2>1, <1>9
  <2>3. q[s].at = 1 BY <1>14
  <2>4. l = q[s].len OBVIOUS
  <2> HIDE DEF s, l
  <2>5. Lengths(Shifted(m)) = {q[s].len} BY <2>2, <2>3, <1>1, <1>15, LengthRead
  <2> QED BY <2>4, <2>5, Zenon
<1>19. body' = l BY <1>7, <1>18
<1>20. (B + m) + 0 = Len(got[Other(d)]) + n /\ (B + m) + (fill - m) = B + fill BY <1>1, <1>5
<1>21. l \in 0..MaxBody /\ 0 < Header + l /\ 0 \in 0..Size BY <1>16, SizeFacts
<1> HIDE DEF l
<1> QED
  <2>1. \A k \in 1..fill' : buffer'[k] = said[d][(B + m) + k] BY <1>7, <1>9 DEF q
  <2>2. said[d][(B + m) + 1].at = 1 /\ body' = said[d][(B + m) + 1].len
    BY <1>14, <1>19 DEF q, l
  <2>3. /\ buffer' \in [1..Size -> Cells] /\ fill' \in 1..Size /\ process' = 0 /\ process' \in 0..Size
        /\ body' \in 0..MaxBody
        /\ Header + body' <= fill' /\ process' < Header + body' /\ loop' \in {"none", Other(d)}
    BY <1>7, <1>8, <1>10, <1>17, <1>19, <1>21
  <2>4. (B + m) + process' = Len(got[Other(d)]) + n /\ (B + m) + fill' = Base(d) + fill
    BY <1>7, <1>20 DEF B
  <2> QED BY <2>1, <2>2, <2>3, <2>4, <1>7, <1>13, FlowsOn

LEMMA SendKeeps ==
  ASSUME FramingInv, Network = {}, NEW n \in Nat, SendAnswer(n) \/ SendRequest(n)
  PROVE  FramingInv'
PROOF
<1>0. poll \in [Sides -> {"in", "out", "err"}] BY DEF FramingInv, TypeOK
<1>1. CASE SendAnswer(n)
  <2>1. Sending(Other("server")) /\ Sent("client", n) /\ UNCHANGED <<peers, heard>>
    BY <1>1, SidesFacts DEF SendAnswer
  <2>2. session = "open" /\ Holds("server") /\ Whole("server") /\ Turns
    BY <2>1, SidesFacts, MaySend
  <2>3. CASE /\ n < Unsent /\ process' = process + n /\ loop' = "none"
             /\ UNCHANGED <<buffer, fill, body, poll, session>>
    BY <2>1, <2>2, <2>3, PartSent
  <2>4. CASE /\ process + n = fill /\ Cleared /\ poll' = BothRead
             /\ loop' = "none" /\ UNCHANGED session
    <3>1. /\ poll' \in [Sides -> {"in", "out", "err"}] /\ poll'["server"] = "in"
          /\ poll'["client"] # "out"
      BY <2>4 DEF BothRead, Sides
    <3> QED BY <2>1, <2>2, <2>4, <3>1, SidesFacts, AllSent
  <2>5. CASE /\ n = Unsent /\ process + n # fill
             /\ Again("client", process + n) /\ UNCHANGED poll
    BY <2>1, <2>2, <2>5, SidesFacts, MoreToSend
  <2> QED BY <1>1, <2>3, <2>4, <2>5 DEF SendAnswer
<1>2. CASE SendRequest(n)
  <2>1. Sending(Other("client")) /\ Sent("server", n) /\ UNCHANGED <<peers, heard>> /\ n = Unsent
    BY <1>2, SidesFacts DEF SendRequest
  <2>2. session = "open" /\ Holds("client") /\ Whole("client") /\ Turns
    BY <2>1, SidesFacts, MaySend
  <2>3. CASE /\ process + n = fill /\ Cleared /\ poll' = [poll EXCEPT !["server"] = "in"]
             /\ loop' = "none" /\ UNCHANGED session
    <3>1. poll["client"] = "err" BY <2>2 DEF Whole
    <3>2. /\ poll' \in [Sides -> {"in", "out", "err"}] /\ poll'["server"] = "in"
          /\ poll'["client"] # "out"
      BY <1>0, <2>3, <3>1 DEF Sides
    <3> QED BY <2>1, <2>2, <2>3, <3>2, SidesFacts, AllSent
  <2>4. CASE /\ process + n # fill
             /\ Again("server", process + n) /\ UNCHANGED poll
    BY <2>1, <2>2, <2>4, SidesFacts, MoreToSend
  <2> QED BY <1>2, <2>3, <2>4 DEF SendRequest
<1> QED BY <1>1, <1>2

LEMMA FailKeeps ==
  ASSUME FramingInv, NEW d \in Sides, SendFails(d)
  PROVE  FramingInv'
PROOF
<1>1. UNCHANGED <<said, turn, heard, got, buffer, fill, process, body, poll>>
      /\ session' = "closed" /\ loop' = "none"
  BY DEF SendFails, Close, peers, frame
<1>2. TypeOK' BY <1>1 DEF FramingInv, TypeOK
<1>3. Streams' BY <1>1 DEF FramingInv, Streams, Packeted, Prefix
<1> QED BY <1>1, <1>2, <1>3 DEF FramingInv

(* What a peer sends is put behind what it has sent.                       *)
LEMMA SendsOn ==
  ASSUME FramingInv, NEW d \in Sides, NEW len \in 1..MaxBody, NEW one \in BOOLEAN, Sends(d, len, one),
         UNCHANGED proxy
  PROVE  /\ said' \in [Sides -> Seq(Cells)] /\ said'[Other(d)] = said[Other(d)]
         /\ Len(said'[d]) > Len(said[d]) /\ \A k \in 1..Len(said[d]) : said'[d][k] = said[d][k]
         /\ Streams'
PROOF
<1> DEFINE no == IF said[d] = <<>> THEN 1 ELSE said[d][Len(said[d])].no + 1
           p == [of |-> d, no |-> no, len |-> len, one |-> one]
           q == said[d]
<1>1. said \in [Sides -> Seq(Cells)] /\ q \in Seq(Cells) /\ Packeted(q) /\ Len(q) \in Nat
  BY DEF FramingInv, TypeOK, Streams
<1>2. no \in Nat
  <2>1. CASE q = <<>> BY <2>1
  <2>2. CASE q # <<>>
    <3>1. Len(q) \in 1..Len(q) BY <1>1, <2>2
    <3>2. q[Len(q)] \in Cells BY <1>1, <3>1
    <3> QED BY <2>2, <3>2 DEF Cells
  <2> QED BY <2>1, <2>2
<1>3. said' = [said EXCEPT ![d] = @ \o Bytes(p)] BY DEF Sends
<1> HIDE DEF no
<1>4. p \in Packets BY <1>2 DEF Packets
<1> HIDE DEF p, q
<1>5. /\ Packeted(q \o Bytes(p)) /\ q \o Bytes(p) \in Seq(Cells)
      /\ Len(q \o Bytes(p)) = Len(q) + Header + p.len
      /\ \A k \in 1..Len(q) : (q \o Bytes(p))[k] = q[k]
  BY <1>1, <1>4, PacketedAppend
<1>6. Len(q) + Header + p.len > Len(q)
  <2>1. p.len \in Nat /\ Header \in Nat /\ Header > 0 BY <1>4, SizeFacts DEF Packets
  <2> QED BY <2>1, <1>1
<1>7. /\ said'[d] = q \o Bytes(p) /\ said'[Other(d)] = said[Other(d)]
      /\ said' \in [Sides -> Seq(Cells)]
  BY <1>1, <1>3, <1>5, SidesFacts DEF q
<1>8. got' = got BY DEF proxy
<1>9. \A c \in Sides : Packeted(said'[c])
  <2>1. \A c \in Sides : Packeted(said[c]) BY DEF FramingInv, Streams
  <2>2. Packeted(said'[d]) BY <1>5, <1>7
  <2>3. Packeted(said'[Other(d)]) BY <2>1, <1>7, SidesFacts
  <2> QED BY <2>2, <2>3, SidesFacts
<1>10. \A c \in Sides : Len(said[c]) <= Len(said'[c]) /\ \A k \in 1..Len(said[c]) : said'[c][k] = said[c][k]
  <2>1. \A c \in Sides : Len(said[c]) \in Nat BY <1>1
  <2>2. Len(said'[d]) \in Nat /\ Len(said[d]) <= Len(said'[d]) BY <1>1, <1>5, <1>6, <1>7 DEF q
  <2>3. \A k \in 1..Len(said[d]) : said'[d][k] = said[d][k] BY <1>5, <1>7 DEF q
  <2>4. \A c \in Sides : c # d => said'[c] = said[c] BY <1>7, SidesFacts
  <2> QED BY <2>1, <2>2, <2>3, <2>4
<1>11. ASSUME NEW c \in Sides PROVE Prefix(c)'
  <2>1. Prefix(c) BY DEF FramingInv, Streams
  <2>2. Len(got[Other(c)]) \in Nat /\ Len(said[c]) \in Nat /\ Len(said'[c]) \in Nat
    <3>1. got \in [Sides -> Seq(Cells)] /\ Other(c) \in Sides
      BY SidesFacts DEF FramingInv, TypeOK
    <3>2. got[Other(c)] \in Seq(Cells) /\ said[c] \in Seq(Cells) /\ said'[c] \in Seq(Cells)
      BY <1>1, <1>7, <3>1
    <3> QED BY <3>2
  <2>3. Len(got[Other(c)]) <= Len(said'[c]) BY <2>1, <2>2, <1>10 DEF Prefix
  <2>4. \A k \in 1..Len(got[Other(c)]) : k \in 1..Len(said[c]) BY <2>1, <2>2 DEF Prefix
  <2>5. \A k \in 1..Len(got[Other(c)]) : said'[c][k] = got[Other(c)][k]
    BY <2>1, <2>4, <1>10 DEF Prefix
  <2> QED BY <2>3, <2>5, <1>8 DEF Prefix
<1>12. Streams'
  <2>1. \A c \in Sides : Packeted(said[c])' BY <1>9 DEF Packeted
  <2> QED BY <2>1, <1>11 DEF Streams
<1> QED BY <1>5, <1>6, <1>7, <1>12 DEF q

LEMMA NotAllGot ==
  ASSUME FramingInv, NEW d \in Sides, Flow(d)
  PROVE  ~AllGot(d)
PROOF
<1>1. CASE Whole(d) BY <1>1, SendSizes DEF Flow
<1>2. CASE Partial(d)
  <2> DEFINE G == Len(got[Other(d)])
             S == Len(said[d])
  <2>1. G \in Nat /\ S \in Nat /\ fill \in 0..Size /\ Size \in Nat
    BY SidesFacts, SizeFacts DEF FramingInv, TypeOK
  <2>2. process = 0 /\ fill > 0 /\ Base(d) + fill <= S /\ Base(d) = G - process
    BY <1>2 DEF Flow, Holds, Partial, Base
  <2>3. AllGot(d) => S = G BY DEF AllGot
  <2> HIDE DEF G, S
  <2> QED BY <2>1, <2>2, <2>3
<1> QED BY <1>1, <1>2 DEF Flow

(* A peer sends while nothing of the other is on its way.                  *)
LEMMA PeerKeeps ==
  ASSUME FramingInv, session = "open", NEW d \in Sides, NEW len \in 1..MaxBody, NEW one \in BOOLEAN,
         Sends(d, len, one), UNCHANGED proxy, AllGot(Other(d)),
         turn' \in Sides \cup {"none"}, turn' = "client" => d = "server"
  PROVE  FramingInv'
PROOF
<1>1. /\ said' \in [Sides -> Seq(Cells)] /\ said'[Other(d)] = said[Other(d)]
      /\ Len(said'[d]) > Len(said[d]) /\ \A k \in 1..Len(said[d]) : said'[d][k] = said[d][k]
      /\ Streams'
  BY SendsOn
<1>2. /\ heard' = heard /\ got' = got /\ buffer' = buffer /\ fill' = fill /\ process' = process
      /\ body' = body /\ poll' = poll /\ loop' = loop /\ session' = session
  BY DEF proxy, frame
<1>3. TypeOK' BY <1>1, <1>2 DEF FramingInv, TypeOK
<1>4. \A c \in Sides : Len(said[c]) \in Nat /\ Len(said'[c]) \in Nat /\ Len(got[c]) \in Nat
  <2>1. said \in [Sides -> Seq(Cells)] /\ got \in [Sides -> Seq(Cells)] BY DEF FramingInv, TypeOK
  <2>2. \A c \in Sides : said[c] \in Seq(Cells) /\ said'[c] \in Seq(Cells) /\ got[c] \in Seq(Cells)
    BY <1>1, <2>1
  <2> QED BY <2>2
<1>5. \A c \in Sides, k \in 1..Len(said[d]) : c = d => said'[c][k] = said[c][k] BY <1>1
<1>6. AllGot(Other(d))' BY <1>1, <1>2, SidesFacts DEF AllGot
<1>7. Turns' BY <1>6, SidesFacts DEF Turns, Sides
<1>8. CASE Idle
  <2>1. ASSUME NEW c \in Sides, NEW k, AtEnd(said[c], k) PROVE AtEnd(said'[c], k)
    <3>1. CASE c = d
      <4>1. CASE k = 0 BY <4>1 DEF AtEnd
      <4>2. CASE k # 0
        <5>1. k \in 1..Len(said[c]) /\ said[c][k].at = Header + said[c][k].len BY <2>1, <4>2 DEF AtEnd
        <5>2. k \in 1..Len(said'[c]) BY <3>1, <5>1, <1>1, <1>4
        <5>3. said'[c][k] = said[c][k] BY <3>1, <5>1, <1>1
        <5> QED BY <5>1, <5>2, <5>3 DEF AtEnd
      <4> QED BY <4>1, <4>2
    <3>2. CASE c = Other(d) BY <2>1, <3>2, <1>1
    <3> QED BY <3>1, <3>2, SidesFacts
  <2>2. \A c \in Sides : AtEnd(said[c], Len(got[Other(c)]))' BY <1>2, <1>8, <2>1 DEF Idle, AtEnd
  <2>3. Idle' BY <1>2, <1>8, <2>2 DEF Idle
  <2> QED BY <1>1, <1>2, <1>3, <1>7, <2>3 DEF FramingInv
<1>9. ASSUME NEW c \in Sides, Flow(c) PROVE FramingInv'
  <2>1. c = d
    <3>1. ~AllGot(c) BY <1>9, NotAllGot
    <3> QED BY <3>1, SidesFacts
  <2> DEFINE B == Base(d)
             S == Len(said[d])
  <2>2. Holds(d) BY <1>9, <2>1 DEF Flow
  <2>3. B \in Nat
    <3>1. process \in Nat /\ process <= Len(got[Other(d)])
      BY <2>2, SizeFacts DEF Holds, FramingInv, TypeOK
    <3>2. Len(got[Other(d)]) \in Nat BY <1>4, SidesFacts
    <3> QED BY <3>1, <3>2 DEF Base
  <2>4. B' = B BY <1>2 DEF Base
  <2>5. fill > 0 /\ fill \in Nat /\ B + fill <= S /\ heard[d] = B + fill
    BY <2>2, SizeFacts DEF Holds, FramingInv, TypeOK
  <2>6. S \in Nat /\ Len(said'[d]) \in Nat /\ S <= Len(said'[d]) BY <1>1, <1>4
  <2> HIDE DEF B, S
  <2>7. \A k \in 1..fill : B + k \in 1..S /\ 1 \in 1..fill BY <2>3, <2>5, <2>6
  <2>8. \A k \in 1..fill : said'[d][B + k] = said[d][B + k] BY <2>7, <1>1 DEF S
  <2>9. said'[d][B + 1] = said[d][B + 1] BY <2>5, <2>7, <2>8
  <2>10. Holds(d)'
    <3>1. \A k \in 1..fill : buffer[k] = said[d][B + k] BY <2>2 DEF Holds, B
    <3>2. B + fill <= Len(said'[d]) BY <2>3, <2>5, <2>6
    <3>3. \A k \in 1..fill : buffer[k] = said'[d][B + k] BY <3>1, <2>8
    <3>4. said'[d][B + 1].at = 1 BY <2>2, <2>9 DEF Holds, B
    <3>5. Base(d)' = B BY <2>4 DEF B
    <3>6. /\ fill > 0 /\ process <= Len(got[Other(d)]) /\ heard[Other(d)] = Len(got[d])
      BY <2>2 DEF Holds
    <3> QED BY <1>2, <1>6, <2>5, <3>2, <3>3, <3>4, <3>5, <3>6 DEF Holds
  <2>11. Partial(d) => Partial(d)' BY <1>2, <2>4, <2>9 DEF Partial, B
  <2>12. Whole(d) => Whole(d)' BY <1>2, <2>4, <2>9 DEF Whole, B
  <2>13. Flow(d)' BY <1>9, <2>1, <2>10, <2>11, <2>12 DEF Flow
  <2> QED BY <1>1, <1>2, <1>3, <1>7, <2>13 DEF FramingInv
<1> QED BY <1>8, <1>9 DEF FramingInv

LEMMA ClientKeeps ==
  ASSUME FramingInv, Network = {}, ClientAsks
  PROVE  FramingInv'
PROOF
<1>1. session = "open" /\ got["client"] = said["server"] /\ UNCHANGED proxy
  BY SidesFacts DEF ClientAsks, Answered
<1>2. AllGot(Other("client")) BY <1>1, SidesFacts DEF AllGot
<1>3. PICK len \in 1..MaxBody, one \in BOOLEAN : Sends("client", len, one) /\ turn' \in {"server", "none"}
  <2>1. 1 \in 1..MaxBody BY SizeFacts
  <2>2. CASE Sends("client", 1, TRUE) /\ turn' = "none" BY <2>1, <2>2
  <2>3. CASE /\ \E len \in 1..MaxBody : Sends("client", len, FALSE)
             /\ turn' \in {"server"} \cup {d \in {"client"} : "mute" \in Network}
    <3>1. turn' = "server" BY <2>3
    <3> QED BY <2>3, <3>1
  <2> QED BY <2>2, <2>3 DEF ClientAsks
<1> QED BY <1>1, <1>2, <1>3, SidesFacts, PeerKeeps

LEMMA ServerKeeps ==
  ASSUME FramingInv, ServerAnswers
  PROVE  FramingInv'
PROOF
<1>1. session = "open" /\ got["server"] = said["client"] /\ UNCHANGED proxy /\ turn = "server"
  BY SidesFacts DEF ServerAnswers, Answered
<1>2. AllGot(Other("server")) BY <1>1, SidesFacts DEF AllGot
<1>3. PICK len \in 1..MaxBody, one \in BOOLEAN : Sends("server", len, one) /\ turn' \in Sides
  <2>1. CASE \E len \in 1..MaxBody, one \in BOOLEAN : Sends("server", len, one) /\ UNCHANGED turn
    BY <1>1, <2>1, SidesFacts
  <2>2. CASE \E len \in 1..MaxBody : Sends("server", len, FALSE) /\ turn' = "client"
    BY <2>2, SidesFacts
  <2> QED BY <2>1, <2>2 DEF ServerAnswers
<1> QED BY <1>1, <1>2, <1>3, SidesFacts, PeerKeeps

LEMMA StutterKeeps ==
  ASSUME FramingInv, UNCHANGED vars
  PROVE  FramingInv'
PROOF
<1>1. /\ said' = said /\ turn' = turn /\ heard' = heard /\ got' = got /\ buffer' = buffer /\ fill' = fill
      /\ process' = process /\ body' = body /\ poll' = poll /\ loop' = loop /\ session' = session
  BY DEF vars, peers, proxy, frame
<1>2. TypeOK' BY <1>1 DEF FramingInv, TypeOK
<1>3. Streams' BY <1>1 DEF FramingInv, Streams, Packeted, Prefix
<1>4. Turns => Turns' BY <1>1 DEF Turns, AllGot
<1>5. Idle => Idle' BY <1>1 DEF Idle, AtEnd
<1>6. ASSUME NEW d \in Sides, Flow(d) PROVE Flow(d)'
  <2>1. Holds(d) => Holds(d)' BY <1>1 DEF Holds, Base, AllGot
  <2>2. Partial(d) => Partial(d)' BY <1>1 DEF Partial, Base
  <2>3. Whole(d) => Whole(d)' BY <1>1 DEF Whole, Base
  <2> QED BY <1>6, <2>1, <2>2, <2>3 DEF Flow
<1> QED BY <1>1, <1>2, <1>3, <1>4, <1>5, <1>6 DEF FramingInv

LEMMA NextInv ==
  ASSUME FramingInv, Network = {}, [Next]_vars
  PROVE  FramingInv'
PROOF
<1>1. \A n \in 1..Size : n \in Nat BY SizeFacts
<1>2. ASSUME NEW n \in 1..Size, ReceiveRequest(n) PROVE FramingInv' BY <1>1, <1>2, RequestKeeps
<1>3. ASSUME NEW n \in 1..Size, ReceiveAnswer(n) PROVE FramingInv' BY <1>1, <1>3, AnswerKeeps
<1>4. ASSUME NEW n \in 1..Size, SendAnswer(n) \/ SendRequest(n) PROVE FramingInv'
  BY <1>1, <1>4, SendKeeps
<1>5. ASSUME NEW d \in Sides, SendFails(d) PROVE FramingInv' BY <1>5, FailKeeps
<1>6. CASE ClientAsks BY <1>6, ClientKeeps
<1>7. CASE ServerAnswers BY <1>7, ServerKeeps
<1>8. CASE UNCHANGED vars BY <1>8, StutterKeeps
<1> QED BY <1>2, <1>3, <1>4, <1>5, <1>6, <1>7, <1>8 DEF Next, Proxy
-----------------------------------------------------------------------------
LEMMA InvHolds == Network = {} /\ Spec => []FramingInv
PROOF
<1> SUFFICES ASSUME Network = {} PROVE Spec => []FramingInv OBVIOUS
<1>1. Init => FramingInv BY InitInv
<1>2. FramingInv /\ [Next]_vars => FramingInv' BY NextInv
<1> QED BY <1>1, <1>2, PTL DEF Spec

(* Every length that is computed fits the buffer and the width of a packet.*)
THEOREM FramingTypes ==
  ASSUME Network = {}
  PROVE  Spec => []TypeOK
PROOF
<1>1. FramingInv => TypeOK BY DEF FramingInv
<1> QED BY <1>1, InvHolds, PTL

(* No handler sends beyond fill_len and no memmove() gets a negative       *)
(* length: on such a network the worker does not crash at comm.c:364, 498. *)
THEOREM NeverOverruns ==
  ASSUME Network = {}
  PROVE  Spec => []NoOverrun
PROOF
<1>1. ASSUME FramingInv PROVE NoOverrun
  <2>1. session # "lost" BY <1>1 DEF FramingInv
  <2>2. SUFFICES ASSUME session = "open", loop # "none" \/ \E d \in Sides : poll[d] = "out"
                 PROVE  Header + body <= fill
    BY <2>1 DEF NoOverrun
  <2>3. ~Idle BY <2>2, SidesFacts DEF Idle, Sides
  <2>4. PICK c \in Sides : Flow(c) BY <1>1, <2>2, <2>3 DEF FramingInv
  <2>5. ~Partial(c)
    <3>1. ASSUME Partial(c) PROVE FALSE
      <4>1. loop = "none" /\ poll[c] = "in" /\ poll[Other(c)] # "out" BY <3>1 DEF Partial
      <4> QED BY <2>2, <4>1, SidesFacts
    <3> QED BY <3>1
  <2> QED BY <2>4, <2>5 DEF Flow, Whole
<1> QED BY <1>1, InvHolds, PTL

(* recv() always has room: a full buffer is never taken for the end of a   *)
(* connection.                                                             *)
THEOREM RoomStays ==
  ASSUME Network = {}
  PROVE  Spec => []RoomLeft
PROOF
<1>1. ASSUME FramingInv PROVE RoomLeft
  <2>1. SUFFICES ASSUME NEW d \in Sides, session = "open", loop = "none", poll[d] = "in"
                 PROVE  fill < Size
    BY DEF RoomLeft, Handling
  <2>2. CASE Idle BY <2>2, SizeFacts DEF Idle
  <2>3. ASSUME NEW c \in Sides, Flow(c) PROVE fill < Size
    <3>1. ~Whole(c)
      <4>1. ASSUME Whole(c) PROVE FALSE
        <5>1. poll[c] = "err" /\ poll[Other(c)] = "out" BY <4>1 DEF Whole
        <5> QED BY <2>1, <5>1, SidesFacts
      <4> QED BY <4>1
    <3>2. fill < Header \/ fill < Header + body BY <2>3, <3>1 DEF Flow, Partial
    <3>3. fill \in 0..Size /\ body \in 0..MaxBody BY <1>1 DEF FramingInv, TypeOK
    <3> QED BY <3>2, <3>3, SizeFacts
  <2> QED BY <1>1, <2>1, <2>2, <2>3 DEF FramingInv
<1> QED BY <1>1, InvHolds, PTL

(* What a step does to what one side has sent and the other has got.       *)
LEMMA StepExtends ==
  ASSUME FramingInv, FramingInv', [Next]_vars, NEW d \in Sides
  PROVE  /\ Len(said[d]) <= Len(said'[d]) /\ \A k \in 1..Len(said[d]) : said'[d][k] = said[d][k]
         /\ Len(got[d]) <= Len(got'[d])
         /\ said' = said \/ got' = got
PROOF
<1>0. /\ said \in [Sides -> Seq(Cells)] /\ got \in [Sides -> Seq(Cells)]
      /\ \A c \in Sides : Len(said[c]) \in Nat /\ Len(got[c]) \in Nat
  <2>1. said \in [Sides -> Seq(Cells)] /\ got \in [Sides -> Seq(Cells)] BY DEF FramingInv, TypeOK
  <2>2. \A c \in Sides : said[c] \in Seq(Cells) /\ got[c] \in Seq(Cells) BY <2>1
  <2> QED BY <2>1, <2>2
<1>1. CASE UNCHANGED <<said, got>> BY <1>0, <1>1
<1>2. ASSUME NEW e \in Sides, NEW len \in 1..MaxBody, NEW one \in BOOLEAN, Sends(e, len, one), UNCHANGED proxy
      PROVE  /\ Len(said[d]) <= Len(said'[d]) /\ \A k \in 1..Len(said[d]) : said'[d][k] = said[d][k]
             /\ got' = got
  <2>1. /\ said' \in [Sides -> Seq(Cells)] /\ said'[Other(e)] = said[Other(e)]
        /\ Len(said'[e]) > Len(said[e]) /\ \A k \in 1..Len(said[e]) : said'[e][k] = said[e][k]
    BY <1>2, SendsOn
  <2>2. said'[d] \in Seq(Cells) BY <2>1
  <2>3. Len(said'[d]) \in Nat BY <2>2
  <2>4. Len(said[d]) \in Nat /\ got' = got BY <1>0, <1>2 DEF proxy
  <2>5. CASE d = e
    <3>1. Len(said'[d]) > Len(said[d]) /\ \A k \in 1..Len(said[d]) : said'[d][k] = said[d][k]
      BY <2>1, <2>5
    <3> QED BY <3>1, <2>3, <2>4
  <2>6. CASE d = Other(e)
    <3>1. said'[d] = said[d] BY <2>1, <2>6
    <3>2. Len(said[d]) <= Len(said[d]) BY <2>4
    <3> QED BY <3>1, <3>2, <2>4, Zenon
  <2> QED BY <2>5, <2>6, SidesFacts
<1>3. ASSUME NEW e \in Sides, NEW n \in Nat, Sending(e), Sent(e, n), UNCHANGED peers
      PROVE  Len(got[d]) <= Len(got'[d]) /\ said' = said
  <2>1. Other(e) \in Sides /\ Other(Other(e)) = e BY SidesFacts
  <2>2. Holds(Other(e)) /\ Whole(Other(e)) /\ Turns BY <1>3, <2>1, MaySend
  <2>3. Len(got'[e]) = Len(got[e]) + n /\ got'[Other(e)] = got[Other(e)]
    BY <1>3, <2>1, <2>2, SentOn
  <2>4. Len(got[d]) \in Nat /\ said' = said BY <1>0, <1>3 DEF peers
  <2>5. CASE d = e
    <3>1. Len(got'[d]) = Len(got[d]) + n BY <2>3, <2>5
    <3>2. Len(got[d]) <= Len(got[d]) + n BY <2>4
    <3> QED BY <3>1, <3>2, <2>4, Zenon
  <2>6. CASE d = Other(e)
    <3>1. got'[d] = got[d] BY <2>3, <2>6
    <3>2. Len(got[d]) <= Len(got[d]) BY <2>4
    <3> QED BY <3>1, <3>2, <2>4, Zenon
  <2> QED BY <2>5, <2>6, SidesFacts
<1>4. \A n \in 1..Size : n \in Nat BY SizeFacts
<1>5. ASSUME NEW n \in 1..Size, ReceiveRequest(n) \/ ReceiveAnswer(n) PROVE UNCHANGED <<said, got>>
  BY <1>5 DEF ReceiveRequest, ReceiveAnswer, peers
<1>6. ASSUME NEW e \in Sides, SendFails(e) PROVE UNCHANGED <<said, got>>
  BY <1>6 DEF SendFails, peers
<1>7. ASSUME NEW n \in 1..Size, SendAnswer(n) \/ SendRequest(n)
      PROVE  \E e \in Sides : Sending(e) /\ Sent(e, n) /\ UNCHANGED peers
  BY <1>7, SidesFacts DEF SendAnswer, SendRequest
<1>8. CASE ClientAsks
  <2>1. 1 \in 1..MaxBody BY SizeFacts
  <2>2. \E len \in 1..MaxBody, one \in BOOLEAN : Sends("client", len, one) /\ UNCHANGED proxy
    BY <1>8, <2>1 DEF ClientAsks
  <2> QED BY <2>2, <1>0, <1>2, SidesFacts
<1>9. CASE ServerAnswers
  <2>1. \E len \in 1..MaxBody, one \in BOOLEAN : Sends("server", len, one) /\ UNCHANGED proxy
    BY <1>9 DEF ServerAnswers
  <2> QED BY <2>1, <1>0, <1>2, SidesFacts
<1>10. ASSUME NEW n \in 1..Size, SendAnswer(n) \/ SendRequest(n)
       PROVE  Len(got[d]) <= Len(got'[d]) /\ said' = said
  BY <1>3, <1>4, <1>7, <1>10
<1>11. UNCHANGED vars => UNCHANGED <<said, got>> BY DEF vars, peers, proxy
<1> QED BY <1>0, <1>1, <1>5, <1>6, <1>8, <1>9, <1>10, <1>11 DEF Next, Proxy

(* Such a step is one of the relay from d to the other side, or none.      *)
LEMMA StepRelays ==
  ASSUME FramingInv, FramingInv', [Next]_vars, NEW d \in Sides,
         NEW e \in Sides, e = Other(d)
  PROVE  \/ UNCHANGED <<said[d], got[e]>>
         \/ /\ Len(said[d]) <= Len(said'[d]) /\ \A k \in 1..Len(said[d]) : said'[d][k] = said[d][k]
            /\ said'[d] # said[d] /\ got'[e] = got[e]
         \/ /\ Len(got[e]) <= Len(got'[e]) /\ \A k \in 1..Len(got[e]) : got'[e][k] = got[e][k]
            /\ Len(got'[e]) <= Len(said[d]) /\ \A k \in 1..Len(got'[e]) : said[d][k] = got'[e][k]
            /\ got'[e] # got[e] /\ said'[d] = said[d]
PROOF
<1>1. /\ Len(said[d]) <= Len(said'[d]) /\ \A k \in 1..Len(said[d]) : said'[d][k] = said[d][k]
      /\ Len(got[e]) <= Len(got'[e])
      /\ said' = said \/ got' = got
  BY StepExtends
<1>2. Prefix(d) /\ Prefix(d)' BY DEF FramingInv, Streams
<1>3. Len(got[e]) \in Nat /\ Len(got'[e]) \in Nat
  <2>1. got[e] \in Seq(Cells) BY DEF FramingInv, TypeOK
  <2>2. got'[e] \in Seq(Cells) BY DEF FramingInv, TypeOK
  <2> QED BY <2>1, <2>2
<1>4. CASE got' = got BY <1>1, <1>4
<1>5. CASE said' = said
  <2>1. \A k \in 1..Len(got[e]) : k \in 1..Len(got'[e]) BY <1>1, <1>3
  <2>2. \A k \in 1..Len(got[e]) : got'[e][k] = got[e][k] BY <2>1, <1>2, <1>5 DEF Prefix
  <2>3. Len(got'[e]) <= Len(said[d]) /\ \A k \in 1..Len(got'[e]) : said[d][k] = got'[e][k]
    BY <1>2, <1>5 DEF Prefix
  <2> QED BY <2>2, <2>3, <1>1, <1>5
<1> QED BY <1>1, <1>4, <1>5

(* Whatever the pieces in which it is received and sent, each side gets    *)
(* what the other has sent: the bridge implements two relays.              *)
THEOREM BridgeRelays ==
  ASSUME Network = {}
  PROVE  Spec => Relays
PROOF
<1>1. Init => Requests!Init /\ Answers!Init BY SidesFacts DEF Init, Requests!Init, Answers!Init
<1>2. FramingInv /\ FramingInv' /\ [Next]_vars => [Requests!Next]_<<said["client"], got["server"]>>
  BY SidesFacts, StepRelays
  DEF Requests!Next, Requests!Say, Requests!Pass, Requests!Extends
<1>3. FramingInv /\ FramingInv' /\ [Next]_vars => [Answers!Next]_<<said["server"], got["client"]>>
  BY SidesFacts, StepRelays
  DEF Answers!Next, Answers!Say, Answers!Pass, Answers!Extends
<1>4. Spec => []FramingInv BY InvHolds
<1> QED BY <1>1, <1>2, <1>3, <1>4, PTL DEF Spec, Relays, Requests!Spec, Answers!Spec
-----------------------------------------------------------------------------
(* Of the requests at most one packet is on its way, and a COM_QUIT ends   *)
(* the session by the time its fifth byte is there.                        *)
Outstanding(q, g) ==
  fill # Header /\ q[g + 1].at = 1 /\ Len(q) = g + Header + q[g + 1].len

NoQuit(q, h) == \A k \in 1..h : q[k].at = 5 => ~q[k].one

Calm ==
  /\ ~AllGot("client") => Outstanding(said["client"], Len(got["server"]))
  /\ NoQuit(said["client"], heard["client"])

QuitInv == FramingInv /\ QuitStays /\ (session = "open" => Calm)

LEMMA HeardBounds ==
  ASSUME FramingInv, session = "open"
  PROVE  /\ Len(got["server"]) \in Nat /\ heard["client"] \in Nat /\ Len(said["client"]) \in Nat
         /\ Len(got["server"]) <= heard["client"] /\ heard["client"] <= Len(said["client"])
         /\ \A k \in 1..Len(got["server"]) : said["client"][k] = got["server"][k]
PROOF
<1>1. Len(got["server"]) \in Nat /\ heard["client"] \in Nat /\ Len(said["client"]) \in Nat
  <2>1. got["server"] \in Seq(Cells) /\ said["client"] \in Seq(Cells) /\ heard["client"] \in Nat
    BY SidesFacts DEF FramingInv, TypeOK
  <2> QED BY <2>1
<1>2. /\ Len(got["server"]) <= Len(said["client"])
      /\ \A k \in 1..Len(got["server"]) : said["client"][k] = got["server"][k]
  BY SidesFacts DEF FramingInv, Streams, Prefix
<1>3. CASE heard["client"] = Len(got["server"]) BY <1>1, <1>2, <1>3
<1>4. CASE Idle BY <1>3, <1>4, SidesFacts DEF Idle
<1>5. CASE Flow("server") BY <1>3, <1>5, SidesFacts DEF Flow, Holds
<1>6. CASE Flow("client")
  <2> DEFINE G == Len(got["server"])
  <2>1. process <= fill
    <3>1. process \in Nat /\ fill \in Nat /\ body \in Nat BY SizeFacts DEF FramingInv, TypeOK
    <3>2. process = 0 \/ (process < Header + body /\ Header + body <= fill)
      BY <1>6 DEF Flow, Partial, Whole
    <3> QED BY <3>1, <3>2, SizeFacts
  <2>2. heard["client"] = (G - process) + fill /\ heard["client"] <= Len(said["client"])
    BY <1>6, SidesFacts DEF Flow, Holds, Base
  <2>3. process \in Nat /\ fill \in Nat BY SizeFacts DEF FramingInv, TypeOK
  <2>4. G \in Nat BY <1>1
  <2> HIDE DEF G
  <2>5. G <= heard["client"] BY <2>1, <2>2, <2>3, <2>4
  <2> QED BY <1>1, <1>2, <2>2, <2>5 DEF G
<1> QED BY <1>4, <1>5, <1>6 DEF FramingInv, Sides

(* What was received of the client holds no COM_QUIT, and so what its      *)
(* server has got.                                                         *)
LEMMA GotNoQuit ==
  ASSUME FramingInv, session = "open", Calm
  PROVE  QuitStays
PROOF
<1>1. /\ Len(got["server"]) \in Nat /\ heard["client"] \in Nat
      /\ Len(got["server"]) <= heard["client"]
      /\ \A k \in 1..Len(got["server"]) : said["client"][k] = got["server"][k]
  BY HeardBounds
<1>2. \A k \in 1..Len(got["server"]) : k \in 1..heard["client"] BY <1>1
<1>3. DOMAIN got["server"] = 1..Len(got["server"])
  <2>1. got["server"] \in Seq(Cells) BY SidesFacts DEF FramingInv, TypeOK
  <2> QED BY <2>1
<1> QED BY <1>1, <1>2, <1>3 DEF QuitStays, Calm, NoQuit

LEMMA InitQuit == Init => QuitInv
PROOF
<1> SUFFICES ASSUME Init PROVE QuitInv OBVIOUS
<1>1. FramingInv BY InitInv
<1>2. Calm BY SidesFacts DEF Init, Calm, AllGot, NoQuit
<1>3. QuitStays BY SidesFacts DEF Init, QuitStays
<1> QED BY <1>1, <1>2, <1>3 DEF QuitInv

(* A request is received.                                                  *)
LEMMA RequestCalm ==
  ASSUME QuitInv, FramingInv', Network = {}, NEW n \in Nat, ReceiveRequest(n)
  PROVE  QuitInv'
PROOF
<1> DEFINE b == Filled("client", n)
           q == said["client"]
           G == Len(got["server"])
<1>1. /\ session = "open" /\ loop = "none" /\ poll["client"] = "in"
      /\ Received("client", n) /\ Measured(n, b) /\ Unsplit(n, b)
      /\ UNCHANGED <<peers, got>>
      /\ ~(Measures(n) /\ fill + n = Header)
  BY DEF ReceiveRequest, Handling
<1>2. FramingInv /\ Calm /\ QuitStays BY <1>1 DEF QuitInv
<1>3. QuitStays' BY <1>1, <1>2 DEF QuitStays
<1>4. SUFFICES ASSUME session' = "open" PROVE Calm' BY <1>3 DEF QuitInv
<1>5. /\ process = 0 /\ fill' = fill + n /\ fill' \in 1..Size
      /\ heard'["client"] = G + fill' /\ heard'["client"] <= Len(q)
      /\ \A k \in 1..fill' : b[k] = q[G + k]
      /\ q[G + 1].at = 1
  <2>1. "client" \in Sides /\ Other("client") = "server" BY SidesFacts
  <2>2. /\ process = 0 /\ fill' = fill + n /\ fill' \in 1..Size
        /\ heard'["client"] = Len(got[Other("client")]) + fill'
        /\ heard'["client"] <= Len(said["client"])
        /\ \A k \in 1..fill' : Filled("client", n)[k] = said["client"][Len(got[Other("client")]) + k]
        /\ said["client"][Len(got[Other("client")]) + 1].at = 1
    BY <1>1, <1>2, <2>1, Heard
  <2> QED BY <2>1, <2>2
<1>6. /\ G \in Nat /\ heard["client"] \in Nat /\ Len(q) \in Nat
      /\ G <= heard["client"] /\ heard["client"] <= Len(q)
  BY <1>1, <1>2, HeardBounds
<1>7. n >= 1 /\ heard["client"] < Len(q) BY <1>1, <1>6 DEF Received
<1>8. fill \in Nat /\ body \in Nat /\ Size \in Nat BY <1>2, SizeFacts DEF FramingInv, TypeOK
<1>9. heard["client"] = G + fill /\ (body = 0 \/ Header <= fill)
  <2>1. Len(said["client"]) > heard["client"] BY <1>6, <1>7
  <2> QED BY <1>1, <1>2, <2>1, SidesFacts, MayHear
<1>10. ~AllGot("client")
  <2>1. AllGot("client") => Len(q) = G BY SidesFacts DEF AllGot
  <2> HIDE DEF q, G
  <2> QED BY <2>1, <1>6, <1>7
<1>11. Outstanding(q, G) /\ NoQuit(q, heard["client"]) BY <1>2, <1>10 DEF Calm
<1>12. said'["client"] = q /\ Len(got'["server"]) = G BY <1>1 DEF peers
<1>13. q \in Seq(Cells) /\ Packeted(q) BY <1>2, SidesFacts DEF FramingInv, TypeOK, Streams
<1> HIDE DEF b, q, G
<1>14. fill' # Header
  <2>1. ASSUME fill + n = 4 PROVE FALSE
    <3>1. body # 0 BY <1>1, <2>1, SizeFacts DEF Measures
    <3>2. 4 <= fill BY <1>9, <3>1, SizeFacts
    <3> QED BY <3>2, <2>1, <1>7, <1>8
  <2> QED BY <2>1, <1>5, SizeFacts
<1> DEFINE F == fill + n
<1>141. /\ F = fill' /\ F \in Nat /\ F = fill + n /\ G + F <= Len(q)
        /\ \A k \in 1..F : b[k] = q[G + k]
  BY <1>5, <1>8
<1> HIDE DEF F
<1>15. ASSUME NEW k \in 1..(G + F), q[k].at = 5, q[k].one PROVE FALSE
  <2>1. CASE k <= heard["client"]
    <3>1. k \in 1..heard["client"] BY <2>1, <1>6, <1>8, <1>141
    <3> QED BY <3>1, <1>11, <1>15 DEF NoQuit
  <2>2. CASE ~(k <= heard["client"])
    <3> DEFINE j == k - G
               c == q[G + 1]
    <3>1. F \in Nat BY <1>141
    <3>2. j \in 1..F /\ G + j = k /\ fill < j
      <4>1. k \in Nat /\ k <= G + F
        <5>1. G + F \in Nat BY <3>1, <1>6
        <5> QED BY <5>1
      <4>2. k > G + fill BY <4>1, <2>2, <1>6, <1>9
      <4> QED BY <4>1, <4>2, <3>1, <1>6, <1>8
    <3>3. G + 1 \in 1..Len(q) BY <1>6, <1>7
    <3>4. c \in Cells BY <3>3, <1>13
    <3>5. c.len \in Nat /\ Header \in Nat BY <3>4, SizeFacts DEF Cells
    <3>6. j \in 1..(Header + c.len)
      <4>1. Len(q) = G + Header + c.len BY <1>11 DEF Outstanding
      <4>2. G + F <= Len(q) BY <1>141
      <4> HIDE DEF c, j
      <4> QED BY <4>1, <4>2, <3>1, <3>2, <3>5, <1>6
    <3>7. q[G + 1 + j - 1] = Cell(c, j) BY <3>3, <3>6, <1>5, <1>13, HeadPacket
    <3>8. G + 1 + j - 1 = k BY <3>2, <1>6
    <3>9. j = 5 BY <3>7, <3>8, <1>15, CellFields
    <3>10. fill < 4 /\ fill + n >= 5
      <4>1. fill # 4 BY <1>11, SizeFacts DEF Outstanding
      <4>2. fill + n >= 5 BY <3>2, <3>9, <1>141
      <4>3. fill < 5 BY <3>2, <3>9
      <4> QED BY <4>1, <4>2, <4>3, <1>8
    <3>11. Measures(n) BY <3>10, <1>8, <1>9, SizeFacts DEF Measures
    <3>12. b[5] = q[k]
      <4>1. 5 \in 1..F /\ G + 5 = k BY <3>2, <3>9
      <4> QED BY <4>1, <1>141
    <3>13. Ones(b) = {TRUE}
      <4>1. Ones(b) = {b[5].one} BY <3>12, <1>15 DEF Ones
      <4>2. q[k] \in Cells
        <5>1. k \in 1..Len(q) BY <1>141, <1>6, <3>1
        <5> QED BY <5>1, <1>13
      <4>3. q[k].one \in BOOLEAN BY <4>2, Zenon DEF Cells
      <4>4. q[k].one = TRUE BY <4>3, <1>15, Zenon
      <4> QED BY <4>1, <4>4, <3>12, Zenon
    <3>14. Quits(n, b) /\ FALSE \notin Ones(b)
      <4>1. TRUE # FALSE OBVIOUS
      <4>2. TRUE \in Ones(b) /\ FALSE \notin Ones(b) BY <3>13, <4>1, Zenon
      <4> QED BY <4>2, <3>11, Zenon DEF Quits
    <3>15. Close BY <3>14, Zenon DEF ReceiveRequest, b
    <3> QED BY <3>15, <1>4 DEF Close
  <2> QED BY <2>1, <2>2
<1>16. Outstanding(q, G)' /\ NoQuit(q, heard["client"])'
  <2>1. NoQuit(q, G + fill') BY <1>15, <1>141, Zenon DEF NoQuit
  <2>2. q' = q /\ G' = G BY <1>12 DEF q, G
  <2> QED BY <2>1, <2>2, <1>5, <1>11, <1>14 DEF Outstanding, NoQuit
<1> QED BY <1>16 DEF Calm, q, G

(* A request is sent: all of it.                                           *)
LEMMA SendCalm ==
  ASSUME QuitInv, FramingInv', Network = {}, NEW n \in Nat, SendRequest(n)
  PROVE  QuitInv'
PROOF
<1>1. Sending(Other("client")) /\ Sent(Other("client"), n) /\ n = Unsent /\ UNCHANGED <<peers, heard>>
  BY SidesFacts DEF SendRequest
<1>2. FramingInv /\ (session = "open" => Calm) BY DEF QuitInv
<1>3. session = "open" /\ Holds("client") /\ Whole("client") /\ Turns
  BY <1>1, <1>2, SidesFacts, MaySend
<1>4. Len(got'["server"]) = Len(got["server"]) + n BY <1>1, <1>2, <1>3, SidesFacts, SentOn
<1> DEFINE G == Len(got["server"])
           q == said["client"]
<1>5. /\ G \in Nat /\ Base("client") + process = G /\ process \in Nat /\ body \in Nat
      /\ Header \in Nat /\ Unsent = Header + body - process /\ ~AllGot("client")
      /\ Base("client") \in Nat
  BY <1>2, <1>3, SidesFacts, SendSizes
<1>6. process = 0 /\ body = q[Base("client") + 1].len BY <1>3 DEF Whole
<1>7. Outstanding(q, G) /\ NoQuit(q, heard["client"]) BY <1>2, <1>3, <1>5 DEF Calm
<1>8. said'["client"] = q /\ heard' = heard BY <1>1 DEF peers
<1> HIDE DEF G, q
<1>9. Base("client") = G BY <1>5, <1>6
<1>10. Len(q) = G + n
  <2>1. Len(q) = G + Header + body BY <1>6, <1>7, <1>9 DEF Outstanding
  <2>2. n = Header + body - process BY <1>1, <1>5
  <2>3. n = Header + body BY <2>2, <1>5, <1>6
  <2> QED BY <2>1, <2>3, <1>5
<1>11. AllGot("client")' BY <1>4, <1>8, <1>10, SidesFacts DEF AllGot, G
<1>12. Calm' BY <1>7, <1>8, <1>11 DEF Calm, NoQuit, q
<1>13. session' = "open"
  <2>1. session' \in {"open", "lost"} BY <1>3 DEF SendRequest, Again
  <2> QED BY <2>1 DEF FramingInv
<1>14. QuitStays'
  <2>1. (FramingInv /\ session = "open" /\ Calm => QuitStays)' BY GotNoQuit, PTL
  <2> QED BY <2>1, <1>12, <1>13
<1> QED BY <1>12, <1>13, <1>14 DEF QuitInv

(* The client sends a request when the server has all of the ones before.  *)
LEMMA AskCalm ==
  ASSUME QuitInv, Network = {}, FramingInv', ClientAsks
  PROVE  QuitInv'
PROOF
<1>1. session = "open" /\ turn = "client" /\ UNCHANGED proxy BY DEF ClientAsks
<1>2. FramingInv /\ Calm /\ QuitStays BY <1>1 DEF QuitInv
<1>3. heard' = heard /\ got' = got /\ fill' = fill BY <1>1 DEF proxy, frame
<1>4. QuitStays' BY <1>2, <1>3 DEF QuitStays
<1> DEFINE G == Len(got["server"])
           q == said["client"]
           r == said'["client"]
<1>5. AllGot("client") BY <1>1, <1>2 DEF FramingInv, Turns
<1>6. AllGot("server")
  <2>1. got["client"] = said["server"] BY SidesFacts DEF ClientAsks, Answered
  <2> QED BY <2>1, SidesFacts DEF AllGot
<1>7. fill = 0
  <2>1. \A d \in Sides : ~Flow(d) BY <1>2, <1>5, <1>6, NotAllGot DEF Sides
  <2> QED BY <1>1, <1>2, <2>1 DEF FramingInv, Idle
<1>8. PICK len \in 1..MaxBody, one \in BOOLEAN : Sends("client", len, one)
  <2>1. 1 \in 1..MaxBody BY SizeFacts
  <2> QED BY <2>1 DEF ClientAsks
<1> DEFINE no == IF q = <<>> THEN 1 ELSE q[Len(q)].no + 1
           p == [of |-> "client", no |-> no, len |-> len, one |-> one]
<1>9. said \in [Sides -> Seq(Cells)] /\ q \in Seq(Cells) /\ Packeted(q) /\ Len(q) = G /\ G \in Nat
  <2>1. said \in [Sides -> Seq(Cells)] BY <1>2 DEF FramingInv, TypeOK
  <2>2. q \in Seq(Cells) /\ Packeted(q) BY <2>1, <1>2, SidesFacts DEF FramingInv, Streams
  <2>3. Len(q) = G BY <1>5, SidesFacts DEF AllGot
  <2>4. Len(q) \in Nat BY <2>2
  <2> QED BY <2>1, <2>2, <2>3, <2>4
<1>10. no \in Nat
  <2>1. CASE q = <<>> BY <2>1
  <2>2. CASE q # <<>>
    <3>1. Len(q) \in 1..Len(q) BY <1>9, <2>2
    <3>2. q[Len(q)] \in Cells BY <1>9, <3>1
    <3> QED BY <2>2, <3>2 DEF Cells
  <2> QED BY <2>1, <2>2
<1>11. r = q \o Bytes(p) BY <1>8, <1>9, SidesFacts DEF Sends
<1> HIDE DEF no
<1>12. p \in Packets /\ p.len \in Nat /\ Header \in Nat /\ Header >= 1
  BY <1>10, SidesFacts, SizeFacts DEF Packets
<1> HIDE DEF p, q, G, r
<1>13. /\ Len(r) = G + Header + p.len /\ \A k \in 1..G : r[k] = q[k]
  BY <1>9, <1>11, <1>12, PacketedAppend
<1>14. r[G + 1] = Cell(p, 1)
  <2> DEFINE s == Bytes(p)
  <2>1. s \in Seq(Cells) /\ Len(s) = Header + p.len /\ s[1] = Cell(p, 1)
    <3>1. 1 \in 1..(Header + p.len) BY <1>12
    <3> QED BY <3>1, <1>12, BytesType
  <2> HIDE DEF s
  <2>2. \A i \in 1..Len(q) + Len(s) : (q \o s)[i] = IF i <= Len(q) THEN q[i] ELSE s[i - Len(q)]
    BY <1>9, <2>1, ConcatProperties
  <2>3. G + 1 \in 1..Len(q) + Len(s) /\ ~(G + 1 <= Len(q)) /\ (G + 1) - Len(q) = 1
    BY <1>9, <1>12, <2>1
  <2>4. (q \o s)[G + 1] = s[1] BY <2>2, <2>3
  <2> QED BY <2>1, <2>4, <1>11 DEF s
<1>15. fill' # Header /\ r[G + 1].at = 1 /\ Len(r) = G + Header + r[G + 1].len
  <2>1. r[G + 1].at = 1 /\ r[G + 1].len = p.len BY <1>14, CellFields
  <2> QED BY <2>1, <1>3, <1>7, <1>13, SizeFacts
<1>16. NoQuit(r, heard["client"])
  <2>1. NoQuit(q, heard["client"]) BY <1>2 DEF Calm, q
  <2>2. heard["client"] \in Nat /\ heard["client"] <= G BY <1>1, <1>2, <1>9, HeardBounds DEF q
  <2>3. \A k \in 1..heard["client"] : k \in 1..G BY <2>2, <1>9
  <2> QED BY <2>1, <2>3, <1>13 DEF NoQuit
<1>17. Calm'
  <2>1. /\ Outstanding(said["client"], Len(got["server"]))'
        /\ NoQuit(said["client"], heard["client"])'
    BY <1>3, <1>15, <1>16 DEF NoQuit, Outstanding, r, G
  <2> QED BY <2>1 DEF Calm
<1> QED BY <1>4, <1>17 DEF QuitInv

(* Every other step leaves what it is about as it is.                      *)
LEMMA OthersCalm ==
  ASSUME QuitInv, FramingInv',
         said'["client"] = said["client"], got'["server"] = got["server"],
         session' = "open" => session = "open" /\ heard'["client"] = heard["client"],
         session' = "open" => fill' = fill \/ AllGot("client")
  PROVE  QuitInv'
PROOF
<1>1. QuitStays' BY DEF QuitInv, QuitStays
<1>2. AllGot("client")' <=> AllGot("client") BY SidesFacts DEF AllGot
<1>3. ASSUME session' = "open" PROVE Calm'
  <2>1. Calm BY <1>3 DEF QuitInv
  <2> QED BY <1>2, <1>3, <2>1 DEF Calm, NoQuit, Outstanding
<1> QED BY <1>1, <1>3 DEF QuitInv

LEMMA NextQuit ==
  ASSUME QuitInv, Network = {}, [Next]_vars
  PROVE  QuitInv'
PROOF
<1>1. FramingInv /\ FramingInv' BY NextInv DEF QuitInv
<1>2. \A n \in 1..Size : n \in Nat BY SizeFacts
<1>3. ASSUME NEW n \in 1..Size, ReceiveRequest(n) PROVE QuitInv' BY <1>1, <1>2, <1>3, RequestCalm
<1>4. ASSUME NEW n \in 1..Size, SendRequest(n) PROVE QuitInv' BY <1>1, <1>2, <1>4, SendCalm
<1>5. CASE ClientAsks BY <1>1, <1>5, AskCalm
<1>6. ASSUME NEW n \in 1..Size, ReceiveAnswer(n) PROVE QuitInv'
  <2>1. /\ session = "open" /\ loop = "none" /\ poll["server"] = "in" /\ Received("server", n)
        /\ said' = said /\ got' = got /\ session' = session
    BY <1>6 DEF ReceiveAnswer, Handling, peers
  <2>2. heard' = [heard EXCEPT !["server"] = @ + n] /\ n \in 1..(Len(said["server"]) - heard["server"])
    BY <2>1 DEF Received
  <2>3. heard'["client"] = heard["client"] BY <1>1, <2>2, SidesFacts DEF FramingInv, TypeOK
  <2>4. Len(said["server"]) > heard["server"]
    <3>1. Len(said["server"]) \in Nat /\ heard["server"] \in Nat
      <4>1. said["server"] \in Seq(Cells) /\ heard["server"] \in Nat
        BY <1>1, SidesFacts DEF FramingInv, TypeOK
      <4> QED BY <4>1
    <3> QED BY <3>1, <2>2
  <2>5. AllGot("client") BY <1>1, <2>1, <2>4, SidesFacts, MayHear
  <2> QED BY <1>1, <2>1, <2>3, <2>5, OthersCalm
<1>7. ASSUME NEW n \in 1..Size, SendAnswer(n) PROVE QuitInv'
  <2>1. Sending(Other("server")) /\ Sent(Other("server"), n) /\ UNCHANGED <<peers, heard>>
    BY <1>7, SidesFacts DEF SendAnswer
  <2>2. session = "open" /\ Holds("server") /\ Whole("server") /\ Turns
    BY <1>1, <2>1, SidesFacts, MaySend
  <2>3. got'["server"] = got["server"] BY <1>1, <1>2, <2>1, <2>2, SidesFacts, SentOn
  <2>4. AllGot("client") BY <2>2, SidesFacts DEF Holds
  <2> QED BY <1>1, <2>1, <2>2, <2>3, <2>4, OthersCalm DEF peers
<1>8. ASSUME NEW d \in Sides, SendFails(d) PROVE QuitInv'
  <2>1. said' = said /\ got' = got /\ session' = "closed" BY <1>8 DEF SendFails, Close, peers
  <2> QED BY <1>1, <2>1, OthersCalm
<1>9. CASE ServerAnswers
  <2>1. \E len \in 1..MaxBody, one \in BOOLEAN : Sends("server", len, one)
    BY <1>9 DEF ServerAnswers
  <2>2. UNCHANGED proxy BY <1>9 DEF ServerAnswers
  <2>3. said'["client"] = said["client"] BY <1>1, <2>1, <2>2, SidesFacts, SendsOn
  <2> QED BY <1>1, <2>2, <2>3, OthersCalm DEF proxy, frame
<1>10. CASE UNCHANGED vars
  BY <1>1, <1>10, OthersCalm DEF vars, peers, proxy, frame
<1> QED BY <1>3, <1>4, <1>5, <1>6, <1>7, <1>8, <1>9, <1>10 DEF Next, Proxy

(* No server gets a COM_QUIT, and so a connection in the pool stays usable.*)
THEOREM QuitNeverPasses ==
  ASSUME Network = {}
  PROVE  Spec => []QuitStays
PROOF
<1>1. Init => QuitInv BY InitQuit
<1>2. QuitInv /\ [Next]_vars => QuitInv' BY NextQuit
<1>3. QuitInv => QuitStays BY DEF QuitInv
<1> QED BY <1>1, <1>2, <1>3, PTL DEF Spec
=============================================================================
