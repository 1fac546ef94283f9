------------------------ MODULE Sessions_pairs_proofs ------------------------
(***************************************************************************)
(* No client shares a server session with another, and none is lost, until *)
(* a session has strayed: InWorkOrPooled and RightGroup of Sessions.       *)
(*                                                                         *)
(* The invariant that carries this is Paired: the session of a client is   *)
(* in work, points back to the client and is of the group the client has   *)
(* selected (Bound); a session in work is polled and is that of the client *)
(* it points to (Used); a pooled one is not polled and is in the pool of   *)
(* its server, once (Stored).  Its operands are parameters, since the      *)
(* handler of "select library" goes through a state in between, in which   *)
(* the old session of the client is in the pool and the new one is not yet *)
(* looked for.                                                             *)
(***************************************************************************)
EXTENDS Sessions_proofs

Bound(cl, ses) ==
  \A c \in Clients : cl[c].pair # None =>
     /\ ses[cl[c].pair].list = "work" /\ ses[cl[c].pair].owner = c
     /\ cl[c].status \in {"selected", "forward"}
     /\ InstanceOf(ses[cl[c].pair].server) = cl[c].chosen

Used(cl, ses) ==
  \A s \in Sessions : ses[s].list = "work" =>
     ses[s].poll # "none" /\ cl[ses[s].owner].pair = s

Stored(ses, p) ==
  /\ \A s \in Sessions : ses[s].list = "pool" =>
       ses[s].poll = "none" /\ \E k \in DOMAIN p[ses[s].server] : p[ses[s].server][k] = s
  /\ \A v \in Servers : \A k \in DOMAIN p[v] :
       /\ ses[p[v][k]].list = "pool" /\ ses[p[v][k]].server = v
       /\ \A j \in DOMAIN p[v] : p[v][j] = p[v][k] => j = k

Paired(cl, ses, p) == Bound(cl, ses) /\ Used(cl, ses) /\ Stored(ses, p)

(* Only a client that may send something has sent something.               *)
Wired == \A c \in Clients : client[c].wire # <<>> => client[c].status \in {"auth", "select", "forward"}

PairInv == "pair" \notin strayed => Paired(client, session, pool)

(* What the handlers leave of the state: types, and where sessions point.  *)
Fit(cl, ses, p) ==
  /\ \A c \in Clients : cl[c].pair \in Sessions \cup {None}
  /\ \A s \in Sessions : /\ ses[s].list # "free" => ses[s].owner \in Clients /\ ses[s].server \in Servers
                         /\ ses[s].list \in {"free", "work", "pool"}
  /\ p \in [Servers -> Seq(Sessions)]

(* The same connections in the same places, polled or not as before.       *)
SameUse(a, b) ==
  \A r \in Sessions :
    /\ b[r].list = a[r].list /\ b[r].server = a[r].server /\ b[r].owner = a[r].owner
    /\ b[r].poll = "none" <=> a[r].poll = "none"

(* Clients keep their sessions, and stay bridged.                          *)
SamePairs(cl, ses, cl2) ==
  \A c \in Clients :
    /\ cl2[c].pair = cl[c].pair
    /\ cl[c].pair # None => /\ cl2[c].status \in {"selected", "forward"}
                            /\ InstanceOf(ses[cl[c].pair].server) = cl2[c].chosen

(* One client, one session, one pool may change.                           *)
OtherClients(c, cl, cl2) == \A d \in Clients \ {c} : cl2[d] = cl[d]

OtherSessions(s, ses, ses2) ==
  \A r \in Sessions \ {s} :
    /\ ses2[r].list = ses[r].list /\ ses2[r].server = ses[r].server
    /\ ses2[r].owner = ses[r].owner /\ ses2[r].poll = ses[r].poll

OtherPools(v, p, p2) == \A w \in Servers \ {v} : p2[w] = p[w]

(* The client c has the session s, which belongs to a server of the group. *)
Gets(c, i, s, cl) ==
  cl[c].pair = s /\ cl[c].status \in {"selected", "forward"} /\ cl[c].chosen = i

LEMMA PairedKeeps ==
  ASSUME NEW cl, NEW ses, NEW p, Paired(cl, ses, p), Fit(cl, ses, p),
         NEW cl2, NEW ses2, SamePairs(cl, ses, cl2), SameUse(ses, ses2)
  PROVE  Paired(cl2, ses2, p)
PROOF
<1>1. Bound(cl2, ses2)
  <2> SUFFICES ASSUME NEW c \in Clients, cl2[c].pair # None
               PROVE  /\ ses2[cl2[c].pair].list = "work" /\ ses2[cl2[c].pair].owner = c
                      /\ cl2[c].status \in {"selected", "forward"}
                      /\ InstanceOf(ses2[cl2[c].pair].server) = cl2[c].chosen
    BY DEF Bound
  <2>1. cl2[c].pair = cl[c].pair /\ cl[c].pair \in Sessions BY DEF SamePairs, Fit
  <2>2. ses[cl[c].pair].list = "work" /\ ses[cl[c].pair].owner = c
    BY <2>1 DEF Paired, Bound
  <2>3. cl2[c].status \in {"selected", "forward"} /\ InstanceOf(ses[cl[c].pair].server) = cl2[c].chosen
    BY <2>1 DEF SamePairs
  <2> QED BY <2>1, <2>2, <2>3 DEF SameUse
<1>2. Used(cl2, ses2)
  <2> SUFFICES ASSUME NEW s \in Sessions, ses2[s].list = "work"
               PROVE  ses2[s].poll # "none" /\ cl2[ses2[s].owner].pair = s
    BY DEF Used
  <2>1. ses[s].list = "work" /\ ses2[s].owner = ses[s].owner /\ ses[s].owner \in Clients
    BY DEF SameUse, Fit
  <2>2. ses[s].poll # "none" /\ cl[ses[s].owner].pair = s BY <2>1 DEF Paired, Used
  <2> QED BY <2>1, <2>2 DEF SameUse, SamePairs
<1>3. Stored(ses2, p)
  <2>1. ASSUME NEW s \in Sessions, ses2[s].list = "pool"
        PROVE  ses2[s].poll = "none" /\ \E k \in DOMAIN p[ses2[s].server] : p[ses2[s].server][k] = s
    <3>1. ses[s].list = "pool" /\ ses2[s].server = ses[s].server BY <2>1 DEF SameUse
    <3>2. ses[s].poll = "none" /\ \E k \in DOMAIN p[ses[s].server] : p[ses[s].server][k] = s
      BY <3>1 DEF Paired, Stored
    <3> QED BY <3>1, <3>2 DEF SameUse
  <2>2. ASSUME NEW v \in Servers, NEW k \in DOMAIN p[v]
        PROVE  /\ ses2[p[v][k]].list = "pool" /\ ses2[p[v][k]].server = v
               /\ \A j \in DOMAIN p[v] : p[v][j] = p[v][k] => j = k
    <3>1. p[v][k] \in Sessions
      <4>1. p[v] \in Seq(Sessions) BY DEF Fit
      <4> QED BY <4>1, ElementOfSeq, LenProperties
    <3> QED BY <3>1 DEF Paired, Stored, SameUse
  <2> QED BY <2>1, <2>2 DEF Stored
<1> QED BY <1>1, <1>2, <1>3 DEF Paired

(* A client gives its session to the pool of its server.                   *)
LEMMA PairedReleases ==
  ASSUME NEW cl, NEW ses, NEW p, Paired(cl, ses, p), Fit(cl, ses, p),
         NEW c \in Clients, NEW s \in Sessions, cl[c].pair = s,
         NEW cl2, cl2[c].pair = None, OtherClients(c, cl, cl2),
         NEW ses2, ses2[s].list = "pool", ses2[s].poll = "none", ses2[s].server = ses[s].server,
         OtherSessions(s, ses, ses2),
         NEW p2, p2[ses[s].server] = Append(p[ses[s].server], s), OtherPools(ses[s].server, p, p2)
  PROVE  Paired(cl2, ses2, p2)
PROOF
<1>10. /\ \A d \in Clients \ {c} : cl2[d] = cl[d]
       /\ \A r \in Sessions \ {s} :
            /\ ses2[r].list = ses[r].list /\ ses2[r].server = ses[r].server
            /\ ses2[r].owner = ses[r].owner /\ ses2[r].poll = ses[r].poll
       /\ \A v \in Servers \ {ses[s].server} : p2[v] = p[v]
  BY DEF OtherClients, OtherSessions, OtherPools
<1> USE <1>10
<1> DEFINE w == ses[s].server
<1>0. /\ s # None /\ ses[s].list = "work" /\ ses[s].owner = c /\ w \in Servers
      /\ p[w] \in Seq(Sessions)
  BY SessionsAssumption DEF Paired, Bound, Fit
<1>1. Bound(cl2, ses2)
  <2> SUFFICES ASSUME NEW d \in Clients, cl2[d].pair # None
               PROVE  /\ ses2[cl2[d].pair].list = "work" /\ ses2[cl2[d].pair].owner = d
                      /\ cl2[d].status \in {"selected", "forward"}
                      /\ InstanceOf(ses2[cl2[d].pair].server) = cl2[d].chosen
    BY DEF Bound
  <2>1. d # c /\ cl2[d] = cl[d] /\ cl[d].pair \in Sessions BY DEF Fit
  <2>2. /\ ses[cl[d].pair].list = "work" /\ ses[cl[d].pair].owner = d
        /\ cl[d].status \in {"selected", "forward"}
        /\ InstanceOf(ses[cl[d].pair].server) = cl[d].chosen
    BY <2>1 DEF Paired, Bound
  <2>3. cl[d].pair # s BY <1>0, <2>1, <2>2
  <2> QED BY <2>1, <2>2, <2>3
<1>2. Used(cl2, ses2)
  <2> SUFFICES ASSUME NEW r \in Sessions, ses2[r].list = "work"
               PROVE  ses2[r].poll # "none" /\ cl2[ses2[r].owner].pair = r
    BY DEF Used
  <2>1. r # s OBVIOUS
  <2>2. ses[r].list = "work" /\ ses2[r].owner = ses[r].owner /\ ses2[r].poll = ses[r].poll BY <2>1
  <2>3. ses[r].owner \in Clients BY <2>2 DEF Fit
  <2>4. ses[r].poll # "none" /\ cl[ses[r].owner].pair = r BY <2>2 DEF Paired, Used
  <2>5. ses[r].owner # c BY <2>1, <2>4
  <2> QED BY <2>2, <2>3, <2>4, <2>5
<1>3. Stored(ses2, p2)
  <2>0. /\ DOMAIN p[w] = 1..Len(p[w]) /\ Len(p[w]) \in Nat
        /\ DOMAIN p2[w] = 1..(Len(p[w]) + 1)
        /\ \A k \in 1..Len(p[w]) : p2[w][k] = p[w][k]
        /\ p2[w][Len(p[w]) + 1] = s
    <3> HIDE DEF w
    <3>1. p2[w] = Append(p[w], s) BY DEF w
    <3>2. p[w] \in Seq(Sessions) BY <1>0
    <3> QED BY <3>1, <3>2, LenProperties, AppendProperties
  <2> HIDE DEF w
  <2>1. ASSUME NEW r \in Sessions, ses2[r].list = "pool"
        PROVE  ses2[r].poll = "none" /\ \E k \in DOMAIN p2[ses2[r].server] : p2[ses2[r].server][k] = r
    <3>1. CASE r = s
      <4>1. ses2[r].server = w /\ ses2[r].poll = "none" BY <3>1 DEF w
      <4>2. Len(p[w]) + 1 \in DOMAIN p2[w] BY <2>0
      <4> QED BY <3>1, <4>1, <4>2, <2>0
    <3>2. CASE r # s
      <4>1. ses[r].list = "pool" /\ ses2[r].poll = ses[r].poll /\ ses2[r].server = ses[r].server
        BY <2>1, <3>2
      <4> DEFINE x == ses[r].server
      <4>2. ses[r].poll = "none" /\ x \in Servers /\ \E k \in DOMAIN p[x] : p[x][k] = r
        BY <4>1 DEF Paired, Stored, Fit
      <4> HIDE DEF x
      <4>3. \E k \in DOMAIN p2[x] : p2[x][k] = r
        <5>1. CASE x = w
          <6>1. PICK k \in 1..Len(p[w]) : p[w][k] = r BY <4>2, <5>1, <2>0
          <6>2. k \in 1..(Len(p[w]) + 1) BY <2>0
          <6> QED BY <6>1, <6>2, <5>1, <2>0
        <5>2. CASE x # w
          <6>1. p2[x] = p[x] BY <5>2, <4>2 DEF w
          <6> QED BY <6>1, <4>2
        <5> QED BY <5>1, <5>2
      <4> QED BY <4>1, <4>2, <4>3 DEF x
    <3> QED BY <3>1, <3>2
  <2>2. ASSUME NEW v \in Servers, NEW k \in DOMAIN p[v]
        PROVE  /\ p[v][k] \in Sessions \ {s}
               /\ ses2[p[v][k]].list = "pool" /\ ses2[p[v][k]].server = v
               /\ \A j \in DOMAIN p[v] : p[v][j] = p[v][k] => j = k
    <3>1. p[v][k] \in Sessions
      <4>1. p[v] \in Seq(Sessions) BY DEF Fit
      <4> QED BY <4>1, ElementOfSeq, LenProperties
    <3>2. /\ ses[p[v][k]].list = "pool" /\ ses[p[v][k]].server = v
          /\ \A j \in DOMAIN p[v] : p[v][j] = p[v][k] => j = k
      BY DEF Paired, Stored
    <3>3. p[v][k] # s BY <3>2, <1>0
    <3> QED BY <3>1, <3>2, <3>3
  <2>3. ASSUME NEW v \in Servers, NEW k \in DOMAIN p2[v]
        PROVE  /\ ses2[p2[v][k]].list = "pool" /\ ses2[p2[v][k]].server = v
               /\ \A j \in DOMAIN p2[v] : p2[v][j] = p2[v][k] => j = k
    <3>1. CASE v # w
      <4>1. p2[v] = p[v] BY <3>1 DEF w
      <4> QED BY <4>1, <2>2
    <3>2. CASE v = w /\ k \in 1..Len(p[w])
      <4>1. p2[w][k] = p[w][k] /\ k \in DOMAIN p[w] /\ p[w][k] # s BY <3>2, <2>0, <2>2
      <4>2. ASSUME NEW j \in DOMAIN p2[w], p2[w][j] = p2[w][k] PROVE j = k
        <5>1. j # Len(p[w]) + 1 BY <4>1, <4>2, <2>0
        <5>2. j \in 1..Len(p[w]) BY <5>1, <2>0
        <5>3. p[w][j] = p[w][k] /\ j \in DOMAIN p[w] BY <5>2, <4>1, <4>2, <2>0
        <5> QED BY <5>3, <4>1, <2>2, <1>0
      <4> QED BY <3>2, <4>1, <4>2, <2>2
    <3>3. CASE v = w /\ k = Len(p[w]) + 1
      <4>1. p2[w][k] = s BY <3>3, <2>0
      <4>2. ASSUME NEW j \in DOMAIN p2[w], p2[w][j] = p2[w][k] PROVE j = k
        <5>1. j \in 1..Len(p[w]) => p2[w][j] # s BY <2>0, <2>2, <3>3
        <5> QED BY <5>1, <4>1, <4>2, <3>3, <2>0
      <4> QED BY <3>3, <4>1, <4>2 DEF w
    <3>4. v = w => k \in 1..Len(p[w]) \/ k = Len(p[w]) + 1 BY <2>0
    <3> QED BY <3>1, <3>2, <3>3, <3>4
  <2> QED BY <2>1, <2>3 DEF Stored
<1> QED BY <1>1, <1>2, <1>3 DEF Paired

(* A client gets the oldest session of a pool.                             *)
LEMMA PairedTakes ==
  ASSUME NEW cl, NEW ses, NEW p, Paired(cl, ses, p), Fit(cl, ses, p),
         NEW c \in Clients, NEW v \in Servers, NEW s \in Sessions,
         p[v] # <<>>, s = Head(p[v]), ses[s].owner = c, cl[c].pair = None,
         NEW cl2, Gets(c, InstanceOf(v), s, cl2), OtherClients(c, cl, cl2),
         NEW ses2, ses2[s].list = "work", ses2[s].poll # "none",
         ses2[s].server = ses[s].server, ses2[s].owner = ses[s].owner, OtherSessions(s, ses, ses2),
         NEW p2, p2[v] = Tail(p[v]), OtherPools(v, p, p2)
  PROVE  Paired(cl2, ses2, p2)
PROOF
<1>10. /\ cl2[c].pair = s /\ cl2[c].status \in {"selected", "forward"}
       /\ cl2[c].chosen = InstanceOf(v)
       /\ \A d \in Clients \ {c} : cl2[d] = cl[d]
       /\ \A r \in Sessions \ {s} :
            /\ ses2[r].list = ses[r].list /\ ses2[r].server = ses[r].server
            /\ ses2[r].owner = ses[r].owner /\ ses2[r].poll = ses[r].poll
       /\ \A w \in Servers \ {v} : p2[w] = p[w]
  BY DEF Gets, OtherClients, OtherSessions, OtherPools
<1> USE <1>10
<1>0. /\ DOMAIN p[v] = 1..Len(p[v]) /\ Len(p[v]) \in Nat /\ 1 \in DOMAIN p[v] /\ p[v][1] = s
      /\ DOMAIN p2[v] = 1..(Len(p[v]) - 1)
      /\ \A k \in 1..(Len(p[v]) - 1) : p2[v][k] = p[v][k + 1]
  <2> DEFINE q == p[v]
  <2>1. q \in Seq(Sessions) /\ q # <<>> BY DEF Fit
  <2>2. p2[v] = Tail(q) /\ s = Head(q) OBVIOUS
  <2> HIDE DEF q
  <2>3. /\ DOMAIN q = 1..Len(q) /\ Len(q) \in Nat /\ 1 \in DOMAIN q /\ q[1] = s
        /\ DOMAIN p2[v] = 1..(Len(q) - 1)
        /\ \A k \in 1..(Len(q) - 1) : p2[v][k] = q[k + 1]
    <3>1. DOMAIN q = 1..Len(q) /\ Len(q) \in Nat BY <2>1, LenProperties
    <3>2. Len(q) # 0 BY <2>1, <3>1
    <3>3. 1 \in DOMAIN q /\ q[1] = s BY <2>1, <2>2, <3>1, <3>2
    <3>4. /\ Tail(q) \in Seq(Sessions) /\ Len(Tail(q)) = Len(q) - 1
          /\ \A k \in 1..(Len(q) - 1) : Tail(q)[k] = q[k + 1]
      BY <2>1, <3>1, HeadTailProperties
    <3>5. DOMAIN Tail(q) = 1..(Len(q) - 1) BY <3>4, LenProperties
    <3> QED BY <2>2, <3>1, <3>3, <3>4, <3>5
  <2> QED BY <2>3 DEF q
<1>1. /\ ses[s].list = "pool" /\ ses[s].server = v
      /\ \A j \in DOMAIN p[v] : p[v][j] = s => j = 1
  BY <1>0 DEF Paired, Stored
<1>2. Bound(cl2, ses2)
  <2> SUFFICES ASSUME NEW d \in Clients, cl2[d].pair # None
               PROVE  /\ ses2[cl2[d].pair].list = "work" /\ ses2[cl2[d].pair].owner = d
                      /\ cl2[d].status \in {"selected", "forward"}
                      /\ InstanceOf(ses2[cl2[d].pair].server) = cl2[d].chosen
    BY DEF Bound
  <2>1. CASE d = c BY <2>1, <1>1
  <2>2. CASE d # c
    <3>1. /\ cl2[d].pair = cl[d].pair /\ cl2[d].status = cl[d].status /\ cl2[d].chosen = cl[d].chosen
          /\ cl[d].pair \in Sessions
      BY <2>2 DEF Fit
    <3>2. /\ ses[cl[d].pair].list = "work" /\ ses[cl[d].pair].owner = d
          /\ cl[d].status \in {"selected", "forward"}
          /\ InstanceOf(ses[cl[d].pair].server) = cl[d].chosen
      BY <3>1 DEF Paired, Bound
    <3>3. cl[d].pair # s BY <1>1, <3>2
    <3> QED BY <3>1, <3>2, <3>3
  <2> QED BY <2>1, <2>2
<1>3. Used(cl2, ses2)
  <2> SUFFICES ASSUME NEW r \in Sessions, ses2[r].list = "work"
               PROVE  ses2[r].poll # "none" /\ cl2[ses2[r].owner].pair = r
    BY DEF Used
  <2>1. CASE r = s BY <2>1
  <2>2. CASE r # s
    <3>1. /\ ses[r].list = "work" /\ ses2[r].poll = ses[r].poll /\ ses2[r].owner = ses[r].owner
          /\ ses[r].owner \in Clients
      BY <2>2 DEF Fit
    <3>2. ses[r].poll # "none" /\ cl[ses[r].owner].pair = r BY <3>1 DEF Paired, Used
    <3>3. ses[r].owner # c BY <3>2, SessionsAssumption
    <3> QED BY <3>1, <3>2, <3>3
  <2> QED BY <2>1, <2>2
<1>4. Stored(ses2, p2)
  <2>1. ASSUME NEW r \in Sessions, ses2[r].list = "pool"
        PROVE  ses2[r].poll = "none" /\ \E k \in DOMAIN p2[ses2[r].server] : p2[ses2[r].server][k] = r
    <3>1. r # s BY <2>1
    <3>2. ses[r].list = "pool" /\ ses2[r].poll = ses[r].poll /\ ses2[r].server = ses[r].server
      BY <2>1, <3>1
    <3> DEFINE x == ses[r].server
    <3>3. ses[r].poll = "none" /\ x \in Servers /\ \E k \in DOMAIN p[x] : p[x][k] = r
      BY <3>2 DEF Paired, Stored, Fit
    <3> HIDE DEF x
    <3>4. \E k \in DOMAIN p2[x] : p2[x][k] = r
      <4>1. CASE x = v
        <5>1. PICK k \in 1..Len(p[v]) : p[v][k] = r BY <3>3, <4>1, <1>0
        <5>2. k # 1 BY <5>1, <3>1, <1>0
        <5>3. k - 1 \in 1..(Len(p[v]) - 1) /\ (k - 1) + 1 = k BY <5>2, <1>0
        <5>4. p2[v][k - 1] = r BY <5>1, <5>3, <1>0
        <5> QED BY <5>3, <5>4, <4>1, <1>0
      <4>2. CASE x # v
        <5>1. p2[x] = p[x] BY <4>2, <3>3
        <5> QED BY <5>1, <3>3
      <4> QED BY <4>1, <4>2
    <3> QED BY <3>2, <3>3, <3>4 DEF x
  <2>2. ASSUME NEW w \in Servers, NEW k \in DOMAIN p[w]
        PROVE  /\ p[w][k] \in Sessions
               /\ ses[p[w][k]].list = "pool" /\ ses[p[w][k]].server = w
               /\ \A j \in DOMAIN p[w] : p[w][j] = p[w][k] => j = k
    <3>1. p[w][k] \in Sessions
      <4>1. p[w] \in Seq(Sessions) BY DEF Fit
      <4> QED BY <4>1, ElementOfSeq, LenProperties
    <3> QED BY <3>1 DEF Paired, Stored
  <2>3. ASSUME NEW w \in Servers, NEW k \in DOMAIN p2[w]
        PROVE  /\ ses2[p2[w][k]].list = "pool" /\ ses2[p2[w][k]].server = w
               /\ \A j \in DOMAIN p2[w] : p2[w][j] = p2[w][k] => j = k
    <3>1. CASE w # v
      <4>1. p2[w] = p[w] BY <3>1
      <4>2. p[w][k] # s BY <4>1, <2>2, <1>1, <3>1
      <4> QED BY <4>1, <4>2, <2>2
    <3>2. CASE w = v
      <4>0. k \in 1..(Len(p[v]) - 1) BY <3>2, <1>0
      <4>1. k \in Nat /\ p2[v][k] = p[v][k + 1] /\ k + 1 \in DOMAIN p[v] /\ k + 1 # 1
        BY <4>0, <1>0
      <4>2. p[v][k + 1] # s BY <4>1, <1>1
      <4>3. ASSUME NEW j \in DOMAIN p2[v], p2[v][j] = p2[v][k] PROVE j = k
        <5>1. j \in Nat /\ p2[v][j] = p[v][j + 1] /\ j + 1 \in DOMAIN p[v] BY <1>0
        <5>2. j + 1 = k + 1 BY <5>1, <4>1, <4>3, <2>2
        <5> QED BY <5>1, <5>2, <4>1
      <4>4. ses[p[v][k + 1]].list = "pool" /\ ses[p[v][k + 1]].server = v /\ p[v][k + 1] \in Sessions
        BY <4>1, <2>2
      <4>5. ses2[p2[v][k]].list = "pool" /\ ses2[p2[v][k]].server = v BY <4>1, <4>2, <4>4
      <4> QED BY <3>2, <4>5, <4>3
    <3> QED BY <3>1, <3>2
  <2> QED BY <2>1, <2>3 DEF Stored
<1> QED BY <1>2, <1>3, <1>4 DEF Paired

(* A client gets a new session.                                            *)
LEMMA PairedConnects ==
  ASSUME NEW cl, NEW ses, NEW p, Paired(cl, ses, p), Fit(cl, ses, p),
         NEW c \in Clients, NEW v \in Servers, NEW s \in Sessions,
         ses[s].list = "free", cl[c].pair = None,
         NEW cl2, Gets(c, InstanceOf(v), s, cl2), OtherClients(c, cl, cl2),
         NEW ses2, ses2[s].list = "work", ses2[s].poll # "none",
         ses2[s].server = v, ses2[s].owner = c, OtherSessions(s, ses, ses2)
  PROVE  Paired(cl2, ses2, p)
PROOF
<1>10. /\ cl2[c].pair = s /\ cl2[c].status \in {"selected", "forward"}
       /\ cl2[c].chosen = InstanceOf(v)
       /\ \A d \in Clients \ {c} : cl2[d] = cl[d]
       /\ \A r \in Sessions \ {s} :
            /\ ses2[r].list = ses[r].list /\ ses2[r].server = ses[r].server
            /\ ses2[r].owner = ses[r].owner /\ ses2[r].poll = ses[r].poll
  BY DEF Gets, OtherClients, OtherSessions
<1> USE <1>10
<1>2. Bound(cl2, ses2)
  <2> SUFFICES ASSUME NEW d \in Clients, cl2[d].pair # None
               PROVE  /\ ses2[cl2[d].pair].list = "work" /\ ses2[cl2[d].pair].owner = d
                      /\ cl2[d].status \in {"selected", "forward"}
                      /\ InstanceOf(ses2[cl2[d].pair].server) = cl2[d].chosen
    BY DEF Bound
  <2>1. CASE d = c BY <2>1
  <2>2. CASE d # c
    <3>1. /\ cl2[d].pair = cl[d].pair /\ cl2[d].status = cl[d].status /\ cl2[d].chosen = cl[d].chosen
          /\ cl[d].pair \in Sessions
      BY <2>2 DEF Fit
    <3>2. /\ ses[cl[d].pair].list = "work" /\ ses[cl[d].pair].owner = d
          /\ cl[d].status \in {"selected", "forward"}
          /\ InstanceOf(ses[cl[d].pair].server) = cl[d].chosen
      BY <3>1 DEF Paired, Bound
    <3>3. cl[d].pair # s BY <3>2
    <3> QED BY <3>1, <3>2, <3>3
  <2> QED BY <2>1, <2>2
<1>3. Used(cl2, ses2)
  <2> SUFFICES ASSUME NEW r \in Sessions, ses2[r].list = "work"
               PROVE  ses2[r].poll # "none" /\ cl2[ses2[r].owner].pair = r
    BY DEF Used
  <2>1. CASE r = s BY <2>1
  <2>2. CASE r # s
    <3>1. /\ ses[r].list = "work" /\ ses2[r].owner = ses[r].owner /\ ses2[r].poll = ses[r].poll
          /\ ses[r].owner \in Clients
      BY <2>2 DEF Fit
    <3>2. ses[r].poll # "none" /\ cl[ses[r].owner].pair = r BY <3>1 DEF Paired, Used
    <3>3. ses[r].owner # c BY <3>2, SessionsAssumption
    <3> QED BY <3>1, <3>2, <3>3
  <2> QED BY <2>1, <2>2
<1>4. Stored(ses2, p)
  <2>1. ASSUME NEW r \in Sessions, ses2[r].list = "pool"
        PROVE  ses2[r].poll = "none" /\ \E k \in DOMAIN p[ses2[r].server] : p[ses2[r].server][k] = r
    <3>1. r # s BY <2>1
    <3>2. ses2[r].server = ses[r].server /\ ses2[r].poll = ses[r].poll /\ ses[r].list = "pool"
      BY <2>1, <3>1
    <3> QED BY <3>2 DEF Paired, Stored
  <2>2. ASSUME NEW w \in Servers, NEW k \in DOMAIN p[w]
        PROVE  /\ ses2[p[w][k]].list = "pool" /\ ses2[p[w][k]].server = w
               /\ \A j \in DOMAIN p[w] : p[w][j] = p[w][k] => j = k
    <3>1. p[w][k] \in Sessions
      <4>1. p[w] \in Seq(Sessions) BY DEF Fit
      <4> QED BY <4>1, ElementOfSeq, LenProperties
    <3>2. /\ ses[p[w][k]].list = "pool" /\ ses[p[w][k]].server = w
          /\ \A j \in DOMAIN p[w] : p[w][j] = p[w][k] => j = k
      BY DEF Paired, Stored
    <3>3. p[w][k] # s BY <3>2
    <3> QED BY <3>1, <3>2, <3>3
  <2> QED BY <2>1, <2>2 DEF Stored
<1> QED BY <1>2, <1>3, <1>4 DEF Paired

(* Without connections there is nothing to share.                          *)
LEMMA PairedFree ==
  ASSUME NEW cl, cl = [c \in Clients |-> FreeClient],
         NEW ses, ses = [s \in Sessions |-> FreeSession],
         NEW p, p = [v \in Servers |-> <<>>]
  PROVE  Paired(cl, ses, p)
PROOF
<1>1. \A c \in Clients : cl[c].pair = None BY DEF FreeClient
<1>2. \A s \in Sessions : ses[s].list = "free" BY DEF FreeSession
<1>3. \A v \in Servers : DOMAIN p[v] = {} OBVIOUS
<1> QED BY <1>1, <1>2, <1>3 DEF Paired, Bound, Used, Stored

-----------------------------------------------------------------------------
LEMMA FitNow ==
  ASSUME Base
  PROVE  /\ Fit(client, session, pool)
         /\ client \in [Clients -> ClientRecords] /\ session \in [Sessions -> SessionRecords]
         /\ \A c \in Clients : client[c].status \in Statuses
PROOF
<1>1. /\ client \in [Clients -> ClientRecords] /\ session \in [Sessions -> SessionRecords]
      /\ pool \in [Servers -> Seq(Sessions)]
  BY DEF Base, TypeOK
<1>2. \A c \in Clients : client[c].pair \in Sessions \cup {None} /\ client[c].status \in Statuses
  BY <1>1 DEF ClientRecords
<1>3. \A s \in Sessions : session[s].list \in {"free", "work", "pool"} BY <1>1 DEF SessionRecords
<1> QED BY <1>1, <1>2, <1>3 DEF Fit, Base, Shape

LEMMA SelectedPairs ==
  ASSUME client \in [Clients -> ClientRecords], NEW c \in Clients, NEW i \in Instances,
         NEW s \in Sessions \cup {None}, client[c].status \in {"select", "selected", "forward"}
  PROVE  Gets(c, i, s, SelectedOk(c, i, s)) /\ OtherClients(c, client, SelectedOk(c, i, s))
PROOF
<1> DEFINE st == IF client[c].status = "select" THEN "selected" ELSE client[c].status
<1>1. st \in {"selected", "forward"} /\ st \in Statuses BY DEF Statuses
<1>2. SelectedOk(c, i, s) = Replied(c, s, st, i) BY DEF SelectedOk
<1> HIDE DEF st
<1>3. i \in Instances \cup {None} OBVIOUS
<1> DEFINE f == Replied(c, s, st, i)
<1>4. /\ \A d \in Clients \ {c} : f[d] = client[d]
      /\ f[c].pair = s /\ f[c].status = st /\ f[c].chosen = i
  BY <1>1, <1>3, RepliedEffect
<1> HIDE DEF f
<1>5. Gets(c, i, s, f) /\ OtherClients(c, client, f) BY <1>1, <1>4 DEF Gets, OtherClients
<1> QED BY <1>2, <1>5 DEF f

LEMMA TakenSame ==
  ASSUME NEW ses \in [Sessions -> SessionRecords], NEW s \in Sessions
  PROVE  LET f == Polled(s, [ses EXCEPT ![s].list = "work"]) IN
         /\ OtherSessions(s, ses, f)
         /\ f[s].list = "work" /\ f[s].poll # "none"
         /\ f[s].server = ses[s].server /\ f[s].owner = ses[s].owner
PROOF
<1> DEFINE f == Polled(s, [ses EXCEPT ![s].list = "work"])
<1>1. /\ \A r \in Sessions \ {s} : f[r] = ses[r]
      /\ f[s].list = "work" /\ f[s].poll = "in"
      /\ f[s].server = ses[s].server /\ f[s].owner = ses[s].owner
  BY TakenEffect
<1> HIDE DEF f
<1>2. OtherSessions(s, ses, f) BY <1>1 DEF OtherSessions
<1> QED BY <1>1, <1>2 DEF f

(* SelectMysqlServer, for a client without a session                       *)
LEMMA SelectServerPairs ==
  ASSUME Base, NEW c \in Clients, NEW i \in Instances,
         NEW cl, NEW ses \in [Sessions -> SessionRecords], NEW p, Paired(cl, ses, p), Fit(cl, ses, p),
         cl[c].pair = None, OtherClients(c, cl, client),
         client[c].status \in {"select", "selected", "forward"},
         SelectMysqlServer(c, i, ses, p), "pair" \notin strayed'
  PROVE  Paired(client', session', pool')
PROOF
<1>0. /\ client \in [Clients -> ClientRecords] /\ list[i] \in Seq(Servers)
      /\ p \in [Servers -> Seq(Sessions)]
  BY DEF Base, TypeOK, Fit
<1>2. ASSUME NEW s \in Sessions \cup {None}, client' = SelectedOk(c, i, s)
      PROVE  Gets(c, i, s, client') /\ OtherClients(c, cl, client')
  <2>1. Gets(c, i, s, client') /\ OtherClients(c, client, client')
    BY <1>0, <1>2, SelectedPairs
  <2> QED BY <2>1 DEF OtherClients
<1>3. ASSUME NEW k \in DOMAIN list[i]
      PROVE  list[i][k] \in Servers /\ InstanceOf(list[i][k]) = i
  <2>1. list[i][k] \in Listed(list[i]) BY DEF Listed
  <2>2. list[i][k] \in Servers BY <1>0, ElementOfSeq, LenProperties
  <2> QED BY <2>1, <2>2 DEF Base, ListShape
<1>4. ASSUME NEW k \in DOMAIN list[i], TakePooled(c, i, list[i][k], ses, p)
      PROVE  Paired(client', session', pool')
  <2> DEFINE v == list[i][k]
             s == Head(p[v])
  <2>1. v \in Servers /\ InstanceOf(v) = i BY <1>3
  <2>2. /\ p[v] # <<>> /\ pool' = [p EXCEPT ![v] = Tail(@)]
        /\ ses[s].poll = "none" =>
             /\ session' = Polled(s, [ses EXCEPT ![s].list = "work"])
             /\ client' = SelectedOk(c, i, s)
             /\ strayed' = strayed \cup (IF ses[s].owner # c THEN {"pair"} ELSE {})
                                  \cup (IF Unread(ses[s]) > 0 THEN {"answer"} ELSE {})
    BY <1>4 DEF TakePooled
  <2> HIDE DEF v
  <2>3. s \in Sessions /\ 1 \in DOMAIN p[v] /\ s = p[v][1]
    BY <1>0, <2>1, <2>2, HeadTailProperties, LenProperties
  <2>4. ses[s].list = "pool" BY <2>1, <2>3 DEF Paired, Stored
  <2>10. s = Head(p[v]) /\ p[v] # <<>> BY <2>2
  <2> HIDE DEF s
  <2>5. ses[s].poll = "none" BY <2>3, <2>4 DEF Paired, Stored
  <2>6. ses[s].owner = c BY <2>2, <2>5
  <2>7. Gets(c, InstanceOf(v), s, client') /\ OtherClients(c, cl, client')
    BY <1>2, <2>1, <2>2, <2>3, <2>5
  <2>8. /\ OtherSessions(s, ses, session')
        /\ session'[s].list = "work" /\ session'[s].poll # "none"
        /\ session'[s].server = ses[s].server /\ session'[s].owner = ses[s].owner
    <3>1. session' = Polled(s, [ses EXCEPT ![s].list = "work"]) BY <2>2, <2>5
    <3> QED BY <2>3, <3>1, TakenSame
  <2>9. pool'[v] = Tail(p[v]) /\ OtherPools(v, p, pool')
    BY <1>0, <2>1, <2>2 DEF OtherPools
  <2> QED BY <2>1, <2>3, <2>6, <2>7, <2>8, <2>9, <2>10, PairedTakes
<1>5. ASSUME NEW k \in DOMAIN list[i], Connect(c, i, list[i][k], ses, p)
      PROVE  Paired(client', session', pool')
  <2> DEFINE v == list[i][k]
  <2>1. v \in Servers /\ InstanceOf(v) = i BY <1>3
  <2>2. PICK s \in Sessions : /\ ses[s].list = "free"
                              /\ session' = [ses EXCEPT ![s] = NewSession(c, v)]
                              /\ client' = SelectedOk(c, i, s)
    BY <1>5 DEF Connect
  <2>3. pool' = p BY <1>5 DEF Connect
  <2> HIDE DEF v
  <2>4. Gets(c, InstanceOf(v), s, client') /\ OtherClients(c, cl, client')
    BY <1>2, <2>1, <2>2
  <2> DEFINE n == NewSession(c, v)
  <2>5. n.list = "work" /\ n.poll # "none" /\ n.server = v /\ n.owner = c
    BY DEF NewSession, FreeSession
  <2> HIDE DEF n
  <2>6. session'[s] = n /\ OtherSessions(s, ses, session')
    BY <2>2 DEF n, OtherSessions
  <2>8. Paired(client', session', p)
    BY <2>1, <2>2, <2>4, <2>5, <2>6, PairedConnects
  <2> QED BY <2>3, <2>8
<1>6. CASE SelectNone(c, i, ses, p)
  <2>1. session' = ses /\ pool' = p /\ client' = SelectedOk(c, i, None) BY <1>6 DEF SelectNone
  <2>2. client'[c].pair = None /\ OtherClients(c, cl, client')
    BY <1>2, <2>1 DEF Gets
  <2>3. SamePairs(cl, ses, client')
    <3> SUFFICES ASSUME NEW d \in Clients
                 PROVE  /\ client'[d].pair = cl[d].pair
                        /\ cl[d].pair # None => /\ client'[d].status \in {"selected", "forward"}
                                                /\ InstanceOf(ses[cl[d].pair].server) = client'[d].chosen
      BY DEF SamePairs
    <3>1. CASE d = c BY <3>1, <2>2
    <3>2. CASE d # c
      <4>1. client'[d] = cl[d] BY <3>2, <2>2 DEF OtherClients
      <4> QED BY <4>1 DEF Paired, Bound
    <3> QED BY <3>1, <3>2
  <2>4. SameUse(ses, session') BY <2>1 DEF SameUse
  <2>5. Paired(client', session', p) BY <2>3, <2>4, PairedKeeps
  <2> QED BY <2>1, <2>5
<1>7. \A k \in Reached(i, ses, p) : k \in DOMAIN list[i] BY DEF Reached
<1> QED BY <1>4, <1>5, <1>6, <1>7 DEF SelectMysqlServer

-----------------------------------------------------------------------------
(* A handler that leaves clients their sessions                            *)
LEMMA KeepPairs ==
  ASSUME Base, PairInv, strayed \subseteq strayed', pool' = pool,
         "pair" \notin strayed' /\ Paired(client, session, pool) => SamePairs(client, session, client'),
         SameUse(session, session')
  PROVE  PairInv'
PROOF
<1> SUFFICES ASSUME "pair" \notin strayed' PROVE Paired(client', session', pool')
  BY DEF PairInv, Paired, Bound, Used, Stored
<1>1. Paired(client, session, pool) BY DEF PairInv
<1>2. SamePairs(client, session, client') BY <1>1
<1>3. Fit(client, session, pool) BY FitNow
<1>4. Paired(client', session', pool) BY <1>1, <1>2, <1>3, PairedKeeps
<1> QED BY <1>4

(* and changes one of them.                                                *)
LEMMA OneKeeps ==
  ASSUME Paired(client, session, pool), NEW c \in Clients, NEW cl2, OtherClients(c, client, cl2),
         cl2[c].pair = client[c].pair,
         client[c].pair # None =>
           /\ cl2[c].status \in {"selected", "forward"}
           /\ cl2[c].chosen = client[c].chosen \/ cl2[c].chosen = InstanceOf(session[client[c].pair].server)
  PROVE  SamePairs(client, session, cl2)
PROOF
<1> SUFFICES ASSUME NEW d \in Clients
             PROVE  /\ cl2[d].pair = client[d].pair
                    /\ client[d].pair # None =>
                         /\ cl2[d].status \in {"selected", "forward"}
                         /\ InstanceOf(session[client[d].pair].server) = cl2[d].chosen
  BY DEF SamePairs
<1>0. client[d].pair # None => /\ client[d].status \in {"selected", "forward"}
                               /\ InstanceOf(session[client[d].pair].server) = client[d].chosen
  BY DEF Paired, Bound
<1>1. CASE d = c BY <1>0, <1>1
<1>2. CASE d # c
  <2>1. cl2[d] = client[d] BY <1>2 DEF OtherClients
  <2> QED BY <1>0, <2>1
<1> QED BY <1>1, <1>2

LEMMA OneWired ==
  ASSUME Wired, NEW c \in Clients, OtherClients(c, client, client'),
         client'[c].wire # <<>> => client'[c].status \in {"auth", "select", "forward"}
  PROVE  Wired'
PROOF
<1> SUFFICES ASSUME NEW d \in Clients, client'[d].wire # <<>>
             PROVE  client'[d].status \in {"auth", "select", "forward"}
  BY DEF Wired
<1>1. CASE d = c BY <1>1
<1>2. CASE d # c
  <2>1. client'[d] = client[d] BY <1>2 DEF OtherClients
  <2> QED BY <2>1 DEF Wired
<1> QED BY <1>1, <1>2

(* Messages of a client that is gone                                       *)
LEMMA ForgottenPairs ==
  ASSUME NEW cl, NEW ses \in [Sessions -> SessionRecords], NEW p, NEW c \in Clients,
         Paired(cl, ses, p), Fit(cl, ses, p)
  PROVE  Paired(cl, Forgotten(c, ses), p)
PROOF
<1> DEFINE f == Forgotten(c, ses)
<1>1. \A s \in Sessions : /\ f[s].list = ses[s].list /\ f[s].server = ses[s].server
                          /\ f[s].owner = ses[s].owner /\ f[s].poll = ses[s].poll
  BY ForgottenType
<1> HIDE DEF f
<1>2. SameUse(ses, f) BY <1>1 DEF SameUse
<1>3. SamePairs(cl, ses, cl) BY DEF Paired, Bound, SamePairs
<1>4. Paired(cl, f, p) BY <1>2, <1>3, PairedKeeps
<1> QED BY <1>4 DEF f

(* A client that gives up its session                                      *)
LEMMA ReleasedPairs ==
  ASSUME Base, Paired(client, session, pool), NEW c \in Clients, NEW s \in Sessions,
         client[c].pair = s, NEW cl2, cl2[c].pair = None, OtherClients(c, client, cl2)
  PROVE  LET ses == InPool(s, Unpolled(s, session))
             p   == Appended(s, pool)
         IN  Paired(cl2, ses, p) /\ Fit(cl2, ses, p) /\ ses \in [Sessions -> SessionRecords]
PROOF
<1> DEFINE ses == InPool(s, Unpolled(s, session))
           p   == Appended(s, pool)
           w   == session[s].server
<1>1. Fit(client, session, pool) /\ session \in [Sessions -> SessionRecords] BY FitNow
<1>2. s # None /\ session[s].list = "work" BY SessionsAssumption DEF Paired, Bound
<1>3. w \in Servers /\ pool \in [Servers -> Seq(Sessions)] BY <1>1, <1>2 DEF Fit
<1>4. /\ ses \in [Sessions -> SessionRecords]
      /\ \A r \in Sessions \ {s} : ses[r] = session[r]
      /\ ses[s].list = "pool" /\ ses[s].poll = "none" /\ ses[s].server = w
      /\ ses[s].owner = session[s].owner
  BY <1>1, ReleasedEffect
<1>5. /\ p \in [Servers -> Seq(Sessions)] /\ p[w] = Append(pool[w], s)
      /\ \A v \in Servers \ {w} : p[v] = pool[v]
  BY <1>3, AppendedEffect
<1> HIDE DEF ses, p
<1>6. OtherSessions(s, session, ses) /\ OtherPools(w, pool, p)
  BY <1>4, <1>5 DEF OtherSessions, OtherPools
<1>7. Paired(cl2, ses, p) BY <1>1, <1>4, <1>5, <1>6, PairedReleases
<1>8. Fit(cl2, ses, p)
  <2>1. \A d \in Clients : cl2[d].pair \in Sessions \cup {None} BY <1>1 DEF Fit, OtherClients
  <2>2. ASSUME NEW r \in Sessions
        PROVE  /\ ses[r].list # "free" => ses[r].owner \in Clients /\ ses[r].server \in Servers
               /\ ses[r].list \in {"free", "work", "pool"}
    <3>1. CASE r = s BY <3>1, <1>1, <1>2, <1>4 DEF Fit
    <3>2. CASE r # s BY <3>2, <1>1, <1>4 DEF Fit
    <3> QED BY <3>1, <3>2
  <2> QED BY <1>5, <2>1, <2>2 DEF Fit
<1> QED BY <1>4, <1>7, <1>8 DEF ses, p

LEMMA DiesPairs ==
  ASSUME Dies
  PROVE  Wired' /\ PairInv'
PROOF
<1>1. /\ client' = [c \in Clients |-> FreeClient] /\ session' = [s \in Sessions |-> FreeSession]
      /\ pool' = [v \in Servers |-> <<>>]
  BY DEF Dies
<1>2. Paired(client', session', pool') BY <1>1, PairedFree
<1>3. \A c \in Clients : client'[c].wire = <<>> BY <1>1 DEF FreeClient
<1> QED BY <1>2, <1>3 DEF Wired, PairInv, Paired, Bound, Used, Stored

(* OnClosingAcceptedSocket                                                 *)
LEMMA CloseClientPairs ==
  ASSUME Base, Wired, PairInv, NEW c \in Clients, NEW e, CloseClient(c, e)
  PROVE  Wired' /\ PairInv'
PROOF
<1> DEFINE s == client[c].pair
<1>0. /\ client \in [Clients -> ClientRecords] /\ session \in [Sessions -> SessionRecords]
      /\ s \in Sessions \cup {None} /\ Fit(client, session, pool)
  BY FitNow DEF Fit
<1>f. FreeClient.pair = None /\ FreeClient.wire = <<>> BY DEF FreeClient
<1>1. CASE Dies BY <1>1, DiesPairs
<1>2. CASE /\ s = None
           /\ client' = [client EXCEPT ![c] = FreeClient]
           /\ session' = Forgotten(c, session)
           /\ Done(e) /\ UNCHANGED <<pool, strayed>>
  <2>1. client'[c] = FreeClient /\ OtherClients(c, client, client') BY <1>0, <1>2 DEF OtherClients
  <2>2. Wired' BY <2>1, <1>f, OneWired
  <2>3. SameUse(session, session')
    <3>1. \A r \in Sessions : /\ session'[r].list = session[r].list /\ session'[r].server = session[r].server
                              /\ session'[r].owner = session[r].owner /\ session'[r].poll = session[r].poll
      BY <1>0, <1>2, ForgottenType
    <3> QED BY <3>1 DEF SameUse
  <2>4. ASSUME Paired(client, session, pool) PROVE SamePairs(client, session, client')
    BY <1>2, <1>f, <2>1, <2>4, OneKeeps
  <2> QED BY <1>2, <2>2, <2>3, <2>4, KeepPairs
<1>3. CASE /\ s # None
           /\ client' = [client EXCEPT ![c] = FreeClient]
           /\ session' = Forgotten(c, InPool(s, Unpolled(s, session)))
           /\ pool' = Appended(s, pool)
           /\ Done(e) /\ UNCHANGED strayed
  <2>0. s \in Sessions BY <1>0, <1>3
  <2>1. client'[c] = FreeClient /\ OtherClients(c, client, client') BY <1>0, <1>3 DEF OtherClients
  <2>2. Wired' BY <2>1, <1>f, OneWired
  <2> HIDE DEF s
  <2>3. ASSUME "pair" \notin strayed' PROVE Paired(client', session', pool')
    <3>1. Paired(client, session, pool) BY <1>3, <2>3 DEF PairInv
    <3> DEFINE ses == InPool(s, Unpolled(s, session))
               p   == Appended(s, pool)
    <3>2. client[c].pair = s /\ client'[c].pair = None BY <2>1, <1>f DEF s
    <3>3. Paired(client', ses, p) /\ Fit(client', ses, p) /\ ses \in [Sessions -> SessionRecords]
      BY <2>0, <2>1, <3>1, <3>2, ReleasedPairs
    <3>4. session' = Forgotten(c, ses) /\ pool' = p BY <1>3
    <3> HIDE DEF ses, p
    <3> QED BY <3>3, <3>4, ForgottenPairs
  <2>4. PairInv' BY <2>3 DEF PairInv, Paired, Bound, Used, Stored
  <2> QED BY <2>2, <2>4
<1>4. CASE /\ s # None /\ session[s].poll = "none"
           /\ client' = [client EXCEPT ![c] = [FreeClient EXCEPT !.status = "leaked"]]
           /\ Done(e) /\ UNCHANGED <<session, pool, strayed>>
  <2>1. client'[c].wire = <<>> /\ OtherClients(c, client, client')
    BY <1>0, <1>4 DEF OtherClients, FreeClient
  <2>2. Wired' BY <2>1, OneWired
  <2>3. "pair" \in strayed'
    <3>1. "pair" \notin strayed => session[s].list = "work" /\ session[s].poll # "none"
      BY <1>0, <1>4 DEF PairInv, Paired, Bound, Used
    <3> QED BY <3>1, <1>4
  <2> QED BY <2>2, <2>3 DEF PairInv
<1> QED BY <1>1, <1>2, <1>3, <1>4 DEF CloseClient

(* OnClosingForwardSocket                                                  *)
LEMMA CloseSessionPairs ==
  ASSUME Base, Wired, PairInv, NEW s \in Sessions, NEW e, CloseSession(s, e),
         session[s].list # "free"
  PROVE  Wired' /\ PairInv'
PROOF
<1> DEFINE c == session[s].owner
           q == client[c].pair
<1>0. /\ client \in [Clients -> ClientRecords] /\ session \in [Sessions -> SessionRecords]
      /\ Fit(client, session, pool) /\ c \in Clients /\ q \in Sessions \cup {None}
  BY FitNow DEF Fit
<1>f. FreeClient.pair = None /\ FreeClient.wire = <<>> BY DEF FreeClient
<1>p. Acts(s) /\ "pair" \notin strayed' => q = s /\ "pair" \notin strayed BY DEF Acts
<1>1. CASE Dies BY <1>1, DiesPairs
<1>2. CASE /\ session[s].poll = "none"
           /\ client' = [client EXCEPT ![c] = FreeClient]
           /\ Done(e) /\ Acts(s)
  <2>1. client'[c] = FreeClient /\ OtherClients(c, client, client') BY <1>0, <1>2 DEF OtherClients
  <2>2. Wired' BY <1>0, <2>1, <1>f, OneWired
  <2>3. ASSUME "pair" \notin strayed' PROVE FALSE
    <3>1. q = s /\ s # None /\ Paired(client, session, pool)
      BY <1>2, <1>p, <2>3, SessionsAssumption DEF PairInv
    <3>2. session[s].list = "work" BY <1>0, <3>1 DEF Paired, Bound
    <3>3. session[s].poll # "none" BY <3>1, <3>2 DEF Paired, Used
    <3> QED BY <1>2, <3>3
  <2> QED BY <2>2, <2>3 DEF PairInv
<1>3. CASE /\ client' = [client EXCEPT ![c] = FreeClient]
           /\ session' = Forgotten(c, InPool(q, Unpolled(s, session)))
           /\ pool' = Appended(q, pool)
           /\ Done(e) /\ Acts(s)
  <2>1. client'[c] = FreeClient /\ OtherClients(c, client, client') BY <1>0, <1>3 DEF OtherClients
  <2>2. Wired' BY <1>0, <2>1, <1>f, OneWired
  <2>3. ASSUME "pair" \notin strayed' PROVE Paired(client', session', pool')
    <3>1. Paired(client, session, pool) /\ q = s BY <1>3, <1>p, <2>3 DEF PairInv
    <3> DEFINE ses == InPool(s, Unpolled(s, session))
               p   == Appended(s, pool)
    <3>4. session' = Forgotten(c, ses) /\ pool' = p BY <1>3, <3>1
    <3>2. client[c].pair = s /\ client'[c].pair = None BY <2>1, <1>f, <3>1
    <3> HIDE DEF c, q
    <3>3. Paired(client', ses, p) /\ Fit(client', ses, p) /\ ses \in [Sessions -> SessionRecords]
      BY <1>0, <2>1, <3>1, <3>2, ReleasedPairs
    <3> HIDE DEF ses, p
    <3> QED BY <1>0, <3>3, <3>4, ForgottenPairs
  <2>4. PairInv' BY <2>3 DEF PairInv, Paired, Bound, Used, Stored
  <2> QED BY <2>2, <2>4
<1> QED BY <1>1, <1>2, <1>3 DEF CloseSession

(* SelectDatabaseLibrary                                                   *)
LEMMA SelectedWired ==
  ASSUME Base, Wired, NEW c \in Clients, NEW s \in Sessions \cup {None}, NEW status \in Statuses,
         NEW chosen \in Instances \cup {None}, client' = Replied(c, s, status, chosen)
  PROVE  /\ Wired' /\ OtherClients(c, client, client')
         /\ client'[c].pair = s /\ client'[c].status = status /\ client'[c].chosen = chosen
PROOF
<1>1. client \in [Clients -> ClientRecords] BY FitNow
<1> DEFINE f == Replied(c, s, status, chosen)
<1>2. /\ \A d \in Clients \ {c} : f[d] = client[d]
      /\ f[c].wire = <<>> /\ f[c].pair = s /\ f[c].status = status /\ f[c].chosen = chosen
  <2>1. \A d \in Clients \ {c} : f[d] = client[d] BY <1>1, RepliedEffect
  <2>2. f[c].wire = <<>> BY <1>1, RepliedEffect, SMTT(60)
  <2>3. f[c].pair = s BY <1>1, RepliedEffect
  <2>4. f[c].status = status BY <1>1, RepliedEffect
  <2>5. f[c].chosen = chosen BY <1>1, RepliedEffect
  <2> QED BY <2>1, <2>2, <2>3, <2>4, <2>5
<1> HIDE DEF f
<1>3. OtherClients(c, client, f) BY <1>2 DEF OtherClients
<1>4. client' = f BY DEF f
<1>5. Wired' BY <1>2, <1>3, <1>4, OneWired
<1> QED BY <1>2, <1>3, <1>4, <1>5

LEMMA SelectedOkWired ==
  ASSUME Base, Wired, NEW c \in Clients, NEW i \in Instances, NEW s \in Sessions \cup {None},
         client' = SelectedOk(c, i, s)
  PROVE  Wired'
PROOF
<1> DEFINE st == IF client[c].status = "select" THEN "selected" ELSE client[c].status
<1>0. client \in [Clients -> ClientRecords] BY FitNow
<1>1. SelectedOk(c, i, s) = Replied(c, s, st, i) /\ st \in Statuses BY <1>0, SelectedOkEffect
<1> HIDE DEF st
<1>2. i \in Instances \cup {None} OBVIOUS
<1> QED BY <1>1, <1>2, SelectedWired

LEMMA SelectFailedWired ==
  ASSUME Base, Wired, NEW c \in Clients, NEW s \in Sessions \cup {None}, client' = SelectFailed(c, s)
  PROVE  /\ Wired' /\ OtherClients(c, client, client')
         /\ client'[c].pair = s /\ client'[c].status = client[c].status
         /\ client'[c].chosen = client[c].chosen
PROOF
<1>0. client \in [Clients -> ClientRecords] BY FitNow
<1>1. /\ SelectFailed(c, s) = Replied(c, s, client[c].status, client[c].chosen)
      /\ client[c].status \in Statuses /\ client[c].chosen \in Instances \cup {None}
  BY <1>0, SelectFailedEffect
<1> QED BY <1>1, SelectedWired

LEMMA SelectServerWired ==
  ASSUME Base, Wired, NEW c \in Clients, NEW i \in Instances,
         NEW ses, NEW p, Fit(client, ses, p), SelectMysqlServer(c, i, ses, p)
  PROVE  Wired' /\ strayed \subseteq strayed'
PROOF
<1>0. client[c].pair \in Sessions \cup {None} /\ list[i] \in Seq(Servers) /\ p \in [Servers -> Seq(Sessions)]
  BY DEF Base, TypeOK, Fit
<1>1. ASSUME NEW k \in DOMAIN list[i], TakePooled(c, i, list[i][k], ses, p)
      PROVE  Wired' /\ strayed \subseteq strayed'
  <2> DEFINE v == list[i][k]
             s == Head(p[v])
  <2>1. v \in Servers BY <1>0, ElementOfSeq, LenProperties
  <2>2. p[v] # <<>> BY <1>1 DEF TakePooled
  <2>3. s \in Sessions
    <3> HIDE DEF v
    <3> QED BY <1>0, <2>1, <2>2, HeadTailProperties
  <2>4. client' = SelectedOk(c, i, s) \/ client' = SelectFailed(c, client[c].pair)
    BY <1>1 DEF TakePooled
  <2>5. strayed \subseteq strayed' BY <1>1 DEF TakePooled
  <2> HIDE DEF s
  <2> QED BY <1>0, <2>3, <2>4, <2>5, SelectedOkWired, SelectFailedWired
<1>2. ASSUME NEW k \in DOMAIN list[i], Connect(c, i, list[i][k], ses, p)
      PROVE  Wired' /\ strayed \subseteq strayed'
  <2>1. PICK s \in Sessions : client' = SelectedOk(c, i, s) BY <1>2 DEF Connect
  <2>2. strayed' = strayed BY <1>2 DEF Connect
  <2> QED BY <2>1, <2>2, SelectedOkWired
<1>3. CASE SelectNone(c, i, ses, p)
  <2>1. client' = SelectedOk(c, i, None) /\ strayed \subseteq strayed' BY <1>3 DEF SelectNone
  <2>2. None \in Sessions \cup {None} OBVIOUS
  <2> QED BY <2>1, <2>2, SelectedOkWired
<1>4. \A k \in Reached(i, ses, p) : k \in DOMAIN list[i] BY DEF Reached
<1> QED BY <1>1, <1>2, <1>3, <1>4 DEF SelectMysqlServer

LEMMA MovedFit ==
  ASSUME Base, NEW c \in Clients, NEW s \in Sessions, session[s].list # "free"
  PROVE  Fit(client, InPool(s, Unpolled(s, session)), Appended(s, pool))
PROOF
<1> DEFINE ses == InPool(s, Unpolled(s, session))
           p   == Appended(s, pool)
<1>1. Fit(client, session, pool) /\ session \in [Sessions -> SessionRecords] BY FitNow
<1>2. /\ \A r \in Sessions \ {s} : ses[r] = session[r]
      /\ ses[s].list = "pool" /\ ses[s].server = session[s].server /\ ses[s].owner = session[s].owner
  BY <1>1, ReleasedEffect
<1>3. p \in [Servers -> Seq(Sessions)] BY AppendedBase
<1> HIDE DEF ses, p
<1>4. ASSUME NEW r \in Sessions
      PROVE  /\ ses[r].list # "free" => ses[r].owner \in Clients /\ ses[r].server \in Servers
             /\ ses[r].list \in {"free", "work", "pool"}
  <2>1. CASE r = s BY <2>1, <1>1, <1>2 DEF Fit
  <2>2. CASE r # s BY <2>2, <1>1, <1>2 DEF Fit
  <2> QED BY <2>1, <2>2
<1>5. Fit(client, ses, p) BY <1>1, <1>3, <1>4 DEF Fit
<1> QED BY <1>5 DEF ses, p

(* Whatever it finds, the client has at most one session, its own.         *)
LEMMA SelectLibraryPairs ==
  ASSUME Base, Wired, PairInv, NEW c \in Clients, NEW i \in Instances, NEW e,
         client[c].status \in {"select", "selected", "forward"},
         SelectDatabaseLibrary(c, i, e)
  PROVE  Wired' /\ PairInv'
PROOF
<1> DEFINE s == client[c].pair
<1>0. /\ client \in [Clients -> ClientRecords] /\ session \in [Sessions -> SessionRecords]
      /\ Fit(client, session, pool) /\ s \in Sessions \cup {None}
  BY FitNow DEF Fit
<1>1. CASE Dies BY <1>1, DiesPairs
<1>2. CASE s = None /\ SelectMysqlServer(c, i, session, pool)
  <2>1. Wired' /\ strayed \subseteq strayed' BY <1>0, <1>2, SelectServerWired
  <2>2. ASSUME "pair" \notin strayed' PROVE Paired(client', session', pool')
    <3>1. Paired(client, session, pool) BY <2>1, <2>2 DEF PairInv
    <3>2. OtherClients(c, client, client) BY DEF OtherClients
    <3> QED BY <1>0, <1>2, <2>2, <3>1, <3>2, SelectServerPairs
  <2> QED BY <2>1, <2>2 DEF PairInv, Paired, Bound, Used, Stored
<1>3. CASE /\ s # None /\ InstanceOf(session[s].server) = i
           /\ client' = SelectedOk(c, i, s)
           /\ UNCHANGED <<session, pool, strayed>>
  <2>1. Wired' BY <1>0, <1>3, SelectedOkWired
  <2>2. Gets(c, i, s, client') /\ OtherClients(c, client, client')
    <3> HIDE DEF s
    <3> QED BY <1>0, <1>3, SelectedPairs
  <2>3. ASSUME Paired(client, session, pool) PROVE SamePairs(client, session, client')
    <3>1. client'[c].pair = client[c].pair /\ client'[c].status \in {"selected", "forward"}
          /\ client'[c].chosen = InstanceOf(session[client[c].pair].server)
      BY <1>3, <2>2 DEF Gets
    <3> QED BY <2>2, <2>3, <3>1, OneKeeps
  <2>4. SameUse(session, session') BY <1>3 DEF SameUse
  <2>5. PairInv' BY <1>3, <2>3, <2>4, KeepPairs
  <2> QED BY <2>1, <2>5
<1>4. CASE /\ s # None /\ session[s].list # "free"
           /\ SelectMysqlServer(c, i, InPool(s, Unpolled(s, session)), Appended(s, pool))
  <2>0. s \in Sessions BY <1>0, <1>4
  <2> HIDE DEF s
  <2> DEFINE ses == InPool(s, Unpolled(s, session))
             p   == Appended(s, pool)
  <2>1. Wired' /\ strayed \subseteq strayed'
    <3>1. Fit(client, ses, p) BY <1>4, <2>0, MovedFit
    <3>2. SelectMysqlServer(c, i, ses, p) BY <1>4
    <3> HIDE DEF ses, p
    <3> QED BY <3>1, <3>2, SelectServerWired
  <2>2. ASSUME "pair" \notin strayed' PROVE Paired(client', session', pool')
    <3>1. Paired(client, session, pool) BY <2>1, <2>2 DEF PairInv
    <3> DEFINE cl == [client EXCEPT ![c] = [client[c] EXCEPT !.pair = None]]
    <3>2. cl[c].pair = None /\ OtherClients(c, client, cl) /\ OtherClients(c, cl, client)
      <4>1. client[c] \in ClientRecords BY <1>0
      <4>2. [client[c] EXCEPT !.pair = None].pair = None BY <4>1 DEF ClientRecords
      <4> QED BY <1>0, <4>2 DEF OtherClients
    <3> HIDE DEF cl
    <3>3. Paired(cl, ses, p) /\ Fit(cl, ses, p) /\ ses \in [Sessions -> SessionRecords]
      <4>1. client[c].pair = s BY DEF s
      <4> QED BY <2>0, <3>1, <3>2, <4>1, ReleasedPairs
    <3>4. SelectMysqlServer(c, i, ses, p) BY <1>4
    <3> HIDE DEF ses, p
    <3> QED BY <2>2, <3>2, <3>3, <3>4, SelectServerPairs
  <2> QED BY <2>1, <2>2 DEF PairInv, Paired, Bound, Used, Stored
<1>5. CASE /\ s # None /\ session[s].poll = "none"
           /\ client' = SelectFailed(c, s)
           /\ UNCHANGED strayed
  <2>1. Wired' BY <1>0, <1>5, SelectFailedWired
  <2>2. "pair" \in strayed'
    <3>1. "pair" \notin strayed => session[s].list = "work" /\ session[s].poll # "none"
      BY <1>0, <1>5 DEF PairInv, Paired, Bound, Used
    <3> QED BY <3>1, <1>5
  <2> QED BY <2>1, <2>2 DEF PairInv
<1> QED BY <1>1, <1>2, <1>3, <1>4, <1>5 DEF SelectDatabaseLibrary

-----------------------------------------------------------------------------
(* A handler that changes one client, which keeps its session              *)
LEMMA OnePairs ==
  ASSUME Base, Wired, PairInv, strayed \subseteq strayed', pool' = pool, SameUse(session, session'),
         NEW c \in Clients, OtherClients(c, client, client'),
         client'[c].pair = client[c].pair,
         client'[c].wire # <<>> => client'[c].status \in {"auth", "select", "forward"},
         Paired(client, session, pool) /\ client[c].pair # None =>
           /\ client'[c].status \in {"selected", "forward"} /\ client'[c].chosen = client[c].chosen
  PROVE  Wired' /\ PairInv'
PROOF
<1>1. Wired' BY OneWired
<1>2. ASSUME Paired(client, session, pool) PROVE SamePairs(client, session, client')
  BY <1>2, OneKeeps
<1>3. PairInv' BY <1>2, KeepPairs
<1> QED BY <1>1, <1>3

LEMMA PollUse ==
  ASSUME session \in [Sessions -> SessionRecords], NEW s \in Sessions, session[s].poll # "none",
         NEW how \in Polls \ {"none"}
  PROVE  SameUse(session, [session EXCEPT ![s].poll = how])
PROOF
<1> DEFINE f == [session EXCEPT ![s].poll = how]
<1>1. /\ \A r \in Sessions \ {s} : f[r] = session[r]
      /\ f[s].poll = how
      /\ \A r \in Sessions : /\ f[r].list = session[r].list
                             /\ f[r].server = session[r].server /\ f[r].owner = session[r].owner
  BY PollEffect
<1> HIDE DEF f
<1>2. SameUse(session, f) BY <1>1 DEF SameUse
<1> QED BY <1>2 DEF f

(* OnReceivingAcceptedSocket                                               *)
LEMMA ReceivingPairs ==
  ASSUME Base, Wired, PairInv, NEW e, NEW c \in Clients, OnReceivingAccepted(c, e)
  PROVE  Wired' /\ PairInv'
PROOF
<1> DEFINE s == client[c].pair
<1>0. /\ client \in [Clients -> ClientRecords] /\ session \in [Sessions -> SessionRecords]
      /\ s \in Sessions \cup {None} /\ client[c].status \in Statuses
  BY FitNow DEF Fit
<1>b. Paired(client, session, pool) /\ s # None => client[c].status \in {"selected", "forward"}
  BY DEF Paired, Bound
<1>w. client[c].wire # <<>> => client[c].status \in {"auth", "select", "forward"} BY DEF Wired
<1>1. CASE ReceiveEnd(c, e) BY <1>1, CloseClientPairs DEF ReceiveEnd
<1>2. CASE ReceiveAuth(c, e)
  <2> DEFINE st == IF Head(client[c].wire).do = "auth" /\ client[c].buffer = <<>>
                   THEN "auth_ok" ELSE "auth_fail"
  <2>1. /\ client' = Replied(c, s, st, None) /\ client[c].status = "auth"
        /\ UNCHANGED <<session, pool, strayed>>
    BY <1>2 DEF ReceiveAuth
  <2>2. st \in Statuses /\ None \in Instances \cup {None} BY DEF Statuses
  <2> HIDE DEF st, s
  <2>3. OtherClients(c, client, client') /\ client'[c].pair = s /\ Wired'
    BY <1>0, <2>1, <2>2, SelectedWired
  <2>4. ASSUME Paired(client, session, pool) PROVE SamePairs(client, session, client')
    <3>1. s = None BY <1>b, <2>1, <2>4
    <3> QED BY <2>3, <2>4, <3>1, OneKeeps DEF s
  <2>5. SameUse(session, session') BY <2>1 DEF SameUse
  <2>6. PairInv' BY <2>1, <2>4, <2>5, KeepPairs
  <2> QED BY <2>3, <2>6
<1>3. CASE ReceiveLocal(c, e)
  <2>1. /\ client' = SelectFailed(c, s) /\ UNCHANGED <<session, pool, strayed>>
    BY <1>3 DEF ReceiveLocal
  <2> HIDE DEF s
  <2>2. /\ Wired' /\ OtherClients(c, client, client')
        /\ client'[c].pair = s /\ client'[c].status = client[c].status
        /\ client'[c].chosen = client[c].chosen
    BY <1>0, <2>1, SelectFailedWired
  <2>3. ASSUME Paired(client, session, pool) PROVE SamePairs(client, session, client')
    BY <1>b, <2>2, <2>3, OneKeeps DEF s
  <2>4. SameUse(session, session') BY <2>1 DEF SameUse
  <2>5. PairInv' BY <2>1, <2>3, <2>4, KeepPairs
  <2> QED BY <2>2, <2>5
<1>4. CASE ReceiveSelect(c, e)
  <2>1. client[c].status # "auth" /\ client[c].wire # <<>> /\ Commanded(c, "select")
    BY <1>4 DEF ReceiveSelect, Commanded
  <2>2. PICK i \in Understood(c) : SelectDatabaseLibrary(c, i, e) BY <1>4 DEF ReceiveSelect
  <2>4. i \in Instances BY <2>1, UnderstoodIs
  <2>3. client[c].status \in {"select", "selected", "forward"} BY <1>w, <2>1
  <2> QED BY <2>2, <2>3, <2>4, SelectLibraryPairs
<1>5. CASE ReceiveRequest(c, e)
  <2>1. CASE CloseClient(c, e) BY <2>1, CloseClientPairs
  <2>2. CASE Dies BY <2>2, DiesPairs
  <2>3. CASE /\ client[c].status = "forward"
             /\ s # None /\ session[s].poll # "none"
             /\ client' = [client EXCEPT ![c].poll = "err", ![c].wire = <<>>,
                                         ![c].buffer = @ \o Read(c), ![c].gone = AllRead(@)]
             /\ session' = [session EXCEPT ![s].poll = "out"]
             /\ UNCHANGED <<pool, strayed>>
    <3>1. s \in Sessions BY <1>0, <2>3
    <3> DEFINE f == [client EXCEPT ![c].poll = "err", ![c].wire = <<>>,
                                   ![c].buffer = @ \o Read(c), ![c].gone = AllRead(@)]
    <3>2. /\ \A d \in Clients \ {c} : f[d] = client[d]
          /\ f[c].wire = <<>> /\ f[c].status = client[c].status /\ f[c].pair = client[c].pair
          /\ f[c].chosen = client[c].chosen
      BY <1>0, RequestEffect
    <3>3. client' = f BY <2>3
    <3> HIDE DEF f
    <3>4. OtherClients(c, client, client') BY <3>2, <3>3 DEF OtherClients
    <3>5. /\ client'[c].pair = client[c].pair /\ client'[c].wire = <<>>
          /\ client'[c].status = "forward" /\ client'[c].chosen = client[c].chosen
      BY <2>3, <3>2, <3>3
    <3>6. SameUse(session, session')
      <4>1. "out" \in Polls \ {"none"} BY DEF Polls
      <4>2. session' = [session EXCEPT ![s].poll = "out"] /\ session[s].poll # "none" BY <2>3
      <4> HIDE DEF s
      <4> QED BY <1>0, <3>1, <4>1, <4>2, PollUse
    <3> QED BY <2>3, <3>4, <3>5, <3>6, OnePairs
  <2> QED BY <1>5, <2>1, <2>2, <2>3 DEF ReceiveRequest
<1> QED BY <1>1, <1>2, <1>3, <1>4, <1>5 DEF OnReceivingAccepted

(* OnAcceptingSocket                                                       *)
LEMMA AcceptingPairs ==
  ASSUME Base, Wired, PairInv, NEW e, OnAccepting(e)
  PROVE  Wired' /\ PairInv'
PROOF
<1>0. client \in [Clients -> ClientRecords] BY FitNow
<1>1. PICK new \in SUBSET {c \in Clients : client[c].status = "free"} :
        client' = [c \in Clients |-> IF c \in new THEN NewClient ELSE client[c]]
  BY DEF OnAccepting
<1>2. UNCHANGED <<session, pool, strayed>> BY DEF OnAccepting
<1>3. ASSUME NEW c \in Clients
      PROVE  client'[c] = client[c] \/ (client'[c] = NewClient /\ client[c].status = "free")
  BY <1>1
<1>4. NewClient.wire = <<>> /\ NewClient.pair = None BY DEF NewClient, FreeClient
<1>5. Wired' BY <1>3, <1>4 DEF Wired
<1>6. ASSUME Paired(client, session, pool) PROVE SamePairs(client, session, client')
  <2> SUFFICES ASSUME NEW d \in Clients
               PROVE  /\ client'[d].pair = client[d].pair
                      /\ client[d].pair # None =>
                           /\ client'[d].status \in {"selected", "forward"}
                           /\ InstanceOf(session[client[d].pair].server) = client'[d].chosen
    BY DEF SamePairs
  <2>1. client[d].pair # None => /\ client[d].status \in {"selected", "forward"}
                                 /\ InstanceOf(session[client[d].pair].server) = client[d].chosen
    BY <1>6 DEF Paired, Bound
  <2> QED BY <2>1, <1>3, <1>4
<1>7. SameUse(session, session') BY <1>2 DEF SameUse
<1>8. PairInv' BY <1>2, <1>6, <1>7, KeepPairs
<1> QED BY <1>5, <1>8

(* OnSendingAcceptedSocket                                                 *)
LEMMA SendingPairs ==
  ASSUME Base, Wired, PairInv, NEW e, NEW c \in Clients, OnSendingAccepted(c, e)
  PROVE  Wired' /\ PairInv'
PROOF
<1> DEFINE s == client[c].pair
<1>0. /\ client \in [Clients -> ClientRecords] /\ session \in [Sessions -> SessionRecords]
      /\ s \in Sessions \cup {None} /\ client[c].status \in Statuses
  BY FitNow DEF Fit
<1>b. Paired(client, session, pool) /\ s # None => client[c].status \in {"selected", "forward"}
  BY DEF Paired, Bound
<1>w. client[c].wire # <<>> => client[c].status \in {"auth", "select", "forward"} BY DEF Wired
<1>d. ASSUME NEW status \in Statuses, client' = Delivered(c, status)
      PROVE  /\ OtherClients(c, client, client') /\ client'[c].pair = client[c].pair
             /\ client'[c].wire = client[c].wire /\ client'[c].status = status
             /\ client'[c].chosen = client[c].chosen
  <2> DEFINE f == Delivered(c, status)
  <2>1. /\ \A d \in Clients \ {c} : f[d] = client[d]
        /\ f[c].wire = client[c].wire /\ f[c].pair = client[c].pair
        /\ f[c].status = status /\ f[c].chosen = client[c].chosen
    BY <1>0, DeliveredEffect
  <2>2. client' = f BY <1>d
  <2> HIDE DEF f
  <2> QED BY <2>1, <2>2 DEF OtherClients
<1>1. CASE SendFails(c, e) BY <1>1, CloseClientPairs DEF SendFails
<1>2. CASE SendBeforeForward(c, e)
  <2> DEFINE st == AfterSending(client[c].status)
  <2>1. /\ client' = Delivered(c, st) /\ UNCHANGED <<session, pool, strayed>>
        /\ client[c].status \in {"handshake", "auth_ok", "select", "selected"}
    BY <1>2 DEF SendBeforeForward
  <2>2. /\ st \in Statuses
        /\ client[c].status = "select" => st = "select"
        /\ client[c].status = "selected" => st = "forward"
    BY <1>0 DEF AfterSending, Statuses
  <2> HIDE DEF st
  <2>3. /\ OtherClients(c, client, client') /\ client'[c].pair = client[c].pair
        /\ client'[c].wire = client[c].wire /\ client'[c].status = st
        /\ client'[c].chosen = client[c].chosen
    BY <2>1, <2>2, <1>d
  <2>4. client'[c].wire # <<>> => client'[c].status \in {"auth", "select", "forward"}
    BY <1>w, <2>1, <2>2, <2>3
  <2>5. Paired(client, session, pool) /\ client[c].pair # None =>
          /\ client'[c].status \in {"selected", "forward"} /\ client'[c].chosen = client[c].chosen
    BY <1>b, <2>1, <2>2, <2>3
  <2>6. SameUse(session, session') BY <2>1 DEF SameUse
  <2> QED BY <2>1, <2>3, <2>4, <2>5, <2>6, OnePairs
<1>3. CASE SendForward(c, e)
  <2>1. CASE Dies BY <2>1, DiesPairs
  <2>2. CASE /\ client[c].status = "forward" /\ s # None /\ session[s].poll # "none"
             /\ client' = Delivered(c, "forward")
             /\ session' = [session EXCEPT ![s].poll = "in"]
             /\ UNCHANGED <<pool, strayed>>
    <3>1. /\ OtherClients(c, client, client') /\ client'[c].pair = client[c].pair
          /\ client'[c].wire = client[c].wire /\ client'[c].status = "forward"
          /\ client'[c].chosen = client[c].chosen
      <4>1. "forward" \in Statuses BY DEF Statuses
      <4> QED BY <2>2, <4>1, <1>d
    <3>2. SameUse(session, session')
      <4>1. "in" \in Polls \ {"none"} BY DEF Polls
      <4>2. /\ session' = [session EXCEPT ![s].poll = "in"] /\ session[s].poll # "none"
            /\ s \in Sessions
        BY <1>0, <2>2
      <4> HIDE DEF s
      <4> QED BY <1>0, <4>1, <4>2, PollUse
    <3> QED BY <2>2, <3>1, <3>2, OnePairs
  <2> QED BY <1>3, <2>1, <2>2 DEF SendForward
<1> QED BY <1>1, <1>2, <1>3 DEF OnSendingAccepted

-----------------------------------------------------------------------------
(* OnReceivingForwardSocket                                                *)
LEMMA AnsweringPairs ==
  ASSUME Base, Wired, PairInv, NEW e \in batch, NEW s \in Sessions, OnReceivingForward(s, e)
  PROVE  Wired' /\ PairInv'
PROOF
<1>0. session[s].list # "free" /\ Owner(s) \in Clients
  BY DEF Base, BatchShape, Shape, OnReceivingForward, Owner
<1>1. CASE ReceiveAnswer(s, e)
  <2> DEFINE c == Owner(s)
             a == session[s].answers
  <2>1. /\ client \in [Clients -> ClientRecords] /\ session \in [Sessions -> SessionRecords]
        /\ a \in Seq(Messages)
    BY DEF Base, TypeOK, SessionRecords
  <2>2. /\ session[s].poll # "none"
        /\ client' = [client EXCEPT ![c].buffer = @ \o a, ![c].poll = "out"]
        /\ session' = [session EXCEPT ![s].answers = <<>>, ![s].poll = "err"]
        /\ Acts(s) /\ pool' = pool
    BY <1>1 DEF ReceiveAnswer
  <2>3. c \in Clients BY <1>0
  <2> HIDE DEF a, c
  <2> DEFINE f == [client EXCEPT ![c].buffer = @ \o a, ![c].poll = "out"]
  <2>4. /\ \A d \in Clients \ {c} : f[d] = client[d]
        /\ f[c].status = client[c].status /\ f[c].pair = client[c].pair
        /\ f[c].wire = client[c].wire /\ f[c].chosen = client[c].chosen
    BY <2>1, <2>3, AnswerEffect
  <2>5. client' = f BY <2>2
  <2> HIDE DEF f
  <2>6. OtherClients(c, client, client') BY <2>4, <2>5 DEF OtherClients
  <2>7. SameUse(session, session')
    <3>1. /\ \A r \in Sessions \ {s} : session'[r] = session[r]
          /\ session'[s].poll = "err"
          /\ session'[s].list = session[s].list /\ session'[s].server = session[s].server
          /\ session'[s].owner = session[s].owner
      BY <2>1, <2>2, TakenUpEffect
    <3> QED BY <3>1, <2>2 DEF SameUse
  <2>8. /\ client'[c].wire # <<>> => client'[c].status \in {"auth", "select", "forward"}
        /\ Paired(client, session, pool) /\ client[c].pair # None =>
             /\ client'[c].status \in {"selected", "forward"} /\ client'[c].chosen = client[c].chosen
    BY <2>3, <2>4, <2>5 DEF Wired, Paired, Bound
  <2>9. strayed \subseteq strayed' /\ client'[c].pair = client[c].pair BY <2>2, <2>4, <2>5 DEF Acts
  <2> QED BY <2>2, <2>3, <2>6, <2>7, <2>8, <2>9, OnePairs
<1>2. CASE Dies BY <1>2, DiesPairs
<1>3. CASE CloseSession(s, e) BY <1>0, <1>3, CloseSessionPairs
<1> QED BY <1>1, <1>2, <1>3 DEF OnReceivingForward

(* OnSendingForwardSocket                                                  *)
LEMMA RequestingPairs ==
  ASSUME Base, Wired, PairInv, NEW e \in batch, NEW s \in Sessions, OnSendingForward(s, e)
  PROVE  Wired' /\ PairInv'
PROOF
<1>0. session[s].list # "free" /\ Owner(s) \in Clients
  BY DEF Base, BatchShape, Shape, OnSendingForward, Owner
<1>1. CASE SendRequest(s, e)
  <2> DEFINE c == Owner(s)
             q == client[c].buffer
             o == Head(q).of
  <2>1. client \in [Clients -> ClientRecords] /\ session \in [Sessions -> SessionRecords]
    BY DEF Base, TypeOK
  <2>2. /\ q # <<>> /\ session[s].poll # "none"
        /\ client' = [client EXCEPT ![c].buffer = <<>>]
        /\ \/ session' = [session EXCEPT ![s].poll = "in",
                            ![s].due = Append(@, [of |-> o, left |-> Parts])]
           \/ session' = [session EXCEPT ![s].poll = "in", ![s].link = "rst",
                            ![s].due = <<>>, ![s].answers = <<>>]
        /\ Acts(s) /\ pool' = pool
    BY <1>1 DEF SendRequest
  <2>3. o \in Clients \cup {None} /\ c \in Clients
    <3>1. q \in Seq(Messages) BY <1>0, <2>1 DEF ClientRecords
    <3>2. Head(q) \in Messages BY <2>2, <3>1, HeadTailProperties
    <3> QED BY <1>0, <3>2 DEF Messages
  <2> HIDE DEF o, q, c
  <2>4. /\ OtherClients(c, client, client')
        /\ client'[c].status = client[c].status /\ client'[c].pair = client[c].pair
        /\ client'[c].wire = client[c].wire /\ client'[c].chosen = client[c].chosen
    <3>1. client[c] \in ClientRecords BY <2>1, <2>3
    <3> DEFINE w == <<>>
               n == [client[c] EXCEPT !.buffer = w]
    <3>2. client' = [client EXCEPT ![c] = n] BY <2>2
    <3> HIDE DEF w
    <3>3. /\ n.status = client[c].status /\ n.pair = client[c].pair
          /\ n.wire = client[c].wire /\ n.chosen = client[c].chosen
      BY <3>1 DEF ClientRecords
    <3> HIDE DEF n
    <3> QED BY <2>1, <2>3, <3>2, <3>3 DEF OtherClients
  <2>5. SameUse(session, session')
    <3>1. /\ \A r \in Sessions \ {s} : session'[r] = session[r]
          /\ session'[s].poll = "in"
          /\ session'[s].list = session[s].list /\ session'[s].server = session[s].server
          /\ session'[s].owner = session[s].owner
      <4>1. CASE session' = [session EXCEPT ![s].poll = "in",
                               ![s].due = Append(@, [of |-> o, left |-> Parts])]
        BY <4>1, <2>1, <2>3, HeardEffect
      <4>2. CASE session' = [session EXCEPT ![s].poll = "in", ![s].link = "rst",
                               ![s].due = <<>>, ![s].answers = <<>>]
        BY <4>2, <2>1, UnheardEffect
      <4> QED BY <2>2, <4>1, <4>2
    <3> QED BY <3>1, <2>2 DEF SameUse
  <2>6. /\ client'[c].wire # <<>> => client'[c].status \in {"auth", "select", "forward"}
        /\ Paired(client, session, pool) /\ client[c].pair # None =>
             /\ client'[c].status \in {"selected", "forward"} /\ client'[c].chosen = client[c].chosen
    BY <2>3, <2>4 DEF Wired, Paired, Bound
  <2>7. strayed \subseteq strayed' BY <2>2 DEF Acts
  <2> QED BY <2>2, <2>3, <2>4, <2>5, <2>6, <2>7, OnePairs
<1>2. CASE Dies BY <1>2, DiesPairs
<1>3. CASE CloseSession(s, e) BY <1>0, <1>3, CloseSessionPairs
<1> QED BY <1>1, <1>2, <1>3 DEF OnSendingForward

(* A step that changes no client, and no use of a connection               *)
LEMMA StillPairs ==
  ASSUME Base, Wired, PairInv, client' = client, pool' = pool, strayed \subseteq strayed',
         SameUse(session, session')
  PROVE  Wired' /\ PairInv'
PROOF
<1>1. Wired' BY DEF Wired
<1>2. ASSUME Paired(client, session, pool) PROVE SamePairs(client, session, client')
  BY <1>2 DEF Paired, Bound, SamePairs
<1>3. PairInv' BY <1>2, KeepPairs
<1> QED BY <1>1, <1>3

(* A handler that only failed                                              *)
LEMMA OutlivedPairs ==
  ASSUME Base, Wired, PairInv, NEW e, Outlived(e)
  PROVE  Wired' /\ PairInv'
PROOF
<1>1. UNCHANGED <<client, session, pool, strayed>> BY DEF Outlived
<1>2. SameUse(session, session') BY <1>1 DEF SameUse
<1> QED BY <1>1, <1>2, StillPairs

(* Any handler                                                             *)
LEMMA HandlePairs ==
  ASSUME Base, Wired, PairInv, Handle
  PROVE  Wired' /\ PairInv'
PROOF
<1>1. PICK e \in batch :
        \/ OnAccepting(e)
        \/ \E c \in Clients :
             \/ OnReceivingAccepted(c, e) \/ OnSendingAccepted(c, e)
             \/ AcceptedError(c, e)       \/ AcceptedGone(c, e)
        \/ \E s \in Sessions :
             \/ OnReceivingForward(s, e)  \/ OnSendingForward(s, e)
             \/ ForwardError(s, e)        \/ ForwardGone(s, e)
  BY DEF Handle
<1>2. CASE OnAccepting(e) BY <1>2, AcceptingPairs
<1>3. ASSUME NEW c \in Clients, OnReceivingAccepted(c, e) PROVE Wired' /\ PairInv'
  BY <1>3, ReceivingPairs
<1>4. ASSUME NEW c \in Clients, OnSendingAccepted(c, e) PROVE Wired' /\ PairInv'
  BY <1>4, SendingPairs
<1>5. ASSUME NEW c \in Clients, AcceptedError(c, e) PROVE Wired' /\ PairInv'
  BY <1>5, CloseClientPairs DEF AcceptedError
<1>6. ASSUME NEW c \in Clients, AcceptedGone(c, e) PROVE Wired' /\ PairInv'
  BY <1>6, DiesPairs, OutlivedPairs DEF AcceptedGone
<1>7. ASSUME NEW s \in Sessions, OnReceivingForward(s, e) PROVE Wired' /\ PairInv'
  BY <1>7, AnsweringPairs
<1>8. ASSUME NEW s \in Sessions, OnSendingForward(s, e) PROVE Wired' /\ PairInv'
  BY <1>8, RequestingPairs
<1>9. ASSUME NEW s \in Sessions, ForwardError(s, e) PROVE Wired' /\ PairInv'
  <2>1. session[s].list # "free" BY <1>9 DEF ForwardError, Base, BatchShape
  <2> QED BY <1>9, <2>1, CloseSessionPairs DEF ForwardError
<1>10. ASSUME NEW s \in Sessions, ForwardGone(s, e) PROVE Wired' /\ PairInv'
  BY <1>10, DiesPairs, OutlivedPairs DEF ForwardGone
<1> QED BY <1>1, <1>2, <1>3, <1>4, <1>5, <1>6, <1>7, <1>8, <1>9, <1>10

(* The end of a turn keeps the younger part of every pool.                 *)
LEMMA TurnPairs ==
  ASSUME Base, Wired, PairInv, Turn
  PROVE  Wired' /\ PairInv'
PROOF
<1>1. PICK keep \in [Servers -> 0..Cardinality(Sessions)] :
        /\ \A v \in Servers : keep[v] <= Len(pool[v])
        /\ pool' = [v \in Servers |-> SubSeq(pool[v], Len(pool[v]) - keep[v] + 1, Len(pool[v]))]
        /\ session' = [s \in Sessions |-> IF s \in Expired(keep) THEN FreeSession ELSE session[s]]
  BY DEF Turn
<1>2. client' = client /\ strayed' = strayed /\ ~Tangled BY DEF Turn
<1>3. \A v \in Servers : keep[v] \in Nat /\ keep[v] <= Len(pool[v])
  <2>1. \A v \in Servers : keep[v] \in 0..Cardinality(Sessions) BY <1>1
  <2>2. \A x \in 0..Cardinality(Sessions) : x \in Nat OBVIOUS
  <2> QED BY <1>1, <2>1, <2>2
<1>4. Wired' BY <1>2 DEF Wired
<1> DEFINE p == KeptPools(keep)
<1>5. pool' = p BY <1>1, Zenon DEF KeptPools
<1>6. /\ p \in [Servers -> Seq(Sessions)]
      /\ \A v \in Servers : \A k \in DOMAIN p[v] :
           /\ session[p[v][k]].list = "pool" /\ session[p[v][k]].server = v
           /\ p[v][k] \notin Expired(keep)
           /\ k \in Nat /\ Len(pool[v]) - keep[v] + k \in DOMAIN pool[v]
           /\ p[v][k] = pool[v][Len(pool[v]) - keep[v] + k]
  BY <1>2, <1>3, KeptStay
<1>7. \A v \in Servers : DOMAIN p[v] = 1..keep[v] /\ Len(pool[v]) \in Nat /\ DOMAIN pool[v] = 1..Len(pool[v])
  <2> SUFFICES ASSUME NEW v \in Servers
               PROVE  DOMAIN p[v] = 1..keep[v] /\ Len(pool[v]) \in Nat /\ DOMAIN pool[v] = 1..Len(pool[v])
    OBVIOUS
  <2> DEFINE q == pool[v]
             n == keep[v]
  <2>1. q \in Seq(Sessions) /\ n \in Nat /\ n <= Len(q) BY <1>3 DEF Base, TypeOK
  <2>2. p[v] = SubSeq(q, Len(q) - n + 1, Len(q)) BY DEF KeptPools
  <2> HIDE DEF q, n, p
  <2>3. Len(q) \in Nat /\ DOMAIN q = 1..Len(q) BY <2>1, LenProperties
  <2>4. Len(q) - (Len(q) - n + 1) + 1 = n BY <2>1, <2>3
  <2>5. DOMAIN p[v] = 1..n BY <2>1, <2>2, <2>3, <2>4, SMT
  <2> QED BY <2>3, <2>5 DEF q, n
<1>8. \A s \in Sessions : /\ s \in Expired(keep) => session'[s] = FreeSession
                          /\ s \notin Expired(keep) => session'[s] = session[s]
  BY <1>1
<1>9. FreeSession.list = "free" BY DEF FreeSession
<1> HIDE DEF p
<1>10. ASSUME "pair" \notin strayed' PROVE Paired(client, session', p)
  <2>1. Paired(client, session, pool) BY <1>2, <1>10 DEF PairInv
  <2>2. \A s \in Sessions : session[s].list = "work" => s \notin Expired(keep)
    <3> SUFFICES ASSUME NEW v \in Servers, NEW k \in 1..(Len(pool[v]) - keep[v])
                 PROVE  session[pool[v][k]].list # "work"
      BY DEF Expired
    <3>1. k \in DOMAIN pool[v] BY <1>3, <1>7
    <3> QED BY <2>1, <3>1 DEF Paired, Stored
  <2>3. Bound(client, session')
    <3> SUFFICES ASSUME NEW c \in Clients, client[c].pair # None
                 PROVE  /\ session'[client[c].pair].list = "work" /\ session'[client[c].pair].owner = c
                        /\ client[c].status \in {"selected", "forward"}
                        /\ InstanceOf(session'[client[c].pair].server) = client[c].chosen
      BY DEF Bound
    <3>1. client[c].pair \in Sessions BY FitNow DEF Fit
    <3>2. session[client[c].pair].list = "work" BY <2>1 DEF Paired, Bound
    <3>3. session'[client[c].pair] = session[client[c].pair] BY <1>8, <2>2, <3>1, <3>2
    <3> QED BY <2>1, <3>3 DEF Paired, Bound
  <2>4. Used(client, session')
    <3> SUFFICES ASSUME NEW s \in Sessions, session'[s].list = "work"
                 PROVE  session'[s].poll # "none" /\ client[session'[s].owner].pair = s
      BY DEF Used
    <3>1. session'[s] = session[s] BY <1>8, <1>9
    <3> QED BY <2>1, <3>1 DEF Paired, Used
  <2>5. ASSUME NEW s \in Sessions, session'[s].list = "pool"
        PROVE  session'[s].poll = "none" /\ \E k \in DOMAIN p[session'[s].server] : p[session'[s].server][k] = s
    <3>1. s \notin Expired(keep) /\ session'[s] = session[s] BY <1>8, <1>9, <2>5
    <3> DEFINE v == session[s].server
    <3>2. session[s].list = "pool" BY <2>5, <3>1
    <3>3. session[s].poll = "none" /\ v \in Servers /\ \E k \in DOMAIN pool[v] : pool[v][k] = s
      BY <2>1, <3>2 DEF Paired, Stored, Base, Shape
    <3> HIDE DEF v
    <3>4. PICK k \in DOMAIN pool[v] : pool[v][k] = s BY <3>3
    <3>5. ~ (k \in 1..(Len(pool[v]) - keep[v])) BY <3>1, <3>3, <3>4 DEF Expired
    <3>6. k \in 1..Len(pool[v]) /\ Len(pool[v]) \in Nat /\ keep[v] \in Nat /\ keep[v] <= Len(pool[v])
      BY <1>3, <1>7, <3>3
    <3> DEFINE j == k - (Len(pool[v]) - keep[v])
    <3>7. j \in 1..keep[v] /\ Len(pool[v]) - keep[v] + j = k BY <3>5, <3>6
    <3> HIDE DEF j
    <3>8. j \in DOMAIN p[v] BY <1>7, <3>3, <3>7
    <3>9. p[v][j] = s BY <1>6, <3>3, <3>4, <3>7, <3>8
    <3> QED BY <3>1, <3>3, <3>8, <3>9 DEF v
  <2>6. ASSUME NEW v \in Servers, NEW k \in DOMAIN p[v]
        PROVE  /\ session'[p[v][k]].list = "pool" /\ session'[p[v][k]].server = v
               /\ \A j \in DOMAIN p[v] : p[v][j] = p[v][k] => j = k
    <3>1. p[v][k] \in Sessions
      <4>1. p[v] \in Seq(Sessions) BY <1>6
      <4> QED BY <4>1, ElementOfSeq, LenProperties
    <3>2. session'[p[v][k]].list = "pool" /\ session'[p[v][k]].server = v
      <4> DEFINE x == p[v][k]
      <4>1. x \in Sessions /\ session[x].list = "pool" /\ session[x].server = v /\ x \notin Expired(keep)
        BY <1>6, <3>1
      <4> HIDE DEF x
      <4>2. session'[x] = session[x] BY <1>8, <4>1
      <4>3. session'[x].list = "pool" /\ session'[x].server = v BY <4>1, <4>2
      <4> QED BY <4>3 DEF x
    <3>3. ASSUME NEW j \in DOMAIN p[v], p[v][j] = p[v][k] PROVE j = k
      <4> DEFINE n == Len(pool[v]) - keep[v]
      <4>1. /\ n + j \in DOMAIN pool[v] /\ n + k \in DOMAIN pool[v] /\ j \in Nat /\ k \in Nat
            /\ p[v][j] = pool[v][n + j] /\ p[v][k] = pool[v][n + k]
        BY <1>6
      <4>2. n \in Int BY <1>3, <1>7
      <4> HIDE DEF n
      <4>3. \A x, y \in DOMAIN pool[v] : pool[v][x] = pool[v][y] => x = y
        BY <2>1 DEF Paired, Stored
      <4>4. pool[v][n + j] = pool[v][n + k] BY <3>3, <4>1
      <4> DEFINE x == n + j
                 y == n + k
      <4>5. x \in DOMAIN pool[v] /\ y \in DOMAIN pool[v] /\ pool[v][x] = pool[v][y] BY <4>1, <4>4
      <4> HIDE DEF x, y
      <4>6. x = y BY <4>3, <4>5
      <4> QED BY <4>1, <4>2, <4>6 DEF x, y
    <3> QED BY <3>2, <3>3
  <2> QED BY <2>3, <2>4, <2>5, <2>6 DEF Paired, Stored
<1>11. PairInv' BY <1>2, <1>5, <1>10 DEF PairInv, Paired, Bound, Used, Stored
<1> QED BY <1>4, <1>11

-----------------------------------------------------------------------------
LEMMA RestartPairs ==
  ASSUME Base, Restart
  PROVE  Wired' /\ PairInv'
PROOF
<1>1. worker = "dead" /\ UNCHANGED <<client, session, pool>> BY DEF Restart
<1>2. /\ client' = [c \in Clients |-> FreeClient] /\ session' = [s \in Sessions |-> FreeSession]
      /\ pool' = [v \in Servers |-> <<>>]
  BY <1>1 DEF Base, DeadShape
<1>3. Paired(client', session', pool') BY <1>2, PairedFree
<1>4. \A c \in Clients : client'[c].wire = <<>> BY <1>2 DEF FreeClient
<1> QED BY <1>3, <1>4 DEF Wired, PairInv, Paired, Bound, Used, Stored

(* Clients and servers                                                     *)
LEMMA EnvironmentPairs ==
  ASSUME Base, Wired, PairInv, Environment
  PROVE  Wired' /\ PairInv'
PROOF
<1>0. client \in [Clients -> ClientRecords] /\ session \in [Sessions -> SessionRecords] BY FitNow
<1>1. CASE ClientConnects
  <2>1. UNCHANGED <<client, session, pool, strayed>> BY <1>1 DEF ClientConnects
  <2>2. SameUse(session, session') BY <2>1 DEF SameUse
  <2> QED BY <2>1, <2>2, StillPairs
<1>2. ASSUME NEW c \in Clients, ClientSends(c) PROVE Wired' /\ PairInv'
  <2>1. PICK m \in Sendable(client[c].status) :
          client' = [client EXCEPT ![c].wire = <<m>>, ![c].turn = "wait"]
    BY <1>2 DEF ClientSends
  <2>2. UNCHANGED <<session, pool, strayed>> BY <1>2 DEF ClientSends
  <2>3. m \in Command /\ client[c].status \in {"auth", "select", "forward"} BY SendableIs
  <2>4. /\ \A d \in Clients \ {c} : client'[d] = client[d]
        /\ client'[c].status = client[c].status /\ client'[c].pair = client[c].pair
        /\ client'[c].chosen = client[c].chosen
    BY ZenonT(60), <1>0, <2>1, <2>3, SentEffect
  <2>5. OtherClients(c, client, client') BY <2>4 DEF OtherClients
  <2>6. Paired(client, session, pool) /\ client[c].pair # None =>
          client'[c].status \in {"selected", "forward"} /\ client'[c].chosen = client[c].chosen
    BY <2>4 DEF Paired, Bound
  <2>7. SameUse(session, session') BY <2>2 DEF SameUse
  <2> QED BY <2>2, <2>3, <2>4, <2>5, <2>6, <2>7, OnePairs
<1>3. ASSUME NEW c \in Clients, ClientLeaves(c) PROVE Wired' /\ PairInv'
  <2>1. PICK how \in {"fin", "rst", "quit"} :
          client' = [client EXCEPT ![c].gone = how,
                                   ![c].wire = IF how = "rst" THEN <<>> ELSE @]
    BY <1>3 DEF ClientLeaves
  <2>2. UNCHANGED <<session, pool>> /\ strayed \subseteq strayed' BY <1>3 DEF ClientLeaves, Ended
  <2>3. /\ \A d \in Clients \ {c} : client'[d] = client[d]
        /\ client'[c].status = client[c].status /\ client'[c].pair = client[c].pair
        /\ client'[c].chosen = client[c].chosen
        /\ client'[c].wire # <<>> => client'[c].wire = client[c].wire
    <3> DEFINE w == IF how = "rst" THEN <<>> ELSE client[c].wire
               r == [client[c] EXCEPT !.gone = how, !.wire = w]
    <3>1. client[c] \in ClientRecords BY <1>0
    <3>2. client' = [client EXCEPT ![c] = r] BY <1>0, <2>1
    <3>3. w # <<>> => w = client[c].wire OBVIOUS
    <3> HIDE DEF w
    <3>4. /\ r.status = client[c].status /\ r.pair = client[c].pair
          /\ r.chosen = client[c].chosen /\ r.wire = w
      BY <3>1 DEF ClientRecords
    <3> HIDE DEF r
    <3> QED BY <1>0, <3>2, <3>3, <3>4
  <2>4. OtherClients(c, client, client') BY <2>3 DEF OtherClients
  <2>5. Paired(client, session, pool) /\ client[c].pair # None =>
          client'[c].status \in {"selected", "forward"} /\ client'[c].chosen = client[c].chosen
    BY <2>3 DEF Paired, Bound
  <2>6. client'[c].wire # <<>> => client'[c].status \in {"auth", "select", "forward"}
    BY <2>3 DEF Wired
  <2>7. SameUse(session, session') BY <2>2 DEF SameUse
  <2> QED BY <2>2, <2>3, <2>4, <2>5, <2>6, <2>7, OnePairs
<1>4. ASSUME NEW s \in Sessions, ServerAnswers(s) PROVE Wired' /\ PairInv'
  <2>1. UNCHANGED <<client, pool, strayed>> BY <1>4 DEF ServerAnswers
  <2>2. /\ \A r \in Sessions \ {s} : session'[r] = session[r]
        /\ session'[s].list = session[s].list /\ session'[s].server = session[s].server
        /\ session'[s].owner = session[s].owner /\ session'[s].poll = session[s].poll
    BY <1>0, <1>4, AnsweredEffect
  <2>3. SameUse(session, session') BY <2>2 DEF SameUse
  <2> QED BY <2>1, <2>3, StillPairs
<1>5. ASSUME NEW s \in Sessions, ServerCloses(s) PROVE Wired' /\ PairInv'
  <2>1. UNCHANGED <<client, pool>> /\ strayed \subseteq strayed' BY <1>5 DEF ServerCloses, Ended
  <2>2. /\ \A r \in Sessions \ {s} : session'[r] = session[r]
        /\ session'[s].list = session[s].list /\ session'[s].server = session[s].server
        /\ session'[s].owner = session[s].owner /\ session'[s].poll = session[s].poll
    BY <1>0, <1>5, ClosedEffect
  <2>3. SameUse(session, session') BY <2>2 DEF SameUse
  <2> QED BY <2>1, <2>3, StillPairs
<1>6. ASSUME NEW v \in Servers, ServerFails(v) PROVE Wired' /\ PairInv'
  <2>1. UNCHANGED <<client, pool>> /\ strayed \subseteq strayed' /\ session' = Down(v, session)
    BY <1>6 DEF ServerFails, Ended
  <2>2. \A r \in Sessions :
          /\ session'[r].list = session[r].list /\ session'[r].server = session[r].server
          /\ session'[r].owner = session[r].owner /\ session'[r].poll = session[r].poll
    BY <1>0, <2>1, DownEffect
  <2>3. SameUse(session, session') BY <2>2 DEF SameUse
  <2> QED BY <2>1, <2>3, StillPairs
<1>7. ASSUME NEW v \in Servers, ServerReturns(v) PROVE Wired' /\ PairInv'
  <2>1. UNCHANGED <<client, session, pool, strayed>> BY <1>7 DEF ServerReturns, worker_vars
  <2>2. SameUse(session, session') BY <2>1 DEF SameUse
  <2> QED BY <2>1, <2>2, StillPairs
<1> QED BY <1>1, <1>2, <1>3, <1>4, <1>5, <1>6, <1>7 DEF Environment

LEMMA PairsInit ==
  ASSUME Init
  PROVE  Wired /\ PairInv
PROOF
<1>1. /\ client = [c \in Clients |-> FreeClient] /\ session = [s \in Sessions |-> FreeSession]
      /\ pool = [v \in Servers |-> <<>>]
  BY DEF Init
<1>2. Paired(client, session, pool) BY <1>1, PairedFree
<1>3. \A c \in Clients : client[c].wire = <<>> BY <1>1 DEF FreeClient
<1> QED BY <1>2, <1>3 DEF Wired, PairInv

LEMMA PairsStep ==
  ASSUME Base, Wired, PairInv, [Next]_vars
  PROVE  Wired' /\ PairInv'
PROOF
<1>1. CASE Worker
  <2>1. Handle \/ Turn BY <1>1 DEF Worker
  <2> QED BY <2>1, HandlePairs, TurnPairs
<1>2. CASE Restart BY <1>2, RestartPairs
<1>3. CASE ReloadConfig
  <2>1. UNCHANGED <<client, session, pool, strayed>> BY <1>3 DEF ReloadConfig
  <2>2. SameUse(session, session') BY <2>1 DEF SameUse
  <2> QED BY <2>1, <2>2, StillPairs
<1>4. CASE Environment BY <1>4, EnvironmentPairs
<1>5. CASE UNCHANGED vars
  <2>1. UNCHANGED <<client, session, pool, strayed>> BY <1>5 DEF vars, worker_vars
  <2>2. SameUse(session, session') BY <2>1 DEF SameUse
  <2> QED BY <2>1, <2>2, StillPairs
<1> QED BY <1>1, <1>2, <1>3, <1>4, <1>5 DEF Next

(* In every state, unless a server session acted for, or was given to, a   *)
(* client not its own, a connection in work belongs to exactly one client  *)
(* and a pooled one to none.                                               *)
THEOREM ThePairs == Spec => [](Base /\ Wired /\ PairInv)
PROOF
<1>1. Init => Base /\ Wired /\ PairInv BY InitBase, PairsInit
<1>2. Base /\ Wired /\ PairInv /\ [Next]_vars => (Base /\ Wired /\ PairInv)'
  BY BaseStep, PairsStep
<1> QED BY <1>1, <1>2, PTL DEF Spec

-----------------------------------------------------------------------------
(* What Paired says of one connection: who uses it and where it is stored. *)
LEMMA PairedNobodyShares ==
  ASSUME Base, PairInv
  PROVE  InWorkOrPooled
PROOF
<1> SUFFICES ASSUME "pair" \notin strayed, NEW s \in Sessions
             PROVE  LET users  == {c \in Clients : client[c].pair = s}
                        places == UNION {{v} \X {k \in DOMAIN pool[v] : pool[v][k] = s} : v \in Servers}
                    IN  /\ session[s].list = "work" =>
                             (\E c \in Clients : users = {c}) /\ places = {} /\ session[s].poll # "none"
                        /\ session[s].list = "pool" =>
                             /\ users = {} /\ session[s].poll = "none"
                             /\ \E k \in DOMAIN pool[session[s].server] : places = {<<session[s].server, k>>}
                        /\ session[s].list = "free" => users = {} /\ places = {}
  BY DEF InWorkOrPooled
<1> DEFINE users  == {c \in Clients : client[c].pair = s}
           places == UNION {{v} \X {k \in DOMAIN pool[v] : pool[v][k] = s} : v \in Servers}
<1>0. Bound(client, session) /\ Used(client, session) /\ Stored(session, pool)
  BY DEF PairInv, Paired
<1>1. s # None BY SessionsAssumption
<1>2. \A c \in users : session[s].list = "work" /\ session[s].owner = c BY <1>0, <1>1 DEF Bound
<1>3. \A x \in places : x[1] \in Servers /\ x[2] \in DOMAIN pool[x[1]] /\ pool[x[1]][x[2]] = s
                        /\ x = <<x[1], x[2]>>
  OBVIOUS
<1>4. \A v \in Servers : \A k \in DOMAIN pool[v] : pool[v][k] = s => <<v, k>> \in places
  OBVIOUS
<1>5. \A x \in places : session[s].list = "pool" /\ session[s].server = x[1] BY <1>0, <1>3 DEF Stored
<1>6. ASSUME session[s].list = "work"
      PROVE  (\E c \in Clients : users = {c}) /\ places = {} /\ session[s].poll # "none"
  <2> DEFINE c == session[s].owner
  <2>1. c \in Clients BY <1>6 DEF Base, Shape
  <2>2. client[c].pair = s /\ session[s].poll # "none" BY <1>0, <1>6 DEF Used
  <2>3. users = {c} BY <1>2, <2>1, <2>2
  <2>4. places = {} BY <1>5, <1>6
  <2> QED BY <2>1, <2>2, <2>3, <2>4
<1>7. ASSUME session[s].list = "pool"
      PROVE  /\ users = {} /\ session[s].poll = "none"
             /\ \E k \in DOMAIN pool[session[s].server] : places = {<<session[s].server, k>>}
  <2> DEFINE v == session[s].server
  <2>1. v \in Servers BY <1>7 DEF Base, Shape
  <2>2. session[s].poll = "none" /\ \E k \in DOMAIN pool[v] : pool[v][k] = s BY <1>0, <1>7 DEF Stored
  <2>3. PICK k \in DOMAIN pool[v] : pool[v][k] = s BY <2>2
  <2>4. \A j \in DOMAIN pool[v] : pool[v][j] = s => j = k BY <1>0, <2>1, <2>3 DEF Stored
  <2>5. <<v, k>> \in places BY <1>4, <2>1, <2>3
  <2>6. \A x \in places : x = <<v, k>> BY <1>3, <1>5, <2>4
  <2>7. users = {} BY <1>2, <1>7
  <2> HIDE DEF users, places
  <2>8. places = {<<v, k>>} BY <2>5, <2>6
  <2> QED BY <2>2, <2>7, <2>8
<1>8. session[s].list = "free" => users = {} /\ places = {} BY <1>2, <1>5
<1> QED BY <1>6, <1>7, <1>8

(* OnClosingAcceptedSocket, OnClosingForwardSocket and SelectMysqlServer   *)
(* move connections between the working list, the pool and nowhere: every  *)
(* connection of the worker is in exactly one place, for exactly one       *)
(* client, whatever the numbers of clients, servers and groups.            *)
THEOREM NobodyShares == Spec => []InWorkOrPooled
PROOF
<1>1. Base /\ PairInv => InWorkOrPooled BY PairedNobodyShares
<1> QED BY <1>1, ThePairs, PTL

(* "select library" leaves a client with a connection to a server of the   *)
(* group it asked for, the old one reused or a new one.                    *)
THEOREM GroupIsRight == Spec => []RightGroup
PROOF
<1>1. PairInv => RightGroup BY DEF PairInv, Paired, Bound, RightGroup
<1> QED BY <1>1, ThePairs, PTL

=============================================================================
