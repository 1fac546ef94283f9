----------------------- MODULE Sessions_turns_proofs ------------------------
(***************************************************************************)
(* The one buffer of a bridge is used in one direction at a time, and a    *)
(* calm worker lives: HalfDuplex and CalmLives of Sessions.                *)
(*                                                                         *)
(* The first invariant is Duplex.  A client and its server session are in  *)
(* one of three phases (PairTurn): the buffer is empty and the server is   *)
(* read; it is written to the client; or it is written to the server and   *)
(* holds the request of the client, or what a client that quit has left    *)
(* (Outgoing).  A client whose turn it is, or whose request is not yet     *)
(* read, has nothing more to expect from the server.  That events of the   *)
(* batch do not come too late for this is Timely: a session that is in the *)
(* batch for writing still wants to be written to, and its client is not in*)
(* the batch for reading; a server session that is in the batch for reading*)
(* has not been read yet, or its server has nothing to say (Parted).       *)
(*                                                                         *)
(* The second is Calm, at the end of the module: while nobody has ended a  *)
(* connection, no event of a batch is outdated, so that no handler comes   *)
(* to a branch that follows a pointer to what was freed.                   *)
(***************************************************************************)
EXTENDS Sessions_pairs_proofs

Fits(m, c) == m = Own \/ (m.kind = "answer" /\ m.of = c)

Ends(q) == \E k \in DOMAIN q : q[k].last

(* Nothing is unread, and nothing will come.                               *)
Quiet(y) == y.due = <<>> /\ y.answers = <<>>

(* x: a client session, that of c.                                         *)
ClientTurn(x, c) ==
  /\ x.poll = "out" => x.buffer # <<>> /\ \A k \in DOMAIN x.buffer : Fits(x.buffer[k], c)
  /\ x.turn = "send" \/ x.wire # <<>> => x.buffer = <<>> /\ x.poll = "in"
  /\ x.wire # <<>> => x.turn = "wait"

(* y: its server session.  One request at most is not answered, that of c. *)
Asked(y, c) ==
  /\ Len(y.due) <= 1 /\ \A k \in DOMAIN y.due : y.due[k].of = c
  /\ \A k \in DOMAIN y.answers : y.answers[k].kind = "answer" /\ y.answers[k].of = c
  /\ Ends(y.answers) => y.due = <<>>

(* What is written to the server: the request, or what a client that quit  *)
(* has left, which may begin with a part of an answer.                     *)
Outgoing(x, c) ==
  \/ x.buffer = <<Query(c)>>
  \/ /\ x.gone # "no" /\ x.buffer # <<>> /\ x.buffer[Len(x.buffer)] = Quit
     /\ Head(x.buffer).kind = "query" => Head(x.buffer) = Query(c)

Phase(x, y, c) ==
  \/ x.buffer = <<>> /\ x.poll \in {"in", "err"} /\ y.poll = "in"
  \/ x.poll = "out" /\ y.poll \in {"in", "err"}
  \/ Outgoing(x, c) /\ x.poll = "err" /\ y.poll = "out"

PairTurn(x, y, c) ==
  /\ Asked(y, c) /\ Phase(x, y, c)
  /\ x.turn = "send" \/ x.wire # <<>> \/ x.status = "selected" \/ Ends(x.buffer)
       => Quiet(y)
  /\ y.poll = "out" /\ Head(x.buffer).kind = "query" => Quiet(y)
  /\ x.status = "selected" => y.poll = "in"

TurnOf(cl, ses, c) ==
  ClientTurn(cl[c], c) /\ (cl[c].pair # None => PairTurn(cl[c], ses[cl[c].pair], c))

TakeTurns(cl, ses) == \A c \in Clients : TurnOf(cl, ses, c)

(* A connection in the batch for reading has not been read yet.            *)
Heeded(y, s, b) ==
  [who |-> s, what |-> "in"] \in b => y.poll = "in" \/ (y.poll = "out" /\ Quiet(y))

(* x: a client session, that of c.  What is in the buffer of a client in   *)
(* the batch for reading came from its connection just before.             *)
Parted(x, ses, b, c) ==
  x.pair # None =>
    /\ Heeded(ses[x.pair], x.pair, b)
    /\ [who |-> c, what |-> "in"] \in b /\ x.buffer # <<>> => ses[x.pair].poll # "in"

Timely(cl, ses, b) ==
  /\ \A s \in Sessions : [who |-> s, what |-> "out"] \in b =>
       /\ ses[s].list = "work" => ses[s].poll = "out"
       /\ [who |-> ses[s].owner, what |-> "in"] \notin b
  /\ \A c \in Clients : [who |-> c, what |-> "out"] \in b =>
       /\ cl[c].status \in {"free", "leaked"} \/ cl[c].poll = "out"
       /\ [who |-> c, what |-> "in"] \notin b
  /\ \A c \in Clients : Parted(cl[c], ses, b, c)

Duplex == strayed \subseteq {"end"} => TakeTurns(client, session) /\ Timely(client, session, batch)

(* Other connections in work, and those that are not of c, are left alone. *)
Untouched(c, ses2) ==
  \A r \in Sessions : session[r].list = "work" /\ session[r].owner # c => ses2[r] = session[r]

Mine(c, ses2) ==
  \A r \in Sessions : session[r].list # "free" /\ session[r].owner # c => ses2[r] = session[r]

(* Events that are left do not become outdated.                            *)
Steady(ses2, b2) ==
  \A r \in Sessions : [who |-> r, what |-> "out"] \in b2 =>
    ses2[r].owner = session[r].owner /\ (ses2[r].list = "work" => ses2[r].poll = "out")

LEMMA OneTurn ==
  ASSUME Base, Paired(client, session, pool), TakeTurns(client, session),
         NEW c \in Clients, NEW cl2, OtherClients(c, client, cl2),
         NEW ses2, Untouched(c, ses2), TurnOf(cl2, ses2, c)
  PROVE  TakeTurns(cl2, ses2)
PROOF
<1> SUFFICES ASSUME NEW d \in Clients PROVE TurnOf(cl2, ses2, d) BY DEF TakeTurns
<1>1. CASE d = c BY <1>1
<1>2. CASE d # c
  <2>1. cl2[d] = client[d] BY <1>2 DEF OtherClients
  <2>2. ASSUME client[d].pair # None PROVE ses2[client[d].pair] = session[client[d].pair]
    <3>1. client[d].pair \in Sessions BY <2>2, FitNow DEF Fit
    <3>2. session[client[d].pair].list = "work" /\ session[client[d].pair].owner = d
      BY <2>2 DEF Paired, Bound
    <3> QED BY <1>2, <3>1, <3>2 DEF Untouched
  <2>3. TurnOf(client, session, d) BY DEF TakeTurns
  <2> QED BY <2>1, <2>2, <2>3 DEF TurnOf
<1> QED BY <1>1, <1>2

LEMMA OneTimely ==
  ASSUME Base, Paired(client, session, pool),
         Timely(client, session, batch), NEW b2, b2 \subseteq batch,
         NEW c \in Clients, NEW cl2, OtherClients(c, client, cl2),
         [who |-> c, what |-> "out"] \in b2 =>
           cl2[c].status \in {"free", "leaked"} \/ cl2[c].poll = "out",
         NEW ses2, Steady(ses2, b2), Untouched(c, ses2), Parted(cl2[c], ses2, b2, c)
  PROVE  Timely(cl2, ses2, b2)
PROOF
<1>1. ASSUME NEW s \in Sessions, [who |-> s, what |-> "out"] \in b2
      PROVE  /\ ses2[s].list = "work" => ses2[s].poll = "out"
             /\ [who |-> ses2[s].owner, what |-> "in"] \notin b2
  BY <1>1 DEF Timely, Steady
<1>2. ASSUME NEW d \in Clients, [who |-> d, what |-> "out"] \in b2
      PROVE  /\ cl2[d].status \in {"free", "leaked"} \/ cl2[d].poll = "out"
             /\ [who |-> d, what |-> "in"] \notin b2
  <2>1. [who |-> d, what |-> "in"] \notin b2 BY <1>2 DEF Timely
  <2>2. CASE d = c BY <1>2, <2>1, <2>2
  <2>3. CASE d # c
    <3>1. cl2[d] = client[d] BY <2>3 DEF OtherClients
    <3> QED BY <1>2, <2>1, <3>1 DEF Timely
  <2> QED BY <2>2, <2>3
<1>3. ASSUME NEW d \in Clients PROVE Parted(cl2[d], ses2, b2, d)
  <2>1. CASE d = c BY <2>1
  <2>2. CASE d # c
    <3>1. cl2[d] = client[d] BY <2>2 DEF OtherClients
    <3>2. ASSUME client[d].pair # None PROVE ses2[client[d].pair] = session[client[d].pair]
      <4>1. client[d].pair \in Sessions BY <3>2, FitNow DEF Fit
      <4>2. session[client[d].pair].list = "work" /\ session[client[d].pair].owner = d
        BY <3>2 DEF Paired, Bound
      <4> QED BY <2>2, <4>1, <4>2 DEF Untouched
    <3>3. Parted(client[d], session, batch, d) BY DEF Timely
    <3> QED BY <3>1, <3>2, <3>3 DEF Parted, Heeded
  <2> QED BY <2>1, <2>2
<1> QED BY <1>1, <1>2, <1>3 DEF Timely

LEMMA SameSteady ==
  ASSUME Timely(client, session, batch), NEW b2, b2 \subseteq batch
  PROVE  Steady(session, b2)
BY DEF Timely, Steady

(* While a client is in the batch for reading its connections are not in   *)
(* the batch for writing.                                                  *)
LEMMA MineSteady ==
  ASSUME Base, Timely(client, session, batch), NEW c \in Clients,
         [who |-> c, what |-> "in"] \in batch, NEW b2, b2 \subseteq batch, NEW ses2, Mine(c, ses2)
  PROVE  Steady(ses2, b2) /\ Untouched(c, ses2)
PROOF
<1>1. ASSUME NEW r \in Sessions, [who |-> r, what |-> "out"] \in b2
      PROVE  ses2[r].owner = session[r].owner /\ (ses2[r].list = "work" => ses2[r].poll = "out")
  <2>1. [who |-> r, what |-> "out"] \in batch BY <1>1
  <2>2. session[r].list # "free"
    <3> DEFINE e == [who |-> r, what |-> "out"]
    <3>1. e.who = r OBVIOUS
    <3> HIDE DEF e
    <3>2. e \in batch BY <2>1 DEF e
    <3> QED BY <3>1, <3>2 DEF Base, BatchShape
  <2>3. session[r].owner # c BY <2>1 DEF Timely
  <2>4. ses2[r] = session[r] BY <2>2, <2>3 DEF Mine
  <2> QED BY <2>1, <2>4 DEF Timely
<1>2. Untouched(c, ses2) BY DEF Mine, Untouched
<1> QED BY <1>1, <1>2 DEF Steady

(* Without sessions nobody waits.                                          *)
LEMMA FreeDuplex ==
  ASSUME NEW cl, cl = [c \in Clients |-> FreeClient], NEW ses, NEW b, b = {}
  PROVE  TakeTurns(cl, ses) /\ Timely(cl, ses, b)
PROOF
<1>1. \A c \in Clients : cl[c].pair = None /\ cl[c].poll = "none" /\ cl[c].turn = "wait" /\ cl[c].wire = <<>>
  BY DEF FreeClient
<1>2. TakeTurns(cl, ses) BY <1>1 DEF TakeTurns, TurnOf, ClientTurn
<1> QED BY <1>1, <1>2 DEF Timely, Parted

(* A handler may leave everything as it was but its event.                 *)
LEMMA OutlivedDuplex ==
  ASSUME TakeTurns(client, session), Timely(client, session, batch), NEW e, Outlived(e)
  PROVE  TakeTurns(client', session') /\ Timely(client', session', batch')
PROOF
<1>1. client' = client /\ session' = session /\ batch' \subseteq batch BY DEF Outlived, Done
<1>2. ASSUME NEW c \in Clients PROVE Parted(client[c], session, batch', c)
  BY <1>1 DEF Timely, Parted, Heeded
<1> QED BY <1>1, <1>2 DEF Timely

LEMMA DiesDuplex ==
  ASSUME Dies
  PROVE  TakeTurns(client', session') /\ Timely(client', session', batch')
PROOF
<1>1. client' = [c \in Clients |-> FreeClient] /\ batch' = {} BY DEF Dies
<1> QED BY <1>1, FreeDuplex

(* An event is a session and what it is ready for.                         *)
LEMMA EventIs ==
  ASSUME Base, NEW e \in batch
  PROVE  e = [who |-> e.who, what |-> e.what]
BY DEF Base, TypeOK

-----------------------------------------------------------------------------
(* The messages of a connection are those of its client: a client that is  *)
(* forgotten leaves those of others alone.                                 *)
LEMMA ForgottenNothing ==
  ASSUME NEW ses \in [Sessions -> SessionRecords], NEW c \in Clients, NEW d \in Clients, d # c,
         NEW r \in Sessions, Asked(ses[r], d)
  PROVE  Forgotten(c, ses)[r] = ses[r]
PROOF
<1> DEFINE Anon(m) == IF m.of = c THEN [m EXCEPT !.of = None] ELSE m
           All(q)  == [k \in DOMAIN q |-> Anon(q[k])]
<1>1. ASSUME NEW T, NEW q \in Seq(T), \A k \in DOMAIN q : q[k].of = d
      PROVE  All(q) = q
  <2>1. \A k \in DOMAIN q : Anon(q[k]) = q[k] BY <1>1
  <2>2. q = [k \in DOMAIN q |-> q[k]] OBVIOUS
  <2> HIDE DEF Anon
  <2> QED BY <2>1, <2>2
<1>2. /\ ses[r].due \in Seq([of : Clients \cup {None}, left : 1..Parts])
      /\ ses[r].answers \in Seq(Messages) /\ ses[r] \in SessionRecords
  BY DEF SessionRecords
<1>3. All(ses[r].due) = ses[r].due /\ All(ses[r].answers) = ses[r].answers
  <2>1. /\ \A k \in DOMAIN ses[r].due : ses[r].due[k].of = d
        /\ \A k \in DOMAIN ses[r].answers : ses[r].answers[k].of = d
    BY DEF Asked
  <2> HIDE DEF All
  <2> QED BY <1>1, <1>2, <2>1
<1>4. Forgotten(c, ses)[r] = [ses[r] EXCEPT !.due = All(@), !.answers = All(@)]
  BY Zenon DEF Forgotten
<1> HIDE DEF All
<1>5. [ses[r] EXCEPT !.due = All(@), !.answers = All(@)] = ses[r]
  <2>1. [ses[r] EXCEPT !.due = All(@), !.answers = All(@)]
          = [ses[r] EXCEPT !.due = ses[r].due, !.answers = ses[r].answers]
    BY <1>3
  <2> QED BY <1>2, <2>1 DEF SessionRecords
<1> QED BY <1>4, <1>5

(* A client is closed, and its connection no longer in work.               *)
LEMMA ClosedDuplex ==
  ASSUME Base, Paired(client, session, pool), TakeTurns(client, session),
         Timely(client, session, batch), batch' \subseteq batch,
         NEW c \in Clients, client' = [client EXCEPT ![c] = FreeClient],
         NEW ses \in [Sessions -> SessionRecords],
         \A r \in Sessions : /\ session[r].list = "work" /\ session[r].owner # c => ses[r] = session[r]
                             /\ session[r].list = "work" /\ session[r].owner = c => ses[r].list # "work"
                             /\ ses[r].list = "work" => session[r].list = "work"
                             /\ ses[r].owner = session[r].owner,
         session' = Forgotten(c, ses)
  PROVE  TakeTurns(client', session') /\ Timely(client', session', batch')
PROOF
<1>0. client \in [Clients -> ClientRecords] /\ session \in [Sessions -> SessionRecords] BY FitNow
<1>1. ASSUME NEW r \in Sessions, session[r].list = "work", session[r].owner # c
      PROVE  session'[r] = session[r]
  <2> DEFINE d == session[r].owner
  <2>1. d \in Clients /\ d # c BY <1>1 DEF Base, Shape
  <2>2. client[d].pair = r /\ r # None BY <1>1, SessionsAssumption DEF Paired, Used
  <2> HIDE DEF d
  <2>3. TurnOf(client, session, d) BY <2>1 DEF TakeTurns
  <2>4. Asked(session[r], d) BY <2>2, <2>3 DEF TurnOf, PairTurn
  <2>5. ses[r] = session[r] BY <1>1
  <2>6. Forgotten(c, ses)[r] = ses[r] BY <2>1, <2>4, <2>5, ForgottenNothing
  <2> QED BY <2>5, <2>6
<1>2. \A r \in Sessions : session'[r].list = ses[r].list /\ session'[r].owner = ses[r].owner
  BY ForgottenType
<1>3. client'[c] = FreeClient /\ OtherClients(c, client, client') BY <1>0 DEF OtherClients
<1>4. Untouched(c, session') BY <1>1 DEF Untouched
<1>5. TurnOf(client', session', c)
  <2>1. /\ FreeClient.pair = None /\ FreeClient.poll = "none" /\ FreeClient.turn = "wait"
        /\ FreeClient.wire = <<>>
    BY DEF FreeClient
  <2> QED BY <1>3, <2>1 DEF TurnOf, ClientTurn
<1>6. TakeTurns(client', session') BY <1>3, <1>4, <1>5, OneTurn
<1>7. ASSUME NEW r \in Sessions, [who |-> r, what |-> "out"] \in batch'
      PROVE  session'[r].owner = session[r].owner /\ (session'[r].list = "work" => session'[r].poll = "out")
  <2>1. session[r].list = "work" => session[r].poll = "out" BY <1>7 DEF Timely
  <2>2. ASSUME session'[r].list = "work" PROVE session'[r] = session[r] /\ session[r].list = "work"
    <3>1. session[r].list = "work" /\ session[r].owner # c BY <2>2, <1>2
    <3> QED BY <1>1, <3>1
  <2> QED BY <1>2, <2>1, <2>2
<1>8. Steady(session', batch') BY <1>7 DEF Steady
<1>9. client'[c].status = "free" BY <1>3 DEF FreeClient
<1>10. Parted(client'[c], session', batch', c) BY <1>3 DEF Parted, FreeClient
<1>11. Timely(client', session', batch') BY <1>3, <1>4, <1>8, <1>9, <1>10, OneTimely
<1> QED BY <1>6, <1>11

(* OnClosingAcceptedSocket and OnClosingForwardSocket put the connection of*)
(* the client into the pool.                                               *)
LEMMA PooledDuplex ==
  ASSUME Base, Paired(client, session, pool), TakeTurns(client, session),
         Timely(client, session, batch), batch' \subseteq batch,
         NEW c \in Clients, client' = [client EXCEPT ![c] = FreeClient],
         NEW s, client[c].pair = s,
         \/ s = None /\ session' = Forgotten(c, session)
         \/ s # None /\ session' = Forgotten(c, InPool(s, Unpolled(s, session)))
  PROVE  TakeTurns(client', session') /\ Timely(client', session', batch')
PROOF
<1>0. session \in [Sessions -> SessionRecords] /\ s \in Sessions \cup {None} BY FitNow DEF Fit
<1>1. \A r \in Sessions : session[r].list = "work" /\ session[r].owner = c => r = s
  BY DEF Paired, Used
<1>2. CASE s = None /\ session' = Forgotten(c, session)
  <2>1. \A r \in Sessions : ~ (session[r].list = "work" /\ session[r].owner = c)
    BY <1>1, <1>2, SessionsAssumption
  <2> QED BY <1>0, <1>2, <2>1, ClosedDuplex
<1>3. CASE s # None /\ session' = Forgotten(c, InPool(s, Unpolled(s, session)))
  <2> DEFINE ses == InPool(s, Unpolled(s, session))
  <2>0. s \in Sessions BY <1>0, <1>3
  <2>1. session[s].list = "work" /\ session[s].owner = c BY <1>3 DEF Paired, Bound
  <2>2. /\ ses \in [Sessions -> SessionRecords]
        /\ \A r \in Sessions \ {s} : ses[r] = session[r]
        /\ ses[s].list = "pool" /\ ses[s].owner = session[s].owner
    BY <1>0, <2>0, ReleasedEffect
  <2>3. session' = Forgotten(c, ses) BY <1>3
  <2> HIDE DEF ses
  <2>4. ASSUME NEW r \in Sessions
        PROVE  /\ session[r].list = "work" /\ session[r].owner # c => ses[r] = session[r]
               /\ session[r].list = "work" /\ session[r].owner = c => ses[r].list # "work"
               /\ ses[r].list = "work" => session[r].list = "work"
               /\ ses[r].owner = session[r].owner
    <3>1. CASE r = s BY <3>1, <2>1, <2>2
    <3>2. CASE r # s BY <3>2, <1>1, <2>2
    <3> QED BY <3>1, <3>2
  <2> QED BY <2>2, <2>3, <2>4, ClosedDuplex
<1> QED BY <1>2, <1>3

LEMMA CloseClientDuplex ==
  ASSUME Base, Paired(client, session, pool), TakeTurns(client, session),
         Timely(client, session, batch), NEW c \in Clients, NEW e, CloseClient(c, e)
  PROVE  TakeTurns(client', session') /\ Timely(client', session', batch')
PROOF
<1> DEFINE s == client[c].pair
<1>1. CASE Dies BY <1>1, DiesDuplex
<1>2. CASE s = None /\ client' = [client EXCEPT ![c] = FreeClient] /\ session' = Forgotten(c, session) /\ Done(e)
  <2>1. batch' \subseteq batch BY <1>2 DEF Done
  <2> QED BY <1>2, <2>1, PooledDuplex
<1>3. CASE s # None /\ client' = [client EXCEPT ![c] = FreeClient]
           /\ session' = Forgotten(c, InPool(s, Unpolled(s, session))) /\ Done(e)
  <2>1. batch' \subseteq batch BY <1>3 DEF Done
  <2> QED BY <1>3, <2>1, PooledDuplex
<1>4. CASE s # None /\ session[s].poll = "none"
  <2>1. s \in Sessions BY <1>4, FitNow DEF Fit
  <2> QED BY <1>4, <2>1 DEF Paired, Bound, Used
<1> QED BY <1>1, <1>2, <1>3, <1>4 DEF CloseClient

LEMMA CloseSessionDuplex ==
  ASSUME Base, Paired(client, session, pool), TakeTurns(client, session),
         Timely(client, session, batch), NEW s \in Sessions, NEW e, CloseSession(s, e),
         session[s].list # "free", "pair" \notin strayed'
  PROVE  TakeTurns(client', session') /\ Timely(client', session', batch')
PROOF
<1> DEFINE c == session[s].owner
           q == client[c].pair
<1>0. c \in Clients BY DEF Base, Shape
<1>1. CASE Dies BY <1>1, DiesDuplex
<1>2. CASE session[s].poll = "none" /\ Acts(s)
  <2>1. q = s BY <1>2 DEF Acts
  <2>2. s # None BY SessionsAssumption
  <2>3. session[s].list = "work" BY <1>0, <2>1, <2>2 DEF Paired, Bound
  <2> QED BY <1>2, <2>3 DEF Paired, Used
<1>3. CASE /\ q # None /\ client' = [client EXCEPT ![c] = FreeClient]
           /\ session' = Forgotten(c, InPool(q, Unpolled(s, session)))
           /\ Done(e) /\ Acts(s)
  <2>1. q = s BY <1>3 DEF Acts
  <2>2. batch' \subseteq batch BY <1>3 DEF Done
  <2>3. client[c].pair = s BY <2>1
  <2>4. /\ s # None /\ client' = [client EXCEPT ![c] = FreeClient]
        /\ session' = Forgotten(c, InPool(s, Unpolled(s, session)))
    BY <1>3, <2>1
  <2> HIDE DEF c, q
  <2> QED BY <1>0, <2>2, <2>3, <2>4, PooledDuplex
<1> QED BY <1>1, <1>2, <1>3 DEF CloseSession

-----------------------------------------------------------------------------
(* The event of a client to be read was handled.                           *)
LEMMA ReceivedDuplex ==
  ASSUME Base, Paired(client, session, pool), TakeTurns(client, session),
         Timely(client, session, batch),
         NEW c \in Clients, NEW e \in batch, e = [who |-> c, what |-> "in"], Done(e),
         OtherClients(c, client, client'), Mine(c, session'), TurnOf(client', session', c),
         client'[c].pair # None => Heeded(session'[client'[c].pair], client'[c].pair, batch')
  PROVE  TakeTurns(client', session') /\ Timely(client', session', batch')
PROOF
<1>0. batch' \subseteq batch /\ [who |-> c, what |-> "in"] \notin batch' BY DEF Done
<1>1. Steady(session', batch') /\ Untouched(c, session') BY <1>0, MineSteady
<1>2. [who |-> c, what |-> "out"] \notin batch' BY <1>0 DEF Timely
<1>3. Parted(client'[c], session', batch', c) BY <1>0 DEF Parted
<1>4. TakeTurns(client', session') BY <1>1, OneTurn
<1>5. Timely(client', session', batch') BY <1>0, <1>1, <1>2, <1>3, OneTimely
<1> QED BY <1>4, <1>5

LEMMA RepliedTurn ==
  ASSUME client \in [Clients -> ClientRecords], NEW c \in Clients,
         client[c].wire # <<>>, ClientTurn(client[c], c),
         NEW s \in Sessions \cup {None}, NEW status \in Statuses, NEW chosen \in Instances \cup {None},
         client' = Replied(c, s, status, chosen),
         s # None => Quiet(session'[s]) /\ session'[s].poll = "in"
  PROVE  /\ OtherClients(c, client, client') /\ TurnOf(client', session', c)
         /\ client'[c].pair # None => Heeded(session'[client'[c].pair], client'[c].pair, batch')
PROOF
<1> DEFINE f == Replied(c, s, status, chosen)
<1>1. /\ \A d \in Clients \ {c} : f[d] = client[d]
      /\ f[c].buffer = <<Own>> /\ f[c].poll = "out" /\ f[c].wire = <<>> /\ f[c].pair = s
      /\ f[c].turn = client[c].turn
  BY SMTT(30), RepliedEffect
<1>2. client' = f OBVIOUS
<1> HIDE DEF f
<1>3. f[c].turn = "wait" BY <1>1 DEF ClientTurn
<1>4. ClientTurn(f[c], c)
  <2>1. \A k \in DOMAIN f[c].buffer : f[c].buffer[k] = Own /\ f[c].buffer # <<>> BY <1>1
  <2>2. f[c].buffer # <<>> BY <1>1
  <2> QED BY <1>1, <1>3, <2>1, <2>2 DEF ClientTurn, Fits
<1>5. ASSUME s # None PROVE PairTurn(f[c], session'[s], c)
  <2>1. Quiet(session'[s]) /\ session'[s].poll = "in" BY <1>5
  <2>2. Asked(session'[s], c) BY <2>1 DEF Quiet, Asked, Ends
  <2>3. Phase(f[c], session'[s], c) BY <1>1, <2>1 DEF Phase
  <2> QED BY <2>1, <2>2, <2>3 DEF PairTurn
<1> QED BY <1>1, <1>2, <1>4, <1>5 DEF OtherClients, TurnOf, Heeded

LEMMA SelectedOkTurn ==
  ASSUME client \in [Clients -> ClientRecords], NEW c \in Clients,
         client[c].wire # <<>>, ClientTurn(client[c], c),
         NEW s \in Sessions \cup {None}, NEW i \in Instances,
         client' = SelectedOk(c, i, s),
         s # None => Quiet(session'[s]) /\ session'[s].poll = "in"
  PROVE  /\ OtherClients(c, client, client') /\ TurnOf(client', session', c)
         /\ client'[c].pair # None => Heeded(session'[client'[c].pair], client'[c].pair, batch')
PROOF
<1> DEFINE st == IF client[c].status = "select" THEN "selected" ELSE client[c].status
<1>1. SelectedOk(c, i, s) = Replied(c, s, st, i) /\ st \in Statuses BY SelectedOkEffect
<1> HIDE DEF st
<1>2. i \in Instances \cup {None} OBVIOUS
<1> QED BY <1>1, <1>2, RepliedTurn

(* A client whose request was just read has a quiet connection that is     *)
(* read.                                                                   *)
LEMMA QuietWhenRead ==
  ASSUME TakeTurns(client, session), NEW c \in Clients, client[c].wire # <<>>
  PROVE  /\ ClientTurn(client[c], c)
         /\ client[c].buffer = <<>> /\ client[c].poll = "in" /\ client[c].turn = "wait"
         /\ client[c].pair # None =>
              Quiet(session[client[c].pair]) /\ session[client[c].pair].poll = "in"
PROOF
<1>1. TurnOf(client, session, c) BY DEF TakeTurns
<1>2. client[c].buffer = <<>> /\ client[c].poll = "in" /\ client[c].turn = "wait"
  BY <1>1 DEF TurnOf, ClientTurn
<1>3. ASSUME client[c].pair # None
      PROVE  Quiet(session[client[c].pair]) /\ session[client[c].pair].poll = "in"
  <2>1. PairTurn(client[c], session[client[c].pair], c) BY <1>1, <1>3 DEF TurnOf
  <2> QED BY <1>2, <2>1 DEF PairTurn, Phase
<1> QED BY <1>1, <1>2, <1>3 DEF TurnOf

(* SelectMysqlServer finds a connection that is free, or of this client and*)
(* quiet, or the history says so.                                          *)
Found(c, ses, s) ==
  /\ Quiet(session'[s]) /\ session'[s].poll = "in"
  /\ session'[s].link \in {"up", ses[s].link}
  /\ ses[s].list = "free" \/ (ses[s].list = "pool" /\ ses[s].owner = c)
  /\ \A r \in Sessions \ {s} : session'[r] = ses[r]

LEMMA NothingUnread ==
  ASSUME NEW y \in SessionRecords, ~ (Unread(y) > 0)
  PROVE  Quiet(y)
PROOF
<1> DEFINE a == Len(y.due)
           b == Len(y.answers)
<1>1. y.due \in Seq([of : Clients \cup {None}, left : 1..Parts]) /\ y.answers \in Seq(Messages)
  BY DEF SessionRecords
<1>2. a \in Nat /\ b \in Nat BY <1>1, LenProperties
<1>3. ~ (a + b > 0) BY DEF Unread
<1> HIDE DEF a, b
<1>4. a = 0 /\ b = 0 BY <1>2, <1>3
<1> QED BY <1>1, <1>4, EmptySeq DEF a, b, Quiet

LEMMA TakenFound ==
  ASSUME NEW ses \in [Sessions -> SessionRecords], NEW s \in Sessions, NEW c,
         ses[s].list = "pool", ses[s].owner = c, Quiet(ses[s]),
         session' = Polled(s, [ses EXCEPT ![s].list = "work"])
  PROVE  Found(c, ses, s)
PROOF
<1> DEFINE f == Polled(s, [ses EXCEPT ![s].list = "work"])
<1>1. /\ \A r \in Sessions \ {s} : f[r] = ses[r]
      /\ f[s].poll = "in" /\ f[s].due = ses[s].due /\ f[s].answers = ses[s].answers
      /\ f[s].link = ses[s].link
  BY TakenEffect
<1>2. session' = f OBVIOUS
<1> HIDE DEF f
<1> QED BY <1>1, <1>2 DEF Found, Quiet

LEMMA SelectServerFinds ==
  ASSUME Base, NEW c \in Clients, NEW i \in Instances,
         NEW ses \in [Sessions -> SessionRecords], NEW p \in [Servers -> Seq(Sessions)],
         Stored(ses, p), SelectMysqlServer(c, i, ses, p), strayed' \subseteq {"end"}
  PROVE  \/ \E s \in Sessions : client' = SelectedOk(c, i, s) /\ Found(c, ses, s)
         \/ client' = SelectedOk(c, i, None) /\ session' = ses /\ "end" \in strayed'
PROOF
<1>0. list[i] \in Seq(Servers) BY DEF Base, TypeOK
<1>1. ASSUME NEW k \in DOMAIN list[i], TakePooled(c, i, list[i][k], ses, p)
      PROVE  \E s \in Sessions : client' = SelectedOk(c, i, s) /\ Found(c, ses, s)
  <2> DEFINE v == list[i][k]
             s == Head(p[v])
  <2>1. v \in Servers BY <1>0, ElementOfSeq, LenProperties
  <2>2. /\ p[v] # <<>>
        /\ ses[s].poll = "none" =>
             /\ session' = Polled(s, [ses EXCEPT ![s].list = "work"])
             /\ client' = SelectedOk(c, i, s)
             /\ strayed' = strayed \cup (IF ses[s].owner # c THEN {"pair"} ELSE {})
                                  \cup (IF Unread(ses[s]) > 0 THEN {"answer"} ELSE {})
    BY <1>1 DEF TakePooled
  <2> HIDE DEF v
  <2>3. s \in Sessions /\ 1 \in DOMAIN p[v] /\ s = p[v][1]
    BY <2>1, <2>2, HeadTailProperties, LenProperties
  <2>4. ses[s].list = "pool" BY <2>1, <2>3 DEF Stored
  <2> HIDE DEF s
  <2>5. ses[s].poll = "none" BY <2>3, <2>4 DEF Stored
  <2>6. ses[s].owner = c /\ ~ (Unread(ses[s]) > 0)
    <3> DEFINE A == IF ses[s].owner # c THEN {"pair"} ELSE {}
               B == IF Unread(ses[s]) > 0 THEN {"answer"} ELSE {}
    <3>1. A \subseteq {"end"} /\ B \subseteq {"end"} BY <2>2, <2>5
    <3>2. ses[s].owner = c BY <3>1
    <3>3. ~ (Unread(ses[s]) > 0) BY <3>1
    <3> QED BY <3>2, <3>3
  <2>7. Quiet(ses[s])
    <3>1. ses[s] \in SessionRecords BY <2>3
    <3> QED BY <2>6, <3>1, NothingUnread
  <2>8. session' = Polled(s, [ses EXCEPT ![s].list = "work"]) BY <2>2, <2>5
  <2>10. Found(c, ses, s) BY <2>3, <2>4, <2>6, <2>7, <2>8, TakenFound
  <2> QED BY <2>2, <2>3, <2>5, <2>10
<1>2. ASSUME NEW k \in DOMAIN list[i], Connect(c, i, list[i][k], ses, p)
      PROVE  \E s \in Sessions : client' = SelectedOk(c, i, s) /\ Found(c, ses, s)
  <2>1. PICK s \in Sessions : /\ ses[s].list = "free"
                              /\ session' = [ses EXCEPT ![s] = NewSession(c, list[i][k])]
                              /\ client' = SelectedOk(c, i, s)
    BY <1>2 DEF Connect
  <2> DEFINE n == NewSession(c, list[i][k])
  <2>2. n.due = <<>> /\ n.answers = <<>> /\ n.poll = "in" /\ n.link = "up"
    BY DEF NewSession, FreeSession
  <2> HIDE DEF n
  <2>3. session'[s] = n /\ \A r \in Sessions \ {s} : session'[r] = ses[r] BY <2>1 DEF n
  <2>4. Found(c, ses, s) BY <2>1, <2>2, <2>3 DEF Found, Quiet
  <2> QED BY <2>1, <2>4
<1>3. CASE SelectNone(c, i, ses, p) BY <1>3 DEF SelectNone
<1>4. \A k \in Reached(i, ses, p) : k \in DOMAIN list[i] BY DEF Reached
<1> QED BY <1>1, <1>2, <1>3, <1>4 DEF SelectMysqlServer

(* The connection that a client leaves and the one it gets                 *)
LEMMA SelectServerDuplex ==
  ASSUME Base, Paired(client, session, pool), TakeTurns(client, session),
         Timely(client, session, batch),
         NEW c \in Clients, NEW e \in batch, e = [who |-> c, what |-> "in"], Done(e),
         client[c].wire # <<>>, NEW i \in Instances,
         NEW ses \in [Sessions -> SessionRecords], NEW p \in [Servers -> Seq(Sessions)],
         Stored(ses, p), Mine(c, ses),
         SelectMysqlServer(c, i, ses, p), strayed' \subseteq {"end"}
  PROVE  TakeTurns(client', session') /\ Timely(client', session', batch')
PROOF
<1>0. client \in [Clients -> ClientRecords] /\ ClientTurn(client[c], c) BY FitNow, QuietWhenRead
<1>1. ASSUME NEW s \in Sessions, client' = SelectedOk(c, i, s), Found(c, ses, s)
      PROVE  TakeTurns(client', session') /\ Timely(client', session', batch')
  <2>1. Quiet(session'[s]) /\ session'[s].poll = "in" BY <1>1 DEF Found
  <2>2. /\ OtherClients(c, client, client') /\ TurnOf(client', session', c)
        /\ client'[c].pair # None => Heeded(session'[client'[c].pair], client'[c].pair, batch')
    BY <1>0, <1>1, <2>1, SelectedOkTurn
  <2>3. Mine(c, session')
    <3> SUFFICES ASSUME NEW r \in Sessions, session[r].list # "free", session[r].owner # c
                 PROVE  session'[r] = session[r]
      BY DEF Mine
    <3>1. ses[r] = session[r] BY DEF Mine
    <3>2. r # s BY <3>1, <1>1 DEF Found
    <3> QED BY <3>1, <3>2, <1>1 DEF Found
  <2> QED BY <2>2, <2>3, ReceivedDuplex
<1>2. ASSUME client' = SelectedOk(c, i, None), session' = ses
      PROVE  TakeTurns(client', session') /\ Timely(client', session', batch')
  <2>1. /\ OtherClients(c, client, client') /\ TurnOf(client', session', c)
        /\ client'[c].pair # None => Heeded(session'[client'[c].pair], client'[c].pair, batch')
    BY <1>0, <1>2, SelectedOkTurn
  <2>2. Mine(c, session') BY <1>2 DEF Mine
  <2> QED BY <2>1, <2>2, ReceivedDuplex
<1> QED BY <1>1, <1>2, SelectServerFinds

LEMMA SelectLibraryDuplex ==
  ASSUME Base, Paired(client, session, pool), TakeTurns(client, session),
         Timely(client, session, batch),
         NEW c \in Clients, NEW e \in batch, e = [who |-> c, what |-> "in"],
         client[c].wire # <<>>, NEW i \in Instances,
         SelectDatabaseLibrary(c, i, e), strayed' \subseteq {"end"}
  PROVE  TakeTurns(client', session') /\ Timely(client', session', batch')
PROOF
<1> DEFINE s == client[c].pair
<1>0. /\ client \in [Clients -> ClientRecords] /\ session \in [Sessions -> SessionRecords]
      /\ pool \in [Servers -> Seq(Sessions)] /\ s \in Sessions \cup {None}
  BY FitNow DEF Fit
<1>a. s # None => session[s].list = "work" /\ session[s].owner = c /\ session[s].poll # "none"
  BY <1>0 DEF Paired, Bound, Used
<1>1. CASE Dies BY <1>1, DiesDuplex
<1>2. CASE SelectMysqlServer(c, i, session, pool) /\ Done(e)
  <2>1. Stored(session, pool) /\ Mine(c, session) BY DEF Paired, Mine
  <2> QED BY <1>0, <1>2, <2>1, SelectServerDuplex
<1>3. CASE /\ client' = SelectedOk(c, i, s) /\ Done(e) /\ UNCHANGED session
  <2>2. /\ ClientTurn(client[c], c)
        /\ s # None => Quiet(session'[s]) /\ session'[s].poll = "in"
    BY <1>3, QuietWhenRead
  <2>3. client' = SelectedOk(c, i, s) BY <1>3
  <2> HIDE DEF s
  <2>4. /\ OtherClients(c, client, client') /\ TurnOf(client', session', c)
        /\ client'[c].pair # None => Heeded(session'[client'[c].pair], client'[c].pair, batch')
    BY <1>0, <2>2, <2>3, SelectedOkTurn
  <2>5. Mine(c, session') BY <1>3 DEF Mine
  <2> QED BY <1>3, <2>4, <2>5, ReceivedDuplex
<1>4. CASE /\ s # None /\ Done(e)
           /\ SelectMysqlServer(c, i, InPool(s, Unpolled(s, session)), Appended(s, pool))
  <2>0. s \in Sessions BY <1>0, <1>4
  <2> DEFINE cl  == [client EXCEPT ![c] = [client[c] EXCEPT !.pair = None]]
             ses == InPool(s, Unpolled(s, session))
             p   == Appended(s, pool)
  <2>1. cl[c].pair = None /\ OtherClients(c, client, cl)
    <3>1. client[c] \in ClientRecords BY <1>0
    <3>2. [client[c] EXCEPT !.pair = None].pair = None BY <3>1 DEF ClientRecords
    <3> QED BY <1>0, <3>2 DEF OtherClients
  <2>2. client[c].pair = s OBVIOUS
  <2>3. /\ \A r \in Sessions \ {s} : ses[r] = session[r]
    BY <1>0, <2>0, ReleasedEffect
  <2>4. Done(e) BY <1>4
  <2>5. SelectMysqlServer(c, i, ses, p) BY <1>4
  <2>6. session[s].owner = c BY <1>a, <1>4
  <2> HIDE DEF s, cl
  <2>7. Paired(cl, ses, p) /\ Fit(cl, ses, p) /\ ses \in [Sessions -> SessionRecords]
    BY <2>0, <2>1, <2>2, ReleasedPairs
  <2> HIDE DEF ses, p
  <2>8. Stored(ses, p) /\ p \in [Servers -> Seq(Sessions)] BY <2>7 DEF Paired, Fit
  <2>9. Mine(c, ses) BY <2>3, <2>6 DEF Mine
  <2> QED BY <2>4, <2>5, <2>7, <2>8, <2>9, SelectServerDuplex
<1>5. CASE s # None /\ session[s].poll = "none" BY <1>a, <1>5
<1> QED BY <1>1, <1>2, <1>3, <1>4, <1>5 DEF SelectDatabaseLibrary

(* What begins a buffer still begins it when more comes behind.            *)
LEMMA ConcatIs ==
  ASSUME NEW b \in Seq(Messages), NEW a \in Seq(Messages)
  PROVE  LET q == b \o a IN
         /\ b # <<>> => q # <<>> /\ Head(q) = Head(b)
         /\ b = <<>> => q = a
         /\ a # <<>> => q # <<>> /\ q[Len(q)] = a[Len(a)]
         /\ Ends(q) => Ends(b) \/ Ends(a)
PROOF
<1> DEFINE q == b \o a
<1>1. /\ Len(b) \in Nat /\ Len(a) \in Nat /\ DOMAIN b = 1..Len(b) /\ DOMAIN a = 1..Len(a)
  BY LenProperties
<1>2. /\ q \in Seq(Messages) /\ Len(q) = Len(b) + Len(a)
      /\ \A k \in 1..(Len(b) + Len(a)) : q[k] = IF k <= Len(b) THEN b[k] ELSE a[k - Len(b)]
  BY ConcatProperties
<1>3. b = <<>> => q = a OBVIOUS
<1>4. /\ b # <<>> => Len(b) # 0 /\ Head(b) = b[1]
      /\ a # <<>> => Len(a) # 0
      /\ q # <<>> => Len(q) # 0 /\ Head(q) = q[1]
  BY <1>2, EmptySeq, HeadTailProperties
<1> HIDE DEF q
<1>5. DOMAIN q = 1..(Len(b) + Len(a)) BY <1>2, LenProperties
<1>6. q = <<>> => Len(q) = 0 OBVIOUS
<1>7. ASSUME b # <<>> PROVE q # <<>> /\ Head(q) = Head(b)
  <2>1. q # <<>> BY <1>1, <1>2, <1>4, <1>6, <1>7
  <2>2. 1 \in 1..(Len(b) + Len(a)) /\ 1 <= Len(b) BY <1>1, <1>4, <1>7
  <2>3. q[1] = b[1] BY <1>2, <2>2
  <2> QED BY <1>4, <1>7, <2>1, <2>3
<1>8. ASSUME a # <<>> PROVE q # <<>> /\ q[Len(q)] = a[Len(a)]
  <2>1. q # <<>> BY <1>1, <1>2, <1>4, <1>6, <1>8
  <2> DEFINE n == Len(b) + Len(a)
  <2>2. n \in 1..n /\ ~(n <= Len(b)) /\ n - Len(b) = Len(a) BY <1>1, <1>4, <1>8
  <2>3. Len(q) = n BY <1>2
  <2>4. q[n] = IF n <= Len(b) THEN b[n] ELSE a[n - Len(b)] BY <1>2, <2>2
  <2> QED BY <2>1, <2>2, <2>3, <2>4
<1>9. ASSUME NEW k \in DOMAIN q, q[k].last PROVE Ends(b) \/ Ends(a)
  <2>1. CASE k <= Len(b) BY <1>1, <1>2, <1>5, <1>9, <2>1 DEF Ends
  <2>2. CASE ~(k <= Len(b))
    <3> DEFINE j == k - Len(b)
    <3>1. j \in DOMAIN a /\ q[k] = a[j] BY <1>1, <1>2, <1>5, <2>2
    <3> QED BY <1>9, <3>1 DEF Ends
  <2> QED BY <2>1, <2>2
<1> QED BY <1>3, <1>7, <1>8, <1>9 DEF q, Ends

(* A request, or a COM_QUIT, is read behind what is in the buffer.         *)
LEMMA ReadBehind ==
  ASSUME client \in [Clients -> ClientRecords], NEW c \in Clients, NEW y,
         ClientTurn(client[c], c), PairTurn(client[c], y, c), client[c].status = "forward",
         client[c].wire # <<>> \/ client[c].gone = "quit",
         client[c].wire = <<>> => client[c].buffer # <<>>,
         client[c].buffer # <<>> => y.poll # "in",
         NEW x, x.buffer = client[c].buffer \o Read(c), x.gone = AllRead(client[c].gone),
         x.turn = client[c].turn, x.status = client[c].status
  PROVE  /\ x.turn # "send" /\ x.status = "forward" /\ Outgoing(x, c)
         /\ Head(x.buffer).kind = "query" => Quiet(y)
         /\ Ends(x.buffer) => Quiet(y)
         /\ y.poll = "in" => Quiet(y)
PROOF
<1> DEFINE b == client[c].buffer
           a == Read(c)
<1>1. b \in Seq(Messages) /\ a \in Seq(Messages) BY ReadIs DEF ClientRecords
<1>2. /\ client[c].wire # <<>> /\ client[c].gone # "quit" => a = <<Query(c)>>
      /\ client[c].gone = "quit" => Len(a) >= 1 /\ a[Len(a)] = Quit
      /\ ~Ends(a)
  BY ReadIs DEF Ends
<1>3. client[c].wire # <<>> => a # <<>> /\ Head(a) = Query(c)
  <2> DEFINE q == IF client[c].gone = "quit" THEN <<Quit>> ELSE <<>>
             r == <<Query(c)>>
  <2>1. Quit \in Messages /\ Query(c) \in Messages BY Fresh DEF Quit, Query
  <2>2. q \in Seq(Messages) /\ r \in Seq(Messages) BY <2>1
  <2>3. r # <<>> /\ Head(r) = Query(c) OBVIOUS
  <2>4. client[c].wire # <<>> => a = r \o q BY DEF Read
  <2> HIDE DEF q, r, a
  <2> QED BY <2>2, <2>3, <2>4, ConcatIs
<1>4. client[c].gone = "quit" => a # <<>> /\ x.gone # "no"
  <2>1. client[c].gone = "quit" => x.gone # "no" BY DEF AllRead
  <2>2. a = <<>> => Len(a) = 0 OBVIOUS
  <2> QED BY <1>2, <2>1, <2>2
<1>5. /\ x.buffer = b \o a
      /\ client[c].wire # <<>> => b = <<>>
      /\ b # <<>> => client[c].turn # "send"
      /\ client[c].wire # <<>> => client[c].turn # "send" /\ Quiet(y)
  BY DEF ClientTurn, PairTurn
<1>6. ASSUME b # <<>>, Head(b).kind = "query"
      PROVE  Head(b) = Query(c) /\ Quiet(y)
  <2>1. Phase(client[c], y, c) BY DEF PairTurn
  <2>2. CASE client[c].poll = "out"
    <3>1. Fits(b[1], c)
      <4>1. 1 \in DOMAIN b BY <1>1, <1>6, EmptySeq, LenProperties
      <4> QED BY <2>2, <4>1 DEF ClientTurn
    <3>2. Head(b) = b[1] BY <1>1, <1>6, HeadTailProperties
    <3> QED BY <1>6, <3>1, <3>2 DEF Fits, Own
  <2>3. CASE Outgoing(client[c], c) /\ y.poll = "out"
    <3>1. Quiet(y) BY <1>6, <2>3 DEF PairTurn
    <3>2. Head(b) = Query(c) 
      <4>1. b = <<Query(c)>> \/ (Head(b).kind = "query" => Head(b) = Query(c)) BY <2>3 DEF Outgoing
      <4>2. b = <<Query(c)>> => Head(b) = Query(c) OBVIOUS
      <4> QED BY <1>6, <4>1, <4>2
    <3> QED BY <3>1, <3>2
  <2> QED BY <1>6, <2>1, <2>2, <2>3 DEF Phase
<1> HIDE DEF a, b
<1>7. /\ b # <<>> => x.buffer # <<>> /\ Head(x.buffer) = Head(b)
      /\ b = <<>> => x.buffer = a
      /\ a # <<>> => x.buffer # <<>> /\ x.buffer[Len(x.buffer)] = a[Len(a)]
      /\ Ends(x.buffer) => Ends(b)
  BY <1>1, <1>2, <1>5, ConcatIs
<1>8. client[c].buffer = b BY DEF b
<1>9. Head(x.buffer).kind = "query" => Head(x.buffer) = Query(c) /\ Quiet(y)
  <2>1. CASE b # <<>> BY <1>6, <1>7, <2>1
  <2>2. CASE b = <<>> BY <1>3, <1>5, <1>7, <1>8, <2>2
  <2> QED BY <2>1, <2>2
<1>10. Outgoing(x, c)
  <2>1. CASE client[c].gone = "quit" BY <1>2, <1>4, <1>7, <1>9, <2>1 DEF Outgoing
  <2>2. CASE client[c].gone # "quit" BY <1>2, <1>5, <1>7, <2>2 DEF Outgoing
  <2> QED BY <2>1, <2>2
<1>11. x.turn # "send" BY <1>5, <1>8
<1>12. Ends(x.buffer) => Quiet(y) BY <1>7, <1>8 DEF PairTurn
<1>13. y.poll = "in" => Quiet(y) BY <1>5, <1>8
<1> QED BY <1>9, <1>10, <1>11, <1>12, <1>13

(* OnReceivingAcceptedSocket                                               *)
LEMMA ReceivingDuplex ==
  ASSUME Base, Wired, Paired(client, session, pool), TakeTurns(client, session),
         Timely(client, session, batch), NEW e \in batch, NEW c \in Clients,
         OnReceivingAccepted(c, e), strayed' \subseteq {"end"}
  PROVE  TakeTurns(client', session') /\ Timely(client', session', batch')
PROOF
<1> DEFINE s == client[c].pair
<1>0. /\ client \in [Clients -> ClientRecords] /\ session \in [Sessions -> SessionRecords]
      /\ s \in Sessions \cup {None} /\ client[c].status \in Statuses
  BY FitNow DEF Fit
<1>e. e = [who |-> c, what |-> "in"]
  <2>1. e.who = c /\ e.what = "in" /\ Live(c) BY DEF OnReceivingAccepted
  <2> QED BY <2>1, EventIs
<1>1. CASE ReceiveEnd(c, e) BY <1>1, CloseClientDuplex DEF ReceiveEnd
<1>2. CASE ReceiveAuth(c, e)
  <2> DEFINE st == IF Head(client[c].wire).do = "auth" /\ client[c].buffer = <<>>
                   THEN "auth_ok" ELSE "auth_fail"
  <2>1. /\ client' = Replied(c, s, st, None) /\ client[c].status = "auth" /\ client[c].wire # <<>>
        /\ UNCHANGED session /\ Done(e)
    BY <1>2 DEF ReceiveAuth
  <2>2. st \in Statuses /\ None \in Instances \cup {None} BY DEF Statuses
  <2>3. s = None BY <2>1 DEF Paired, Bound
  <2>4. ClientTurn(client[c], c) BY <2>1, QuietWhenRead
  <2> HIDE DEF st, s
  <2>5. /\ OtherClients(c, client, client') /\ TurnOf(client', session', c)
        /\ client'[c].pair # None => Heeded(session'[client'[c].pair], client'[c].pair, batch')
    BY <1>0, <2>1, <2>2, <2>3, <2>4, RepliedTurn
  <2>6. Mine(c, session') BY <2>1 DEF Mine
  <2> QED BY <1>e, <2>1, <2>5, <2>6, ReceivedDuplex
<1>3. CASE ReceiveLocal(c, e)
  <2>1. /\ client' = SelectFailed(c, s) /\ client[c].wire # <<>>
        /\ UNCHANGED session /\ Done(e)
    BY <1>3 DEF ReceiveLocal, Commanded
  <2>2. /\ ClientTurn(client[c], c)
        /\ s # None => Quiet(session'[s]) /\ session'[s].poll = "in"
    BY <2>1, QuietWhenRead
  <2> HIDE DEF s
  <2>3. /\ client' = Replied(c, s, client[c].status, client[c].chosen)
        /\ client[c].chosen \in Instances \cup {None}
    BY <1>0, <2>1, SelectFailedEffect
  <2>4. /\ OtherClients(c, client, client') /\ TurnOf(client', session', c)
        /\ client'[c].pair # None => Heeded(session'[client'[c].pair], client'[c].pair, batch')
    BY <1>0, <2>1, <2>2, <2>3, RepliedTurn
  <2>5. Mine(c, session') BY <2>1 DEF Mine
  <2> QED BY <1>e, <2>1, <2>4, <2>5, ReceivedDuplex
<1>4. CASE ReceiveSelect(c, e)
  <2>1. /\ client[c].wire # <<>> /\ Commanded(c, "select")
        /\ \E i \in Understood(c) : SelectDatabaseLibrary(c, i, e)
    BY <1>4 DEF ReceiveSelect, Commanded
  <2>2. PICK i \in Instances : SelectDatabaseLibrary(c, i, e) BY <2>1, UnderstoodIs
  <2> QED BY <1>e, <2>1, <2>2, SelectLibraryDuplex
<1>5. CASE ReceiveRequest(c, e)
  <2>1. CASE CloseClient(c, e) BY <2>1, CloseClientDuplex
  <2>2. CASE Dies BY <2>2, DiesDuplex
  <2>3. CASE /\ client[c].status = "forward"
             /\ s # None /\ session[s].poll # "none"
             /\ client' = [client EXCEPT ![c].poll = "err", ![c].wire = <<>>,
                              ![c].buffer = @ \o Read(c), ![c].gone = AllRead(@)]
             /\ session' = [session EXCEPT ![s].poll = "out"]
             /\ Done(e)
    <3>1. s \in Sessions BY <1>0, <2>3
    <3>2. client[c].pair = s /\ session[s].owner = c BY <2>3 DEF Paired, Bound
    <3>t. /\ ClientTurn(client[c], c) /\ PairTurn(client[c], session[s], c)
          /\ Parted(client[c], session, batch, c)
      BY <2>3 DEF TakeTurns, TurnOf, Timely
    <3> DEFINE f == [client EXCEPT ![c].poll = "err", ![c].wire = <<>>,
                       ![c].buffer = @ \o Read(c), ![c].gone = AllRead(@)]
               g == [session EXCEPT ![s].poll = "out"]
    <3>3. /\ \A d \in Clients \ {c} : f[d] = client[d]
          /\ f[c].poll = "err" /\ f[c].wire = <<>> /\ f[c].buffer = client[c].buffer \o Read(c)
          /\ f[c].status = client[c].status /\ f[c].pair = client[c].pair
          /\ f[c].turn = client[c].turn /\ f[c].gone = AllRead(client[c].gone)
      BY <1>0, RequestEffect
    <3>4. client' = f /\ session' = g BY <2>3
    <3>r. \/ client[c].wire # <<>> \/ client[c].gone = "quit"
      BY <1>5 DEF ReceiveRequest
    <3>q. client[c].wire = <<>> => client[c].buffer # <<>>
      BY <1>5 DEF ReceiveRequest, Commanded
    <3> HIDE DEF s
    <3>5. /\ \A r \in Sessions \ {s} : g[r] = session[r]
          /\ g[s].poll = "out" /\ g[s].due = session[s].due /\ g[s].answers = session[s].answers
      <4>1. "out" \in Polls BY DEF Polls
      <4> QED BY <1>0, <3>1, <4>1, PollEffect
    <3> HIDE DEF f, g
    <3>6. OtherClients(c, client, client') BY <3>3, <3>4 DEF OtherClients
    <3>7. Mine(c, session') BY <3>2, <3>4, <3>5 DEF Mine
    <3>8. /\ f[c].turn # "send" /\ f[c].status = "forward"
          /\ Outgoing(f[c], c)
          /\ Head(f[c].buffer).kind = "query" => Quiet(session[s])
          /\ Ends(f[c].buffer) => Quiet(session[s])
          /\ session[s].poll = "in" => Quiet(session[s])
      <4>1. client[c].buffer # <<>> => session[s].poll # "in"
        BY <1>e, <3>1, <3>2, <3>t, SessionsAssumption DEF Parted
      <4> QED BY <1>0, <2>3, <3>t, <3>3, <3>r, <3>q, <4>1, ReadBehind
    <3>9. ClientTurn(f[c], c) BY <3>3, <3>8 DEF ClientTurn
    <3>10. PairTurn(f[c], g[s], c)
      <4>1. Quiet(session[s]) => Quiet(g[s]) BY <3>5 DEF Quiet
      <4>2. Asked(g[s], c) BY <3>t, <3>5 DEF PairTurn, Asked, Ends
      <4>3. Phase(f[c], g[s], c) BY <3>3, <3>5, <3>8 DEF Phase
      <4> QED BY <3>3, <3>8, <4>1, <4>2, <4>3 DEF PairTurn
    <3>11. TurnOf(client', session', c) BY <3>2, <3>3, <3>4, <3>9, <3>10 DEF TurnOf
    <3>12. Heeded(g[s], s, batch')
      <4>1. batch' \subseteq batch BY <2>3 DEF Done
      <4>2. Heeded(session[s], s, batch) BY <3>1, <3>2, <3>t, SessionsAssumption DEF Parted
      <4>3. Quiet(session[s]) => Quiet(g[s]) BY <3>5 DEF Quiet
      <4> QED BY <3>5, <3>8, <4>1, <4>2, <4>3 DEF Heeded
    <3> QED BY <1>e, <2>3, <3>2, <3>3, <3>4, <3>6, <3>7, <3>11, <3>12, ReceivedDuplex
  <2> QED BY <1>5, <2>1, <2>2, <2>3 DEF ReceiveRequest
<1> QED BY <1>1, <1>2, <1>3, <1>4, <1>5 DEF OnReceivingAccepted

(* OnSendingAcceptedSocket                                                 *)
LEMMA SendingDuplex ==
  ASSUME Base, Paired(client, session, pool), TakeTurns(client, session),
         Timely(client, session, batch), NEW e \in batch, NEW c \in Clients, OnSendingAccepted(c, e)
  PROVE  TakeTurns(client', session') /\ Timely(client', session', batch')
PROOF
<1> DEFINE s == client[c].pair
<1>0. /\ client \in [Clients -> ClientRecords] /\ session \in [Sessions -> SessionRecords]
      /\ s \in Sessions \cup {None} /\ client[c].status \in Statuses
  BY FitNow DEF Fit
<1>e. /\ Live(c) /\ e = [who |-> c, what |-> "out"]
  <2>1. e.who = c /\ e.what = "out" /\ Live(c) BY DEF OnSendingAccepted
  <2> QED BY <2>1, EventIs
<1>o. client[c].poll = "out" BY <1>e DEF Timely, Live
<1>t. TurnOf(client, session, c) BY DEF TakeTurns
<1>w. client[c].wire = <<>> /\ client[c].turn # "send" BY <1>o, <1>t DEF TurnOf, ClientTurn
<1>d. ASSUME NEW status \in Statuses, client' = Delivered(c, status)
      PROVE  /\ OtherClients(c, client, client') /\ client'[c].pair = client[c].pair
             /\ client'[c].buffer = <<>> /\ client'[c].poll = "in"
             /\ client'[c].status = status /\ ClientTurn(client'[c], c)
             /\ client'[c].wire = <<>>
             /\ client'[c].turn = "send" => Ends(client[c].buffer)
  <2> DEFINE f == Delivered(c, status)
             b == client[c].buffer
             t == IF \E k \in DOMAIN b : b[k].last THEN "send" ELSE client[c].turn
  <2>1. /\ \A d \in Clients \ {c} : f[d] = client[d]
        /\ f[c].buffer = <<>> /\ f[c].poll = "in"
        /\ f[c].wire = client[c].wire /\ f[c].pair = client[c].pair
        /\ f[c].status = status /\ f[c].turn = t
    BY <1>0, DeliveredEffect
  <2>2. client' = f BY <1>d
  <2>3. t = "send" => Ends(b) BY <1>w DEF Ends
  <2> HIDE DEF f, t
  <2> QED BY <1>w, <2>1, <2>2, <2>3 DEF OtherClients, ClientTurn
<1>p. ASSUME s # None
      PROVE  /\ PairTurn(client[c], session[s], c) /\ session[s].poll \in {"in", "err"}
             /\ session[s].list = "work" /\ session[s].owner = c
  <2>1. PairTurn(client[c], session[s], c) BY <1>p, <1>t DEF TurnOf
  <2> QED BY <1>o, <1>p, <2>1 DEF PairTurn, Phase, Paired, Bound
<1>b. ASSUME Done(e) PROVE batch' \subseteq batch /\ [who |-> c, what |-> "out"] \notin batch'
  <2>1. batch' = batch \ {e} BY <1>b DEF Done
  <2> QED BY <1>e, <2>1
<1>1. CASE SendFails(c, e) BY <1>1, CloseClientDuplex DEF SendFails
<1>2. CASE SendBeforeForward(c, e)
  <2> DEFINE st == AfterSending(client[c].status)
  <2>1. /\ client' = Delivered(c, st) /\ UNCHANGED session /\ Done(e)
        /\ client[c].status \in {"handshake", "auth_ok", "select", "selected"}
    BY <1>2 DEF SendBeforeForward
  <2>2. /\ st \in Statuses /\ st # "selected"
    BY <1>0 DEF AfterSending, Statuses
  <2> HIDE DEF st
  <2>3. /\ OtherClients(c, client, client') /\ client'[c].pair = client[c].pair
        /\ client'[c].buffer = <<>> /\ client'[c].poll = "in"
        /\ client'[c].status = st /\ ClientTurn(client'[c], c)
    BY <2>1, <2>2, <1>d
  <2>4. ASSUME s # None PROVE PairTurn(client'[c], session[s], c)
    <3>1. client[c].status = "selected" BY <2>1, <2>4 DEF Paired, Bound
    <3>2. PairTurn(client[c], session[s], c) BY <2>4, <1>p
    <3>3. Quiet(session[s]) /\ session[s].poll = "in" /\ Asked(session[s], c)
      BY <3>1, <3>2 DEF PairTurn
    <3> QED BY <2>2, <2>3, <3>3 DEF PairTurn, Phase
  <2>5. TurnOf(client', session', c) BY <2>1, <2>3, <2>4 DEF TurnOf
  <2>6. batch' \subseteq batch /\ [who |-> c, what |-> "out"] \notin batch' BY <2>1, <1>b
  <2>7. Steady(session, batch') BY <2>6, SameSteady
  <2>8. session' = session BY <2>1
  <2>9. Steady(session', batch') /\ Untouched(c, session') BY <2>7, <2>8 DEF Untouched
  <2>10. Parted(client'[c], session', batch', c)
    BY <2>3, <2>6, <2>8 DEF Timely, Parted, Heeded
  <2> QED BY <2>3, <2>5, <2>6, <2>9, <2>10, OneTurn, OneTimely
<1>3. CASE SendForward(c, e)
  <2>1. CASE Dies BY <2>1, DiesDuplex
  <2>2. CASE /\ s # None /\ client' = Delivered(c, "forward")
             /\ session' = [session EXCEPT ![s].poll = "in"]
             /\ Done(e)
    <3>0. s \in Sessions BY <1>0, <2>2
    <3>1. /\ OtherClients(c, client, client') /\ client'[c].pair = client[c].pair
          /\ client'[c].buffer = <<>> /\ client'[c].poll = "in"
          /\ client'[c].status = "forward" /\ ClientTurn(client'[c], c)
          /\ client'[c].wire = <<>>
          /\ client'[c].turn = "send" => Ends(client[c].buffer)
      <4>1. "forward" \in Statuses BY DEF Statuses
      <4> QED BY <2>2, <4>1, <1>d
    <3>2. /\ PairTurn(client[c], session[s], c) /\ session[s].poll \in {"in", "err"}
          /\ session[s].list = "work" /\ session[s].owner = c
      BY <2>2, <1>p
    <3>3. /\ client[c].pair = s /\ session' = [session EXCEPT ![s].poll = "in"] BY <2>2
    <3> HIDE DEF s
    <3>4. /\ \A r \in Sessions \ {s} : session'[r] = session[r]
          /\ session'[s].poll = "in" /\ session'[s].due = session[s].due
          /\ session'[s].answers = session[s].answers
          /\ session'[s].owner = session[s].owner
      <4>1. "in" \in Polls BY DEF Polls
      <4> QED BY <1>0, <3>0, <3>3, <4>1, PollEffect
    <3>5. PairTurn(client'[c], session'[s], c)
      <4>1. Asked(session'[s], c) BY <3>2, <3>4 DEF PairTurn, Asked, Ends
      <4>2. client'[c].turn = "send" => Quiet(session'[s]) BY <3>1, <3>2, <3>4 DEF PairTurn, Quiet
      <4>3. ~ Ends(client'[c].buffer) BY <3>1 DEF Ends
      <4> QED BY <3>1, <3>4, <4>1, <4>2, <4>3 DEF PairTurn, Phase
    <3>6. TurnOf(client', session', c) BY <3>1, <3>3, <3>5 DEF TurnOf
    <3>7. batch' \subseteq batch /\ [who |-> c, what |-> "out"] \notin batch' BY <2>2, <1>b
    <3>8. ASSUME NEW r \in Sessions, [who |-> r, what |-> "out"] \in batch'
          PROVE  session'[r].owner = session[r].owner /\ (session'[r].list = "work" => session'[r].poll = "out")
      <4>1. session[r].list = "work" => session[r].poll = "out" BY <3>7, <3>8 DEF Timely
      <4>2. r # s BY <3>2, <4>1
      <4> QED BY <3>4, <4>1, <4>2
    <3>9. Steady(session', batch') /\ Untouched(c, session') BY <3>2, <3>4, <3>8 DEF Steady, Untouched
    <3>10. Parted(client'[c], session', batch', c) BY <3>1, <3>3, <3>4 DEF Parted, Heeded
    <3> QED BY <3>1, <3>6, <3>7, <3>9, <3>10, OneTurn, OneTimely
  <2> QED BY <1>3, <2>1, <2>2 DEF SendForward
<1> QED BY <1>1, <1>2, <1>3 DEF OnSendingAccepted

-----------------------------------------------------------------------------
(* A handler works for the client of its connection, which is in work.     *)
LEMMA ActsFor ==
  ASSUME Base, Paired(client, session, pool), TakeTurns(client, session),
         NEW s \in Sessions, session[s].list # "free", Acts(s), "pair" \notin strayed'
  PROVE  /\ Owner(s) \in Clients /\ client[Owner(s)].pair = s /\ s # None
         /\ session[s].list = "work" /\ session[s].owner = Owner(s)
         /\ ClientTurn(client[Owner(s)], Owner(s))
         /\ PairTurn(client[Owner(s)], session[s], Owner(s))
PROOF
<1> DEFINE c == Owner(s)
<1>1. c \in Clients /\ session[s].owner = c BY DEF Base, Shape, Owner
<1>2. client[c].pair = s /\ s # None BY SessionsAssumption DEF Acts, Owner
<1> HIDE DEF c
<1>3. session[s].list = "work" BY <1>1, <1>2 DEF Paired, Bound
<1>4. TurnOf(client, session, c) BY <1>1 DEF TakeTurns
<1>5. ClientTurn(client[c], c) /\ PairTurn(client[c], session[s], c) BY <1>2, <1>4 DEF TurnOf
<1> QED BY <1>1, <1>2, <1>3, <1>5 DEF c

(* A handler of the connection s has changed it and its client.            *)
LEMMA ServedDuplex ==
  ASSUME Base, Paired(client, session, pool), TakeTurns(client, session),
         Timely(client, session, batch), batch' \subseteq batch,
         NEW s \in Sessions, NEW c \in Clients, client[c].pair = s, session[s].owner = c,
         OtherClients(c, client, client'), client'[c].pair = s,
         \A r \in Sessions \ {s} : session'[r] = session[r],
         session'[s].owner = c,
         [who |-> s, what |-> "out"] \notin batch',
         [who |-> c, what |-> "out"] \in batch' =>
           client'[c].status \in {"free", "leaked"} \/ client'[c].poll = "out",
         Heeded(session'[s], s, batch'),
         client'[c].buffer # <<>> => session'[s].poll # "in",
         ClientTurn(client'[c], c), PairTurn(client'[c], session'[s], c)
  PROVE  TakeTurns(client', session') /\ Timely(client', session', batch')
PROOF
<1>1. TurnOf(client', session', c) BY DEF TurnOf
<1>2. Untouched(c, session') BY DEF Untouched
<1>3. ASSUME NEW r \in Sessions, [who |-> r, what |-> "out"] \in batch'
      PROVE  session'[r].owner = session[r].owner /\ (session'[r].list = "work" => session'[r].poll = "out")
  <2>1. r # s BY <1>3
  <2>2. session'[r] = session[r] BY <2>1
  <2>3. [who |-> r, what |-> "out"] \in batch BY <1>3
  <2> QED BY <2>2, <2>3 DEF Timely
<1>4. Steady(session', batch') BY <1>3 DEF Steady
<1>5. TakeTurns(client', session') BY <1>1, <1>2, OneTurn
<1>6. Parted(client'[c], session', batch', c) BY DEF Parted
<1>7. Timely(client', session', batch') BY <1>2, <1>4, <1>6, OneTimely
<1> QED BY <1>5, <1>7

(* The parts of an answer that have come, behind what was there.           *)
LEMMA AnswersFit ==
  ASSUME NEW b \in Seq(Messages), NEW a \in Seq(Messages), NEW c,
         \A k \in DOMAIN b : Fits(b[k], c),
         \A k \in DOMAIN a : a[k].kind = "answer" /\ a[k].of = c,
         a # <<>>
  PROVE  /\ b \o a # <<>>
         /\ \A k \in DOMAIN (b \o a) : Fits((b \o a)[k], c)
         /\ Ends(b \o a) => Ends(b) \/ Ends(a)
PROOF
<1> DEFINE q == b \o a
<1>1. /\ Len(b) \in Nat /\ Len(a) \in Nat /\ DOMAIN b = 1..Len(b) /\ DOMAIN a = 1..Len(a)
  BY LenProperties
<1>2. /\ q \in Seq(Messages) /\ Len(q) = Len(b) + Len(a)
      /\ \A k \in 1..(Len(b) + Len(a)) : q[k] = IF k <= Len(b) THEN b[k] ELSE a[k - Len(b)]
  BY ConcatProperties
<1> HIDE DEF q
<1>3. DOMAIN q = 1..(Len(b) + Len(a)) BY <1>2, LenProperties
<1>4. ASSUME NEW k \in DOMAIN q
      PROVE  \/ k \in DOMAIN b /\ q[k] = b[k]
             \/ \E j \in DOMAIN a : q[k] = a[j]
  <2>1. CASE k <= Len(b) BY <1>1, <1>2, <1>3, <2>1
  <2>2. CASE ~ (k <= Len(b))
    <3> DEFINE j == k - Len(b)
    <3>1. j \in DOMAIN a /\ q[k] = a[j] BY <1>1, <1>2, <1>3, <2>2
    <3> QED BY <3>1
  <2> QED BY <2>1, <2>2
<1>5. \A k \in DOMAIN q : Fits(q[k], c) BY <1>4 DEF Fits
<1>6. Ends(q) => Ends(b) \/ Ends(a)
  <2>1. ASSUME NEW k \in DOMAIN q, q[k].last PROVE Ends(b) \/ Ends(a)
    <3>1. CASE k \in DOMAIN b /\ q[k] = b[k] BY <2>1, <3>1 DEF Ends
    <3>2. CASE \E j \in DOMAIN a : q[k] = a[j] BY <2>1, <3>2 DEF Ends
    <3> QED BY <1>4, <3>1, <3>2
  <2> QED BY <2>1 DEF Ends
<1>7. q # <<>>
  <2>1. Len(a) # 0 BY EmptySeq
  <2>2. Len(q) # 0 BY <1>1, <1>2, <2>1
  <2> QED BY <1>2, <2>2, EmptySeq
<1> QED BY <1>5, <1>6, <1>7 DEF q

(* OnReceivingForwardSocket                                                *)
LEMMA AnsweringDuplex ==
  ASSUME Base, Paired(client, session, pool), TakeTurns(client, session),
         Timely(client, session, batch), NEW e \in batch, NEW s \in Sessions,
         OnReceivingForward(s, e), "pair" \notin strayed'
  PROVE  TakeTurns(client', session') /\ Timely(client', session', batch')
PROOF
<1>0. /\ client \in [Clients -> ClientRecords] /\ session \in [Sessions -> SessionRecords]
      /\ session[s].list # "free"
  BY FitNow DEF Base, BatchShape, OnReceivingForward
<1>e. e = [who |-> s, what |-> "in"]
  <2>1. e.who = s /\ e.what = "in" BY DEF OnReceivingForward
  <2> QED BY <2>1, EventIs
<1>1. CASE ReceiveAnswer(s, e)
  <2> DEFINE c == Owner(s)
             a == session[s].answers
             b == client[c].buffer
  <2>1. /\ client' = [client EXCEPT ![c].buffer = @ \o a, ![c].poll = "out"]
        /\ session' = [session EXCEPT ![s].answers = <<>>, ![s].poll = "err"]
        /\ a # <<>> /\ Acts(s) /\ Done(e)
    BY <1>1 DEF ReceiveAnswer
  <2>2. /\ c \in Clients /\ client[c].pair = s
        /\ session[s].list = "work" /\ session[s].owner = c
        /\ ClientTurn(client[c], c) /\ PairTurn(client[c], session[s], c)
    BY <1>0, <2>1, ActsFor
  <2>3. a \in Seq(Messages) /\ b \in Seq(Messages)
    BY <1>0, <2>2 DEF SessionRecords, ClientRecords
  <2>4. ~ Quiet(session[s]) BY <2>1 DEF Quiet
  <2> HIDE DEF c
  <2>p. session[s].poll = "in"
    <3>1. Parted(client[c], session, batch, c) /\ s # None BY <2>2, SessionsAssumption DEF Timely
    <3>2. Heeded(session[s], s, batch) BY <2>2, <3>1 DEF Parted
    <3> QED BY <1>e, <2>4, <3>2 DEF Heeded
  <2>5. /\ client[c].turn # "send" /\ client[c].wire = <<>> /\ client[c].status # "selected"
        /\ session[s].poll # "out" /\ ~ Ends(b)
    BY <2>2, <2>4, <2>p DEF PairTurn
  <2>6. \A k \in DOMAIN b : Fits(b[k], c)
    <3>1. CASE client[c].poll = "out" BY <2>2, <3>1 DEF ClientTurn
    <3>2. CASE client[c].poll # "out"
      <4>1. b = <<>> BY <2>2, <2>5, <3>2 DEF PairTurn, Phase
      <4> QED BY <4>1
    <3> QED BY <3>1, <3>2
  <2>7. /\ \A k \in DOMAIN a : a[k].kind = "answer" /\ a[k].of = c
        /\ Ends(a) => session[s].due = <<>>
        /\ Len(session[s].due) <= 1 /\ \A k \in DOMAIN session[s].due : session[s].due[k].of = c
    BY <2>2 DEF PairTurn, Asked
  <2> HIDE DEF a, b
  <2>8. /\ b \o a # <<>>
        /\ \A k \in DOMAIN (b \o a) : Fits((b \o a)[k], c)
        /\ Ends(b \o a) => Ends(b) \/ Ends(a)
    BY <2>1, <2>3, <2>6, <2>7, AnswersFit
  <2> DEFINE f == [client EXCEPT ![c].buffer = @ \o a, ![c].poll = "out"]
             g == [session EXCEPT ![s].answers = <<>>, ![s].poll = "err"]
  <2>9. /\ \A d \in Clients \ {c} : f[d] = client[d]
        /\ f[c].poll = "out" /\ f[c].buffer = client[c].buffer \o a
        /\ f[c].status = client[c].status /\ f[c].pair = client[c].pair
        /\ f[c].wire = client[c].wire /\ f[c].turn = client[c].turn
    BY ZenonT(60), <1>0, <2>2, <2>3, AnswerEffect
  <2>b. client[c].buffer = b BY DEF b
  <2>10. /\ \A r \in Sessions \ {s} : g[r] = session[r]
         /\ g[s].poll = "err" /\ g[s].answers = <<>>
         /\ g[s].owner = session[s].owner /\ g[s].due = session[s].due
    BY <1>0, TakenUpEffect
  <2>11. client' = f /\ session' = g BY <2>1
  <2> HIDE DEF f, g
  <2>12. ClientTurn(f[c], c) BY <2>5, <2>8, <2>9, <2>b DEF ClientTurn
  <2>13. PairTurn(f[c], g[s], c)
    <3>1. Asked(g[s], c) BY <2>7, <2>10 DEF Asked, Ends
    <3>2. Phase(f[c], g[s], c) BY <2>9, <2>10 DEF Phase
    <3>3. Ends(f[c].buffer) => Quiet(g[s]) BY <2>5, <2>7, <2>8, <2>9, <2>b, <2>10 DEF Quiet
    <3> QED BY <2>5, <2>9, <2>10, <3>1, <3>2, <3>3 DEF PairTurn
  <2>14. batch' \subseteq batch BY <2>1 DEF Done
  <2>15. [who |-> s, what |-> "out"] \notin batch'
    <3>1. ASSUME [who |-> s, what |-> "out"] \in batch PROVE FALSE
      <4>1. session[s].poll = "out" BY <2>2, <3>1 DEF Timely
      <4> QED BY <2>5, <4>1
    <3> QED BY <2>14, <3>1
  <2>16. OtherClients(c, client, client') BY <2>9, <2>11 DEF OtherClients
  <2>17. Heeded(g[s], s, batch')
    <3>1. [who |-> s, what |-> "in"] \notin batch' BY <1>e, <2>1 DEF Done
    <3> QED BY <3>1 DEF Heeded
  <2> QED BY <2>2, <2>9, <2>10, <2>11, <2>12, <2>13, <2>14, <2>15, <2>16, <2>17, ServedDuplex
<1>2. CASE Dies BY <1>2, DiesDuplex
<1>3. CASE CloseSession(s, e) BY <1>0, <1>3, CloseSessionDuplex
<1> QED BY <1>1, <1>2, <1>3 DEF OnReceivingForward

(* OnSendingForwardSocket                                                  *)
LEMMA RequestingDuplex ==
  ASSUME Base, Paired(client, session, pool), TakeTurns(client, session),
         Timely(client, session, batch), NEW e \in batch, NEW s \in Sessions,
         OnSendingForward(s, e), "pair" \notin strayed'
  PROVE  TakeTurns(client', session') /\ Timely(client', session', batch')
PROOF
<1>0. /\ client \in [Clients -> ClientRecords] /\ session \in [Sessions -> SessionRecords]
      /\ session[s].list # "free"
  BY FitNow DEF Base, BatchShape, OnSendingForward
<1>e. e = [who |-> s, what |-> "out"]
  <2>1. e.who = s /\ e.what = "out" BY DEF OnSendingForward
  <2> QED BY <2>1, EventIs
<1>1. CASE SendRequest(s, e)
  <2> DEFINE c == Owner(s)
             q == client[c].buffer
             o == Head(q).of
  <2>1. /\ Acts(s) /\ Done(e) /\ client' = [client EXCEPT ![c].buffer = <<>>]
        /\ \/ /\ session' = [session EXCEPT ![s].poll = "in",
                               ![s].due = Append(@, [of |-> o, left |-> Parts])]
              /\ Head(q).kind = "query"
           \/ session' = [session EXCEPT ![s].poll = "in", ![s].link = "rst",
                            ![s].due = <<>>, ![s].answers = <<>>]
    BY <1>1 DEF SendRequest, Sensible
  <2>2. /\ c \in Clients /\ client[c].pair = s
        /\ session[s].list = "work" /\ session[s].owner = c
        /\ ClientTurn(client[c], c) /\ PairTurn(client[c], session[s], c)
    BY <1>0, <2>1, ActsFor
  <2> HIDE DEF c
  <2>3. session[s].poll = "out" BY <1>e, <2>2 DEF Timely
  <2>4. /\ Outgoing(client[c], c) /\ client[c].poll = "err" /\ client[c].status # "selected"
        /\ Head(q).kind = "query" => Quiet(session[s])
    BY <2>2, <2>3 DEF PairTurn, Phase
  <2>5. Head(q).kind = "query" => o = c
    <3>1. q = <<Query(c)>> => Head(q) = Query(c) OBVIOUS
    <3>2. Head(q).kind = "query" => Head(q) = Query(c) BY <2>4, <3>1 DEF Outgoing
    <3> QED BY <3>2 DEF Query
  <2>6. client[c].turn # "send" /\ client[c].wire = <<>> BY <2>2, <2>4 DEF ClientTurn
  <2> HIDE DEF o, q
  <2>7. /\ OtherClients(c, client, client')
        /\ client'[c].status = client[c].status /\ client'[c].pair = client[c].pair
        /\ client'[c].wire = client[c].wire /\ client'[c].poll = client[c].poll
        /\ client'[c].turn = client[c].turn /\ client'[c].buffer = <<>>
    <3>1. client[c] \in ClientRecords BY <1>0, <2>2
    <3> DEFINE w == <<>>
               n == [client[c] EXCEPT !.buffer = w]
    <3>2. client' = [client EXCEPT ![c] = n] BY <2>1
    <3> HIDE DEF w
    <3>3. /\ n.status = client[c].status /\ n.pair = client[c].pair
          /\ n.wire = client[c].wire /\ n.poll = client[c].poll
          /\ n.turn = client[c].turn /\ n.buffer = w
      BY <3>1 DEF ClientRecords
    <3> HIDE DEF n
    <3> QED BY <1>0, <2>2, <3>2, <3>3 DEF OtherClients, w
  <2>8. /\ \A r \in Sessions \ {s} : session'[r] = session[r]
        /\ session'[s].poll = "in" /\ session'[s].owner = session[s].owner
        /\ session'[s].answers = <<>>
        /\ session'[s].due = <<>> \/ session'[s].due = <<[of |-> c, left |-> Parts]>>
    <3>1. CASE /\ session' = [session EXCEPT ![s].poll = "in",
                                ![s].due = Append(@, [of |-> o, left |-> Parts])]
               /\ o = c /\ Quiet(session[s])
      <4>1. /\ \A r \in Sessions \ {s} : session'[r] = session[r]
            /\ session'[s].poll = "in" /\ session'[s].owner = session[s].owner
            /\ session'[s].answers = session[s].answers
            /\ session'[s].due = Append(session[s].due, [of |-> o, left |-> Parts])
        <5>1. o \in Clients \cup {None} BY <2>2, <3>1
        <5>2. session' = [session EXCEPT ![s].poll = "in",
                            ![s].due = Append(@, [of |-> o, left |-> Parts])]
          BY <3>1
        <5> QED BY <1>0, <5>1, <5>2, HeardEffect
      <4>2. session'[s].due = <<[of |-> c, left |-> Parts]>>
        <5>1. o = c /\ session[s].due = <<>> BY <3>1 DEF Quiet
        <5> QED BY <4>1, <5>1
      <4> QED BY <3>1, <4>1, <4>2 DEF Quiet
    <3>2. CASE session' = [session EXCEPT ![s].poll = "in", ![s].link = "rst",
                             ![s].due = <<>>, ![s].answers = <<>>]
      <4>1. /\ \A r \in Sessions \ {s} : session'[r] = session[r]
            /\ session'[s].poll = "in" /\ session'[s].owner = session[s].owner
            /\ session'[s].answers = <<>> /\ session'[s].due = <<>>
        BY <1>0, <3>2, UnheardEffect
      <4> QED BY <4>1
    <3> QED BY <2>1, <2>4, <2>5, <3>1, <3>2
  <2>9. ClientTurn(client'[c], c) BY <2>4, <2>6, <2>7 DEF ClientTurn
  <2>10. PairTurn(client'[c], session'[s], c)
    <3>1. Asked(session'[s], c)
      <4> DEFINE D == session'[s].due
                 x == [of |-> c, left |-> Parts]
      <4>0. x.of = c /\ (D = <<>> \/ D = <<x>>) BY <2>8
      <4> HIDE DEF x, D
      <4>1. Len(D) <= 1 /\ \A k \in DOMAIN D : D[k].of = c
        <5>1. CASE D = <<>> BY <5>1
        <5>2. CASE D = <<x>> BY <4>0, <5>2
        <5> QED BY <4>0, <5>1, <5>2
      <4> QED BY <2>8, <4>1 DEF Asked, Ends, D
    <3>2. Phase(client'[c], session'[s], c) BY <2>4, <2>7, <2>8 DEF Phase
    <3>3. ~ Ends(client'[c].buffer) BY <2>7 DEF Ends
    <3> QED BY <2>4, <2>6, <2>7, <2>8, <3>1, <3>2, <3>3 DEF PairTurn
  <2>11. batch' = batch \ {e} BY <2>1 DEF Done
  <2>12. [who |-> s, what |-> "out"] \notin batch' BY <1>e, <2>11
  <2>13. ASSUME [who |-> c, what |-> "out"] \in batch'
         PROVE  client'[c].status \in {"free", "leaked"} \/ client'[c].poll = "out"
    <3>1. client[c].status \in {"free", "leaked"} \/ client[c].poll = "out"
      BY <2>2, <2>11, <2>13 DEF Timely
    <3> QED BY <2>7, <3>1
  <2>14. Heeded(session'[s], s, batch') BY <2>8 DEF Heeded
  <2> QED BY <2>2, <2>7, <2>8, <2>9, <2>10, <2>11, <2>12, <2>13, <2>14, ServedDuplex
<1>2. CASE Dies BY <1>2, DiesDuplex
<1>3. CASE CloseSession(s, e) BY <1>0, <1>3, CloseSessionDuplex
<1> QED BY <1>1, <1>2, <1>3 DEF OnSendingForward

(* OnAcceptingSocket                                                       *)
LEMMA AcceptingDuplex ==
  ASSUME Base, Paired(client, session, pool), TakeTurns(client, session),
         Timely(client, session, batch), NEW e, OnAccepting(e)
  PROVE  TakeTurns(client', session') /\ Timely(client', session', batch')
PROOF
<1>0. client \in [Clients -> ClientRecords] BY FitNow
<1>1. PICK new \in SUBSET {c \in Clients : client[c].status = "free"} :
        client' = [c \in Clients |-> IF c \in new THEN NewClient ELSE client[c]]
  BY DEF OnAccepting
<1>2. session' = session /\ batch' \subseteq batch BY DEF OnAccepting
<1>3. ASSUME NEW c \in Clients PROVE client'[c] = client[c] \/ client'[c] = NewClient
  BY <1>1
<1>4. /\ NewClient.wire = <<>> /\ NewClient.pair = None /\ NewClient.poll = "out"
      /\ NewClient.buffer = <<Own>> /\ NewClient.turn = "wait"
  BY DEF NewClient, FreeClient
<1>5. ASSUME NEW c \in Clients PROVE TurnOf(client', session', c)
  <2>1. TurnOf(client, session, c) BY DEF TakeTurns
  <2>2. ClientTurn(NewClient, c) BY <1>4 DEF ClientTurn, Fits
  <2>3. CASE client'[c] = client[c] BY <1>2, <2>1, <2>3 DEF TurnOf
  <2>4. CASE client'[c] = NewClient BY <1>4, <2>2, <2>4 DEF TurnOf
  <2> QED BY <1>3, <2>3, <2>4
<1>6. TakeTurns(client', session') BY <1>5 DEF TakeTurns
<1>7. ASSUME NEW c \in Clients, [who |-> c, what |-> "out"] \in batch'
      PROVE  /\ client'[c].status \in {"free", "leaked"} \/ client'[c].poll = "out"
             /\ [who |-> c, what |-> "in"] \notin batch'
  <2>1. /\ client[c].status \in {"free", "leaked"} \/ client[c].poll = "out"
        /\ [who |-> c, what |-> "in"] \notin batch
    BY <1>2, <1>7 DEF Timely
  <2> QED BY <2>1, <1>2, <1>3, <1>4
<1>8. ASSUME NEW s \in Sessions, [who |-> s, what |-> "out"] \in batch'
      PROVE  /\ session'[s].list = "work" => session'[s].poll = "out"
             /\ [who |-> session'[s].owner, what |-> "in"] \notin batch'
  BY <1>2, <1>8 DEF Timely
<1>9. ASSUME NEW c \in Clients PROVE Parted(client'[c], session', batch', c)
  <2>1. Parted(client[c], session, batch, c) BY DEF Timely
  <2>2. CASE client'[c] = client[c] BY <1>2, <2>1, <2>2 DEF Parted, Heeded
  <2>3. CASE client'[c] = NewClient BY <1>4, <2>3 DEF Parted
  <2> QED BY <1>3, <2>2, <2>3
<1>10. Timely(client', session', batch') BY <1>7, <1>8, <1>9 DEF Timely
<1> QED BY <1>6, <1>10

LEMMA HandleDuplex ==
  ASSUME Base, Wired, Paired(client, session, pool), TakeTurns(client, session),
         Timely(client, session, batch), Handle, strayed' \subseteq {"end"}
  PROVE  TakeTurns(client', session') /\ Timely(client', session', batch')
PROOF
<1>0. "pair" \notin strayed' OBVIOUS
<1>1. PICK e \in batch :
        \/ OnAccepting(e)
        \/ \E c \in Clients :
             \/ OnReceivingAccepted(c, e) \/ OnSendingAccepted(c, e)
             \/ AcceptedError(c, e)       \/ AcceptedGone(c, e)
        \/ \E s \in Sessions :
             \/ OnReceivingForward(s, e)  \/ OnSendingForward(s, e)
             \/ ForwardError(s, e)        \/ ForwardGone(s, e)
  BY DEF Handle
<1> DEFINE Goal == TakeTurns(client', session') /\ Timely(client', session', batch')
<1>2. CASE OnAccepting(e) BY <1>2, AcceptingDuplex
<1>3. ASSUME NEW c \in Clients, OnReceivingAccepted(c, e) PROVE Goal
  BY <1>3, ReceivingDuplex
<1>4. ASSUME NEW c \in Clients, OnSendingAccepted(c, e) PROVE Goal
  BY <1>4, SendingDuplex
<1>5. ASSUME NEW c \in Clients, AcceptedError(c, e) PROVE Goal
  BY <1>5, CloseClientDuplex DEF AcceptedError
<1>6. ASSUME NEW c \in Clients, AcceptedGone(c, e) PROVE Goal
  BY <1>6, DiesDuplex, OutlivedDuplex DEF AcceptedGone
<1>7. ASSUME NEW s \in Sessions, OnReceivingForward(s, e) PROVE Goal
  BY <1>0, <1>7, AnsweringDuplex
<1>8. ASSUME NEW s \in Sessions, OnSendingForward(s, e) PROVE Goal
  BY <1>0, <1>8, RequestingDuplex
<1>9. ASSUME NEW s \in Sessions, ForwardError(s, e) PROVE Goal
  <2>1. session[s].list # "free" BY <1>9 DEF ForwardError, Base, BatchShape
  <2> QED BY <1>0, <1>9, <2>1, CloseSessionDuplex DEF ForwardError
<1>10. ASSUME NEW s \in Sessions, ForwardGone(s, e) PROVE Goal
  BY <1>10, DiesDuplex, OutlivedDuplex DEF ForwardGone
<1> HIDE DEF Goal
<1>11. Goal BY <1>1, <1>2, <1>3, <1>4, <1>5, <1>6, <1>7, <1>8, <1>9, <1>10 DEF Goal
<1> QED BY <1>11 DEF Goal

-----------------------------------------------------------------------------
(* What epoll_wait returns of a client or a connection is what it is       *)
(* polled for.                                                             *)
LEMMA ReturnedPolls ==
  ASSUME NEW ses, NEW e \in Returned(ses)
  PROVE  /\ \A c \in Clients : e.who = c => e \in ReadyClient(c) /\ e.what = client[c].poll
         /\ \A s \in Sessions : e.who = s => e \in ReadySession(ses, s) /\ e.what = ses[s].poll
         /\ e.what \in {"in", "out", "err"}
PROOF
<1>0. Listen \notin Clients \cup Sessions /\ Clients \cap Sessions = {} BY SessionsAssumption
<1>1. CASE e = [who |-> Listen, what |-> "in"]
  <2>1. e.who = Listen /\ e.what = "in" BY <1>1
  <2> QED BY <1>0, <2>1
<1>2. ASSUME NEW c \in Clients, e \in ReadyClient(c)
      PROVE  /\ \A d \in Clients : e.who = d => e \in ReadyClient(d) /\ e.what = client[d].poll
             /\ \A s \in Sessions : e.who # s
             /\ e.what \in {"in", "out", "err"}
  <2>1. e.who = c /\ e.what = client[c].poll /\ e.what \in {"in", "out", "err"} BY <1>2, ReadyClientIs
  <2> QED BY <1>0, <1>2, <2>1
<1>3. ASSUME NEW r \in Sessions, e \in ReadySession(ses, r)
      PROVE  /\ \A s \in Sessions : e.who = s => e \in ReadySession(ses, s) /\ e.what = ses[s].poll
             /\ \A d \in Clients : e.who # d
             /\ e.what \in {"in", "out", "err"}
  <2>1. e.who = r /\ e.what = ses[r].poll /\ e.what \in {"in", "out", "err"} BY <1>3, ReadySessionIs
  <2> QED BY <1>0, <1>3, <2>1
<1> QED BY <1>1, <1>2, <1>3, ReturnedIs

(* Connections in work are not closed at the end of a turn.                *)
LEMMA TurnKeepsWork ==
  ASSUME Base, Paired(client, session, pool), Turn
  PROVE  /\ client' = client /\ batch' = Returned(session')
         /\ \A s \in Sessions : \/ session[s].list # "work" /\ session'[s] = FreeSession
                                \/ session'[s] = session[s]
PROOF
<1>1. PICK keep \in [Servers -> 0..Cardinality(Sessions)] :
        /\ \A v \in Servers : keep[v] <= Len(pool[v])
        /\ session' = [s \in Sessions |-> IF s \in Expired(keep) THEN FreeSession ELSE session[s]]
  BY DEF Turn
<1>2. client' = client /\ batch' = Returned(session') BY DEF Turn, Returned
<1>3. ASSUME NEW v \in Servers
      PROVE  /\ Len(pool[v]) \in Nat /\ DOMAIN pool[v] = 1..Len(pool[v])
             /\ keep[v] \in Nat
  <2>1. pool[v] \in Seq(Sessions) BY FitNow DEF Fit
  <2>2. keep[v] \in 0..Cardinality(Sessions) BY <1>1
  <2>3. \A x \in 0..Cardinality(Sessions) : x \in Nat OBVIOUS
  <2> QED BY <2>1, <2>2, <2>3, LenProperties
<1>4. \A s \in Sessions : s \in Expired(keep) => session[s].list # "work"
  <2> SUFFICES ASSUME NEW v \in Servers, NEW k \in 1..(Len(pool[v]) - keep[v])
               PROVE  session[pool[v][k]].list # "work"
    BY DEF Expired
  <2>1. k \in DOMAIN pool[v] BY <1>1, <1>3
  <2> QED BY <2>1 DEF Paired, Stored
<1> QED BY <1>1, <1>2, <1>4

LEMMA TurnDuplex ==
  ASSUME Base, Paired(client, session, pool), TakeTurns(client, session), Turn,
         Shape', Paired(client', session', pool')
  PROVE  TakeTurns(client', session') /\ Timely(client', session', batch')
PROOF
<1>1. /\ client' = client /\ batch' = Returned(session')
      /\ \A s \in Sessions : \/ session[s].list # "work" /\ session'[s] = FreeSession
                             \/ session'[s] = session[s]
  BY TurnKeepsWork
<1>2. ASSUME NEW c \in Clients PROVE TurnOf(client', session', c)
  <2>1. TurnOf(client, session, c) BY DEF TakeTurns
  <2>2. ASSUME client[c].pair # None PROVE session'[client[c].pair] = session[client[c].pair]
    <3>1. client[c].pair \in Sessions BY <2>2, FitNow DEF Fit
    <3>2. session[client[c].pair].list = "work" BY <2>2 DEF Paired, Bound
    <3> QED BY <1>1, <3>1, <3>2
  <2> QED BY <1>1, <2>1, <2>2 DEF TurnOf
<1>3. TakeTurns(client', session') BY <1>2 DEF TakeTurns
<1>4. ASSUME NEW c \in Clients, NEW w, [who |-> c, what |-> w] \in batch'
      PROVE  client[c].poll = w
  <2> DEFINE e == [who |-> c, what |-> w]
  <2>1. e.who = c /\ e.what = w /\ e \in Returned(session') BY <1>1, <1>4
  <2> HIDE DEF e
  <2> QED BY <2>1, ReturnedPolls
<1>5. ASSUME NEW s \in Sessions, NEW w, [who |-> s, what |-> w] \in batch'
      PROVE  session'[s].poll = w
  <2> DEFINE e == [who |-> s, what |-> w]
  <2>1. e.who = s /\ e.what = w /\ e \in Returned(session') BY <1>1, <1>5
  <2> HIDE DEF e
  <2> QED BY <2>1, ReturnedPolls
<1>6. ASSUME NEW s \in Sessions, [who |-> s, what |-> "out"] \in batch'
      PROVE  /\ session'[s].poll = "out"
             /\ [who |-> session'[s].owner, what |-> "in"] \notin batch'
  <2>1. session'[s].poll = "out" BY <1>5, <1>6
  <2>2. session'[s] = session[s] BY <1>1, <2>1 DEF FreeSession
  <2>3. session[s].list = "work"
    <3>1. session[s].list # "free" BY <2>1, <2>2 DEF Base, Shape
    <3>2. session[s].list # "pool" BY <2>1, <2>2 DEF Paired, Stored
    <3> QED BY <3>1, <3>2, FitNow DEF Fit
  <2> DEFINE c == session[s].owner
  <2>4. c \in Clients /\ client[c].pair = s /\ s # None
    BY <2>3, SessionsAssumption DEF Base, Shape, Paired, Used
  <2> HIDE DEF c
  <2>5. TurnOf(client, session, c) BY <2>4 DEF TakeTurns
  <2>6. client[c].poll = "err" BY <2>1, <2>2, <2>4, <2>5 DEF TurnOf, PairTurn, Phase
  <2>7. [who |-> c, what |-> "in"] \notin batch' BY <1>4, <2>4, <2>6
  <2> QED BY <2>1, <2>2, <2>7 DEF c
<1>7. ASSUME NEW c \in Clients PROVE Parted(client'[c], session', batch', c)
  <2>1. SUFFICES ASSUME client[c].pair # None
                 PROVE  /\ Heeded(session'[client[c].pair], client[c].pair, batch')
                        /\ [who |-> c, what |-> "in"] \in batch' => client[c].buffer = <<>>
    BY <1>1 DEF Parted
  <2>2. client[c].pair \in Sessions BY <2>1, FitNow DEF Fit
  <2>3. Heeded(session'[client[c].pair], client[c].pair, batch') BY <1>5, <2>2 DEF Heeded
  <2>4. TurnOf(client, session, c) BY DEF TakeTurns
  <2>5. client[c].poll = "in" => client[c].buffer = <<>>
    BY <2>1, <2>4 DEF TurnOf, PairTurn, Phase
  <2> QED BY <1>4, <2>3, <2>5
<1>8. \A c \in Clients : [who |-> c, what |-> "out"] \in batch' => [who |-> c, what |-> "in"] \notin batch'
  <2> SUFFICES ASSUME NEW c \in Clients, [who |-> c, what |-> "out"] \in batch',
                      [who |-> c, what |-> "in"] \in batch'
               PROVE  FALSE
    OBVIOUS
  <2>1. client[c].poll = "out" /\ client[c].poll = "in" BY <1>4
  <2> QED BY <2>1
<1>9. Timely(client', session', batch') BY <1>1, <1>4, <1>6, <1>7, <1>8 DEF Timely
<1> QED BY <1>3, <1>9

-----------------------------------------------------------------------------
LEMMA PairTurnKept ==
  ASSUME NEW x, NEW y, NEW z, NEW c, PairTurn(x, y, c), z.poll = y.poll, Asked(z, c),
         Quiet(y) => Quiet(z)
  PROVE  PairTurn(x, z, c)
BY DEF PairTurn, Phase

(* Servers change what their connections bring.                            *)
LEMMA ServersDuplex ==
  ASSUME Base, TakeTurns(client, session), Timely(client, session, batch),
         client' = client, batch' = batch,
         \A r \in Sessions : /\ session'[r].list = session[r].list /\ session'[r].owner = session[r].owner
                             /\ session'[r].poll = session[r].poll
                             /\ Quiet(session[r]) => Quiet(session'[r])
                             /\ \A c \in Clients : Asked(session[r], c) => Asked(session'[r], c)
  PROVE  TakeTurns(client', session') /\ Timely(client', session', batch')
PROOF
<1>1. ASSUME NEW c \in Clients PROVE TurnOf(client', session', c)
  <2>1. TurnOf(client, session, c) BY DEF TakeTurns
  <2>2. ASSUME client[c].pair # None
        PROVE  PairTurn(client[c], session'[client[c].pair], c)
    <3> DEFINE s == client[c].pair
    <3>1. s \in Sessions BY <2>2, FitNow DEF Fit
    <3>2. PairTurn(client[c], session[s], c) BY <2>1, <2>2 DEF TurnOf
    <3> HIDE DEF s
    <3>3. /\ session'[s].poll = session[s].poll
          /\ Quiet(session[s]) => Quiet(session'[s])
          /\ Asked(session[s], c) => Asked(session'[s], c)
      BY <3>1
    <3>4. PairTurn(client[c], session'[s], c)
      <4> DEFINE x == client[c]
                 y == session[s]
                 z == session'[s]
      <4>2. Asked(z, c) BY <3>2, <3>3 DEF PairTurn
      <4>3. PairTurn(x, y, c) /\ z.poll = y.poll /\ (Quiet(y) => Quiet(z))
        BY <3>2, <3>3
      <4> HIDE DEF x, y, z
      <4>4. PairTurn(x, z, c) BY <4>2, <4>3, PairTurnKept
      <4> QED BY <4>4 DEF x, z
    <3> QED BY <3>4 DEF s
  <2> QED BY <2>1, <2>2 DEF TurnOf
<1>2. TakeTurns(client', session') BY <1>1 DEF TakeTurns
<1>3. ASSUME NEW c \in Clients PROVE Parted(client'[c], session', batch', c)
  <2>1. Parted(client[c], session, batch, c) BY DEF Timely
  <2>2. client[c].pair # None => client[c].pair \in Sessions BY FitNow DEF Fit
  <2> QED BY <2>1, <2>2 DEF Parted, Heeded
<1>4. Timely(client', session', batch') BY <1>3 DEF Timely
<1> QED BY <1>2, <1>4

(* Nothing is asked of a quiet connection, and no more of one whose server *)
(* will not answer.                                                        *)
LEMMA QuietAsked ==
  ASSUME NEW y, Quiet(y)
  PROVE  \A c : Asked(y, c)
PROOF
<1>1. y.due = <<>> /\ y.answers = <<>> BY DEF Quiet
<1>2. Len(<<>>) = 0 /\ \A q : q = <<>> => DOMAIN q = {} OBVIOUS
<1>3. ~ Ends(y.answers) BY <1>1, <1>2 DEF Ends
<1> QED BY <1>1, <1>2, <1>3 DEF Asked

LEMMA LastAsked ==
  ASSUME NEW y, NEW z, NEW c, Asked(y, c), z.due = <<>>, z.answers = y.answers
  PROVE  Asked(z, c)
PROOF
<1>1. Len(z.due) = 0 /\ DOMAIN z.due = {} OBVIOUS
<1> QED BY <1>1 DEF Asked

(* The next part of an answer                                              *)
LEMMA AnsweredAsked ==
  ASSUME session \in [Sessions -> SessionRecords], NEW s \in Sessions, ServerAnswers(s),
         NEW c \in Clients, Asked(session[s], c)
  PROVE  Asked(session'[s], c)
PROOF
<1> DEFINE Due == [of : Clients \cup {None}, left : 1..Parts]
           q == session[s].due
           a == session[s].answers
           d == Head(q)
           m == Answer(d.of, d.left = 1)
<1>1. q \in Seq(Due) /\ a \in Seq(Messages) BY DEF SessionRecords
<1>2. q # <<>> BY DEF ServerAnswers
<1>3. /\ d \in Due
      /\ session'[s].answers = Append(a, m)
      /\ d.left = 1 => session'[s].due = Tail(q)
      /\ d.left # 1 => session'[s].due = <<[d EXCEPT !.left = @ - 1]>> \o Tail(q)
  BY AnsweredEffect
<1> DEFINE n == [d EXCEPT !.left = @ - 1]
<1>4. d.of = c => n.of = c BY <1>3
<1>5. m.kind = "answer" /\ m.of = d.of /\ m.last = (d.left = 1) BY DEF Answer
<1>6. /\ Len(q) <= 1 /\ \A k \in DOMAIN q : q[k].of = c
      /\ \A k \in DOMAIN a : a[k].kind = "answer" /\ a[k].of = c
      /\ Ends(a) => q = <<>>
  BY DEF Asked
<1>7. m \in Messages
  <2>1. (d.left = 1) \in BOOLEAN OBVIOUS
  <2>2. d.of \in Clients \cup {None} BY <1>3
  <2> QED BY <2>1, <2>2 DEF Answer, Messages, Kinds
<1> HIDE DEF m, n, Due
<1>8. d.of = c /\ Tail(q) = <<>>
  <2> HIDE DEF q, d
  <2>1. Len(q) \in Nat /\ Len(q) # 0 /\ DOMAIN q = 1..Len(q) BY <1>1, <1>2, LenProperties, EmptySeq
  <2>2. Len(q) = 1 BY <1>6, <2>1
  <2>3. q[1].of = c BY <1>6, <2>1, <2>2
  <2>4. Head(q) = q[1] BY <1>1, <1>2, HeadTailProperties
  <2>5. Tail(q) \in Seq(Due) /\ Len(Tail(q)) = 0 BY <1>1, <1>2, <2>2, HeadTailProperties
  <2>6. Tail(q) = <<>> BY <2>5, EmptySeq
  <2> QED BY <2>3, <2>4, <2>6 DEF d
<1>9. session'[s].due = <<>> \/ session'[s].due = <<n>>
  <2>1. CASE d.left = 1 BY <1>3, <1>8, <2>1
  <2>2. CASE d.left # 1
    <3>1. session'[s].due = <<n>> \o <<>> BY <1>3, <1>8, <2>2 DEF n
    <3>2. <<n>> \o <<>> = <<n>> OBVIOUS
    <3> QED BY <3>1, <3>2
  <2> QED BY <2>1, <2>2
<1>l. d.left = 1 => session'[s].due = <<>> BY <1>3, <1>8
<1> DEFINE D == session'[s].due
           A == session'[s].answers
<1>10. Len(D) <= 1 /\ \A k \in DOMAIN D : D[k].of = c
  <2>1. D = <<>> \/ D = <<n>> BY <1>9
  <2> HIDE DEF D
  <2>2. CASE D = <<>> BY <2>2
  <2>3. CASE D = <<n>> BY <1>4, <1>8, <2>3
  <2> QED BY <2>1, <2>2, <2>3
<1>11. \A k \in DOMAIN A : (k \in DOMAIN a /\ A[k] = a[k]) \/ A[k] = m
  <2>1. A = Append(a, m) BY <1>3
  <2>2. /\ Len(a) \in Nat /\ DOMAIN a = 1..Len(a) BY <1>1, LenProperties
  <2> HIDE DEF A, a
  <2>3. /\ A \in Seq(Messages) /\ Len(A) = Len(a) + 1 /\ A[Len(a) + 1] = m
        /\ \A k \in 1..Len(a) : A[k] = a[k]
    BY <1>1, <1>7, <2>1, AppendProperties
  <2>4. DOMAIN A = 1..(Len(a) + 1) BY <2>3, LenProperties
  <2> QED BY <2>2, <2>3, <2>4
<1>12. \A k \in DOMAIN A : A[k].kind = "answer" /\ A[k].of = c BY <1>5, <1>6, <1>8, <1>11
<1>13. Ends(A) => D = <<>>
  <2>1. ASSUME NEW k \in DOMAIN A, A[k].last PROVE D = <<>>
    <3>1. CASE k \in DOMAIN a /\ A[k] = a[k] BY <1>2, <1>6, <2>1, <3>1 DEF Ends
    <3>2. CASE A[k] = m BY <1>5, <1>l, <2>1, <3>2
    <3> QED BY <1>11, <3>1, <3>2
  <2> QED BY <2>1 DEF Ends
<1> QED BY <1>10, <1>12, <1>13 DEF Asked

(* Clients and servers                                                     *)
LEMMA ClientDuplex ==
  ASSUME Base, Paired(client, session, pool), TakeTurns(client, session), Timely(client, session, batch),
         session' = session, batch' = batch, NEW c \in Clients, OtherClients(c, client, client'),
         client'[c].status = client[c].status, client'[c].poll = client[c].poll,
         client'[c].pair = client[c].pair, client'[c].buffer = client[c].buffer,
         TurnOf(client', session', c)
  PROVE  TakeTurns(client', session') /\ Timely(client', session', batch')
PROOF
<1>1. Untouched(c, session') BY DEF Untouched
<1>2. TakeTurns(client', session') BY <1>1, OneTurn
<1>3. Steady(session', batch') BY SameSteady
<1>4. [who |-> c, what |-> "out"] \in batch' =>
        client'[c].status \in {"free", "leaked"} \/ client'[c].poll = "out"
  BY DEF Timely
<1>5. Parted(client'[c], session', batch', c) BY DEF Timely, Parted
<1>6. Timely(client', session', batch') BY <1>1, <1>3, <1>4, <1>5, OneTimely
<1> QED BY <1>2, <1>6

LEMMA ClientSendsDuplex ==
  ASSUME Base, Paired(client, session, pool), TakeTurns(client, session), Timely(client, session, batch),
         NEW c \in Clients, ClientSends(c)
  PROVE  TakeTurns(client', session') /\ Timely(client', session', batch')
PROOF
<1>1. PICK m \in Sendable(client[c].status) :
        client' = [client EXCEPT ![c].wire = <<m>>, ![c].turn = "wait"]
  BY DEF ClientSends
<1>2. session' = session /\ batch' = batch /\ client[c].turn = "send" BY DEF ClientSends
<1>3. /\ \A d \in Clients \ {c} : client'[d] = client[d]
      /\ client'[c].turn = "wait"
      /\ client'[c].status = client[c].status /\ client'[c].pair = client[c].pair
      /\ client'[c].poll = client[c].poll /\ client'[c].buffer = client[c].buffer
  <2>1. m \in Command BY SendableIs
  <2>2. client \in [Clients -> ClientRecords] BY FitNow
  <2> QED BY <1>1, <2>1, <2>2, SentEffect
<1>4. OtherClients(c, client, client') BY <1>3 DEF OtherClients
<1>5. TurnOf(client', session', c)
  <2>1. TurnOf(client, session, c) BY DEF TakeTurns
  <2>2. client[c].buffer = <<>> /\ client[c].poll = "in" BY <1>2, <2>1 DEF TurnOf, ClientTurn
  <2>3. ClientTurn(client'[c], c) BY <1>3, <2>2 DEF ClientTurn
  <2>4. ASSUME client[c].pair # None
        PROVE  PairTurn(client'[c], session'[client[c].pair], c)
    <3> DEFINE y == session[client[c].pair]
    <3>1. PairTurn(client[c], y, c) BY <2>1, <2>4 DEF TurnOf
    <3>2. session'[client[c].pair] = y BY <1>2
    <3> HIDE DEF y
    <3>3. Quiet(y) BY <1>2, <3>1 DEF PairTurn
    <3>4. Asked(y, c) /\ Phase(client'[c], y, c) BY <1>3, <2>2, <3>1 DEF PairTurn, Phase
    <3>5. PairTurn(client'[c], y, c) BY <1>3, <3>1, <3>3, <3>4 DEF PairTurn
    <3> QED BY <3>2, <3>5
  <2> QED BY <1>3, <2>3, <2>4 DEF TurnOf
<1> QED BY <1>2, <1>3, <1>4, <1>5, ClientDuplex

LEMMA ClientLeavesDuplex ==
  ASSUME Base, Paired(client, session, pool), TakeTurns(client, session), Timely(client, session, batch),
         NEW c \in Clients, ClientLeaves(c)
  PROVE  TakeTurns(client', session') /\ Timely(client', session', batch')
PROOF
<1>1. PICK how \in {"fin", "rst", "quit"} :
        client' = [client EXCEPT ![c].gone = how,
                                 ![c].wire = IF how = "rst" THEN <<>> ELSE @]
  BY DEF ClientLeaves
<1>2. session' = session /\ batch' = batch BY DEF ClientLeaves
<1>0. client \in [Clients -> ClientRecords] BY FitNow
<1>3. /\ \A d \in Clients \ {c} : client'[d] = client[d]
      /\ client'[c].turn = client[c].turn
      /\ client'[c].status = client[c].status /\ client'[c].pair = client[c].pair
      /\ client'[c].poll = client[c].poll /\ client'[c].buffer = client[c].buffer
      /\ client'[c].wire # <<>> => client[c].wire # <<>>
      /\ client'[c].gone # "no"
  <2> DEFINE w == IF how = "rst" THEN <<>> ELSE client[c].wire
             r == [client[c] EXCEPT !.gone = how, !.wire = w]
  <2>1. client[c] \in ClientRecords BY <1>0
  <2>2. client' = [client EXCEPT ![c] = r] BY <1>0, <1>1
  <2>3. w # <<>> => w = client[c].wire OBVIOUS
  <2> HIDE DEF w
  <2>4. /\ r.status = client[c].status /\ r.pair = client[c].pair /\ r.turn = client[c].turn
        /\ r.poll = client[c].poll /\ r.buffer = client[c].buffer /\ r.wire = w
        /\ r.gone = how
    BY <2>1 DEF ClientRecords
  <2> HIDE DEF r
  <2> QED BY <1>0, <2>2, <2>3, <2>4
<1>4. OtherClients(c, client, client') BY <1>3 DEF OtherClients
<1>5. TurnOf(client', session', c)
  <2>1. TurnOf(client, session, c) BY DEF TakeTurns
  <2>3. ClientTurn(client'[c], c) BY <1>3, <2>1 DEF TurnOf, ClientTurn
  <2>4. ASSUME client[c].pair # None
        PROVE  PairTurn(client'[c], session'[client[c].pair], c)
    <3> DEFINE y == session[client[c].pair]
    <3>1. PairTurn(client[c], y, c) BY <2>1, <2>4 DEF TurnOf
    <3>2. session'[client[c].pair] = y BY <1>2
    <3> HIDE DEF y
    <3>4. Asked(y, c) /\ Phase(client'[c], y, c) BY <1>3, <3>1 DEF PairTurn, Phase, Outgoing
    <3>5. PairTurn(client'[c], y, c) BY <1>3, <3>1, <3>4 DEF PairTurn
    <3> QED BY <3>2, <3>5
  <2> QED BY <1>3, <2>3, <2>4 DEF TurnOf
<1> QED BY <1>2, <1>3, <1>4, <1>5, ClientDuplex

LEMMA EnvironmentDuplex ==
  ASSUME Base, Paired(client, session, pool), TakeTurns(client, session), Timely(client, session, batch),
         Environment
  PROVE  TakeTurns(client', session') /\ Timely(client', session', batch')
PROOF
<1>0. session \in [Sessions -> SessionRecords] BY FitNow
<1>1. CASE UNCHANGED <<client, session, batch>> BY <1>1
<1>2. ASSUME NEW c \in Clients, ClientSends(c) \/ ClientLeaves(c)
      PROVE  TakeTurns(client', session') /\ Timely(client', session', batch')
  BY <1>2, ClientSendsDuplex, ClientLeavesDuplex
<1>3. ASSUME NEW s \in Sessions, ServerAnswers(s)
      PROVE  TakeTurns(client', session') /\ Timely(client', session', batch')
  <2>1. /\ \A r \in Sessions \ {s} : session'[r] = session[r]
        /\ session'[s].list = session[s].list /\ session'[s].owner = session[s].owner
        /\ session'[s].poll = session[s].poll
    BY <1>0, <1>3, AnsweredEffect
  <2>2. ~ Quiet(session[s]) BY <1>3 DEF ServerAnswers, Quiet
  <2>3. \A c \in Clients : Asked(session[s], c) => Asked(session'[s], c)
    BY <1>0, <1>3, AnsweredAsked
  <2>4. client' = client /\ batch' = batch BY <1>3 DEF ServerAnswers
  <2>5. \A r \in Sessions :
          /\ session'[r].list = session[r].list /\ session'[r].owner = session[r].owner
          /\ session'[r].poll = session[r].poll
          /\ Quiet(session[r]) => Quiet(session'[r])
          /\ \A c \in Clients : Asked(session[r], c) => Asked(session'[r], c)
    <3> TAKE r \in Sessions
    <3>1. CASE r = s BY <2>1, <2>2, <2>3, <3>1
    <3>2. CASE r # s
      <4>1. session'[r] = session[r] BY <2>1, <3>2
      <4> QED BY <4>1
    <3> QED BY <3>1, <3>2
  <2> QED BY <2>4, <2>5, ServersDuplex
<1>4. ASSUME NEW s \in Sessions, ServerCloses(s)
      PROVE  TakeTurns(client', session') /\ Timely(client', session', batch')
  <2>1. /\ \A r \in Sessions \ {s} : session'[r] = session[r]
        /\ session'[s].list = session[s].list /\ session'[s].owner = session[s].owner
        /\ session'[s].poll = session[s].poll
        /\ session'[s].answers = session[s].answers /\ session'[s].due = <<>>
    BY <1>0, <1>4, ClosedEffect
  <2>2. Quiet(session[s]) => Quiet(session'[s]) BY <2>1 DEF Quiet
  <2>3. \A c \in Clients : Asked(session[s], c) => Asked(session'[s], c)
    BY <2>1, LastAsked
  <2>4. client' = client /\ batch' = batch BY <1>4 DEF ServerCloses
  <2>5. \A r \in Sessions :
          /\ session'[r].list = session[r].list /\ session'[r].owner = session[r].owner
          /\ session'[r].poll = session[r].poll
          /\ Quiet(session[r]) => Quiet(session'[r])
          /\ \A c \in Clients : Asked(session[r], c) => Asked(session'[r], c)
    <3> TAKE r \in Sessions
    <3>1. CASE r = s BY <2>1, <2>2, <2>3, <3>1
    <3>2. CASE r # s
      <4>1. session'[r] = session[r] BY <2>1, <3>2
      <4> QED BY <4>1
    <3> QED BY <3>1, <3>2
  <2> QED BY <2>4, <2>5, ServersDuplex
<1>5. ASSUME NEW v \in Servers, ServerFails(v)
      PROVE  TakeTurns(client', session') /\ Timely(client', session', batch')
  <2>1. client' = client /\ batch' = batch /\ session' = Down(v, session) BY <1>5 DEF ServerFails
  <2>2. \A r \in Sessions :
          /\ session'[r].list = session[r].list /\ session'[r].owner = session[r].owner
          /\ session'[r].poll = session[r].poll
          /\ Quiet(session[r]) => Quiet(session'[r])
          /\ \A c \in Clients : Asked(session[r], c) => Asked(session'[r], c)
    <3> TAKE r \in Sessions
    <3>1. /\ session[r].server # v => session'[r] = session[r]
          /\ session[r].server = v => session'[r].due = <<>> /\ session'[r].answers = <<>>
          /\ session'[r].list = session[r].list /\ session'[r].owner = session[r].owner
          /\ session'[r].poll = session[r].poll
      BY <1>0, <2>1, DownEffect
    <3>2. CASE session[r].server # v
      <4>1. session'[r] = session[r] BY <3>1, <3>2
      <4> QED BY <4>1
    <3>3. CASE session[r].server = v
      <4>1. Quiet(session'[r]) BY <3>1, <3>3 DEF Quiet
      <4>2. \A c : Asked(session'[r], c) BY <4>1, QuietAsked
      <4> QED BY <3>1, <4>1, <4>2
    <3> QED BY <3>2, <3>3
  <2> QED BY <2>1, <2>2, ServersDuplex
<1>6. CASE ClientConnects \/ \E v \in Servers : ServerReturns(v)
  BY <1>1, <1>6 DEF ClientConnects, ServerReturns, worker_vars
<1> QED BY <1>2, <1>3, <1>4, <1>5, <1>6 DEF Environment

(* History is not forgotten by the worker that runs.                       *)
LEMMA HandleStrays ==
  ASSUME Handle
  PROVE  strayed \subseteq strayed'
PROOF
<1>1. ASSUME NEW c, NEW e, CloseClient(c, e) PROVE strayed \subseteq strayed'
  BY <1>1 DEF CloseClient, Dies
<1>2. ASSUME NEW s, NEW e, CloseSession(s, e) PROVE strayed \subseteq strayed'
  BY <1>2 DEF CloseSession, Acts, Dies
<1>3. ASSUME NEW c, NEW i, NEW e, SelectDatabaseLibrary(c, i, e) PROVE strayed \subseteq strayed'
  <2>1. ASSUME NEW ses, NEW p, SelectMysqlServer(c, i, ses, p) PROVE strayed \subseteq strayed'
    <3>1. ASSUME NEW v, TakePooled(c, i, v, ses, p) PROVE strayed \subseteq strayed'
      BY <3>1 DEF TakePooled
    <3>2. ASSUME NEW v, Connect(c, i, v, ses, p) PROVE strayed \subseteq strayed'
      BY <3>2 DEF Connect
    <3>3. ASSUME SelectNone(c, i, ses, p) PROVE strayed \subseteq strayed'
      BY <3>3 DEF SelectNone
    <3> QED BY <2>1, <3>1, <3>2, <3>3 DEF SelectMysqlServer
  <2> QED BY <1>3, <2>1 DEF SelectDatabaseLibrary, Dies
<1>4. ASSUME NEW c, NEW e, OnReceivingAccepted(c, e) PROVE strayed \subseteq strayed'
  BY <1>1, <1>3, <1>4 DEF OnReceivingAccepted, ReceiveEnd, ReceiveAuth, ReceiveLocal, ReceiveSelect,
                          ReceiveRequest, Dies
<1>5. ASSUME NEW c, NEW e, OnSendingAccepted(c, e) PROVE strayed \subseteq strayed'
  BY <1>1, <1>5 DEF OnSendingAccepted, SendFails, SendBeforeForward, SendForward, Dies
<1>6. ASSUME NEW s, NEW e, OnReceivingForward(s, e) PROVE strayed \subseteq strayed'
  BY <1>2, <1>6 DEF OnReceivingForward, ReceiveAnswer, Acts, Dies
<1>7. ASSUME NEW s, NEW e, OnSendingForward(s, e) PROVE strayed \subseteq strayed'
  BY <1>2, <1>7 DEF OnSendingForward, SendRequest, Acts, Dies
<1>8. ASSUME NEW e, OnAccepting(e) PROVE strayed \subseteq strayed' BY <1>8 DEF OnAccepting
<1>9. ASSUME NEW c, NEW e, AcceptedError(c, e) \/ AcceptedGone(c, e) PROVE strayed \subseteq strayed'
  BY <1>1, <1>9 DEF AcceptedError, AcceptedGone, Outlived, Dies
<1>10. ASSUME NEW s, NEW e, ForwardError(s, e) \/ ForwardGone(s, e) PROVE strayed \subseteq strayed'
  BY <1>2, <1>10 DEF ForwardError, ForwardGone, Outlived, Dies
<1> QED BY <1>4, <1>5, <1>6, <1>7, <1>8, <1>9, <1>10 DEF Handle

-----------------------------------------------------------------------------
LEMMA DuplexInit ==
  ASSUME Init
  PROVE  Duplex
PROOF
<1>1. client = [c \in Clients |-> FreeClient] /\ batch = {} BY DEF Init
<1> QED BY <1>1, FreeDuplex DEF Duplex

LEMMA DuplexStep ==
  ASSUME Base, Wired, PairInv, Duplex, [Next]_vars, Base', PairInv'
  PROVE  Duplex'
PROOF
<1> SUFFICES ASSUME strayed' \subseteq {"end"}
             PROVE  TakeTurns(client', session') /\ Timely(client', session', batch')
  BY DEF Duplex, TakeTurns, TurnOf, Timely, Parted, Heeded
<1>1. CASE Restart
  <2>1. client' = [c \in Clients |-> FreeClient] /\ batch' = {}
    BY <1>1 DEF Restart, Base, DeadShape
  <2> QED BY <2>1, FreeDuplex
<1>2. ASSUME strayed \subseteq strayed'
      PROVE  /\ Paired(client, session, pool) /\ TakeTurns(client, session)
             /\ Timely(client, session, batch)
  <2>1. strayed \subseteq {"end"} BY <1>2
  <2>2. "pair" \notin strayed BY <2>1
  <2> QED BY <2>1, <2>2 DEF Duplex, PairInv
<1>3. CASE Worker
  <2>1. Handle \/ Turn BY <1>3 DEF Worker
  <2>2. CASE Handle
    <3>1. strayed \subseteq strayed' BY <2>2, HandleStrays
    <3> QED BY <1>2, <2>2, <3>1, HandleDuplex
  <2>3. CASE Turn
    <3>1. strayed \subseteq strayed' BY <2>3 DEF Turn
    <3>2. Shape' BY DEF Base
    <3>3. Paired(client', session', pool')
      <4>1. "pair" \notin strayed' OBVIOUS
      <4> QED BY <4>1 DEF PairInv, Paired, Bound, Used, Stored
    <3> QED BY <1>2, <2>3, <3>1, <3>2, <3>3, TurnDuplex
  <2> QED BY <2>1, <2>2, <2>3
<1>4. CASE Environment
  <2>1. strayed \subseteq strayed'
    BY <1>4 DEF Environment, ClientConnects, ClientSends, ClientLeaves, ServerAnswers, ServerCloses,
                ServerFails, ServerReturns, Ended, worker_vars
  <2> QED BY <1>2, <1>4, <2>1, EnvironmentDuplex
<1>5. CASE ReloadConfig \/ UNCHANGED vars
  <2>1. UNCHANGED <<client, session, batch, strayed>>
    BY <1>5 DEF ReloadConfig, vars, worker_vars
  <2> QED BY <1>2, <2>1
<1> QED BY <1>1, <1>3, <1>4, <1>5 DEF Next

(* In every state the two ends of a bridged session (comm.c) take turns,   *)
(* one of them being read at a time, as long as each session is its        *)
(* client's and none was taken over with an answer still to come.          *)
THEOREM TheTurns == Spec => [](Base /\ Wired /\ PairInv /\ Duplex)
PROOF
<1>1. Init => Base /\ Wired /\ PairInv /\ Duplex BY InitBase, PairsInit, DuplexInit
<1>2. Base /\ Wired /\ PairInv /\ Duplex /\ [Next]_vars => (Base /\ Wired /\ PairInv /\ Duplex)'
  BY BaseStep, PairsStep, DuplexStep
<1> QED BY <1>1, <1>2, PTL DEF Spec

(* The buffer of a bridge holds what goes in one direction at a time: what *)
(* is written to a client is no request, what is written to a server is    *)
(* just the request of its client, and an answer is for who asked, unless a*)
(* connection was taken over with an answer still to come.  A client that  *)
(* quits without waiting for its answer is the exception: its COM_QUIT goes*)
(* to the server, behind the request or behind a part of the answer        *)
(* (comm.c:100-105, 117, 273-281).                                         *)
THEOREM OneDirection == Spec => []HalfDuplex
PROOF
<1>1. Base /\ Duplex => HalfDuplex
  <2> SUFFICES ASSUME Base, TakeTurns(client, session), NEW c \in Clients
               PROVE  /\ client[c].poll = "out" =>
                           /\ client[c].buffer # <<>>
                           /\ \A k \in DOMAIN client[c].buffer :
                                \/ client[c].buffer[k] = Own
                                \/ client[c].buffer[k].kind = "answer" /\ client[c].buffer[k].of = c
                      /\ client[c].pair # None /\ session[client[c].pair].poll = "out" =>
                           \/ client[c].buffer = <<Query(c)>>
                           \/ client[c].gone # "no" /\ client[c].buffer # <<>>
                              /\ client[c].buffer[Len(client[c].buffer)] = Quit
    BY DEF Duplex, HalfDuplex
  <2>1. ClientTurn(client[c], c) /\ (client[c].pair # None => PairTurn(client[c], session[client[c].pair], c))
    BY DEF TakeTurns, TurnOf
  <2>2. client[c].poll = "out" =>
           /\ client[c].buffer # <<>>
           /\ \A k \in DOMAIN client[c].buffer :
                \/ client[c].buffer[k] = Own
                \/ client[c].buffer[k].kind = "answer" /\ client[c].buffer[k].of = c
    BY <2>1 DEF ClientTurn, Fits
  <2>3. client[c].pair # None /\ session[client[c].pair].poll = "out" =>
           \/ client[c].buffer = <<Query(c)>>
           \/ client[c].gone # "no" /\ client[c].buffer # <<>>
              /\ client[c].buffer[Len(client[c].buffer)] = Quit
    BY <2>1 DEF PairTurn, Phase, Outgoing
  <2> QED BY <2>2, <2>3
<1> QED BY <1>1, TheTurns, PTL

-----------------------------------------------------------------------------
(* In calm every client that has selected a library has its connection, no *)
(* connection is down, and no event of the batch is outdated: there is one *)
(* for each session at most, and what it announces is still there.         *)
Fine(x) ==
  /\ x.gone = "no"
  /\ x.status \in {"selected", "forward"} => x.pair # None
  /\ x.status \in {"free", "leaked"} => x.poll = "none"

Served(cl, b) ==
  /\ \A c \in Clients : Fine(cl[c])
  /\ \A f \in b :
       /\ f.what # "err"
       /\ f.who \in Clients => /\ cl[f.who].status \notin {"free", "leaked"}
                               /\ f.what = "in" => cl[f.who].wire # <<>>

Heard(ses, b) ==
  /\ \A s \in Sessions : ses[s].link = "up"
  /\ \A f \in b : f.who \in Sessions =>
       /\ ses[f.who].list = "work"
       /\ f.what = "in" => ses[f.who].answers # <<>>

Single(b) == \A e, f \in b : e.who = f.who => e = f

CalmNow == Served(client, batch) /\ Heard(session, batch) /\ Single(batch)

CalmNext == worker' = "up" /\ Served(client', batch') /\ Heard(session', batch') /\ Single(batch')

Calm == strayed = {} => worker = "up" /\ CalmNow

(* What the invariants before say of a worker that nobody has strayed in.  *)
Known ==
  /\ Base /\ Wired /\ Paired(client, session, pool)
  /\ TakeTurns(client, session) /\ Timely(client, session, batch)

LEMMA OneServed ==
  ASSUME Served(client, batch), Single(batch), NEW e \in batch, batch' = batch \ {e}, NEW c \in Clients,
         OtherClients(c, client, client'), Fine(client'[c]),
         e.who = c \/ (client'[c].wire = client[c].wire /\ client'[c].status = client[c].status)
  PROVE  Served(client', batch') /\ Single(batch')
PROOF
<1>1. Single(batch') BY DEF Single
<1>2. ASSUME NEW d \in Clients PROVE Fine(client'[d])
  BY DEF OtherClients, Served
<1>3. ASSUME NEW f \in batch', f.who \in Clients
      PROVE  /\ client'[f.who].status \notin {"free", "leaked"}
             /\ f.what = "in" => client'[f.who].wire # <<>>
  <2> DEFINE d == f.who
  <2>1. /\ client[d].status \notin {"free", "leaked"}
        /\ f.what = "in" => client[d].wire # <<>>
    BY <1>3 DEF Served
  <2>2. CASE d # c
    <3>1. client'[d] = client[d] BY <1>3, <2>2 DEF OtherClients
    <3> QED BY <2>1, <3>1
  <2>3. CASE d = c
    <3>1. e.who # c BY <2>3 DEF Single
    <3> QED BY <2>1, <2>3, <3>1
  <2> QED BY <2>2, <2>3
<1>4. \A f \in batch' : f.what # "err" BY DEF Served
<1> QED BY <1>1, <1>2, <1>3, <1>4 DEF Served

LEMMA SameHeard ==
  ASSUME Heard(session, batch), NEW b2, b2 \subseteq batch, NEW ses2,
         \A r \in Sessions : /\ ses2[r].link = session[r].link /\ ses2[r].list = session[r].list
                             /\ session[r].answers # <<>> => ses2[r].answers # <<>>
  PROVE  Heard(ses2, b2)
BY DEF Heard

(* Forgetting who asked keeps the messages.                                *)
LEMMA ForgottenAnswers ==
  ASSUME NEW c, NEW ses \in [Sessions -> SessionRecords], NEW r \in Sessions, ses[r].answers # <<>>
  PROVE  Forgotten(c, ses)[r].answers # <<>>
PROOF
<1> DEFINE Anon(m) == IF m.of = c THEN [m EXCEPT !.of = None] ELSE m
           All(q)  == [k \in DOMAIN q |-> Anon(q[k])]
           a == ses[r].answers
<1>1. a \in Seq(Messages) /\ ses[r] \in SessionRecords BY DEF SessionRecords
<1>2. Len(a) \in Nat /\ Len(a) # 0 /\ DOMAIN a = 1..Len(a) BY <1>1, LenProperties, EmptySeq
<1>3. Forgotten(c, ses) = [s \in Sessions |-> [ses[s] EXCEPT !.due = All(@), !.answers = All(@)]]
  BY Zenon DEF Forgotten
<1> HIDE DEF Anon
<1>4. DOMAIN All(a) = DOMAIN a OBVIOUS
<1>5. All(a) # <<>>
  <2>1. 1 \in DOMAIN a BY <1>2
  <2>2. DOMAIN <<>> = {} OBVIOUS
  <2> HIDE DEF All, a
  <2> QED BY <1>4, <2>1, <2>2
<1> DEFINE x == All(ses[r].due)
           y == All(a)
<1>6. Forgotten(c, ses)[r] = [ses[r] EXCEPT !.due = x, !.answers = y] BY <1>3
<1> HIDE DEF x, y, All
<1>7. [ses[r] EXCEPT !.due = x, !.answers = y].answers = y BY <1>1 DEF SessionRecords
<1> QED BY <1>5, <1>6, <1>7 DEF y

(* A client without a connection is closed.                                *)
LEMMA CloseClientCalm ==
  ASSUME Base, CalmNow, worker = "up", NEW e \in batch, NEW c \in Clients, e.who = c,
         client[c].pair = None, CloseClient(c, e)
  PROVE  CalmNext
PROOF
<1>0. client \in [Clients -> ClientRecords] /\ session \in [Sessions -> SessionRecords] BY FitNow
<1>1. /\ client' = [client EXCEPT ![c] = FreeClient] /\ session' = Forgotten(c, session)
      /\ batch' = batch \ {e} /\ worker' = worker
  BY DEF CloseClient, Done
<1>2. OtherClients(c, client, client') /\ client'[c] = FreeClient BY <1>0, <1>1 DEF OtherClients
<1>3. Fine(FreeClient) BY DEF Fine, FreeClient
<1>4. Served(client', batch') /\ Single(batch') BY <1>1, <1>2, <1>3, OneServed DEF CalmNow
<1>5. \A r \in Sessions : /\ session'[r].link = session[r].link /\ session'[r].list = session[r].list
                          /\ session[r].answers # <<>> => session'[r].answers # <<>>
  BY <1>0, <1>1, ForgottenType, ForgottenAnswers
<1>6. batch' \subseteq batch BY <1>1
<1>7. Heard(session', batch') BY <1>5, <1>6, SameHeard DEF CalmNow
<1> QED BY <1>1, <1>4, <1>7 DEF CalmNext


-----------------------------------------------------------------------------
LEMMA SendingCalm ==
  ASSUME Known, CalmNow, worker = "up", NEW e \in batch, NEW c \in Clients, OnSendingAccepted(c, e)
  PROVE  CalmNext
PROOF
<1> DEFINE s == client[c].pair
<1>0. /\ client \in [Clients -> ClientRecords] /\ session \in [Sessions -> SessionRecords]
      /\ s \in Sessions \cup {None} /\ client[c].status \in Statuses
  BY FitNow DEF Fit, Known
<1>e. e.who = c /\ Fine(client[c]) /\ Live(c) BY DEF OnSendingAccepted, CalmNow, Served
<1>d. ASSUME NEW status \in Statuses, status \notin {"free", "leaked"},
             status \in {"selected", "forward"} => s # None, client' = Delivered(c, status), Done(e)
      PROVE  worker' = "up" /\ Served(client', batch') /\ Single(batch') /\ batch' \subseteq batch
  <2>1. /\ \A d \in Clients \ {c} : client'[d] = client[d]
        /\ client'[c].pair = s /\ client'[c].status = status /\ client'[c].gone = client[c].gone
    BY <1>0, <1>d, DeliveredEffect
  <2> HIDE DEF s
  <2>2. OtherClients(c, client, client') /\ Fine(client'[c])
    BY <1>d, <1>e, <2>1 DEF OtherClients, Fine
  <2>3. batch' = batch \ {e} /\ worker' = worker BY <1>d DEF Done
  <2> QED BY <1>e, <2>2, <2>3, OneServed DEF CalmNow
<1>1. CASE SendFails(c, e)
  <2>1. client[c].status \in {"auth", "auth_fail"} /\ CloseClient(c, e)
    BY <1>1, <1>e DEF SendFails, Fine
  <2>2. client[c].pair = None BY <2>1 DEF Known, Paired, Bound
  <2> QED BY <1>e, <2>1, <2>2, CloseClientCalm DEF Known
<1>2. CASE SendBeforeForward(c, e)
  <2> DEFINE st == AfterSending(client[c].status)
  <2>1. /\ client' = Delivered(c, st) /\ session' = session /\ Done(e)
        /\ client[c].status \in {"handshake", "auth_ok", "select", "selected"}
    BY <1>2 DEF SendBeforeForward
  <2>2. /\ st \in Statuses /\ st \notin {"free", "leaked"}
        /\ st \in {"selected", "forward"} => client[c].status = "selected"
    BY <2>1 DEF AfterSending, Statuses
  <2> HIDE DEF st
  <2>3. st \in {"selected", "forward"} => s # None BY <1>e, <2>2 DEF Fine
  <2>4. worker' = "up" /\ Served(client', batch') /\ Single(batch') /\ batch' \subseteq batch
    BY <1>d, <2>1, <2>2, <2>3
  <2>5. Heard(session', batch') BY <2>1, <2>4 DEF CalmNow, Heard
  <2> QED BY <2>4, <2>5 DEF CalmNext
<1>3. CASE SendForward(c, e)
  <2>1. client[c].status = "forward" /\ s # None
    BY <1>3, <1>e DEF SendForward, Fine
  <2>2. session[s].poll # "none" BY <1>0, <2>1 DEF Known, Paired, Bound, Used
  <2>3. /\ client' = Delivered(c, "forward") /\ Done(e)
        /\ session' = [session EXCEPT ![s].poll = "in"]
    BY <1>3, <2>1, <2>2 DEF SendForward
  <2>4. worker' = "up" /\ Served(client', batch') /\ Single(batch') /\ batch' \subseteq batch
    BY <1>d, <2>1, <2>3 DEF Statuses
  <2>5. s \in Sessions /\ "in" \in Polls BY <1>0, <2>1 DEF Polls
  <2> HIDE DEF s
  <2>6. \A r \in Sessions : /\ session'[r].link = session[r].link /\ session'[r].list = session[r].list
                            /\ session'[r].answers = session[r].answers
    BY <1>0, <2>3, <2>5, PollEffect
  <2>7. Heard(session', batch') BY <2>4, <2>6, SameHeard DEF CalmNow
  <2> QED BY <2>4, <2>7 DEF CalmNext
<1> QED BY <1>1, <1>2, <1>3 DEF OnSendingAccepted

(* The answer to a command                                                 *)
LEMMA RepliedServed ==
  ASSUME client \in [Clients -> ClientRecords], Served(client, batch), Single(batch),
         NEW e \in batch, NEW c \in Clients, e.who = c, batch' = batch \ {e},
         NEW s \in Sessions \cup {None}, NEW status \in Statuses, NEW chosen \in Instances \cup {None},
         client' = Replied(c, s, status, chosen),
         status \notin {"free", "leaked"}, status \in {"selected", "forward"} => s # None
  PROVE  Served(client', batch') /\ Single(batch')
PROOF
<1>1. /\ \A d \in Clients \ {c} : client'[d] = client[d]
      /\ client'[c].pair = s /\ client'[c].status = status /\ client'[c].gone = AllRead(client[c].gone)
  BY SMTT(30), RepliedEffect
<1>2. Fine(client[c]) BY DEF Served
<1>3. OtherClients(c, client, client') /\ Fine(client'[c])
  BY <1>1, <1>2 DEF OtherClients, Fine, AllRead
<1> QED BY <1>3, OneServed

LEMMA SelectedServed ==
  ASSUME client \in [Clients -> ClientRecords], Served(client, batch), Single(batch),
         NEW e \in batch, NEW c \in Clients, e.who = c, Live(c), batch' = batch \ {e},
         NEW s \in Sessions, NEW i \in Instances, client' = SelectedOk(c, i, s)
  PROVE  Served(client', batch') /\ Single(batch')
PROOF
<1> DEFINE st == IF client[c].status = "select" THEN "selected" ELSE client[c].status
<1>1. SelectedOk(c, i, s) = Replied(c, s, st, i) /\ st \in Statuses BY SelectedOkEffect
<1>2. st \notin {"free", "leaked"} BY DEF Live
<1>3. s # None /\ i \in Instances \cup {None} BY SessionsAssumption
<1> HIDE DEF st
<1> QED BY <1>1, <1>2, <1>3, RepliedServed

LEMMA SelectServerCalm ==
  ASSUME Base, Served(client, batch), Single(batch), NEW e \in batch, NEW c \in Clients, e.who = c, Live(c),
         batch' = batch \ {e}, worker' = "up", NEW i \in Instances,
         NEW ses \in [Sessions -> SessionRecords], NEW p \in [Servers -> Seq(Sessions)],
         Stored(ses, p), Heard(ses, batch'), SelectMysqlServer(c, i, ses, p), strayed' = {}
  PROVE  CalmNext
PROOF
<1>0. client \in [Clients -> ClientRecords] /\ strayed' \subseteq {"end"} BY FitNow
<1>1. PICK s \in Sessions : client' = SelectedOk(c, i, s) /\ Found(c, ses, s)
  BY <1>0, SelectServerFinds
<1>2. Served(client', batch') /\ Single(batch') BY <1>0, <1>1, SelectedServed
<1>3. \A r \in Sessions : session'[r].link = "up"
  <2> TAKE r \in Sessions
  <2>1. ses[r].link = "up" BY DEF Heard
  <2> QED BY <1>1, <2>1 DEF Found
<1>4. ASSUME NEW f \in batch', f.who \in Sessions
      PROVE  session'[f.who].list = "work" /\ (f.what = "in" => session'[f.who].answers # <<>>)
  <2>1. ses[f.who].list = "work" /\ (f.what = "in" => ses[f.who].answers # <<>>) BY <1>4 DEF Heard
  <2>2. f.who # s BY <1>1, <2>1 DEF Found
  <2> QED BY <1>1, <1>4, <2>1, <2>2 DEF Found
<1> QED BY <1>2, <1>3, <1>4 DEF CalmNext, Heard


(* The connection that a client leaves for another group has no event.     *)
LEMMA SelectLibraryCalm ==
  ASSUME Known, CalmNow, worker = "up", NEW e \in batch, NEW c \in Clients, e.who = c, Live(c),
         client[c].wire # <<>>, e.what = "in",
         NEW i \in Instances, SelectDatabaseLibrary(c, i, e), strayed' = {}
  PROVE  CalmNext
PROOF
<1> DEFINE s == client[c].pair
<1>0. /\ client \in [Clients -> ClientRecords] /\ session \in [Sessions -> SessionRecords]
      /\ pool \in [Servers -> Seq(Sessions)] /\ s \in Sessions \cup {None}
      /\ Base /\ Served(client, batch) /\ Single(batch)
  BY FitNow DEF Fit, Known, CalmNow
<1>a. s # None => session[s].list = "work" /\ session[s].owner = c /\ session[s].poll # "none"
  BY <1>0 DEF Known, Paired, Bound, Used
<1>b. ASSUME Done(e) PROVE batch' = batch \ {e} /\ worker' = "up" BY <1>b DEF Done
<1>2. CASE s = None /\ SelectMysqlServer(c, i, session, pool) /\ Done(e)
  <2>1. Stored(session, pool) BY DEF Known, Paired
  <2>2. Heard(session, batch') BY <1>2, <1>b DEF CalmNow, Heard
  <2> QED BY <1>0, <1>2, <1>b, <2>1, <2>2, SelectServerCalm
<1>3. CASE /\ s # None /\ client' = SelectedOk(c, i, s) /\ Done(e) /\ session' = session
  <2>1. s \in Sessions /\ client' = SelectedOk(c, i, s) /\ Done(e) BY <1>0, <1>3
  <2> HIDE DEF s
  <2>2. Served(client', batch') /\ Single(batch') BY <1>0, <1>b, <2>1, SelectedServed
  <2>3. Heard(session', batch') BY <1>3, <1>b DEF CalmNow, Heard
  <2> QED BY <1>b, <2>1, <2>2, <2>3 DEF CalmNext
<1>4. CASE /\ s # None /\ Done(e)
           /\ SelectMysqlServer(c, i, InPool(s, Unpolled(s, session)), Appended(s, pool))
  <2>0. s \in Sessions BY <1>0, <1>4
  <2> DEFINE cl  == [client EXCEPT ![c] = [client[c] EXCEPT !.pair = None]]
             ses == InPool(s, Unpolled(s, session))
             p   == Appended(s, pool)
  <2>1. cl[c].pair = None /\ OtherClients(c, client, cl)
    <3>1. client[c] \in ClientRecords BY <1>0
    <3>2. [client[c] EXCEPT !.pair = None].pair = None BY <3>1 DEF ClientRecords
    <3> QED BY <1>0, <3>2 DEF OtherClients
  <2>2. client[c].pair = s OBVIOUS
  <2>3. /\ \A r \in Sessions \ {s} : ses[r] = session[r]
        /\ ses[s].link = session[s].link
    BY <1>0, <2>0, ReleasedEffect
  <2>4. batch' = batch \ {e} /\ worker' = "up" BY <1>4, <1>b
  <2>5. SelectMysqlServer(c, i, ses, p) BY <1>4
  <2>6. session[s].owner = c /\ session[s].list = "work" BY <1>a, <1>4
  <2>a. Quiet(session[s]) /\ session[s].poll = "in" BY <1>4, QuietWhenRead DEF Known
  <2> HIDE DEF s, cl
  <2>7. Paired(cl, ses, p) /\ Fit(cl, ses, p) /\ ses \in [Sessions -> SessionRecords]
    BY <2>0, <2>1, <2>2, ReleasedPairs DEF Known
  <2> HIDE DEF ses, p
  <2>8. Stored(ses, p) /\ p \in [Servers -> Seq(Sessions)] BY <2>7 DEF Paired, Fit
  <2>9. ASSUME NEW f \in batch, f.who = s PROVE FALSE
    <3>1. f.what \in {"in", "out", "err"} /\ f = [who |-> s, what |-> f.what]
      BY <1>0, <2>9 DEF Base, TypeOK
    <3>2. f.what # "err" BY DEF CalmNow, Served
    <3>3. f.what # "in"
      <4>1. f.what = "in" => session[s].answers # <<>> BY <2>0, <2>9 DEF CalmNow, Heard
      <4> QED BY <2>a, <4>1 DEF Quiet
    <3>4. f.what # "out"
      <4>1. f.what = "out" => session[s].poll = "out" BY <2>0, <2>6, <3>1 DEF Known, Timely
      <4> QED BY <2>a, <4>1
    <3> QED BY <3>1, <3>2, <3>3, <3>4
  <2>10. Heard(ses, batch')
    <3>1. \A r \in Sessions : ses[r].link = "up"
      <4> TAKE r \in Sessions
      <4>1. session[r].link = "up" BY DEF CalmNow, Heard
      <4> QED BY <2>3, <4>1
    <3>2. ASSUME NEW f \in batch', f.who \in Sessions
          PROVE  ses[f.who].list = "work" /\ (f.what = "in" => ses[f.who].answers # <<>>)
      <4>1. f \in batch /\ f.who # s BY <2>4, <2>9
      <4>2. ses[f.who] = session[f.who] BY <2>3, <3>2, <4>1
      <4> QED BY <3>2, <4>1, <4>2 DEF CalmNow, Heard
    <3> QED BY <3>1, <3>2 DEF Heard
  <2> QED BY <1>0, <2>4, <2>5, <2>7, <2>8, <2>10, SelectServerCalm
<1> QED BY <1>a, <1>2, <1>3, <1>4 DEF SelectDatabaseLibrary

LEMMA ReceivingCalm ==
  ASSUME Known, CalmNow, worker = "up", NEW e \in batch, NEW c \in Clients,
         OnReceivingAccepted(c, e), strayed' = {}
  PROVE  CalmNext
PROOF
<1> DEFINE s == client[c].pair
<1>0. /\ client \in [Clients -> ClientRecords] /\ session \in [Sessions -> SessionRecords]
      /\ s \in Sessions \cup {None} /\ client[c].status \in Statuses
      /\ client[c].chosen \in Instances \cup {None}
      /\ Base /\ Served(client, batch) /\ Single(batch)
  BY FitNow DEF Fit, Known, CalmNow, ClientRecords
<1>e. e.who = c /\ e.what = "in" /\ Live(c) /\ Fine(client[c]) /\ client[c].wire # <<>>
  BY DEF OnReceivingAccepted, CalmNow, Served
<1>b. ASSUME Done(e) PROVE batch' = batch \ {e} /\ worker' = "up" BY <1>b DEF Done
<1>1. CASE ReceiveEnd(c, e) BY <1>1, <1>e DEF ReceiveEnd
<1>2. CASE ReceiveAuth(c, e)
  <2> DEFINE st == IF Head(client[c].wire).do = "auth" /\ client[c].buffer = <<>>
                   THEN "auth_ok" ELSE "auth_fail"
  <2>1. client' = Replied(c, s, st, None) /\ session' = session /\ Done(e)
    BY <1>2 DEF ReceiveAuth
  <2>2. /\ st \in Statuses /\ None \in Instances \cup {None}
        /\ st \notin {"free", "leaked"} /\ (st \in {"selected", "forward"} => s # None)
    BY DEF Statuses
  <2> HIDE DEF st, s
  <2>3. Served(client', batch') /\ Single(batch') BY <1>0, <1>b, <1>e, <2>1, <2>2, RepliedServed
  <2>4. Heard(session', batch') BY <1>b, <2>1 DEF CalmNow, Heard
  <2> QED BY <1>b, <2>1, <2>3, <2>4 DEF CalmNext
<1>3. CASE ReceiveLocal(c, e)
  <2> DEFINE st == client[c].status
             ch == client[c].chosen
  <2>1. client' = Replied(c, s, st, ch) /\ session' = session /\ Done(e)
    BY <1>3 DEF ReceiveLocal, SelectFailed
  <2>2. /\ st \in Statuses /\ ch \in Instances \cup {None}
        /\ st \notin {"free", "leaked"} /\ (st \in {"selected", "forward"} => s # None)
    BY <1>0, <1>e DEF Fine, Live
  <2> HIDE DEF s, st, ch
  <2>3. Served(client', batch') /\ Single(batch') BY <1>0, <1>b, <1>e, <2>1, <2>2, RepliedServed
  <2>4. Heard(session', batch') BY <1>b, <2>1 DEF CalmNow, Heard
  <2> QED BY <1>b, <2>1, <2>3, <2>4 DEF CalmNext
<1>4. CASE ReceiveSelect(c, e)
  <2>1. Commanded(c, "select") /\ \E i \in Understood(c) : SelectDatabaseLibrary(c, i, e)
    BY <1>4 DEF ReceiveSelect
  <2>2. PICK i \in Instances : SelectDatabaseLibrary(c, i, e) BY <1>0, <2>1, UnderstoodIs
  <2>3. client[c].status # "auth" BY <2>1 DEF Commanded
  <2> QED BY <1>e, <2>2, <2>3, SelectLibraryCalm
<1>5. CASE ReceiveRequest(c, e)
  <2>1. CASE client[c].status # "forward"
    <3>1. CloseClient(c, e) BY <1>5, <2>1 DEF ReceiveRequest
    <3>2. client[c].status \in {"auth", "select"} BY <1>e, <2>1 DEF Known, Wired
    <3>3. client[c].pair = None BY <3>2 DEF Known, Paired, Bound
    <3> QED BY <1>0, <1>e, <3>1, <3>3, CloseClientCalm
  <2>2. CASE client[c].status = "forward"
    <3>1. s # None BY <1>e, <2>2 DEF Fine
    <3>2. s \in Sessions BY <1>0, <3>1
    <3>3. session[s].poll # "none" BY <3>1, <3>2 DEF Known, Paired, Bound, Used
    <3> DEFINE f == [client EXCEPT ![c].poll = "err", ![c].wire = <<>>,
                       ![c].buffer = @ \o Read(c), ![c].gone = AllRead(@)]
               g == [session EXCEPT ![s].poll = "out"]
    <3>4. client' = f /\ session' = g /\ Done(e)
      BY <1>5, <2>2, <3>1, <3>3 DEF ReceiveRequest
    <3>5. /\ \A d \in Clients \ {c} : f[d] = client[d]
          /\ f[c].status = client[c].status /\ f[c].pair = client[c].pair
          /\ f[c].gone = AllRead(client[c].gone)
      BY <1>0, RequestEffect
    <3>c. client[c].pair = s OBVIOUS
    <3> HIDE DEF f, s
    <3>6. \A r \in Sessions : /\ g[r].link = session[r].link /\ g[r].list = session[r].list
                              /\ g[r].answers = session[r].answers
      <4>1. "out" \in Polls BY DEF Polls
      <4> QED BY <1>0, <3>2, <4>1, PollEffect
    <3> HIDE DEF g
    <3>7. OtherClients(c, client, client') /\ Fine(client'[c])
      BY <1>e, <2>2, <3>1, <3>4, <3>5, <3>c DEF OtherClients, Fine, AllRead
    <3>8. batch' = batch \ {e} /\ worker' = "up" BY <1>b, <3>4
    <3>9. Served(client', batch') /\ Single(batch') BY <1>0, <1>e, <3>7, <3>8, OneServed
    <3>10. Heard(session', batch') BY <3>4, <3>6, <3>8, SameHeard DEF CalmNow
    <3> QED BY <3>8, <3>9, <3>10 DEF CalmNext
  <2> QED BY <2>1, <2>2
<1> QED BY <1>1, <1>2, <1>3, <1>4, <1>5 DEF OnReceivingAccepted


-----------------------------------------------------------------------------
(* An event of a connection is one of a connection in work.                *)
LEMMA InWork ==
  ASSUME Known, CalmNow, NEW e \in batch, NEW s \in Sessions, e.who = s
  PROVE  /\ Owner(s) \in Clients /\ client[Owner(s)].pair = s /\ Live(Owner(s))
         /\ PairTurn(client[Owner(s)], session[s], Owner(s))
         /\ session[s].poll # "none" /\ session[s].link = "up"
         /\ e.what = "in" => session[s].answers # <<>>
         /\ e.what = "out" => session[s].poll = "out"
         /\ Fine(client[Owner(s)])
PROOF
<1> DEFINE c == Owner(s)
<1>1. session[s].list = "work" /\ (e.what = "in" => session[s].answers # <<>>) /\ session[s].link = "up"
  BY DEF CalmNow, Heard
<1>2. c \in Clients /\ client[c].pair = s /\ session[s].poll # "none"
  BY <1>1 DEF Known, Base, Shape, Paired, Used, Owner
<1>3. e.what = "out" => session[s].poll = "out"
  <2> SUFFICES ASSUME e.what = "out" PROVE session[s].poll = "out" OBVIOUS
  <2>1. e = [who |-> s, what |-> "out"] BY EventIs DEF Known
  <2> QED BY <1>1, <2>1 DEF Known, Timely
<1> HIDE DEF c
<1>4. s # None BY SessionsAssumption
<1>5. PairTurn(client[c], session[s], c)
  <2>1. TurnOf(client, session, c) BY <1>2 DEF Known, TakeTurns
  <2> QED BY <1>2, <1>4, <2>1 DEF TurnOf
<1>6. client[c].status \in {"selected", "forward"} BY <1>2, <1>4 DEF Known, Paired, Bound
<1>7. Live(c) /\ Fine(client[c]) BY <1>2, <1>6 DEF Live, CalmNow, Served
<1> QED BY <1>1, <1>2, <1>3, <1>5, <1>7 DEF c

(* The handler of a connection changes its connection, and its client.     *)
LEMMA OneHeard ==
  ASSUME CalmNow, NEW e \in batch, NEW s \in Sessions, e.who = s, batch' = batch \ {e},
         \A r \in Sessions \ {s} : session'[r] = session[r], session'[s].link = "up"
  PROVE  Heard(session', batch')
PROOF
<1>1. \A r \in Sessions : session'[r].link = "up" BY DEF CalmNow, Heard
<1>2. ASSUME NEW f \in batch', f.who \in Sessions
      PROVE  session'[f.who].list = "work" /\ (f.what = "in" => session'[f.who].answers # <<>>)
  <2>1. f \in batch /\ f # e OBVIOUS
  <2>2. f.who # s BY <2>1 DEF CalmNow, Single
  <2>3. session'[f.who] = session[f.who] BY <1>2, <2>2
  <2> QED BY <1>2, <2>1, <2>3 DEF CalmNow, Heard
<1> QED BY <1>1, <1>2 DEF Heard

LEMMA AnsweringCalm ==
  ASSUME Known, CalmNow, worker = "up", NEW e \in batch, NEW s \in Sessions, OnReceivingForward(s, e)
  PROVE  CalmNext
PROOF
<1>0. /\ client \in [Clients -> ClientRecords] /\ session \in [Sessions -> SessionRecords]
      /\ Served(client, batch) /\ Single(batch)
  BY FitNow DEF Known, CalmNow
<1> DEFINE c == Owner(s)
           a == session[s].answers
<1>1. e.who = s /\ e.what = "in" BY DEF OnReceivingForward
<1>2. /\ c \in Clients /\ client[c].pair = s /\ Live(c) /\ Fine(client[c])
      /\ session[s].poll # "none" /\ session[s].link = "up" /\ a # <<>>
  BY <1>1, InWork
<1> DEFINE f == [client EXCEPT ![c].buffer = @ \o a, ![c].poll = "out"]
           g == [session EXCEPT ![s].answers = <<>>, ![s].poll = "err"]
<1>3. client' = f /\ session' = g /\ Done(e)
  BY <1>2 DEF OnReceivingForward, ReceiveAnswer
<1>4. a \in Seq(Messages) BY <1>0 DEF SessionRecords
<1> HIDE DEF c, a
<1>5. /\ \A d \in Clients \ {c} : f[d] = client[d]
      /\ f[c].status = client[c].status /\ f[c].pair = client[c].pair
      /\ f[c].wire = client[c].wire /\ f[c].gone = client[c].gone
  BY ZenonT(60), <1>0, <1>2, <1>4, AnswerEffect
<1>6. /\ \A r \in Sessions \ {s} : g[r] = session[r]
      /\ g[s].link = session[s].link
  BY <1>0, TakenUpEffect
<1> HIDE DEF f, g
<1>7. batch' = batch \ {e} /\ worker' = "up" BY <1>3 DEF Done
<1>8. OtherClients(c, client, client') /\ Fine(client'[c])
  BY <1>2, <1>3, <1>5 DEF OtherClients, Fine, Live
<1>9. Served(client', batch') /\ Single(batch')
  BY <1>0, <1>2, <1>3, <1>5, <1>7, <1>8, OneServed
<1>10. Heard(session', batch') BY <1>1, <1>2, <1>3, <1>6, <1>7, OneHeard
<1> QED BY <1>7, <1>9, <1>10 DEF CalmNext

LEMMA RequestingCalm ==
  ASSUME Known, CalmNow, worker = "up", NEW e \in batch, NEW s \in Sessions, OnSendingForward(s, e)
  PROVE  CalmNext
PROOF
<1>0. /\ client \in [Clients -> ClientRecords] /\ session \in [Sessions -> SessionRecords]
      /\ Served(client, batch) /\ Single(batch)
  BY FitNow DEF Known, CalmNow
<1> DEFINE c == Owner(s)
           q == client[c].buffer
           o == Head(q).of
<1>1. e.who = s /\ e.what = "out" BY DEF OnSendingForward
<1>2. /\ c \in Clients /\ client[c].pair = s /\ Live(c) /\ Fine(client[c])
      /\ PairTurn(client[c], session[s], c)
      /\ session[s].poll = "out" /\ session[s].link = "up"
  BY <1>1, InWork
<1>3. q = <<Query(c)>> BY <1>2 DEF PairTurn, Phase, Outgoing, Fine
<1>4. q # <<>> /\ Head(q).kind = "query" /\ o = c /\ Sensible(q)
  <2>1. q # <<>> /\ Len(q) = 1 /\ Head(q) = Query(c) BY <1>3
  <2>2. \A k \in 2..Len(q) : FALSE
    <3> HIDE DEF q
    <3> QED BY <2>1
  <2> QED BY <2>1, <2>2 DEF Query, Sensible
<1>5. /\ client' = [client EXCEPT ![c].buffer = <<>>] /\ Done(e)
      /\ session' = [session EXCEPT ![s].poll = "in", ![s].due = Append(@, [of |-> o, left |-> Parts])]
  <2>1. SendRequest(s, e) BY <1>2, <1>4 DEF OnSendingForward
  <2> QED BY <1>2, <1>4, <2>1 DEF SendRequest
<1> HIDE DEF c, o
<1>6. /\ OtherClients(c, client, client')
      /\ client'[c].status = client[c].status /\ client'[c].pair = client[c].pair
      /\ client'[c].wire = client[c].wire /\ client'[c].gone = client[c].gone
  <2>1. client[c] \in ClientRecords BY <1>0, <1>2
  <2> DEFINE w == <<>>
             n == [client[c] EXCEPT !.buffer = w]
  <2>2. client' = [client EXCEPT ![c] = n] BY <1>5
  <2> HIDE DEF w
  <2>3. /\ n.status = client[c].status /\ n.pair = client[c].pair
        /\ n.wire = client[c].wire /\ n.gone = client[c].gone
    BY <2>1 DEF ClientRecords
  <2> HIDE DEF n
  <2> QED BY <1>0, <1>2, <2>2, <2>3 DEF OtherClients
<1>7. (\A r \in Sessions \ {s} : session'[r] = session[r]) /\ session'[s].link = session[s].link
  <2>1. o \in Clients \cup {None} BY <1>2, <1>4
  <2> QED BY <1>0, <1>5, <2>1, HeardEffect
<1>8. batch' = batch \ {e} /\ worker' = "up" BY <1>5 DEF Done
<1>9. Fine(client'[c]) BY <1>2, <1>6 DEF Fine, Live
<1>10. Served(client', batch') /\ Single(batch') BY <1>0, <1>2, <1>6, <1>8, <1>9, OneServed
<1>11. Heard(session', batch') BY <1>1, <1>2, <1>7, <1>8, OneHeard
<1> QED BY <1>8, <1>10, <1>11 DEF CalmNext

LEMMA AcceptingCalm ==
  ASSUME Known, CalmNow, worker = "up", NEW e \in batch, OnAccepting(e)
  PROVE  CalmNext
PROOF
<1>1. PICK new \in SUBSET {c \in Clients : client[c].status = "free"} :
        client' = [c \in Clients |-> IF c \in new THEN NewClient ELSE client[c]]
  BY DEF OnAccepting
<1>2. session' = session /\ batch' = batch \ {e} /\ worker' = "up" BY DEF OnAccepting
<1>3. Fine(NewClient) BY DEF Fine, NewClient, FreeClient
<1>4. \A c \in Clients : Fine(client'[c]) BY <1>1, <1>3 DEF CalmNow, Served
<1>5. ASSUME NEW f \in batch'
      PROVE  /\ f.what # "err"
             /\ f.who \in Clients => /\ client'[f.who].status \notin {"free", "leaked"}
                                     /\ f.what = "in" => client'[f.who].wire # <<>>
  <2>1. f \in batch BY <1>2
  <2>2. ASSUME f.who \in Clients PROVE client'[f.who] = client[f.who]
    <3>1. client[f.who].status # "free" BY <2>1, <2>2 DEF CalmNow, Served
    <3>2. f.who \notin new BY <3>1
    <3> QED BY <1>1, <2>2, <3>2
  <2> QED BY <2>1, <2>2 DEF CalmNow, Served
<1>6. Served(client', batch') BY <1>4, <1>5 DEF Served
<1> QED BY <1>2, <1>6 DEF CalmNext, CalmNow, Heard, Single

LEMMA HandleCalm ==
  ASSUME Known, CalmNow, worker = "up", Handle, strayed' = {}
  PROVE  CalmNext
PROOF
<1>1. PICK e \in batch :
        \/ OnAccepting(e)
        \/ \E c \in Clients :
             \/ OnReceivingAccepted(c, e) \/ OnSendingAccepted(c, e)
             \/ AcceptedError(c, e)       \/ AcceptedGone(c, e)
        \/ \E s \in Sessions :
             \/ OnReceivingForward(s, e)  \/ OnSendingForward(s, e)
             \/ ForwardError(s, e)        \/ ForwardGone(s, e)
  BY DEF Handle
<1>2. ASSUME NEW c \in Clients, AcceptedError(c, e) \/ AcceptedGone(c, e) PROVE FALSE
  BY <1>2 DEF AcceptedError, AcceptedGone, Live, CalmNow, Served
<1>3. ASSUME NEW s \in Sessions, ForwardError(s, e) \/ ForwardGone(s, e) PROVE FALSE
  <2>1. e.what # "err" BY DEF CalmNow, Served
  <2>2. e.who = s BY <1>3 DEF ForwardError, ForwardGone
  <2>3. Live(Owner(s)) BY <2>2, InWork
  <2> QED BY <1>3, <2>1, <2>3 DEF ForwardError, ForwardGone
<1> QED BY <1>1, <1>2, <1>3, AcceptingCalm, ReceivingCalm, SendingCalm, AnsweringCalm, RequestingCalm


-----------------------------------------------------------------------------
(* What epoll_wait returns in calm                                         *)
LEMMA ReturnedSingle ==
  ASSUME NEW ses
  PROVE  Single(Returned(ses))
PROOF
<1> SUFFICES ASSUME NEW e \in Returned(ses), NEW f \in Returned(ses), e.who = f.who
             PROVE  e = f
  BY DEF Single
<1>0. Listen \notin Clients \cup Sessions /\ Clients \cap Sessions = {} BY SessionsAssumption
<1>1. ASSUME NEW x \in Returned(ses)
      PROVE  /\ x = [who |-> x.who, what |-> x.what]
             /\ x.who = Listen => x.what = "in"
             /\ x.who = Listen \/ x.who \in Clients \/ x.who \in Sessions
  <2>1. CASE x = [who |-> Listen, what |-> "in"]
    <3>1. x.who = Listen /\ x.what = "in" BY <2>1
    <3> QED BY <2>1, <3>1
  <2>2. ASSUME NEW c \in Clients, x \in ReadyClient(c)
        PROVE  x = [who |-> x.who, what |-> x.what] /\ x.who \in Clients
    BY <2>2, ReadyClientIs
  <2>3. ASSUME NEW s \in Sessions, x \in ReadySession(ses, s)
        PROVE  x = [who |-> x.who, what |-> x.what] /\ x.who \in Sessions
    BY <2>3, ReadySessionIs
  <2> QED BY <1>0, <2>1, <2>2, <2>3, ReturnedIs
<1>2. e.what = f.what
  <2>1. CASE e.who = Listen BY <1>1, <2>1
  <2>2. CASE e.who \in Clients
    <3>1. e.what = client[e.who].poll BY <2>2, ReturnedPolls
    <3>2. f.what = client[f.who].poll BY <2>2, ReturnedPolls
    <3> QED BY <3>1, <3>2
  <2>3. CASE e.who \in Sessions
    <3>1. e.what = ses[e.who].poll BY <2>3, ReturnedPolls
    <3>2. f.what = ses[f.who].poll BY <2>3, ReturnedPolls
    <3> QED BY <3>1, <3>2
  <2> QED BY <1>1, <2>1, <2>2, <2>3
<1> QED BY <1>1, <1>2

LEMMA TurnCalm ==
  ASSUME Known, CalmNow, worker = "up", Turn, Shape', TypeOK', Paired(client', session', pool')
  PROVE  CalmNext
PROOF
<1>1. /\ client' = client /\ batch' = Returned(session')
      /\ \A s \in Sessions : \/ session[s].list # "work" /\ session'[s] = FreeSession
                             \/ session'[s] = session[s]
  BY TurnKeepsWork DEF Known
<1>2. worker' = "up" BY DEF Turn
<1>3. \A s \in Sessions : session'[s].link = "up"
  <2> TAKE s \in Sessions
  <2>1. session[s].link = "up" BY DEF CalmNow, Heard
  <2> QED BY <1>1, <2>1 DEF FreeSession
<1>4. ASSUME NEW f \in Returned(session'), NEW c \in Clients, f.who = c
      PROVE  /\ f.what # "err" /\ client[c].status \notin {"free", "leaked"}
             /\ f.what = "in" => client[c].wire # <<>>
  <2>1. f \in ReadyClient(c) /\ f.what = client[c].poll /\ f.what \in {"in", "out", "err"}
    BY <1>4, ReturnedPolls
  <2>2. Fine(client[c]) BY DEF CalmNow, Served
  <2>3. /\ f.what = "in" => client[c].wire # <<>> \/ client[c].gone # "no"
        /\ f.what = "err" => client[c].gone = "rst"
    BY <2>1 DEF ReadyClient
  <2> QED BY <2>1, <2>2, <2>3 DEF Fine
<1>5. ASSUME NEW f \in Returned(session'), NEW s \in Sessions, f.who = s
      PROVE  /\ f.what # "err" /\ session'[s].list = "work"
             /\ f.what = "in" => session'[s].answers # <<>>
  <2>1. f \in ReadySession(session', s) /\ f.what = session'[s].poll /\ f.what \in {"in", "out", "err"}
    BY <1>5, ReturnedPolls
  <2>2. /\ f.what = "in" => session'[s].answers # <<>> \/ session'[s].link # "up"
        /\ f.what = "err" => session'[s].link = "rst"
    BY <2>1 DEF ReadySession
  <2>3. session'[s].list = "work"
    <3>1. session'[s].list # "free" BY <2>1 DEF Shape
    <3>2. session'[s].list # "pool" BY <2>1 DEF Paired, Stored
    <3>3. session'[s].list \in {"free", "work", "pool"} BY DEF TypeOK, SessionRecords
    <3> QED BY <3>1, <3>2, <3>3
  <2> QED BY <1>3, <2>2, <2>3
<1>6. ASSUME NEW f \in Returned(session') PROVE f.what # "err"
  <2>1. CASE f = [who |-> Listen, what |-> "in"] BY <2>1
  <2>2. ASSUME NEW c \in Clients, f \in ReadyClient(c) PROVE f.what # "err"
    BY <1>4, <2>2, ReadyClientIs
  <2>3. ASSUME NEW s \in Sessions, f \in ReadySession(session', s) PROVE f.what # "err"
    BY <1>5, <2>3, ReadySessionIs
  <2> QED BY <2>1, <2>2, <2>3, ReturnedIs
<1>7. Served(client', batch') BY <1>1, <1>4, <1>6 DEF Served, CalmNow
<1>8. Heard(session', batch') BY <1>1, <1>3, <1>5 DEF Heard
<1>9. Single(batch') BY <1>1, ReturnedSingle
<1> QED BY <1>2, <1>7, <1>8, <1>9 DEF CalmNext

LEMMA ClientSendsCalm ==
  ASSUME Known, CalmNow, worker = "up", NEW c \in Clients, ClientSends(c)
  PROVE  CalmNext
PROOF
<1>1. PICK m \in Sendable(client[c].status) :
        client' = [client EXCEPT ![c].wire = <<m>>, ![c].turn = "wait"]
  BY DEF ClientSends
<1>2. session' = session /\ batch' = batch /\ worker' = worker BY DEF ClientSends
<1>3. /\ \A d \in Clients \ {c} : client'[d] = client[d]
      /\ client'[c].wire = <<m>> /\ client'[c].gone = client[c].gone
      /\ client'[c].status = client[c].status /\ client'[c].pair = client[c].pair
      /\ client'[c].poll = client[c].poll
  <2>1. m \in Command BY SendableIs
  <2>2. client \in [Clients -> ClientRecords] BY FitNow DEF Known
  <2> QED BY <1>1, <2>1, <2>2, SentEffect
<1>4. \A d \in Clients : Fine(client'[d])
  <2>1. Fine(client'[c]) BY <1>3 DEF CalmNow, Served, Fine
  <2> QED BY <1>3, <2>1 DEF CalmNow, Served
<1>5. ASSUME NEW f \in batch, f.who \in Clients
      PROVE  /\ client'[f.who].status \notin {"free", "leaked"}
             /\ f.what = "in" => client'[f.who].wire # <<>>
  <2>1. CASE f.who = c
    <3>1. client'[c].wire # <<>>
      <4>1. <<m>> # <<>> OBVIOUS
      <4> QED BY <1>3, <4>1
    <3> QED BY <1>3, <1>5, <2>1, <3>1 DEF CalmNow, Served
  <2>2. CASE f.who # c
    <3>1. client'[f.who] = client[f.who] BY <1>3, <1>5, <2>2
    <3> QED BY <1>5, <3>1 DEF CalmNow, Served
  <2> QED BY <2>1, <2>2
<1>6. \A f \in batch : f.what # "err" BY DEF CalmNow, Served
<1>7. Served(client', batch') BY <1>2, <1>4, <1>5, <1>6 DEF Served
<1> QED BY <1>2, <1>7 DEF CalmNow, CalmNext, Heard

LEMMA AnswerIs ==
  ASSUME session \in [Sessions -> SessionRecords], NEW s \in Sessions, ServerAnswers(s)
  PROVE  /\ session[s].answers \in Seq(Messages)
         /\ Answer(Head(session[s].due).of, Head(session[s].due).left = 1) \in Messages
PROOF
<1> DEFINE d == Head(session[s].due)
<1>1. d \in [of : Clients \cup {None}, left : 1..Parts] BY AnsweredEffect
<1>2. session[s].answers \in Seq(Messages) BY DEF SessionRecords
<1> HIDE DEF d
<1>3. (d.left = 1) \in BOOLEAN /\ d.of \in Clients \cup {None} BY <1>1
<1>4. Answer(d.of, d.left = 1) \in Messages BY <1>3 DEF Answer, Messages, Kinds
<1> QED BY <1>2, <1>4 DEF d

LEMMA EnvironmentCalm ==
  ASSUME Known, CalmNow, worker = "up", Environment, strayed' = {}
  PROVE  CalmNext
PROOF
<1>1. CASE UNCHANGED <<client, session, batch, worker>>
  BY <1>1 DEF CalmNow, CalmNext, Served, Heard
<1>2. ASSUME NEW s \in Sessions, ServerAnswers(s) PROVE CalmNext
  <2>0. session \in [Sessions -> SessionRecords] BY FitNow DEF Known
  <2> DEFINE m == Answer(Head(session[s].due).of, Head(session[s].due).left = 1)
             a == session[s].answers
  <2>1. /\ \A r \in Sessions \ {s} : session'[r] = session[r]
        /\ session'[s].list = session[s].list /\ session'[s].link = session[s].link
        /\ session'[s].answers = Append(a, m)
    BY <1>2, <2>0, AnsweredEffect
  <2>2. Append(a, m) # <<>>
    <3>1. a \in Seq(Messages) /\ m \in Messages BY <1>2, <2>0, AnswerIs
    <3> HIDE DEF a, m
    <3>2. Append(a, m) \in Seq(Messages) /\ Len(Append(a, m)) = Len(a) + 1 /\ Len(a) \in Nat
      BY <3>1, AppendProperties, LenProperties
    <3>3. Len(Append(a, m)) # 0 BY <3>2
    <3> QED BY <3>3
  <2> HIDE DEF a, m
  <2>3. \A r \in Sessions : /\ session'[r].link = session[r].link /\ session'[r].list = session[r].list
                            /\ session[r].answers # <<>> => session'[r].answers # <<>>
    BY <2>1, <2>2
  <2>4. client' = client /\ batch' = batch /\ worker' = worker BY <1>2 DEF ServerAnswers
  <2>5. Heard(session', batch') BY <2>3, <2>4, SameHeard DEF CalmNow
  <2> QED BY <2>4, <2>5 DEF CalmNow, CalmNext, Served
<1>3. CASE ClientConnects \/ \E v \in Servers : ServerReturns(v)
  BY <1>1, <1>3 DEF ClientConnects, ServerReturns, worker_vars
<1>4. ASSUME Ended PROVE FALSE BY <1>4 DEF Ended
<1>5. ASSUME NEW c \in Clients, ClientLeaves(c) PROVE FALSE BY <1>4, <1>5 DEF ClientLeaves
<1>6. ASSUME NEW s \in Sessions, ServerCloses(s) PROVE FALSE BY <1>4, <1>6 DEF ServerCloses
<1>7. ASSUME NEW v \in Servers, ServerFails(v) PROVE FALSE BY <1>4, <1>7 DEF ServerFails
<1> QED BY <1>2, <1>3, <1>5, <1>6, <1>7, ClientSendsCalm DEF Environment

-----------------------------------------------------------------------------
LEMMA FreeCalm ==
  ASSUME NEW cl, cl = [c \in Clients |-> FreeClient],
         NEW ses, ses = [s \in Sessions |-> FreeSession], NEW b, b = {}
  PROVE  Served(cl, b) /\ Heard(ses, b) /\ Single(b)
PROOF
<1>1. Fine(FreeClient) BY DEF Fine, FreeClient
<1>2. FreeSession.link = "up" BY DEF FreeSession
<1> QED BY <1>1, <1>2 DEF Served, Heard, Single

LEMMA CalmInit ==
  ASSUME Init
  PROVE  Calm
PROOF
<1>1. /\ client = [c \in Clients |-> FreeClient] /\ session = [s \in Sessions |-> FreeSession]
      /\ batch = {} /\ worker = "up"
  BY DEF Init
<1> QED BY <1>1, FreeCalm DEF Calm, CalmNow

LEMMA CalmStep ==
  ASSUME Base, Wired, PairInv, Duplex, Calm, [Next]_vars, Base', PairInv'
  PROVE  Calm'
PROOF
<1> SUFFICES ASSUME strayed' = {} PROVE CalmNext
  BY DEF Calm, CalmNow, CalmNext, Served, Heard
<1>1. CASE Restart
  <2>1. /\ client' = [c \in Clients |-> FreeClient] /\ session' = [s \in Sessions |-> FreeSession]
        /\ batch' = {} /\ worker' = "up"
    BY <1>1 DEF Restart, Base, DeadShape
  <2> QED BY <2>1, FreeCalm DEF CalmNext
<1>2. ASSUME strayed \subseteq strayed' PROVE Known /\ CalmNow /\ worker = "up"
  <2>1. strayed = {} BY <1>2
  <2>2. strayed \subseteq {"end"} /\ "pair" \notin strayed BY <2>1
  <2> QED BY <2>1, <2>2 DEF Duplex, PairInv, Calm, Known
<1>3. CASE Worker
  <2>1. Handle \/ Turn BY <1>3 DEF Worker
  <2>2. CASE Handle
    <3>1. strayed \subseteq strayed' BY <2>2, HandleStrays
    <3> QED BY <1>2, <2>2, <3>1, HandleCalm
  <2>3. CASE Turn
    <3>1. strayed \subseteq strayed' BY <2>3 DEF Turn
    <3>2. Shape' /\ TypeOK' BY DEF Base
    <3>3. Paired(client', session', pool')
      <4>1. "pair" \notin strayed' OBVIOUS
      <4> QED BY <4>1 DEF PairInv, Paired, Bound, Used, Stored
    <3> QED BY <1>2, <2>3, <3>1, <3>2, <3>3, TurnCalm
  <2> QED BY <2>1, <2>2, <2>3
<1>4. CASE Environment
  <2>1. strayed \subseteq strayed'
    BY <1>4 DEF Environment, ClientConnects, ClientSends, ClientLeaves, ServerAnswers, ServerCloses,
                ServerFails, ServerReturns, Ended, worker_vars
  <2> QED BY <1>2, <1>4, <2>1, EnvironmentCalm
<1>5. CASE ReloadConfig \/ UNCHANGED vars
  <2>1. UNCHANGED <<client, session, batch, strayed, worker>>
    BY <1>5 DEF ReloadConfig, vars, worker_vars
  <2> QED BY <1>2, <2>1 DEF CalmNow, CalmNext, Served, Heard
<1> QED BY <1>1, <1>3, <1>4, <1>5 DEF Next

(* In every state, as long as nobody ended a connection either and servers *)
(* could be reached, the worker is up and every event of its batch is for  *)
(* a client or a connection that is there to serve it, once.               *)
THEOREM TheCalm == Spec => [](Base /\ Wired /\ PairInv /\ Duplex /\ Calm)
PROOF
<1>1. Init => Base /\ Wired /\ PairInv /\ Duplex /\ Calm
  BY InitBase, PairsInit, DuplexInit, CalmInit
<1>2. Base /\ Wired /\ PairInv /\ Duplex /\ Calm /\ [Next]_vars
        => (Base /\ Wired /\ PairInv /\ Duplex /\ Calm)'
  BY BaseStep, PairsStep, DuplexStep, CalmStep
<1> QED BY <1>1, <1>2, PTL DEF Spec

(* As long as no client and no server has ended a connection, and a server *)
(* could be reached whenever one was wanted, the worker runs: no handler   *)
(* follows a pointer to what was freed, and epoll_ctl does not fail.       *)
THEOREM TheCalmLive == Spec => []CalmLives
PROOF
<1>1. Calm => CalmLives BY DEF Calm, CalmLives
<1> QED BY <1>1, TheCalm, PTL

=============================================================================
