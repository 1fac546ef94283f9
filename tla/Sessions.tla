------------------------------ MODULE Sessions ------------------------------
(***************************************************************************)
(* The sessions of the worker (comm.c, app.c, worker.c): sessions of       *)
(* clients (AcceptedSession), sessions of servers (ForwardSession), how    *)
(* "select library" bridges one of each, how a request and its answer take *)
(* turns in the one buffer of the bridge, and the pools of connections     *)
(* that wait for the next client.                                          *)
(*                                                                         *)
(* The worker is one thread.  epoll_wait returns a batch of events, which  *)
(* are handled one by one; an event may be outdated when its turn comes,   *)
(* because a handler before it closed, freed or moved its session.  Clients*)
(* and servers act between any two handlers.                               *)
(*                                                                         *)
(* A member of Clients and of Sessions stands for an ADDRESS: a freed      *)
(* session may be allocated again at the same place, and a pointer that    *)
(* was kept then points to the new one.  A message is sent and received as *)
(* a whole: what happens to parts of packets is not modelled here.  Memory *)
(* and epoll descriptors do not run out.                                   *)
(***************************************************************************)
EXTENDS Naturals, Sequences, FiniteSets

CONSTANTS
  Clients,       \* addresses of client sessions
  Sessions,      \* addresses of server sessions: connections the servers grant
  Instances,     \* groups of servers
  Servers,       \* all their servers
  Failing,       \* those that may fail and return
  ServerLists,   \* what the configuration file may hold: the servers of every
                 \* group, in the order they are tried; <<>> for a group it lacks
  Parts,         \* parts in which a server sends an answer
  Commands,      \* what clients send: "local", "select", "query"
  MaxUnread,     \* bound: no new request while more than this is unread
  None, Listen   \* NULL; the listening socket

Listed(q) == {q[k] : k \in DOMAIN q}

ASSUME SessionsAssumption ==
  /\ ServerLists \subseteq [Instances -> Seq(Servers)]
  /\ \A l \in ServerLists, i \in Instances : Cardinality(Listed(l[i])) = Len(l[i])
  /\ \A v \in Servers : \E l \in ServerLists, i \in Instances : v \in Listed(l[i])
  /\ \A l, m \in ServerLists, i, j \in Instances : i # j => Listed(l[i]) \cap Listed(m[j]) = {}
  /\ Failing \subseteq Servers
  /\ Parts \in Nat \ {0} /\ MaxUnread \in Nat
  /\ IsFiniteSet(Clients)
  /\ Commands \subseteq {"local", "select", "query"}
  /\ None \notin Clients \cup Sessions \cup Instances \cup Servers
  /\ Listen \notin Clients \cup Sessions
  /\ Clients \cap Sessions = {}

VARIABLES
  client,        \* the client sessions, and what their clients do
  session,       \* the server sessions, and what their servers do
  pool,          \* unused_forward_session_list of every server, oldest first
  list,          \* forward_server_list of every group; <<>>: no such group
  batch,         \* events of the last epoll_wait not yet handled
  backlog,       \* connections not yet accepted
  up,            \* servers that can be connected to
  worker,        \* "up" or "dead"
  strayed        \* history of the worker: "pair" when a server session acted for a
                 \* client that is not its own, "answer" when a client got one that
                 \* owed an answer, "end" when a client or a server ended a
                 \* connection or no server could be reached

worker_vars == <<client, session, pool, list, batch, backlog, worker, strayed>>
vars        == <<worker_vars, up>>
-----------------------------------------------------------------------------
(* Messages.  of: the client who asked; None once that client is closed.   *)
Kinds    == {"own", "query", "answer", "quit"}
Messages == [kind : Kinds, of : Clients \cup {None}, last : BOOLEAN]

Own            == [kind |-> "own", of |-> None, last |-> TRUE]
Query(c)       == [kind |-> "query", of |-> c, last |-> FALSE]
Quit           == [kind |-> "quit", of |-> None, last |-> FALSE]
Answer(c, end) == [kind |-> "answer", of |-> c, last |-> end]

(* SESSIONSTATUS_...: 10, 20, 31, 32, 40, 50, 60 in this order.  A "leaked"*)
(* session is closed but was never freed.                                  *)
Statuses == {"free", "handshake", "auth", "auth_fail", "auth_ok", "select", "selected", "forward", "leaked"}
Polls    == {"none", "in", "out", "err"}

Command == [do : {"auth", "bad_auth", "local", "query"}, to : {None}] \cup [do : {"select"}, to : Instances]

(* wire: what the client has sent; turn: whether the client waits for an   *)
(* answer; gone: whether and how it closed, "quit" when a COM_QUIT not yet *)
(* read is behind what is on the wire; chosen: history, the group of its   *)
(* last "select" that was answered OK.                                     *)
FreeClient ==
  [status |-> "free", pair |-> None, poll |-> "none", buffer |-> <<>>,
   wire |-> <<>>, turn |-> "wait", gone |-> "no", chosen |-> None]

NewClient ==
  [FreeClient EXCEPT !.status = "handshake", !.poll = "out", !.buffer = <<Own>>]

(* due: requests the server has and has not answered, with the parts left; *)
(* answers: what it has sent; link: whether and how the server closed.     *)
FreeSession ==
  [list |-> "free", server |-> None, owner |-> None, poll |-> "none",
   due |-> <<>>, answers |-> <<>>, link |-> "up"]

NewSession(c, v) ==
  [FreeSession EXCEPT !.list = "work", !.server = v, !.owner = c, !.poll = "in"]

InstanceOf(v) == CHOOSE i \in Instances : \E l \in ServerLists : v \in Listed(l[i])

Init ==
  /\ client = [c \in Clients |-> FreeClient]
  /\ session = [s \in Sessions |-> FreeSession]
  /\ pool = [v \in Servers |-> <<>>]
  /\ list \in ServerLists
  /\ batch = {} /\ backlog = 0
  /\ up = Servers
  /\ worker = "up" /\ strayed = {}

(* A pointer that is NULL or points to freed memory was followed, or       *)
(* epoll_ctl failed and the handler returned -1: the worker ends, and with *)
(* it every session.                                                       *)
Dies ==
  /\ worker' = "dead"
  /\ client' = [c \in Clients |-> FreeClient]
  /\ session' = [s \in Sessions |-> FreeSession]
  /\ pool' = [v \in Servers |-> <<>>]
  /\ batch' = {} /\ backlog' = 0 /\ UNCHANGED <<list, strayed>>

(* The monitor starts the next one, which reads the file and ends again    *)
(* unless it can connect to the FIRST server of every group.               *)
Restart ==
  /\ worker = "dead" /\ worker' = "up" /\ strayed' = {}
  /\ list' \in ServerLists
  /\ \A i \in Instances : list'[i] # <<>> => Head(list'[i]) \in up
  /\ UNCHANGED <<client, session, pool, batch, backlog, up>>

(* Mutant: the lists are those of the file.                                *)
AsInFile(i, l) == IF l[i] = <<>> THEN list[i] ELSE l[i]

(* The places of the servers that are new in the file.                    *)
Added(i, l) == {n \in DOMAIN l[i] : l[i][n] \notin Listed(list[i])}

(* ReloadConfig for one group: servers that are new in the file are added  *)
(* behind the others.  Those no longer in the file stay, since the test for*)
(* them (config.c:439) is never true.                                      *)
Merged(i, l) ==
  list[i] \o [k \in 1..Cardinality(Added(i, l)) |->
                l[i][CHOOSE n \in Added(i, l) : Cardinality({m \in Added(i, l) : m <= n}) = k]]

(* ReloadConfig, between two handlers of a batch: its event is that of the *)
(* alive pipe.  It stops at a new group without servers, so that only some *)
(* of the groups may have been read.  One that adds nothing is no step.    *)
ReloadConfig ==
  /\ worker = "up"
  /\ \E l \in ServerLists, read \in SUBSET Instances :
       list' = [i \in Instances |-> IF i \in read THEN Merged(i, l) ELSE list[i]]
  /\ list' # list
  /\ UNCHANGED <<client, session, pool, batch, backlog, worker, strayed, up>>
-----------------------------------------------------------------------------
(* An event of the batch was handled and the worker runs on.               *)
Done(e) == batch' = batch \ {e} /\ UNCHANGED <<worker, backlog, list>>

(* What a connection has still to bring.                                   *)
Unread(ses) == Len(ses.due) + Len(ses.answers)

Live(c) == client[c].status \notin {"free", "leaked"}

(* The address c will be that of another client.                           *)
Forgotten(c, ses) ==
  LET Anon(m) == IF m.of = c THEN [m EXCEPT !.of = None] ELSE m
      All(q)  == [k \in DOMAIN q |-> Anon(q[k])]
  IN  [s \in Sessions |-> [ses[s] EXCEPT !.due = All(@), !.answers = All(@)]]

(* Mutants: it stays in the epoll set; the wrong node is appended.         *)
StillPolled(s, ses)  == ses
OwnerAppended(s, p)  == [p EXCEPT ![session[s].server] = Append(@, session[s].owner)]

(* Moving a session from the working list of its server to the pool.       *)
InPool(s, ses)    == [ses EXCEPT ![s].list = "pool"]
Unpolled(s, ses)  == [ses EXCEPT ![s].poll = "none"]
Appended(s, p)    == [p EXCEPT ![session[s].server] = Append(@, s)]

(* OnClosingAcceptedSocket.  When the pair is not in the epoll set the     *)
(* session is closed but not freed, and -1 is returned to nobody.          *)
CloseClient(c, e) ==
  LET s == client[c].pair IN
  \/ /\ s = None
     /\ client' = [client EXCEPT ![c] = FreeClient]
     /\ session' = Forgotten(c, session)
     /\ Done(e) /\ UNCHANGED <<pool, strayed>>
  \/ /\ s # None /\ session[s].poll # "none"
     /\ client' = [client EXCEPT ![c] = FreeClient]
     /\ session' = Forgotten(c, InPool(s, Unpolled(s, session)))
     /\ pool' = Appended(s, pool)
     /\ Done(e) /\ UNCHANGED strayed
  \/ /\ s # None /\ session[s].list # "free" /\ session[s].poll = "none"
     /\ client' = [client EXCEPT ![c] = [FreeClient EXCEPT !.status = "leaked"]]
     /\ Done(e) /\ UNCHANGED <<session, pool, strayed>>
  \/ /\ s # None /\ session[s].list = "free"
     /\ Dies

(* A handler of the server session s works for the client it points to.    *)
Acts(s) ==
  strayed' = strayed \cup (IF client[session[s].owner].pair # s THEN {"pair"} ELSE {})

(* OnClosingForwardSocket: the client is freed; unless the session is not  *)
(* in the epoll set, which makes it return, the pair is then read from the *)
(* freed memory, which may still hold what it held.                        *)
CloseSession(s, e) ==
  LET c == session[s].owner
      q == client[c].pair
  IN
  \/ /\ session[s].poll = "none"
     /\ client' = [client EXCEPT ![c] = FreeClient]
     /\ session' = Forgotten(c, session)
     /\ Done(e) /\ Acts(s) /\ UNCHANGED pool
  \/ /\ session[s].poll # "none"
     /\ q # None /\ session[q].list # "free"
     /\ client' = [client EXCEPT ![c] = FreeClient]
     /\ session' = Forgotten(c, InPool(q, Unpolled(s, session)))
     /\ pool' = Appended(q, pool)
     /\ Done(e) /\ Acts(s)
  \/ /\ session[s].poll # "none"
     /\ Dies
-----------------------------------------------------------------------------
(* SelectMysqlServer: the first server of the list that has a pooled       *)
(* connection or can be connected to.  ses and p: the sessions and pools   *)
(* as the caller left them.                                                *)
Reaches(v, ses, p) ==
  p[v] # <<>> \/ (v \in up /\ \E s \in Sessions : ses[s].list = "free")

Reached(i, ses, p) ==
  {k \in DOMAIN list[i] : /\ Reaches(list[i][k], ses, p)
                          /\ \A j \in 1..(k - 1) : ~Reaches(list[i][j], ses, p)}

(* recv takes all that a client has sent, a COM_QUIT behind it too.        *)
AllRead(gone) == IF gone = "quit" THEN "fin" ELSE gone

(* The answer to a command, and the pair and status it leaves.             *)
Replied(c, s, status, chosen) ==
  [client EXCEPT ![c].buffer = <<Own>>, ![c].poll = "out", ![c].wire = <<>>,
                 ![c].pair = s, ![c].status = status, ![c].chosen = chosen,
                 ![c].gone = AllRead(@)]

SelectedOk(c, i, s) ==
  Replied(c, s, IF client[c].status = "select" THEN "selected" ELSE client[c].status, i)

SelectFailed(c, s) == Replied(c, s, client[c].status, client[c].chosen)

(* Mutant: a session from the pool is not added to the epoll set.          *)
NotPolled(s, ses) == ses

Polled(s, ses) == [ses EXCEPT ![s].poll = "in"]

(* A pooled session is taken as it is: it still points to the client it    *)
(* served before.                                                          *)
TakePooled(c, i, v, ses, p) ==
  LET s == Head(p[v]) IN
  /\ p[v] # <<>>
  /\ pool' = [p EXCEPT ![v] = Tail(@)]
  /\ IF ses[s].poll = "none"
     THEN /\ session' = Polled(s, [ses EXCEPT ![s].list = "work"])
          /\ client' = SelectedOk(c, i, s)
          /\ strayed' = strayed \cup (IF ses[s].owner # c THEN {"pair"} ELSE {})
                               \cup (IF Unread(ses[s]) > 0 THEN {"answer"} ELSE {})
     ELSE /\ session' = [ses EXCEPT ![s].list = "work"]
          /\ client' = SelectFailed(c, client[c].pair)
          /\ UNCHANGED strayed

Connect(c, i, v, ses, p) ==
  /\ p[v] = <<>>
  /\ \E s \in Sessions :
       /\ ses[s].list = "free"
       /\ session' = [ses EXCEPT ![s] = NewSession(c, v)]
       /\ client' = SelectedOk(c, i, s)
  /\ pool' = p
  /\ UNCHANGED strayed

(* No server can be reached: the test for it (app.c:339) is never true,    *)
(* the client is answered OK and has no server session.                    *)
SelectNone(c, i, ses, p) ==
  /\ session' = ses /\ pool' = p
  /\ client' = SelectedOk(c, i, None)
  /\ strayed' = strayed \cup {"end"}

SelectMysqlServer(c, i, ses, p) ==
  \/ \E k \in Reached(i, ses, p) :
       \/ TakePooled(c, i, list[i][k], ses, p)
       \/ Connect(c, i, list[i][k], ses, p)
  \/ Reached(i, ses, p) = {} /\ SelectNone(c, i, ses, p)

(* Mutant: a client that has a pair keeps it, whatever the group.          *)
SelectKeepsPair(c, i, e) ==
  LET s == client[c].pair IN
  /\ \/ s = None /\ SelectMysqlServer(c, i, session, pool)
     \/ s # None /\ client' = SelectedOk(c, i, s) /\ UNCHANGED <<session, pool, strayed>>
  /\ Done(e)

(* The end of SelectDatabaseLibrary, for a library of the group i.  A pair *)
(* of another group goes to the pool before the new one is looked for.     *)
SelectDatabaseLibrary(c, i, e) ==
  LET s == client[c].pair IN
  \/ /\ s = None
     /\ SelectMysqlServer(c, i, session, pool)
     /\ Done(e)
  \/ /\ s # None /\ session[s].list # "free"
     /\ InstanceOf(session[s].server) = i
     /\ client' = SelectedOk(c, i, s)
     /\ Done(e) /\ UNCHANGED <<session, pool, strayed>>
  \/ /\ s # None /\ session[s].list # "free"
     /\ InstanceOf(session[s].server) # i
     /\ IF session[s].poll # "none"
        THEN SelectMysqlServer(c, i, InPool(s, Unpolled(s, session)), Appended(s, pool))
        ELSE /\ session' = InPool(s, session) /\ pool' = Appended(s, pool)
             /\ client' = SelectFailed(c, s)
             /\ UNCHANGED strayed
     /\ Done(e)
  \/ /\ s # None /\ session[s].list = "free"
     /\ Dies
-----------------------------------------------------------------------------
(* OnAcceptingSocket: all the connections of the backlog.                  *)
OnAccepting(e) ==
  /\ e.who = Listen
  /\ \E new \in SUBSET {c \in Clients : client[c].status = "free"} :
       /\ Cardinality(new) = backlog
       /\ client' = [c \in Clients |-> IF c \in new THEN NewClient ELSE client[c]]
  /\ batch' = batch \ {e} /\ backlog' = 0
  /\ UNCHANGED <<session, pool, list, worker, strayed>>

(* OnReceivingAcceptedSocket.  Nothing to read: the client closed, or the  *)
(* event is that of another client at this address.  Or a COM_QUIT, which  *)
(* is looked for at the head of the buffer only, before the length of the  *)
(* packet there is known.                                                  *)
ReceiveEnd(c, e) ==
  /\ client[c].wire = <<>>
  /\ client[c].gone # "quit" \/ client[c].buffer = <<>>
  /\ CloseClient(c, e)

ReceiveAuth(c, e) ==
  /\ client[c].wire # <<>> /\ client[c].status = "auth"
  /\ client' = Replied(c, client[c].pair,
                       IF Head(client[c].wire).do = "auth" /\ client[c].buffer = <<>>
                       THEN "auth_ok" ELSE "auth_fail", None)
  /\ Done(e) /\ UNCHANGED <<session, pool, strayed>>

(* The command at the head of the buffer decides.  When the server has sent*)
(* something before, in the same batch, that is at the head.               *)
Commanded(c, do) ==
  /\ client[c].status # "auth"
  /\ client[c].wire # <<>> /\ client[c].buffer = <<>>
  /\ Head(client[c].wire).do = do

(* What the worker answers itself: the version comment, "set", every error.*)
ReceiveLocal(c, e) ==
  /\ Commanded(c, "local")
  /\ client' = SelectFailed(c, client[c].pair)
  /\ Done(e) /\ UNCHANGED <<session, pool, strayed>>

(* The group of the library that was named.  A COM_QUIT read behind the    *)
(* name becomes a part of it: some other library, of any group.            *)
Understood(c) ==
  IF client[c].gone = "quit" THEN {i \in Instances : list[i] # <<>>}
  ELSE {Head(client[c].wire).to}

ReceiveSelect(c, e) ==
  /\ Commanded(c, "select")
  /\ \E i \in Understood(c) : SelectDatabaseLibrary(c, i, e)

(* All that is read: what the client has sent, and a COM_QUIT behind it.   *)
Read(c) ==
  (IF client[c].wire # <<>> THEN <<Query(c)>> ELSE <<>>)
  \o (IF client[c].gone = "quit" THEN <<Quit>> ELSE <<>>)

(* A request is passed on: the client is not read, and the server written  *)
(* to, until it has been sent.  So is anything, a COM_QUIT too, that comes *)
(* behind what the server has sent.                                        *)
ReceiveRequest(c, e) ==
  LET s == client[c].pair IN
  /\ client[c].wire # <<>> \/ client[c].gone = "quit"
  /\ client[c].status # "auth"
  /\ Commanded(c, "query") \/ client[c].buffer # <<>>
  /\ \/ /\ client[c].status # "forward"
        /\ CloseClient(c, e)
     \/ /\ client[c].status = "forward"
        /\ s # None /\ session[s].poll # "none"
        /\ client' = [client EXCEPT ![c].poll = "err", ![c].wire = <<>>,
                                    ![c].buffer = @ \o Read(c), ![c].gone = AllRead(@)]
        /\ session' = [session EXCEPT ![s].poll = "out"]
        /\ Done(e) /\ UNCHANGED <<pool, strayed>>
     \/ /\ client[c].status = "forward"
        /\ s = None \/ (s # None /\ session[s].poll = "none")
        /\ Dies

OnReceivingAccepted(c, e) ==
  /\ e.who = c /\ e.what = "in" /\ Live(c)
  /\ \/ ReceiveEnd(c, e)    \/ ReceiveAuth(c, e)
     \/ ReceiveLocal(c, e)  \/ ReceiveSelect(c, e)
     \/ ReceiveRequest(c, e)

(* Mutants: a client that was let in is not read again; nor is the server. *)
DeliveredOnly(c, status) ==
  [client EXCEPT ![c].status = status, ![c].buffer = <<>>, ![c].turn = "send",
                 ![c].poll = IF status = "select" THEN @ ELSE "in"]

SendForwardOnly(c, e) ==
  /\ client[c].gone # "rst" /\ client[c].status = "forward"
  /\ IF client[c].pair = None THEN Dies
     ELSE /\ client' = [client EXCEPT
               ![c].buffer = <<>>, ![c].poll = "in",
               ![c].turn = IF client[c].buffer[Len(client[c].buffer)].last THEN "send" ELSE @]
          /\ Done(e) /\ UNCHANGED <<session, pool, strayed>>

(* OnSendingAcceptedSocket: everything in the buffer is sent.  What the    *)
(* client waited for has come when the last part of an answer has.         *)
Delivered(c, status) ==
  [client EXCEPT
     ![c].status = status, ![c].buffer = <<>>, ![c].poll = "in",
     ![c].turn = IF \E k \in DOMAIN client[c].buffer : client[c].buffer[k].last THEN "send" ELSE @]

AfterSending(status) ==
  CASE status = "handshake" -> "auth"
    [] status = "auth_ok"   -> "select"
    [] status = "selected"  -> "forward"
    [] OTHER                -> status

(* A client that is to be let in is not written to: status 20 is unknown.  *)
SendFails(c, e) ==
  /\ client[c].gone = "rst" \/ client[c].status \in {"auth", "auth_fail"}
  /\ CloseClient(c, e)

SendBeforeForward(c, e) ==
  /\ client[c].gone # "rst"
  /\ client[c].status \in {"handshake", "auth_ok", "select", "selected"}
  /\ client' = Delivered(c, AfterSending(client[c].status))
  /\ Done(e) /\ UNCHANGED <<session, pool, strayed>>

(* Once it was sent both sides are read again.                             *)
SendForward(c, e) ==
  LET s == client[c].pair IN
  /\ client[c].gone # "rst"
  /\ client[c].status = "forward"
  /\ \/ /\ s # None /\ session[s].poll # "none"
        /\ client' = Delivered(c, "forward")
        /\ session' = [session EXCEPT ![s].poll = "in"]
        /\ Done(e) /\ UNCHANGED <<pool, strayed>>
     \/ /\ s = None \/ (s # None /\ session[s].poll = "none")
        /\ Dies

OnSendingAccepted(c, e) ==
  /\ e.who = c /\ e.what = "out" /\ Live(c)
  /\ \/ SendFails(c, e) \/ SendBeforeForward(c, e) \/ SendForward(c, e)

AcceptedError(c, e) ==
  /\ e.who = c /\ e.what = "err" /\ Live(c)
  /\ CloseClient(c, e)

(* A handler works on a client session that was freed.  Its buffer is of   *)
(* a size that malloc maps for itself, and no longer mapped: recv and send *)
(* fail, and so does taking its socket out of the epoll set, after which   *)
(* the handler returns -1 to nobody.  Any other content of the memory ends *)
(* the worker.                                                             *)
Outlived(e) == Done(e) /\ UNCHANGED <<client, session, pool, strayed>>

(* The event of a client session that was freed earlier in the batch.      *)
AcceptedGone(c, e) ==
  /\ e.who = c /\ ~Live(c)
  /\ Dies \/ Outlived(e)
-----------------------------------------------------------------------------
(* The handlers of server sessions work on the buffer of the client they   *)
(* point to.                                                               *)
Owner(s) == session[s].owner

(* OnReceivingForwardSocket *)
ReceiveAnswer(s, e) ==
  /\ session[s].answers # <<>>
  /\ session[s].poll # "none"
  /\ client' = [client EXCEPT ![Owner(s)].buffer = @ \o session[s].answers,
                              ![Owner(s)].poll = "out"]
  /\ session' = [session EXCEPT ![s].answers = <<>>, ![s].poll = "err"]
  /\ Done(e) /\ Acts(s) /\ UNCHANGED pool

OnReceivingForward(s, e) ==
  /\ e.who = s /\ e.what = "in" /\ Live(Owner(s))
  /\ \/ ReceiveAnswer(s, e)
     \/ session[s].answers # <<>> /\ session[s].poll = "none" /\ Dies
     \/ session[s].answers = <<>> /\ CloseSession(s, e)

(* Mutant: fill_len is not set to zero.                                    *)
SendRequestKept(s, e) ==
  /\ session[s].link # "rst" /\ session[s].poll # "none" /\ client[Owner(s)].buffer # <<>>
  /\ session' = [session EXCEPT ![s].poll = "in",
                                ![s].due = Append(@, [of |-> Owner(s), left |-> Parts])]
  /\ Done(e) /\ Acts(s) /\ UNCHANGED <<client, pool>>

(* Anything but one request, behind which the client may have quit, makes  *)
(* no sense to a server.                                                   *)
Sensible(q) == Head(q).kind = "query" /\ \A k \in 2..Len(q) : q[k] = Quit

(* OnSendingForwardSocket.  A server closes a connection on which it heard *)
(* no sense; so does sending to one it has closed.                         *)
SendRequest(s, e) ==
  LET q     == client[Owner(s)].buffer
      heard == session[s].link = "up" /\ Sensible(q)
  IN
  /\ session[s].link # "rst" /\ session[s].poll # "none" /\ q # <<>>
  /\ client' = [client EXCEPT ![Owner(s)].buffer = <<>>]
  /\ IF heard
     THEN session' = [session EXCEPT ![s].poll = "in",
                        ![s].due = Append(@, [of |-> Head(q).of, left |-> Parts])]
     ELSE session' = [session EXCEPT ![s].poll = "in", ![s].link = "rst",
                        ![s].due = <<>>, ![s].answers = <<>>]
  /\ Done(e) /\ Acts(s) /\ UNCHANGED pool

(* With an empty buffer the rest of the buffer, of negative length, is     *)
(* moved to its front.                                                     *)
OnSendingForward(s, e) ==
  /\ e.who = s /\ e.what = "out" /\ Live(Owner(s))
  /\ \/ SendRequest(s, e)
     \/ session[s].link = "rst" /\ CloseSession(s, e)
     \/ /\ session[s].link # "rst"
        /\ session[s].poll = "none" \/ client[Owner(s)].buffer = <<>>
        /\ Dies

ForwardError(s, e) ==
  /\ e.who = s /\ e.what = "err" /\ Live(Owner(s))
  /\ CloseSession(s, e)

(* The session points to a client that was freed, or leaked.               *)
ForwardGone(s, e) ==
  /\ e.who = s /\ ~Live(Owner(s))
  /\ Dies \/ Outlived(e)

Handle ==
  \E e \in batch :
    \/ OnAccepting(e)
    \/ \E c \in Clients :
         \/ OnReceivingAccepted(c, e) \/ OnSendingAccepted(c, e)
         \/ AcceptedError(c, e)       \/ AcceptedGone(c, e)
    \/ \E s \in Sessions :
         \/ OnReceivingForward(s, e)  \/ OnSendingForward(s, e)
         \/ ForwardError(s, e)        \/ ForwardGone(s, e)
-----------------------------------------------------------------------------
(* The end of a turn of the loop: pooled connections whose time has come,  *)
(* the oldest first, are closed; then epoll_wait returns what is ready.    *)
Expired(keep) ==
  {s \in Sessions : \E v \in Servers : \E k \in 1..(Len(pool[v]) - keep[v]) : pool[v][k] = s}

ReadyClient(c) ==
  {[who |-> c, what |-> w] : w \in {p \in {client[c].poll} :
     \/ p = "in" /\ (client[c].wire # <<>> \/ client[c].gone # "no")
     \/ p = "out"
     \/ p = "err" /\ client[c].gone = "rst"}}

ReadySession(ses, s) ==
  {[who |-> s, what |-> w] : w \in {p \in {ses[s].poll} :
     \/ p = "in" /\ (ses[s].answers # <<>> \/ ses[s].link # "up")
     \/ p = "out"
     \/ p = "err" /\ ses[s].link = "rst"}}

(* A session is linked twice: it was pooled while it was in the pool. This *)
(* takes two clients that share one.                                       *)
Tangled ==
  \E v \in Servers : \E k \in DOMAIN pool[v] :
    \/ session[pool[v][k]].list # "pool"
    \/ \E j \in DOMAIN pool[v] : j # k /\ pool[v][j] = pool[v][k]

(* The walk over a list with a node that was linked twice comes back to it:*)
(* it is taken never to end.                                               *)
Turn ==
  /\ worker = "up" /\ batch = {} /\ ~Tangled
  /\ \E keep \in [Servers -> 0..Cardinality(Sessions)] :
       /\ \A v \in Servers : keep[v] <= Len(pool[v])
       /\ pool' = [v \in Servers |-> SubSeq(pool[v], Len(pool[v]) - keep[v] + 1, Len(pool[v]))]
       /\ session' = [s \in Sessions |-> IF s \in Expired(keep) THEN FreeSession ELSE session[s]]
  /\ batch' = (UNION {ReadyClient(c) : c \in Clients})
              \cup (UNION {ReadySession(session', s) : s \in Sessions})
              \cup (IF backlog > 0 THEN {[who |-> Listen, what |-> "in"]} ELSE {})
  /\ UNCHANGED <<client, list, backlog, worker, strayed>>

Worker == worker = "up" /\ (Handle \/ Turn) /\ UNCHANGED up
-----------------------------------------------------------------------------
(* Clients.  One waits for the answer to what it has sent.  As many connect*)
(* as there are addresses for.                                             *)
ClientConnects ==
  /\ worker = "up"
  /\ backlog < Cardinality({c \in Clients : client[c].status = "free"})
  /\ backlog' = backlog + 1
  /\ UNCHANGED <<client, session, pool, list, batch, worker, strayed, up>>

Sendable(status) ==
  CASE status = "auth" -> [do : {"auth", "bad_auth"}, to : {None}]
    [] status \in {"select", "forward"} ->
         {m \in Command : /\ m.do \in Commands
                          /\ m.do = "select" => list[m.to] # <<>>
                          /\ m.do = "query" => \A s \in Sessions : Unread(session[s]) <= MaxUnread}
    [] OTHER -> {}

Ended == strayed' = strayed \cup {"end"}

ClientSends(c) ==
  /\ client[c].gone = "no" /\ client[c].turn = "send"
  /\ \E m \in Sendable(client[c].status) :
       client' = [client EXCEPT ![c].wire = <<m>>, ![c].turn = "wait"]
  /\ UNCHANGED <<session, pool, list, batch, backlog, worker, strayed, up>>

(* A client closes its connection, or sends COM_QUIT first, without waiting*)
(* for the answer to what it has sent.  A COM_QUIT sent while the worker's *)
(* own answer is on its way is read after it, as one sent later.           *)
ClientLeaves(c) ==
  /\ Live(c) /\ client[c].gone = "no"
  /\ \E how \in {"fin", "rst"} \cup (IF client[c].status \in {"select", "forward"} THEN {"quit"} ELSE {}) :
       client' = [client EXCEPT ![c].gone = how,
                                ![c].wire = IF how = "rst" THEN <<>> ELSE @]
  /\ Ended /\ UNCHANGED <<session, pool, list, batch, backlog, worker, up>>

(* Servers.                                                                *)
ServerAnswers(s) ==
  /\ session[s].due # <<>> /\ session[s].link = "up"
  /\ LET d == Head(session[s].due) IN
     session' = [session EXCEPT
       ![s].answers = Append(@, Answer(d.of, d.left = 1)),
       ![s].due = IF d.left = 1 THEN Tail(@) ELSE <<[d EXCEPT !.left = @ - 1]>> \o Tail(@)]
  /\ UNCHANGED <<client, pool, list, batch, backlog, worker, strayed, up>>

(* An idle connection is closed by its server.                             *)
ServerCloses(s) ==
  /\ session[s].list # "free" /\ session[s].link = "up"
  /\ session' = [session EXCEPT ![s].link = "fin", ![s].due = <<>>]
  /\ Ended /\ UNCHANGED <<client, pool, list, batch, backlog, worker, up>>

Down(v, ses) ==
  [s \in Sessions |->
     IF ses[s].server = v THEN [ses[s] EXCEPT !.link = "rst", !.due = <<>>, !.answers = <<>>]
     ELSE ses[s]]

ServerFails(v) ==
  /\ v \in up \cap Failing
  /\ up' = up \ {v}
  /\ session' = Down(v, session)
  /\ Ended /\ UNCHANGED <<client, pool, list, batch, backlog, worker>>

ServerReturns(v) ==
  /\ v \notin up
  /\ up' = up \cup {v}
  /\ UNCHANGED worker_vars

Environment ==
  \/ ClientConnects
  \/ \E c \in Clients : ClientSends(c) \/ ClientLeaves(c)
  \/ \E s \in Sessions : ServerAnswers(s) \/ ServerCloses(s)
  \/ \E v \in Servers : ServerFails(v) \/ ServerReturns(v)

Next == Worker \/ Restart \/ ReloadConfig \/ Environment

Spec == Init /\ [][Next]_vars

(* The worker is a loop; a server that has not failed answers.             *)
Fairness ==
  /\ WF_vars(Worker)
  /\ \A s \in Sessions : WF_vars(ServerAnswers(s))

FairSpec == Spec /\ Fairness
-----------------------------------------------------------------------------
ClientRecords ==
  [status : Statuses, pair : Sessions \cup {None}, poll : Polls, buffer : Seq(Messages),
   wire : Seq(Command), turn : {"wait", "send"}, gone : {"no", "fin", "rst", "quit"},
   chosen : Instances \cup {None}]

SessionRecords ==
  [list : {"free", "work", "pool"}, server : Servers \cup {None}, owner : Clients \cup {None},
   poll : Polls, due : Seq([of : Clients \cup {None}, left : 1..Parts]),
   answers : Seq(Messages), link : {"up", "fin", "rst"}]

TypeOK ==
  /\ client \in [Clients -> ClientRecords]
  /\ session \in [Sessions -> SessionRecords]
  /\ pool \in [Servers -> Seq(Sessions)]
  /\ list \in [Instances -> Seq(Servers)]
  /\ batch \subseteq [who : Clients \cup Sessions \cup {Listen}, what : {"in", "out", "err"}]
  /\ backlog \in 0..Cardinality(Clients)
  /\ up \subseteq Servers
  /\ worker \in {"up", "dead"} /\ strayed \subseteq {"pair", "answer", "end"}

(* Every server session is either in work for exactly one client, and      *)
(* polled, or in the pool of its server, once, and not polled: nobody      *)
(* shares a connection and none is lost, until one has strayed.            *)
InWorkOrPooled ==
  "pair" \notin strayed =>
  \A s \in Sessions :
    LET users  == {c \in Clients : client[c].pair = s}
        places == UNION {{v} \X {k \in DOMAIN pool[v] : pool[v][k] = s} : v \in Servers}
    IN  /\ session[s].list = "work" =>
             (\E c \in Clients : users = {c}) /\ places = {} /\ session[s].poll # "none"
        /\ session[s].list = "pool" =>
             /\ users = {} /\ session[s].poll = "none"
             /\ \E k \in DOMAIN pool[session[s].server] : places = {<<session[s].server, k>>}
        /\ session[s].list = "free" => users = {} /\ places = {}

(* A client talks to a server of the group it selected last.               *)
RightGroup ==
  "pair" \notin strayed =>
  \A c \in Clients : client[c].pair # None =>
    InstanceOf(session[client[c].pair].server) = client[c].chosen

(* A client and its server session share one buffer, which is used in one  *)
(* direction at a time: what is written to the client is no request, and an*)
(* answer is for the client that asked; what is written to the server is   *)
(* just the request of its client.  The exception is a client that quits   *)
(* without waiting for its answer: its COM_QUIT is passed on behind its    *)
(* request, or behind a part of the answer that the server is sent back.   *)
HalfDuplex ==
  strayed \subseteq {"end"} =>
  \A c \in Clients :
    /\ client[c].poll = "out" =>
         /\ client[c].buffer # <<>>
         /\ \A k \in DOMAIN client[c].buffer :
              \/ client[c].buffer[k] = Own
              \/ client[c].buffer[k].kind = "answer" /\ client[c].buffer[k].of = c
    /\ client[c].pair # None /\ session[client[c].pair].poll = "out" =>
         \/ client[c].buffer = <<Query(c)>>
         \/ client[c].gone # "no" /\ client[c].buffer # <<>>
            /\ client[c].buffer[Len(client[c].buffer)] = Quit

(* A session points to a server that the lists of the worker still hold:   *)
(* no reload leaves a session behind whose server is gone.                 *)
InList ==
  \A s \in Sessions : session[s].list # "free" =>
    session[s].server \in Listed(list[InstanceOf(session[s].server)])

(* As long as no client and no server has ended a connection and a server  *)
(* could always be reached, the worker does not die of a pointer or of     *)
(* epoll_ctl, whatever clients select and in whatever order events come.   *)
CalmLives == worker = "dead" => strayed # {}

(* A client that waits is answered, or it, the worker or the server ends.  *)
Answered ==
  \A c \in Clients :
    (Live(c) /\ client[c].turn = "wait")
      ~> (~Live(c) \/ client[c].turn = "send" \/ client[c].gone # "no" \/ "pair" \in strayed)

(* A client that is gone is noticed, and its session is freed.             *)
Noticed ==
  \A c \in Clients :
    (Live(c) /\ client[c].gone # "no") ~> (~Live(c) \/ client[c].gone = "no" \/ "pair" \in strayed)

(* A client that was answered OK has a server session.                     *)
SelectedIsBridged ==
  \A c \in Clients : client[c].status \in {"selected", "forward"} => client[c].pair # None

(* The server session of a client points back to it.                       *)
Bridged ==
  \A c \in Clients : client[c].pair # None => session[client[c].pair].owner = c
=============================================================================
