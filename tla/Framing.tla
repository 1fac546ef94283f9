------------------------------ MODULE Framing ------------------------------
(***************************************************************************)
(* The one buffer of a bridge (comm_buffer, fill_len, process_len,         *)
(* comm_body_len in comm.c), through which the requests of a client and    *)
(* the answers of its server pass, packet by packet but received and sent  *)
(* in whatever pieces the sockets take.                                    *)
(*                                                                         *)
(* One client session in the status "forwarding" and its server session;   *)
(* Sessions models how they come together and what happens when they part. *)
(* A packet is a header of four bytes, which holds the length of the body, *)
(* and the body.  Bytes are cells that remember where they come from.  What*)
(* the buffer holds behind fill_len is left there by earlier messages.     *)
(*                                                                         *)
(* The code takes four things for granted; Network names those that do not *)
(* hold:                                                                   *)
(*   "split"  one recv() may return a whole packet and a part of the next; *)
(*   "short"  one send() to the server may take a part of a packet;        *)
(*   "bare"   one recv() from the client may end just behind a header;     *)
(*   "mute"   a request may have no answer, as COM_STMT_CLOSE.             *)
(***************************************************************************)
EXTENDS Naturals, Sequences

CONSTANTS
  MaxBody,       \* longest body of a packet
  MaxPackets,    \* bound: packets each side sends
  Network

ASSUME FramingAssumption ==
  /\ MaxBody \in Nat \ {0} /\ MaxPackets \in Nat
  /\ Network \subseteq {"split", "short", "bare", "mute"}

VARIABLES
  said,          \* what each side has sent
  heard,         \* how much of it has been received
  got,           \* what each side has got
  turn,          \* the side that has to send, for a request and its answer
  buffer,        \* comm_buffer
  fill,          \* fill_len
  process,       \* process_len
  body,          \* comm_body_len
  poll,          \* what epoll waits for on the socket of each side
  loop,          \* the side to which a handler is sending packet after packet
  session        \* "open", "closed", or "lost": the worker has crashed

peers  == <<said, turn>>
frame  == <<buffer, fill, process, body>>
proxy  == <<heard, got, frame, poll, loop, session>>
vars   == <<peers, proxy>>

Sides    == {"client", "server"}
Other(d) == IF d = "client" THEN "server" ELSE "client"

Header == 4

(* Mutant: no room for the whole of the longest packet.                    *)
SizeOfBody == Header + MaxBody - 1

(* MAXLEN_ACCEPTED_SESSION_COMM_BUFFER: 3+1+(2<<24)                        *)
Size == Header + 2 * (MaxBody + 1)

(* of: its sender; no: its number; len: of its body; one: its body begins  *)
(* with 0x01, which in a request is COM_QUIT.                              *)
Packets == [of : Sides, no : Nat, len : 1..MaxBody, one : BOOLEAN]
Stale   == [of |-> "none", no |-> 0, len |-> 1, one |-> FALSE, at |-> 0]
Cells   == [of : Sides \cup {"none"}, no : Nat, len : 1..MaxBody, one : BOOLEAN,
            at : 0..(Header + MaxBody)]

Cell(p, k) == [of |-> p.of, no |-> p.no, len |-> p.len, one |-> p.one, at |-> k]
Bytes(p)   == [k \in 1..(Header + p.len) |-> Cell(p, k)]

Init ==
  /\ said = [d \in Sides |-> <<>>] /\ heard = [d \in Sides |-> 0]
  /\ got = [d \in Sides |-> <<>>]
  /\ turn = "client"
  /\ buffer = [k \in 1..Size |-> Stale]
  /\ fill = 0 /\ process = 0 /\ body = 0
  /\ poll = [d \in Sides |-> "in"]
  /\ loop = "none" /\ session = "open"
-----------------------------------------------------------------------------
(* MYSQL_COMMLEN of the first bytes, and whether the fifth is 0x01.  When  *)
(* they are not those of one packet, the outcome can be anything.          *)
Lengths(b) ==
  IF b[1].at = 1 /\ \A k \in 2..3 : b[k] = [b[1] EXCEPT !.at = k]
  THEN {b[1].len}
  ELSE 0..MaxBody

Ones(b) == IF b[5].at = 5 THEN {b[5].one} ELSE BOOLEAN

(* recv(): n bytes of side d are put behind what the buffer holds.         *)
Filled(d, n) ==
  [k \in 1..Size |-> IF k \in (fill + 1)..(fill + n) THEN said[d][heard[d] + k - fill] ELSE buffer[k]]

Received(d, n) ==
  /\ n \in 1..(Len(said[d]) - heard[d]) /\ n <= Size - fill
  /\ heard' = [heard EXCEPT ![d] = @ + n]
  /\ fill' = fill + n /\ process' = 0

(* comm_body_len is set once the header is there.                          *)
Measures(n) == fill + n >= Header /\ body = 0

(* Mutant: the length of the packet in place of that of its body.          *)
MeasuredAll(n, b) == body' \in IF Measures(n) THEN {Header + l : l \in Lengths(b)} ELSE {body}

Measured(n, b) == body' \in IF Measures(n) THEN Lengths(b) ELSE {body}

(* The last byte received ends a packet, or is a part of the first.        *)
Unsplit(n, b) ==
  LET last == b[fill + n]
  IN  "split" \in Network \/ fill + n < Header + body' \/ last.at = Header + last.len

Complete == body' > 0 /\ fill' >= Header + body'
-----------------------------------------------------------------------------
Handling(d, event) == session = "open" /\ loop = "none" /\ poll[d] = event

Close == session' = "closed" /\ loop' = "none"

(* Mutant: the byte is tested only if it comes together with the header.   *)
QuitsAtOnce(n, b) == fill = 0 /\ Measures(n) /\ TRUE \in Ones(b)

(* COM_QUIT is recognized when the header has come.                        *)
Quits(n, b) == Measures(n) /\ TRUE \in Ones(b)

(* OnReceivingAcceptedSocket in the status "forwarding".  A zero is written*)
(* behind what was received before a complete request is handled.          *)
ReceiveRequest(n) ==
  LET b == Filled("client", n) IN
  /\ Handling("client", "in")
  /\ Received("client", n)
  /\ "bare" \in Network \/ ~(Measures(n) /\ fill + n = Header)
  /\ Measured(n, b) /\ Unsplit(n, b)
  /\ \/ /\ Quits(n, b) /\ Close
        /\ buffer' = b /\ UNCHANGED poll
     \/ /\ ~Quits(n, b) \/ FALSE \in Ones(b)
        /\ Complete
        /\ buffer' = [b EXCEPT ![fill + n + 1] = Stale]
        /\ poll' = [client |-> "err", server |-> "out"]
        /\ UNCHANGED <<loop, session>>
     \/ /\ ~Quits(n, b) \/ FALSE \in Ones(b)
        /\ ~Complete
        /\ buffer' = b /\ UNCHANGED <<poll, loop, session>>
  /\ UNCHANGED <<peers, got>>

(* OnReceivingForwardSocket                                                *)
ReceiveAnswer(n) ==
  LET b == Filled("server", n) IN
  /\ Handling("server", "in")
  /\ Received("server", n)
  /\ Measured(n, b) /\ Unsplit(n, b)
  /\ buffer' = b
  /\ poll' = IF Complete THEN [client |-> "out", server |-> "err"] ELSE poll
  /\ UNCHANGED <<peers, got, loop, session>>
-----------------------------------------------------------------------------
(* Where a handler that sends to d is to go on: it has the event, or it has*)
(* jumped back to its send().                                              *)
Sending(d) == Handling(d, "out") \/ (session = "open" /\ loop = d)

Unsent == Header + body - process

(* send(): n bytes from process_len on are taken.                          *)
Sent(d, n) ==
  /\ n \in 1..Unsent
  /\ got' = [got EXCEPT ![d] = @ \o [k \in 1..n |-> buffer[process + k]]]

(* Mutants: comm_body_len stays; nothing is moved.                         *)
ClearedButBody == fill' = 0 /\ process' = 0 /\ UNCHANGED <<buffer, body>>
Unshifted(n)   == buffer

Cleared == fill' = 0 /\ process' = 0 /\ body' = 0 /\ UNCHANGED buffer

(* memmove() of what is behind the first n bytes to the front.             *)
Shifted(n) == [k \in 1..Size |-> IF k <= fill - n THEN buffer[k + n] ELSE buffer[k]]

(* What is left is taken for the next packet; when nothing is left to move,*)
(* its length is negative and the worker crashes.                          *)
Again(d, n) ==
  IF n < fill
  THEN /\ buffer' = Shifted(n) /\ fill' = fill - n /\ process' = 0
       /\ body' \in Lengths(Shifted(n))
       /\ loop' = d /\ UNCHANGED session
  ELSE session' = "lost" /\ loop' = "none" /\ UNCHANGED frame

(* Mutant: the server is not read again.                                   *)
Silent == [client |-> "in", server |-> "err"]

(* OnSendingAcceptedSocket in the status "forwarding", one send() of it.   *)
BothRead == [client |-> "in", server |-> "in"]

SendAnswer(n) ==
  /\ Sending("client")
  /\ Sent("client", n)
  /\ \/ /\ n < Unsent
        /\ process' = process + n /\ loop' = "none"
        /\ UNCHANGED <<buffer, fill, body, poll, session>>
     \/ /\ n = Unsent /\ process + n = fill
        /\ Cleared /\ poll' = BothRead
        /\ loop' = "none" /\ UNCHANGED session
     \/ /\ n = Unsent /\ process + n # fill
        /\ Again("client", process + n) /\ UNCHANGED poll
  /\ UNCHANGED <<peers, heard>>

(* OnSendingForwardSocket, one send() of it.                               *)
SendRequest(n) ==
  /\ Sending("server")
  /\ Sent("server", n)
  /\ "short" \in Network \/ n = Unsent
  /\ \/ /\ process + n = fill
        /\ Cleared /\ poll' = [poll EXCEPT !["server"] = "in"]
        /\ loop' = "none" /\ UNCHANGED session
     \/ /\ process + n # fill
        /\ Again("server", process + n) /\ UNCHANGED poll
  /\ UNCHANGED <<peers, heard>>

(* send() fails, because the peer has gone or the socket takes no more.    *)
SendFails(d) ==
  /\ Sending(d)
  /\ Close
  /\ UNCHANGED <<peers, heard, got, frame, poll>>

Proxy ==
  \/ \E n \in 1..Size :
       ReceiveRequest(n) \/ ReceiveAnswer(n) \/ SendAnswer(n) \/ SendRequest(n)
  \/ \E d \in Sides : SendFails(d)
-----------------------------------------------------------------------------
(* The peers.  A client sends a request, or COM_QUIT, when it has all of   *)
(* the answer to the one before; a server answers a request it has all of. *)
(* The last packet of an answer (EOF, OK, ERR) does not begin with 0x01.   *)
Sends(d, len, one) ==
  LET no == IF said[d] = <<>> THEN 1 ELSE said[d][Len(said[d])].no + 1 IN
  /\ no <= MaxPackets
  /\ said' = [said EXCEPT ![d] = @ \o Bytes([of |-> d, no |-> no, len |-> len, one |-> one])]

Answered(d) == got[d] = said[Other(d)]

ClientAsks ==
  /\ session = "open" /\ turn = "client" /\ Answered("client")
  /\ \/ /\ \E len \in 1..MaxBody : Sends("client", len, FALSE)
        /\ turn' \in {"server"} \cup {d \in {"client"} : "mute" \in Network}
     \/ Sends("client", 1, TRUE) /\ turn' = "none"
  /\ UNCHANGED proxy

ServerAnswers ==
  /\ session = "open" /\ turn = "server" /\ Answered("server")
  /\ \/ \E len \in 1..MaxBody, one \in BOOLEAN : Sends("server", len, one) /\ UNCHANGED turn
     \/ \E len \in 1..MaxBody : Sends("server", len, FALSE) /\ turn' = "client"
  /\ UNCHANGED proxy

Next == Proxy \/ ClientAsks \/ ServerAnswers

Spec == Init /\ [][Next]_vars

(* The worker handles what epoll reports.                                  *)
FairSpec == Spec /\ WF_vars(Proxy)
-----------------------------------------------------------------------------
TypeOK ==
  /\ said \in [Sides -> Seq(Cells)] /\ got \in [Sides -> Seq(Cells)]
  /\ heard \in [Sides -> Nat]
  /\ turn \in Sides \cup {"none"}
  /\ buffer \in [1..Size -> Cells]
  /\ fill \in 0..Size /\ process \in 0..Size /\ body \in 0..MaxBody
  /\ poll \in [Sides -> {"in", "out", "err"}]
  /\ loop \in Sides \cup {"none"} /\ session \in {"open", "closed", "lost"}

(* In whatever pieces requests and answers are received and sent, as far as*)
(* Network breaks none of the four assumptions, each side gets what the    *)
(* other has sent, in order and nothing else, as README 2.1 promises of the*)
(* bridge.                                                                 *)
Requests == INSTANCE Relay WITH said <- said["client"], got <- got["server"]
Answers  == INSTANCE Relay WITH said <- said["server"], got <- got["client"]

Relays == Requests!Spec /\ Answers!Spec

(* What is sent was received: no handler sends beyond fill_len, and no     *)
(* memmove() has a negative length.                                        *)
NoOverrun ==
  /\ session # "lost"
  /\ session = "open" /\ (loop # "none" \/ \E d \in Sides : poll[d] = "out") =>
       Header + body <= fill

(* recv() is never called with no room left, which would be taken for the  *)
(* end of the connection.  (The zero written behind a request that fills   *)
(* the buffer, comm.c:120, is beyond it: that such a request does not come *)
(* follows from the bound on its length, which this does not speak of.)    *)
RoomLeft == \A d \in Sides : Handling(d, "in") => fill < Size

(* COM_QUIT is for the worker: a server that got it would close a          *)
(* connection that is meant for the pool.                                  *)
QuitStays == \A k \in DOMAIN got["server"] : got["server"][k].at = 5 => ~got["server"][k].one

(* All that a side has sent arrives, or the session is closed.             *)
Arrives ==
  \A d \in Sides :
    (Len(got[d]) < Len(said[Other(d)])) ~> (got[d] = said[Other(d)] \/ session # "open")

(* Each side gets a prefix of what the other has sent (for a run whose     *)
(* network may break the trust above).                                     *)
InOrder ==
  /\ Requests!Extends(said["client"], got["server"])
  /\ Answers!Extends(said["server"], got["client"])
=============================================================================
