# A verification project for mysqlda

mysqlda is a proxy that stands between application servers and a set of MySQL
groups. A client logs in, names the *core business object* ("library") it works
for, and is bridged to the one MySQL group that owns that library. The owner is
chosen once, by a weighted hash, and kept for ever. This directory holds TLA+
models of the program, TLC configurations that check them on small instances, and
proofs that hold for every value of the constants. Paths below are relative to
the repository (`src/src/mysqlda` is shortened to the file name).

## 1. Inventory

| Part | State | Operations | How it meets the others |
|---|---|---|---|
| **Weight table** (`config.c`, `mysqlda_in.h` 132-143, 208-210) | per group `power` and `serial_range_begin`; `total_power`; two trees over the groups | `LoadConfig`, `ReloadConfig`, `IncreaseForwardInstanceTreeNodePower` | read by the range query, changed by every new library, replay and reload |
| **Range query** (`rbtree_ins.c` 20-38) | none of its own | `QueryForwardSerialRangeTreeNode` | called by `SelectDatabaseLibrary`, which dereferences what it returns |
| **Routing rules** (`app.c` 349-676) | library tree, correlated-object trees | `SelectDatabaseLibrary`, `SetDatabaseCorrelObject`, `SelectDatabaseLibraryByCorrelObject` | called for the extended SQL a client sends (`comm.c` 145-272); append to the save files |
| **Save files** (`etc/mysqlda.save`, `etc/mysqlda.<class>.save`) | one record per library, one per correlated object | six `write()` per record (`app.c` 420-425, 611-616); `fscanf` of words (`config.c` 221, 310) | what a worker has written, the next one must load |
| **Monitor** (`monitor.c`) | two flags set by signal handlers, the write end of the alive pipe | fork, `waitpid`, close or write the pipe, start over | forks the worker; is signalled by the operator (`shbin/mysqlda.sh`) |
| **Worker as a process** (`worker.c` 601-626, 402-424, 337-357) | the configuration it has read, the read end of the pipe | load, serve, reload on `'R'`, end on EOF | replaced by the monitor when it ends |
| **Sessions and event loop** (`comm.c`, `worker.c` 337-578, `app.c` 271-347, 450-480) | client sessions with a status, server sessions in use or pooled, their pairing | accept, receive, send, close on either side; choose a server; expire pooled connections | calls the routing rules; one epoll batch may hold events of sessions that an earlier event of it has freed |
| **Framing** (`comm.c` 81-120, 290-380, 417-507) | `comm_buffer`, `fill_len`, `process_len`, `comm_body_len` | partial reads and writes in both directions | one buffer shared by the two sockets of a pair |
| **Server lists** (`config.c` 163-183, 429-484, 507-529) | ordered servers of a group | added and removed by a reload | sessions point into them |
| **Handshake, authentication** (`app.c` 1-268, `worker.c` 1-184) | canned messages, a random scramble | format, check | drive the status of a session |
| **Program start, helpers, vendored code** | - | option parsing, daemonising, hash, logging, JSON, trees, lists | - |

The worker is one thread around `epoll_wait`: a handler runs to its end before the
next begins. What makes the code hard is therefore not threads but

* **restarts**: every worker rebuilds tables and trees from files that the
  one before it wrote, possibly only in part;
* **history**: weights depend on the whole sequence of libraries, replays and
  reloads, and arithmetic mixes `int` and `unsigned long`;
* **partial failure**: a handler has changed half of its state when `open()`
  or a connection fails;
* **signals**: the monitor's handlers run between any two of its steps;
* **stale pointers**: a batch of `epoll_wait` may hold events of sessions that an
  earlier event of it has freed, and a pooled session points to the client it
  served before;
* **pieces**: a socket takes and returns as many bytes as it likes, and one buffer
  with three lengths serves both directions of a bridge.

What makes each part correct:

* weight table and query: the ranges tile `0..total-1`, so that each hash has
  exactly one holder; a group weighs more the fewer libraries it has;
* rules and files: an owner never changes, what was answered is on disk, what is
  on disk can be loaded, memory and disk agree between requests;
* monitor and worker: never two workers, a worker that ended is replaced, stop
  and reload requests reach the worker, a worker never outlives its monitor;
* sessions: no two clients share a server connection and none is lost, a client
  talks to the group it selected, the buffer of a bridge is used in one direction
  at a time, a client that waits is answered or closed, one that left is freed, a
  session never points to a server that a reload took away;
* framing: each side of a bridge gets the bytes the other has sent, all of them, in
  order, and nothing else, however they are cut.

The list of hazards, each with its line, is in `PROJECT.json`.

## 2. Modules

| Module | What it is |
|---|---|
| `SerialRanges` | the arithmetic of the weight table as operators: powers, begins, total, who holds a number, what it means to tile. No state; widths are the constants `IntHalf` (2^31) and `LongMod` (2^64) |
| `SaveFile` | a save file as a sequence of complete records and the state of its tail; appending a record, and the files a kill can leave |
| `StickyRouting` | abstract: the first answer for a key fixes its target |
| `ForwardRules` | the worker's routing state, the files, and every step that changes them |
| `MCForwardRules` | instances of `ForwardRules` |
| `RangeSearch`, `MCRangeSearch` | the walk down the serial-range tree, for every tree shape |
| `Supervision` | abstract: the service is down, up or stopped for good, and does not come up on a file that is not accepted |
| `Monitor` | monitor, worker, alive pipe, signals |
| `Sessions`, `MCSessions` | clients, servers, their sessions, the pools, the server lists and the batches of the event loop |
| `Relay` | abstract: one direction of a bridge; the receiver gets a growing prefix of what was sent |
| `Framing` | the buffer of a bridge and its lengths, byte by byte, both directions |
| `SerialRanges_proofs`, `ForwardRules_proofs`, `RangeSearch_proofs`, `Monitor_proofs`, `Framing_proofs` | theorems |
| `Sessions_proofs`, `Sessions_pairs_proofs`, `Sessions_turns_proofs` | theorems about `Sessions`, each module on the invariant of the one before: types and pointers, who uses a connection, whose turn it is |

Definitions called mutants stand before the definition they distort. No
specification uses them: each is the model of a plausible bug, kept to show that a
property notices it.

### ForwardRules and the code

`phase` says what the worker does: `down` (no worker), `replay` (in
`LoadConfig`), `up` (in the event loop), `reload` (in `ReloadConfig`). `groups`,
`power` and `begin` are the serial-range tree in order; `library` is the library
tree; `bound` holds the object trees of all classes; `damaged` remembers a node
that was freed while linked; `save`, `csave` and `conf` are the files. `routed`,
`acked`, `served`, `base` and `kills` are history.

| Action | Code |
|---|---|
| `StartWorker` | `LoadConfig`, groups with one unit of weight each (`config.c` 141-203) |
| `ReplayRecord`, `RejectRecord` | one turn of the loop over the library file (217-254), with its two failing exits |
| `FinishLoad`, `RejectFiles` | the class files (261-359) and the end of either file |
| `SelectKnown`, `SelectNew`, `SelectNewOpenFails` | `SelectDatabaseLibrary`: found; new; `open()` failed after the weights moved |
| `SelectNewNull`, `SelectByZero` | its two crashes: the query yields no group, and half a record is written before `strlen()` of the group's name (`app.c` 374-424); the remainder by a total of zero (375-378) |
| `SetCorrel`, `SetCorrelOpenFails`, `SetCorrelAgain` | `SetDatabaseCorrelObject` by what it finds; all of them answer OK |
| `SelectByCorrel` | `SelectDatabaseLibraryByCorrelObject` |
| `BeginReload`, `ReloadKnownGroup`, `ReloadNewGroup`, `ReloadFails`, `EndReload` | `ReloadConfig`, one entry of the file per step; it may stop at the entry of a new group (500-505, 540-547), which leaves what was merged before. A new group goes where its begin puts it in the tree (`LinkPlaces`, `rbtree_tpl.h` 63-88), which is the last place as long as the total fits an `int` |
| `Kill`, `KillInSelect`, `KillInSet` | death between handlers, and between two `write()` of a record |
| `EditConf` | the operator; groups are only added (`README.zh-CN.md` 459: groups are as a rule not taken out once rules were saved) |

A handler is one action, because nothing but the death of the process can
interrupt it. Requests that fail before they change anything (unknown object,
unknown library, names too long) leave no trace here and are not actions.
`SelectMysqlServer` is modelled in `Sessions`; here, that it may find no server is
the choice in `Bridges`.

**The save file.** A record is six `write()` calls; the reader is
`fscanf("%*s%*s%s%s\n")`, which counts words and ignores line ends. A file is
thus its complete records and one of four tails: `clean`, `noeol` (only the
newline is missing), `torn`, and `garbled` (text was appended behind a torn or
unfinished record, so words no longer pair up and the reader takes a date or a
time for a name, which the load rejects). Names are taken to hold no white space
(requests are split at white space, `comm.c` 154-203) and not to look like dates
or times.

**The damaged tree.** `app.c` 412 frees a node that the tree still links. The
allocator writes its list pointers over the first bytes of the node, the name. So
the node is not found by name, and with other nodes around it the walk may turn
the wrong way: `Found` lets a query miss a library of a damaged tree. A chunk that is
given out again may also cut off a part of the tree, which is to miss it from then on, or
make a link fail, which changes nothing. Other outcomes of the use after free (a crash) are those of `Kill`.

**RangeSearch.** In-order, the nodes are the groups; a subtree is a run `lo..hi`,
and any of its nodes may be its root. Choosing the root freely at every step
covers all trees the balancing can build, so the vendored tree code needs no
model.

### Monitor and the code

`at` is the place of the monitor in its loop (`loop` = line 44, `pipe` = 48,
`fork` = 59, `enter` = about to call `waitpid`, `wait` = blocked in it, `closing`
and `writing` = the two tests after `EINTR`, `sleep` = 102). `Terminate` and
`RequestReload` are the signal handlers; they may run at any place and make a
blocked `waitpid` return `EINTR` unless a dead worker is there to be returned
(`Interrupt`). `writers` is the set of processes that hold the write end of the
pipe, so that `{}` is its end of file. `Die` is every end of a worker that was
not asked for. The bytes of a pipe die with it (`MakePipe`).

`conf` is the version of the configuration file, `Broken` the versions that are not
accepted: a worker that starts with one ends (`RejectConfig`, `worker.c` 610-615) and
is started again, one that is asked to reload logs it and goes on with what it has
(`ReadReload`, 410-414).

`Supervised` maps this to `Supervision`: `up` when a worker serves, `stopped`
when the monitor has ended and no worker is left, `down` otherwise; `broken` while the
file is not accepted, when the service cannot come up.

### Sessions and the code

`client` is a record per client session: its status, its pair, what epoll waits
for on it, the buffer of the bridge, and what the client outside does (what it has
sent, whether it waits, whether and how it closed). `session` is the same for
server sessions, with the pointer back to a client (`owner`), the list it is in, and
what the server outside does. `pool` is `unused_forward_session_list` of every
server, `list` the `forward_server_list` of every group, `batch` the events of the
last `epoll_wait` that were not handled yet.

| Action | Code |
|---|---|
| `OnAccepting` | `OnAcceptingSocket`, all connections of the backlog |
| `OnReceivingAccepted` = `ReceiveEnd`, `ReceiveAuth`, `ReceiveLocal`, `ReceiveSelect`, `ReceiveRequest` | `OnReceivingAcceptedSocket` by what has come: nothing, the login, a command the worker answers itself, `select`, a request for the server |
| `OnSendingAccepted` = `SendFails`, `SendBeforeForward`, `SendForward` | `OnSendingAcceptedSocket` by status |
| `OnReceivingForward`, `OnSendingForward` | `OnReceivingForwardSocket`, `OnSendingForwardSocket` |
| `CloseClient`, `CloseSession` | `OnClosingAcceptedSocket`, `OnClosingForwardSocket`, as parts of the handlers that call them |
| `SelectDatabaseLibrary`, `SelectMysqlServer` (`TakePooled`, `Connect`, `SelectNone`) | a pair of another group goes to the pool, then the first server that has a pooled connection or accepts one |
| `AcceptedError`, `ForwardError`, `AcceptedGone`, `ForwardGone` | the error branch of the event loop; events whose session, or whose client, is no more: the worker dies of them, or (`Outlived`) every call on the freed memory fails and is ignored (`worker.c` 447, 504) |
| `Turn` | the end of the loop: pooled connections expire, `epoll_wait` |
| `Restart` | the monitor starts a worker (`Monitor`), which reads the file and goes on only if it can connect to the first server of every group (`worker.c` 293-335) |
| `ReloadConfig` (`Merged`) | `config.c` 424-551, an event of the batch: new servers are appended, none is taken out (439), a reload that fails has read some of the groups |

*Addresses.* A member of `Clients` or `Sessions` is an address. `malloc` may return
an address that was freed, so the pointer in an old event or in a pooled session
may be NULL, dangling, or point to a stranger; all three are states of the model. A
handler that follows a pointer to nothing, and one whose `epoll_ctl` fails because
the socket is not in the set, ends the worker (`Dies`).

*COM_QUIT.* A client that quits (`gone` = `"quit"`) has put a `COM_QUIT` behind what else it
has sent. The code looks for it only at the head of an empty buffer (`comm.c` 100-105).
Read there, it closes the session (`ReceiveEnd`). Read behind a request, or when an event of
the server earlier in the batch has put a part of an answer into the buffer, it is
passed to the server with all that is before it (`Read`, `ReceiveRequest`); behind
the name of a library it becomes a part of that name (`Understood`). A server closes a
connection on which it hears anything but one request, with or without a `COM_QUIT`
(`Sensible`).

*A list linked to itself.* A session that is pooled while it is in the pool already is
linked twice, and a walk over that list comes back to it. `Tangled` is that state; the
turn of the loop, which walks over the pools (`worker.c` 561-575), is taken never to end
in it. It takes two clients that share a session, so that it lies behind `"pair"` below.

*What is history.* `strayed` records that a server session acted for, or was given
to, a client that is not its own (`"pair"`), that a client was given a
connection that still owes an answer to another (`"answer"`), and that a client or a
server ended a connection or no server could be reached (`"end"`). The first two do
happen (`not_bridged`; and the hazard at `comm.c` 401 in `PROJECT.json`). The safety
properties speak of the time before them. This is a real limit of what they show: once
the first pooled connection was used by a second client, the code promises nothing.
`CalmLives` speaks of the time before all three (a `COM_QUIT` is such an end): until then no order of events, no
change of groups and no expiry makes the worker follow a pointer to nothing. After an
`"end"` it may, because closing one session of a pair frees the other, whose event
may wait in the same batch (`worker.c` 364).

*What is abstracted.* Messages are sent and received as a whole (`Framing` has
their parts). A request has an answer. A select names the group,
which `ForwardRules` finds for the library. The connections a server grants are the
members of `Sessions`. A server closes idle connections, fails with all its
connections, and returns. Clients behave as clients of the protocol do: they wait
for the answer to what they sent, and leave whenever they like.

### Framing and the code

One bridge in the status *forwarding*. `buffer`, `fill`, `process` and `body` are
`comm_buffer`, `fill_len`, `process_len` and `comm_body_len`; `poll` is what epoll waits
for on either socket; `loop` says that a handler has jumped back to its `send()`.
`said`, `heard` and `got` are what a side has sent, how much of it was received, and
what the other side was given. A byte is a cell that says which packet it comes
from and where it stood in it, so that a lost, repeated or foreign byte shows; a
length read from bytes that are not the header of one packet can be anything.

| Action | Code |
|---|---|
| `ReceiveRequest(n)` | `OnReceivingAcceptedSocket` (`comm.c` 80-120, 273-286): `recv` of `n` bytes, the length, `COM_QUIT`, the hand-over when a packet is complete |
| `ReceiveAnswer(n)` | `OnReceivingForwardSocket` (424-461) |
| `SendAnswer(n)` | one `send()` of `OnSendingAcceptedSocket` (297-379): a part of a packet; the last of the buffer; a packet with another behind it (`Again`) |
| `SendRequest(n)` | one `send()` of `OnSendingForwardSocket` (472-506), which tests for the end of the buffer only |
| `SendFails(d)` | `send()` returns -1, and the session is closed |
| `ClientAsks`, `ServerAnswers` | the peers: a packet each, one of several of an answer, or `COM_QUIT`, each when it has all of what the other has sent (`Sessions` has the `COM_QUIT` in the middle of an answer) |

The code takes four things for granted, which the constant `Network` can take away one
by one: a `recv()` that returns more than the first packet ends at the end of a
packet (`"split"`), a `send()` to the server takes all (`"short"`), a `recv()` does not
end right behind the header of a request (`"bare"`), every request has an answer
(`"mute"`). The passing run grants all four; section 5 says what happens without. A
packet of 16 MB or more, which the protocol continues in another, is left out.

`Relays` is the refinement: with `said` and `got` of either direction, `Framing`
implements `Relay`.

## 3. Runs

| Run | Question | Bounds |
|---|---|---|
| `weights` | Do the ranges tile, does every hash have one holder, does an object stay, whatever of the files fails? | 2 libraries, 1 object, 2 groups then 3, total weight up to 8, 1 death; opens that fail, kills inside a record |
| `rules` | Do memory and files agree, is what was bridged saved, can what was written be loaded, does an object stay, does a restarted worker serve again? | 2 libraries, 2 objects of one class, 2 groups then 3, 2 deaths; weights do not wrap |
| `overflow` | Do the weights count the libraries of the other groups, does a library or an object ever move, also when weights wrap and queries yield no group? | 3 libraries, 1 object, 2 groups then 3, 2 deaths, kills inside a record; `IntHalf` = 4, `LongMod` = 16 |
| `range_search` | Does the walk end, and find the holder on every sound table? | all tables of up to 4 groups with weights 1..4, all tree shapes, all numbers; `IntHalf` = 12, so that the heaviest wrap |
| `monitor` | One worker at a time, none orphaned, stop and reload heard, service supervised | 2 edits, the first of which leaves a file that is not accepted, 2 reload requests, 2 unasked deaths; stop and kill at any time |
| `sessions` | Does a server connection serve one client, in the group it selected? Is the buffer used in one direction at a time? Does the worker live as long as nobody ends a connection? | 2 clients, 2 groups of one server, 2 connections, each of which a server may close; events of a batch in any order |
| `session_turns` | Is a waiting client answered or closed, one that left freed? Does a session's server stay in the list, and is the buffer used in one direction between the parts of an answer, too? | 1 address for clients, 1 group whose file lists 1 or 2 servers, the first of which may fail, 2 connections, answers in 2 parts |
| `framing` | Does each side get what the other has sent, and all of it? Does the buffer overrun or fill up, does `COM_QUIT` reach a server? | 3 packets each way with bodies of 1 or 2 bytes, cut everywhere |
| `cut_restart`, `no_server`, `not_bridged`, `split_answer` | each shows one disagreement of code and documentation, section 5 | as small as shows it |

Why the bounds are enough. Three groups give a first, an inner and a last range
and both cases of the rebuild (the chosen group, the others), and the reload that adds
the third doubles the total after libraries were assigned. Two libraries are the least
that share or do not share a group and that a class file can confuse; two objects
the least that share a file. A second death lets a worker fail on what its predecessor
left behind a load. `MaxPower` bounds the total weight: in `weights` a failing `open()`
could repeat for ever and the bound stops it; in the other runs it is never reached. It is
less than `IntHalf` in `weights` and `rules`, so that nothing wraps there.
`overflow` is where the accumulator wraps: with `IntHalf` = 4 the second library or the
third group does it, totals and begins become numbers near `LongMod`, tables have gaps
and groups out of order, a query yields no group and leaves half a record behind, and
a reload fails. Larger instances of `weights` (three libraries, groups in other orders,
more deaths) have more states than a run can visit; the theorems of section 4 hold for all. In `monitor` the second reload and the second death meet the state the
first left behind (the flag that is never cleared, the pipe of the worker before); the
second version of the file is not accepted, the third is.
In `sessions` two clients are the least that can share, and two groups the least
that make a client change its server; with one address for clients
(`session_turns`) every client that comes meets what the one before left in pools,
batches and pointers. `MaxUnread` = 0 keeps a client from sending a request while an answer
to an earlier one is unread; a client that has left may have left one. Two parts of an
answer are the least for which both sides can be readable between them. `sessions` does
not go on from a state in which a session has strayed (`Kept`), since its properties say
nothing of what follows; it uses symmetry of addresses, which nothing orders or tells
apart, and of the two groups, each with its server. `session_turns` uses neither, because
it checks liveness; its file with one server or two lets a reload add the second while
sessions use the first, take it out while sessions use it, and lets a worker start from
either. In `framing`, two
lengths of bodies are the least for which a length left over from one packet is wrong
for the next, three packets the least that put a packet in front of, behind and
between others in one buffer; its size follows from the length of a body as in the
code.

Deadlock is checked except in `range_search`, where the function returns, in `monitor`,
where the service may end, and in `framing` and `split_answer`, where the bridge may be
closed and the packets are bounded.

Fairness. `ForwardRules!FairSpec`: the monitor starts a worker again (shown in
`Monitor`), and a started worker goes on loading and reloading; nothing is asked
of clients, operator or faults. `RangeSearch!FairSpec`: the function runs.
`Monitor!FairSpec`: the scheduler runs both processes; signals, deaths, edits
never have to happen. `Sessions!FairSpec`: the worker is a loop that does not stop by
itself, and a server that has not failed answers what it was sent; clients never
have to act, no server has to come back, the monitor does not have to restart the
worker. `Framing!FairSpec`: the worker handles what epoll reports; peers never have to
send. No strong fairness is used.

## 4. What is proved

By TLAPS, for every value of the constants:

* `SerialRanges_proofs`: `OneHolderOfTiles` (a table that tiles gives every number
  exactly one holder) and `IncreaseTiles` (shifting the weights of a table that
  tiles gives one that tiles, if the new total fits an `int`). The running sum is a
  recursive *function*; facts about its turns follow from `SetInduction`, which
  speaks of a set of naturals in place of a predicate.
* `TypeCorrect` of `ForwardRules`, `RangeSearch` and `Monitor`; `FramingTypes`; `TheTypes`
  of `Sessions`.
* `TheRangesTile`, `TheOneHolder` (assuming `NoOverflow`: the bounds keep the total
  below 2^31). `RangesTile` alone is not inductive: a reload appends a range of the
  size of the total, and a step of the replay depends on a total that fits, so
  the invariant `TableInv` also says that the table tiles in every phase of
  the worker and that the total respects its bound.
* `TheLibrariesStick` (assuming that `open()` never fails): `ForwardRules`
  implements `StickyRouting` for libraries, with kills between writes, wrapped
  weights, reloads and restarts. It needs `StickInv`: as long as the save file is
  readable, every group a library was routed to is the owner named by a record
  for it; while a worker is up, the library tree is what those records say; while one
  replays, it is what the records read so far say; and when the file is no longer
  readable, no worker comes up again. Without the part about the replay, the step
  from `replay` to `up` would not be inductive.
* `TheRoutedAreSaved` (assuming no faults of the files, and `NoOverflow`): from `StickInv` and
  the fact that such a file always ends in a newline. Without `NoOverflow` it does not hold
  (section 5): a query that yields no group leaves half a record behind, so that
  `TableInv` is needed here too.
* `TheObjectsStick` (assuming nothing: opens may fail, kills may land inside a record):
  `ForwardRules` implements `StickyRouting` for correlated objects. `ObjectsInv` is for the
  class files what `StickInv` is for the library file; that a load refuses a file which
  names an object twice is what makes the step from `replay` to `up` go through. It needs
  no assumption on `open()`, since an object whose save could not be opened is answered
  OK (section 5) but not bound.
* `TheFilesLoad`, `TheMemoryIsOnDisk` (under the same two assumptions): from `StickInv`,
  `ObjectsInv` and `FilesInv`. `FilesLoad` is not inductive: that a new record names
  nothing twice follows only from the trees in memory being those of the files (an
  unknown library has no record), that its group is configured only from every group in
  memory being in the configuration, which `FilesInv` adds, and that a record of an object
  names a saved library from both.
* `TheWeightsCount` (assuming that `open()` never fails; overflow of the accumulator does not
  matter to it): from `WeightInv`, which adds that no group is in the table twice, that
  every library is assigned to a group of the table and that a worker that is down has
  no table; without the first a library would be counted for its own group. `StickInv`
  gives that none is replayed or created twice.
* `TheSearchFinds`, `TheHolderStays`: on every sound table and every tree the walk keeps the holder
  in its subtree and returns it. `TheRangesTile` provides the soundness.
* `ThePipeIsHeld`, `OneWorker`, `NoReloadUnasked` from the invariant `SafetyInv`
  of `Monitor`, which says for each place of the monitor which worker may exist
  and who holds the pipe, and, for the reload flag, that a write still to come is
  paid for by a request that has not been written yet.
* `ImplementsSupervision`: every step of monitor and worker is a step of
  `Supervision` or changes nothing it sees; a worker that does not accept the file is not
  `up` at any time.
* `BridgeRelays`, `NeverOverruns`, `RoomStays`, `FramingTypes` (assuming `Network = {}`): for
  packets of any length and number, in any pieces, a bridge implements `Relay` in both
  directions. The invariant `FramingInv` says that a bridge is either `Idle`, its
  buffer empty and both sides at the end of a packet, or that the bytes of exactly one
  side *flow*: the buffer holds what this side has sent behind what the other has got,
  its first byte begins a packet, and it is either a part of that packet
  (`Partial`) or ends where some packet ends (`Whole`). The lemmas on `Packeted` sequences say
  that behind the end of a packet the next begins, and that it ends no later than
  any later end: so what is left after a send is again measured rightly.
* `QuitNeverPasses` (the same assumption): from `QuitInv`, which adds that only one
  request is outstanding, that the worker never rests with just a header in the
  buffer, and that what it has received of the client holds no `COM_QUIT`.

* `ServersStayListed` (with `TheTypes`, by `Base`): the handlers follow pointers, so types are
  inductive only together with where these lead: a session that is not free has a server
  and an owner, a pool of a server holds only sessions of that server, no event of a
  batch is of a session that was freed, the servers of a list are of its group, and a
  dead worker has no sessions. `InList` is a part of `Base`.
* `NobodyShares`, `GroupIsRight` (by `PairInv` and `Wired` on top of `Base`): while no session has
  strayed, the session of a client is in work, points back to it and is of the group
  selected; a session in work is polled and is the pair of its owner; a pooled one is
  unpolled and is in its pool once. What the properties say of sets of users and places
  is said there pointer by pointer, in both directions, which is what a handler can be
  shown to keep. `Paired` takes the state as parameters, because a select that changes
  groups goes through a state in between: the old connection is pooled, the new one
  not yet found. `Wired` says that only a client that was told so sends, so that a
  `select` cannot meet a client whose login is not through.
* `OneDirection` (by `Duplex`, on top of these): a client and its server session are always in
  one of three phases, the buffer empty, on its way to the client, or holding one
  request on its way to the server (`Outgoing`: or whatever a client that has quit left
  there, with its `COM_QUIT` behind it); at most one request is unanswered, and it is the
  client's own. `Timely` is the part about time: an event for writing still in the batch
  finds its session in the phase it was reported for. Without it the invariant is lost
  at the first handler of a batch. Its part `Parted` is what the `COM_QUIT` needs: a server
  session whose event for reading is still in the batch has not been read, or has nothing to
  say, and what is in the buffer of a client whose own is still there came from that
  session just before.
* `TheCalmLive` (by `Calm`, on top of these): while nobody has ended a connection, every event
  of the batch is still true of its session when its turn comes, a client in the
  status *forwarding* has a session, and no session is in the batch twice; each branch
  of a handler that follows a pointer to nothing or modifies a socket that is not
  polled contradicts one of these.

The theorems about `Sessions` hold for any number of clients, connections, groups and
servers, any files (`ServerLists`) and answers in any number of parts; they assume no more
than `SessionsAssumption`. The runs use two clients and two connections. The bound
`MaxUnread` stands in a guard of the clients and can be any number.

Two things were restated so that they can be reasoned about: `Merged` picks the new
servers by their places instead of by a recursive filter, and `InWorkOrPooled` says "one"
by an existential instead of a cardinality. Operands of `UNION` are in parentheses,
since tools bind it differently.

Only model-checked: the liveness properties (`ComesUpAgain`, `Returns`,
`NoOrphan`, `StopHeard`, `ReloadHeard`, `Answered`, `Noticed`, `Arrives` and the fairness part
of `Supervises`), which are beyond this prover. Every invariant and every safety
refinement that a passing run checks is also proved.

## 5. Where code and documentation disagree

1. `cut_restart` (`app.c` 420): a kill between two writes of a record leaves a torn
   tail, the next record is appended behind it, and no worker ever loads the file
   again. The monitor restarts it for ever.
2. `no_server` (`app.c` 339): when no server of the group can be reached, the test
   that should notice compares two addresses that are never equal; the client is
   answered OK and has no server session. Its next request ends the worker.
3. `not_bridged` (`app.c` 284): a pooled connection that is given to a client still
   points to the client it served before.
4. `split_answer` (`comm.c` 367): when one `recv()` has returned a packet of an answer
   and a part of the next, the rest of the buffer is sent as if it were whole: bytes of
   earlier messages go to the client, then the lengths no longer fit and the worker
   crashes.
The models show more, without a run of their own; the definitions named are there
to be checked:

* `RoutedIsSaved` does not hold once the weights wrap (`config.c` 55, `app.c` 424): begins are
  summed in an `int`, which every added group doubles. Then a query may yield no group; the
  worker writes half a record before it crashes, and the record of the next library
  lands behind it. Its client is bridged, and no reader will find the record
  (`SelectNewNull`).
* `AckedIsSaved` of `ForwardRules` does not hold (`app.c` 627, 603): a `set correl_object` that
  stored nothing, because the object is bound to another library or the file cannot be
  opened, is answered OK.
* `StopStops` of `Monitor` does not hold (`monitor.c` 81): a SIGTERM before `waitpid` blocks sets
  a flag that nobody looks at. `StopHeard`, which is checked, says what does hold: a
  stop that interrupts `waitpid` stops the service.
* `Framing` with `Network = {"mute"}` violates `Arrives` (`comm.c` 494): after a request that has
  no answer, as `COM_STMT_CLOSE`, the client is never read again.
* `Framing` with `Network = {"bare"}` violates `QuitStays` (`comm.c` 105): a `COM_QUIT` whose last
  byte comes after its header reaches the server, whose connection should have gone
  back to the pool.
* `Framing` with `Network = {"short"}` violates `NoOverrun` (`comm.c` 489): a `send()` to the
  server that takes a part of a packet is followed by a wrong length.
* `ReceiveRequest` of `Sessions` (`comm.c` 100): a `COM_QUIT` that finds a part of an answer in
  the buffer is sent to the server together with it.
* `ReadReload` of `Monitor` (`worker.c` 410): a reload that fails is only logged; who has
  asked for it does not learn of it.
* `Restart` of `Sessions` (`worker.c` 307-313): only the first server of a group is
  tried when a worker starts, though `README.zh-CN.md` 85 speaks of switching to another
  when the main server is not available.
* `Merged` of `Sessions` (`config.c` 439): a server removed from the file stays in use;
  `README.zh-CN.md` 497 says all its connections are closed at once. Nor does a
  reload change the order of a list, which :87 speaks of.
* A failing `open()` frees a node that the library tree still links (`app.c` 412, the
  actions `SelectNewOpenFails` and `Found`), after which a library can be assigned a
  second time; the theorems about libraries assume that it does not fail.

## 6. Not modelled, and the plan

The core was taken first: where a library goes, the processes that keep that
promise across failures, the sessions that carry a client there, and the bytes that
pass through a bridge; then the proofs of every safety property the runs check. Next,
in this order:

1. The steps the liveness properties rest on, as far as they are safety: that a worker
   in `replay` comes nearer to `up` with every step, that a turn of the loop finds every
   client that waits either polled or paired with a session that is due to answer.
2. An abstract specification of what a client sees of the pool (a connection is lent to
   one client at a time and returned without an answer outstanding), with `Sessions`
   shown to implement it until a session strays.

Left out: the byte layouts of handshake and authentication messages (data, not
control; their statuses are in `Sessions`), `InitConfigFile`, option parsing and
daemonising (they run once, before any state exists), `CalcHash` (its value per
library is a constant of the model), malloc failures, logging, the vendored tree,
list and JSON code, the generated configuration reader, the test clients.
