# TLA+ models of tcpserver-cpp-libuv-sample

The program is a small networking library on libuv with three executables: a
server, a client that shakes hands and sends a few pings, and a node of a
peer-to-peer network that does both and tells its peers of one another.  This
directory models the parts of it in which the order of events matters: the life
of one connection, a client with its server, the server's map of clients, the
two threads around the libuv loop, and the discovery of peers in a network of
nodes.

## 1. The system

| Part | Source | State | Operations | Hard to get right |
|---|---|---|---|---|
| Connection (`NetClientBase`, `NetClientIn`, `NetClientOut`) | `lib/net_client.cpp` | `myState`, `myUvStream`, receive buffer, `mySendCounter`, write requests libuv holds | `connect`, `onConnect`, `onRead`, `doProcessReceivedBuffer`, `sendMessage`, `onWrite`, `process`, `close`, `onClose` | any order of callbacks; closing inside a handler; the object is freed by its own close callback |
| Peer connection (`PeerClientOut`) | `node/peer_conn.cpp` | the ping timer | `process`, `onTimer`, destructor | a timer against a closing connection; reading that is started twice |
| `NetHandler` | `lib/net_handler.cpp` | `myUvLoop`, `myBgThread`, `myBgThreadStop`, async handle, listening socket | `startWithListen`, `doListen`, `startUvLoop`, `stopUvLoop`, `runLoop`, `doBgThread`, `onNewConnection` | two threads, a wake-up and a flag that are set one after the other; a loop that is deleted by one thread and used by the other |
| `NodeApp` | `node/node.cpp` | `myPeerCands`, `myPeers`, `myName` | `start`, `listenStarted`, `tryOutConnections`, `inConnectionReceived`, `connectionClosed`, `messageReceived`, `sendOtherPeers` | one peer has several addresses; lists that are searched by address; whether everyone finds everyone |
| `ServerApp` | `lib/app.cpp` | `myClients` (by address), `myName` | `start`, `stop`, `inConnectionReceived`, `connectionClosed`, `messageReceived` | the name is set after the thread starts; two connections with one address |
| `ClientApp` | `lib/app.cpp` | three connections | `start`, `connectionClosed` | its loop ends when the connections do |
| Messages, `Endpoint` | `lib/message.cpp`, `node/endpoint.cpp` | none | serialise, parse | pieces of messages, ports that are no numbers |
| Programs | `server/`, `client/`, `node/main.cpp` | none | start, wait for Enter, stop | stop after a start that failed |

All callbacks of libuv run one at a time in the thread that calls `uv_run`: the
background thread in the server and the node, the main thread in the client.
The connection calls the application (`connectionReceived`, `connectionClosed`,
`messageReceived`), the application calls the connection (`sendMessage`,
`close`) and, in the node, begins others (`tryOutConnections`).  Main and
background thread share `myBgThreadStop`, the loop and the name of the
application, without a lock.

What makes the parts correct:

* a connection: its handle is deleted once, libuv keeps nothing that leads to a
  freed object, every close completes, every connection starts to read, a
  client sends its pings and then ends;
* client and server: whatever way the network cuts the text, the messages come
  out whole and in order; the client's loop ends, and only when nothing of its
  connections can call back; the server gets rid of a client that has gone;
* the map of clients: its entries are the connections that are there, and the
  end of one does not cost another its object;
* the handler: it finds the first free port, runs its loop once, and `stop()`
  reaches that very loop and leaves nothing open;
* the node: it does not dial the same address twice, its list matches its
  connections, the address it keeps for a peer and announces reaches that peer,
  and all nodes become connected.

## 2. Modules

| Module | Models | Checked or proved in |
|---|---|---|
| `NetClient` | the operations of a connection as operators on a record; the four kinds of connection in the three programs | through `Connection` and `Session`; lemmas in `NetClientProofs` |
| `Connection` | one connection under every order of libuv callbacks | `MCConnection`, `ConnectionProofs` |
| `ConnLifecycle` | abstract: what a connection promises | implemented by `Connection` (`LifecycleSpec`) |
| `Wire` | messages as text, the receive buffer and the parser; no variables | through `Session`; `WireProofs` |
| `LineChannel` | abstract: complete lines go in, and come out one at a time and in order | implemented by both directions of `Session` (`LinesSpec`) |
| `Session` | a client of `ClientApp` and the connection its server (or a node) has with it | `MCSession`, `SessionProofs` |
| `Registry` | `ServerApp::myClients` and its connections in one loop, to the loop's end | `MCRegistry`, `RegistryProofs` |
| `NetHandler` | the main and the background thread | `MCNetHandler`, `NetHandlerProofs` |
| `NodeApp` | candidates and peer list of one node, as operators on a record | through `Discovery` |
| `Discovery` | a network of nodes: connections, handshakes, announcements, timers, failures | `MCDiscovery`, `DiscoveryProofs` |

Operators whose comment begins with "Mutant" are deliberately wrong variants of
the definition that follows them.  They are not used by the specifications;
substituted for it, each makes TLC report one of the properties as violated.

### Connection

`conn` is the object and the stream as libuv sees it: `st` is `myState`,
`stream` says whether `myUvStream` is set, `handle` is the state of the
`uv_tcp_t`, `owed` counts the write callbacks that libuv still has to deliver
(each is one `UvWriteRequest`).  `busy` says that the read callback is inside
`doProcessReceivedBuffer`: the messages of one read are separate steps, so that
a message that closes the connection can be followed by others.

| Action | Code |
|---|---|
| `Accept` | `NetHandler::onNewConnection`, then `doRead` |
| `StartConnect`, `ConnectDone` | `NetClientOut::connect`, `onConnect` and `process` |
| `ReadData`, `Message`, `ReadDone` | `onRead` with data, one message of the buffer with `messageReceived` of the application, `process` |
| `ReadStop` | `onRead` with an error, the end of the stream, or nothing |
| `WriteDone` | `onWrite`, which goes on to `process` or closes |
| `TimerFires` | `PeerClientOut::onTimer` |
| `CloseDone` | `on_close`, `onClose`, `connectionClosed` |

`Outcomes` is what the environment decides during a handler: how many peers
`sendOtherPeers` announces, which `uv_write` is the first to fail, whether
`uv_read_start` succeeds, and whether the node knows the peer as an incoming
one.  `RestartOk` tells libuv before 1.38 (starting to read twice succeeds)
from later versions (`UV_EALREADY`); the passing run allows both.

The build modelled is the default one, in which `assert` is empty: an assertion
that does not hold is recorded in `faults` and the program goes on.  A call on
a NULL stream ends the behaviour (`Broken`): the program would crash.  The
process is not assumed to survive it, and all properties say what they say up
to that point.

### Session

Two records of `NetClient`, `client` and `server`, and between them the text:
`wire` is what is on its way to a side, `buffer` its `myReceiveBuffer`.  A text
is a sequence of words with the terminator as one of them (`Wire`), and a read
takes any part of what has arrived, so a message may come in pieces or with
half of the next.  `kind` is what listens at the port the client tries: a
server, or a node, which then announces its peers to the client as well.  `fate`
is what may become of the network: nothing, the connection is lost, or the
server is stopped.  `named` is the server's name, which its main thread sets
after the background thread has begun to serve (the interleaving that
`NetHandler` has at the name as well).  `again` says whether libuv lets a stream
that is being read start to read once more (before 1.38) or not.

| Action | Code |
|---|---|
| `StartConnect` | `ClientApp::start`, the loop that connects |
| `ConnectDone`, `Accept` | `onConnect` with the handshake; `onNewConnection` |
| `SetName` | the end of `ServerApp::start` |
| `ReadData` | `onRead`: the buffer grows |
| `Message`, `Unparseable`, `ReadDone` | one line of `doProcessReceivedBuffer` with `parseMessage` and `messageReceived`; a line that is skipped; `process()` |
| `ReadStop`, `WriteDone`, `CloseDone` | as in `Connection` |
| `LoopEnds` | `uv_run` has nothing left: `ClientApp::start` deletes its clients |
| `NetFails` | the connection is lost, or the server stops |

The three connections of a client share nothing but the loop, which returns
when each of them has nothing left in it: one of them is modelled, with each of
the things it may meet at its port.  Writes of these short messages are
completed at once, and libuv delivers what is completed before it polls again
(`Polls`); `Connection` has the other orders.

### Registry

`conns` are the connections (`NetClient` records of kind `ServerIn`), `clients`
is `myClients`, `shown` the address of a connection as `getPeerAddr` has it, and
`loop`, `due` the iteration of `uv_run`: first any events, then the handles that
are closing by then.  An object is freed when the map loses it (`Becomes`); its
handle stays with libuv.  A callback that comes to a freed object sets `broken`,
and the loop goes no further.

An address can come again in two ways: a client resets its connection and
begins another one from the same port before the server has handled the reset,
or two connections were reset before they were accepted, so that `getpeername`
fails for both and they go by `?:0` (`Unknown`).  The first object is then
freed with its handle open, and the next callback uses it.  `LostOnlyByAddress`
says that this is the only way to lose one.

| Action | Code |
|---|---|
| `Accept` | `onNewConnection`, `getRemoteAddress`, `inConnectionReceived`, `doRead` |
| `ReadMessage`, `ReadStop`, `WriteDone` | `onRead` with one message, with an error or the end; `onWrite` |
| `CloseDone` | `on_close`, `onClose`, `ServerApp::connectionClosed` |
| `EndEvents`, `NextIteration` | `uv_run` |
| `Walk` | `runLoop` after `uv_run`: `uv_walk`, `on_walk`, `deleteUvLoop` |
| `UvStop` | `stopUvLoop`, in the main thread |

### NetHandler

`main` and `bg` say where the two threads are.  Each step of a thread makes one
access to what they share.  `uv_run` is libuv's: it is modelled by the places
where it looks at the stop flag (`UvTest`), decides to wait (`UvPoll`), is
woken (`UvWake`, `NetEvent`, `PingTimer`) and returns (`UvReturn`, which lowers
the flag).  `app` selects the server, whose name is set after the thread has
started, or the node.

### NodeApp and Discovery

An address is a pair of host and port.  `cands` is `myPeerCands` with the tries
an address has left; `peers` is `myPeers`, an entry having the address
(`getPeerAddr`), the canonical address (`getCanonPeerAddr`), the direction and
whether it is connected.

A link of `Discovery` is one TCP connection, named by the node that began it,
the address asked for and a number.  Its two streams carry the messages that
change something in a node: the handshake and the announcements.  A host name
that `uv_ip4_addr` cannot parse, `localhost` among them, leads to 0.0.0.0 and so
to the own machine: that is why a node can have a connection to itself, and the
model has these too.  Addresses differ by their view: the side that accepts
sees the peer's host and an ephemeral port, printed with its bytes swapped
(`ShownPort`).  `At` says which node an address leads to, for the node that asks:
127.0.0.1 leads to another node on another machine.  `Hosts` are the names and addresses hosts have, those of an
unknown and of the own machine among them.  A connect that ends (`ConnectDone`)
finds its object in the list: an entry that `connectionClosed` removed for its
equal address (finding 6) has taken the object with it.

| Action | Code |
|---|---|
| `Start` | `NodeApp::start` (candidates) and `listenStarted` (first tries) |
| `ConnectFails`, `ConnectDone` | `onConnect`; with the canonical address and the first messages of `process` |
| `Accept` | `onNewConnection`, `inConnectionReceived` |
| `ReceiveHandshake`, `ReceiveOtherPeer` | `messageReceived`, with the tries and the announcements it makes |
| `Timer` | `onTimer` (its announcements) |
| `Close`, `Closed` | `close()`, then `connectionClosed` |

## 3. Runs

| Run | Result | What it shows |
|---|---|---|
| `conn` | holds | the object, its handle and its callbacks stay in step for all four kinds of connection; a close always completes; `Connection` implements `ConnLifecycle` |
| `write_assert` | violated | the assertion of `onWrite` does not hold for a write that ends after the close (finding 1) |
| `ping_forever` | violated | with libuv 1.38 or later a peer connection closes itself, and so does a client (finding 2) |
| `loop` | holds | port search, start and stop of both programs; `stop()` reaches the loop that runs, and returns if a ping timer is active |
| `stop_hangs` | violated | without one, `stop()` may wait for ever (finding 3) |
| `session` | holds | messages come out whole and in order however the text is cut; the client's loop ends whatever happens to server and network, unless the answer to its handshake was not understood, which only the missing name can cause; a connection without failures ends because the client is done, or because its libuv does not start reading twice; the server then gets rid of the connection |
| `client_waits` | violated | a client whose handshake was answered without the name never sends a ping (finding 4) |
| `registry` | holds | the map of clients matches the handles, only a shared address can cost a connection its object, clients that left are forgotten, and a stop at any time cuts off no close in progress and closes no handle twice |
| `discovery` | holds | on one machine and on one for each, nodes started one after the other all find each other; the address a node keeps for a peer reaches that peer, and what it is told of listens; the lists match the connections also when one is lost, as no incoming connection goes by the address of another entry (`AddressesDiffer`) |
| `not_discovered` | violated | nodes that dialled a third one too early never hear of each other (finding 5) |
| `announced_loopback` | violated | with two nodes on one machine and the third on another, a node is announced by an address that leads elsewhere (finding 7) |
| `removed_live` | violated | the end of one connection removes another one with an equal address (finding 6) |

`CHECK_DEADLOCK FALSE` in all of them: a connection is gone at its end, a
program stops, and a network without losses comes to rest.

### Bounds

* `Connection`: `PingToSend = 2`, so that a client has a first, a middle and a
  last ping (the code sends 3 to 5: `ClientApp` passes `3 + i`); at most
  `MaxOther = 1` peer per announcement (zero or one: with more there are only
  more writes at the same place); at most `MaxOwed = 5` write callbacks
  outstanding, which is the most that one handler can add (3 + 2 * MaxOther) and
  with that writes of two handlers at once.  The proofs are for all values.
* `NetHandler`: the ports and ranges the programs pass (5000 with 5 or 10 ports,
  a port of `-port` with itself only, port 0 among them), with none, some or
  all of the ports taken (`MCNetHandler`).  The search is at most eleven steps, and nothing else
  depends on the numbers.
* `Session`: `PingToSend = 2` and `MaxOther = 1` as above; a text is cut between
  any two words, which is as good as anywhere, as a piece of a word is like one
  that has not arrived.
* `Registry`: two connections (the least to share an address; the proofs are for
  any number), two addresses, so that they need not share one, and the unknown
  one; `MaxOwed = 1`: no message is read while a write callback is outstanding.  A
  read brings one message: what several in one read can do is in `Connection`,
  whose `BreaksOnlyAfterCloseInLoop` needs no second connection.
* `Discovery`: three nodes on one machine or three, or two nodes with one lost
  connection.  Three nodes are the least for a transitive discovery.
  `Copies = 2` links between a node and an address, so that a lost one can be
  begun anew while the old one is not yet gone.  `LocalPorts` has one of the
  two local ports tried: with the second, the third node on one machine would
  dial the second one by itself, and less would be left to discover.  `Sticky` is
  2 for the code's 1000000 tries.  `losses` bounds the connections that
  fail (a connect although a node listens, or a connection), and `calm` says that a node is started when the others are at rest.
  The addresses that one `sendOtherPeers` announces arrive together, and a
  timer fires when all messages sent before have arrived: its period is three
  seconds.  The network of two machines is in the violated run only: there the
  discovery depends on the timers (a node is announced by an address of no use,
  and the one that can dial the other hears of it by a later announcement), and
  with them its states are too many for a run, so no run shows it.  In the passing run every shown port is a number of its own;
  `removed_live` has one that is not.
  A connection that libuv 1.38 closes early (finding 2) is, for `Discovery`, a
  lost connection like any other.

### Fairness

* `Connection`: libuv delivers the result of a connect, of a write and of a
  close, and a callback that has begun returns.  Nothing is assumed of the peer
  or of the ping timer.
* `NetHandler`: both threads are scheduled (weak fairness of each thread's
  steps).  That Enter is pressed or that a peer sends something is not assumed.
  `StopReturnsWhilePinging` assumes the ping timer of a connection, which libuv
  repeats.
* `Session`: the loops of both sides handle what there is to handle, and
  `ServerApp::start` goes on to set the name.  That the network fails, or that a
  particular callback comes first, is not assumed.
* `Registry`: for each connection a ready socket is reported and what libuv owes
  is delivered, and the loop goes round.  Clients need neither leave nor send.
* `Discovery`: every node is started and what has arrived is handled: weak
  fairness of all deliveries together, which suffices because only timers make
  new work for ever, and they fire when there is none left.  The discovery
  holds without the timers; the violated run `not_discovered` has them as well
  (`TickSpec`), to show that waiting does not help.

## 4. Proofs

TLAPS proves the following for all values of the constants that satisfy the
assumptions of the modules.  The assumptions fix the domains of the constants
(ports that nodes listen at are real ones, the local ports tried are not 0, what
listens is a server or a node) and, for `MaxOwed`, that the bound leaves room
for one handler.

`NetClientProofs` has what both `ConnectionProofs` and `SessionProofs` need of
the operators of a connection: what `Close`, `Send`, `DoRead` and `Process` do
to a record, case by case.

`ConnectionProofs`.  None of the properties is inductive: that the handle is
deleted once needs to know which states have a stream, and that the client
counts right needs to know that it does not read before its first write is
done.  `IndInv` has three parts: `HandleInv` (pointer, handle, callbacks and
object), `StateInv` (`myState` against the handle, and the connection that the
message loop revives) and `BudgetInv` (the counter of the client).  The proof
follows the code: a lemma for each of `Close`, `Send`, `DoRead`, `Process`,
`OnWrite`, `Receive` says that it takes a record with the invariant to one with
it, and the theorem `Invariance` cites them action by action.  From it follow
`TypeCorrect`, `FreedQuiescence`, `SingleDeletion`, `Budget`,
`BreakingNeedsClose`, `RevivalNeedsLoop` and `Refinement` (every step of a
connection is a step of `ConnLifecycle` or a stutter).

`NetHandlerProofs`.  The inductive invariant has `ThreadInv` (what the place of
one thread says of the other: the stop flag is up only after `uv_stop`, the
thread leaves its loop only after that), `LoopInv` (the loop and its socket
live until the one run has ended) and `PortInv` (all ports tried so far are
taken).  It is what makes `StopHitsTheLoop` true: between the flag and
`uv_stop` the background thread has no reason to leave `uv_run`, or has not
entered it.  Theorems: `Invariance`, `TypeCorrect`, `PortSearch`, `OneRun`,
`CleanStop`, `RightLoop`, `NamedInTime`.

`RegistryProofs`, for any number of connections and addresses.  That the map is
exact needs to know what each connection may do by itself (`ConnInv`: only the
close callback finishes a handle, and none reopens one) and which handles the
iteration still has to finish (`LoopInv`, which makes `WalkFindsNoneClosing`
true).  A lemma for each handler says that it keeps `ConnInv` and leaves the
object alone; `CallKeeps` takes that to the map for all callbacks that do not
change it, and `IndAccept` and `IndCloseDone` are the two that do.  Theorems:
`Invariance`, `TypeCorrect`, `MapIsExact`, `LossNeedsSharedAddress`,
`ClosesAreFinished`, `WalkIsSafe`.  `ClosesAreFinished` needs both: a close that the
server began is among those the iteration finishes before the walk, and its
callback takes the connection out of the map.

`DiscoveryProofs`, for any number of nodes, hosts, links and losses.  Its
invariant has two parts.  `Core` ties the lists to the links: a node's own data
(`NodeInv`), one outgoing entry for an address and one entry for an end of a
link (`ListInv`), who has a link open (`LinkInv`), what an entry says of its
link (`EntryInv`: in particular what its canonical address can be), and what
losses leave (`LossInv`).  `HeardInv`
says that without a loss every address a node has heard of has been tried; it is
not inductive without knowing what the loop of tries has spent (`SpentTried`).
From them follow `TypeCorrect`, `OneDial`, `Heard` and `Canonical`: the canonical
address of a peer is the one that was dialled, by the host that was reached, or
the host as it is seen with the port of the handshake, and either leads from
this node to the socket of that very peer, for any placement of the nodes on
machines.  That it leads there from other nodes too is false (finding 7).

That the lists match the connections is false in general (finding 6), so
`ListsAreExact` has the hypothesis that no incoming connection goes by the
address of another entry, `[]AddressesDiffer`, which the run `discovery` checks.
Nothing in the code makes that hypothesis true: it hangs on the ephemeral ports
of the peers and on how they are shown.

`WireProofs`.  What a recursive definition computes needs induction over data.
The induction theorems of the library take a predicate as a parameter and cannot
be used here; the module gets induction over a set of numbers from the
well-foundedness of `Nat` (`Induction`), and over sequences from that
(`SeqInduction`).  From these it proves that the text of two sequences of
messages is the one after the other, that what the buffer has of it begins with
the whole first message if it has a line at all, wherever the network has cut
(`FirstIsRead`), and that the parser returns a message as it was written unless
a field is empty (`ReadAsWritten`).

`SessionProofs`.  `IndInv` describes what each side can be (`ClientInv`: a
client sends one thing and then reads, and its counter and the callbacks it is
owed make up what it has asked; `ServerInv`: a server is open until it follows
the client), the loop of the client (`LoopInv`) and the text (`FlowInv`): the
buffer and the wire of either side together are the text of whole messages that
the other side may send, and with a server at most one of them is on its way in
both directions together.  Without the last part neither `AllAnswered` nor the
meaning of a line could be known.  TLC has checked the invariant first, with
sequences of bounded length.  The proof has a lemma for each operation of either
side (`ClientReads`, `ClientProcesses`, `ServerReceives`, ...), one for the text
that is sent (`CarriesMore`) or taken (`CarriesLess`), and one for each action.
Theorems: `Invariance`, `TypeCorrect`, `Deletion`, `Answered`, `Reasoned`,
`Dropping` (an action property) and `Channels`: both directions implement
`LineChannel`, a step adding whole lines, taking the first one or leaving the
text as it is.

Only model-checked: everything about liveness (`ClosingCompletes`, `OpenReads`,
`StopReturnsWhilePinging`, `ClientEnds`, `ServerForgets`, `GoneIsForgotten`,
`TransitiveDiscovery`), which is out of this prover's reach as is `ENABLED`.
So are `AddressesDiffer` and `LearnedIsReached`, which depend on the network.  All
other safety properties of the passing runs are proved, `EntriesMatchLinks` under
the hypothesis above.  None of the modules has a `RECURSIVE`
operator: `TextOf` and `Tokens` are recursive functions.

## 5. Findings

1. `net_client.cpp:142`: the assertion of `onWrite` fails for a write that ends
   after `close()`; a debug build aborts.
2. `peer_conn.cpp:73`, `net_client.cpp:377`: reading is started again after every
   write; libuv 1.38 and later refuse that, and the connection closes.  A peer
   "does periodic Ping indefinitely", and ends after its second write; the client
   "sends Handshake and a few Ping messages", and ends in the callback of its
   first ping, or earlier on a read that brings no whole message.  (The run shows
   the peer; restricted to clients it is violated too.)  `EndsForAReason` says that
   with such a libuv nothing else ends a client early.
3. `net_handler.cpp:118`: the wake-up is sent before the stop flag is set.
4. `app.cpp:35`: the name is set after the server has begun to serve; an answer
   to a handshake without it has too few tokens, and the client that gets it
   waits for ever.
5. `node.cpp:147`: a failed connection counts as a connection for ever, so
   "transitive peer discovery" fails for nodes that came too early.
6. `node.cpp:214`: `connectionClosed` removes every entry of an equal address,
   also a live one.
7. `node.cpp:350`: a peer on the own machine is announced by its loopback address
   to peers on other machines, where nobody listens at it.

Three more things can be read off the models and are not runs of their own.
`onClose` assigns `myState` (`net_client.cpp:95`) of an object that
`connectionClosed` has freed, at the end of every incoming and every peer
connection (`useAfterFree` in `NetClient`).  A stop before the background thread
has tested its flag (`net_handler.cpp:295`) returns with the socket still
listening, against `app.hpp:64`; the programs end right afterwards.  Port 0, "0
for default" in `node/main.cpp:14`, binds any free port and is then taken for a
failure (`net_handler.cpp:81`).

## 6. Not modelled

* Undefined behaviour that the source does not resolve: `close()` and
  `sendMessage` end without a return value, and `myBgThreadStop`, `myUvLoop` and
  the name are shared without synchronisation.  The models take the functions
  to return and the threads to interleave at each access.
* Memory that is never freed (read buffers, timers): no order of events depends
  on it.
* `Endpoint`: a pure split of a string; an address is a pair.  Outside `Session`
  a message is a member of a small set.
* A connection that libuv reports with an error or does not let the server
  accept (`onNewConnection` returns, at most with a handle that is not used), and
  a `getpeername` that fails right after a connect has succeeded (the canonical
  host would be `?`, as it may be at the other end, which is modelled).
* Several OPEER messages of one announcement as separate steps: they are handled
  one after the other with at most other connections' callbacks in between, and
  a try of one address does not depend on the others.
* Reads that return nothing are an end of the stream, as the code takes them
  (`ReadStop`).  Writes that are completed late are in `Connection`, not in
  `Session`.  A peer that accepts and stays silent is none of the programs.
* The guard of `NetClientOut::connect` (line 338): a connection is connected
  once.
* Exceptions (`stoi` of a port that is no number): messages come from nodes.
* The build files.

## 7. Plan

Done, in this order: the connection (most of the program's state changes, and
all of its memory hazards), the handler and its threads, the network of nodes,
a client with its server and the text between them, the server's map of
clients.  Left:

1. Several messages in one read in `Registry`, so that a connection may break by
   itself beside others, and the proof that the map stays exact then.
2. Abstract specifications of the registry (who is connected) and of the port
   search and its threads (started, running, stopped), and proofs that `Registry`
   and `NetHandler` implement them.
