------------------------------ MODULE Session ------------------------------
(***************************************************************************)
(* A client of ClientApp and the connection a server has with it: two      *)
(* connections of NetClient, the text between them, and the two programs   *)
(* around them.  The client's three connections do not touch each other;   *)
(* this is any one of them, and its loop ends when each of them lets it.   *)
(*                                                                         *)
(* Writes of these short messages are completed at once, and libuv calls   *)
(* back before it polls for more (Polls); Connection has every order.      *)
(***************************************************************************)
EXTENDS NetClient, Wire

CONSTANTS
  ServerKinds,  \* what listens at the port: "ServerIn", "NodeIn"
  Fates       \* bound: what happens to the network: "up", "reset", "stopped"

ASSUME ServerKindsAssumption == ServerKinds \subseteq InKinds
ASSUME FatesAssumption == Fates \subseteq {"up", "reset", "stopped"}

VARIABLES
  kind,     \* what listens (fixed)
  fate,     \* the state the network may come to (fixed)
  again,    \* uv_read_start succeeds on a stream already being read (fixed)
  net,      \* "up", "reset": the connection is lost, "stopped": the server is
  named,    \* the server has its name
  conn,     \* the two connections
  wire,     \* the text on its way to each side
  buffer,   \* myReceiveBuffer
  busy,     \* the sides that are in doProcessReceivedBuffer
  running,  \* the client's loop
  asked,    \* history: messages the client has sent
  heard,    \* history: messages the client has understood
  dropped   \* history: the client got a line that is no message

config == <<kind, fate, again>>
history == <<asked, heard, dropped>>
vars == <<config, net, named, conn, wire, buffer, busy, running, history>>

Sides == {"client", "server"}
Far(d) == IF d = "client" THEN "server" ELSE "client"

Running(d) == IF d = "client" THEN running ELSE net # "stopped"
Idle(d) == Running(d) /\ d \notin busy
Polls(d) == Idle(d) /\ conn[d].reading /\ conn[d].owed = 0

(* The socket of that side is closed.                                      *)
Gone(d) == \/ net # "up"
           \/ conn[d].handle \in {"closing", "closed"}

(* uv_write takes every message, reading can be started once, and once     *)
(* more if that is what this libuv does, and a node knows its client.      *)
Answers(r) ==
  {u \in Outcomes(r) : /\ u.sent = 2 + 2 * MaxOther /\ u.found
                       /\ u.read <=> (r.reading => again)
                       /\ r.kind # "NodeIn" => u.others = 0}

Init ==
  /\ kind \in ServerKinds /\ fate \in Fates /\ again \in RestartOk
  /\ net \in {"up", fate} \ {"reset"}
  /\ named \in (IF kind = "NodeIn" THEN {TRUE} ELSE BOOLEAN)
  /\ conn = [client |-> NewConnection("ClientOut"), server |-> NewConnection(kind)]
  /\ wire = [d \in Sides |-> <<>>] /\ buffer = [d \in Sides |-> <<>>]
  /\ busy = {} /\ running = TRUE
  /\ asked = 0 /\ heard = 0 /\ dropped = FALSE

-----------------------------------------------------------------------------
(* Messages *)

Msg(type, fields) == [type |-> type, fields |-> fields]

(* The name of a ClientApp is "_NONE_"; a peer's address is never empty.   *)
ClientMessage(r) ==
  IF r.st = "Connected" THEN Msg("HANDSH", <<"V01", "addr", "_NONE_">>)
  ELSE Msg("PING", <<"ping">>)

MyName == IF named THEN "name" ELSE Blank

(* messageReceived of the server: the replies to a message.                *)
Replies(type, others) ==
  CASE type = "HANDSH" ->
         <<Msg("HANDSHRESP", <<"V01", MyName, "addr">>)>>
           \o [i \in 1..others |-> Msg("OPEER", <<"host", "port">>)]
    [] type = "PING" -> <<Msg("PINGRESP", <<"resp">>)>>
    [] OTHER -> <<>>

(* The meaning of a keyword for NetClient.                                 *)
Meaning(type) ==
  CASE type = "HANDSH" -> "Handshake" [] type = "HANDSHRESP" -> "HandshakeResponse"
    [] type = "PING" -> "Ping"        [] type = "PINGRESP" -> "PingResponse"
    [] type = "OPEER" -> "OtherPeer"

(* Side d becomes r, having sent as many of the messages as libuv now owes *)
(* callbacks for, beyond those it owed before.                             *)
Becomes(d, r, owed, messages) ==
  /\ conn' = [conn EXCEPT ![d] = r]
  /\ wire' = [wire EXCEPT ![Far(d)] =
                @ \o TextOf(SubSeq(messages, 1, r.owed - owed))]
  /\ asked' = asked + (IF d = "client" THEN r.owed - owed ELSE 0)

-----------------------------------------------------------------------------
(* Connecting *)

(* uv_tcp_connect may refuse; ClientApp::start does not look at that and   *)
(* runs the loop.                                                          *)
StartConnect ==
  /\ running /\ conn.client.handle = "none"
  /\ \E ok \in BOOLEAN : conn' = [conn EXCEPT !.client = Connect(@, ok)]
  /\ UNCHANGED <<config, net, named, wire, buffer, busy, running, history>>

ConnectDone ==
  /\ Idle("client") /\ conn.client.handle = "connecting"
  /\ \E u \in Answers(conn.client) :
       Becomes("client", OnConnect(conn.client, net = "up", u), 0,
               <<ClientMessage([st |-> "Connected"])>>)
  /\ UNCHANGED <<config, net, named, buffer, busy, running, heard, dropped>>

Accept ==
  /\ Idle("server") /\ conn.server.handle = "none"
  /\ conn.client.handle \notin {"none", "connecting", "failed"}
  /\ \E u \in Answers(conn.server) :
       conn' = [conn EXCEPT !.server = DoRead(Accepted(@), u.read)]
  /\ UNCHANGED <<config, net, named, wire, buffer, busy, running, history>>

(* ServerApp::start, in the main thread.                                   *)
SetName ==
  /\ ~named
  /\ named' = TRUE
  /\ UNCHANGED <<config, net, conn, wire, buffer, busy, running, history>>

-----------------------------------------------------------------------------
(* The callbacks of either side *)

(* Mutant: the buffer is cleared before each read.                         *)
ReadDataClear(d) ==
  /\ Polls(d)
  /\ \E k \in 1..Len(wire[d]) :
       /\ buffer' = [buffer EXCEPT ![d] = SubSeq(wire[d], 1, k)]
       /\ wire' = [wire EXCEPT ![d] = SubSeq(@, k + 1, Len(@))]
  /\ busy' = busy \cup {d}
  /\ UNCHANGED <<config, net, named, conn, running, history>>

(* onRead: some of the text that has arrived, cut anywhere.                *)
ReadData(d) ==
  /\ Polls(d)
  /\ \E k \in 1..Len(wire[d]) :
       /\ buffer' = [buffer EXCEPT ![d] = @ \o SubSeq(wire[d], 1, k)]
       /\ wire' = [wire EXCEPT ![d] = SubSeq(@, k + 1, Len(@))]
  /\ busy' = busy \cup {d}
  /\ UNCHANGED <<config, net, named, conn, running, history>>

(* One line of the buffer that is a message.                               *)
Message(d) ==
  LET m == ParseMessage(Tokens(FirstLine(buffer[d])))
  IN  /\ Running(d) /\ d \in busy /\ HasLine(buffer[d]) /\ m # NoMessage
      /\ \E u \in Answers(conn[d]) :
           Becomes(d, Receive(conn[d], Meaning(m.type), u), conn[d].owed,
                   IF d = "server" THEN Replies(m.type, u.others) ELSE <<>>)
      /\ buffer' = [buffer EXCEPT ![d] = AfterLine(@)]
      /\ heard' = heard + (IF d = "client" THEN 1 ELSE 0)
      /\ UNCHANGED <<config, net, named, busy, running, dropped>>

(* Mutant: it ends the connection.                                         *)
UnparseableCloses(d) ==
  /\ Running(d) /\ d \in busy /\ HasLine(buffer[d])
  /\ ParseMessage(Tokens(FirstLine(buffer[d]))) = NoMessage
  /\ buffer' = [buffer EXCEPT ![d] = <<>>]
  /\ busy' = busy \ {d}
  /\ conn' = [conn EXCEPT ![d] = Close(@, "read")]
  /\ dropped' = TRUE
  /\ UNCHANGED <<config, net, named, wire, running, asked, heard>>

(* One that is none is skipped.                                            *)
Unparseable(d) ==
  /\ Running(d) /\ d \in busy /\ HasLine(buffer[d])
  /\ ParseMessage(Tokens(FirstLine(buffer[d]))) = NoMessage
  /\ buffer' = [buffer EXCEPT ![d] = AfterLine(@)]
  /\ dropped' = TRUE
  /\ UNCHANGED <<config, net, named, conn, wire, busy, running, asked, heard>>

(* Mutant: process() is not called.                                        *)
ReadDoneSilent(d) ==
  /\ Running(d) /\ d \in busy /\ ~HasLine(buffer[d])
  /\ busy' = busy \ {d}
  /\ UNCHANGED <<config, net, named, conn, wire, buffer, running, history>>

(* No complete line is left, and process() is called.                      *)
ReadDone(d) ==
  /\ Running(d) /\ d \in busy /\ ~HasLine(buffer[d])
  /\ \E u \in Answers(conn[d]) :
       Becomes(d, Process(conn[d], u), conn[d].owed, <<ClientMessage(conn[d])>>)
  /\ busy' = busy \ {d}
  /\ UNCHANGED <<config, net, named, buffer, running, heard, dropped>>

(* Mutant: at the end of the stream reading stops, and no more.            *)
ReadStopOnly(d) ==
  /\ Polls(d) /\ Gone(Far(d))
  /\ wire[d] = <<>> \/ wire[Far(d)] # <<>> \/ net # "up"
  /\ conn' = [conn EXCEPT ![d].reading = FALSE]
  /\ UNCHANGED <<config, net, named, wire, buffer, busy, running, history>>

(* The other side has closed its socket: the end of the stream, or, if     *)
(* something was left unread there, an error that may come any time.       *)
ReadStop(d) ==
  /\ Polls(d) /\ Gone(Far(d))
  /\ wire[d] = <<>> \/ wire[Far(d)] # <<>> \/ net # "up"
  /\ conn' = [conn EXCEPT ![d] = Close(@, "eof")]
  /\ UNCHANGED <<config, net, named, wire, buffer, busy, running, history>>

WriteDone(d) ==
  /\ Idle(d) /\ conn[d].owed > 0
  /\ \E ok \in IF Gone(Far(d)) \/ Gone(d) THEN BOOLEAN ELSE {TRUE}, u \in Answers(conn[d]) :
       Becomes(d, OnWrite(conn[d], ok, u), conn[d].owed - 1, <<ClientMessage(conn[d])>>)
  /\ UNCHANGED <<config, net, named, buffer, busy, running, heard, dropped>>

CloseDone(d) ==
  /\ Idle(d) /\ conn[d].handle = "closing" /\ conn[d].owed = 0
  /\ conn' = [conn EXCEPT ![d] = OnClose(@)]
  /\ UNCHANGED <<config, net, named, wire, buffer, busy, running, history>>

-----------------------------------------------------------------------------
(* uv_run keeps the loop alive for active handles and requests.            *)
Alive(r) == r.handle \in {"connecting", "closing"} \/ r.reading \/ r.owed > 0

(* ClientApp::start goes on after runLoop, and deletes the clients.        *)
LoopEnds ==
  /\ Idle("client") /\ conn.client.handle # "none" /\ ~Alive(conn.client)
  /\ running' = FALSE
  /\ conn' = [conn EXCEPT !.client.obj = "freed"]
  /\ UNCHANGED <<config, net, named, wire, buffer, busy, history>>

(* The connection is lost, or the server is stopped or ends.               *)
NetFails ==
  /\ net = "up" /\ fate # "up"
  /\ net' = fate
  /\ UNCHANGED <<config, named, conn, wire, buffer, busy, running, history>>

Handler(d) == \/ ReadData(d) \/ Message(d) \/ Unparseable(d) \/ ReadDone(d)
              \/ ReadStop(d) \/ WriteDone(d) \/ CloseDone(d)

Client == StartConnect \/ ConnectDone \/ Handler("client") \/ LoopEnds
Server == Accept \/ Handler("server")

Next == Client \/ Server \/ SetName \/ NetFails

Spec == Init /\ [][Next]_vars

(* Both loops handle what there is to handle.                              *)
FairSpec == Spec /\ WF_vars(Client) /\ WF_vars(Server) /\ WF_vars(SetName)

-----------------------------------------------------------------------------
(* Every variable keeps its shape. *)
TypeOK ==
  /\ kind \in ServerKinds /\ fate \in Fates /\ again \in RestartOk
  /\ net \in {"up", fate}
  /\ conn \in [Sides -> Connections]
  /\ busy \subseteq Sides
  /\ named \in BOOLEAN /\ running \in BOOLEAN /\ dropped \in BOOLEAN

(* "if loop finishes, all are done" (app.cpp:125): the clients are deleted *)
(* when nothing of the connection can call back.                           *)
DeletedWhenDone ==
  ~running => /\ conn.client.handle \in {"failed", "closed"}
              /\ conn.client.owed = 0 /\ ~conn.client.reading /\ "client" \notin busy

(* The count of write callbacks (net_client.cpp:378) is the count of       *)
(* messages: a client that ends by itself has sent its handshake and its   *)
(* pings and, at a server, has got the answer to each of them.             *)
AllAnswered ==
  /\ asked <= 1 + PingToSend
  /\ "done" \in conn.client.why =>
       /\ asked = 1 + PingToSend
       /\ kind = "ServerIn" => heard = asked

(* As long as nothing fails, a connection ends only because the client is  *)
(* done with its pings, or, where libuv does not start reading twice (1.38 *)
(* and later), because the client asked for that (net_client.cpp:262): no  *)
(* message and no line ends it, and the server only follows.               *)
EndsForAReason ==
  net = "up" =>
    /\ conn.client.why \subseteq (IF again THEN {"done"} ELSE {"done", "restart"})
    /\ conn.server.why # {} => conn.client.why # {}

(* A line is not understood only if it is the answer to a handshake that   *)
(* came before the server had its name (app.cpp:35, 81): of the empty name *)
(* no token is left (net_client.cpp:170), and three are too few.           *)
OnlyBlankDropped ==
  [][dropped' # dropped =>
       /\ kind = "ServerIn" /\ "client" \in busy
       /\ FirstLine(buffer.client) = <<"HANDSHRESP", "V01", Blank, "addr">>]_vars

(* However the text is cut into reads (net_client.cpp:160), the messages   *)
(* of either direction come out whole and in order.                        *)
ToServer == INSTANCE LineChannel WITH text <- buffer.server \o wire.server
ToClient == INSTANCE LineChannel WITH text <- buffer.client \o wire.client
LinesSpec == ToServer!Spec /\ ToClient!Spec

(* The client's loop ends (app.cpp:123), whatever becomes of the server    *)
(* and the network, unless the answer to its handshake was not understood. *)
ClientEnds == <>(~running \/ dropped)

(* When the client has gone, the server gets rid of the connection.        *)
ServerForgets ==
  ~running ~> conn.server.handle \in {"none", "closed"} \/ net = "stopped"

(* The client "sends Handshake and a few Ping messages" (README.md:34): a  *)
(* connected client gets to send a ping, as long as nothing fails.         *)
SendsPings == conn.client.handle = "open" ~> asked > 1 \/ net # "up"

-----------------------------------------------------------------------------
(* The inductive invariant: what the client (r, having sent n messages)    *)
(* and the connection of the server can be, and the messages that are on   *)
(* their way.                                                              *)

ClientInv(r, n) ==
  /\ r \in Connections /\ r.kind = "ClientOut" /\ n \in 0..(1 + PingToSend)
  /\ r.stream <=> r.handle \in {"connecting", "failed", "open"}
  /\ r.handle \in {"none", "connecting", "failed"} =>
       r.why = {} /\ ~r.reading /\ r.owed = 0 /\ r.sends = 0 /\ n = 0
  /\ r.handle = "open" =>
       /\ r.why = {} /\ n = r.sends + r.owed
       /\ \/ r.st = "Sending" /\ r.owed = 1 /\ (r.reading <=> r.sends > 0)
          \/ /\ r.st \in {"Receiving", "Received"}
             /\ r.owed = 0 /\ r.reading /\ r.sends > 0
  /\ r.handle \in {"closing", "closed"} =>
       /\ r.why # {} /\ ~r.reading /\ r.owed = 0 /\ r.st \in Ended
       /\ "done" \in r.why => n = 1 + PingToSend

ServerInv(r) ==
  /\ r \in Connections /\ r.kind \in InKinds
  /\ r.handle \in {"none", "open", "closing", "closed"}
  /\ (r.stream <=> r.handle = "open") /\ (r.reading <=> r.handle = "open")
  /\ r.why = {} <=> r.handle \in {"none", "open"}
  /\ r.handle = "open" => r.st \notin Ended
  /\ r.handle \in {"none", "closed"} => r.owed = 0

Requests == {Msg("HANDSH", <<"V01", "addr", "_NONE_">>), Msg("PING", <<"ping">>)}

Welcome(name) == Msg("HANDSHRESP", <<"V01", name, "addr">>)
Responses(k) ==
  {Welcome("name"), Msg("PINGRESP", <<"resp">>), Msg("OPEER", <<"host", "port">>)}
    \cup IF k = "NodeIn" THEN {} ELSE {Welcome(Blank)}

Words == {"HANDSH", "HANDSHRESP", "PING", "PINGRESP", "OPEER", "V01", "addr", "_NONE_",
          "name", Blank, "ping", "resp", "host", "port"}
Texts == Seq(Words \cup {Terminator})

(* n messages of M are on their way, in a buffer and on the wire.          *)
Carries(b, w, M, n) == \E q \in Seq(M) : Len(q) = n /\ b \o w = TextOf(q)

(* A server is asked one thing at a time; n messages are on their way.     *)
OneAtATime(n) ==
  kind = "ServerIn" =>
    LET pending == n + (IF dropped THEN 1 ELSE 0)
    IN  /\ asked = heard + pending /\ pending <= 1
        /\ conn.client.st = "Received" \/ "done" \in conn.client.why => pending = 0

ShapeInv ==
  /\ TypeOK /\ kind = conn.server.kind /\ (kind = "NodeIn" => named)
  /\ heard \in Nat /\ buffer \in [Sides -> Texts] /\ wire \in [Sides -> Texts]

LoopInv ==
  /\ conn.client.st = "Received" => "client" \in busy
  /\ "client" \in busy => conn.client.handle = "open" /\ conn.client.owed = 0
  /\ "server" \in busy => conn.server.handle = "open"
  /\ ~running => conn.client.handle \in {"failed", "closed"}

FlowInv ==
  \E q, a \in Nat : /\ Carries(buffer.server, wire.server, Requests, q)
                    /\ Carries(buffer.client, wire.client, Responses(kind), a)
                    /\ OneAtATime(q + a)

IndInv == /\ ShapeInv /\ ClientInv(conn.client, asked) /\ ServerInv(conn.server)
          /\ LoopInv /\ EndsForAReason /\ FlowInv
=============================================================================
