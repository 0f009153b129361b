----------------------------- MODULE Discovery -----------------------------
(***************************************************************************)
(* A network of nodes: each runs NodeApp, connects to the addresses it     *)
(* knows, shakes hands and passes on the addresses of its peers.           *)
(*                                                                         *)
(* A link is one TCP connection with its two streams of messages, named by *)
(* the node that began it, the address asked for and a number.  Of the     *)
(* messages only HANDSH and OPEER are kept: the others change nothing in   *)
(* NodeApp.  What a connection does between its callbacks is the matter of *)
(* Connection; here it is connecting, connected, closing or gone.          *)
(***************************************************************************)
EXTENDS NodeApp, Sequences

CONSTANTS
  Nodes,
  Hosts,         \* the names and addresses of hosts
  Addrs,         \* bound of the timers that are fair
  Networks,      \* the networks considered (see Init)
  Copies,        \* bound: links of one node to one address at a time
  ShownPort(_)   \* the port of a link as getRemoteAddress shows it

NoNode == "none"
RealPorts == Nat \ {0}
Addresses == Hosts \X RealPorts

(* A host that uv_ip4_addr cannot parse leaves 0.0.0.0, the own machine.   *)
Unparsed == {"localhost", "?"}
OwnMachine == Unparsed \cup {Loopback}

ASSUME NodesAssumption == NoNode \notin Nodes
ASSUME HostsAssumption == {"localhost", Loopback, "?"} \subseteq Hosts
ASSUME NetworksAssumption ==
  Networks \subseteq [nodes: SUBSET Nodes, host: [Nodes -> Hosts \ OwnMachine],
                      port: [Nodes -> RealPorts], extra: [Nodes -> SUBSET Addresses],
                      losses: Nat, calm: BOOLEAN]

VARIABLES
  net,    \* nodes that run, host, port and extra peers of each node, losses
          \* (bound: connections that fail), calm (bound: a node is started
          \* when the others have nothing to do) (fixed)
  node,   \* the NodeApp of each node
  link,   \* the links
  lost    \* connections that have failed so far

vars == <<net, node, link, lost>>

Sides == {"src", "dst"}
Far(d) == IF d = "src" THEN "dst" ELSE "src"
Links == DOMAIN link

Src(i) == i[1]
Asked(i) == i[2]
Owner(i, d) == IF d = "src" THEN Src(i) ELSE link[i].dst
Entries(i, d) ==
  IF Owner(i, d) = NoNode THEN {}
  ELSE {e \in node[Owner(i, d)].peers : e.id = i /\ e.out = (d = "src")}
Entry(i, d) == CHOOSE e \in Entries(i, d) : TRUE
Inbox(i, d) == IF d = "src" THEN link[i].toSrc ELSE link[i].toDst

UnknownAddr == <<"?", 0>>

(* In the network N, the address a as n asks for it is that of m.          *)
At(N, n, m, a) == /\ N.port[m] = a[2]
                  /\ N.host[m] = IF a[1] \in OwnMachine THEN N.host[n] ELSE a[1]

(* The node, if any, that listens there.                                   *)
Reached(n, a) == {m \in Nodes : node[m].up /\ At(net, n, m, a)}

(* The remote host on either side of a connection from n to a.             *)
RemoteHost(a) == IF a[1] \in OwnMachine THEN Loopback ELSE a[1]
SeenHost(n, a) == IF a[1] \in OwnMachine THEN Loopback ELSE net.host[n]

(* The addresses of one sendOtherPeers arrive together (bound).            *)
OPeers(as) == IF as = {} THEN <<>> ELSE <<[type |-> "OPEER", addrs |-> as]>>
HandSh(p) == <<[type |-> "HANDSH", port |-> p]>>

Init == /\ net \in Networks
        /\ node = [n \in Nodes |-> NewNode(net.port[n], net.extra[n])]
        /\ link = <<>>
        /\ lost = 0

-----------------------------------------------------------------------------
(* Connecting *)

NewLink == [phase |-> "connecting", dst |-> NoNode, ends |-> {"src"},
            toSrc |-> <<>>, toDst |-> <<>>]

Unused(n, a) == {k \in 1..Copies : <<n, a, k>> \notin Links}

(* Node n is as the handler left it, and tries its candidates; links are   *)
(* those of the handler.  (The quantifier has TLC evaluate left only once.)*)
TryOut(n, left, links) ==
  \E s \in {left} :
    LET new == Dialled(s)
        ids == [a \in new |-> <<n, a, CHOOSE k \in Unused(n, a) : TRUE>>]
        begun == {ids[a] : a \in new}
    IN  /\ \A a \in new : Unused(n, a) # {}
        /\ node' = [node EXCEPT ![n] = TryOutConnections(s, ids)]
        /\ link' = [i \in Links \cup begun |-> IF i \in Links THEN links[i] ELSE NewLink]

Quiet == \A i \in Links : /\ link[i].phase \in {"open", "failed"}
                          /\ link[i].toDst = <<>> /\ link[i].toSrc = <<>>

(* start: the candidates, and the first tries in listenStarted.            *)
Start(n) ==
  /\ n \in net.nodes /\ ~node[n].up
  /\ net.calm => Quiet
  /\ TryOut(n, [node[n] EXCEPT !.up = TRUE], link)
  /\ UNCHANGED <<net, lost>>

(* Nobody listens, or the network fails: onConnect returns, and leaves the *)
(* object in the list.                                                     *)
ConnectFails(i) ==
  /\ link[i].phase = "connecting"
  /\ \/ Reached(Src(i), Asked(i)) = {} /\ UNCHANGED lost
     \/ Reached(Src(i), Asked(i)) # {} /\ lost < net.losses /\ lost' = lost + 1
  /\ link' = [link EXCEPT ![i].phase = "failed"]
  /\ UNCHANGED <<net, node>>

(* onConnect and process(): the peers, HANDSH, the peers once more.  (An   *)
(* entry that connectionClosed has removed took the object with it.)       *)
ConnectDone(i) ==
  /\ link[i].phase = "connecting" /\ Entries(i, "src") # {}
  /\ \E m \in Reached(Src(i), Asked(i)) :
       LET s == OutConnected(node[Src(i)], Entry(i, "src"), RemoteHost(Asked(i)))
           e == CHOOSE p \in s.peers : p.id = i /\ p.out
           others == OPeers(OtherPeers(s, e))
       IN  /\ node' = [node EXCEPT ![Src(i)] = s]
           /\ link' = [link EXCEPT ![i] =
                         [phase |-> "backlog", dst |-> m, ends |-> Sides, toSrc |-> <<>>,
                          toDst |-> others \o HandSh(s.port) \o others]]
  /\ UNCHANGED <<net, lost>>

(* onNewConnection: the entry of the other side.  If the connection has    *)
(* been reset meanwhile, its remote address may not be known any more.     *)
Accept(i) ==
  /\ link[i].phase = "backlog"
  /\ \E a \in {<<SeenHost(Src(i), Asked(i)), ShownPort(i)>>}
              \cup (IF "src" \in link[i].ends THEN {} ELSE {UnknownAddr}) :
       node' = [node EXCEPT ![link[i].dst] = InConnectionReceived(@, i, a)]
  /\ link' = [link EXCEPT ![i].phase = "open"]
  /\ UNCHANGED <<net, lost>>

-----------------------------------------------------------------------------
(* Messages *)

(* The end d of link i is connected and on its node's list.                *)
Reading(i, d) == /\ d \in link[i].ends
                 /\ \E e \in Entries(i, d) : e.conn

Arrived(i, d, type) ==
  /\ Reading(i, d) /\ Inbox(i, d) # <<>> /\ Head(Inbox(i, d)).type = type

Consumed(i, d) ==
  IF d = "src" THEN [link EXCEPT ![i].toSrc = Tail(@)]
  ELSE [link EXCEPT ![i].toDst = Tail(@)]

(* messageReceived, OtherPeer.                                             *)
ReceiveOtherPeer(i, d) ==
  /\ Arrived(i, d, "OPEER")
  /\ TryOut(Owner(i, d), OtherPeer(node[Owner(i, d)], Head(Inbox(i, d)).addrs),
            Consumed(i, d))
  /\ UNCHANGED <<net, lost>>

(* messageReceived, Handshake: the canonical address and the tries, if it  *)
(* is another than the one shown, then the peers for the other side.       *)
ReceiveHandshake(i, d) ==
  /\ Arrived(i, d, "HANDSH")
  /\ LET n == Owner(i, d)
         port == Head(Inbox(i, d)).port
         s == Handshake(node[n], Entry(i, d), port)
         e == CHOOSE p \in s.peers : p.id = i /\ p.out = (d = "src")
         reply == IF "src" \in link[i].ends THEN OPeers(OtherPeers(s, e)) ELSE <<>>
         links == [Consumed(i, d) EXCEPT ![i].toSrc = @ \o reply]
     IN  IF CanonAddr(e, port) # e.addr THEN TryOut(n, s, links)
         ELSE link' = links /\ UNCHANGED node
  /\ UNCHANGED <<net, lost>>

(* onTimer; the period of three seconds is long against the time a message *)
(* takes, so everything sent before has arrived (bound).                   *)
Timer(i) ==
  /\ Quiet /\ Reading(i, "src") /\ "dst" \in link[i].ends
  /\ link' = [link EXCEPT ![i].toDst = OPeers(OtherPeers(node[Src(i)], Entry(i, "src")))]
  /\ UNCHANGED <<net, node, lost>>

-----------------------------------------------------------------------------
(* Closing *)

(* An end fails, or finds that the other one is gone, and closes its       *)
(* socket; what it has not read is lost.                                   *)
Close(i, d) ==
  /\ Reading(i, d)
  /\ \/ Far(d) \notin link[i].ends /\ UNCHANGED lost
     \/ Far(d) \in link[i].ends /\ lost < net.losses /\ lost' = lost + 1
  /\ node' = [node EXCEPT ![Owner(i, d)] = Closing(@, Entry(i, d))]
  /\ link' = IF d = "src" THEN [link EXCEPT ![i].ends = @ \ {d}, ![i].toSrc = <<>>]
             ELSE [link EXCEPT ![i].ends = @ \ {d}, ![i].toDst = <<>>]
  /\ UNCHANGED net

(* onClose, connectionClosed.                                              *)
Closed(i, d) ==
  /\ d \notin link[i].ends /\ Entries(i, d) # {}
  /\ node' = [node EXCEPT ![Owner(i, d)] = ConnectionClosed(@, Entry(i, d))]
  /\ link' = IF link[i].ends = {} /\ Entries(i, Far(d)) = {}
             THEN [j \in Links \ {i} |-> link[j]] ELSE link
  /\ UNCHANGED <<net, lost>>

-----------------------------------------------------------------------------
Deliver ==
  \/ \E n \in Nodes : Start(n)
  \/ \E i \in Links : \/ ConnectFails(i) \/ ConnectDone(i) \/ Accept(i)
                      \/ \E d \in Sides : ReceiveOtherPeer(i, d) \/ ReceiveHandshake(i, d)

Fail == \E i \in Links, d \in Sides : Close(i, d) \/ Closed(i, d)

Next == Deliver \/ Fail \/ \E i \in Links : Timer(i)

Tick(n, a) == \E k \in 1..Copies : <<n, a, k>> \in Links /\ Timer(<<n, a, k>>)

Spec == Init /\ [][Next]_vars

(* Every node is started, and the loops handle what has arrived.           *)
FairSpec == Spec /\ WF_vars(Deliver)

(* The ping timer of every connection keeps firing.                        *)
TickSpec == FairSpec /\ \A n \in Nodes, a \in Addrs : SF_vars(Tick(n, a))

-----------------------------------------------------------------------------
(* Every variable keeps its shape. *)
TypeOK ==
  /\ net \in Networks /\ lost \in 0..net.losses
  /\ \A n \in Nodes : /\ \A a \in DOMAIN node[n].cands : node[n].cands[a] \in Nat
                      /\ \A e \in node[n].peers : e.id \in Links
  /\ \A i \in Links : /\ link[i].phase \in {"connecting", "failed", "backlog", "open"}
                      /\ link[i].ends \subseteq Sides
                      /\ link[i].phase \in {"backlog", "open"} <=> link[i].dst \in Nodes

(* tryOutConnections (node.cpp:124) asks isPeerConnected before it dials:  *)
(* a node never has two outgoing connections begun with the same address,  *)
(* whatever the order of handshakes, announcements, failures and losses.   *)
OneDialPerName ==
  \A n \in Nodes : \A e, f \in node[n].peers :
    e.out /\ f.out /\ e.addr = f.addr => e = f

(* What getCanonPeerAddr gives for a connection (node.cpp:282, 365), and   *)
(* sendOtherPeers passes on for its peer, reaches that very peer from this *)
(* node: not the ephemeral port of the connection, not another node, over  *)
(* all orders of connecting, handshakes and losses.  (A connection that    *)
(* was reset before it was accepted has the host "?".)                     *)
OtherEnd(e) == IF e.out THEN link[e.id].dst ELSE Src(e.id)
CanonicalIsThePeer ==
  \A n \in Nodes : \A e \in node[n].peers :
    e.canon # NoAddr /\ e.canon[1] # "?" => OtherEnd(e) \in Reached(n, e.canon)

(* A node "sends periodically the connected peers to other peers"          *)
(* (README.md:35): an address a node was told of, and was not given at its *)
(* start, is where a node listens.  (With all nodes on one machine, or     *)
(* each on one of its own; not with two machines.)                         *)
LearnedIsReached ==
  \A n \in Nodes :
    node[n].up => \A a \in DOMAIN node[n].cands \ DOMAIN NewNode(0, net.extra[n]).cands :
                    Reached(n, a) # {}

(* connectionClosed removes the disconnected clients (node.cpp:221) and no *)
(* other: myPeers has one entry for every accepted or begun connection     *)
(* that is open at this node, and a connected entry is an open connection. *)
(* (A connection whose connect failed has an open handle that nothing uses.)*)
EntriesMatchLinks ==
  /\ \A i \in Links : \A d \in link[i].ends :
       \/ link[i].phase = "backlog" /\ d = "dst"
       \/ link[i].phase = "failed"
       \/ Cardinality(Entries(i, d)) = 1
  /\ \A n \in Nodes : \A e \in node[n].peers :
       e.conn => e.id \in Links /\ (IF e.out THEN "src" ELSE "dst") \in link[e.id].ends

(* What connectionClosed relies on when it compares addresses (node.cpp:   *)
(* 214): no incoming connection goes by the address of another entry.      *)
(* It hangs on the ports the other ends happen to have, as they are shown: *)
(* a swapped port may look like that of a dialled address, and connections *)
(* that were reset before they were accepted all go by "?:0".              *)
AddressesDiffer ==
  \A n \in Nodes : \A e, f \in node[n].peers : ~e.out /\ e.addr = f.addr => e = f

(* No handler leaves an address it has heard of untried (node.cpp:288,     *)
(* 309): as long as no connection was lost, every candidate is the node    *)
(* itself or has an outgoing connection.                                   *)
HeardIsDialled ==
  lost = 0 =>
    \A n \in Nodes : node[n].up =>
      \A a \in DOMAIN node[n].cands :
        \/ a \in LocalNames \X {node[n].port}
        \/ \E e \in node[n].peers : e.out /\ a \in {e.addr, e.canon}

Linked(m, n) ==
  \E i \in Links : link[i].phase = "open" /\ {Src(i), link[i].dst} = {m, n}

(* "Transitive peer discovery is done (in node)" (README.md:29): nodes     *)
(* connected to a common node get connected to each other.                 *)
TransitiveDiscovery ==
  \A l, m, n \in Nodes :
    Cardinality({l, m, n}) = 3 =>
      (net.losses = 0 /\ Linked(l, n) /\ Linked(m, n) ~> Linked(l, m))

-----------------------------------------------------------------------------
(* The inductive invariant, for nodes nd, links lk and losses ls in a      *)
(* network N: what a node's list and its links know of each other.         *)

Phases == {"connecting", "failed", "backlog", "open"}
Connected == {"backlog", "open"}
Ids == Nodes \X Addresses \X (1..Copies)
Side(e) == IF e.out THEN "src" ELSE "dst"

Announcements == [type: {"OPEER"}, addrs: SUBSET Addresses]
Greetings(N, n) == [type: {"HANDSH"}, port: {N.port[n]}]
LinkInfos(N, n) == [phase: Phases, dst: Nodes \cup {NoNode}, ends: SUBSET Sides,
                    toSrc: Seq(Announcements),
                    toDst: Seq(Announcements \cup Greetings(N, n))]

NodeInv(N, n, s) ==
  /\ s = [up |-> s.up, port |-> s.port, peers |-> s.peers, cands |-> s.cands]
  /\ s.port = N.port[n]
  /\ s.up \in BOOLEAN
  /\ s.up => n \in N.nodes
  /\ \A a \in DOMAIN s.cands : a \in Addresses /\ s.cands[a] \in Nat
  /\ ~s.up => s.peers = {} /\ \A a \in DOMAIN s.cands : s.cands[a] > 0

LinkInv(N, nd, i, l) ==
  /\ i \in Ids /\ l \in LinkInfos(N, i[1]) /\ nd[i[1]].up
  /\ IF l.phase \in Connected THEN l.dst \in Nodes /\ nd[l.dst].up /\ At(N, i[1], l.dst, i[2])
     ELSE l.dst = NoNode /\ l.ends = {"src"}
  /\ l.phase = "backlog" => "dst" \in l.ends

(* The host of a connection as it is seen at the end that is asked for.    *)
HostSeen(N, i) == IF Asked(i)[1] \in OwnMachine THEN Loopback ELSE N.host[Src(i)]

(* An entry and its link: the canonical address is the one that was dialled, *)
(* by the host that was reached, or the host seen with the port of the     *)
(* other end.                                                              *)
EntryInv(N, n, lk, e) ==
  /\ e = [id |-> e.id, out |-> e.out, addr |-> e.addr, canon |-> e.canon, conn |-> e.conn]
  /\ e.id \in DOMAIN lk /\ e.out \in BOOLEAN /\ e.conn \in BOOLEAN
  /\ e.conn => lk[e.id].phase \in Connected /\ Side(e) \in lk[e.id].ends
  /\ e.canon # NoAddr => lk[e.id].phase \in Connected
  /\ IF e.out THEN /\ n = Src(e.id) /\ e.addr = Asked(e.id)
                   /\ e.canon \in {NoAddr, <<RemoteHost(e.addr), e.addr[2]>>}
     ELSE /\ n = lk[e.id].dst /\ lk[e.id].phase = "open"
          /\ e.addr[1] \in {HostSeen(N, e.id), "?"}
          /\ e.canon \in {NoAddr, <<e.addr[1], N.port[Src(e.id)]>>}

(* One entry for each end of a link, and one outgoing for each address.    *)
ListInv(peers) ==
  \A e, f \in peers : /\ e.id = f.id /\ e.out = f.out => e = f
                      /\ e.out /\ f.out /\ e.addr = f.addr => e = f

LossInv(lk, ls) ==
  ls = 0 => \A i \in DOMAIN lk : lk[i].phase \in Connected => lk[i].ends = Sides

Core(N, nd, lk, ls) ==
  /\ N \in Networks /\ ls \in 0..N.losses /\ DOMAIN nd = Nodes
  /\ \A n \in Nodes : NodeInv(N, n, nd[n]) /\ ListInv(nd[n].peers)
  /\ \A i \in DOMAIN lk : LinkInv(N, nd, i, lk[i])
  /\ \A n \in Nodes : \A e \in nd[n].peers : EntryInv(N, n, lk, e)
  /\ LossInv(lk, ls)

(* Every address has been tried, or will be by the next pass; the pass     *)
(* makes the second of it the first.                                       *)
Tried(s, a) == IsSelf(s, a) \/ IsPeerConnected(s, a, TRUE)
AllTried(s) == \A a \in DOMAIN s.cands : Tried(s, a)
SpentTried(s) == \A a \in DOMAIN s.cands : s.cands[a] = 0 => Tried(s, a)

HeardInv(nd, ls) == ls = 0 => \A n \in Nodes : nd[n].up => AllTried(nd[n])

IndInv == Core(net, node, link, lost) /\ HeardInv(node, lost)
=============================================================================
