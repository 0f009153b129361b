------------------------------ MODULE NodeApp ------------------------------
(***************************************************************************)
(* The bookkeeping of one NodeApp: the addresses it may connect to and the *)
(* list of its connections.  The module has no variables: every operator   *)
(* takes the record s of a node and returns it after the call.             *)
(*                                                                         *)
(*   up     listenStarted has been reached                                 *)
(*   port   the listening port (myName is ":" followed by it)              *)
(*   cands  myPeerCands: the tries an address has left, that is            *)
(*          myToTry - myConnTryCount                                       *)
(*   peers  myPeers, one record for each PeerInfo:                         *)
(*            id    the connection, out the direction (myOutFlag)          *)
(*            addr  getPeerAddr, canon getCanonPeerAddr (NoAddr: empty)    *)
(*            conn  isConnected                                            *)
(*                                                                         *)
(* An address is a pair of a host and a port.                              *)
(***************************************************************************)
EXTENDS Integers, FiniteSets

CONSTANTS
  LocalPorts,  \* the ports tried on localhost (5000 and 5001)
  Sticky       \* tries of an address given with -peer (1000000)

ASSUME LocalPortsAssumption == LocalPorts \subseteq Nat \ {0}
ASSUME StickyAssumption == Sticky \in Nat \ {0}

Loopback == "127.0.0.1"
LocalNames == {"localhost", Loopback}
NoAddr == <<"", 0>>

(* The function f, and g where f has no value.                             *)
Over(f, g) ==
  [x \in DOMAIN f \cup DOMAIN g |-> IF x \in DOMAIN f THEN f[x] ELSE g[x]]

NewNode(port, extra) ==
  [up |-> FALSE, port |-> port, peers |-> {},
   cands |-> Over([a \in extra |-> Sticky], [a \in {"localhost"} \X LocalPorts |-> 1])]

-----------------------------------------------------------------------------
(* Candidates and outgoing connections *)

(* addOutPeerCandidate for each of the addresses: a known one gets n       *)
(* further tries, however many it had left.                                *)
AddCandidates(s, as, n) == [s EXCEPT !.cands = Over([a \in as |-> n], @)]

(* Mutant: only connected entries count.                                   *)
IsPeerConnectedNow(s, a, dir) ==
  \E e \in s.peers : e.conn /\ e.out = dir /\ a \in {e.addr, e.canon}

(* The list has an entry of that address, in whatever state it is.         *)
IsPeerConnected(s, a, dir) ==
  \E e \in s.peers : e.out = dir /\ a \in {e.addr, e.canon}

ToTry(s) ==
  {a \in DOMAIN s.cands : s.cands[a] > 0 /\ ~IsPeerConnected(s, a, TRUE)}

(* Mutant: the host is not looked at.                                      *)
IsSelfByPort(s, a) == a[2] = s.port

IsSelf(s, a) == a[1] \in LocalNames /\ a[2] = s.port

Dialled(s) == {a \in ToTry(s) : ~IsSelf(s, a)}

(* Mutant: the tries are counted twice.                                    *)
TryOutConnectionsTwice(s, ids) ==
  [s EXCEPT
     !.cands = [a \in DOMAIN @ |-> @[a] - (IF a \in ToTry(s) THEN 2 ELSE 0)],
     !.peers = @ \cup {[id |-> ids[a], out |-> TRUE, addr |-> a,
                        canon |-> NoAddr, conn |-> FALSE] : a \in Dialled(s)}]

(* One pass over the candidates; ids names the connections it begins.      *)
(* Trying an address puts no other one on the list, so the order of the    *)
(* pass is of no consequence.                                              *)
TryOutConnections(s, ids) ==
  LET tries == ToTry(s)
      begun == {[id |-> ids[a], out |-> TRUE, addr |-> a, canon |-> NoAddr, conn |-> FALSE] :
                  a \in Dialled(s)}
  IN  [s EXCEPT !.cands = [a \in DOMAIN @ |-> @[a] - (IF a \in tries THEN 1 ELSE 0)],
                !.peers = @ \cup begun]

-----------------------------------------------------------------------------
(* The list of connections *)

(* onConnect: the canonical address has the remote host, and is set only   *)
(* if that is not the host asked for.                                      *)
OutConnected(s, e, remote) ==
  [s EXCEPT !.peers = (@ \ {e}) \cup
     {[e EXCEPT !.conn = TRUE,
                !.canon = IF remote = e.addr[1] THEN NoAddr ELSE <<remote, e.addr[2]>>]}]

(* Mutant: the port shown is that of the own end of the socket.            *)
InConnectionReceivedOwn(s, id, addr) ==
  [s EXCEPT !.peers = @ \cup {[id |-> id, out |-> FALSE, addr |-> <<addr[1], s.port>>,
                               canon |-> NoAddr, conn |-> TRUE]}]

InConnectionReceived(s, id, addr) ==
  [s EXCEPT !.peers = @ \cup {[id |-> id, out |-> FALSE, addr |-> addr,
                               canon |-> NoAddr, conn |-> TRUE]}]

Closing(s, e) == [s EXCEPT !.peers = (@ \ {e}) \cup {[e EXCEPT !.conn = FALSE]}]

(* Mutant: the canonical addresses are compared, not the shown ones.       *)
ConnectionClosedCanon(s, e) ==
  [s EXCEPT !.peers = {p \in @ : p # e /\ p.canon # e.canon}]

(* The entry itself, and every other entry of the same address.            *)
ConnectionClosed(s, e) ==
  [s EXCEPT !.peers = {p \in @ : p # e /\ p.addr # e.addr}]

-----------------------------------------------------------------------------
(* Messages *)

(* Mutant: getNicePeerAddr is sent for getCanonPeerAddr.                   *)
OtherPeersNice(s, e) ==
  {IF p.canon # NoAddr THEN p.canon ELSE p.addr : p \in {q \in s.peers : q.conn}}
    \ {e.addr}

(* Mutant: only the outgoing connections are passed on.                    *)
OtherPeersOut(s, e) ==
  {p.canon : p \in {q \in s.peers : q.conn /\ q.out}} \ {NoAddr, e.addr}

(* sendOtherPeers to the connection e: the canonical addresses of the      *)
(* connected peers, but for the address e goes by.                         *)
OtherPeers(s, e) ==
  {p.canon : p \in {q \in s.peers : q.conn /\ e.conn}} \ {NoAddr, e.addr}

(* The peer's host as it is seen, with the port the peer reports.          *)
CanonAddr(e, port) == <<e.addr[1], port>>

(* Mutant: the own port is taken for that of the peer.                     *)
HandshakeOwnPort(s, e, port) ==
  LET c == CanonAddr(e, s.port)
      known == [s EXCEPT !.peers = (@ \ {e}) \cup {[e EXCEPT !.canon = c]}]
  IN  IF c = e.addr THEN s ELSE AddCandidates(known, {c}, 1)

(* A handshake from the connection e of a peer that listens on port: the   *)
(* entry gets its canonical address, which becomes a candidate.            *)
Handshake(s, e, port) ==
  LET c == CanonAddr(e, port)
      known == [s EXCEPT !.peers = (@ \ {e}) \cup {[e EXCEPT !.canon = c]}]
  IN  IF c = e.addr THEN s ELSE AddCandidates(known, {c}, 1)

OtherPeer(s, as) == AddCandidates(s, as, 1)
=============================================================================
