-------------------------- MODULE DiscoveryProofs --------------------------
(***************************************************************************)
(* Proofs about Discovery, for any network of nodes, any number of losses  *)
(* and whatever ports connections show.  First what the operators of       *)
(* NodeApp do to the parts of a node; then that each kind of step keeps    *)
(* the parts of Core; then the actions; then the properties.               *)
(***************************************************************************)
EXTENDS Discovery, FiniteSetTheorems, TLAPS

-----------------------------------------------------------------------------
(* Addresses *)

(* No address that is asked for is one of those that stand for none.       *)
LEMMA RealAddress ==
  ASSUME NEW a \in Addresses
  PROVE  a[1] \in Hosts /\ a[2] \in RealPorts /\ a # NoAddr
<1>1. a[1] \in Hosts /\ a[2] \in RealPorts /\ a[2] # 0
  BY DEF Addresses, RealPorts
<1>2. NoAddr[2] = 0
  BY DEF NoAddr
<1> QED
  BY <1>1, <1>2

(* What a node is given to start with.                                     *)
LEMMA GivenAddresses ==
  ASSUME NEW N \in Networks, NEW n \in Nodes
  PROVE  N.extra[n] \cup ({"localhost"} \X LocalPorts) \subseteq Addresses
<1>1. N.extra[n] \subseteq Addresses
  BY NetworksAssumption
<1>2. {"localhost"} \X LocalPorts \subseteq Addresses
  BY HostsAssumption, LocalPortsAssumption DEF Addresses, RealPorts
<1> QED
  BY <1>1, <1>2

(* A canonical address is one that can be asked for.                       *)
LEMMA CanonicalAddress ==
  ASSUME NEW N \in Networks, NEW n, NEW lk, NEW e, EntryInv(N, n, lk, e), e.id \in Ids
  PROVE  e.canon \in Addresses \cup {NoAddr}
<1>1. Loopback \in Hosts /\ "?" \in Hosts
  BY HostsAssumption
<1>2. Src(e.id) \in Nodes /\ Asked(e.id) \in Addresses
  BY DEF Ids, Src, Asked
<1>3. N.host[Src(e.id)] \in Hosts /\ N.port[Src(e.id)] \in RealPorts
  BY <1>2, NetworksAssumption
<1>4. CASE e.out
  <2>1. e.canon \in {NoAddr, <<RemoteHost(e.addr), e.addr[2]>>} /\ e.addr \in Addresses
    BY <1>2, <1>4 DEF EntryInv
  <2>2. RemoteHost(e.addr) \in Hosts /\ e.addr[2] \in RealPorts
    BY <1>1, <2>1, RealAddress DEF RemoteHost
  <2> QED
    BY <2>1, <2>2 DEF Addresses
<1>5. CASE ~e.out
  <2>1. /\ e.canon \in {NoAddr, <<e.addr[1], N.port[Src(e.id)]>>}
        /\ e.addr[1] \in {HostSeen(N, e.id), "?"}
    BY <1>5 DEF EntryInv
  <2>2. e.addr[1] \in Hosts
    BY <1>1, <1>3, <2>1 DEF HostSeen
  <2> QED
    BY <1>3, <2>1, <2>2 DEF Addresses
<1> QED
  BY <1>4, <1>5

-----------------------------------------------------------------------------
(* The records of a node and of an entry, and what the operators of NodeApp *)
(* make of them                                                            *)

NodeRec(up, port, peers, cands) == [up |-> up, port |-> port, peers |-> peers, cands |-> cands]
IsNode(s) == s = NodeRec(s.up, s.port, s.peers, s.cands)

Peer(id, out, addr, canon, conn) ==
  [id |-> id, out |-> out, addr |-> addr, canon |-> canon, conn |-> conn]
IsPeer(e) == e = Peer(e.id, e.out, e.addr, e.canon, e.conn)

LEMMA NodeFields ==
  ASSUME NEW up, NEW port, NEW peers, NEW cands, NEW s, s = NodeRec(up, port, peers, cands)
  PROVE  IsNode(s) /\ s.up = up /\ s.port = port /\ s.peers = peers /\ s.cands = cands
BY DEF IsNode, NodeRec

LEMMA PeerFields ==
  ASSUME NEW id, NEW out, NEW addr, NEW canon, NEW conn, NEW e,
         e = Peer(id, out, addr, canon, conn)
  PROVE  /\ IsPeer(e) /\ e.id = id /\ e.out = out /\ e.addr = addr
         /\ e.canon = canon /\ e.conn = conn
BY DEF IsPeer, Peer

(* A field is given another value.                                         *)
LEMMA NodeUpdate ==
  ASSUME NEW s, IsNode(s), NEW v
  PROVE  /\ [s EXCEPT !.peers = v] = NodeRec(s.up, s.port, v, s.cands)
         /\ [s EXCEPT !.cands = v] = NodeRec(s.up, s.port, s.peers, v)
         /\ [s EXCEPT !.up = v] = NodeRec(v, s.port, s.peers, s.cands)
BY DEF IsNode, NodeRec

LEMMA NodeUpdateTwo ==
  ASSUME NEW s, IsNode(s), NEW p, NEW c
  PROVE  [s EXCEPT !.cands = c, !.peers = p] = NodeRec(s.up, s.port, p, c)
<1> DEFINE t == [s EXCEPT !.cands = c]
<1>1. [s EXCEPT !.cands = c, !.peers = p] = [t EXCEPT !.peers = p]
  OBVIOUS
<1>2. t = NodeRec(s.up, s.port, s.peers, c)
  BY NodeUpdate
<1> HIDE DEF t
<1>3. IsNode(t) /\ t.up = s.up /\ t.port = s.port /\ t.cands = c
  BY <1>2, NodeFields
<1>4. [t EXCEPT !.peers = p] = NodeRec(t.up, t.port, p, t.cands)
  BY <1>3, NodeUpdate
<1> QED
  BY <1>1, <1>3, <1>4

LEMMA PeerUpdate ==
  ASSUME NEW e, IsPeer(e), NEW v, NEW c
  PROVE  /\ [e EXCEPT !.conn = v, !.canon = c] = Peer(e.id, e.out, e.addr, c, v)
         /\ [e EXCEPT !.conn = v] = Peer(e.id, e.out, e.addr, e.canon, v)
         /\ [e EXCEPT !.canon = c] = Peer(e.id, e.out, e.addr, c, e.conn)
<1> DEFINE f == [e EXCEPT !.conn = v]
<1>1. [e EXCEPT !.conn = v, !.canon = c] = [f EXCEPT !.canon = c]
  OBVIOUS
<1>2. f = Peer(e.id, e.out, e.addr, e.canon, v)
  BY DEF IsPeer, Peer
<1>3. \A p : IsPeer(p) => [p EXCEPT !.canon = c] = Peer(p.id, p.out, p.addr, c, p.conn)
  BY DEF IsPeer, Peer
<1> HIDE DEF f
<1>4. [f EXCEPT !.canon = c] = Peer(e.id, e.out, e.addr, c, v)
  BY <1>2, <1>3, PeerFields
<1> QED
  BY <1>1, <1>2, <1>3, <1>4 DEF f

(* tryOutConnections.                                                      *)
LEMMA TryOutParts ==
  ASSUME NEW s, IsNode(s), NEW ids
  PROVE  TryOutConnections(s, ids) =
           NodeRec(s.up, s.port,
                   s.peers \cup {Peer(ids[a], TRUE, a, NoAddr, FALSE) : a \in Dialled(s)},
                   [a \in DOMAIN s.cands |-> s.cands[a] - (IF a \in ToTry(s) THEN 1 ELSE 0)])
<1> DEFINE begun == {Peer(ids[a], TRUE, a, NoAddr, FALSE) : a \in Dialled(s)}
           cands == [a \in DOMAIN s.cands |-> s.cands[a] - (IF a \in ToTry(s) THEN 1 ELSE 0)]
<1>1. TryOutConnections(s, ids) = [s EXCEPT !.cands = cands, !.peers = s.peers \cup begun]
  BY Zenon DEF TryOutConnections, Peer
<1> QED
  BY <1>1, NodeUpdateTwo, Zenon

(* addOutPeerCandidate.                                                    *)
LEMMA AddParts ==
  ASSUME NEW s, IsNode(s), NEW as, NEW k
  PROVE  AddCandidates(s, as, k) =
           NodeRec(s.up, s.port, s.peers, Over([a \in as |-> k], s.cands))
<1> DEFINE c == Over([a \in as |-> k], s.cands)
<1>1. AddCandidates(s, as, k) = [s EXCEPT !.cands = c]
  BY Zenon DEF AddCandidates
<1> HIDE DEF c
<1>2. AddCandidates(s, as, k) = NodeRec(s.up, s.port, s.peers, c)
  BY <1>1, NodeUpdate
<1> QED
  BY <1>2 DEF c

(* onConnect.                                                              *)
CanonSeen(e, remote) == IF remote = e.addr[1] THEN NoAddr ELSE <<remote, e.addr[2]>>

LEMMA OutConnectedParts ==
  ASSUME NEW s, IsNode(s), NEW e, IsPeer(e), NEW remote
  PROVE  OutConnected(s, e, remote) =
           NodeRec(s.up, s.port,
                   (s.peers \ {e}) \cup {Peer(e.id, e.out, e.addr, CanonSeen(e, remote), TRUE)},
                   s.cands)
<1> DEFINE c == CanonSeen(e, remote)
           p == (s.peers \ {e}) \cup {[e EXCEPT !.conn = TRUE, !.canon = c]}
<1>1. OutConnected(s, e, remote) = [s EXCEPT !.peers = p]
  BY Zenon DEF OutConnected, CanonSeen
<1>2. [e EXCEPT !.conn = TRUE, !.canon = c] = Peer(e.id, e.out, e.addr, c, TRUE)
  BY PeerUpdate, ZenonT(30)
<1> QED
  BY <1>1, <1>2, NodeUpdate, Zenon

(* close().                                                                *)
LEMMA ClosingParts ==
  ASSUME NEW s, IsNode(s), NEW e, IsPeer(e)
  PROVE  Closing(s, e) =
           NodeRec(s.up, s.port,
                   (s.peers \ {e}) \cup {Peer(e.id, e.out, e.addr, e.canon, FALSE)}, s.cands)
<1> DEFINE p == (s.peers \ {e}) \cup {[e EXCEPT !.conn = FALSE]}
<1>1. Closing(s, e) = [s EXCEPT !.peers = p]
  BY Zenon DEF Closing
<1>2. [e EXCEPT !.conn = FALSE] = Peer(e.id, e.out, e.addr, e.canon, FALSE)
  BY PeerUpdate, Zenon
<1> QED
  BY <1>1, <1>2, NodeUpdate, Zenon

(* inConnectionReceived and connectionClosed.                              *)
LEMMA ListParts ==
  ASSUME NEW s, IsNode(s), NEW id, NEW a, NEW e
  PROVE  /\ InConnectionReceived(s, id, a) =
              NodeRec(s.up, s.port, s.peers \cup {Peer(id, FALSE, a, NoAddr, TRUE)}, s.cands)
         /\ ConnectionClosed(s, e) =
              NodeRec(s.up, s.port, {p \in s.peers : p # e /\ p.addr # e.addr}, s.cands)
<1>1. InConnectionReceived(s, id, a) =
        [s EXCEPT !.peers = s.peers \cup {Peer(id, FALSE, a, NoAddr, TRUE)}]
  BY Zenon DEF InConnectionReceived, Peer
<1>2. ConnectionClosed(s, e) = [s EXCEPT !.peers = {p \in s.peers : p # e /\ p.addr # e.addr}]
  BY Zenon DEF ConnectionClosed
<1> QED
  BY <1>1, <1>2, NodeUpdate, Zenon

(* A handshake: the entry gets the canonical address c, which becomes a    *)
(* candidate.                                                              *)
LEMMA HandshakeParts ==
  ASSUME NEW s, IsNode(s), NEW e, IsPeer(e), NEW port, CanonAddr(e, port) # e.addr
  PROVE  LET c == CanonAddr(e, port)
             p == (s.peers \ {e}) \cup {Peer(e.id, e.out, e.addr, c, e.conn)}
         IN  Handshake(s, e, port) =
               AddCandidates(NodeRec(s.up, s.port, p, s.cands), {c}, 1)
<1> DEFINE c == CanonAddr(e, port)
           q == (s.peers \ {e}) \cup {[e EXCEPT !.canon = c]}
<1>1. Handshake(s, e, port) = AddCandidates([s EXCEPT !.peers = q], {c}, 1)
  BY Zenon DEF Handshake
<1>2. [e EXCEPT !.canon = c] = Peer(e.id, e.out, e.addr, c, e.conn)
  BY PeerUpdate, Zenon
<1> QED
  BY <1>1, <1>2, NodeUpdate, Zenon

-----------------------------------------------------------------------------
(* What a step has to keep of Core *)

(* A node of the invariant.                                                *)
LEMMA CoreNode ==
  ASSUME NEW N, NEW nd, NEW lk, NEW ls, Core(N, nd, lk, ls), NEW n \in Nodes
  PROVE  /\ N \in Networks /\ ls \in 0..N.losses /\ DOMAIN nd = Nodes
         /\ NodeInv(N, n, nd[n]) /\ ListInv(nd[n].peers) /\ IsNode(nd[n])
         /\ \A e \in nd[n].peers : EntryInv(N, n, lk, e) /\ IsPeer(e)
BY DEF Core, NodeInv, IsNode, NodeRec, EntryInv, IsPeer, Peer

(* A step that changes a node to s and the links to lk2.                   *)
LEMMA StepCore ==
  ASSUME NEW N, NEW nd, NEW lk, NEW ls, Core(N, nd, lk, ls),
         NEW n \in Nodes, NEW s, NEW lk2, NEW ls2 \in 0..N.losses,
         NodeInv(N, n, s), ListInv(s.peers),
         \A i \in DOMAIN lk2 : LinkInv(N, [nd EXCEPT ![n] = s], i, lk2[i]),
         \A e \in s.peers : EntryInv(N, n, lk2, e),
         \A m \in Nodes \ {n} : \A e \in nd[m].peers : EntryInv(N, m, lk2, e),
         LossInv(lk2, ls2)
  PROVE  Core(N, [nd EXCEPT ![n] = s], lk2, ls2)
<1> DEFINE nd2 == [nd EXCEPT ![n] = s]
<1>1. /\ N \in Networks /\ DOMAIN nd2 = Nodes
      /\ nd2[n] = s /\ \A m \in Nodes \ {n} : nd2[m] = nd[m]
  BY DEF Core
<1>2. \A m \in Nodes : NodeInv(N, m, nd2[m]) /\ ListInv(nd2[m].peers)
  BY <1>1 DEF Core
<1>3. \A m \in Nodes : \A e \in nd2[m].peers : EntryInv(N, m, lk2, e)
  BY <1>1
<1> HIDE DEF nd2
<1>4. (\A i \in DOMAIN lk2 : LinkInv(N, nd2, i, lk2[i])) /\ LossInv(lk2, ls2)
  BY DEF nd2
<1>5. Core(N, nd2, lk2, ls2)
  BY <1>1, <1>2, <1>3, <1>4 DEF Core
<1> QED
  BY <1>5 DEF nd2

(* A link does not mind what its nodes do, as long as they stay up.        *)
LEMMA LinkUp ==
  ASSUME NEW N, NEW nd, DOMAIN nd = Nodes, NEW n \in Nodes, NEW s, nd[n].up => s.up,
         NEW i, NEW l, LinkInv(N, nd, i, l)
  PROVE  LinkInv(N, [nd EXCEPT ![n] = s], i, l)
<1>1. i[1] \in Nodes
  BY DEF LinkInv, Ids
<1>2. \A m \in Nodes : nd[m].up => [nd EXCEPT ![n] = s][m].up
  OBVIOUS
<1> QED
  BY <1>1, <1>2 DEF LinkInv

(* An entry does not mind what becomes of its link, unless it is connected *)
(* and the link is not.                                                    *)
LEMMA EntryKept ==
  ASSUME NEW N, NEW n, NEW lk, NEW lk2, NEW e, EntryInv(N, n, lk, e), e.id \in DOMAIN lk2,
         lk[e.id].phase \in Connected => lk2[e.id].phase \in Connected,
         lk[e.id].phase = "open" =>
           lk2[e.id].phase = "open" /\ lk2[e.id].dst = lk[e.id].dst,
         e.conn => lk2[e.id].phase \in Connected /\ Side(e) \in lk2[e.id].ends
  PROVE  EntryInv(N, n, lk2, e)
BY DEF EntryInv

(* The links of the invariant.                                             *)
LEMMA CoreIds ==
  ASSUME NEW N, NEW nd, NEW lk, NEW ls, Core(N, nd, lk, ls)
  PROVE  N \in Networks /\ DOMAIN lk \subseteq Ids /\ LossInv(lk, ls)
BY DEF Core, LinkInv

(* Nothing is lost by a step that closes nothing.                          *)
LEMMA LossKept ==
  ASSUME NEW lk, NEW ls, LossInv(lk, ls), NEW lk2,
         \A i \in DOMAIN lk2 : lk2[i].phase \in Connected =>
           \/ lk2[i].ends = Sides
           \/ i \in DOMAIN lk /\ lk2[i].phase = lk[i].phase /\ lk2[i].ends = lk[i].ends
  PROVE  LossInv(lk2, ls)
BY DEF LossInv

-----------------------------------------------------------------------------
(* tryOutConnections *)

(* The links of a pass that begins those named begun.                      *)
WithBegun(lk, begun) ==
  [i \in DOMAIN lk \cup begun |-> IF i \in DOMAIN lk THEN lk[i] ELSE NewLink]

(* The connections that node n begins have names of their own.             *)
FreshIds(n, new, ids, lk) ==
  \A a \in new : ids[a] \notin DOMAIN lk /\ \E k \in 1..Copies : ids[a] = <<n, a, k>>

(* A link that has just been begun.                                        *)
LEMMA NewLinkInv ==
  ASSUME NEW N, NEW nd, NEW n \in Nodes, nd[n].up, NEW a \in Addresses, NEW k \in 1..Copies
  PROVE  LinkInv(N, nd, <<n, a, k>>, NewLink)
<1>1. <<n, a, k>> \in Ids /\ <<n, a, k>>[1] = n
  BY DEF Ids
<1>2. NewLink \in LinkInfos(N, n)
  BY DEF NewLink, LinkInfos, Phases, Sides
<1>3. /\ NewLink.phase = "connecting" /\ NewLink.dst = NoNode /\ NewLink.ends = {"src"}
  BY DEF NewLink
<1> QED
  BY <1>1, <1>2, <1>3 DEF LinkInv, Connected

(* The pass keeps the invariant: every address gets one dial, and a link   *)
(* of its own.                                                             *)
LEMMA TryOutCore ==
  ASSUME NEW N, NEW nd, DOMAIN nd = Nodes, NEW lk, NEW ls, NEW n \in Nodes, NEW s,
         Core(N, [nd EXCEPT ![n] = s], lk, ls), s.up = TRUE, NEW ids, FreshIds(n, Dialled(s), ids, lk),
         NEW begun, begun = {ids[a] : a \in Dialled(s)}
  PROVE  Core(N, [nd EXCEPT ![n] = TryOutConnections(s, ids)], WithBegun(lk, begun), ls)
<1> DEFINE nd1 == [nd EXCEPT ![n] = s]
           t == TryOutConnections(s, ids)
           nd2 == [nd1 EXCEPT ![n] = t]
           lk2 == WithBegun(lk, begun)
           news == {Peer(ids[a], TRUE, a, NoAddr, FALSE) : a \in Dialled(s)}
           cands == [a \in DOMAIN s.cands |-> s.cands[a] - (IF a \in ToTry(s) THEN 1 ELSE 0)]
<1>1. nd2 = [nd EXCEPT ![n] = t]
  OBVIOUS
<1>2. nd1[n] = s /\ DOMAIN nd1 = Nodes
  OBVIOUS
<1> HIDE DEF nd1
<1> Core(N, nd1, lk, ls)
  BY DEF nd1
<1>3. /\ N \in Networks /\ ls \in 0..N.losses /\ ls \in Nat
      /\ NodeInv(N, n, s) /\ ListInv(s.peers) /\ IsNode(s)
  BY <1>2, CoreNode
<1>4. /\ IsNode(t) /\ t.up = s.up /\ t.port = s.port /\ t.peers = s.peers \cup news
      /\ t.cands = cands
  <2>1. t = NodeRec(s.up, s.port, s.peers \cup news, cands)
    BY <1>3, TryOutParts
  <2> HIDE DEF t, news, cands
  <2> QED
    BY <2>1, NodeFields
<1> HIDE DEF t
<1>5. \A a \in Dialled(s) :
        /\ a \in DOMAIN s.cands /\ s.cands[a] > 0 /\ ~IsPeerConnected(s, a, TRUE)
        /\ a \in Addresses
        /\ ids[a][1] = n /\ ids[a][2] = a /\ ids[a] \notin DOMAIN lk
  <2>1. TAKE a \in Dialled(s)
  <2>2. a \in DOMAIN s.cands /\ s.cands[a] > 0 /\ ~IsPeerConnected(s, a, TRUE)
    BY DEF Dialled, ToTry
  <2>4. a \in Addresses
    BY <1>3, <2>2 DEF NodeInv
  <2>5. ids[a][1] = n /\ ids[a][2] = a /\ ids[a] \notin DOMAIN lk
    <3>1. ids[a] \notin DOMAIN lk /\ \E k \in 1..Copies : ids[a] = <<n, a, k>>
      BY DEF FreshIds
    <3> QED
      BY <3>1
  <2> QED
    BY <2>2, <2>4, <2>5, Zenon
<1>6. NodeInv(N, n, t)
  <2>1. \A a \in DOMAIN t.cands : a \in Addresses /\ t.cands[a] \in Nat
    <3>1. TAKE a \in DOMAIN t.cands
    <3>2. a \in DOMAIN s.cands /\ t.cands[a] = s.cands[a] - (IF a \in ToTry(s) THEN 1 ELSE 0)
      BY <1>4
    <3>3. a \in Addresses /\ s.cands[a] \in Nat
      BY <1>3, <3>2 DEF NodeInv
    <3>4. a \in ToTry(s) => s.cands[a] > 0
      BY DEF ToTry
    <3> QED
      BY <3>2, <3>3, <3>4
  <2> QED
    BY <1>3, <1>4, <2>1 DEF NodeInv, IsNode, NodeRec
<1>7. \A e \in news : \E a \in Dialled(s) :
        /\ IsPeer(e) /\ e.id = ids[a] /\ e.out = TRUE /\ e.addr = a
        /\ e.canon = NoAddr /\ e.conn = FALSE
        /\ e = Peer(ids[a], TRUE, a, NoAddr, FALSE)
  <2>1. TAKE e \in news
  <2>2. PICK a \in Dialled(s) : e = Peer(ids[a], TRUE, a, NoAddr, FALSE)
    OBVIOUS
  <2>3. /\ IsPeer(e) /\ e.id = ids[a] /\ e.out = TRUE /\ e.addr = a
        /\ e.canon = NoAddr /\ e.conn = FALSE
    BY <2>2 DEF Peer, IsPeer
  <2> QED
    BY <2>2, <2>3
<1> HIDE DEF news
<1>8. \A e \in s.peers : EntryInv(N, n, lk, e) /\ e.id \in DOMAIN lk
  BY <1>2, CoreNode DEF EntryInv
<1>9. ListInv(t.peers)
  <2> SUFFICES ASSUME NEW e \in t.peers, NEW f \in t.peers
               PROVE  /\ e.id = f.id /\ e.out = f.out => e = f
                      /\ e.out /\ f.out /\ e.addr = f.addr => e = f
    BY DEF ListInv
  <2>1. CASE e \in s.peers /\ f \in s.peers
    BY <1>3, <2>1 DEF ListInv
  <2>2. CASE e \in news /\ f \in news
    <3>1. PICK a \in Dialled(s) : e.id = ids[a] /\ e.addr = a /\ e = Peer(ids[a], TRUE, a, NoAddr, FALSE)
      BY <1>7, <2>2
    <3>2. PICK b \in Dialled(s) : f.id = ids[b] /\ f.addr = b /\ f = Peer(ids[b], TRUE, b, NoAddr, FALSE)
      BY <1>7, <2>2
    <3>3. ids[a][2] = a /\ ids[b][2] = b
      BY <1>5
    <3>4. e.id = f.id => a = b
      BY <3>1, <3>2, <3>3, Zenon
    <3> QED
      BY <3>1, <3>2, <3>4, Zenon
  <2>3. ASSUME NEW p \in s.peers, NEW q \in news
        PROVE  p.id # q.id /\ ~(p.out /\ p.addr = q.addr)
    <3>1. PICK a \in Dialled(s) : q.id = ids[a] /\ q.addr = a
      BY <1>7
    <3>2. p.out \in BOOLEAN
      BY <1>8 DEF EntryInv
    <3> QED
      BY <1>5, <1>8, <3>1, <3>2 DEF IsPeerConnected
  <2> QED
    BY <1>4, <2>1, <2>2, <2>3
<1>10. /\ DOMAIN lk2 = DOMAIN lk \cup begun
       /\ \A i \in DOMAIN lk : lk2[i] = lk[i]
       /\ \A i \in begun : lk2[i] = NewLink
  <2>1. \A i \in begun : i \notin DOMAIN lk
    BY <1>5
  <2> QED
    BY <2>1 DEF WithBegun
<1> HIDE DEF lk2
<1>11. nd2[n] = t /\ nd2[n].up
  BY <1>2, <1>4
<1>12. \A i \in DOMAIN lk2 : LinkInv(N, nd2, i, lk2[i])
  <2>1. ASSUME NEW i \in DOMAIN lk  PROVE LinkInv(N, nd2, i, lk2[i])
    <3>1. LinkInv(N, nd1, i, lk[i])
      BY DEF Core
    <3> QED
      BY <1>2, <1>4, <1>10, <3>1, LinkUp
  <2>2. ASSUME NEW i \in begun  PROVE LinkInv(N, nd2, i, lk2[i])
    <3>1. PICK a \in Dialled(s) : i = ids[a]
      OBVIOUS
    <3>2. PICK k \in 1..Copies : i = <<n, a, k>>
      BY <3>1 DEF FreshIds
    <3>3. a \in Addresses /\ lk2[i] = NewLink
      BY <1>5, <1>10
    <3> HIDE DEF nd2
    <3> QED
      BY <1>11, <3>2, <3>3, NewLinkInv
  <2> QED
    BY <1>10, <2>1, <2>2
<1>13. NewLink.phase = "connecting"
  BY DEF NewLink
<1>14. ASSUME NEW m \in Nodes, NEW e, EntryInv(N, m, lk, e)
       PROVE  EntryInv(N, m, lk2, e)
  <2>1. /\ e.id \in DOMAIN lk
        /\ e.conn => lk[e.id].phase \in Connected /\ Side(e) \in lk[e.id].ends
    BY <1>14 DEF EntryInv
  <2> QED
    BY <1>3, <1>10, <1>14, <2>1, EntryKept
<1>15. \A e \in news : EntryInv(N, n, lk2, e)
  <2>1. TAKE e \in news
  <2>2. PICK a \in Dialled(s) :
          /\ IsPeer(e) /\ e.id = ids[a] /\ e.out = TRUE /\ e.addr = a
          /\ e.canon = NoAddr /\ e.conn = FALSE
    BY <1>7
  <2> QED
    BY <1>5, <1>10, <2>2 DEF EntryInv, IsPeer, Peer, Src, Asked
<1>16. /\ \A e \in t.peers : EntryInv(N, n, lk2, e)
       /\ \A m \in Nodes \ {n} : \A e \in nd1[m].peers : EntryInv(N, m, lk2, e)
  BY <1>4, <1>8, <1>14, <1>15, CoreNode
<1>17. LossInv(lk2, ls)
  <2>1. \A i \in DOMAIN lk2 : lk2[i].phase \in Connected =>
          i \in DOMAIN lk /\ lk2[i].phase = lk[i].phase /\ lk2[i].ends = lk[i].ends
    BY <1>10, <1>13 DEF Connected
  <2> QED
    BY <2>1, LossKept, CoreIds
<1>18. Core(N, nd2, lk2, ls)
  BY <1>3, <1>6, <1>9, <1>12, <1>16, <1>17, StepCore
<1> QED
  BY <1>1, <1>18 DEF lk2, t

(* The pass leaves nothing untried that has tries left.                    *)
LEMMA TryOutTried ==
  ASSUME NEW s, IsNode(s), \A a \in DOMAIN s.cands : s.cands[a] \in Nat,
         NEW ids, SpentTried(s)
  PROVE  AllTried(TryOutConnections(s, ids))
<1> DEFINE t == TryOutConnections(s, ids)
           news == {Peer(ids[a], TRUE, a, NoAddr, FALSE) : a \in Dialled(s)}
           cands == [a \in DOMAIN s.cands |-> s.cands[a] - (IF a \in ToTry(s) THEN 1 ELSE 0)]
<1>1. t = NodeRec(s.up, s.port, s.peers \cup news, cands)
  BY TryOutParts
<1>2. t.port = s.port /\ t.peers = s.peers \cup news /\ t.cands = cands
  <2> HIDE DEF t, news, cands
  <2> QED
    BY <1>1, NodeFields
<1>3. DOMAIN t.cands = DOMAIN s.cands
  BY <1>2
<1> HIDE DEF t, cands
<1>4. ASSUME NEW a \in DOMAIN s.cands  PROVE Tried(t, a)
  <2>1. CASE IsSelf(s, a)
    BY <1>2, <2>1 DEF Tried, IsSelf
  <2>2. CASE IsPeerConnected(s, a, TRUE)
    BY <1>2, <2>2 DEF Tried, IsPeerConnected
  <2>3. CASE ~IsSelf(s, a) /\ ~IsPeerConnected(s, a, TRUE)
    <3>1. s.cands[a] > 0
      <4>1. s.cands[a] # 0
        BY <1>4, <2>3 DEF SpentTried, Tried
      <4> QED
        BY <1>4, <4>1
    <3>2. a \in Dialled(s)
      BY <1>4, <2>3, <3>1, Zenon DEF Dialled, ToTry
    <3>3. PICK e \in t.peers : e = Peer(ids[a], TRUE, a, NoAddr, FALSE)
      BY <1>2, <3>2
    <3>4. e.out = TRUE /\ e.addr = a
      BY <3>3 DEF Peer
    <3> QED
      BY <3>4, Zenon DEF Tried, IsPeerConnected
  <2> QED
    BY <2>1, <2>2, <2>3
<1> QED
  BY <1>3, <1>4 DEF AllTried, t

(* The whole of it: what a handler left is as good as the state before.    *)
LEMMA TryOutStep ==
  ASSUME NEW n \in Nodes, NEW s, NEW links, DOMAIN node = Nodes, DOMAIN links = Links,
         Core(net, [node EXCEPT ![n] = s], links, lost), s.up = TRUE,
         HeardInv(node, lost), lost = 0 => SpentTried(s),
         TryOut(n, s, links), UNCHANGED <<net, lost>>
  PROVE  IndInv'
<1> DEFINE ids == [a \in Dialled(s) |-> <<n, a, CHOOSE k \in Unused(n, a) : TRUE>>]
           t == TryOutConnections(s, ids)
           begun == {ids[a] : a \in Dialled(s)}
           Pass(r) ==
             LET new == Dialled(r)
                 names == [a \in new |-> <<n, a, CHOOSE k \in Unused(n, a) : TRUE>>]
                 opened == {names[a] : a \in new}
             IN  /\ \A a \in new : Unused(n, a) # {}
                 /\ node' = [node EXCEPT ![n] = TryOutConnections(r, names)]
                 /\ link' = [i \in Links \cup opened |-> IF i \in Links THEN links[i] ELSE NewLink]
<1>1. /\ \A a \in Dialled(s) : Unused(n, a) # {}
      /\ node' = [node EXCEPT ![n] = t]
      /\ link' = [i \in Links \cup begun |-> IF i \in Links THEN links[i] ELSE NewLink]
  <2>1. \E r \in {s} : Pass(r)
    BY DEF TryOut
  <2>2. Pass(s)
    <3> HIDE DEF Pass
    <3> QED
      BY <2>1
  <2> QED
    BY <2>2
<1>2. link' = WithBegun(links, begun)
  BY <1>1 DEF WithBegun
<1>3. FreshIds(n, Dialled(s), ids, links)
  <2>1. ASSUME NEW a \in Dialled(s)
        PROVE  ids[a] \notin DOMAIN links /\ \E k \in 1..Copies : ids[a] = <<n, a, k>>
    <3>1. PICK k : k = CHOOSE j \in Unused(n, a) : TRUE
      OBVIOUS
    <3>2. k \in Unused(n, a)
      BY <1>1, <3>1
    <3>3. k \in 1..Copies /\ <<n, a, k>> \notin Links
      BY <3>2 DEF Unused
    <3> QED
      BY <3>1, <3>3
  <2> HIDE DEF ids
  <2> QED
    BY <2>1 DEF FreshIds
<1> HIDE DEF ids
<1>4. Core(net, [node EXCEPT ![n] = t], WithBegun(links, begun), lost)
  <2>1. begun = {ids[a] : a \in Dialled(s)}
    OBVIOUS
  <2> HIDE DEF begun
  <2> QED
    BY <1>3, <2>1, TryOutCore
<1>5. lost = 0 => AllTried(t)
  <2>1. [node EXCEPT ![n] = s][n] = s
    OBVIOUS
  <2>2. NodeInv(net, n, s) /\ IsNode(s)
    BY <2>1, CoreNode
  <2>3. \A a \in DOMAIN s.cands : s.cands[a] \in Nat
    BY <2>2 DEF NodeInv
  <2> QED
    BY <2>2, <2>3, TryOutTried
<1>6. HeardInv([node EXCEPT ![n] = t], lost)
  <2> HIDE DEF t
  <2>1. \A m \in Nodes : [node EXCEPT ![n] = t][m] = IF m = n THEN t ELSE node[m]
    OBVIOUS
  <2> QED
    BY <1>5, <2>1 DEF HeardInv
<1> QED
  BY <1>1, <1>2, <1>4, <1>6 DEF IndInv

-----------------------------------------------------------------------------
(* Steps that leave the links as they are, but for what is on its way      *)

SameLinks(lk, lk2) ==
  /\ DOMAIN lk2 = DOMAIN lk
  /\ \A i \in DOMAIN lk : /\ lk2[i].phase = lk[i].phase
                          /\ lk2[i].dst = lk[i].dst /\ lk2[i].ends = lk[i].ends

(* An entry sees nothing of what is on its way.                            *)
LEMMA SameLinksEntry ==
  ASSUME NEW N, NEW n, NEW lk, NEW e, EntryInv(N, n, lk, e),
         NEW lk2, SameLinks(lk, lk2)
  PROVE  EntryInv(N, n, lk2, e)
BY DEF EntryInv, SameLinks

(* A handler of node n that changes the candidates or an entry of it.      *)
LEMMA NodeCore ==
  ASSUME NEW N, NEW nd, NEW lk, NEW ls, Core(N, nd, lk, ls), NEW n \in Nodes, NEW s, NEW lk2,
         SameLinks(lk, lk2), \A i \in DOMAIN lk2 : LinkInv(N, nd, i, lk2[i]),
         NodeInv(N, n, s), ListInv(s.peers), nd[n].up => s.up,
         \A e \in s.peers : EntryInv(N, n, lk, e)
  PROVE  Core(N, [nd EXCEPT ![n] = s], lk2, ls)
<1>1. DOMAIN nd = Nodes /\ ls \in 0..N.losses
  BY CoreNode
<1>2. \A i \in DOMAIN lk2 : LinkInv(N, [nd EXCEPT ![n] = s], i, lk2[i])
  BY <1>1, LinkUp
<1>3. \A e \in s.peers : EntryInv(N, n, lk2, e)
  BY SameLinksEntry
<1>4. \A m \in Nodes \ {n} : \A e \in nd[m].peers : EntryInv(N, m, lk2, e)
  BY CoreNode, SameLinksEntry
<1>5. LossInv(lk2, ls)
  BY CoreIds, LossKept DEF SameLinks
<1> QED
  BY <1>1, <1>2, <1>3, <1>4, <1>5, StepCore

(* A handler that only sends or takes a message.                           *)
LEMMA InboxCore ==
  ASSUME NEW N, NEW nd, NEW lk, NEW ls, Core(N, nd, lk, ls), NEW lk2,
         SameLinks(lk, lk2), \A i \in DOMAIN lk2 : LinkInv(N, nd, i, lk2[i])
  PROVE  Core(N, nd, lk2, ls)
<1>1. \A n \in Nodes : \A e \in nd[n].peers : EntryInv(N, n, lk2, e)
  BY CoreNode, SameLinksEntry
<1>2. LossInv(lk2, ls)
  BY CoreIds, LossKept DEF SameLinks
<1> QED
  BY <1>1, <1>2 DEF Core

(* The link l with another stream of messages is k.                        *)
NewStream(N, i, l, k) ==
  \/ \E v \in Seq(Announcements) : k = [l EXCEPT !.toSrc = v]
  \/ \E v \in Seq(Announcements \cup Greetings(N, i[1])) : k = [l EXCEPT !.toDst = v]

LEMMA StreamLink ==
  ASSUME NEW N, NEW nd, NEW lk, NEW ls, Core(N, nd, lk, ls), NEW i \in DOMAIN lk,
         NEW lk2, DOMAIN lk2 = DOMAIN lk, \A j \in DOMAIN lk : j # i => lk2[j] = lk[j],
         NewStream(N, i, lk[i], lk2[i])
  PROVE  SameLinks(lk, lk2) /\ \A j \in DOMAIN lk2 : LinkInv(N, nd, j, lk2[j])
<1>1. LinkInv(N, nd, i, lk[i]) /\ lk[i] \in LinkInfos(N, i[1])
  BY DEF Core, LinkInv
<1>2. /\ lk2[i] \in LinkInfos(N, i[1]) /\ lk2[i].phase = lk[i].phase
      /\ lk2[i].dst = lk[i].dst /\ lk2[i].ends = lk[i].ends
  BY <1>1 DEF LinkInfos, NewStream
<1>3. LinkInv(N, nd, i, lk2[i])
  BY <1>1, <1>2 DEF LinkInv
<1>4. SameLinks(lk, lk2)
  BY <1>2 DEF SameLinks
<1>5. \A j \in DOMAIN lk2 : LinkInv(N, nd, j, lk2[j])
  BY <1>3 DEF Core
<1> QED
  BY <1>4, <1>5

-----------------------------------------------------------------------------
(* What the handlers make of a node *)

(* One entry is replaced by another of the same connection.                *)
LEMMA ListReplaced ==
  ASSUME NEW P, ListInv(P), NEW e \in P, NEW f,
         f.id = e.id, f.out = e.out, f.addr = e.addr
  PROVE  ListInv((P \ {e}) \cup {f})
BY DEF ListInv

(* Addresses that were heard of become candidates.                         *)
LEMMA AddNode ==
  ASSUME NEW N, NEW n \in Nodes, NEW s, NodeInv(N, n, s), s.up = TRUE,
         NEW as \in SUBSET Addresses
  PROVE  LET t == AddCandidates(s, as, 1)
         IN  /\ NodeInv(N, n, t) /\ t.up = TRUE /\ t.peers = s.peers
             /\ AllTried(s) => SpentTried(t)
<1> DEFINE k == 1
           t == AddCandidates(s, as, k)
<1> HIDE DEF k
<1>1. IsNode(s) /\ s.port = N.port[n]
  BY DEF NodeInv, IsNode, NodeRec
<1> DEFINE c == Over([a \in as |-> k], s.cands)
<1>2. t = NodeRec(s.up, s.port, s.peers, c)
  BY <1>1, AddParts
<1>3. ASSUME NEW a \in DOMAIN c
      PROVE  \/ a \in as /\ c[a] = k
             \/ a \in DOMAIN s.cands /\ c[a] = s.cands[a]
  BY DEF Over
<1> HIDE DEF c, t
<1>4. IsNode(t) /\ t.up = s.up /\ t.port = s.port /\ t.peers = s.peers /\ t.cands = c
  BY <1>2, NodeFields
<1>5. NodeInv(N, n, t)
  <2>1. ASSUME NEW a \in DOMAIN c
        PROVE  a \in Addresses /\ c[a] \in Nat
    <3>1. CASE a \in as /\ c[a] = k
      <4>1. k \in Nat
        BY DEF k
      <4> QED
        BY <3>1, <4>1
    <3>2. CASE a \in DOMAIN s.cands /\ c[a] = s.cands[a]
      BY <3>2 DEF NodeInv
    <3> QED
      BY <1>3, <2>1, <3>1, <3>2
  <2> QED
    BY <1>4, <2>1 DEF NodeInv, IsNode, NodeRec
<1>6. ASSUME AllTried(s)  PROVE SpentTried(t)
  <2>1. ASSUME NEW a \in DOMAIN c, c[a] = 0  PROVE Tried(t, a)
    <3>1. a \in DOMAIN s.cands
      <4>1. k # 0
        BY DEF k
      <4> QED
        BY <1>3, <2>1, <4>1, Zenon
    <3>2. Tried(s, a)
      BY <1>6, <3>1 DEF AllTried
    <3> QED
      BY <1>4, <3>2, Zenon DEF Tried, IsSelf, IsPeerConnected
  <2> QED
    BY <1>4, <2>1 DEF SpentTried
<1> QED
  BY <1>4, <1>5, <1>6 DEF t, k

(* The canonical addresses that are passed on can be asked for.            *)
LEMMA OthersAddresses ==
  ASSUME NEW N \in Networks, NEW n, NEW lk, DOMAIN lk \subseteq Ids, NEW s, NEW e,
         \A p \in s.peers : EntryInv(N, n, lk, p)
  PROVE  /\ OtherPeers(s, e) \subseteq Addresses
         /\ OPeers(OtherPeers(s, e)) \in Seq(Announcements)
<1>1. OtherPeers(s, e) \subseteq Addresses
  <2>1. \A p \in s.peers : p.canon \in Addresses \cup {NoAddr}
    BY CanonicalAddress DEF EntryInv
  <2> QED
    BY <2>1 DEF OtherPeers
<1> DEFINE as == OtherPeers(s, e)
<1> HIDE DEF as
<1>2. as \subseteq Addresses
  BY <1>1 DEF as
<1> DEFINE m == [type |-> "OPEER", addrs |-> as]
<1>3. m \in Announcements
  BY <1>2 DEF Announcements
<1> HIDE DEF m
<1>4. OPeers(as) \in Seq(Announcements)
  <2>1. <<>> \in Seq(Announcements) /\ <<m>> \in Seq(Announcements)
    BY <1>3
  <2>2. OPeers(as) = IF as = {} THEN <<>> ELSE <<m>>
    BY DEF OPeers, m
  <2> QED
    BY <2>1, <2>2
<1> QED
  BY <1>1, <1>4 DEF as

(* An entry is replaced by one that answers to the same addresses, and     *)
(* perhaps to one more: what was tried still is.                           *)
LEMMA ReplacedTried ==
  ASSUME NEW N \in Networks, NEW n \in Nodes, NEW s, NodeInv(N, n, s), AllTried(s),
         NEW e \in s.peers, NEW f, f.out = e.out, f.addr = e.addr,
         e.out = TRUE => e.canon \in {NoAddr, f.canon},
         NEW t, t.port = s.port, t.cands = s.cands, t.peers = (s.peers \ {e}) \cup {f}
  PROVE  AllTried(t)
<1> SUFFICES ASSUME NEW a \in DOMAIN s.cands  PROVE Tried(t, a)
  BY DEF AllTried
<1>1. a # NoAddr
  BY RealAddress DEF NodeInv
<1>2. Tried(s, a)
  BY DEF AllTried
<1>3. CASE IsSelf(s, a)
  BY <1>3 DEF Tried, IsSelf
<1>4. CASE IsPeerConnected(s, a, TRUE)
  <2>1. PICK p \in s.peers : p.out = TRUE /\ a \in {p.addr, p.canon}
    BY <1>4 DEF IsPeerConnected
  <2>2. \E q \in t.peers : q.out = TRUE /\ a \in {q.addr, q.canon}
    <3>1. CASE p = e
      <4>1. f.out = TRUE /\ a \in {f.addr, f.canon} /\ f \in t.peers
        BY <1>1, <2>1, <3>1
      <4> QED
        BY <4>1
    <3>2. CASE p # e
      BY <2>1, <3>2
    <3> QED
      BY <3>1, <3>2
  <2> QED
    BY <2>2 DEF Tried, IsPeerConnected
<1> QED
  BY <1>2, <1>3, <1>4 DEF Tried

(* A step of node n and of the link i.                                     *)
LEMMA LinkNodeCore ==
  ASSUME NEW N, NEW nd, NEW lk, NEW ls, Core(N, nd, lk, ls), NEW n \in Nodes, NEW s,
         NEW i \in DOMAIN lk, NEW l, NEW ls2 \in 0..N.losses, ls <= ls2,
         NodeInv(N, n, s), ListInv(s.peers), nd[n].up => s.up,
         LinkInv(N, [nd EXCEPT ![n] = s], i, l),
         lk[i].phase \in Connected => l.phase \in Connected,
         lk[i].phase = "open" => l.phase = "open" /\ l.dst = lk[i].dst,
         \A e \in s.peers : EntryInv(N, n, [lk EXCEPT ![i] = l], e),
         \A m \in Nodes \ {n} : \A e \in nd[m].peers :
           e.id = i /\ e.conn => l.phase \in Connected /\ Side(e) \in l.ends,
         LossInv([lk EXCEPT ![i] = l], ls2)
  PROVE  Core(N, [nd EXCEPT ![n] = s], [lk EXCEPT ![i] = l], ls2)
<1> DEFINE lk2 == [lk EXCEPT ![i] = l]
<1>1. DOMAIN lk2 = DOMAIN lk /\ lk2[i] = l /\ \A j \in DOMAIN lk : j # i => lk2[j] = lk[j]
  OBVIOUS
<1>2. DOMAIN nd = Nodes /\ ls \in 0..N.losses /\ ls \in Nat /\ ls2 \in Nat
  BY CoreNode
<1> HIDE DEF lk2
<1>3. \A j \in DOMAIN lk2 : LinkInv(N, [nd EXCEPT ![n] = s], j, lk2[j])
  <2>1. \A j \in DOMAIN lk : LinkInv(N, [nd EXCEPT ![n] = s], j, lk[j])
    BY <1>2, LinkUp DEF Core
  <2> QED
    BY <1>1, <2>1
<1>4. ASSUME NEW m \in Nodes \ {n}, NEW e \in nd[m].peers
      PROVE  EntryInv(N, m, lk2, e)
  <2>1. EntryInv(N, m, lk, e)
    BY CoreNode
  <2>2. /\ e.id \in DOMAIN lk
        /\ e.conn => lk[e.id].phase \in Connected /\ Side(e) \in lk[e.id].ends
    BY <2>1 DEF EntryInv
  <2> QED
    BY <1>1, <1>2, <2>1, <2>2, EntryKept
<1>5. Core(N, [nd EXCEPT ![n] = s], lk2, ls2)
  BY <1>3, <1>4, StepCore DEF lk2
<1> QED
  BY <1>5 DEF lk2

LEMMA StepHeard ==
  ASSUME NEW nd, NEW ls, HeardInv(nd, ls), DOMAIN nd = Nodes, NEW n \in Nodes, NEW s,
         ls = 0 /\ s.up => AllTried(s)
  PROVE  HeardInv([nd EXCEPT ![n] = s], ls)
<1>1. \A m \in Nodes : [nd EXCEPT ![n] = s][m] = IF m = n THEN s ELSE nd[m]
  OBVIOUS
<1> QED
  BY <1>1 DEF HeardInv

-----------------------------------------------------------------------------
(* The ends of a link *)

(* An end has one entry at most, at the node that owns it.                 *)
LEMMA EntryOf ==
  ASSUME IndInv, NEW i \in Links, NEW d \in Sides, NEW e \in Entries(i, d)
  PROVE  /\ Owner(i, d) \in Nodes /\ node[Owner(i, d)].up = TRUE
         /\ e \in node[Owner(i, d)].peers /\ IsPeer(e)
         /\ EntryInv(net, Owner(i, d), link, e)
         /\ e.id = i /\ Side(e) = d
         /\ (d = "src" => e.out = TRUE) /\ (d = "dst" => e.out = FALSE)
         /\ Entry(i, d) = e /\ Entries(i, d) = {e}
<1>0. Core(net, node, link, lost)
  BY DEF IndInv
<1>1. LinkInv(net, node, i, link[i])
  BY <1>0 DEF Core, Links
<1>2. Owner(i, d) \in Nodes /\ node[Owner(i, d)].up
  BY <1>1 DEF LinkInv, Ids, LinkInfos, Owner, Src, Entries, Sides
<1>3. \A n \in Nodes : node[n].up \in BOOLEAN
  BY <1>0 DEF Core, NodeInv
<1>4. node[Owner(i, d)].up = TRUE
  BY <1>2, <1>3
<1>5. /\ e \in node[Owner(i, d)].peers /\ e.id = i /\ e.out = (d = "src")
      /\ (d = "src" => e.out = TRUE) /\ (d = "dst" => e.out = FALSE)
  BY DEF Entries
<1>6. Side(e) = d
  BY <1>5 DEF Side, Sides
<1>7. EntryInv(net, Owner(i, d), link, e) /\ IsPeer(e) /\ ListInv(node[Owner(i, d)].peers)
  BY <1>0, <1>2, <1>5, CoreNode
<1>8. ASSUME NEW p \in Entries(i, d)  PROVE p = e
  <2>1. p \in node[Owner(i, d)].peers /\ p.id = i /\ p.out = (d = "src")
    BY DEF Entries
  <2> QED
    BY <1>5, <1>7, <2>1 DEF ListInv
<1>9. Entries(i, d) = {e}
  BY <1>8
<1>10. Entry(i, d) = e
  BY <1>9 DEF Entry
<1> QED
  BY <1>2, <1>4, <1>5, <1>6, <1>7, <1>9, <1>10

LEMMA LinkFacts ==
  ASSUME IndInv, NEW i \in Links
  PROVE  /\ Core(net, node, link, lost) /\ HeardInv(node, lost)
         /\ net \in Networks /\ lost \in 0..net.losses /\ lost \in Nat /\ net.losses \in Nat
         /\ DOMAIN node = Nodes
         /\ LinkInv(net, node, i, link[i]) /\ i \in Ids /\ link[i] \in LinkInfos(net, i[1])
<1>1. Core(net, node, link, lost) /\ HeardInv(node, lost)
  BY DEF IndInv
<1>2. net \in Networks /\ lost \in 0..net.losses /\ DOMAIN node = Nodes
  BY <1>1 DEF Core
<1>3. net.losses \in Nat
  BY <1>2, NetworksAssumption
<1>4. LinkInv(net, node, i, link[i])
  BY <1>1 DEF Core, Links
<1> QED
  BY <1>1, <1>2, <1>3, <1>4 DEF LinkInv

-----------------------------------------------------------------------------
(* Connecting *)

(* start: nothing was tried, but everything has tries left.                *)
LEMMA StartStep ==
  ASSUME IndInv, NEW n \in Nodes, Start(n)
  PROVE  IndInv'
<1> DEFINE s == [node[n] EXCEPT !.up = TRUE]
<1>1. Core(net, node, link, lost) /\ HeardInv(node, lost)
  BY DEF IndInv
<1>2. /\ DOMAIN node = Nodes /\ NodeInv(net, n, node[n]) /\ ListInv(node[n].peers)
      /\ IsNode(node[n]) /\ \A e \in node[n].peers : EntryInv(net, n, link, e)
  BY <1>1, CoreNode
<1>3. n \in net.nodes /\ ~node[n].up /\ TryOut(n, s, link) /\ UNCHANGED <<net, lost>>
  BY DEF Start
<1>4. s = NodeRec(TRUE, node[n].port, node[n].peers, node[n].cands)
  BY <1>2, NodeUpdate, Zenon
<1> HIDE DEF s
<1>5. /\ IsNode(s) /\ s.up = TRUE /\ s.port = node[n].port
      /\ s.peers = node[n].peers /\ s.cands = node[n].cands
  BY <1>4 DEF IsNode, NodeRec
<1>6. NodeInv(net, n, s)
  <2>1. \A a \in DOMAIN s.cands : a \in Addresses /\ s.cands[a] \in Nat
    BY <1>2, <1>5 DEF NodeInv
  <2>2. s.port = net.port[n]
    BY <1>2, <1>5 DEF NodeInv
  <2> QED
    BY <1>3, <1>5, <2>1, <2>2 DEF NodeInv, IsNode, NodeRec
<1>7. Core(net, [node EXCEPT ![n] = s], link, lost)
  <2>1. SameLinks(link, link)
    BY DEF SameLinks
  <2>2. \A i \in DOMAIN link : LinkInv(net, node, i, link[i])
    BY <1>1 DEF Core
  <2> QED
    BY <1>1, <1>2, <1>5, <1>6, <2>1, <2>2, NodeCore
<1>8. SpentTried(s)
  <2>1. \A a \in DOMAIN s.cands : s.cands[a] > 0
    BY <1>2, <1>3, <1>5 DEF NodeInv
  <2> QED
    BY <2>1 DEF SpentTried
<1> QED
  BY <1>1, <1>2, <1>3, <1>5, <1>7, <1>8, TryOutStep DEF Links

(* onConnect with an error: nobody learns of it.                           *)
LEMMA ConnectFailsStep ==
  ASSUME IndInv, NEW i \in Links, ConnectFails(i)
  PROVE  IndInv'
<1> DEFINE l == [link[i] EXCEPT !.phase = "failed"]
           lk2 == [link EXCEPT ![i] = l]
<1>1. /\ link[i].phase = "connecting" /\ link' = lk2
      /\ UNCHANGED <<net, node>> /\ (lost' = lost \/ (lost < net.losses /\ lost' = lost + 1))
  BY DEF ConnectFails
<1>2. /\ Core(net, node, link, lost) /\ HeardInv(node, lost)
      /\ lost \in 0..net.losses /\ net.losses \in Nat
      /\ LinkInv(net, node, i, link[i]) /\ link[i] \in LinkInfos(net, i[1])
  BY LinkFacts
<1>3. /\ l \in LinkInfos(net, i[1]) /\ l.phase = "failed"
      /\ l.dst = link[i].dst /\ l.ends = link[i].ends
  BY <1>2 DEF LinkInfos, Phases
<1> HIDE DEF l
<1>4. LinkInv(net, node, i, l)
  BY <1>1, <1>2, <1>3 DEF LinkInv, Connected
<1>5. DOMAIN lk2 = Links /\ lk2[i] = l /\ \A j \in Links : j # i => lk2[j] = link[j]
  BY DEF Links
<1> HIDE DEF lk2
<1>6. \A j \in DOMAIN lk2 : LinkInv(net, node, j, lk2[j])
  BY <1>2, <1>4, <1>5 DEF Core, Links
<1>7. ASSUME NEW n \in Nodes, NEW e \in node[n].peers
      PROVE  EntryInv(net, n, lk2, e)
  <2>1. EntryInv(net, n, link, e)
    BY <1>2, CoreNode
  <2>2. /\ e.id \in Links
        /\ e.conn => link[e.id].phase \in Connected /\ Side(e) \in link[e.id].ends
    BY <2>1 DEF EntryInv, Links
  <2>3. e.conn => e.id # i
    BY <1>1, <2>2 DEF Connected
  <2>4. e.id = i => link[e.id].phase \notin Connected /\ link[e.id].phase # "open"
    BY <1>1 DEF Connected
  <2> QED
    BY <1>5, <2>1, <2>2, <2>3, <2>4, EntryKept
<1>8. lost' \in 0..net.losses /\ (lost' = 0 => lost = 0)
  BY <1>1, <1>2
<1>9. LossInv(lk2, lost')
  <2>1. LossInv(link, lost)
    BY <1>2, CoreIds
  <2> QED
    BY <1>3, <1>5, <1>8, <2>1 DEF LossInv, Connected, Links
<1>10. Core(net, node, lk2, lost')
  BY <1>2, <1>6, <1>7, <1>8, <1>9 DEF Core
<1>11. HeardInv(node, lost')
  BY <1>2, <1>8 DEF HeardInv
<1> QED
  BY <1>1, <1>10, <1>11 DEF IndInv

(* onConnect: the entry goes by the address asked for and by that of the   *)
(* node that answered.                                                     *)
LEMMA ConnectDoneStep ==
  ASSUME IndInv, NEW i \in Links, ConnectDone(i)
  PROVE  IndInv'
<1> DEFINE n == Src(i)
           e == Entry(i, "src")
           remote == RemoteHost(Asked(i))
           s == OutConnected(node[n], e, remote)
           c == CanonSeen(e, remote)
           f == Peer(e.id, e.out, e.addr, c, TRUE)
<1> DEFINE Sent(m, p, toDst) ==
             /\ toDst = OPeers(OtherPeers(s, p)) \o HandSh(s.port) \o OPeers(OtherPeers(s, p))
             /\ node' = [node EXCEPT ![n] = s]
             /\ link' = [link EXCEPT ![i] = [phase |-> "backlog", dst |-> m, ends |-> Sides,
                                             toSrc |-> <<>>, toDst |-> toDst]]
<1>0. PICK m \in Reached(n, Asked(i)) : \E p, toDst : Sent(m, p, toDst)
  BY Zenon DEF ConnectDone
<1>1. PICK p, toDst : Sent(m, p, toDst)
  BY <1>0
<1>2. link[i].phase = "connecting" /\ Entries(i, "src") # {} /\ UNCHANGED <<net, lost>>
  BY DEF ConnectDone
<1>3. /\ Core(net, node, link, lost) /\ HeardInv(node, lost)
      /\ net \in Networks /\ lost \in 0..net.losses /\ lost \in Nat /\ DOMAIN node = Nodes
      /\ LinkInv(net, node, i, link[i]) /\ link[i] \in LinkInfos(net, i[1])
  BY LinkFacts
<1>4. /\ n \in Nodes /\ node[n].up = TRUE /\ e \in node[n].peers /\ IsPeer(e)
      /\ EntryInv(net, n, link, e) /\ e.id = i /\ e.out = TRUE
  <2>1. "src" \in Sides
    BY DEF Sides
  <2>2. PICK q \in Entries(i, "src") : TRUE
    BY <1>2
  <2>3. Owner(i, "src") = n
    BY DEF Owner
  <2>4. e = q
    BY <2>1, <2>2, EntryOf
  <2> HIDE DEF n, e
  <2> QED
    BY <2>1, <2>2, <2>3, <2>4, EntryOf
<1>5. /\ NodeInv(net, n, node[n]) /\ ListInv(node[n].peers) /\ IsNode(node[n])
      /\ \A q \in node[n].peers : EntryInv(net, n, link, q)
  BY <1>3, <1>4, CoreNode
<1>6. s = NodeRec(node[n].up, node[n].port, (node[n].peers \ {e}) \cup {f}, node[n].cands)
  BY <1>4, <1>5, OutConnectedParts, Zenon
<1> HIDE DEF n, e, remote, s, c
<1>7. /\ f.id = i /\ f.out = TRUE /\ f.addr = e.addr /\ f.canon = c /\ f.conn = TRUE
      /\ f.id = e.id /\ f.out = e.out /\ IsPeer(f)
  BY <1>4 DEF Peer, IsPeer
<1> HIDE DEF f
<1>8. /\ IsNode(s) /\ s.up = TRUE /\ s.port = node[n].port /\ s.cands = node[n].cands
      /\ s.peers = (node[n].peers \ {e}) \cup {f}
  BY <1>4, <1>6, NodeFields
<1>9. NodeInv(net, n, s)
  BY <1>4, <1>5, <1>8 DEF NodeInv, IsNode, NodeRec
<1>10. ListInv(s.peers)
  BY <1>4, <1>5, <1>7, <1>8, ListReplaced
<1>11. c \in {NoAddr, <<RemoteHost(e.addr), e.addr[2]>>}
  <2>1. e.addr = Asked(i)
    BY <1>4 DEF EntryInv
  <2> QED
    BY <2>1 DEF c, CanonSeen, remote
<1> DEFINE l == [phase |-> "backlog", dst |-> m, ends |-> Sides,
                 toSrc |-> <<>>, toDst |-> toDst]
<1>12. link' = [link EXCEPT ![i] = l]
  BY <1>1
<1>13. l.phase = "backlog" /\ l.dst = m /\ l.ends = Sides
  OBVIOUS
<1>14. ASSUME NEW q \in s.peers  PROVE EntryInv(net, n, [link EXCEPT ![i] = l], q)
  <2> DEFINE lk2 == [link EXCEPT ![i] = l]
  <2>1. DOMAIN lk2 = Links /\ lk2[i] = l /\ \A j \in Links : j # i => lk2[j] = link[j]
    BY DEF Links
  <2> HIDE DEF lk2, l
  <2>2. CASE q \in node[n].peers /\ q # e
    <3>1. EntryInv(net, n, link, q)
      BY <1>5, <2>2
    <3>2. /\ q.id \in Links
          /\ q.conn => link[q.id].phase \in Connected /\ Side(q) \in link[q.id].ends
      BY <3>1 DEF EntryInv, Links
    <3>3. q.conn => q.id # i
      BY <1>2, <3>2 DEF Connected
    <3>4. q.id = i => link[q.id].phase \notin Connected /\ link[q.id].phase # "open"
      BY <1>2 DEF Connected
    <3>5. EntryInv(net, n, lk2, q)
      BY <2>1, <3>1, <3>2, <3>3, <3>4, EntryKept
    <3> QED
      BY <3>5 DEF lk2
  <2>3. CASE q = f
    <3>1. n = Src(i) /\ e.addr = Asked(i)
      BY <1>4 DEF EntryInv
    <3>2. EntryInv(net, n, lk2, f)
      BY <1>4, <1>7, <1>11, <1>13, <2>1, <3>1
         DEF EntryInv, IsPeer, Peer, Connected, Side, Sides
    <3> QED
      BY <2>3, <3>2 DEF lk2
  <2> QED
    BY <1>8, <2>2, <2>3
<1>15. LinkInv(net, [node EXCEPT ![n] = s], i, l)
  <2>1. m \in Nodes /\ node[m].up /\ At(net, i[1], m, i[2])
    BY <1>1 DEF Reached, n, Src, Asked
  <2>2. s.port = net.port[i[1]] /\ n = i[1]
    BY <1>9 DEF NodeInv, n, Src
  <2>3. OPeers(OtherPeers(s, p)) \in Seq(Announcements)
    BY <1>3, <1>14, CoreIds, OthersAddresses
  <2>4. HandSh(s.port) \in Seq(Greetings(net, i[1]))
    BY <2>2 DEF HandSh, Greetings
  <2>5. toDst \in Seq(Announcements \cup Greetings(net, i[1]))
    BY <1>1, <2>3, <2>4
  <2>6. l \in LinkInfos(net, i[1])
    BY <1>3, <2>1, <2>5 DEF LinkInfos, Phases
  <2> HIDE DEF l
  <2>7. LinkInv(net, node, i, l)
    BY <1>3, <1>13, <2>1, <2>6 DEF LinkInv, Connected, Sides
  <2> QED
    BY <1>3, <1>4, <1>8, <2>7, LinkUp
<1> HIDE DEF l
<1>16. LossInv([link EXCEPT ![i] = l], lost)
  <2> DEFINE lk2 == [link EXCEPT ![i] = l]
  <2>1. DOMAIN lk2 = Links /\ lk2[i] = l /\ \A j \in Links : j # i => lk2[j] = link[j]
    BY DEF Links
  <2> HIDE DEF lk2
  <2>2. \A j \in DOMAIN lk2 : lk2[j].phase \in Connected =>
          \/ lk2[j].ends = Sides
          \/ j \in DOMAIN link /\ lk2[j].phase = link[j].phase /\ lk2[j].ends = link[j].ends
    BY <1>13, <2>1 DEF Links
  <2>3. LossInv(lk2, lost)
    BY <1>3, <2>2, CoreIds, LossKept
  <2> QED
    BY <2>3 DEF lk2
<1>17. Core(net, [node EXCEPT ![n] = s], [link EXCEPT ![i] = l], lost)
  <2>1. \A k \in Nodes \ {n} : \A q \in node[k].peers :
          q.id = i /\ q.conn => l.phase \in Connected /\ Side(q) \in l.ends
    BY <1>13 DEF Connected, Side, Sides
  <2>2. /\ i \in DOMAIN link /\ lost <= lost
        /\ node[n].up => s.up
        /\ link[i].phase \in Connected => l.phase \in Connected
        /\ link[i].phase = "open" => l.phase = "open" /\ l.dst = link[i].dst
    BY <1>2, <1>3, <1>8, <1>13 DEF Links, Connected
  <2>3. ListInv(s.peers)
    BY <1>10
  <2> QED
    BY <1>3, <1>4, <1>9, <1>14, <1>15, <1>16, <2>1, <2>2, <2>3, LinkNodeCore
<1>18. HeardInv([node EXCEPT ![n] = s], lost)
  <2>1. lost = 0 => AllTried(node[n])
    BY <1>3, <1>4 DEF HeardInv
  <2>2. e.canon = NoAddr
    BY <1>2, <1>4 DEF EntryInv, Connected
  <2>3. lost = 0 => AllTried(s)
    BY <1>3, <1>4, <1>5, <1>7, <1>8, <2>1, <2>2, ReplacedTried
  <2> QED
    BY <1>3, <1>4, <2>3, StepHeard
<1> QED
  BY <1>1, <1>2, <1>12, <1>17, <1>18 DEF IndInv

(* onNewConnection: the one entry of the other end.                        *)
LEMMA AcceptStep ==
  ASSUME IndInv, NEW i \in Links, Accept(i)
  PROVE  IndInv'
<1> DEFINE n == link[i].dst
           l == [link[i] EXCEPT !.phase = "open"]
           lk2 == [link EXCEPT ![i] = l]
<1>1. PICK a : /\ \/ a = <<SeenHost(Src(i), Asked(i)), ShownPort(i)>>
                  \/ "src" \notin link[i].ends /\ a = UnknownAddr
               /\ node' = [node EXCEPT ![n] = InConnectionReceived(node[n], i, a)]
  BY Zenon DEF Accept
<1> DEFINE s == InConnectionReceived(node[n], i, a)
           f == Peer(i, FALSE, a, NoAddr, TRUE)
<1>2. link[i].phase = "backlog" /\ link' = lk2 /\ UNCHANGED <<net, lost>>
  BY DEF Accept
<1>3. /\ Core(net, node, link, lost) /\ HeardInv(node, lost)
      /\ net \in Networks /\ lost \in 0..net.losses /\ lost \in Nat /\ DOMAIN node = Nodes
      /\ LinkInv(net, node, i, link[i]) /\ link[i] \in LinkInfos(net, i[1])
      /\ LossInv(link, lost)
  BY LinkFacts DEF Core
<1>4. /\ l \in LinkInfos(net, i[1]) /\ l.phase = "open"
      /\ l.dst = link[i].dst /\ l.ends = link[i].ends
  BY <1>3 DEF LinkInfos, Phases
<1>5. n \in Nodes /\ node[n].up /\ "dst" \in link[i].ends
  BY <1>2, <1>3 DEF LinkInv, Connected
<1>6. /\ NodeInv(net, n, node[n]) /\ ListInv(node[n].peers) /\ IsNode(node[n])
      /\ \A q \in node[n].peers : EntryInv(net, n, link, q)
  BY <1>3, <1>5, CoreNode
<1>7. node[n].up = TRUE
  BY <1>5, <1>6 DEF NodeInv
<1>8. s = NodeRec(node[n].up, node[n].port, node[n].peers \cup {f}, node[n].cands)
  BY <1>6, ListParts, Zenon
<1> HIDE DEF n, s
<1>9. /\ f.id = i /\ f.out = FALSE /\ f.addr = a /\ f.canon = NoAddr /\ f.conn = TRUE
      /\ IsPeer(f)
  BY DEF Peer, IsPeer
<1> HIDE DEF f
<1>10. /\ IsNode(s) /\ s.up = TRUE /\ s.port = node[n].port /\ s.cands = node[n].cands
       /\ s.peers = node[n].peers \cup {f}
  BY <1>7, <1>8, NodeFields
<1>11. NodeInv(net, n, s)
  BY <1>6, <1>7, <1>10 DEF NodeInv, IsNode, NodeRec
<1>12. \A q \in node[n].peers : ~(q.id = f.id /\ q.out = f.out)
  <2>1. TAKE q \in node[n].peers
  <2>2. EntryInv(net, n, link, q)
    BY <1>6
  <2> QED
    BY <1>2, <1>9, <2>2 DEF EntryInv
<1>13. ListInv(s.peers)
  BY <1>6, <1>9, <1>10, <1>12 DEF ListInv
<1>14. DOMAIN lk2 = Links /\ lk2[i] = l /\ \A j \in Links : j # i => lk2[j] = link[j]
  BY DEF Links
<1> HIDE DEF l
<1>15. a[1] \in {HostSeen(net, i), "?"}
  BY <1>1 DEF SeenHost, HostSeen, Src, UnknownAddr
<1>16. ASSUME NEW m \in Nodes, NEW q, EntryInv(net, m, link, q)
       PROVE  EntryInv(net, m, lk2, q)
  <2> HIDE DEF lk2
  <2>1. /\ q.id \in Links
        /\ q.conn => link[q.id].phase \in Connected /\ Side(q) \in link[q.id].ends
    BY <1>16 DEF EntryInv, Links
  <2> QED
    BY <1>2, <1>4, <1>14, <1>16, <2>1, EntryKept DEF Connected
<1>17. \A q \in s.peers : EntryInv(net, n, lk2, q)
  <2>1. EntryInv(net, n, lk2, f)
    <3> HIDE DEF lk2
    <3>1. Side(f) = "dst" /\ l.phase \in Connected
      BY <1>4, <1>9 DEF Side, Connected
    <3> QED
      BY <1>4, <1>5, <1>9, <1>14, <1>15, <3>1 DEF EntryInv, IsPeer, Peer, n
  <2> QED
    BY <1>5, <1>6, <1>10, <1>16, <2>1
<1>18. LinkInv(net, [node EXCEPT ![n] = s], i, l)
  <2>1. LinkInv(net, node, i, l)
    BY <1>2, <1>3, <1>4, <1>5 DEF LinkInv, Connected, n
  <2> QED
    BY <1>3, <1>5, <1>10, <2>1, LinkUp
<1>19. LossInv(lk2, lost)
  <2> HIDE DEF lk2
  <2>1. \A j \in DOMAIN lk2 : lk2[j].phase \in Connected =>
          link[j].phase \in Connected /\ lk2[j].ends = link[j].ends
    BY <1>2, <1>4, <1>14 DEF Connected
  <2> QED
    BY <1>3, <1>14, <2>1 DEF LossInv, Links
<1>20. Core(net, [node EXCEPT ![n] = s], lk2, lost)
  <2>1. \A k \in Nodes \ {n} : \A q \in node[k].peers :
          q.id = i /\ q.conn => l.phase \in Connected /\ Side(q) \in l.ends
    <3>1. TAKE k \in Nodes \ {n}
    <3>2. TAKE q \in node[k].peers
    <3>3. EntryInv(net, k, link, q)
      BY <1>3, CoreNode
    <3> QED
      BY <1>4, <3>3 DEF EntryInv, Connected
  <2>2. /\ i \in DOMAIN link /\ lost <= lost
        /\ node[n].up => s.up
        /\ link[i].phase \in Connected => l.phase \in Connected
        /\ link[i].phase = "open" => l.phase = "open" /\ l.dst = link[i].dst
    BY <1>3, <1>4, <1>10 DEF Links, Connected
  <2> QED
    BY <1>3, <1>5, <1>11, <1>13, <1>17, <1>18, <1>19, <2>1, <2>2, LinkNodeCore
<1>21. HeardInv([node EXCEPT ![n] = s], lost)
  <2>1. lost = 0 => AllTried(node[n])
    BY <1>3, <1>5 DEF HeardInv
  <2>2. AllTried(node[n]) => AllTried(s)
    BY <1>10 DEF AllTried, Tried, IsSelf, IsPeerConnected
  <2> QED
    BY <1>3, <1>5, <2>1, <2>2, StepHeard
<1> QED
  BY <1>1, <1>2, <1>20, <1>21 DEF IndInv, s

-----------------------------------------------------------------------------
(* Messages *)

(* A message has arrived: whose it is, what it can be, and what remains.   *)
LEMMA ArrivedFacts ==
  ASSUME IndInv, NEW i \in Links, NEW d \in Sides, NEW type, Arrived(i, d, type)
  PROVE  /\ Owner(i, d) \in Nodes /\ node[Owner(i, d)].up = TRUE
         /\ Entries(i, d) # {} /\ Entry(i, d) \in Entries(i, d)
         /\ Head(Inbox(i, d)).type = type
         /\ Head(Inbox(i, d)) \in Announcements \cup Greetings(net, i[1])
         /\ d = "src" => Head(Inbox(i, d)) \in Announcements
         /\ SameLinks(link, Consumed(i, d))
         /\ \A j \in DOMAIN Consumed(i, d) : LinkInv(net, node, j, Consumed(i, d)[j])
<1>1. Core(net, node, link, lost) /\ link[i] \in LinkInfos(net, i[1]) /\ i \in DOMAIN link
  BY LinkFacts DEF Links
<1>2. PICK e : e \in Entries(i, d)
  BY DEF Arrived, Reading
<1>3. /\ Owner(i, d) \in Nodes /\ node[Owner(i, d)].up = TRUE
      /\ Entries(i, d) # {} /\ Entry(i, d) \in Entries(i, d)
  <2>1. Owner(i, d) \in Nodes /\ node[Owner(i, d)].up = TRUE /\ Entry(i, d) = e
    BY <1>2, EntryOf, ZenonT(30)
  <2> QED
    BY <1>2, <2>1
<1>4. Inbox(i, d) # <<>> /\ Head(Inbox(i, d)).type = type
  BY DEF Arrived
<1>5. CASE d = "src"
  <2>1. Inbox(i, d) = link[i].toSrc /\ Consumed(i, d) = [link EXCEPT ![i].toSrc = Tail(link[i].toSrc)]
    BY <1>5 DEF Inbox, Consumed
  <2>2. link[i].toSrc \in Seq(Announcements)
    BY <1>1 DEF LinkInfos
  <2>3. /\ Tail(link[i].toSrc) \in Seq(Announcements)
        /\ Head(link[i].toSrc) \in Announcements
    BY <1>4, <2>1, <2>2
  <2> DEFINE lk2 == Consumed(i, d)
  <2>4. /\ DOMAIN lk2 = DOMAIN link /\ lk2[i] = [link[i] EXCEPT !.toSrc = Tail(link[i].toSrc)]
        /\ \A j \in DOMAIN link : j # i => lk2[j] = link[j]
    BY <1>1, <2>1
  <2> HIDE DEF lk2
  <2>5. NewStream(net, i, link[i], lk2[i])
    BY <2>3, <2>4 DEF NewStream
  <2>6. SameLinks(link, lk2) /\ \A j \in DOMAIN lk2 : LinkInv(net, node, j, lk2[j])
    BY <1>1, <2>4, <2>5, StreamLink
  <2> QED
    BY <1>3, <1>4, <2>1, <2>3, <2>6 DEF lk2
<1>6. CASE d = "dst"
  <2>1. Inbox(i, d) = link[i].toDst /\ Consumed(i, d) = [link EXCEPT ![i].toDst = Tail(link[i].toDst)]
    BY <1>6 DEF Inbox, Consumed
  <2>2. link[i].toDst \in Seq(Announcements \cup Greetings(net, i[1]))
    BY <1>1 DEF LinkInfos
  <2>3. /\ Tail(link[i].toDst) \in Seq(Announcements \cup Greetings(net, i[1]))
        /\ Head(link[i].toDst) \in Announcements \cup Greetings(net, i[1])
    BY <1>4, <2>1, <2>2
  <2> DEFINE lk2 == Consumed(i, d)
  <2>4. /\ DOMAIN lk2 = DOMAIN link /\ lk2[i] = [link[i] EXCEPT !.toDst = Tail(link[i].toDst)]
        /\ \A j \in DOMAIN link : j # i => lk2[j] = link[j]
    BY <1>1, <2>1
  <2> HIDE DEF lk2
  <2>5. NewStream(net, i, link[i], lk2[i])
    BY <2>3, <2>4 DEF NewStream
  <2>6. SameLinks(link, lk2) /\ \A j \in DOMAIN lk2 : LinkInv(net, node, j, lk2[j])
    BY <1>1, <2>4, <2>5, StreamLink
  <2> QED
    BY <1>3, <1>4, <1>6, <2>1, <2>3, <2>6 DEF lk2
<1> QED
  BY <1>5, <1>6 DEF Sides

(* messageReceived, OtherPeer.                                             *)
LEMMA OtherPeerStep ==
  ASSUME IndInv, NEW i \in Links, NEW d \in Sides, ReceiveOtherPeer(i, d)
  PROVE  IndInv'
<1> DEFINE n == Owner(i, d)
           as == Head(Inbox(i, d)).addrs
           s == OtherPeer(node[n], as)
<1>1. /\ Arrived(i, d, "OPEER") /\ TryOut(n, s, Consumed(i, d)) /\ UNCHANGED <<net, lost>>
  BY DEF ReceiveOtherPeer
<1>2. /\ n \in Nodes /\ node[n].up = TRUE
      /\ Head(Inbox(i, d)).type = "OPEER"
      /\ Head(Inbox(i, d)) \in Announcements \cup Greetings(net, i[1])
      /\ SameLinks(link, Consumed(i, d))
      /\ \A j \in DOMAIN Consumed(i, d) : LinkInv(net, node, j, Consumed(i, d)[j])
  BY <1>1, ArrivedFacts
<1>3. as \in SUBSET Addresses
  BY <1>2 DEF Announcements, Greetings
<1>4. /\ Core(net, node, link, lost) /\ HeardInv(node, lost) /\ DOMAIN node = Nodes
  BY LinkFacts
<1> HIDE DEF n, as
<1>5. /\ NodeInv(net, n, node[n]) /\ ListInv(node[n].peers)
      /\ \A e \in node[n].peers : EntryInv(net, n, link, e)
  BY <1>2, <1>4, CoreNode
<1>6. /\ NodeInv(net, n, s) /\ s.up = TRUE /\ s.peers = node[n].peers
      /\ AllTried(node[n]) => SpentTried(s)
  BY <1>2, <1>3, <1>5, AddNode, Zenon DEF OtherPeer
<1> HIDE DEF s
<1>7. Core(net, [node EXCEPT ![n] = s], Consumed(i, d), lost)
  BY <1>2, <1>4, <1>5, <1>6, NodeCore
<1>8. lost = 0 => SpentTried(s)
  BY <1>2, <1>4, <1>6 DEF HeardInv
<1>9. DOMAIN Consumed(i, d) = Links
  BY <1>2 DEF SameLinks, Links
<1> QED
  BY <1>1, <1>2, <1>4, <1>6, <1>7, <1>8, <1>9, TryOutStep

(* onTimer: only a message is sent.                                        *)
LEMMA TimerStep ==
  ASSUME IndInv, NEW i \in Links, Timer(i)
  PROVE  IndInv'
<1> DEFINE m == OPeers(OtherPeers(node[Src(i)], Entry(i, "src")))
           lk2 == [link EXCEPT ![i].toDst = m]
<1>1. link' = lk2 /\ UNCHANGED <<net, node, lost>>
  BY DEF Timer
<1>2. /\ Core(net, node, link, lost) /\ HeardInv(node, lost)
      /\ i \in Ids /\ i \in DOMAIN link
  BY LinkFacts DEF Links
<1>3. Src(i) \in Nodes
  BY <1>2 DEF Src, Ids
<1>4. m \in Seq(Announcements \cup Greetings(net, i[1]))
  <2>1. \A p \in node[Src(i)].peers : EntryInv(net, Src(i), link, p)
    BY <1>2, <1>3, CoreNode
  <2>2. m \in Seq(Announcements)
    BY <1>2, <2>1, CoreIds, OthersAddresses
  <2> HIDE DEF m
  <2> QED
    BY <2>2
<1> HIDE DEF m
<1>5. /\ DOMAIN lk2 = DOMAIN link /\ lk2[i] = [link[i] EXCEPT !.toDst = m]
      /\ \A j \in DOMAIN link : j # i => lk2[j] = link[j]
  BY <1>2
<1> HIDE DEF lk2
<1>6. NewStream(net, i, link[i], lk2[i])
  BY <1>4, <1>5 DEF NewStream
<1>7. SameLinks(link, lk2) /\ \A j \in DOMAIN lk2 : LinkInv(net, node, j, lk2[j])
  BY <1>2, <1>5, <1>6, StreamLink
<1>8. Core(net, node, lk2, lost)
  BY <1>2, <1>7, InboxCore
<1> QED
  BY <1>1, <1>2, <1>8 DEF IndInv

(* What a handshake makes of the node n: the address that the peer is seen *)
(* at, with its port, will be tried.                                       *)
Greeted(n, e, s) ==
  /\ NodeInv(net, n, s) /\ s.up = TRUE /\ ListInv(s.peers)
  /\ \A q \in s.peers : EntryInv(net, n, link, q)
  /\ \E q \in s.peers : q.id = e.id /\ q.out = FALSE /\ q.addr = e.addr
  /\ AllTried(node[n]) => SpentTried(s)

LEMMA HandshakeNode ==
  ASSUME IndInv, NEW n \in Nodes, node[n].up = TRUE, NEW e \in node[n].peers, e.out = FALSE,
         NEW port, port = net.port[e.id[1]], CanonAddr(e, port) # e.addr
  PROVE  Greeted(n, e, Handshake(node[n], e, port))
<1> DEFINE i == e.id
           s == Handshake(node[n], e, port)
<1> HIDE DEF i, s
<1>0. e.id = i /\ port = net.port[i[1]] /\ s = Handshake(node[n], e, port)
  BY DEF i, s
<1> DEFINE c == CanonAddr(e, port)
           f == Peer(e.id, e.out, e.addr, c, e.conn)
           p == (node[n].peers \ {e}) \cup {f}
           t == NodeRec(node[n].up, node[n].port, p, node[n].cands)
<1>1. Core(net, node, link, lost) /\ net \in Networks
  BY DEF IndInv, Core
<1>2. /\ NodeInv(net, n, node[n]) /\ ListInv(node[n].peers) /\ IsNode(node[n])
      /\ \A q \in node[n].peers : EntryInv(net, n, link, q)
      /\ IsPeer(e) /\ EntryInv(net, n, link, e)
  BY <1>1, CoreNode
<1>3. c = <<e.addr[1], net.port[Src(e.id)]>>
  BY <1>0 DEF CanonAddr, Src
<1>4. s = AddCandidates(t, {c}, 1)
  BY <1>0, <1>2, HandshakeParts, Zenon
<1>5. /\ f.id = e.id /\ f.out = e.out /\ f.addr = e.addr /\ f.canon = c /\ f.conn = e.conn
      /\ IsPeer(f)
  BY PeerFields
<1> HIDE DEF f, c
<1>6. ListInv(p)
  BY <1>2, <1>5, ListReplaced
<1>7. EntryInv(net, n, link, f)
  BY <1>2, <1>3, <1>5 DEF EntryInv, IsPeer, Peer, Side, Connected
<1>8. /\ \A q \in p : EntryInv(net, n, link, q)
      /\ \E q \in p : q.id = i /\ q.out = FALSE /\ q.addr = e.addr
  BY <1>0, <1>2, <1>5, <1>7
<1> HIDE DEF p
<1>9. /\ IsNode(t) /\ t.up = TRUE /\ t.port = node[n].port
      /\ t.peers = p /\ t.cands = node[n].cands
  BY NodeFields
<1> HIDE DEF t
<1>10. NodeInv(net, n, t)
  BY <1>2, <1>9 DEF NodeInv, IsNode, NodeRec
<1>11. AllTried(node[n]) => AllTried(t)
  <2>1. e.out # TRUE /\ t.peers = (node[n].peers \ {e}) \cup {f}
    BY <1>9 DEF p
  <2> QED
    BY <1>1, <1>2, <1>5, <1>9, <2>1, ReplacedTried
<1>12. /\ NodeInv(net, n, s) /\ s.up = TRUE /\ s.peers = t.peers
       /\ AllTried(t) => SpentTried(s)
  <2> DEFINE as == {c}
  <2>0. c \in Addresses
    <3>1. e.id \in Ids /\ net.port[Src(e.id)] # 0
      BY <1>1, <1>2, CoreIds, NetworksAssumption DEF EntryInv, Ids, Src, RealPorts
    <3>2. c # NoAddr
      BY <1>3, <3>1 DEF NoAddr
    <3> QED
      BY <1>1, <1>5, <1>7, <3>1, <3>2, CanonicalAddress
  <2>1. as \in SUBSET Addresses /\ s = AddCandidates(t, as, 1)
    BY <1>4, <2>0
  <2> HIDE DEF as
  <2>2. LET u == AddCandidates(t, as, 1)
        IN  /\ NodeInv(net, n, u) /\ u.up = TRUE /\ u.peers = t.peers
            /\ AllTried(t) => SpentTried(u)
    BY <1>9, <1>10, <2>1, AddNode, Zenon
  <2> QED
    BY <2>1, <2>2, Zenon
<1>13. Greeted(n, e, s)
  BY <1>0, <1>6, <1>8, <1>9, <1>11, <1>12 DEF Greeted
<1> QED
  BY <1>0, <1>13

(* messageReceived, Handshake: only a side that has accepted gets one.     *)
LEMMA HandshakeStep ==
  ASSUME IndInv, NEW i \in Links, NEW d \in Sides, ReceiveHandshake(i, d)
  PROVE  IndInv'
<1> DEFINE n == Owner(i, d)
           e == Entry(i, d)
           port == Head(Inbox(i, d)).port
           s == Handshake(node[n], e, port)
           rest == Consumed(i, d)
           q == CHOOSE p \in s.peers : p.id = i /\ p.out = (d = "src")
           r == IF "src" \in link[i].ends THEN OPeers(OtherPeers(s, q)) ELSE <<>>
           links == [rest EXCEPT ![i].toSrc = rest[i].toSrc \o r]
<1>1. \/ CanonAddr(q, port) # q.addr /\ TryOut(n, s, links)
      \/ CanonAddr(q, port) = q.addr /\ link' = links /\ UNCHANGED node
  BY Zenon DEF ReceiveHandshake
<1>2. Arrived(i, d, "HANDSH") /\ UNCHANGED <<net, lost>>
  BY DEF ReceiveHandshake
<1>3. /\ n \in Nodes /\ node[n].up = TRUE /\ e \in Entries(i, d)
      /\ Head(Inbox(i, d)).type = "HANDSH"
      /\ Head(Inbox(i, d)) \in Announcements \cup Greetings(net, i[1])
      /\ d = "src" => Head(Inbox(i, d)) \in Announcements
      /\ SameLinks(link, rest) /\ \A j \in DOMAIN rest : LinkInv(net, node, j, rest[j])
  BY <1>2, ArrivedFacts
<1>4. d = "dst" /\ port = net.port[i[1]]
  BY <1>3 DEF Announcements, Greetings, Sides
<1>5. /\ Core(net, node, link, lost) /\ HeardInv(node, lost) /\ DOMAIN node = Nodes
      /\ i \in DOMAIN link
  BY LinkFacts DEF Links
<1>6. e \in node[n].peers /\ e.id = i /\ e.out = FALSE
  <2>1. \A p \in Entries(i, d) :
          /\ p \in node[Owner(i, d)].peers /\ p.id = i
          /\ d = "dst" => p.out = FALSE
    BY EntryOf
  <2> QED
    BY <1>3, <1>4, <2>1
<1> HIDE DEF n, e, port, rest
<1>7. /\ NodeInv(net, n, node[n]) /\ ListInv(node[n].peers)
      /\ \A p \in node[n].peers : EntryInv(net, n, link, p)
  BY <1>3, <1>5, CoreNode
<1>8. CanonAddr(e, port) # e.addr => Greeted(n, e, s)
  <2> SUFFICES ASSUME CanonAddr(e, port) # e.addr  PROVE Greeted(n, e, s)
    OBVIOUS
  <2>1. e \in node[n].peers /\ e.out = FALSE /\ port = net.port[e.id[1]]
    BY <1>4, <1>6
  <2> QED
    BY <1>3, <2>1, HandshakeNode
<1>9. CanonAddr(e, port) = e.addr => s = node[n]
  BY DEF Handshake
<1> HIDE DEF s
<1>10. q.addr = e.addr
  <2>1. /\ \E p \in s.peers : p.id = i /\ p.out = FALSE /\ p.addr = e.addr
        /\ ListInv(s.peers)
    BY <1>6, <1>7, <1>8, <1>9 DEF Greeted
  <2>2. PICK p \in s.peers : p.id = i /\ p.out = FALSE /\ p.addr = e.addr
    BY <2>1
  <2>3. q \in s.peers /\ q.id = i /\ q.out = FALSE
    <3>1. (d = "src") = FALSE
      BY <1>4
    <3> QED
      BY <2>2, <3>1, Zenon
  <2> QED
    BY <2>1, <2>2, <2>3, ZenonT(30) DEF ListInv
<1>11. CanonAddr(q, port) = CanonAddr(e, port)
  BY <1>10 DEF CanonAddr
<1> HIDE DEF q
<1>12. r \in Seq(Announcements)
  <2>1. \A p \in s.peers : EntryInv(net, n, link, p)
    BY <1>7, <1>8, <1>9 DEF Greeted
  <2>2. OPeers(OtherPeers(s, q)) \in Seq(Announcements)
    BY <1>5, <2>1, CoreIds, OthersAddresses
  <2>3. <<>> \in Seq(Announcements)
    OBVIOUS
  <2> QED
    BY <2>2, <2>3
<1> HIDE DEF r
<1>13. Core(net, node, rest, lost) /\ i \in DOMAIN rest
  BY <1>3, <1>5, InboxCore DEF SameLinks
<1>14. SameLinks(link, links) /\ \A j \in DOMAIN links : LinkInv(net, node, j, links[j])
  <2> DEFINE v == rest[i].toSrc \o r
  <2>1. v \in Seq(Announcements)
    <3>1. rest[i].toSrc \in Seq(Announcements)
      BY <1>3, <1>13 DEF LinkInv, LinkInfos
    <3> QED
      BY <1>12, <3>1
  <2> HIDE DEF v
  <2>2. /\ DOMAIN links = DOMAIN rest /\ links[i] = [rest[i] EXCEPT !.toSrc = v]
        /\ \A j \in DOMAIN rest : j # i => links[j] = rest[j]
    BY <1>13 DEF v
  <2> HIDE DEF links
  <2>3. NewStream(net, i, rest[i], links[i])
    BY <2>1, <2>2 DEF NewStream
  <2>4. SameLinks(rest, links) /\ \A j \in DOMAIN links : LinkInv(net, node, j, links[j])
    BY <1>13, <2>2, <2>3, StreamLink
  <2> QED
    BY <1>3, <2>4 DEF SameLinks
<1> HIDE DEF links
<1>15. CASE CanonAddr(e, port) # e.addr
  <2>1. TryOut(n, s, links)
    BY <1>1, <1>15, <1>10, <1>11
  <2>2. Core(net, [node EXCEPT ![n] = s], links, lost)
    BY <1>3, <1>5, <1>8, <1>14, <1>15, NodeCore DEF Greeted
  <2>3. lost = 0 => SpentTried(s)
    BY <1>3, <1>5, <1>8, <1>15 DEF HeardInv, Greeted
  <2>4. DOMAIN links = Links /\ s.up = TRUE
    BY <1>8, <1>14, <1>15 DEF SameLinks, Links, Greeted
  <2> QED
    BY <1>2, <1>3, <1>5, <2>1, <2>2, <2>3, <2>4, TryOutStep
<1>16. CASE CanonAddr(e, port) = e.addr
  <2>1. link' = links /\ UNCHANGED node
    BY <1>1, <1>16, <1>10, <1>11
  <2>2. Core(net, node, links, lost)
    BY <1>5, <1>14, InboxCore
  <2> QED
    BY <1>2, <1>5, <2>1, <2>2 DEF IndInv
<1> QED
  BY <1>15, <1>16

-----------------------------------------------------------------------------
(* Closing *)

(* The entries of a link's end are those of its owner.                     *)
LEMMA EntryOwned ==
  ASSUME IndInv, NEW m \in Nodes, NEW q \in node[m].peers
  PROVE  /\ q.id \in Links /\ Side(q) \in Sides /\ q.out \in BOOLEAN
         /\ EntryInv(net, m, link, q)
         /\ m = Owner(q.id, Side(q)) /\ q \in Entries(q.id, Side(q))
<1>1. Core(net, node, link, lost)
  BY DEF IndInv
<1>2. EntryInv(net, m, link, q)
  BY <1>1, CoreNode
<1>3. q.id \in Links /\ Side(q) \in Sides /\ q.out \in BOOLEAN
  BY <1>2 DEF EntryInv, Links, Side, Sides
<1>4. m = Owner(q.id, Side(q))
  BY <1>2, <1>3 DEF EntryInv, Owner, Side, Src
<1>5. m # NoNode
  BY NodesAssumption
<1>6. q.out = (Side(q) = "src")
  BY <1>3 DEF Side
<1>7. q \in Entries(q.id, Side(q))
  BY <1>4, <1>5, <1>6 DEF Entries
<1> QED
  BY <1>2, <1>3, <1>4, <1>7

(* The entry that closes: it is the only one of its end.                   *)
EntryFacts(i, d, n, e) ==
  /\ n \in Nodes /\ node[n].up = TRUE /\ e \in node[n].peers /\ IsPeer(e)
  /\ EntryInv(net, n, link, e) /\ e.id = i /\ Side(e) = d
  /\ \A m \in Nodes : \A q \in node[m].peers : q.id = i /\ Side(q) = d => m = n /\ q = e

LEMMA CloseFacts ==
  ASSUME IndInv, NEW i \in Links, NEW d \in Sides, Entries(i, d) # {}
  PROVE  EntryFacts(i, d, Owner(i, d), Entry(i, d))
<1>1. PICK e \in Entries(i, d) : TRUE
  OBVIOUS
<1>2. /\ Owner(i, d) \in Nodes /\ node[Owner(i, d)].up = TRUE
      /\ e \in node[Owner(i, d)].peers /\ IsPeer(e)
      /\ EntryInv(net, Owner(i, d), link, e)
      /\ e.id = i /\ Side(e) = d /\ Entry(i, d) = e /\ Entries(i, d) = {e}
  BY EntryOf
<1>3. ASSUME NEW m \in Nodes, NEW q \in node[m].peers, q.id = i, Side(q) = d
      PROVE  m = Owner(i, d) /\ q = e
  <2>1. m = Owner(q.id, Side(q)) /\ q \in Entries(q.id, Side(q))
    BY EntryOwned
  <2> QED
    BY <1>2, <1>3, <2>1
<1> QED
  BY <1>2, <1>3 DEF EntryFacts

(* An end closes: something has been lost by then.                         *)
LEMMA CloseStep ==
  ASSUME IndInv, NEW i \in Links, NEW d \in Sides, Close(i, d)
  PROVE  IndInv'
<1> DEFINE n == Owner(i, d)
           e == Entry(i, d)
           s == Closing(node[n], e)
           f == Peer(e.id, e.out, e.addr, e.canon, FALSE)
           l == IF d = "src" THEN [link[i] EXCEPT !.ends = @ \ {d}, !.toSrc = <<>>]
                ELSE [link[i] EXCEPT !.ends = @ \ {d}, !.toDst = <<>>]
           lk2 == [link EXCEPT ![i] = l]
           nd2 == [node EXCEPT ![n] = s]
<1>1. /\ Core(net, node, link, lost) /\ DOMAIN node = Nodes
      /\ lost \in 0..net.losses /\ lost \in Nat /\ net.losses \in Nat
      /\ LinkInv(net, node, i, link[i]) /\ link[i] \in LinkInfos(net, i[1])
      /\ i \in DOMAIN link /\ LossInv(link, lost)
  BY LinkFacts DEF Core, Links
<1>2. /\ n \in Nodes /\ node[n].up = TRUE /\ e \in node[n].peers /\ IsPeer(e)
      /\ EntryInv(net, n, link, e) /\ e.id = i /\ Side(e) = d
      /\ \A m \in Nodes : \A q \in node[m].peers :
           q.id = i /\ Side(q) = d => m = n /\ q = e
  <2>1. Entries(i, d) # {}
    BY DEF Close, Reading
  <2>2. EntryFacts(i, d, n, e)
    BY <2>1, CloseFacts
  <2> QED
    BY <2>2 DEF EntryFacts
<1>3. node' = nd2 /\ link' = lk2 /\ UNCHANGED net
  BY Zenon DEF Close
<1>4. /\ d \in link[i].ends
      /\ \/ Far(d) \notin link[i].ends /\ lost' = lost
         \/ lost < net.losses /\ lost' = lost + 1
  BY DEF Close, Reading
<1>5. link[i].phase \in Connected /\ (d = "dst" => link[i].phase = "open")
  <2>1. PICK q \in Entries(i, d) : q.conn
    BY DEF Close, Reading
  <2>2. EntryInv(net, n, link, q) /\ q.id = i /\ (d = "dst" => q.out = FALSE)
    BY <2>1, EntryOf
  <2> QED
    BY <2>1, <2>2 DEF EntryInv
<1>6. /\ l \in LinkInfos(net, i[1]) /\ l.phase = link[i].phase
      /\ l.dst = link[i].dst /\ l.ends = link[i].ends \ {d}
  <2> DEFINE l1 == [link[i] EXCEPT !.ends = @ \ {d}]
  <2>1. /\ l1 \in LinkInfos(net, i[1]) /\ l1.phase = link[i].phase
        /\ l1.dst = link[i].dst /\ l1.ends = link[i].ends \ {d}
    BY <1>1 DEF LinkInfos, Sides
  <2> HIDE DEF l1
  <2>2. l = IF d = "src" THEN [l1 EXCEPT !.toSrc = <<>>] ELSE [l1 EXCEPT !.toDst = <<>>]
    BY DEF l1
  <2> HIDE DEF l
  <2>3. CASE d = "src"
    <3>1. l = [l1 EXCEPT !.toSrc = <<>>] /\ <<>> \in Seq(Announcements)
      BY <2>2, <2>3
    <3>2. /\ l \in LinkInfos(net, i[1]) /\ l.phase = l1.phase
          /\ l.dst = l1.dst /\ l.ends = l1.ends
      BY <2>1, <3>1 DEF LinkInfos
    <3> QED
      BY <2>1, <3>2
  <2>4. CASE d # "src"
    <3>1. /\ l = [l1 EXCEPT !.toDst = <<>>]
          /\ <<>> \in Seq(Announcements \cup Greetings(net, i[1]))
      BY <2>2, <2>4
    <3>2. /\ l \in LinkInfos(net, i[1]) /\ l.phase = l1.phase
          /\ l.dst = l1.dst /\ l.ends = l1.ends
      BY <2>1, <3>1 DEF LinkInfos
    <3> QED
      BY <2>1, <3>2
  <2> QED
    BY <2>3, <2>4
<1> HIDE DEF l
<1>7. LinkInv(net, node, i, l)
  <2>1. l.phase = "backlog" => "dst" \in l.ends
    BY <1>1, <1>5, <1>6 DEF LinkInv
  <2> QED
    BY <1>1, <1>5, <1>6, <2>1 DEF LinkInv
<1>8. /\ lost' \in 0..net.losses /\ lost <= lost' /\ lost' # 0 /\ lost' \in Nat
      /\ lost' = lost \/ lost' = lost + 1
  <2>1. Far(d) \notin link[i].ends => lost # 0
    BY <1>1, <1>5 DEF LossInv, Far, Sides
  <2> QED
    BY <1>1, <1>4, <2>1
<1>9. s = NodeRec(node[n].up, node[n].port, (node[n].peers \ {e}) \cup {f}, node[n].cands)
  BY <1>1, <1>2, CoreNode, ClosingParts, Zenon
<1>10. /\ f.id = e.id /\ f.out = e.out /\ f.addr = e.addr /\ f.canon = e.canon
       /\ f.conn = FALSE /\ IsPeer(f)
  BY DEF Peer, IsPeer
<1> HIDE DEF n, e, f, s
<1>11. /\ NodeInv(net, n, node[n]) /\ ListInv(node[n].peers) /\ IsNode(node[n])
       /\ \A q \in node[n].peers : EntryInv(net, n, link, q)
  BY <1>1, <1>2, CoreNode
<1>12. /\ IsNode(s) /\ s.up = TRUE /\ s.port = node[n].port /\ s.cands = node[n].cands
       /\ s.peers = (node[n].peers \ {e}) \cup {f}
  BY <1>2, <1>9, NodeFields
<1>13. NodeInv(net, n, s)
  BY <1>2, <1>11, <1>12 DEF NodeInv, IsNode, NodeRec
<1>14. ListInv(s.peers)
  BY <1>2, <1>10, <1>11, <1>12, ListReplaced
<1>15. LinkInv(net, nd2, i, l)
  BY <1>1, <1>2, <1>7, <1>12, LinkUp
<1>16. /\ DOMAIN lk2 = Links /\ lk2[i] = l /\ \A j \in Links : j # i => lk2[j] = link[j]
  BY <1>1 DEF Links
<1>17. /\ nd2[n] = s /\ \A m \in Nodes \ {n} : nd2[m] = node[m]
  BY <1>1, <1>2
<1> HIDE DEF lk2, nd2
<1>18. ASSUME NEW m \in Nodes, NEW q \in node[m].peers, q # e \/ m # n
       PROVE  /\ EntryInv(net, m, lk2, q)
              /\ q.id = i /\ q.conn => l.phase \in Connected /\ Side(q) \in l.ends
  <2>1. EntryInv(net, m, link, q) /\ q.id \in Links
    BY EntryOwned
  <2>2. q.conn => link[q.id].phase \in Connected /\ Side(q) \in link[q.id].ends
    BY <2>1 DEF EntryInv
  <2>3. ~(q.id = i /\ Side(q) = d)
    BY <1>2, <1>18
  <2>4. q.conn => lk2[q.id].phase \in Connected /\ Side(q) \in lk2[q.id].ends
    BY <1>6, <1>16, <2>1, <2>2, <2>3
  <2>5. EntryInv(net, m, lk2, q)
    BY <1>6, <1>16, <2>1, <2>4, EntryKept
  <2> QED
    BY <1>16, <2>4, <2>5
<1>19. EntryInv(net, n, lk2, f)
  <2>1. lk2[i].phase = link[i].phase /\ lk2[i].dst = link[i].dst
    BY <1>6, <1>16
  <2> QED
    BY <1>2, <1>10, <1>16, <2>1, ZenonT(30) DEF EntryInv, IsPeer, Peer, Links
<1>20. LossInv(lk2, lost')
  BY <1>8 DEF LossInv
<1>21. Core(net, nd2, lk2, lost')
  <2> DEFINE ls2 == lost'
  <2>1. \A m \in Nodes \ {n} : \A q \in node[m].peers :
          q.id = i /\ q.conn => l.phase \in Connected /\ Side(q) \in l.ends
    BY <1>18
  <2>2. /\ link[i].phase \in Connected => l.phase \in Connected
        /\ link[i].phase = "open" => l.phase = "open" /\ l.dst = link[i].dst
        /\ node[n].up => s.up
        /\ ls2 \in 0..net.losses /\ lost <= ls2
    BY <1>6, <1>8, <1>12
  <2>3. \A q \in s.peers : EntryInv(net, n, lk2, q)
    BY <1>2, <1>12, <1>18, <1>19
  <2>4. LossInv(lk2, ls2)
    BY <1>20
  <2>5. ListInv(s.peers)
    BY <1>14
  <2> HIDE DEF ls2
  <2>6. Core(net, nd2, lk2, ls2)
    BY <1>1, <1>2, <1>13, <1>15, <2>1, <2>2, <2>3, <2>4, <2>5, LinkNodeCore DEF nd2, lk2
  <2> QED
    BY <2>6 DEF ls2
<1>22. HeardInv(nd2, lost')
  BY <1>8 DEF HeardInv
<1> QED
  BY <1>3, <1>21, <1>22 DEF IndInv

(* connectionClosed: entries go, and the link when the last of it has.     *)
LEMMA ClosedStep ==
  ASSUME IndInv, NEW i \in Links, NEW d \in Sides, Closed(i, d)
  PROVE  IndInv'
<1> DEFINE n == Owner(i, d)
           e == Entry(i, d)
           s == ConnectionClosed(node[n], e)
           lk2 == link'
           nd2 == [node EXCEPT ![n] = s]
<1>1. /\ Core(net, node, link, lost) /\ DOMAIN node = Nodes
      /\ lost \in 0..net.losses /\ lost \in Nat
      /\ LinkInv(net, node, i, link[i]) /\ LossInv(link, lost)
  BY LinkFacts DEF Core
<1>2. /\ d \notin link[i].ends /\ Entries(i, d) # {}
      /\ node' = nd2 /\ UNCHANGED <<net, lost>>
      /\ lk2 = IF link[i].ends = {} /\ Entries(i, Far(d)) = {}
               THEN [j \in Links \ {i} |-> link[j]] ELSE link
  BY Zenon DEF Closed
<1>3. EntryFacts(i, d, n, e)
  BY <1>2, CloseFacts
<1> HIDE DEF n, e
<1>4. /\ n \in Nodes /\ node[n].up = TRUE /\ e \in node[n].peers
      /\ EntryInv(net, n, link, e) /\ e.id = i /\ Side(e) = d
      /\ \A m \in Nodes : \A q \in node[m].peers : q.id = i /\ Side(q) = d => m = n /\ q = e
  BY <1>3 DEF EntryFacts
<1>5. lost # 0
  <2>1. CASE link[i].phase \in Connected
    BY <1>1, <1>2, <2>1 DEF LossInv, Sides, Links
  <2>2. CASE link[i].phase \notin Connected
    <3>1. link[i].ends = {"src"}
      BY <1>1, <2>2 DEF LinkInv
    <3>2. d = "dst"
      BY <1>2, <3>1 DEF Sides
    <3> QED
      BY <1>4, <2>2, <3>2 DEF EntryInv, Side, Connected
  <2> QED
    BY <2>1, <2>2
<1>6. /\ NodeInv(net, n, node[n]) /\ ListInv(node[n].peers) /\ IsNode(node[n])
  BY <1>1, <1>4, CoreNode
<1>7. s = NodeRec(node[n].up, node[n].port,
                  {p \in node[n].peers : p # e /\ p.addr # e.addr}, node[n].cands)
  BY <1>6, ListParts, Zenon
<1> HIDE DEF s
<1>8. /\ IsNode(s) /\ s.up = TRUE /\ s.port = node[n].port /\ s.cands = node[n].cands
      /\ s.peers \subseteq node[n].peers /\ e \notin s.peers
  <2> DEFINE P == {p \in node[n].peers : p # e /\ p.addr # e.addr}
  <2>1. P \subseteq node[n].peers /\ e \notin P
    OBVIOUS
  <2> HIDE DEF P
  <2>2. s = NodeRec(node[n].up, node[n].port, P, node[n].cands)
    BY <1>7 DEF P
  <2> QED
    BY <1>4, <2>1, <2>2, NodeFields
<1>9. NodeInv(net, n, s)
  BY <1>4, <1>6, <1>8 DEF NodeInv, IsNode, NodeRec
<1>10. ListInv(s.peers)
  BY <1>6, <1>8 DEF ListInv
<1>11. \A m \in Nodes : nd2[m] = IF m = n THEN s ELSE node[m]
  BY <1>1, <1>4
<1>12. /\ DOMAIN lk2 \subseteq Links /\ \A j \in DOMAIN lk2 : lk2[j] = link[j]
       /\ \A j \in Links : j \notin DOMAIN lk2 => j = i /\ Entries(i, Far(d)) = {}
  BY <1>2 DEF Links
<1> HIDE DEF lk2, nd2
<1>13. ASSUME NEW m \in Nodes, NEW q \in node[m].peers, m # n \/ q # e
       PROVE  EntryInv(net, m, lk2, q)
  <2>1. /\ EntryInv(net, m, link, q) /\ q.id \in Links
        /\ Side(q) \in Sides /\ q \in Entries(q.id, Side(q))
    BY EntryOwned
  <2>2. q.id = i => Side(q) = Far(d)
    BY <1>4, <1>13, <2>1 DEF Far, Sides
  <2>3. q.id \in DOMAIN lk2
    BY <1>12, <2>1, <2>2
  <2>4. q.conn => link[q.id].phase \in Connected /\ Side(q) \in link[q.id].ends
    BY <2>1 DEF EntryInv
  <2> QED
    BY <1>12, <2>1, <2>3, <2>4, EntryKept
<1>14. \A j \in DOMAIN lk2 : LinkInv(net, nd2, j, lk2[j])
  <2>1. TAKE j \in DOMAIN lk2
  <2>2. LinkInv(net, node, j, link[j])
    BY <1>1, <1>12 DEF Core, Links
  <2> QED
    BY <1>1, <1>4, <1>8, <1>12, <2>2, LinkUp DEF nd2
<1>15. LossInv(lk2, lost)
  BY <1>1, <1>5 DEF LossInv
<1>16. Core(net, nd2, lk2, lost)
  <2>1. \A q \in s.peers : EntryInv(net, n, lk2, q)
    BY <1>4, <1>8, <1>13
  <2>2. \A m \in Nodes \ {n} : \A q \in node[m].peers : EntryInv(net, m, lk2, q)
    BY <1>13
  <2> QED
    BY <1>1, <1>4, <1>9, <1>10, <1>14, <1>15, <2>1, <2>2, StepCore DEF nd2
<1>17. HeardInv(nd2, lost)
  BY <1>5 DEF HeardInv
<1> QED
  BY <1>2, <1>16, <1>17 DEF IndInv, lk2

-----------------------------------------------------------------------------
(* The invariant *)

(* NewNode: the port, and the candidates that were given to it.            *)
Unstarted(s, port, extra) ==
  /\ IsNode(s) /\ s.up = FALSE /\ s.port = port /\ s.peers = {}
  /\ DOMAIN s.cands = extra \cup ({"localhost"} \X LocalPorts)
  /\ \A a \in DOMAIN s.cands : s.cands[a] \in Nat /\ s.cands[a] > 0

LEMMA NewNodeParts ==
  ASSUME NEW port, NEW extra
  PROVE  Unstarted(NewNode(port, extra), port, extra)
<1> DEFINE s == NewNode(port, extra)
<1> DEFINE given == [a \in extra |-> Sticky]
           local == [a \in {"localhost"} \X LocalPorts |-> 1]
           c == Over(given, local)
<1>1. s = NodeRec(FALSE, port, {}, c)
  BY DEF NewNode, NodeRec
<1>2. DOMAIN c = extra \cup ({"localhost"} \X LocalPorts)
  BY DEF Over
<1>3. \A a \in DOMAIN c : c[a] \in Nat /\ c[a] > 0
  BY StickyAssumption DEF Over
<1> HIDE DEF c, s
<1>4. IsNode(s) /\ s.up = FALSE /\ s.port = port /\ s.peers = {} /\ s.cands = c
  BY <1>1 DEF IsNode, NodeRec
<1>5. Unstarted(s, port, extra)
  BY <1>2, <1>3, <1>4 DEF Unstarted
<1> QED
  BY <1>5 DEF s

(* At first there are no links, and no node is up.                         *)
LEMMA IndInit == Init => IndInv
<1> SUFFICES ASSUME Init  PROVE IndInv
  OBVIOUS
<1>1. /\ net \in Networks /\ link = <<>> /\ lost = 0 /\ DOMAIN node = Nodes
      /\ \A n \in Nodes : node[n] = NewNode(net.port[n], net.extra[n])
  BY DEF Init
<1>2. DOMAIN link = {}
  BY <1>1
<1>3. net.losses \in Nat
  BY <1>1, NetworksAssumption
<1>4. ASSUME NEW n \in Nodes
      PROVE  /\ NodeInv(net, n, node[n]) /\ node[n].up = FALSE /\ node[n].peers = {}
  <2>1. Unstarted(node[n], net.port[n], net.extra[n])
    BY <1>1, NewNodeParts
  <2> QED
    BY <1>1, <2>1, GivenAddresses DEF Unstarted, NodeInv, IsNode, NodeRec
<1>5. Core(net, node, link, lost)
  <2>1. \A n \in Nodes : NodeInv(net, n, node[n]) /\ ListInv(node[n].peers)
    BY <1>4 DEF ListInv
  <2>2. \A n \in Nodes : \A e \in node[n].peers : EntryInv(net, n, link, e)
    BY <1>4
  <2>3. \A i \in DOMAIN link : LinkInv(net, node, i, link[i])
    BY <1>2
  <2>4. LossInv(link, lost)
    BY <1>2 DEF LossInv
  <2> QED
    BY <1>1, <1>3, <2>1, <2>2, <2>3, <2>4 DEF Core
<1>6. HeardInv(node, lost)
  BY <1>4 DEF HeardInv
<1> QED
  BY <1>5, <1>6 DEF IndInv

LEMMA IndNext == IndInv /\ [Next]_vars => IndInv'
<1> SUFFICES ASSUME IndInv, [Next]_vars  PROVE IndInv'
  OBVIOUS
<1>1. CASE \E n \in Nodes : Start(n)
  BY <1>1, StartStep
<1>2. CASE \E i \in Links : ConnectFails(i)
  BY <1>2, ConnectFailsStep
<1>3. CASE \E i \in Links : ConnectDone(i)
  BY <1>3, ConnectDoneStep
<1>4. CASE \E i \in Links : Accept(i)
  BY <1>4, AcceptStep
<1>5. CASE \E i \in Links, d \in Sides : ReceiveOtherPeer(i, d)
  BY <1>5, OtherPeerStep
<1>6. CASE \E i \in Links, d \in Sides : ReceiveHandshake(i, d)
  BY <1>6, HandshakeStep
<1>7. CASE \E i \in Links, d \in Sides : Close(i, d)
  BY <1>7, CloseStep
<1>8. CASE \E i \in Links, d \in Sides : Closed(i, d)
  BY <1>8, ClosedStep
<1>9. CASE \E i \in Links : Timer(i)
  BY <1>9, TimerStep
<1>10. CASE UNCHANGED vars
  BY <1>10 DEF vars, IndInv
<1> QED
  BY <1>1, <1>2, <1>3, <1>4, <1>5, <1>6, <1>7, <1>8, <1>9, <1>10, Zenon
     DEF Next, Deliver, Fail

(* What the lists and the links know of each other stays true for ever.    *)
THEOREM Invariance == Spec => []IndInv
<1> QED
  BY IndInit, IndNext, PTL DEF Spec

-----------------------------------------------------------------------------
(* What follows from the invariant *)

(* Every variable keeps its shape.                                         *)
THEOREM TypeCorrect == Spec => []TypeOK
<1>1. IndInv => TypeOK
  <2> SUFFICES ASSUME IndInv  PROVE TypeOK
    OBVIOUS
  <2>1. Core(net, node, link, lost)
    BY DEF IndInv
  <2>2. ASSUME NEW i \in Links
        PROVE  /\ link[i].phase \in {"connecting", "failed", "backlog", "open"}
               /\ link[i].ends \subseteq Sides
               /\ link[i].phase \in {"backlog", "open"} <=> link[i].dst \in Nodes
    <3>1. LinkInv(net, node, i, link[i]) /\ link[i] \in LinkInfos(net, i[1])
      BY LinkFacts
    <3> QED
      BY <3>1, NodesAssumption DEF LinkInfos, LinkInv, Phases, Connected
  <2>3. ASSUME NEW n \in Nodes
        PROVE  /\ \A a \in DOMAIN node[n].cands : node[n].cands[a] \in Nat
               /\ \A e \in node[n].peers : e.id \in Links
    BY <2>1, CoreNode DEF NodeInv, EntryInv, Links
  <2>4. net \in Networks /\ lost \in 0..net.losses
    BY <2>1 DEF Core
  <2> QED
    BY <2>2, <2>3, <2>4 DEF TypeOK
<1> QED
  BY <1>1, Invariance, PTL

(* tryOutConnections dials an address once at a time.                      *)
THEOREM OneDial == Spec => []OneDialPerName
<1>1. IndInv => OneDialPerName
  BY DEF IndInv, Core, ListInv, OneDialPerName
<1> QED
  BY <1>1, Invariance, PTL

(* The canonical address of a connection reaches its other end.            *)
THEOREM Canonical == Spec => []CanonicalIsThePeer
<1>1. IndInv => CanonicalIsThePeer
  <2> SUFFICES ASSUME IndInv, NEW n \in Nodes, NEW e \in node[n].peers,
                      e.canon # NoAddr, e.canon[1] # "?"
               PROVE  OtherEnd(e) \in Reached(n, e.canon)
    BY DEF CanonicalIsThePeer
  <2> DEFINE i == e.id
  <2>1. EntryInv(net, n, link, e) /\ i \in Links /\ net \in Networks
    BY EntryOwned DEF IndInv, Core
  <2>2. link[i].phase \in Connected
    BY <2>1 DEF EntryInv
  <2>3. /\ i \in Ids /\ Src(i) \in Nodes /\ node[Src(i)].up
        /\ link[i].dst \in Nodes /\ node[link[i].dst].up
        /\ At(net, Src(i), link[i].dst, Asked(i))
    BY <2>1, <2>2, LinkFacts DEF LinkInv, Ids, Src, Asked
  <2>4. net.host[Src(i)] \notin OwnMachine /\ Loopback \in OwnMachine
    BY <2>1, <2>3, NetworksAssumption DEF OwnMachine
  <2>5. CASE e.out
    <3>1. /\ n = Src(i) /\ e.addr = Asked(i) /\ OtherEnd(e) = link[i].dst
          /\ e.canon = <<RemoteHost(Asked(i)), Asked(i)[2]>>
      BY <2>1, <2>5 DEF EntryInv, OtherEnd
    <3>2. At(net, n, link[i].dst, e.canon)
      BY <2>3, <2>4, <3>1 DEF At, RemoteHost
    <3> QED
      BY <2>3, <3>1, <3>2 DEF Reached
  <2>6. CASE ~e.out
    <3>1. /\ n = link[i].dst /\ OtherEnd(e) = Src(i)
          /\ e.canon = <<HostSeen(net, i), net.port[Src(i)]>>
      <4>1. /\ e.canon = <<e.addr[1], net.port[Src(i)]>>
            /\ e.addr[1] \in {HostSeen(net, i), "?"} /\ n = link[i].dst
        BY <2>1, <2>6 DEF EntryInv
      <4> QED
        BY <2>6, <4>1 DEF OtherEnd
    <3>2. At(net, n, Src(i), e.canon)
      BY <2>3, <2>4, <3>1 DEF At, HostSeen
    <3> QED
      BY <2>3, <3>1, <3>2 DEF Reached
  <2> QED
    BY <2>5, <2>6
<1> QED
  BY <1>1, Invariance, PTL

(* While nothing is lost, whatever a node has heard of it has dialled.     *)
THEOREM Heard == Spec => []HeardIsDialled
<1>1. IndInv => HeardIsDialled
  <2> SUFFICES ASSUME IndInv, lost = 0, NEW n \in Nodes, node[n].up,
                      NEW a \in DOMAIN node[n].cands
               PROVE  \/ a \in LocalNames \X {node[n].port}
                      \/ \E e \in node[n].peers : e.out /\ a \in {e.addr, e.canon}
    BY DEF HeardIsDialled
  <2>1. Core(net, node, link, lost) /\ net \in Networks
    BY DEF IndInv, Core
  <2>2. Tried(node[n], a)
    BY DEF IndInv, HeardInv, AllTried
  <2>3. a = <<a[1], a[2]>>
    <3>1. a \in Addresses
      BY <2>1, CoreNode DEF NodeInv
    <3> QED
      BY <3>1 DEF Addresses
  <2>4. CASE IsSelf(node[n], a)
    BY <2>3, <2>4 DEF IsSelf
  <2>5. CASE IsPeerConnected(node[n], a, TRUE)
    BY <2>5 DEF IsPeerConnected
  <2> QED
    BY <2>2, <2>4, <2>5 DEF Tried
<1> QED
  BY <1>1, Invariance, PTL

-----------------------------------------------------------------------------
(* The lists and the links, as long as no two entries of a node go by one  *)
(* address                                                                 *)

(* An end that is open has an entry, unless nobody has accepted it yet, or *)
(* its connect has failed.                                                 *)
EndInv ==
  \A i \in Links : \A d \in link[i].ends :
    \/ link[i].phase = "backlog" /\ d = "dst"
    \/ link[i].phase = "failed"
    \/ Entries(i, d) # {}

(* Every entry of P is still there in Q, whatever has become of it.        *)
KeptIn(P, Q) == \A q \in P : \E r \in Q : r.id = q.id /\ r.out = q.out

(* An end that was open before and had an entry.                           *)
OpenBefore(i, d, l) ==
  /\ i \in Links /\ d \in link[i].ends /\ link[i].phase # "failed"
  /\ ~(link[i].phase = "backlog" /\ d = "dst")
  /\ d = "dst" => l.dst = link[i].dst

LEMMA EndKept ==
  ASSUME IndInv, IndInv', EndInv,
         \A m \in Nodes : KeptIn(node[m].peers, node'[m].peers),
         \A i \in DOMAIN link' : \A d \in link'[i].ends :
           \/ link'[i].phase = "backlog" /\ d = "dst"
           \/ link'[i].phase = "failed"
           \/ Entries(i, d)' # {}
           \/ OpenBefore(i, d, link'[i])
  PROVE  EndInv'
<1> SUFFICES ASSUME NEW i \in DOMAIN link', NEW d \in link'[i].ends, OpenBefore(i, d, link'[i])
             PROVE  Entries(i, d)' # {}
  BY DEF EndInv, Links
<1>1. i \in Links /\ d \in Sides /\ Entries(i, d) # {} /\ (d = "dst" => link'[i].dst = link[i].dst)
  <2>1. d \in Sides
    <3>1. link[i] \in LinkInfos(net, i[1])
      BY LinkFacts DEF OpenBefore
    <3> QED
      BY <3>1 DEF OpenBefore, LinkInfos
  <2> QED
    BY <2>1 DEF OpenBefore, EndInv
<1>2. PICK q \in Entries(i, d) : TRUE
  BY <1>1
<1>3. /\ Owner(i, d) \in Nodes /\ q \in node[Owner(i, d)].peers
      /\ q.id = i /\ q.out = (d = "src")
  <2>1. q.out = (d = "src") /\ q.id = i
    BY <1>2 DEF Entries
  <2> QED
    BY <1>1, <1>2, <2>1, EntryOf
<1>4. Owner(i, d)' = Owner(i, d)
  BY <1>1 DEF Owner, Sides
<1>5. PICK r \in node'[Owner(i, d)].peers : r.id = i /\ r.out = (d = "src")
  BY <1>3 DEF KeptIn
<1>6. Owner(i, d) # NoNode
  BY <1>3, NodesAssumption
<1> QED
  BY <1>4, <1>5, <1>6 DEF Entries

(* A pass leaves every entry, and gives one to each link it begins.        *)
LEMMA TryOutEnds ==
  ASSUME IndInv, IndInv', EndInv, NEW n \in Nodes, NEW s, IsNode(s),
         KeptIn(node[n].peers, s.peers),
         NEW links, SameLinks(link, links), TryOut(n, s, links)
  PROVE  EndInv'
<1> DEFINE Pass(r) ==
             LET new == Dialled(r)
                 names == [a \in new |-> <<n, a, CHOOSE k \in Unused(n, a) : TRUE>>]
                 opened == {names[a] : a \in new}
             IN  /\ \A a \in new : Unused(n, a) # {}
                 /\ node' = [node EXCEPT ![n] = TryOutConnections(r, names)]
                 /\ link' = [i \in Links \cup opened |-> IF i \in Links THEN links[i] ELSE NewLink]
           ids == [a \in Dialled(s) |-> <<n, a, CHOOSE k \in Unused(n, a) : TRUE>>]
           t == TryOutConnections(s, ids)
           begun == {ids[a] : a \in Dialled(s)}
<1>1. /\ node' = [node EXCEPT ![n] = t]
      /\ link' = [i \in Links \cup begun |-> IF i \in Links THEN links[i] ELSE NewLink]
  <2>1. \E r \in {s} : Pass(r)
    BY DEF TryOut
  <2>2. Pass(s)
    <3> HIDE DEF Pass
    <3> QED
      BY <2>1
  <2> QED
    BY <2>2
<1>2. \A a \in Dialled(s) : ids[a][1] = n
  OBVIOUS
<1> HIDE DEF ids
<1> DEFINE news == {Peer(ids[a], TRUE, a, NoAddr, FALSE) : a \in Dialled(s)}
           cands == [a \in DOMAIN s.cands |-> s.cands[a] - (IF a \in ToTry(s) THEN 1 ELSE 0)]
<1>3. t.peers = s.peers \cup news
  <2>1. t = NodeRec(s.up, s.port, s.peers \cup news, cands)
    BY TryOutParts
  <2> HIDE DEF t, news, cands
  <2> QED
    BY <2>1, NodeFields
<1>4. DOMAIN node = Nodes
  BY DEF IndInv, Core
<1> HIDE DEF t
<1>5. node'[n] = t /\ \A m \in Nodes : m # n => node'[m] = node[m]
  BY <1>1, <1>4
<1>6. \A m \in Nodes : KeptIn(node[m].peers, node'[m].peers)
  BY <1>3, <1>5 DEF KeptIn
<1>7. ASSUME NEW i \in begun, i \notin Links
      PROVE  link'[i].ends = {"src"} /\ Entries(i, "src")' # {}
  <2>1. PICK a \in Dialled(s) : i = ids[a]
    OBVIOUS
  <2>2. PICK e \in t.peers : e = Peer(ids[a], TRUE, a, NoAddr, FALSE)
    BY <1>3
  <2>3. e.id = i /\ e.out = TRUE
    BY <2>1, <2>2 DEF Peer
  <2>4. i[1] = n /\ n # NoNode
    BY <1>2, <2>1, NodesAssumption
  <2>5. e \in Entries(i, "src")'
    BY <1>5, <2>3, <2>4 DEF Entries, Owner, Src
  <2>6. link'[i].ends = {"src"}
    BY <1>1, <1>7 DEF NewLink
  <2> QED
    BY <2>5, <2>6
<1>8. ASSUME NEW i \in Links
      PROVE  /\ link'[i].phase = link[i].phase /\ link'[i].dst = link[i].dst
             /\ link'[i].ends = link[i].ends
  BY <1>1, <1>8 DEF SameLinks, Links
<1>9. ASSUME NEW i \in DOMAIN link', NEW d \in link'[i].ends
      PROVE  \/ link'[i].phase = "backlog" /\ d = "dst"
             \/ link'[i].phase = "failed"
             \/ Entries(i, d)' # {}
             \/ OpenBefore(i, d, link'[i])
  <2>1. CASE i \in Links
    BY <1>8, <1>9, <2>1 DEF OpenBefore
  <2>2. CASE i \notin Links
    <3>1. i \in begun
      BY <1>1, <2>2
    <3>2. d = "src"
      BY <1>7, <2>2, <3>1
    <3> QED
      BY <1>7, <2>2, <3>1, <3>2
  <2> QED
    BY <2>1, <2>2
<1> QED
  BY <1>6, <1>9, EndKept

(* The steps that begin connections.                                       *)
LEMMA StartEnds ==
  ASSUME IndInv, IndInv', EndInv, NEW n \in Nodes, Start(n)
  PROVE  EndInv'
<1> DEFINE s == [node[n] EXCEPT !.up = TRUE]
<1>1. TryOut(n, s, link)
  BY DEF Start
<1>2. IsNode(node[n])
  BY CoreNode DEF IndInv
<1>3. s = NodeRec(TRUE, node[n].port, node[n].peers, node[n].cands)
  BY <1>2, NodeUpdate, Zenon
<1> HIDE DEF s
<1>4. IsNode(s) /\ s.peers = node[n].peers
  BY <1>3 DEF IsNode, NodeRec
<1>5. KeptIn(node[n].peers, s.peers) /\ SameLinks(link, link)
  BY <1>4 DEF KeptIn, SameLinks
<1> QED
  BY <1>1, <1>4, <1>5, TryOutEnds

LEMMA OtherPeerEnds ==
  ASSUME IndInv, IndInv', EndInv, NEW i \in Links, NEW d \in Sides, ReceiveOtherPeer(i, d)
  PROVE  EndInv'
<1> DEFINE n == Owner(i, d)
           as == Head(Inbox(i, d)).addrs
           s == OtherPeer(node[n], as)
<1>1. Arrived(i, d, "OPEER") /\ TryOut(n, s, Consumed(i, d))
  BY DEF ReceiveOtherPeer
<1>2. n \in Nodes /\ SameLinks(link, Consumed(i, d))
  BY <1>1, ArrivedFacts
<1>3. IsNode(node[n])
  BY <1>2, CoreNode DEF IndInv
<1> HIDE DEF n, as
<1> DEFINE k == 1
           c == Over([a \in as |-> k], node[n].cands)
<1> HIDE DEF k
<1>4. s = NodeRec(node[n].up, node[n].port, node[n].peers, c)
  BY <1>3, AddParts DEF OtherPeer, k
<1> HIDE DEF s, c
<1>5. IsNode(s) /\ s.peers = node[n].peers
  BY <1>4, NodeFields
<1>6. KeptIn(node[n].peers, s.peers)
  BY <1>5 DEF KeptIn
<1> QED
  BY <1>1, <1>2, <1>5, <1>6, TryOutEnds

(* A step of the node n that leaves the links as they are, but for one     *)
(* whose ends are new ones that have an entry, or are still as they were.  *)
LEMMA StepEnds ==
  ASSUME IndInv, IndInv', EndInv, NEW n \in Nodes, NEW s, node' = [node EXCEPT ![n] = s],
         KeptIn(node[n].peers, s.peers), NEW i \in Links, NEW l, link' = [link EXCEPT ![i] = l],
         \A d \in l.ends : \/ l.phase = "backlog" /\ d = "dst"
                           \/ l.phase = "failed"
                           \/ Entries(i, d)' # {}
                           \/ OpenBefore(i, d, l)
  PROVE  EndInv'
<1>1. DOMAIN node = Nodes
  BY DEF IndInv, Core
<1>2. \A m \in Nodes : KeptIn(node[m].peers, node'[m].peers)
  BY <1>1 DEF KeptIn
<1>3. DOMAIN link' = Links /\ link'[i] = l /\ \A j \in Links : j # i => link'[j] = link[j]
  BY DEF Links
<1>4. \A j \in DOMAIN link' : \A d \in link'[j].ends :
        \/ link'[j].phase = "backlog" /\ d = "dst"
        \/ link'[j].phase = "failed"
        \/ Entries(j, d)' # {}
        \/ OpenBefore(j, d, link'[j])
  <2>1. TAKE j \in DOMAIN link'
  <2>2. CASE j = i
    BY <1>3, <2>2
  <2>3. CASE j # i
    BY <1>3, <2>3 DEF OpenBefore
  <2> QED
    BY <2>2, <2>3
<1> QED
  BY <1>2, <1>4, EndKept

LEMMA HandshakeEnds ==
  ASSUME IndInv, IndInv', EndInv, NEW i \in Links, NEW d \in Sides, ReceiveHandshake(i, d)
  PROVE  EndInv'
<1> DEFINE n == Owner(i, d)
           e == Entry(i, d)
           port == Head(Inbox(i, d)).port
           s == Handshake(node[n], e, port)
           rest == Consumed(i, d)
           q == CHOOSE p \in s.peers : p.id = i /\ p.out = (d = "src")
           r == IF "src" \in link[i].ends THEN OPeers(OtherPeers(s, q)) ELSE <<>>
           links == [rest EXCEPT ![i].toSrc = rest[i].toSrc \o r]
<1>1. TryOut(n, s, links) \/ (link' = links /\ UNCHANGED node)
  BY Zenon DEF ReceiveHandshake
<1>2. Arrived(i, d, "HANDSH")
  BY DEF ReceiveHandshake
<1>3. n \in Nodes /\ e \in Entries(i, d) /\ SameLinks(link, rest)
  BY <1>2, ArrivedFacts
<1>4. e \in node[n].peers /\ IsPeer(e) /\ IsNode(node[n])
  <2>1. \A p \in Entries(i, d) : p \in node[Owner(i, d)].peers /\ IsPeer(p)
    BY EntryOf
  <2> QED
    BY <1>3, <2>1, CoreNode DEF IndInv
<1> HIDE DEF n, e, port, rest, q, r
<1>5. IsNode(s) /\ KeptIn(node[n].peers, s.peers)
  <2> DEFINE c == CanonAddr(e, port)
             f == Peer(e.id, e.out, e.addr, c, e.conn)
             P == (node[n].peers \ {e}) \cup {f}
             t == NodeRec(node[n].up, node[n].port, P, node[n].cands)
             k == 1
             as == {c}
             C == Over([a \in as |-> k], t.cands)
  <2>1. CASE c = e.addr
    <3>1. s = node[n]
      BY <2>1 DEF Handshake
    <3> QED
      BY <1>4, <3>1 DEF KeptIn
  <2>2. CASE c # e.addr
    <3>1. s = AddCandidates(t, {c}, 1)
      BY <1>4, <2>2, HandshakeParts, Zenon
    <3>2. f.id = e.id /\ f.out = e.out
      BY DEF Peer
    <3> HIDE DEF c, f, P
    <3>3. IsNode(t) /\ t.peers = P
      BY NodeFields
    <3>4. s = AddCandidates(t, as, k)
      BY <3>1
    <3> HIDE DEF t, k, as, s
    <3>5. s = NodeRec(t.up, t.port, t.peers, C)
      BY <3>3, <3>4, AddParts
    <3> HIDE DEF C
    <3>6. IsNode(s) /\ s.peers = P
      BY <3>3, <3>5, NodeFields
    <3> QED
      BY <3>2, <3>6 DEF KeptIn, P
  <2> QED
    BY <2>1, <2>2
<1> HIDE DEF s
<1>6. SameLinks(rest, links)
  BY DEF SameLinks
<1>7. SameLinks(link, links)
  BY <1>3, <1>6 DEF SameLinks
<1> HIDE DEF links
<1>8. CASE TryOut(n, s, links)
  BY <1>3, <1>5, <1>7, <1>8, TryOutEnds
<1>9. CASE link' = links /\ UNCHANGED node
  <2>1. \A m \in Nodes : KeptIn(node[m].peers, node'[m].peers)
    BY <1>9 DEF KeptIn
  <2>2. \A j \in DOMAIN link' : \A x \in link'[j].ends :
          \/ link'[j].phase = "backlog" /\ x = "dst"
          \/ link'[j].phase = "failed"
          \/ OpenBefore(j, x, link'[j])
    BY <1>7, <1>9 DEF SameLinks, OpenBefore, Links
  <2> QED
    BY <2>1, <2>2, EndKept
<1> QED
  BY <1>1, <1>8, <1>9

(* The steps that change one link.                                         *)
LEMMA ConnectFailsEnds ==
  ASSUME IndInv, IndInv', EndInv, NEW i \in Links, ConnectFails(i)
  PROVE  EndInv'
<1> DEFINE l == [link[i] EXCEPT !.phase = "failed"]
<1>1. link' = [link EXCEPT ![i] = l] /\ UNCHANGED node
  BY DEF ConnectFails
<1>2. l.phase = "failed"
  <2>1. link[i] \in LinkInfos(net, i[1])
    BY LinkFacts
  <2> QED
    BY <2>1 DEF LinkInfos
<1> HIDE DEF l
<1>3. \A m \in Nodes : KeptIn(node[m].peers, node'[m].peers)
  BY <1>1 DEF KeptIn
<1>4. \A j \in DOMAIN link' : \A d \in link'[j].ends :
        link'[j].phase = "failed" \/ OpenBefore(j, d, link'[j])
        \/ (link'[j].phase = "backlog" /\ d = "dst")
  BY <1>1, <1>2 DEF OpenBefore, Links
<1> QED
  BY <1>3, <1>4, EndKept

LEMMA TimerEnds ==
  ASSUME IndInv, IndInv', EndInv, NEW i \in Links, Timer(i)
  PROVE  EndInv'
<1> DEFINE m == OPeers(OtherPeers(node[Src(i)], Entry(i, "src")))
<1>1. link' = [link EXCEPT ![i].toDst = m] /\ UNCHANGED node
  BY DEF Timer
<1> HIDE DEF m
<1>2. SameLinks(link, link')
  BY <1>1 DEF SameLinks
<1>3. \A n \in Nodes : KeptIn(node[n].peers, node'[n].peers)
  BY <1>1 DEF KeptIn
<1>4. \A j \in DOMAIN link' : \A d \in link'[j].ends :
        \/ link'[j].phase = "backlog" /\ d = "dst"
        \/ link'[j].phase = "failed"
        \/ OpenBefore(j, d, link'[j])
  BY <1>2 DEF SameLinks, OpenBefore, Links
<1> QED
  BY <1>3, <1>4, EndKept

LEMMA ConnectDoneEnds ==
  ASSUME IndInv, IndInv', EndInv, NEW i \in Links, ConnectDone(i)
  PROVE  EndInv'
<1> DEFINE n == Src(i)
           e == Entry(i, "src")
           remote == RemoteHost(Asked(i))
           s == OutConnected(node[n], e, remote)
           c == CanonSeen(e, remote)
           f == Peer(e.id, e.out, e.addr, c, TRUE)
<1>1. PICK m, toDst :
        /\ node' = [node EXCEPT ![n] = s]
        /\ link' = [link EXCEPT ![i] = [phase |-> "backlog", dst |-> m, ends |-> Sides,
                                        toSrc |-> <<>>, toDst |-> toDst]]
  BY Zenon DEF ConnectDone
<1>2. link[i].phase = "connecting" /\ Entries(i, "src") # {}
  BY DEF ConnectDone
<1>3. EntryFacts(i, "src", n, e)
  <2>1. Owner(i, "src") = n /\ "src" \in Sides
    BY DEF Owner, Sides
  <2> HIDE DEF n, e
  <2>2. EntryFacts(i, "src", Owner(i, "src"), Entry(i, "src"))
    BY <1>2, <2>1, CloseFacts
  <2> QED
    BY <2>1, <2>2 DEF e
<1>4. n \in Nodes /\ e \in node[n].peers /\ IsPeer(e) /\ IsNode(node[n])
  BY <1>3, CoreNode DEF EntryFacts, IndInv
<1>5. s = NodeRec(node[n].up, node[n].port, (node[n].peers \ {e}) \cup {f}, node[n].cands)
  BY <1>4, OutConnectedParts, Zenon
<1> HIDE DEF n, e, s, c
<1>6. f.id = e.id /\ f.out = e.out
  BY DEF Peer
<1> HIDE DEF f
<1>7. KeptIn(node[n].peers, s.peers)
  BY <1>5, <1>6, NodeFields DEF KeptIn
<1> DEFINE l == [phase |-> "backlog", dst |-> m, ends |-> Sides, toSrc |-> <<>>, toDst |-> toDst]
<1>8. LinkInv(net, node, i, link[i])
  BY LinkFacts
<1>9. link[i].ends = {"src"}
  BY <1>2, <1>8 DEF LinkInv, Connected
<1>10. \A d \in l.ends : (l.phase = "backlog" /\ d = "dst") \/ OpenBefore(i, d, l)
  BY <1>2, <1>9 DEF Sides, OpenBefore
<1> HIDE DEF l
<1>11. link' = [link EXCEPT ![i] = l]
  BY <1>1 DEF l
<1> QED
  BY <1>1, <1>4, <1>7, <1>10, <1>11, StepEnds

LEMMA AcceptEnds ==
  ASSUME IndInv, IndInv', EndInv, NEW i \in Links, Accept(i)
  PROVE  EndInv'
<1> DEFINE n == link[i].dst
           l == [link[i] EXCEPT !.phase = "open"]
<1>1. PICK a : node' = [node EXCEPT ![n] = InConnectionReceived(node[n], i, a)]
  BY Zenon DEF Accept
<1> DEFINE s == InConnectionReceived(node[n], i, a)
           f == Peer(i, FALSE, a, NoAddr, TRUE)
<1>2. link[i].phase = "backlog" /\ link' = [link EXCEPT ![i] = l]
  BY DEF Accept
<1>3. /\ LinkInv(net, node, i, link[i]) /\ link[i] \in LinkInfos(net, i[1])
      /\ DOMAIN node = Nodes
  BY LinkFacts
<1>4. n \in Nodes /\ IsNode(node[n]) /\ n # NoNode
  <2>1. n \in Nodes
    BY <1>2, <1>3 DEF LinkInv, Connected
  <2> QED
    BY <2>1, CoreNode, NodesAssumption DEF IndInv
<1>5. s = NodeRec(node[n].up, node[n].port, node[n].peers \cup {f}, node[n].cands)
  BY <1>4, ListParts, Zenon
<1>6. l.phase = "open" /\ l.dst = n /\ l.ends = link[i].ends /\ link[i].ends \subseteq Sides
  BY <1>3 DEF LinkInfos
<1> HIDE DEF n, s, l
<1>7. f.id = i /\ f.out = FALSE
  BY DEF Peer
<1> HIDE DEF f
<1>8. s.peers = node[n].peers \cup {f}
  BY <1>5, NodeFields
<1>9. KeptIn(node[n].peers, s.peers)
  BY <1>8 DEF KeptIn
<1>10. link'[i].dst = n /\ node'[n] = s
  <2>1. link'[i] = l
    BY <1>2 DEF Links
  <2> QED
    BY <1>1, <1>3, <1>4, <1>6, <2>1 DEF s
<1>11. f \in Entries(i, "dst")'
  BY <1>4, <1>7, <1>8, <1>10 DEF Entries, Owner
<1>12. \A d \in l.ends : Entries(i, d)' # {} \/ OpenBefore(i, d, l)
  <2>1. TAKE d \in l.ends
  <2>2. CASE d = "dst"
    BY <1>11, <2>2
  <2>3. CASE d = "src"
    BY <1>2, <1>6, <2>3 DEF OpenBefore
  <2> QED
    BY <1>6, <2>2, <2>3 DEF Sides
<1>13. node' = [node EXCEPT ![n] = s]
  BY <1>1 DEF s
<1> QED
  BY <1>2, <1>4, <1>9, <1>12, <1>13, StepEnds

LEMMA CloseEnds ==
  ASSUME IndInv, IndInv', EndInv, NEW i \in Links, NEW d \in Sides, Close(i, d)
  PROVE  EndInv'
<1> DEFINE n == Owner(i, d)
           e == Entry(i, d)
           s == Closing(node[n], e)
           f == Peer(e.id, e.out, e.addr, e.canon, FALSE)
           l == link'[i]
<1>1. /\ node' = [node EXCEPT ![n] = s]
      /\ Entries(i, d) # {}
  BY Zenon DEF Close, Reading
<1>2. EntryFacts(i, d, n, e)
  BY <1>1, CloseFacts
<1>3. n \in Nodes /\ e \in node[n].peers /\ IsPeer(e) /\ IsNode(node[n]) /\ DOMAIN node = Nodes
  BY <1>2, CoreNode DEF EntryFacts, IndInv, Core
<1>4. s = NodeRec(node[n].up, node[n].port, (node[n].peers \ {e}) \cup {f}, node[n].cands)
  BY <1>3, ClosingParts, Zenon
<1> HIDE DEF n, e, s
<1>5. f.id = e.id /\ f.out = e.out
  BY DEF Peer
<1> HIDE DEF f
<1>6. KeptIn(node[n].peers, s.peers)
  BY <1>4, <1>5, NodeFields DEF KeptIn
<1>7. /\ DOMAIN link' = Links /\ \A j \in Links : j # i => link'[j] = link[j]
  BY DEF Close, Links
<1>8. l.phase = link[i].phase /\ l.dst = link[i].dst /\ l.ends \subseteq link[i].ends
  <2> DEFINE l1 == [link[i] EXCEPT !.ends = @ \ {d}]
  <2>1. /\ l1 \in LinkInfos(net, i[1]) /\ l1.phase = link[i].phase
        /\ l1.dst = link[i].dst /\ l1.ends = link[i].ends \ {d}
    <3>1. link[i] \in LinkInfos(net, i[1])
      BY LinkFacts
    <3> QED
      BY <3>1 DEF LinkInfos, Sides
  <2>2. l = IF d = "src" THEN [l1 EXCEPT !.toSrc = <<>>] ELSE [l1 EXCEPT !.toDst = <<>>]
    BY DEF Close, Links
  <2> HIDE DEF l1, l
  <2>3. CASE l = [l1 EXCEPT !.toSrc = <<>>]
    BY <2>1, <2>3 DEF LinkInfos
  <2>4. CASE l = [l1 EXCEPT !.toDst = <<>>]
    BY <2>1, <2>4 DEF LinkInfos
  <2> QED
    BY <2>2, <2>3, <2>4
<1>9. \A m \in Nodes : KeptIn(node[m].peers, node'[m].peers)
  BY <1>1, <1>3, <1>6 DEF KeptIn
<1>10. \A j \in DOMAIN link' : \A x \in link'[j].ends :
         \/ link'[j].phase = "backlog" /\ x = "dst"
         \/ link'[j].phase = "failed"
         \/ OpenBefore(j, x, link'[j])
  BY <1>7, <1>8 DEF OpenBefore
<1> QED
  BY <1>9, <1>10, EndKept

(* connectionClosed removes every entry of the address; here that is only  *)
(* the one that has closed.                                                *)
LEMMA ClosedEnds ==
  ASSUME IndInv, IndInv', EndInv, AddressesDiffer,
         NEW i \in Links, NEW d \in Sides, Closed(i, d)
  PROVE  EndInv'
<1> DEFINE n == Owner(i, d)
           e == Entry(i, d)
           s == ConnectionClosed(node[n], e)
<1>1. /\ d \notin link[i].ends /\ Entries(i, d) # {}
      /\ node' = [node EXCEPT ![n] = s]
  BY Zenon DEF Closed
<1>2. /\ DOMAIN link' \subseteq Links /\ \A j \in DOMAIN link' : link'[j] = link[j]
  BY DEF Closed, Links
<1>3. EntryFacts(i, d, n, e)
  BY <1>1, CloseFacts
<1>4. /\ n \in Nodes /\ e \in node[n].peers /\ IsNode(node[n]) /\ DOMAIN node = Nodes
      /\ ListInv(node[n].peers) /\ e.id = i /\ Side(e) = d /\ e.out \in BOOLEAN
  BY <1>3, CoreNode, EntryOwned DEF EntryFacts, IndInv, Core
<1> HIDE DEF n, e
<1> DEFINE P == {p \in node[n].peers : p # e /\ p.addr # e.addr}
<1>5. s.peers = P
  <2>1. s = NodeRec(node[n].up, node[n].port, P, node[n].cands)
    BY <1>4, ListParts, Zenon
  <2> HIDE DEF s, P
  <2> QED
    BY <2>1, NodeFields
<1>6. P = node[n].peers \ {e}
  <2>1. ASSUME NEW p \in node[n].peers, p.addr = e.addr  PROVE p = e
    <3>1. p.out \in BOOLEAN
      BY <1>4, EntryOwned
    <3>2. CASE p.out = TRUE /\ e.out = TRUE
      BY <1>4, <2>1, <3>2 DEF ListInv
    <3>3. CASE p.out = FALSE
      BY <1>4, <2>1, <3>3 DEF AddressesDiffer
    <3>4. CASE e.out = FALSE
      BY <1>4, <2>1, <3>4 DEF AddressesDiffer
    <3> QED
      BY <1>4, <3>1, <3>2, <3>3, <3>4
  <2> QED
    BY <2>1
<1> HIDE DEF s, P
<1>7. node'[n].peers = node[n].peers \ {e} /\ \A m \in Nodes : m # n => node'[m] = node[m]
  BY <1>1, <1>4, <1>5, <1>6
<1> SUFFICES ASSUME NEW j \in DOMAIN link', NEW x \in link'[j].ends,
                    link'[j].phase # "failed", ~(link'[j].phase = "backlog" /\ x = "dst")
             PROVE  Entries(j, x)' # {}
  BY DEF EndInv, Links
<1>8. j \in Links /\ x \in link[j].ends /\ x \in Sides /\ link'[j] = link[j] /\ Entries(j, x) # {}
  <2>1. j \in Links /\ link'[j] = link[j]
    BY <1>2
  <2>2. link[j] \in LinkInfos(net, j[1])
    BY <2>1, LinkFacts
  <2> QED
    BY <2>1, <2>2 DEF EndInv, LinkInfos
<1>9. PICK q \in Entries(j, x) : TRUE
  BY <1>8
<1>10. /\ Owner(j, x) \in Nodes /\ q \in node[Owner(j, x)].peers /\ q.id = j /\ Side(q) = x
  BY <1>8, <1>9, EntryOf
<1>11. q.out = (x = "src")
  BY <1>9 DEF Entries
<1>12. q # e
  BY <1>1, <1>4, <1>8, <1>10
<1>13. Owner(j, x)' = Owner(j, x)
  BY <1>8 DEF Owner
<1>14. q \in node'[Owner(j, x)].peers
  BY <1>7, <1>10, <1>12
<1>15. Owner(j, x) # NoNode
  BY <1>10, NodesAssumption
<1>16. q \in Entries(j, x)'
  BY <1>10, <1>11, <1>13, <1>14, <1>15 DEF Entries
<1> QED
  BY <1>16

LEMMA EndInit == Init => EndInv
BY DEF Init, EndInv, Links

LEMMA EndNext ==
  IndInv /\ IndInv' /\ EndInv /\ AddressesDiffer /\ [Next]_vars => EndInv'
<1> SUFFICES ASSUME IndInv, IndInv', EndInv, AddressesDiffer, [Next]_vars  PROVE EndInv'
  OBVIOUS
<1>1. CASE \E n \in Nodes : Start(n)
  BY <1>1, StartEnds
<1>2. CASE \E i \in Links : ConnectFails(i)
  BY <1>2, ConnectFailsEnds
<1>3. CASE \E i \in Links : ConnectDone(i)
  BY <1>3, ConnectDoneEnds
<1>4. CASE \E i \in Links : Accept(i)
  BY <1>4, AcceptEnds
<1>5. CASE \E i \in Links, d \in Sides : ReceiveOtherPeer(i, d)
  BY <1>5, OtherPeerEnds
<1>6. CASE \E i \in Links, d \in Sides : ReceiveHandshake(i, d)
  BY <1>6, HandshakeEnds
<1>7. CASE \E i \in Links, d \in Sides : Close(i, d)
  BY <1>7, CloseEnds
<1>8. CASE \E i \in Links, d \in Sides : Closed(i, d)
  BY <1>8, ClosedEnds
<1>9. CASE \E i \in Links : Timer(i)
  BY <1>9, TimerEnds
<1>10. CASE UNCHANGED vars
  BY <1>10 DEF vars, EndInv, Links, Entries, Owner, Src
<1> QED
  BY <1>1, <1>2, <1>3, <1>4, <1>5, <1>6, <1>7, <1>8, <1>9, <1>10, Zenon
     DEF Next, Deliver, Fail

LEMMA EndsMatch == IndInv /\ EndInv => EntriesMatchLinks
<1> SUFFICES ASSUME IndInv, EndInv  PROVE EntriesMatchLinks
  OBVIOUS
<1>1. ASSUME NEW i \in Links, NEW d \in link[i].ends
      PROVE  \/ link[i].phase = "backlog" /\ d = "dst"
             \/ link[i].phase = "failed"
             \/ Cardinality(Entries(i, d)) = 1
  <2>1. d \in Sides
    <3>1. link[i] \in LinkInfos(net, i[1])
      BY LinkFacts
    <3> QED
      BY <3>1 DEF LinkInfos
  <2>2. ASSUME NEW e \in Entries(i, d)  PROVE Cardinality(Entries(i, d)) = 1
    <3>1. Entries(i, d) = {e}
      BY <2>1, EntryOf, ZenonT(30)
    <3> QED
      BY <3>1, FS_Singleton
  <2> QED
    BY <2>2 DEF EndInv
<1>2. ASSUME NEW n \in Nodes, NEW e \in node[n].peers, e.conn
      PROVE  e.id \in Links /\ (IF e.out THEN "src" ELSE "dst") \in link[e.id].ends
  <2>1. EntryInv(net, n, link, e)
    BY EntryOwned
  <2> QED
    BY <1>2, <2>1 DEF EntryInv, Side, Links
<1> QED
  BY <1>1, <1>2 DEF EntriesMatchLinks

(* connectionClosed removes the entry that has closed and no other, as     *)
(* long as no incoming connection goes by the address of another entry.    *)
THEOREM ListsAreExact == Spec /\ []AddressesDiffer => []EntriesMatchLinks
<1>1. Init => EndInv
  BY EndInit
<1>2. IndInv /\ IndInv' /\ EndInv /\ AddressesDiffer /\ [Next]_vars => EndInv'
  BY EndNext
<1>3. IndInv /\ EndInv => EntriesMatchLinks
  BY EndsMatch
<1> QED
  BY <1>1, <1>2, <1>3, Invariance, PTL DEF Spec
=============================================================================
