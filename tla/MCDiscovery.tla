---------------------------- MODULE MCDiscovery ----------------------------
(* Small networks for Discovery.  Only the first of the local ports is      *)
(* tried: with the second, C on one machine would dial B by itself, and     *)
(* there would be less to discover.                                         *)
EXTENDS Discovery

MCNodes == {"A", "B", "C"}

(* What an ephemeral port looks like after getRemoteAddress: a number of    *)
(* its own for every link.                                                  *)
HostList == <<"?", "localhost", Loopback, "hostA", "hostB", "hostC">>
MCHosts == {HostList[k] : k \in DOMAIN HostList}
Place(x, s) == CHOOSE k \in DOMAIN s : s[k] = x
MCShownPort(i) ==
  40000 + 1000 * Place(Src(i), <<"A", "B", "C">>) + 100 * Place(Asked(i)[1], HostList)
        + 10 * (Asked(i)[2] - 5000) + i[3]

A == <<"hostA", 5000>>
B == <<"hostB", 5000>>
C == <<"hostC", 5000>>
MCAddrs == {A, B, C}

(* Port 34835 with its bytes swapped is 5000.                               *)
SwappedPort(i) == IF i = <<"B", A, 1>> THEN 5000 ELSE MCShownPort(i)

(* On one machine the second and the third node take the next ports.        *)
OneMachine == [host |-> [n \in MCNodes |-> "hostA"],
               port |-> [A |-> 5000, B |-> 5001, C |-> 5002]]
Apart == [host |-> [A |-> "hostA", B |-> "hostB", C |-> "hostC"],
          port |-> [n \in MCNodes |-> 5000]]

(* Two nodes on one machine and the third on another.                       *)
Two == [host |-> [A |-> "hostA", B |-> "hostA", C |-> "hostC"],
        port |-> [A |-> 5000, B |-> 5001, C |-> 5000]]

Extra(a, b, c) == [A |-> a, B |-> b, C |-> c]

Network(where, nodes, extra, losses, calm) ==
  [nodes |-> nodes, host |-> where.host, port |-> where.port, extra |-> extra,
   losses |-> losses, calm |-> calm]

MCNetworks ==
  {Network(OneMachine, MCNodes, Extra({}, {}, {}), 0, TRUE),
   Network(OneMachine, {"A", "B"}, Extra({}, {}, {}), 1, FALSE),
   Network(Apart, MCNodes, Extra({}, {A}, {A}), 0, TRUE)}

(* A knows B by an address that is of use on their machine only, and is     *)
(* connected to C.                                                          *)
TwoMachines == {Network(Two, MCNodes, Extra({}, {}, {A}), 0, TRUE)}

(* Two nodes that were started before the third one, which they were given. *)
LateHub == {Network(Apart, MCNodes, Extra({C}, {C}, {A, B}), 0, TRUE)}

(* Two nodes that were given each other.                                    *)
Mutual == {Network(Apart, {"A", "B"}, Extra({B}, {A}, {}), 1, FALSE)}
=============================================================================
