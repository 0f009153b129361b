------------------------------ MODULE Registry ------------------------------
(***************************************************************************)
(* ServerApp and its connections in one loop: myClients, the map by        *)
(* address that holds the only reference to each of them, against the      *)
(* callbacks libuv still has for them, and the end of the loop.            *)
(*                                                                         *)
(* One iteration of uv_run delivers events, any number of them, and then   *)
(* finishes the handles that are closing by then; the stop flag is looked  *)
(* at between iterations.  A read brings one message (bound; Connection    *)
(* has any number of them).                                                *)
(***************************************************************************)
EXTENDS NetClient

CONSTANTS
  Ids,       \* connections
  Addrs,     \* addresses of remote sides
  Unknown,   \* what getRemoteAddress gives for a connection that is lost ("?:0")
  MaxOwed    \* bound: no message is read with so many write callbacks to come

ASSUME UnknownAssumption == Unknown \notin Addrs
ASSUME MaxOwedAssumption == MaxOwed \in Nat

VARIABLES
  remote,   \* the other side: "none" yet, "open", "closed", "reset"
  addr,     \* its address (Unknown: none yet)
  shown,    \* getPeerAddr of the connection (Unknown: none yet, or unknown)
  conns,    \* the connections
  clients,  \* myClients
  loop,     \* "events", "closing", "ended"
  due,      \* the closing handles this iteration finishes
  stop,     \* uv_stop has been called
  broken    \* history: a callback has used an object that was freed before

env == <<remote, addr>>
vars == <<env, shown, conns, clients, loop, due, stop, broken>>

IsAccepted(c) == conns[c].handle # "none"
Closing == {c \in Ids : conns[c].handle = "closing"}
HeldBy(map) == {map[a] : a \in DOMAIN map}
Held == HeldBy(clients)

Init ==
  /\ remote = [c \in Ids |-> "none"] /\ addr = [c \in Ids |-> Unknown]
  /\ shown = [c \in Ids |-> Unknown]
  /\ conns = [c \in Ids |-> NewConnection("ServerIn")]
  /\ clients = [a \in {} |-> Unknown]
  /\ loop = "events" /\ due = {} /\ stop = FALSE /\ broken = FALSE

-----------------------------------------------------------------------------
(* The other sides *)

(* An address can be had again when its connection was reset, or when the  *)
(* server has closed it too.                                               *)
Available(a) == \A c \in Ids : addr[c] = a =>
                  \/ remote[c] = "reset"
                  \/ remote[c] = "closed" /\ conns[c].handle \in {"closing", "closed"}

Arrive(c, a) ==
  /\ loop # "ended" /\ remote[c] = "none" /\ Available(a)
  /\ remote' = [remote EXCEPT ![c] = "open"] /\ addr' = [addr EXCEPT ![c] = a]
  /\ UNCHANGED <<shown, conns, clients, loop, due, stop, broken>>

Leave(c, how) ==
  /\ loop # "ended" /\ remote[c] \in {"open", "closed"} /\ remote[c] # how
  /\ remote' = [remote EXCEPT ![c] = how]
  /\ UNCHANGED <<addr, shown, conns, clients, loop, due, stop, broken>>

-----------------------------------------------------------------------------
(* myClients *)

(* Mutant: the loop over the map erases without looking.                   *)
WithoutAny(c) == {}

(* Mutant: the entry is not found.                                         *)
WithoutNone(c) == DOMAIN clients

(* connectionClosed: the addresses that stay.                              *)
Without(c) == {a \in DOMAIN clients : clients[a] # c}

(* inConnectionReceived: the map with c under the address a.               *)
Entered(c, a) ==
  [b \in DOMAIN clients \cup {a} |-> IF b = a THEN c ELSE clients[b]]

(* An object the map has let go of is destroyed; its stream is not closed. *)
Freed(r) == [r EXCEPT !.obj = "freed"]

(* Connection c is r now, and the map is the given one.                    *)
Becomes(c, r, map) ==
  /\ clients' = map
  /\ conns' = [d \in Ids |->
       LET s == IF d = c THEN r ELSE conns[d]
       IN  IF d \in Held \ HeldBy(map) THEN Freed(s) ELSE s]

-----------------------------------------------------------------------------
(* The callbacks of a connection *)

(* A callback finds the object of c, or the memory of one freed before.    *)
Call(c, r, map) ==
  \/ conns[c].obj = "live" /\ Becomes(c, r, map) /\ UNCHANGED broken
  \/ conns[c].obj = "freed" /\ broken' = TRUE /\ UNCHANGED <<conns, clients>>

(* Accepting, inConnectionReceived and the first doRead; uv_accept itself  *)
(* is taken to succeed.                                                    *)
Accept(c) ==
  /\ loop = "events" /\ ~broken /\ remote[c] # "none" /\ ~IsAccepted(c)
  /\ LET a == IF remote[c] = "reset" THEN Unknown ELSE addr[c]
     IN  /\ shown' = [shown EXCEPT ![c] = a]
         /\ \E u \in Outcomes(conns[c]) :
              Becomes(c, DoRead(Accepted(conns[c]), u.read), Entered(c, a))
  /\ UNCHANGED <<env, loop, due, stop, broken>>

ReadMessage(c) ==
  /\ loop = "events" /\ ~broken
  /\ conns[c].reading /\ conns[c].owed < MaxOwed
  /\ \E m \in Messages, u \in Outcomes(conns[c]) :
       Call(c, Process(Receive(conns[c], m, u), u), clients)
  /\ UNCHANGED <<env, shown, loop, due, stop>>

(* Mutant: the end of the stream is not an error, so it is passed over.    *)
ReadStopErrors(c) ==
  /\ loop = "events" /\ ~broken
  /\ conns[c].reading /\ remote[c] = "reset"
  /\ Call(c, Close(conns[c], "eof"), clients)
  /\ UNCHANGED <<env, shown, loop, due, stop>>

(* The end of the stream, or an error.                                     *)
ReadStop(c) ==
  /\ loop = "events" /\ ~broken
  /\ conns[c].reading /\ remote[c] \in {"closed", "reset"}
  /\ Call(c, Close(conns[c], "eof"), clients)
  /\ UNCHANGED <<env, shown, loop, due, stop>>

WriteDone(c) ==
  /\ loop = "events" \/ c \in due
  /\ ~broken /\ conns[c].owed > 0
  /\ \E ok \in BOOLEAN, u \in Outcomes(conns[c]) :
       Call(c, OnWrite(conns[c], ok, u), clients)
  /\ UNCHANGED <<env, shown, loop, due, stop>>

(* Mutant: connectionClosed closes the other connections that wait.        *)
CloseDoneOthers(c) ==
  /\ loop = "closing" /\ ~broken /\ c \in due /\ conns[c].owed = 0
  /\ conns' = [d \in Ids |-> CASE d = c -> OnClose(conns[d])
                            [] d # c /\ conns[d].stream -> Close(conns[d], "done")
                            [] d # c /\ ~conns[d].stream -> conns[d]]
  /\ clients' = [a \in Without(c) |-> clients[a]]
  /\ due' = due \ {c}
  /\ UNCHANGED <<env, shown, loop, stop, broken>>

(* onClose, with connectionClosed.                                         *)
CloseDone(c) ==
  /\ loop = "closing" /\ ~broken /\ c \in due /\ conns[c].owed = 0
  /\ Call(c, OnClose(conns[c]), [a \in Without(c) |-> clients[a]])
  /\ due' = due \ {c}
  /\ UNCHANGED <<env, shown, loop, stop>>

-----------------------------------------------------------------------------
(* The loop *)

EndEvents ==
  /\ loop = "events" /\ ~broken /\ (stop \/ Closing # {})
  /\ loop' = "closing" /\ due' = Closing
  /\ UNCHANGED <<env, shown, conns, clients, stop, broken>>

NextIteration ==
  /\ loop = "closing" /\ ~broken /\ due = {} /\ ~stop
  /\ loop' = "events"
  /\ UNCHANGED <<env, shown, conns, clients, due, stop, broken>>

(* uv_walk closes what is there, with a callback that knows no connection; *)
(* it is never called, as the loop is deleted.                             *)
Walk ==
  /\ loop = "closing" /\ ~broken /\ due = {} /\ stop
  /\ loop' = "ended"
  /\ conns' = [c \in Ids |-> IF IsAccepted(c) /\ conns[c].handle # "closed"
                             THEN [conns[c] EXCEPT !.handle = "closing", !.reading = FALSE]
                             ELSE conns[c]]
  /\ UNCHANGED <<env, shown, clients, due, stop, broken>>

UvStop ==
  /\ ~stop
  /\ stop' = TRUE
  /\ UNCHANGED <<env, shown, conns, clients, loop, due, broken>>

Callback(c) == Accept(c) \/ ReadMessage(c) \/ ReadStop(c) \/ WriteDone(c) \/ CloseDone(c)
Iterate == EndEvents \/ NextIteration \/ Walk

Next == \/ \E c \in Ids : \/ \E a \in Addrs : Arrive(c, a)
                          \/ \E how \in {"closed", "reset"} : Leave(c, how)
                          \/ Callback(c)
        \/ Iterate
        \/ UvStop

Spec == Init /\ [][Next]_vars

(* A socket that is ready is reported, what is owed is delivered, and the  *)
(* loop goes round.                                                        *)
Fairness == /\ WF_vars(Iterate)
            /\ \A c \in Ids : /\ WF_vars(Accept(c)) /\ WF_vars(ReadStop(c))
                              /\ WF_vars(WriteDone(c)) /\ WF_vars(CloseDone(c))

FairSpec == Spec /\ Fairness

-----------------------------------------------------------------------------
(* Every variable keeps its shape. *)
TypeOK ==
  /\ remote \in [Ids -> {"none", "open", "closed", "reset"}]
  /\ addr \in [Ids -> Addrs \cup {Unknown}] /\ shown \in [Ids -> Addrs \cup {Unknown}]
  /\ conns \in [Ids -> Connections]
  /\ DOMAIN clients \subseteq Addrs \cup {Unknown} /\ Held \subseteq Ids
  /\ loop \in {"events", "closing", "ended"} /\ due \subseteq Ids
  /\ stop \in BOOLEAN /\ broken \in BOOLEAN

(* The map (app.cpp:48, 60) against what libuv has: an entry is a          *)
(* connection with that address which has been accepted and not finished,  *)
(* and an object is alive exactly while it has an entry.                   *)
EntriesMatchHandles ==
  /\ \A a \in DOMAIN clients : /\ shown[clients[a]] = a
                              /\ conns[clients[a]].handle \in {"open", "closing"}
  /\ \A c \in Ids : IsAccepted(c) => (conns[c].obj = "live" <=> c \in Held)

(* A connection whose object is gone before its handle, and with it a      *)
(* callback that uses freed memory, needs another connection under the     *)
(* same address (app.cpp:48): closing one never costs another its object.  *)
LostOnlyByAddress ==
  /\ \A c \in Ids : IsAccepted(c) /\ conns[c].handle # "closed" /\ conns[c].obj = "freed" =>
       \E d \in Ids \ {c} : IsAccepted(d) /\ shown[d] = shown[c]
  /\ broken => \E c, d \in Ids : c # d /\ IsAccepted(c) /\ IsAccepted(d) /\ shown[c] = shown[d]

(* libuv must not be asked to close a handle that is closing already, and  *)
(* on_walk (net_handler.cpp:285) does not ask: when it comes, no handle    *)
(* may be in between, although a stop may come at any time.                *)
WalkFindsNoneClosing ==
  [][loop' = "ended" /\ loop # "ended" => Closing = {}]_vars

(* A client that has left is removed from the map, unless the server stops *)
(* or its memory is lost.                                                  *)
GoneIsForgotten ==
  \A c \in Ids : c \in Held /\ remote[c] \in {"closed", "reset"}
                ~> c \notin Held \/ loop = "ended" \/ broken

(* A close() is seen through although a stop may come at any time: when    *)
(* the loop is deleted (net_handler.cpp:68), every connection the server   *)
(* decided to close has had its callback and is out of the map, so that    *)
(* uv_walk is left with those only that nobody had closed.                 *)
StopFinishesCloses ==
  loop = "ended" =>
    \A c \in Ids : conns[c].why # {} => conns[c].handle = "closed" /\ c \notin Held

-----------------------------------------------------------------------------
(* The inductive invariant.                                                *)

(* A connection of the server as its own callbacks leave it.               *)
ConnInv(r) ==
  /\ r \in Connections /\ r.kind = "ServerIn"
  /\ r.handle \in {"none", "open", "closing", "closed"}
  /\ r.stream <=> r.handle = "open"
  /\ r.reading => r.handle = "open"
  /\ r.handle \in {"none", "open"} => r.why = {}
  /\ r.handle = "none" => r.obj = "live" /\ r.owed = 0
  /\ r.handle = "closed" => r.obj = "freed" /\ r.owed = 0

(* The iteration: what it has to finish is what is closing.                *)
LoopInv ==
  /\ loop # "closing" => due = {}
  /\ loop = "closing" /\ ~broken => due = Closing
  /\ loop = "ended" => stop

IndInv ==
  /\ TypeOK
  /\ loop # "ended" => \A c \in Ids : ConnInv(conns[c])
  /\ LoopInv
  /\ EntriesMatchHandles
  /\ LostOnlyByAddress
  /\ StopFinishesCloses
=============================================================================
