--------------------------- MODULE RegistryProofs ---------------------------
(***************************************************************************)
(* Proofs about Registry, for any number of connections and addresses:     *)
(* first what the callbacks of one connection do to its record, then what  *)
(* becomes of the map, then the inductive invariant, action by action.     *)
(***************************************************************************)
EXTENDS Registry, TLAPS

-----------------------------------------------------------------------------
(* One connection *)

(* What a callback other than the close one leaves as it is.               *)
Goes(r, s) ==
  /\ ConnInv(s) /\ s.obj = r.obj
  /\ r.handle = "open" => s.handle \in {"open", "closing"}
  /\ r.handle = "closing" => s.handle = "closing"

(* close() of an accepted connection.                                      *)
LEMMA CloseGoes ==
  ASSUME NEW r, ConnInv(r), r.handle \in {"open", "closing"}, NEW why \in Reasons
  PROVE  Goes(r, Close(r, why)) /\ Close(r, why).handle = "closing"
<1>1. r.why \cup {why} \in SUBSET Reasons
  BY DEF ConnInv, Connections
<1>2. CASE r.stream
  <2>1. Close(r, why) = [r EXCEPT !.st = "Closing", !.why = @ \cup {why}, !.stream = FALSE,
                                  !.handle = "closing", !.reading = FALSE]
    BY <1>2 DEF Close, ConnInv, Connections
  <2> QED
    BY <1>1, <1>2, <2>1, ZenonT(30) DEF Goes, ConnInv, Connections, States, Handles
<1>3. CASE ~r.stream
  <2>1. Close(r, why) = [r EXCEPT !.st = "Closing", !.why = @ \cup {why}]
    BY <1>3 DEF Close
  <2> QED
    BY <1>1, <1>3, <2>1 DEF Goes, ConnInv, Connections, States, Handles
<1> QED
  BY <1>2, <1>3 DEF ConnInv, Connections

(* The reply of the server, which uv_write may refuse.                     *)
LEMMA SendGoes ==
  ASSUME NEW r, ConnInv(r), r.handle = "open", NEW sent \in Nat
  PROVE  Goes(r, Send(r, 1, sent))
<1> DEFINE s == [r EXCEPT !.st = "Sending"]
<1>1. ConnInv(s) /\ s.handle = "open" /\ s.obj = r.obj /\ r.stream
  BY DEF ConnInv, Connections, States
<1>2. CASE r.st \in Ended
  BY <1>2 DEF Send, Goes
<1>3. CASE r.st \notin Ended /\ sent >= 1
  <2> DEFINE more == r.owed + 1
  <2>1. Send(r, 1, sent) = [r EXCEPT !.st = "Sending", !.owed = more]
    BY <1>1, <1>3 DEF Send
  <2>2. more \in Nat
    BY DEF ConnInv, Connections
  <2> HIDE DEF more
  <2> QED
    BY <1>1, <2>1, <2>2 DEF Goes, ConnInv, Connections, States
<1>4. CASE r.st \notin Ended /\ ~(sent >= 1)
  <2> DEFINE more == r.owed + sent
             t == [r EXCEPT !.st = "Sending", !.owed = more]
  <2>1. Send(r, 1, sent) = Close(t, "send")
    BY <1>1, <1>4 DEF Send
  <2>2. more \in Nat
    BY DEF ConnInv, Connections
  <2> HIDE DEF more
  <2>3. ConnInv(t) /\ t.handle = "open" /\ t.obj = r.obj
    BY <2>2 DEF ConnInv, Connections, States
  <2>4. Goes(t, Close(t, "send"))
    BY <2>3, CloseGoes DEF Reasons
  <2> HIDE DEF t
  <2> QED
    BY <2>1, <2>3, <2>4 DEF Goes
<1> QED
  BY <1>2, <1>3, <1>4

(* One message, and the process() after it.                                *)
LEMMA MessageGoes ==
  ASSUME NEW r, ConnInv(r), r.handle = "open",
         NEW m \in Messages, NEW u \in Outcomes(r)
  PROVE  Goes(r, Process(Receive(r, m, u), u))
<1> DEFINE g == [r EXCEPT !.st = "Received"]
<1>1. ConnInv(g) /\ g.handle = "open" /\ g.obj = r.obj
  BY DEF ConnInv, Connections, States
<1>2. Receive(r, m, u) = ServerMessage(g, m, u)
  BY <1>1 DEF Receive, ConnInv
<1>3. u.sent \in Nat
  BY MaxOtherAssumption DEF Outcomes
<1> HIDE DEF g
<1>4. Goes(g, ServerMessage(g, m, u))
  <2>1. CASE m = "OldHandshake"
    BY <1>1, <2>1, CloseGoes DEF ServerMessage, Reasons
  <2>2. CASE m \in {"Handshake", "Ping"}
    BY <1>1, <1>3, <2>2, SendGoes DEF ServerMessage
  <2>3. CASE m \in {"HandshakeResponse", "PingResponse", "OtherPeer"}
    <3>1. ServerMessage(g, m, u) = Fault(g, "message")
      BY <2>3 DEF ServerMessage
    <3>2. g.faults \cup {"message"} \in SUBSET Faults
      BY <1>1 DEF ConnInv, Connections, Faults
    <3> QED
      BY <1>1, <3>1, <3>2 DEF Fault, Goes, ConnInv, Connections
  <2> QED
    BY <2>1, <2>2, <2>3 DEF Messages
<1>5. Process(Receive(r, m, u), u) = Receive(r, m, u)
  BY <1>2, <1>4 DEF Process, Goes, ConnInv, InKinds
<1> QED
  BY <1>1, <1>2, <1>4, <1>5 DEF Goes

(* The end of a write.                                                     *)
LEMMA WriteGoes ==
  ASSUME NEW r, ConnInv(r), r.handle \in {"open", "closing"}, r.owed > 0,
         NEW ok \in BOOLEAN, NEW u
  PROVE  Goes(r, OnWrite(r, ok, u))
<1> DEFINE a == IF r.st \in {"Sending", "Receiving", "Received"} THEN r
                ELSE Fault(r, "onWrite")
           b == [a EXCEPT !.owed = @ - 1]
<1>1. r.faults \cup {"onWrite"} \in SUBSET Faults
  BY DEF ConnInv, Connections, Faults
<1>2. ConnInv(a) /\ a.handle = r.handle /\ a.obj = r.obj /\ a.owed = r.owed
  BY <1>1 DEF Fault, ConnInv, Connections
<1>3. OnWrite(r, ok, u) = IF ok THEN Process(b, u) ELSE Close(b, "write")
  BY DEF OnWrite
<1> HIDE DEF a
<1>4. ConnInv(b) /\ b.handle = r.handle /\ b.obj = r.obj
  BY <1>2 DEF ConnInv, Connections
<1> HIDE DEF b
<1>5. Process(b, u) = b
  BY <1>4 DEF Process, ConnInv, InKinds
<1>6. Goes(b, Close(b, "write"))
  BY <1>4, CloseGoes DEF Reasons
<1> QED
  BY <1>3, <1>4, <1>5, <1>6 DEF Goes

(* Accepting and the first doRead.                                         *)
LEMMA AcceptGoes ==
  ASSUME NEW r, ConnInv(r), r.handle = "none", NEW ok \in BOOLEAN
  PROVE  LET s == DoRead(Accepted(r), ok)
         IN  ConnInv(s) /\ s.obj = "live" /\ s.handle \in {"open", "closing"}
<1> DEFINE s == [r EXCEPT !.st = "Receiving", !.stream = TRUE, !.handle = "open"]
<1>1. ConnInv(s) /\ s.obj = "live" /\ s.handle = "open" /\ r.reading = FALSE
  BY DEF ConnInv, Connections, States, Handles
<1>2. [Accepted(r) EXCEPT !.st = "Receiving"] = s
  BY DEF Accepted, ConnInv, Connections
<1>3. Accepted(r).stream /\ ~Accepted(r).reading
  BY <1>1 DEF Accepted, ConnInv, Connections
<1>4. CASE ok
  <2>1. DoRead(Accepted(r), ok) = [s EXCEPT !.reading = TRUE]
    BY <1>2, <1>3, <1>4 DEF DoRead
  <2> HIDE DEF s
  <2> QED
    BY <1>1, <2>1 DEF ConnInv, Connections
<1>5. CASE ~ok
  <2>1. DoRead(Accepted(r), ok) = Close(s, "read")
    BY <1>2, <1>3, <1>5 DEF DoRead
  <2> HIDE DEF s
  <2> QED
    BY <1>1, <2>1, CloseGoes DEF Reasons, Goes
<1> QED
  BY <1>4, <1>5

(* The close callback.                                                     *)
LEMMA CloseDoneGoes ==
  ASSUME NEW r, ConnInv(r), r.handle = "closing", r.owed = 0
  PROVE  ConnInv(OnClose(r)) /\ OnClose(r).handle = "closed" /\ OnClose(r).obj = "freed"
<1> DEFINE told == ConnectionClosed(r)
           gone == [told EXCEPT !.handle = "closed", !.dels = @ + 1, !.st = "Closed"]
<1> DEFINE timer == IF r.timer = "on" THEN "stopped" ELSE r.timer
<1>1. told = [r EXCEPT !.obj = "freed", !.timer = timer]
  BY DEF ConnectionClosed, ConnInv
<1>2. told \in Connections /\ told.obj = "freed"
  <2>1. timer \in Timers
    BY DEF ConnInv, Connections, Timers
  <2> HIDE DEF timer
  <2> QED
    BY <1>1, <2>1 DEF ConnInv, Connections
<1>3. gone \in Connections /\ gone.obj = "freed" /\ gone.handle = "closed"
  <2> HIDE DEF told
  <2>1. told.dels + 1 \in Nat
    BY <1>2 DEF Connections
  <2> QED
    BY <1>2, <2>1 DEF Connections, States, Handles
<1>4. /\ gone.kind = "ServerIn" /\ ~gone.stream /\ ~gone.reading /\ gone.owed = 0
  BY <1>1 DEF ConnInv, Connections
<1>5. OnClose(r) = Fault(gone, "useAfterFree")
  BY <1>2 DEF OnClose
<1>6. gone.faults \cup {"useAfterFree"} \in SUBSET Faults
  BY <1>3 DEF Connections, Faults
<1> HIDE DEF gone
<1> QED
  BY <1>3, <1>4, <1>5, <1>6 DEF Fault, ConnInv, Connections

-----------------------------------------------------------------------------
(* The map *)

LEMMA IndInit == Init => IndInv
<1> SUFFICES ASSUME Init PROVE IndInv
  OBVIOUS
<1>1. DOMAIN clients = {} /\ Held = {}
  BY DEF Init, Held, HeldBy
<1>2. NewConnection("ServerIn") \in Connections
  BY DEF NewConnection, Connections, Kinds, InKinds, OutKinds, States, Handles, Timers
<1>3. \A c \in Ids : conns[c] = NewConnection("ServerIn")
  BY DEF Init
<1>4. \A c \in Ids : ConnInv(conns[c]) /\ ~IsAccepted(c)
  BY <1>2, <1>3 DEF ConnInv, IsAccepted, NewConnection
<1>5. TypeOK
  BY <1>1, <1>2 DEF Init, TypeOK
<1>6. EntriesMatchHandles /\ LostOnlyByAddress /\ StopFinishesCloses /\ LoopInv
  BY <1>1, <1>4 DEF Init, EntriesMatchHandles, LostOnlyByAddress, StopFinishesCloses, LoopInv
<1> QED
  BY <1>4, <1>5, <1>6 DEF IndInv

(* A callback that leaves the map alone: in the events of an iteration, or *)
(* for a connection that is closing.                                       *)
LEMMA CallKeeps ==
  ASSUME IndInv, NEW c \in Ids, NEW s, loop # "ended", ~broken,
         conns[c].handle \in {"open", "closing"}, Goes(conns[c], s),
         loop = "closing" => conns[c].handle = "closing",
         Call(c, s, clients), UNCHANGED <<env, shown, loop, due, stop>>
  PROVE  IndInv'
<1> USE DEF env
<1>1. CASE conns[c].obj = "live" /\ Becomes(c, s, clients) /\ UNCHANGED broken
  <2>1. conns' = [d \in Ids |-> IF d = c THEN s ELSE conns[d]]
    BY <1>1 DEF Becomes, Held
  <2>2. clients' = clients /\ Held' = Held
    BY <1>1 DEF Becomes, Held
  <2>3. ConnInv(s) /\ s.handle \in {"open", "closing"} /\ s.obj = conns[c].obj
    BY DEF Goes
  <2>4. /\ \A d \in Ids : ConnInv(conns'[d]) /\ conns'[d].obj = conns[d].obj
        /\ \A d \in Ids : conns'[d].handle = "none" <=> conns[d].handle = "none"
        /\ \A d \in Ids : conns'[d].handle = "closed" <=> conns[d].handle = "closed"
        /\ \A d \in Ids : conns[d].handle \in {"open", "closing"}
                        <=> conns'[d].handle \in {"open", "closing"}
    BY <2>1, <2>3 DEF IndInv, ConnInv
  <2>5. conns' \in [Ids -> Connections]
    BY <2>1, <2>3 DEF IndInv, ConnInv
  <2>6. TypeOK'
    BY <1>1, <2>2, <2>5 DEF IndInv, TypeOK
  <2>7. LoopInv'
    <3>1. loop = "closing" => Closing' = Closing
      BY <2>1 DEF Closing, Goes
    <3> QED
      BY <1>1, <3>1 DEF IndInv, LoopInv
  <2>8. EntriesMatchHandles'
    BY <2>2, <2>4 DEF IndInv, TypeOK, EntriesMatchHandles, IsAccepted, Held, HeldBy
  <2>9. LostOnlyByAddress'
    BY <1>1, <2>4 DEF IndInv, LostOnlyByAddress, IsAccepted
  <2> QED
    BY <2>4, <2>6, <2>7, <2>8, <2>9 DEF IndInv, StopFinishesCloses
<1>2. CASE conns[c].obj = "freed" /\ broken' = TRUE /\ UNCHANGED <<conns, clients>>
  <2>1. \E d \in Ids \ {c} : IsAccepted(d) /\ shown[d] = shown[c]
    BY <1>2 DEF IndInv, LostOnlyByAddress, IsAccepted
  <2>2. LostOnlyByAddress'
    BY <1>2, <2>1 DEF IndInv, LostOnlyByAddress, IsAccepted
  <2>3. TypeOK' /\ LoopInv' /\ EntriesMatchHandles' /\ StopFinishesCloses'
    BY <1>2 DEF IndInv, TypeOK, LoopInv, Closing, EntriesMatchHandles, StopFinishesCloses,
                IsAccepted, Held, HeldBy
  <2> QED
    BY <1>2, <2>2, <2>3 DEF IndInv
<1> QED
  BY <1>1, <1>2 DEF Call

LEMMA IndReadMessage ==
  ASSUME IndInv, NEW c \in Ids, ReadMessage(c) PROVE IndInv'
<1>1. PICK m \in Messages, u \in Outcomes(conns[c]) :
        Call(c, Process(Receive(conns[c], m, u), u), clients)
  BY DEF ReadMessage
<1>2. ConnInv(conns[c]) /\ conns[c].handle = "open"
  BY DEF ReadMessage, IndInv, ConnInv
<1>3. Goes(conns[c], Process(Receive(conns[c], m, u), u))
  BY <1>2, MessageGoes
<1> QED
  BY <1>1, <1>2, <1>3, CallKeeps DEF ReadMessage

LEMMA IndReadStop ==
  ASSUME IndInv, NEW c \in Ids, ReadStop(c) PROVE IndInv'
<1>1. ConnInv(conns[c]) /\ conns[c].handle = "open"
  BY DEF ReadStop, IndInv, ConnInv
<1>2. Goes(conns[c], Close(conns[c], "eof"))
  BY <1>1, CloseGoes DEF Reasons
<1> QED
  BY <1>1, <1>2, CallKeeps DEF ReadStop

LEMMA IndWriteDone ==
  ASSUME IndInv, NEW c \in Ids, WriteDone(c) PROVE IndInv'
<1>1. PICK ok \in BOOLEAN, u \in Outcomes(conns[c]) :
        Call(c, OnWrite(conns[c], ok, u), clients)
  BY DEF WriteDone
<1>2. loop # "ended" /\ (loop = "closing" => c \in Closing)
  BY DEF WriteDone, IndInv, TypeOK, LoopInv
<1>3. ConnInv(conns[c]) /\ conns[c].handle \in {"open", "closing"} /\ conns[c].owed > 0
  BY <1>2 DEF WriteDone, IndInv, ConnInv
<1>4. Goes(conns[c], OnWrite(conns[c], ok, u))
  BY <1>3, WriteGoes
<1> QED
  BY <1>1, <1>2, <1>3, <1>4, CallKeeps DEF WriteDone, Closing

(* A new connection takes the entry of its address, and the object of who  *)
(* was there before.                                                       *)
LEMMA IndAccept ==
  ASSUME IndInv, NEW c \in Ids, Accept(c) PROVE IndInv'
<1> USE DEF env
<1> DEFINE a == IF remote[c] = "reset" THEN Unknown ELSE addr[c]
           map == Entered(c, a)
<1>1. PICK u \in Outcomes(conns[c]) :
        Becomes(c, DoRead(Accepted(conns[c]), u.read), map)
  BY DEF Accept
<1> DEFINE s == DoRead(Accepted(conns[c]), u.read)
<1>2. /\ loop = "events" /\ ~broken /\ ~IsAccepted(c) /\ shown' = [shown EXCEPT ![c] = a]
      /\ UNCHANGED <<env, loop, due, stop, broken>>
  BY DEF Accept
<1>3. ConnInv(s) /\ s.obj = "live" /\ s.handle \in {"open", "closing"}
  <2>1. ConnInv(conns[c]) /\ conns[c].handle = "none" /\ u.read \in BOOLEAN
    BY <1>2 DEF IndInv, IsAccepted, Outcomes
  <2> QED
    BY <2>1, AcceptGoes
<1>4. a \in Addrs \cup {Unknown} /\ shown'[c] = a
  BY <1>2 DEF IndInv, TypeOK
<1> HIDE DEF a, s
<1>5. c \notin Held
  BY <1>2 DEF IndInv, EntriesMatchHandles, IsAccepted, Held, HeldBy
<1>6. /\ clients' = map /\ DOMAIN map = DOMAIN clients \cup {a} /\ map[a] = c
      /\ \A b \in DOMAIN clients : b # a => map[b] = clients[b]
  BY <1>1 DEF Becomes, Entered
<1> HIDE DEF map
<1>7. Held' = HeldBy(map) /\ c \in Held' /\ Held' \subseteq Held \cup {c}
  BY <1>6 DEF Held, HeldBy
<1>8. \A d \in Held : shown[d] # a => d \in Held'
  BY <1>6 DEF Held, HeldBy, IndInv, EntriesMatchHandles
<1>9. \A d \in Held : shown[d] = a => d \notin Held'
  BY <1>5, <1>6 DEF Held, HeldBy, IndInv, EntriesMatchHandles
<1>10. conns' = [d \in Ids |-> IF d = c THEN s
                               ELSE IF d \in Held \ Held' THEN Freed(conns[d]) ELSE conns[d]]
  BY <1>1, <1>5, <1>7 DEF Becomes, s
<1>11. \A d \in Held \ Held' : /\ ConnInv(Freed(conns[d])) /\ Freed(conns[d]).obj = "freed"
                               /\ Freed(conns[d]).handle = conns[d].handle
  <2> SUFFICES ASSUME NEW d \in Held \ Held'
               PROVE  /\ ConnInv(Freed(conns[d])) /\ Freed(conns[d]).obj = "freed"
                      /\ Freed(conns[d]).handle = conns[d].handle
    OBVIOUS
  <2>1. ConnInv(conns[d]) /\ conns[d].handle # "none"
    BY <1>2 DEF IndInv, TypeOK, EntriesMatchHandles, Held, HeldBy
  <2> QED
    BY <2>1 DEF Freed, ConnInv, Connections
<1>12. \A d \in Ids : ConnInv(conns'[d])
  BY <1>2, <1>3, <1>10, <1>11 DEF IndInv
<1>13. conns' \in [Ids -> Connections]
  BY <1>3, <1>2, <1>10, <1>11 DEF IndInv, ConnInv
<1>14. \A d \in Ids \ {c} : conns'[d].handle = conns[d].handle /\ shown'[d] = shown[d]
  BY <1>2, <1>10, <1>11 DEF IndInv, TypeOK
<1>15. conns'[c] = s
  BY <1>10
<1>16. \A d \in Ids \ {c} : conns'[d].obj = (IF d \in Held \ Held' THEN "freed" ELSE conns[d].obj)
  BY <1>10, <1>11
<1>17. TypeOK'
  <2>1. Held' \subseteq Ids /\ DOMAIN clients' \subseteq Addrs \cup {Unknown}
    BY <1>4, <1>6, <1>7 DEF IndInv, TypeOK
  <2>2. shown' \in [Ids -> Addrs \cup {Unknown}]
    BY <1>2, <1>4 DEF IndInv, TypeOK
  <2> QED
    BY <1>2, <1>13, <2>1, <2>2 DEF IndInv, TypeOK
<1>18. LoopInv' /\ StopFinishesCloses'
  BY <1>2 DEF IndInv, LoopInv, StopFinishesCloses
<1>19. EntriesMatchHandles'
  <2>1. ASSUME NEW b \in DOMAIN clients'
        PROVE  /\ shown'[clients'[b]] = b
               /\ conns'[clients'[b]].handle \in {"open", "closing"}
    <3>1. CASE b = a
      BY <1>3, <1>4, <1>6, <1>15, <3>1
    <3>2. CASE b # a
      <4>1. b \in DOMAIN clients /\ clients'[b] = clients[b] /\ clients[b] \in Held
        BY <1>6, <2>1, <3>2 DEF Held, HeldBy
      <4>2. clients[b] \in Ids \ {c}
        BY <1>5, <4>1 DEF IndInv, TypeOK
      <4> QED
        BY <1>14, <4>1, <4>2 DEF IndInv, EntriesMatchHandles
    <3> QED
      BY <3>1, <3>2
  <2>2. ASSUME NEW d \in Ids, IsAccepted(d)'
        PROVE  conns'[d].obj = "live" <=> d \in Held'
    <3>1. CASE d = c
      BY <1>3, <1>7, <1>15, <3>1
    <3>2. CASE d # c
      <4>1. conns[d].obj = "live" <=> d \in Held
        BY <1>14, <2>2, <3>2 DEF IndInv, EntriesMatchHandles, IsAccepted
      <4> QED
        BY <1>7, <1>16, <3>2, <4>1
    <3> QED
      BY <3>1, <3>2
  <2> QED
    BY <2>1, <2>2 DEF EntriesMatchHandles
<1>20. LostOnlyByAddress'
  <2>1. ASSUME NEW d \in Ids, IsAccepted(d)', conns'[d].handle # "closed", conns'[d].obj = "freed"
        PROVE  \E e \in Ids \ {d} : IsAccepted(e)' /\ shown'[e] = shown'[d]
    <3>1. d # c /\ IsAccepted(d) /\ conns[d].handle # "closed"
      BY <1>3, <1>14, <1>15, <2>1 DEF IsAccepted
    <3>2. CASE d \in Held
      <4>1. d \notin Held'
        BY <1>16, <2>1, <3>1, <3>2 DEF IndInv, EntriesMatchHandles
      <4>2. shown[d] = a
        BY <1>8, <3>2, <4>1
      <4> QED
        BY <1>3, <1>4, <1>14, <1>15, <3>1, <4>2 DEF IsAccepted
    <3>3. CASE d \notin Held
      <4>1. conns[d].obj = "freed"
        BY <1>16, <2>1, <3>1, <3>3
      <4>2. PICK e \in Ids \ {d} : IsAccepted(e) /\ shown[e] = shown[d]
        BY <3>1, <4>1 DEF IndInv, LostOnlyByAddress
      <4>3. e # c
        BY <1>2, <4>2
      <4> QED
        BY <1>14, <3>1, <4>2, <4>3 DEF IsAccepted
    <3> QED
      BY <3>2, <3>3
  <2> QED
    BY <1>2, <2>1 DEF LostOnlyByAddress
<1> QED
  BY <1>2, <1>12, <1>17, <1>18, <1>19, <1>20 DEF IndInv

(* The close callback takes the entry of its connection, and no other.     *)
LEMMA IndCloseDone ==
  ASSUME IndInv, NEW c \in Ids, CloseDone(c) PROVE IndInv'
<1> USE DEF env
<1> DEFINE s == OnClose(conns[c])
           map == [a \in Without(c) |-> clients[a]]
<1>1. /\ loop = "closing" /\ ~broken /\ due = Closing /\ c \in Closing /\ conns[c].owed = 0
      /\ due' = due \ {c} /\ UNCHANGED <<env, shown, loop, stop>>
  BY DEF CloseDone, IndInv, LoopInv
<1>2. CASE conns[c].obj = "live" /\ Becomes(c, s, map) /\ UNCHANGED broken
  <2>1. ConnInv(s) /\ s.handle = "closed" /\ s.obj = "freed"
    BY <1>1, CloseDoneGoes DEF IndInv, Closing
  <2> HIDE DEF s
  <2>2. /\ clients' = map /\ DOMAIN map = Without(c)
        /\ \A a \in Without(c) : map[a] = clients[a]
    BY <1>2 DEF Becomes
  <2>3. Held' = HeldBy(map)
    BY <2>2 DEF Held
  <2>4. Held' = Held \ {c}
    BY <2>2 DEF Held, HeldBy, Without
  <2>5. conns' = [d \in Ids |-> IF d = c THEN s ELSE conns[d]]
    <3>1. /\ \A d \in Ids \ {c} : d \notin Held \ HeldBy(map)
      BY <2>3, <2>4
    <3>2. Freed(s) = s
      BY <2>1 DEF Freed, ConnInv, Connections
    <3> HIDE DEF map
    <3> QED
      BY <1>2, <3>1, <3>2 DEF Becomes
  <2>6. \A d \in Ids : ConnInv(conns'[d])
    BY <1>1, <2>1, <2>5 DEF IndInv
  <2>7. TypeOK'
    <3>1. conns' \in [Ids -> Connections]
      BY <2>1, <2>5 DEF IndInv, TypeOK, ConnInv
    <3>2. DOMAIN clients' \subseteq Addrs \cup {Unknown} /\ Held' \subseteq Ids
      BY <2>2, <2>4 DEF IndInv, TypeOK, Without
    <3> QED
      BY <1>1, <1>2, <3>1, <3>2 DEF IndInv, TypeOK
  <2>8. LoopInv'
    <3>1. Closing' = Closing \ {c}
      BY <2>1, <2>5 DEF Closing
    <3> QED
      BY <1>1, <3>1 DEF LoopInv
  <2>9. EntriesMatchHandles'
    <3>1. ASSUME NEW a \in DOMAIN clients'
          PROVE  /\ shown'[clients'[a]] = a
                 /\ conns'[clients'[a]].handle \in {"open", "closing"}
      <4>1. a \in DOMAIN clients /\ clients'[a] = clients[a] /\ clients[a] # c
        BY <2>2, <3>1 DEF Without
      <4>2. clients[a] \in Ids
        BY <4>1 DEF IndInv, TypeOK, Held, HeldBy
      <4> QED
        BY <1>1, <2>5, <4>1, <4>2 DEF IndInv, EntriesMatchHandles
    <3>2. ASSUME NEW d \in Ids, IsAccepted(d)'
          PROVE  conns'[d].obj = "live" <=> d \in Held'
      BY <2>1, <2>4, <2>5, <3>2 DEF IndInv, EntriesMatchHandles, IsAccepted
    <3> QED
      BY <3>1, <3>2 DEF EntriesMatchHandles
  <2>10. LostOnlyByAddress'
    BY <1>1, <1>2, <2>1, <2>5 DEF IndInv, LostOnlyByAddress, IsAccepted, Closing
  <2>11. StopFinishesCloses'
    BY <1>1 DEF StopFinishesCloses
  <2> QED
    BY <2>6, <2>7, <2>8, <2>9, <2>10, <2>11 DEF IndInv
<1>3. CASE conns[c].obj = "freed" /\ broken' = TRUE /\ UNCHANGED <<conns, clients>>
  <2>1. \E d \in Ids \ {c} : IsAccepted(d) /\ shown[d] = shown[c]
    BY <1>1, <1>3 DEF IndInv, LostOnlyByAddress, IsAccepted, Closing
  <2>2. LostOnlyByAddress'
    BY <1>1, <1>3, <2>1 DEF IndInv, LostOnlyByAddress, IsAccepted, Closing
  <2>3. TypeOK' /\ LoopInv' /\ EntriesMatchHandles' /\ StopFinishesCloses'
    BY <1>1, <1>3 DEF IndInv, TypeOK, LoopInv, EntriesMatchHandles, StopFinishesCloses,
                      IsAccepted, Held, HeldBy
  <2> QED
    BY <1>1, <1>3, <2>2, <2>3 DEF IndInv
<1> QED
  BY <1>2, <1>3 DEF CloseDone, Call

-----------------------------------------------------------------------------
(* The other sides, the loop and the main thread *)

LEMMA IndEnvironment ==
  ASSUME IndInv, UNCHANGED <<shown, conns, clients, loop, due, broken>>,
         \/ \E c \in Ids, a \in Addrs : Arrive(c, a)
         \/ \E c \in Ids, how \in {"closed", "reset"} : Leave(c, how)
         \/ UvStop
         \/ UNCHANGED vars
  PROVE  IndInv'
<1>1. TypeOK'
  BY ZenonT(30) DEF IndInv, TypeOK, Arrive, Leave, UvStop, vars, env, Held, HeldBy
<1>2. stop => stop'
  BY DEF Arrive, Leave, UvStop, vars
<1> QED
  BY <1>1, <1>2 DEF IndInv, LoopInv, Closing, EntriesMatchHandles, LostOnlyByAddress,
                    StopFinishesCloses, IsAccepted, Held, HeldBy

LEMMA IndIterate == ASSUME IndInv, EndEvents \/ NextIteration PROVE IndInv'
<1>1. TypeOK'
  BY DEF IndInv, TypeOK, EndEvents, NextIteration, Closing, env, Held, HeldBy
<1>2. LoopInv'
  BY DEF IndInv, LoopInv, EndEvents, NextIteration, Closing
<1> QED
  BY <1>1, <1>2 DEF EndEvents, NextIteration, IndInv, EntriesMatchHandles,
                    LostOnlyByAddress, StopFinishesCloses, IsAccepted, Held, HeldBy, env

(* uv_walk.                                                                *)
LEMMA IndWalk == ASSUME IndInv, Walk PROVE IndInv'
<1> USE DEF env
<1>1. /\ loop = "closing" /\ stop /\ due = {} /\ ~broken /\ loop' = "ended"
      /\ UNCHANGED <<env, shown, clients, due, stop, broken>>
  BY DEF Walk
<1>2. conns' = [c \in Ids |-> IF IsAccepted(c) /\ conns[c].handle # "closed"
                              THEN [conns[c] EXCEPT !.handle = "closing", !.reading = FALSE]
                              ELSE conns[c]]
  BY DEF Walk
<1>3. \A c \in Ids : /\ conns'[c] \in Connections /\ conns'[c].obj = conns[c].obj
                     /\ conns'[c].handle # "open" /\ ~conns'[c].reading
                     /\ conns'[c].handle = "none" <=> conns[c].handle = "none"
                     /\ conns'[c].handle = "closed" <=> conns[c].handle = "closed"
                     /\ conns[c].handle \in {"open", "closing"} => conns'[c].handle = "closing"
  <2> SUFFICES ASSUME NEW c \in Ids
               PROVE  /\ conns'[c] \in Connections /\ conns'[c].obj = conns[c].obj
                      /\ conns'[c].handle # "open" /\ ~conns'[c].reading
                      /\ conns'[c].handle = "none" <=> conns[c].handle = "none"
                      /\ conns'[c].handle = "closed" <=> conns[c].handle = "closed"
                      /\ conns[c].handle \in {"open", "closing"} => conns'[c].handle = "closing"
    OBVIOUS
  <2>1. ConnInv(conns[c])
    BY <1>1 DEF IndInv
  <2>2. CASE conns[c].handle \in {"open", "closing"}
    <3>1. conns'[c] = [conns[c] EXCEPT !.handle = "closing", !.reading = FALSE]
      BY <1>2, <2>2 DEF IsAccepted
    <3> QED
      BY <2>1, <2>2, <3>1 DEF ConnInv, Connections, Handles
  <2>3. CASE conns[c].handle \in {"none", "closed"}
    <3>1. conns'[c] = conns[c]
      BY <1>2, <2>3 DEF IsAccepted
    <3> QED
      BY <2>1, <2>3, <3>1 DEF ConnInv, Connections
  <2> QED
    BY <2>1, <2>2, <2>3 DEF ConnInv
<1>4. conns' \in [Ids -> Connections]
  BY <1>2, <1>3
<1>5. TypeOK'
  BY <1>1, <1>4 DEF IndInv, TypeOK, Held, HeldBy
<1>6. EntriesMatchHandles'
  BY <1>1, <1>3 DEF IndInv, TypeOK, EntriesMatchHandles, IsAccepted, Held, HeldBy
<1>7. LostOnlyByAddress'
  BY <1>1, <1>3 DEF IndInv, LostOnlyByAddress, IsAccepted
<1>8. StopFinishesCloses'
  <2> SUFFICES ASSUME NEW c \in Ids, conns'[c].why # {}
               PROVE  conns'[c].handle = "closed" /\ c \notin Held'
    BY DEF StopFinishesCloses
  <2>1. ConnInv(conns[c]) /\ conns[c].why # {}
    BY <1>1, <1>2 DEF IndInv, ConnInv, Connections
  <2>2. conns[c].handle # "closing"
    BY <1>1 DEF IndInv, LoopInv, Closing
  <2>3. conns[c].handle = "closed"
    BY <2>1, <2>2 DEF ConnInv
  <2> QED
    BY <1>1, <1>3, <1>6, <2>3 DEF EntriesMatchHandles, Held, HeldBy
<1>9. LoopInv'
  BY <1>1 DEF LoopInv
<1> QED
  BY <1>1, <1>5, <1>6, <1>7, <1>8, <1>9 DEF IndInv

-----------------------------------------------------------------------------
(* The registry, the connections and the iteration agree in every state    *)
(* that can be reached, however many clients come, leave and come back.    *)
THEOREM Invariance == Spec => []IndInv
<1>1. IndInv /\ [Next]_vars => IndInv'
  <2> SUFFICES ASSUME IndInv, [Next]_vars PROVE IndInv'
    OBVIOUS
  <2>1. CASE UNCHANGED vars
    BY <2>1, IndEnvironment DEF vars
  <2>2. CASE UvStop
    BY <2>2, IndEnvironment DEF UvStop
  <2>3. CASE Iterate
    BY <2>3, IndIterate, IndWalk DEF Iterate
  <2>4. ASSUME NEW c \in Ids, NEW a \in Addrs, Arrive(c, a) PROVE IndInv'
    BY <2>4, IndEnvironment DEF Arrive
  <2>5. ASSUME NEW c \in Ids, NEW how \in {"closed", "reset"}, Leave(c, how) PROVE IndInv'
    BY <2>5, IndEnvironment DEF Leave
  <2>6. ASSUME NEW c \in Ids, Callback(c) PROVE IndInv'
    BY <2>6, IndAccept, IndReadMessage, IndReadStop, IndWriteDone, IndCloseDone DEF Callback
  <2> QED
    BY <2>1, <2>2, <2>3, <2>4, <2>5, <2>6 DEF Next
<1> QED
  BY <1>1, IndInit, PTL DEF Spec

(* Every variable keeps its shape.                                         *)
THEOREM TypeCorrect == Spec => []TypeOK
<1>1. IndInv => TypeOK
  BY DEF IndInv
<1> QED
  BY <1>1, Invariance, PTL

(* An entry of myClients is a connection that is there, and an object is   *)
(* alive exactly while it has an entry (app.cpp:48, 60).                   *)
THEOREM MapIsExact == Spec => []EntriesMatchHandles
<1>1. IndInv => EntriesMatchHandles
  BY DEF IndInv
<1> QED
  BY <1>1, Invariance, PTL

(* Freed memory is used only if two connections went by one address.       *)
THEOREM LossNeedsSharedAddress == Spec => []LostOnlyByAddress
<1>1. IndInv => LostOnlyByAddress
  BY DEF IndInv
<1> QED
  BY <1>1, Invariance, PTL

(* When the loop is deleted, every close() has had its callback, and the   *)
(* map holds none of those connections any more (net_handler.cpp:68).      *)
THEOREM ClosesAreFinished == Spec => []StopFinishesCloses
<1>1. IndInv => StopFinishesCloses
  BY DEF IndInv
<1> QED
  BY <1>1, Invariance, PTL

(* on_walk never closes a handle that is closing already.                  *)
THEOREM WalkIsSafe == Spec => WalkFindsNoneClosing
<1>1. IndInv /\ [Next]_vars => [loop' = "ended" /\ loop # "ended" => Closing = {}]_vars
  <2> SUFFICES ASSUME IndInv, Next, loop' = "ended", loop # "ended"
               PROVE  Closing = {}
    OBVIOUS
  <2>1. Walk
    BY DEF Next, Arrive, Leave, Callback, Accept, ReadMessage, ReadStop, WriteDone, CloseDone,
           Iterate, EndEvents, NextIteration, UvStop
  <2> QED
    BY <2>1 DEF Walk, IndInv, LoopInv
<1> QED
  BY <1>1, Invariance, PTL DEF Spec, WalkFindsNoneClosing
=============================================================================
